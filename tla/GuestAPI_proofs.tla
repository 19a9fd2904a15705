--------------------------- MODULE GuestAPI_proofs ---------------------------
(***************************************************************************)
(* What GuestAPI and SSHDial promise, for any number of addresses and of     *)
(* pieces of the answer, proved with TLAPS.                                  *)
(***************************************************************************)
EXTENDS GuestAPI, SequenceTheorems, TLAPS

-----------------------------------------------------------------------------
(* The dialling: in time, every connection that was made, sent or received   *)
(* is open until the caller closes its own, and nobody has an error.          *)


\* A goroutine reports only after it has connected.
DialersHaveClients ==
  \A a \in Addresses : dialer[a] \in {"sendClient", "sendError"} => dialed[a] # None

\* Until the caller has received its client it closes none.
AllOpen == waiter = "recvClient" =>
             /\ \A i \in 1 .. Len(clientChan) : clientChan[i] \in open
             /\ \A a \in Addresses : dialer[a] = "sendClient" => dialed[a] \in open

NoErrors == err = None /\ \A i \in 1 .. Len(errorChan) : errorChan[i] = None

CallerHasClient == waiter \in {"recvError", "closeDone", "use", "session"} => client \in open

InTime == ~late => /\ DialersHaveClients /\ AllOpen /\ NoErrors /\ CallerHasClient
                   /\ waiter # "panicked"

-----------------------------------------------------------------------------
(* The request.                                                             *)

\* The pieces of an answer exist when the guest has the request, and no more than it sends.
Pieces == /\ wire + got <= Packets
          /\ request # "taken" => wire = 0 /\ got = 0

\* Before the HTTP client connects nothing else of the tunnel runs.
NotYet == /\ main \in {"dial", "listen", "get"} =>
               /\ local = "none" /\ request = "none" /\ handler = "none" /\ copier = "none"
               /\ ~tunnelError /\ ~returned
          /\ main \in {"dial", "listen"} => acceptor = "none"

\* How far the goroutines of the connection have come, and with them the HTTP client.
Connection ==
  /\ (handler = "none" <=> local \in {"none", "pending"})
  /\ handler \in {"dial", "copy", "close"} => local = "accepted"
  /\ local \in {"pending", "accepted"} /\ got = 0 => main = "headers"
  /\ handler \in {"none", "dial", "refused"} => copier = "none" /\ got = 0

\* Until it is read, the shared error is the refusal of the guest and nothing else.
SharedError ==
  /\ handler = "refused" => tunnelError
  /\ main \in {"get", "headers", "return", "closeListener"} => listener
  /\ acceptor = "ended" => main \in {"closeClient", "answer", "ended"}
  /\ tunnelError /\ main \in {"headers", "return"} => handler = "refused"

\* What WithSSHTunnel returns says whether the guest refused.
ReturnedError ==
  /\ returned => main \notin {"headers", "return"} /\ handler \in {"none", "refused"}
  /\ handler = "refused" /\ main \in {"closeListener", "closeClient", "answer"} => returned
  /\ handler = "refused" /\ main = "ended" => result = "tunnel"
  /\ result = "tunnel" => main = "ended" /\ handler \in {"none", "refused"}

\* Without an error there is an answer.
HasAnswer == main \in {"return", "closeListener", "closeClient", "answer"}
               /\ ~returned /\ ~errInTunnel => got > 0

\* The guest answers what it was asked.
AnswerIsTrue ==
  /\ Report \in seen
  /\ (request = "taken" <=> answer # "none")
  /\ answer \in Statuses => op = "status" /\ answer \in seen
  /\ answer = "garbled" => op = "status"
  /\ answer = "done" => op = "replace" /\ replaced

\* What has reached the guest has a connection that nobody hangs up, and an HTTP
\* client that was hung up on has nothing from the guest.
Delivered ==
  /\ request \in {"guest", "taken"} => handler = "copy"
  /\ errInTunnel => local = "closed"
  /\ result # "none" => main = "ended"

TunnelInv == Pieces /\ NotYet /\ Connection /\ SharedError /\ ReturnedError /\ HasAnswer
               /\ AnswerIsTrue /\ Delivered /\ ResultIsTrue

IInv == TypeOK /\ InTime /\ TunnelInv

-----------------------------------------------------------------------------
(* Types.                                                                   *)

LEMMA DialTypeInit == DialInit => DialTypeOK
<1> SUFFICES ASSUME DialInit PROVE DialTypeOK
  OBVIOUS
<1>1. clientChan \in Seq(Clients) /\ errorChan \in Seq({None, TimedOut})
  BY EmptySeq DEF DialInit
<1>2. /\ dialer \in [Addresses -> {"select", "dial", "sendClient", "sendError", "ended"}]
      /\ dialed \in [Addresses -> Clients]
  BY DEF DialInit, Clients
<1>3. QED BY <1>1, <1>2 DEF DialInit, DialTypeOK, Clients

LEMMA DialerType ==
  ASSUME DialTypeOK, NEW a \in Addresses, Dialer(a)
  PROVE  DialTypeOK'
<1> USE DEF DialTypeOK, chans
<1>1. CASE TimesOut(a) \/ GivesUp(a) \/ Tries(a) \/ DialFails(a)
  BY <1>1 DEF TimesOut, GivesUp, Tries, DialFails, DialerGoes
<1>2. CASE Connects(a)
  BY <1>2 DEF Connects, DialerGoes, Clients
<1>3. CASE SendsClient(a)
  BY <1>3 DEF SendsClient, DialerGoes, Clients
<1>4. CASE SendsError(a)
  BY <1>4 DEF SendsError, ErrorOf, DialerGoes
<1>5. QED BY <1>1, <1>2, <1>3, <1>4 DEF Dialer

LEMMA WaiterType ==
  ASSUME DialTypeOK, Waiter
  PROVE  DialTypeOK'
<1> USE DEF DialTypeOK, chans
<1>1. CASE ReceivesClient
  <2>1. Head(clientChan) \in Clients /\ Tail(clientChan) \in Seq(Clients)
    BY <1>1, HeadTailProperties DEF ReceivesClient
  <2>2. QED BY <1>1, <2>1 DEF ReceivesClient
<1>2. CASE ReceivesError
  <2>1. Head(errorChan) \in {None, TimedOut} /\ Tail(errorChan) \in Seq({None, TimedOut})
    BY <1>2, HeadTailProperties DEF ReceivesError
  <2>2. QED BY <1>2, <2>1 DEF ReceivesError
<1>3. CASE ClosesDone
  BY <1>3 DEF ClosesDone
<1>4. CASE UsesClient
  BY <1>4 DEF UsesClient
<1>5. QED BY <1>1, <1>2, <1>3, <1>4 DEF Waiter

LEMMA DialTypeNext ==
  ASSUME DialTypeOK, Dialing \/ ClosesClient \/ UNCHANGED dialVars
  PROVE  DialTypeOK'
<1>1. CASE \E a \in Addresses : Dialer(a)
  BY <1>1, DialerType
<1>2. CASE Waiter
  BY <1>2, WaiterType
<1>3. CASE GuestComesUp \/ TimePasses \/ ClosesClient \/ UNCHANGED dialVars
  BY <1>3 DEF GuestComesUp, TimePasses, ClosesClient, dialVars, chans, DialTypeOK
<1>4. QED BY <1>1, <1>2, <1>3 DEF Dialing

\* Whatever the step, the dialing does one of its own or none.
LEMMA DialStep ==
  [Next]_vars => Dialing \/ ClosesClient \/ UNCHANGED dialVars
BY DEF Next, vars, Caller, Tunnel, NoTunnel, HasClient, Listens, ListenFails, Gets, GetReturns,
       ReturnsTunnelError, ClosesListener, ClosesTunnel, Answers, ReadsBody, Accepts, AcceptFails,
       DialsAPI, APIRefuses, HangsUp, CopiesRequest, CopiesAnswer, CopierEnds, GuestAnswers,
       GuestSendsMore, GuestChanges, ConnectionBreaks

-----------------------------------------------------------------------------
(* The dialling.                                                            *)

LEMMA InTimeInit == DialInit => InTime
BY DEF DialInit, InTime, DialersHaveClients, AllOpen, NoErrors, CallerHasClient

LEMMA InTimeDialer ==
  ASSUME DialTypeOK, InTime, NEW a \in Addresses, Dialer(a)
  PROVE  InTime'
<1> USE DEF DialTypeOK, InTime, chans
<1>1. CASE TimesOut(a)
  BY <1>1 DEF TimesOut
<1>2. CASE GivesUp(a) \/ Tries(a) \/ DialFails(a)
  BY <1>2 DEF GivesUp, Tries, DialFails, DialerGoes, DialersHaveClients, AllOpen, NoErrors, CallerHasClient
<1>3. CASE Connects(a)
  BY <1>3, NoneAssumption DEF Connects, DialerGoes, DialersHaveClients, AllOpen, NoErrors, CallerHasClient
<1>4. CASE SendsClient(a)
  <2>1. dialed[a] \in Clients BY <1>4
  <2>2. \A i \in 1 .. Len(clientChan') :
            clientChan'[i] = IF i = Len(clientChan) + 1 THEN dialed[a] ELSE clientChan[i]
    BY <1>4, <2>1, AppendProperties DEF SendsClient
  <2>3. Len(clientChan') = Len(clientChan) + 1
    BY <1>4, <2>1, AppendProperties DEF SendsClient
  <2>4. ~late => AllOpen'
    BY <1>4, <2>2, <2>3, LenProperties DEF SendsClient, DialerGoes, AllOpen
  <2>5. QED BY <1>4, <2>4 DEF SendsClient, DialerGoes, DialersHaveClients, NoErrors, CallerHasClient
<1>5. CASE SendsError(a)
  <2>1. ~late => ErrorOf(a) = None
    BY <1>5 DEF SendsError, ErrorOf, DialersHaveClients
  <2>2. ErrorOf(a) \in {None, TimedOut} BY DEF ErrorOf
  <2>3. /\ Len(errorChan') = Len(errorChan) + 1
        /\ \A i \in 1 .. Len(errorChan') :
            errorChan'[i] = IF i = Len(errorChan) + 1 THEN ErrorOf(a) ELSE errorChan[i]
    BY <1>5, <2>2, AppendProperties DEF SendsError
  <2>4. ~late => NoErrors'
    BY <1>5, <2>1, <2>3, LenProperties DEF SendsError, NoErrors
  <2>5. QED BY <1>5, <2>4 DEF SendsError, DialerGoes, DialersHaveClients, AllOpen, CallerHasClient
<1>6. QED BY <1>1, <1>2, <1>3, <1>4, <1>5 DEF Dialer

LEMMA InTimeWaiter ==
  ASSUME DialTypeOK, InTime, Waiter \/ ClosesClient
  PROVE  InTime'
<1> USE DEF DialTypeOK, InTime, chans
<1>1. CASE ReceivesClient
  <2>1. Head(clientChan) = clientChan[1] /\ Len(clientChan) \in Nat /\ Len(clientChan) > 0
    BY <1>1, HeadTailProperties, EmptySeq, LenProperties DEF ReceivesClient
  <2>2. ~late => client' \in open
    BY <1>1, <2>1 DEF ReceivesClient, AllOpen
  <2>3. QED BY <1>1, <2>2 DEF ReceivesClient, DialersHaveClients, AllOpen, NoErrors, CallerHasClient
<1>2. CASE ReceivesError
  <2>1. /\ Head(errorChan) = errorChan[1] /\ Len(errorChan) \in Nat /\ Len(errorChan) > 0
        /\ Len(errorChan') = Len(errorChan) - 1
        /\ \A i \in 1 .. Len(errorChan') : errorChan'[i] = errorChan[i + 1]
    BY <1>2, HeadTailProperties, EmptySeq, LenProperties DEF ReceivesError
  <2>2. ~late => NoErrors'
    BY <1>2, <2>1 DEF ReceivesError, NoErrors
  <2>3. QED BY <1>2, <2>2 DEF ReceivesError, DialersHaveClients, AllOpen, CallerHasClient
<1>3. CASE ClosesDone
  BY <1>3 DEF ClosesDone, DialersHaveClients, AllOpen, NoErrors, CallerHasClient
<1>4. CASE UsesClient
  BY <1>4, NoneAssumption DEF UsesClient, DialersHaveClients, AllOpen, NoErrors, CallerHasClient
<1>5. CASE ClosesClient
  BY <1>5 DEF ClosesClient, DialersHaveClients, AllOpen, NoErrors, CallerHasClient
<1>6. QED BY <1>1, <1>2, <1>3, <1>4, <1>5 DEF Waiter

LEMMA InTimeNext ==
  ASSUME DialTypeOK, InTime, Dialing \/ ClosesClient \/ UNCHANGED dialVars
  PROVE  InTime'
<1>1. CASE \E a \in Addresses : Dialer(a)
  BY <1>1, InTimeDialer
<1>2. CASE Waiter \/ ClosesClient
  BY <1>2, InTimeWaiter
<1>3. CASE GuestComesUp \/ TimePasses \/ UNCHANGED dialVars
  BY <1>3 DEF GuestComesUp, TimePasses, dialVars, chans, InTime, DialersHaveClients, AllOpen, NoErrors,
              CallerHasClient
<1>4. QED BY <1>1, <1>2, <1>3 DEF Dialing

-----------------------------------------------------------------------------
(* The request.                                                             *)

LEMMA TunnelInit == Init => TypeOK /\ TunnelInv
<1> SUFFICES ASSUME Init PROVE TypeOK /\ TunnelInv
  OBVIOUS
<1>1. DialTypeOK BY DialTypeInit DEF Init
<1>2. Report \in Statuses BY DEF Report, Statuses
<1>3. wire \in 0 .. Packets /\ got \in 0 .. Packets /\ seen \subseteq Statuses
  BY <1>2, PacketsAssumption DEF Init
<1>4. TypeOK
  BY <1>1, <1>3, OpsAssumption DEF Init, TypeOK, Statuses
<1>5. Pieces /\ NotYet /\ Connection /\ SharedError /\ ReturnedError /\ HasAnswer
  BY PacketsAssumption DEF Init, Pieces, NotYet, Connection, SharedError, ReturnedError, HasAnswer
<1>6. AnswerIsTrue /\ Delivered /\ ResultIsTrue
  BY DEF Init, AnswerIsTrue, Delivered, ResultIsTrue, Report, Statuses
<1>7. QED BY <1>4, <1>5, <1>6 DEF TunnelInv

LEMMA CallerTunnel ==
  ASSUME TypeOK, TunnelInv, Caller, DialTypeOK'
  PROVE  TypeOK' /\ TunnelInv'
<1> USE PacketsAssumption DEF TypeOK, TunnelInv, Pieces, NotYet, Connection, SharedError, ReturnedError,
                HasAnswer, AnswerIsTrue, Delivered, ResultIsTrue, Statuses, Report, tunnelVars, plugin, guest
<1>1. CASE NoTunnel BY <1>1 DEF NoTunnel, Ends
<1>2. CASE HasClient BY <1>2 DEF HasClient
<1>3. CASE Listens BY <1>3 DEF Listens
<1>4. CASE ListenFails BY <1>4 DEF ListenFails
<1>5. CASE Gets BY <1>5 DEF Gets
<1>6. CASE GetReturns
  <2>1. TypeOK' BY <1>6 DEF GetReturns
  <2>2. Pieces' /\ NotYet' BY <1>6 DEF GetReturns
  <2>3. Connection' BY <1>6 DEF GetReturns
  <2>4. SharedError' BY <1>6 DEF GetReturns
  <2>5. ReturnedError' BY <1>6 DEF GetReturns
  <2>6. errInTunnel' = FALSE => got # 0 BY <1>6 DEF GetReturns
  <2>7. got # 0 => got > 0 OBVIOUS
  <2>8. HasAnswer' BY <1>6, <2>6, <2>7 DEF GetReturns
  <2>9. AnswerIsTrue' /\ Delivered' /\ ResultIsTrue' BY <1>6 DEF GetReturns
  <2>10. QED BY <2>1, <2>2, <2>3, <2>4, <2>5, <2>8, <2>9
<1>7. CASE ReturnsTunnelError BY <1>7 DEF ReturnsTunnelError
<1>8. CASE ClosesListener
  <2>1. (\A b \in {listener, tunnelError, returned, errInTunnel, api, healthy, replaced} : b \in BOOLEAN)'
    BY <1>8 DEF ClosesListener
  <2>2. TypeOK' BY <1>8, <2>1 DEF ClosesListener
  <2>3. Pieces' /\ NotYet' BY <1>8 DEF ClosesListener
  <2>4. Connection' BY <1>8 DEF ClosesListener
  <2>5. SharedError' BY <1>8 DEF ClosesListener
  <2>6. ReturnedError' BY <1>8 DEF ClosesListener
  <2>7. HasAnswer' BY <1>8 DEF ClosesListener
  <2>8. AnswerIsTrue' /\ Delivered' /\ ResultIsTrue' BY <1>8 DEF ClosesListener
  <2>9. QED BY <2>2, <2>3, <2>4, <2>5, <2>6, <2>7, <2>8
<1>9. CASE ClosesTunnel BY <1>9 DEF ClosesTunnel
<1>10. CASE Answers BY <1>10 DEF Answers, Ends, Outcome
<1>11. CASE ReadsBody
  <2>1. /\ main = "answer" /\ main' = "ended" /\ got = Packets
        /\ ~returned /\ ~errInTunnel /\ answer # "failed" /\ op # "replace"
    BY <1>11 DEF ReadsBody, Ends, Outcome
  <2>2. answer \in Statuses \cup {"garbled"}
    BY <2>1 DEF HasAnswer, Pieces, AnswerIsTrue
  <2>3. result' \in Statuses \cup {"err"} /\ (result' \in Statuses => result' = answer)
    BY <1>11, <2>2 DEF ReadsBody, Ends
  <2>4. TypeOK' BY <1>11, <2>1, <2>3 DEF ReadsBody
  <2>5. AnswerIsTrue' /\ Delivered' /\ ResultIsTrue' BY <1>11, <2>1, <2>2, <2>3 DEF ReadsBody
  <2>6. Pieces' /\ NotYet' /\ Connection' /\ HasAnswer' BY <1>11, <2>1 DEF ReadsBody
  <2>7. result' # "tunnel" BY <2>3 DEF Statuses
  <2>8. SharedError' BY <1>11, <2>1, <2>7 DEF ReadsBody
  <2>9. ReturnedError' BY <1>11, <2>1, <2>7 DEF ReadsBody
  <2>10. QED BY <2>4, <2>5, <2>6, <2>8, <2>9
<1>12. QED BY <1>1, <1>2, <1>3, <1>4, <1>5, <1>6, <1>7, <1>8, <1>9, <1>10, <1>11 DEF Caller

LEMMA GoroutineTunnel ==
  ASSUME TypeOK, TunnelInv, Tunnel, DialTypeOK'
  PROVE  TypeOK' /\ TunnelInv'
<1> USE PacketsAssumption DEF TypeOK, TunnelInv, Pieces, NotYet, Connection, SharedError, ReturnedError,
                HasAnswer, AnswerIsTrue, Delivered, ResultIsTrue, Statuses, Report, tunnelVars, plugin, guest
<1>1. CASE Accepts
  <2>1. TypeOK' BY <1>1 DEF Accepts
  <2>2. Pieces' /\ NotYet' BY <1>1 DEF Accepts
  <2>3. Connection' BY <1>1 DEF Accepts
  <2>4. SharedError' BY <1>1 DEF Accepts
  <2>5. ReturnedError' BY <1>1 DEF Accepts
  <2>6. HasAnswer' BY <1>1 DEF Accepts
  <2>7. AnswerIsTrue' /\ Delivered' /\ ResultIsTrue' BY <1>1 DEF Accepts
  <2>8. QED BY <2>1, <2>2, <2>3, <2>4, <2>5, <2>6, <2>7
<1>2. CASE AcceptFails
  <2>1. TypeOK' BY <1>2 DEF AcceptFails
  <2>2. Pieces' /\ NotYet' BY <1>2 DEF AcceptFails
  <2>3. Connection' BY <1>2 DEF AcceptFails
  <2>4. SharedError' BY <1>2 DEF AcceptFails
  <2>5. ReturnedError' BY <1>2 DEF AcceptFails
  <2>6. HasAnswer' BY <1>2 DEF AcceptFails
  <2>7. AnswerIsTrue' /\ Delivered' /\ ResultIsTrue' BY <1>2 DEF AcceptFails
  <2>8. QED BY <2>1, <2>2, <2>3, <2>4, <2>5, <2>6, <2>7
<1>3. CASE DialsAPI BY <1>3 DEF DialsAPI
<1>4. CASE APIRefuses BY <1>4 DEF APIRefuses
<1>5. CASE HangsUp BY <1>5 DEF HangsUp
<1>6. CASE CopiesRequest
  <2>1. TypeOK' BY <1>6 DEF CopiesRequest
  <2>2. Pieces' /\ NotYet' BY <1>6 DEF CopiesRequest
  <2>3. Connection' BY <1>6 DEF CopiesRequest
  <2>4. SharedError' BY <1>6 DEF CopiesRequest
  <2>5. ReturnedError' BY <1>6 DEF CopiesRequest
  <2>6. HasAnswer' BY <1>6 DEF CopiesRequest
  <2>7. AnswerIsTrue' BY <1>6 DEF CopiesRequest
  <2>8. Delivered' /\ ResultIsTrue' BY <1>6 DEF CopiesRequest
  <2>9. QED BY <2>1, <2>2, <2>3, <2>4, <2>5, <2>6, <2>7, <2>8
<1>7. CASE CopiesAnswer BY <1>7 DEF CopiesAnswer
<1>8. CASE CopierEnds BY <1>8 DEF CopierEnds
<1>9. QED BY <1>1, <1>2, <1>3, <1>4, <1>5, <1>6, <1>7, <1>8 DEF Tunnel

LEMMA GuestTunnel ==
  ASSUME TypeOK, TunnelInv, GuestAnswers \/ GuestSendsMore \/ GuestChanges \/ ConnectionBreaks, DialTypeOK'
  PROVE  TypeOK' /\ TunnelInv'
<1> USE PacketsAssumption DEF TypeOK, TunnelInv, Pieces, NotYet, Connection, SharedError, ReturnedError,
                HasAnswer, AnswerIsTrue, Delivered, ResultIsTrue, Statuses, Report, tunnelVars, plugin, guest
<1>1. CASE GuestAnswers
  <2>1. (\A b \in {listener, tunnelError, returned, errInTunnel, api, healthy, replaced} : b \in BOOLEAN)'
    BY <1>1 DEF GuestAnswers
  <2>2. TypeOK' BY <1>1, <2>1 DEF GuestAnswers, Report
  <2>3. Pieces' /\ NotYet' BY <1>1 DEF GuestAnswers, Report
  <2>4. Connection' BY <1>1 DEF GuestAnswers, Report
  <2>5. SharedError' BY <1>1 DEF GuestAnswers, Report
  <2>6. ReturnedError' BY <1>1 DEF GuestAnswers, Report
  <2>7. HasAnswer' BY <1>1 DEF GuestAnswers, Report
  <2>8. AnswerIsTrue' /\ Delivered' /\ ResultIsTrue' BY <1>1 DEF GuestAnswers, Report
  <2>9. QED BY <2>2, <2>3, <2>4, <2>5, <2>6, <2>7, <2>8
<1>2. CASE GuestSendsMore BY <1>2 DEF GuestSendsMore
<1>3. CASE GuestChanges
  <2>1. (\A b \in {listener, tunnelError, returned, errInTunnel, api, healthy, replaced} : b \in BOOLEAN)'
    BY <1>3 DEF GuestChanges
  <2>2. seen' \subseteq Statuses BY <1>3 DEF GuestChanges
  <2>3. TypeOK' BY <1>3, <2>1, <2>2 DEF GuestChanges
  <2>4. Pieces' /\ NotYet' BY <1>3 DEF GuestChanges, Report
  <2>5. Connection' BY <1>3 DEF GuestChanges, Report
  <2>6. SharedError' BY <1>3 DEF GuestChanges, Report
  <2>7. ReturnedError' BY <1>3 DEF GuestChanges, Report
  <2>8. HasAnswer' BY <1>3 DEF GuestChanges, Report
  <2>9. AnswerIsTrue' /\ Delivered' /\ ResultIsTrue' BY <1>3 DEF GuestChanges, Report
  <2>10. QED BY <2>3, <2>4, <2>5, <2>6, <2>7, <2>8, <2>9
<1>4. CASE ConnectionBreaks BY <1>4 DEF ConnectionBreaks
<1>5. QED BY <1>1, <1>2, <1>3, <1>4 DEF Tunnel

\* A step is one of the dialling, of the caller, of a goroutine, or of the guest.
LEMMA TunnelNext ==
  ASSUME TypeOK, TunnelInv, [Next]_vars
  PROVE  TypeOK' /\ TunnelInv'
<1>1. DialTypeOK'
  BY DialStep, DialTypeNext DEF TypeOK
<1>2. CASE UNCHANGED tunnelVars
  <2>1. UNCHANGED <<op, main, acceptor, handler, copier, listener, local, returned, errInTunnel, result,
                    ssh, request, wire, got, answer, tunnelError, api, healthy, seen, replaced>>
    BY <1>2 DEF tunnelVars, plugin, guest
  <2>2. TypeOK' BY <1>1, <2>1 DEF TypeOK
  <2>3. TunnelInv'
    BY <2>1 DEF TunnelInv, Pieces, NotYet, Connection, SharedError, ReturnedError, HasAnswer,
                AnswerIsTrue, Delivered, ResultIsTrue, Report
  <2>4. QED BY <2>2, <2>3
<1>3. CASE Caller
  BY <1>1, <1>3, CallerTunnel
<1>4. CASE Tunnel
  BY <1>1, <1>4, GoroutineTunnel
<1>5. CASE GuestAnswers \/ GuestSendsMore \/ GuestChanges \/ ConnectionBreaks
  BY <1>1, <1>5, GuestTunnel
<1>6. QED BY <1>2, <1>3, <1>4, <1>5 DEF Next, vars

LEMMA IInvInductive == Spec => []IInv
<1>1. Init => IInv
  BY TunnelInit, InTimeInit DEF Init, IInv
<1>2. IInv /\ [Next]_vars => IInv'
  <2> SUFFICES ASSUME IInv, [Next]_vars PROVE IInv'
    OBVIOUS
  <2>1. TypeOK' /\ TunnelInv' BY TunnelNext DEF IInv
  <2>2. InTime' BY DialStep, InTimeNext DEF IInv, TypeOK
  <2>3. QED BY <2>1, <2>2 DEF IInv
<1>3. QED BY <1>1, <1>2, PTL DEF Spec

\* The request, its answer and the goroutines are always in one of the states
\* that the code has, and the guest never sends more pieces than its answer has.
THEOREM TypeCorrect == Spec => []TypeOK
<1>1. IInv => TypeOK BY DEF IInv
<1>2. QED BY <1>1, IInvInductive, PTL

\* Until the time is up the caller has no error, and its connection is open from
\* when it gets it until it closes it, for any number of addresses to dial.
THEOREM CallerFineInTime == Spec => []FineInTime
<1>1. IInv => FineInTime
  BY DEF IInv, InTime, FineInTime, CallerHasClient, NoErrors
<1>2. QED BY <1>1, IInvInductive, PTL

\* A call whose connection the guest refused says so: the goroutine had written
\* tunnelError before the HTTP client could see that it was hung up on.  One that
\* has a piece of the answer does not return the error that the accepting
\* goroutine gets when the listener is closed.
THEOREM TunnelErrorTrue == Spec => []TunnelErrorIsTrue
<1>1. IInv /\ main = "ended" /\ handler = "refused" => result = "tunnel"
  BY DEF IInv, TunnelInv, ReturnedError
<1>2. IInv /\ main = "ended" /\ got > 0 => result # "tunnel"
  BY DEF IInv, TypeOK, TunnelInv, Connection, ReturnedError
<1>3. IInv => TunnelErrorIsTrue BY <1>1, <1>2 DEF TunnelErrorIsTrue
<1>4. QED BY <1>3, IInvInductive, PTL

\* A status is one that the guest could have reported during the call, and "ok"
\* of ReplaceSecrets means that the guest has the new secrets.
THEOREM ResultTrue == Spec => []ResultIsTrue
<1>1. IInv => ResultIsTrue
  BY DEF IInv, TunnelInv
<1>2. QED BY <1>1, IInvInductive, PTL

-----------------------------------------------------------------------------
(* Every step is one of RemoteCall or none of its variables changes.          *)

LEMMA CallerImplements ==
  ASSUME IInv, Caller
  PROVE  Call!Returns \/ UNCHANGED Call!callVars
<1> USE DEF Call!callVars, guest
<1>1. CASE NoTunnel
  <2>1. answer = "none" /\ result = "none"
    BY <1>1 DEF NoTunnel, IInv, TypeOK, TunnelInv, NotYet, AnswerIsTrue, Delivered
  <2>2. QED BY <1>1, <2>1 DEF NoTunnel, Ends, Call!Returns, Call!Meaning
<1>2. CASE HasClient \/ Listens \/ ListenFails \/ Gets \/ GetReturns \/ ReturnsTunnelError
            \/ ClosesListener \/ ClosesTunnel
  BY <1>2 DEF HasClient, Listens, ListenFails, Gets, GetReturns, ReturnsTunnelError, ClosesListener,
              ClosesTunnel
<1>3. CASE Answers
  <2>1. main = "answer" /\ result = "none" BY <1>3 DEF Answers, IInv, TunnelInv, Delivered
  <2>2. returned => answer = "none"
    BY DEF IInv, TypeOK, TunnelInv, ReturnedError, Delivered, AnswerIsTrue
  <2>3. errInTunnel => answer = "none"
    BY DEF IInv, TypeOK, TunnelInv, Connection, Delivered, AnswerIsTrue
  <2>4. ~returned /\ ~errInTunnel => answer # "none"
    BY <2>1 DEF IInv, TypeOK, TunnelInv, HasAnswer, Pieces, AnswerIsTrue
  <2>5. Outcome \in Call!Meaning(answer)
    BY <1>3, <2>2, <2>3, <2>4 DEF Answers, Outcome, IInv, TypeOK, Statuses, TunnelInv, AnswerIsTrue, Call!Meaning
  <2>6. QED BY <1>3, <2>1, <2>5 DEF Answers, Ends, Call!Returns
<1>4. CASE ReadsBody
  <2>1. main = "answer" /\ result = "none" BY <1>4 DEF ReadsBody, IInv, TunnelInv, Delivered
  <2>2. got = Packets /\ ~returned /\ ~errInTunnel /\ answer # "failed" /\ op # "replace"
    BY <1>4 DEF ReadsBody, Outcome
  <2>3. answer \in Statuses \cup {"garbled"}
    BY <2>1, <2>2 DEF IInv, TypeOK, TunnelInv, HasAnswer, Pieces, AnswerIsTrue
  <2>4. result' = IF answer = "garbled" THEN "err" ELSE answer BY <1>4 DEF ReadsBody, Ends
  <2>5. result' \in Call!Meaning(answer) BY <2>3, <2>4 DEF Statuses, Call!Meaning
  <2>6. QED BY <1>4, <2>1, <2>5 DEF ReadsBody, Ends, Call!Returns
<1>5. QED BY <1>1, <1>2, <1>3, <1>4 DEF Caller

LEMMA GuestImplements ==
  ASSUME IInv, GuestAnswers \/ GuestChanges
  PROVE  [Call!Next]_(Call!callVars)
<1>1. CASE GuestAnswers
  <2>1. result = "none" /\ answer = "none"
    BY <1>1 DEF GuestAnswers, IInv, TypeOK, TunnelInv, Pieces, Connection, AnswerIsTrue, Delivered
  <2>2. Call!Serves
    BY <1>1, <2>1 DEF GuestAnswers, Report, plugin, Call!Serves, Call!Reports, Call!Garbles, Call!Replaces,
       Call!Declines
  <2>3. QED BY <2>2 DEF Call!Next
<1>2. CASE GuestChanges
  <2>1. result = "none" BY <1>2 DEF GuestChanges, IInv, TunnelInv, Delivered
  <2>2. Call!Changes \/ UNCHANGED Call!callVars
    BY <1>2, <2>1 DEF GuestChanges, plugin, Call!Changes, Call!callVars
  <2>3. QED BY <2>2 DEF Call!Next
<1>3. QED BY <1>1, <1>2

LEMMA StepImplements ==
  ASSUME IInv, [Next]_vars
  PROVE  [Call!Next]_(Call!callVars)
<1>1. CASE UNCHANGED tunnelVars
  BY <1>1 DEF tunnelVars, plugin, guest, Call!callVars
<1>2. CASE Caller
  BY <1>2, CallerImplements DEF Call!Next
<1>3. CASE Tunnel \/ GuestSendsMore \/ ConnectionBreaks
  BY <1>3 DEF Tunnel, Accepts, AcceptFails, DialsAPI, APIRefuses, HangsUp, CopiesRequest, CopiesAnswer,
              CopierEnds, GuestSendsMore, ConnectionBreaks, plugin, guest, Call!callVars
<1>4. CASE GuestAnswers \/ GuestChanges
  BY <1>4, GuestImplements
<1>5. QED BY <1>1, <1>2, <1>3, <1>4 DEF Next, vars

\* The goroutines, the SSH connection and the HTTP client amount to one call: the
\* guest acts at most once and before the call returns, and either error of the
\* connection says that it did not act.
THEOREM CallImplemented == Spec => ImplementsCall
<1>1. Init => Call!Init BY DEF Init, Call!Init
<1>2. IInv /\ [Next]_vars => [Call!Next]_(Call!callVars) BY StepImplements
<1>3. QED BY <1>1, <1>2, IInvInductive, PTL DEF Spec, ImplementsCall, Call!Spec
=============================================================================
