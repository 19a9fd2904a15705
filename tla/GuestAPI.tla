------------------------------ MODULE GuestAPI ------------------------------
(***************************************************************************)
(* One request to the API of the guest: Client.Status, which every command  *)
(* asks for a VM that runs, or Client.ReplaceSecrets, through a tunnel that  *)
(* WithSSHTunnel (ssh.go) keeps open while the request lasts.  Five parties  *)
(* run side by side: the caller with its HTTP client, the goroutine that     *)
(* accepts connections, the one that serves a connection, the one that       *)
(* copies the answer back, and the guest.  SSHDial has the dialling before.  *)
(***************************************************************************)
EXTENDS SSHDial

CONSTANTS Ops,      \* requests: "status", "replace"
          Packets,  \* pieces in which the guest sends an answer
          MayBreak  \* whether the SSH connection may break on the way

ASSUME OpsAssumption     == Ops \subseteq {"status", "replace"}
ASSUME PacketsAssumption == Packets \in Nat \ {0} /\ MayBreak \in BOOLEAN

VARIABLES
  op,           \* the request
  main,         \* what the caller does next
  acceptor,     \* the goroutine of localListener.Accept
  handler,      \* the goroutine of the connection
  copier,       \* the goroutine that copies from the guest
  listener,     \* localListener is open
  ssh,          \* the SSH connection
  local,        \* the HTTP client's connection to the listener
  request,      \* where the request is
  wire, got,    \* pieces of the answer on the way, and at the HTTP client
  answer,       \* what the guest answered: a status, "garbled" (200, but no JSON), "done" or "failed"
  tunnelError,  \* the variable that the goroutines share
  returned,     \* what WithSSHTunnel returned is an error
  errInTunnel,  \* the HTTP client failed
  result,       \* of the call
  api, healthy, \* the guest's API listens; it would report "Running"
  seen,         \* what it would have reported since the call began
  replaced      \* the guest has its new secrets

plugin == <<op, main, acceptor, handler, copier, listener, local, returned, errInTunnel, result>>
guest  == <<api, healthy, seen, replaced>>
tunnelVars == <<plugin, ssh, request, wire, got, answer, tunnelError, guest>>
vars   == <<dialVars, tunnelVars>>

Statuses == {"Running", "Unprovisioned"}
Report   == IF healthy THEN "Running" ELSE "Unprovisioned"

TypeOK ==
  /\ DialTypeOK
  /\ op \in {"status", "replace"}
  /\ main \in {"dial", "listen", "get", "headers", "return", "closeListener", "closeClient", "answer", "ended"}
  /\ acceptor \in {"none", "accept", "ended"}
  /\ handler \in {"none", "dial", "copy", "close", "refused", "ended"}
  /\ copier \in {"none", "copy", "ended"}
  /\ ssh \in {"none", "up", "broken", "closed"}
  /\ local \in {"none", "pending", "accepted", "closed"}
  /\ request \in {"none", "conn", "guest", "taken"}
  /\ wire \in 0 .. Packets /\ got \in 0 .. Packets
  /\ answer \in Statuses \cup {"none", "garbled", "done", "failed"}
  /\ result \in Statuses \cup {"none", "ok", "tunnel", "unreachable", "err"}
  /\ \A b \in {listener, tunnelError, returned, errInTunnel, api, healthy, replaced} : b \in BOOLEAN
  /\ seen \subseteq Statuses

\* The VM is on; its API may not be listening yet.
Init ==
  /\ DialInit
  /\ op \in Ops
  /\ main = "dial" /\ acceptor = "none" /\ handler = "none" /\ copier = "none"
  /\ listener = FALSE /\ ssh = "none" /\ local = "none" /\ request = "none"
  /\ wire = 0 /\ got = 0 /\ answer = "none"
  /\ tunnelError = FALSE /\ returned = FALSE /\ errInTunnel = FALSE /\ result = "none"
  /\ api \in BOOLEAN /\ healthy \in BOOLEAN
  /\ seen = {Report} /\ replaced = FALSE

-----------------------------------------------------------------------------
(* The caller: WithSSHTunnel around the HTTP request, then the answer.       *)

Ends(r) == main' = "ended" /\ result' = r

\* WithSSHTunnel returns the error of waitForSSH.
NoTunnel ==
  /\ main = "dial" /\ waiter = "returned"
  /\ Ends("tunnel")
  /\ UNCHANGED <<dialVars, op, acceptor, handler, copier, listener, local, returned, errInTunnel,
                 ssh, request, wire, got, answer, tunnelError, guest>>

HasClient ==
  /\ main = "dial" /\ waiter = "session"
  /\ main' = "listen" /\ ssh' = "up"
  /\ UNCHANGED <<dialVars, op, acceptor, handler, copier, listener, local, returned, errInTunnel, result,
                 request, wire, got, answer, tunnelError, guest>>

Listens ==
  /\ main = "listen"
  /\ main' = "get" /\ listener' = TRUE /\ acceptor' = "accept"
  /\ UNCHANGED <<dialVars, op, handler, copier, local, returned, errInTunnel, result,
                 ssh, request, wire, got, answer, tunnelError, guest>>

ListenFails ==
  /\ main = "listen"
  /\ main' = "closeClient" /\ returned' = TRUE
  /\ UNCHANGED <<dialVars, op, acceptor, handler, copier, listener, local, errInTunnel, result,
                 ssh, request, wire, got, answer, tunnelError, guest>>

Gets ==
  /\ main = "get"
  /\ main' = "headers" /\ local' = "pending" /\ request' = "conn"
  /\ UNCHANGED <<dialVars, op, acceptor, handler, copier, listener, returned, errInTunnel, result,
                 ssh, wire, got, answer, tunnelError, guest>>

\* HttpClient.Get returns: with the head of an answer, or when it is hung up on.
GetReturns ==
  /\ main = "headers"
  /\ got > 0 \/ local = "closed"
  /\ main' = "return"
  /\ errInTunnel' = (got = 0)
  /\ UNCHANGED <<dialVars, op, acceptor, handler, copier, listener, local, returned, result,
                 ssh, request, wire, got, answer, tunnelError, guest>>


\* return tunnelError; its value is taken before the deferred calls run.
ReturnsTunnelError ==
  /\ main = "return"
  /\ main' = "closeListener"
  /\ returned' = tunnelError
  /\ UNCHANGED <<dialVars, op, acceptor, handler, copier, listener, local, errInTunnel, result,
                 ssh, request, wire, got, answer, tunnelError, guest>>

ClosesListener ==
  /\ main = "closeListener"
  /\ main' = "closeClient"
  /\ listener' = FALSE
  /\ UNCHANGED <<dialVars, op, acceptor, handler, copier, local, returned, errInTunnel, result,
                 ssh, request, wire, got, answer, tunnelError, guest>>

\* Variant: the error is read again when all is closed.
ClosesAndReads ==
  /\ main = "closeClient"
  /\ ClosesClient
  /\ main' = "answer" /\ ssh' = "closed"
  /\ returned' = (returned \/ tunnelError)
  /\ UNCHANGED <<op, acceptor, handler, copier, listener, local, errInTunnel, result,
                 request, wire, got, answer, tunnelError, guest>>

ClosesTunnel ==
  /\ main = "closeClient"
  /\ ClosesClient
  /\ main' = "answer" /\ ssh' = "closed"
  /\ UNCHANGED <<op, acceptor, handler, copier, listener, local, returned, errInTunnel, result,
                 request, wire, got, answer, tunnelError, guest>>

\* Variant: the status code of the answer is not looked at.
AnyCodeIsFine == IF returned THEN "tunnel" ELSE IF errInTunnel THEN "unreachable"
                 ELSE IF op = "replace" THEN "ok" ELSE IF answer = "failed" THEN "err" ELSE "body"

\* The result, when it does not depend on the body.
Outcome == IF returned THEN "tunnel"
           ELSE IF errInTunnel THEN "unreachable"
           ELSE IF answer = "failed" THEN "err"
           ELSE IF op = "replace" THEN "ok"
           ELSE "body"

Answers ==
  /\ main = "answer"
  /\ Outcome # "body"
  /\ Ends(Outcome)
  /\ UNCHANGED <<dialVars, op, acceptor, handler, copier, listener, local, returned, errInTunnel,
                 ssh, request, wire, got, answer, tunnelError, guest>>

\* ioutil.ReadAll(resp.Body), after the tunnel is closed, and json.Unmarshal.
\* Nobody closes local any more: without the last piece it waits.
ReadsBody ==
  /\ main = "answer"
  /\ Outcome = "body"
  /\ got = Packets
  /\ Ends(IF answer = "garbled" THEN "err" ELSE answer)
  /\ UNCHANGED <<dialVars, op, acceptor, handler, copier, listener, local, returned, errInTunnel,
                 ssh, request, wire, got, answer, tunnelError, guest>>

Caller == NoTunnel \/ HasClient \/ Listens \/ ListenFails \/ Gets \/ GetReturns \/ ReturnsTunnelError
            \/ ClosesListener \/ ClosesTunnel \/ Answers \/ ReadsBody

-----------------------------------------------------------------------------
(* The goroutines of the tunnel.                                            *)

Accepts ==
  /\ acceptor = "accept" /\ listener /\ local = "pending"
  /\ local' = "accepted" /\ handler' = "dial"
  /\ UNCHANGED <<dialVars, op, main, acceptor, copier, listener, returned, errInTunnel, result,
                 ssh, request, wire, got, answer, tunnelError, guest>>

AcceptFails ==
  /\ acceptor = "accept" /\ ~listener
  /\ acceptor' = "ended"
  /\ tunnelError' = TRUE
  /\ UNCHANGED <<dialVars, op, main, handler, copier, listener, local, returned, errInTunnel, result,
                 ssh, request, wire, got, answer, guest>>

DialsAPI ==
  /\ handler = "dial" /\ ssh = "up" /\ api
  /\ handler' = "copy" /\ copier' = "copy"
  /\ UNCHANGED <<dialVars, op, main, acceptor, listener, local, returned, errInTunnel, result,
                 ssh, request, wire, got, answer, tunnelError, guest>>

APIRefuses ==
  /\ handler = "dial" /\ (ssh # "up" \/ ~api)
  /\ handler' = "refused"
  /\ tunnelError' = TRUE
  /\ UNCHANGED <<dialVars, op, main, acceptor, copier, listener, local, returned, errInTunnel, result,
                 ssh, request, wire, got, answer, guest>>

\* Variant: the connection is not closed.
LeavesOpen ==
  /\ handler \in {"refused", "close"} /\ local = "accepted"
  /\ handler' = "ended"
  /\ UNCHANGED <<dialVars, op, main, acceptor, copier, listener, local, returned, errInTunnel, result,
                 ssh, request, wire, got, answer, tunnelError, guest>>

\* The deferred local.Close().
HangsUp ==
  /\ handler \in {"refused", "close"} /\ local = "accepted"
  /\ local' = "closed"
  /\ handler' = IF handler = "close" THEN "ended" ELSE handler
  /\ UNCHANGED <<dialVars, op, main, acceptor, copier, listener, returned, errInTunnel, result,
                 ssh, request, wire, got, answer, tunnelError, guest>>

\* io.Copy(sshTunnel, local): after the request nothing comes from the HTTP client,
\* so that a tunnel that breaks later is not noticed here.
CopiesRequest ==
  /\ handler = "copy" /\ request = "conn"
  /\ IF ssh = "up"
     THEN request' = "guest" /\ UNCHANGED handler
     ELSE handler' = "close" /\ UNCHANGED request
  /\ UNCHANGED <<dialVars, op, main, acceptor, copier, listener, local, returned, errInTunnel, result,
                 ssh, wire, got, answer, tunnelError, guest>>

\* Variant: what was copied is not consumed.
CopiesAgain ==
  /\ copier = "copy" /\ wire > 0 /\ local = "accepted"
  /\ got' = got + 1
  /\ UNCHANGED <<dialVars, plugin, ssh, request, wire, answer, tunnelError, guest>>

\* Go io.Copy(local, sshTunnel).
CopiesAnswer ==
  /\ copier = "copy" /\ wire > 0 /\ local = "accepted"
  /\ wire' = wire - 1 /\ got' = got + 1
  /\ UNCHANGED <<dialVars, plugin, ssh, request, answer, tunnelError, guest>>

\* Variant: it hangs up on the HTTP client.
CopierHangsUp ==
  /\ copier = "copy" /\ ssh # "up"
  /\ copier' = "ended" /\ wire' = 0 /\ local' = "closed"
  /\ UNCHANGED <<dialVars, op, main, acceptor, handler, listener, returned, errInTunnel, result,
                 ssh, request, got, answer, tunnelError, guest>>

\* At the end of the tunnel it stops; what was under way is lost, local stays open.
CopierEnds ==
  /\ copier = "copy" /\ ssh # "up"
  /\ copier' = "ended" /\ wire' = 0
  /\ UNCHANGED <<dialVars, op, main, acceptor, handler, listener, local, returned, errInTunnel, result,
                 ssh, request, got, answer, tunnelError, guest>>

Tunnel == Accepts \/ AcceptFails \/ DialsAPI \/ APIRefuses \/ HangsUp \/ CopiesRequest \/ CopiesAnswer \/ CopierEnds

-----------------------------------------------------------------------------
(* The guest.                                                               *)

\* With what it reports now, or with an error of its own; also when the connection
\* over which it was asked has gone.
GuestAnswers ==
  /\ request = "guest" /\ api
  /\ request' = "taken"
  /\ wire' = IF ssh = "up" THEN 1 ELSE 0
  /\ \/ answer' = "failed" /\ UNCHANGED replaced
     \/ op = "status" /\ answer' \in {Report, "garbled"} /\ UNCHANGED replaced
     \/ op = "replace" /\ answer' = "done" /\ replaced' = TRUE
  /\ UNCHANGED <<dialVars, plugin, ssh, got, tunnelError, api, healthy, seen>>

GuestSendsMore ==
  /\ request = "taken" /\ ssh = "up"
  /\ wire + got < Packets
  /\ wire' = wire + 1
  /\ UNCHANGED <<dialVars, plugin, ssh, request, got, answer, tunnelError, guest>>

\* While a connection to it is open the API stays; ConnectionBreaks has the other case.
GuestChanges ==
  /\ main \notin {"dial", "ended"}
  /\ \/ healthy' = ~healthy /\ seen' = seen \cup {IF healthy THEN "Unprovisioned" ELSE "Running"} /\ UNCHANGED api
     \/ api' = ~api /\ handler # "copy" /\ UNCHANGED <<healthy, seen>>
  /\ UNCHANGED <<dialVars, plugin, ssh, request, wire, got, answer, tunnelError, replaced>>

\* The VM goes down: sshd says so, or the connection is reset.
ConnectionBreaks ==
  /\ MayBreak /\ ssh = "up"
  /\ ssh' = "broken"
  /\ UNCHANGED <<dialVars, plugin, request, wire, got, answer, tunnelError, guest>>

Next == \/ Dialing /\ UNCHANGED tunnelVars
        \/ Caller \/ Tunnel \/ GuestAnswers \/ GuestSendsMore \/ GuestChanges \/ ConnectionBreaks

Spec == Init /\ [][Next]_vars

\* The plugin's goroutines run and the guest answers what reaches it.
FairSpec == /\ Spec /\ DialFairness
            /\ WF_vars(Caller) /\ WF_vars(Tunnel)
            /\ WF_vars(GuestAnswers) /\ WF_vars(GuestSendsMore)

-----------------------------------------------------------------------------
(* Properties.                                                              *)

(* tunnelError, which two goroutines write and a third one reads: when the    *)
(* guest's API cannot be reached through the tunnel the call says so, and it  *)
(* does not lose an answer to the error that the accepting goroutine gets     *)
(* when the tunnel is closed (ssh.go:161-192).                                *)
TunnelErrorIsTrue ==
  main = "ended" => /\ handler = "refused" => result = "tunnel"
                    /\ got > 0 => result # "tunnel"

(* Status returns what the guest reported at some time during the call, and   *)
(* ReplaceSecrets succeeds only when the guest has the new secrets.           *)
ResultIsTrue == /\ result \in Statuses => result \in seen
                /\ result = "ok" => replaced

(* The call is one to the guest and back (RemoteCall): the request is carried  *)
(* out at most once and not after the call has returned, a status is that of   *)
(* one moment, and both errors of the connection mean that the guest did         *)
(* nothing (client.go:33-107, ssh.go:140-196).                                *)
Call == INSTANCE RemoteCall

ImplementsCall == Call!Spec

(* The call ends when the guest answers and its answer is not cut off: no     *)
(* goroutine of the tunnel waits for another for ever.                        *)
CutOff == copier = "ended" /\ got < Packets
Ended  == main = "ended" \/ waiter = "panicked"

CallReturnsUnlessCutOff == <>(Ended \/ CutOff)
=============================================================================
