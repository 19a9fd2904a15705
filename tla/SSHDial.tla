------------------------------ MODULE SSHDial ------------------------------
(***************************************************************************)
(* How the plugin reaches the guest: one goroutine per address dials until  *)
(* it gets a connection, until the time is up, or until another one was     *)
(* first; each reports a connection and an error on two channels, and the   *)
(* caller takes the first of each (ssh.go, waitForSSH and newSession).      *)
(***************************************************************************)
EXTENDS Naturals, Sequences, FiniteSets

CONSTANTS Addresses,   \* what the caller passes, the forwarded port and the guest's own address
          Bad,         \* those that nothing ever answers
          None,        \* no connection, no error
          TimedOut     \* "ssh connection timed out"

ASSUME AddressesAssumption == IsFiniteSet(Addresses) /\ Addresses # {} /\ Bad \subseteq Addresses
ASSUME NoneAssumption == None \notin Addresses /\ TimedOut \notin Addresses /\ None # TimedOut

VARIABLES
  up,          \* the guest's sshd answers
  late,        \* the timeout has passed
  dialer,      \* what each goroutine does next
  dialed,      \* the connection it has, named by its address
  clientChan,  \* clients sent and not received
  errorChan,   \* errors sent and not received
  done,        \* doneChan is closed
  waiter,      \* what the caller does next
  client, err, \* what waitForSSH returns
  open         \* connections that nobody has closed

chans == <<clientChan, errorChan>>
dialVars  == <<up, late, dialer, dialed, chans, done, waiter, client, err, open>>

Clients == Addresses \cup {None}

DialTypeOK ==
  /\ up \in BOOLEAN /\ late \in BOOLEAN /\ done \in BOOLEAN
  /\ dialer \in [Addresses -> {"select", "dial", "sendClient", "sendError", "ended"}]
  /\ dialed \in [Addresses -> Clients]
  /\ clientChan \in Seq(Clients)
  /\ errorChan \in Seq({None, TimedOut})
  /\ waiter \in {"recvClient", "recvError", "closeDone", "use", "session", "returned", "panicked"}
  /\ client \in Clients /\ err \in {None, TimedOut}
  /\ open \in SUBSET Addresses

DialInit ==
  /\ up \in BOOLEAN
  /\ late = FALSE /\ done = FALSE
  /\ dialer = [a \in Addresses |-> "select"]
  /\ dialed = [a \in Addresses |-> None]
  /\ clientChan = <<>> /\ errorChan = <<>>
  /\ waiter = "recvClient" /\ client = None /\ err = None
  /\ open = {}

-----------------------------------------------------------------------------
(* The goroutine of address a.                                              *)

DialerGoes(a, to) == dialer' = [dialer EXCEPT ![a] = to]

TimesOut(a) ==
  /\ dialer[a] = "select" /\ late
  /\ DialerGoes(a, "sendClient")
  /\ UNCHANGED <<up, late, dialed, chans, done, waiter, client, err, open>>

GivesUp(a) ==
  /\ dialer[a] = "select" /\ done
  /\ DialerGoes(a, "ended")
  /\ UNCHANGED <<up, late, dialed, chans, done, waiter, client, err, open>>

\* The default case: neither channel is ready.
Tries(a) ==
  /\ dialer[a] = "select" /\ ~late /\ ~done
  /\ DialerGoes(a, "dial")
  /\ UNCHANGED <<up, late, dialed, chans, done, waiter, client, err, open>>

Connects(a) ==
  /\ dialer[a] = "dial"
  /\ up /\ a \notin Bad
  /\ DialerGoes(a, "sendClient")
  /\ dialed' = [dialed EXCEPT ![a] = a]
  /\ open' = open \cup {a}
  /\ UNCHANGED <<up, late, chans, done, waiter, client, err>>

\* Variant: the first failure is reported.
FirstFailureCounts(a) ==
  /\ dialer[a] = "dial"
  /\ DialerGoes(a, "sendClient")
  /\ UNCHANGED <<up, late, dialed, chans, done, waiter, client, err, open>>

\* A dial that started before sshd was up, or whose handshake failed.
DialFails(a) ==
  /\ dialer[a] = "dial"
  /\ DialerGoes(a, "select")
  /\ UNCHANGED <<up, late, dialed, chans, done, waiter, client, err, open>>

\* Variant: unbuffered channels, where a send waits for the caller.
Unbuffered(chan) == chan = <<>> /\ waiter \in {"recvClient", "recvError"}

\* make(chan, len(addresses)): a send blocks when the channel is full.
HasRoom(chan) == Len(chan) < Cardinality(Addresses)

SendsClient(a) ==
  /\ dialer[a] = "sendClient"
  /\ HasRoom(clientChan)
  /\ clientChan' = Append(clientChan, dialed[a])
  /\ DialerGoes(a, "sendError")
  /\ UNCHANGED <<up, late, dialed, errorChan, done, waiter, client, err, open>>

ErrorOf(a) == IF dialed[a] = None THEN TimedOut ELSE None

SendsError(a) ==
  /\ dialer[a] = "sendError"
  /\ HasRoom(errorChan)
  /\ errorChan' = Append(errorChan, ErrorOf(a))
  /\ DialerGoes(a, "ended")
  /\ UNCHANGED <<up, late, dialed, clientChan, done, waiter, client, err, open>>

-----------------------------------------------------------------------------
(* The caller.                                                              *)

ReceivesClient ==
  /\ waiter = "recvClient" /\ clientChan # <<>>
  /\ client' = Head(clientChan) /\ clientChan' = Tail(clientChan)
  /\ waiter' = "recvError"
  /\ UNCHANGED <<up, late, dialer, dialed, errorChan, done, err, open>>

ReceivesError ==
  /\ waiter = "recvError" /\ errorChan # <<>>
  /\ err' = Head(errorChan) /\ errorChan' = Tail(errorChan)
  /\ waiter' = "closeDone"
  /\ UNCHANGED <<up, late, dialer, dialed, clientChan, done, client, open>>

ClosesDone ==
  /\ waiter = "closeDone"
  /\ done' = TRUE
  /\ waiter' = IF err = None THEN "use" ELSE "returned"
  /\ UNCHANGED <<up, late, dialer, dialed, chans, client, err, open>>

\* WaitForSSH closes the client, newSession asks it for a session: both panic on nil.
UsesClient ==
  /\ waiter = "use"
  /\ waiter' = IF client = None THEN "panicked" ELSE "session"
  /\ UNCHANGED <<up, late, dialer, dialed, chans, done, client, err, open>>

\* The session is over, or could not be opened: the client is closed.
ClosesClient ==
  /\ waiter = "session"
  /\ waiter' = "returned"
  /\ open' = open \ {client}
  /\ UNCHANGED <<up, late, dialer, dialed, chans, done, client, err>>

-----------------------------------------------------------------------------

GuestComesUp == ~up /\ up' = TRUE /\ UNCHANGED <<late, dialer, dialed, chans, done, waiter, client, err, open>>

\* The timers of all goroutines, set at the same time.
TimePasses == ~late /\ late' = TRUE /\ UNCHANGED <<up, dialer, dialed, chans, done, waiter, client, err, open>>

Dialer(a) == \/ TimesOut(a) \/ GivesUp(a) \/ Tries(a) \/ Connects(a) \/ DialFails(a)
             \/ SendsClient(a) \/ SendsError(a)
Waiter == ReceivesClient \/ ReceivesError \/ ClosesDone \/ UsesClient

\* All that happens until the caller has a session, and beside it.
Dialing == (\E a \in Addresses : Dialer(a)) \/ Waiter \/ GuestComesUp \/ TimePasses

\* Goroutines run, each dial returns (10 s), and the timers fire.
DialFairness == /\ \A a \in Addresses : WF_dialVars(Dialer(a))
                /\ WF_dialVars(Waiter)
                /\ WF_dialVars(TimePasses)

-----------------------------------------------------------------------------
(* Properties.                                                              *)

(* waitForSSH leaves no goroutine behind: nobody waits for a channel for      *)
(* ever, although the caller takes only one answer of each kind and the        *)
(* dialers do not know who was first.                                        *)
DialersEnd == <>[](waiter \notin {"recvClient", "recvError"} /\ \A a \in Addresses : dialer[a] = "ended")

(* Until the time is up the caller gets a connection that is open and no     *)
(* error, whichever dialer was first on which channel.                        *)
FineInTime ==
  ~late => /\ waiter \in {"recvError", "closeDone", "use", "session"} => client \in open
           /\ waiter # "panicked" /\ err = None
=============================================================================
