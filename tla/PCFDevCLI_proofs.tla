-------------------------- MODULE PCFDevCLI_proofs --------------------------
(***************************************************************************)
(* Proofs about PCFDevCLI for every set of names, keys, addresses, service  *)
(* lists, faults and requests.                                              *)
(***************************************************************************)
EXTENDS PCFDevProps, TLAPS

(* One invocation at a time: what holds only then has this as assumption.    *)
OneProcess == \A p, q \in Procs : p = q

-----------------------------------------------------------------------------
(* Types of the host: every call of the plugin preserves them.              *)

LEMMA MachineCallType ==
  ASSUME HostTypeOK, NEW n \in Names,
         \/ CreateVM(n) \/ CloneDisk(n) \/ DeleteDisk(n) \/ StartVM(n) \/ PressPowerButton(n)
         \/ SaveState(n) \/ ResumeVM(n) \/ PowerOffVM(n) \/ DestroyVM(n)
         \/ \E s \in Settings : ModifyVM(n, s)
         \/ \E a \in Addrs \cup {None} : AttachNetworkInterface(n, a)
  PROVE  HostTypeOK'
<1> USE DEF HostTypeOK, machineVars, guestVars, fileVars, PowerStates
<1>1. CASE CreateVM(n)  BY <1>1 DEF CreateVM
<1>2. CASE CloneDisk(n) BY <1>2 DEF CloneDisk
<1>3. CASE DeleteDisk(n) BY <1>3 DEF DeleteDisk
<1>4. CASE StartVM(n) BY <1>4 DEF StartVM
<1>5. CASE PressPowerButton(n) BY <1>5 DEF PressPowerButton
<1>6. CASE SaveState(n) BY <1>6 DEF SaveState
<1>7. CASE ResumeVM(n) BY <1>7 DEF ResumeVM
<1>8. CASE PowerOffVM(n) BY <1>8 DEF PowerOffVM
<1>9. CASE DestroyVM(n) BY <1>9 DEF DestroyVM
<1>10. CASE \E s \in Settings : ModifyVM(n, s) BY <1>10 DEF ModifyVM
<1>11. CASE \E a \in Addrs \cup {None} : AttachNetworkInterface(n, a)
  BY <1>11 DEF AttachNetworkInterface
<1>12. QED BY <1>1, <1>2, <1>3, <1>4, <1>5, <1>6, <1>7, <1>8, <1>9, <1>10, <1>11

LEMMA FileCallType ==
  ASSUME HostTypeOK, NEW n \in Names,
         \/ Extract(n, None, "partial") \/ Extract(n, "partial", "whole")
         \/ RemoveVMDir \/ RemovePartOfVMDir
         \/ \E v \in Keys \cup {None, Torn} : WriteKey(v)
         \/ \E v \in Addrs \cup {None, Torn} : WriteConfig(v)
  PROVE  HostTypeOK'
<1> USE DEF HostTypeOK, machineVars, guestVars, fileVars, PowerStates
<1>1. CASE Extract(n, None, "partial") BY <1>1 DEF Extract
<1>2. CASE Extract(n, "partial", "whole") BY <1>2 DEF Extract
<1>3. CASE RemoveVMDir BY <1>3 DEF RemoveVMDir, LoseDisks
<1>4. CASE RemovePartOfVMDir
  <2>1. image' \in [Names -> {None, "sound", "damaged"}]
    BY <1>4 DEF RemovePartOfVMDir, LoseDisks
  <2>2. keyFile' \in Keys \cup {None, Torn} /\ vmConfig' \in Addrs \cup {None, Torn}
    BY <1>4 DEF RemovePartOfVMDir
  <2>3. archive' \in [Names -> {None, "partial", "whole", "garbled"}] /\ vmDirs' \in SUBSET Names
    BY <1>4 DEF RemovePartOfVMDir
  <2>4. QED BY <1>4, <2>1, <2>2, <2>3 DEF RemovePartOfVMDir
<1>5. CASE \E v \in Keys \cup {None, Torn} : WriteKey(v) BY <1>5 DEF WriteKey
<1>6. CASE \E v \in Addrs \cup {None, Torn} : WriteConfig(v) BY <1>6 DEF WriteConfig
<1>7. QED BY <1>1, <1>2, <1>3, <1>4, <1>5, <1>6

LEMMA GuestCallType ==
  ASSUME HostTypeOK, NEW n \in Names,
         \/ RunProvisioner(n) \/ RemoveHealthcheck(n)
         \/ \E k \in Keys : AuthorizeKey(n, k)
         \/ \E a \in Addrs \cup {None} : ConfigureGuestNetwork(n, a)
         \/ \E s \in ServiceSets \cup {None} : WriteOptions(n, s)
         \/ CutOptions(n) \/ GuestEvent(n) \/ GuestFault(n)
  PROVE  HostTypeOK'
<1> USE DEF HostTypeOK, machineVars, guestVars, fileVars, PowerStates
<1>1. CASE RunProvisioner(n) BY <1>1 DEF RunProvisioner
<1>2. CASE RemoveHealthcheck(n) BY <1>2 DEF RemoveHealthcheck
<1>3. CASE \E k \in Keys : AuthorizeKey(n, k) BY <1>3 DEF AuthorizeKey
<1>4. CASE \E a \in Addrs \cup {None} : ConfigureGuestNetwork(n, a)
  BY <1>4 DEF ConfigureGuestNetwork
<1>5. CASE \E s \in ServiceSets \cup {None} : WriteOptions(n, s) BY <1>5 DEF WriteOptions
<1>6. CASE GuestEvent(n)
  <2>1. CASE GuestShutsDown(n) BY <2>1, MachineCallType DEF GuestShutsDown
  <2>2. CASE StateSaved(n) BY <2>2 DEF StateSaved
  <2>3. QED BY <1>6, <2>1, <2>2 DEF GuestEvent
<1>7. CASE GuestFault(n) BY <1>7 DEF GuestFault, VMAborts, VMPausedOutside
<1>8. CASE CutOptions(n) BY <1>8 DEF CutOptions
<1>9. QED BY <1>1, <1>2, <1>3, <1>4, <1>5, <1>6, <1>7, <1>8

LEMMA HostUnchangedType ==
  ASSUME HostTypeOK, UNCHANGED hostVars
  PROVE  HostTypeOK'
BY DEF HostTypeOK, hostVars, machineVars, guestVars, fileVars

-----------------------------------------------------------------------------
(* Types of the processes.  A process that is about to authorize or to store *)
(* a key pair has one: TypeOK alone does not say so and is not inductive.     *)

KeyInHand == \A p \in Procs : pc[p] \in {"authorize", "openKey", "fillKey"} => key[p] \in Keys

TypeInv == TypeOK /\ KeyInHand

Labels == Calls \cup Decisions \cup {"idle"}

LEMMA LabelFacts ==
  /\ Calls \subseteq Labels
  /\ Decisions \subseteq Labels
  /\ "idle" \in Labels
  /\ Idle \in AllRequests
BY DEF Labels, AllRequests, Idle, None

LEMMA MemUnchangedType ==
  ASSUME ProcTypeOK, UNCHANGED memVars, UNCHANGED result, pc' \in [Procs -> Labels]
  PROVE  ProcTypeOK'
BY DEF ProcTypeOK, memVars, Labels

LEMMA ExitType ==
  ASSUME TypeInv, NEW p \in Procs, NEW r \in {"ok", "err", "killed"}, Exit(p, r)
  PROVE  ProcTypeOK' /\ KeyInHand'
<1>1. pc' \in [Procs -> Labels] /\ result' \in [Procs -> {None, "ok", "err", "killed"}]
  BY DEF Exit, TypeInv, TypeOK, ProcTypeOK, Labels
<1>2. req' \in [Procs -> AllRequests]
  BY LabelFacts DEF Exit, TypeInv, TypeOK, ProcTypeOK
<1>3. /\ name' \in [Procs -> Names] /\ obj' \in [Procs -> Objects]
      /\ cfg' \in [Procs -> Addrs \cup {None}]
      /\ key' \in [Procs -> Keys \cup {None, Torn}]
      /\ want' \in [Procs -> ServiceSets \cup {None}]
      /\ after' \in [Procs -> Decisions]
      /\ doomed' \in [Procs -> SUBSET Names]
      /\ failed' \in [Procs -> BOOLEAN]
  BY DEF Exit, TypeInv, TypeOK, ProcTypeOK, Names, Objects, Decisions
<1>4. KeyInHand'
  BY DEF Exit, TypeInv, TypeOK, ProcTypeOK, KeyInHand
<1>5. QED BY <1>1, <1>2, <1>3, <1>4 DEF ProcTypeOK, Labels

LEMMA ReturnType ==
  ASSUME TypeInv, NEW p \in Procs, NEW r \in {"ok", "err", "killed"}, Return(p, r)
  PROVE  TypeInv'
BY ExitType, HostUnchangedType DEF Return, TypeInv, TypeOK

\* A step to a label that is not one of the three needs nothing of the key.
LEMMA GotoType ==
  ASSUME TypeInv, NEW p \in Procs, NEW to \in Labels, Goto(p, to), UNCHANGED memVars,
         to \in {"authorize", "openKey", "fillKey"} => key[p] \in Keys
  PROVE  ProcTypeOK' /\ KeyInHand'
<1>1. pc' \in [Procs -> Labels]
  BY DEF Goto, TypeInv, TypeOK, ProcTypeOK, Labels
<1>2. ProcTypeOK' BY <1>1, MemUnchangedType DEF Goto, TypeInv, TypeOK
<1>3. KeyInHand' BY DEF Goto, TypeInv, TypeOK, ProcTypeOK, KeyInHand, memVars
<1>4. QED BY <1>2, <1>3

LEMMA ProceedType ==
  ASSUME TypeInv, NEW p \in Procs, NEW to \in Labels \ {"authorize", "openKey", "fillKey"},
         Proceed(p, to)
  PROVE  TypeInv'
BY GotoType, HostUnchangedType DEF Proceed, TypeInv, TypeOK

LEMMA BuiltType ==
  ASSUME TypeInv, NEW p \in Procs, NEW o \in Objects, Built(p, o),
         cfg' \in [Procs -> Addrs \cup {None}]
  PROVE  TypeInv'
<1>1. after[p] \in Decisions BY DEF TypeInv, TypeOK, ProcTypeOK
<1>2. ProcTypeOK'
  BY <1>1, LabelFacts DEF Built, Goto, TypeInv, TypeOK, ProcTypeOK, Labels
<1>3. KeyInHand' BY <1>1 DEF Built, Goto, TypeInv, TypeOK, ProcTypeOK, KeyInHand, Decisions
<1>4. QED BY <1>2, <1>3, HostUnchangedType DEF Built, TypeInv, TypeOK

-----------------------------------------------------------------------------
(* Every step of a process preserves TypeInv, one group of actions at a time. *)

\* The label a process stands at is no name of a key that is about to be used.
PlainLabels == Labels \ {"authorize", "openKey", "fillKey"}

LEMMA PlainCallType ==
  ASSUME TypeInv, NEW p \in Procs, NEW from, NEW to \in PlainLabels, Call(p, from, to),
         UNCHANGED memVars, HostTypeOK'
  PROVE  TypeInv'
BY GotoType DEF Call, PlainLabels, TypeInv, TypeOK

LEMMA PlainLabelFacts ==
  /\ BuilderCalls \cup ImportCalls \cup ProvisionCalls \cup SuspendCalls \cup DestroyCalls
       \cup Decisions \cup {"download", "idle"} \subseteq PlainLabels
  /\ {"boot", "insertKey", "configure", "powerButton", "awaitOff", "reboot", "readOptions",
      "writeOptions"} \subseteq PlainLabels
BY DEF PlainLabels, Labels, Calls, BuilderCalls, ImportCalls, StartCalls, ProvisionCalls,
       SuspendCalls, DestroyCalls, Decisions

LEMMA RebuildType ==
  ASSUME TypeInv, NEW p \in Procs, NEW from, NEW use \in Decisions, Rebuild(p, from, use),
         HostTypeOK'
  PROVE  TypeInv'
<1>1. ProcTypeOK'
  BY DEF Rebuild, Goto, TypeInv, TypeOK, ProcTypeOK, Calls, BuilderCalls
<1>2. KeyInHand' BY DEF Rebuild, Goto, TypeInv, TypeOK, ProcTypeOK, KeyInHand
<1>3. QED BY <1>1, <1>2 DEF TypeInv, TypeOK

LEMMA InvokeType ==
  ASSUME TypeInv, NEW p \in Procs, Invoke(p)
  PROVE  TypeInv'
<1>1. PICK r \in Requests :
        /\ req' = [req EXCEPT ![p] = r]
        /\ pc' = [pc EXCEPT ![p] = IF r.op = "destroy" THEN "untrust" ELSE "getName"]
        /\ result' = [result EXCEPT ![p] = None]
  BY DEF Invoke
<1>2. UNCHANGED <<hostVars, name, obj, cfg, key, want, after, doomed, failed>> BY DEF Invoke
<1>3. r \in AllRequests BY RequestsAssumption
<1>4. ProcTypeOK'
  BY <1>1, <1>2, <1>3 DEF TypeInv, TypeOK, ProcTypeOK, Calls, BuilderCalls, DestroyCalls
<1>5. KeyInHand' BY <1>1, <1>2 DEF TypeInv, TypeOK, ProcTypeOK, KeyInHand
<1>6. QED BY <1>2, <1>4, <1>5, HostUnchangedType DEF TypeInv, TypeOK

LEMMA BuilderType ==
  ASSUME TypeInv, NEW p \in Procs, BuilderStep(p) \/ VMConfigFails(p) \/ QueryFails(p)
  PROVE  TypeInv'
<1> USE DEF TypeInv, TypeOK
<1>1. cfg \in [Procs -> Addrs \cup {None}] /\ after[p] \in Decisions BY DEF ProcTypeOK
<1>2. CASE GetVMName(p)
  <2>1. CASE NameRefused(req[p]) BY <1>2, <2>1, ReturnType DEF GetVMName
  <2>2. CASE ~NameRefused(req[p])
    <3>1. NameFor(req[p]) \in Names BY DEF NameFor, Names
    <3>2. ProcTypeOK' BY <1>2, <2>2, <3>1 DEF GetVMName, Goto, ProcTypeOK, Calls, BuilderCalls
    <3>3. KeyInHand' BY <1>2, <2>2 DEF GetVMName, Goto, ProcTypeOK, KeyInHand
    <3>4. QED BY <1>2, <2>2, <3>2, <3>3, HostUnchangedType DEF GetVMName
  <2>3. QED BY <2>1, <2>2
<1>3. CASE VMStatus(p)
  <2>1. StatusObject(name[p]) \in Objects BY DEF StatusObject, Objects
  <2>2. ProcTypeOK' BY <1>3, <2>1 DEF VMStatus, Goto, ProcTypeOK, Calls, BuilderCalls
  <2>3. KeyInHand' BY <1>3 DEF VMStatus, Goto, ProcTypeOK, KeyInHand
  <2>4. QED BY <1>3, <2>2, <2>3, HostUnchangedType DEF VMStatus
<1>4. CASE VMConfig(p)
  <2>1. CASE VMConfigReadable(name[p])
    <3>1. vmConfig \in Addrs BY <2>1 DEF VMConfigReadable
    <3>2. ProcTypeOK'
      BY <1>1, <1>4, <2>1, <3>1 DEF VMConfig, Goto, ProcTypeOK, Calls, BuilderCalls
    <3>3. KeyInHand' BY <1>1, <1>4, <2>1 DEF VMConfig, Goto, ProcTypeOK, KeyInHand, Decisions
    <3>4. QED BY <1>4, <2>1, <3>2, <3>3, HostUnchangedType DEF VMConfig
  <2>2. CASE ~VMConfigReadable(name[p])
    BY <1>1, <1>4, <2>2, BuiltType DEF VMConfig, Objects
  <2>3. QED BY <2>1, <2>2
<1>5. CASE CheckDir(p) BY <1>1, <1>5, BuiltType DEF CheckDir, Objects
<1>6. CASE QueryGuest(p) BY <1>1, <1>6, BuiltType DEF QueryGuest, Objects
<1>7. CASE VMConfigFails(p) BY <1>1, <1>7, BuiltType DEF VMConfigFails, Objects
<1>8. CASE QueryFails(p) BY <1>1, <1>8, BuiltType DEF QueryFails, Objects
<1>9. QED BY <1>2, <1>3, <1>4, <1>5, <1>6, <1>7, <1>8 DEF BuilderStep

LEMMA CommandType ==
  ASSUME TypeInv, NEW p \in Procs, CommandStep(p)
  PROVE  TypeInv'
<1> DEFINE Out(r) == Return(p, r)
           Go(l)  == Proceed(p, l)
<1>1. \/ \E r \in {"ok", "err"} : Out(r)
      \/ \E l \in PlainLabels : Go(l)
  <2> USE PlainLabelFacts DEF Decisions, SuspendCalls, ProvisionCalls, ImportCalls
  <2>1. CASE StatusCmd(p) BY <2>1 DEF StatusCmd
  <2>2. CASE StopCmd(p) BY <2>2 DEF StopCmd
  <2>3. CASE SuspendCmd(p) BY <2>3 DEF SuspendCmd
  <2>4. CASE ResumeCmd(p) BY <2>4 DEF ResumeCmd
  <2>5. CASE StartCmd(p) BY <2>5 DEF StartCmd
  <2>6. CASE Download(p) BY <2>6 DEF Download
  <2>7. CASE Launch(p) BY <2>7 DEF Launch
  <2>8. CASE Provision(p) BY <2>8 DEF Provision
  <2>9. QED BY <2>1, <2>2, <2>3, <2>4, <2>5, <2>6, <2>7, <2>8 DEF CommandStep
<1>2. QED BY <1>1, ReturnType, ProceedType DEF PlainLabels

\* What TypeInv says of the memory of one process.
LEMMA MemFacts ==
  ASSUME TypeInv, NEW p \in Procs
  PROVE  /\ name[p] \in Names
         /\ cfg[p] \in Addrs \cup {None}
         /\ key[p] \in Keys \cup {None, Torn}
         /\ want[p] \in ServiceSets \cup {None}
         /\ pc[p] \in {"authorize", "openKey", "fillKey"} => key[p] \in Keys
BY DEF TypeInv, TypeOK, ProcTypeOK, KeyInHand

LEMMA ImportType ==
  ASSUME TypeInv, NEW p \in Procs, ImportStep(p)
  PROVE  TypeInv'
<1> USE MemFacts, PlainLabelFacts DEF ImportCalls
<1>h. HostTypeOK BY DEF TypeInv, TypeOK
<1>1. CASE CreateVMStep(p) BY <1>h, <1>1, MachineCallType, PlainCallType DEF CreateVMStep
<1>2. CASE BeginExtract(p) BY <1>h, <1>2, FileCallType, PlainCallType DEF BeginExtract
<1>3. CASE EndExtract(p) BY <1>h, <1>3, FileCallType, PlainCallType DEF EndExtract
<1>4. CASE CloneDiskStep(p) BY <1>h, <1>4, MachineCallType, PlainCallType DEF CloneDiskStep
<1>5. CASE DeleteDiskStep(p) BY <1>h, <1>5, MachineCallType, PlainCallType DEF DeleteDiskStep
<1>6. CASE AttachDisk(p) BY <1>h, <1>6, MachineCallType, PlainCallType DEF AttachDisk, Settings
<1>7. CASE SelectNetwork(p)
  <2>1. PICK a \in Addrs : cfg' = [cfg EXCEPT ![p] = a] BY <1>7 DEF SelectNetwork
  <2>2. ProcTypeOK'
    BY <1>7, <2>1 DEF SelectNetwork, Call, Goto, TypeInv, TypeOK, ProcTypeOK, Calls
  <2>3. KeyInHand'
    BY <1>7 DEF SelectNetwork, Call, Goto, TypeInv, TypeOK, ProcTypeOK, KeyInHand
  <2>4. QED BY <1>h, <1>7, <2>2, <2>3, HostUnchangedType DEF SelectNetwork, TypeInv, TypeOK
<1>8. CASE AttachNic(p) BY <1>h, <1>8, MachineCallType, PlainCallType DEF AttachNic
<1>9. CASE OpenConfig(p) BY <1>h, <1>9, FileCallType, PlainCallType DEF OpenConfig
<1>10. CASE FillConfig(p) BY <1>h, <1>10, FileCallType, PlainCallType DEF FillConfig
<1>11. CASE UseDNSProxy(p) BY <1>h, <1>11, MachineCallType, PlainCallType DEF UseDNSProxy, Settings
<1>12. CASE ForwardPort(p) BY <1>h, <1>12, MachineCallType, PlainCallType DEF ForwardPort, Settings
<1>13. CASE SetCPUs(p) BY <1>h, <1>13, MachineCallType, PlainCallType DEF SetCPUs, Settings
<1>14. CASE SetMemory(p)
  BY <1>h, <1>14, MachineCallType, RebuildType DEF SetMemory, Settings, Decisions
<1>15. QED BY <1>1, <1>2, <1>3, <1>4, <1>5, <1>6, <1>7, <1>8, <1>9, <1>10, <1>11, <1>12,
               <1>13, <1>14 DEF ImportStep

LEMMA StartType ==
  ASSUME TypeInv, NEW p \in Procs, StartStep(p)
  PROVE  TypeInv'
<1> USE MemFacts, PlainLabelFacts
<1>h. HostTypeOK BY DEF TypeInv, TypeOK
<1>k. keyFile \in Keys \cup {None, Torn} BY <1>h DEF HostTypeOK
<1>1. CASE Boot(p) BY <1>h, <1>1, MachineCallType, PlainCallType DEF Boot
<1>2. CASE Reboot(p) BY <1>h, <1>2, MachineCallType, PlainCallType DEF Reboot
<1>3. CASE InsertKey(p)
  <2>1. UNCHANGED <<hostVars, req, name, obj, cfg, want, after, doomed, failed>>
    BY <1>3 DEF InsertKey
  <2>2. CASE keyFile # None
    BY <1>3, <2>2, ProceedType DEF InsertKey, Proceed, memVars, PlainLabels
  <2>3. CASE keyFile = None
    <3>1. PICK k \in Keys : key' = [key EXCEPT ![p] = k] BY <1>3, <2>3 DEF InsertKey
    <3>2. Goto(p, "authorize") BY <1>3, <2>3 DEF InsertKey
    <3>3. ProcTypeOK'
      BY <2>1, <3>1, <3>2 DEF Goto, TypeInv, TypeOK, ProcTypeOK, Calls, StartCalls
    <3>4. KeyInHand' BY <3>1, <3>2 DEF Goto, TypeInv, TypeOK, ProcTypeOK, KeyInHand
    <3>5. QED BY <1>h, <2>1, <3>3, <3>4, HostUnchangedType DEF TypeInv, TypeOK
  <2>4. QED BY <2>2, <2>3
<1>4. CASE Authorize(p)
  <2>1. HostTypeOK' BY <1>h, <1>4, GuestCallType DEF Authorize, Call
  <2>2. QED BY <1>4, <2>1, GotoType DEF Authorize, Call, TypeInv, TypeOK, Labels, Calls, StartCalls
<1>5. CASE OpenKey(p)
  <2>1. HostTypeOK' BY <1>h, <1>5, FileCallType DEF OpenKey
  <2>2. QED BY <1>5, <2>1, GotoType DEF OpenKey, Call, TypeInv, TypeOK, Labels, Calls, StartCalls
<1>6. CASE FillKey(p)
  <2>1. key[p] \in Keys BY <1>6 DEF FillKey, Call
  <2>2. QED BY <1>h, <1>6, <2>1, FileCallType, PlainCallType DEF FillKey
<1>7. CASE Configure(p) BY <1>h, <1>7, GuestCallType, PlainCallType DEF Configure
<1>8. CASE PowerButton(p) BY <1>h, <1>8, MachineCallType, PlainCallType DEF PowerButton
<1>9. CASE AwaitOff(p) BY <1>9, ReturnType, ProceedType DEF AwaitOff, PlainLabels
<1>10. CASE ReadOptions(p)
  <2>1. want'[p] \in ServiceSets \cup {None}
    <3>1. options[name[p]] \in ServiceSets \cup {None}
      BY <1>h, <1>10 DEF ReadOptions, Call, Ready, HostTypeOK
    <3>2. ServicesFor(req[p]) \in ServiceSets \cup {None}
      BY ServicesAssumption DEF ServicesFor, TypeInv, TypeOK, ProcTypeOK, AllRequests
    <3>3. QED BY <1>10, <3>1, <3>2 DEF ReadOptions, TypeInv, TypeOK, ProcTypeOK
  <2>2. ProcTypeOK'
    BY <1>k, <1>10, <2>1 DEF ReadOptions, Call, Goto, TypeInv, TypeOK, ProcTypeOK, Calls, StartCalls
  <2>3. KeyInHand'
    BY <1>10 DEF ReadOptions, Call, Goto, TypeInv, TypeOK, ProcTypeOK, KeyInHand
  <2>4. QED BY <1>h, <1>10, <2>2, <2>3, HostUnchangedType DEF ReadOptions, TypeInv, TypeOK
<1>11. CASE WriteOptionsStep(p)
  <2>1. HostTypeOK' BY <1>h, <1>11, GuestCallType DEF WriteOptionsStep
  <2>2. QED BY <1>11, <2>1, ExitType, RebuildType DEF WriteOptionsStep, TypeInv, TypeOK, Decisions
<1>12. CASE ClearHealth(p)
  BY <1>h, <1>12, GuestCallType, RebuildType DEF ClearHealth, Decisions
<1>13. CASE ProvisionVM(p)
  BY <1>h, <1>13, GuestCallType, ExitType DEF ProvisionVM, TypeInv, TypeOK
<1>14. QED BY <1>1, <1>2, <1>3, <1>4, <1>5, <1>6, <1>7, <1>8, <1>9, <1>10, <1>11, <1>12,
               <1>13 DEF StartStep

LEMMA SuspendType ==
  ASSUME TypeInv, NEW p \in Procs, SuspendStep(p)
  PROVE  TypeInv'
<1> USE MemFacts, PlainLabelFacts DEF SuspendCalls
<1>h. HostTypeOK BY DEF TypeInv, TypeOK
<1>1. CASE Suspend(p) BY <1>h, <1>1, MachineCallType, PlainCallType DEF Suspend
<1>2. CASE Unpause(p) BY <1>h, <1>2, MachineCallType, PlainCallType DEF Unpause
<1>3. CASE Restore(p) BY <1>h, <1>3, MachineCallType, PlainCallType DEF Restore
<1>4. CASE AwaitSaved(p) BY <1>4, ReturnType DEF AwaitSaved
<1>5. CASE WaitSSH(p) BY <1>5, ReturnType DEF WaitSSH
<1>6. QED BY <1>1, <1>2, <1>3, <1>4, <1>5 DEF SuspendStep

\* A step of destroy changes no key and goes to a label of destroy or exits.
LEMMA DestroyType ==
  ASSUME TypeInv, NEW p \in Procs,
         \/ DestroyStep(p) \/ UntrustFails(p) \/ DestroyFails(p) \/ RemoveDirFails(p)
         \/ PowerOffOnly(p) \/ DestroyFailsFor(p)
  PROVE  TypeInv'
<1> USE DEF TypeInv, TypeOK
<1>1. ASSUME NEW n \in doomed[p], Visit(p, n) PROVE ProcTypeOK' /\ KeyInHand' /\ n \in Names
  <2>1. n \in Names BY DEF ProcTypeOK
  <2>2. ProcTypeOK' BY <1>1 DEF Visit, ProcTypeOK
  <2>3. KeyInHand' BY <1>1 DEF Visit, KeyInHand
  <2>4. QED BY <2>1, <2>2, <2>3
<1>2. CASE Untrust(p)
  BY <1>2, PlainLabelFacts, PlainCallType, HostUnchangedType DEF Untrust, DestroyCalls
<1>3. CASE ListVMs(p)
  <2>1. ProcTypeOK' BY <1>3 DEF ListVMs, Call, Goto, Found, ProcTypeOK, Calls, DestroyCalls
  <2>2. KeyInHand' BY <1>3 DEF ListVMs, Call, Goto, ProcTypeOK, KeyInHand
  <2>3. QED BY <1>3, <2>1, <2>2, HostUnchangedType DEF ListVMs
<1>4. CASE Destroy(p) BY <1>1, <1>4, MachineCallType DEF Destroy
<1>5. CASE PowerOffOnly(p) BY <1>1, <1>5, MachineCallType DEF PowerOffOnly
<1>6. CASE DestroyFailsFor(p) BY <1>1, <1>6, HostUnchangedType DEF DestroyFailsFor
<1>7. CASE DestroyedAll(p) BY <1>7, ProceedType, PlainLabelFacts DEF DestroyedAll, DestroyCalls, PlainLabels
<1>8. ASSUME NEW from, NEW to \in DestroyCalls, Call(p, from, to), NEW bad \in BOOLEAN, Note(p, bad),
             UNCHANGED <<hostVars, req, name, obj, cfg, key, want, after, doomed>>
      PROVE  TypeInv'
  <2>1. ProcTypeOK' BY <1>8 DEF Note, Call, Goto, ProcTypeOK, Calls
  <2>2. KeyInHand' BY <1>8 DEF Call, Goto, ProcTypeOK, KeyInHand, DestroyCalls
  <2>3. QED BY <1>8, <2>1, <2>2, HostUnchangedType
<1>9. CASE VerifyDestroyed(p) BY <1>8, <1>9 DEF VerifyDestroyed, DestroyCalls
<1>10. CASE RemoveDir(p)
  <2>1. Exit(p, IF failed[p] THEN "err" ELSE "ok") BY <1>10 DEF RemoveDir
  <2>2. ProcTypeOK' /\ KeyInHand' BY <2>1, ExitType
  <2>3. QED BY <1>10, <2>2, FileCallType DEF RemoveDir, Names
<1>11. CASE UntrustFails(p) BY <1>8, <1>11 DEF UntrustFails, DestroyCalls
<1>12. CASE DestroyFails(p) BY <1>8, <1>12 DEF DestroyFails, DestroyCalls
<1>13. CASE RemoveDirFails(p)
  <2>1. ProcTypeOK' /\ KeyInHand' BY <1>13, ExitType DEF RemoveDirFails
  <2>2. QED BY <1>13, <2>1, FileCallType DEF RemoveDirFails, Names
<1>14. QED BY <1>2, <1>3, <1>4, <1>5, <1>6, <1>7, <1>9, <1>10, <1>11, <1>12, <1>13 DEF DestroyStep

LEMMA StepType ==
  ASSUME TypeInv, NEW p \in Procs, Step(p) \/ Fails(p) \/ Killed(p)
  PROVE  TypeInv'
<1>1. CASE Refuse(p) \/ TimesOut(p) \/ CallFails(p) \/ Killed(p)
  BY <1>1, ReturnType DEF Refuse, TimesOut, CallFails, Killed
<1>2. CASE WriteCut(p)
  BY <1>2, GuestCallType, ExitType, MemFacts DEF WriteCut, TypeInv, TypeOK
<1>3. QED BY <1>1, <1>2, BuilderType, CommandType, ImportType, StartType, SuspendType, DestroyType
          DEF Step, Fails

LEMMA InitType == Init => TypeInv
<1> SUFFICES ASSUME Init PROVE TypeInv OBVIOUS
<1>1. HostTypeOK
  <2>1. PICK old \in SUBSET OldNames, k \in Keys, a \in Addrs :
          /\ power    = [n \in Names |-> IF n \in old THEN "off" ELSE "absent"]
          /\ acpi     = {}
          /\ done     = [n \in Names |-> IF n \in old THEN Settings ELSE {}]
          /\ nic      = [n \in Names |-> IF n \in old THEN a ELSE None]
          /\ image    = [n \in Names |-> IF n \in old THEN "sound" ELSE None]
          /\ auth     = [n \in Names |-> IF n \in old THEN k ELSE Insecure]
          /\ options  = [n \in Names |-> None]
          /\ guestIP  = [n \in Names |-> IF n \in old THEN a ELSE None]
          /\ healthy  = {}
          /\ keyFile  = IF old = {} THEN None ELSE k
          /\ vmConfig = IF old = {} THEN None ELSE a
          /\ archive  = [n \in Names |-> None]
          /\ vmDirs   = old
    BY DEF Init, HostInit
  <2>2. QED BY <2>1 DEF HostTypeOK, PowerStates, Names
<1>2. ProcTypeOK BY LabelFacts DEF Init, ProcTypeOK, Names, Objects, Decisions
<1>3. KeyInHand BY DEF Init, KeyInHand
<1>4. QED BY <1>1, <1>2, <1>3 DEF TypeInv, TypeOK

LEMMA NextType == TypeInv /\ [Next]_vars => TypeInv'
<1> SUFFICES ASSUME TypeInv, [Next]_vars PROVE TypeInv' OBVIOUS
<1>1. ASSUME UNCHANGED procVars PROVE ProcTypeOK' /\ KeyInHand'
  BY <1>1 DEF procVars, memVars, TypeInv, TypeOK, ProcTypeOK, KeyInHand
<1>2. CASE \E p \in Procs : Invoke(p) \/ Step(p) BY <1>2, InvokeType, StepType
<1>3. CASE \E n \in Names : (GuestEvent(n) \/ GuestFault(n)) /\ UNCHANGED procVars
  BY <1>1, <1>3, GuestCallType DEF TypeInv, TypeOK
<1>4. CASE \E p \in Procs : Fails(p) \/ Killed(p) BY <1>4, StepType
<1>5. CASE UNCHANGED vars BY <1>1, <1>5, HostUnchangedType DEF vars, TypeInv, TypeOK
<1>6. QED BY <1>2, <1>3, <1>4, <1>5 DEF Next, Fault

(* Every variable of the host and of the processes keeps its type, whatever  *)
(* the interleaving, the faults and the commands: a command that finds a VM  *)
(* half imported or a file half written meets a case it provides for.        *)
THEOREM TypeCorrect == Spec => []TypeOK
<1>1. TypeInv => TypeOK BY DEF TypeInv
<1>2. QED BY <1>1, InitType, NextType, PTL DEF Spec

-----------------------------------------------------------------------------
(* One invocation at a time.  The invariant has three parts: between         *)
(* GetVMName and its end a command other than destroy knows the only VM      *)
(* there can be by name; a key pair in the hands of insertSecureKeypair is   *)
(* the only one; and a destroy that has noted no error has seen no VM.       *)

KeyLabels == {"authorize", "openKey", "fillKey"}

\* Here the process has not chosen the name of its VM, or has no use for one.
Nameless == {"idle", "getName"} \cup DestroyCalls

OneVMInv == /\ AtMostOneVM
            /\ \A p \in Procs : pc[p] \notin Nameless => Found \subseteq {name[p]}

KeyInv == /\ KeysAgree
          /\ \A n \in Names : ~Exists(n) => auth[n] = Insecure
          /\ \A p \in Procs : /\ pc[p] \in {"authorize", "openKey"} => keyFile = None
                              /\ pc[p] = "fillKey" => keyFile = Torn
                              /\ pc[p] \in {"openKey", "fillKey"} => auth[name[p]] = key[p]

DestroyInv ==
  \A p \in Procs : /\ pc[p] # "idle" => (req[p].op = "destroy" <=> pc[p] \in DestroyCalls)
                   /\ pc[p] = "removeDir" /\ ~failed[p] => Found = {}

AloneInv == TypeInv /\ OneVMInv /\ KeyInv /\ DestroyInv

\* What most calls, and most steps of a command other than destroy, leave alone.
HostQuiet == Found' = Found /\ auth' = auth /\ keyFile' = keyFile

Quiet(p) ==
  /\ pc[p] \notin DestroyCalls \cup {"idle"}
  /\ pc'[p] \notin DestroyCalls \cup KeyLabels
  /\ pc'[p] # "idle" => req'[p] = req[p] /\ name'[p] = name[p]
  /\ pc'[p] \notin Nameless => pc[p] \notin Nameless
  /\ HostQuiet

LEMMA QuietReturn ==
  ASSUME TypeInv, NEW p \in Procs, NEW r, Return(p, r), pc[p] \notin DestroyCalls \cup {"idle"}
  PROVE  Quiet(p)
BY DEF Return, Exit, Quiet, Nameless, KeyLabels, DestroyCalls, TypeInv, TypeOK, ProcTypeOK,
       hostVars, machineVars, guestVars, fileVars, HostQuiet, Found, Exists

LEMMA QuietProceed ==
  ASSUME TypeInv, NEW p \in Procs, NEW to \in PlainLabels \ DestroyCalls, Proceed(p, to),
         pc[p] \notin Nameless
  PROVE  Quiet(p)
BY DEF Proceed, Goto, Quiet, Nameless, KeyLabels, PlainLabels, TypeInv, TypeOK, ProcTypeOK, memVars,
       hostVars, machineVars, guestVars, fileVars, HostQuiet, Found, Exists

LEMMA QuietCommand ==
  ASSUME TypeInv, NEW p \in Procs, CommandStep(p)
  PROVE  Quiet(p)
<1>1. pc[p] \in Decisions \cup {"download"}
  BY DEF CommandStep, StatusCmd, StopCmd, SuspendCmd, ResumeCmd, StartCmd, Download, Launch,
         Provision, Decisions
<1>2. pc[p] \notin Nameless BY <1>1 DEF Decisions, Nameless, DestroyCalls
<1>3. \/ \E r \in {"ok", "err"} : Return(p, r)
      \/ \E l \in PlainLabels \ DestroyCalls : Proceed(p, l)
  <2> USE PlainLabelFacts DEF Decisions, SuspendCalls, ProvisionCalls, ImportCalls, DestroyCalls
  <2>1. CASE StatusCmd(p) BY <2>1 DEF StatusCmd
  <2>2. CASE StopCmd(p) BY <2>2 DEF StopCmd
  <2>3. CASE SuspendCmd(p) BY <2>3 DEF SuspendCmd
  <2>4. CASE ResumeCmd(p) BY <2>4 DEF ResumeCmd
  <2>5. CASE StartCmd(p) BY <2>5 DEF StartCmd
  <2>6. CASE Download(p) BY <2>6 DEF Download
  <2>7. CASE Launch(p) BY <2>7 DEF Launch
  <2>8. CASE Provision(p) BY <2>8 DEF Provision
  <2>9. QED BY <2>1, <2>2, <2>3, <2>4, <2>5, <2>6, <2>7, <2>8 DEF CommandStep
<1>4. QED BY <1>2, <1>3, QuietReturn, QuietProceed DEF Nameless

LEMMA QuietHost ==
  ASSUME HostTypeOK, NEW n \in Names,
         \/ CloneDisk(n) \/ DeleteDisk(n) \/ PressPowerButton(n)
         \/ StartVM(n) /\ Bootable(n)
         \/ SaveState(n) /\ power[n] = "running"
         \/ ResumeVM(n) /\ power[n] = "paused"
         \/ PowerOffVM(n) /\ Exists(n)
         \/ \E s \in Settings : ModifyVM(n, s)
         \/ \E a \in Addrs \cup {None} : AttachNetworkInterface(n, a) \/ ConfigureGuestNetwork(n, a)
         \/ Extract(n, None, "partial") \/ Extract(n, "partial", "whole")
         \/ \E v \in Addrs \cup {None, Torn} : WriteConfig(v)
         \/ \E v \in ServiceSets \cup {None} : WriteOptions(n, v)
         \/ RunProvisioner(n) \/ RemoveHealthcheck(n)
         \/ CutOptions(n) /\ power[n] = "running"
         \/ GuestEvent(n) \/ GuestFault(n)
         \/ UNCHANGED hostVars
  PROVE  HostQuiet
<1>1. auth' = auth /\ keyFile' = keyFile
  BY DEF CloneDisk, DeleteDisk, PressPowerButton, StartVM, SaveState, ResumeVM, PowerOffVM, ModifyVM,
         AttachNetworkInterface, ConfigureGuestNetwork, Extract, WriteConfig, WriteOptions,
         CutOptions, RunProvisioner, RemoveHealthcheck, GuestEvent, GuestShutsDown, StateSaved,
         GuestFault, VMAborts, VMPausedOutside, hostVars, machineVars, guestVars, fileVars
<1>2. power' = power \/ \E s \in PowerStates \ {"absent"} :
                          Exists(n) /\ power' = [power EXCEPT ![n] = s]
  BY DEF CloneDisk, DeleteDisk, PressPowerButton, StartVM, SaveState, ResumeVM, PowerOffVM, ModifyVM,
         AttachNetworkInterface, ConfigureGuestNetwork, Extract, WriteConfig, WriteOptions,
         CutOptions, RunProvisioner, RemoveHealthcheck, GuestEvent, GuestShutsDown, StateSaved,
         GuestFault, VMAborts, VMPausedOutside, hostVars, machineVars, guestVars, fileVars, Bootable, Exists,
         PowerStates
<1>3. Found' = Found BY <1>2 DEF Found, Exists, HostTypeOK
<1>4. QED BY <1>1, <1>3 DEF HostQuiet

\* Quiet steps that are one call and go to the next label.
LEMMA QuietCall ==
  ASSUME TypeInv, NEW p \in Procs, NEW to \in PlainLabels \ DestroyCalls, Goto(p, to),
         pc[p] \notin Nameless, UNCHANGED <<req, name>>, HostQuiet
  PROVE  Quiet(p)
BY DEF Goto, Quiet, Nameless, KeyLabels, PlainLabels, TypeInv, TypeOK, ProcTypeOK

LEMMA QuietExit ==
  ASSUME TypeInv, NEW p \in Procs, NEW r, Exit(p, r), pc[p] \notin Nameless, HostQuiet
  PROVE  Quiet(p)
BY DEF Exit, Quiet, Nameless, KeyLabels, DestroyCalls, TypeInv, TypeOK, ProcTypeOK

LEMMA QuietBuilder ==
  ASSUME TypeInv, NEW p \in Procs,
         \/ VMStatus(p) \/ VMConfig(p) \/ CheckDir(p) \/ QueryGuest(p)
         \/ VMConfigFails(p) \/ QueryFails(p)
  PROVE  Quiet(p)
<1> USE DEF BuilderCalls, Decisions, DestroyCalls
<1>1. pc[p] \notin Nameless /\ after[p] \in Decisions
  BY DEF VMStatus, VMConfig, CheckDir, QueryGuest, VMConfigFails, QueryFails, Nameless, TypeInv,
         TypeOK, ProcTypeOK
<1>2. HostQuiet /\ UNCHANGED <<req, name>>
  <2>1. UNCHANGED hostVars /\ UNCHANGED <<req, name>>
    BY DEF VMStatus, VMConfig, CheckDir, QueryGuest, VMConfigFails, QueryFails, Built
  <2>2. UNCHANGED hostVars => HostQuiet
    BY DEF HostQuiet, hostVars, machineVars, guestVars, fileVars, Found, Exists
  <2>3. QED BY <2>1, <2>2
<1>3. \E to \in Decisions \cup {"config", "checkDir", "query"} : Goto(p, to)
  BY <1>1 DEF VMStatus, VMConfig, CheckDir, QueryGuest, VMConfigFails, QueryFails, Built
<1>4. QED BY <1>1, <1>2, <1>3, PlainLabelFacts, QuietCall

LEMMA QuietImport ==
  ASSUME TypeInv, NEW p \in Procs, ImportStep(p), ~CreateVMStep(p)
  PROVE  Quiet(p)
<1> USE MemFacts DEF Call, Rebuild, memVars
<1>h. HostTypeOK BY DEF TypeInv, TypeOK
<1>1. pc[p] \in ImportCalls
  BY DEF ImportStep, CreateVMStep, BeginExtract, EndExtract, CloneDiskStep, DeleteDiskStep,
         AttachDisk, SelectNetwork, AttachNic, OpenConfig, FillConfig, UseDNSProxy, ForwardPort,
         SetCPUs, SetMemory, ImportCalls
<1>2. pc[p] \notin Nameless BY <1>1 DEF ImportCalls, Nameless, DestroyCalls
<1>3. UNCHANGED <<req, name>> /\ \E to \in ImportCalls \cup {"status"} : Goto(p, to)
  BY DEF ImportStep, CreateVMStep, BeginExtract, EndExtract, CloneDiskStep, DeleteDiskStep,
         AttachDisk, SelectNetwork, AttachNic, OpenConfig, FillConfig, UseDNSProxy, ForwardPort,
         SetCPUs, SetMemory, ImportCalls
<1>4. HostQuiet
  <2>1. CASE BeginExtract(p) \/ EndExtract(p) BY <1>h, <2>1, QuietHost DEF BeginExtract, EndExtract
  <2>2. CASE CloneDiskStep(p) BY <1>h, <2>2, QuietHost DEF CloneDiskStep
  <2>3. CASE DeleteDiskStep(p) BY <1>h, <2>3, QuietHost DEF DeleteDiskStep
  <2>4. CASE SelectNetwork(p) BY <1>h, <2>4, QuietHost DEF SelectNetwork
  <2>5. CASE AttachNic(p) BY <1>h, <2>5, QuietHost DEF AttachNic
  <2>6. CASE OpenConfig(p) \/ FillConfig(p) BY <1>h, <2>6, QuietHost DEF OpenConfig, FillConfig
  <2>7. CASE AttachDisk(p) \/ UseDNSProxy(p) \/ ForwardPort(p) \/ SetCPUs(p) \/ SetMemory(p)
    <3>1. \E s \in Settings : ModifyVM(name[p], s)
      BY <2>7 DEF AttachDisk, UseDNSProxy, ForwardPort, SetCPUs, SetMemory, Settings
    <3>2. QED BY <1>h, <3>1, QuietHost
  <2>8. QED BY <2>1, <2>2, <2>3, <2>4, <2>5, <2>6, <2>7 DEF ImportStep
<1>5. QED BY <1>2, <1>3, <1>4, PlainLabelFacts, QuietCall DEF ImportCalls, BuilderCalls, DestroyCalls

LEMMA QuietStart ==
  ASSUME TypeInv, NEW p \in Procs, StartStep(p) \/ SuspendStep(p),
         pc[p] \notin KeyLabels \cup {"insertKey"}
  PROVE  Quiet(p)
<1> USE MemFacts, PlainLabelFacts DEF Call, Rebuild, memVars, Nameless, DestroyCalls, SuspendCalls,
                                      BuilderCalls, ProvisionCalls
<1>h. HostTypeOK BY DEF TypeInv, TypeOK
<1>1. CASE Boot(p) \/ Reboot(p) \/ Restore(p)
  <2>1. StartVM(name[p]) /\ Bootable(name[p]) BY <1>1 DEF Boot, Reboot, Restore, Ready
  <2>2. HostQuiet BY <1>h, <2>1, QuietHost
  <2>3. pc[p] \notin Nameless /\ UNCHANGED <<req, name>> BY <1>1 DEF Boot, Reboot, Restore
  <2>4. CASE Boot(p) BY <2>2, <2>3, <2>4, QuietCall DEF Boot
  <2>5. CASE Reboot(p) BY <2>2, <2>3, <2>5, QuietCall DEF Reboot
  <2>6. CASE Restore(p) BY <2>2, <2>3, <2>6, QuietCall DEF Restore
  <2>7. QED BY <1>1, <2>4, <2>5, <2>6
<1>2. CASE Configure(p) BY <1>h, <1>2, QuietHost, QuietCall DEF Configure
<1>3. CASE PowerButton(p) BY <1>h, <1>3, QuietHost, QuietCall DEF PowerButton
<1>4. CASE AwaitOff(p) BY <1>4, QuietReturn, QuietProceed DEF AwaitOff
<1>5. CASE ReadOptions(p) BY <1>h, <1>5, QuietHost, QuietCall DEF ReadOptions
<1>6. CASE WriteOptionsStep(p)
  <2>1. HostQuiet BY <1>h, <1>6, QuietHost DEF WriteOptionsStep
  <2>2. QED BY <1>6, <2>1, QuietExit, QuietCall DEF WriteOptionsStep
<1>7. CASE ClearHealth(p) BY <1>h, <1>7, QuietHost, QuietCall DEF ClearHealth
<1>8. CASE ProvisionVM(p) BY <1>h, <1>8, QuietHost, QuietExit DEF ProvisionVM
<1>9. CASE Suspend(p)
  <2>1. SaveState(name[p]) /\ power[name[p]] = "running" BY <1>9 DEF Suspend, Ready
  <2>2. QED BY <1>h, <1>9, <2>1, QuietHost, QuietCall DEF Suspend
<1>10. CASE Unpause(p)
  <2>1. ResumeVM(name[p]) /\ power[name[p]] = "paused" BY <1>10 DEF Unpause, Ready
  <2>2. QED BY <1>h, <1>10, <2>1, QuietHost, QuietCall DEF Unpause
<1>11. CASE AwaitSaved(p) \/ WaitSSH(p) BY <1>11, QuietReturn DEF AwaitSaved, WaitSSH
<1>12. CASE InsertKey(p) \/ Authorize(p) \/ OpenKey(p) \/ FillKey(p)
  BY <1>12 DEF InsertKey, Authorize, OpenKey, FillKey, KeyLabels
<1>13. QED BY <1>1, <1>2, <1>3, <1>4, <1>5, <1>6, <1>7, <1>8, <1>9, <1>10, <1>11, <1>12
           DEF StartStep, SuspendStep

LEMMA QuietCut ==
  ASSUME TypeInv, NEW p \in Procs, WriteCut(p)
  PROVE  Quiet(p)
<1>1. HostTypeOK /\ name[p] \in Names BY MemFacts DEF TypeInv, TypeOK
<1>2. CutOptions(name[p]) /\ power[name[p]] = "running" BY DEF WriteCut, Ready, Reachable
<1>3. HostQuiet BY <1>1, <1>2, QuietHost
<1>4. QED BY <1>3, QuietExit DEF WriteCut, Nameless, DestroyCalls

\* With one process, what holds of p holds of all.
LEMMA QuietKeeps ==
  ASSUME OneProcess, AloneInv, NEW p \in Procs, Quiet(p), TypeInv'
  PROVE  AloneInv'
<1> USE DEF Quiet, HostQuiet, OneProcess
<1>1. OneVMInv' BY DEF AloneInv, OneVMInv, AtMostOneVM, Nameless
<1>2. KeyInv'
  <2>1. \A n \in Names : Exists(n) <=> Exists(n)' BY DEF Found
  <2>2. QED BY <2>1 DEF AloneInv, KeyInv, KeysAgree, KeyLabels
<1>3. DestroyInv' BY DEF AloneInv, DestroyInv, DestroyCalls
<1>4. QED BY <1>1, <1>2, <1>3 DEF AloneInv

LEMMA InvokeAlone ==
  ASSUME OneProcess, AloneInv, NEW p \in Procs, Invoke(p), TypeInv'
  PROVE  AloneInv'
<1> USE DEF OneProcess, DestroyCalls
<1>1. PICK r \in Requests :
        /\ req' = [req EXCEPT ![p] = r]
        /\ pc' = [pc EXCEPT ![p] = IF r.op = "destroy" THEN "untrust" ELSE "getName"]
  BY DEF Invoke
<1>2. UNCHANGED <<hostVars, name, key>> BY DEF Invoke
<1>3. pc'[p] = (IF r.op = "destroy" THEN "untrust" ELSE "getName") /\ req'[p] = r
  BY <1>1 DEF AloneInv, TypeInv, TypeOK, ProcTypeOK
<1>4. HostQuiet
  BY <1>2 DEF HostQuiet, hostVars, machineVars, guestVars, fileVars, Found, Exists
<1>5. OneVMInv' BY <1>3, <1>4 DEF HostQuiet, AloneInv, OneVMInv, AtMostOneVM, Nameless
<1>6. KeyInv'
  <2>1. \A n \in Names : Exists(n) <=> Exists(n)' BY <1>4 DEF HostQuiet, Found
  <2>2. QED BY <1>3, <1>4, <2>1 DEF HostQuiet, AloneInv, KeyInv, KeysAgree
<1>7. DestroyInv' BY <1>3 DEF DestroyInv
<1>8. QED BY <1>5, <1>6, <1>7 DEF AloneInv

\* What GetVMName accepts is nothing or one VM, and the name it returns.
LEMMA NameForFound ==
  ASSUME NEW r, ~NameRefused(r)
  PROVE  Found \subseteq {NameFor(r)}
BY NamesAssumption DEF NameRefused, NameFor, Names, Found

LEMMA GetVMNameAlone ==
  ASSUME OneProcess, AloneInv, NEW p \in Procs, GetVMName(p), TypeInv'
  PROVE  AloneInv'
<1> USE DEF OneProcess
<1>1. CASE NameRefused(req[p])
  BY <1>1, QuietReturn, QuietKeeps DEF GetVMName, DestroyCalls, AloneInv
<1>2. CASE ~NameRefused(req[p])
  <2>1. /\ pc[p] = "getName" /\ pc'[p] = "status" /\ name'[p] = NameFor(req[p])
        /\ UNCHANGED <<hostVars, req, key>>
    BY <1>2 DEF GetVMName, Goto, AloneInv, TypeInv, TypeOK, ProcTypeOK
  <2>2. HostQuiet
    BY <2>1 DEF HostQuiet, hostVars, machineVars, guestVars, fileVars, Found, Exists
  <2>3. OneVMInv'
    BY <1>2, <2>1, <2>2, NameForFound DEF HostQuiet, AloneInv, OneVMInv, AtMostOneVM
  <2>4. KeyInv'
    <3>1. \A n \in Names : Exists(n) <=> Exists(n)' BY <2>2 DEF HostQuiet, Found
    <3>2. QED BY <2>1, <2>2, <3>1 DEF HostQuiet, AloneInv, KeyInv, KeysAgree
  <2>5. DestroyInv' BY <2>1 DEF AloneInv, DestroyInv, DestroyCalls
  <2>6. QED BY <2>3, <2>4, <2>5 DEF AloneInv
<1>3. QED BY <1>1, <1>2

\* The only step that adds a VM adds the one the command has named.
LEMMA CreateAlone ==
  ASSUME OneProcess, AloneInv, NEW p \in Procs, CreateVMStep(p), TypeInv'
  PROVE  AloneInv'
<1> USE DEF OneProcess
<1>1. /\ pc[p] = "create" /\ pc'[p] = "extract" /\ ~Exists(name[p])
      /\ UNCHANGED <<name, req, key, auth, keyFile>>
      /\ power' = [power EXCEPT ![name[p]] = "off"]
  BY DEF CreateVMStep, Call, Ready, Goto, CreateVM, memVars, guestVars, AloneInv, TypeInv, TypeOK,
         ProcTypeOK
<1>2. Found \subseteq {name[p]} BY <1>1 DEF AloneInv, OneVMInv, Nameless, DestroyCalls
<1>3. Found' \subseteq {name[p]} /\ \A n \in Names : Exists(n) => Exists(n)'
  BY <1>1, <1>2 DEF Found, Exists, AloneInv, TypeInv, TypeOK, HostTypeOK
<1>4. OneVMInv' BY <1>1, <1>3 DEF OneVMInv, AtMostOneVM
<1>5. KeyInv' BY <1>1, <1>3 DEF AloneInv, KeyInv, KeysAgree
<1>6. DestroyInv' BY <1>1 DEF AloneInv, DestroyInv, DestroyCalls
<1>7. QED BY <1>4, <1>5, <1>6 DEF AloneInv

\* insertSecureKeypair: no file, then a new pair, the guest first, the file last.
LEMMA KeyStepsAlone ==
  ASSUME OneProcess, AloneInv, NEW p \in Procs,
         InsertKey(p) \/ Authorize(p) \/ OpenKey(p) \/ FillKey(p), TypeInv'
  PROVE  AloneInv'
<1> USE KeysAssumption DEF OneProcess
<1>1. pc[p] \in KeyLabels \cup {"insertKey"} /\ pc'[p] \in KeyLabels \cup {"configure"}
  BY DEF InsertKey, Authorize, OpenKey, FillKey, Call, Goto, KeyLabels, AloneInv, TypeInv, TypeOK,
         ProcTypeOK
<1>2. UNCHANGED <<power, name, req>>
  BY DEF InsertKey, Authorize, OpenKey, FillKey, AuthorizeKey, WriteKey, memVars, hostVars,
         machineVars
<1>3. Found \subseteq {name[p]} /\ Found' = Found
  BY <1>1, <1>2 DEF AloneInv, OneVMInv, Nameless, KeyLabels, DestroyCalls, Found, Exists
<1>4. OneVMInv' BY <1>2, <1>3 DEF AloneInv, OneVMInv, AtMostOneVM
<1>5. DestroyInv' BY <1>1, <1>2, <1>3 DEF AloneInv, DestroyInv, DestroyCalls, KeyLabels
<1>6. /\ name[p] \in Names
      /\ \A n \in Names : Exists(n) <=> Exists(n)'
      /\ \A n \in Names \ {name[p]} : auth[n] = Insecure
  BY <1>2, <1>3 DEF AloneInv, KeyInv, TypeInv, TypeOK, ProcTypeOK, Found, Exists
<1>7. KeyInv'
  <2>1. CASE InsertKey(p)
    <3>1. UNCHANGED <<auth, keyFile>>
      BY <2>1 DEF InsertKey, hostVars, guestVars, fileVars
    <3>2. (pc'[p] = "authorize" /\ keyFile = None) \/ pc'[p] = "configure"
      BY <2>1 DEF InsertKey, Goto, AloneInv, TypeInv, TypeOK, ProcTypeOK
    <3>3. QED BY <1>6, <3>1, <3>2 DEF AloneInv, KeyInv, KeysAgree
  <2>2. CASE Authorize(p)
    <3>1. /\ pc[p] = "authorize" /\ pc'[p] = "openKey" /\ Reachable(name[p], Insecure)
          /\ auth' = [auth EXCEPT ![name[p]] = key[p]] /\ UNCHANGED <<keyFile, key>>
      BY <2>2 DEF Authorize, Call, Ready, Goto, AuthorizeKey, fileVars, memVars, AloneInv, TypeInv,
                  TypeOK, ProcTypeOK
    <3>2. keyFile = None BY <3>1 DEF AloneInv, KeyInv
    <3>3. auth'[name[p]] = key[p] BY <1>6, <3>1 DEF AloneInv, TypeInv, TypeOK, HostTypeOK
    <3>4. name[p] \in Found BY <1>6, <3>1 DEF Reachable, Found, Exists
    <3>5. \A n \in Names : n # name[p] => auth'[n] = Insecure
      BY <1>6, <3>1 DEF AloneInv, TypeInv, TypeOK, HostTypeOK
    <3>6. QED BY <1>2, <1>6, <3>1, <3>2, <3>3, <3>4, <3>5 DEF KeyInv, KeysAgree, Found
  <2>3. CASE OpenKey(p)
    <3>1. /\ pc[p] = "openKey" /\ pc'[p] = "fillKey" /\ keyFile' = Torn /\ UNCHANGED <<auth, key>>
      BY <2>3 DEF OpenKey, Call, Goto, WriteKey, guestVars, memVars, AloneInv, TypeInv, TypeOK,
                  ProcTypeOK
    <3>2. QED BY <1>2, <1>6, <3>1 DEF AloneInv, KeyInv, KeysAgree
  <2>4. CASE FillKey(p)
    <3>1. /\ pc[p] = "fillKey" /\ pc'[p] = "configure" /\ keyFile' = key[p] /\ UNCHANGED <<auth, key>>
      BY <2>4 DEF FillKey, Call, Goto, WriteKey, guestVars, memVars, AloneInv, TypeInv, TypeOK,
                  ProcTypeOK
    <3>2. QED BY <1>2, <1>6, <3>1 DEF AloneInv, KeyInv, KeysAgree
  <2>5. QED BY <2>1, <2>2, <2>3, <2>4
<1>8. QED BY <1>4, <1>5, <1>7 DEF AloneInv

LEMMA ReturnAlone ==
  ASSUME OneProcess, AloneInv, NEW p \in Procs, NEW r, Return(p, r), TypeInv'
  PROVE  AloneInv'
<1> USE DEF OneProcess
<1>1. HostQuiet /\ pc'[p] = "idle"
  BY DEF Return, Exit, HostQuiet, hostVars, machineVars, guestVars, fileVars, Found, Exists,
         AloneInv, TypeInv, TypeOK, ProcTypeOK
<1>2. OneVMInv' BY <1>1 DEF HostQuiet, AloneInv, OneVMInv, AtMostOneVM, Nameless
<1>3. KeyInv'
  <2>1. \A n \in Names : Exists(n) <=> Exists(n)' BY <1>1 DEF HostQuiet, Found
  <2>2. QED BY <1>1, <2>1 DEF HostQuiet, AloneInv, KeyInv, KeysAgree
<1>4. DestroyInv' BY <1>1 DEF DestroyInv
<1>5. QED BY <1>2, <1>3, <1>4 DEF AloneInv

\* The parts of destroy, and their failures, by what they do to the host.
DestroyPart(p) == \/ DestroyStep(p) \/ UntrustFails(p) \/ DestroyFails(p) \/ RemoveDirFails(p)
                  \/ PowerOffOnly(p) \/ DestroyFailsFor(p)

LEMMA DestroyHost ==
  ASSUME AloneInv, NEW p \in Procs, DestroyPart(p)
  PROVE  /\ Found' \subseteq Found
         /\ keyFile' \in {keyFile, None}
         /\ \A n \in Names : \/ auth'[n] = auth[n] /\ (Exists(n) => Exists(n)')
                             \/ auth'[n] = Insecure
<1>t. HostTypeOK /\ doomed[p] \subseteq Names BY DEF AloneInv, TypeInv, TypeOK, ProcTypeOK
<1>1. CASE HostQuiet
  <2>1. \A n \in Names : Exists(n) <=> Exists(n)' BY <1>1 DEF HostQuiet, Found
  <2>2. QED BY <1>1, <2>1 DEF HostQuiet
<1>2. CASE Destroy(p)
  <2>1. PICK n \in Names : DestroyVM(n) BY <1>t, <1>2 DEF Destroy
  <2>2. QED BY <1>t, <2>1 DEF DestroyVM, Found, Exists, HostTypeOK
<1>3. CASE PowerOffOnly(p)
  <2>1. PICK n \in Names : PowerOffVM(n) /\ Exists(n) BY <1>t, <1>3 DEF PowerOffOnly
  <2>2. QED BY <1>1, <1>t, <2>1, QuietHost
<1>4. CASE RemoveDir(p) \/ RemoveDirFails(p)
  BY <1>4 DEF RemoveDir, RemoveDirFails, RemoveVMDir, RemovePartOfVMDir, guestVars, Found, Exists
<1>5. CASE UNCHANGED hostVars
  BY <1>5 DEF hostVars, machineVars, guestVars, fileVars, Found, Exists
<1>6. QED BY <1>2, <1>3, <1>4, <1>5
          DEF DestroyPart, DestroyStep, Untrust, ListVMs, DestroyedAll, VerifyDestroyed,
              UntrustFails, DestroyFails, DestroyFailsFor, Proceed

LEMMA DestroyAlone ==
  ASSUME OneProcess, AloneInv, NEW p \in Procs, DestroyPart(p), TypeInv'
  PROVE  AloneInv'
<1> USE DEF OneProcess, DestroyCalls
<1>t. ProcTypeOK BY DEF AloneInv, TypeInv, TypeOK
<1>1. /\ Found' \subseteq Found
      /\ keyFile' \in {keyFile, None}
      /\ \A n \in Names : \/ auth'[n] = auth[n] /\ (Exists(n) => Exists(n)')
                          \/ auth'[n] = Insecure
  BY DestroyHost
<1>2. pc[p] \in DestroyCalls /\ pc'[p] \in DestroyCalls \cup {"idle"}
  BY <1>t DEF DestroyPart, DestroyStep, Untrust, ListVMs, Destroy, PowerOffOnly, DestroyFailsFor,
         Visit, DestroyedAll, VerifyDestroyed, RemoveDir, UntrustFails, DestroyFails,
         RemoveDirFails, Call, Goto, Proceed, Exit, ProcTypeOK
<1>3. pc'[p] = "idle" \/ req'[p] = req[p]
  BY <1>t DEF DestroyPart, DestroyStep, Untrust, ListVMs, Destroy, PowerOffOnly, DestroyFailsFor,
         Visit, DestroyedAll, VerifyDestroyed, RemoveDir, UntrustFails, DestroyFails,
         RemoveDirFails, Exit, Proceed, memVars, ProcTypeOK
<1>4. pc'[p] = "removeDir" /\ ~failed'[p] => Found' = {}
  <2>1. CASE VerifyDestroyed(p)
    <3>1. Found' = Found
      BY <2>1 DEF VerifyDestroyed, hostVars, machineVars, Found, Exists
    <3>2. failed'[p] = (failed[p] \/ Found # {}) BY <1>t, <2>1 DEF VerifyDestroyed, Note, ProcTypeOK
    <3>3. QED BY <3>1, <3>2
  <2>2. CASE DestroyFails(p) BY <1>t, <2>2 DEF DestroyFails, Note, ProcTypeOK
  <2>3. CASE ~VerifyDestroyed(p) /\ ~DestroyFails(p)
    BY <1>t, <2>3 DEF DestroyPart, DestroyStep, Untrust, ListVMs, Destroy, PowerOffOnly,
         DestroyFailsFor, Visit, DestroyedAll, RemoveDir, UntrustFails, RemoveDirFails, Call, Goto,
         Proceed, Exit, ProcTypeOK
  <2>4. QED BY <2>1, <2>2, <2>3
<1>5. OneVMInv' BY <1>1, <1>2 DEF AloneInv, OneVMInv, AtMostOneVM, Nameless
<1>6. KeyInv' BY <1>1, <1>2, KeysAssumption DEF AloneInv, KeyInv, KeysAgree
<1>7. DestroyInv' BY <1>2, <1>3, <1>4 DEF AloneInv, DestroyInv
<1>8. QED BY <1>5, <1>6, <1>7 DEF AloneInv

\* Every step of a command is quiet, or one of the few that are not.
LEMMA StepSorts ==
  ASSUME TypeInv, NEW p \in Procs, Step(p) \/ Fails(p) \/ Killed(p)
  PROVE  \/ Quiet(p) \/ GetVMName(p) \/ CreateVMStep(p) \/ DestroyPart(p)
         \/ InsertKey(p) \/ Authorize(p) \/ OpenKey(p) \/ FillKey(p)
         \/ \E r \in {"err", "killed"} : Return(p, r)
<1>1. CASE BuilderStep(p) BY <1>1, QuietBuilder DEF BuilderStep
<1>2. CASE CommandStep(p) BY <1>2, QuietCommand
<1>3. CASE ImportStep(p) BY <1>3, QuietImport
<1>4. CASE StartStep(p) \/ SuspendStep(p)
  <2>1. CASE pc[p] \notin KeyLabels \cup {"insertKey"} BY <1>4, <2>1, QuietStart
  <2>2. CASE pc[p] \in KeyLabels \cup {"insertKey"}
    BY <1>4, <2>2 DEF KeyLabels, StartStep, SuspendStep, Boot, Reboot, Configure, PowerButton,
       AwaitOff, ReadOptions, WriteOptionsStep, ClearHealth, ProvisionVM, Rebuild, Suspend,
       AwaitSaved, Unpause, Restore, WaitSSH, Call
  <2>3. QED BY <2>1, <2>2
<1>5. CASE DestroyStep(p) BY <1>5 DEF DestroyPart
<1>6. CASE Refuse(p) \/ TimesOut(p) \/ Killed(p) BY <1>6 DEF Refuse, TimesOut, Killed
<1>7. CASE Fails(p) BY <1>7, QuietBuilder, QuietCut DEF Fails, CallFails, DestroyPart
<1>8. QED BY <1>1, <1>2, <1>3, <1>4, <1>5, <1>6, <1>7 DEF Step

LEMMA NextAlone == OneProcess /\ AloneInv /\ [Next]_vars => AloneInv'
<1> SUFFICES ASSUME OneProcess, AloneInv, [Next]_vars PROVE AloneInv' OBVIOUS
<1>1. TypeInv /\ TypeInv' BY NextType DEF AloneInv
<1>2. CASE \E p \in Procs : Invoke(p) BY <1>1, <1>2, InvokeAlone
<1>3. CASE \E p \in Procs : Step(p) \/ Fails(p) \/ Killed(p)
  BY <1>1, <1>3, StepSorts, QuietKeeps, GetVMNameAlone, CreateAlone, KeyStepsAlone, DestroyAlone,
     ReturnAlone
<1>4. CASE HostQuiet /\ UNCHANGED procVars
  <2>1. \A n \in Names : Exists(n) <=> Exists(n)' BY <1>4 DEF HostQuiet, Found
  <2>2. OneVMInv' BY <1>4 DEF HostQuiet, procVars, memVars, AloneInv, OneVMInv, AtMostOneVM
  <2>3. KeyInv' BY <1>4, <2>1 DEF HostQuiet, procVars, memVars, AloneInv, KeyInv, KeysAgree
  <2>4. DestroyInv' BY <1>4 DEF HostQuiet, procVars, memVars, AloneInv, DestroyInv
  <2>5. QED BY <1>1, <2>2, <2>3, <2>4 DEF AloneInv
<1>5. CASE \E n \in Names : (GuestEvent(n) \/ GuestFault(n)) /\ UNCHANGED procVars
  BY <1>1, <1>4, <1>5, QuietHost DEF TypeInv, TypeOK
<1>6. CASE UNCHANGED vars
  BY <1>4, <1>6 DEF vars, hostVars, machineVars, guestVars, fileVars, HostQuiet, Found, Exists
<1>7. QED BY <1>2, <1>3, <1>5, <1>6 DEF Next, Fault

LEMMA InitAlone == Init => AloneInv
<1> SUFFICES ASSUME Init PROVE AloneInv OBVIOUS
<1>1. PICK old \in SUBSET OldNames, k \in Keys :
        /\ \A m, n \in old : m = n
        /\ power = [n \in Names |-> IF n \in old THEN "off" ELSE "absent"]
        /\ auth = [n \in Names |-> IF n \in old THEN k ELSE Insecure]
        /\ keyFile = IF old = {} THEN None ELSE k
  BY DEF Init, HostInit
<1>2. AtMostOneVM BY <1>1 DEF AtMostOneVM, Found, Exists
<1>3. OneVMInv BY <1>2 DEF OneVMInv, Init, Nameless
<1>4. KeyInv BY <1>1, KeysAssumption DEF KeyInv, KeysAgree, Init, Exists
<1>5. DestroyInv BY DEF DestroyInv, Init
<1>6. QED BY <1>3, <1>4, <1>5, InitType DEF AloneInv

(* Commands entered one after the other never leave two PCF Dev VMs, whatever *)
(* calls failed and wherever a process was killed.                          *)
THEOREM OneVM ==
  ASSUME OneProcess
  PROVE  Spec => []AtMostOneVM
<1>1. AloneInv => AtMostOneVM BY DEF AloneInv, OneVMInv
<1>2. AloneInv /\ [Next]_vars => AloneInv' BY NextAlone
<1>3. QED BY <1>1, <1>2, InitAlone, PTL DEF Spec

(* Commands entered one after the other never leave a key.pem for a guest     *)
(* that has authorized another key.                                         *)
THEOREM KeysStayTogether ==
  ASSUME OneProcess
  PROVE  Spec => []KeysAgree
<1>1. AloneInv => KeysAgree BY DEF AloneInv, KeyInv
<1>2. AloneInv /\ [Next]_vars => AloneInv' BY NextAlone
<1>3. QED BY <1>1, <1>2, InitAlone, PTL DEF Spec

LEMMA CleanStep ==
  ASSUME OneProcess, AloneInv, [Next]_vars, NEW p \in Procs
  PROVE  DestroyedClean(p)
<1>d. /\ pc[p] # "idle" => (req[p].op = "destroy" <=> pc[p] \in DestroyCalls)
      /\ pc[p] = "removeDir" /\ ~failed[p] => Found = {}
  <2>1. DestroyInv BY DEF AloneInv
  <2>2. pc[p] # "idle" => (req[p].op = "destroy" <=> pc[p] \in DestroyCalls)
    BY <2>1 DEF DestroyInv
  <2>3. pc[p] = "removeDir" /\ ~failed[p] => Found = {} BY <2>1 DEF DestroyInv
  <2>4. QED BY <2>2, <2>3
<1> USE DEF OneProcess
<1> SUFFICES ASSUME Returns(p, "destroy", "ok")
             PROVE  /\ \A n \in Names : power'[n] = "absent" /\ archive'[n] = None
                    /\ keyFile' = None /\ vmConfig' = None /\ vmDirs' = {}
  BY DEF DestroyedClean
<1>t. ProcTypeOK /\ TypeInv BY DEF AloneInv, TypeInv, TypeOK
<1>1. pc[p] \in DestroyCalls /\ pc'[p] = "idle" /\ result'[p] = "ok"
  BY <1>d DEF Returns
<1>2. ~UNCHANGED procVars BY <1>1 DEF procVars, DestroyCalls
<1>3. Step(p) \/ Fails(p) \/ Killed(p)
  BY <1>1, <1>2 DEF Next, Fault, vars, Invoke, DestroyCalls
<1>4. DestroyPart(p)
  <2>1. ~\E r \in {"err", "killed"} : Return(p, r)
    BY <1>t, <1>1 DEF Return, Exit, ProcTypeOK
  <2>2. ~Quiet(p) BY <1>1 DEF Quiet
  <2>3. ~(GetVMName(p) \/ CreateVMStep(p) \/ InsertKey(p) \/ Authorize(p) \/ OpenKey(p) \/ FillKey(p))
    BY <1>1 DEF GetVMName, CreateVMStep, InsertKey, Authorize, OpenKey, FillKey, Call, DestroyCalls
  <2>4. QED BY <1>t, <1>3, <2>1, <2>2, <2>3, StepSorts
<1>5. RemoveDir(p) /\ pc[p] = "removeDir" /\ ~failed[p]
  <2>1. ASSUME NEW to, to # "idle", Goto(p, to) PROVE FALSE BY <1>t, <1>1, <2>1 DEF Goto, ProcTypeOK
  <2>2. ~Untrust(p) /\ ~ListVMs(p) /\ ~UntrustFails(p) BY <2>1 DEF Untrust, ListVMs, UntrustFails, Call
  <2>3. ~DestroyedAll(p) /\ ~VerifyDestroyed(p) /\ ~DestroyFails(p)
    BY <2>1 DEF DestroyedAll, VerifyDestroyed, DestroyFails, Proceed, Call
  <2>4. ~Destroy(p) /\ ~PowerOffOnly(p) /\ ~DestroyFailsFor(p)
    BY <1>1 DEF Destroy, PowerOffOnly, DestroyFailsFor, Visit
  <2>5. ~RemoveDirFails(p) BY <1>t, <1>1 DEF RemoveDirFails, Exit, ProcTypeOK
  <2>6. RemoveDir(p) BY <1>4, <2>2, <2>3, <2>4, <2>5 DEF DestroyPart, DestroyStep
  <2>7. QED BY <1>t, <1>1, <2>6 DEF RemoveDir, Exit, ProcTypeOK
<1>6. Found = {} BY <1>d, <1>5
<1>7. \A n \in Names : power[n] = "absent" BY <1>6 DEF Found, Exists
<1>8. QED BY <1>5, <1>7 DEF RemoveDir, RemoveVMDir

(* A destroy that reports success, with no other command running, has left    *)
(* no VM, key, configuration, archive or directory.                         *)
THEOREM DestroyCleans ==
  ASSUME OneProcess
  PROVE  Spec => DestroyLeavesNothing
<1>1. AloneInv /\ [Next]_vars => AloneInv' BY NextAlone
<1>2. AloneInv /\ [Next]_vars => [\A p \in Procs : DestroyedClean(p)]_vars BY CleanStep
<1>3. QED BY <1>1, <1>2, InitAlone, PTL DEF Spec, DestroyLeavesNothing
=============================================================================
