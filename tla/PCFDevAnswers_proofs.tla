------------------------ MODULE PCFDevAnswers_proofs ------------------------
(***************************************************************************)
(* Commands that run at the same time: what boots, how many VMs there are     *)
(* and whose key the guest and key.pem hold; and, for a command that is the   *)
(* only one, what start answers.                                            *)
(***************************************************************************)
EXTENDS PCFDevLife_proofs

-----------------------------------------------------------------------------
(* Any number of commands at a time, none of which destroys.  Then the host   *)
(* only gains settings, so what a command has seen of its VM stays true        *)
(* whatever the others do: two imports into one VM do not undo each other.   *)

NoDestroy == \A r \in Requests : r.op # "destroy"

Imported(n) == {"disk", "dns"} \subseteq done[n] /\ nic[n] # None /\ image[n] # None

ImportsFinish == \A n \in Names : /\ "port" \in done[n] => Imported(n)
                                  /\ Powered(n) => "port" \in done[n]

\* What the call a command is at relies on.
ClaimOf(p) ==
  /\ pc[p] \in Incomplete \ {"extract", "unpack", "clone"} => image[name[p]] # None
  /\ pc[p] \in {"network", "attachNic", "openConfig", "fillConfig", "dns", "port"}
       => "disk" \in done[name[p]]
  /\ pc[p] = "attachNic" => cfg[p] \in Addrs
  /\ pc[p] \in {"openConfig", "fillConfig", "dns", "port"} => nic[name[p]] # None
  /\ pc[p] = "port" => "dns" \in done[name[p]]
  /\ \/ pc[p] \in OfComplete
     \/ pc[p] \in Decisions \cup {"download"} /\ obj[p] \in WithConfig
     => "port" \in done[name[p]]
  /\ pc[p] \notin DestroyCalls

GrowInv == TypeInv /\ ImportsFinish /\ \A p \in Procs : ClaimOf(p)

\* The steps that can be taken on the host, and what they leave true.
GrowVM(n) ==
  \/ CreateVM(n) \/ CloneDisk(n)
  \/ \E s \in Settings : ModifyVM(n, s) /\ (s = "port" => Imported(n))
  \/ \E a \in Addrs : AttachNetworkInterface(n, a)
  \/ StartVM(n) /\ "port" \in done[n]
  \/ SaveState(n) /\ power[n] = "running"
  \/ ResumeVM(n) /\ power[n] = "paused"
  \/ CutOptions(n) \/ GuestEvent(n) \/ GuestFault(n)

GrowStep == (\E n \in Names : GrowVM(n)) \/ UNCHANGED <<power, done, nic, image>>

Grows == \A n \in Names : /\ done[n] \subseteq done'[n]
                          /\ nic[n] # None => nic'[n] # None
                          /\ image[n] # None => image'[n] # None

\* No step of one command touches the memory of another.
OthersStay(p) ==
  \A q \in Procs \ {p} : /\ pc'[q] = pc[q] /\ name'[q] = name[q] /\ obj'[q] = obj[q]
                         /\ cfg'[q] = cfg[q] /\ key'[q] = key[q] /\ req'[q] = req[q]

LEMMA GrowKeeps ==
  ASSUME HostTypeOK, ImportsFinish, GrowStep
  PROVE  Grows /\ ImportsFinish'
<1> USE AddrsAssumption DEF HostTypeOK, ImportsFinish, Imported, Powered, Grows, None, Settings
<1>1. ASSUME NEW n \in Names, GrowVM(n) PROVE Grows /\ ImportsFinish'
  <2>1. CASE CreateVM(n) BY <2>1 DEF CreateVM
  <2>2. CASE CloneDisk(n) BY <2>2 DEF CloneDisk
  <2>3. CASE \E s \in Settings : ModifyVM(n, s) /\ (s = "port" => Imported(n))
    BY <2>3 DEF ModifyVM
  <2>4. CASE \E a \in Addrs : AttachNetworkInterface(n, a) BY <2>4 DEF AttachNetworkInterface
  <2>5. CASE StartVM(n) /\ "port" \in done[n] BY <2>5 DEF StartVM
  <2>6. CASE SaveState(n) /\ power[n] = "running" BY <2>6 DEF SaveState
  <2>7. CASE ResumeVM(n) /\ power[n] = "paused" BY <2>7 DEF ResumeVM
  <2>8. CASE GuestEvent(n) BY <2>8 DEF GuestEvent, GuestShutsDown, PowerOffVM, StateSaved
  <2>9. CASE GuestFault(n) BY <2>9 DEF GuestFault, VMAborts, VMPausedOutside
  <2>10. CASE CutOptions(n) BY <2>10 DEF CutOptions
  <2>11. QED BY <1>1, <2>1, <2>2, <2>3, <2>4, <2>5, <2>6, <2>7, <2>8, <2>9, <2>10 DEF GrowVM
<1>2. CASE UNCHANGED <<power, done, nic, image>> BY <1>2
<1>3. QED BY <1>1, <1>2 DEF GrowStep

LEMMA ClaimPersists ==
  ASSUME ProcTypeOK, Grows, NEW q \in Procs, ClaimOf(q),
         pc'[q] = pc[q], name'[q] = name[q], obj'[q] = obj[q], cfg'[q] = cfg[q]
  PROVE  ClaimOf(q)'
BY DEF ProcTypeOK, Grows, ClaimOf

LEMMA OthersAside ==
  ASSUME ProcTypeOK, NEW p \in Procs, Invoke(p) \/ Step(p) \/ Fails(p) \/ Killed(p)
  PROVE  OthersStay(p)
<1> USE DEF ProcTypeOK, OthersStay
<1>1. ASSUME NEW r, Exit(p, r) PROVE OthersStay(p) BY <1>1 DEF Exit
<1>2. ASSUME NEW to, Goto(p, to), UNCHANGED <<name, obj, cfg, key, req>> PROVE OthersStay(p)
  BY <1>2 DEF Goto
<1>3. ASSUME NEW r, Return(p, r) PROVE OthersStay(p) BY <1>1, <1>3 DEF Return
<1>4. ASSUME NEW to, Proceed(p, to) PROVE OthersStay(p) BY <1>2, <1>4 DEF Proceed, memVars
<1>5. ASSUME NEW o, Built(p, o), cfg' = cfg PROVE OthersStay(p) BY <1>5 DEF Built, Goto
<1>6. ASSUME NEW from, NEW use, Rebuild(p, from, use) PROVE OthersStay(p)
  BY <1>2, <1>6 DEF Rebuild
<1>7. CASE Invoke(p) BY <1>7 DEF Invoke
<1>8. CASE BuilderStep(p) \/ VMConfigFails(p) \/ QueryFails(p)
  <2>1. CASE GetVMName(p) BY <1>3, <2>1 DEF GetVMName, Goto
  <2>2. CASE VMStatus(p) BY <2>2 DEF VMStatus, Goto
  <2>3. CASE VMConfig(p) BY <1>5, <2>3 DEF VMConfig, Goto
  <2>4. QED BY <1>5, <1>8, <2>1, <2>2, <2>3
            DEF BuilderStep, CheckDir, QueryGuest, VMConfigFails, QueryFails
<1>9. CASE CommandStep(p) BY <1>3, <1>4, <1>9, CommandMoves
<1>10. CASE ImportStep(p)
  <2>1. CASE SelectNetwork(p) BY <2>1 DEF SelectNetwork, Call, Goto
  <2>2. CASE SetMemory(p) BY <1>6, <2>2 DEF SetMemory
  <2>3. QED BY <1>2, <1>10, <2>1, <2>2
        DEF ImportStep, CreateVMStep, BeginExtract, EndExtract, CloneDiskStep, DeleteDiskStep, AttachDisk,
            AttachNic, OpenConfig, FillConfig, UseDNSProxy, ForwardPort, SetCPUs, Call, memVars
<1>11. CASE StartStep(p)
  <2>1. CASE InsertKey(p) BY <2>1 DEF InsertKey, Goto
  <2>2. CASE ReadOptions(p) BY <2>2 DEF ReadOptions, Call, Goto
  <2>3. CASE AwaitOff(p) BY <1>3, <1>4, <2>3 DEF AwaitOff
  <2>4. CASE WriteOptionsStep(p) BY <1>1, <1>6, <2>4 DEF WriteOptionsStep
  <2>5. CASE ClearHealth(p) BY <1>6, <2>5 DEF ClearHealth
  <2>6. CASE ProvisionVM(p) BY <1>1, <2>6 DEF ProvisionVM
  <2>7. QED BY <1>2, <1>11, <2>1, <2>2, <2>3, <2>4, <2>5, <2>6
            DEF StartStep, Boot, Reboot, Authorize, OpenKey, FillKey, Configure, PowerButton, Call, memVars
<1>12. CASE SuspendStep(p)
  BY <1>2, <1>3, <1>12 DEF SuspendStep, Suspend, AwaitSaved, Unpause, Restore, WaitSSH, Call, memVars
<1>13. CASE DestroyPart(p)
  BY <1>1, <1>2, <1>4, <1>13 DEF DestroyPart, DestroyStep, Untrust, ListVMs, Destroy, PowerOffOnly,
     DestroyFailsFor, Visit, DestroyedAll, VerifyDestroyed, RemoveDir, UntrustFails, DestroyFails,
     RemoveDirFails, Call, memVars
<1>14. CASE Refuse(p) \/ TimesOut(p) \/ CallFails(p) \/ Killed(p) \/ WriteCut(p)
  BY <1>1, <1>3, <1>14 DEF Refuse, TimesOut, CallFails, Killed, WriteCut
<1>15. QED BY <1>7, <1>8, <1>9, <1>10, <1>11, <1>12, <1>13, <1>14 DEF Step, Fails, DestroyPart

\* Calls that rely on nothing: a step of p to one of them keeps its claims.
NoClaim == {"idle", "getName", "status", "config", "checkDir", "create", "extract", "unpack", "clone", "cpus",
            "memory", "readOptions", "writeOptions", "clearHealth", "runProvisioner", "awaitSaved", "unpause",
            "waitSSH", "saveState"}

LEMMA NothingClaimed ==
  ASSUME NEW p \in Procs, pc'[p] \in NoClaim
  PROVE  ClaimOf(p)'
BY DEF NoClaim, DestroyCalls, ClaimOf, Incomplete, OfComplete, Decisions

LEMMA GrowTypes == GrowInv => TypeInv /\ ProcTypeOK /\ HostTypeOK /\ ImportsFinish
BY DEF GrowInv, TypeInv, TypeOK

LEMMA GrowFacts ==
  ASSUME GrowInv, NEW p \in Procs
  PROVE  ClaimOf(p) /\ name[p] \in Names /\ after[p] \in Decisions
BY DEF GrowInv, TypeInv, TypeOK, ProcTypeOK

LEMMA ExitGrows ==
  ASSUME GrowInv, NEW p \in Procs, NEW r, Exit(p, r)
  PROVE  ClaimOf(p)'
BY GrowTypes, NothingClaimed DEF Exit, ProcTypeOK, NoClaim

LEMMA RebuildGrows ==
  ASSUME GrowInv, NEW p \in Procs, NEW from, NEW use, Rebuild(p, from, use)
  PROVE  ClaimOf(p)'
BY GrowTypes, NothingClaimed DEF Rebuild, Goto, ProcTypeOK, NoClaim

LEMMA SameHost == UNCHANGED hostVars => GrowStep
BY DEF hostVars, machineVars, GrowStep

LEMMA BuilderGrows ==
  ASSUME GrowInv, NEW p \in Procs, BuilderStep(p) \/ VMConfigFails(p) \/ QueryFails(p)
  PROVE  GrowStep /\ ClaimOf(p)'
<1> USE GrowTypes, GrowFacts DEF ProcTypeOK
<1>1. GrowStep
  <2>1. UNCHANGED hostVars
    BY DEF BuilderStep, GetVMName, Return, VMStatus, VMConfig, CheckDir, QueryGuest, VMConfigFails,
           QueryFails, Built
  <2>2. QED BY <2>1, SameHost
<1>2. SUFFICES ClaimOf(p)' BY <1>1
<1>3. done' = done
  BY DEF BuilderStep, GetVMName, Return, VMStatus, VMConfig, CheckDir, QueryGuest, VMConfigFails, QueryFails,
         Built, hostVars, machineVars
\* A configuration was read only of a VM with a forwarded port.
<1>4. ASSUME NEW o, Built(p, o), cfg' = cfg, o \in WithConfig => "port" \in done[name[p]]
      PROVE  ClaimOf(p)'
  BY <1>3, <1>4 DEF Built, Goto, ClaimOf, Incomplete, OfComplete, Decisions, DestroyCalls
<1>5. CASE GetVMName(p)
  BY <1>5, ExitGrows, NothingClaimed DEF GetVMName, Goto, Return, NoClaim
<1>6. CASE VMStatus(p) BY <1>6, NothingClaimed DEF VMStatus, Goto, NoClaim
<1>7. CASE VMConfig(p)
  <2>1. CASE VMConfigReadable(name[p])
    <3>1. /\ pc' = [pc EXCEPT ![p] = IF obj[p] = "Running" THEN "query" ELSE after[p]]
          /\ "port" \in done[name[p]] /\ UNCHANGED <<name, obj>>
      BY <1>7, <2>1 DEF VMConfig, VMConfigReadable, Goto
    <3>2. QED BY <1>3, <3>1 DEF ClaimOf, Incomplete, OfComplete, Decisions, DestroyCalls
  <2>2. CASE ~VMConfigReadable(name[p]) BY <1>4, <1>7, <2>2 DEF VMConfig, WithConfig
  <2>3. QED BY <2>1, <2>2
<1>8. CASE VMConfigFails(p) \/ CheckDir(p) BY <1>4, <1>8 DEF VMConfigFails, CheckDir, WithConfig
<1>9. CASE QueryGuest(p) \/ QueryFails(p)
  <2>1. pc[p] = "query" /\ cfg' = cfg /\ \E o \in {"Running", "Unprovisioned", "Invalid"} : Built(p, o)
    BY <1>9 DEF QueryGuest, QueryFails
  <2>2. "port" \in done[name[p]] BY <2>1 DEF ClaimOf, OfComplete
  <2>3. QED BY <1>4, <2>1, <2>2
<1>10. QED BY <1>1, <1>5, <1>6, <1>7, <1>8, <1>9 DEF BuilderStep

LEMMA CommandGrows ==
  ASSUME GrowInv, NEW p \in Procs, CommandStep(p)
  PROVE  GrowStep /\ ClaimOf(p)'
<1> USE GrowTypes, GrowFacts DEF ProcTypeOK
<1>1. ASSUME NEW to, Proceed(p, to)
      PROVE  pc'[p] = to /\ UNCHANGED <<name, obj, cfg>> /\ UNCHANGED hostVars /\ done' = done
  BY <1>1 DEF Proceed, Goto, memVars, hostVars, machineVars
<1>2. CASE \E r \in {"ok", "err"} : Return(p, r) BY <1>2, ExitGrows, SameHost DEF Return
<1>3. CASE \E to \in {"create", "unpause", "runProvisioner", "clearHealth"} : Proceed(p, to)
  BY <1>1, <1>3, NothingClaimed, SameHost DEF NoClaim
<1>4. CASE \E to \in {"boot", "restore", "powerButton"} :
              /\ Proceed(p, to) /\ obj[p] \in WithConfig /\ pc[p] \in Decisions
  BY <1>1, <1>4, SameHost DEF ClaimOf, Incomplete, OfComplete, Decisions, DestroyCalls
<1>5. CASE Proceed(p, "saveState") /\ pc[p] = "dispatch" /\ obj[p] = "Running"
  BY <1>1, <1>5, SameHost DEF ClaimOf, Incomplete, OfComplete, Decisions, DestroyCalls
<1>6. CASE \E to \in {"download", "launch", "provision"} :
              Proceed(p, to) /\ pc[p] \in Decisions \cup {"download"}
  BY <1>1, <1>6, SameHost DEF ClaimOf, Incomplete, OfComplete, Decisions, DestroyCalls
<1>7. QED BY <1>2, <1>3, <1>4, <1>5, <1>6, CommandMoves

LEMMA ImportGrowsHost ==
  ASSUME GrowInv, NEW p \in Procs, ImportStep(p)
  PROVE  GrowStep
<1> USE GrowTypes, GrowFacts DEF Call, GrowStep, GrowVM, machineVars
<1>1. CASE CreateVMStep(p) BY <1>1 DEF CreateVMStep
<1>2. CASE BeginExtract(p) \/ EndExtract(p) BY <1>2 DEF BeginExtract, EndExtract, Extract
<1>3. CASE CloneDiskStep(p) BY <1>3 DEF CloneDiskStep
<1>4. CASE DeleteDiskStep(p) BY <1>4 DEF DeleteDiskStep, DeleteDisk
<1>5. CASE AttachDisk(p) \/ UseDNSProxy(p) \/ SetCPUs(p) \/ SetMemory(p)
  <2>1. \E s \in Settings \ {"port"} : ModifyVM(name[p], s)
    BY <1>5 DEF AttachDisk, UseDNSProxy, SetCPUs, SetMemory, Settings
  <2>2. QED BY <2>1
<1>6. CASE SelectNetwork(p) BY <1>6, SameHost DEF SelectNetwork
<1>7. CASE AttachNic(p) BY <1>7 DEF AttachNic, ClaimOf
<1>8. CASE OpenConfig(p) \/ FillConfig(p) BY <1>8 DEF OpenConfig, FillConfig, WriteConfig
<1>9. CASE ForwardPort(p)
  <2>1. Imported(name[p]) BY <1>9 DEF ForwardPort, Imported, ClaimOf, Incomplete
  <2>2. QED BY <1>9, <2>1 DEF ForwardPort, Settings
<1>10. QED BY <1>1, <1>2, <1>3, <1>4, <1>5, <1>6, <1>7, <1>8, <1>9 DEF ImportStep

LEMMA ImportGrows ==
  ASSUME GrowInv, NEW p \in Procs, ImportStep(p)
  PROVE  ClaimOf(p)'
<1> DEFINE n == name[p]
<1>1. n \in Names /\ ClaimOf(p) BY GrowFacts
<1>2. ProcTypeOK /\ HostTypeOK BY GrowTypes
<1> HIDE DEF n
<1> USE <1>2 DEF ProcTypeOK, HostTypeOK, Call, Goto, memVars, machineVars, guestVars, fileVars, n
<1>3. ASSUME pc'[p] \in NoClaim PROVE ClaimOf(p)' BY <1>3, NothingClaimed
<1>4. CASE CreateVMStep(p) \/ BeginExtract(p) \/ EndExtract(p)
  BY <1>3, <1>4 DEF CreateVMStep, BeginExtract, EndExtract, NoClaim
<1>5. CASE CloneDiskStep(p)
  <2>1. pc'[p] = "discard" /\ name'[p] = n /\ image'[n] # None
    BY <1>1, <1>5 DEF CloneDiskStep, CloneDisk, ClaimOf, Incomplete, None
  <2>2. QED BY <2>1 DEF ClaimOf, Incomplete, OfComplete, Decisions, DestroyCalls
<1>6. CASE DeleteDiskStep(p)
  <2>1. pc'[p] = "attachDisk" /\ name'[p] = n /\ image'[n] # None
    BY <1>1, <1>6 DEF DeleteDiskStep, DeleteDisk, ClaimOf, Incomplete
  <2>2. QED BY <2>1 DEF ClaimOf, Incomplete, OfComplete, Decisions, DestroyCalls
<1>7. CASE AttachDisk(p)
  <2>1. pc'[p] = "network" /\ name'[p] = n /\ image'[n] # None /\ "disk" \in done'[n]
    BY <1>1, <1>7 DEF AttachDisk, ModifyVM, ClaimOf, Incomplete
  <2>2. QED BY <2>1 DEF ClaimOf, Incomplete, OfComplete, Decisions, DestroyCalls
<1>8. CASE SelectNetwork(p)
  <2>1. /\ pc'[p] = "attachNic" /\ name'[p] = n /\ cfg'[p] \in Addrs
        /\ image'[n] # None /\ "disk" \in done'[n]
    BY <1>1, <1>8 DEF SelectNetwork, hostVars, ClaimOf, Incomplete
  <2>2. QED BY <2>1 DEF ClaimOf, Incomplete, OfComplete, Decisions, DestroyCalls
<1>9. CASE AttachNic(p)
  <2>1. /\ pc'[p] = "openConfig" /\ name'[p] = n /\ nic'[n] # None
        /\ image'[n] # None /\ "disk" \in done'[n]
    BY <1>1, <1>9, AddrsAssumption DEF AttachNic, AttachNetworkInterface, ClaimOf, Incomplete
  <2>2. QED BY <2>1 DEF ClaimOf, Incomplete, OfComplete, Decisions, DestroyCalls
<1>10. CASE OpenConfig(p)
  <2>1. /\ pc'[p] = "fillConfig" /\ name'[p] = n /\ nic'[n] # None
        /\ image'[n] # None /\ "disk" \in done'[n]
    BY <1>1, <1>10 DEF OpenConfig, WriteConfig, ClaimOf, Incomplete
  <2>2. QED BY <2>1 DEF ClaimOf, Incomplete, OfComplete, Decisions, DestroyCalls
<1>11. CASE FillConfig(p)
  <2>1. /\ pc'[p] = "dns" /\ name'[p] = n /\ nic'[n] # None
        /\ image'[n] # None /\ "disk" \in done'[n]
    BY <1>1, <1>11 DEF FillConfig, WriteConfig, ClaimOf, Incomplete
  <2>2. QED BY <2>1 DEF ClaimOf, Incomplete, OfComplete, Decisions, DestroyCalls
<1>12. CASE UseDNSProxy(p)
  <2>1. /\ pc'[p] = "port" /\ name'[p] = n /\ nic'[n] # None
        /\ image'[n] # None /\ {"disk", "dns"} \subseteq done'[n]
    BY <1>1, <1>12 DEF UseDNSProxy, ModifyVM, ClaimOf, Incomplete
  <2>2. QED BY <2>1 DEF ClaimOf, Incomplete, OfComplete, Decisions, DestroyCalls
<1>13. CASE ForwardPort(p) \/ SetCPUs(p) BY <1>3, <1>13 DEF ForwardPort, SetCPUs, NoClaim
<1>14. CASE SetMemory(p) BY <1>14, RebuildGrows DEF SetMemory
<1>15. QED BY <1>4, <1>5, <1>6, <1>7, <1>8, <1>9, <1>10, <1>11, <1>12, <1>13, <1>14 DEF ImportStep

LEMMA StartGrows ==
  ASSUME GrowInv, NEW p \in Procs, StartStep(p) \/ SuspendStep(p)
  PROVE  GrowStep /\ ClaimOf(p)'
<1> USE GrowTypes, GrowFacts DEF ProcTypeOK
<1>1. ASSUME pc'[p] \in NoClaim PROVE ClaimOf(p)' BY <1>1, NothingClaimed
\* The calls of StartVM go on with a VM that has its port.
<1>2. ASSUME pc[p] \in OfComplete, pc'[p] \in OfComplete, name' = name, done' = done PROVE ClaimOf(p)'
  BY <1>2 DEF ClaimOf, Incomplete, OfComplete, Decisions, DestroyCalls
<1>3. CASE Boot(p) \/ Reboot(p) \/ Restore(p)
  <2>1. StartVM(name[p]) /\ pc[p] \in {"boot", "reboot", "restore"} /\ name' = name
    BY <1>3 DEF Boot, Reboot, Restore, Call, memVars
  <2>2. "port" \in done[name[p]] BY <2>1 DEF ClaimOf, OfComplete
  <2>3. GrowStep BY <2>1, <2>2 DEF GrowStep, GrowVM
  <2>4. CASE Boot(p) BY <1>2, <2>1, <2>3, <2>4 DEF Boot, Call, Goto, OfComplete, StartVM
  <2>5. CASE Reboot(p) \/ Restore(p)
    BY <1>1, <2>3, <2>5 DEF Reboot, Restore, Call, Goto, NoClaim
  <2>6. QED BY <1>3, <2>3, <2>4, <2>5
<1>4. CASE InsertKey(p) \/ Authorize(p) \/ OpenKey(p) \/ FillKey(p) \/ Configure(p) \/ PowerButton(p)
  <2>1. pc[p] \in OfComplete /\ pc'[p] \in OfComplete
    BY <1>4 DEF InsertKey, Authorize, OpenKey, FillKey, Configure, PowerButton, Call, Goto, OfComplete
  <2>2. name' = name /\ UNCHANGED <<power, done, nic, image>>
    BY <1>4 DEF InsertKey, Authorize, OpenKey, FillKey, Configure, PowerButton, AuthorizeKey,
       WriteKey, ConfigureGuestNetwork, PressPowerButton, memVars, hostVars, machineVars
  <2>3. QED BY <1>2, <2>1, <2>2 DEF GrowStep
<1>5. CASE AwaitOff(p)
  <2>1. CASE req[p].op = "stop" BY <1>5, <2>1, ExitGrows, SameHost DEF AwaitOff, Return
  <2>2. CASE req[p].op # "stop"
    BY <1>2, <1>5, <2>2, SameHost DEF AwaitOff, Proceed, Goto, OfComplete, memVars, hostVars, machineVars
  <2>3. QED BY <2>1, <2>2
<1>6. CASE ReadOptions(p)
  BY <1>1, <1>6, SameHost DEF ReadOptions, Call, Goto, ClaimOf, Incomplete, OfComplete, Decisions, DestroyCalls
<1>7. CASE WriteOptionsStep(p)
  BY <1>7, ExitGrows, RebuildGrows DEF WriteOptionsStep, WriteOptions, machineVars, GrowStep
<1>8. CASE ClearHealth(p) BY <1>8, RebuildGrows DEF ClearHealth, RemoveHealthcheck, machineVars, GrowStep
<1>9. CASE ProvisionVM(p) BY <1>9, ExitGrows DEF ProvisionVM, RunProvisioner, machineVars, GrowStep
<1>10. CASE AwaitSaved(p) \/ WaitSSH(p) BY <1>10, ExitGrows, SameHost DEF AwaitSaved, WaitSSH, Return
<1>11. CASE Suspend(p)
  <2>1. power[name[p]] = "running" BY <1>11, ReadyMeans DEF Suspend, Call
  <2>2. QED BY <1>1, <1>11, <2>1 DEF Suspend, Call, Goto, NoClaim, GrowStep, GrowVM
<1>12. CASE Unpause(p)
  <2>1. power[name[p]] = "paused" BY <1>12, ReadyMeans DEF Unpause, Call
  <2>2. QED BY <1>1, <1>12, <2>1 DEF Unpause, Call, Goto, NoClaim, GrowStep, GrowVM
<1>13. QED BY <1>3, <1>4, <1>5, <1>6, <1>7, <1>8, <1>9, <1>10, <1>11, <1>12 DEF StartStep, SuspendStep

LEMMA NoDestroyPart ==
  ASSUME NEW p \in Procs, DestroyPart(p)
  PROVE  pc[p] \in DestroyCalls
BY DEF DestroyPart, DestroyStep, Untrust, ListVMs, Destroy, PowerOffOnly, DestroyFailsFor, Visit, DestroyedAll,
       VerifyDestroyed, RemoveDir, UntrustFails, DestroyFails, RemoveDirFails, Call, DestroyCalls

LEMMA GrowInvNext ==
  ASSUME NoDestroy, GrowInv, [Next]_vars
  PROVE  GrowInv'
<1> USE GrowTypes, GrowFacts
<1>1. TypeInv' BY NextType
<1>2. ASSUME GrowStep, NEW p \in Procs, ClaimOf(p)', OthersStay(p) PROVE GrowInv'
  <2>1. Grows /\ ImportsFinish' BY <1>2, GrowKeeps
  <2>2. \A q \in Procs : ClaimOf(q)' BY <1>2, <2>1, ClaimPersists DEF OthersStay
  <2>3. QED BY <1>1, <2>1, <2>2 DEF GrowInv
<1>3. ASSUME NEW p \in Procs, Step(p) \/ Fails(p) \/ Killed(p) PROVE GrowStep /\ ClaimOf(p)'
  <2>1. CASE Refuse(p) \/ TimesOut(p) \/ CallFails(p) \/ Killed(p)
    BY <2>1, ExitGrows, SameHost DEF Refuse, TimesOut, CallFails, Killed, Return
  <2>2. CASE BuilderStep(p) \/ VMConfigFails(p) \/ QueryFails(p) BY <2>2, BuilderGrows
  <2>3. ~DestroyPart(p) BY NoDestroyPart DEF ClaimOf
  <2>4. CASE WriteCut(p) BY <2>4, ExitGrows DEF WriteCut, GrowStep, GrowVM
  <2>5. QED BY <1>3, <2>1, <2>2, <2>3, <2>4, CommandGrows, ImportGrowsHost, ImportGrows, StartGrows
        DEF Step, Fails, DestroyPart
<1>4. ASSUME NEW p \in Procs, Invoke(p) PROVE GrowStep /\ ClaimOf(p)'
  <2>1. pc'[p] = "getName" BY <1>4 DEF Invoke, NoDestroy, ProcTypeOK
  <2>2. ClaimOf(p)' BY <2>1, NothingClaimed DEF NoClaim
  <2>3. GrowStep BY <1>4, SameHost DEF Invoke
  <2>4. QED BY <2>2, <2>3
<1>5. ASSUME GrowStep, UNCHANGED procVars PROVE GrowInv'
  <2>1. Grows /\ ImportsFinish' BY <1>5, GrowKeeps
  <2>2. \A q \in Procs : ClaimOf(q)' BY <1>5, <2>1, ClaimPersists DEF procVars, memVars
  <2>3. QED BY <1>1, <2>1, <2>2 DEF GrowInv
<1>6. CASE \E n \in Names : (GuestEvent(n) \/ GuestFault(n)) /\ UNCHANGED procVars
  BY <1>5, <1>6 DEF GrowStep, GrowVM
<1>7. CASE UNCHANGED vars BY <1>5, <1>7, SameHost DEF vars
<1>8. CASE Next BY <1>2, <1>3, <1>4, <1>6, <1>8, OthersAside DEF Next, Fault
<1>9. QED BY <1>7, <1>8

LEMMA GrowInvInit == Init => GrowInv
<1> SUFFICES ASSUME Init PROVE GrowInv OBVIOUS
<1>1. PICK old \in SUBSET OldNames, k \in Keys, a \in Addrs :
        /\ power = [n \in Names |-> IF n \in old THEN "off" ELSE "absent"]
        /\ done  = [n \in Names |-> IF n \in old THEN Settings ELSE {}]
        /\ nic   = [n \in Names |-> IF n \in old THEN a ELSE None]
        /\ image = [n \in Names |-> IF n \in old THEN "sound" ELSE None]
  BY DEF Init, HostInit
<1>2. ImportsFinish BY <1>1, AddrsAssumption DEF ImportsFinish, Imported, Powered, Settings, None
<1>3. \A p \in Procs : ClaimOf(p)
  BY DEF Init, ClaimOf, Incomplete, OfComplete, Decisions, DestroyCalls
<1>4. QED BY <1>2, <1>3, InitType DEF GrowInv

(* However many commands run at the same time, as long as none destroys, and    *)
(* whatever call fails or process is killed, no VM is powered on that lacks a   *)
(* disk, a network card, the DNS proxy or the forwarded port.                  *)
THEOREM BootsCompleteInARace ==
  ASSUME NoDestroy
  PROVE  Spec => []BootsConfigured
<1>1. GrowInv => BootsConfigured BY DEF GrowInv, ImportsFinish, Imported, BootsConfigured
<1>2. GrowInv /\ [Next]_vars => GrowInv' BY GrowInvNext
<1>3. QED BY <1>1, <1>2, GrowInvInit, PTL DEF Spec

-----------------------------------------------------------------------------
(* The key pair, with any number of commands at a time, no destroy and no       *)
(* custom OVA: several starts may make a pair of keys, but the guest accepts     *)
(* the insecure key only once, so only the start that replaced it goes on to     *)
(* write key.pem.                                                            *)

NoCustom == \A r \in Requests : ~r.ova

HoldsKey(p) == pc[p] \in {"openKey", "fillKey"} => auth[Default] = key[p]

\* One VM, the released one, and one authorized key.
OneGuest == /\ Found \subseteq {Default}
            /\ \A p \in Procs : (pc[p] \notin Nameless => name[p] = Default) /\ HoldsKey(p)
            /\ \A n \in Names \ {Default} : auth[n] = Insecure
            /\ keyFile \in Keys => auth[Default] = keyFile

\* Or the VM of an earlier release, which every command refuses to act on.
Older == /\ ~(Found \subseteq {Default, Custom})
         /\ AtMostOneVM
         /\ KeysAgree
         /\ \A p \in Procs : pc[p] \in {"idle", "getName"}

SharedInv == /\ TypeInv
             /\ OneGuest \/ Older
             /\ \A p \in Procs : (pc[p] # "idle" => ~req[p].ova) /\ pc[p] \notin DestroyCalls

LEMMA SharedTypes == SharedInv => TypeInv /\ ProcTypeOK /\ HostTypeOK /\ KeyInHand
BY DEF SharedInv, TypeInv, TypeOK

LEMMA HostStays == UNCHANGED hostVars => HostQuiet
BY DEF HostQuiet, hostVars, machineVars, guestVars, fileVars, Found, Exists

\* A step of p that leaves the VMs and the keys alone.
LEMMA QuietShared ==
  ASSUME SharedInv, TypeInv', NEW p \in Procs, OthersStay(p), HostQuiet,
         pc'[p] \notin DestroyCalls \cup {"openKey", "fillKey"},
         pc'[p] # "idle" => ~req'[p].ova,
         pc'[p] \notin Nameless => OneGuest /\ name'[p] = Default
  PROVE  SharedInv'
<1> USE DEF OthersStay, HostQuiet
<1>1. CASE OneGuest
  <2>1. \A q \in Procs : (pc'[q] \notin Nameless => name'[q] = Default) /\ HoldsKey(q)'
    BY <1>1 DEF OneGuest, HoldsKey
  <2>2. OneGuest' BY <1>1, <2>1 DEF OneGuest
  <2>3. QED BY <2>2 DEF SharedInv
<1>2. CASE Older /\ ~OneGuest
  <2>1. pc'[p] \in {"idle", "getName"} BY <1>2 DEF Nameless
  <2>2. Older' BY <1>2, <2>1 DEF Older, AtMostOneVM, KeysAgree
  <2>3. QED BY <2>2 DEF SharedInv
<1>3. QED BY <1>1, <1>2 DEF SharedInv

\* What a command that has named its VM knows.
LEMMA NamedShared ==
  ASSUME SharedInv, NEW p \in Procs, pc[p] \notin Nameless
  PROVE  OneGuest /\ name[p] = Default
BY DEF SharedInv, Older, OneGuest, Nameless

LEMMA GetVMNameShared ==
  ASSUME SharedInv, TypeInv', NEW p \in Procs, GetVMName(p), OthersStay(p)
  PROVE  SharedInv'
<1> USE SharedTypes DEF ProcTypeOK
<1>1. HostQuiet BY HostStays DEF GetVMName, Return
<1>2. CASE NameRefused(req[p])
  <2>1. pc'[p] = "idle" BY <1>2 DEF GetVMName, Return, Exit
  <2>2. QED BY <1>1, <2>1, QuietShared DEF Nameless, DestroyCalls
<1>3. CASE ~NameRefused(req[p])
  <2>1. pc[p] = "getName" /\ pc'[p] = "status" /\ req' = req /\ name'[p] = NameFor(req[p])
    BY <1>3 DEF GetVMName, Goto
  <2>2. OneGuest BY <1>3 DEF SharedInv, Older, NameRefused
  <2>3. ~req[p].ova BY <2>1 DEF SharedInv
  <2>4. Found # {Custom} BY <2>2, NamesAssumption DEF OneGuest
  <2>5. NameFor(req[p]) = Default BY <2>3, <2>4 DEF NameFor
  <2>6. QED BY <1>1, <2>1, <2>2, <2>3, <2>5, QuietShared DEF DestroyCalls
<1>4. QED BY <1>2, <1>3

LEMMA CreateShared ==
  ASSUME SharedInv, TypeInv', NEW p \in Procs, CreateVMStep(p), OthersStay(p)
  PROVE  SharedInv'
<1> USE SharedTypes DEF ProcTypeOK, HostTypeOK
<1>1. /\ pc[p] = "create" /\ pc'[p] = "extract" /\ UNCHANGED <<name, req, key, auth, keyFile>>
      /\ power' = [power EXCEPT ![name[p]] = "off"]
  BY DEF CreateVMStep, Call, Goto, CreateVM, memVars, guestVars
<1>2. OneGuest /\ name[p] = Default BY <1>1, NamedShared DEF Nameless, DestroyCalls
<1>3. Found' \subseteq {Default} BY <1>1, <1>2 DEF OneGuest, Found, Exists
<1>4. \A q \in Procs : (pc'[q] \notin Nameless => name'[q] = Default) /\ HoldsKey(q)'
  BY <1>1, <1>2 DEF OthersStay, OneGuest, HoldsKey
<1>5. OneGuest' BY <1>1, <1>2, <1>3, <1>4 DEF OneGuest
<1>6. QED BY <1>1, <1>5 DEF SharedInv, OthersStay, DestroyCalls

LEMMA KeyStepsShared ==
  ASSUME SharedInv, TypeInv', NEW p \in Procs,
         InsertKey(p) \/ Authorize(p) \/ OpenKey(p) \/ FillKey(p), OthersStay(p)
  PROVE  SharedInv'
<1> USE SharedTypes, KeysAssumption DEF ProcTypeOK, HostTypeOK
<1>1. pc[p] \in KeyLabels \cup {"insertKey"} /\ pc'[p] \in KeyLabels \cup {"configure"}
  BY DEF InsertKey, Authorize, OpenKey, FillKey, Call, Goto, KeyLabels
<1>2. UNCHANGED <<power, name, req>>
  BY DEF InsertKey, Authorize, OpenKey, FillKey, AuthorizeKey, WriteKey, memVars, hostVars, machineVars
<1>3. OneGuest /\ name[p] = Default BY <1>1, NamedShared DEF Nameless, KeyLabels, DestroyCalls
<1>4. Found' = Found BY <1>2 DEF Found, Exists
<1>5. \A q \in Procs : pc'[q] \notin Nameless => name'[q] = Default
  BY <1>2, <1>3 DEF OthersStay, OneGuest
<1>6. ASSUME \A q \in Procs : HoldsKey(q)', \A n \in Names \ {Default} : auth'[n] = Insecure,
             keyFile' \in Keys => auth'[Default] = keyFile'
      PROVE  SharedInv'
  <2>1. OneGuest' BY <1>3, <1>4, <1>5, <1>6 DEF OneGuest
  <2>2. QED BY <1>1, <1>2, <2>1 DEF SharedInv, OthersStay, KeyLabels, DestroyCalls
<1>7. CASE InsertKey(p)
  <2>1. UNCHANGED <<auth, keyFile>> /\ pc'[p] \in {"authorize", "configure"}
    BY <1>7 DEF InsertKey, Goto, hostVars, guestVars, fileVars
  <2>2. QED BY <1>3, <1>6, <2>1 DEF OneGuest, HoldsKey, OthersStay
\* Only who finds the insecure key in place puts its own there: nobody has before.
<1>8. CASE Authorize(p)
  <2>1. /\ pc[p] = "authorize" /\ pc'[p] = "openKey" /\ auth[Default] = Insecure
        /\ auth' = [auth EXCEPT ![Default] = key[p]] /\ UNCHANGED <<keyFile, key>>
    BY <1>3, <1>8 DEF Authorize, Call, Ready, Reachable, Goto, AuthorizeKey, fileVars, memVars
  <2>2. \A q \in Procs \ {p} : pc'[q] \notin {"openKey", "fillKey"}
    <3>1. ASSUME NEW q \in Procs, pc[q] \in {"openKey", "fillKey"} PROVE FALSE
      <4>1. key[q] \in Keys BY <3>1 DEF KeyInHand
      <4>2. auth[Default] = key[q] BY <1>3, <3>1 DEF OneGuest, HoldsKey
      <4>3. QED BY <2>1, <4>1, <4>2
    <3>2. QED BY <3>1 DEF OthersStay
  <2>3. keyFile \notin Keys BY <1>3, <2>1 DEF OneGuest
  <2>4. auth'[Default] = key[p] /\ \A n \in Names \ {Default} : auth'[n] = auth[n]
    BY <2>1 DEF Names
  <2>5. \A q \in Procs : HoldsKey(q)' BY <2>1, <2>2, <2>4 DEF HoldsKey
  <2>6. QED BY <1>3, <1>6, <2>1, <2>3, <2>4, <2>5 DEF OneGuest
<1>9. CASE OpenKey(p)
  <2>1. /\ pc[p] = "openKey" /\ pc'[p] = "fillKey" /\ keyFile' = Torn /\ UNCHANGED <<auth, key>>
    BY <1>9 DEF OpenKey, Call, Goto, WriteKey, guestVars, memVars
  <2>2. QED BY <1>3, <1>6, <2>1 DEF OneGuest, HoldsKey, OthersStay
<1>10. CASE FillKey(p)
  <2>1. /\ pc[p] = "fillKey" /\ pc'[p] = "configure" /\ keyFile' = key[p] /\ UNCHANGED <<auth, key>>
    BY <1>10 DEF FillKey, Call, Goto, WriteKey, guestVars, memVars
  <2>2. QED BY <1>3, <1>6, <2>1 DEF OneGuest, HoldsKey, OthersStay
<1>11. QED BY <1>7, <1>8, <1>9, <1>10

LEMMA SharedInvNext ==
  ASSUME NoDestroy, NoCustom, SharedInv, [Next]_vars
  PROVE  SharedInv'
<1> USE SharedTypes
<1>1. TypeInv' BY NextType
<1>2. ASSUME NEW p \in Procs, Invoke(p) PROVE SharedInv'
  <2>1. pc'[p] = "getName" /\ req'[p] \in Requests BY <1>2 DEF Invoke, NoDestroy, ProcTypeOK
  <2>2. HostQuiet BY <1>2, HostStays DEF Invoke
  <2>3. QED BY <1>1, <1>2, <2>1, <2>2, OthersAside, QuietShared DEF NoCustom, Nameless, DestroyCalls
<1>3. ASSUME NEW p \in Procs, Step(p) \/ Fails(p) \/ Killed(p) PROVE SharedInv'
  <2>1. OthersStay(p) BY <1>3, OthersAside
  <2>2. CASE Quiet(p)
    <3>1. /\ HostQuiet /\ pc'[p] \notin DestroyCalls \cup {"openKey", "fillKey"} /\ pc[p] # "idle"
          /\ pc'[p] # "idle" => req'[p] = req[p] /\ name'[p] = name[p]
          /\ pc'[p] \notin Nameless => pc[p] \notin Nameless
      BY <2>2 DEF Quiet, KeyLabels
    <3>2. pc'[p] \notin Nameless => OneGuest /\ name'[p] = Default
      BY <3>1, NamedShared DEF Nameless
    <3>3. pc'[p] # "idle" => ~req'[p].ova BY <3>1 DEF SharedInv
    <3>4. QED BY <1>1, <2>1, <3>1, <3>2, <3>3, QuietShared
  <2>3. CASE \E r \in {"err", "killed"} : Return(p, r)
    <3>1. HostQuiet BY <2>3, HostStays DEF Return
    <3>2. pc'[p] = "idle" BY <2>3 DEF Return, Exit, ProcTypeOK
    <3>3. QED BY <1>1, <2>1, <3>1, <3>2, QuietShared DEF Nameless, DestroyCalls
  <2>4. ~DestroyPart(p) BY NoDestroyPart DEF SharedInv
  <2>5. QED BY <1>1, <1>3, <2>1, <2>2, <2>3, <2>4, StepSorts, GetVMNameShared, CreateShared, KeyStepsShared
<1>4. CASE HostQuiet /\ UNCHANGED procVars
  <2>1. UNCHANGED <<pc, name, key, req>> BY <1>4 DEF procVars, memVars
  <2>2. OneGuest => OneGuest' BY <1>4, <2>1 DEF HostQuiet, OneGuest, HoldsKey
  <2>3. Older => Older' BY <1>4, <2>1 DEF HostQuiet, Older, AtMostOneVM, KeysAgree
  <2>4. QED BY <1>1, <2>1, <2>2, <2>3 DEF SharedInv
<1>5. CASE \E n \in Names : (GuestEvent(n) \/ GuestFault(n)) /\ UNCHANGED procVars
  BY <1>4, <1>5, QuietHost
<1>6. CASE UNCHANGED vars BY <1>4, <1>6, HostStays DEF vars
<1>7. CASE Next BY <1>2, <1>3, <1>5, <1>7 DEF Next, Fault
<1>8. QED BY <1>6, <1>7

LEMMA SharedInvInit == Init => SharedInv
<1> SUFFICES ASSUME Init PROVE SharedInv OBVIOUS
<1>1. PICK old \in SUBSET OldNames, k \in Keys :
        /\ \A m, n \in old : m = n
        /\ power = [n \in Names |-> IF n \in old THEN "off" ELSE "absent"]
        /\ auth = [n \in Names |-> IF n \in old THEN k ELSE Insecure]
        /\ keyFile = IF old = {} THEN None ELSE k
  BY DEF Init, HostInit
<1>2. pc = [p \in Procs |-> "idle"] BY DEF Init
<1>3. Found = old
  BY <1>1 DEF Found, Exists, Names
<1>4. CASE old = {}
  BY <1>1, <1>2, <1>3, <1>4, KeysAssumption, InitType
     DEF SharedInv, OneGuest, HoldsKey, Nameless, DestroyCalls
<1>5. CASE old # {}
  <2>1. Older BY <1>1, <1>2, <1>3, <1>5, NamesAssumption, KeysAssumption DEF Older, AtMostOneVM, KeysAgree
  <2>2. QED BY <1>2, <2>1, InitType DEF SharedInv, DestroyCalls
<1>6. QED BY <1>4, <1>5

(* However many commands run at the same time, as long as none destroys and      *)
(* none names an OVA of its own, there are never two VMs: two starts that both    *)
(* found none cannot both create one.                                        *)
THEOREM OneVMInARace ==
  ASSUME NoDestroy, NoCustom
  PROVE  Spec => []AtMostOneVM
<1>1. SharedInv => AtMostOneVM BY DEF SharedInv, OneGuest, Older, AtMostOneVM
<1>2. SharedInv /\ [Next]_vars => SharedInv' BY SharedInvNext
<1>3. QED BY <1>1, <1>2, SharedInvInit, PTL DEF Spec

(* However many commands run at the same time, as long as none destroys and      *)
(* none names an OVA of its own, a complete key.pem opens every guest whose       *)
(* insecure key was replaced: two starts that race to replace it cannot leave     *)
(* the key of one in the guest and the key of the other in the file.            *)
THEOREM KeysAgreeInARace ==
  ASSUME NoDestroy, NoCustom
  PROVE  Spec => []KeysAgree
<1>1. SharedInv => KeysAgree
  <2>1. OneGuest => KeysAgree BY KeysAssumption DEF OneGuest, KeysAgree
  <2>2. QED BY <2>1 DEF SharedInv, Older
<1>2. SharedInv /\ [Next]_vars => SharedInv' BY SharedInvNext
<1>3. QED BY <1>1, <1>2, SharedInvInit, PTL DEF Spec
-----------------------------------------------------------------------------
(* One invocation at a time again, and nobody else touching the VM: what a     *)
(* start that booted a VM finds when it looks again to provision it.         *)

\* VirtualBox loses no VM, and only the plugin pauses one.
Untouched == {"abort", "pause"} \cap Faults = {}

\* A button pressed is forgotten by a VM that is off.
NoLateShutdown == \A n \in acpi : power[n] \notin {"absent", "off"}

FullStart(p) == req[p].op = "start" /\ req[p].mode = "full"

Provisioning == {"provision", "clearHealth", "runProvisioner"}

\* A command that has booted its VM finds it running, if it can read its files.
Provisions(p) ==
  /\ pc[p] = "reboot" => power[name[p]] = "off"
  /\ pc[p] \in {"readOptions", "writeOptions"} \/ after[p] = "provision"
       => power[name[p]] = "running" /\ name[p] \notin acpi
  /\ after[p] = "provision"
       => /\ pc[p] \in {"status", "config", "query"} \cup Provisioning
          /\ pc[p] # "status" => obj[p] \in {"Running", "Unprovisioned", "Invalid"}
  /\ pc[p] \in Provisioning => after[p] = "provision"

AllProvision == \A p \in Procs : FullStart(p) => Provisions(p)

\* A process that is idle has forgotten what Builder.VM was called for.
Fresh == \A p \in Procs : pc[p] = "idle" => after[p] = "dispatch"

\* A step of a process ends it, or goes on with the command it was given.
Ends(p) == \E r \in {"ok", "err", "killed"} : Exit(p, r)

GoesOn(p) == /\ \A q \in Procs \ {p} : pc'[q] = pc[q] /\ after'[q] = after[q]
             /\ req' = req
             /\ pc'[p] # "idle"

LEMMA ProcMoves ==
  ASSUME ProcTypeOK, NEW p \in Procs, req' = req, NEW to, to # "idle", Goto(p, to),
         \/ after' = after
         \/ \E use : after' = [after EXCEPT ![p] = use]
  PROVE  GoesOn(p)
BY DEF ProcTypeOK, Goto, GoesOn

LEMMA StepMoves ==
  ASSUME ProcTypeOK, NEW p \in Procs, Step(p) \/ Fails(p) \/ Killed(p)
  PROVE  Ends(p) \/ GoesOn(p)
<1>1. after[p] # "idle" BY DEF ProcTypeOK, Decisions
<1>2. CASE Refuse(p) \/ TimesOut(p) \/ CallFails(p) \/ Killed(p) \/ WriteCut(p)
  BY <1>2 DEF Refuse, TimesOut, CallFails, Killed, WriteCut, Return, Ends
<1>3. CASE BuilderStep(p) \/ VMConfigFails(p) \/ QueryFails(p)
  BY <1>1, <1>3, ProcMoves DEF BuilderStep, GetVMName, VMStatus, VMConfig, CheckDir, QueryGuest, VMConfigFails,
     QueryFails, Built, Return, Ends
<1>4. CASE ImportStep(p)
  BY <1>4, ProcMoves
     DEF ImportStep, CreateVMStep, BeginExtract, EndExtract, CloneDiskStep, DeleteDiskStep, AttachDisk,
         SelectNetwork, AttachNic, OpenConfig, FillConfig, UseDNSProxy, ForwardPort, SetCPUs, SetMemory, Call,
         Rebuild, memVars
<1>5. CASE CommandStep(p)
  <2>1. \/ \E r \in {"ok", "err"} : Return(p, r)
        \/ \E to : to # "idle" /\ Proceed(p, to)
    BY <1>5, CommandMoves
  <2>2. QED BY <2>1, ProcMoves DEF Return, Ends, Proceed, memVars
<1>6. CASE StartStep(p) \/ SuspendStep(p)
  BY <1>6, ProcMoves DEF StartStep, Boot, Reboot, InsertKey, Authorize, OpenKey, FillKey, Configure, PowerButton,
     AwaitOff, ReadOptions, WriteOptionsStep, ClearHealth, ProvisionVM, SuspendStep, Suspend, AwaitSaved,
     Unpause, Restore, WaitSSH, Call, Rebuild, Proceed, Return, Ends, memVars
<1>7. CASE DestroyPart(p)
  <2>1. CASE RemoveDir(p) \/ RemoveDirFails(p) BY <2>1 DEF RemoveDir, RemoveDirFails, Ends
  <2>2. CASE Destroy(p) \/ PowerOffOnly(p) \/ DestroyFailsFor(p)
    BY <2>2 DEF Destroy, PowerOffOnly, DestroyFailsFor, Visit, GoesOn
  <2>3. CASE Untrust(p) \/ ListVMs(p) \/ DestroyedAll(p) \/ VerifyDestroyed(p) \/ UntrustFails(p) \/ DestroyFails(p)
    BY <2>3, ProcMoves
       DEF Untrust, ListVMs, DestroyedAll, VerifyDestroyed, UntrustFails, DestroyFails, Call, Proceed, memVars
  <2>4. QED BY <1>7, <2>1, <2>2, <2>3 DEF DestroyPart, DestroyStep
<1>8. QED BY <1>2, <1>3, <1>4, <1>5, <1>6, <1>7 DEF Step, Fails, DestroyPart

LEMMA FreshNext ==
  ASSUME ProcTypeOK, Fresh, [Next]_vars
  PROVE  Fresh'
<1> USE DEF Fresh, ProcTypeOK
<1>1. ASSUME NEW p \in Procs, Ends(p) PROVE Fresh' BY <1>1 DEF Ends, Exit
<1>2. ASSUME NEW p \in Procs, GoesOn(p) PROVE Fresh' BY <1>2 DEF GoesOn
<1>3. ASSUME NEW p \in Procs, Invoke(p) PROVE Fresh' BY <1>3 DEF Invoke
<1>4. CASE UNCHANGED procVars BY <1>4 DEF procVars, memVars
<1>5. QED BY <1>1, <1>2, <1>3, <1>4, StepMoves DEF Next, Fault, vars

ProvisionInv == LifeInv /\ Fresh /\ NoLateShutdown /\ AllProvision

LEMMA LateShutdownNext ==
  ASSUME LifeInv, NoLateShutdown, [Next]_vars
  PROVE  NoLateShutdown'
<1> USE ProcTypes DEF HostTypeOK, NoLateShutdown
<1>1. CASE \E n \in Names : VMStep(n)
  <2>1. PICK n \in Names : VMStep(n) BY <1>1
  <2>2. CASE UNCHANGED <<power, acpi>> BY <2>2
  <2>3. CASE CreateVM(n) /\ Found = {} BY <2>3 DEF CreateVM, Found, Exists
  <2>4. CASE \E s \in {"running", "saving", "saved", "paused"} : power' = [power EXCEPT ![n] = s] /\ acpi' = acpi
    BY <2>4
  <2>5. CASE acpi' = acpi \ {n} /\ \E s : power' = [power EXCEPT ![n] = s] BY <2>5
  <2>6. CASE PressPowerButton(n) /\ power[n] = "running" BY <2>6 DEF PressPowerButton
  <2>7. QED BY <2>1, <2>2, <2>3, <2>4, <2>5, <2>6
        DEF VMStep, CloneDisk, ModifyVM, AttachNetworkInterface, StartVM, SaveState, ResumeVM, PowerOffVM,
            DestroyVM, WriteConfig, ConfigureGuestNetwork, WriteOptions, RunProvisioner, RemoveHealthcheck,
            CutOptions, GuestEvent, GuestShutsDown, StateSaved, GuestFault, VMAborts, VMPausedOutside, machineVars
<1>2. CASE UNCHANGED <<power, acpi>> BY <1>2
<1>3. QED BY <1>1, <1>2, NextHost
      DEF HostStep, WriteConfig, RemoveVMDir, RemovePartOfVMDir, machineVars, worldVars

\* The last part of the command, whichever call it is at.
LEMMA LastPart ==
  ASSUME ProvisionInv, NEW p \in Procs, FullStart(p), after[p] = "provision", Step(p) \/ Fails(p)
  PROVE  \/ VMStatus(p) \/ VMConfig(p) \/ QueryGuest(p) \/ VMConfigFails(p) \/ QueryFails(p)
         \/ Provision(p) \/ ClearHealth(p) \/ ProvisionVM(p)
         \/ \E r \in {"err", "killed"} : Exit(p, r)
<1>1. pc[p] \in {"status", "config", "query"} \cup Provisioning BY DEF ProvisionInv, AllProvision, Provisions
<1>2. CASE Refuse(p) \/ TimesOut(p) \/ CallFails(p) \/ WriteCut(p)
  BY <1>2 DEF Refuse, TimesOut, CallFails, WriteCut, Return
<1>3. ~ImportStep(p)
  BY <1>1 DEF ImportStep, CreateVMStep, BeginExtract, EndExtract, CloneDiskStep, DeleteDiskStep, AttachDisk,
              SelectNetwork, AttachNic, OpenConfig, FillConfig, UseDNSProxy, ForwardPort, SetCPUs, SetMemory, Call,
              Rebuild, Provisioning
<1>4. ~SuspendStep(p) /\ ~DestroyPart(p)
  BY <1>1 DEF SuspendStep, Suspend, AwaitSaved, Unpause, Restore, WaitSSH, DestroyPart, DestroyStep, Untrust,
              ListVMs, Destroy, PowerOffOnly, DestroyFailsFor, Visit, DestroyedAll, VerifyDestroyed, RemoveDir,
              UntrustFails, DestroyFails, RemoveDirFails, Call, Provisioning
<1>5. CASE StartStep(p)
  BY <1>1, <1>5 DEF StartStep, Boot, Reboot, InsertKey, Authorize, OpenKey, FillKey, Configure, PowerButton, AwaitOff,
                    ReadOptions, WriteOptionsStep, Call, Rebuild, Provisioning
<1>6. CASE CommandStep(p)
  BY <1>1, <1>6 DEF CommandStep, StatusCmd, StopCmd, SuspendCmd, ResumeCmd, StartCmd, Download, Launch,
                    Provisioning
<1>7. CASE BuilderStep(p) BY <1>1, <1>7 DEF BuilderStep, GetVMName, CheckDir, Provisioning
<1>8. QED BY <1>2, <1>3, <1>4, <1>5, <1>6, <1>7 DEF Step, Fails, DestroyPart

LEMMA LastPartKeeps ==
  ASSUME ProvisionInv, NEW p \in Procs, FullStart(p), after[p] = "provision", Step(p) \/ Fails(p)
  PROVE  FullStart(p)' => Provisions(p)'
<1> USE ProcTypes DEF ProcTypeOK, HostTypeOK, Provisions
<1>1. LifeInv /\ Fresh /\ Provisions(p) BY DEF ProvisionInv, AllProvision
<1>2. CASE \E r \in {"ok", "err", "killed"} : Exit(p, r) BY <1>1, <1>2 DEF Exit, Idle, FullStart
<1>3. CASE VMStatus(p)
  <2>1. obj'[p] = "Running" BY <1>1, <1>3 DEF VMStatus, StatusObject
  <2>2. pc'[p] = "config" BY <1>1, <1>3 DEF VMStatus, Exists, Goto
  <2>3. QED BY <1>1, <1>3, <2>1, <2>2 DEF VMStatus, hostVars, machineVars, Provisioning
<1>4. CASE VMConfig(p) \/ QueryGuest(p) \/ VMConfigFails(p) \/ QueryFails(p)
  BY <1>1, <1>4 DEF VMConfig, QueryGuest, VMConfigFails, QueryFails, Built, Goto, hostVars, machineVars, Provisioning
<1>5. CASE Provision(p)
  <2>1. CASE \E to \in {"runProvisioner", "clearHealth"} : Proceed(p, to)
    BY <1>1, <1>5, <2>1 DEF Provision, Proceed, Goto, memVars, hostVars, machineVars, Provisioning
  <2>2. CASE \E r \in {"ok", "err"} : Return(p, r) BY <1>2, <2>2 DEF Return
  <2>3. QED BY <1>5, <2>1, <2>2 DEF Provision
<1>6. CASE ClearHealth(p)
  BY <1>1, <1>6 DEF ClearHealth, Rebuild, RemoveHealthcheck, Goto, machineVars, Provisioning
<1>7. CASE ProvisionVM(p) BY <1>2, <1>7 DEF ProvisionVM
<1>8. QED BY <1>2, <1>3, <1>4, <1>5, <1>6, <1>7, LastPart

\* Before it, only the reboot and the options matter.
LEMMA FirstPartKeeps ==
  ASSUME ProvisionInv, NEW p \in Procs, FullStart(p), after[p] # "provision", Step(p) \/ Fails(p)
  PROVE  FullStart(p)' => Provisions(p)'
<1> USE ProcTypes DEF ProcTypeOK, HostTypeOK, Provisions, Provisioning
<1>1. LifeInv /\ Fresh /\ NoLateShutdown /\ Provisions(p) BY DEF ProvisionInv, AllProvision
<1>2. CASE \E r \in {"ok", "err", "killed"} : Exit(p, r) BY <1>1, <1>2 DEF Exit, Idle, FullStart
<1>3. ASSUME pc'[p] \notin {"reboot", "readOptions", "writeOptions"} \cup Provisioning, after'[p] # "provision"
      PROVE  Provisions(p)'
  BY <1>3
<1>4. CASE Refuse(p) \/ TimesOut(p) \/ CallFails(p) \/ WriteCut(p)
  BY <1>2, <1>4 DEF Refuse, TimesOut, CallFails, WriteCut, Return
<1>5. CASE BuilderStep(p) \/ VMConfigFails(p) \/ QueryFails(p)
  <2>1. CASE GetVMName(p) BY <1>1, <1>2, <1>3, <2>1 DEF GetVMName, Return, Goto
  <2>2. after[p] \in {"dispatch", "launch"} BY <1>1 DEF Decisions
  <2>3. CASE ~GetVMName(p)
    BY <1>1, <1>3, <1>5, <2>2, <2>3
       DEF BuilderStep, VMStatus, VMConfig, CheckDir, QueryGuest, VMConfigFails, QueryFails, Built, Goto
  <2>4. QED BY <2>1, <2>3
<1>6. CASE ImportStep(p)
  BY <1>1, <1>3, <1>6
     DEF ImportStep, CreateVMStep, BeginExtract, EndExtract, CloneDiskStep, DeleteDiskStep, AttachDisk,
         SelectNetwork, AttachNic, OpenConfig, FillConfig, UseDNSProxy, ForwardPort, SetCPUs, SetMemory, Call, Goto,
         Rebuild, memVars
<1>7. CASE CommandStep(p)
  <2>1. ~Provision(p) BY <1>1 DEF Provision
  <2>2. ASSUME NEW to, Proceed(p, to) PROVE pc'[p] = to /\ after' = after
    BY <1>1, <2>2 DEF Proceed, Goto, memVars
  <2>3. \/ \E r \in {"ok", "err"} : Return(p, r)
        \/ \E to \in {"powerButton", "saveState", "unpause", "restore", "launch", "download", "create", "boot"} :
             Proceed(p, to)
    BY <1>7, <2>1 DEF CommandStep, StatusCmd, StopCmd, SuspendCmd, ResumeCmd, StartCmd, Download, Launch,
                      FullStart
  <2>4. QED BY <1>2, <1>3, <2>2, <2>3 DEF Return
<1>8. CASE AwaitOff(p)
  <2>1. power[name[p]] = "off" BY <1>8 DEF AwaitOff, Ready
  <2>2. CASE Proceed(p, "reboot") BY <1>1, <2>1, <2>2 DEF Proceed, Goto, memVars, hostVars, machineVars
  <2>3. QED BY <1>2, <1>8, <2>2 DEF AwaitOff, Return
<1>9. CASE Reboot(p)
  BY <1>1, <1>9 DEF Reboot, Call, Goto, StartVM, NoLateShutdown, memVars
<1>10. CASE ReadOptions(p)
  BY <1>1, <1>10 DEF ReadOptions, Call, Goto, hostVars, machineVars
<1>11. CASE WriteOptionsStep(p)
  BY <1>1, <1>2, <1>11 DEF WriteOptionsStep, Rebuild, Goto, WriteOptions, machineVars
<1>12. CASE \/ Boot(p) \/ InsertKey(p) \/ Authorize(p) \/ OpenKey(p) \/ FillKey(p) \/ Configure(p)
            \/ PowerButton(p) \/ ClearHealth(p) \/ ProvisionVM(p)
  BY <1>1, <1>3, <1>12 DEF Boot, InsertKey, Authorize, OpenKey, FillKey, Configure, PowerButton, ClearHealth,
                           ProvisionVM, Rebuild, Call, Goto, memVars
<1>13. CASE SuspendStep(p)
  BY <1>1, <1>2, <1>3, <1>13 DEF SuspendStep, Suspend, AwaitSaved, Unpause, Restore, WaitSSH, Call, Goto, Return,
                                 memVars
<1>14. CASE DestroyPart(p)
  <2>1. CASE RemoveDir(p) \/ RemoveDirFails(p) BY <1>2, <2>1 DEF RemoveDir, RemoveDirFails
  <2>2. CASE Destroy(p) \/ PowerOffOnly(p) \/ DestroyFailsFor(p)
    BY <1>1, <1>3, <2>2 DEF Destroy, PowerOffOnly, DestroyFailsFor, Visit
  <2>3. CASE Untrust(p) \/ ListVMs(p) \/ DestroyedAll(p) \/ VerifyDestroyed(p) \/ UntrustFails(p) \/ DestroyFails(p)
    <3>1. after' = after /\ \E to \in {"listVMs", "destroyVMs", "verify", "removeDir"} : Goto(p, to)
      BY <2>3 DEF Untrust, ListVMs, DestroyedAll, VerifyDestroyed, UntrustFails, DestroyFails, Call, Proceed, memVars
    <3>2. QED BY <1>1, <1>3, <3>1 DEF Goto
  <2>4. QED BY <1>14, <2>1, <2>2, <2>3 DEF DestroyPart, DestroyStep
<1>15. QED BY <1>4, <1>5, <1>6, <1>7, <1>8, <1>9, <1>10, <1>11, <1>12, <1>13, <1>14
           DEF Step, Fails, StartStep, DestroyPart

LEMMA ProvisionInvNext ==
  ASSUME OneProcess, Untouched, ProvisionInv, [Next]_vars
  PROVE  ProvisionInv'
<1>1. /\ LifeInv /\ Fresh /\ NoLateShutdown /\ AllProvision
      /\ ProcTypeOK /\ HostTypeOK
  BY ProcTypes DEF ProvisionInv
<1> USE DEF ProcTypeOK, HostTypeOK
<1>2. ASSUME NEW p \in Procs, Step(p) \/ Fails(p) PROVE AllProvision'
  <2>1. CASE FullStart(p)
    <3>1. FullStart(p)' => Provisions(p)' BY <1>1, <1>2, <2>1, LastPartKeeps, FirstPartKeeps
    <3>2. QED BY <3>1 DEF AllProvision, OneProcess
  <2>2. CASE ~FullStart(p)
    <3>1. ~FullStart(p)' BY <1>1, <1>2, <2>2, StepMoves DEF Ends, GoesOn, Exit, Idle, FullStart
    <3>2. QED BY <3>1 DEF AllProvision, OneProcess
  <2>3. QED BY <2>1, <2>2
<1>3. ASSUME NEW p \in Procs, Killed(p) PROVE AllProvision'
  <2>1. ~FullStart(p)' BY <1>1, <1>3 DEF Killed, Return, Exit, Idle, FullStart
  <2>2. QED BY <2>1 DEF AllProvision, OneProcess
<1>4. ASSUME NEW p \in Procs, Invoke(p) PROVE AllProvision'
  <2>1. Provisions(p)' BY <1>1, <1>4 DEF Invoke, Fresh, Provisions, Provisioning
  <2>2. QED BY <2>1 DEF AllProvision, OneProcess
<1>5. ASSUME UNCHANGED procVars, NEW n \in Names, GuestEvent(n) \/ GuestFault(n) PROVE AllProvision'
  <2>1. UNCHANGED <<pc, req, name, obj, after>> BY <1>5 DEF procVars, memVars
  <2>2. /\ \A m \in Names : m \notin acpi /\ power[m] = "running" => m \notin acpi' /\ power'[m] = "running"
        /\ \A m \in Names : power[m] = "off" => power'[m] = "off"
    BY <1>1, <1>5 DEF GuestEvent, GuestShutsDown, PowerOffVM, StateSaved, GuestFault, VMAborts, VMPausedOutside,
                      Untouched
  <2>3. \A p \in Procs : name[p] \in Names BY <1>1
  <2>4. QED BY <1>1, <2>1, <2>2, <2>3 DEF AllProvision, FullStart, Provisions
<1>6. ASSUME UNCHANGED vars PROVE AllProvision'
  <2>1. UNCHANGED <<power, acpi, pc, req, name, obj, after>>
    BY <1>6 DEF vars, hostVars, machineVars, procVars, memVars
  <2>2. \A p \in Procs : (FullStart(p)' <=> FullStart(p)) /\ (Provisions(p) => Provisions(p)')
    BY <2>1 DEF FullStart, Provisions
  <2>3. QED BY <1>1, <2>2 DEF AllProvision
<1>7. AllProvision'
  <2>1. CASE Next BY <1>2, <1>3, <1>4, <1>5, <2>1 DEF Next, Fault
  <2>2. QED BY <1>6, <2>1
<1>8. QED BY <1>1, <1>7, LifeNext, FreshNext, LateShutdownNext DEF ProvisionInv

LEMMA ProvisionInvInit == Init => ProvisionInv
<1> SUFFICES ASSUME Init PROVE ProvisionInv OBVIOUS
<1>1. Fresh BY DEF Init, Fresh
<1>2. NoLateShutdown BY DEF Init, HostInit, NoLateShutdown
<1>3. \A p \in Procs : ~FullStart(p) BY DEF Init, Idle, FullStart
<1>4. QED BY <1>1, <1>2, <1>3, LifeInit DEF AllProvision, ProvisionInv

LEMMA StartAnswers ==
  ASSUME OneProcess, ProvisionInv, [Next]_vars, NEW p \in Procs, Returns(p, "start", "ok"), req[p].mode = "full",
         after[p] = "provision"
  PROVE  name[p] \in healthy' /\ power'[name[p]] = "running"
<1> USE ProcTypes DEF ProcTypeOK, HostTypeOK
<1>1. LifeInv /\ Fresh /\ FullStart(p) /\ Provisions(p) BY DEF ProvisionInv, AllProvision, Returns, FullStart
<1>2. Step(p) \/ Fails(p)
  BY <1>1 DEF Next, Fault, OneProcess, Invoke, Killed, Return, Exit, Returns, vars, procVars
<1>3. CASE ProvisionVM(p)
  <2>1. power[name[p]] = "running" BY <1>3, ReadyMeans DEF ProvisionVM
  <2>2. QED BY <1>1, <1>3, <2>1 DEF ProvisionVM, RunProvisioner, machineVars
<1>4. CASE Provision(p)
  <2>1. obj[p] \in {"Running", "Unprovisioned", "Invalid"} BY <1>1, <1>4 DEF Provision, Provisions
  <2>2. Proceed(p, "runProvisioner") \/ Proceed(p, "clearHealth") \/ Return(p, "err")
    BY <1>4, <2>1 DEF Provision
  <2>3. QED BY <1>1, <2>2 DEF Proceed, Goto, Return, Exit, Returns
<1>5. CASE \E r \in {"err", "killed"} : Exit(p, r) BY <1>1, <1>5 DEF Exit, Returns
<1>6. CASE VMStatus(p) \/ ClearHealth(p) BY <1>1, <1>6 DEF VMStatus, ClearHealth, Rebuild, Goto, Returns
<1>7. CASE VMConfig(p) \/ QueryGuest(p) \/ VMConfigFails(p) \/ QueryFails(p)
  BY <1>1, <1>7 DEF VMConfig, QueryGuest, VMConfigFails, QueryFails, Built, Goto, Returns
<1>8. QED BY <1>1, <1>2, <1>3, <1>4, <1>5, <1>6, <1>7, LastPart

(* With one invocation at a time, and nobody else taking down or pausing a VM,  *)
(* a start that booted a VM and reports success has provisioned it.          *)
THEOREM StartKeepsItsWord ==
  ASSUME OneProcess, Untouched
  PROVE  Spec => StartProvisions
<1>1. ProvisionInv /\ [Next]_vars => ProvisionInv' BY ProvisionInvNext
<1>2. ProvisionInv /\ [Next]_vars
        => [\A p \in Procs :
              /\ Returns(p, "start", "ok")
              /\ req[p].mode = "full"
              /\ after[p] = "provision"
              => name[p] \in healthy' /\ power'[name[p]] = "running"]_vars
  BY StartAnswers
<1>3. QED BY <1>1, <1>2, ProvisionInvInit, PTL DEF Spec, StartProvisions
=============================================================================
