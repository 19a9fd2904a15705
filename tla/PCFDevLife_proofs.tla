------------------------- MODULE PCFDevLife_proofs -------------------------
(***************************************************************************)
(* One invocation at a time, for every set of names, keys, addresses,       *)
(* service lists, faults and requests: what a forwarded SSH port stands for, *)
(* the addresses and the services agree, and the commands implement          *)
(* VMLifeCycle.                                                            *)
(***************************************************************************)
EXTENDS PCFDevCLI_proofs

-----------------------------------------------------------------------------
(* The invariant.  A VM with a forwarded port is complete; and a command    *)
(* knows of its VM what the calls it is about to make rely on.              *)

Complete(n) == /\ {"disk", "dns"} \subseteq done[n]
               /\ nic[n] # None
               /\ image[n] # None
               /\ vmConfig \in Addrs => vmConfig = nic[n]

HostSane ==
  \A n \in Names :
    /\ ~Exists(n) => done[n] = {} /\ options[n] = None
    /\ n \in healthy => Powered(n)
    /\ Powered(n) => "port" \in done[n]
    /\ "port" \in done[n] => Complete(n)
    /\ guestIP[n] # None => "port" \in done[n] /\ guestIP[n] = nic[n]

\* The calls of ImportVM between the creation and the forwarded port.
Incomplete == {"extract", "unpack", "clone", "discard", "attachDisk", "network", "attachNic",
               "openConfig", "fillConfig", "dns", "port"}

ImportInv ==
  \A p \in Procs :
    /\ pc[p] \in Incomplete => "port" \notin done[name[p]]
    /\ pc[p] \in Incomplete \ {"extract", "unpack", "clone"} => image[name[p]] # None
    /\ pc[p] \in {"network", "attachNic", "openConfig", "fillConfig", "dns", "port"}
         => "disk" \in done[name[p]]
    /\ pc[p] = "attachNic" => cfg[p] \in Addrs
    /\ pc[p] \in {"openConfig", "fillConfig", "dns", "port"} => nic[name[p]] \in Addrs
    /\ pc[p] \in {"openConfig", "fillConfig"} => nic[name[p]] = cfg[p]
    /\ pc[p] \in {"dns", "port"} => vmConfig = nic[name[p]]
    /\ pc[p] = "port" => "dns" \in done[name[p]]

\* Objects of VMs whose configuration could be read, and the calls only they make.
WithConfig == {"Stopped", "Running", "Unprovisioned", "Paused", "Saved"}
OfComplete == {"query", "boot", "insertKey", "authorize", "openKey", "fillKey", "configure",
               "powerButton", "awaitOff", "reboot", "restore"}

ObjectInv ==
  \A p \in Procs :
    /\ \/ pc[p] \in OfComplete
       \/ pc[p] \in Decisions \cup {"download"} /\ obj[p] \in WithConfig
       => "port" \in done[name[p]] /\ cfg[p] = nic[name[p]]
    /\ pc[p] = "saveState" => obj[p] = "Running"
    /\ pc[p] \in {"dispatch", "saveState"} /\ obj[p] = "Running" /\ power[name[p]] = "running"
         => name[p] \in healthy
    /\ pc[p] = "writeOptions" => want[p] \in ServiceSets /\ options[name[p]] \in {None, want[p]}

LifeInv == AloneInv /\ HostSane /\ ImportInv /\ ObjectInv

\* What the invariant says of the host.
worldVars == <<power, acpi, done, nic, image, options, guestIP, healthy, vmConfig>>

-----------------------------------------------------------------------------
(* What a step of one command, of a guest or of VirtualBox may do to the    *)
(* host when the invariant holds.                                          *)

VMStep(n) ==
  \/ CreateVM(n) /\ Found = {}
  \/ CloneDisk(n)
  \/ \E s \in Settings \ {"port"} : ModifyVM(n, s) /\ Modifiable(n)
  \/ /\ ModifyVM(n, "port") /\ Modifiable(n)
     /\ {"disk", "dns"} \subseteq done[n] /\ image[n] # None /\ nic[n] \in Addrs /\ vmConfig = nic[n]
  \/ \E a \in Addrs : AttachNetworkInterface(n, a) /\ "port" \notin done[n]
  \/ StartVM(n) /\ Bootable(n) /\ "port" \in done[n]
  \/ PressPowerButton(n) /\ power[n] = "running"
  \/ SaveState(n) /\ power[n] = "running" /\ n \in healthy
  \/ ResumeVM(n) /\ power[n] = "paused"
  \/ PowerOffVM(n) /\ Exists(n)
  \/ DestroyVM(n)
  \/ WriteConfig(nic[n]) /\ Found \subseteq {n}
  \/ ConfigureGuestNetwork(n, nic[n]) /\ "port" \in done[n]
  \/ \E s \in ServiceSets : WriteOptions(n, s) /\ power[n] = "running" /\ options[n] \in {None, s}
  \/ CutOptions(n) /\ power[n] = "running"
  \/ RunProvisioner(n) /\ power[n] = "running" /\ options[n] \in ServiceSets
  \/ RemoveHealthcheck(n) /\ power[n] = "running"
  \/ GuestEvent(n) \/ GuestFault(n)

HostStep == \/ \E n \in Names : VMStep(n)
            \/ WriteConfig(Torn) \/ RemoveVMDir \/ RemovePartOfVMDir
            \/ UNCHANGED worldVars

-----------------------------------------------------------------------------
(* Such a step keeps the host sane.                                        *)

LEMMA VMStepSane ==
  ASSUME HostTypeOK, HostSane, NEW n \in Names, VMStep(n)
  PROVE  HostSane'
<1> USE DEF HostSane, HostTypeOK, Complete, Powered, Exists, None, Settings
<1>1. CASE CreateVM(n) /\ Found = {} BY <1>1 DEF CreateVM, guestVars, Found
<1>2. CASE CloneDisk(n) BY <1>2 DEF CloneDisk, guestVars, fileVars
<1>3. CASE \E s \in Settings \ {"port"} : ModifyVM(n, s) /\ Modifiable(n)
  BY <1>3 DEF ModifyVM, Modifiable, guestVars, fileVars
<1>4. CASE /\ ModifyVM(n, "port") /\ Modifiable(n)
           /\ {"disk", "dns"} \subseteq done[n] /\ image[n] # None /\ nic[n] \in Addrs /\ vmConfig = nic[n]
  BY <1>4, AddrsAssumption DEF ModifyVM, Modifiable, guestVars, fileVars
<1>5. CASE \E a \in Addrs : AttachNetworkInterface(n, a) /\ "port" \notin done[n]
  BY <1>5 DEF AttachNetworkInterface, guestVars, fileVars
<1>6. CASE StartVM(n) /\ Bootable(n) /\ "port" \in done[n]
  BY <1>6 DEF StartVM, Bootable, fileVars
<1>7. CASE SaveState(n) /\ power[n] = "running" /\ n \in healthy
  BY <1>7 DEF SaveState, guestVars, fileVars
<1>8. CASE ResumeVM(n) /\ power[n] = "paused" BY <1>8 DEF ResumeVM, guestVars, fileVars
<1>9. CASE PowerOffVM(n) /\ Exists(n) BY <1>9 DEF PowerOffVM, fileVars
<1>10. CASE DestroyVM(n) BY <1>10 DEF DestroyVM
<1>11. CASE WriteConfig(nic[n]) /\ Found \subseteq {n}
  BY <1>11 DEF WriteConfig, machineVars, guestVars, Found
<1>12. CASE ConfigureGuestNetwork(n, nic[n]) /\ "port" \in done[n]
  BY <1>12 DEF ConfigureGuestNetwork, machineVars, fileVars
<1>13. CASE \E s \in ServiceSets : WriteOptions(n, s) /\ power[n] = "running" /\ options[n] \in {None, s}
  BY <1>13 DEF WriteOptions, machineVars, fileVars
<1>14. CASE RunProvisioner(n) /\ power[n] = "running" /\ options[n] \in ServiceSets
  BY <1>14 DEF RunProvisioner, machineVars, fileVars
<1>15. CASE RemoveHealthcheck(n) /\ power[n] = "running"
  BY <1>15 DEF RemoveHealthcheck, machineVars, fileVars
<1>16. CASE GuestEvent(n) \/ GuestFault(n)
  BY <1>16 DEF GuestEvent, GuestShutsDown, PowerOffVM, StateSaved, GuestFault, VMAborts, VMPausedOutside,
               guestVars, fileVars
<1>17. CASE PressPowerButton(n) BY <1>17 DEF PressPowerButton, guestVars, fileVars
<1>18. CASE CutOptions(n) /\ power[n] = "running" BY <1>18 DEF CutOptions, fileVars
<1>19. QED BY <1>1, <1>2, <1>3, <1>4, <1>5, <1>6, <1>7, <1>8, <1>9, <1>10, <1>11, <1>12, <1>13, <1>14,
               <1>15, <1>16, <1>17, <1>18 DEF VMStep

LEMMA HostStepSane ==
  ASSUME HostTypeOK, HostSane, HostStep
  PROVE  HostSane'
<1> USE DEF HostSane, HostTypeOK, Complete, Powered, Exists, None
<1>1. CASE WriteConfig(Torn) BY <1>1, AddrsAssumption DEF WriteConfig, machineVars, guestVars
<1>2. CASE RemoveVMDir BY <1>2, AddrsAssumption DEF RemoveVMDir, LoseDisks, guestVars
<1>3. CASE RemovePartOfVMDir
  BY <1>3, AddrsAssumption DEF RemovePartOfVMDir, LoseDisks, guestVars
<1>4. CASE UNCHANGED worldVars BY <1>4 DEF worldVars
<1>5. QED BY <1>1, <1>2, <1>3, <1>4, VMStepSane DEF HostStep
-----------------------------------------------------------------------------
(* And it is a step of VMLifeCycle, or none.                               *)

LEMMA LifeStateIs ==
  ASSUME NEW n \in Names
  PROVE  /\ power[n] = "absent" => LifeState(n) = "none"
         /\ power[n] \in {"off", "aborted"} =>
              LifeState(n) = IF "port" \in done[n] THEN "stopped" ELSE "importing"
         /\ power[n] \in {"saving", "saved"} => LifeState(n) = "suspended"
         /\ power[n] = "running" => LifeState(n) = "running"
         /\ power[n] = "paused" => LifeState(n) = "paused"
BY DEF LifeState

LEMMA LifeStateBecomes ==
  ASSUME NEW n \in Names
  PROVE  /\ power'[n] = "absent" => LifeState(n)' = "none"
         /\ power'[n] \in {"off", "aborted"} =>
              LifeState(n)' = IF "port" \in done'[n] THEN "stopped" ELSE "importing"
         /\ power'[n] \in {"saving", "saved"} => LifeState(n)' = "suspended"
         /\ power'[n] = "running" => LifeState(n)' = "running"
         /\ power'[n] = "paused" => LifeState(n)' = "paused"
BY DEF LifeState

LEMMA LifeStateStays ==
  ASSUME NEW n \in Names, power'[n] = power[n], done'[n] = done[n]
  PROVE  LifeState(n)' = LifeState(n)
BY DEF LifeState

States == [n \in Names |-> LifeState(n)]

\* A step that moves one VM.
LEMMA OneMoves ==
  ASSUME NEW n \in Names,
         \A m \in Names \ {n} : power'[m] = power[m] /\ done'[m] = done[m]
  PROVE  States' = [States EXCEPT ![n] = LifeState(n)']
<1>1. ASSUME NEW m \in Names PROVE LifeState(m)' = IF m = n THEN LifeState(n)' ELSE LifeState(m)
  BY LifeStateStays
<1>2. QED BY <1>1 DEF States

\* A step that moves none.
LEMMA NoneMoves ==
  ASSUME \A n \in Names : LifeState(n)' = LifeState(n)
  PROVE  States' = States
BY DEF States

LEMMA ServicesUnread == UNCHANGED options => UNCHANGED LifeServices
BY DEF LifeServices

LEMMA VMStepLives ==
  ASSUME HostTypeOK, HostSane, NEW n \in Names, VMStep(n)
  PROVE  [Life!Next]_(Life!lifeVars)
<1> USE DEF HostTypeOK
<1>s. /\ (\A m \in Names \ {n} : power'[m] = power[m] /\ done'[m] = done[m])
           => States' = [States EXCEPT ![n] = LifeState(n)']
      /\ States[n] = LifeState(n)
  BY OneMoves DEF States
<1>0. UNCHANGED <<power, done>> => States' = States
  BY LifeStateStays, NoneMoves
<1>u. UNCHANGED options => UNCHANGED LifeServices BY ServicesUnread
<1> USE <1>u
<1>t. States' = States /\ UNCHANGED <<options, healthy>> => [Life!Next]_(Life!lifeVars)
  BY DEF Life!lifeVars, States
<1>1. CASE CreateVM(n) /\ Found = {}
  <2>1. \A m \in Names : power[m] = "absent" BY <1>1 DEF Found, Exists
  <2>2. \A m \in Names : LifeState(m) = "none" BY <2>1, LifeStateIs
  <2>3. power'[n] = "off" /\ done'[n] = {} BY <1>1, <2>1 DEF CreateVM, HostSane, Exists
  <2>4. LifeState(n)' = "importing" BY <2>3, LifeStateBecomes
  <2>5. States' = [States EXCEPT ![n] = "importing"] BY <1>s, <1>1, <2>4 DEF CreateVM
  <2>6. Life!Create(n) BY <1>1, <2>2, <2>5 DEF Life!Create, Life!Moves, States, CreateVM, guestVars
  <2>7. QED BY <2>6 DEF Life!Next
<1>2. CASE CloneDisk(n) \/ WriteConfig(nic[n]) \/ ConfigureGuestNetwork(n, nic[n]) \/ PressPowerButton(n)
           \/ \E a \in Addrs : AttachNetworkInterface(n, a)
  BY <1>2, <1>0, <1>t DEF CloneDisk, WriteConfig, ConfigureGuestNetwork, AttachNetworkInterface,
                          PressPowerButton, machineVars, guestVars, fileVars
<1>3. CASE \E s \in Settings \ {"port"} : ModifyVM(n, s) /\ Modifiable(n)
  <2>1. PICK s \in Settings \ {"port"} : ModifyVM(n, s) /\ Modifiable(n) BY <1>3
  <2>2. /\ power'[n] = power[n] /\ ("port" \in done'[n] <=> "port" \in done[n])
        /\ \A m \in Names \ {n} : power'[m] = power[m] /\ done'[m] = done[m]
    BY <2>1 DEF ModifyVM
  <2>3. LifeState(n)' = LifeState(n)
    BY <2>1, <2>2, LifeStateIs, LifeStateBecomes DEF Modifiable
  <2>4. States' = States BY <2>2, <2>3, LifeStateStays, NoneMoves
  <2>5. QED BY <1>t, <2>1, <2>4 DEF ModifyVM, guestVars
<1>4. CASE ModifyVM(n, "port") /\ Modifiable(n)
  <2>1. power'[n] = power[n] /\ "port" \in done'[n] BY <1>4 DEF ModifyVM
  <2>2. LifeState(n)' = "stopped" BY <1>4, <2>1, LifeStateBecomes DEF Modifiable
  <2>3. States' = [States EXCEPT ![n] = "stopped"] BY <1>s, <1>4, <2>2 DEF ModifyVM
  <2>4. CASE "port" \in done[n]
    <3>1. LifeState(n) = "stopped" BY <1>4, <2>4, LifeStateIs DEF Modifiable
    <3>2. States' = States BY <2>3, <3>1 DEF States
    <3>3. QED BY <1>t, <1>4, <3>2 DEF ModifyVM, guestVars
  <2>5. CASE "port" \notin done[n]
    <3>1. LifeState(n) = "importing" BY <1>4, <2>5, LifeStateIs DEF Modifiable
    <3>2. Life!Complete(n) BY <1>4, <2>3, <3>1 DEF Life!Complete, Life!Moves, States, ModifyVM, guestVars
    <3>3. QED BY <3>2 DEF Life!Next
  <2>6. QED BY <2>4, <2>5
<1>5. CASE StartVM(n) /\ Bootable(n) /\ "port" \in done[n]
  <2>1. LifeState(n)' = "running" BY <1>5, LifeStateBecomes DEF StartVM
  <2>2. States' = [States EXCEPT ![n] = "running"] BY <1>s, <1>5, <2>1 DEF StartVM
  <2>3. CASE power[n] = "saved"
    <3>1. LifeState(n) = "suspended" BY <2>3, LifeStateIs
    <3>2. Life!Restore(n) BY <1>5, <2>2, <2>3, <3>1 DEF Life!Restore, Life!Moves, States, StartVM
    <3>3. QED BY <3>2 DEF Life!Next
  <2>4. CASE power[n] \in {"off", "aborted"}
    <3>1. LifeState(n) = "stopped" BY <1>5, <2>4, LifeStateIs
    <3>2. Life!Boot(n) BY <1>5, <2>2, <2>4, <3>1 DEF Life!Boot, Life!Moves, States, StartVM
    <3>3. QED BY <3>2 DEF Life!Next
  <2>5. QED BY <1>5, <2>3, <2>4 DEF Bootable
<1>6. CASE SaveState(n) /\ power[n] = "running" /\ n \in healthy
  <2>1. LifeState(n) = "running" /\ LifeState(n)' = "suspended"
    BY <1>6, LifeStateIs, LifeStateBecomes DEF SaveState
  <2>2. States' = [States EXCEPT ![n] = "suspended"] BY <1>s, <1>6, <2>1 DEF SaveState
  <2>3. Life!Suspend(n)
    BY <1>6, <2>1, <2>2 DEF Life!Suspend, Life!Moves, States, SaveState, guestVars
  <2>4. QED BY <2>3 DEF Life!Next
<1>7. CASE ResumeVM(n) /\ power[n] = "paused"
  <2>1. LifeState(n) = "paused" /\ LifeState(n)' = "running"
    BY <1>7, LifeStateIs, LifeStateBecomes DEF ResumeVM
  <2>2. States' = [States EXCEPT ![n] = "running"] BY <1>s, <1>7, <2>1 DEF ResumeVM
  <2>3. Life!Unpause(n)
    BY <1>7, <2>1, <2>2 DEF Life!Unpause, Life!Moves, States, ResumeVM, guestVars
  <2>4. QED BY <2>3 DEF Life!Next
\* Off, by the guest or by VirtualBox, is down when it was up, and else nothing.
<1>8. ASSUME Exists(n), NEW s \in {"off", "aborted"}, power' = [power EXCEPT ![n] = s],
             healthy' = healthy \ {n}, UNCHANGED <<done, options>>
      PROVE  [Life!Next]_(Life!lifeVars)
  <2>1. States' = [States EXCEPT ![n] = LifeState(n)'] BY <1>s, <1>8
  <2>2. CASE Powered(n)
    <3>1. LifeState(n) \in {"running", "paused", "suspended"} BY <2>2, LifeStateIs DEF Powered
    <3>2. "port" \in done'[n] BY <1>8, <2>2 DEF HostSane
    <3>3. LifeState(n)' = "stopped" BY <1>8, <3>2, LifeStateBecomes
    <3>4. Life!GoDown(n) BY <1>8, <2>1, <3>1, <3>3 DEF Life!GoDown, Life!Moves, Life!Up, States
    <3>5. QED BY <3>4 DEF Life!Next
  <2>3. CASE ~Powered(n)
    <3>1. power[n] \in {"off", "aborted"} BY <1>8, <2>3 DEF Powered, Exists, PowerStates
    <3>2. LifeState(n)' = LifeState(n) BY <1>8, <3>1, LifeStateIs, LifeStateBecomes
    <3>3. States' = States BY <2>1, <3>2 DEF States
    <3>4. healthy' = healthy BY <1>8, <2>3 DEF HostSane
    <3>5. QED BY <1>t, <1>8, <3>3, <3>4
  <2>4. QED BY <2>2, <2>3
<1>9. CASE PowerOffVM(n) /\ Exists(n) BY <1>8, <1>9 DEF PowerOffVM
<1>10. CASE DestroyVM(n)
  <2>1. LifeState(n)' = "none" BY <1>10, LifeStateBecomes DEF DestroyVM
  <2>2. States' = [States EXCEPT ![n] = "none"] BY <1>s, <1>10, <2>1 DEF DestroyVM
  <2>3. CASE Exists(n)
    <3>1. LifeState(n) \in {"importing", "stopped", "running", "paused", "suspended"}
      BY <2>3, LifeStateIs DEF Exists, PowerStates
    <3>2. LifeState(n) \in Life!States \ {"none"} BY <3>1 DEF Life!States
    <3>3. States[n] \in Life!States \ {"none"} BY <3>2 DEF States
    <3>4. Life!Moves(n, Life!States \ {"none"}, "none") BY <2>2, <3>3 DEF Life!Moves, States
    <3>5. LifeServices' = [LifeServices EXCEPT ![n] = None] BY <1>10 DEF DestroyVM, LifeServices
    <3>6. Life!Destroy(n) BY <1>10, <3>4, <3>5 DEF Life!Destroy, DestroyVM
    <3>7. QED BY <3>6 DEF Life!Next
  <2>4. CASE ~Exists(n)
    <3>1. LifeState(n) = "none" BY <2>4, LifeStateIs DEF Exists
    <3>2. options[n] = None /\ n \notin healthy BY <2>4 DEF HostSane, Exists, Powered
    <3>3. UNCHANGED <<options, healthy>> BY <1>10, <3>2 DEF DestroyVM
    <3>4. States' = States BY <1>s, <2>2, <3>1 DEF States
    <3>5. QED BY <1>t, <3>3, <3>4
  <2>5. QED BY <2>3, <2>4
<1>11. CASE \E s \in ServiceSets : WriteOptions(n, s) /\ power[n] = "running" /\ options[n] \in {None, s}
  <2>1. PICK s \in ServiceSets : WriteOptions(n, s) /\ power[n] = "running" /\ options[n] \in {None, s}
    BY <1>11
  <2>2. States' = States /\ LifeState(n) = "running"
    BY <1>0, <2>1, LifeStateIs DEF WriteOptions, machineVars
  <2>3. CASE options[n] = s BY <1>t, <2>1, <2>2, <2>3 DEF WriteOptions
  <2>4. CASE options[n] = None
    <3>1. s # Torn /\ options' = [options EXCEPT ![n] = s]
      BY <2>1, ServicesAssumption DEF WriteOptions
    <3>2. LifeServices[n] = None BY <2>4, ServicesAssumption DEF LifeServices
    <3>3. LifeServices' = [LifeServices EXCEPT ![n] = s]
      <4>1. ASSUME NEW m \in Names PROVE LifeServices'[m] = IF m = n THEN s ELSE LifeServices[m]
        BY <3>1, <4>1 DEF LifeServices
      <4>2. QED BY <4>1 DEF LifeServices
    <3>4. Life!ChooseServices(n)
      BY <2>1, <2>2, <3>2, <3>3 DEF Life!ChooseServices, States, WriteOptions
    <3>5. QED BY <3>4 DEF Life!Next
  <2>5. QED BY <2>1, <2>3, <2>4
<1>12. CASE RunProvisioner(n) /\ power[n] = "running" /\ options[n] \in ServiceSets
  <2>1. States' = States /\ LifeState(n) = "running"
    BY <1>0, <1>12, LifeStateIs DEF RunProvisioner, machineVars
  <2>2. LifeServices[n] # None BY <1>12, ServicesAssumption DEF LifeServices
  <2>3. Life!Provision(n) BY <1>12, <2>1, <2>2 DEF Life!Provision, States, RunProvisioner
  <2>4. QED BY <2>3 DEF Life!Next
<1>13. CASE RemoveHealthcheck(n) /\ power[n] = "running"
  <2>1. States' = States /\ LifeState(n) = "running"
    BY <1>0, <1>13, LifeStateIs DEF RemoveHealthcheck, machineVars
  <2>2. Life!Unprovision(n) BY <1>13, <2>1 DEF Life!Unprovision, States, RemoveHealthcheck
  <2>3. QED BY <2>2 DEF Life!Next
<1>14. CASE GuestEvent(n)
  <2>1. CASE GuestShutsDown(n) BY <1>9, <2>1 DEF GuestShutsDown, Exists
  <2>2. CASE StateSaved(n)
    <3>1. LifeState(n) = "suspended" /\ LifeState(n)' = "suspended"
      BY <2>2, LifeStateIs, LifeStateBecomes DEF StateSaved
    <3>2. States' = States BY <1>s, <2>2, <3>1 DEF StateSaved, States
    <3>3. QED BY <1>t, <2>2, <3>2 DEF StateSaved, guestVars
  <2>3. QED BY <1>14, <2>1, <2>2 DEF GuestEvent
<1>15. CASE GuestFault(n)
  <2>1. CASE VMAborts(n) BY <1>8, <2>1 DEF VMAborts, Exists
  <2>2. CASE VMPausedOutside(n)
    <3>1. LifeState(n) = "running" /\ LifeState(n)' = "paused"
      BY <2>2, LifeStateIs, LifeStateBecomes DEF VMPausedOutside
    <3>2. States' = [States EXCEPT ![n] = "paused"] BY <1>s, <2>2, <3>1 DEF VMPausedOutside
    <3>3. Life!Pause(n)
      BY <2>2, <3>1, <3>2 DEF Life!Pause, Life!Moves, States, VMPausedOutside, guestVars
    <3>4. QED BY <3>3 DEF Life!Next
  <2>3. QED BY <1>15, <2>1, <2>2 DEF GuestFault
<1>16. CASE CutOptions(n) /\ power[n] = "running"
  <2>1. LifeState(n) = "running" BY <1>16, LifeStateIs
  <2>2. "port" \in done'[n] /\ power'[n] = "aborted" BY <1>16 DEF HostSane, Powered, CutOptions
  <2>3. LifeState(n)' = "stopped" BY <2>2, LifeStateBecomes
  <2>4. States' = [States EXCEPT ![n] = "stopped"] BY <1>s, <1>16, <2>3 DEF CutOptions
  <2>5. LifeServices' = [LifeServices EXCEPT ![n] = None] BY <1>16 DEF CutOptions, LifeServices
  <2>6. Life!Lose(n) BY <1>16, <2>1, <2>4, <2>5 DEF Life!Lose, Life!Moves, States, CutOptions
  <2>7. QED BY <2>6 DEF Life!Next
<1>17. QED BY <1>1, <1>2, <1>3, <1>4, <1>5, <1>6, <1>7, <1>9, <1>10, <1>11, <1>12, <1>13, <1>14,
               <1>15, <1>16 DEF VMStep

LEMMA HostStepLives ==
  ASSUME HostTypeOK, HostSane, HostStep
  PROVE  [Life!Next]_(Life!lifeVars)
<1>1. CASE UNCHANGED <<power, done, options, healthy>>
  <2>1. States' = States BY <1>1, LifeStateStays, NoneMoves
  <2>2. QED BY <1>1, <2>1, ServicesUnread DEF Life!lifeVars, States
<1>2. CASE \E n \in Names : VMStep(n) BY <1>2, VMStepLives
<1>3. QED BY <1>1, <1>2 DEF HostStep, WriteConfig, RemoveVMDir, RemovePartOfVMDir, worldVars, machineVars,
                            guestVars
-----------------------------------------------------------------------------
(* Every step of the specification is such a step.                         *)

LEMMA ReadyMeans ==
  ASSUME NEW p \in Procs, Ready(p)
  PROVE  /\ pc[p] = "create" => ~Exists(name[p])
         /\ pc[p] \in {"attachDisk", "dns", "port", "cpus", "memory"} => Modifiable(name[p])
         /\ pc[p] \in {"boot", "reboot", "restore"} => Bootable(name[p])
         /\ pc[p] \in {"clearHealth", "writeOptions", "saveState", "powerButton"} => power[name[p]] = "running"
         /\ pc[p] = "readOptions" => options[name[p]] # Torn
         /\ pc[p] = "runProvisioner" => power[name[p]] = "running" /\ options[name[p]] \in ServiceSets
         /\ pc[p] = "unpause" => power[name[p]] = "paused"
<1>1. pc[p] = "create" => ~Exists(name[p]) BY DEF Ready
<1>2. pc[p] \in {"attachDisk", "dns", "port", "cpus", "memory"} => Modifiable(name[p]) BY DEF Ready
<1>3. pc[p] \in {"boot", "reboot", "restore"} => Bootable(name[p]) BY DEF Ready
<1>4. pc[p] \in {"clearHealth", "writeOptions", "saveState", "powerButton"} => power[name[p]] = "running"
  BY DEF Ready, Reachable
<1>5. pc[p] = "runProvisioner" => power[name[p]] = "running" /\ options[name[p]] \in ServiceSets
  BY DEF Ready, Reachable
<1>6. pc[p] = "unpause" => power[name[p]] = "paused" BY DEF Ready
<1>7. pc[p] = "readOptions" => options[name[p]] # Torn BY DEF Ready
<1>8. QED BY <1>1, <1>2, <1>3, <1>4, <1>5, <1>6, <1>7

\* What the invariant says of one process that has named its VM.
LEMMA OneFacts ==
  ASSUME LifeInv, NEW p \in Procs
  PROVE  /\ name[p] \in Names /\ cfg[p] \in Addrs \cup {None}
         /\ pc[p] \notin Nameless => Found \subseteq {name[p]}
         /\ HostTypeOK
BY DEF LifeInv, AloneInv, TypeInv, TypeOK, ProcTypeOK, OneVMInv

LEMMA WorldKept == UNCHANGED hostVars => UNCHANGED worldVars
BY DEF hostVars, machineVars, guestVars, fileVars, worldVars

LEMMA ImportHost ==
  ASSUME LifeInv, NEW p \in Procs, ImportStep(p)
  PROVE  HostStep
<1> USE OneFacts, ReadyMeans DEF Call
<1>i. ImportInv BY DEF LifeInv
<1>1. CASE CreateVMStep(p)
  <2>1. Found = {} BY <1>1 DEF CreateVMStep, Nameless, DestroyCalls, Found
  <2>2. VMStep(name[p]) BY <1>1, <2>1 DEF CreateVMStep, VMStep
  <2>3. QED BY <2>2 DEF HostStep
<1>2. CASE CloneDiskStep(p)
  <2>1. VMStep(name[p]) BY <1>2 DEF CloneDiskStep, VMStep
  <2>2. QED BY <2>1 DEF HostStep
<1>3. CASE BeginExtract(p) \/ EndExtract(p) \/ DeleteDiskStep(p) \/ SelectNetwork(p)
  <2>1. UNCHANGED worldVars
    BY <1>3, WorldKept DEF BeginExtract, EndExtract, DeleteDiskStep, SelectNetwork, Extract, DeleteDisk,
                machineVars, guestVars, worldVars
  <2>2. QED BY <2>1 DEF HostStep
<1>4. CASE AttachDisk(p) \/ UseDNSProxy(p) \/ SetCPUs(p) \/ SetMemory(p)
  <2>1. \E s \in Settings \ {"port"} : ModifyVM(name[p], s) /\ Modifiable(name[p])
    BY <1>4 DEF AttachDisk, UseDNSProxy, SetCPUs, SetMemory, Rebuild, Settings
  <2>2. VMStep(name[p]) BY <2>1 DEF VMStep
  <2>3. QED BY <2>2 DEF HostStep
<1>5. CASE ForwardPort(p)
  <2>1. /\ ModifyVM(name[p], "port") /\ Modifiable(name[p])
        /\ {"disk", "dns"} \subseteq done[name[p]] /\ image[name[p]] # None
        /\ nic[name[p]] \in Addrs /\ vmConfig = nic[name[p]]
    BY <1>i, <1>5 DEF ForwardPort, ImportInv, Incomplete
  <2>2. VMStep(name[p]) BY <2>1 DEF VMStep
  <2>3. QED BY <2>2 DEF HostStep
<1>6. CASE AttachNic(p)
  <2>1. \E a \in Addrs : AttachNetworkInterface(name[p], a) /\ "port" \notin done[name[p]]
    BY <1>i, <1>6 DEF AttachNic, ImportInv, Incomplete
  <2>2. VMStep(name[p]) BY <2>1 DEF VMStep
  <2>3. QED BY <2>2 DEF HostStep
<1>7. CASE OpenConfig(p) BY <1>7 DEF OpenConfig, HostStep
<1>8. CASE FillConfig(p)
  <2>1. WriteConfig(nic[name[p]]) /\ Found \subseteq {name[p]}
    BY <1>i, <1>8 DEF FillConfig, ImportInv, Nameless, DestroyCalls
  <2>2. VMStep(name[p]) BY <2>1 DEF VMStep
  <2>3. QED BY <2>2 DEF HostStep
<1>9. QED BY <1>1, <1>2, <1>3, <1>4, <1>5, <1>6, <1>7, <1>8 DEF ImportStep

LEMMA StartHost ==
  ASSUME LifeInv, NEW p \in Procs, StartStep(p) \/ SuspendStep(p)
  PROVE  HostStep
<1> USE OneFacts, ReadyMeans DEF Call
<1>i. ObjectInv BY DEF LifeInv
<1>0. ASSUME UNCHANGED worldVars PROVE HostStep BY <1>0 DEF HostStep
<1>v. ASSUME VMStep(name[p]) PROVE HostStep BY <1>v DEF HostStep
<1>1. CASE Boot(p) \/ Reboot(p) \/ Restore(p)
  <2>1. StartVM(name[p]) /\ Bootable(name[p]) /\ "port" \in done[name[p]]
    BY <1>i, <1>1 DEF Boot, Reboot, Restore, ObjectInv, OfComplete
  <2>2. QED BY <1>v, <2>1 DEF VMStep
<1>2. CASE InsertKey(p) \/ ReadOptions(p) BY <1>0, <1>2, WorldKept DEF InsertKey, ReadOptions
<1>3. CASE Authorize(p) \/ OpenKey(p) \/ FillKey(p)
  BY <1>0, <1>3 DEF Authorize, OpenKey, FillKey, AuthorizeKey, WriteKey, worldVars, machineVars, guestVars,
                    fileVars
<1>4. CASE Configure(p)
  <2>1. ConfigureGuestNetwork(name[p], nic[name[p]]) /\ "port" \in done[name[p]]
    BY <1>i, <1>4 DEF Configure, ObjectInv, OfComplete
  <2>2. QED BY <1>v, <2>1 DEF VMStep
<1>5. CASE PowerButton(p) BY <1>v, <1>5 DEF PowerButton, VMStep
<1>6. CASE AwaitOff(p) BY <1>0, <1>6, WorldKept DEF AwaitOff, Return, Proceed
<1>7. CASE WriteOptionsStep(p)
  <2>1. \E s \in ServiceSets : WriteOptions(name[p], s) /\ power[name[p]] = "running"
                               /\ options[name[p]] \in {None, s}
    BY <1>i, <1>7 DEF WriteOptionsStep, ObjectInv
  <2>2. QED BY <1>v, <2>1 DEF VMStep
<1>8. CASE ClearHealth(p) BY <1>v, <1>8 DEF ClearHealth, Rebuild, VMStep
<1>9. CASE ProvisionVM(p) BY <1>v, <1>9 DEF ProvisionVM, VMStep
<1>10. CASE Suspend(p)
  <2>1. SaveState(name[p]) /\ power[name[p]] = "running" /\ name[p] \in healthy
    BY <1>i, <1>10 DEF Suspend, ObjectInv
  <2>2. QED BY <1>v, <2>1 DEF VMStep
<1>11. CASE Unpause(p) BY <1>v, <1>11 DEF Unpause, VMStep
<1>12. CASE AwaitSaved(p) \/ WaitSSH(p) BY <1>0, <1>12, WorldKept DEF AwaitSaved, WaitSSH, Return
<1>13. QED BY <1>1, <1>2, <1>3, <1>4, <1>5, <1>6, <1>7, <1>8, <1>9, <1>10, <1>11, <1>12
           DEF StartStep, SuspendStep

LEMMA DestroyHostStep ==
  ASSUME LifeInv, NEW p \in Procs, DestroyPart(p)
  PROVE  HostStep
<1>1. doomed[p] \subseteq Names BY DEF LifeInv, AloneInv, TypeInv, TypeOK, ProcTypeOK
<1>2. CASE UNCHANGED hostVars BY <1>2, WorldKept DEF HostStep
<1>3. CASE Destroy(p) \/ PowerOffOnly(p)
  <2>1. \E n \in Names : VMStep(n) BY <1>1, <1>3 DEF Destroy, PowerOffOnly, VMStep
  <2>2. QED BY <2>1 DEF HostStep
<1>4. CASE RemoveDir(p) \/ RemoveDirFails(p) BY <1>4 DEF RemoveDir, RemoveDirFails, HostStep
<1>5. QED BY <1>2, <1>3, <1>4 DEF DestroyPart, DestroyStep, Untrust, ListVMs, DestroyedAll, VerifyDestroyed,
                                  UntrustFails, DestroyFails, DestroyFailsFor, Proceed

LEMMA CommandHost ==
  ASSUME LifeInv, NEW p \in Procs, BuilderStep(p) \/ CommandStep(p) \/ VMConfigFails(p) \/ QueryFails(p)
  PROVE  UNCHANGED hostVars
<1>1. CASE CommandStep(p)
  BY <1>1 DEF CommandStep, StatusCmd, StopCmd, SuspendCmd, ResumeCmd, StartCmd, Download, Launch, Provision,
              Return, Proceed
<1>2. CASE BuilderStep(p) \/ VMConfigFails(p) \/ QueryFails(p)
  BY <1>2 DEF BuilderStep, GetVMName, VMStatus, VMConfig, CheckDir, QueryGuest, VMConfigFails, QueryFails,
              Built, Return
<1>3. QED BY <1>1, <1>2

LEMMA NextHost ==
  ASSUME LifeInv, [Next]_vars
  PROVE  HostStep
<1>0. ASSUME UNCHANGED hostVars PROVE HostStep BY <1>0, WorldKept DEF HostStep
<1>1. ASSUME NEW p \in Procs, Step(p) \/ Fails(p) PROVE HostStep
  <2>1. CASE Refuse(p) \/ TimesOut(p) \/ CallFails(p)
    BY <1>0, <2>1 DEF Refuse, TimesOut, CallFails, Return
  <2>2. CASE BuilderStep(p) \/ CommandStep(p) \/ VMConfigFails(p) \/ QueryFails(p)
    BY <1>0, <2>2, CommandHost
  <2>3. CASE DestroyPart(p) BY <2>3, DestroyHostStep
  <2>4. CASE WriteCut(p)
    <3>1. VMStep(name[p]) BY <2>4, ReadyMeans DEF WriteCut, VMStep
    <3>2. QED BY <3>1, OneFacts DEF HostStep
  <2>5. QED BY <1>1, <2>1, <2>2, <2>3, <2>4, ImportHost, StartHost DEF Step, Fails, DestroyPart
<1>2. ASSUME NEW p \in Procs, Invoke(p) \/ Killed(p) PROVE HostStep
  BY <1>0, <1>2 DEF Invoke, Killed, Return
<1>3. CASE \E n \in Names : GuestEvent(n) \/ GuestFault(n) BY <1>3 DEF HostStep, VMStep
<1>4. CASE UNCHANGED vars BY <1>0, <1>4 DEF vars
<1>5. QED BY <1>1, <1>2, <1>3, <1>4 DEF Next, Fault
-----------------------------------------------------------------------------
(* Every step keeps what the command relies on.  With one process, what     *)
(* holds of p holds of all.                                                *)

\* Here nothing is claimed.
Unclaimed == {"idle", "getName", "status", "config", "checkDir", "create", "cpus", "memory",
              "readOptions", "clearHealth", "runProvisioner", "awaitSaved", "unpause", "waitSSH"}
             \cup DestroyCalls

Claims == ImportInv /\ ObjectInv

LEMMA UnclaimedKeeps ==
  ASSUME OneProcess, NEW p \in Procs, pc'[p] \in Unclaimed
  PROVE  Claims'
BY DEF OneProcess, Unclaimed, DestroyCalls, Claims, ImportInv, ObjectInv, Incomplete, OfComplete, Decisions

\* The process types a step needs.
LEMMA ProcTypes ==
  ASSUME LifeInv
  PROVE  ProcTypeOK /\ HostTypeOK /\ HostSane /\ ImportInv /\ ObjectInv
BY DEF LifeInv, AloneInv, TypeInv, TypeOK

LEMMA ReturnKeeps ==
  ASSUME OneProcess, LifeInv, NEW p \in Procs, NEW r, Exit(p, r)
  PROVE  Claims'
BY UnclaimedKeeps, ProcTypes DEF Exit, Unclaimed, ProcTypeOK

LEMMA RebuildKeeps ==
  ASSUME OneProcess, LifeInv, NEW p \in Procs, NEW from, NEW use, Rebuild(p, from, use)
  PROVE  Claims'
BY UnclaimedKeeps, ProcTypes DEF Rebuild, Goto, Unclaimed, ProcTypeOK

LEMMA BuilderKeeps ==
  ASSUME OneProcess, LifeInv, NEW p \in Procs, BuilderStep(p) \/ VMConfigFails(p) \/ QueryFails(p)
  PROVE  Claims'
<1> USE ProcTypes DEF OneProcess, ProcTypeOK, Decisions
<1>1. CASE GetVMName(p)
  BY <1>1, UnclaimedKeeps, ReturnKeeps DEF GetVMName, Goto, Return, Unclaimed
<1>2. CASE VMStatus(p) BY <1>2, UnclaimedKeeps DEF VMStatus, Goto, Unclaimed
\* An object that is built without a configuration that was read.
<1>3. ASSUME NEW o \in {"Invalid", "NotCreated"}, Built(p, o) PROVE Claims'
  BY <1>3 DEF Built, Goto, Claims, ImportInv, ObjectInv, Incomplete, OfComplete, WithConfig
<1>4. CASE VMConfig(p) /\ VMConfigReadable(name[p])
  <2>1. /\ pc' = [pc EXCEPT ![p] = IF obj[p] = "Running" THEN "query" ELSE after[p]]
        /\ cfg' = [cfg EXCEPT ![p] = vmConfig]
        /\ "port" \in done[name[p]] /\ vmConfig \in Addrs
        /\ UNCHANGED <<hostVars, name, obj, want>>
    BY <1>4 DEF VMConfig, VMConfigReadable, Goto
  <2>2. vmConfig = nic[name[p]] BY <2>1 DEF HostSane, Complete
  <2>3. UNCHANGED worldVars BY <2>1, WorldKept
  <2>4. QED BY <2>1, <2>2, <2>3
            DEF worldVars, Claims, ImportInv, ObjectInv, Incomplete, OfComplete, WithConfig
<1>5. CASE VMConfigFails(p) \/ (VMConfig(p) /\ ~VMConfigReadable(name[p])) \/ CheckDir(p)
  BY <1>3, <1>5 DEF VMConfigFails, VMConfig, CheckDir
<1>6. CASE QueryGuest(p) \/ QueryFails(p)
  <2>1. \E o \in {"Running", "Unprovisioned", "Invalid"} :
          pc[p] = "query" /\ Built(p, o) /\ UNCHANGED cfg /\ (o = "Running" => name[p] \in healthy)
    BY <1>6 DEF QueryGuest, QueryFails
  <2>2. PICK o \in {"Running", "Unprovisioned", "Invalid"} :
          pc[p] = "query" /\ Built(p, o) /\ UNCHANGED cfg /\ (o = "Running" => name[p] \in healthy)
    BY <2>1
  <2>3. /\ pc' = [pc EXCEPT ![p] = after[p]] /\ obj' = [obj EXCEPT ![p] = o]
        /\ UNCHANGED <<name, cfg, want>> /\ UNCHANGED worldVars
    BY <2>2, WorldKept DEF Built, Goto
  <2>4. "port" \in done[name[p]] /\ cfg[p] = nic[name[p]] BY <2>2 DEF ObjectInv, OfComplete
  <2>5. QED BY <2>2, <2>3, <2>4
            DEF worldVars, Claims, ImportInv, ObjectInv, Incomplete, OfComplete, WithConfig
<1>7. QED BY <1>1, <1>2, <1>4, <1>5, <1>6 DEF BuilderStep

\* What a command does with its object.
LEMMA CommandMoves ==
  ASSUME NEW p \in Procs, CommandStep(p)
  PROVE  \/ \E r \in {"ok", "err"} : Return(p, r)
         \/ \E to \in {"create", "unpause", "runProvisioner", "clearHealth"} : Proceed(p, to)
         \/ \E to \in {"boot", "restore", "powerButton"} :
              /\ Proceed(p, to) /\ obj[p] \in WithConfig /\ pc[p] \in Decisions
         \/ Proceed(p, "saveState") /\ pc[p] = "dispatch" /\ obj[p] = "Running"
         \/ \E to \in {"download", "launch", "provision"} :
              Proceed(p, to) /\ pc[p] \in Decisions \cup {"download"}
<1> USE DEF WithConfig, Decisions
<1>1. CASE StatusCmd(p) BY <1>1 DEF StatusCmd
<1>2. CASE StopCmd(p) BY <1>2 DEF StopCmd
<1>3. CASE SuspendCmd(p) BY <1>3 DEF SuspendCmd
<1>4. CASE ResumeCmd(p) BY <1>4 DEF ResumeCmd
<1>5. CASE StartCmd(p) BY <1>5 DEF StartCmd
<1>6. CASE Download(p) BY <1>6 DEF Download
<1>7. CASE Launch(p) BY <1>7 DEF Launch
<1>8. CASE Provision(p) BY <1>8 DEF Provision
<1>9. QED BY <1>1, <1>2, <1>3, <1>4, <1>5, <1>6, <1>7, <1>8 DEF CommandStep

LEMMA CommandKeeps ==
  ASSUME OneProcess, LifeInv, NEW p \in Procs, CommandStep(p)
  PROVE  Claims'
<1> USE ProcTypes DEF OneProcess, ProcTypeOK
<1>0. ASSUME NEW to, Proceed(p, to)
      PROVE  pc'[p] = to /\ UNCHANGED <<name, obj, cfg, want>> /\ UNCHANGED worldVars
  BY <1>0, WorldKept DEF Proceed, Goto, memVars
<1>1. CASE \E r \in {"ok", "err"} : Return(p, r) BY <1>1, ReturnKeeps DEF Return
<1>2. CASE \E to \in {"create", "unpause", "runProvisioner", "clearHealth"} : Proceed(p, to)
  BY <1>0, <1>2, UnclaimedKeeps DEF Unclaimed
<1>3. CASE \E to \in {"boot", "restore", "powerButton"} :
              /\ Proceed(p, to) /\ obj[p] \in WithConfig /\ pc[p] \in Decisions
  BY <1>0, <1>3 DEF worldVars, Claims, ImportInv, ObjectInv, Incomplete, OfComplete, Decisions
<1>4. CASE Proceed(p, "saveState") /\ pc[p] = "dispatch" /\ obj[p] = "Running"
  BY <1>0, <1>4 DEF worldVars, Claims, ImportInv, ObjectInv, Incomplete, OfComplete, Decisions
<1>5. CASE \E to \in {"download", "launch", "provision"} :
              Proceed(p, to) /\ pc[p] \in Decisions \cup {"download"}
  BY <1>0, <1>5 DEF worldVars, Claims, ImportInv, ObjectInv, Incomplete, OfComplete, Decisions
<1>6. QED BY <1>1, <1>2, <1>3, <1>4, <1>5, CommandMoves

LEMMA ImportKeeps ==
  ASSUME OneProcess, LifeInv, NEW p \in Procs, ImportStep(p)
  PROVE  Claims'
<1> USE ProcTypes, OneFacts DEF OneProcess, ProcTypeOK, HostTypeOK, Call, Goto, memVars, Claims, ImportInv,
        ObjectInv, Incomplete, OfComplete, Decisions, machineVars, guestVars, fileVars, None
<1>1. CASE CreateVMStep(p)
  <2>1. ~Exists(name[p]) BY <1>1, ReadyMeans DEF CreateVMStep
  <2>2. QED BY <1>1, <2>1 DEF CreateVMStep, CreateVM, HostSane
<1>2. CASE BeginExtract(p) BY <1>2 DEF BeginExtract, Extract
<1>3. CASE EndExtract(p) BY <1>3 DEF EndExtract, Extract
<1>4. CASE CloneDiskStep(p) BY <1>4 DEF CloneDiskStep, CloneDisk
<1>5. CASE DeleteDiskStep(p) BY <1>5 DEF DeleteDiskStep, DeleteDisk
<1>6. CASE AttachDisk(p) BY <1>6 DEF AttachDisk, ModifyVM
<1>7. CASE SelectNetwork(p) BY <1>7 DEF SelectNetwork, hostVars
<1>8. CASE AttachNic(p) BY <1>8 DEF AttachNic, AttachNetworkInterface
<1>9. CASE OpenConfig(p) BY <1>9 DEF OpenConfig, WriteConfig
<1>10. CASE FillConfig(p) BY <1>10 DEF FillConfig, WriteConfig
<1>11. CASE UseDNSProxy(p) BY <1>11 DEF UseDNSProxy, ModifyVM
<1>12. CASE ForwardPort(p) \/ SetCPUs(p)
  <2>1. pc'[p] \in Unclaimed BY <1>12 DEF ForwardPort, SetCPUs, Unclaimed
  <2>2. QED BY <2>1, UnclaimedKeeps
<1>13. CASE SetMemory(p) BY <1>13, RebuildKeeps DEF SetMemory
<1>14. QED BY <1>1, <1>2, <1>3, <1>4, <1>5, <1>6, <1>7, <1>8, <1>9, <1>10, <1>11, <1>12, <1>13
           DEF ImportStep

LEMMA StartKeeps ==
  ASSUME OneProcess, LifeInv, NEW p \in Procs, StartStep(p) \/ SuspendStep(p)
  PROVE  Claims'
<1>0. ASSUME pc'[p] \in Unclaimed PROVE Claims' BY <1>0, UnclaimedKeeps
<1> USE ProcTypes DEF OneProcess, ProcTypeOK
\* The calls of StartVM keep hold of the VM's configuration.
<1>1. ASSUME pc[p] \in OfComplete, pc'[p] \in OfComplete, UNCHANGED <<name, cfg>>, UNCHANGED <<done, nic>>
      PROVE  Claims'
  BY <1>1 DEF Claims, ImportInv, ObjectInv, Incomplete, OfComplete, Decisions
<1>2. CASE Boot(p) \/ InsertKey(p) \/ Authorize(p) \/ OpenKey(p) \/ FillKey(p) \/ Configure(p) \/ PowerButton(p)
  <2>1. pc[p] \in OfComplete /\ pc'[p] \in OfComplete
    BY <1>2 DEF Boot, InsertKey, Authorize, OpenKey, FillKey, Configure, PowerButton, Call, Goto, OfComplete
  <2>2. UNCHANGED <<name, cfg>> /\ UNCHANGED <<done, nic>>
    BY <1>2 DEF Boot, InsertKey, Authorize, OpenKey, FillKey, Configure, PowerButton, StartVM, AuthorizeKey,
       WriteKey, ConfigureGuestNetwork, PressPowerButton, memVars, hostVars, machineVars
  <2>3. QED BY <1>1, <2>1, <2>2
<1>3. CASE AwaitOff(p)
  <2>1. CASE req[p].op = "stop" BY <1>3, <2>1, ReturnKeeps DEF AwaitOff, Return
  <2>2. CASE req[p].op # "stop"
    BY <1>1, <1>3, <2>2 DEF AwaitOff, Proceed, Goto, OfComplete, memVars, hostVars, machineVars
  <2>3. QED BY <2>1, <2>2
<1>4. CASE Reboot(p) \/ Restore(p) \/ Suspend(p) \/ Unpause(p)
  BY <1>0, <1>4 DEF Reboot, Restore, Suspend, Unpause, Call, Goto, Unclaimed
<1>5. CASE ReadOptions(p)
  <2>1. /\ pc'[p] = "writeOptions" /\ UNCHANGED <<hostVars, name>>
        /\ want'[p] = IF options[name[p]] = None THEN ServicesFor(req[p]) ELSE options[name[p]]
    BY <1>5 DEF ReadOptions, Call, Goto
  <2>2. options[name[p]] \in ServiceSets \cup {None} BY <1>5, ReadyMeans DEF ReadOptions, Call, HostTypeOK
  <2>3. ServicesFor(req[p]) \in ServiceSets
    BY ServicesAssumption DEF ServicesFor, AllRequests
  <2>4. options' = options BY <2>1 DEF hostVars, guestVars
  <2>5. QED BY <2>1, <2>2, <2>3, <2>4 DEF Claims, ImportInv, ObjectInv, Incomplete, OfComplete, Decisions
<1>6. CASE WriteOptionsStep(p) BY <1>6, ReturnKeeps, RebuildKeeps DEF WriteOptionsStep
<1>7. CASE ClearHealth(p) BY <1>7, RebuildKeeps DEF ClearHealth
<1>8. CASE ProvisionVM(p) BY <1>8, ReturnKeeps DEF ProvisionVM
<1>9. CASE AwaitSaved(p) \/ WaitSSH(p) BY <1>9, ReturnKeeps DEF AwaitSaved, WaitSSH, Return
<1>10. QED BY <1>2, <1>3, <1>4, <1>5, <1>6, <1>7, <1>8, <1>9 DEF StartStep, SuspendStep

LEMMA DestroyKeeps ==
  ASSUME OneProcess, LifeInv, NEW p \in Procs, DestroyPart(p)
  PROVE  Claims'
<1>1. pc'[p] \in Unclaimed
  BY ProcTypes DEF DestroyPart, DestroyStep, Untrust, ListVMs, Destroy, PowerOffOnly, DestroyFailsFor,
     Visit, DestroyedAll, VerifyDestroyed, RemoveDir, UntrustFails, DestroyFails, RemoveDirFails, Call, Goto,
     Proceed, Exit, ProcTypeOK, Unclaimed, DestroyCalls
<1>2. QED BY <1>1, UnclaimedKeeps

\* Guests and VirtualBox do not start a VM, and take nothing from its settings.
LEMMA GuestKeeps ==
  ASSUME LifeInv, NEW n \in Names, GuestEvent(n) \/ GuestFault(n), UNCHANGED procVars
  PROVE  Claims'
<1>1. /\ UNCHANGED <<done, nic, image, options, vmConfig>>
      /\ UNCHANGED <<pc, name, obj, cfg, want>>
  BY DEF GuestEvent, GuestShutsDown, PowerOffVM, StateSaved, GuestFault, VMAborts, VMPausedOutside,
         procVars, memVars, guestVars, fileVars
<1>2. \A m \in Names : power'[m] = "running" => power[m] = "running" /\ (m \in healthy => m \in healthy')
  BY ProcTypes DEF GuestEvent, GuestShutsDown, PowerOffVM, StateSaved, GuestFault, VMAborts, VMPausedOutside,
         guestVars, HostTypeOK
<1>3. QED BY <1>1, <1>2, ProcTypes DEF ProcTypeOK, Claims, ImportInv, ObjectInv

LEMMA NextKeeps ==
  ASSUME OneProcess, LifeInv, [Next]_vars
  PROVE  Claims'
<1>1. ASSUME NEW p \in Procs, Step(p) \/ Fails(p) PROVE Claims'
  <2>1. CASE Refuse(p) \/ TimesOut(p) \/ CallFails(p)
    BY <2>1, ReturnKeeps DEF Refuse, TimesOut, CallFails, Return
  <2>2. CASE BuilderStep(p) \/ VMConfigFails(p) \/ QueryFails(p) BY <2>2, BuilderKeeps
  <2>3. CASE CommandStep(p) BY <2>3, CommandKeeps
  <2>4. CASE DestroyPart(p) BY <2>4, DestroyKeeps
  <2>5. CASE WriteCut(p) BY <2>5, ReturnKeeps DEF WriteCut
  <2>6. QED BY <1>1, <2>1, <2>2, <2>3, <2>4, <2>5, ImportKeeps, StartKeeps DEF Step, Fails, DestroyPart
<1>2. ASSUME NEW p \in Procs, Killed(p) PROVE Claims' BY <1>2, ReturnKeeps DEF Killed, Return
<1>3. ASSUME NEW p \in Procs, Invoke(p) PROVE Claims'
  <2>1. pc'[p] \in Unclaimed BY <1>3, ProcTypes DEF Invoke, ProcTypeOK, Unclaimed, DestroyCalls
  <2>2. QED BY <2>1, UnclaimedKeeps
<1>4. CASE \E n \in Names : (GuestEvent(n) \/ GuestFault(n)) /\ UNCHANGED procVars
  BY <1>4, GuestKeeps
<1>5. CASE UNCHANGED vars
  BY <1>5, ProcTypes DEF vars, hostVars, machineVars, guestVars, fileVars, procVars, memVars, Claims, ImportInv,
     ObjectInv
<1>6. QED BY <1>1, <1>2, <1>3, <1>4, <1>5 DEF Next, Fault

-----------------------------------------------------------------------------
LEMMA LifeInit == Init => LifeInv
<1> SUFFICES ASSUME Init PROVE LifeInv OBVIOUS
<1>1. PICK old \in SUBSET OldNames, k \in Keys, a \in Addrs :
        /\ \A m, n \in old : m = n
        /\ power    = [n \in Names |-> IF n \in old THEN "off" ELSE "absent"]
        /\ done     = [n \in Names |-> IF n \in old THEN Settings ELSE {}]
        /\ nic      = [n \in Names |-> IF n \in old THEN a ELSE None]
        /\ image    = [n \in Names |-> IF n \in old THEN "sound" ELSE None]
        /\ options  = [n \in Names |-> None]
        /\ guestIP  = [n \in Names |-> IF n \in old THEN a ELSE None]
        /\ healthy  = {}
        /\ vmConfig = IF old = {} THEN None ELSE a
  BY DEF Init, HostInit
<1>2. HostSane
  BY <1>1, AddrsAssumption DEF HostSane, Complete, Settings, Powered, Exists, None
<1>3. ImportInv /\ ObjectInv
  BY DEF Init, ImportInv, ObjectInv, Incomplete, OfComplete, Decisions
<1>4. QED BY <1>2, <1>3, InitAlone DEF LifeInv

LEMMA LifeNext ==
  ASSUME OneProcess, LifeInv, [Next]_vars
  PROVE  LifeInv'
<1>1. AloneInv' BY NextAlone DEF LifeInv
<1>2. HostSane' BY NextHost, HostStepSane, ProcTypes
<1>3. Claims' BY NextKeeps
<1>4. QED BY <1>1, <1>2, <1>3 DEF LifeInv, Claims

-----------------------------------------------------------------------------
(* With one invocation at a time nothing is powered on that lacks a disk, a   *)
(* network card, the DNS proxy or the forwarded port, wherever an earlier     *)
(* import failed or was killed.                                             *)
THEOREM BootsOnlyWhatIsComplete ==
  ASSUME OneProcess
  PROVE  Spec => []BootsConfigured
<1>1. LifeInv => BootsConfigured BY DEF LifeInv, HostSane, Complete, BootsConfigured
<1>2. LifeInv /\ [Next]_vars => LifeInv' BY LifeNext
<1>3. QED BY <1>1, <1>2, LifeInit, PTL DEF Spec

(* With one invocation at a time vm_config, the VM's card and what its guest   *)
(* has been told name one address.                                          *)
THEOREM OneAddress ==
  ASSUME OneProcess
  PROVE  Spec => []AddressesAgree
<1>1. LifeInv => AddressesAgree BY DEF LifeInv, HostSane, Complete, AddressesAgree
<1>2. LifeInv /\ [Next]_vars => LifeInv' BY LifeNext
<1>3. QED BY <1>1, <1>2, LifeInit, PTL DEF Spec

\* A step of one command writes options only where there are none, or the same,
\* or the VM is lost in it.
LEMMA OptionsKept ==
  ASSUME LifeInv, [Next]_vars, NEW n \in Names, options[n] # None, power'[n] # "absent", ~LostNow(n)
  PROVE  options'[n] = options[n]
<1>1. HostStep BY NextHost
<1>2. HostTypeOK BY ProcTypes
<1>3. CASE \E m \in Names : VMStep(m)
  <2>1. PICK m \in Names : VMStep(m) BY <1>3
  <2>2. CASE DestroyVM(m) BY <1>2, <2>2 DEF DestroyVM, HostTypeOK
  <2>3. CASE \E s \in ServiceSets : WriteOptions(m, s) /\ options[m] \in {None, s}
    BY <1>2, <2>3 DEF WriteOptions, HostTypeOK
  <2>4. CASE CutOptions(m) /\ power[m] = "running"
    BY <1>2, <2>4 DEF CutOptions, LostNow, HostTypeOK
  <2>5. CASE UNCHANGED options BY <2>5
  <2>6. QED BY <2>1, <2>2, <2>3, <2>4, <2>5
        DEF VMStep, CreateVM, CloneDisk, ModifyVM, AttachNetworkInterface, StartVM, SaveState, ResumeVM,
            PowerOffVM, WriteConfig, ConfigureGuestNetwork, RunProvisioner, RemoveHealthcheck, GuestEvent,
            PressPowerButton, GuestShutsDown, StateSaved, GuestFault, VMAborts, VMPausedOutside,
            machineVars, guestVars
<1>4. CASE UNCHANGED options BY <1>4
<1>5. QED BY <1>1, <1>3, <1>4
      DEF HostStep, WriteConfig, RemoveVMDir, RemovePartOfVMDir, LoseDisks, guestVars, worldVars

(* With one invocation at a time a VM keeps the services of its first start,   *)
(* whatever later starts ask for, except that VirtualBox may lose it in the     *)
(* middle of the call that writes them.                                     *)
THEOREM ServicesStay ==
  ASSUME OneProcess
  PROVE  Spec => ServicesKept
<1>1. LifeInv /\ [Next]_vars
        => [\A n \in Names : options[n] # None /\ power'[n] # "absent" /\ ~LostNow(n)
                               => options'[n] = options[n]]_vars
  BY OptionsKept
<1>2. LifeInv /\ [Next]_vars => LifeInv' BY LifeNext
<1>3. QED BY <1>1, <1>2, LifeInit, PTL DEF Spec, ServicesKept

LEMMA LifeStarts == Init => Life!Init
<1> SUFFICES ASSUME Init PROVE Life!Init OBVIOUS
<1>1. PICK old \in SUBSET OldNames :
        /\ \A m, n \in old : m = n
        /\ power   = [n \in Names |-> IF n \in old THEN "off" ELSE "absent"]
        /\ done    = [n \in Names |-> IF n \in old THEN Settings ELSE {}]
        /\ options = [n \in Names |-> None]
        /\ healthy = {}
  BY DEF Init, HostInit
<1>2. \A n \in Names : LifeState(n) = IF n \in old THEN "stopped" ELSE "none"
  BY <1>1, LifeStateIs DEF Settings
<1>3. LifeServices = [n \in Names |-> None] BY <1>1 DEF LifeServices
<1>4. QED BY <1>1, <1>2, <1>3 DEF Life!Init

(* With one invocation at a time, the commands, whatever call fails, whenever  *)
(* they are killed and whatever VirtualBox and the guests do, implement the    *)
(* life cycle a user relies on.                                             *)
THEOREM CommandsImplementLifeCycle ==
  ASSUME OneProcess
  PROVE  Spec => ImplementsLifeCycle
<1>1. LifeInv /\ [Next]_vars => [Life!Next]_(Life!lifeVars) BY NextHost, HostStepLives, ProcTypes
<1>2. LifeInv /\ [Next]_vars => LifeInv' BY LifeNext
<1>3. QED BY <1>1, <1>2, LifeInit, LifeStarts, PTL DEF Spec, ImplementsLifeCycle, Life!Spec
=============================================================================
