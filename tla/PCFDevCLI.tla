----------------------------- MODULE PCFDevCLI -----------------------------
(***************************************************************************)
(* `cf dev` commands.  Every invocation is a process of its own: it asks    *)
(* VirtualBox which PCF Dev VM exists, builds an object for the state that  *)
(* VM is in, calls one method of the object, and exits.  Nothing is shared  *)
(* between invocations but the host, and nothing locks it.  A step of this  *)
(* module is one external call with the code up to the next; between two    *)
(* steps any other process, VirtualBox or a guest may act, the call may     *)
(* fail, or the process may be killed.                                      *)
(***************************************************************************)
EXTENDS VBoxHost

CONSTANTS Procs,    \* plugin processes that can be alive at the same time
          Requests  \* command lines they are started with

Objects == {"NotCreated", "Stopped", "Running", "Unprovisioned", "Paused", "Saved", "Invalid"}

\* ova: `start -o`.  services: `start -s`.  mode: `start -n` and `start -p`.
AllRequests ==
       [op : {"start"}, ova : BOOLEAN, services : ServiceSets \cup {None},
        mode : {"full", "noProvision", "provisionOnly"}]
  \cup [op : {"stop", "suspend", "resume", "status", "destroy"}, ova : {FALSE},
        services : {None}, mode : {"full"}]

Idle == [op |-> "status", ova |-> FALSE, services |-> None, mode |-> "full"]

ASSUME RequestsAssumption == Requests \subseteq AllRequests

VARIABLES
  pc,      \* the call each process makes next
  result,  \* how the last invocation ended
  req,     \* command line
  name,    \* name of the VM the command acts on
  obj,     \* type of the object vm.Builder made
  cfg,     \* address in the object's VMConfig
  key,     \* private key in memory
  want,    \* services about to be written to the guest
  after,   \* what calls Builder.VM: the command, NotCreated.Start or a Provision
  doomed,  \* VMs DestroyPCFDevVMs has still to visit
  failed   \* destroy has collected an error

memVars == <<req, name, obj, cfg, key, want, after, doomed, failed>>
procVars == <<pc, result, memVars>>
vars == <<hostVars, procVars>>

BuilderCalls   == {"getName", "status", "config", "checkDir", "query"}
ImportCalls    == {"create", "extract", "unpack", "clone", "discard", "attachDisk", "network",
                   "attachNic", "openConfig", "fillConfig", "dns", "port", "cpus", "memory"}
StartCalls     == {"boot", "insertKey", "authorize", "openKey", "fillKey", "configure",
                   "powerButton", "awaitOff", "reboot", "readOptions", "writeOptions"}
ProvisionCalls == {"clearHealth", "runProvisioner"}
SuspendCalls   == {"saveState", "awaitSaved", "unpause", "restore", "waitSSH"}
DestroyCalls   == {"untrust", "listVMs", "destroyVMs", "verify", "removeDir"}
Decisions      == {"dispatch", "launch", "provision"}
Calls == BuilderCalls \cup ImportCalls \cup StartCalls \cup ProvisionCalls \cup SuspendCalls
           \cup DestroyCalls \cup {"download"}

ProcTypeOK ==
  /\ pc     \in [Procs -> Calls \cup Decisions \cup {"idle"}]
  /\ result \in [Procs -> {None, "ok", "err", "killed"}]
  /\ req    \in [Procs -> AllRequests]
  /\ name   \in [Procs -> Names]
  /\ obj    \in [Procs -> Objects]
  /\ cfg    \in [Procs -> Addrs \cup {None}]
  /\ key    \in [Procs -> Keys \cup {None, Torn}]
  /\ want   \in [Procs -> ServiceSets \cup {None}]
  /\ after  \in [Procs -> Decisions]
  /\ doomed \in [Procs -> SUBSET Names]
  /\ failed \in [Procs -> BOOLEAN]

TypeOK == HostTypeOK /\ ProcTypeOK

Init ==
  /\ HostInit
  /\ pc     = [p \in Procs |-> "idle"]
  /\ result = [p \in Procs |-> None]
  /\ req    = [p \in Procs |-> Idle]
  /\ name   = [p \in Procs |-> Default]
  /\ obj    = [p \in Procs |-> "Invalid"]
  /\ cfg    = [p \in Procs |-> None]
  /\ key    = [p \in Procs |-> None]
  /\ want   = [p \in Procs |-> None]
  /\ after  = [p \in Procs |-> "dispatch"]
  /\ doomed = [p \in Procs |-> {}]
  /\ failed = [p \in Procs |-> FALSE]

\* What a call needs from the world to succeed; the polling loops need the
\* state they wait for.
Ready(p) ==
  LET n == name[p] IN
  CASE pc[p] = "create" -> ~Exists(n)
    [] pc[p] = "clone" -> archive[n] # None
    [] pc[p] \in {"attachDisk", "attachNic", "dns", "port", "cpus", "memory"} -> Modifiable(n)
    [] pc[p] \in {"boot", "reboot", "restore"} -> Bootable(n)
    [] pc[p] = "authorize" -> Reachable(n, Insecure)
    [] pc[p] \in {"configure", "clearHealth", "waitSSH"} -> Reachable(n, keyFile)
    [] pc[p] = "readOptions" -> Reachable(n, keyFile) /\ options[n] # Torn
    [] pc[p] = "writeOptions" -> Reachable(n, key[p])
    [] pc[p] = "runProvisioner" -> Reachable(n, keyFile) /\ options[n] \in ServiceSets
    [] pc[p] \in {"powerButton", "saveState"} -> power[n] = "running"
    [] pc[p] = "unpause" -> power[n] = "paused"
    [] pc[p] = "awaitOff" -> power[n] = "off"
    [] pc[p] = "awaitSaved" -> power[n] = "saved"
    [] OTHER -> TRUE

Goto(p, to) == pc' = [pc EXCEPT ![p] = to] /\ UNCHANGED result

\* The call p is at succeeds and p goes on to the next one.
Call(p, from, to) == pc[p] = from /\ Ready(p) /\ Goto(p, to)

\* The process is gone, and its memory with it.
Exit(p, r) ==
  /\ pc'     = [pc EXCEPT ![p] = "idle"]
  /\ result' = [result EXCEPT ![p] = r]
  /\ req'    = [req EXCEPT ![p] = Idle]
  /\ name'   = [name EXCEPT ![p] = Default]
  /\ obj'    = [obj EXCEPT ![p] = "Invalid"]
  /\ cfg'    = [cfg EXCEPT ![p] = None]
  /\ key'    = [key EXCEPT ![p] = None]
  /\ want'   = [want EXCEPT ![p] = None]
  /\ after'  = [after EXCEPT ![p] = "dispatch"]
  /\ doomed' = [doomed EXCEPT ![p] = {}]
  /\ failed' = [failed EXCEPT ![p] = FALSE]

Return(p, r) == Exit(p, r) /\ UNCHANGED hostVars

Invoke(p) ==
  /\ pc[p] = "idle"
  /\ \E r \in Requests :
       /\ req' = [req EXCEPT ![p] = r]
       /\ pc' = [pc EXCEPT ![p] = IF r.op = "destroy" THEN "untrust" ELSE "getName"]
       /\ result' = [result EXCEPT ![p] = None]
  /\ UNCHANGED <<hostVars, name, obj, cfg, key, want, after, doomed, failed>>

-----------------------------------------------------------------------------
(* Finding the VM and building its object. *)

\* Variant: `start -o` does not ask which VM is there.
NameRefusedButOVA(r) == \/ \E m, n \in Found : m # n
                        \/ ~(Found \subseteq {Default, Custom}) /\ ~r.ova

NameRefused(r) == \/ \E m, n \in Found : m # n
                  \/ ~(Found \subseteq {Default, Custom})
                  \/ r.ova /\ Found = {Default}

NameFor(r) == IF r.ova \/ Found = {Custom} THEN Custom ELSE Default

GetVMName(p) ==
  /\ pc[p] = "getName"
  /\ IF NameRefused(req[p])
     THEN Return(p, "err")
     ELSE /\ name' = [name EXCEPT ![p] = NameFor(req[p])]
          /\ Goto(p, "status")
          /\ UNCHANGED <<hostVars, req, obj, cfg, key, want, after, doomed, failed>>

StatusObject(n) == CASE power[n] = "absent" -> "NotCreated"
                     [] power[n] = "running" -> "Running"
                     [] power[n] \in {"off", "aborted"} -> "Stopped"
                     [] power[n] = "saved" -> "Saved"
                     [] power[n] = "paused" -> "Paused"
                     [] OTHER -> "Invalid"

VMStatus(p) ==
  /\ pc[p] = "status"
  /\ obj' = [obj EXCEPT ![p] = StatusObject(name[p])]
  /\ Goto(p, IF Exists(name[p]) THEN "config" ELSE "checkDir")
  /\ UNCHANGED <<hostVars, req, name, cfg, key, want, after, doomed, failed>>

Built(p, o) == /\ obj' = [obj EXCEPT ![p] = o]
               /\ Goto(p, after[p])
               /\ UNCHANGED <<hostVars, req, name, key, want, after, doomed, failed>>

\* Variant: a missing port is no error.
ConfigWithoutPort(n) == Exists(n) /\ vmConfig \in Addrs

\* A VM without a forwarded SSH port or without vm_config is Invalid.
VMConfigReadable(n) == Exists(n) /\ "port" \in done[n] /\ vmConfig \in Addrs

VMConfig(p) ==
  /\ pc[p] = "config"
  /\ IF VMConfigReadable(name[p])
     THEN /\ cfg' = [cfg EXCEPT ![p] = vmConfig]
          /\ Goto(p, IF obj[p] = "Running" THEN "query" ELSE after[p])
          /\ UNCHANGED <<hostVars, req, name, obj, key, want, after, doomed, failed>>
     ELSE Built(p, "Invalid") /\ UNCHANGED cfg

VMConfigFails(p) == pc[p] = "config" /\ Built(p, "Invalid") /\ UNCHANGED cfg

CheckDir(p) ==
  /\ pc[p] = "checkDir"
  /\ Built(p, IF name[p] \in vmDirs THEN "Invalid" ELSE "NotCreated")
  /\ UNCHANGED cfg

\* The guest says whether it is provisioned.  No answer means Unprovisioned.
QueryGuest(p) ==
  /\ pc[p] = "query"
  /\ Built(p, IF keyFile = None THEN "Invalid"
              ELSE IF Reachable(name[p], keyFile) /\ name[p] \in healthy THEN "Running"
              ELSE "Unprovisioned")
  /\ UNCHANGED cfg

\* No answer although there could be one, or an answer that is neither of the two.
QueryFails(p) == /\ pc[p] = "query"
                 /\ keyFile # None
                 /\ Built(p, "Unprovisioned") \/ Built(p, "Invalid")
                 /\ UNCHANGED cfg

-----------------------------------------------------------------------------
(* The commands, by the type of the object. *)

Proceed(p, to) == Goto(p, to) /\ UNCHANGED <<hostVars, memVars>>

StatusCmd(p) == pc[p] = "dispatch" /\ req[p].op = "status" /\ Return(p, "ok")

StopCmd(p) ==
  /\ pc[p] = "dispatch"
  /\ req[p].op = "stop"
  /\ CASE obj[p] \in {"Running", "Unprovisioned"} -> Proceed(p, "powerButton")
       [] obj[p] = "Invalid" -> Return(p, "err")
       [] OTHER -> Return(p, "ok")

\* Variant: an unprovisioned VM can be suspended.
SuspendAnyRunning(p) ==
  /\ pc[p] = "dispatch"
  /\ req[p].op = "suspend"
  /\ CASE obj[p] \in {"Running", "Unprovisioned"} -> Proceed(p, "saveState")
       [] obj[p] = "Invalid" -> Return(p, "err")
       [] OTHER -> Return(p, "ok")

SuspendCmd(p) ==
  /\ pc[p] = "dispatch"
  /\ req[p].op = "suspend"
  /\ CASE obj[p] = "Running" -> Proceed(p, "saveState")
       [] obj[p] \in {"Unprovisioned", "Invalid"} -> Return(p, "err")
       [] OTHER -> Return(p, "ok")

ResumeCmd(p) ==
  /\ pc[p] = "dispatch"
  /\ req[p].op = "resume"
  /\ CASE obj[p] = "Paused" -> Proceed(p, "unpause")
       [] obj[p] = "Saved" -> Proceed(p, "restore")
       [] obj[p] \in {"Unprovisioned", "Invalid"} -> Return(p, "err")
       [] OTHER -> Return(p, "ok")

\* VerifyStartOpts: what was chosen at creation cannot be asked for again.
StartOptsRefused(p) == \/ obj[p] \in {"Unprovisioned", "Invalid"}
                       \/ obj[p] # "NotCreated" /\ req[p].services # None

StartCmd(p) ==
  /\ pc[p] = "dispatch"
  /\ req[p].op = "start"
  /\ IF req[p].mode = "provisionOnly" THEN Proceed(p, "provision")
     ELSE IF StartOptsRefused(p) THEN Return(p, "err")
     ELSE Proceed(p, IF name[p] = Custom THEN "launch" ELSE "download")

Download(p) == pc[p] = "download" /\ Proceed(p, "launch")

\* The Start method of the object.
Launch(p) ==
  /\ pc[p] = "launch"
  /\ CASE obj[p] = "NotCreated" -> Proceed(p, "create")
       [] obj[p] = "Stopped" -> Proceed(p, "boot")
       [] obj[p] = "Paused" -> Proceed(p, "unpause")
       [] obj[p] = "Saved" -> Proceed(p, "restore")
       [] obj[p] = "Running" -> Return(p, "ok")
       [] OTHER -> Return(p, "err")

\* Variant: the error of an Invalid VM is dropped.
ProvisionDropsError(p) ==
  /\ pc[p] = "provision"
  /\ CASE obj[p] = "Unprovisioned" -> Proceed(p, "runProvisioner")
       [] obj[p] = "Running" -> Proceed(p, "clearHealth")
       [] OTHER -> Return(p, "ok")

\* The Provision method of the object: most types do nothing and report success.
Provision(p) ==
  /\ pc[p] = "provision"
  /\ CASE obj[p] = "Unprovisioned" -> Proceed(p, "runProvisioner")
       [] obj[p] = "Running" -> Proceed(p, "clearHealth")
       [] obj[p] = "Invalid" -> Return(p, "err")
       [] OTHER -> Return(p, "ok")

Rebuild(p, from, use) == /\ pc[p] = from
                         /\ Ready(p)
                         /\ after' = [after EXCEPT ![p] = use]
                         /\ Goto(p, "status")
                         /\ UNCHANGED <<req, name, obj, cfg, key, want, doomed, failed>>

-----------------------------------------------------------------------------
(* NotCreated.Start: VBox.ImportVM, then the Start of what Builder.VM finds. *)

CreateVMStep(p)   == Call(p, "create", "extract") /\ CreateVM(name[p]) /\ UNCHANGED memVars
BeginExtract(p)   == Call(p, "extract", "unpack") /\ Extract(name[p], None, "partial") /\ UNCHANGED memVars
EndExtract(p)     == Call(p, "unpack", "clone") /\ Extract(name[p], "partial", "whole") /\ UNCHANGED memVars
CloneDiskStep(p)  == Call(p, "clone", "discard") /\ CloneDisk(name[p]) /\ UNCHANGED memVars
DeleteDiskStep(p) == Call(p, "discard", "attachDisk") /\ DeleteDisk(name[p]) /\ UNCHANGED memVars
AttachDisk(p)     == Call(p, "attachDisk", "network") /\ ModifyVM(name[p], "disk") /\ UNCHANGED memVars

\* The picker and the host-only interface it configures or creates.
SelectNetwork(p) ==
  /\ Call(p, "network", "attachNic")
  /\ \E a \in Addrs : cfg' = [cfg EXCEPT ![p] = a]
  /\ UNCHANGED <<hostVars, req, name, obj, key, want, after, doomed, failed>>

\* Variant: an existing vm_config is taken as it is.
AttachNicKeepsConfig(p) ==
  /\ Call(p, "attachNic", IF vmConfig = None THEN "openConfig" ELSE "dns")
  /\ AttachNetworkInterface(name[p], cfg[p])
  /\ UNCHANGED memVars

AttachNic(p)   == Call(p, "attachNic", "openConfig") /\ AttachNetworkInterface(name[p], cfg[p]) /\ UNCHANGED memVars
OpenConfig(p)  == Call(p, "openConfig", "fillConfig") /\ WriteConfig(Torn) /\ UNCHANGED memVars
FillConfig(p)  == Call(p, "fillConfig", "dns") /\ WriteConfig(cfg[p]) /\ UNCHANGED memVars
UseDNSProxy(p) == Call(p, "dns", "port") /\ ModifyVM(name[p], "dns") /\ UNCHANGED memVars
ForwardPort(p) == Call(p, "port", "cpus") /\ ModifyVM(name[p], "port") /\ UNCHANGED memVars
SetCPUs(p)     == Call(p, "cpus", "memory") /\ ModifyVM(name[p], "cpus") /\ UNCHANGED memVars
SetMemory(p)   == Rebuild(p, "memory", "launch") /\ ModifyVM(name[p], "memory")

ImportStep(p) == \/ CreateVMStep(p) \/ BeginExtract(p) \/ EndExtract(p) \/ CloneDiskStep(p)
                 \/ DeleteDiskStep(p) \/ AttachDisk(p) \/ SelectNetwork(p) \/ AttachNic(p)
                 \/ OpenConfig(p) \/ FillConfig(p) \/ UseDNSProxy(p) \/ ForwardPort(p)
                 \/ SetCPUs(p) \/ SetMemory(p)

-----------------------------------------------------------------------------
(* Stopped.Start: VBox.StartVM, the provision options, and Provision. *)

Boot(p)   == Call(p, "boot", "insertKey") /\ StartVM(name[p]) /\ UNCHANGED memVars
Reboot(p) == Call(p, "reboot", "readOptions") /\ StartVM(name[p]) /\ UNCHANGED memVars

\* Variant: a new key pair at every start.
InsertKeyAlways(p) ==
  /\ pc[p] = "insertKey"
  /\ Goto(p, "authorize")
  /\ \E k \in Keys \ {auth[n] : n \in Found} : key' = [key EXCEPT ![p] = k]
  /\ UNCHANGED <<hostVars, req, name, obj, cfg, want, after, doomed, failed>>

\* Variant: the key on disk is authorized in every guest.
ReinsertKey(p) ==
  /\ pc[p] = "insertKey"
  /\ Goto(p, "authorize")
  /\ \E k \in Keys : key' = [key EXCEPT ![p] = IF keyFile = None THEN k ELSE keyFile]
  /\ UNCHANGED <<hostVars, req, name, obj, cfg, want, after, doomed, failed>>

\* insertSecureKeypair: a key file means the guest already has the key.
InsertKey(p) ==
  /\ pc[p] = "insertKey"
  /\ IF keyFile # None
     THEN Goto(p, "configure") /\ UNCHANGED key
     ELSE /\ Goto(p, "authorize")
          /\ \E k \in Keys \ ({auth[n] : n \in Found} \cup {key[q] : q \in Procs}) :
               key' = [key EXCEPT ![p] = k]
  /\ UNCHANGED <<hostVars, req, name, obj, cfg, want, after, doomed, failed>>

\* Variant: falls back to the key on disk when the insecure one is refused.
AuthorizeWithEither(p) ==
  /\ pc[p] = "authorize"
  /\ Reachable(name[p], Insecure) \/ Reachable(name[p], keyFile)
  /\ Goto(p, "openKey")
  /\ AuthorizeKey(name[p], key[p])
  /\ UNCHANGED memVars

Authorize(p) == Call(p, "authorize", "openKey") /\ AuthorizeKey(name[p], key[p]) /\ UNCHANGED memVars
OpenKey(p)   == Call(p, "openKey", "fillKey") /\ WriteKey(Torn) /\ UNCHANGED memVars
FillKey(p)   == Call(p, "fillKey", "configure") /\ WriteKey(key[p]) /\ UNCHANGED memVars
Configure(p) == Call(p, "configure", "powerButton") /\ ConfigureGuestNetwork(name[p], cfg[p]) /\ UNCHANGED memVars

\* Driver.StopVM, of `cf dev stop` and of the restart inside VBox.StartVM.
PowerButton(p) == Call(p, "powerButton", "awaitOff") /\ PressPowerButton(name[p]) /\ UNCHANGED memVars
AwaitOff(p) == /\ pc[p] = "awaitOff"
               /\ Ready(p)
               /\ IF req[p].op = "stop" THEN Return(p, "ok") ELSE Proceed(p, "reboot")

\* Options found in the guest win over those of the command line.
ServicesFor(r) == IF r.services = None THEN DefaultServices ELSE r.services

\* Variant: the command line wins.
ReadOptionsIgnored(p) ==
  /\ Call(p, "readOptions", "writeOptions")
  /\ key' = [key EXCEPT ![p] = keyFile]
  /\ want' = [want EXCEPT ![p] = ServicesFor(req[p])]
  /\ UNCHANGED <<hostVars, req, name, obj, cfg, after, doomed, failed>>

ReadOptions(p) ==
  /\ Call(p, "readOptions", "writeOptions")
  /\ key' = [key EXCEPT ![p] = keyFile]
  /\ want' = [want EXCEPT ![p] = IF options[name[p]] = None THEN ServicesFor(req[p])
                                                         ELSE options[name[p]]]
  /\ UNCHANGED <<hostVars, req, name, obj, cfg, after, doomed, failed>>

WriteOptionsStep(p) ==
  /\ pc[p] = "writeOptions"
  /\ Ready(p)
  /\ WriteOptions(name[p], want[p])
  /\ IF req[p].mode = "noProvision" THEN Exit(p, "ok") ELSE Rebuild(p, "writeOptions", "provision")

WriteCut(p) == /\ "abort" \in Faults
               /\ pc[p] = "writeOptions"
               /\ Ready(p)
               /\ CutOptions(name[p])
               /\ Exit(p, "err")

\* Variant: the healthcheck file stays.
ClearNothing(p) == Rebuild(p, "clearHealth", "provision") /\ UNCHANGED hostVars

\* Running.Provision and Unprovisioned.Provision.
ClearHealth(p) == Rebuild(p, "clearHealth", "provision") /\ RemoveHealthcheck(name[p])
ProvisionVM(p) == pc[p] = "runProvisioner" /\ Ready(p) /\ RunProvisioner(name[p]) /\ Exit(p, "ok")

StartStep(p) == \/ Boot(p) \/ Reboot(p) \/ InsertKey(p) \/ Authorize(p) \/ OpenKey(p)
                \/ FillKey(p) \/ Configure(p) \/ PowerButton(p) \/ AwaitOff(p)
                \/ ReadOptions(p) \/ WriteOptionsStep(p) \/ ClearHealth(p) \/ ProvisionVM(p)

-----------------------------------------------------------------------------
(* Running.Suspend, Paused.Resume and Saved.Resume. *)

Suspend(p)    == Call(p, "saveState", "awaitSaved") /\ SaveState(name[p]) /\ UNCHANGED memVars
AwaitSaved(p) == pc[p] = "awaitSaved" /\ Ready(p) /\ Return(p, "ok")
Unpause(p)    == Call(p, "unpause", "waitSSH") /\ ResumeVM(name[p]) /\ UNCHANGED memVars
Restore(p)    == Call(p, "restore", "waitSSH") /\ StartVM(name[p]) /\ UNCHANGED memVars
WaitSSH(p)    == pc[p] = "waitSSH" /\ Ready(p) /\ Return(p, "ok")

SuspendStep(p) == Suspend(p) \/ AwaitSaved(p) \/ Unpause(p) \/ Restore(p) \/ WaitSSH(p)

-----------------------------------------------------------------------------
(* destroy: errors are collected and the command goes on; the VM directory   *)
(* is removed whatever happened before.                                     *)

Note(p, bad) == failed' = [failed EXCEPT ![p] = @ \/ bad]

Untrust(p) == Call(p, "untrust", "listVMs") /\ UNCHANGED <<hostVars, memVars>>

ListVMs(p) ==
  /\ Call(p, "listVMs", "destroyVMs")
  /\ doomed' = [doomed EXCEPT ![p] = Found]
  /\ UNCHANGED <<hostVars, req, name, obj, cfg, key, want, after, failed>>

Visit(p, n) == /\ pc[p] = "destroyVMs"
               /\ n \in doomed[p]
               /\ doomed' = [doomed EXCEPT ![p] = @ \ {n}]
               /\ UNCHANGED <<pc, result, req, name, obj, cfg, key, want, after, failed>>

\* The errors of `poweroff` and `unregistervm` are ignored, VM by VM.
Destroy(p)         == \E n \in doomed[p] : Visit(p, n) /\ DestroyVM(n)
PowerOffOnly(p)    == \E n \in doomed[p] : Visit(p, n) /\ Exists(n) /\ PowerOffVM(n)
DestroyFailsFor(p) == \E n \in doomed[p] : Visit(p, n) /\ UNCHANGED hostVars

DestroyedAll(p) ==
  /\ pc[p] = "destroyVMs"
  /\ doomed[p] = {}
  /\ Proceed(p, "verify")

\* Variant: ignored errors stay ignored.
NothingVerified(p) == Call(p, "verify", "removeDir") /\ UNCHANGED <<hostVars, memVars>>

\* DestroyPCFDevVMs looks again, at the VMs and at the disks.
VerifyDestroyed(p) ==
  /\ Call(p, "verify", "removeDir")
  /\ Note(p, Found # {})
  /\ UNCHANGED <<hostVars, req, name, obj, cfg, key, want, after, doomed>>

RemoveDir(p) == /\ pc[p] = "removeDir"
                /\ RemoveVMDir
                /\ Exit(p, IF failed[p] THEN "err" ELSE "ok")

DestroyStep(p) == \/ Untrust(p) \/ ListVMs(p) \/ Destroy(p) \/ DestroyedAll(p)
                  \/ VerifyDestroyed(p) \/ RemoveDir(p)

\* Errors that destroy notes before it goes on to the next part.
UntrustFails(p) == /\ Call(p, "untrust", "listVMs")
                   /\ Note(p, TRUE)
                   /\ UNCHANGED <<hostVars, req, name, obj, cfg, key, want, after, doomed>>
DestroyFails(p) == /\ \/ Call(p, "listVMs", "removeDir")
                      \/ Call(p, "verify", "removeDir")
                   /\ Note(p, TRUE)
                   /\ UNCHANGED <<hostVars, req, name, obj, cfg, key, want, after, doomed>>
RemoveDirFails(p) == pc[p] = "removeDir" /\ RemovePartOfVMDir /\ Exit(p, "err")

-----------------------------------------------------------------------------
(* Faults.  A call that cannot succeed, or whose polling loop runs out, makes *)
(* the command return its error; so does a call that fails for any other     *)
(* reason.  The calls of destroy and of the builder that swallow their error *)
(* have failures of their own above.                                        *)

Polls == {"awaitOff", "awaitSaved"}

Refuse(p)   == pc[p] \notin Polls \cup {"idle"} /\ ~Ready(p) /\ Return(p, "err")
TimesOut(p) == pc[p] \in Polls /\ ~Ready(p) /\ Return(p, "err")

Fallible == {"getName", "status", "checkDir", "download"} \cup ImportCalls \cup StartCalls
              \cup ProvisionCalls \cup SuspendCalls

CallFails(p) == /\ \/ pc[p] \in Fallible
                   \/ pc[p] = "dispatch" /\ req[p].op = "start"  \* user declines
                /\ Return(p, "err")

Fails(p) == \/ /\ "fail" \in Faults
               /\ \/ CallFails(p) \/ VMConfigFails(p) \/ QueryFails(p)
                  \/ UntrustFails(p) \/ DestroyFails(p) \/ RemoveDirFails(p)
                  \/ PowerOffOnly(p) \/ DestroyFailsFor(p)
            \/ WriteCut(p)

Killed(p) == "crash" \in Faults /\ pc[p] # "idle" /\ Return(p, "killed")

-----------------------------------------------------------------------------

CommandStep(p) == \/ StatusCmd(p) \/ StopCmd(p) \/ SuspendCmd(p) \/ ResumeCmd(p)
                  \/ StartCmd(p) \/ Download(p) \/ Launch(p) \/ Provision(p)

BuilderStep(p) == \/ GetVMName(p) \/ VMStatus(p) \/ VMConfig(p) \/ CheckDir(p) \/ QueryGuest(p)

Step(p) == \/ BuilderStep(p) \/ CommandStep(p) \/ ImportStep(p) \/ StartStep(p)
           \/ SuspendStep(p) \/ DestroyStep(p) \/ Refuse(p) \/ TimesOut(p)

Fault == \/ \E p \in Procs : Fails(p) \/ Killed(p)
         \/ \E n \in Names : GuestFault(n) /\ UNCHANGED procVars

Next == \/ \E p \in Procs : Invoke(p) \/ Step(p)
        \/ \E n \in Names : GuestEvent(n) /\ UNCHANGED procVars
        \/ Fault

Spec == Init /\ [][Next]_vars

\* The operating system runs every process, and every call of the plugin
\* returns: the polling loops and the SSH calls have time limits.
FairSpec == Spec /\ \A p \in Procs : WF_vars(Step(p))
=============================================================================
