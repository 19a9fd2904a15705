------------------------------ MODULE VBoxHost ------------------------------
(***************************************************************************)
(* The world the plugin acts on: the virtual machines VirtualBox has       *)
(* registered, what lives on the disk of each guest, and the files of the  *)
(* plugin's VM directory (~/.pcfdev/vms).  One operator per external call   *)
(* the plugin makes (package vboxdriver, and the commands it runs in the    *)
(* guest over SSH) gives that call's effect when it succeeds.  The steps    *)
(* that nobody in the plugin asks for are at the end of the module.         *)
(***************************************************************************)
EXTENDS Naturals, FiniteSets

CONSTANTS Default,          \* name of the VM made from the released OVA
          Custom,           \* "pcfdev-custom", the VM made from `start -o`
          OldNames,         \* VMs of earlier plugin releases
          Keys,             \* SSH key pairs GenerateKeypair can return
          Addrs,            \* addresses of host-only interfaces
          ServiceSets,      \* the service lists a user can ask for
          DefaultServices,  \* the list meant by leaving -s out
          Faults            \* the faults a behaviour may contain

Insecure == "insecure"      \* the key the OVA ships with
None     == "none"          \* nothing there: no file, no address, no options
Torn     == "torn"          \* a file that was truncated and not yet refilled

AllFaults == {"fail",       \* a call of the plugin returns an error
              "crash",      \* the plugin's process is killed
              "abort",      \* VirtualBox loses a VM (host crash, kill)
              "pause"}      \* a VM is paused from outside the plugin

ASSUME NamesAssumption == /\ Default # Custom
                          /\ Default \notin OldNames
                          /\ Custom \notin OldNames
ASSUME KeysAssumption == Keys \cap {Insecure, None, Torn} = {}
ASSUME AddrsAssumption == Addrs \cap {None, Torn} = {}
ASSUME ServicesAssumption == /\ ServiceSets \cap {None, Torn} = {}
                             /\ DefaultServices \in ServiceSets
ASSUME FaultsAssumption == Faults \subseteq AllFaults

Names == {Default, Custom} \cup OldNames

VARIABLES
  power,    \* state of each VM; "absent" when it is not registered
  acpi,     \* VMs whose guest has been sent the power button and is shutting down
  done,     \* settings the import has made on each VM
  nic,      \* address of the host-only interface behind each VM's second NIC
  image,    \* the disk image of each VM
  auth,     \* key in authorized_keys of each guest
  options,  \* services in /var/pcfdev/provision-options.json of each guest
  guestIP,  \* address in /etc/network/interfaces of each guest
  healthy,  \* guests with /run/pcfdev-healthcheck (provisioned since boot)
  keyFile,  \* VMDir/key.pem
  vmConfig, \* VMDir/vm_config, one file for all VMs
  archive,  \* VMDir/<name>-disk1.vmdk.compressed
  vmDirs    \* VMDir/<name> directories on the host

machineVars == <<power, acpi, done, nic, image>>
guestVars   == <<auth, options, guestIP, healthy>>
fileVars    == <<keyFile, vmConfig, archive, vmDirs>>
hostVars    == <<machineVars, guestVars, fileVars>>

Settings    == {"disk", "dns", "port", "cpus", "memory"}
PowerStates == {"absent", "off", "aborted", "running", "paused", "saving", "saved"}

HostTypeOK ==
  /\ power    \in [Names -> PowerStates]
  /\ acpi     \in SUBSET Names
  /\ done     \in [Names -> SUBSET Settings]
  /\ nic      \in [Names -> Addrs \cup {None}]
  /\ image    \in [Names -> {None, "sound", "damaged"}]
  /\ auth     \in [Names -> Keys \cup {Insecure}]
  /\ options  \in [Names -> ServiceSets \cup {None, Torn}]
  /\ guestIP  \in [Names -> Addrs \cup {None}]
  /\ healthy  \in SUBSET Names
  /\ keyFile  \in Keys \cup {None, Torn}
  /\ vmConfig \in Addrs \cup {None, Torn}
  /\ archive  \in [Names -> {None, "partial", "whole", "garbled"}]
  /\ vmDirs   \in SUBSET Names

Exists(n)     == power[n] # "absent"
Found         == {n \in Names : Exists(n)}
Modifiable(n) == power[n] \in {"off", "aborted"}
Bootable(n)   == power[n] \in {"off", "aborted", "saved"}

\* The guest answers on SSH to whoever holds the key it has authorized, if its
\* disk can be booted from.
Reachable(n, k) == /\ power[n] = "running"
                   /\ image[n] = "sound"
                   /\ "disk" \in done[n]
                   /\ auth[n] = k

-----------------------------------------------------------------------------
(* Calls of package vboxdriver. *)

CreateVM(n) == /\ power' = [power EXCEPT ![n] = "off"]
               /\ vmDirs' = vmDirs \cup {n}
               /\ UNCHANGED <<acpi, done, nic, image, guestVars, keyFile, vmConfig, archive>>

\* CloneDisk copies what is in the archive; an archive that is not exactly one
\* compressed disk makes an image no guest boots from.
CloneDisk(n) == /\ image' = [image EXCEPT ![n] = IF archive[n] = "whole" THEN "sound" ELSE "damaged"]
                /\ UNCHANGED <<power, acpi, done, nic, guestVars, fileVars>>

DeleteDisk(n) == /\ archive' = [archive EXCEPT ![n] = None]
                 /\ UNCHANGED <<machineVars, guestVars, keyFile, vmConfig, vmDirs>>

\* AttachDisk, UseDNSProxy, ForwardPort, SetCPUs and SetMemory: `modifyvm`.
ModifyVM(n, setting) == /\ done' = [done EXCEPT ![n] = @ \cup {setting}]
                        /\ UNCHANGED <<power, acpi, nic, image, guestVars, fileVars>>

AttachNetworkInterface(n, a) == /\ nic' = [nic EXCEPT ![n] = a]
                                /\ UNCHANGED <<power, acpi, done, image, guestVars, fileVars>>

\* `startvm`: a saved VM continues where it was, any other boots, and /run is
\* empty after a boot.
StartVM(n) == /\ power' = [power EXCEPT ![n] = "running"]
              /\ healthy' = IF power[n] = "saved" THEN healthy ELSE healthy \ {n}
              /\ UNCHANGED <<acpi, done, nic, image, auth, options, guestIP, fileVars>>

\* `acpipowerbutton`: the guest is only asked.
PressPowerButton(n) == /\ acpi' = acpi \cup {n}
                       /\ UNCHANGED <<power, done, nic, image, guestVars, fileVars>>

SaveState(n) == /\ power' = [power EXCEPT ![n] = "saving"]
                /\ UNCHANGED <<acpi, done, nic, image, guestVars, fileVars>>

ResumeVM(n) == /\ power' = [power EXCEPT ![n] = "running"]
               /\ UNCHANGED <<acpi, done, nic, image, guestVars, fileVars>>

PowerOffVM(n) == /\ power' = [power EXCEPT ![n] = "off"]
                 /\ acpi' = acpi \ {n}
                 /\ healthy' = healthy \ {n}
                 /\ UNCHANGED <<done, nic, image, auth, options, guestIP, fileVars>>

\* `unregistervm --delete` removes the VM with every disk attached to it, and
\* its directory unless a disk that was never attached is still in there.
DestroyVM(n) == /\ power'   = [power EXCEPT ![n] = "absent"]
                /\ acpi'    = acpi \ {n}
                /\ done'    = [done EXCEPT ![n] = {}]
                /\ nic'     = [nic EXCEPT ![n] = None]
                /\ image'   = [image EXCEPT ![n] = None]
                /\ auth'    = [auth EXCEPT ![n] = Insecure]
                /\ options' = [options EXCEPT ![n] = None]
                /\ guestIP' = [guestIP EXCEPT ![n] = None]
                /\ healthy' = healthy \ {n}
                /\ \/ vmDirs' = vmDirs \ {n}
                   \/ "disk" \notin done[n] /\ UNCHANGED vmDirs
                /\ UNCHANGED <<keyFile, vmConfig, archive>>

-----------------------------------------------------------------------------
(* Files of the host: FS.Write truncates the file and then fills it, so both *)
(* halves are steps; FS.Extract appends to whatever the file already holds.  *)

WriteKey(v)    == keyFile' = v  /\ UNCHANGED <<machineVars, guestVars, vmConfig, archive, vmDirs>>
WriteConfig(v) == vmConfig' = v /\ UNCHANGED <<machineVars, guestVars, keyFile, archive, vmDirs>>

Extract(n, from, to) ==
  /\ archive' = [archive EXCEPT ![n] = IF @ = from THEN to ELSE "garbled"]
  /\ UNCHANGED <<machineVars, guestVars, keyFile, vmConfig, vmDirs>>

\* Without the VM directory the disk of a VM that is still registered is gone.
LoseDisks == image' = [n \in Names |-> IF Exists(n) THEN "damaged" ELSE image[n]]

\* Variant: the key is kept for the next VM.
RemoveAllButKey == /\ vmConfig' = None
                   /\ archive' = [n \in Names |-> None]
                   /\ vmDirs' = {}
                   /\ LoseDisks
                   /\ UNCHANGED <<power, acpi, done, nic, guestVars, keyFile>>

RemoveVMDir == /\ keyFile' = None
               /\ vmConfig' = None
               /\ archive' = [n \in Names |-> None]
               /\ vmDirs' = {}
               /\ LoseDisks
               /\ UNCHANGED <<power, acpi, done, nic, guestVars>>

\* os.RemoveAll stops at the first entry it cannot remove.
RemovePartOfVMDir == /\ keyFile' \in {keyFile, None}
                     /\ vmConfig' \in {vmConfig, None}
                     /\ archive' \in {archive, [n \in Names |-> None]}
                     /\ vmDirs' \in {vmDirs, {}}
                     /\ IF vmDirs' = {} THEN LoseDisks ELSE UNCHANGED image
                     /\ UNCHANGED <<power, acpi, done, nic, guestVars>>

-----------------------------------------------------------------------------
(* Commands run in the guest over SSH. *)

AuthorizeKey(n, k) == /\ auth' = [auth EXCEPT ![n] = k]
                      /\ UNCHANGED <<machineVars, options, guestIP, healthy, fileVars>>

ConfigureGuestNetwork(n, a) == /\ guestIP' = [guestIP EXCEPT ![n] = a]
                               /\ UNCHANGED <<machineVars, auth, options, healthy, fileVars>>

WriteOptions(n, s) == /\ options' = [options EXCEPT ![n] = s]
                      /\ UNCHANGED <<machineVars, auth, guestIP, healthy, fileVars>>

\* The VM is lost while `tee` is at it: the file has been truncated, and may hold
\* the beginning of what was to be written.
CutOptions(n) == /\ power' = [power EXCEPT ![n] = "aborted"]
                 /\ acpi' = acpi \ {n}
                 /\ healthy' = healthy \ {n}
                 /\ \E left \in {None, Torn} : options' = [options EXCEPT ![n] = left]
                 /\ UNCHANGED <<done, nic, image, auth, guestIP, fileVars>>

RunProvisioner(n) == /\ healthy' = healthy \cup {n}
                     /\ UNCHANGED <<machineVars, auth, options, guestIP, fileVars>>

RemoveHealthcheck(n) == /\ healthy' = healthy \ {n}
                        /\ UNCHANGED <<machineVars, auth, options, guestIP, fileVars>>

-----------------------------------------------------------------------------
(* What VirtualBox and the guests do by themselves. *)

\* At most one VM of an earlier release, complete and stopped, with its files.
HostInit ==
  \E old \in SUBSET OldNames, k \in Keys, a \in Addrs :
    /\ \A m, n \in old : m = n
    /\ power    = [n \in Names |-> IF n \in old THEN "off" ELSE "absent"]
    /\ acpi     = {}
    /\ done     = [n \in Names |-> IF n \in old THEN Settings ELSE {}]
    /\ nic      = [n \in Names |-> IF n \in old THEN a ELSE None]
    /\ image    = [n \in Names |-> IF n \in old THEN "sound" ELSE None]
    /\ auth     = [n \in Names |-> IF n \in old THEN k ELSE Insecure]
    /\ options  = [n \in Names |-> None]
    /\ guestIP  = [n \in Names |-> IF n \in old THEN a ELSE None]
    /\ healthy  = {}
    /\ keyFile  = IF old = {} THEN None ELSE k
    /\ vmConfig = IF old = {} THEN None ELSE a
    /\ archive  = [n \in Names |-> None]
    /\ vmDirs   = old

GuestShutsDown(n) == /\ n \in acpi
                     /\ power[n] = "running"
                     /\ PowerOffVM(n)

StateSaved(n) == /\ power[n] = "saving"
                 /\ power' = [power EXCEPT ![n] = "saved"]
                 /\ UNCHANGED <<acpi, done, nic, image, guestVars, fileVars>>

VMAborts(n) == /\ "abort" \in Faults
               /\ power[n] \in {"running", "paused", "saving"}
               /\ power' = [power EXCEPT ![n] = "aborted"]
               /\ acpi' = acpi \ {n}
               /\ healthy' = healthy \ {n}
               /\ UNCHANGED <<done, nic, image, auth, options, guestIP, fileVars>>

VMPausedOutside(n) == /\ "pause" \in Faults
                      /\ power[n] = "running"
                      /\ power' = [power EXCEPT ![n] = "paused"]
                      /\ UNCHANGED <<acpi, done, nic, image, guestVars, fileVars>>

GuestEvent(n)  == GuestShutsDown(n) \/ StateSaved(n)
GuestFault(n)  == VMAborts(n) \/ VMPausedOutside(n)
=============================================================================
