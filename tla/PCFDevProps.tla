---------------------------- MODULE PCFDevProps ----------------------------
(***************************************************************************)
(* What `cf dev` promises.  Only one invocation at a time is assumed to be  *)
(* alive where a property needs it; the runs say so by the size of Procs.   *)
(***************************************************************************)
EXTENDS PCFDevCLI

Powered(n) == power[n] \in {"running", "paused", "saving", "saved"}

(* There is never more than one PCF Dev VM: GetVMName (vbox.go:383) gives up *)
(* on all commands when it finds two, and only destroy then works.          *)
AtMostOneVM == \A m, n \in Found : m = n

(* No VM is powered on before the import has given it its disk, its second  *)
(* NIC, its DNS proxy and its SSH port, whatever call of an earlier start    *)
(* failed: the forwarded port is what the builder takes for "imported".     *)
BootsConfigured ==
  \A n \in Names : Powered(n) => /\ {"disk", "dns", "port"} \subseteq done[n]
                                 /\ nic[n] # None
                                 /\ image[n] # None

(* vm_config, the host-only interface of an importable VM and the network    *)
(* the guest has been told to use name the same address.                    *)
AddressesAgree ==
  \A n \in Names :
    /\ "port" \in done[n] /\ vmConfig \in Addrs => vmConfig = nic[n]
    /\ guestIP[n] # None => guestIP[n] = nic[n]

(* A complete key.pem opens every guest whose insecure key was replaced:     *)
(* insertSecureKeypair never leaves a key for one guest and a file for       *)
(* another (vbox.go:151).                                                   *)
KeysAgree == \A n \in Names : auth[n] \in Keys /\ keyFile \in Keys => auth[n] = keyFile

LostNow(n) == power[n] = "running" /\ power'[n] = "aborted"

(* The services of a VM are those of its first start until it is destroyed,  *)
(* whatever later starts ask for (stopped.go:129); only a VM that VirtualBox *)
(* loses may lose them with it, when its file was being rewritten.          *)
ServicesKept ==
  [][\A n \in Names : options[n] # None /\ power'[n] # "absent" /\ ~LostNow(n)
       => options'[n] = options[n]]_vars

Returns(p, op, r) == pc[p] # "idle" /\ pc'[p] = "idle" /\ result'[p] = r /\ req[p].op = op

(* A destroy that reports success leaves nothing behind: no VM, no key, no   *)
(* configuration, no archive and no directory, although the errors of the    *)
(* single VMs are ignored on the way (vbox.go:424, destroy.go:26).          *)
DestroyedClean(p) ==
  Returns(p, "destroy", "ok") =>
    /\ \A n \in Names : power'[n] = "absent" /\ archive'[n] = None
    /\ keyFile' = None /\ vmConfig' = None /\ vmDirs' = {}

DestroyLeavesNothing == [][\A p \in Procs : DestroyedClean(p)]_vars

(* A start that went through VBox.StartVM and reports success has provisioned *)
(* the VM it booted: it does not mistake a VM in another state for done.     *)
StartProvisions ==
  [][\A p \in Procs :
       /\ Returns(p, "start", "ok")
       /\ req[p].mode = "full"
       /\ after[p] = "provision"
       => name[p] \in healthy' /\ power'[name[p]] = "running"]_vars

(* A start that reports success boots a VM with the memory it was asked to    *)
(* give it, or the default of the help text (plugin.go:118).                *)
StartHonoursMemory ==
  [][\A p \in Procs : Returns(p, "start", "ok") => "memory" \in done[name[p]]]_vars

(* Every command ends, with Provision calling the builder and the builder's  *)
(* object calling Provision again.                                          *)
CommandsEnd == \A p \in Procs : pc[p] # "idle" ~> pc[p] = "idle"

(* What a user may rely on, in the terms of VMLifeCycle.  The builder takes a  *)
(* VM with a forwarded SSH port for one whose import is complete               *)
(* (vbox.go:360, builder.go:29).                                              *)
LifeState(n) ==
  CASE power[n] = "absent" -> "none"
    [] power[n] \in {"off", "aborted"} -> IF "port" \in done[n] THEN "stopped" ELSE "importing"
    [] power[n] \in {"saving", "saved"} -> "suspended"
    [] OTHER -> power[n]

\* A cut file chooses nothing.
LifeServices == [n \in Names |-> IF options[n] = Torn THEN None ELSE options[n]]

Life == INSTANCE VMLifeCycle WITH state <- [n \in Names |-> LifeState(n)],
                                  services <- LifeServices,
                                  provisioned <- healthy

(* The commands implement the life cycle, whatever call of theirs fails and    *)
(* wherever they are killed: one VM at a time, nothing boots before its import *)
(* is complete, what boots is not provisioned yet, only a provisioned VM is     *)
(* suspended, and the services are chosen once (vbox.go:314, running.go:88,     *)
(* stopped.go:129).                                                           *)
ImplementsLifeCycle == Life!Spec
=============================================================================
