---------------------------- MODULE HostNetwork ----------------------------
(***************************************************************************)
(* The host-only network, the address and the memory of the VM that the     *)
(* first `cf dev start` imports.  Interfaces outlive the VM: the next        *)
(* import reuses them.  One command at a time; the other VMs and the other   *)
(* networks of the host come and go.  A network is named for the first three *)
(* numbers of its addresses, and an address is that and its last number.     *)
(***************************************************************************)
EXTENDS StartOptions, Sequences, FiniteSets, FiniteSetsExt

CONSTANTS AllowedNets,  \* allowedSubnets, in their order
          OtherNets,    \* networks a user may ask for with -i
          Ifaces,       \* host-only interfaces VirtualBox can have, numbered
          Rivals,       \* VMs that are not PCF Dev's
          Requests,     \* options of start: see Options
          Totals        \* memory of the host

Allowed == {AllowedNets[k] : k \in DOMAIN AllowedNets}
Nets    == Allowed \cup OtherNets
Absent  == "absent"     \* no such interface
Raw     == "raw"        \* an interface nobody has configured
None    == "none"
XIP     == "xip.io"     \* any domain that is not the one of an allowed address

\* Of the last numbers, 11 is that of the addresses that have a domain.
Addresses == [net : Nets, last : {11, 12}]
NoAddress == [net |-> None, last |-> 0]
Domains   == Allowed \cup {XIP}
Options   == [memory : Int, words : SUBSET Words, ova : BOOLEAN,
              ip : Addresses \cup {NoAddress}, domain : Domains \cup {None}]
Plain     == [memory |-> 0, words |-> {}, ova |-> FALSE, ip |-> NoAddress, domain |-> None]

ASSUME NetsAssumption == /\ Allowed \cap OtherNets = {}
                         /\ Nets \cap {Absent, Raw, None, XIP} = {}
                         /\ AllowedNets \in Seq(Allowed)
ASSUME IfacesAssumption == Ifaces \subseteq Nat \ {0} /\ IsFiniteSet(Ifaces)
ASSUME RequestsAssumption == Requests \subseteq Options /\ Totals \subseteq Nat

VARIABLES
  hostonly,  \* address of each host-only interface
  outside,   \* networks the host is in without VirtualBox
  rivalNic,  \* host-only interface of each other VM
  vm,        \* the PCF Dev VM: see VMs
  pc,        \* the call the command makes next
  opts,      \* the options of start
  total,     \* memory of the host
  memory,    \* memory the VM shall get
  listed,    \* addresses of the host-only interfaces when VBoxManage listed them
  nets,      \* positions of the networks the picker has still to look at
  pick,      \* NetworkConfig: what the picker has chosen
  tries,     \* attempts left to create an interface
  calm       \* nobody else has changed the host since the command started

hostVars == <<hostonly, outside, rivalNic, total>>
procVars == <<pc, opts, memory, listed, nets, pick, tries>>
vars     == <<hostVars, vm, procVars, calm>>

NoVM == [state |-> "absent", nic |-> 0, ip |-> NoAddress, domain |-> None, memory |-> 0,
         services |-> {}, auto |-> FALSE, custom |-> FALSE]

VMs == [state : {"absent", "created", "imported"}, nic : Ifaces \cup {0},
        ip : Addresses \cup {NoAddress}, domain : Domains \cup {None}, memory : Nat,
        services : SUBSET DOMAIN AskedBy, auto : BOOLEAN, custom : BOOLEAN]

NoPick == [ip |-> NoAddress, domain |-> None, net |-> None, iface |-> 0]

NetworkConfigs == [ip : Addresses \cup {NoAddress}, domain : Domains \cup {None},
                   net : Nets \cup {None}, iface : Ifaces \cup {0}]

NotListed == [i \in Ifaces |-> Absent]

PCs == {"idle", "create", "interfaces", "select", "probe", "configure", "createIf", "ipconfig",
        "attach", "config", "memory"}

TypeOK ==
  /\ hostonly \in [Ifaces -> Nets \cup {Absent, Raw}]
  /\ outside \in SUBSET Nets
  /\ rivalNic \in [Rivals -> Ifaces \cup {0}]
  /\ total \in Totals
  /\ vm \in VMs
  /\ pc \in PCs
  /\ opts \in Options
  /\ memory \in 0 .. Word - 1
  /\ listed \in [Ifaces -> Nets \cup {Absent, Raw}]
  /\ nets \in SUBSET DOMAIN AllowedNets
  /\ pick \in NetworkConfigs
  /\ tries \in 0 .. 3
  /\ calm \in BOOLEAN

Init ==
  /\ hostonly = [i \in Ifaces |-> Absent]
  /\ outside \in SUBSET Allowed
  /\ rivalNic = [r \in Rivals |-> 0]
  /\ total \in Totals
  /\ vm = NoVM
  /\ pc = "idle" /\ opts = Plain /\ memory = 0 /\ listed = NotListed
  /\ nets = {} /\ pick = NoPick /\ tries = 0
  /\ calm = TRUE

Exit == /\ pc' = "idle" /\ opts' = Plain /\ memory' = 0 /\ listed' = NotListed
        /\ nets' = {} /\ pick' = NoPick /\ tries' = 0

-----------------------------------------------------------------------------
(* NotCreated.VerifyStartOpts and NotCreated.Start. *)

Refused(o) == \/ ~o.ova /\ MemoryRefused(Unsigned(o.memory), o.words)
              \/ o.ip = NoAddress /\ o.domain = XIP

\* The user is asked when memory is short, and may decline.
Start ==
  /\ pc = "idle" /\ vm.state = "absent"
  /\ \E o \in Requests :
       /\ ~Refused(o)
       /\ opts' = o
       /\ memory' = MemoryFor(total, Unsigned(o.memory), o.words)
  /\ pc' = "create" /\ calm' = TRUE
  /\ UNCHANGED <<hostVars, vm, listed, nets, pick, tries>>

-----------------------------------------------------------------------------
(* VBox.ImportVM. *)

\* CreateVM and what comes before the network, which PCFDevCLI has in detail.
CreateVM ==
  /\ pc = "create"
  /\ vm' = [NoVM EXCEPT !.state = "created", !.services = Services(opts.words), !.custom = opts.ova]
  /\ pc' = "interfaces"
  /\ UNCHANGED <<hostVars, opts, memory, listed, nets, pick, tries>>

DomainForIP(ip)  == IF ip.net \in Allowed /\ ip.last = 11 THEN ip.net ELSE XIP
IPForSubnet(net) == [net |-> net, last |-> 11]

\* VBoxManage lists its interfaces; all of them may be reused.
GetHostOnlyInterfaces ==
  /\ pc = "interfaces"
  /\ listed' = hostonly
  /\ pc' = "select"
  /\ UNCHANGED <<hostVars, vm, opts, memory, nets, pick, tries>>

ReusableInterfaces == {i \in Ifaces : listed[i] # Absent}

\* Variant: what is there is not looked for.
NothingInSet(net) == {}

AddrsInSet(net) == {i \in ReusableInterfaces : listed[i] = net}

\* 0 stands for an interface that has to be created.
FirstOf(ifaces) == IF ifaces = {} THEN 0 ELSE Min(ifaces)

\* Variant: the domain decides on the network.
DomainFirst(o) == IF o.domain \in Allowed THEN IPForSubnet(o.domain) ELSE o.ip

AskedIP(o) == IF o.ip # NoAddress THEN o.ip ELSE IPForSubnet(o.domain)

\* The interfaces of the host, as they are now: an address, and the interface of
\* VirtualBox that has it or 0.
Interfaces == {<<net, 0>> : net \in outside}
                \cup {<<hostonly[i], i>> : i \in {j \in Ifaces : hostonly[j] \in Nets}}

\* Variant: VirtualBox's own interfaces count as somebody else's.
TakenByAny(net) == \E iface \in Interfaces : iface[1] = net

NonReusableInterfaceExists(net) ==
  \E iface \in Interfaces : iface[1] = net /\ iface[2] \notin ReusableInterfaces

\* SelectAvailableInterface with -i or -d asks nobody, else it reads the host's
\* interfaces and looks at the allowed networks in turn.
Select ==
  /\ pc = "select"
  /\ IF opts.ip # NoAddress \/ opts.domain # None
     THEN LET ip == AskedIP(opts) IN
          /\ pick' = [ip |-> IF opts.ip # NoAddress THEN opts.ip ELSE ip,
                      domain |-> IF opts.domain # None THEN opts.domain ELSE DomainForIP(ip),
                      net |-> ip.net, iface |-> FirstOf(AddrsInSet(ip.net))]
          /\ pc' = IF AddrsInSet(ip.net) = {} THEN "createIf" ELSE "configure"
          /\ tries' = 3 /\ listed' = NotListed
          /\ UNCHANGED nets
     ELSE /\ nets' = {k \in DOMAIN AllowedNets : ~NonReusableInterfaceExists(AllowedNets[k])}
          /\ pc' = "probe"
          /\ UNCHANGED <<listed, pick, tries>>
  /\ UNCHANGED <<hostVars, vm, opts, memory>>

Picked(net, iface) ==
  /\ pick' = [ip |-> IPForSubnet(net), domain |-> DomainForIP(IPForSubnet(net)),
              net |-> net, iface |-> iface]
  /\ pc' = IF iface = 0 THEN "createIf" ELSE "configure"
  /\ tries' = 3 /\ listed' = NotListed
  /\ UNCHANGED <<hostVars, vm, opts, memory, nets>>

\* Variant: asks nobody.
NeverInUse(iface) == FALSE

IsInterfaceInUse(iface) == \E r \in Rivals : rivalNic[r] = iface

HeadNet == AllowedNets[Min(nets)]

Pass == nets' = nets \ {Min(nets)} /\ UNCHANGED <<hostVars, vm, pc, opts, memory, listed, pick, tries>>

PickNew   == /\ pc = "probe" /\ nets # {}
             /\ AddrsInSet(HeadNet) = {}
             /\ Picked(HeadNet, 0)
Probe     == /\ pc = "probe" /\ nets # {}
             /\ \E i \in Ifaces : /\ AddrsInSet(HeadNet) = {i}
                                  /\ IF IsInterfaceInUse(i) THEN Pass ELSE Picked(HeadNet, i)
PassTwins == /\ pc = "probe" /\ nets # {}
             /\ Cardinality(AddrsInSet(HeadNet)) > 1
             /\ Pass
AllTaken  == pc = "probe" /\ nets = {} /\ Exit /\ UNCHANGED <<hostVars, vm>>

Configure == /\ pc = "configure"
             /\ hostonly' = [hostonly EXCEPT ![pick.iface] = pick.net]
             /\ pc' = "attach"
             /\ UNCHANGED <<outside, rivalNic, total, vm, opts, memory, listed, nets, pick, tries>>

Free == {i \in Ifaces : hostonly[i] = Absent}

\* VirtualBox makes the interface and says its name.
CreateInterface ==
  /\ pc = "createIf" /\ Free # {}
  /\ hostonly' = [hostonly EXCEPT ![Min(Free)] = Raw]
  /\ pick' = [pick EXCEPT !.iface = Min(Free)]
  /\ pc' = "ipconfig"
  /\ UNCHANGED <<outside, rivalNic, total, vm, opts, memory, listed, nets, tries>>

LastAttempt == tries = 1

\* An attempt fails; VirtualBox may have made an interface all the same.
CreateAttemptFails ==
  /\ pc = "createIf"
  /\ \/ UNCHANGED hostonly
     \/ Free # {} /\ hostonly' = [hostonly EXCEPT ![Min(Free)] = Raw]
  /\ IF LastAttempt THEN Exit ELSE tries' = tries - 1 /\ UNCHANGED <<pc, opts, memory, listed, nets, pick>>
  /\ UNCHANGED <<outside, rivalNic, total, vm>>

IPConfig == /\ pc = "ipconfig"
            /\ hostonly' = [hostonly EXCEPT ![pick.iface] = pick.net]
            /\ pc' = "attach"
            /\ UNCHANGED <<outside, rivalNic, total, vm, opts, memory, listed, nets, pick, tries>>

Attach == /\ pc = "attach"
          /\ vm' = [vm EXCEPT !.nic = pick.iface,
                              !.auto = opts.ip = NoAddress /\ opts.domain = None]
          /\ pc' = "config"
          /\ UNCHANGED <<hostVars, opts, memory, listed, nets, pick, tries>>

\* vm_config, then the DNS proxy, the SSH port and the CPUs.
WriteConfig == /\ pc = "config"
               /\ vm' = [vm EXCEPT !.ip = pick.ip, !.domain = pick.domain, !.state = "imported"]
               /\ pc' = "memory"
               /\ UNCHANGED <<hostVars, opts, memory, listed, nets, pick, tries>>

\* VirtualBox does not take a negative number.
SetMemory == /\ pc = "memory"
             /\ Signed(memory) >= 0
             /\ vm' = [vm EXCEPT !.memory = Signed(memory)]
             /\ Exit
             /\ UNCHANGED hostVars
SetMemoryFails == pc = "memory" /\ Signed(memory) < 0 /\ Exit /\ UNCHANGED <<hostVars, vm>>

CallFails == pc \notin {"idle", "createIf"} /\ Exit /\ UNCHANGED <<hostVars, vm>>

Destroy == /\ pc = "idle" /\ vm.state # "absent"
           /\ vm' = NoVM
           /\ UNCHANGED <<hostVars, procVars>>

-----------------------------------------------------------------------------
(* The rest of the host. *)

Others == /\ calm' = (calm /\ pc = "idle")
          /\ UNCHANGED <<total, vm, procVars>>

\* Another VM is attached to one of the interfaces, or taken off.
RivalMoves(r) ==
  /\ \E i \in {0} \cup {j \in Ifaces : hostonly[j] # Absent} :
       i # rivalNic[r] /\ rivalNic' = [rivalNic EXCEPT ![r] = i]
  /\ Others /\ UNCHANGED <<hostonly, outside>>

\* Somebody else makes an interface, or gives one another address.
SomebodyConfigures(i) ==
  /\ \E net \in Nets : net # hostonly[i] /\ hostonly' = [hostonly EXCEPT ![i] = net]
  /\ Others /\ UNCHANGED <<outside, rivalNic>>

\* The host joins or leaves a network.
NetworkChanges(net) ==
  /\ outside' = IF net \in outside THEN outside \ {net} ELSE outside \cup {net}
  /\ Others /\ UNCHANGED <<hostonly, rivalNic>>

-----------------------------------------------------------------------------

Step == /\ \/ CreateVM \/ GetHostOnlyInterfaces \/ Select \/ PickNew \/ Probe \/ PassTwins \/ AllTaken
           \/ Configure \/ CreateInterface \/ CreateAttemptFails \/ IPConfig
           \/ Attach \/ WriteConfig \/ SetMemory \/ SetMemoryFails \/ CallFails \/ Destroy
        /\ UNCHANGED calm

Next == \/ Start \/ Step
        \/ \E r \in Rivals : RivalMoves(r)
        \/ \E i \in Ifaces : SomebodyConfigures(i)
        \/ \E n \in Allowed : NetworkChanges(n)

Spec == Init /\ [][Next]_vars
-----------------------------------------------------------------------------
(* What goes right as long as nobody else changes the host while the VM is  *)
(* imported: nothing locks VirtualBox between a question and what is made of *)
(* its answer.                                                              *)

Twins(at) == {p \in Ifaces \X Ifaces : p[1] # p[2] /\ at[p[1]] = at[p[2]] /\ at[p[1]] \in Nets}

\* An import makes no second interface with the address of another, however
\* many VMs were imported and destroyed before and wherever they failed: two
\* interfaces with the subnet's address are two routes to it on the host, and
\* the picker passes over the subnet from then on (picker.go:80).
NoNewTwins == [][calm' /\ pc # "idle" => Twins(hostonly') \subseteq Twins(hostonly)]_vars

\* The VM that asked for no address is not attached to a network where another
\* VM or the host's own network is (picker.go:73 and :91).
OwnNetwork ==
  [][pc = "attach" /\ vm'.nic # vm.nic /\ vm'.auto /\ calm
       => /\ \A r \in Rivals : rivalNic[r] # vm'.nic
          /\ hostonly[vm'.nic] \in Allowed \ outside]_vars

\* vm_config, which every later command takes the VM's address from
\* (builder.go:150), names an address in the network of the interface the VM
\* hangs on.
ConfigInNetwork ==
  [][vm'.state = "imported" /\ vm.state = "created" /\ calm => hostonly[vm.nic] = vm'.ip.net]_vars

\* "all allowed network interfaces are currently taken" is said only when each
\* allowed subnet is the host's own, has an interface some other VM is on, or
\* has several interfaces: what destroyed VMs and failed imports have left
\* behind takes nothing.
RefusedWhenTaken ==
  [][pc = "probe" /\ nets = {} /\ calm
       => \A n \in Allowed : \/ n \in outside
                             \/ \E r \in Rivals : rivalNic[r] # 0 /\ hostonly[rivalNic[r]] = n
                             \/ \E p \in Twins(hostonly) : hostonly[p[1]] = n]_vars

\* A VM of the released OVA that has its memory has at least what the services
\* need that `start` will write into it: hasSCS (a search in the text of -s)
\* and Stopped.Start (its words) agree, and no -m, however large or negative,
\* gets around the minimum.
MemorySuits ==
  vm.memory # 0 /\ ~vm.custom
    => vm.memory >= IF "spring_cloud" \in vm.services THEN SpringCloudMinMemory ELSE MinMemory
=============================================================================
