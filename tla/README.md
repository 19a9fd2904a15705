# PCF Dev CLI plugin: models, checks and proofs

`cf dev` is a plugin of the `cf` CLI. It downloads a virtual machine image, makes
a VirtualBox VM from it, boots it, provisions a small Cloud Foundry inside, and
stops, suspends, resumes and destroys it. There is no daemon: every command is a
process that looks at the world, acts on it through `VBoxManage` and SSH, and
exits. What one command leaves behind, the next one has to cope with, and nothing
locks anything. That is where this project looks.

## 1. The system

| Component | State it keeps | Operations | Talks to |
|---|---|---|---|
| Commands, `src/plugin` | none; one process per command | `start`, `stop`, `suspend`, `resume`, `status`, `destroy`, `download`, `import`, `trust`, `untrust`, `target`, `ssh`, `debug`, `version` | vm builder, VBox, downloader |
| VM objects, `src/vm` | the type of the object is what the builder saw: NotCreated, Stopped, Running, Unprovisioned, Paused, Saved, Invalid | `VerifyStartOpts`, `Start`, `Provision`, `Stop`, `Suspend`, `Resume` on each | VBox, SSH, guest API, the builder again |
| VBox, `src/vbox` | `VMDir`: `key.pem`, `vm_config`, the disks | `ImportVM`, `StartVM`, `StopVM`, `SuspendVM`, `ResumeVM`, `DestroyPCFDevVMs`, `GetVMName`, `VMConfig`, `VMStatus` | driver, fs, SSH, picker |
| Driver, `src/vboxdriver` | VirtualBox's own: VMs, power, NICs, port forwardings | one `VBoxManage` call each, polling in `StopVM` and `SuspendVM` | `VBoxManage` |
| Guest | `authorized_keys`, `provision-options.json`, network files, `/run/pcfdev-healthcheck`, secrets | runs what it is sent over SSH; answers its HTTP API | - |
| Downloader and Pivotal Network, `src/downloader`, `src/pivnet` | `<name>.ova`, `<name>.ova.partial`, the token file | `Create`, `IsOVACurrent`, `Setup`, `Download`, token `Get`/`Save`/`Destroy`, the EULA | HTTPS server, fs |
| SSH, `src/ssh`; API client, `src/vm/client` | goroutines and channels of one call | `waitForSSH`, `WithSSHTunnel`, sessions, `Status`, `ReplaceSecrets` | guest |
| Network picker, `src/address`, `src/network` | host-only interfaces | `SelectAvailableInterface` | driver, net |
| Terminal, `src/ui` | text, index and size of the EULA's scroller | scrolling, resizing, confirming | termui |
| Certificates, `src/cert` | the CA bundle of the host | `Store`, `Unstore` | fs, OS tools |
| Helpers: `src/fs`, `src/config`, `src/system`, `src/helpers`, `src/runner`, `src/user`, `src/debug` | none | file calls, option defaults, retries, command runner, log archive | OS |

Hard behaviours, and where they bite (the full list, with lines, is under
`hazards` in `PROJECT.json`):

* *A command dies between two calls.* An import is fourteen calls and a start ten
  more, two of them file writes that truncate first. The next command must find a
  world it understands.
* *Evidence that is not the thing itself.* A forwarded port stands for "imported",
  a `key.pem` for "the guest has this key", a partial file for "resume here", a
  health check file for "provisioned".
* *Two commands at once.* Two terminals, or a script that retries.
* *Somebody else acts.* The VM crashes or is paused in VirtualBox, the guest shuts
  down after `stop` has given up on it, the connection breaks, a token is revoked.
* *Goroutines.* Dialling several addresses at once; a tunnel with three goroutines
  and one shared error variable.
* *Ending at all.* Objects that ask the builder for another object; retries inside
  retries; copies that wait for each other.

What makes each component correct: at most one VM; no VM boots half imported; one
key for the guest and the file; addresses agree in three places; the services
chosen first stay; success means success (`start` provisioned, `destroy` nothing
left); the advice in an error message works; only the expected
image is installed and a user who retries gets it; a token from the environment
stays out of the file; a call to the guest returns, and what it returns is true.

## 2. Modules

    VBoxHost            the host: VirtualBox, guests' disks, VMDir
      PCFDevCLI         the commands, as processes over VBoxHost
        PCFDevProps       their properties, and the life cycle they implement
          MCPCFDev          values for TLC
          PCFDevCLI_proofs  theorems: one VM, one key, a clean destroy
            PCFDevLife_proofs     what boots is complete; the refinement
              PCFDevAnswers_proofs  what a success means; commands at the same time
          PCFDevRecovery    a user who follows the plugin's advice
            MCRecovery        values for TLC
    VMLifeCycle         what a user may rely on (the abstract specification)
    StartOptions        memory and services: pure functions
      HostNetwork         the first start's import on a host that others share
        MCHostNetwork       values for TLC
        HostNetwork_proofs  theorems
    TrustStore          trust, untrust, destroy and debug beside the VM
      TrustStore_proofs   theorems
    ImageStore          what a user may rely on about the image (abstract)
    OVADownload         download and import of the image
      OVADownload_proofs  theorems
    RemoteCall          what the caller of the guest's API may rely on (abstract)
    SSHDial             waitForSSH
      GuestAPI          WithSSHTunnel and the API client, on top of SSHDial
        GuestAPI_proofs   theorems about both
    Scroller            the EULA in a window
      MCScroller          values for TLC
      Scroller_proofs     theorems

### VBoxHost and PCFDevCLI

`VBoxHost` has one variable for each piece of persistent state (`power`, `nic`,
`done`, `image` of the VMs; `auth`, `options`, `guestIP`, `healthy` of the guests;
`keyFile`, `vmConfig`, `archive`, `vmDirs` on the host) and one operator for each
external call with the effect it has. `acpi` holds the guests that were asked to
shut down and have not yet. `Torn` is a file that was truncated and not yet filled:
by `FS.Write` on the host, or by the `sudo tee` of `stopped.go:146` in a guest that is
lost while it runs (`WriteCut`), so that the next start cannot read the JSON. `done[n]` is the set of `modifyvm` settings the import has made on VM n.

`PCFDevCLI` gives every process a program counter `pc` that names the *call it
makes next*, and what it has in memory: the command line `req`, the VM's `name`,
the object `obj` the builder made, the address `cfg`, the `key`, the services
`want`, what to do `after` the builder is done, and the lists of `destroy`. A step
is one external call with the code up to the next one. So another process, a guest
or VirtualBox may act between any two calls, and a process may be killed there.

| Code | Actions |
|---|---|
| `StartCmd.Run` 68-104, `VBox.GetVMName` | `GetVMName` (`NameRefused`, `NameFor`) |
| `VBoxBuilder.VM` | `VMStatus`, `VMConfig`, `CheckDir`, `QueryGuest`; `VMConfigFails`, `QueryFails` |
| `Run` of the commands and the method they call | `StatusCmd`, `StopCmd`, `SuspendCmd`, `ResumeCmd`, `StartCmd`, `Download`, `Launch`, `Provision` |
| `VBox.ImportVM` | `CreateVMStep` ... `SetMemory`, in the order of the code |
| `VBox.StartVM`, `insertSecureKeypair`, `configureNetwork` | `Boot`, `InsertKey`, `Authorize`, `OpenKey`, `FillKey`, `Configure`, `PowerButton`, `AwaitOff`, `Reboot` |
| `Stopped.Start` 93-165 | `ReadOptions`, `WriteOptionsStep`, then the builder and `Provision` |
| `Running.Provision`, `Unprovisioned.Provision` | `ClearHealth`, `ProvisionVM` |
| `Suspend` and `Resume` | `Suspend`, `AwaitSaved`, `Unpause`, `Restore`, `WaitSSH` |
| `DestroyCmd.Run`, `VBox.DestroyPCFDevVMs` | `Untrust`, `ListVMs`, `Destroy`, `PowerOffOnly`, `DestroyFailsFor`, `DestroyedAll`, `VerifyDestroyed`, `RemoveDir`, and their failures |
| an error of any other call | `Refuse` (it cannot succeed now), `TimesOut` (a poll runs out), `CallFails` (any reason) |

`Ready` says what a call needs from the world. A call that is not ready returns its
error: this is not a fault but what the code does.

`PCFDevRecovery` adds a user who wants PCF Dev up: `start`, and once it reports success
`status`, again and again. He does what the messages say and nothing more (`Advice`):
`destroy` after the message of an `Invalid` VM or of a VM of an older release, the constant
`Remedy` after that of an `Unprovisioned` one, which offers `destroy` and `stop`. Any other
error, and a command that was killed, makes him enter `start` again. `Faulty` counts
faults; a poll that runs out on a guest that was shutting down is one of them.

### OVADownload

The image is `Size` chunks and a file is the sequence of chunks in it; 0 is a chunk
that was damaged. Each process is a record: the call it makes next, the token in
memory, which of the two downloaders `DownloaderFactory.Create` made, whether it is
in its second download, the attempts left, and the next chunk. `file[p]` is the
name that the file p holds open goes by: a rename or a removal by another process
changes it, the descriptor stays good. `Length`, `RequestOVA`, `OpenToken`,
`FillToken`, `Open`, `Write` are the body that `ExecuteWithAttempts` repeats, and
`NothingToSend` is the answer 416 to a range behind the end. `Token.Destroy` may fail and
nobody looks (`pivnet/client.go:59`, `:68`, `:78`): a refused token then stays in the file.

### SSHDial and GuestAPI

`SSHDial` is `waitForSSH` with one goroutine per address: `select`, dial, two sends;
the caller's two receives and the close of `doneChan`; and what `newSession` or
`WaitForSSH` do with the client. `GuestAPI` continues where the caller has a
client: the listener, the accepting goroutine, the goroutine of the connection, the
one that copies the answer back, the HTTP client, and the guest, whose health and
API change meanwhile. The guest's answer may be 200 with a body that is no JSON ("garbled"),
which `Status` returns as an error. `tunnelError` is the variable three goroutines share. The
race on it in Go is represented by every interleaving of the writes and the read.

### The abstract specifications: VMLifeCycle, RemoteCall, ImageStore

The first abstract specification has three variables: the `state` of each VM (none,
importing, stopped, running, paused, suspended), its `services` and which VMs are
`provisioned`. `PCFDevProps` maps the concrete variables to them: `LifeState` is
computed from `power` and from whether the SSH port is forwarded (the mark the
builder goes by), `services` is what the guest's file holds, `provisioned` is the
health check. What the abstract steps forbid is what a user would notice: a second
VM, a boot in the middle of an import, a VM that boots and still counts as
provisioned, a suspended VM that was not provisioned, services chosen twice.

`RemoteCall` is what remains of a request to the guest when connections, goroutines and
channels are left out: the guest serves it once or not at all, and the call returns what that
came to. `GuestAPI` implements it with its variables of the same names. It forbids what a
caller could not see: that the guest acts twice, or after the call has returned, or that a
call reports an error of the connection although the guest has acted, so that
repeating it would not be safe.

`ImageStore` is what remains of downloads and imports: an image that is missing, broken
or as expected (`ImageState`), and the commands that run. A download replaces the image
in one step; an import may leave a broken one, but only where none was good.

### StartOptions and HostNetwork

`StartOptions` translates `config.go` and `not_created.go`: the default and the
minimum of the memory, the conversion of `-m` from `int` to `uint64` and back, and
what the words of `-s` become. `HostNetwork` is the import of the first start, with
`SelectAvailableInterface` taken apart at each call: the interfaces `VBoxManage` lists
(`GetHostOnlyInterfaces`, kept in `listed`), those `net.Interfaces` knows a moment later
(`Select`), then the allowed networks in their order (`PickNew`, `Probe`,
`PassTwins`, `AllTaken`), then configuring or creating the interface with up to
three attempts, attaching, `vm_config`, memory. A network is named for its subnet
and has a position in `AllowedNets`; `nets` is the set of positions still to look at.
Interfaces stay when the VM goes. Other VMs move between interfaces (`RivalMoves`),
somebody makes or changes an interface (`SomebodyConfigures`), the host joins and
leaves networks (`NetworkChanges`). `calm` is a history variable: none of these has
happened since the command started. In `PCFDevCLI` the picker is the free choice of
`SelectNetwork`, of which every outcome of `HostNetwork` is one.

### TrustStore

The trust store of each platform as its code uses it: on Linux a bundle certificates
are appended to and the tools of the distribution make anew; on macOS a keychain of
PCF Dev's own beside the trust settings; on Windows the store, from which `certutil`
deletes by domain. `trust` and `start -k` store, `untrust` and `destroy` take away,
`debug` writes logs and packs them. `certutil` runs once for each domain, in the random
order of a Go map, and a kill may come between two of them (`DelStore`, `DelStoreDone`).
`missed` holds the certificates `security remove-trusted-cert` was given, in one file with
others, and has left trusted: what it does with such a file the repository does not say.
A write to the bundle may be cut short with an error, without one (the deferred `Close` in
`fs.go:43`), or with the process (`TearBundle`). `failed` is an error that is returned, `ignored`
one that nobody sees; `dir` is the temporary directory, removed by a deferred call on
every path that returns. `security`, `certutil` and the distribution's tools are not
in the repository: what they do is taken from how the code calls them.

### Scroller

`UI.ConfirmText` with a goroutine for each event, as termui makes them: each handler
takes two steps, one on the scroller and one that renders it. An item is a line of
the text and the position of its first character. A step of zero in `setText` would
append until memory is used up, so its status is "hung"; a negative one slices out of
range and is "crashed".

## 3. Runs

| Run | Question | Bounds and why they are enough |
|---|---|---|
| `sequential` | Does the world stay consistent when commands follow one another and any call fails or any process is killed? `AtMostOneVM`, `BootsConfigured`, `AddressesAgree`, `KeysAgree`, `ServicesKept`, `DestroyLeavesNothing`, `StartProvisions`; and the refinement `ImplementsLifeCycle` | no bound on the number of commands or faults; two keys, two addresses, two service lists: the least with which "the wrong one" exists; one old VM |
| `outside` | Does every command end, also when VMs crash and are paused from outside? `CommandsEnd` | one address, one list, no `-o` and `-s`: the property does not tell them apart |
| `concurrent` | Two commands interleaved at every call: `BootsConfigured`, `KeysAgree` | two processes, no `destroy` and no `-o`; three keys: one in the guest and one in the hands of each process |
| `recovery` | Does following the advice, choosing `destroy` for an unprovisioned VM, end with `status` finding PCF Dev up from then on? `AdviceRecovers` | six faults anywhere: failing calls, killed processes, VMs lost or paused from outside, shutdowns later than the minute; one address and one list of services, which the advice does not speak of |
| `network` | Is the picker right on a host others share, and does the VM get the memory its services need? `NoNewTwins`, `OwnNetwork`, `ConfigInNetwork`, `RefusedWhenTaken`, `MemorySuits` | two allowed networks and one other, two interfaces, one other VM: enough for one network to be passed over, for a twin, and for an interface to be missing; seven sets of options that cover `-i`, `-d`, both, `-m` of 3071, 3072 and -1, `-o`, and words of `-s` in an unusual order; two sizes of the host, on both sides of the default's bounds. A word has 2^24 values instead of 2^64: what matters is that a negative number comes out above every amount of memory |
| `trust` | What is trusted after which success, and what stays behind? `UntrustRemoves`, `TrustTakes`, `TempsGo`, `ArchiveIsWhole` | each platform; two VMs with PCF Dev's domain, one with another; two logs; no bound on commands, failures and kills |
| `tunnel` | Dialling and one request through the tunnel, with a connection that breaks anywhere: `FineInTime`, `DialersEnd`, `TunnelErrorIsTrue`, `ResultIsTrue`, `CallReturnsUnlessCutOff`; and the refinement `ImplementsCall` | two addresses, as `vbox.go` passes; answers in two pieces, so that one can be cut in the middle |
| `download` | Retried downloads and imports, all faults: `InstalledIsExpected`, `ResumesAtTheEnd`, `EnvTokenStaysOut`, `InstallsUnlessStuck` (the image is installed, or from some time on the partial file stays complete, as in `wedged`, or `PIVNET_TOKEN` is refused); and the refinement `ImplementsStore` | three chunks: first, middle, last; two attempts; two tokens; four faults, one more than one command's attempts |
| `two_downloads` | Two processes on the same files still end: `CommandsEnd` | one chunk, one fault; the attempts of two downloads are used up |
| `terminal` | Does the window survive whatever is pressed and resized, and is the answer the user's? `InBounds`, `AnswerWasGiven`, `WholeText` | two handlers at a time; three lines, one empty and one longer than most windows; heights with room for less than none, none, one and three lines, widths on both sides of the smallest usable one |
| `memory`, `wedged` | what the help or a test says and the code does not do, see below | the smallest instance that shows it |

In `sequential` and `concurrent` keys and addresses are model values under symmetry:
the model only compares them, and the properties of these runs are invariants and
action properties, for which the reduction is sound.

The type invariants of the life cycle, `OVADownload` and `GuestAPI` are checked in the
first run of the module; those of all modules but `TrustStore`, and what corresponds to
it there, are proved (section 5). Deadlock is checked except where the model really stops:
the run of `PCFDevRecovery` is over when PCF Dev is up, that of `GuestAPI` when the
call has returned, that of `Scroller` when the user has answered.

Every property also has a mutant, a named variant in the module (comment
`Variant:`) that changes one definition the way a plausible bug would; TLC finds
the property violated with it. The variants are used by nothing else.

### Fairness

* `WF(Step(p))`: the operating system runs a process, and each call it makes
  returns, because polls and SSH connections have time limits, or because the server answers
  or hangs up (section 6). A process that is killed or
  whose call fails takes a `Fault`, on which there is no fairness.
* Guests are not fair in `FairSpec`: a guest that ignores the power button makes
  `stop` time out (`TimesOut`), so `CommandsEnd` does not rest on it. In
  `RecoverySpec` the guest shuts down when asked (otherwise it is one of the counted
  faults), and the user does not give up.
* `RetrySpec` adds that the user enters the command again.
* `DialFairness`: goroutines run, dials return (10 s for the connection; that the handshake ends is assumed), timers fire. `up` is not
  fair: sshd may never come. In `GuestAPI` also the guest answers a request that
  reached it, while its connection is up.

## 4. Disagreements found

Two runs end in a violation of what the repository says:

1. **`wedged`** - after one damaged chunk the complete partial file stays behind,
   every later download asks for the bytes after its end and fails, and nothing
   removes it (`full_downloader.go:29`, `partial_downloader.go:25`). A test promises
   that a wrong MD5 makes it start over (`partial_downloader_test.go:101`).
2. **`memory`** - the forwarded port is set before CPUs and memory and is what the
   builder takes for "imported", so one failure there gives a VM without the memory
   it was to have, for good (`vbox.go:368`, help in `plugin.go:118`).

Others show when a passing run is changed as said:

* `recovery` with `Remedy = "stop"`: the message of an Unprovisioned VM offers `stop`
  and `start`; after a lost write of `key.pem`, or a `provision-options.json` that was cut
  short, this never leads out, only `destroy` does (`unprovisioned.go:134`).
* `tunnel` without the time limit in `FineInTime`: `waitForSSH` may pair the client of
  one dialer with the error of another, and return no client and no error; the caller
  then panics (`ssh.go:253`).
* `tunnel` with the property `CallReturns`: when the VM goes down after it got a
  request, the copying goroutine stops without closing the local connection and the
  HTTP client waits without a timeout (`ssh.go:182`, `main.go:105`).
* `trust` without the exception for Windows in `UntrustRemoves`: the CA of a VM with a
  domain of its own stays, although `running.go:141` says "To remove this certificate,
  run: cf dev untrust" (`concrete_system_store_windows.go:11`).
* `trust` without the exception for a torn bundle in `TrustTakes`: an append to the Linux
  bundle that ended early spoils the next one too, and that `trust` reports success. The
  next `untrust` repairs the bundle.
* `trust`: an `untrust` on macOS that is killed after `remove-trusted-cert` leaves a
  keychain whose certificates are no longer trusted. `RemoveTrusted` then never
  succeeds, and so no later `untrust` does.
* `terminal` in windows with no room (`TooSmall`): the loop of `setText` does not end,
  or a slice is out of range (`scroller.go:46`, `:69`).
* `sequential` with two processes: two `start`s at once, one of them with `-o`, make two
  VMs (`AtMostOneVM` is a property of one command at a time).
* A shutdown that takes longer than the minute for which `stop` waits happens after the
  command has failed. The next `start` may find the VM running and report that, and it
  goes down; in `recovery` this is one of the faults, and `status` is what notices.
* A `start` whose VM goes down or is paused just before `Provision` reports success; two
  downloads at once can install an image neither has checked, which the next command
  notices.

## 5. Proofs

Every invariant and every action property of the passing runs is also a theorem, and so
are the three refinements. TLC has checked each inductive invariant on the runs' instances before
its proof.

### The life cycle

`PCFDevCLI_proofs` holds for every set of names, keys, addresses, service lists,
requests and faults. The named assumptions on the constants (names are distinct, a
key is not a marker value) are those TLC evaluates in every run.

* **TypeCorrect**: `Spec => []TypeOK`, for any number of processes. `TypeOK` alone
  is not inductive: a process about to authorize a key must have one (`KeyInHand`).
* **OneVM**, **KeysStayTogether**, **DestroyCleans**: `AtMostOneVM`, `KeysAgree` and
  `DestroyLeavesNothing`, assuming `OneProcess`, that at most one process exists.
  They do not hold without it (see above), and this is the assumption a user makes
  who waits for one command before entering the next.

The invariant is `AloneInv`, the conjunction of

* `TypeInv`, as above;
* `OneVMInv`: there is at most one VM, and a process between its look at the VMs and
  `CreateVM` still holds a name for which this stays true;
* `KeyInv`: while a process is between drawing a key and filling the file, the file
  is empty or torn; so a complete file is that of every guest whose key was
  replaced;
* `DestroyInv`: a `destroy` that has verified without an error found no VM.

Most calls touch none of what these conjuncts speak of. The lemmas named `Quiet...`
show this once per group of actions, and `NextAlone` has a step per remaining group:
the look and the creation, the four steps of the key, `destroy`, and returning. The
action property of `DestroyCleans` follows from `DestroyInv` and the effect of
`RemoveDir`, the only step with which a `destroy` can report success.

`PCFDevLife_proofs` goes on from there, with `OneProcess`: **BootsOnlyWhatIsComplete**
(`BootsConfigured`), **OneAddress** (`AddressesAgree`), **ServicesStay** (`ServicesKept`)
and **CommandsImplementLifeCycle** (`ImplementsLifeCycle`). They hold for every set of
`Faults`, also when VMs are lost and paused from outside. `LifeInv` adds to `AloneInv`

* `HostSane`, of the host alone: a forwarded port means a complete VM (`Complete`: disk,
  DNS proxy, card, image, and the card's address in `vm_config` if there is one), a VM
  that is powered on has one, and a provisioned VM is powered on;
* `ImportInv`: at each call of the import everything the earlier ones do is done, and the
  port is not forwarded. It is the order of `ImportVM` that makes the port stand for the
  rest;
* `ObjectInv`: an object of a VM whose configuration was read is of a complete VM with
  that address; one about to save the state has seen the VM provisioned; the options
  about to be written are those in the guest, if there are any.

The proof goes through an intermediate step: `VMStep` and `HostStep` say what a step may
do to the host *when the invariant holds* (an address is only attached where no port is
forwarded, a VM is only started with one, ...). `NextHost` shows that every step of the
commands, guests and VirtualBox is a `HostStep`; that such a step keeps `HostSane` and is
a step of `VMLifeCycle` or stutters is then shown without looking at processes
(`HostStepSane`, `HostStepLives`). `NextKeeps` is the rest: what commands know stays true.

`ServicesStay` excepts a VM that is lost in the step in question: `WriteCut` may lose the
file with it.

`PCFDevAnswers_proofs` is about reported success. **StartKeepsItsWord** (`StartProvisions`)
assumes `OneProcess` and `Untouched`, that no VM is lost or paused from outside; without
either it fails. `ProvisionInv` says that a start that has rebooted its VM finds it running,
and with no shutdown pending: `NoLateShutdown`, that a VM which is off has forgotten the
power button, is what makes the restart inside `VBox.StartVM` safe.

### Commands at the same time

Nothing in the code keeps two commands apart, so `OneProcess` is something the user
does. `PCFDevAnswers_proofs` also says what is left without it. All three theorems hold
for any number of processes, any faults and killed commands, and assume `NoDestroy`, that
no command entered is a `destroy`:

* **BootsCompleteInARace** (`BootsConfigured`). Without `destroy` the host only gains: VMs,
  disks, cards, settings (`GrowStep`, `GrowKeeps`). So what the builder or an earlier call
  of an import has seen stays true whatever the others do (`ClaimOf`, `ClaimPersists`), and
  two imports into one VM, each from where it found things, cannot undo each other.
  That is `GrowInv`. Custom images are allowed.
* **OneVMInARace** (`AtMostOneVM`) and **KeysAgreeInARace** (`KeysAgree`), which also assume
  `NoCustom`, that no `start` is given `-o`. Every command then means the same VM. Several
  starts may find no `key.pem` and draw a key, but the guest accepts the insecure key
  only once: `HoldsKey` in `SharedInv` says that whoever gets past that call, and so
  writes the file, has the guest's key. With a VM of an older release (`Older`) all
  commands refuse.

The assumptions are needed. TLC finds `BootsConfigured` and `KeysAgree` violated when a
second terminal enters `destroy`, and `KeysAgree` with a `start` and a `start -o`.

### The host's network

`HostNetwork_proofs` holds for any list of allowed networks, any interfaces, other VMs,
options and sizes of the host.

* **TypeCorrect**: `TypeInv` is `TypeOK` with `Accepted` (a command that runs has options
  that were not refused) and `Chosen` (a process that holds an interface or a network
  holds one that exists). Without these the steps that use them have no type.
* **MemoryCorrect**: `MemoryInv` says of a running command that its `memory` is what its
  own options ask for and that the VM's services are those of the same options. The
  proof then is that `MemoryFor` is at least the minimum for the services, for every
  integer `-m` and every set of words.
* **TwinsCorrect**, **OwnNetworkCorrect**, **ConfigCorrect**, **RefusalCorrect** rest on
  `NetInv`, which holds of a command in `calm`: what `VBoxManage` listed is still what there
  is (`ListInv`), a network it has passed over is taken
  (`ProbeInv`), an interface it has chosen has the address already, or nobody has
  (`PlaceInv`), a network it chose by itself is neither the
  host's nor another VM's (`OwnInv`), and another VM is on an interface that exists
  (`RivalInv`). `calm` is the assumption, part of the properties: nothing locks
  VirtualBox, and without it all four fail.

### The trust store

`TrustStore_proofs` holds for any certificates and any number of logs. **UntrustCorrect**
(`UntrustRemoves`) says of an `untrust` that reports success that the CAs still trusted are
at most those `security` was told to remove and left (`missed`) and, on Windows, those of
other domains; a success in which a failed command was ignored is excepted.
**TrustCorrect** (`TrustTakes`) excepts a bundle that ends within a certificate.
**TempsAreRemoved** and **ArchiveCorrect** are `TempsGo` and `ArchiveIsWhole`. The invariant
says what each call may rely on: what is trusted on macOS is in the keychain, the system's,
or in `missed` (`StoreInv`), which is why the keychain has to go last; the domains for which
`certutil` has run without an ignored failure have no CA left; a directory that is there
belongs to a call whose way out removes it (`DirInv`); the archive is opened with all
logs fetched (`ArchiveInv`).

### The scroller

`Scroller_proofs` holds for every text, window and number of handlers: **StaysInBounds**
(`BoundsInv`: while the window has room for the list, `index` is between 0 and the last
position that fills it; a resize, which moves that position, resets `index` in the same
hold of the lock, so that one between a scroll and its render does no harm),
**AnswerCorrect** (`AnswerInv` ties the handlers at work to the keys that were pressed) and
**WholeTextCorrect** (`WholeText`). `WrapInv` says that what is shown is the text wrapped at
the present width; that every character is then in one item is arithmetic: each
position is in exactly one of the pieces that start at multiples of the width
(`Division`, `PieceFound`, `PieceUnique`).

### The download

`OVADownload_proofs` holds for an image of any size, any tokens, attempts and faults.
**TypeCorrect** (`TypeOK`) is for any number of processes and needs `OpenFiles`: a file that
a process holds open under a name is there, because a rename or a removal by another
process takes the name away. **ResumesCorrect** (`ResumesAtTheEnd`), **InstalledCorrect**
(`InstalledIsExpected`) and **EnvTokenCorrect** (`EnvTokenStaysOut`) assume `OneProcess`; two
downloads at once may break the first two (section 4), and another session may of course
save a token of its own. `DiskInv` says what one process relies on at each of its calls:

* `RangeFits`: from the length that was read to the last chunk that is written, the
  partial file ends where the range that was asked for starts;
* `Checked`: what is about to be renamed has the expected MD5, now and not only when
  it was computed;
* `Copying`: a copy in progress is the beginning of the image;
* `SavesOwnToken`: a process with `PIVNET_TOKEN` never comes to `Token.Save`.

The partial file a process finds may be anything: no conjunct says that its content is
right, only the MD5 does. **StoreImplemented** (`ImplementsStore`) follows from the same
invariant, where `ImportPath` says that an import opens the image only if it is not the
expected one: every step ends a command (`StoreEnds`), writes a copy (`StoreCopies`) or is
none of the store's (`StoreStays`).

### The connection to the guest

`GuestAPI_proofs` holds for any number of addresses to dial and of pieces of an answer, with
no assumption beyond those of the modules: **TypeCorrect** (`TypeOK`), **CallerFineInTime**
(`FineInTime`), **TunnelErrorTrue** (`TunnelErrorIsTrue`) and
**ResultTrue** (`ResultIsTrue`). The invariant has a part for each half.

* `InTime`, while the time limit has not passed: a dialer reports only after it has
  connected, every client that is sent or waits in `clientChan` is open, and
  `errorChan` has no error in it. So it does not matter that the two channels may be of
  two dialers.
* `TunnelInv`: how far the goroutines are (`NotYet`, `Connection`), and whose the error in
  the shared variable is. `SharedError` is the heart: until `WithSSHTunnel` has read
  `tunnelError`, it is set only if the guest refused, because the accepting goroutine's
  error comes after the listener is closed, which is after the read; and a handler
  that was refused has set it before it hangs up. `HasAnswer` and `AnswerIsTrue` carry
  the guest's answer to the result.

**CallImplemented** (`ImplementsCall`) is the refinement. It needs `Delivered`: a request that
has reached the guest has a connection that nobody closes, so an HTTP client that was
hung up on has asked nothing. The same fact makes the call wait for ever when its
answer is cut off (section 4): the code avoids a misleading error by not returning. To
close the local connection when the copying goroutine ends, as one might want to, would break
`ImplementsCall` (the variant `CopierHangsUp`).

### Only model-checked

Liveness is out of the prover's reach: `CommandsEnd` (in `outside` and `two_downloads`),
`AdviceRecovers`, `InstallsUnlessStuck`, `DialersEnd` and `CallReturnsUnlessCutOff`. The two
violations of section 4 are counterexamples of TLC's.

## 6. Not modelled, and what the models leave out

* In the life cycle: the parsing of `VBoxManage` output, proxies, registries,
  the master password, CPUs by number; `ssh`, `target` and `version`, which change
  nothing that later commands read. The download is one call (it has a module of its
  own).
* Key pairs that a live guest or process already has are not drawn again: a
  collision of RSA keys.
* In `HostNetwork` a user who is asked because memory is short and declines takes no
  step: nothing has happened yet. `HasIPCollision` only prints a warning.
* `import`'s check of the file it is given is a precondition of `OVADownload`, and the
  progress display is left out. The server redirects a download, as Pivotal Network
  does; one that answered 200 itself would send the whole image, to be appended.
* In `SSHDial` the timers of all goroutines expire together; they are set within
  microseconds of each other, and what they do afterwards is interleaved freely.
* The terminal of an SSH session and its resizers: a resize is sent in a goroutine of its
  own and two may arrive in the wrong order, but the guest's shell is all that sees it.
* Time limits the code does not set. pivnet's `http.Client` has none (`pivnet/client.go:239`),
  and `Timeout` of `ssh.ClientConfig` bounds the TCP connection but not the handshake after
  it (`ssh.go:221`). That such a call returns is an assumption on the other side.
* In `Scroller` the two fields of `OptionsList` that the resize handler sets without a lock
  (`ui.go:103-104`): they place the list of options below the text, and no property speaks
  of it.
* What `security` does with a file of several certificates is left open (`missed`).
* In the logs the scrubber's regular expressions; drawing, which is termui's; the calls of
  `src/system`, `src/runner` and `src/user`, which wrap one call of the operating system
  each.

## 7. Plan

Done, most important first: the life cycle with recovery and its first theorems, the
download, the connection to the guest; then the abstract life cycle and the refinement,
the picker with the options, the certificate stores and logs, the scroller; then theorems
about every safety property of the runs, and about commands at the same time. What is
left:

1. `HostNetwork` as an implementation of the free choice that `SelectNetwork` of
   `PCFDevCLI` makes.
2. What two downloads at once still promise, and what a `destroy` beside other commands
   does.
3. An abstract specification of what is trusted, for `TrustStore`.
