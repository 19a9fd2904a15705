----------------------------- MODULE TrustStore -----------------------------
(***************************************************************************)
(* What PCF Dev leaves on the host beside its VM: its certificate authority  *)
(* in the trust store of the operating system, temporary directories, and    *)
(* the archive of debug logs.  `trust` (and `start -k`) stores the CA of the *)
(* running VM, `untrust` and `destroy` take every CA out again, each in the   *)
(* way of the platform; `debug` collects logs.  One command at a time, each   *)
(* call of which may fail, and which may be killed.                          *)
(***************************************************************************)
EXTENDS Naturals

CONSTANTS Certs,    \* CAs of the VMs there will be
          Custom,   \* those of VMs with a domain that is not one of PCF Dev's
          NumLogs   \* logs that debug fetches

System == "system"  \* the certificates that come with the operating system
NoCert == "none"

ASSUME CertsAssumption == Custom \subseteq Certs /\ {System, NoCert} \cap Certs = {}
ASSUME LogsAssumption == NumLogs \in Nat \ {0}

VARIABLES
  platform,     \* linux, darwin or windows
  vm,           \* CA of the VM that is running
  trusted,      \* what the trust store of the platform trusts
  torn,         \* the bundle (Linux) ends within a certificate
  hasKeychain,  \* pcfdev.keychain is there (macOS)
  keychain,     \* certificates in it
  missed,       \* CAs `security` was told to trust no more, and has left as they were
  archive,      \* pcfdev-debug.tgz
  cmd,          \* the command that runs or ran last
  pc,           \* its next call
  dir,          \* its temporary directory is there
  got,          \* certificates it has read, exported or had deleted
  logs,         \* logs it has written
  failed,       \* a call has returned an error that counts
  ignored,      \* a call has failed and nobody will know
  result        \* how it ended

storeVars == <<trusted, torn, hasKeychain, keychain, missed>>
worldVars == <<vm, storeVars, archive>>
cmdVars   == <<cmd, dir, got, logs, failed, ignored>>
vars      == <<platform, worldVars, cmdVars, pc, result>>

FirstCall == [trust |-> "readCA", untrust |-> "unstore", destroy |-> "unstore", debug |-> "readKey"]

Init ==
  /\ platform \in {"linux", "darwin", "windows"}
  /\ vm = NoCert /\ trusted = {System} /\ torn = FALSE
  /\ hasKeychain = FALSE /\ keychain = {} /\ missed = {} /\ archive = "none"
  /\ cmd = "untrust" /\ pc = "idle" /\ dir = FALSE /\ got = {} /\ logs = 0
  /\ failed = FALSE /\ ignored = FALSE /\ result = "none"

\* `start` makes a VM, whose CA is new.
Boot == /\ pc = "idle" /\ vm = NoCert
        /\ \E c \in Certs \ (trusted \cup keychain) : vm' = c
        /\ UNCHANGED <<platform, storeVars, archive, cmdVars, pc, result>>

\* trust and debug only say so when no VM is running.
Invoke(c) ==
  /\ pc = "idle"
  /\ c \in {"trust", "debug"} => vm # NoCert
  /\ cmd' = c /\ pc' = FirstCall[c] /\ result' = "none"
  /\ dir' = FALSE /\ got' = {} /\ logs' = 0 /\ failed' = FALSE /\ ignored' = FALSE
  /\ UNCHANGED <<platform, worldVars>>

End(r) == pc' = "idle" /\ result' = r

\* After Unstore, destroy goes on whatever came of it.
AfterStore(err) ==
  IF cmd = "destroy" THEN pc' = "destroyVMs" /\ UNCHANGED result
  ELSE End(IF err THEN "error" ELSE "ok")

Goes(here, next) == pc = here /\ pc' = next /\ UNCHANGED <<platform, vm, archive, cmd, result>>

-----------------------------------------------------------------------------
(* CertStore.Store. *)

ReadCA == /\ Goes("readCA", "storeDir")
          /\ got' = {vm}
          /\ UNCHANGED <<storeVars, dir, logs, failed, ignored>>

NextAfterDir == [storeDir |-> "writeCert", exportDir |-> "export", logDir |-> "fetch"]

TempDir == /\ pc \in DOMAIN NextAfterDir /\ pc' = NextAfterDir[pc]
           /\ dir' = TRUE
           /\ UNCHANGED <<platform, worldVars, cmd, got, logs, failed, ignored, result>>

WriteCert == Goes("writeCert", "store") /\ UNCHANGED <<storeVars, dir, got, logs, failed, ignored>>

\* Variant: the bundle is written anew.
Overwritten == got

\* What the bundle holds after a write to its end: a certificate that is
\* written behind part of another one is lost in it.
Appended == IF torn THEN trusted ELSE trusted \cup got

AppendToBundle == /\ platform = "linux"
                  /\ Goes("store", "removeDir")
                  /\ trusted' = Appended
                  /\ UNCHANGED <<torn, hasKeychain, keychain, missed, dir, got, logs, failed, ignored>>

\* The write ends early, and the command with it or not; or the deferred Close
\* fails, and FS.Write reports success.
TearBundle == /\ platform = "linux" /\ pc = "store"
              /\ torn' = TRUE
              /\ \/ pc' = "removeDir" /\ failed' = TRUE /\ UNCHANGED <<ignored, result>>
                 \/ pc' = "removeDir" /\ ignored' = TRUE /\ UNCHANGED <<failed, result>>
                 \/ End("killed") /\ UNCHANGED <<failed, ignored>>
              /\ UNCHANGED <<platform, vm, archive, cmd, trusted, hasKeychain, keychain, missed, dir, got, logs>>

AddStore == /\ platform = "windows"
            /\ Goes("store", "removeDir")
            /\ trusted' = trusted \cup got
            /\ UNCHANGED <<torn, hasKeychain, keychain, missed, dir, got, logs, failed, ignored>>

\* The error, which is the rule when the keychain is there, is ignored.
CreateKeychain == /\ platform = "darwin"
                  /\ Goes("store", "loadKeychain")
                  /\ hasKeychain' \in {hasKeychain, TRUE}
                  /\ UNCHANGED <<trusted, torn, keychain, missed, dir, got, logs, failed, ignored>>

LoadKeychain == Goes("loadKeychain", "addTrusted") /\ UNCHANGED <<storeVars, dir, got, logs, failed, ignored>>

AddTrusted == /\ Goes("addTrusted", "removeDir")
              /\ hasKeychain
              /\ keychain' = keychain \cup got /\ trusted' = trusted \cup got
              /\ missed' = missed \ got
              /\ UNCHANGED <<torn, hasKeychain, dir, got, logs, failed, ignored>>

\* The user refuses to trust what is in the keychain already.
TrustDeclined == /\ Goes("addTrusted", "removeDir")
                 /\ hasKeychain
                 /\ keychain' = keychain \cup got /\ failed' = TRUE
                 /\ UNCHANGED <<trusted, torn, hasKeychain, missed, dir, got, logs, ignored>>

\* The deferred removal of the temporary directory, after Store and Delete.
RemoveDir == /\ pc = "removeDir"
             /\ \/ dir' = FALSE /\ UNCHANGED ignored
                \/ ignored' = TRUE /\ UNCHANGED dir
             /\ AfterStore(failed)
             /\ UNCHANGED <<platform, worldVars, cmd, got, logs, failed>>

-----------------------------------------------------------------------------
(* CertStore.Unstore. *)

\* On Linux the tools of the distribution make the bundle anew, if they can.
Regenerate == /\ platform = "linux" /\ pc = "unstore"
              /\ \/ trusted' = {System} /\ torn' = FALSE /\ UNCHANGED ignored
                 \/ ignored' = TRUE /\ UNCHANGED <<trusted, torn>>
              /\ AfterStore(FALSE)
              /\ UNCHANGED <<platform, vm, archive, hasKeychain, keychain, missed, cmd, dir, got, logs, failed>>

Deletable == Certs \ Custom

\* On Windows certutil runs once for each domain PCF Dev has; whether it has
\* deleted the CA of that domain is not looked at.
DelStore == /\ platform = "windows" /\ pc = "unstore"
            /\ \E c \in Deletable \ got :
                 /\ got' = got \cup {c}
                 /\ \/ trusted' = trusted \ {c} /\ UNCHANGED ignored
                    \/ c \in trusted /\ ignored' = TRUE /\ UNCHANGED trusted
            /\ UNCHANGED <<platform, vm, archive, torn, hasKeychain, keychain, missed, cmd, pc, dir, logs, failed,
                           result>>

DelStoreDone == /\ platform = "windows" /\ pc = "unstore"
                /\ Deletable \subseteq got
                /\ AfterStore(FALSE)
                /\ UNCHANGED <<platform, worldVars, cmd, dir, got, logs, failed, ignored>>

KeychainExists == /\ platform = "darwin"
                  /\ Goes("unstore", "exportDir")
                  /\ hasKeychain
                  /\ UNCHANGED <<storeVars, dir, got, logs, failed, ignored>>

\* Any error of showkeychaininfo means that there is no keychain.
NoKeychain == /\ platform = "darwin" /\ pc = "unstore"
              /\ ignored' = hasKeychain
              /\ AfterStore(FALSE)
              /\ UNCHANGED <<platform, worldVars, cmd, dir, got, logs, failed>>

Export == /\ Goes("export", "removeTrusted")
          /\ got' = keychain
          /\ UNCHANGED <<storeVars, dir, logs, failed, ignored>>

\* Variant: the keychain is deleted as it is.
TrustKept == Goes("removeTrusted", "deleteKeychain") /\ UNCHANGED <<storeVars, dir, got, logs, failed, ignored>>

\* `security` removes no trust that is not there.  What it does with a file of
\* several certificates is up to it: here it removes the trust of some of them.
RemoveTrusted == /\ Goes("removeTrusted", "deleteKeychain")
                 /\ \E some \in SUBSET (got \cap trusted) :
                      /\ some # {}
                      /\ trusted' = trusted \ some
                      /\ missed' = (missed \ got) \cup ((got \cap trusted) \ some)
                 /\ UNCHANGED <<torn, hasKeychain, keychain, dir, got, logs, failed, ignored>>

DeleteKeychain == /\ Goes("deleteKeychain", "removeDir")
                  /\ hasKeychain' = FALSE /\ keychain' = {}
                  /\ UNCHANGED <<trusted, torn, missed, dir, got, logs, failed, ignored>>

-----------------------------------------------------------------------------
(* The rest of destroy, which PCFDevCLI has in detail, and debug. *)

DestroyVMs == /\ pc = "destroyVMs" /\ pc' = "removeVMDir"
              /\ \/ vm' = NoCert /\ UNCHANGED failed
                 \/ failed' = TRUE /\ UNCHANGED vm
              /\ UNCHANGED <<platform, storeVars, archive, cmd, dir, got, logs, ignored, result>>

RemoveVMDir == /\ pc = "removeVMDir"
               /\ \E err \in BOOLEAN : End(IF failed \/ err THEN "error" ELSE "ok")
               /\ UNCHANGED <<platform, worldVars, cmdVars>>

ReadKey == Goes("readKey", "logDir") /\ UNCHANGED <<storeVars, dir, got, logs, failed, ignored>>

\* One log of the guest or of VirtualBox, scrubbed and written.
Fetch == /\ pc = "fetch"
         /\ logs' = logs + 1
         /\ pc' = IF logs' = NumLogs THEN "compress" ELSE "fetch"
         /\ UNCHANGED <<platform, worldVars, cmd, dir, got, failed, ignored, result>>

\* Variant: the archive is opened with the first log.
OpensEarly == pc \in {"fetch", "compress"}

OpensArchive == pc = "compress"

CreateArchive == /\ OpensArchive
                 /\ pc' = "pack" /\ archive' = "partial"
                 /\ UNCHANGED <<platform, vm, storeVars, cmdVars, result>>

\* The deferred Close calls write the end of the archive; their errors are lost.
Pack == /\ pc = "pack" /\ End("ok")
        /\ \/ archive' = (IF logs = NumLogs THEN "whole" ELSE "short") /\ UNCHANGED ignored
           \/ ignored' = TRUE /\ UNCHANGED archive
        /\ UNCHANGED <<platform, vm, storeVars, cmd, dir, got, logs, failed>>

-----------------------------------------------------------------------------

Returning == {"readCA", "storeDir", "writeCert", "store", "loadKeychain", "addTrusted", "exportDir",
              "export", "removeTrusted", "deleteKeychain", "readKey", "logDir", "fetch", "compress", "pack"}

\* Variant: the directory goes only when all is well.
NoneOnError == FALSE

\* A deferred removal waits for the function to return.
DirToRemove == dir /\ cmd # "debug"

CallFails == /\ pc \in Returning \/ (pc = "unstore" /\ platform = "darwin")
             /\ failed' = TRUE
             /\ IF DirToRemove THEN pc' = "removeDir" /\ UNCHANGED result ELSE AfterStore(TRUE)
             /\ UNCHANGED <<platform, worldVars, cmd, dir, got, logs, ignored>>

Killed == pc # "idle" /\ End("killed") /\ UNCHANGED <<platform, worldVars, cmdVars>>

Next == \/ Boot
        \/ \E c \in DOMAIN FirstCall : Invoke(c)
        \/ ReadCA \/ TempDir \/ WriteCert \/ AppendToBundle \/ TearBundle \/ AddStore
        \/ CreateKeychain \/ LoadKeychain \/ AddTrusted \/ TrustDeclined \/ RemoveDir
        \/ Regenerate \/ DelStore \/ DelStoreDone \/ KeychainExists \/ NoKeychain
        \/ Export \/ RemoveTrusted \/ DeleteKeychain
        \/ DestroyVMs \/ RemoveVMDir \/ ReadKey \/ Fetch \/ CreateArchive \/ Pack
        \/ CallFails \/ Killed

Spec == Init /\ [][Next]_vars
-----------------------------------------------------------------------------

Ended(c, r) == pc = "idle" /\ cmd = c /\ result = r

\* The message of trust says "To remove this certificate, run: cf dev untrust"
\* (running.go:141).  An untrust that reports success leaves no CA of PCF Dev
\* trusted, over VMs that came and went, failed and killed commands in any
\* order.  Excepted are commands that failed without anybody looking, what
\* `security` leaves of a keychain with several CAs, and on Windows the CAs of
\* other domains.
Left == missed \cup IF platform = "windows" THEN Custom ELSE {}

UntrustRemoves == Ended("untrust", "ok") /\ ~ignored => trusted \cap Certs \subseteq Left

\* A trust that reports success has made the CA of the running VM trusted, and
\* taken none of the system's own certificates away; on Linux only as long as
\* no write to the bundle has been cut short, this trust's or an earlier one's.
TrustTakes == Ended("trust", "ok") /\ ~torn => {vm, System} \subseteq trusted

\* A command that was not killed, whether it failed or not, has removed the
\* directory with the certificate in it unless the removal failed; debug
\* leaves its logs behind.
TempsGo == \A r \in {"ok", "error"} : Ended(cmd, r) /\ cmd # "debug" /\ ~ignored => ~dir

\* The archive of an earlier debug is given up only when all the logs of the
\* new one are there, and a debug that reports success has replaced it whole
\* unless a Close failed (fs.go:178).
ArchiveIsWhole ==
  [][/\ archive' # archive => logs = NumLogs
     /\ Ended("debug", "ok")' /\ ~ignored' => archive' = "whole"]_vars
=============================================================================
