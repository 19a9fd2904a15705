-------------------------- MODULE TrustStore_proofs --------------------------
(***************************************************************************)
(* Proofs about TrustStore for every set of certificates and any number of  *)
(* logs, on each platform.                                                  *)
(***************************************************************************)
EXTENDS TrustStore, TLAPS

(* Where a command can be: the calls of CertStore.Store, those of            *)
(* CertStore.Unstore on macOS behind its look for the keychain, those of     *)
(* debug, and those before which there is no temporary directory.            *)
InStore   == {"readCA", "storeDir", "writeCert", "store", "loadKeychain", "addTrusted"}
InUnstore == {"exportDir", "export", "removeTrusted", "deleteKeychain"}
InDebug   == {"readKey", "logDir", "fetch", "compress", "pack"}
WithDir   == {"writeCert", "store", "loadKeychain", "addTrusted", "removeDir",
              "export", "removeTrusted", "deleteKeychain"}

Shape ==
  /\ cmd \in DOMAIN FirstCall
  /\ pc \in InStore => cmd = "trust"
  /\ pc = "unstore" => cmd \in {"untrust", "destroy"}
  /\ pc \in InUnstore => cmd \in {"untrust", "destroy"} /\ platform = "darwin"
  /\ pc = "removeDir" => cmd = "trust" \/ (cmd \in {"untrust", "destroy"} /\ platform = "darwin")
  /\ pc \in {"destroyVMs", "removeVMDir"} => cmd = "destroy"
  /\ pc \in InDebug => cmd = "debug"
  /\ pc = "idle" \/ pc \in InStore \cup InUnstore \cup InDebug
                            \cup {"unstore", "removeDir", "destroyVMs", "removeVMDir"}

(* What the store and the keychain hold.  The keychain has every CA that is  *)
(* trusted, but for those `security` has left, and goes last, so that        *)
(* untrust finds what a killed one has left.  What certutil has been through  *)
(* is deleted, if nothing was ignored.                                       *)
StoreInv ==
  /\ vm \in Certs \cup {NoCert}
  /\ got \subseteq Certs
  /\ trusted \subseteq Certs \cup {System} /\ System \in trusted
  /\ ~hasKeychain => keychain = {}
  /\ platform = "darwin" => trusted \cap Certs \subseteq keychain \cup missed
  /\ platform = "windows" /\ pc = "unstore" /\ ~ignored => got \cap trusted = {}
  /\ keychain \subseteq Certs
  /\ pc \in InStore \ {"readCA"} => got = {vm}
  /\ cmd = "trust" /\ (pc # "idle" \/ result = "ok") => vm # NoCert
  /\ pc = "removeTrusted" => got = keychain
  /\ pc = "deleteKeychain" => trusted \cap Certs \subseteq missed
  /\ pc = "removeDir" /\ cmd = "trust" /\ ~failed /\ ~torn => vm \in trusted
  /\ pc = "removeDir" /\ cmd # "trust" /\ ~failed => keychain = {}

DirInv ==
  /\ dir /\ cmd # "debug" =>
       \/ pc \in WithDir
       \/ ignored /\ pc \in {"destroyVMs", "removeVMDir"}
       \/ pc = "idle" /\ (ignored \/ result = "killed")

ArchiveInv ==
  /\ pc \in {"compress", "pack"} => logs = NumLogs
  /\ Ended("debug", "ok") /\ ~ignored => archive = "whole"

Inv == Shape /\ StoreInv /\ DirInv /\ ArchiveInv /\ UntrustRemoves /\ TrustTakes

LEMMA InvInit == Init => Inv
BY CertsAssumption DEF Init, Inv, Shape, StoreInv, DirInv, ArchiveInv, UntrustRemoves, Left, TrustTakes, Ended,
   FirstCall, InStore, InUnstore, InDebug, WithDir, System, NoCert

-----------------------------------------------------------------------------
(* Each part is preserved.                                                  *)

LEMMA ShapeNext == Shape /\ [Next]_vars => Shape'
<1> SUFFICES ASSUME Shape, [Next]_vars PROVE Shape'
  OBVIOUS
<1> USE DEF Shape, InStore, InUnstore, InDebug, Goes, AfterStore, End, FirstCall
<1>1. CASE Boot BY <1>1 DEF Boot, cmdVars
<1>2. ASSUME NEW c \in DOMAIN FirstCall, Invoke(c) PROVE Shape' BY <1>2 DEF Invoke
<1>3. CASE ReadCA \/ TempDir \/ WriteCert \/ AppendToBundle \/ TearBundle \/ AddStore
  BY <1>3 DEF ReadCA, TempDir, WriteCert, AppendToBundle, TearBundle, AddStore, NextAfterDir
<1>4. CASE CreateKeychain \/ LoadKeychain \/ AddTrusted \/ TrustDeclined \/ RemoveDir
  BY <1>4 DEF CreateKeychain, LoadKeychain, AddTrusted, TrustDeclined, RemoveDir
<1>5. CASE Regenerate \/ DelStore \/ DelStoreDone \/ KeychainExists \/ NoKeychain
  BY <1>5 DEF Regenerate, DelStore, DelStoreDone, KeychainExists, NoKeychain
<1>6. CASE Export \/ RemoveTrusted \/ DeleteKeychain \/ DestroyVMs \/ RemoveVMDir
  BY <1>6 DEF Export, RemoveTrusted, DeleteKeychain, DestroyVMs, RemoveVMDir, cmdVars
<1>7. CASE ReadKey \/ Fetch \/ CreateArchive \/ Pack
  BY <1>7 DEF ReadKey, Fetch, CreateArchive, OpensArchive, Pack, cmdVars
<1>8. CASE CallFails BY <1>8 DEF CallFails, Returning, DirToRemove
<1>9. CASE Killed BY <1>9 DEF Killed, cmdVars
<1>10. CASE UNCHANGED vars BY <1>10 DEF vars, cmdVars
<1>11. QED BY <1>1, <1>2, <1>3, <1>4, <1>5, <1>6, <1>7, <1>8, <1>9, <1>10 DEF Next

LEMMA StoreNext == Shape /\ StoreInv /\ [Next]_vars => StoreInv'
<1> SUFFICES ASSUME Shape, StoreInv, [Next]_vars PROVE StoreInv'
  OBVIOUS
<1> USE CertsAssumption
    DEF Shape, StoreInv, InStore, InUnstore, InDebug, Goes, AfterStore, End, FirstCall, storeVars
<1>1. CASE Boot BY <1>1 DEF Boot, cmdVars
<1>2. ASSUME NEW c \in DOMAIN FirstCall, Invoke(c) PROVE StoreInv'
  BY <1>2 DEF Invoke, worldVars
<1>3. CASE ReadCA BY <1>3 DEF ReadCA
<1>4. CASE TempDir BY <1>4 DEF TempDir, NextAfterDir, worldVars
<1>5. CASE WriteCert \/ AddStore BY <1>5 DEF WriteCert, AddStore
<1>6. CASE AppendToBundle BY <1>6 DEF AppendToBundle, Appended
<1>7. CASE TearBundle BY <1>7 DEF TearBundle
<1>8. CASE CreateKeychain \/ LoadKeychain BY <1>8 DEF CreateKeychain, LoadKeychain
<1>9. CASE AddTrusted \/ TrustDeclined BY <1>9 DEF AddTrusted, TrustDeclined
<1>10. CASE RemoveDir BY <1>10 DEF RemoveDir, worldVars
<1>11. CASE Regenerate BY <1>11 DEF Regenerate
<1>12. CASE DelStore \/ DelStoreDone
  <2>1. CASE DelStore
    <3>1. PICK c \in Deletable \ got :
            /\ got' = got \cup {c}
            /\ \/ trusted' = trusted \ {c} /\ UNCHANGED ignored
               \/ c \in trusted /\ ignored' = TRUE /\ UNCHANGED trusted
      BY <2>1 DEF DelStore
    <3>2. c \in Certs BY DEF Deletable
    <3>3. got' \subseteq Certs /\ System \in trusted' /\ trusted' \subseteq trusted
      BY <3>1, <3>2
    <3>4. ~ignored' => got' \cap trusted' = {}
      BY <2>1, <3>1 DEF DelStore
    <3>5. QED BY <2>1, <3>3, <3>4 DEF DelStore
  <2>2. CASE DelStoreDone BY <2>2 DEF DelStoreDone, worldVars
  <2>3. QED BY <1>12, <2>1, <2>2
<1>13. CASE KeychainExists \/ NoKeychain BY <1>13 DEF KeychainExists, NoKeychain, worldVars
<1>14. CASE Export \/ RemoveTrusted \/ DeleteKeychain
  BY <1>14 DEF Export, RemoveTrusted, DeleteKeychain
<1>15. CASE DestroyVMs \/ RemoveVMDir
  BY <1>15 DEF DestroyVMs, RemoveVMDir, worldVars, cmdVars
<1>16. CASE ReadKey \/ Fetch \/ CreateArchive \/ Pack
  BY <1>16 DEF ReadKey, Fetch, CreateArchive, OpensArchive, Pack, cmdVars, worldVars
<1>17. CASE CallFails BY <1>17 DEF CallFails, Returning, DirToRemove, worldVars
<1>18. CASE Killed BY <1>18 DEF Killed, cmdVars, worldVars
<1>19. CASE UNCHANGED vars BY <1>19 DEF vars, cmdVars, worldVars
<1>20. QED BY <1>1, <1>2, <1>3, <1>4, <1>5, <1>6, <1>7, <1>8, <1>9, <1>10, <1>11, <1>12, <1>13, <1>14,
              <1>15, <1>16, <1>17, <1>18, <1>19 DEF Next

LEMMA DirNext == Shape /\ DirInv /\ [Next]_vars => DirInv'
<1> SUFFICES ASSUME Shape, DirInv, [Next]_vars PROVE DirInv'
  OBVIOUS
<1> USE DEF Shape, DirInv, WithDir, InStore, InUnstore, InDebug, Goes, AfterStore, End, FirstCall
<1>1. CASE Boot BY <1>1 DEF Boot, cmdVars
<1>2. ASSUME NEW c \in DOMAIN FirstCall, Invoke(c) PROVE DirInv' BY <1>2 DEF Invoke
<1>3. CASE ReadCA \/ TempDir \/ WriteCert \/ AppendToBundle \/ TearBundle \/ AddStore
  BY <1>3 DEF ReadCA, TempDir, WriteCert, AppendToBundle, TearBundle, AddStore, NextAfterDir
<1>4. CASE CreateKeychain \/ LoadKeychain \/ AddTrusted \/ TrustDeclined \/ RemoveDir
  BY <1>4 DEF CreateKeychain, LoadKeychain, AddTrusted, TrustDeclined, RemoveDir
<1>5. CASE Regenerate \/ DelStore \/ DelStoreDone \/ KeychainExists \/ NoKeychain
  BY <1>5 DEF Regenerate, DelStore, DelStoreDone, KeychainExists, NoKeychain
<1>6. CASE Export \/ RemoveTrusted \/ DeleteKeychain \/ DestroyVMs \/ RemoveVMDir
  BY <1>6 DEF Export, RemoveTrusted, DeleteKeychain, DestroyVMs, RemoveVMDir, cmdVars
<1>7. CASE ReadKey \/ Fetch \/ CreateArchive \/ Pack
  BY <1>7 DEF ReadKey, Fetch, CreateArchive, OpensArchive, Pack, cmdVars
<1>8. CASE CallFails BY <1>8 DEF CallFails, Returning, DirToRemove
<1>9. CASE Killed BY <1>9 DEF Killed, cmdVars
<1>10. CASE UNCHANGED vars BY <1>10 DEF vars, cmdVars
<1>11. QED BY <1>1, <1>2, <1>3, <1>4, <1>5, <1>6, <1>7, <1>8, <1>9, <1>10 DEF Next

LEMMA ArchiveNext == Shape /\ ArchiveInv /\ [Next]_vars => ArchiveInv'
<1> SUFFICES ASSUME Shape, ArchiveInv, [Next]_vars PROVE ArchiveInv'
  OBVIOUS
<1> USE DEF Shape, ArchiveInv, Ended, InStore, InUnstore, InDebug, Goes, AfterStore, End, FirstCall
<1>1. CASE Boot BY <1>1 DEF Boot, cmdVars
<1>2. ASSUME NEW c \in DOMAIN FirstCall, Invoke(c) PROVE ArchiveInv' BY <1>2 DEF Invoke
<1>3. CASE ReadCA \/ TempDir \/ WriteCert \/ AppendToBundle \/ TearBundle \/ AddStore
  BY <1>3 DEF ReadCA, TempDir, WriteCert, AppendToBundle, TearBundle, AddStore, NextAfterDir, worldVars
<1>4. CASE CreateKeychain \/ LoadKeychain \/ AddTrusted \/ TrustDeclined \/ RemoveDir
  BY <1>4 DEF CreateKeychain, LoadKeychain, AddTrusted, TrustDeclined, RemoveDir
<1>5. CASE Regenerate \/ DelStore \/ DelStoreDone \/ KeychainExists \/ NoKeychain
  BY <1>5 DEF Regenerate, DelStore, DelStoreDone, KeychainExists, NoKeychain
<1>6. CASE Export \/ RemoveTrusted \/ DeleteKeychain \/ DestroyVMs \/ RemoveVMDir
  BY <1>6 DEF Export, RemoveTrusted, DeleteKeychain, DestroyVMs, RemoveVMDir, cmdVars
<1>7. CASE ReadKey \/ Fetch \/ CreateArchive \/ Pack
  BY <1>7 DEF ReadKey, Fetch, CreateArchive, OpensArchive, Pack, cmdVars
<1>8. CASE CallFails BY <1>8 DEF CallFails, Returning, DirToRemove
<1>9. CASE Killed BY <1>9 DEF Killed, cmdVars, worldVars
<1>10. CASE UNCHANGED vars BY <1>10 DEF vars, cmdVars, worldVars
<1>11. QED BY <1>1, <1>2, <1>3, <1>4, <1>5, <1>6, <1>7, <1>8, <1>9, <1>10 DEF Next

-----------------------------------------------------------------------------
(* What the user is told is true.                                           *)

LEMMA UntrustNext == Shape /\ StoreInv /\ UntrustRemoves /\ [Next]_vars => UntrustRemoves'
<1> SUFFICES ASSUME Shape, StoreInv, UntrustRemoves, [Next]_vars PROVE UntrustRemoves'
  OBVIOUS
<1> USE CertsAssumption
    DEF UntrustRemoves, Left, Ended, Shape, InStore, InUnstore, InDebug, Goes, AfterStore, End, FirstCall
<1>1. CASE Boot BY <1>1 DEF Boot, cmdVars, storeVars
<1>2. ASSUME NEW c \in DOMAIN FirstCall, Invoke(c) PROVE UntrustRemoves' BY <1>2 DEF Invoke
<1>3. CASE ReadCA \/ TempDir \/ WriteCert \/ AppendToBundle \/ TearBundle \/ AddStore
  BY <1>3 DEF ReadCA, TempDir, WriteCert, AppendToBundle, TearBundle, AddStore, NextAfterDir
<1>4. CASE CreateKeychain \/ LoadKeychain \/ AddTrusted \/ TrustDeclined
  BY <1>4 DEF CreateKeychain, LoadKeychain, AddTrusted, TrustDeclined
<1>5. CASE RemoveDir BY <1>5 DEF RemoveDir, StoreInv, worldVars, storeVars
<1>6. CASE Regenerate BY <1>6 DEF Regenerate
<1>7. CASE DelStore \/ DelStoreDone BY <1>7 DEF DelStore, DelStoreDone, Deletable, StoreInv, worldVars,
                                              storeVars
<1>8. CASE KeychainExists \/ NoKeychain
  BY <1>8 DEF KeychainExists, NoKeychain, StoreInv, worldVars, storeVars
<1>9. CASE Export \/ RemoveTrusted \/ DeleteKeychain \/ DestroyVMs \/ RemoveVMDir
  BY <1>9 DEF Export, RemoveTrusted, DeleteKeychain, DestroyVMs, RemoveVMDir, cmdVars
<1>10. CASE ReadKey \/ Fetch \/ CreateArchive \/ Pack
  BY <1>10 DEF ReadKey, Fetch, CreateArchive, OpensArchive, Pack, cmdVars
<1>11. CASE CallFails BY <1>11 DEF CallFails, Returning, DirToRemove
<1>12. CASE Killed BY <1>12 DEF Killed, cmdVars
<1>13. CASE UNCHANGED vars BY <1>13 DEF vars, cmdVars, worldVars, storeVars
<1>14. QED BY <1>1, <1>2, <1>3, <1>4, <1>5, <1>6, <1>7, <1>8, <1>9, <1>10, <1>11, <1>12, <1>13 DEF Next

LEMMA TrustNext == Shape /\ StoreInv /\ TrustTakes /\ [Next]_vars => TrustTakes'
<1> SUFFICES ASSUME Shape, StoreInv, TrustTakes, [Next]_vars PROVE TrustTakes'
  OBVIOUS
<1> USE DEF TrustTakes, Ended, Shape, InStore, InUnstore, InDebug, Goes, AfterStore, End, FirstCall
<1>1. CASE Boot BY <1>1 DEF Boot, cmdVars, storeVars, StoreInv
<1>2. ASSUME NEW c \in DOMAIN FirstCall, Invoke(c) PROVE TrustTakes' BY <1>2 DEF Invoke
<1>3. CASE ReadCA \/ TempDir \/ WriteCert \/ AppendToBundle \/ TearBundle \/ AddStore
  BY <1>3 DEF ReadCA, TempDir, WriteCert, AppendToBundle, TearBundle, AddStore, NextAfterDir
<1>4. CASE CreateKeychain \/ LoadKeychain \/ AddTrusted \/ TrustDeclined
  BY <1>4 DEF CreateKeychain, LoadKeychain, AddTrusted, TrustDeclined
<1>5. CASE RemoveDir BY <1>5 DEF RemoveDir, StoreInv, worldVars, storeVars
<1>6. CASE Regenerate \/ DelStore \/ DelStoreDone \/ KeychainExists \/ NoKeychain
  BY <1>6 DEF Regenerate, DelStore, DelStoreDone, KeychainExists, NoKeychain
<1>7. CASE Export \/ RemoveTrusted \/ DeleteKeychain \/ DestroyVMs \/ RemoveVMDir
  BY <1>7 DEF Export, RemoveTrusted, DeleteKeychain, DestroyVMs, RemoveVMDir, cmdVars
<1>8. CASE ReadKey \/ Fetch \/ CreateArchive \/ Pack
  BY <1>8 DEF ReadKey, Fetch, CreateArchive, OpensArchive, Pack, cmdVars
<1>9. CASE CallFails BY <1>9 DEF CallFails, Returning, DirToRemove
<1>10. CASE Killed BY <1>10 DEF Killed, cmdVars
<1>11. CASE UNCHANGED vars BY <1>11 DEF vars, cmdVars, worldVars, storeVars
<1>12. QED BY <1>1, <1>2, <1>3, <1>4, <1>5, <1>6, <1>7, <1>8, <1>9, <1>10, <1>11 DEF Next

LEMMA InvNext == Inv /\ [Next]_vars => Inv'
BY ShapeNext, StoreNext, DirNext, ArchiveNext, UntrustNext, TrustNext DEF Inv

LEMMA InvHolds == Spec => []Inv
BY InvInit, InvNext, PTL DEF Spec

\* Whatever was killed or failed before, an untrust that reports success leaves
\* no CA of PCF Dev trusted, with three exceptions: a command of this untrust
\* failed and its error was ignored, `security` left the CA when it was told to
\* remove the trust of several, or, on Windows, the CA has another domain.
THEOREM UntrustCorrect == Spec => []UntrustRemoves
<1>1. Inv => UntrustRemoves BY DEF Inv
<1>2. QED BY <1>1, InvHolds, PTL

\* A trust that reports success has made the CA of the running VM trusted and
\* kept the system's own, unless the bundle of Linux ends within a certificate:
\* behind a write that was cut short, now or before, the CA is lost.
THEOREM TrustCorrect == Spec => []TrustTakes
<1>1. Inv => TrustTakes BY DEF Inv
<1>2. QED BY <1>1, InvHolds, PTL

\* No command but debug leaves its temporary directory behind.
THEOREM TempsAreRemoved == Spec => []TempsGo
<1>1. Inv => TempsGo BY DEF Inv, DirInv, TempsGo, Ended, WithDir
<1>2. QED BY <1>1, InvHolds, PTL

ArchiveStep == /\ archive' # archive => logs = NumLogs
               /\ Ended("debug", "ok")' /\ ~ignored' => archive' = "whole"

LEMMA ArchiveSteps == Inv /\ [Next]_vars => [ArchiveStep]_vars
<1> SUFFICES ASSUME Inv, [Next]_vars, vars' # vars PROVE ArchiveStep
  OBVIOUS
<1>1. ArchiveInv' BY InvNext DEF Inv
<1>2. ASSUME archive' # archive PROVE logs = NumLogs
  <2>1. CASE CreateArchive \/ Pack
    BY <2>1 DEF Inv, ArchiveInv, CreateArchive, OpensArchive, Pack
  <2>2. ASSUME ~CreateArchive, ~Pack, Next PROVE archive' = archive
    <3>1. ASSUME NEW c \in DOMAIN FirstCall, Invoke(c) PROVE archive' = archive
      BY <3>1 DEF Invoke, worldVars
    <3>2. CASE Boot \/ ReadCA \/ TempDir \/ WriteCert \/ AppendToBundle \/ TearBundle \/ AddStore
      BY <3>2 DEF Boot, ReadCA, TempDir, WriteCert, AppendToBundle, TearBundle, AddStore, Goes, worldVars
    <3>3. CASE CreateKeychain \/ LoadKeychain \/ AddTrusted \/ TrustDeclined \/ RemoveDir
      BY <3>3 DEF CreateKeychain, LoadKeychain, AddTrusted, TrustDeclined, RemoveDir, Goes, worldVars
    <3>4. CASE Regenerate \/ DelStore \/ DelStoreDone \/ KeychainExists \/ NoKeychain
      BY <3>4 DEF Regenerate, DelStore, DelStoreDone, KeychainExists, NoKeychain, Goes, worldVars
    <3>5. CASE Export \/ RemoveTrusted \/ DeleteKeychain \/ DestroyVMs \/ RemoveVMDir
      BY <3>5 DEF Export, RemoveTrusted, DeleteKeychain, DestroyVMs, RemoveVMDir, Goes, worldVars
    <3>6. CASE ReadKey \/ Fetch \/ CallFails \/ Killed
      BY <3>6 DEF ReadKey, Fetch, CallFails, Killed, Goes, worldVars
    <3>7. QED BY <2>2, <3>1, <3>2, <3>3, <3>4, <3>5, <3>6 DEF Next
  <2>3. QED BY <1>2, <2>1, <2>2 DEF vars, worldVars
<1>3. QED BY <1>1, <1>2 DEF ArchiveStep, ArchiveInv

\* The archive of an earlier debug is given up only for a complete set of
\* logs, and a debug that reports success has replaced it whole.
THEOREM ArchiveCorrect == Spec => ArchiveIsWhole
<1>1. [ArchiveStep]_vars
        <=> [/\ archive' # archive => logs = NumLogs
             /\ Ended("debug", "ok")' /\ ~ignored' => archive' = "whole"]_vars
  BY DEF ArchiveStep
<1>2. QED BY <1>1, ArchiveSteps, InvHolds, PTL DEF Spec, ArchiveIsWhole
=============================================================================
