------------------------- MODULE OVADownload_proofs -------------------------
(***************************************************************************)
(* Proofs about OVADownload for an image of any size, any number of attempts *)
(* and of faults, any tokens: the types for any number of processes, and for *)
(* one process at a time what it leaves on the disk.                         *)
(***************************************************************************)
EXTENDS OVADownload, SequenceTheorems, TLAPS

-----------------------------------------------------------------------------
(* Any number of processes.                                                 *)

\* A file that a process has open under a name is there under that name.
OpenFiles == \A p \in Procs : /\ file[p] = "ova" => ova # NoFile
                              /\ file[p] = "partial" => partial # NoFile

TypeInv == TypeOK /\ OpenFiles

-----------------------------------------------------------------------------
(* One process at a time: what is on the disk at each of its calls.          *)

OneProcess == \A p, q \in Procs : p = q

\* It has a file open while it writes to it.
OpenWhileWriting(p) ==
  file[p] = (IF proc[p].pc = "write" THEN "partial" ELSE IF proc[p].pc = "copy" THEN "ova" ELSE "closed")

\* An import reads no partial file and asks no server, and overwrites no good image.
ImportPath(p) ==
  /\ proc[p].cmd = "import" => /\ proc[p].pc \in {"create", "current", "open", "copy"}
                               /\ proc[p].pc # "copy" => proc[p].next = 1
                               /\ proc[p].pc = "open" => ova # Good
  /\ proc[p].pc = "copy" => proc[p].cmd = "import"

\* The range that a download asks for starts where the partial file ends.
RangeFits(p) ==
  /\ proc[p].pc = "request" /\ proc[p].next <= Size => LengthOf(partial) + 1 = proc[p].next
  /\ proc[p].pc \in {"openToken", "fillToken", "write"} => LengthOf(partial) + 1 = proc[p].next
  /\ proc[p].pc = "open" /\ proc[p].cmd = "download" => LengthOf(partial) + 1 = proc[p].next

\* What is renamed has been checked, and what is copied is in its place.
Checked(p) == proc[p].pc = "move" => partial = Good

Copying(p) == proc[p].pc = "copy" => /\ ova # NoFile
                                     /\ Len(ova) + 1 = proc[p].next
                                     /\ \A i \in 1 .. Len(ova) : ova[i] = i

\* A process with PIVNET_TOKEN does not come to Token.Save.
SavesOwnToken(p) == proc[p].env # None => proc[p].pc \notin {"openToken", "fillToken"}

DiskInvAt(p) == /\ OpenWhileWriting(p) /\ ImportPath(p) /\ RangeFits(p)
                /\ Checked(p) /\ Copying(p) /\ SavesOwnToken(p)

DiskInv == \A p \in Procs : DiskInvAt(p)

IInv == TypeInv /\ DiskInv

-----------------------------------------------------------------------------
(* Lemmas about the operators.                                              *)

FileNames == {"closed", "partial", "ova", "unlinked"}

\* The mark of a file that is not there is no sequence of chunks.
LEMMA NoFileIsNoSeq == NoFile \notin Seq(0 .. Size)
BY SizeAssumption DEF NoFile

LEMMA GoodIsFile == Good \in Seq(0 .. Size) /\ Good # NoFile
<1>1. Good \in Seq(0 .. Size) BY SizeAssumption DEF Good
<1>2. QED BY <1>1, NoFileIsNoSeq

LEMMA LengthOfType ==
  ASSUME NEW f \in Files
  PROVE  LengthOf(f) \in Nat
BY LenProperties DEF Files, LengthOf

\* Either way of writing a chunk leaves a sequence of chunks.
LEMMA AppendedType ==
  ASSUME NEW f \in Seq(0 .. Size), NEW c \in 0 .. Size
  PROVE  /\ Append(f, c) \in Seq(0 .. Size)
         /\ Len(Append(f, c)) = Len(f) + 1
BY AppendProperties

LEMMA PlacedType ==
  ASSUME NEW f \in Seq(0 .. Size), NEW i \in 1 .. Size
  PROVE  /\ Placed(f, i) \in Seq(0 .. Size)
         /\ Len(Placed(f, i)) = IF Len(f) < i THEN i ELSE Len(f)
         /\ \A j \in 1 .. Len(Placed(f, i)) :
              Placed(f, i)[j] = IF j = i THEN i ELSE IF j <= Len(f) THEN f[j] ELSE 0
<1> DEFINE n == IF Len(f) < i THEN i ELSE Len(f)
<1>1. Len(f) \in Nat /\ \A j \in 1 .. Len(f) : f[j] \in 0 .. Size
  BY LenProperties, ElementOfSeq
<1>2. n \in Nat BY <1>1, SizeAssumption
<1>3. \A j \in 1 .. n : (IF j = i THEN i ELSE IF j <= Len(f) THEN f[j] ELSE 0) \in 0 .. Size
  BY <1>1, SizeAssumption
<1>4. Placed(f, i) = [j \in 1 .. n |-> IF j = i THEN i ELSE IF j <= Len(f) THEN f[j] ELSE 0]
  BY DEF Placed
<1> HIDE DEF n
<1>5. Placed(f, i) \in Seq(0 .. Size) /\ Len(Placed(f, i)) = n
  BY <1>2, <1>3, <1>4
<1>6. QED BY <1>4, <1>5 DEF n

\* The tokens that a process can present.
LEMMA TokensForType ==
  ASSUME TypeOK, NEW p \in Procs
  PROVE  TokensFor(p) \cap valid \subseteq Tokens
BY DEF TypeOK

-----------------------------------------------------------------------------
(* Types.                                                                   *)

LEMMA IdleType ==
  ASSUME NEW r \in {None, "ok", "err", "refused", "killed"}
  PROVE  Idle(r) \in Processes
BY SizeAssumption DEF Idle, Processes, PCs, None

LEMMA TypeInit == Init => TypeInv
<1> SUFFICES ASSUME Init PROVE TypeInv
  OBVIOUS
<1>1. proc \in [Procs -> Processes] BY IdleType DEF Init
<1>2. file \in [Procs -> {"closed", "partial", "ova", "unlinked"}] BY DEF Init
<1>3. NoFile \in Files BY DEF Files
<1>4. faults \in 0 .. MaxFaults BY SizeAssumption DEF Init
<1>5. ova \in Files /\ partial \in Files /\ tokenFile \in Tokens \cup {None, Torn} BY <1>3 DEF Init
<1>6. valid \in SUBSET Tokens /\ eula \in BOOLEAN BY DEF Init
<1>7. TypeOK BY <1>1, <1>2, <1>4, <1>5, <1>6 DEF TypeOK
<1>8. OpenFiles BY DEF Init, OpenFiles
<1>9. QED BY <1>7, <1>8 DEF TypeInv

\* A process that ends, or begins its next attempt, has closed its file.
Closes(p) == /\ proc' \in [Procs -> Processes]
             /\ file' = [file EXCEPT ![p] = "closed"]

LEMMA ExitCloses ==
  ASSUME TypeOK, NEW p \in Procs, NEW r \in {"ok", "err", "refused", "killed"}, Exit(p, r)
  PROVE  Closes(p)
<1>1. Idle(r) \in Processes BY IdleType
<1>2. QED BY <1>1 DEF TypeOK, Exit, Close, Closes

LEMMA AttemptCloses ==
  ASSUME TypeOK, NEW p \in Procs, NEW r \in {"err", "refused"}, AttemptFails(p, r)
  PROVE  Closes(p)
<1>1. CASE proc[p].left > 1
  <2>1. proc[p] \in Processes BY DEF TypeOK
  <2>2. proc[p].left \in 0 .. Attempts BY <2>1 DEF Processes
  <2>3. proc[p].left - 1 \in 0 .. Attempts BY <1>1, <2>2, SizeAssumption
  <2>4. [proc[p] EXCEPT !.pc = "length", !.left = @ - 1] \in Processes
    BY <2>1, <2>3 DEF Processes, PCs
  <2>5. proc' = [proc EXCEPT ![p] = [proc[p] EXCEPT !.pc = "length", !.left = @ - 1]]
    BY <1>1 DEF AttemptFails, TypeOK
  <2>6. QED BY <1>1, <2>4, <2>5 DEF TypeOK, AttemptFails, Close, Closes
<1>2. CASE ~(proc[p].left > 1)
  BY <1>2, ExitCloses DEF AttemptFails
<1>3. QED BY <1>1, <1>2

LEMMA GotoType ==
  ASSUME TypeOK, NEW p \in Procs, NEW to \in PCs, Goto(p, to)
  PROVE  proc' \in [Procs -> Processes]
BY DEF TypeOK, Goto, Processes

LEMMA AuthorizedType ==
  ASSUME TypeOK, NEW p \in Procs, NEW from, NEW to \in PCs, Authorized(p, from, to)
  PROVE  proc' \in [Procs -> Processes]
<1>1. PICK t \in TokensFor(p) \cap valid : proc' = [proc EXCEPT ![p].pc = to, ![p].tok = t]
  BY DEF Authorized
<1>2. t \in Tokens BY TokensForType
<1>3. proc[p] \in Processes BY DEF TypeOK
<1>4. [proc[p] EXCEPT !.pc = to, !.tok = t] \in Processes
  BY <1>2, <1>3 DEF Processes
<1>5. proc' = [proc EXCEPT ![p] = [proc[p] EXCEPT !.pc = to, !.tok = t]]
  BY <1>1 DEF TypeOK
<1>6. QED BY <1>4, <1>5 DEF TypeOK

\* What a step may change beside the image and the processes.
RestTypeOK == /\ tokenFile \in Tokens \cup {None, Torn}
              /\ valid \in SUBSET Tokens /\ eula \in BOOLEAN
              /\ faults \in 0 .. MaxFaults

\* A step that leaves the image alone keeps the types when the process it moves does.
LEMMA ImageStays ==
  ASSUME TypeInv, NEW p \in Procs, UNCHANGED <<ova, partial>>, RestTypeOK',
         Closes(p) \/ (proc' \in [Procs -> Processes] /\ UNCHANGED file)
  PROVE  TypeInv'
<1>1. file' \in [Procs -> FileNames] /\ proc' \in [Procs -> Processes]
  BY DEF TypeInv, TypeOK, Closes, FileNames
<1>2. \A q \in Procs : file'[q] \in {file[q], "closed"}
  BY DEF TypeInv, TypeOK, Closes
<1>3. TypeOK' BY <1>1 DEF TypeInv, TypeOK, RestTypeOK, FileNames
<1>4. OpenFiles' BY <1>2 DEF TypeInv, OpenFiles
<1>5. QED BY <1>3, <1>4 DEF TypeInv

LEMMA RestUnchanged ==
  ASSUME TypeOK, UNCHANGED <<serverVars, tokenFile, faults>>
  PROVE  RestTypeOK'
BY DEF TypeOK, RestTypeOK, serverVars

LEMMA CountedType ==
  ASSUME TypeOK, NEW f, Counted(f)
  PROVE  faults' \in 0 .. MaxFaults
BY SizeAssumption DEF TypeOK, Counted

LEMMA DestroyTokenType ==
  ASSUME TypeOK, NEW p \in Procs, Unauthorized(p)
  PROVE  RestTypeOK' /\ UNCHANGED <<ova, partial>>
BY CountedType DEF TypeOK, RestTypeOK, Unauthorized, DestroyToken, serverVars

LEMMA InvokeType ==
  ASSUME TypeInv, NEW p \in Procs, Invoke(p)
  PROVE  TypeInv'
<1>1. PICK c \in Commands, e \in EnvTokens :
        proc' = [proc EXCEPT ![p] = [Idle(None) EXCEPT !.pc = "create", !.cmd = c, !.env = e]]
  BY DEF Invoke
<1>2. Idle(None) \in Processes BY IdleType
<1>3. [Idle(None) EXCEPT !.pc = "create", !.cmd = c, !.env = e] \in Processes
  BY <1>2, CommandsAssumption, TokensAssumption DEF Processes, PCs
<1>4. proc' \in [Procs -> Processes] BY <1>1, <1>3 DEF TypeInv, TypeOK
<1>5. QED BY <1>4, ImageStays, RestUnchanged DEF Invoke, TypeInv, diskVars

\* The calls up to the download or the copy.
LEMMA BeforeType ==
  ASSUME TypeInv, NEW p \in Procs,
         \/ Create(p) \/ IsOVACurrent(p) \/ Refused(p) \/ IsEULAAccepted(p) \/ ConfirmEULA(p)
         \/ AcceptEULA(p) \/ AlreadyAccepted(p) \/ Setup(p)
  PROVE  TypeInv'
<1>1. TypeOK /\ proc[p] \in Processes BY DEF TypeInv, TypeOK
<1>2. CASE Create(p)
  <2> DEFINE r == [proc[p] EXCEPT !.pc = "current", !.kind = IF partial = NoFile THEN "full" ELSE "partial"]
  <2>1. r \in Processes BY <1>1 DEF Processes, PCs
  <2>2. proc' = [proc EXCEPT ![p] = r] BY <1>1, <1>2 DEF Create, TypeOK, Processes
  <2>3. proc' \in [Procs -> Processes] BY <1>1, <2>1, <2>2 DEF TypeOK
  <2>4. QED BY <1>1, <1>2, <2>3, ImageStays, RestUnchanged DEF Create, diskVars
<1>3. CASE IsOVACurrent(p)
  <2>1. Closes(p) \/ (proc' \in [Procs -> Processes] /\ UNCHANGED file)
    BY <1>1, <1>3, ExitCloses, GotoType DEF IsOVACurrent, PCs
  <2>2. QED BY <1>1, <1>3, <2>1, ImageStays, RestUnchanged DEF IsOVACurrent, diskVars
<1>4. CASE Refused(p)
  BY <1>1, <1>4, DestroyTokenType, ExitCloses, ImageStays DEF Refused
<1>5. CASE IsEULAAccepted(p) \/ ConfirmEULA(p) \/ AcceptEULA(p)
  <2>1. proc' \in [Procs -> Processes]
    BY <1>1, <1>5, AuthorizedType DEF IsEULAAccepted, ConfirmEULA, AcceptEULA, PCs
  <2>2. UNCHANGED <<valid, ova, partial, tokenFile, file, faults>> /\ eula' \in BOOLEAN
    BY <1>1, <1>5 DEF IsEULAAccepted, ConfirmEULA, AcceptEULA, Authorized, diskVars, TypeOK
  <2>3. RestTypeOK' BY <1>1, <2>2 DEF TypeOK, RestTypeOK
  <2>4. QED BY <2>1, <2>2, <2>3, ImageStays
<1>6. CASE AlreadyAccepted(p)
  BY <1>1, <1>6, ExitCloses, ImageStays, RestUnchanged DEF AlreadyAccepted, diskVars
<1>7. CASE Setup(p)
  <2> DEFINE r == [proc[p] EXCEPT !.pc = "length", !.left = Attempts]
  <2>1. Attempts \in 0 .. Attempts BY SizeAssumption
  <2>2. r \in Processes BY <1>1, <2>1 DEF Processes, PCs
  <2>3. proc' = [proc EXCEPT ![p] = r] BY <1>1, <1>7 DEF Setup, TypeOK, Processes
  <2>4. proc' \in [Procs -> Processes] BY <1>1, <2>2, <2>3 DEF TypeOK
  <2>5. QED BY <1>1, <1>7, <2>4, ImageStays, RestUnchanged DEF Setup, diskVars
<1>8. QED BY <1>2, <1>3, <1>4, <1>5, <1>6, <1>7

\* The calls that ask for the image.
LEMMA RequestType ==
  ASSUME TypeInv, NEW p \in Procs,
         Length(p) \/ RequestOVA(p) \/ RequestRefused(p) \/ NothingToSend(p) \/ OpenToken(p) \/ FillToken(p)
  PROVE  TypeInv'
<1>1. TypeOK /\ proc[p] \in Processes BY DEF TypeInv, TypeOK
<1>2. CASE Length(p)
  <2>1. LengthOf(partial) \in Nat BY <1>1, LengthOfType DEF TypeOK
  <2>2. (IF LengthOf(partial) >= Size THEN Size + 1 ELSE LengthOf(partial) + 1) \in 1 .. Size + 1
    BY <2>1, SizeAssumption
  <2> DEFINE to == IF LengthOf(partial) >= Size THEN Size + 1 ELSE LengthOf(partial) + 1
             r  == [proc[p] EXCEPT !.pc = "request", !.next = to]
  <2>3. r \in Processes BY <1>1, <2>2 DEF Processes, PCs
  <2>4. proc' = [proc EXCEPT ![p] = r] BY <1>1, <1>2 DEF Length, TypeOK, Processes
  <2>5. proc' \in [Procs -> Processes] BY <1>1, <2>3, <2>4 DEF TypeOK
  <2>6. QED BY <1>1, <1>2, <2>5, ImageStays, RestUnchanged DEF Length, diskVars
<1>3. CASE RequestOVA(p)
  <2>1. proc' \in [Procs -> Processes]
    BY <1>1, <1>3, AuthorizedType DEF RequestOVA, AfterRequest, PCs
  <2>2. QED BY <1>1, <1>3, <2>1, ImageStays, RestUnchanged DEF RequestOVA, Authorized, diskVars, serverVars
<1>4. CASE RequestRefused(p)
  BY <1>1, <1>4, DestroyTokenType, AttemptCloses, ImageStays DEF RequestRefused
<1>5. CASE NothingToSend(p)
  BY <1>1, <1>5, AttemptCloses, ImageStays, RestUnchanged DEF NothingToSend, diskVars
<1>6. CASE OpenToken(p) \/ FillToken(p)
  <2>1. proc' \in [Procs -> Processes]
    BY <1>1, <1>6, GotoType DEF OpenToken, FillToken, SaveToken, PCs
  <2>2. proc[p].tok \in Tokens \cup {None} BY <1>1 DEF Processes
  <2>3. RestTypeOK'
    BY <1>1, <1>6, <2>2 DEF OpenToken, FillToken, SaveToken, RestTypeOK, TypeOK, serverVars
  <2>4. QED BY <1>6, <2>1, <2>3, ImageStays DEF OpenToken, FillToken, SaveToken
<1>7. QED BY <1>2, <1>3, <1>4, <1>5, <1>6

\* The calls that write files.
LEMMA PutType ==
  ASSUME TypeInv, NEW p \in Procs, NEW pc \in {"write", "copy"}, NEW chunk \in 0 .. Size,
         pc = "copy" => chunk \in 1 .. Size,
         Put(p, pc, chunk), faults' \in 0 .. MaxFaults
  PROVE  TypeInv'
<1>1. TypeOK /\ OpenFiles /\ proc[p] \in Processes BY DEF TypeInv, TypeOK
<1> DEFINE Into(f) == IF pc = "copy" THEN Placed(f, chunk) ELSE Append(f, chunk)
<1>2. \A f \in Seq(0 .. Size) : Into(f) \in Seq(0 .. Size)
  BY AppendedType, PlacedType
<1>3. ova' \in Files /\ (file[p] = "ova" => ova' \in Seq(0 .. Size)) /\ (file[p] # "ova" => ova' = ova)
  <2>1. CASE file[p] = "ova"
    <3>1. ova \in Seq(0 .. Size) BY <1>1, <2>1 DEF TypeOK, OpenFiles, Files
    <3>2. ova' = Into(ova) BY <2>1 DEF Put
    <3>3. ova' \in Seq(0 .. Size) BY <1>2, <3>1, <3>2
    <3>4. QED BY <2>1, <3>3 DEF Files
  <2>2. CASE file[p] # "ova" BY <1>1, <2>2 DEF Put, TypeOK
  <2>3. QED BY <2>1, <2>2
<1>4. partial' \in Files /\ (file[p] = "partial" => partial' \in Seq(0 .. Size))
        /\ (file[p] # "partial" => partial' = partial)
  <2>1. CASE file[p] = "partial"
    <3>1. partial \in Seq(0 .. Size) BY <1>1, <2>1 DEF TypeOK, OpenFiles, Files
    <3>2. partial' = Into(partial) BY <2>1 DEF Put
    <3>3. partial' \in Seq(0 .. Size) BY <1>2, <3>1, <3>2
    <3>4. QED BY <2>1, <3>3 DEF Files
  <2>2. CASE file[p] # "partial" BY <1>1, <2>2 DEF Put, TypeOK
  <2>3. QED BY <2>1, <2>2
<1>5. OpenFiles'
  BY <1>1, <1>3, <1>4, NoFileIsNoSeq DEF OpenFiles, Put
<1>6. proc' \in [Procs -> Processes]
  <2>1. proc[p].next \in 1 .. Size + 1 /\ proc[p].next <= Size BY <1>1 DEF Processes, Put
  <2>2. proc[p].next + 1 \in 1 .. Size + 1 BY <2>1, SizeAssumption
  <2>3. proc' = [proc EXCEPT ![p].next = proc[p].next + 1] BY DEF Put
  <2>4. QED BY <1>1, <2>2, <2>3 DEF TypeOK, Processes
<1>7. TypeOK' BY <1>1, <1>3, <1>4, <1>6 DEF TypeOK, Put, serverVars
<1>8. QED BY <1>5, <1>7 DEF TypeInv

LEMMA OpenType ==
  ASSUME TypeInv, NEW p \in Procs, Open(p)
  PROVE  TypeInv'
<1>1. TypeOK /\ OpenFiles /\ <<>> \in Seq(0 .. Size) BY EmptySeq DEF TypeInv
<1>2. CASE proc[p].cmd = "import"
  <2>1. proc' \in [Procs -> Processes] BY <1>1, <1>2, GotoType DEF Open, PCs
  <2>2. ova' \in Files /\ ova' # NoFile BY <1>1, <1>2, NoFileIsNoSeq DEF Open, Files
  <2>3. TypeOK' BY <1>1, <1>2, <2>1, <2>2 DEF Open, TypeOK, serverVars
  <2>4. OpenFiles' BY <1>1, <1>2, <2>2 DEF Open, OpenFiles, TypeOK
  <2>5. QED BY <2>3, <2>4 DEF TypeInv
<1>3. CASE proc[p].cmd # "import"
  <2>1. proc' \in [Procs -> Processes] BY <1>1, <1>3, GotoType DEF Open, PCs
  <2>2. partial' \in Files /\ partial' # NoFile BY <1>1, <1>3, NoFileIsNoSeq DEF Open, Files, TypeOK
  <2>3. TypeOK' BY <1>1, <1>3, <2>1, <2>2 DEF Open, TypeOK, serverVars
  <2>4. OpenFiles' BY <1>1, <1>3, <2>2 DEF Open, OpenFiles, TypeOK
  <2>5. QED BY <2>3, <2>4 DEF TypeInv
<1>4. QED BY <1>2, <1>3

\* The calls after the last chunk.
LEMMA AfterType ==
  ASSUME TypeInv, NEW p \in Procs, Received(p) \/ MD5(p) \/ MoveFails(p) \/ Copied(p)
  PROVE  TypeInv'
<1>1. TypeOK BY DEF TypeInv
<1>2. CASE Received(p)
  <2>1. Closes(p) BY <1>1, <1>2, GotoType DEF Received, Close, Closes, PCs
  <2>2. QED BY <1>1, <1>2, <2>1, ImageStays, RestUnchanged DEF Received, diskVars
<1>3. CASE MD5(p)
  <2>1. AfterMD5(p) \in {"move", "remove", "idle"} BY DEF AfterMD5
  <2>2. Closes(p) \/ (proc' \in [Procs -> Processes] /\ UNCHANGED file)
    BY <1>1, <1>3, <2>1, ExitCloses, GotoType DEF MD5, PCs
  <2>3. QED BY <1>1, <1>3, <2>2, ImageStays, RestUnchanged DEF MD5, diskVars
<1>4. CASE MoveFails(p) \/ Copied(p)
  BY <1>1, <1>4, ExitCloses, ImageStays, RestUnchanged DEF MoveFails, Copied, diskVars
<1>5. QED BY <1>2, <1>3, <1>4

LEMMA RemovePartialType ==
  ASSUME TypeInv, NEW p \in Procs, RemovePartial(p)
  PROVE  TypeInv'
<1>1. TypeOK /\ OpenFiles /\ Attempts \in 0 .. Attempts BY SizeAssumption DEF TypeInv
<1>2. proc' \in [Procs -> Processes]
  <2>1. proc[p] \in Processes BY <1>1 DEF TypeOK
  <2>2. [proc[p] EXCEPT !.pc = "length", !.again = TRUE, !.left = Attempts] \in Processes
    BY <1>1, <2>1 DEF Processes, PCs
  <2>3. proc' = [proc EXCEPT ![p] = [proc[p] EXCEPT !.pc = "length", !.again = TRUE, !.left = Attempts]]
    BY <1>1 DEF RemovePartial, TypeOK
  <2>4. QED BY <1>1, <2>2, <2>3 DEF TypeOK
<1>3. /\ file' \in [Procs -> FileNames]
      /\ \A q \in Procs : file'[q] # "partial" /\ (file'[q] = "ova" => file[q] = "ova")
  BY <1>1 DEF RemovePartial, TypeOK, FileNames
<1>4. partial' \in Files BY DEF RemovePartial, Files
<1>5. TypeOK' BY <1>1, <1>2, <1>3, <1>4 DEF RemovePartial, TypeOK, serverVars, FileNames
<1>6. OpenFiles' BY <1>1, <1>3 DEF RemovePartial, OpenFiles
<1>7. QED BY <1>5, <1>6 DEF TypeInv

LEMMA RenamedType ==
  ASSUME NEW f \in FileNames
  PROVE  /\ f = "partial" => Renamed(f) = "ova"
         /\ f = "ova" => Renamed(f) = "unlinked"
         /\ f \notin {"partial", "ova"} => Renamed(f) = f
<1>1. CASE f = "partial" BY <1>1, Zenon DEF Renamed
<1>2. CASE f = "ova" BY <1>2, Zenon DEF Renamed
<1>3. CASE f \notin {"partial", "ova"} BY <1>3, Zenon DEF Renamed
<1>4. QED BY <1>1, <1>2, <1>3

LEMMA MoveType ==
  ASSUME TypeInv, NEW p \in Procs, Move(p)
  PROVE  TypeInv'
<1>1. TypeOK /\ OpenFiles BY DEF TypeInv
<1>2. proc' \in [Procs -> Processes] BY <1>1, IdleType DEF Move, TypeOK
<1>3. \A q \in Procs : file'[q] = Renamed(file[q]) BY DEF Move
<1>4. \A q \in Procs : file[q] \in FileNames BY <1>1 DEF TypeOK, FileNames
<1>5. \A q \in Procs : Renamed(file[q]) \in FileNames /\ Renamed(file[q]) # "partial"
  BY <1>4, RenamedType DEF FileNames
<1>6. file' \in [Procs -> FileNames] BY <1>5 DEF Move
<1>7. partial' \in Files BY DEF Move, Files
<1>8. TypeOK' BY <1>1, <1>2, <1>6, <1>7 DEF Move, TypeOK, serverVars, FileNames
<1>9. OpenFiles' BY <1>1, <1>3, <1>5 DEF Move, OpenFiles
<1>10. QED BY <1>8, <1>9 DEF TypeInv

LEMMA FaultType ==
  ASSUME TypeInv, NEW p \in Procs, CallFails(p) \/ Declines(p) \/ Killed(p)
  PROVE  TypeInv'
<1>1. TypeOK BY DEF TypeInv
<1>2. Closes(p)
  BY <1>1, ExitCloses, AttemptCloses DEF CallFails, Declines, Killed
<1>3. RestTypeOK'
  BY <1>1, CountedType DEF CallFails, Declines, Killed, RestTypeOK, TypeOK, serverVars, diskVars
<1>4. QED BY <1>2, <1>3, ImageStays DEF CallFails, Declines, Killed, diskVars

LEMMA TypeNext == TypeInv /\ [Next]_vars => TypeInv'
<1> SUFFICES ASSUME TypeInv, [Next]_vars PROVE TypeInv'
  OBVIOUS
<1>1. TypeOK BY DEF TypeInv
<1>2. ASSUME NEW p \in Procs, Invoke(p) PROVE TypeInv'
  BY <1>2, InvokeType
<1>3. ASSUME NEW p \in Procs, Step(p) PROVE TypeInv'
  <2>1. proc[p] \in Processes BY <1>1 DEF TypeOK
  <2>2. CASE Write(p) \/ Copy(p)
    <3>1. proc[p].next \in 1 .. Size + 1 /\ proc[p].next <= Size
      BY <2>1, <2>2 DEF Write, Receive, Copy, Put, Processes
    <3>2. proc[p].next \in 1 .. Size /\ proc[p].next \in 0 .. Size BY <3>1, SizeAssumption
    <3>3. faults' \in 0 .. MaxFaults BY <1>1, <2>2 DEF Write, Copy, TypeOK
    <3>4. QED BY <2>2, <3>2, <3>3, PutType DEF Write, Receive, Copy
  <2>3. QED BY <1>3, <2>2, BeforeType, RequestType, OpenType, AfterType, RemovePartialType, MoveType DEF Step
<1>4. ASSUME NEW p \in Procs, Fault(p) PROVE TypeInv'
  <2>1. CASE Damaged(p)
    <3>1. 0 \in 0 .. Size BY SizeAssumption
    <3>2. QED BY <1>1, <2>1, <3>1, CountedType, PutType DEF Damaged, Receive
  <2>2. QED BY <1>4, <2>1, FaultType DEF Fault
<1>5. ASSUME NEW t \in Tokens, Revoke(t) PROVE TypeInv'
  <2>1. faults' \in 0 .. MaxFaults BY <1>1, <1>5, CountedType DEF Revoke
  <2>2. QED BY <1>5, <2>1 DEF Revoke, TypeInv, TypeOK, OpenFiles, diskVars
<1>6. CASE UNCHANGED vars
  BY <1>6 DEF vars, serverVars, diskVars, TypeInv, TypeOK, OpenFiles
<1>7. QED BY <1>2, <1>3, <1>4, <1>5, <1>6 DEF Next

\* The files hold chunks of the image or are not there, and the tokens, the attempts
\* and the ranges of every process stay in bounds, whatever the processes do beside
\* one another and whatever fails.
THEOREM TypeCorrect == Spec => []TypeOK
<1>1. TypeInv => TypeOK BY DEF TypeInv
<1>2. QED BY <1>1, TypeInit, TypeNext, PTL DEF Spec

-----------------------------------------------------------------------------
(* One process at a time.                                                   *)

LEMMA DiskInit == Init => DiskInv
<1> SUFFICES ASSUME Init, NEW p \in Procs PROVE DiskInvAt(p)
  BY DEF DiskInv
<1>1. proc[p].pc = "idle" /\ proc[p].cmd = "download" /\ file[p] = "closed"
  BY DEF Init, Idle
<1>2. QED BY <1>1 DEF DiskInvAt, OpenWhileWriting, ImportPath, RangeFits, Checked, Copying, SavesOwnToken

LEMMA OneProcessMoves ==
  ASSUME OneProcess, NEW p \in Procs, DiskInvAt(p)'
  PROVE  DiskInv'
BY DEF OneProcess, DiskInv

LEMMA DiskAt ==
  ASSUME IInv, NEW p \in Procs
  PROVE  DiskInvAt(p) /\ TypeOK /\ proc[p] \in Processes
BY DEF IInv, TypeInv, TypeOK, DiskInv

\* A process that is idle, or at a call before the request of the download, has no file
\* open and relies on nothing that is on the disk.
Early == {"idle", "isAccepted", "confirm", "accept", "setup", "length", "md5", "remove"}

LEMMA EarlyDisk ==
  ASSUME NEW p \in Procs, proc'[p].pc \in Early, proc'[p].cmd # "import", file'[p] = "closed"
  PROVE  DiskInvAt(p)'
BY DEF Early, DiskInvAt, OpenWhileWriting, ImportPath, RangeFits, Checked, Copying, SavesOwnToken

LEMMA ExitDisk ==
  ASSUME IInv, NEW p \in Procs, NEW r, Exit(p, r)
  PROVE  DiskInvAt(p)'
<1>1. proc'[p] = Idle(r) /\ file'[p] = "closed"
  BY DiskAt DEF Exit, Close, TypeOK
<1>2. QED BY <1>1, EarlyDisk DEF Idle, Early

LEMMA AttemptDisk ==
  ASSUME IInv, NEW p \in Procs, NEW r, proc[p].cmd # "import", AttemptFails(p, r)
  PROVE  DiskInvAt(p)'
<1>1. CASE proc[p].left > 1
  <2>1. proc'[p].pc = "length" /\ proc'[p].cmd = proc[p].cmd /\ file'[p] = "closed"
    BY <1>1, DiskAt DEF AttemptFails, Close, TypeOK, Processes
  <2>2. QED BY <2>1, EarlyDisk DEF Early
<1>2. CASE ~(proc[p].left > 1)
  BY <1>2, ExitDisk DEF AttemptFails
<1>3. QED BY <1>1, <1>2

LEMMA BeforeDisk ==
  ASSUME IInv, NEW p \in Procs,
         \/ Invoke(p) \/ Create(p) \/ IsOVACurrent(p) \/ Refused(p) \/ IsEULAAccepted(p) \/ ConfirmEULA(p)
         \/ AcceptEULA(p) \/ AlreadyAccepted(p) \/ Setup(p) \/ Length(p)
  PROVE  DiskInvAt(p)'
<1>1. DiskInvAt(p) /\ TypeOK /\ proc[p] \in Processes BY DiskAt
<1> USE DEF DiskInvAt, OpenWhileWriting, ImportPath, RangeFits, Checked, Copying, SavesOwnToken
<1>2. CASE Invoke(p)
  <2>1. PICK c \in Commands, e \in EnvTokens :
          proc' = [proc EXCEPT ![p] = [Idle(None) EXCEPT !.pc = "create", !.cmd = c, !.env = e]]
    BY <1>2 DEF Invoke
  <2>2. proc'[p].pc = "create" /\ proc'[p].next = 1 /\ file'[p] = "closed"
    BY <1>1, <1>2, <2>1 DEF Invoke, At, Idle, TypeOK
  <2>3. QED BY <2>2
<1>3. CASE Create(p)
  BY <1>1, <1>3 DEF Create, At, TypeOK, Processes
<1>4. CASE IsOVACurrent(p)
  <2>1. CASE IsExpected(ova) BY <1>4, <2>1, ExitDisk DEF IsOVACurrent
  <2>2. CASE ~IsExpected(ova)
    <3>1. CASE proc[p].cmd = "import"
      <4>1. /\ proc[p].pc = "current" /\ proc'[p].pc = "open" /\ proc'[p].cmd = "import"
            /\ proc'[p].next = proc[p].next /\ proc'[p].env = proc[p].env
            /\ ova' = ova /\ ova # Good /\ file'[p] = file[p]
        BY <1>1, <1>4, <2>2, <3>1 DEF IsOVACurrent, IsExpected, At, Goto, TypeOK, Processes, diskVars
      <4>2. QED BY <1>1, <3>1, <4>1
    <3>2. CASE proc[p].cmd # "import"
      BY <1>1, <1>4, <2>2, <3>2 DEF IsOVACurrent, At, Goto, TypeOK, Processes
    <3>3. QED BY <3>1, <3>2
  <2>3. QED BY <2>1, <2>2
<1>5. CASE Refused(p) \/ AlreadyAccepted(p)
  BY <1>5, ExitDisk DEF Refused, AlreadyAccepted
<1>6. CASE IsEULAAccepted(p) \/ ConfirmEULA(p) \/ AcceptEULA(p)
  <2>1. /\ proc[p].pc \in {"isAccepted", "confirm", "accept"}
        /\ proc'[p].pc \in {"confirm", "accept", "setup"}
        /\ proc'[p].cmd = proc[p].cmd /\ file'[p] = file[p]
    BY <1>1, <1>6 DEF IsEULAAccepted, ConfirmEULA, AcceptEULA, Authorized, At, TypeOK, Processes
  <2>2. QED BY <1>1, <2>1, EarlyDisk DEF Early
<1>7. CASE Setup(p)
  BY <1>1, <1>7 DEF Setup, At, TypeOK, Processes
<1>8. CASE Length(p)
  <2>1. LengthOf(partial) \in Nat BY <1>1, LengthOfType DEF TypeOK
  <2>2. /\ proc'[p].pc = "request" /\ proc'[p].cmd = proc[p].cmd
        /\ proc'[p].next = IF LengthOf(partial) >= Size THEN Size + 1 ELSE LengthOf(partial) + 1
    BY <1>1, <1>8 DEF Length, TypeOK, Processes
  <2>3. proc[p].pc = "length" /\ UNCHANGED <<partial, file>>
    BY <1>8 DEF Length, At, diskVars
  <2>4. RangeFits(p)' BY <2>1, <2>2, <2>3, SizeAssumption DEF LengthOf
  <2>5. QED BY <1>1, <2>2, <2>3, <2>4
<1>9. QED BY <1>2, <1>3, <1>4, <1>5, <1>6, <1>7, <1>8

LEMMA RequestDisk ==
  ASSUME IInv, NEW p \in Procs,
         RequestOVA(p) \/ RequestRefused(p) \/ NothingToSend(p) \/ OpenToken(p) \/ FillToken(p)
  PROVE  DiskInvAt(p)'
<1>1. DiskInvAt(p) /\ TypeOK /\ proc[p] \in Processes BY DiskAt
<1> USE DEF DiskInvAt, OpenWhileWriting, ImportPath, RangeFits, Checked, Copying, SavesOwnToken
<1>2. CASE RequestOVA(p)
  <2>1. /\ proc[p].pc = "request" /\ proc[p].next <= Size
        /\ proc'[p].pc = AfterRequest(p) /\ proc'[p].cmd = proc[p].cmd
        /\ proc'[p].next = proc[p].next /\ proc'[p].env = proc[p].env
        /\ UNCHANGED <<partial, file>>
    <3>1. PICK t : proc' = [proc EXCEPT ![p].pc = AfterRequest(p), ![p].tok = t]
      BY <1>2 DEF RequestOVA, Authorized
    <3>2. QED BY <1>1, <1>2, <3>1 DEF RequestOVA, Authorized, At, TypeOK, Processes, diskVars
  <2>2. QED BY <1>1, <2>1 DEF AfterRequest
<1>3. CASE RequestRefused(p) \/ NothingToSend(p)
  <2>1. proc[p].cmd # "import" BY <1>1, <1>3 DEF RequestRefused, NothingToSend, At
  <2>2. QED BY <1>3, <2>1, AttemptDisk DEF RequestRefused, NothingToSend
<1>4. CASE OpenToken(p) \/ FillToken(p)
  <2>1. /\ proc[p].pc \in {"openToken", "fillToken"} /\ proc'[p].pc \in {"fillToken", "open"}
        /\ proc'[p].cmd = proc[p].cmd /\ proc'[p].next = proc[p].next /\ proc'[p].env = proc[p].env
        /\ UNCHANGED <<partial, file>>
    BY <1>1, <1>4 DEF OpenToken, FillToken, SaveToken, At, Goto, TypeOK, Processes
  <2>2. QED BY <1>1, <2>1
<1>5. QED BY <1>2, <1>3, <1>4

LEMMA OpenDisk ==
  ASSUME IInv, NEW p \in Procs, Open(p)
  PROVE  DiskInvAt(p)'
<1>1. DiskInvAt(p) /\ TypeOK /\ proc[p] \in Processes BY DiskAt
<1> USE DEF DiskInvAt, OpenWhileWriting, ImportPath, RangeFits, Checked, Copying, SavesOwnToken
<1>2. <<>> \in Seq(0 .. Size) /\ Len(<<>>) = 0 BY EmptySeq
<1>3. <<>> # NoFile BY <1>2, NoFileIsNoSeq
<1>4. CASE proc[p].cmd = "import"
  <2>1. /\ proc[p].pc = "open" /\ proc'[p].pc = "copy" /\ proc'[p].cmd = "import" /\ proc'[p].next = 1
        /\ file'[p] = "ova" /\ ova' = <<>>
    BY <1>1, <1>4 DEF Open, At, Goto, TypeOK, Processes
  <2>2. QED BY <1>2, <1>3, <2>1
<1>5. CASE proc[p].cmd # "import"
  <2>1. /\ proc[p].pc = "open" /\ proc'[p].pc = "write" /\ proc'[p].cmd # "import"
        /\ proc'[p].next = proc[p].next
        /\ file'[p] = "partial" /\ partial' = (IF partial = NoFile THEN <<>> ELSE partial)
    BY <1>1, <1>5 DEF Open, At, Goto, TypeOK, Processes
  <2>2. LengthOf(partial)' = LengthOf(partial)
    BY <1>2, <1>3, <2>1 DEF LengthOf
  <2>3. QED BY <1>1, <1>5, <2>1, <2>2 DEF Processes
<1>6. QED BY <1>4, <1>5

\* A chunk goes where the next one is expected.
LEMMA PutDisk ==
  ASSUME IInv, NEW p \in Procs, NEW pc \in {"write", "copy"}, NEW chunk \in 0 .. Size,
         pc = "copy" => chunk = proc[p].next,
         Put(p, pc, chunk)
  PROVE  DiskInvAt(p)'
<1>1. DiskInvAt(p) /\ TypeOK /\ OpenFiles /\ proc[p] \in Processes BY DiskAt DEF IInv, TypeInv
<1> USE DEF DiskInvAt, OpenWhileWriting, ImportPath, RangeFits, Checked, Copying, SavesOwnToken
<1>2. /\ proc[p].pc = pc /\ proc[p].next <= Size
      /\ proc'[p].pc = pc /\ proc'[p].cmd = proc[p].cmd /\ proc'[p].env = proc[p].env
      /\ proc'[p].next = proc[p].next + 1 /\ file'[p] = file[p]
  BY <1>1 DEF Put, At, TypeOK, Processes
<1>3. proc[p].next \in 1 .. Size
  BY <1>1, <1>2, SizeAssumption DEF Processes
<1>4. CASE pc = "write"
  <2>1. file[p] = "partial" /\ partial \in Seq(0 .. Size) /\ partial # NoFile
    BY <1>1, <1>2, <1>4 DEF OpenFiles, TypeOK, Files
  <2>2. partial' = Append(partial, chunk) BY <1>4, <2>1 DEF Put
  <2>3. partial' # NoFile /\ Len(partial') = Len(partial) + 1
    BY <2>1, <2>2, AppendedType, NoFileIsNoSeq
  <2>4. LengthOf(partial)' = LengthOf(partial) + 1 BY <2>1, <2>3 DEF LengthOf
  <2>5. LengthOf(partial) \in Nat BY <1>1, LengthOfType DEF TypeOK
  <2>6. QED BY <1>1, <1>2, <1>3, <1>4, <2>1, <2>4, <2>5
<1>5. CASE pc = "copy"
  <2>1. file[p] = "ova" /\ ova \in Seq(0 .. Size) /\ Len(ova) + 1 = chunk
    BY <1>1, <1>2, <1>5 DEF OpenFiles, TypeOK, Files
  <2>2. ova' = Placed(ova, chunk) BY <1>5, <2>1 DEF Put
  <2>3. chunk \in 1 .. Size BY <1>3, <1>5
  <2>4. Len(ova) \in Nat BY <2>1, LenProperties
  <2>5. /\ ova' \in Seq(0 .. Size) /\ Len(ova') = chunk
        /\ \A j \in 1 .. chunk : ova'[j] = IF j = chunk THEN chunk ELSE IF j <= Len(ova) THEN ova[j] ELSE 0
    BY <2>1, <2>2, <2>3, <2>4, PlacedType
  <2>6. \A j \in 1 .. chunk : ova'[j] = j
    BY <1>1, <1>2, <1>5, <2>1, <2>3, <2>4, <2>5
  <2>7. ova' # NoFile BY <2>5, NoFileIsNoSeq
  <2>8. QED BY <1>1, <1>2, <1>5, <2>1, <2>5, <2>6, <2>7
<1>6. QED BY <1>4, <1>5

LEMMA AfterDisk ==
  ASSUME IInv, NEW p \in Procs,
         Received(p) \/ MD5(p) \/ RemovePartial(p) \/ Move(p) \/ MoveFails(p) \/ Copied(p)
  PROVE  DiskInvAt(p)'
<1>1. DiskInvAt(p) /\ TypeOK /\ proc[p] \in Processes BY DiskAt
<1> USE DEF DiskInvAt, OpenWhileWriting, ImportPath, RangeFits, Checked, Copying, SavesOwnToken
<1>2. CASE Received(p)
  <2>1. /\ proc[p].pc = "write" /\ proc'[p].pc = "md5" /\ proc'[p].cmd = proc[p].cmd
        /\ file'[p] = "closed"
    BY <1>1, <1>2 DEF Received, At, Goto, Close, TypeOK, Processes
  <2>2. QED BY <1>1, <2>1, EarlyDisk DEF Early
<1>3. CASE MD5(p)
  <2>1. CASE AfterMD5(p) = "idle" BY <1>3, <2>1, ExitDisk DEF MD5
  <2>2. CASE AfterMD5(p) # "idle"
    <3>1. /\ proc[p].pc = "md5" /\ proc'[p].pc = AfterMD5(p) /\ proc'[p].cmd = proc[p].cmd
          /\ UNCHANGED <<partial, file>>
      BY <1>1, <1>3, <2>2 DEF MD5, At, Goto, TypeOK, Processes, diskVars
    <3>2. AfterMD5(p) = "move" => partial = Good BY DEF AfterMD5, IsExpected
    <3>3. AfterMD5(p) \in {"move", "remove"} BY <2>2 DEF AfterMD5
    <3>4. QED BY <1>1, <3>1, <3>2, <3>3
  <2>3. QED BY <2>1, <2>2
<1>4. CASE RemovePartial(p)
  <2>1. /\ proc[p].pc = "remove" /\ proc'[p].pc = "length" /\ proc'[p].cmd = proc[p].cmd
        /\ file'[p] = "closed"
    BY <1>1, <1>4 DEF RemovePartial, At, TypeOK, Processes
  <2>2. QED BY <1>1, <2>1, EarlyDisk DEF Early
<1>5. CASE Move(p)
  <2>1. proc[p].pc = "move" /\ file[p] = "closed" /\ file'[p] = Renamed("closed")
    BY <1>1, <1>5 DEF Move, At
  <2>2. Renamed("closed") = "closed" BY RenamedType DEF FileNames
  <2>3. proc'[p] = Idle("ok") BY <1>1, <1>5 DEF Move, TypeOK
  <2>4. QED BY <2>1, <2>2, <2>3, EarlyDisk DEF Idle, Early
<1>6. CASE MoveFails(p) \/ Copied(p)
  BY <1>6, ExitDisk DEF MoveFails, Copied
<1>7. QED BY <1>2, <1>3, <1>4, <1>5, <1>6

LEMMA FaultDisk ==
  ASSUME IInv, NEW p \in Procs, CallFails(p) \/ Declines(p) \/ Killed(p)
  PROVE  DiskInvAt(p)'
<1>1. CASE CallFails(p)
  <2>1. CASE proc[p].pc \in Attempted /\ proc[p].cmd = "download"
    BY <1>1, <2>1, AttemptDisk DEF CallFails
  <2>2. CASE ~(proc[p].pc \in Attempted /\ proc[p].cmd = "download")
    BY <1>1, <2>2, ExitDisk DEF CallFails
  <2>3. QED BY <2>1, <2>2
<1>2. CASE Declines(p) \/ Killed(p)
  BY <1>2, ExitDisk DEF Declines, Killed
<1>3. QED BY <1>1, <1>2

LEMMA DiskNext ==
  ASSUME OneProcess, IInv, [Next]_vars
  PROVE  DiskInv'
<1>1. ASSUME NEW p \in Procs, Invoke(p) \/ Step(p) \/ Fault(p) PROVE DiskInvAt(p)'
  <2>1. proc[p] \in Processes BY DiskAt
  <2>2. CASE Write(p) \/ Copy(p) \/ Damaged(p)
    <3>1. proc[p].next \in 0 .. Size /\ 0 \in 0 .. Size
      BY <2>1, <2>2, SizeAssumption DEF Write, Receive, Copy, Damaged, Put, Processes
    <3>2. QED BY <2>2, <3>1, PutDisk DEF Write, Receive, Copy, Damaged
  <2>3. QED BY <1>1, <2>2, BeforeDisk, RequestDisk, OpenDisk, AfterDisk, FaultDisk DEF Step, Fault
<1>2. CASE \E p \in Procs : Invoke(p) \/ Step(p) \/ Fault(p)
  BY <1>1, <1>2, OneProcessMoves
<1>3. CASE (\E t \in Tokens : Revoke(t)) \/ UNCHANGED vars
  <2>1. UNCHANGED <<ova, partial, proc, file>> BY <1>3 DEF Revoke, vars, diskVars
  <2>2. QED
    BY <2>1 DEF IInv, DiskInv, DiskInvAt, OpenWhileWriting, ImportPath, RangeFits, Checked, Copying, SavesOwnToken
<1>4. QED BY <1>2, <1>3 DEF Next

LEMMA IInvInductive == ASSUME OneProcess PROVE Spec => []IInv
<1>1. Init => IInv BY TypeInit, DiskInit DEF IInv
<1>2. IInv /\ [Next]_vars => IInv' BY TypeNext, DiskNext DEF IInv
<1>3. QED BY <1>1, <1>2, PTL DEF Spec

\* What the server sends is appended where the range it was asked for starts, in every
\* attempt and after every interruption.
THEOREM ResumesCorrect == ASSUME OneProcess PROVE Spec => []ResumesAtTheEnd
<1>1. IInv => ResumesAtTheEnd
  BY DEF IInv, DiskInv, DiskInvAt, RangeFits, ResumesAtTheEnd
<1>2. QED BY <1>1, IInvInductive, PTL

-----------------------------------------------------------------------------
(* What ends up in OVADir.                                                  *)

Installed(p) == /\ Returns(p, "ok") => ova' = Good
                /\ At(p, "move") /\ ova' # ova => ova' = Good

\* A step that neither ends with "ok" nor writes the image.
LEMMA NotInstalled ==
  ASSUME NEW p \in Procs, proc[p].pc = "idle" \/ proc'[p].pc # "idle" \/ proc'[p].result # "ok",
         ova' = ova \/ proc[p].pc # "move"
  PROVE  Installed(p)
BY DEF Installed, Returns, At

LEMMA FailureInstallsNothing ==
  ASSUME TypeOK, NEW p \in Procs, NEW r \in {"err", "refused", "killed"}, Exit(p, r) \/ AttemptFails(p, r)
  PROVE  proc'[p].pc # "idle" \/ proc'[p].result # "ok"
<1>1. CASE Exit(p, r) BY <1>1 DEF Exit, Idle, TypeOK
<1>2. CASE AttemptFails(p, r)
  BY <1>2, SizeAssumption DEF AttemptFails, Exit, Idle, TypeOK, Processes
<1>3. QED BY <1>1, <1>2

LEMMA AuthorizedMoves ==
  ASSUME TypeOK, NEW p \in Procs, NEW from, NEW to, to # "idle", Authorized(p, from, to)
  PROVE  proc'[p].pc # "idle" /\ ova' = ova
<1>1. PICK t : proc' = [proc EXCEPT ![p].pc = to, ![p].tok = t] BY DEF Authorized
<1>2. QED BY <1>1 DEF Authorized, diskVars, TypeOK, Processes

LEMMA StepInstalls ==
  ASSUME IInv, NEW p \in Procs, Invoke(p) \/ Step(p) \/ Fault(p)
  PROVE  Installed(p)
<1>1. DiskInvAt(p) /\ TypeOK /\ proc[p] \in Processes BY DiskAt
<1>2. CASE Invoke(p) BY <1>2, NotInstalled DEF Invoke, At, diskVars
<1>3. CASE Create(p) \/ Setup(p) \/ Length(p) \/ OpenToken(p) \/ FillToken(p) \/ RemovePartial(p)
  <2>1. proc'[p].pc # "idle" /\ ova' = ova
    BY <1>1, <1>3 DEF Create, Setup, Length, OpenToken, FillToken, SaveToken, RemovePartial, Goto, TypeOK,
                      Processes, diskVars
  <2>2. QED BY <2>1, NotInstalled
<1>4. CASE IsOVACurrent(p)
  <2>1. ova' = ova BY <1>4 DEF IsOVACurrent, diskVars
  <2>2. CASE ova = Good BY <2>1, <2>2 DEF Installed
  <2>3. CASE ova # Good
    <3>1. proc'[p].pc # "idle"
      BY <1>1, <1>4, <2>3 DEF IsOVACurrent, IsExpected, Goto, TypeOK, Processes
    <3>2. QED BY <2>1, <3>1, NotInstalled
  <2>4. QED BY <2>2, <2>3
<1>5. CASE Refused(p) \/ RequestRefused(p) \/ NothingToSend(p) \/ AlreadyAccepted(p) \/ MoveFails(p)
  <2>1. proc'[p].pc # "idle" \/ proc'[p].result # "ok"
    BY <1>1, <1>5, FailureInstallsNothing DEF Refused, RequestRefused, NothingToSend, AlreadyAccepted, MoveFails
  <2>2. ova' = ova
    BY <1>5 DEF Refused, RequestRefused, NothingToSend, AlreadyAccepted, MoveFails, Unauthorized, diskVars
  <2>3. QED BY <2>1, <2>2, NotInstalled
<1>6. CASE IsEULAAccepted(p) \/ ConfirmEULA(p) \/ AcceptEULA(p) \/ RequestOVA(p)
  <2>1. proc'[p].pc # "idle" /\ ova' = ova
    BY <1>1, <1>6, AuthorizedMoves DEF IsEULAAccepted, ConfirmEULA, AcceptEULA, RequestOVA, AfterRequest
  <2>2. QED BY <2>1, NotInstalled
<1>7. CASE Open(p) \/ Write(p) \/ Copy(p) \/ Damaged(p) \/ Received(p)
  <2>1. proc[p].pc \in {"open", "write", "copy"} /\ proc'[p].pc # "idle"
    BY <1>1, <1>7 DEF Open, Write, Receive, Copy, Damaged, Put, Received, At, Goto, TypeOK, Processes
  <2>2. QED BY <2>1, NotInstalled
<1>8. CASE MD5(p)
  <2>1. ova' = ova BY <1>8 DEF MD5, diskVars
  <2>2. CASE AfterMD5(p) = "idle"
    BY <1>1, <1>8, <2>1, <2>2, FailureInstallsNothing, NotInstalled DEF MD5
  <2>3. CASE AfterMD5(p) # "idle"
    <3>1. proc'[p].pc # "idle" BY <1>1, <1>8, <2>3 DEF MD5, Goto, TypeOK, Processes
    <3>2. QED BY <2>1, <3>1, NotInstalled
  <2>4. QED BY <2>2, <2>3
<1>9. CASE Move(p)
  <2>1. ova' = Good BY <1>1, <1>9 DEF Move, At, DiskInvAt, Checked
  <2>2. QED BY <2>1 DEF Installed
\* The last chunk is in its place, and with it every one before it.
<1>10. CASE Copied(p)
  <2>1. /\ proc[p].pc = "copy" /\ proc[p].next > Size /\ proc[p].next \in 1 .. Size + 1
        /\ ova' = ova
    BY <1>1, <1>10 DEF Copied, At, diskVars, Processes
  <2>2. ova # NoFile /\ Len(ova) + 1 = proc[p].next /\ \A i \in 1 .. Len(ova) : ova[i] = i
    BY <1>1, <2>1 DEF DiskInvAt, Copying
  <2>3. ova \in Seq(0 .. Size) BY <1>1, <2>2 DEF TypeOK, Files
  <2>4. Len(ova) = Size BY <2>1, <2>2, <2>3, LenProperties, SizeAssumption
  <2>5. ova = [i \in 1 .. Len(ova) |-> ova[i]] BY <2>3, SeqDef, LenProperties
  <2>6. ova = Good BY <2>2, <2>4, <2>5 DEF Good
  <2>7. QED BY <2>1, <2>6 DEF Installed
<1>11. CASE CallFails(p) \/ Declines(p) \/ Killed(p)
  <2>1. proc'[p].pc # "idle" \/ proc'[p].result # "ok"
    BY <1>1, <1>11, FailureInstallsNothing DEF CallFails, Declines, Killed
  <2>2. ova' = ova BY <1>11 DEF CallFails, Declines, Killed, diskVars
  <2>3. QED BY <2>1, <2>2, NotInstalled
<1>12. QED
  BY <1>2, <1>3, <1>4, <1>5, <1>6, <1>7, <1>8, <1>9, <1>10, <1>11 DEF Step, Fault

LEMMA NextInstalls ==
  ASSUME OneProcess, IInv, [Next]_vars, NEW p \in Procs
  PROVE  Installed(p)
<1>1. CASE \E q \in Procs : Invoke(q) \/ Step(q) \/ Fault(q)
  BY <1>1, StepInstalls DEF OneProcess
<1>2. CASE (\E t \in Tokens : Revoke(t)) \/ UNCHANGED vars
  BY <1>2, NotInstalled DEF Revoke, vars, diskVars
<1>3. QED BY <1>1, <1>2 DEF Next

\* A command that reports success leaves the expected image in OVADir, and a download
\* renames nothing else to it, whatever was interrupted, damaged or left over.
THEOREM InstalledCorrect == ASSUME OneProcess PROVE Spec => InstalledIsExpected
<1>1. IInv /\ [Next]_vars => [\A p \in Procs : Installed(p)]_vars
  BY NextInstalls
<1>2. QED BY <1>1, IInvInductive, PTL DEF Spec, InstalledIsExpected, Installed

-----------------------------------------------------------------------------
(* Every step is one of ImageStore or none of its variables changes.          *)

CommandOf == [p \in Procs |-> IF At(p, "idle") THEN "none" ELSE proc[p].cmd]
ResultOf  == [p \in Procs |-> proc[p].result]

StoreStep == [Store!Next]_(Store!storeVars)

\* A process goes on.
LEMMA StoreGoesOn ==
  ASSUME OneProcess, NEW p \in Procs, proc[p].pc # "idle", proc'[p].pc # "idle",
         proc'[p].cmd = proc[p].cmd, proc'[p].result = proc[p].result
  PROVE  CommandOf' = CommandOf /\ ResultOf' = ResultOf
<1>1. \A q \in Procs : /\ (IF At(q, "idle") THEN "none" ELSE proc[q].cmd)' =
                            (IF At(q, "idle") THEN "none" ELSE proc[q].cmd)
                       /\ proc'[q].result = proc[q].result
  BY DEF OneProcess, At
<1>2. QED BY <1>1 DEF CommandOf, ResultOf

LEMMA StoreStays ==
  ASSUME OneProcess, NEW p \in Procs, proc[p].pc # "idle", proc'[p].pc # "idle",
         proc'[p].cmd = proc[p].cmd, proc'[p].result = proc[p].result, ova' = ova
  PROVE  StoreStep
<1>1. CommandOf' = CommandOf /\ ResultOf' = ResultOf BY StoreGoesOn
<1>2. ImageState' = ImageState BY DEF ImageState
<1>3. QED BY <1>1, <1>2 DEF StoreStep, Store!storeVars, CommandOf, ResultOf

\* Its command ends.
LEMMA StoreEnds ==
  ASSUME OneProcess, TypeOK, NEW p \in Procs, NEW r,
         proc[p].pc # "idle", proc'[p].pc = "idle", proc'[p].result = r
  PROVE  Store!Ends(p, r)
<1>1. proc[p].cmd \in {"download", "import"} BY DEF TypeOK, Processes
<1>2. CommandOf[p] # "none" BY <1>1 DEF CommandOf, At
<1>3. CommandOf' = [CommandOf EXCEPT ![p] = "none"]
  BY DEF CommandOf, At, OneProcess
<1>4. ResultOf' = [ResultOf EXCEPT ![p] = r]
  BY DEF ResultOf, OneProcess
<1>5. QED BY <1>2, <1>3, <1>4 DEF Store!Ends, CommandOf, ResultOf

LEMMA StoreFails ==
  ASSUME OneProcess, TypeOK, NEW p \in Procs, NEW r \in {"err", "refused", "killed"}, proc[p].pc # "idle",
         Exit(p, r) \/ AttemptFails(p, r), ova' = ova
  PROVE  StoreStep
<1>1. CASE proc' = [proc EXCEPT ![p] = Idle(r)]
  <2>1. proc'[p].pc = "idle" /\ proc'[p].result = r BY <1>1 DEF Idle, TypeOK
  <2>2. Store!Ends(p, r) BY <2>1, StoreEnds
  <2>3. ImageState' = ImageState BY DEF ImageState
  <2>4. QED BY <2>2, <2>3 DEF StoreStep, Store!Next, Store!Fails
<1>2. CASE proc' = [proc EXCEPT ![p].pc = "length", ![p].left = @ - 1]
  BY <1>2, StoreStays DEF TypeOK, Processes
<1>3. QED BY <1>1, <1>2 DEF Exit, AttemptFails

LEMMA GoodHasAll == Good \in Seq(0 .. Size) /\ Len(Good) = Size
BY GoodIsFile, SizeAssumption DEF Good

\* An import writes only where no good image is.
LEMMA StoreCopies ==
  ASSUME OneProcess, TypeOK, TypeOK', NEW p \in Procs, proc[p].cmd = "import",
         proc[p].pc # "idle", proc'[p].pc # "idle",
         proc'[p].cmd = proc[p].cmd, proc'[p].result = proc[p].result,
         ova # Good, ova' # NoFile
  PROVE  StoreStep
<1>1. CommandOf' = CommandOf /\ ResultOf' = ResultOf BY StoreGoesOn
<1>2. CommandOf[p] = "import" BY DEF CommandOf, At
<1>3. ImageState # "expected" BY DEF ImageState
<1>4. ImageState' \in {"broken", "expected"} BY DEF ImageState
<1>5. Store!Copies(p) BY <1>1, <1>2, <1>3, <1>4 DEF Store!Copies, CommandOf, ResultOf
<1>6. QED BY <1>5 DEF StoreStep, Store!Next

LEMMA StepStores ==
  ASSUME OneProcess, IInv, IInv', NEW p \in Procs, Invoke(p) \/ Step(p) \/ Fault(p)
  PROVE  StoreStep
<1>1. DiskInvAt(p) /\ TypeOK /\ OpenFiles /\ proc[p] \in Processes BY DiskAt DEF IInv, TypeInv
<1>2. TypeOK' /\ OpenFiles' BY DEF IInv, TypeInv
<1>3. CASE Invoke(p)
  <2>1. PICK c \in Commands, e \in EnvTokens :
          proc' = [proc EXCEPT ![p] = [Idle(None) EXCEPT !.pc = "create", !.cmd = c, !.env = e]]
    BY <1>3 DEF Invoke
  <2>2. /\ proc[p].pc = "idle" /\ proc'[p].pc = "create" /\ proc'[p].cmd = c
        /\ proc'[p].result = "none" /\ ova' = ova
    BY <1>1, <1>3, <2>1 DEF Invoke, At, Idle, TypeOK, None, diskVars
  <2>3. c \in {"download", "import"} BY CommandsAssumption
  <2>4. CommandOf[p] = "none" BY <2>2 DEF CommandOf, At
  <2>5. CommandOf' = [CommandOf EXCEPT ![p] = c] BY <2>2 DEF CommandOf, At, OneProcess
  <2>6. ResultOf' = [ResultOf EXCEPT ![p] = "none"] BY <2>2 DEF ResultOf, OneProcess
  <2>7. ImageState' = ImageState BY <2>2 DEF ImageState
  <2>8. Store!Starts(p) BY <2>3, <2>4, <2>5, <2>6, <2>7 DEF Store!Starts, CommandOf, ResultOf
  <2>9. QED BY <2>8 DEF StoreStep, Store!Next
<1>4. CASE Create(p) \/ Setup(p) \/ Length(p) \/ OpenToken(p) \/ FillToken(p) \/ RemovePartial(p) \/ Received(p)
  <2>1. /\ proc[p].pc # "idle" /\ proc'[p].pc # "idle" /\ ova' = ova
        /\ proc'[p].cmd = proc[p].cmd /\ proc'[p].result = proc[p].result
    BY <1>1, <1>4 DEF Create, Setup, Length, OpenToken, FillToken, SaveToken, RemovePartial, Received, At, Goto,
                      TypeOK, Processes, diskVars
  <2>2. QED BY <2>1, StoreStays
<1>5. CASE IsOVACurrent(p)
  <2>1. ova' = ova /\ proc[p].pc # "idle" BY <1>5 DEF IsOVACurrent, At, diskVars
  <2>2. CASE ova = Good
    <3>1. proc'[p].pc = "idle" /\ proc'[p].result = "ok"
      BY <1>1, <1>5, <2>2 DEF IsOVACurrent, IsExpected, Exit, Idle, TypeOK
    <3>2. Store!Ends(p, "ok") BY <1>1, <2>1, <3>1, StoreEnds
    <3>3. ImageState = "expected" /\ ImageState' = ImageState
      BY <2>1, <2>2, GoodIsFile DEF ImageState
    <3>4. QED BY <3>2, <3>3 DEF StoreStep, Store!Next, Store!IsThere
  <2>3. CASE ova # Good
    <3>1. proc'[p].pc # "idle" /\ proc'[p].cmd = proc[p].cmd /\ proc'[p].result = proc[p].result
      BY <1>1, <1>5, <2>3 DEF IsOVACurrent, IsExpected, Goto, TypeOK, Processes
    <3>2. QED BY <2>1, <3>1, StoreStays
  <2>4. QED BY <2>2, <2>3
<1>6. CASE Refused(p) \/ RequestRefused(p) \/ NothingToSend(p) \/ AlreadyAccepted(p) \/ MoveFails(p)
  <2>1. ova' = ova /\ proc[p].pc # "idle"
    BY <1>6 DEF Refused, RequestRefused, NothingToSend, AlreadyAccepted, MoveFails, Unauthorized, At, diskVars
  <2>2. \E r \in {"err", "refused", "killed"} : Exit(p, r) \/ AttemptFails(p, r)
    BY <1>6 DEF Refused, RequestRefused, NothingToSend, AlreadyAccepted, MoveFails
  <2>3. QED BY <1>1, <2>1, <2>2, StoreFails
<1>7. CASE IsEULAAccepted(p) \/ ConfirmEULA(p) \/ AcceptEULA(p) \/ RequestOVA(p)
  <2>1. \E from \in PCs \ {"idle"}, to \in PCs \ {"idle"} : Authorized(p, from, to)
    BY <1>7 DEF IsEULAAccepted, ConfirmEULA, AcceptEULA, RequestOVA, AfterRequest, PCs
  <2>2. /\ proc[p].pc # "idle" /\ proc'[p].pc # "idle" /\ ova' = ova
        /\ proc'[p].cmd = proc[p].cmd /\ proc'[p].result = proc[p].result
    BY <1>1, <2>1 DEF Authorized, At, TypeOK, Processes, diskVars
  <2>3. QED BY <2>2, StoreStays
<1>8. CASE Open(p)
  <2>1. /\ proc[p].pc = "open" /\ proc'[p].pc # "idle"
        /\ proc'[p].cmd = proc[p].cmd /\ proc'[p].result = proc[p].result
        /\ ova' = IF proc[p].cmd = "import" THEN <<>> ELSE ova
    BY <1>1, <1>8 DEF Open, At, Goto, TypeOK, Processes
  <2>2. CASE proc[p].cmd = "import"
    <3>1. ova # Good BY <1>1, <2>1, <2>2 DEF DiskInvAt, ImportPath
    <3>2. <<>> # NoFile BY EmptySeq, NoFileIsNoSeq
    <3>3. QED BY <1>1, <1>2, <2>1, <2>2, <3>1, <3>2, StoreCopies
  <2>3. CASE proc[p].cmd # "import" BY <2>1, <2>3, StoreStays
  <2>4. QED BY <2>2, <2>3
<1>9. CASE Write(p) \/ Damaged(p)
  <2>1. /\ proc[p].pc = "write" /\ proc'[p].pc = "write"
        /\ proc'[p].cmd = proc[p].cmd /\ proc'[p].result = proc[p].result
    BY <1>1, <1>9 DEF Write, Damaged, Receive, Put, At, TypeOK, Processes
  <2>2. file[p] = "partial" BY <1>1, <2>1 DEF DiskInvAt, OpenWhileWriting
  <2>3. ova' = ova BY <1>9, <2>2 DEF Write, Damaged, Receive, Put
  <2>4. QED BY <2>1, <2>3, StoreStays
<1>10. CASE Copy(p)
  <2>1. /\ proc[p].pc = "copy" /\ proc'[p].pc = "copy" /\ proc[p].next <= Size
        /\ proc'[p].cmd = proc[p].cmd /\ proc'[p].result = proc[p].result /\ file'[p] = file[p]
    BY <1>1, <1>10 DEF Copy, Put, At, TypeOK, Processes
  <2>2. /\ proc[p].cmd = "import" /\ file[p] = "ova"
        /\ ova # NoFile /\ Len(ova) + 1 = proc[p].next
    BY <1>1, <2>1 DEF DiskInvAt, ImportPath, OpenWhileWriting, Copying
  <2>3. ova # Good BY <2>1, <2>2, GoodHasAll, SizeAssumption
  <2>4. ova' # NoFile BY <1>2, <2>1, <2>2 DEF OpenFiles
  <2>5. QED BY <1>1, <1>2, <2>1, <2>2, <2>3, <2>4, StoreCopies
<1>11. CASE MD5(p)
  <2>1. ova' = ova /\ proc[p].pc # "idle" BY <1>11 DEF MD5, At, diskVars
  <2>2. CASE AfterMD5(p) = "idle" BY <1>1, <1>11, <2>1, <2>2, StoreFails DEF MD5
  <2>3. CASE AfterMD5(p) # "idle"
    <3>1. proc'[p].pc # "idle" /\ proc'[p].cmd = proc[p].cmd /\ proc'[p].result = proc[p].result
      BY <1>1, <1>11, <2>3 DEF MD5, Goto, TypeOK, Processes
    <3>2. QED BY <2>1, <3>1, StoreStays
  <2>4. QED BY <2>2, <2>3
<1>12. CASE Move(p)
  <2>1. proc[p].pc = "move" /\ proc'[p].pc = "idle" /\ proc'[p].result = "ok" /\ ova' = Good
    BY <1>1, <1>12 DEF Move, At, DiskInvAt, Checked, Idle, TypeOK
  <2>2. proc[p].cmd = "download" BY <1>1, <2>1 DEF DiskInvAt, ImportPath, Processes
  <2>3. CommandOf[p] = "download" BY <2>1, <2>2 DEF CommandOf, At
  <2>4. Store!Ends(p, "ok") BY <1>1, <2>1, StoreEnds
  <2>5. ImageState' = "expected" BY <2>1, GoodIsFile DEF ImageState
  <2>6. Store!Replaces(p) BY <2>3, <2>4, <2>5 DEF Store!Replaces, CommandOf
  <2>7. QED BY <2>6 DEF StoreStep, Store!Next
<1>13. CASE Copied(p)
  <2>1. proc[p].pc # "idle" /\ proc'[p].pc = "idle" /\ proc'[p].result = "ok" /\ ova' = ova
    BY <1>1, <1>13 DEF Copied, At, Exit, Idle, TypeOK, diskVars
  <2>2. ova' = Good BY <2>1, StepInstalls DEF Installed, Returns
  <2>3. ImageState = "expected" /\ ImageState' = ImageState BY <2>1, <2>2, GoodIsFile DEF ImageState
  <2>4. Store!Ends(p, "ok") BY <1>1, <2>1, StoreEnds
  <2>5. QED BY <2>3, <2>4 DEF StoreStep, Store!Next, Store!IsThere
<1>14. CASE CallFails(p) \/ Declines(p) \/ Killed(p)
  <2>1. ova' = ova /\ proc[p].pc # "idle" BY <1>14 DEF CallFails, Declines, Killed, At, diskVars
  <2>2. \E r \in {"err", "refused", "killed"} : Exit(p, r) \/ AttemptFails(p, r)
    BY <1>14 DEF CallFails, Declines, Killed
  <2>3. QED BY <1>1, <2>1, <2>2, StoreFails
<1>15. QED
  BY <1>3, <1>4, <1>5, <1>6, <1>7, <1>8, <1>9, <1>10, <1>11, <1>12, <1>13, <1>14 DEF Step, Fault

\* With one process at a time the image is that of ImageStore: a download installs it
\* in one step, and nothing that follows takes an expected image away.
THEOREM StoreImplemented == ASSUME OneProcess PROVE Spec => ImplementsStore
<1>1. Init => Store!Init
  BY DEF Init, Store!Init, ImageState, At, Idle, None
<1>2. ASSUME OneProcess, IInv, IInv', [Next]_vars PROVE StoreStep
  <2>1. CASE \E p \in Procs : Invoke(p) \/ Step(p) \/ Fault(p)
    BY <1>2, <2>1, StepStores
  <2>2. CASE (\E t \in Tokens : Revoke(t)) \/ UNCHANGED vars
    <3>1. UNCHANGED <<proc, ova>> BY <2>2 DEF Revoke, vars, diskVars
    <3>2. QED BY <3>1 DEF StoreStep, Store!storeVars, ImageState, At
  <2>3. QED BY <1>2, <2>1, <2>2 DEF Next
<1>3. OneProcess /\ IInv /\ IInv' /\ [Next]_vars => [Store!Next]_(Store!storeVars)
  BY <1>2 DEF StoreStep
<1>4. QED BY <1>1, <1>3, IInvInductive, PTL DEF Spec, ImplementsStore, Store!Spec

-----------------------------------------------------------------------------
(* PIVNET_TOKEN.                                                            *)

LEMMA EnvTokenStep ==
  ASSUME IInv, NEW p \in Procs, Invoke(p) \/ Step(p) \/ Fault(p), proc[p].env # None
  PROVE  UNCHANGED tokenFile
<1>1. SavesOwnToken(p) BY DiskAt DEF DiskInvAt
<1>2. CASE OpenToken(p) \/ FillToken(p)
  BY <1>1, <1>2 DEF OpenToken, FillToken, SaveToken, At, SavesOwnToken
<1>3. CASE Refused(p) \/ RequestRefused(p)
  BY <1>3 DEF Refused, RequestRefused, Unauthorized, DestroyToken
<1>4. CASE Invoke(p) \/ Fault(p)
  BY <1>4 DEF Invoke, Fault, CallFails, Damaged, Receive, Put, Declines, Killed, diskVars
<1>5. CASE Step(p)
  BY <1>2, <1>3, <1>5
     DEF Step, Create, IsOVACurrent, IsEULAAccepted, ConfirmEULA, AcceptEULA, Authorized, AlreadyAccepted,
         Setup, Length, RequestOVA, NothingToSend, Open, Write, Receive, Put, Received, MD5, RemovePartial,
         Move, MoveFails, Copy, Copied, diskVars
<1>6. QED BY <1>4, <1>5

\* A process started with PIVNET_TOKEN neither writes the token file nor removes it.
THEOREM EnvTokenCorrect == ASSUME OneProcess PROVE Spec => EnvTokenStaysOut
<1>1. ASSUME OneProcess, IInv, [Next]_vars, NEW p \in Procs, proc[p].env # None
      PROVE  UNCHANGED tokenFile
  <2>1. CASE \E q \in Procs : Invoke(q) \/ Step(q) \/ Fault(q)
    BY <1>1, <2>1, EnvTokenStep DEF OneProcess
  <2>2. CASE (\E t \in Tokens : Revoke(t)) \/ UNCHANGED vars
    BY <2>2 DEF Revoke, vars, diskVars
  <2>3. QED BY <1>1, <2>1, <2>2 DEF Next
<1>2. IInv /\ [Next]_vars => [\A p \in Procs : proc[p].env # None => UNCHANGED tokenFile]_vars
  BY <1>1
<1>3. QED BY <1>2, IInvInductive, PTL DEF Spec, EnvTokenStaysOut
=============================================================================
