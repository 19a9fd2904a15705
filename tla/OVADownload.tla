---------------------------- MODULE OVADownload ----------------------------
(***************************************************************************)
(* `cf dev download`, the download of `cf dev start`, and `cf dev import`:  *)
(* how the image of the VM gets into OVADir.  The image is Size chunks, a   *)
(* file is the sequence of the chunks in it, and 0 is a chunk that is not    *)
(* what the server holds.  A download appends to <name>.ova.partial, starts  *)
(* where that file ends, checks the whole file and renames it.  As in        *)
(* PCFDevCLI every invocation is a process and nothing locks the files.      *)
(***************************************************************************)
EXTENDS Naturals, Sequences

CONSTANTS Procs,      \* plugin processes that can be alive at the same time
          Commands,   \* what they are started for
          Size,       \* chunks of the image
          Attempts,   \* DownloadAttempts
          Tokens,     \* API tokens of the user at Pivotal Network
          EnvTokens,  \* values of PIVNET_TOKEN a process may be started with
          Faults,     \* the faults a behaviour may contain
          MaxFaults   \* bound on their number

None == "none"   \* no token
Torn == "torn"   \* a token file that was truncated and not yet refilled

AllFaults == {"cut",      \* the connection breaks
              "disk",     \* a call to the file system fails
              "corrupt",  \* a chunk arrives damaged
              "crash",    \* a process is killed
              "revoke",   \* Pivotal Network replaces a token
              "decline"}  \* the user refuses the EULA

ASSUME SizeAssumption == Size \in Nat \ {0} /\ Attempts \in Nat \ {0} /\ MaxFaults \in Nat
ASSUME TokensAssumption == {None, Torn} \cap Tokens = {} /\ EnvTokens \subseteq Tokens \cup {None}
ASSUME CommandsAssumption == Commands \subseteq {"download", "import"}
ASSUME FaultsAssumption == Faults \subseteq AllFaults

VARIABLES
  ova,        \* OVADir/<name>.ova
  partial,    \* OVADir/<name>.ova.partial
  tokenFile,  \* PCFDevHome/token
  valid,      \* tokens Pivotal Network accepts
  eula,       \* Pivotal Network has the user's acceptance
  proc,       \* the memory of each process, see Processes
  file,       \* the name that the file a process has open goes by now
  faults      \* faults so far

serverVars == <<valid, eula>>
diskVars   == <<ova, partial, tokenFile>>
vars       == <<serverVars, diskVars, proc, file, faults>>

Good   == [i \in 1 .. Size |-> i]
NoFile == <<Size + 1>>   \* not a sequence of chunks
Files  == Seq(0 .. Size) \cup {NoFile}

PCs == {"idle", "create", "current", "isAccepted", "confirm", "accept", "setup", "length", "request",
        "openToken", "fillToken", "open", "write", "md5", "remove", "move", "copy"}

Processes ==
  [pc     : PCs,                                        \* the call it makes next
   result : {None, "ok", "err", "refused", "killed"},   \* how its last invocation ended
   cmd    : {"download", "import"},
   env    : Tokens \cup {None},                         \* its PIVNET_TOKEN
   tok    : Tokens \cup {None},                         \* Token.token, kept once it is known
   kind   : {"full", "partial"},                        \* what DownloaderFactory.Create made
   again  : BOOLEAN,                                    \* in PartialDownloader's second Download
   left   : 0 .. Attempts,                              \* attempts ExecuteWithAttempts has left
   next   : 1 .. Size + 1]                              \* the chunk that comes next

TypeOK ==
  /\ ova \in Files /\ partial \in Files
  /\ tokenFile \in Tokens \cup {None, Torn}
  /\ valid \in SUBSET Tokens /\ eula \in BOOLEAN
  /\ proc \in [Procs -> Processes]
  /\ file \in [Procs -> {"closed", "partial", "ova", "unlinked"}]
  /\ faults \in 0 .. MaxFaults

Idle(r) == [pc |-> "idle", result |-> r, cmd |-> "download", env |-> None, tok |-> None,
            kind |-> "full", again |-> FALSE, left |-> 0, next |-> 1]

Init ==
  /\ ova = NoFile /\ partial = NoFile /\ tokenFile = None
  /\ valid = Tokens /\ eula = FALSE
  /\ proc = [p \in Procs |-> Idle(None)]
  /\ file = [p \in Procs |-> "closed"]
  /\ faults = 0

At(p, pc)   == proc[p].pc = pc
Goto(p, to) == proc' = [proc EXCEPT ![p].pc = to]
Close(p)    == file' = [file EXCEPT ![p] = "closed"]
Exit(p, r)  == proc' = [proc EXCEPT ![p] = Idle(r)] /\ Close(p)

Invoke(p) ==
  /\ At(p, "idle")
  /\ \E c \in Commands, e \in EnvTokens :
       proc' = [proc EXCEPT ![p] = [Idle(None) EXCEPT !.pc = "create", !.cmd = c, !.env = e]]
  /\ UNCHANGED <<serverVars, diskVars, file, faults>>

-----------------------------------------------------------------------------
(* DownloadCmd.Run and ImportCmd.Run up to the download or the copy.         *)

\* Which Downloader is decided once, by the partial file that is there now.
Create(p) ==
  /\ At(p, "create")
  /\ proc' = [proc EXCEPT ![p].pc = "current",
                          ![p].kind = IF partial = NoFile THEN "full" ELSE "partial"]
  /\ UNCHANGED <<serverVars, diskVars, file, faults>>

IsExpected(f) == f = Good

\* Variant: an import overwrites whatever there is.
ImportsAnyway(p) ==
  /\ At(p, "current")
  /\ IF IsExpected(ova) /\ proc[p].cmd = "download"
     THEN Exit(p, "ok")
     ELSE Goto(p, IF proc[p].cmd = "import" THEN "open" ELSE "isAccepted") /\ UNCHANGED file
  /\ UNCHANGED <<serverVars, diskVars, faults>>

IsOVACurrent(p) ==
  /\ At(p, "current")
  /\ IF IsExpected(ova)
     THEN Exit(p, "ok")
     ELSE Goto(p, IF proc[p].cmd = "import" THEN "open" ELSE "isAccepted") /\ UNCHANGED file
  /\ UNCHANGED <<serverVars, diskVars, faults>>

\* Client.GetToken: for a name and a password, a token that is accepted now.
GetToken == valid

\* Token.Get: the token in memory, else PIVNET_TOKEN, else the file, else the user
\* signs in.
TokensFor(p) == IF proc[p].tok # None THEN {proc[p].tok}
                ELSE IF proc[p].env # None THEN {proc[p].env}
                ELSE IF tokenFile # None THEN {tokenFile}
                ELSE GetToken

\* Variant: a rejected token stays on disk.
KeepToken(p) == tokenFile

\* Token.Destroy: the file goes, whoever wrote it, unless PIVNET_TOKEN is in use.
DestroyToken(p) == IF proc[p].env # None THEN tokenFile ELSE None

\* A fault happens: see the end of the module.
Counted(fault) == /\ fault \in Faults
                  /\ faults < MaxFaults
                  /\ faults' = faults + 1

\* 401: the token is destroyed; when that fails, its error is ignored.
Unauthorized(p) ==
  /\ \E t \in TokensFor(p) : t \notin valid
  /\ \/ tokenFile' = DestroyToken(p) /\ UNCHANGED faults
     \/ proc[p].env = None /\ Counted("disk") /\ UNCHANGED tokenFile
  /\ UNCHANGED <<ova, partial, serverVars>>

\* IsEULAAccepted, GetEULA and AcceptEULA end the command when they are refused.
Refused(p) ==
  /\ proc[p].pc \in {"isAccepted", "confirm", "accept"}
  /\ Unauthorized(p)
  /\ Exit(p, "refused")

Authorized(p, from, to) ==
  /\ At(p, from)
  /\ \E t \in TokensFor(p) \cap valid : proc' = [proc EXCEPT ![p].pc = to, ![p].tok = t]
  /\ UNCHANGED <<valid, diskVars, file, faults>>

IsEULAAccepted(p) == Authorized(p, "isAccepted", IF eula THEN "setup" ELSE "confirm") /\ UNCHANGED eula
ConfirmEULA(p)    == Authorized(p, "confirm", "accept") /\ UNCHANGED eula
AcceptEULA(p)     == ~eula /\ Authorized(p, "accept", "setup") /\ eula' = TRUE

\* When another process has accepted it meanwhile, the answer holds no EULA.
AlreadyAccepted(p) == /\ At(p, "accept") /\ eula
                      /\ TokensFor(p) \cap valid # {}
                      /\ Exit(p, "err")
                      /\ UNCHANGED <<serverVars, diskVars, faults>>

-----------------------------------------------------------------------------
(* Download of the FullDownloader and of the PartialDownloader.              *)

Setup(p) ==
  /\ At(p, "setup")
  /\ proc' = [proc EXCEPT ![p].pc = "length", ![p].left = Attempts]
  /\ UNCHANGED <<serverVars, diskVars, file, faults>>

\* Variant: starts at the first byte whatever there is.
LengthZero(f) == 0

LengthOf(f) == IF f = NoFile THEN 0 ELSE Len(f)

\* The range starts behind what the partial file holds; beyond the end of the
\* image the server has nothing to send.
Length(p) ==
  /\ At(p, "length")
  /\ proc' = [proc EXCEPT ![p].pc = "request",
                          ![p].next = IF LengthOf(partial) >= Size THEN Size + 1 ELSE LengthOf(partial) + 1]
  /\ UNCHANGED <<serverVars, diskVars, file, faults>>

\* Variant: an attempt that fails does not count.
RetryForever(p, r) == proc' = [proc EXCEPT ![p].pc = "length"] /\ Close(p)

\* Variant: one attempt too many.
AttemptTooMany(p, r) ==
  IF proc[p].left >= 0
  THEN proc' = [proc EXCEPT ![p].pc = "length", ![p].left = @ - 1] /\ Close(p)
  ELSE Exit(p, r)

\* ExecuteWithAttempts: an attempt failed with error r.
AttemptFails(p, r) ==
  IF proc[p].left > 1
  THEN proc' = [proc EXCEPT ![p].pc = "length", ![p].left = @ - 1] /\ Close(p)
  ELSE Exit(p, r)

\* Variant: Save does not ask where the token came from.
SaveAlways(p) == "openToken"

AfterRequest(p) == IF proc[p].env = None THEN "openToken" ELSE "open"

RequestOVA(p) ==
  /\ proc[p].next <= Size
  /\ Authorized(p, "request", AfterRequest(p))
  /\ UNCHANGED eula

RequestRefused(p) ==
  /\ At(p, "request")
  /\ Unauthorized(p)
  /\ AttemptFails(p, "refused")

\* 416 Requested Range Not Satisfiable.
NothingToSend(p) ==
  /\ At(p, "request")
  /\ proc[p].next > Size
  /\ TokensFor(p) \cap valid # {}
  /\ AttemptFails(p, "err")
  /\ UNCHANGED <<serverVars, diskVars, faults>>

\* Token.Save, after the server has accepted the token.
SaveToken(p, from, to, content) ==
  /\ At(p, from)
  /\ Goto(p, to)
  /\ tokenFile' = content
  /\ UNCHANGED <<serverVars, ova, partial, file, faults>>

OpenToken(p) == SaveToken(p, "openToken", "fillToken", Torn)
FillToken(p) == SaveToken(p, "fillToken", "open", proc[p].tok)

\* FS.Write opens: a download appends, an import truncates and starts over.
Open(p) ==
  /\ At(p, "open")
  /\ IF proc[p].cmd = "import"
     THEN /\ Goto(p, "copy")
          /\ ova' = <<>> /\ UNCHANGED partial
          /\ file' = [file EXCEPT ![p] = "ova"]
     ELSE /\ Goto(p, "write")
          /\ partial' = (IF partial = NoFile THEN <<>> ELSE partial) /\ UNCHANGED ova
          /\ file' = [file EXCEPT ![p] = "partial"]
  /\ UNCHANGED <<serverVars, tokenFile, faults>>

\* ImportCmd copies a file whose MD5 it has checked, chunk by chunk, each to its place.
Placed(f, i) == [j \in 1 .. (IF Len(f) < i THEN i ELSE Len(f)) |->
                   IF j = i THEN i ELSE IF j <= Len(f) THEN f[j] ELSE 0]

\* One more chunk is written; the file may have been renamed or removed since.
Put(p, pc, chunk) ==
  LET Into(f) == IF pc = "copy" THEN Placed(f, chunk) ELSE Append(f, chunk) IN
  /\ At(p, pc)
  /\ proc[p].next <= Size
  /\ proc' = [proc EXCEPT ![p].next = @ + 1]
  /\ ova' = IF file[p] = "ova" THEN Into(ova) ELSE ova
  /\ partial' = IF file[p] = "partial" THEN Into(partial) ELSE partial
  /\ UNCHANGED <<serverVars, tokenFile, file>>

Receive(p, chunk) == Put(p, "write", chunk)

Write(p) == Receive(p, proc[p].next) /\ UNCHANGED faults

Received(p) ==
  /\ At(p, "write")
  /\ proc[p].next > Size
  /\ Goto(p, "md5")
  /\ Close(p)
  /\ UNCHANGED <<serverVars, diskVars, faults>>

\* Variant: what was completed after an interruption is not checked.
UncheckedResume(p) == IF IsExpected(partial) \/ proc[p].kind = "partial" THEN "move" ELSE "idle"

\* A FullDownloader gives up at once, a PartialDownloader after a second download.
AfterMD5(p) == IF IsExpected(partial) THEN "move"
               ELSE IF partial # NoFile /\ proc[p].kind = "partial" /\ ~proc[p].again THEN "remove"
               ELSE "idle"

MD5(p) ==
  /\ At(p, "md5")
  /\ IF AfterMD5(p) = "idle" THEN Exit(p, "err") ELSE Goto(p, AfterMD5(p)) /\ UNCHANGED file
  /\ UNCHANGED <<serverVars, diskVars, faults>>

RemovePartial(p) ==
  /\ At(p, "remove")
  /\ proc' = [proc EXCEPT ![p].pc = "length", ![p].again = TRUE, ![p].left = Attempts]
  /\ partial' = NoFile
  /\ file' = [q \in Procs |-> IF file[q] = "partial" THEN "unlinked" ELSE file[q]]
  /\ UNCHANGED <<serverVars, ova, tokenFile, faults>>

Renamed(f) == CASE f = "partial" -> "ova" [] f = "ova" -> "unlinked" [] OTHER -> f

\* The rename takes the files that other processes still write to with it.
Move(p) ==
  /\ At(p, "move")
  /\ partial # NoFile
  /\ ova' = partial /\ partial' = NoFile
  /\ proc' = [proc EXCEPT ![p] = Idle("ok")]
  /\ file' = [q \in Procs |-> Renamed(file[q])]
  /\ UNCHANGED <<serverVars, tokenFile, faults>>

MoveFails(p) == /\ At(p, "move") /\ partial = NoFile
                /\ Exit(p, "err")
                /\ UNCHANGED <<serverVars, diskVars, faults>>

Copy(p) == Put(p, "copy", proc[p].next) /\ UNCHANGED faults

Copied(p) == /\ At(p, "copy")
             /\ proc[p].next > Size
             /\ Exit(p, "ok")
             /\ UNCHANGED <<serverVars, diskVars, faults>>

-----------------------------------------------------------------------------
(* Faults.                                                                   *)

\* The calls that ExecuteWithAttempts repeats.
Attempted == {"length", "request", "openToken", "fillToken", "open", "write"}

Online(p) == \/ proc[p].pc \in {"isAccepted", "confirm", "accept", "request"}
             \/ At(p, "write") /\ proc[p].next <= Size

CallFails(p) ==
  /\ ~At(p, "idle")
  /\ Counted(IF Online(p) THEN "cut" ELSE "disk")
  /\ IF proc[p].pc \in Attempted /\ proc[p].cmd = "download" THEN AttemptFails(p, "err") ELSE Exit(p, "err")
  /\ UNCHANGED <<serverVars, diskVars>>

Damaged(p) == Counted("corrupt") /\ Receive(p, 0)

Declines(p) == /\ At(p, "confirm")
               /\ Counted("decline")
               /\ Exit(p, "err")
               /\ UNCHANGED <<serverVars, diskVars>>

Killed(p) == /\ ~At(p, "idle")
             /\ Counted("crash")
             /\ Exit(p, "killed")
             /\ UNCHANGED <<serverVars, diskVars>>

\* The account is left with a token to sign in for.
Revoke(t) == /\ t \in valid /\ valid # {t}
             /\ Counted("revoke")
             /\ valid' = valid \ {t}
             /\ UNCHANGED <<eula, diskVars, proc, file>>

-----------------------------------------------------------------------------

Step(p) == \/ Create(p) \/ IsOVACurrent(p) \/ Refused(p) \/ IsEULAAccepted(p) \/ ConfirmEULA(p)
           \/ AcceptEULA(p) \/ AlreadyAccepted(p) \/ Setup(p) \/ Length(p) \/ RequestOVA(p)
           \/ RequestRefused(p) \/ NothingToSend(p) \/ OpenToken(p) \/ FillToken(p) \/ Open(p)
           \/ Write(p) \/ Received(p) \/ MD5(p) \/ RemovePartial(p) \/ Move(p) \/ MoveFails(p)
           \/ Copy(p) \/ Copied(p)

Fault(p) == CallFails(p) \/ Damaged(p) \/ Declines(p) \/ Killed(p)

Next == \/ \E p \in Procs : Invoke(p) \/ Step(p) \/ Fault(p)
        \/ \E t \in Tokens : Revoke(t)

Spec == Init /\ [][Next]_vars

\* A process runs to the end of its command.
FairSpec == Spec /\ \A p \in Procs : WF_vars(Step(p))

\* And the user enters the command again when it has failed.
RetrySpec == FairSpec /\ \A p \in Procs : WF_vars(Invoke(p))

-----------------------------------------------------------------------------
(* Properties.                                                               *)

Returns(p, r) == proc[p].pc # "idle" /\ proc'[p].pc = "idle" /\ proc'[p].result = r

(* A command that reports success leaves the expected image in OVADir, and    *)
(* a download puts nothing else there, whatever was interrupted, damaged or    *)
(* left by earlier invocations (full_downloader.go:29,                        *)
(* partial_downloader.go:29-42).                                              *)
InstalledIsExpected ==
  [][\A p \in Procs : /\ Returns(p, "ok") => ova' = Good
                      /\ At(p, "move") /\ ova' # ova => ova' = Good]_vars

(* What the server sends is appended where the range it was asked for starts:  *)
(* the partial file neither grows nor shrinks between the two                  *)
(* (concrete_ova_downloader.go:80-98).                                        *)
ResumesAtTheEnd ==
  \A p \in Procs : /\ proc[p].pc = "write" => LengthOf(partial) + 1 = proc[p].next
                   /\ proc[p].pc = "open" /\ proc[p].cmd = "download" => LengthOf(partial) + 1 = proc[p].next

(* PIVNET_TOKEN comes from outside: a process started with it neither saves    *)
(* it nor removes the token of the user's other sessions (token.go:77-88).     *)
EnvTokenStaysOut == [][\A p \in Procs : proc[p].env # None => UNCHANGED tokenFile]_vars

(* To the user the image changes as in ImageStore: a download replaces it at    *)
(* once or not at all, whatever it took, and once it is the expected one no     *)
(* command that follows, fails or is killed takes it away (download.go,         *)
(* import.go:39-56, full_downloader.go:29).                                   *)
ImageState == IF ova = NoFile THEN "none" ELSE IF ova = Good THEN "expected" ELSE "broken"

Store == INSTANCE ImageStore WITH image   <- ImageState,
                                  command <- [p \in Procs |-> IF At(p, "idle") THEN "none" ELSE proc[p].cmd],
                                  result  <- [p \in Procs |-> proc[p].result]

ImplementsStore == Store!Spec

(* Every command ends, whatever fails and whoever else downloads: attempts     *)
(* are counted and there is no third download.                                *)
CommandsEnd == \A p \in Procs : proc[p].pc # "idle" ~> proc[p].pc = "idle"

(* A user who tries again gets the image in the end: neither a broken          *)
(* connection, a refused EULA nor a token that is no longer valid, even one     *)
(* that could not be removed, stands in the way for good (client.go:58-60,     *)
(* token.go:85-99).  He does not only when, from some time on, the partial      *)
(* file is complete and stays so, or his own PIVNET_TOKEN is refused.          *)
Stuck == LengthOf(partial) >= Size \/ ~(EnvTokens \subseteq valid \cup {None})

InstallsUnlessStuck == <>(ova = Good) \/ <>[]Stuck

(* A user who tries again gets the image in the end, whatever a download left  *)
(* behind: when the MD5 does not match, the file is removed and downloaded     *)
(* again (partial_downloader.go:29-37).                                       *)
Installs == <>(ova = Good)
=============================================================================
