---------------------------- MODULE PackageUpload ----------------------------
(***************************************************************************)
(* The .ipa branch of runAction (ideviceinstaller.c): the application is   *)
(* looked for in the archive, its Info.plist read, and the archive sent to *)
(* the phone by afc_upload_file, which reports every buffer through        *)
(* installAppSendCallback (native-lib.c) to the service's ProgressSender.  *)
(*                                                                         *)
(* An entry of the archive is known by the kind of its name:               *)
(*   "other"  not below Payload/, "hidden" Payload/. and more,             *)
(*   "dir"    Payload/ and a directory, "stray" a plain file in Payload/.  *)
(* The bytes of the package are numbered, so that the phone's copy shows   *)
(* what was stored and in which order.  Names and plists are left out.     *)
(***************************************************************************)
EXTENDS Integers, Sequences

CONSTANTS
    MaxEntries,  \* bound: entries of an archive
    MaxSize,     \* bound: bytes of a package
    BufferSize,  \* bytes afc_upload_file reads at a time
    Width        \* counters are modulo this number, 2^32 in the code

ASSUME SizesAssumption ==
    /\ MaxEntries \in Nat /\ MaxSize \in Nat \ {0}
    /\ BufferSize \in Nat \ {0} /\ Width \in Nat \ {0}

VARIABLES
    pc,        \* where runAction is
    archive,   \* the names of its entries
    size,      \* the bytes of the package
    i,         \* the next entry to look at
    app,       \* the entry whose path was taken, or 0
    opened,    \* which of "zip", "local" and "remote" are open
    position,  \* bytes read from the package
    readError, \* fread failed, or found less than there had been
    amount, total,   \* bytes of the buffer, and of its writes so far
    short,     \* some write stored less than it was given
    remote,    \* the phone's copy
    sendCount, \* send_count
    late,      \* half a second has passed since the ProgressSender was made
    told,      \* the last report the client got, or << >>
    pending,   \* a report raised an exception, which native code ignores
    missed     \* no client was connected for the last report that was due

scanVars == <<archive, i, app>>
bufferVars == <<position, readError, amount>>
writeVars == <<total, short, remote>>
reportVars == <<sendCount, late, told, pending, missed>>
vars == <<pc, size, opened, scanVars, bufferVars, writeVars, reportVars>>

EntryKinds == {"other", "hidden", "dir", "stray"}
Pcs == {"scan", "info", "open", "fill", "write", "close",
        "install", "failed", "dead"}

\* What a client is told: nothing yet, or how much was sent, of how much.
Counts == 0 .. (Width - 1)
Reports == {<< >>} \cup Counts \X Counts

Smaller(m, n) == IF m < n THEN m ELSE n

\* The buffers that so many bytes fill, the last of them perhaps in part.
Buffers(bytes) == (bytes + BufferSize - 1) \div BufferSize

Init ==
    /\ pc = "scan" /\ opened = {"zip"}
    /\ archive \in UNION {[1..n -> EntryKinds] : n \in 0..MaxEntries}
    /\ size \in 0..MaxSize
    /\ i = 1 /\ app = 0
    /\ position = 0 /\ readError = FALSE /\ amount = 0
    /\ total = 0 /\ short = FALSE /\ remote = << >>
    /\ sendCount = 0 /\ late = FALSE /\ told = << >>
    /\ pending = FALSE /\ missed = FALSE

-----------------------------------------------------------------------------
(* zip_get_app_directory.                                                  *)

\* Mutant: the search goes on after an application was found.
LastAppCounts(kind) == IF kind = "dir" /\ i < Len(archive) THEN "scan" ELSE "info"

\* The search ends at the first path that it takes.
AfterMatch(kind) == "info"

\* The entry is a file right in Payload/: there is no second delimiter, and
\* the test for the end of the search, p++ != NULL, never stops it.  It ends
\* at some '/' beyond the name, or the process dies; strncpy then takes no
\* more than the name.
Match ==
    /\ pc = "scan"
    /\ i <= Len(archive) /\ archive[i] \in {"dir", "stray"}
    /\ \/ pc' = AfterMatch(archive[i]) /\ app' = i /\ UNCHANGED opened
       \/ archive[i] = "stray" /\ pc' = "dead" /\ opened' = {} /\ UNCHANGED app
    /\ i' = i + 1
    /\ UNCHANGED <<archive, size, bufferVars, writeVars, reportVars>>

\* Other names and hidden files.  An archive without entries has no name 1.
Skip ==
    /\ pc = "scan"
    /\ i <= Len(archive) => archive[i] \notin {"dir", "stray"}
    /\ i' = i + 1
    /\ pc' = IF i < Len(archive) THEN "scan" ELSE "failed"
    /\ UNCHANGED <<archive, app, size, opened, bufferVars, writeVars, reportVars>>

\* zip_get_contents of its Info.plist, which may be missing, too large,
\* unreadable, no plist or without an executable; then the archive is closed.
\* The name of a stray file with Info.plist behind it is in no archive.
ReadInfo ==
    /\ pc = "info"
    /\ \/ archive[app] = "dir" /\ pc' = "open" /\ UNCHANGED opened
       \/ pc' = "failed" /\ opened' = opened \ {"zip"}
    /\ UNCHANGED <<size, scanVars, bufferVars, writeVars, reportVars>>

-----------------------------------------------------------------------------
(* afc_upload_file.                                                        *)

\* fopen or afc_file_open fails.
OpenFails ==
    /\ pc = "open"
    /\ pc' = "failed"
    /\ UNCHANGED <<size, opened, scanVars, bufferVars, writeVars, reportVars>>

OpenFiles ==
    /\ pc = "open"
    /\ pc' = "fill"
    /\ opened' = opened \cup {"local", "remote"}
    /\ UNCHANGED <<size, scanVars, bufferVars, writeVars, reportVars>>

\* Mutant: the loop ends at the size of the package, not at an empty read.
FillToSize ==
    /\ pc = "fill"
    /\ \E n \in 0 .. Smaller(BufferSize, size - position) :
         /\ readError => n = 0
         /\ amount' = n /\ position' = position + n
         /\ readError' = (readError \/ n < Smaller(BufferSize, size - position))
         /\ pc' = IF n = 0 /\ position = size THEN "close" ELSE "write"
    /\ total' = 0
    /\ UNCHANGED <<size, opened, scanVars, short, remote, reportVars>>

\* fread.  One that fails is the end of the file to the loop, with what was
\* read before.
Fill ==
    /\ pc = "fill"
    /\ \E n \in 0 .. Smaller(BufferSize, size - position) :
         /\ readError => n = 0
         /\ amount' = n /\ position' = position + n
         /\ readError' = (readError \/ n < Smaller(BufferSize, size - position))
         /\ pc' = IF n = 0 THEN "close" ELSE "write"
    /\ total' = 0
    /\ UNCHANGED <<size, opened, scanVars, short, remote, reportVars>>

\* Mutant: every buffer is filled from the start of the package.
BytesFromStart(n) == [k \in 1..n |-> k]

\* The n bytes that a write of the buffer stores.  The buffer is given from
\* its start, whatever an earlier write has stored of it.
Bytes(n) == [k \in 1..n |-> position - amount + k]

\* Mutants: what a write stored is not looked at; what it stored beyond the
\* buffer is not counted.
AssumeAllStored(n) == total' = amount
CountToAmount(n) == total' = Smaller(amount, total + n)

CountStored(n) == total' = total + n

\* afc_file_write stores n of the bytes and reports no error.
WriteSome(n) ==
    /\ pc = "write" /\ total < amount
    /\ remote' = remote \o Bytes(n)
    /\ short' = (short \/ n < amount)
    /\ CountStored(n)
    /\ UNCHANGED <<pc, size, opened, scanVars, bufferVars, reportVars>>

Write == \E n \in 0..amount : WriteSome(n)

\* Mutants: the remote file is left open when a write failed; the archive,
\* which runAction still has open, is closed with them.
CloseLocalOnly == opened' = opened \ {"local"}
CloseAll == opened' = {}

CloseBoth == opened' = opened \ {"local", "remote"}

\* afc_file_write fails, or the writes stored more than the buffer.
WriteFails ==
    /\ pc = "write"
    /\ total # amount
    /\ pc' = "failed"
    /\ CloseBoth
    /\ UNCHANGED <<size, scanVars, bufferVars, writeVars, reportVars>>

\* Mutant: only what comes late is reported.
DueWhenLate(count) == late'

\* ProgressSender.deviceIpaSend: lastReportedTime stays that of its creation.
Due(count) == count = size % Width \/ late'

\* Mutants: send_count is as wide as the size; it counts one buffer only.
CountWide == sendCount + amount
CountBuffer == amount % Width

CountAfter == (sendCount + amount) % Width

\* sendMessage: without a client nothing is told, a client that died leaves an
\* exception pending.
Tell(report) ==
    \/ told' = report /\ missed' = FALSE /\ UNCHANGED pending
    \/ pending' = TRUE /\ UNCHANGED <<told, missed>>
    \/ missed' = TRUE /\ UNCHANGED <<told, pending>>

\* send_count, and the callback with the counts in 32 bits.  Calling Java with
\* an exception pending is undefined.
ReportBuffer ==
    /\ pc = "write" /\ total = amount
    /\ sendCount' = CountAfter
    /\ late' \in {late, TRUE}
    /\ IF Due(sendCount')
       THEN Tell(<<sendCount', size % Width>>)
       ELSE UNCHANGED <<told, pending, missed>>
    /\ \/ pc' = "fill" /\ UNCHANGED opened
       \/ pending /\ pc' = "dead" /\ opened' = {}
    /\ UNCHANGED <<size, scanVars, bufferVars, writeVars>>

\* The end of afc_upload_file; runAction closes the archive and sends the
\* command.
Close ==
    /\ pc = "close"
    /\ pc' = "install"
    /\ opened' = opened \ {"local", "remote", "zip"}
    /\ UNCHANGED <<size, scanVars, bufferVars, writeVars, reportVars>>

Step ==
    \/ Match \/ Skip \/ ReadInfo \/ OpenFails \/ OpenFiles
    \/ Fill \/ Write \/ WriteFails \/ ReportBuffer \/ Close

Spec == Init /\ [][Step]_vars

\* The caller's thread runs, and a phone that goes on storing nothing without
\* an error is not a phone.
StoreSomething == \E n \in 1..amount : WriteSome(n)
FairSpec == Spec /\ WF_vars(Step) /\ SF_vars(StoreSomething)

-----------------------------------------------------------------------------
(* What Installer says of an archive, in terms of this module: a piece is  *)
(* a buffer, handled when it was reported.                                 *)

Handled ==
    Buffers(IF pc \in {"write", "failed", "dead"} THEN position - amount ELSE position)

Coarse == INSTANCE Installer WITH
    Kinds <- {"ipa"}, Chunks <- Buffers(MaxSize), MaxCalls <- 1,
    pc <- CASE pc \in {"scan", "info"}                  -> "read"
            [] pc \in {"open", "fill", "write", "close"} -> "upload"
            [] pc = "install"                           -> "send"
            [] pc = "failed"                            -> "cleanup"
            [] pc = "dead"                              -> "dead",
    kind <- "ipa", tried <- Handled, stored <- Handled,
    ptr <- [device |-> "live", client |-> "null", service |-> "live",
            ipc |-> "live", afc |-> "live", udid |-> "live",
            zip |-> IF "zip" \in opened \/ pc = "dead" THEN "live" ELSE "null"],
    leaked <- {}, twice <- {}, calls <- 1, res <- 1, result <- -2,
    completed <- FALSE, errOccurred <- FALSE, connected <- FALSE,
    ignoring <- FALSE, awaiting <- FALSE, worker <- "none", reply <- "none",
    attached <- TRUE, unplugged <- FALSE, subscribed <- FALSE, removal <- FALSE

-----------------------------------------------------------------------------
Uploading == pc \in {"fill", "write", "close"}
Ended == pc \in {"install", "failed", "dead"}

TypeOK ==
    /\ pc \in Pcs
    /\ archive \in Seq(EntryKinds) /\ size \in Nat
    /\ i \in 1 .. (Len(archive) + 2) /\ app \in 0 .. Len(archive)
    /\ opened \subseteq {"zip", "local", "remote"}
    /\ position \in 0..size /\ readError \in BOOLEAN
    /\ amount \in 0 .. Smaller(BufferSize, position)
    /\ total \in 0 .. 2 * BufferSize /\ short \in BOOLEAN
    /\ remote \in Seq(1..size)
    /\ sendCount \in Counts /\ told \in Reports
    /\ late \in BOOLEAN /\ pending \in BOOLEAN /\ missed \in BOOLEAN

\* The application is the first one in the archive, unless a stray file stands
\* before it.
FirstApplication ==
    /\ app # 0 => archive[app] \in {"dir", "stray"}
         /\ \A k \in 1 .. (app - 1) : archive[k] \notin {"dir", "stray"}
    /\ pc = "failed" /\ app = 0 => \A k \in 1 .. Len(archive) : archive[k] # "dir"

\* The phone is told to install a file as long as the package, even if it
\* stored less than it was given at times; a shorter one only if the package
\* could not be read to its end, which runAction does not notice.
SameLength ==
    pc = "install" => Len(remote) <= size /\ (readError \/ Len(remote) = size)

\* Unless a write was short, the phone's copy is the beginning of the package.
\* A short write may leave some bytes twice instead of others, but the damage
\* stays inside the buffer: what is installed has every byte in its buffer.
CopyOfPackage ==
    /\ short \/ remote = [k \in 1 .. Len(remote) |-> k]
    /\ pc = "install" =>
         \A k \in 1 .. Len(remote) : Buffers(remote[k]) = Buffers(k)

\* While the counters do not overflow, "all sent" is told only when the phone
\* has stored at least as much as the package holds, short writes and failed
\* reads included.
AllSentIsTrue ==
    size < Width /\ told # << >> /\ told[1] = told[2] => Len(remote) >= size

\* An upload that read the whole package told its client the whole size at the
\* end, unless that client was gone or there was nothing to send.
EndIsTold ==
    pc = "install" /\ ~readError /\ ~pending /\ ~missed /\ size > 0 =>
        told = <<size % Width, size % Width>>

\* The counts a client is told never go down while they do not overflow.
ProgressGrows ==
    [][size < Width /\ told # << >> => told'[1] >= told[1]]_vars

\* afc_upload_file closes both files however it ends, and the archive is
\* closed when the command is sent.
FilesClosed ==
    /\ opened \cap {"local", "remote"} # {} => Uploading
    /\ pc = "install" => opened = {}

\* The search and the upload end.
UploadEnds == <>Ended

\* The search and the upload are what Installer makes of them: buffers stored
\* one after the other, and an end that leaves the archive as Installer says.
ImplementsInstaller ==
    [][Coarse!ReadArchive \/ Coarse!StoreBuffer \/ Coarse!UploadFails
       \/ Coarse!Crash \/ Coarse!CloseArchive]_(Coarse!vars)

\* ideviceinstaller.c:272, "try next entry if not found": a plain file in
\* Payload/ does not hide the application behind it.
StrayEntrySkipped == pc = "info" => archive[app] = "dir"
=============================================================================
