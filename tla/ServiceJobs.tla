----------------------------- MODULE ServiceJobs -----------------------------
(***************************************************************************)
(* The jobs clients give UsbCommunicationService: installing a package     *)
(* (installIphoneApp) and asking an iPhone for its permission and details  *)
(* (readIphonePermission), with the native calls they make.                *)
(*                                                                         *)
(* A job is a coroutine on the main thread.  It copies its package and     *)
(* installs it on IO threads; the permission poll and the device report    *)
(* (device_permission.c, ideviceinfo.c) block the main thread.  Between    *)
(* the two stands UsbCommandProcessor, taken from its abstract             *)
(* specification DaemonLease, which CommandProcessor implements.           *)
(*                                                                         *)
(* All packages go through one file name, temp_app.ipa.  The model keeps   *)
(* the name apart from the files it stands for one after the other:        *)
(* deleting the name does not stop whoever has the file open.  A process   *)
(* or service that ended is followed by a new one.                         *)
(***************************************************************************)
EXTENDS Naturals, Sequences

CONSTANTS
    Installs, Checks,   \* the jobs; each is given at most once
    None                \* no job, no file

ASSUME JobsAssumption ==
    /\ Installs \cap Checks = {}
    /\ None \notin Installs \cup Checks

Jobs == Installs \cup Checks

VARIABLES
    phone,      \* "absent", "undecided" (locked or asking) or "trusted"
    pc,         \* where each job is
    cancelled,  \* unfinished jobs of a service that was destroyed
    rivals,     \* unfinished installs that shared temp_app.ipa with another
    waiting, lease, running, leaked,   \* UsbCommandProcessor
    tempFile,   \* the file temp_app.ipa stands for, or None
    authors,    \* whose bytes are in a file; it is named by its creator
    writing,    \* the file a job copies to
    source,     \* the file runAction has open
    inspected,  \* what it found the bundle identifier in,
    uploaded,   \* and what it sent: the authors of each
    reports,    \* checks whose report file is on disk
    written,    \* exportDeviceInfo wrote the report
    handles     \* idevice and lockdown handles of the native call

leaseVars == <<waiting, lease, running, leaked>>
copyVars == <<tempFile, authors, writing>>
readVars == <<source, inspected, uploaded>>
callVars == <<reports, written, handles>>
vars == <<phone, pc, cancelled, rivals, leaseVars, copyVars, readVars, callVars>>

Processor == INSTANCE DaemonLease WITH Sessions <- Jobs, NoSession <- None

Installing == {"archive", "open", "upload", "install"}
OnMain == {"handshake", "details", "pair", "query", "read"}
\* "left": it did not get to its end, be it answered or not.
Ended == {"idle", "done", "left"}
\* A holder that may wait for ever: it missed Started, or stop() was not heard.
DeadEnds == {"missed", "unstopped"}
Pcs == {"delete", "create", "write", "copied", "copyFailed", "queued", "starting",
        "lookup", "returned", "stopped", "remove", "reply"}
       \cup Installing \cup OnMain \cup DeadEnds \cup Ended

\* From its first delete() of temp_app.ipa to its last.
Using(i) == pc[i] \notin Ended \cup {"reply"}

Init ==
    /\ phone = "absent" /\ pc = [j \in Jobs |-> "idle"]
    /\ cancelled = {} /\ rivals = {}
    /\ Processor!Init
    /\ tempFile = None
    /\ authors = [i \in Installs |-> {}] /\ writing = [i \in Installs |-> None]
    /\ source = None /\ inspected = {} /\ uploaded = {}
    /\ reports = {} /\ written = FALSE /\ handles = {}

\* A step of job j, on an IO thread or on a main thread that is free.
Step(j, from, to) ==
    /\ pc[j] \in from
    /\ pc' = [pc EXCEPT ![j] = to]
    /\ cancelled' = IF to \in Ended THEN cancelled \ {j} ELSE cancelled
    /\ UNCHANGED phone
OnIO(j, from, to) ==
    Step(j, from, to) /\ UNCHANGED <<rivals, leaseVars, callVars>>
MainFree == \A j \in Jobs : pc[j] \notin OnMain
Resumes(j, from, to) ==
    /\ MainFree
    /\ Step(j, from, to)
    /\ UNCHANGED <<copyVars, readVars, callVars>>
\* An install that ends shares its file no longer.
Leaves(j, from, to) ==
    /\ Resumes(j, from, to)
    /\ rivals' = IF to \in Ended THEN rivals \ {j} ELSE rivals

-----------------------------------------------------------------------------
(* The phone and its user, the end of the service.                         *)

PhoneMoves == [absent |-> {"undecided", "trusted"},
               undecided |-> {"absent", "trusted"}, trusted |-> {"absent"}]

PhoneStep ==
    /\ phone' \in PhoneMoves[phone]
    /\ UNCHANGED <<pc, cancelled, rivals, leaseVars, copyVars, readVars, callVars>>

\* onDestroy: scope.cancel().  A waiter leaves the mutex at once; the other
\* jobs learn of it when they are next resumed.
DestroyService ==
    /\ MainFree
    /\ pc' = [j \in Jobs |-> IF pc[j] = "queued" THEN "left" ELSE pc[j]]
    /\ cancelled' = {j \in Jobs : pc'[j] \notin Ended}
    /\ rivals' = {i \in rivals : pc'[i] \notin Ended}
    /\ Processor!CancelWaiting
    /\ UNCHANGED <<phone, copyVars, readVars, callVars>>

-----------------------------------------------------------------------------
(* Commands: handleMessage, up to the launch of the coroutine.             *)

\* runWithDevice has no reply for a device that is gone.  An install that
\* names no package is answered at once.
Decline(j) ==
    /\ phone = "absent" \/ j \in Installs
    /\ Resumes(j, {"idle"}, "done")
    /\ UNCHANGED <<rivals, leaseVars>>

AskPermission(j) ==
    /\ j \in Checks /\ phone # "absent"
    /\ Resumes(j, {"idle"}, "queued")
    /\ Processor!Request(j)
    /\ UNCHANGED rivals

\* Mutant: permission checks count as users of the file.
MeetEverybody(j) ==
    LET others == {i \in Jobs : Using(i)}
    IN  rivals' = IF others = {} THEN rivals ELSE rivals \cup others \cup {j}

MeetRivals(j) ==
    LET others == {i \in Installs : Using(i)}
    IN  rivals' = IF others = {} THEN rivals ELSE rivals \cup others \cup {j}

AskInstall(j) ==
    /\ j \in Installs /\ phone # "absent"
    /\ Resumes(j, {"idle"}, "delete")
    /\ MeetRivals(j)
    /\ UNCHANGED leaseVars

-----------------------------------------------------------------------------
(* Copying the package to temp_app.ipa, on an IO thread.                   *)

\* Mutant: a file that is already there is not deleted.
DeleteNothing(j) ==
    OnIO(j, {"delete"}, "create") /\ UNCHANGED <<copyVars, readVars>>

DeleteOld(j) ==
    /\ OnIO(j, {"delete"}, "create")
    /\ tempFile' = None
    /\ UNCHANGED <<authors, writing, readVars>>

\* outputStream() makes the file, or empties the one that another job has
\* made since the delete, even while runAction reads it.
CreateFile(j) ==
    LET f == IF tempFile = None THEN j ELSE tempFile
    IN  /\ OnIO(j, {"create"}, "write")
        /\ tempFile' = f
        /\ authors' = [authors EXCEPT ![f] = {}]
        /\ writing' = [writing EXCEPT ![j] = f]
        /\ UNCHANGED <<source, inspected>>
        /\ uploaded' = IF source = f THEN {} ELSE uploaded

\* The resolver has no stream for the package: nothing is copied.
NoStream(j) ==
    OnIO(j, {"create"}, "copied") /\ UNCHANGED <<copyVars, readVars>>

\* All of the package is written, or, when the copy fails, some of it, which
\* counts as bytes of nobody.
FinishCopy(j) ==
    \E whole \in BOOLEAN :
        LET author == IF whole THEN j ELSE None
        IN  /\ OnIO(j, {"write"}, IF whole THEN "copied" ELSE "copyFailed")
            /\ authors' = [authors EXCEPT ![writing[j]] = @ \cup {author}]
            /\ uploaded' = IF source = writing[j] /\ uploaded # {}
                           THEN uploaded \cup {author} ELSE uploaded
            /\ UNCHANGED <<tempFile, writing, source, inspected>>

CreateFails(j) ==
    OnIO(j, {"create"}, "copyFailed") /\ UNCHANGED <<copyVars, readVars>>

\* A cancellation, before the copy or after it, is an Exception too: both are
\* answered, and the file stays.
AbortCopy(j) ==
    /\ pc[j] # "copyFailed" => j \in cancelled
    /\ Leaves(j, {"delete", "copied", "copyFailed"}, "left")
    /\ UNCHANGED leaseVars

Enqueue(j) ==
    /\ j \notin cancelled
    /\ Resumes(j, {"copied"}, "queued")
    /\ Processor!Request(j)
    /\ UNCHANGED rivals

-----------------------------------------------------------------------------
(* The lease on the daemon: UsbCommandProcessor.execute.                   *)

\* The mutex is this job's; its daemon is launched.
Acquire(j) ==
    /\ phone # "absent"
    /\ Resumes(j, {"queued"}, "starting")
    /\ Processor!Grant /\ lease' = j
    /\ UNCHANGED rivals

\* waitForStart returns and the action begins.
Begin(j) ==
    /\ j \notin cancelled
    /\ Resumes(j, {"starting"}, IF j \in Installs THEN "archive" ELSE "lookup")
    /\ UNCHANGED <<rivals, leaseVars>>

\* The daemon started and ended before waitForStart looked at its state, which
\* is Terminated from now on.
MissStart(j) ==
    /\ j \notin cancelled
    /\ Resumes(j, {"starting"}, "missed")
    /\ Processor!DaemonEnds(j)
    /\ UNCHANGED rivals

\* The action is over, but the daemon has not heard of stop(): it reset the
\* flag when it entered its loop, or stop_loop could not connect.
LoseStop(j) ==
    /\ j \notin cancelled
    /\ Resumes(j, {"returned"}, "unstopped")
    /\ UNCHANGED <<rivals, leaseVars>>

\* The daemon publishes Terminated: it was told to stop, or it ended by itself.
StopDaemon(j) ==
    /\ j \notin cancelled
    /\ Resumes(j, {"returned", "unstopped"}, "stopped")
    /\ Processor!DaemonEnds(j)
    /\ UNCHANGED rivals

GiveBack(j) ==
    /\ Leaves(j, {"stopped"}, IF j \in cancelled THEN "left"
                             ELSE IF j \in Installs THEN "remove" ELSE "reply")
    /\ Processor!Return

\* A holder cancelled before its native call, during it or in stop() leaves
\* through withLock: its daemon is not waited for.
Unwind(j) ==
    /\ j \in cancelled
    /\ Leaves(j, {"starting", "lookup", "archive", "returned"} \cup DeadEnds, "left")
    /\ Processor!Abandon

-----------------------------------------------------------------------------
(* installNewApp, on an IO thread: installApp with the path temp_app.ipa.  *)

\* stat and zip_open: what the bundle identifier and the options are read from.
OpenArchive(j) ==
    /\ OnIO(j, {"archive"}, "open")
    /\ tempFile # None
    /\ source' = tempFile /\ inspected' = authors[tempFile]
    /\ UNCHANGED <<uploaded, copyVars>>

\* afc_upload_file opens the path again.
OpenUpload(j) ==
    /\ OnIO(j, {"open"}, "upload")
    /\ tempFile # None
    /\ source' = tempFile /\ uploaded' = authors[tempFile]
    /\ UNCHANGED <<inspected, copyVars>>

Uploaded(j) ==
    OnIO(j, {"upload"}, "install") /\ UNCHANGED <<copyVars, readVars>>

\* installApp returns: no device, no file or half of one, a step that fails,
\* the phone's refusal, or success.  Its files are closed.
InstallReturns(j) ==
    /\ OnIO(j, Installing, "returned")
    /\ source' = None /\ inspected' = {} /\ uploaded' = {}
    /\ UNCHANGED copyVars

-----------------------------------------------------------------------------
(* obtainPermission and obtainDeviceInfo: native calls on the main thread. *)

Native(j, from, to) ==
    /\ Step(j, {from}, to)
    /\ UNCHANGED <<rivals, leaseVars, copyVars, readVars>>

\* phoneConnectionPermission: idevice_new, or -100.
LookUp(j) ==
    /\ j \notin cancelled
    /\ \/ Native(j, "lookup", "handshake") /\ handles' = {"device"}
       \/ Native(j, "lookup", "returned") /\ UNCHANGED handles
    /\ UNCHANGED <<reports, written>>

\* Mutant: every error is asked again.
AskAgain(j) ==
    /\ \/ Native(j, "handshake", "lookup") /\ UNCHANGED reports
       \/ /\ phone = "trusted"
          /\ Native(j, "handshake", "details")
          /\ reports' = reports \cup {j}
    /\ handles' = {}
    /\ UNCHANGED written

\* What obtainPermission asks again after a delay: a locked phone (-17) and an
\* open question (-19).
TryAgain == phone = "undecided"

\* checkDevicePermission.  A trusted phone creates the report file; any other
\* answer is an error.
Handshake(j) ==
    /\ \/ /\ TryAgain
          /\ Native(j, "handshake", "lookup") /\ UNCHANGED reports
       \/ /\ phone = "trusted"
          /\ Native(j, "handshake", "details")
          /\ reports' = reports \cup {j}
       \/ Native(j, "handshake", "returned") /\ UNCHANGED reports
    /\ handles' = {}
    /\ UNCHANGED written

\* phoneDetails: a second idevice_new, for exportDeviceInfo.
FindDevice(j) ==
    /\ \/ Native(j, "details", "pair") /\ handles' = {"device"}
       \/ Native(j, "details", "read") /\ UNCHANGED handles
    /\ UNCHANGED <<reports, written>>

\* Mutant: exportDeviceInfo returns without idevice_free.
PairKeepsDevice(j) ==
    /\ \/ Native(j, "pair", "query") /\ handles' = handles \cup {"client"}
       \/ Native(j, "pair", "read") /\ UNCHANGED handles
    /\ UNCHANGED <<reports, written>>

\* A handshake of its own; when it fails nothing is written.
Pair(j) ==
    /\ \/ Native(j, "pair", "query") /\ handles' = handles \cup {"client"}
       \/ Native(j, "pair", "read") /\ handles' = {}
    /\ UNCHANGED <<reports, written>>

\* lockdownd_get_value and its conversion; without XML nothing is written.
Query(j) ==
    /\ Native(j, "query", "read")
    /\ written' \in BOOLEAN
    /\ handles' = {}
    /\ UNCHANGED reports

\* readText, delete, parse.
ReadReport(j) ==
    /\ written
    /\ Native(j, "read", "returned")
    /\ reports' = reports \ {j} /\ written' = FALSE
    /\ UNCHANGED handles

-----------------------------------------------------------------------------
(* The end of a job.                                                       *)

\* Mutant: temp_app.ipa is not deleted after the install.
KeepTemp(j) == OnIO(j, {"remove"}, "reply") /\ UNCHANGED <<copyVars, readVars>>

RemoveTemp(j) ==
    /\ OnIO(j, {"remove"}, "reply")
    /\ tempFile' = None
    /\ UNCHANGED <<authors, writing, readVars>>

\* Mutant: the file is deleted after the reply, when the next install may be
\* under way.
ReplyThenRemove(j) ==
    /\ MainFree
    /\ Step(j, {"reply"}, "done")
    /\ rivals' = rivals \ {j} /\ tempFile' = None
    /\ UNCHANGED <<authors, writing, readVars, callVars, leaseVars>>

\* The result is sent, unless the service was destroyed, maybe before the file
\* was deleted.
Reply(j) ==
    /\ pc[j] = "remove" => j \in cancelled
    /\ Leaves(j, {"remove", "reply"}, IF pc[j] = "remove" THEN "left" ELSE "done")
    /\ UNCHANGED leaseVars

\* What throws with nobody to catch it: a send to a client that died, the
\* job's own or, pending since an upload reported its progress, when installApp
\* returns; openDevice for a phone that is gone; prepareDaemon for a device that
\* libusb does not take; and in the device report a file that cannot be opened
\* (fputs to NULL), or an empty one, which is deleted first.
EmptyReport(j) == pc[j] = "read" /\ ~written
Throws(j) ==
    \/ MainFree /\ pc[j] \in {"idle", "copyFailed", "reply"}
    \/ MainFree /\ pc[j] = "returned" /\ j \in Installs
    \/ MainFree /\ phone = "absent" /\ lease = None
         /\ waiting # << >> /\ j = Head(waiting)
    \/ pc[j] \in {"starting", "query"}
    \/ EmptyReport(j)

\* The process ends with everything in it; the files stay.
ProcessDies(j) ==
    /\ Throws(j)
    /\ pc' = [k \in Jobs |-> IF pc[k] \in Ended THEN pc[k] ELSE "left"]
    /\ cancelled' = {} /\ rivals' = {}
    /\ Processor!Crash
    /\ source' = None /\ inspected' = {} /\ uploaded' = {}
    /\ reports' = IF EmptyReport(j) THEN reports \ {j} ELSE reports
    /\ written' = FALSE /\ handles' = {}
    /\ UNCHANGED <<phone, copyVars>>

-----------------------------------------------------------------------------
InstallStep(j) ==
    \/ DeleteOld(j) \/ CreateFile(j) \/ NoStream(j) \/ CreateFails(j)
    \/ FinishCopy(j) \/ AbortCopy(j) \/ Enqueue(j) \/ OpenArchive(j)
    \/ OpenUpload(j) \/ Uploaded(j) \/ InstallReturns(j) \/ RemoveTemp(j)

CheckStep(j) ==
    \/ LookUp(j) \/ Handshake(j) \/ FindDevice(j) \/ Pair(j) \/ Query(j)
    \/ ReadReport(j)

JobStep(j) ==
    \/ j \in Installs /\ InstallStep(j)
    \/ j \in Checks /\ CheckStep(j)
    \/ Acquire(j) \/ Begin(j) \/ MissStart(j) \/ LoseStop(j) \/ StopDaemon(j)
    \/ GiveBack(j) \/ Unwind(j) \/ Reply(j) \/ ProcessDies(j)

Next ==
    \/ PhoneStep \/ DestroyService
    \/ \E j \in Jobs : Decline(j) \/ AskPermission(j) \/ AskInstall(j)
    \/ \E j \in Jobs : JobStep(j)

Spec == Init /\ [][Next]_vars

\* While there is a job that can go on, one does: threads and coroutines run.
\* Not assumed: that a command is given, that a native call on the phone
\* returns, that a daemon that did not hear stop() ends.
GoesOnAlone(j) ==
    /\ pc[j] \notin {"idle"} \cup Installing \cup OnMain
    /\ pc[j] \in DeadEnds => j \in cancelled
FairSpec == Spec /\ WF_vars(\E j \in Jobs : GoesOnAlone(j) /\ JobStep(j))

-----------------------------------------------------------------------------
TypeOK ==
    /\ phone \in DOMAIN PhoneMoves
    /\ pc \in [Jobs -> Pcs]
    /\ cancelled \subseteq Jobs /\ rivals \subseteq Installs
    /\ waiting \in Seq(Jobs) /\ lease \in Jobs \cup {None}
    /\ running \subseteq Jobs /\ leaked \subseteq Jobs
    /\ tempFile \in Installs \cup {None}
    /\ authors \in [Installs -> SUBSET (Installs \cup {None})]
    /\ writing \in [Installs -> Installs \cup {None}]
    /\ source \in Installs \cup {None}
    /\ inspected \subseteq Installs \cup {None}
    /\ uploaded \subseteq Installs \cup {None}
    /\ reports \subseteq Checks /\ written \in BOOLEAN
    /\ handles \subseteq {"device", "client"}

\* What the phone is told to install for a job was described by its own
\* package and is all of it, unless another install used temp_app.ipa at the
\* same time.  What an earlier job left behind is no excuse.
OwnPackage ==
    \A j \in Installs \ rivals :
        pc[j] = "install" => inspected = {j} /\ uploaded = {j}

\* Without such a rival the package stays where runAction will look for it:
\* no install that waited long for the mutex fails for want of its file.
PackageInPlace ==
    \A j \in Installs \ rivals :
        /\ pc[j] \in {"copied", "queued", "starting", "archive", "open"}
        /\ writing[j] # None
        => tempFile = writing[j] /\ authors[tempFile] = {j}

\* When no install is at work, temp_app.ipa is there only if some install
\* never got to delete it; a report file outlives obtainDeviceInfo only if
\* the process died while it was written.
FilesRemoved ==
    /\ (\A i \in Installs : ~Using(i)) /\ tempFile # None =>
         \E i \in Installs : pc[i] = "left"
    /\ \A j \in reports : pc[j] \in {"details", "pair", "query", "read", "left"}

\* phoneConnectionPermission and phoneDetails give every handle back, on
\* every path, before the main thread goes on.
HandlesReleased ==
    handles # {} => \E j \in Checks : pc[j] \in {"handshake", "pair", "query"}

\* Every job that was accepted is answered or its process or service ends,
\* provided that the user decides (obtainPermission polls as long as the phone
\* is locked or the question open, and everybody else waits for the mutex) and
\* that the calls on the phone return (runAction polls without end for an answer
\* that the phone does not send).  As each job is given once, this is to say that
\* again and again no job is at work; or one is in the dead end where its daemon
\* left it, with all the others behind it.
CallsReturn == []<>(\A j \in Jobs : pc[j] \notin Installing \cup OnMain)
Answered ==
    <>[](phone # "undecided") /\ CallsReturn =>
        []<>(\/ \A j \in Jobs : pc[j] \in Ended
             \/ \E j \in Jobs : pc[j] \in DeadEnds)
=============================================================================
