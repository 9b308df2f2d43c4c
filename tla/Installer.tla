----------------------------- MODULE Installer ------------------------------
(***************************************************************************)
(* installApp of native-lib.c and runAction of ideviceinstaller.c: one     *)
(* process that installs packages on the attached phone, one call after    *)
(* the other (UsbCommandProcessor's mutex serialises the callers).         *)
(*                                                                         *)
(* Three threads touch the static variables of ideviceinstaller.c: the     *)
(* caller, which walks through runAction; the status thread that           *)
(* libimobiledevice starts for the installation proxy and that calls       *)
(* status_cb; and the event thread of libusbmuxd, which calls              *)
(* idevice_event_callback while the caller is subscribed.  The statics     *)
(* outlive a call, so what one call leaves behind meets the next.          *)
(*                                                                         *)
(* Modelled is CMD_INSTALL, the only command installApp passes.  Plists,   *)
(* option dictionaries, strings and console output are left out; pointers  *)
(* to connections, the archive and the UDID are not.                       *)
(***************************************************************************)
EXTENDS Integers

CONSTANTS
    Kinds,      \* the kinds of package the callers install
    Chunks,     \* bound: buffers, archive entries or files in a package
    MaxCalls    \* bound: calls of installApp

ASSUME KindsAssumption == Kinds \subseteq {"ipa", "ipcc", "dir"}
ASSUME ChunksAssumption == Chunks \in Nat \ {0}
ASSUME MaxCallsAssumption == MaxCalls \in Nat \ {0}

VARIABLES
    pc,            \* how far the caller is
    kind,          \* the package of the current call
    tried, stored, \* pieces of it handled so far, and on the phone
    calls,         \* calls made so far
    ptr,           \* the pointers of runAction and the static udid
    leaked,        \* what the last call lost without freeing it
    twice,         \* what was freed again after it had been freed
    completed,     \* command_completed
    errOccurred,   \* err_occurred
    connected,     \* is_device_connected
    ignoring,      \* ignore_events
    awaiting,      \* wait_for_command_complete
    res,           \* runAction's local res
    result,        \* what installApp returned
    worker,        \* the status thread of the installation proxy
    reply,         \* what the phone answered to the install command
    attached,      \* the phone is there
    unplugged,     \* it went away during the current call
    subscribed,    \* the event thread runs
    removal        \* a removal event it has not delivered yet

packageVars == <<kind, tried, stored>>
pointerVars == <<ptr, leaked, twice>>
flagVars == <<completed, errOccurred, connected, ignoring, awaiting>>
resultVars == <<calls, res, result>>
workerVars == <<worker, reply>>
deviceVars == <<attached, unplugged>>
eventVars == <<subscribed, removal>>
vars == <<pc, packageVars, pointerVars, flagVars, resultVars, workerVars,
          deviceVars, eventVars>>

Locals == {"device", "client", "service", "ipc", "afc", "zip"}
Pointers == Locals \cup {"udid"}
PointerStates == {"null", "live", "dangling"}

NoResult == -2       \* no call has returned
NoDeviceResult == -1
ExitFailure == 1
StatusError == 128
Results == {NoResult, NoDeviceResult, 0, ExitFailure, StatusError}

Pcs == {"idle", "handshake", "proxy", "afcService", "afcClient", "open",
        "read", "upload", "bundle", "send", "subscribe", "wait",
        "unsubscribe", "cleanup", "dead"}

InCall == pc \notin {"idle", "dead"}

NoPointers == [p \in Pointers |-> "null"]

Init ==
    /\ pc = "idle"
    /\ kind \in Kinds
    /\ tried = 0 /\ stored = 0
    /\ ptr = NoPointers
    /\ leaked = {} /\ twice = {}
    /\ completed = FALSE /\ errOccurred = FALSE
    /\ connected = FALSE /\ ignoring = FALSE /\ awaiting = FALSE
    /\ calls = 0 /\ res = ExitFailure /\ result = NoResult
    /\ worker = "none" /\ reply = "none"
    /\ attached = TRUE /\ unplugged = FALSE
    /\ subscribed = FALSE /\ removal = FALSE

-----------------------------------------------------------------------------
(* The caller: installApp, and runAction up to the package.                *)

\* idevice_new_with_options finds no device.
NoDevice ==
    /\ pc = "idle"
    /\ calls < MaxCalls
    /\ calls' = calls + 1
    /\ result' = NoDeviceResult
    /\ reply' = "none"
    /\ unplugged' = FALSE
    /\ leaked' = {}
    /\ UNCHANGED <<pc, packageVars, ptr, twice, flagVars, res, worker,
                   attached, eventVars>>

\* Mutant: command_completed keeps its value from the last call.
ResetAllButCompleted ==
    /\ errOccurred' = FALSE
    /\ connected' = FALSE
    /\ ignoring' = FALSE
    /\ awaiting' = FALSE
    /\ UNCHANGED completed

\* "return default values": every static but udid.
ResetStatics ==
    /\ completed' = FALSE
    /\ errOccurred' = FALSE
    /\ connected' = FALSE
    /\ ignoring' = FALSE
    /\ awaiting' = FALSE

\* The UDID is only asked for when the static pointer is NULL.
Call(k) ==
    /\ pc = "idle"
    /\ calls < MaxCalls
    /\ attached
    /\ calls' = calls + 1
    /\ kind' = k
    /\ tried' = 0 /\ stored' = 0
    /\ ptr' = [ptr EXCEPT !["device"] = "live",
                          !["udid"] = IF @ = "null" THEN "live" ELSE @]
    /\ leaked' = {}
    /\ ResetStatics
    /\ res' = ExitFailure
    /\ result' = NoResult
    /\ reply' = "none"
    /\ unplugged' = FALSE
    /\ pc' = "handshake"
    /\ UNCHANGED <<twice, worker, attached, eventVars>>

\* A step of runAction that touches nothing but its pointers.
Moves(from, to) ==
    /\ pc = from
    /\ pc' = to
    /\ UNCHANGED <<packageVars, leaked, twice, flagVars, resultVars,
                   workerVars, deviceVars, eventVars>>

Handshake ==
    \/ /\ Moves("handshake", "proxy")
       /\ attached
       /\ ptr' = [ptr EXCEPT !["client"] = "live"]
    \/ Moves("handshake", "cleanup") /\ UNCHANGED ptr

\* Start the installation proxy and connect to it; the service descriptor
\* is freed and its pointer cleared in between.
StartProxy ==
    \/ /\ Moves("proxy", "afcService")
       /\ attached
       /\ ptr' = [ptr EXCEPT !["ipc"] = "live"]
    \/ Moves("proxy", "cleanup") /\ UNCHANGED ptr

\* Mutant: the client is freed but its pointer not cleared.
AfcServiceKeepsClient ==
    \/ /\ Moves("afcService", "afcClient")
       /\ attached
       /\ ptr' = [ptr EXCEPT !["service"] = "live", !["client"] = "dangling"]
    \/ Moves("afcService", "cleanup") /\ UNCHANGED ptr

\* The last use of the lockdown client: it is freed, its pointer cleared.
AfcService ==
    \/ /\ Moves("afcService", "afcClient")
       /\ attached
       /\ ptr' = [ptr EXCEPT !["service"] = "live", !["client"] = "null"]
    \/ Moves("afcService", "cleanup") /\ UNCHANGED ptr

AfcClient ==
    \/ /\ Moves("afcClient", "open")
       /\ attached
       /\ ptr' = [ptr EXCEPT !["afc"] = "live"]
    \/ Moves("afcClient", "cleanup") /\ UNCHANGED ptr

-----------------------------------------------------------------------------
(* The package: what is read of it before, and after, it is uploaded.      *)

\* stat and, except for a directory, zip_open; both can fail.  Making the
\* staging directory cannot fail the call.
OpenPackage ==
    \/ /\ Moves("open", IF kind = "ipa" THEN "read" ELSE "upload")
       /\ ptr' = IF kind = "dir" THEN ptr ELSE [ptr EXCEPT !["zip"] = "live"]
    \/ Moves("open", "cleanup") /\ UNCHANGED ptr

\* The metadata is optional.  Without an application directory the archive
\* stays open; without a usable Info.plist it is closed.
ReadArchive ==
    \/ Moves("read", "upload") /\ UNCHANGED ptr
    \/ Moves("read", "cleanup") /\ UNCHANGED ptr
    \/ Moves("read", "cleanup") /\ ptr' = [ptr EXCEPT !["zip"] = "null"]

\* The Info.plist of a directory, read after its upload.  It is not empty,
\* so it was not stored: storing it ends the process (see Crash).
ReadBundle ==
    /\ UNCHANGED ptr
    /\ \/ stored < Chunks /\ Moves("bundle", "send")
       \/ Moves("bundle", "cleanup")

-----------------------------------------------------------------------------
(* The upload, piece by piece.                                             *)

Handled(n, to) ==
    /\ pc = "upload"
    /\ tried < Chunks
    /\ tried' = tried + 1
    /\ stored' = stored + n
    /\ pc' = to
    /\ UNCHANGED <<kind, pointerVars, flagVars, resultVars, workerVars,
                   deviceVars, eventVars>>

\* Mutant: afc_upload_file goes on after a failed write.
StoreBufferOrSkip ==
    /\ kind = "ipa"
    /\ \/ attached /\ Handled(1, "upload")
       \/ Handled(0, "upload")

\* Mutant: a buffer that is sent again counts again.
StoreBufferTwice ==
    /\ kind = "ipa"
    /\ attached
    /\ Handled(2, "upload")

\* afc_upload_file writes the next buffer of the archive and reports it.
StoreBuffer ==
    /\ kind = "ipa"
    /\ attached
    /\ Handled(1, "upload")

\* The carrier bundle is unpacked entry by entry; what cannot be opened, on
\* either side, is skipped.
StoreEntry ==
    /\ kind = "ipcc"
    /\ \/ attached /\ Handled(1, "upload")
       \/ Handled(0, "upload")

\* afc_upload_dir ignores what afc_upload_file returns.  An empty file is
\* stored without a write, hence without a report.
StoreFile ==
    /\ kind = "dir"
    /\ \/ attached /\ Handled(1, "upload")
       \/ Handled(0, "upload")

\* A write that fails, or afc_file_open for an archive: the call fails with
\* the archive still open.
UploadFails ==
    /\ kind # "dir"
    /\ tried < Chunks
    /\ Moves("upload", "cleanup")
    /\ UNCHANGED ptr

\* The process ends: the first buffer written for a directory is reported
\* through a NULL callback; the search of an archive runs off the name of a
\* plain file in Payload/; a buffer is reported while the exception of an
\* earlier report is pending.
Crash ==
    /\ \/ pc = "read"
       \/ /\ pc = "upload" /\ attached /\ tried < Chunks
          /\ kind = "dir" \/ (kind = "ipa" /\ tried > 0)
    /\ pc' = "dead"
    /\ UNCHANGED <<packageVars, pointerVars, flagVars, resultVars,
                   workerVars, deviceVars, eventVars>>

\* The whole package was handled, or the rest of an archive could not be read;
\* the archive is closed.
CloseArchive ==
    /\ kind = "ipa" \/ tried = Chunks
    /\ Moves("upload", IF kind = "dir" THEN "bundle" ELSE "send")
    /\ ptr' = [ptr EXCEPT !["zip"] = "null"]

-----------------------------------------------------------------------------
(* The command, and waiting for its answer.                                *)

\* instproxy_install sends the command and starts the status thread; its
\* result is ignored, so the caller waits for a command never sent, too.
SendInstall ==
    /\ pc = "send"
    /\ \/ attached /\ worker' = "running"
       \/ UNCHANGED worker
    /\ awaiting' = TRUE
    /\ pc' = "subscribe"
    /\ UNCHANGED <<packageVars, pointerVars, completed, errOccurred,
                   connected, ignoring, resultVars, reply, deviceVars,
                   eventVars>>

\* The device counts as connected until an event says otherwise.  The event
\* thread reports no removal that was before the subscription, and none at all
\* if the subscription failed, which nobody looks at.
Subscribe ==
    /\ pc = "subscribe"
    /\ connected' = TRUE
    /\ ignoring' = FALSE
    /\ subscribed' \in BOOLEAN
    /\ pc' = "wait"
    /\ UNCHANGED <<packageVars, pointerVars, completed, errOccurred,
                   awaiting, resultVars, workerVars, deviceVars, removal>>

\* Mutant: an error does not end the wait.
DoneUnlessError == ~awaiting \/ completed \/ ~connected

\* The negation of the polling loop's condition.
Done == ~awaiting \/ completed \/ errOccurred \/ ~connected

StopWaiting ==
    /\ pc = "wait"
    /\ Done
    /\ ignoring' = TRUE
    /\ pc' = "unsubscribe"
    /\ UNCHANGED <<packageVars, pointerVars, completed, errOccurred,
                   connected, awaiting, resultVars, workerVars, deviceVars,
                   eventVars>>

\* idevice_event_unsubscribe joins the event thread.
Unsubscribe ==
    /\ pc = "unsubscribe"
    /\ subscribed' = FALSE
    /\ removal' = FALSE
    /\ res' = 0
    /\ pc' = "cleanup"
    /\ UNCHANGED <<packageVars, pointerVars, flagVars, calls, result,
                   workerVars, deviceVars>>

\* Mutant: the status thread is not waited for.
NoJoin == TRUE

\* instproxy_client_free closes the connection and joins the status thread.
Joined == worker # "running"

\* An error reported before the join turns success into StatusError.
FinalResult == IF errOccurred /\ res = 0 THEN StatusError ELSE res

\* leave_cleanup frees these, NULL or not, and the static udid, whose
\* pointer it does not clear.
CleanupFrees == {"ipc", "afc", "client", "device", "udid"}

\* What a free of a dangling pointer does is undefined: the allocator ends
\* the process, or goes on.
Release ==
    /\ pc = "cleanup"
    /\ Joined
    /\ worker' = IF worker = "ended" THEN "none" ELSE worker
    /\ leaked' = {p \in Locals \ CleanupFrees : ptr[p] = "live"}
    /\ twice' = twice \cup {p \in CleanupFrees : ptr[p] = "dangling"}
    /\ ptr' = [NoPointers EXCEPT !["udid"] = "dangling"]
    /\ \/ pc' = "idle" /\ result' = FinalResult
       \/ twice' # {} /\ pc' = "dead" /\ UNCHANGED result
    /\ UNCHANGED <<packageVars, flagVars, calls, res, reply, deviceVars,
                   eventVars>>

\* A new process: the statics have their initial values again.
Restart ==
    /\ pc = "dead"
    /\ pc' = "idle"
    /\ ptr' = NoPointers
    /\ leaked' = {} /\ twice' = {}
    /\ completed' = FALSE /\ errOccurred' = FALSE
    /\ connected' = FALSE /\ ignoring' = FALSE /\ awaiting' = FALSE
    /\ result' = NoResult
    /\ worker' = "none" /\ reply' = "none"
    /\ subscribed' = FALSE /\ removal' = FALSE
    /\ UNCHANGED <<packageVars, calls, res, deviceVars>>

-----------------------------------------------------------------------------
(* The status thread of the installation proxy.                            *)

\* status_cb: "Complete" sets one static, an error the other.
Report(r) ==
    /\ completed' = (completed \/ r = "complete")
    /\ errOccurred' = (errOccurred \/ r = "error")

\* The last status of the command; progress reports change nothing here.
Answer(r) ==
    /\ worker = "running"
    /\ attached
    /\ reply' = r
    /\ Report(r)
    /\ worker' = "ended"
    /\ UNCHANGED <<pc, packageVars, pointerVars, connected, ignoring,
                   awaiting, resultVars, deviceVars, eventVars>>

\* The connection breaks, or instproxy_client_free closed it: the thread
\* ends without another status.
ConnectionLost ==
    /\ worker = "running"
    /\ worker' = "ended"
    /\ UNCHANGED <<pc, packageVars, pointerVars, flagVars, resultVars, reply,
                   deviceVars, eventVars>>

-----------------------------------------------------------------------------
(* The event thread and the phone.                                         *)

\* strcmp(udid, event->udid): true for the only phone, unless udid points to
\* freed memory, which compares either way.
MayMatch(m) == IF ptr["udid"] = "live" THEN m ELSE m \in BOOLEAN

\* idevice_event_callback for the removal of the phone.
DeliverRemoval ==
    /\ subscribed
    /\ removal
    /\ removal' = FALSE
    /\ \E match \in BOOLEAN :
         /\ MayMatch(match)
         /\ connected' = IF ~ignoring /\ match THEN FALSE ELSE connected
    /\ UNCHANGED <<pc, packageVars, pointerVars, completed, errOccurred,
                   ignoring, awaiting, resultVars, workerVars, deviceVars,
                   subscribed>>

Unplug ==
    /\ attached
    /\ attached' = FALSE
    /\ unplugged' = (unplugged \/ InCall)
    /\ removal' = subscribed
    /\ UNCHANGED <<pc, packageVars, pointerVars, flagVars, resultVars,
                   workerVars, subscribed>>

\* A daemon is given one open device and never sees a phone that is plugged
\* in again, so a phone returns between calls only.
Attach ==
    /\ ~attached
    /\ pc = "idle"
    /\ attached' = TRUE
    /\ UNCHANGED <<pc, packageVars, pointerVars, flagVars, resultVars,
                   workerVars, unplugged, eventVars>>

-----------------------------------------------------------------------------

CallerStep ==
    \/ Handshake \/ StartProxy \/ AfcService \/ AfcClient
    \/ OpenPackage \/ ReadArchive \/ ReadBundle
    \/ StoreBuffer \/ StoreEntry \/ StoreFile \/ UploadFails \/ Crash
    \/ CloseArchive \/ SendInstall
    \/ Subscribe \/ StopWaiting \/ Unsubscribe \/ Release

Next ==
    \/ NoDevice
    \/ \E k \in Kinds : Call(k)
    \/ CallerStep
    \/ \E r \in {"complete", "error"} : Answer(r)
    \/ ConnectionLost
    \/ DeliverRemoval
    \/ Unplug \/ Attach \/ Restart

Spec == Init /\ [][Next]_vars

\* The caller's thread and libusbmuxd's run; a closed connection ends the
\* status thread.  Nobody has to answer, to unplug the phone or to call.
Fairness ==
    /\ WF_vars(CallerStep)
    /\ WF_vars(DeliverRemoval)
    /\ WF_vars(pc = "cleanup" /\ ConnectionLost)

FairSpec == Spec /\ Fairness

-----------------------------------------------------------------------------
(* Properties.                                                             *)

\* Every variable keeps its type, and no more pieces are stored than were
\* tried.
TypeOK ==
    /\ pc \in Pcs
    /\ kind \in Kinds
    /\ tried \in 0..Chunks
    /\ stored \in 0..tried
    /\ calls \in 0..MaxCalls
    /\ ptr \in [Pointers -> PointerStates]
    /\ leaked \subseteq Locals
    /\ twice \subseteq Pointers
    /\ completed \in BOOLEAN /\ errOccurred \in BOOLEAN
    /\ connected \in BOOLEAN /\ ignoring \in BOOLEAN /\ awaiting \in BOOLEAN
    /\ res \in {0, ExitFailure}
    /\ result \in Results
    /\ worker \in {"none", "running", "ended"}
    /\ reply \in {"none", "complete", "error"}
    /\ attached \in BOOLEAN /\ unplugged \in BOOLEAN
    /\ subscribed \in BOOLEAN /\ removal \in BOOLEAN

\* What installApp returns agrees with what the phone answered, whenever the
\* answer came: completion gives 0, an error never does, and without either
\* 0 is returned only after the phone went away during the call.  A static
\* left over from an earlier call never answers for this one.
ResultTellsAnswer ==
    pc = "idle" /\ result # NoResult =>
        /\ reply = "complete" => result = 0
        /\ reply = "error" => result # 0
        /\ result = 0 => reply = "complete" \/ unplugged

\* The status thread runs only inside a call that has sent its command and
\* still holds the client the thread reads from; so status_cb never writes
\* the statics of a later call.
NoStrayStatus ==
    worker = "running" =>
        /\ pc \in {"subscribe", "wait", "unsubscribe", "cleanup"}
        /\ ptr["ipc"] = "live"

\* Whichever step fails, cleanup gives every connection back, and gives none
\* back twice: only descriptors of the AFC service and archives of failed
\* calls are lost, and only the UDID is freed again.
ConnectionsReleasedOnce ==
    /\ leaked \subseteq {"service", "zip"}
    /\ twice \subseteq {"udid"}
    /\ pc = "idle" /\ "zip" \in leaked => result # 0

\* The install command for an archive is sent only when all that was read of
\* it is on the phone, and after the archive was closed.
NoBufferSkipped ==
    kind = "ipa" /\ pc \in {"send", "subscribe", "wait", "unsubscribe"} =>
        stored = tried /\ ptr["zip"] # "live"

\* Once the phone has answered, or its removal is announced to a caller that
\* owns the UDID it compares with, the waiting call ends.
AnsweredCallEnds ==
    (\/ pc \in {"subscribe", "wait"} /\ reply # "none"
     \/ pc = "wait" /\ removal /\ ptr["udid"] = "live")
        ~> pc \in {"idle", "dead"}

\* ideviceinstaller.c:320 subscribes "to make sure to exit on device
\* removal": a caller that is subscribed and waits for a phone that is gone
\* ends.  It does not when the phone went away before the subscription.
RemovedPhoneEndsCall ==
    pc = "wait" /\ subscribed /\ ~attached ~> pc \in {"idle", "dead"}

\* Entities.kt:32 calls 0 DEVICE_INSTALL_RESPONSE_SUCCESS: the phone said it
\* completed the installation.  The wait also ends when the phone is removed,
\* and runAction returns 0 then.
SuccessIsCompletion ==
    pc = "idle" /\ result = 0 => reply = "complete"

\* ideviceinstaller.c:457, "return default values": a call starts without
\* anything of the call before it.  The UDID stays behind, freed.
StaticsAreDefaults ==
    pc = "handshake" => ptr["udid"] # "dangling"
=============================================================================
