--------------------------- MODULE InstallerProofs --------------------------
(***************************************************************************)
(* Proofs about Installer, for every set of package kinds, every number of *)
(* pieces and every number of calls: types, and the safety properties of   *)
(* its run, from the inductive invariant IInv.                             *)
(***************************************************************************)
EXTENDS Installer, TLAPS

-----------------------------------------------------------------------------
(* The inductive invariant, in named parts.                                *)

BeforeUpload == {"handshake", "proxy", "afcService", "afcClient", "open",
                 "read"}
Waiting == {"subscribe", "wait", "unsubscribe"}
WithProxy == {"afcService", "afcClient", "open", "read", "upload", "bundle",
              "send"} \cup Waiting

\* Only the static udid is ever left dangling; from the connection to the
\* installation proxy to cleanup the client is there.
PointerInv ==
    /\ \A p \in Locals : ptr[p] # "dangling"
    /\ pc \in WithProxy => ptr["ipc"] = "live"
    /\ twice \subseteq {"udid"}

\* The archive is open from OpenPackage to CloseArchive, or it is lost by a
\* call that fails.
ArchiveInv ==
    /\ pc \in {"bundle", "send"} \cup Waiting => ptr["zip"] # "live"
    /\ pc = "cleanup" /\ ptr["zip"] = "live" => res = ExitFailure
    /\ leaked \subseteq {"service", "zip"}
    /\ pc = "idle" /\ "zip" \in leaked => result # 0

\* Every piece of an archive that was tried is stored.
UploadInv ==
    /\ pc \in BeforeUpload => tried = 0 /\ stored = 0
    /\ kind = "ipa" /\ pc = "upload" => tried = stored
    /\ kind = "ipa" /\ pc \in {"send"} \cup Waiting => stored = tried
    /\ pc = "bundle" => kind = "dir"

\* The status thread runs from the install command to cleanup; it has not
\* answered before it runs, and does not run once it has answered.
WorkerInv ==
    /\ worker = "running" => /\ pc \in Waiting \cup {"cleanup"}
                             /\ ptr["ipc"] = "live"
                             /\ reply = "none"
    /\ worker # "none" => pc \in Waiting \cup {"cleanup"}
    /\ InCall /\ worker = "none" => reply = "none"

\* The statics that status_cb writes are the answer to the current call.
FlagsInv ==
    InCall => /\ completed <=> reply = "complete"
              /\ errOccurred <=> reply = "error"

\* The device is taken for removed only if it was unplugged during the call.
RemovalInv ==
    /\ subscribed => pc \in {"wait", "unsubscribe"}
    /\ removal => subscribed /\ unplugged
    /\ pc \in {"wait", "unsubscribe"} /\ ~connected => unplugged

\* The wait is over for a reason, and only a call that waited is no failure.
OutcomeInv ==
    /\ pc \in {"subscribe", "wait"} => awaiting
    /\ pc = "unsubscribe" => reply # "none" \/ unplugged
    /\ InCall /\ pc # "cleanup" => res = ExitFailure
    /\ pc = "cleanup" /\ res = ExitFailure => worker = "none"
    /\ pc = "cleanup" /\ res = 0 => reply # "none" \/ unplugged

IInv ==
    /\ TypeOK
    /\ PointerInv
    /\ ArchiveInv
    /\ UploadInv
    /\ WorkerInv
    /\ FlagsInv
    /\ RemovalInv
    /\ OutcomeInv
    /\ ResultTellsAnswer

-----------------------------------------------------------------------------
LEMMA InitIInv == Init => IInv
<1> SUFFICES ASSUME Init PROVE IInv
  OBVIOUS
<1>1. ptr \in [Pointers -> PointerStates] /\ \A p \in Pointers : ptr[p] = "null"
  BY DEF Init, NoPointers, PointerStates
<1>2. tried \in 0..Chunks /\ stored \in 0..tried /\ calls \in 0..MaxCalls
  BY ChunksAssumption, MaxCallsAssumption DEF Init
<1>3. res \in {0, ExitFailure} /\ result \in Results
  BY DEF Init, Results
<1>4. TypeOK
  BY <1>1, <1>2, <1>3 DEF Init, TypeOK, Pcs
<1> QED
  BY <1>1, <1>4
     DEF Init, IInv, PointerInv, ArchiveInv, UploadInv, WorkerInv, FlagsInv,
         RemovalInv, OutcomeInv, ResultTellsAnswer, Pointers, Locals,
         BeforeUpload, Waiting, WithProxy, InCall, NoResult

-----------------------------------------------------------------------------
(* The caller before the install command: only pc and ptr change.          *)

\* What has to be said of ptr when the caller moves on.
LEMMA MovesIInv ==
  ASSUME IInv, NEW from, NEW to, Moves(from, to),
         from \in BeforeUpload \cup {"upload", "bundle"},
         to \in Pcs \ ({"idle", "dead"} \cup Waiting),
         ptr' \in [Pointers -> PointerStates],
         \A p \in Locals : ptr'[p] # "dangling",
         to \in WithProxy => ptr'["ipc"] = "live",
         to \in {"bundle", "send"} => ptr'["zip"] # "live",
         to \in BeforeUpload => from \in BeforeUpload,
         to = "upload" => from \in BeforeUpload,
         to = "bundle" => kind = "dir",
         to = "send" /\ kind = "ipa" => stored = tried
  PROVE  IInv'
<1> USE DEF Moves, packageVars, flagVars, resultVars, workerVars, deviceVars,
            eventVars, BeforeUpload, Waiting, WithProxy, InCall
<1>1. TypeOK'
  BY DEF IInv, TypeOK
<1>2. PointerInv'
  BY DEF IInv, PointerInv
<1>3. ArchiveInv'
  BY DEF IInv, ArchiveInv, OutcomeInv, ExitFailure
<1>4. UploadInv'
  BY DEF IInv, UploadInv
<1>5. WorkerInv'
  BY DEF IInv, WorkerInv
<1>6. FlagsInv' /\ RemovalInv'
  BY DEF IInv, FlagsInv, RemovalInv
<1>7. OutcomeInv'
  BY DEF IInv, OutcomeInv, WorkerInv, ExitFailure
<1>8. ResultTellsAnswer'
  BY DEF IInv, ResultTellsAnswer
<1> QED
  BY <1>1, <1>2, <1>3, <1>4, <1>5, <1>6, <1>7, <1>8 DEF IInv

\* Opening connections: a failed step leaves the pointers alone.
LEMMA ConnectIInv ==
  ASSUME IInv, Handshake \/ StartProxy \/ AfcService \/ AfcClient
  PROVE  IInv'
<1>1. ptr \in [Pointers -> PointerStates] /\ \A p \in Locals : ptr[p] # "dangling"
  BY DEF IInv, TypeOK, PointerInv
<1>2. pc \in WithProxy => ptr["ipc"] = "live"
  BY DEF IInv, PointerInv
<1> USE <1>1, <1>2 DEF BeforeUpload, Waiting, WithProxy, Pcs, Pointers,
        Locals, PointerStates
<1>3. CASE Handshake
  <2>1. PICK to \in {"proxy", "cleanup"} : Moves("handshake", to)
    BY <1>3 DEF Handshake
  <2> QED
    BY <1>3, <2>1, MovesIInv DEF Handshake
<1>4. CASE StartProxy
  <2>1. CASE Moves("proxy", "cleanup") /\ UNCHANGED ptr
    BY <2>1, MovesIInv
  <2>2. CASE Moves("proxy", "afcService") /\ ptr' = [ptr EXCEPT !["ipc"] = "live"]
    BY <2>2, MovesIInv
  <2> QED
    BY <1>4, <2>1, <2>2 DEF StartProxy
<1>5. CASE AfcService
  <2>1. CASE Moves("afcService", "cleanup") /\ UNCHANGED ptr
    BY <2>1, MovesIInv
  <2>2. CASE /\ Moves("afcService", "afcClient")
             /\ ptr' = [ptr EXCEPT !["service"] = "live", !["client"] = "null"]
    BY <2>2, MovesIInv DEF Moves
  <2> QED
    BY <1>5, <2>1, <2>2 DEF AfcService
<1>6. CASE AfcClient
  <2>1. CASE Moves("afcClient", "cleanup") /\ UNCHANGED ptr
    BY <2>1, MovesIInv
  <2>2. CASE Moves("afcClient", "open") /\ ptr' = [ptr EXCEPT !["afc"] = "live"]
    BY <2>2, MovesIInv DEF Moves
  <2> QED
    BY <1>6, <2>1, <2>2 DEF AfcClient
<1> QED
  BY <1>3, <1>4, <1>5, <1>6

\* Reading the package.
LEMMA PackageIInv ==
  ASSUME IInv, OpenPackage \/ ReadArchive \/ ReadBundle
  PROVE  IInv'
<1>1. ptr \in [Pointers -> PointerStates] /\ \A p \in Locals : ptr[p] # "dangling"
  BY DEF IInv, TypeOK, PointerInv
<1>2. pc \in WithProxy => ptr["ipc"] = "live"
  BY DEF IInv, PointerInv
<1> USE <1>1, <1>2 DEF BeforeUpload, Waiting, WithProxy, Pcs, Pointers,
        Locals, PointerStates
<1>3. CASE OpenPackage
  <2>1. CASE Moves("open", "cleanup") /\ UNCHANGED ptr
    BY <2>1, MovesIInv
  <2>2. CASE /\ Moves("open", IF kind = "ipa" THEN "read" ELSE "upload")
             /\ ptr' = IF kind = "dir" THEN ptr
                       ELSE [ptr EXCEPT !["zip"] = "live"]
    <3>1. PICK to \in {"read", "upload"} : Moves("open", to)
      BY <2>2
    <3>2. /\ ptr' \in [Pointers -> PointerStates]
          /\ \A p \in Locals : ptr'[p] # "dangling"
          /\ ptr'["ipc"] = "live"
      BY <2>2, <3>1 DEF Moves
    <3> QED
      BY <3>1, <3>2, MovesIInv
  <2> QED
    BY <1>3, <2>1, <2>2 DEF OpenPackage
<1>4. CASE ReadArchive
  <2>1. PICK to \in {"upload", "cleanup"} : Moves("read", to)
    BY <1>4 DEF ReadArchive
  <2>2. /\ ptr' \in [Pointers -> PointerStates]
        /\ \A p \in Locals : ptr'[p] # "dangling"
        /\ ptr'["ipc"] = "live"
    BY <1>4, <2>1 DEF ReadArchive, Moves
  <2> QED
    BY <2>1, <2>2, MovesIInv
<1>5. CASE ReadBundle
  <2>1. PICK to \in {"send", "cleanup"} : Moves("bundle", to)
    BY <1>5 DEF ReadBundle
  <2>2. ptr["zip"] # "live" /\ kind = "dir"
    BY <2>1 DEF Moves, IInv, ArchiveInv, UploadInv
  <2> QED
    BY <1>5, <2>1, <2>2, MovesIInv DEF ReadBundle, Moves
<1> QED
  BY <1>3, <1>4, <1>5

\* The end of the upload, either way.
LEMMA UploadEndIInv ==
  ASSUME IInv, UploadFails \/ CloseArchive
  PROVE  IInv'
<1>1. ptr \in [Pointers -> PointerStates] /\ \A p \in Locals : ptr[p] # "dangling"
  BY DEF IInv, TypeOK, PointerInv
<1>2. pc \in WithProxy => ptr["ipc"] = "live"
  BY DEF IInv, PointerInv
<1> USE <1>1, <1>2 DEF BeforeUpload, Waiting, WithProxy, Pcs, Pointers,
        Locals, PointerStates
<1>3. CASE UploadFails
  BY <1>3, MovesIInv DEF UploadFails
<1>4. CASE CloseArchive
  <2>1. PICK to \in {"bundle", "send"} :
          Moves("upload", to) /\ (to = "bundle" <=> kind = "dir")
    BY <1>4 DEF CloseArchive
  <2>2. kind = "ipa" => stored = tried
    BY <1>4, <2>1 DEF CloseArchive, Moves, IInv, UploadInv
  <2>3. /\ ptr' \in [Pointers -> PointerStates]
        /\ \A p \in Locals : ptr'[p] # "dangling"
        /\ ptr'["ipc"] = "live" /\ ptr'["zip"] # "live"
    BY <1>4, <2>1 DEF CloseArchive, Moves
  <2> QED
    BY <2>1, <2>2, <2>3, MovesIInv
<1> QED
  BY <1>3, <1>4

-----------------------------------------------------------------------------
(* Pieces of the package, the install command, the wait.                   *)

LEMMA StoreIInv ==
  ASSUME IInv, StoreBuffer \/ StoreEntry \/ StoreFile
  PROVE  IInv'
<1>1. PICK n \in {0, 1} : Handled(n, "upload") /\ (kind = "ipa" => n = 1)
  BY DEF StoreBuffer, StoreEntry, StoreFile
<1> USE <1>1 DEF Handled, pointerVars, flagVars, resultVars, workerVars,
            deviceVars, eventVars, BeforeUpload, Waiting, WithProxy, InCall
<1>2. tried' \in 0..Chunks /\ stored' \in 0..tried'
  BY ChunksAssumption DEF IInv, TypeOK
<1>3. TypeOK'
  BY <1>2 DEF IInv, TypeOK
<1>4. PointerInv' /\ ArchiveInv'
  BY DEF IInv, PointerInv, ArchiveInv
<1>5. UploadInv'
  BY DEF IInv, UploadInv
<1>6. WorkerInv' /\ FlagsInv' /\ RemovalInv' /\ OutcomeInv'
  BY DEF IInv, WorkerInv, FlagsInv, RemovalInv, OutcomeInv
<1>7. ResultTellsAnswer'
  BY DEF IInv, ResultTellsAnswer
<1> QED
  BY <1>2, <1>3, <1>4, <1>5, <1>6, <1>7 DEF IInv

LEMMA CrashIInv ==
  ASSUME IInv, Crash
  PROVE  IInv'
<1> USE DEF Crash, packageVars, pointerVars, flagVars, resultVars,
            workerVars, deviceVars, eventVars, BeforeUpload, Waiting,
            WithProxy, InCall
<1>1. TypeOK'
  BY DEF IInv, TypeOK, Pcs
<1>2. PointerInv' /\ ArchiveInv' /\ UploadInv'
  BY DEF IInv, PointerInv, ArchiveInv, UploadInv
<1>3. WorkerInv' /\ FlagsInv' /\ RemovalInv' /\ OutcomeInv'
  BY DEF IInv, WorkerInv, FlagsInv, RemovalInv, OutcomeInv
<1>4. ResultTellsAnswer'
  BY DEF ResultTellsAnswer
<1> QED
  BY <1>1, <1>2, <1>3, <1>4 DEF IInv

LEMMA SendInstallIInv ==
  ASSUME IInv, SendInstall
  PROVE  IInv'
<1> USE DEF SendInstall, packageVars, pointerVars, resultVars, deviceVars,
            eventVars, BeforeUpload, Waiting, WithProxy, InCall
<1>1. TypeOK'
  BY DEF IInv, TypeOK, Pcs
<1>2. PointerInv' /\ ArchiveInv' /\ UploadInv'
  BY DEF IInv, PointerInv, ArchiveInv, UploadInv
<1>3. WorkerInv'
  BY DEF IInv, WorkerInv, PointerInv
<1>4. FlagsInv' /\ RemovalInv' /\ OutcomeInv'
  BY DEF IInv, FlagsInv, RemovalInv, OutcomeInv
<1>5. ResultTellsAnswer'
  BY DEF ResultTellsAnswer
<1> QED
  BY <1>1, <1>2, <1>3, <1>4, <1>5 DEF IInv

LEMMA SubscribeIInv ==
  ASSUME IInv, Subscribe
  PROVE  IInv'
<1> USE DEF Subscribe, packageVars, pointerVars, resultVars, workerVars, deviceVars,
            BeforeUpload, Waiting, WithProxy, InCall
<1>1. TypeOK'
  BY DEF IInv, TypeOK, Pcs
<1>2. PointerInv' /\ UploadInv'
  BY DEF IInv, PointerInv, UploadInv
<1>3. ArchiveInv'
  BY DEF IInv, ArchiveInv
<1>4. WorkerInv' /\ FlagsInv'
  BY DEF IInv, WorkerInv, FlagsInv
<1>5. RemovalInv'
  BY DEF IInv, RemovalInv
<1>6. OutcomeInv'
  BY DEF IInv, OutcomeInv
<1>7. ResultTellsAnswer'
  BY DEF ResultTellsAnswer
<1> QED
  BY <1>1, <1>2, <1>3, <1>4, <1>5, <1>6, <1>7 DEF IInv

LEMMA StopWaitingIInv ==
  ASSUME IInv, StopWaiting
  PROVE  IInv'
<1> USE DEF StopWaiting, packageVars, pointerVars, resultVars, eventVars, workerVars, deviceVars,
            BeforeUpload, Waiting, WithProxy, InCall
<1>1. TypeOK'
  BY DEF IInv, TypeOK, Pcs
<1>2. PointerInv' /\ UploadInv'
  BY DEF IInv, PointerInv, UploadInv
<1>3. ArchiveInv'
  BY DEF IInv, ArchiveInv
<1>4. WorkerInv' /\ FlagsInv'
  BY DEF IInv, WorkerInv, FlagsInv
<1>5. RemovalInv'
  BY DEF IInv, RemovalInv
<1>6. OutcomeInv'
  BY DEF IInv, OutcomeInv, RemovalInv, FlagsInv, Done
<1>7. ResultTellsAnswer'
  BY DEF ResultTellsAnswer
<1> QED
  BY <1>1, <1>2, <1>3, <1>4, <1>5, <1>6, <1>7 DEF IInv

LEMMA UnsubscribeIInv ==
  ASSUME IInv, Unsubscribe
  PROVE  IInv'
<1> USE DEF Unsubscribe, packageVars, pointerVars, flagVars, workerVars, deviceVars,
            BeforeUpload, Waiting, WithProxy, InCall
<1>1. TypeOK'
  BY DEF IInv, TypeOK, Pcs
<1>2. PointerInv' /\ UploadInv'
  BY DEF IInv, PointerInv, UploadInv
<1>3. ArchiveInv'
  BY DEF IInv, ArchiveInv
<1>4. WorkerInv' /\ FlagsInv'
  BY DEF IInv, WorkerInv, FlagsInv
<1>5. RemovalInv'
  BY DEF IInv, RemovalInv
<1>6. OutcomeInv'
  BY DEF IInv, OutcomeInv, ExitFailure
<1>7. ResultTellsAnswer'
  BY DEF ResultTellsAnswer
<1> QED
  BY <1>1, <1>2, <1>3, <1>4, <1>5, <1>6, <1>7 DEF IInv

\* Cleanup: the status thread is joined, so the statics are final.
LEMMA ReleaseIInv ==
  ASSUME IInv, Release
  PROVE  IInv'
<1> USE DEF Release, packageVars, flagVars, deviceVars, eventVars,
            BeforeUpload, Waiting, WithProxy, InCall
<1>1. /\ ptr' \in [Pointers -> PointerStates]
      /\ \A p \in Locals : ptr'[p] = "null"
  BY DEF NoPointers, Pointers, PointerStates, Locals
<1>2. leaked' \subseteq {"service", "zip"} /\ leaked' \subseteq Locals
  BY DEF Locals, CleanupFrees
<1>3. twice' \subseteq {"udid"}
  BY DEF IInv, PointerInv, Locals, CleanupFrees
<1>4. worker' = "none"
  BY DEF IInv, TypeOK, Joined
<1>5. /\ res \in {0, ExitFailure}
      /\ FinalResult \in Results
      /\ pc' = "idle" => result' = FinalResult
      /\ result' \in Results /\ pc' \in {"idle", "dead"} /\ pc = "cleanup"
  BY DEF IInv, TypeOK, FinalResult, Results
<1>6. TypeOK'
  BY <1>1, <1>2, <1>3, <1>4, <1>5 DEF IInv, TypeOK, Pcs, Pointers
<1>7. PointerInv'
  BY <1>1, <1>3, <1>5 DEF PointerInv
<1>8. ArchiveInv'
  <2>1. "zip" \in leaked' => res = ExitFailure
    BY <1>5 DEF IInv, ArchiveInv
  <2>2. "zip" \in leaked' => FinalResult # 0
    BY <2>1 DEF FinalResult, ExitFailure
  <2> QED
    BY <1>2, <1>5, <2>2 DEF ArchiveInv
<1>9. UploadInv' /\ WorkerInv' /\ FlagsInv' /\ OutcomeInv'
  BY <1>4, <1>5 DEF UploadInv, WorkerInv, FlagsInv, OutcomeInv
<1>10. RemovalInv'
  BY <1>5 DEF IInv, RemovalInv
<1>11. ResultTellsAnswer'
  <2>1. reply = "complete" => res = 0 /\ ~errOccurred
    BY <1>4, <1>5 DEF IInv, FlagsInv, OutcomeInv, WorkerInv, TypeOK
  <2>2. reply = "error" => errOccurred
    BY <1>5 DEF IInv, FlagsInv
  <2>3. FinalResult = 0 => reply = "complete" \/ unplugged
    BY <1>5, <2>2 DEF FinalResult, StatusError, ExitFailure, IInv, OutcomeInv, TypeOK
  <2>4. reply = "complete" => FinalResult = 0
    BY <2>1 DEF FinalResult
  <2>5. reply = "error" => FinalResult # 0
    BY <1>5, <2>2 DEF FinalResult, StatusError, ExitFailure
  <2> QED
    BY <1>5, <2>3, <2>4, <2>5 DEF ResultTellsAnswer
<1> QED
  BY <1>6, <1>7, <1>8, <1>9, <1>10, <1>11 DEF IInv

-----------------------------------------------------------------------------
(* Between calls.                                                          *)

LEMMA CallIInv ==
  ASSUME IInv, NEW k \in Kinds, Call(k)
  PROVE  IInv'
<1> USE DEF Call, ResetStatics, workerVars, eventVars, BeforeUpload, Waiting,
            WithProxy, InCall
<1>1. /\ ptr' \in [Pointers -> PointerStates]
      /\ \A p \in Locals : ptr'[p] # "dangling"
  BY DEF IInv, TypeOK, PointerInv, Pointers, Locals, PointerStates
<1>2. calls' \in 0..MaxCalls
  BY MaxCallsAssumption DEF IInv, TypeOK
<1>3. tried' \in 0..Chunks /\ stored' \in 0..tried'
  BY ChunksAssumption
<1>4. TypeOK'
  BY <1>1, <1>2, <1>3 DEF IInv, TypeOK, Pcs, Results
<1>5. PointerInv' /\ ArchiveInv' /\ UploadInv'
  BY <1>1 DEF IInv, PointerInv, ArchiveInv, UploadInv
<1>6. WorkerInv' /\ FlagsInv' /\ OutcomeInv'
  BY DEF IInv, WorkerInv, FlagsInv, OutcomeInv
<1>7. RemovalInv'
  BY DEF IInv, RemovalInv
<1>8. ResultTellsAnswer'
  BY DEF ResultTellsAnswer
<1> QED
  BY <1>4, <1>5, <1>6, <1>7, <1>8 DEF IInv

LEMMA NoDeviceIInv ==
  ASSUME IInv, NoDevice
  PROVE  IInv'
<1> USE DEF NoDevice, packageVars, flagVars, eventVars, BeforeUpload, Waiting,
            WithProxy, InCall
<1>1. calls' \in 0..MaxCalls
  BY MaxCallsAssumption DEF IInv, TypeOK
<1>2. TypeOK'
  BY <1>1 DEF IInv, TypeOK, Results
<1>3. PointerInv' /\ ArchiveInv' /\ UploadInv'
  BY DEF IInv, PointerInv, ArchiveInv, UploadInv
<1>4. WorkerInv' /\ FlagsInv' /\ OutcomeInv' /\ RemovalInv'
  BY DEF IInv, WorkerInv, FlagsInv, OutcomeInv, RemovalInv
<1>5. ResultTellsAnswer'
  BY DEF ResultTellsAnswer, NoDeviceResult
<1> QED
  BY <1>2, <1>3, <1>4, <1>5 DEF IInv

LEMMA RestartIInv ==
  ASSUME IInv, Restart
  PROVE  IInv'
<1> USE DEF Restart, packageVars, deviceVars, BeforeUpload, Waiting,
            WithProxy, InCall
<1>1. /\ ptr' \in [Pointers -> PointerStates]
      /\ \A p \in Locals : ptr'[p] = "null"
  BY DEF NoPointers, Pointers, PointerStates, Locals
<1>2. TypeOK'
  BY <1>1 DEF IInv, TypeOK, Pcs, Results
<1>3. PointerInv' /\ ArchiveInv' /\ UploadInv'
  BY <1>1 DEF PointerInv, ArchiveInv, UploadInv
<1>4. WorkerInv' /\ FlagsInv' /\ OutcomeInv' /\ RemovalInv'
  BY DEF WorkerInv, FlagsInv, OutcomeInv, RemovalInv
<1>5. ResultTellsAnswer'
  BY DEF ResultTellsAnswer
<1> QED
  BY <1>2, <1>3, <1>4, <1>5 DEF IInv

-----------------------------------------------------------------------------
(* The other threads and the phone.                                        *)

LEMMA AnswerIInv ==
  ASSUME IInv, NEW r \in {"complete", "error"}, Answer(r)
  PROVE  IInv'
<1> USE DEF Answer, Report, packageVars, pointerVars, resultVars, deviceVars,
            eventVars, BeforeUpload, Waiting, WithProxy, InCall
<1>1. TypeOK'
  BY DEF IInv, TypeOK
<1>2. PointerInv' /\ ArchiveInv' /\ UploadInv' /\ RemovalInv'
  BY DEF IInv, PointerInv, ArchiveInv, UploadInv, RemovalInv
<1>3. WorkerInv'
  BY DEF IInv, WorkerInv
<1>4. FlagsInv'
  BY DEF IInv, FlagsInv, WorkerInv
<1>5. OutcomeInv'
  BY DEF IInv, OutcomeInv
<1>6. ResultTellsAnswer'
  BY DEF IInv, WorkerInv, ResultTellsAnswer
<1> QED
  BY <1>1, <1>2, <1>3, <1>4, <1>5, <1>6 DEF IInv

LEMMA ConnectionLostIInv ==
  ASSUME IInv, ConnectionLost
  PROVE  IInv'
<1> USE DEF ConnectionLost, packageVars, pointerVars, flagVars, resultVars,
            deviceVars, eventVars, BeforeUpload, Waiting, WithProxy, InCall
<1>1. TypeOK'
  BY DEF IInv, TypeOK
<1>2. PointerInv' /\ ArchiveInv' /\ UploadInv' /\ RemovalInv'
  BY DEF IInv, PointerInv, ArchiveInv, UploadInv, RemovalInv
<1>3. WorkerInv' /\ FlagsInv' /\ OutcomeInv'
  BY DEF IInv, WorkerInv, FlagsInv, OutcomeInv
<1>4. ResultTellsAnswer'
  BY DEF IInv, ResultTellsAnswer
<1> QED
  BY <1>1, <1>2, <1>3, <1>4 DEF IInv

LEMMA DeliverRemovalIInv ==
  ASSUME IInv, DeliverRemoval
  PROVE  IInv'
<1> USE DEF DeliverRemoval, packageVars, pointerVars, resultVars, workerVars,
            deviceVars, BeforeUpload, Waiting, WithProxy, InCall
<1>1. connected' \in BOOLEAN
  BY DEF IInv, TypeOK
<1>2. TypeOK'
  BY <1>1 DEF IInv, TypeOK
<1>3. PointerInv' /\ ArchiveInv' /\ UploadInv'
  BY DEF IInv, PointerInv, ArchiveInv, UploadInv
<1>4. RemovalInv'
  BY DEF IInv, RemovalInv
<1>5. WorkerInv' /\ FlagsInv' /\ OutcomeInv'
  BY DEF IInv, WorkerInv, FlagsInv, OutcomeInv
<1>6. ResultTellsAnswer'
  BY DEF IInv, ResultTellsAnswer
<1> QED
  BY <1>2, <1>3, <1>4, <1>5, <1>6 DEF IInv

LEMMA UnplugIInv ==
  ASSUME IInv, Unplug
  PROVE  IInv'
<1> USE DEF Unplug, packageVars, pointerVars, flagVars, resultVars,
            workerVars, BeforeUpload, Waiting, WithProxy
<1>1. unplugged' \in BOOLEAN /\ removal' \in BOOLEAN
  BY DEF IInv, TypeOK
<1>2. unplugged \/ InCall => unplugged'
  OBVIOUS
<1>3. TypeOK'
  BY <1>1 DEF IInv, TypeOK
<1>4. PointerInv' /\ ArchiveInv' /\ UploadInv'
  BY DEF IInv, PointerInv, ArchiveInv, UploadInv
<1>5. RemovalInv'
  BY <1>2 DEF IInv, RemovalInv, InCall
<1>6. WorkerInv' /\ FlagsInv'
  BY DEF IInv, WorkerInv, FlagsInv, InCall
<1>7. OutcomeInv'
  BY <1>2 DEF IInv, OutcomeInv, InCall
<1>8. ResultTellsAnswer'
  BY <1>2 DEF IInv, ResultTellsAnswer
<1> QED
  BY <1>3, <1>4, <1>5, <1>6, <1>7, <1>8 DEF IInv

LEMMA AttachIInv ==
  ASSUME IInv, Attach
  PROVE  IInv'
BY DEF Attach, packageVars, pointerVars, flagVars, resultVars, workerVars,
   eventVars, BeforeUpload, Waiting, WithProxy, InCall, IInv, TypeOK,
   PointerInv, ArchiveInv, UploadInv, WorkerInv, FlagsInv, RemovalInv,
   OutcomeInv, ResultTellsAnswer

-----------------------------------------------------------------------------
LEMMA NextIInv == IInv /\ [Next]_vars => IInv'
<1> SUFFICES ASSUME IInv, [Next]_vars PROVE IInv'
  OBVIOUS
<1>1. CASE CallerStep
  <2>1. CASE Handshake \/ StartProxy \/ AfcService \/ AfcClient
    BY <2>1, ConnectIInv
  <2>2. CASE OpenPackage \/ ReadArchive \/ ReadBundle
    BY <2>2, PackageIInv
  <2>3. CASE StoreBuffer \/ StoreEntry \/ StoreFile
    BY <2>3, StoreIInv
  <2>4. CASE UploadFails \/ CloseArchive
    BY <2>4, UploadEndIInv
  <2>5. CASE Crash
    BY <2>5, CrashIInv
  <2>6. CASE SendInstall
    BY <2>6, SendInstallIInv
  <2>7. CASE Subscribe \/ StopWaiting \/ Unsubscribe
    BY <2>7, SubscribeIInv, StopWaitingIInv, UnsubscribeIInv
  <2>8. CASE Release
    BY <2>8, ReleaseIInv
  <2> QED
    BY <1>1, <2>1, <2>2, <2>3, <2>4, <2>5, <2>6, <2>7, <2>8 DEF CallerStep
<1>2. CASE NoDevice \/ Restart
  BY <1>2, NoDeviceIInv, RestartIInv
<1>3. ASSUME NEW k \in Kinds, Call(k) PROVE IInv'
  BY <1>3, CallIInv
<1>4. ASSUME NEW r \in {"complete", "error"}, Answer(r) PROVE IInv'
  BY <1>4, AnswerIInv
<1>5. CASE ConnectionLost \/ DeliverRemoval
  BY <1>5, ConnectionLostIInv, DeliverRemovalIInv
<1>6. CASE Unplug \/ Attach
  BY <1>6, UnplugIInv, AttachIInv
<1>7. CASE UNCHANGED vars
  BY <1>7 DEF vars, packageVars, pointerVars, flagVars, resultVars,
     workerVars, deviceVars, eventVars, BeforeUpload, Waiting, WithProxy,
     InCall, IInv, TypeOK, PointerInv, ArchiveInv, UploadInv, WorkerInv,
     FlagsInv, RemovalInv, OutcomeInv, ResultTellsAnswer
<1> QED
  BY <1>1, <1>2, <1>3, <1>4, <1>5, <1>6, <1>7 DEF Next

THEOREM Invariant == Spec => []IInv
  BY InitIInv, NextIInv, PTL DEF Spec

\* Types of the installer's state, for any packages and any number of calls.
THEOREM TypeCorrect == Spec => []TypeOK
<1>1. IInv => TypeOK
  BY DEF IInv
<1> QED
  BY <1>1, Invariant, PTL

\* runAction's result agrees with what the phone answered in this very call,
\* although the answer reaches it through statics that outlive calls.
THEOREM ResultAgrees == Spec => []ResultTellsAnswer
<1>1. IInv => ResultTellsAnswer
  BY DEF IInv
<1> QED
  BY <1>1, Invariant, PTL

\* status_cb only runs inside a call, whose client it reads from is live:
\* every path from instproxy_install leads through instproxy_client_free.
THEOREM StatusStaysInCall == Spec => []NoStrayStatus
<1>1. IInv => NoStrayStatus
  BY DEF IInv, WorkerInv, NoStrayStatus, Waiting
<1> QED
  BY <1>1, Invariant, PTL

\* leave_cleanup, reached from any step, releases every connection once.
THEOREM ReleasedOnce == Spec => []ConnectionsReleasedOnce
<1>1. IInv => ConnectionsReleasedOnce
  BY DEF IInv, ArchiveInv, PointerInv, ConnectionsReleasedOnce
<1> QED
  BY <1>1, Invariant, PTL

\* No install command follows an archive upload that was cut short.
THEOREM NothingSkipped == Spec => []NoBufferSkipped
<1>1. IInv => NoBufferSkipped
  BY DEF IInv, ArchiveInv, UploadInv, NoBufferSkipped, Waiting
<1> QED
  BY <1>1, Invariant, PTL

-----------------------------------------------------------------------------
(* Every call comes to its end, but for the two places where it waits.     *)

\* What the polling loop tests is whether the phone has answered this call or
\* its removal has been seen.
WaitTests == pc = "wait" => (Done <=> reply # "none" \/ ~connected)

\* What ends the wait stays until the caller, which polls, has seen it.
WaitStays == pc = "wait" /\ Done => pc' # "wait" \/ Done'

\* A bound on the caller's steps to the end of the call.
Ahead ==
    [handshake |-> 13, proxy |-> 12, afcService |-> 11, afcClient |-> 10,
     open |-> 9, read |-> 8, upload |-> 7, bundle |-> 6, send |-> 5,
     subscribe |-> 4, wait |-> 3, unsubscribe |-> 2, cleanup |-> 1,
     idle |-> 0, dead |-> 0]
StepsAhead == Ahead[pc] + (Chunks - tried)

\* Every step of the caller counts, and no other thread sets it back.
CallGoesForward ==
    InCall => /\ StepsAhead' < StepsAhead \/ UNCHANGED <<pc, tried>>
              /\ CallerStep => StepsAhead' < StepsAhead

LEMMA AheadFacts == \A p \in Pcs : Ahead[p] = 0 <=> p \in {"idle", "dead"}
BY DEF Ahead, Pcs

LEMMA WaitInv == IInv => WaitTests
BY DEF IInv, FlagsInv, OutcomeInv, TypeOK, InCall, Done, WaitTests

LEMMA NextWaitStays == IInv /\ [Next]_vars => WaitStays
<1> SUFFICES ASSUME IInv, [Next]_vars, pc = "wait", Done, pc' = "wait"
             PROVE  Done'
  BY DEF WaitStays
<1> USE DEF Done, flagVars
<1>1. CASE CallerStep
  BY <1>1
     DEF CallerStep, Handshake, StartProxy, AfcService, AfcClient, OpenPackage,
         ReadArchive, ReadBundle, UploadFails, CloseArchive, Moves, StoreBuffer,
         StoreEntry, StoreFile, Handled, Crash, SendInstall, Subscribe, StopWaiting,
         Unsubscribe, Release
<1>2. CASE NoDevice \/ Restart \/ \E k \in Kinds : Call(k)
  BY <1>2 DEF NoDevice, Restart, Call
<1>3. ASSUME NEW r, Answer(r)
      PROVE  Done'
  BY <1>3 DEF Answer, Report
<1>4. CASE DeliverRemoval
  BY <1>4 DEF DeliverRemoval
<1>5. CASE ConnectionLost \/ Unplug \/ Attach \/ UNCHANGED vars
  BY <1>5 DEF ConnectionLost, Unplug, Attach, vars
<1> QED
  BY <1>1, <1>2, <1>3, <1>4, <1>5 DEF Next

\* The caller polls three statics that two other threads write, without a
\* lock: what it tests is what happened in this very call, and neither an
\* answer nor a removal that was seen is taken back before it looks.
THEOREM AnswerIsSeen == Spec => []WaitTests /\ [][WaitStays]_vars
BY Invariant, WaitInv, NextWaitStays, PTL DEF Spec

LEMMA CallerStepCounts ==
  ASSUME IInv, CallerStep
  PROVE  StepsAhead' < StepsAhead
<1> USE ChunksAssumption DEF Ahead, StepsAhead
<1>1. tried \in 0..Chunks
  BY DEF IInv, TypeOK
<1>2. CASE Handshake \/ StartProxy \/ AfcService \/ AfcClient
  BY <1>1, <1>2 DEF Handshake, StartProxy, AfcService, AfcClient, Moves, packageVars
<1>3. CASE OpenPackage \/ ReadArchive \/ ReadBundle \/ UploadFails \/ CloseArchive
  BY <1>1, <1>3
     DEF OpenPackage, ReadArchive, ReadBundle, UploadFails, CloseArchive, Moves, packageVars
<1>4. CASE StoreBuffer \/ StoreEntry \/ StoreFile
  BY <1>1, <1>4 DEF StoreBuffer, StoreEntry, StoreFile, Handled
<1>5. CASE Crash
  BY <1>1, <1>5 DEF Crash, packageVars
<1>6. CASE SendInstall \/ Subscribe \/ StopWaiting \/ Unsubscribe
  BY <1>1, <1>6 DEF SendInstall, Subscribe, StopWaiting, Unsubscribe, packageVars
<1>7. CASE Release
  BY <1>1, <1>7 DEF Release, packageVars
<1> QED
  BY <1>2, <1>3, <1>4, <1>5, <1>6, <1>7 DEF CallerStep

LEMMA NextCallGoesForward == IInv /\ [Next]_vars => CallGoesForward
<1> SUFFICES ASSUME IInv, [Next]_vars, InCall, ~CallerStep
             PROVE  UNCHANGED <<pc, tried>>
  BY CallerStepCounts DEF CallGoesForward
<1>1. CASE NoDevice \/ Restart \/ \E k \in Kinds : Call(k)
  BY <1>1 DEF NoDevice, Restart, Call, InCall
<1>2. ASSUME NEW r, Answer(r)
      PROVE  UNCHANGED <<pc, tried>>
  BY <1>2 DEF Answer, packageVars
<1>3. CASE ConnectionLost \/ DeliverRemoval \/ Unplug \/ Attach
  BY <1>3 DEF ConnectionLost, DeliverRemoval, Unplug, Attach, packageVars
<1>4. CASE UNCHANGED vars
  BY <1>4 DEF vars, packageVars
<1> QED
  BY <1>1, <1>2, <1>3, <1>4 DEF Next

\* A call of installApp takes at most 13 steps and one for each piece of the
\* package, wherever it fails; what the other threads and the phone do never
\* sends it back.  It can only stand still where it waits.
THEOREM CallStepsAreCounted ==
  Spec => /\ [](StepsAhead \in 0..(13 + Chunks))
          /\ [](InCall <=> Ahead[pc] # 0)
          /\ [][CallGoesForward]_vars
<1>1. IInv => StepsAhead \in 0..(13 + Chunks)
  <2> SUFFICES ASSUME IInv PROVE StepsAhead \in 0..(13 + Chunks)
    OBVIOUS
  <2>1. pc \in Pcs /\ tried \in 0..Chunks
    BY DEF IInv, TypeOK
  <2>2. Ahead[pc] \in 0..13
    BY <2>1 DEF Ahead, Pcs
  <2> QED
    BY <2>1, <2>2, ChunksAssumption DEF StepsAhead
<1>2. IInv => (InCall <=> Ahead[pc] # 0)
  BY AheadFacts DEF IInv, TypeOK, InCall
<1> QED
  BY <1>1, <1>2, Invariant, NextCallGoesForward, PTL DEF Spec
=============================================================================
