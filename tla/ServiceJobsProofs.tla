-------------------------- MODULE ServiceJobsProofs --------------------------
(***************************************************************************)
(* Proofs about ServiceJobs, for all sets of installs and checks: types,   *)
(* and the safety properties of its run, from the inductive invariant JInv.*)
(***************************************************************************)
EXTENDS ServiceJobs, TLAPS

-----------------------------------------------------------------------------
(* The inductive invariant, in named parts.                                *)

Copying == {"delete", "create", "write", "copied", "copyFailed"}
Holding == Installing \cup OnMain \cup DeadEnds
           \cup {"starting", "lookup", "returned", "stopped"}

\* Each kind of job has places of its own; who holds the lease is at one of
\* the places between Acquire and GiveBack, so there is one job at them.
PlaceInv ==
    \A j \in Jobs :
        /\ pc[j] \in Copying \cup Installing \cup {"remove"} => j \in Installs
        /\ pc[j] \in OnMain \cup {"lookup"} => j \in Checks
        /\ pc[j] \in Holding => lease = j

\* Two installs that use temp_app.ipa at the same time are rivals.
RivalInv ==
    \A i, k \in Installs : i # k /\ Using(i) /\ Using(k) => i \in rivals

\* What temp_app.ipa is to an install without rivals, from its delete() on; it
\* writes to no file before it made one.
FileInv ==
    /\ \A j \in Installs : pc[j] \in {"idle", "delete", "create"} => writing[j] = None
    /\ \A j \in Installs \ rivals :
         /\ pc[j] = "create" => tempFile = None
         /\ pc[j] = "write" => /\ writing[j] \in Installs /\ tempFile = writing[j]
                               /\ authors[tempFile] = {}
         /\ pc[j] \in {"copied", "queued", "starting", "archive", "open"} =>
              tempFile = writing[j]
                /\ (writing[j] # None => authors[tempFile] = {j})
         /\ pc[j] \in {"open", "upload", "install"} => inspected = {j}
         /\ pc[j] \in {"upload", "install"} => uploaded = {j}

\* Whoever left temp_app.ipa behind did not get to its end.
LeftInv == tempFile # None => \E i \in Installs : Using(i) \/ pc[i] = "left"

ReportInv ==
    \A j \in reports : pc[j] \in {"details", "pair", "query", "read", "left"}

JInv ==
    /\ TypeOK
    /\ PlaceInv
    /\ RivalInv
    /\ FileInv
    /\ LeftInv
    /\ ReportInv
    /\ HandlesReleased

-----------------------------------------------------------------------------
LEMMA InitJInv == Init => JInv
<1> SUFFICES ASSUME Init PROVE JInv
  OBVIOUS
<1> USE DEF Init, Processor!Init, Ended, Installing, OnMain
<1>1. TypeOK
  <2>1. phone \in DOMAIN PhoneMoves
    BY DEF PhoneMoves
  <2>2. waiting \in Seq(Jobs) /\ lease \in Jobs \cup {None}
    OBVIOUS
  <2> QED
    BY <2>1, <2>2 DEF TypeOK, Pcs
<1>2. \A j \in Jobs : pc[j] = "idle"
  OBVIOUS
<1>3. PlaceInv /\ RivalInv /\ LeftInv
  BY <1>2 DEF PlaceInv, RivalInv, LeftInv, Using, Copying, Holding, DeadEnds,
            Jobs
<1>4. FileInv
  BY <1>2 DEF FileInv, Jobs
<1>5. ReportInv /\ HandlesReleased
  BY DEF ReportInv, HandlesReleased
<1> QED
  BY <1>1, <1>3, <1>4, <1>5 DEF JInv

-----------------------------------------------------------------------------
(* Frames: what a step leaves alone keeps what the invariant says of it.   *)

LEMMA StepFacts ==
  ASSUME TypeOK, NEW j \in Jobs, NEW from, NEW to \in Pcs, Step(j, from, to)
  PROVE  /\ pc[j] \in from /\ pc'[j] = to
         /\ pc' \in [Jobs -> Pcs] /\ \A k \in Jobs \ {j} : pc'[k] = pc[k]
         /\ cancelled' \subseteq Jobs /\ phone' = phone
BY DEF Step, TypeOK

\* A step of the coroutine of job j on the main thread: files and native calls
\* stay as they are.
LEMMA ResumesJInv ==
  ASSUME JInv, NEW j \in Jobs, NEW from, NEW to \in Pcs, Resumes(j, from, to),
         \* the processor
         waiting' \in Seq(Jobs), lease' \in Jobs \cup {None},
         running' \subseteq Jobs, leaked' \subseteq Jobs,
         \A k \in Jobs \ {j} : pc[k] \in Holding => lease' = k,
         to \in Holding => lease' = j,
         \* the place that is left and the one that is taken
         to \in Copying \cup Installing \cup {"remove"} => j \in Installs,
         to \in OnMain \cup {"lookup"} => j \in Checks,
         pc[j] \notin OnMain,
         pc[j] \in {"details", "pair", "query", "read", "left"} => to = "left",
         \* the files
         rivals' \subseteq Installs,
         \A i \in Installs : i \in rivals /\ i # j => i \in rivals',
         j \in rivals => j \in rivals' \/ to \in Ended,
         j \in Installs /\ to \notin Ended \cup {"reply"} /\ ~Using(j) =>
             \A i \in Installs \ {j} : Using(i) => i \in rivals' /\ j \in rivals',
         to \in {"idle", "create", "write", "open", "upload", "install"} => FALSE,
         to = "delete" => pc[j] = "idle",
         to \in {"queued", "starting", "archive"} /\ j \in Installs =>
             pc[j] \in {"copied", "queued", "starting"},
         to = "copied" => FALSE,
         j \in Installs /\ Using(j) => to \notin {"done", "reply"}
  PROVE  JInv'
<1> USE DEF Resumes, copyVars, readVars, callVars
<1>1. /\ pc[j] \in from /\ pc'[j] = to
      /\ pc' \in [Jobs -> Pcs] /\ \A k \in Jobs \ {j} : pc'[k] = pc[k]
      /\ cancelled' \subseteq Jobs /\ phone' = phone
  BY StepFacts DEF JInv
<1>2. TypeOK'
  BY <1>1 DEF JInv, TypeOK
<1>3. PlaceInv'
  BY <1>1 DEF JInv, PlaceInv
<1>4. RivalInv'
  BY <1>1 DEF JInv, RivalInv, Using, Jobs
<1>5. FileInv'
  BY <1>1 DEF JInv, FileInv, Using, Jobs, Ended
<1>6. LeftInv'
  BY <1>1 DEF JInv, LeftInv, Using, Jobs, Ended, Pcs
<1>7. ReportInv'
  BY <1>1 DEF JInv, TypeOK, ReportInv, Jobs
<1>8. HandlesReleased'
  BY <1>1 DEF JInv, HandlesReleased, Jobs, OnMain
<1> QED
  BY <1>2, <1>3, <1>4, <1>5, <1>6, <1>7, <1>8 DEF JInv

\* A step of install j on an IO thread that leaves it among the installs that
\* use temp_app.ipa, or takes it to its reply.
LEMMA OnIOJInv ==
  ASSUME JInv, NEW j \in Installs, NEW from, NEW to \in Pcs, OnIO(j, from, to),
         pc[j] \in Copying \cup Installing \cup {"remove"},
         to \in Copying \cup Installing \cup {"returned", "remove", "reply"},
         to \in Installing \cup {"returned"} => pc[j] \in Installing,
         to # "delete",
         \* the files
         tempFile' \in Installs \cup {None},
         authors' \in [Installs -> SUBSET (Installs \cup {None})],
         writing' \in [Installs -> Installs \cup {None}],
         source' \in Installs \cup {None},
         inspected' \subseteq Installs \cup {None},
         uploaded' \subseteq Installs \cup {None},
         \A k \in Installs \ {j} : writing'[k] = writing[k],
         to = "create" => writing'[j] = writing[j] /\ pc[j] = "delete",
         to = "reply" => tempFile' = None,
         \* what FileInv says of a job without rivals
         j \notin rivals =>
             /\ to = "create" => tempFile' = None
             /\ to = "write" => /\ writing'[j] \in Installs /\ tempFile' = writing'[j]
                                /\ authors'[tempFile'] = {}
             /\ to \in {"copied", "archive", "open"} =>
                  tempFile' = writing'[j]
                    /\ (writing'[j] # None => authors'[tempFile'] = {j})
             /\ to \in {"open", "upload", "install"} => inspected' = {j}
             /\ to \in {"upload", "install"} => uploaded' = {j}
  PROVE  JInv'
<1> USE DEF OnIO, leaseVars, callVars
<1>1. /\ pc[j] \in from /\ pc'[j] = to /\ j \in Jobs
      /\ pc' \in [Jobs -> Pcs] /\ \A k \in Jobs \ {j} : pc'[k] = pc[k]
      /\ cancelled' \subseteq Jobs /\ phone' = phone
  BY StepFacts DEF JInv, Jobs
<1>2. TypeOK'
  BY <1>1 DEF JInv, TypeOK
<1>3. Using(j)
  BY DEF Using, Copying, Installing, Ended
<1>4. PlaceInv'
  BY <1>1 DEF JInv, PlaceInv, Holding, Copying, Installing, OnMain, DeadEnds
<1>5. RivalInv'
  BY <1>1, <1>3 DEF JInv, RivalInv, Using, Jobs
<1>6. FileInv'
  <2>1. ASSUME NEW k \in Installs, pc'[k] \in {"idle", "delete", "create"}
        PROVE  writing'[k] = None
    BY <2>1, <1>1 DEF JInv, FileInv, Jobs, Copying, Installing
  <2>2. ASSUME NEW k \in Installs \ rivals, k # j
        PROVE  ~Using(k)
    BY <2>2, <1>3 DEF JInv, RivalInv
  <2>3. ASSUME NEW k \in Installs \ rivals, k # j
        PROVE  pc'[k] \in Ended \cup {"reply"}
    BY <2>2, <2>3, <1>1 DEF Using, Jobs
  <2> QED
    BY <2>1, <2>3, <1>1 DEF FileInv, Ended, Copying, Installing
<1>7. LeftInv'
  BY <1>1 DEF LeftInv, Using, Copying, Installing, Ended
<1>8. ReportInv'
  BY <1>1 DEF JInv, TypeOK, ReportInv, Jobs, Copying, Installing
<1>9. HandlesReleased'
  <2>1. \A k \in Checks : k \in Jobs \ {j}
    BY JobsAssumption DEF Jobs
  <2> QED
    BY <1>1, <2>1 DEF JInv, HandlesReleased
<1> QED
  BY <1>2, <1>4, <1>5, <1>6, <1>7, <1>8, <1>9 DEF JInv

\* A native call of check j on the main thread; it holds the lease, so no other
\* job is in one.
LEMMA NativeJInv ==
  ASSUME JInv, NEW j \in Checks, NEW from \in OnMain \cup {"lookup"},
         NEW to \in OnMain \cup {"lookup", "returned"}, Native(j, from, to),
         reports' \subseteq Checks, written' \in BOOLEAN,
         handles' \subseteq {"device", "client"},
         reports' \subseteq reports \cup {j},
         j \in reports' => to \in {"details", "pair", "query", "read"},
         handles # {} => from \in {"handshake", "pair", "query"},
         handles' # {} => to \in {"handshake", "pair", "query"}
  PROVE  JInv'
<1> USE DEF Native, leaseVars, copyVars, readVars
<1>1. to \in Pcs /\ j \in Jobs /\ j \notin Installs
  BY JobsAssumption DEF Pcs, Jobs, OnMain
<1>2. /\ pc[j] = from /\ pc'[j] = to
      /\ pc' \in [Jobs -> Pcs] /\ \A k \in Jobs \ {j} : pc'[k] = pc[k]
      /\ cancelled' \subseteq Jobs /\ phone' = phone
  <2>1. Step(j, {from}, to)
    OBVIOUS
  <2> QED
    BY <1>1, <2>1, StepFacts DEF JInv
<1>3. \A i \in Installs : pc'[i] = pc[i]
  BY <1>1, <1>2 DEF Jobs
<1>4. TypeOK'
  BY <1>2 DEF JInv, TypeOK
<1>5. PlaceInv'
  BY <1>1, <1>2 DEF JInv, PlaceInv, Holding, Copying, Installing, OnMain
<1>6. RivalInv' /\ FileInv' /\ LeftInv'
  BY <1>3 DEF JInv, RivalInv, FileInv, LeftInv, Using
<1>7. ReportInv'
  BY <1>2 DEF JInv, TypeOK, ReportInv, Jobs
<1>8. HandlesReleased'
  BY <1>2 DEF HandlesReleased
<1> QED
  BY <1>4, <1>5, <1>6, <1>7, <1>8 DEF JInv

-----------------------------------------------------------------------------
(* The main thread's steps of a job.                                       *)

\* Who holds the lease holds it alone.
LEMMA LeaseFacts ==
  ASSUME JInv
  PROVE  /\ \A j, k \in Jobs : pc[j] \in Holding /\ pc[k] \in Holding => j = k
         /\ lease = None => \A j \in Jobs : pc[j] \notin Holding
BY JobsAssumption DEF JInv, PlaceInv, Jobs

\* What the lemma about Resumes asks for besides the place of the job.
LEMMA ResumesFacts ==
  ASSUME JInv
  PROVE  /\ waiting \in Seq(Jobs) /\ lease \in Jobs \cup {None}
         /\ running \subseteq Jobs /\ leaked \subseteq Jobs
         /\ rivals \subseteq Installs
         /\ \A j \in Jobs : pc[j] \in Holding => lease = j
         /\ \A j, from, to : Resumes(j, from, to) => pc[j] \in from
BY DEF JInv, TypeOK, PlaceInv, Resumes, Step

LEMMA CommandJInv ==
  ASSUME JInv, NEW j \in Jobs, Decline(j) \/ AskPermission(j) \/ AskInstall(j)
  PROVE  JInv'
<1> USE DEF Pcs, Ended, Copying, Installing, OnMain, DeadEnds, Holding, leaseVars
<1>2. CASE Decline(j)
  <2>1. Resumes(j, {"idle"}, "done") /\ UNCHANGED <<rivals, leaseVars>>
    BY <1>2 DEF Decline
  <2> QED
    BY <2>1, ResumesFacts, ResumesJInv DEF Using
<1>3. CASE AskPermission(j)
  <2>1. waiting' \in Seq(Jobs) /\ UNCHANGED <<lease, running, leaked, rivals>>
    BY <1>3 DEF AskPermission, Processor!Request, JInv, TypeOK
  <2>2. j \notin Installs /\ Resumes(j, {"idle"}, "queued")
    BY <1>3, JobsAssumption DEF AskPermission
  <2> QED
    BY <2>1, <2>2, ResumesFacts, ResumesJInv
<1>4. CASE AskInstall(j)
  <2>1. /\ rivals' \subseteq Installs /\ rivals \subseteq rivals'
        /\ \A i \in Installs : Using(i) => i \in rivals' /\ j \in rivals'
    BY <1>4 DEF AskInstall, MeetRivals, JInv, TypeOK
  <2>2. j \in Installs /\ Resumes(j, {"idle"}, "delete") /\ UNCHANGED leaseVars
    BY <1>4 DEF AskInstall
  <2> QED
    BY <2>1, <2>2, ResumesFacts, ResumesJInv
<1> QED
  BY <1>2, <1>3, <1>4

LEMMA CopyEndJInv ==
  ASSUME JInv, NEW j \in Installs, AbortCopy(j) \/ Enqueue(j)
  PROVE  JInv'
<1> USE DEF Pcs, Ended, Copying, Installing, OnMain, DeadEnds, Holding, leaseVars
<1>1. j \in Jobs
  BY DEF Jobs
<1>2. CASE AbortCopy(j)
  <2>1. /\ Resumes(j, {"delete", "copied", "copyFailed"}, "left")
        /\ rivals' = rivals \ {j} /\ UNCHANGED leaseVars
    BY <1>2 DEF AbortCopy, Leaves
  <2> QED
    BY <1>1, <2>1, ResumesFacts, ResumesJInv
<1>3. CASE Enqueue(j)
  <2>1. /\ Resumes(j, {"copied"}, "queued") /\ waiting' \in Seq(Jobs)
        /\ UNCHANGED <<lease, running, leaked, rivals>>
    BY <1>1, <1>3 DEF Enqueue, Processor!Request, JInv, TypeOK
  <2> QED
    BY <1>1, <2>1, ResumesFacts, ResumesJInv DEF Using
<1> QED
  BY <1>2, <1>3

LEMMA LeaseStepJInv ==
  ASSUME JInv, NEW j \in Jobs,
         \/ Acquire(j) \/ Begin(j) \/ MissStart(j) \/ LoseStop(j) \/ StopDaemon(j)
         \/ GiveBack(j) \/ Unwind(j) \/ Reply(j)
  PROVE  JInv'
<1> USE DEF Pcs, Ended, DeadEnds, Copying, Installing, OnMain, Holding, leaseVars
<1>2. j \in Installs \/ j \in Checks
  BY DEF Jobs
<1>3. CASE Acquire(j)
  <2>1. /\ Resumes(j, {"queued"}, "starting") /\ lease' = j
        /\ waiting' = Tail(waiting) /\ waiting # << >>
        /\ running' = running \cup {Head(waiting)} /\ UNCHANGED <<leaked, rivals>>
        /\ \A k \in Jobs : pc[k] \notin Holding
    BY <1>3, LeaseFacts DEF Acquire, Processor!Grant
  <2>2. waiting' \in Seq(Jobs) /\ running' \subseteq Jobs
    BY <2>1 DEF JInv, TypeOK
  <2> QED
    BY <2>1, <2>2, ResumesFacts, ResumesJInv DEF Using
<1>4. CASE MissStart(j) \/ LoseStop(j) \/ StopDaemon(j)
  <2>1. PICK to \in DeadEnds \cup {"stopped"} :
          /\ Resumes(j, {"starting", "returned", "unstopped"}, to)
          /\ running' \subseteq Jobs /\ UNCHANGED <<waiting, lease, leaked, rivals>>
    BY <1>4 DEF MissStart, LoseStop, StopDaemon, Resumes, Step, Processor!DaemonEnds,
         JInv, TypeOK
  <2>2. lease = j
    BY <2>1, ResumesFacts
  <2> QED
    BY <2>1, <2>2, ResumesFacts, ResumesJInv DEF Using
<1>8. CASE Begin(j)
  <2> DEFINE to == IF j \in Installs THEN "archive" ELSE "lookup"
  <2>1. Resumes(j, {"starting"}, to) /\ UNCHANGED <<rivals, leaseVars>>
    BY <1>8 DEF Begin
  <2>2. lease = j /\ to \in Pcs
    BY <2>1, ResumesFacts
  <2> QED
    BY <1>2, <2>1, <2>2, ResumesFacts, ResumesJInv DEF Using
<1>5. CASE GiveBack(j)
  <2> DEFINE to == IF j \in cancelled THEN "left"
                   ELSE IF j \in Installs THEN "remove" ELSE "reply"
  <2>1. /\ Resumes(j, {"stopped"}, to) /\ rivals' = IF to \in Ended THEN rivals \ {j} ELSE rivals
        /\ lease' = None /\ UNCHANGED <<waiting, running, leaked>>
    BY <1>5 DEF GiveBack, Leaves, Processor!Return
  <2>2. \A k \in Jobs \ {j} : pc[k] \notin Holding
    BY <2>1, LeaseFacts, ResumesFacts
  <2>3. CASE j \in cancelled
    <3>1. to = "left"
      BY <2>3
    <3> QED
      BY <2>1, <2>2, <3>1, ResumesFacts, ResumesJInv
  <2>4. CASE j \notin cancelled /\ j \in Installs
    <3>1. to = "remove"
      BY <2>4
    <3> QED
      BY <2>1, <2>2, <2>4, <3>1, ResumesFacts, ResumesJInv DEF Using
  <2>5. CASE j \notin cancelled /\ j \notin Installs
    <3>1. to = "reply"
      BY <2>5
    <3> QED
      BY <2>1, <2>2, <2>5, <3>1, ResumesFacts, ResumesJInv
  <2> QED
    BY <2>3, <2>4, <2>5
<1>6. CASE Unwind(j)
  <2>1. /\ Resumes(j, {"starting", "lookup", "archive", "returned"} \cup DeadEnds,
                   "left")
        /\ rivals' = rivals \ {j} /\ lease' = None
        /\ leaked' = leaked \cup {lease} /\ lease # None
        /\ UNCHANGED <<waiting, running>>
    BY <1>6 DEF Unwind, Leaves, Processor!Abandon
  <2>2. /\ \A k \in Jobs \ {j} : pc[k] \notin Holding
        /\ leaked' \subseteq Jobs
    BY <2>1, LeaseFacts, ResumesFacts
  <2> QED
    BY <2>1, <2>2, ResumesFacts, ResumesJInv
<1>7. CASE Reply(j)
  <2> DEFINE to == IF pc[j] = "remove" THEN "left" ELSE "done"
  <2>1. /\ Resumes(j, {"remove", "reply"}, to) /\ rivals' = rivals \ {j}
        /\ UNCHANGED leaseVars
    BY <1>7 DEF Reply, Leaves
  <2> QED
    BY <2>1, ResumesFacts, ResumesJInv DEF Using
<1> QED
  BY <1>3, <1>4, <1>5, <1>6, <1>7, <1>8

-----------------------------------------------------------------------------
(* The steps of an install on IO threads.                                  *)

LEMMA FileFacts ==
  ASSUME JInv
  PROVE  /\ tempFile \in Installs \cup {None} /\ source \in Installs \cup {None}
         /\ authors \in [Installs -> SUBSET (Installs \cup {None})]
         /\ writing \in [Installs -> Installs \cup {None}]
         /\ inspected \subseteq Installs \cup {None}
         /\ uploaded \subseteq Installs \cup {None}
         /\ \A j, from, to : OnIO(j, from, to) => pc[j] \in from
BY DEF JInv, TypeOK, OnIO, Step

LEMMA CopyJInv ==
  ASSUME JInv, NEW j \in Installs,
         DeleteOld(j) \/ CreateFile(j) \/ NoStream(j) \/ CreateFails(j)
           \/ FinishCopy(j) \/ RemoveTemp(j)
  PROVE  JInv'
<1> USE DEF Pcs, Ended, Copying, Installing, OnMain, copyVars, readVars
<1>1. CASE DeleteOld(j)
  <2>1. /\ OnIO(j, {"delete"}, "create") /\ tempFile' = None
        /\ UNCHANGED <<authors, writing, readVars>>
    BY <1>1 DEF DeleteOld
  <2> QED
    BY <2>1, FileFacts, OnIOJInv
<1>2. CASE CreateFile(j)
  <2> DEFINE f == IF tempFile = None THEN j ELSE tempFile
  <2>1. /\ OnIO(j, {"create"}, "write") /\ tempFile' = f
        /\ authors' = [authors EXCEPT ![f] = {}]
        /\ writing' = [writing EXCEPT ![j] = f]
        /\ UNCHANGED <<source, inspected>>
        /\ uploaded' = IF source = f THEN {} ELSE uploaded
    BY <1>2 DEF CreateFile
  <2>2. f \in Installs
    BY FileFacts
  <2> HIDE DEF f
  <2>3. /\ authors' \in [Installs -> SUBSET (Installs \cup {None})] /\ authors'[f] = {}
        /\ writing' \in [Installs -> Installs \cup {None}] /\ writing'[j] = f
        /\ \A k \in Installs \ {j} : writing'[k] = writing[k]
        /\ uploaded' \subseteq Installs \cup {None}
    BY <2>1, <2>2, FileFacts
  <2> QED
    BY <2>1, <2>2, <2>3, FileFacts, OnIOJInv
<1>3. CASE NoStream(j)
  <2>1. OnIO(j, {"create"}, "copied") /\ UNCHANGED <<copyVars, readVars>>
    BY <1>3 DEF NoStream
  <2>2. writing[j] = None /\ (j \notin rivals => tempFile = None)
    BY <2>1, FileFacts DEF JInv, FileInv
  <2> QED
    BY <2>1, <2>2, FileFacts, OnIOJInv
<1>4. CASE CreateFails(j)
  <2>1. OnIO(j, {"create"}, "copyFailed") /\ UNCHANGED <<copyVars, readVars>>
    BY <1>4 DEF CreateFails
  <2> QED
    BY <2>1, FileFacts, OnIOJInv
<1>5. CASE FinishCopy(j)
  <2>1. PICK whole \in BOOLEAN :
          LET author == IF whole THEN j ELSE None
          IN  /\ OnIO(j, {"write"}, IF whole THEN "copied" ELSE "copyFailed")
              /\ authors' = [authors EXCEPT ![writing[j]] = @ \cup {author}]
              /\ uploaded' = IF source = writing[j] /\ uploaded # {}
                             THEN uploaded \cup {author} ELSE uploaded
              /\ UNCHANGED <<tempFile, writing, source, inspected>>
    BY <1>5 DEF FinishCopy
  <2> DEFINE to == IF whole THEN "copied" ELSE "copyFailed"
  <2>2. /\ OnIO(j, {"write"}, to)
        /\ authors' \in [Installs -> SUBSET (Installs \cup {None})]
        /\ uploaded' \subseteq Installs \cup {None}
        /\ UNCHANGED <<tempFile, writing, source, inspected>>
    BY <2>1, FileFacts
  <2>3. pc[j] = "write" /\ to \in {"copied", "copyFailed"}
    BY <2>2, FileFacts
  <2>4. ASSUME j \notin rivals, to = "copied"
        PROVE  tempFile = writing[j] /\ authors'[tempFile] = {j}
    <3>1. writing[j] \in Installs /\ tempFile = writing[j] /\ authors[tempFile] = {}
      BY <2>3, <2>4 DEF JInv, FileInv
    <3> QED
      BY <2>1, <2>4, <3>1, FileFacts
  <2> HIDE DEF to
  <2> QED
    BY <2>2, <2>3, <2>4, FileFacts, OnIOJInv
<1>6. CASE RemoveTemp(j)
  <2>1. /\ OnIO(j, {"remove"}, "reply") /\ tempFile' = None
        /\ UNCHANGED <<authors, writing, readVars>>
    BY <1>6 DEF RemoveTemp
  <2> QED
    BY <2>1, FileFacts, OnIOJInv
<1> QED
  BY <1>1, <1>2, <1>3, <1>4, <1>5, <1>6

LEMMA NativeInstallJInv ==
  ASSUME JInv, NEW j \in Installs,
         OpenArchive(j) \/ OpenUpload(j) \/ Uploaded(j) \/ InstallReturns(j)
  PROVE  JInv'
<1> USE DEF Pcs, Ended, Copying, Installing, OnMain, copyVars, readVars
<1>1. CASE OpenArchive(j)
  <2>1. /\ OnIO(j, {"archive"}, "open") /\ tempFile # None
        /\ source' = tempFile /\ inspected' = authors[tempFile]
        /\ UNCHANGED <<uploaded, copyVars>>
    BY <1>1 DEF OpenArchive
  <2>2. j \notin rivals => tempFile = writing[j] /\ authors[tempFile] = {j}
    BY <2>1, FileFacts DEF JInv, FileInv
  <2> QED
    BY <2>1, <2>2, FileFacts, OnIOJInv
<1>2. CASE OpenUpload(j)
  <2>1. /\ OnIO(j, {"open"}, "upload") /\ tempFile # None
        /\ source' = tempFile /\ uploaded' = authors[tempFile]
        /\ UNCHANGED <<inspected, copyVars>>
    BY <1>2 DEF OpenUpload
  <2>2. j \notin rivals => inspected = {j} /\ authors[tempFile] = {j}
    BY <2>1, FileFacts DEF JInv, FileInv
  <2> QED
    BY <2>1, <2>2, FileFacts, OnIOJInv
<1>3. CASE Uploaded(j)
  <2>1. OnIO(j, {"upload"}, "install") /\ UNCHANGED <<copyVars, readVars>>
    BY <1>3 DEF Uploaded
  <2>2. j \notin rivals => inspected = {j} /\ uploaded = {j}
    BY <2>1, FileFacts DEF JInv, FileInv
  <2> QED
    BY <2>1, <2>2, FileFacts, OnIOJInv
<1>4. CASE InstallReturns(j)
  <2>1. /\ OnIO(j, Installing, "returned") /\ UNCHANGED copyVars
        /\ source' = None /\ inspected' = {} /\ uploaded' = {}
    BY <1>4 DEF InstallReturns
  <2> QED
    BY <2>1, FileFacts, OnIOJInv
<1> QED
  BY <1>1, <1>2, <1>3, <1>4

-----------------------------------------------------------------------------
(* Native calls on the main thread.                                        *)

LEMMA CheckStepJInv ==
  ASSUME JInv, NEW j \in Checks, CheckStep(j)
  PROVE  JInv'
<1> USE DEF OnMain
<1>1. /\ reports \subseteq Checks /\ written \in BOOLEAN
      /\ handles \subseteq {"device", "client"}
      /\ j \in reports => pc[j] \in {"details", "pair", "query", "read", "left"}
      /\ \A from, to : Native(j, from, to) => pc[j] = from
  BY DEF JInv, TypeOK, ReportInv, Native, Step
<1>2. pc[j] \in OnMain \cup {"lookup"} /\ handles # {} => pc[j] \in {"handshake", "pair", "query"}
  BY LeaseFacts DEF JInv, HandlesReleased, Jobs, Holding
<1>3. CASE LookUp(j)
  <2>1. CASE Native(j, "lookup", "handshake") /\ handles' = {"device"}
    BY <1>1, <1>2, <1>3, <2>1, NativeJInv DEF LookUp
  <2>2. CASE Native(j, "lookup", "returned") /\ UNCHANGED handles
    BY <1>1, <1>2, <1>3, <2>2, NativeJInv DEF LookUp
  <2> QED
    BY <1>3, <2>1, <2>2 DEF LookUp
<1>4. CASE Handshake(j)
  <2>1. CASE Native(j, "handshake", "lookup") /\ UNCHANGED reports
    BY <1>1, <1>2, <1>4, <2>1, NativeJInv DEF Handshake
  <2>2. CASE Native(j, "handshake", "details") /\ reports' = reports \cup {j}
    BY <1>1, <1>2, <1>4, <2>2, NativeJInv DEF Handshake
  <2>3. CASE Native(j, "handshake", "returned") /\ UNCHANGED reports
    BY <1>1, <1>2, <1>4, <2>3, NativeJInv DEF Handshake
  <2> QED
    BY <1>4, <2>1, <2>2, <2>3 DEF Handshake
<1>5. CASE FindDevice(j)
  <2>1. CASE Native(j, "details", "pair") /\ handles' = {"device"}
    BY <1>1, <1>2, <1>5, <2>1, NativeJInv DEF FindDevice
  <2>2. CASE Native(j, "details", "read") /\ UNCHANGED handles
    BY <1>1, <1>2, <1>5, <2>2, NativeJInv DEF FindDevice
  <2> QED
    BY <1>5, <2>1, <2>2 DEF FindDevice
<1>6. CASE Pair(j)
  <2>1. CASE Native(j, "pair", "query") /\ handles' = handles \cup {"client"}
    BY <1>1, <1>2, <1>6, <2>1, NativeJInv DEF Pair
  <2>2. CASE Native(j, "pair", "read") /\ handles' = {}
    BY <1>1, <1>2, <1>6, <2>2, NativeJInv DEF Pair
  <2> QED
    BY <1>6, <2>1, <2>2 DEF Pair
<1>7. CASE Query(j)
  BY <1>1, <1>2, <1>7, NativeJInv DEF Query
<1>8. CASE ReadReport(j)
  BY <1>1, <1>2, <1>8, NativeJInv DEF ReadReport
<1> QED
  BY <1>3, <1>4, <1>5, <1>6, <1>7, <1>8 DEF CheckStep

-----------------------------------------------------------------------------
(* The phone, the end of the service and of the process.                   *)

LEMMA StutterJInv ==
  ASSUME JInv, UNCHANGED vars
  PROVE  JInv'
BY DEF JInv, TypeOK, PlaceInv, RivalInv, FileInv, LeftInv, ReportInv,
       HandlesReleased, Using, vars, leaseVars, copyVars, readVars, callVars

LEMMA PhoneStepJInv ==
  ASSUME JInv, PhoneStep
  PROVE  JInv'
<1>1. TypeOK'
  BY DEF JInv, TypeOK, PhoneStep, PhoneMoves, leaseVars, copyVars, readVars, callVars
<1> QED
  BY <1>1 DEF JInv, PlaceInv, RivalInv, FileInv, LeftInv, ReportInv,
       HandlesReleased, Using, PhoneStep, leaseVars, copyVars, readVars, callVars

LEMMA DestroyServiceJInv ==
  ASSUME JInv, DestroyService
  PROVE  JInv'
<1> USE DEF DestroyService, Processor!CancelWaiting, copyVars, readVars, callVars
<1>1. \A j \in Jobs : pc'[j] = IF pc[j] = "queued" THEN "left" ELSE pc[j]
  OBVIOUS
<1>2. pc' \in [Jobs -> Pcs] /\ cancelled' \subseteq Jobs
  BY DEF JInv, TypeOK, Pcs, Ended
<1>3. TypeOK'
  <2>1. waiting' \in Seq(Jobs) /\ rivals' \subseteq Installs
    BY DEF JInv, TypeOK
  <2> QED
    BY <1>2, <2>1 DEF JInv, TypeOK
<1>4. PlaceInv'
  BY <1>1 DEF JInv, PlaceInv, Copying, Installing, OnMain, DeadEnds, Holding
<1>5. \A i \in Installs : Using(i)' => Using(i) /\ pc'[i] = pc[i] /\ pc[i] \notin Ended
  BY <1>1 DEF Using, Jobs, Ended
<1>6. RivalInv'
  BY <1>5 DEF JInv, RivalInv
<1>7. FileInv'
  <2>1. \A i \in Installs \ rivals' : i \in rivals => pc'[i] \in Ended
    BY DEF JInv, TypeOK
  <2>2. \A i \in Installs : pc'[i] = pc[i] \/ pc'[i] = "left"
    BY <1>1 DEF Jobs
  <2> QED
    BY <2>1, <2>2 DEF JInv, FileInv, Ended
<1>8. LeftInv'
  BY <1>1 DEF JInv, LeftInv, Using, Jobs, Ended
<1>9. ReportInv' /\ HandlesReleased'
  BY <1>1 DEF JInv, TypeOK, ReportInv, HandlesReleased, Jobs
<1> QED
  BY <1>3, <1>4, <1>6, <1>7, <1>8, <1>9 DEF JInv

LEMMA ProcessDiesJInv ==
  ASSUME JInv, NEW j \in Jobs, ProcessDies(j)
  PROVE  JInv'
<1> USE DEF ProcessDies, Processor!Crash, copyVars
<1>1. \A k \in Jobs : pc'[k] = IF pc[k] \in Ended THEN pc[k] ELSE "left"
  OBVIOUS
<1>2. \A k \in Jobs : pc'[k] \in Ended /\ (pc'[k] # pc[k] => pc'[k] = "left")
  BY <1>1 DEF Ended
<1>3. TypeOK'
  <2>1. pc' \in [Jobs -> Pcs] /\ waiting' \in Seq(Jobs) /\ reports' \subseteq reports
    BY DEF JInv, TypeOK, Pcs, Ended
  <2> QED
    BY <2>1 DEF JInv, TypeOK
<1>4. PlaceInv'
  BY <1>2 DEF PlaceInv, Copying, Installing, OnMain, DeadEnds, Holding, Ended
<1>5. RivalInv' /\ FileInv'
  BY <1>2 DEF JInv, RivalInv, FileInv, Using, Ended, Jobs
<1>6. LeftInv'
  BY <1>1 DEF JInv, LeftInv, Using, Jobs, Ended
<1>7. ReportInv' /\ HandlesReleased'
  BY <1>1 DEF JInv, TypeOK, ReportInv, HandlesReleased, Jobs, Ended
<1> QED
  BY <1>3, <1>4, <1>5, <1>6, <1>7 DEF JInv

-----------------------------------------------------------------------------
LEMMA JobStepJInv ==
  ASSUME JInv, NEW j \in Jobs, JobStep(j)
  PROVE  JInv'
<1>1. CASE j \in Installs /\ InstallStep(j)
  BY <1>1, CopyJInv, CopyEndJInv, NativeInstallJInv DEF InstallStep
<1>2. CASE j \in Checks /\ CheckStep(j)
  BY <1>2, CheckStepJInv
<1>3. CASE \/ Acquire(j) \/ Begin(j) \/ MissStart(j) \/ LoseStop(j) \/ StopDaemon(j)
           \/ GiveBack(j) \/ Unwind(j) \/ Reply(j)
  BY <1>3, LeaseStepJInv
<1>4. CASE ProcessDies(j)
  BY <1>4, ProcessDiesJInv
<1> QED
  BY <1>1, <1>2, <1>3, <1>4 DEF JobStep

LEMMA NextJInv == JInv /\ [Next]_vars => JInv'
<1> SUFFICES ASSUME JInv, [Next]_vars PROVE JInv'
  OBVIOUS
<1>1. CASE UNCHANGED vars
  BY <1>1, StutterJInv
<1>2. CASE PhoneStep \/ DestroyService
  BY <1>2, PhoneStepJInv, DestroyServiceJInv
<1>3. CASE \E j \in Jobs : Decline(j) \/ AskPermission(j) \/ AskInstall(j)
  BY <1>3, CommandJInv
<1>4. CASE \E j \in Jobs : JobStep(j)
  BY <1>4, JobStepJInv
<1> QED
  BY <1>1, <1>2, <1>3, <1>4 DEF Next

\* The inductive invariant holds in every reachable state.
THEOREM JobsInvariant == Spec => []JInv
BY InitJInv, NextJInv, PTL DEF Spec

\* Every variable keeps its type.
THEOREM JobsTypes == Spec => []TypeOK
<1>1. JInv => TypeOK
  BY DEF JInv
<1> QED
  BY <1>1, JobsInvariant, PTL

\* An install that shared temp_app.ipa with no other tells the phone to install
\* all of its own package, and nothing else.
THEOREM InstallsOwnPackage == Spec => []OwnPackage
<1>1. JInv => OwnPackage
  BY DEF JInv, FileInv, OwnPackage
<1> QED
  BY <1>1, JobsInvariant, PTL

\* Its package stays in place while it waits for the mutex.
THEOREM PackageStays == Spec => []PackageInPlace
<1>1. JInv => PackageInPlace
  BY DEF JInv, FileInv, PackageInPlace
<1> QED
  BY <1>1, JobsInvariant, PTL

\* Only jobs that did not get to their end leave files behind.
THEOREM FilesAreRemoved == Spec => []FilesRemoved
<1>1. JInv => FilesRemoved
  BY DEF JInv, LeftInv, ReportInv, FilesRemoved
<1> QED
  BY <1>1, JobsInvariant, PTL

\* No native handle outlives its call.
THEOREM HandlesAreReleased == Spec => []HandlesReleased
<1>1. JInv => HandlesReleased
  BY DEF JInv
<1> QED
  BY <1>1, JobsInvariant, PTL

-----------------------------------------------------------------------------
(* Jobs and the lease: no job is stuck.                                    *)

\* The lease is held by a job at work, the queue is that of the jobs that wait,
\* each once, and the running daemons fit the places of the jobs.
UseInv ==
    /\ lease # None => pc[lease] \in Holding
    /\ \A j \in Jobs : (\E a \in 1..Len(waiting) : waiting[a] = j) <=> pc[j] = "queued"
    /\ \A a, b \in 1..Len(waiting) : waiting[a] = waiting[b] => a = b
    /\ \A j \in Jobs :
         /\ pc[j] \in Holding \ {"stopped", "missed"} => j \in running
         /\ pc[j] \in {"stopped", "missed"} => j \notin running
         /\ pc[j] \in Copying \cup {"idle"} => j \notin running \cup leaked

LEMMA InitUseInv == Init => UseInv
BY DEF Init, Processor!Init, UseInv, Holding, Copying, Installing, OnMain, DeadEnds

\* A step that leaves the lease alone and moves jobs only where that does not
\* matter.
LEMMA UseFrame ==
  ASSUME JInv, UseInv, UNCHANGED leaseVars,
         \A k \in Jobs :
            /\ pc'[k] \in Holding <=> pc[k] \in Holding
            /\ pc'[k] = "queued" <=> pc[k] = "queued"
            /\ pc'[k] \in {"stopped", "missed"} <=> pc[k] \in {"stopped", "missed"}
            /\ pc'[k] \in Copying \cup {"idle"} => pc[k] \in Copying \cup {"idle"}
  PROVE  UseInv'
<1>1. lease # None => lease \in Jobs
  BY DEF JInv, TypeOK
<1> QED
  BY <1>1 DEF UseInv, leaseVars

LEMMA RequestUse ==
  ASSUME JInv, UseInv, NEW j \in Jobs, Processor!Request(j),
         pc[j] \in {"idle", "copied"}, pc'[j] = "queued",
         \A k \in Jobs \ {j} : pc'[k] = pc[k]
  PROVE  UseInv'
<1> USE DEF Processor!Request
<1>1. /\ waiting \in Seq(Jobs) /\ waiting' = Append(waiting, j)
      /\ UNCHANGED <<lease, running, leaked>>
      /\ lease # None => lease \in Jobs \ {j}
  BY DEF JInv, TypeOK
<1>2. /\ Len(waiting') = Len(waiting) + 1 /\ waiting'[Len(waiting) + 1] = j
      /\ \A a \in 1..Len(waiting) : waiting'[a] = waiting[a]
  BY <1>1
<1>3. \A a \in 1..Len(waiting) : waiting[a] # j
  BY <1>1
<1>4. \A a, b \in 1..Len(waiting') : waiting'[a] = waiting'[b] => a = b
  BY <1>2, <1>3 DEF UseInv
<1>5. \A k \in Jobs : (\E a \in 1..Len(waiting') : waiting'[a] = k) <=> pc'[k] = "queued"
  <2> SUFFICES ASSUME NEW k \in Jobs
               PROVE  (\E a \in 1..Len(waiting') : waiting'[a] = k) <=> pc'[k] = "queued"
    OBVIOUS
  <2>1. Len(waiting) + 1 \in 1..Len(waiting')
    BY <1>1, <1>2
  <2>2. CASE k = j
    BY <1>2, <2>1, <2>2
  <2>3. CASE k # j
    <3>1. \A a \in 1..Len(waiting') : waiting'[a] = k => a \in 1..Len(waiting)
      BY <1>1, <1>2, <2>3
    <3>2. \A a \in 1..Len(waiting) : a \in 1..Len(waiting')
      BY <1>1, <1>2
    <3>3. (\E a \in 1..Len(waiting') : waiting'[a] = k)
            <=> (\E a \in 1..Len(waiting) : waiting[a] = k)
      BY <1>2, <3>1, <3>2
    <3> QED
      BY <2>3, <3>3 DEF UseInv
  <2> QED
    BY <2>2, <2>3
<1> QED
  BY <1>1, <1>4, <1>5 DEF UseInv, Holding, Copying, Installing, OnMain, DeadEnds

\* The first of the queue gets the lease.
LEMMA AcquireUse ==
  ASSUME JInv, UseInv, NEW j \in Jobs, Acquire(j)
  PROVE  UseInv'
<1>1. /\ waiting \in Seq(Jobs) /\ waiting # << >> /\ Head(waiting) = j
      /\ lease = None /\ lease' = j /\ waiting' = Tail(waiting)
      /\ running' = running \cup {j} /\ leaked' = leaked
  BY DEF Acquire, Processor!Grant, JInv, TypeOK
<1>2. /\ pc[j] = "queued" /\ pc'[j] = "starting"
      /\ \A k \in Jobs \ {j} : pc'[k] = pc[k]
  BY DEF Acquire, Resumes, Step, JInv, TypeOK
<1>3. /\ Len(waiting) \in Nat \ {0} /\ waiting[1] = j /\ Len(waiting') = Len(waiting) - 1
      /\ \A a \in 1..Len(waiting') : waiting'[a] = waiting[a + 1]
  BY <1>1
<1>4. \A a, b \in 1..Len(waiting') : waiting'[a] = waiting'[b] => a = b
  <2> SUFFICES ASSUME NEW a \in 1..Len(waiting'), NEW b \in 1..Len(waiting'),
                      waiting'[a] = waiting'[b]
               PROVE  a = b
    OBVIOUS
  <2>1. a + 1 \in 1..Len(waiting) /\ b + 1 \in 1..Len(waiting)
    BY <1>3
  <2>2. a + 1 = b + 1
    BY <1>3, <2>1 DEF UseInv
  <2> QED
    BY <2>2
<1>5. \A k \in Jobs : (\E a \in 1..Len(waiting') : waiting'[a] = k) <=> pc'[k] = "queued"
  <2> SUFFICES ASSUME NEW k \in Jobs
               PROVE  (\E a \in 1..Len(waiting') : waiting'[a] = k) <=> pc'[k] = "queued"
    OBVIOUS
  <2>1. ASSUME NEW a \in 1..Len(waiting'), waiting'[a] = k
        PROVE  k # j /\ pc[k] = "queued"
    <3>1. a + 1 \in 1..Len(waiting) /\ a + 1 # 1 /\ waiting[a + 1] = k /\ 1 \in 1..Len(waiting)
      BY <1>3, <2>1
    <3> QED
      BY <1>3, <3>1 DEF UseInv
  <2>2. ASSUME k # j, pc[k] = "queued"
        PROVE  \E a \in 1..Len(waiting') : waiting'[a] = k
    <3>1. PICK a \in 1..Len(waiting) : waiting[a] = k
      BY <2>2 DEF UseInv
    <3>2. a # 1 /\ a - 1 \in 1..Len(waiting') /\ (a - 1) + 1 = a
      BY <1>3, <2>2, <3>1
    <3>3. waiting'[a - 1] = k
      BY <1>3, <3>1, <3>2
    <3> QED
      BY <3>2, <3>3
  <2> QED
    BY <1>2, <2>1, <2>2
<1>6. \A k \in Jobs \ {j} : pc[k] \notin Holding
  BY <1>1, LeaseFacts
<1> QED
  BY <1>1, <1>2, <1>4, <1>5, <1>6, JobsAssumption
     DEF UseInv, Holding, Copying, Installing, OnMain, DeadEnds

LEMMA LeaseStepUse ==
  ASSUME JInv, UseInv, NEW j \in Jobs,
         MissStart(j) \/ StopDaemon(j) \/ GiveBack(j) \/ Unwind(j)
  PROVE  UseInv'
<1> USE DEF Holding, Copying, Installing, OnMain, DeadEnds
<1>1. /\ pc[j] \in Holding /\ waiting' = waiting
      /\ \A k \in Jobs \ {j} : pc'[k] = pc[k]
  BY DEF MissStart, StopDaemon, GiveBack, Unwind, Leaves, Resumes, Step, Processor!DaemonEnds,
       Processor!Return, Processor!Abandon, JInv, TypeOK
<1>2. lease = j /\ \A k \in Jobs \ {j} : pc[k] \notin Holding
  <2> HIDE DEF Holding
  <2> QED
    BY <1>1, LeaseFacts DEF JInv, PlaceInv
<1>3. /\ pc[j] # "queued" /\ pc'[j] # "queued"
      /\ pc'[j] \notin Copying \cup {"idle"}
  BY <1>1 DEF MissStart, StopDaemon, GiveBack, Unwind, Leaves, Resumes, Step, JInv,
       TypeOK
<1>4. CASE MissStart(j) \/ StopDaemon(j)
  <2>1. /\ pc'[j] \in {"stopped", "missed"} /\ running' = running \ {j}
        /\ UNCHANGED <<lease, leaked>>
    BY <1>4 DEF MissStart, StopDaemon, Resumes, Step, Processor!DaemonEnds, JInv, TypeOK
  <2> QED
    BY <1>1, <1>2, <1>3, <2>1 DEF UseInv
<1>5. CASE GiveBack(j) \/ Unwind(j)
  <2>1. /\ pc'[j] \notin Holding /\ lease' = None /\ running' = running
        /\ leaked' \subseteq leaked \cup {j}
    BY <1>2, <1>5 DEF GiveBack, Unwind, Leaves, Resumes, Step, Processor!Return,
         Processor!Abandon, JInv, TypeOK
  <2> QED
    BY <1>1, <1>2, <1>3, <2>1 DEF UseInv
<1> QED
  BY <1>4, <1>5

LEMMA QuietUse ==
  ASSUME JInv, UseInv, NEW j \in Jobs, NEW from, NEW to \in Pcs, Step(j, from, to),
         UNCHANGED leaseVars,
         to \in Holding <=> pc[j] \in Holding,
         to \notin {"queued", "stopped", "missed"},
         pc[j] \notin {"queued", "stopped", "missed"},
         to \in Copying \cup {"idle"} => pc[j] \in Copying \cup {"idle"}
  PROVE  UseInv'
BY StepFacts, UseFrame DEF JInv

LEMMA NextUseInv == JInv /\ UseInv /\ [Next]_vars => UseInv'
<1> SUFFICES ASSUME JInv, UseInv, [Next]_vars PROVE UseInv'
  OBVIOUS
<1> USE DEF Pcs, Ended, DeadEnds, Copying, Installing, OnMain, Holding
<1>1. CASE UNCHANGED vars \/ PhoneStep
  BY <1>1, UseFrame DEF vars, PhoneStep
<1>2. CASE DestroyService
  <2>1. /\ waiting' = << >> /\ UNCHANGED <<lease, running, leaked>>
        /\ \A k \in Jobs : pc'[k] = IF pc[k] = "queued" THEN "left" ELSE pc[k]
    BY <1>2 DEF DestroyService, Processor!CancelWaiting
  <2>2. Len(waiting') = 0 /\ (lease # None => lease \in Jobs)
    BY <2>1 DEF JInv, TypeOK
  <2> QED
    BY <2>1, <2>2 DEF UseInv
<1>3. ASSUME NEW j \in Jobs, Decline(j) \/ AskInstall(j)
      PROVE  UseInv'
  <2>1. \E to \in {"done", "delete"} : Step(j, {"idle"}, to)
    BY <1>3 DEF Decline, AskInstall, Resumes
  <2>2. UNCHANGED leaseVars /\ pc[j] = "idle"
    BY <1>3 DEF Decline, AskInstall, Resumes, Step
  <2> QED
    BY <2>1, <2>2, QuietUse
<1>4. ASSUME NEW j \in Jobs, AskPermission(j) \/ Enqueue(j)
      PROVE  UseInv'
  <2>1. /\ Processor!Request(j) /\ pc[j] \in {"idle", "copied"} /\ pc'[j] = "queued"
        /\ \A k \in Jobs \ {j} : pc'[k] = pc[k]
    BY <1>4 DEF AskPermission, Enqueue, Resumes, Step, JInv, TypeOK
  <2> QED
    BY <2>1, RequestUse
<1>5. ASSUME NEW j \in Jobs, AbortCopy(j) \/ Reply(j)
      PROVE  UseInv'
  <2>1. \E to \in {"left", "done"} :
          Step(j, {"delete", "copied", "copyFailed", "remove", "reply"}, to)
    BY <1>5 DEF AbortCopy, Reply, Leaves, Resumes, Step
  <2>2. UNCHANGED leaseVars
        /\ pc[j] \in {"delete", "copied", "copyFailed", "remove", "reply"}
    BY <1>5 DEF AbortCopy, Reply, Leaves, Resumes, Step
  <2> QED
    BY <2>1, <2>2, QuietUse
<1>6. ASSUME NEW j \in Jobs, NEW from, NEW to \in Pcs, OnIO(j, from, to),
             pc[j] \in Copying \cup Installing \cup {"remove"},
             to \in Holding <=> pc[j] \in Holding,
             to \notin {"queued", "stopped", "missed", "idle"},
             to \in Copying => pc[j] \in Copying
      PROVE  UseInv'
  <2>1. Step(j, from, to) /\ UNCHANGED leaseVars
    BY <1>6 DEF OnIO
  <2> QED
    BY <1>6, <2>1, QuietUse
<1>7. ASSUME NEW j \in Installs, InstallStep(j)
      PROVE  UseInv'
  <2>1. j \in Jobs /\ \A from, to : OnIO(j, from, to) => pc[j] \in from
    BY FileFacts DEF Jobs
  <2>2. CASE AbortCopy(j) \/ Enqueue(j)
    BY <1>4, <1>5, <2>1, <2>2
  <2>3. CASE DeleteOld(j)
    BY <1>6, <2>1, <2>3 DEF DeleteOld
  <2>4. CASE CreateFile(j) \/ NoStream(j) \/ CreateFails(j)
    BY <1>6, <2>1, <2>4 DEF CreateFile, NoStream, CreateFails
  <2>5. CASE FinishCopy(j)
    <3>1. \E to \in {"copied", "copyFailed"} : OnIO(j, {"write"}, to)
      BY <2>5 DEF FinishCopy
    <3> QED
      BY <1>6, <2>1, <3>1
  <2>6. CASE OpenArchive(j)
    BY <1>6, <2>1, <2>6 DEF OpenArchive
  <2>7. CASE OpenUpload(j)
    BY <1>6, <2>1, <2>7 DEF OpenUpload
  <2>8. CASE Uploaded(j)
    BY <1>6, <2>1, <2>8 DEF Uploaded
  <2>9. CASE InstallReturns(j)
    BY <1>6, <2>1, <2>9 DEF InstallReturns
  <2>10. CASE RemoveTemp(j)
    BY <1>6, <2>1, <2>10 DEF RemoveTemp
  <2> QED
    BY <1>7, <2>2, <2>3, <2>4, <2>5, <2>6, <2>7, <2>8, <2>9, <2>10 DEF InstallStep
<1>8. ASSUME NEW j \in Checks, CheckStep(j)
      PROVE  UseInv'
  <2>1. j \in Jobs
    BY DEF Jobs
  <2>2. PICK from \in OnMain \cup {"lookup"}, to \in OnMain \cup {"lookup", "returned"} :
          Native(j, from, to)
    BY <1>8 DEF CheckStep, LookUp, Handshake, FindDevice, Pair, Query, ReadReport
  <2>3. Step(j, {from}, to) /\ pc[j] = from /\ UNCHANGED leaseVars
    BY <2>2 DEF Native, Step
  <2> QED
    BY <2>1, <2>2, <2>3, QuietUse
<1>9. ASSUME NEW j \in Jobs, ProcessDies(j)
      PROVE  UseInv'
  <2>1. /\ waiting' = << >> /\ lease' = None /\ running' = {} /\ leaked' = {}
        /\ \A k \in Jobs : pc'[k] = IF pc[k] \in Ended THEN pc[k] ELSE "left"
    BY <1>9 DEF ProcessDies, Processor!Crash
  <2>2. Len(waiting') = 0
    BY <2>1
  <2> QED
    BY <2>1, <2>2 DEF UseInv
<1>10. ASSUME NEW j \in Jobs, Begin(j) \/ LoseStop(j)
       PROVE  UseInv'
  <2>1. PICK to \in {"archive", "lookup", "unstopped"} :
          Step(j, {"starting", "returned"}, to)
    BY <1>10 DEF Begin, LoseStop, Resumes, Step
  <2>2. UNCHANGED leaseVars /\ pc[j] \in {"starting", "returned"}
    BY <1>10 DEF Begin, LoseStop, Resumes, Step
  <2> QED
    BY <2>1, <2>2, QuietUse
<1>11. ASSUME NEW j \in Jobs, JobStep(j)
       PROVE  UseInv'
  <2> HIDE DEF Pcs, Ended, DeadEnds, Copying, Installing, OnMain, Holding
  <2> QED
    BY <1>5, <1>7, <1>8, <1>9, <1>10, <1>11, AcquireUse, LeaseStepUse DEF JobStep
<1> QED
  BY <1>1, <1>2, <1>3, <1>4, <1>11 DEF Next

\* Job j can take its next step, with nobody's help: its guards, in the state it
\* is in.
GoesOn(j) ==
    \/ pc[j] \in {"delete", "create", "write", "remove"}
    \/ pc[j] = "lookup" /\ j \notin cancelled
    \/ /\ MainFree
       /\ \/ pc[j] \in {"copyFailed", "reply", "starting", "returned"}
          \/ pc[j] \in DeadEnds \cup {"copied", "lookup"} /\ j \in cancelled
          \/ /\ pc[j] = "copied"
             /\ j \notin running \cup leaked \cup {lease}
             /\ \A a \in 1..Len(waiting) : waiting[a] # j
          \/ /\ pc[j] = "queued"
             /\ lease = None /\ waiting # << >> /\ Head(waiting) = j
          \/ pc[j] = "stopped" /\ lease = j /\ j \notin running

\* Job j waits for the phone, in a native call, or, for ever, for its daemon:
\* and it is the one that has the lease.
WaitsOutside(j) ==
    /\ lease = j
    /\ \/ pc[j] \in Installing \cup OnMain
       \/ pc[j] \in DeadEnds /\ j \notin cancelled

SomeJobGoesOn ==
    (\E j \in Jobs : pc[j] \notin Ended)
    => \E j \in Jobs : GoesOn(j) \/ WaitsOutside(j)

\* A job that does not wait for the lease goes on as soon as the main thread is
\* free, or it has the lease and waits for phone or daemon.
LEMMA AloneGoesOn ==
  ASSUME JInv, UseInv, MainFree, NEW j \in Jobs, pc[j] \notin Ended \cup {"queued"}
  PROVE  GoesOn(j) \/ WaitsOutside(j)
<1>1. pc[j] \in Pcs
  BY DEF JInv, TypeOK
<1>2. CASE pc[j] = "copied"
  <2>1. \A a \in 1..Len(waiting) : waiting[a] # j
    BY <1>2 DEF UseInv
  <2>2. j # None /\ j \notin running \cup leaked
    BY <1>2, JobsAssumption DEF UseInv, Copying, Jobs
  <2>3. lease # j
    BY <1>2, <2>2 DEF UseInv, Holding, Installing, OnMain, DeadEnds
  <2> QED
    BY <1>2, <2>1, <2>2, <2>3 DEF GoesOn
<1>3. CASE pc[j] \in Installing \cup OnMain \cup DeadEnds
  <2>1. lease = j
    BY <1>3 DEF JInv, PlaceInv, Holding
  <2> QED
    BY <1>3, <2>1 DEF GoesOn, WaitsOutside
<1>4. CASE pc[j] = "stopped"
  BY <1>4 DEF UseInv, JInv, PlaceInv, GoesOn, Holding
<1>5. CASE pc[j] \notin Installing \cup OnMain \cup DeadEnds \cup {"copied", "stopped"}
  BY <1>1, <1>5 DEF GoesOn, Pcs
<1> QED
  BY <1>2, <1>3, <1>4, <1>5

LEMMA UseInvGoesOn == JInv /\ UseInv => SomeJobGoesOn
<1> SUFFICES ASSUME JInv, UseInv, NEW j \in Jobs, pc[j] \notin Ended
             PROVE  \E k \in Jobs : GoesOn(k) \/ WaitsOutside(k)
  BY DEF SomeJobGoesOn
<1>1. CASE ~MainFree
  <2>1. PICK k \in Jobs : pc[k] \in OnMain
    BY <1>1 DEF MainFree
  <2>2. lease = k
    BY <2>1 DEF JInv, PlaceInv, Holding
  <2> QED
    BY <2>1, <2>2 DEF WaitsOutside
<1>2. CASE MainFree /\ lease # None
  <2>1. lease \in Jobs /\ pc[lease] \in Holding
    BY <1>2 DEF JInv, TypeOK, UseInv
  <2>2. pc[lease] \notin Ended \cup {"queued"}
    BY <2>1 DEF Holding, Installing, OnMain, DeadEnds, Ended
  <2> QED
    BY <1>2, <2>1, <2>2, AloneGoesOn
<1>3. CASE MainFree /\ lease = None /\ pc[j] = "queued"
  <2>1. waiting \in Seq(Jobs) /\ \E a \in 1..Len(waiting) : waiting[a] = j
    BY <1>3 DEF JInv, TypeOK, UseInv
  <2>2. waiting # << >> /\ 1 \in 1..Len(waiting) /\ Head(waiting) = waiting[1]
        /\ Head(waiting) \in Jobs
    BY <2>1
  <2>3. pc[Head(waiting)] = "queued"
    BY <2>2 DEF UseInv
  <2>4. GoesOn(Head(waiting))
    BY <1>3, <2>2, <2>3 DEF GoesOn
  <2> QED
    BY <2>2, <2>4
<1>4. CASE MainFree /\ pc[j] # "queued"
  BY <1>4, AloneGoesOn
<1> QED
  BY <1>1, <1>2, <1>3, <1>4

\* As long as a job is unfinished, one can take a step, or the job that has the
\* mutex of UsbCommandProcessor waits for the phone or for its daemon: jobs
\* wait for the main thread and for the mutex, and never for each other in a
\* circle, however often the service was destroyed or its process died.
THEOREM NoCircularWait == Spec => []SomeJobGoesOn
<1>1. JInv /\ UseInv /\ [Next]_vars => UseInv'
  BY NextUseInv
<1> QED
  BY <1>1, InitUseInv, JobsInvariant, UseInvGoesOn, PTL DEF Spec

-----------------------------------------------------------------------------
(* Jobs go forward.                                                        *)

\* A bound on the steps to the end of a job, by the place where it is.
StepsLeft ==
    [delete |-> 20, create |-> 19, write |-> 18, copied |-> 17, copyFailed |-> 17,
     queued |-> 16, starting |-> 15, archive |-> 14, open |-> 13, upload |-> 12,
     install |-> 11, lookup |-> 14, handshake |-> 13, details |-> 12, pair |-> 11,
     query |-> 10, read |-> 9, returned |-> 8, stopped |-> 6, remove |-> 5,
     reply |-> 4, missed |-> 1, unstopped |-> 7, done |-> 0, left |-> 0]

\* A job that moves comes nearer its end, except that the poll asks a phone
\* again whose user has not decided.
Forward(j) ==
    \/ pc'[j] = pc[j]
    \/ StepsLeft[pc'[j]] < StepsLeft[pc[j]]
    \/ TryAgain /\ pc[j] = "handshake" /\ pc'[j] = "lookup"
GoesForward == \A j \in Jobs : pc[j] # "idle" => Forward(j)

\* A step of one job leaves the others where they are.
LEMMA OneGoesForward ==
  ASSUME JInv, NEW j \in Jobs, NEW from, NEW to \in Pcs, Step(j, from, to),
         pc[j] # "idle" =>
            \/ StepsLeft[to] < StepsLeft[pc[j]]
            \/ TryAgain /\ pc[j] = "handshake" /\ to = "lookup"
  PROVE  GoesForward
BY StepFacts DEF JInv, GoesForward, Forward

\* The main thread, the lease and the end of a job.
LEMMA ServiceGoesForward ==
  ASSUME JInv, NEW j \in Jobs,
         \/ Decline(j) \/ AskPermission(j) \/ AskInstall(j) \/ AbortCopy(j) \/ Enqueue(j)
         \/ Acquire(j) \/ Begin(j) \/ MissStart(j) \/ LoseStop(j) \/ StopDaemon(j)
         \/ GiveBack(j) \/ Unwind(j) \/ Reply(j)
  PROVE  GoesForward
<1> USE DEF Pcs, Ended, DeadEnds, Installing, OnMain, Resumes, Leaves
<1>1. PICK from, to :
        /\ to \in Pcs /\ Step(j, from, to)
        /\ \A place \in from \ {"idle"} : StepsLeft[to] < StepsLeft[place]
  <2>1. CASE Decline(j)
    BY <2>1 DEF Decline
  <2>2. CASE AskPermission(j)
    BY <2>2 DEF AskPermission
  <2>3. CASE AskInstall(j)
    BY <2>3 DEF AskInstall
  <2>4. CASE AbortCopy(j)
    BY <2>4 DEF AbortCopy, StepsLeft
  <2>5. CASE Enqueue(j)
    BY <2>5 DEF Enqueue, StepsLeft
  <2>6. CASE Acquire(j)
    BY <2>6 DEF Acquire, StepsLeft
  <2>7. CASE MissStart(j) \/ LoseStop(j) \/ StopDaemon(j)
    BY <2>7 DEF MissStart, LoseStop, StopDaemon, StepsLeft
  <2>11. CASE Begin(j)
    BY <2>11 DEF Begin, StepsLeft
  <2>8. CASE GiveBack(j)
    BY <2>8 DEF GiveBack, StepsLeft
  <2>9. CASE Unwind(j)
    BY <2>9 DEF Unwind, StepsLeft
  <2>10. CASE Reply(j)
    BY <2>10 DEF Reply, StepsLeft
  <2> QED
    BY <2>1, <2>2, <2>3, <2>4, <2>5, <2>6, <2>7, <2>8, <2>9, <2>10, <2>11
<1>2. pc[j] \in from
  BY <1>1 DEF Step
<1> QED
  BY <1>1, <1>2, OneGoesForward

LEMMA InstallGoesForward ==
  ASSUME JInv, NEW j \in Installs, InstallStep(j)
  PROVE  GoesForward
<1> USE DEF Pcs, Ended, Installing
<1>1. j \in Jobs
  BY DEF Jobs
<1>2. CASE AbortCopy(j) \/ Enqueue(j)
  BY <1>1, <1>2, ServiceGoesForward
<1>3. CASE ~(AbortCopy(j) \/ Enqueue(j))
  <2>1. PICK from, to :
          to \in Pcs /\ OnIO(j, from, to) /\ \A place \in from : StepsLeft[to] < StepsLeft[place]
    <3>1. CASE DeleteOld(j) \/ CreateFile(j) \/ NoStream(j) \/ CreateFails(j)
      BY <3>1 DEF DeleteOld, CreateFile, NoStream, CreateFails, StepsLeft
    <3>2. CASE FinishCopy(j)
      <4>1. \E to \in {"copied", "copyFailed"} : OnIO(j, {"write"}, to)
        BY <3>2 DEF FinishCopy
      <4> QED
        BY <4>1 DEF StepsLeft
    <3>3. CASE OpenArchive(j) \/ OpenUpload(j) \/ Uploaded(j)
      BY <3>3 DEF OpenArchive, OpenUpload, Uploaded, StepsLeft
    <3>4. CASE InstallReturns(j)
      BY <3>4 DEF InstallReturns, StepsLeft
    <3>5. CASE RemoveTemp(j)
      BY <3>5 DEF RemoveTemp, StepsLeft
    <3> QED
      BY <1>3, <3>1, <3>2, <3>3, <3>4, <3>5 DEF InstallStep
  <2>2. Step(j, from, to) /\ pc[j] \in from
    BY <2>1 DEF OnIO, Step
  <2> QED
    BY <1>1, <2>1, <2>2, OneGoesForward
<1> QED
  BY <1>2, <1>3

LEMMA CheckGoesForward ==
  ASSUME JInv, NEW j \in Checks, CheckStep(j)
  PROVE  GoesForward
<1> USE DEF Pcs, Ended, OnMain
<1>1. j \in Jobs
  BY DEF Jobs
<1>2. PICK from, to \in Pcs :
        /\ Native(j, from, to)
        /\ \/ StepsLeft[to] < StepsLeft[from]
           \/ TryAgain /\ from = "handshake" /\ to = "lookup"
  <2>1. CASE LookUp(j)
    BY <2>1 DEF LookUp, StepsLeft
  <2>2. CASE Handshake(j)
    BY <2>2 DEF Handshake, StepsLeft
  <2>3. CASE FindDevice(j)
    BY <2>3 DEF FindDevice, StepsLeft
  <2>4. CASE Pair(j) \/ Query(j) \/ ReadReport(j)
    BY <2>4 DEF Pair, Query, ReadReport, StepsLeft
  <2> QED
    BY <2>1, <2>2, <2>3, <2>4 DEF CheckStep
<1>3. Step(j, {from}, to) /\ pc[j] = from
  BY <1>2 DEF Native, Step
<1> QED
  BY <1>1, <1>2, <1>3, OneGoesForward

LEMMA NextGoesForward == JInv /\ [Next]_vars => GoesForward
<1> SUFFICES ASSUME JInv, [Next]_vars PROVE GoesForward
  OBVIOUS
<1>1. CASE UNCHANGED vars \/ PhoneStep
  BY <1>1 DEF vars, PhoneStep, GoesForward, Forward
<1>2. CASE DestroyService
  BY <1>2 DEF DestroyService, GoesForward, Forward, StepsLeft
<1>3. ASSUME NEW j \in Jobs, ProcessDies(j)
      PROVE  GoesForward
  <2>1. \A k \in Jobs : pc[k] \in Pcs
    BY DEF JInv, TypeOK
  <2>2. \A place \in Pcs \ Ended : StepsLeft["left"] < StepsLeft[place]
    BY DEF Pcs, Ended, DeadEnds, Installing, OnMain, StepsLeft
  <2>3. \A k \in Jobs : pc'[k] = IF pc[k] \in Ended THEN pc[k] ELSE "left"
    BY <1>3 DEF ProcessDies
  <2> QED
    BY <2>1, <2>2, <2>3 DEF GoesForward, Forward
<1>4. ASSUME NEW j \in Jobs, JobStep(j)
      PROVE  GoesForward
  BY <1>3, <1>4, ServiceGoesForward, InstallGoesForward, CheckGoesForward DEF JobStep
<1>5. ASSUME NEW j \in Jobs, Decline(j) \/ AskPermission(j) \/ AskInstall(j)
      PROVE  GoesForward
  BY <1>5, ServiceGoesForward
<1> QED
  BY <1>1, <1>2, <1>4, <1>5 DEF Next

\* With NoCircularWait: whatever clients, users, the phone and other jobs do, a
\* job that was accepted never goes back, but for the poll of a phone whose
\* user has not decided, and a job that ended is never taken up again.
THEOREM JobsGoForward == Spec => [][GoesForward]_vars
BY JobsInvariant, NextGoesForward, PTL DEF Spec

=============================================================================
