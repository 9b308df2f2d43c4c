----------------------- MODULE CommandRefinementProofs -----------------------
(***************************************************************************)
(* CommandProcessor implements DaemonLease: under the mapping of           *)
(* CommandRefinement initial states map to initial states, and each step   *)
(* to a step of the lease or to a stutter.                                 *)
(***************************************************************************)
EXTENDS CommandRefinement, CommandProcessorProofs

\* A step that changes neither the queue, nor who is between lock and unlock,
\* nor who is abandoned, nor which daemons live, is not seen by the lease.
LEMMA Stutters ==
  ASSUME lockQueue' = lockQueue, HolderBegan' = HolderBegan,
         \A d \in Sessions : Live(d)' <=> Live(d),
         \A j \in Sessions : pc'[j] = "abandoned" <=> pc[j] = "abandoned"
  PROVE  UNCHANGED Lease!leaseVars
BY DEF Lease!leaseVars, leaseBar, waitingBar, runningBar, leakedBar

LEMMA LeaseInit == Init => Lease!Init
<1> SUFFICES ASSUME Init PROVE Lease!Init
  OBVIOUS
<1>1. ~HolderBegan
  BY DEF Init, HolderBegan
<1>2. runningBar = {} /\ leakedBar = {}
  BY DEF Init, DaemonInit, runningBar, leakedBar, Live
<1> QED
  BY <1>1, <1>2 DEF Init, Lease!Init, leaseBar, waitingBar

LEMMA DaemonStepLease ==
  ASSUME IInv, NEW d \in Sessions, DaemonStep(d), UNCHANGED sessionVars
  PROVE  Lease!Next \/ UNCHANGED Lease!leaseVars
<1>1. HolderBegan' = HolderBegan /\ waitingBar' = waitingBar /\ leaseBar' = leaseBar
      /\ leakedBar' = leakedBar
  BY DEF sessionVars, HolderBegan, waitingBar, leaseBar, leakedBar
<1>2. daemonPc \in [Sessions -> DaemonPcs]
  BY DEF IInv, TypeOK, DaemonTypeOK
<1>3. CASE FreeResources(d)
  <2>1. d \in runningBar /\ runningBar' = runningBar \ {d}
    BY <1>2, <1>3 DEF FreeResources, Goto, runningBar, Live
  <2>2. Lease!DaemonEnds(d)
    BY <1>1, <2>1 DEF Lease!DaemonEnds
  <2> QED
    BY <2>2 DEF Lease!Next
<1>4. CASE ~FreeResources(d)
  <2>1. \A e \in Sessions : Live(e)' <=> Live(e)
    BY <1>2, <1>4
       DEF DaemonStep, ThreadRuns, PrepareDevice, CreateSocket, EnterLoop,
           TestExit, Recheck, Dispatch, AcceptFails, UsbFails, PollReturns,
           PollTimesOut, Goto, Live
  <2> QED
    BY <1>1, <2>1, Stutters DEF sessionVars
<1> QED
  BY <1>3, <1>4

\* A step of a holder that keeps the mutex and its daemon is not seen.
LEMMA HolderStutters ==
  ASSUME IInv, NEW j \in Sessions, pc[j] \in Holding,
         NEW label \in Holding, pc' = [pc EXCEPT ![j] = label],
         lockQueue' = lockQueue, daemonPc' = daemonPc
  PROVE  UNCHANGED Lease!leaseVars
<1>1. pc \in [Sessions -> SessionPcs] /\ HasLock(j)
  BY DEF IInv, TypeOK, HoldInv
<1>2. HolderBegan' = HolderBegan
  BY <1>1 DEF HolderBegan, HasLock
<1>3. \A k \in Sessions : pc'[k] = "abandoned" <=> pc[k] = "abandoned"
  BY <1>1 DEF Holding
<1> QED
  BY <1>2, <1>3, Stutters DEF Live

LEMMA ExecuteLease ==
  ASSUME IInv, NEW j \in Sessions, Execute(j)
  PROVE  Lease!Request(j)
<1> USE DEF Execute, Become
<1>1. /\ lockQueue \in Seq(Sessions) /\ pc \in [Sessions -> SessionPcs]
      /\ pc[j] = "idle" /\ lockQueue' = Append(lockQueue, j)
      /\ pc' = [pc EXCEPT ![j] = "queued"] /\ daemonPc' = daemonPc
  BY DEF IInv, TypeOK, daemonVars
<1>2. \A a \in 1..Len(lockQueue) : lockQueue[a] # j
  BY <1>1 DEF IInv, QueueInv, Holding
<1>3. j # NoSession /\ j \notin runningBar /\ j \notin leakedBar
  BY <1>1, NoSessionAssumption DEF IInv, LiveInv, Live, runningBar, leakedBar
<1>4. runningBar' = runningBar /\ leakedBar' = leakedBar
  BY <1>1 DEF runningBar, leakedBar, Live
<1>5. CASE HolderBegan
  <2>1. lockQueue # << >> /\ Head(lockQueue) # j /\ lockQueue' # << >>
        /\ Head(lockQueue') = Head(lockQueue)
        /\ Tail(lockQueue') = Append(Tail(lockQueue), j)
    BY <1>1, <1>2, <1>5 DEF HolderBegan
  <2>2. HolderBegan'
    BY <1>1, <1>5, <2>1 DEF HolderBegan
  <2>3. leaseBar' = leaseBar /\ leaseBar # j
        /\ waitingBar' = Append(waitingBar, j)
    BY <1>5, <2>1, <2>2 DEF leaseBar, waitingBar
  <2>4. \A i \in DOMAIN waitingBar : waitingBar[i] # j
    <3>1. \A i \in 1..Len(Tail(lockQueue)) :
            i + 1 \in 1..Len(lockQueue) /\ Tail(lockQueue)[i] = lockQueue[i + 1]
      BY <1>1, <2>1
    <3>2. Tail(lockQueue) \in Seq(Sessions)
      BY <1>1, <2>1
    <3>3. waitingBar = Tail(lockQueue)
      BY <1>5 DEF waitingBar
    <3>4. \A i \in 1..Len(Tail(lockQueue)) : Tail(lockQueue)[i] # j
      BY <1>2, <3>1
    <3> QED
      BY <3>2, <3>3, <3>4
  <2> QED
    BY <1>3, <1>4, <2>3, <2>4 DEF Lease!Request
<1>6. CASE ~HolderBegan
  <2>1. ~HolderBegan'
    <3>1. CASE lockQueue = << >>
      <4>1. lockQueue' = <<j>>
        BY <1>1, <3>1
      <4>2. Head(lockQueue') = j
        BY <4>1
      <4> QED
        BY <1>1, <4>2 DEF HolderBegan, Holding
    <3>2. CASE lockQueue # << >>
      BY <1>1, <1>2, <1>6, <3>2 DEF HolderBegan
    <3> QED
      BY <3>1, <3>2
  <2>2. leaseBar' = NoSession /\ leaseBar = NoSession
        /\ waitingBar = lockQueue /\ waitingBar' = Append(waitingBar, j)
    BY <1>1, <1>6, <2>1 DEF leaseBar, waitingBar
  <2>3. \A i \in DOMAIN waitingBar : waitingBar[i] # j
    BY <1>1, <1>2, <2>2
  <2> QED
    BY <1>3, <1>4, <2>2, <2>3 DEF Lease!Request
<1> QED
  BY <1>5, <1>6

LEMMA StartSessionLease ==
  ASSUME IInv, NEW j \in Sessions, StartSession(j)
  PROVE  Lease!Grant
<1> USE DEF StartSession, Become, LaunchDaemon, Goto
<1>1. /\ pc \in [Sessions -> SessionPcs] /\ daemonPc \in [Sessions -> DaemonPcs]
      /\ pc[j] = "queued" /\ HasLock(j)
      /\ pc' = [pc EXCEPT ![j] = "starting"]
      /\ daemonPc' = [daemonPc EXCEPT ![j] = "prepare"]
  BY DEF IInv, TypeOK, DaemonTypeOK
<1>2. ~HolderBegan /\ HolderBegan'
  BY <1>1 DEF HolderBegan, HasLock, Holding
<1>3. leaseBar = NoSession /\ waitingBar = lockQueue
      /\ leaseBar' = Head(lockQueue) /\ waitingBar' = Tail(lockQueue)
  BY <1>2 DEF leaseBar, waitingBar
<1>4. runningBar' = runningBar \cup {j} /\ leakedBar' = leakedBar
  BY <1>1 DEF runningBar, leakedBar, Live
<1> QED
  BY <1>1, <1>3, <1>4 DEF Lease!Grant, HasLock

\* After the holder has left, the first of the queue, if any, still waits.
LEMMA ReleaseBars ==
  ASSUME IInv, NEW j \in Sessions, pc[j] \in Holding,
         lockQueue' = Tail(lockQueue),
         NEW label \in Over, pc' = [pc EXCEPT ![j] = label]
  PROVE  /\ leaseBar = j /\ leaseBar' = NoSession
         /\ waitingBar' = waitingBar
<1>1. lockQueue \in Seq(Sessions) /\ pc \in [Sessions -> SessionPcs]
  BY DEF IInv, TypeOK
<1>2. HasLock(j) /\ HolderBegan
  BY DEF IInv, HoldInv, HolderBegan, HasLock
<1>3. \A a \in 2..Len(lockQueue) : lockQueue[a] # j /\ pc[lockQueue[a]] = "queued"
  BY <1>1, <1>2 DEF IInv, QueueInv, HasLock
<1>4. ~HolderBegan'
  <2>1. CASE Tail(lockQueue) = << >>
    BY <2>1 DEF HolderBegan
  <2>2. CASE Tail(lockQueue) # << >>
    <3>1. 2 \in 2..Len(lockQueue) /\ Head(Tail(lockQueue)) = lockQueue[2]
      BY <1>1, <1>2, <2>2 DEF HasLock
    <3>2. pc'[Head(lockQueue')] = "queued"
      BY <1>1, <1>3, <3>1
    <3> QED
      BY <3>2 DEF HolderBegan, Holding
  <2> QED
    BY <2>1, <2>2
<1> QED
  BY <1>2, <1>4 DEF leaseBar, waitingBar, HasLock

LEMMA FinishLease ==
  ASSUME IInv, NEW j \in Sessions, Finish(j)
  PROVE  Lease!Return
<1> USE DEF Finish, Stopping, Become
<1>1. pc \in [Sessions -> SessionPcs] /\ pc[j] \in Holding
  BY DEF IInv, TypeOK, Holding
<1>2. leaseBar = j /\ leaseBar' = NoSession /\ waitingBar' = waitingBar
  BY <1>1, ReleaseBars DEF Over
<1>3. j \notin runningBar
  BY DEF IInv, FlowInv, runningBar, Live
<1>4. runningBar' = runningBar /\ leakedBar' = leakedBar
  BY <1>1 DEF runningBar, leakedBar, Live, daemonVars, Holding
<1> QED
  BY <1>2, <1>3, <1>4, NoSessionAssumption DEF Lease!Return

LEMMA UnwindLease ==
  ASSUME IInv, NEW j \in Sessions, Unwind(j)
  PROVE  Lease!Abandon
<1> USE DEF Unwind, Become
<1>1. pc \in [Sessions -> SessionPcs] /\ pc[j] \in Holding
  BY DEF IInv, TypeOK, Holding
<1>2. leaseBar = j /\ leaseBar' = NoSession /\ waitingBar' = waitingBar
  BY <1>1, ReleaseBars DEF Over
<1>3. leakedBar' = leakedBar \cup {j}
  BY <1>1 DEF leakedBar
<1>4. runningBar' = runningBar
  BY DEF runningBar, Live, daemonVars
<1> QED
  BY <1>2, <1>3, <1>4, NoSessionAssumption DEF Lease!Abandon

LEMMA CancelScopeLease ==
  ASSUME IInv, CancelScope
  PROVE  Lease!CancelWaiting
<1> USE DEF CancelScope
<1>1. pc \in [Sessions -> SessionPcs]
  BY DEF IInv, TypeOK
<1>2. \A j \in Sessions :
        /\ pc[j] \in Holding => pc'[j] \in Holding
        /\ pc'[j] \in Holding => pc[j] \in Holding
        /\ pc'[j] = "abandoned" <=> pc[j] = "abandoned"
  BY <1>1 DEF Holding, SessionPcs, Over
<1>3. runningBar' = runningBar /\ leakedBar' = leakedBar
  BY <1>2 DEF runningBar, leakedBar, Live, daemonVars
<1>4. CASE \E j \in Sessions : pc[j] \in Holding
  <2>1. PICK j \in Sessions : pc[j] \in Holding
    BY <1>4
  <2>2. lockQueue # << >> /\ Head(lockQueue) = j
    BY <2>1 DEF IInv, HoldInv, HasLock
  <2>3. lockQueue' = <<j>>
    BY <1>4, <2>2 DEF HolderKept
  <2>4. lockQueue' # << >> /\ Head(lockQueue') = j /\ Tail(lockQueue') = << >>
    BY <2>3
  <2>5. HolderBegan /\ HolderBegan'
    BY <1>2, <2>1, <2>2, <2>4 DEF HolderBegan
  <2> QED
    BY <1>3, <2>2, <2>4, <2>5 DEF Lease!CancelWaiting, leaseBar, waitingBar
<1>5. CASE ~ \E j \in Sessions : pc[j] \in Holding
  <2>1. lockQueue' = << >>
    BY <1>5 DEF HolderKept
  <2>2. lockQueue \in Seq(Sessions) /\ lockQueue # << >>
    BY DEF IInv, TypeOK
  <2>3. Head(lockQueue) \in Sessions
    BY <2>2
  <2>4. ~HolderBegan /\ ~HolderBegan'
    BY <1>5, <2>1, <2>3 DEF HolderBegan
  <2> QED
    BY <1>3, <2>1, <2>4 DEF Lease!CancelWaiting, leaseBar, waitingBar
<1> QED
  BY <1>4, <1>5

LEMMA ProcessDiesLease ==
  ASSUME IInv, ProcessDies
  PROVE  Lease!Crash
<1> USE DEF ProcessDies, DaemonsDie
<1>1. \A j \in Sessions : pc'[j] # "abandoned"
  BY DEF IInv, TypeOK, Over
<1>2. runningBar' = {} /\ leakedBar' = {} /\ ~HolderBegan'
  BY <1>1 DEF runningBar, leakedBar, HolderBegan, Live
<1> QED
  BY <1>2 DEF Lease!Crash, leaseBar, waitingBar

LEMMA NextLease ==
  IInv /\ [Next]_vars => [Lease!Next]_(Lease!leaseVars)
<1> SUFFICES ASSUME IInv, [Next]_vars
             PROVE  Lease!Next \/ UNCHANGED Lease!leaseVars
  OBVIOUS
<1>1. ASSUME NEW d \in Sessions, DaemonStep(d), UNCHANGED sessionVars
      PROVE  Lease!Next \/ UNCHANGED Lease!leaseVars
  BY <1>1, DaemonStepLease
<1>2. ASSUME NEW j \in Sessions, SessionStep(j)
      PROVE  Lease!Next \/ UNCHANGED Lease!leaseVars
  <2>1. CASE Execute(j)
    BY <2>1, ExecuteLease DEF Lease!Next
  <2>2. CASE StartSession(j)
    BY <2>2, StartSessionLease DEF Lease!Next
  <2>3. CASE SeeStarted(j) \/ Settle(j) \/ ActionReturns(j) \/ WakeDaemon(j)
    <3>1. pc[j] \in Holding /\ lockQueue' = lockQueue /\ daemonPc' = daemonPc
      BY <2>3 DEF SeeStarted, Settle, ActionReturns, WakeDaemon, daemonVars,
         Holding
    <3>2. \E label \in Holding : pc' = [pc EXCEPT ![j] = label]
      BY <2>3 DEF SeeStarted, Settle, ActionReturns, WakeDaemon, Become, Holding
    <3> QED
      BY <3>1, <3>2, HolderStutters
  <2>4. CASE ActionConnects(j)
    BY <2>4, Stutters
       DEF ActionConnects, sessionVars, HolderBegan, Live
  <2>5. CASE Finish(j)
    BY <2>5, FinishLease DEF Lease!Next
  <2>6. CASE Unwind(j)
    BY <2>6, UnwindLease DEF Lease!Next
  <2>7. CASE OpenFails(j) \/ PrepareCrashes(j) \/ ActionThrows(j)
    BY <2>7, ProcessDiesLease
       DEF OpenFails, PrepareCrashes, ActionThrows, Lease!Next
  <2> QED
    BY <1>2, <2>1, <2>2, <2>3, <2>4, <2>5, <2>6, <2>7
       DEF SessionStep, SessionRuns
<1>3. CASE CancelScope
  BY <1>3, CancelScopeLease DEF Lease!Next
<1>4. CASE UNCHANGED vars
  <2>1. pc' = pc /\ lockQueue' = lockQueue /\ daemonPc' = daemonPc
    BY <1>4 DEF vars, sessionVars, daemonVars
  <2> QED
    BY <2>1, Stutters DEF HolderBegan, Live
<1> QED
  BY <1>1, <1>2, <1>3, <1>4 DEF Next

\* The command processor and its daemon threads implement the lease, for
\* every set of sessions and whether or not the service is destroyed.
THEOREM ImplementsLease == Spec => LeaseSpec
BY LeaseInit, NextLease, Invariant, PTL DEF Spec, LeaseSpec, Lease!Spec

-----------------------------------------------------------------------------
(* What the lease guarantees holds of the commands and their daemons.      *)

Facts == INSTANCE DaemonLeaseProofs
         WITH waiting <- waitingBar, lease <- leaseBar,
              running <- runningBar, leaked <- leakedBar

\* A daemon thread that lives is that of the command which launched it and is
\* still between lock and unlock of the mutex, or that command was abandoned
\* (UsbCommandProcessor.execute).  It follows from the lease alone.
THEOREM ExclusiveDaemon == Spec => []Lease!ExclusiveUnlessLeaked
<1>1. Init => Facts!Init
  BY LeaseInit DEF Lease!Init, Facts!Init
<1>2. IInv /\ [Next]_vars => [Facts!Next]_(Facts!leaseVars)
  BY NextLease
     DEF Lease!Next, Lease!leaseVars, Lease!Request, Lease!Grant, Lease!DaemonEnds,
         Lease!Return, Lease!Abandon, Lease!CancelWaiting, Lease!Crash,
         Facts!Next, Facts!leaseVars, Facts!Request, Facts!Grant, Facts!DaemonEnds,
         Facts!Return, Facts!Abandon, Facts!CancelWaiting, Facts!Crash
<1>3. Facts!Spec => []Facts!ExclusiveUnlessLeaked
  BY NoSessionAssumption, Facts!LeaseExcludes
<1>4. Facts!ExclusiveUnlessLeaked => Lease!ExclusiveUnlessLeaked
  BY DEF Facts!ExclusiveUnlessLeaked, Lease!ExclusiveUnlessLeaked
<1> QED
  BY <1>1, <1>2, <1>3, <1>4, Invariant, PTL DEF Spec, Facts!Spec
=============================================================================
