----------------------- MODULE CommandProcessorProofs -----------------------
(***************************************************************************)
(* Proofs about CommandProcessor, for every set of sessions: the type      *)
(* invariant, the inductive invariant IInv, and the properties of the      *)
(* runs that follow from it.                                               *)
(***************************************************************************)
EXTENDS CommandProcessor, TLAPS

-----------------------------------------------------------------------------
(* The inductive invariant, in named parts.                                *)

\* A readable listening descriptor means a connection to accept.
EventsInv ==
    \A d \in Sessions : "listen" \in revents[d] => backlog[d] # << >>

\* The queue holds each session once; all but the first of them wait.
QueueInv ==
    /\ \A a, b \in 1..Len(lockQueue) : lockQueue[a] = lockQueue[b] => a = b
    /\ \A a \in 1..Len(lockQueue) :
          pc[lockQueue[a]] \in {"queued"} \cup Holding
    /\ \A a \in 2..Len(lockQueue) : pc[lockQueue[a]] = "queued"

\* Whoever is between lock and unlock is the first of the queue.
HoldInv ==
    \A j \in Sessions :
        pc[j] \in Holding => HasLock(j)

\* Terminated is published by the last step of the thread.
FlowInv ==
    \A d \in Sessions : flow[d] = "Terminated" <=> daemonPc[d] = "end"

\* A live daemon belongs to a holder or to an orphan, its device is open.
LiveInv ==
    \A d \in Sessions :
        /\ Live(d) => pc[d] \in Holding \cup {"abandoned"} /\ d \in deviceOpen
        /\ pc[d] \in {"idle", "queued"} => daemonPc[d] = "none"

\* Nobody listens on a socket that is yet to be created.
FreshInv ==
    \A d \in Sessions :
        daemonPc[d] \in {"none", "prepare", "socket"} => ~listening[d]

\* Without orphans the socket file is the holder's own or is not there.
PathInv ==
    NoneAbandoned =>
        \A j \in Sessions :
            pc[j] \in Holding =>
                /\ socketPath \in {j, NoSession}
                /\ listening[j] => socketPath = j

\* Without orphans a registered device belongs to a daemon that runs.
RegisteredInv ==
    NoneAbandoned =>
        \A d \in registered : Live(d) /\ daemonPc[d] # "prepare"

IInv ==
    /\ TypeOK
    /\ EventsInv
    /\ QueueInv
    /\ HoldInv
    /\ FlowInv
    /\ LiveInv
    /\ FreshInv
    /\ PathInv
    /\ RegisteredInv
    /\ OwnSocketOnly
    /\ NoLostWakeup

-----------------------------------------------------------------------------
LEMMA InitIInv == Init => IInv
<1> SUFFICES ASSUME Init PROVE IInv
  OBVIOUS
<1>1. << >> \in Seq(Sessions) /\ Len(<< >>) = 0
  OBVIOUS
<1>2. backlog \in [Sessions -> Seq(Sessions)]
  BY <1>1 DEF Init, DaemonInit
<1>3. TypeOK
  BY <1>1, <1>2
     DEF Init, DaemonInit, TypeOK, DaemonTypeOK, DaemonPcs, FlowStates,
         SessionPcs, Events
<1>4. \A d \in Sessions : DOMAIN backlog[d] = {}
  <2>1. DOMAIN << >> = {}
    OBVIOUS
  <2> QED
    BY <2>1, Zenon DEF Init, DaemonInit
<1>5. EventsInv /\ FlowInv /\ LiveInv /\ FreshInv /\ RegisteredInv
  BY DEF Init, DaemonInit, EventsInv, FlowInv, LiveInv, FreshInv,
         RegisteredInv, Live
<1>6. QueueInv
  BY <1>1 DEF Init, QueueInv
<1>7. HoldInv /\ PathInv /\ NoLostWakeup
  BY DEF Init, HoldInv, HasLock, PathInv, NoLostWakeup, Holding
<1>8. OwnSocketOnly
  BY <1>4 DEF OwnSocketOnly
<1> QED
  BY <1>3, <1>5, <1>6, <1>7, <1>8 DEF IInv

\* The mutex excludes: two sessions between lock and unlock are the same.
LEMMA Exclusive ==
  ASSUME HoldInv, NEW j \in Sessions, NEW k \in Sessions,
         pc[j] \in Holding, pc[k] \in Holding
  PROVE  j = k
BY DEF HoldInv, HasLock

\* Without orphans a live daemon's session is a holder.
LEMMA LiveHolds ==
  ASSUME LiveInv, NoneAbandoned, NEW d \in Sessions, Live(d)
  PROVE  pc[d] \in Holding
BY DEF LiveInv, NoneAbandoned

-----------------------------------------------------------------------------
(* Steps of the daemon threads.                                            *)

LEMMA DaemonStepTypeOK ==
  ASSUME TypeOK, EventsInv, NEW d \in Sessions, DaemonStep(d),
         UNCHANGED sessionVars
  PROVE  TypeOK'
<1> USE DEF TypeOK, DaemonTypeOK, DaemonPcs, FlowStates, sessionVars, Goto
<1>1. CASE PrepareDevice(d)
  BY <1>1 DEF PrepareDevice
<1>2. CASE CreateSocket(d)
  BY <1>2 DEF CreateSocket, CreateSocketOutcome
<1>3. CASE EnterLoop(d)
  BY <1>3 DEF EnterLoop
<1>4. CASE TestExit(d)
  BY <1>4 DEF TestExit
<1>5. CASE Recheck(d)
  BY <1>5 DEF Recheck, ForgetEvents
<1>6. CASE Dispatch(d) \/ UsbFails(d)
  <2>1. Accepted(d) \in [Sessions -> Seq(Sessions)]
    <3>1. CASE "listen" \in revents[d]
      <4>1. Tail(backlog[d]) \in Seq(Sessions)
        BY <3>1 DEF EventsInv
      <4> QED
        BY <3>1, <4>1 DEF Accepted
    <3> QED
      BY <3>1 DEF Accepted
  <2>2. registered' \in SUBSET Sessions
    BY <1>6 DEF Dispatch, UsbFails, UsbProcessed
  <2> QED
    BY <1>6, <2>1, <2>2 DEF Dispatch, UsbFails, ForgetEvents
<1>7. CASE AcceptFails(d)
  BY <1>7 DEF AcceptFails, ForgetEvents
<1>8. CASE FreeResources(d)
  BY <1>8 DEF FreeResources
<1>9. CASE PollReturns(d)
  BY <1>9 DEF PollReturns, Events
<1>10. CASE PollTimesOut(d)
  BY <1>10 DEF PollTimesOut, Events
<1> QED
  BY <1>1, <1>2, <1>3, <1>4, <1>5, <1>6, <1>7, <1>8, <1>9, <1>10
     DEF DaemonStep, ThreadRuns

\* The parts of the invariant that mention only the threads' own variables.
LEMMA DaemonStepThreads ==
  ASSUME IInv, NEW d \in Sessions, DaemonStep(d), UNCHANGED sessionVars
  PROVE  EventsInv' /\ FlowInv' /\ LiveInv' /\ FreshInv'
<1> USE DEF IInv, TypeOK, DaemonTypeOK, DaemonPcs, FlowStates, sessionVars,
            Goto, EventsInv, FlowInv, LiveInv, FreshInv, Live
<1>1. CASE PrepareDevice(d)
  BY <1>1 DEF PrepareDevice
<1>2. CASE CreateSocket(d)
  BY <1>2 DEF CreateSocket, CreateSocketOutcome
<1>3. CASE EnterLoop(d)
  BY <1>3 DEF EnterLoop
<1>4. CASE TestExit(d)
  BY <1>4 DEF TestExit
<1>5. CASE Recheck(d)
  BY <1>5 DEF Recheck, ForgetEvents
<1>6. CASE Dispatch(d) \/ UsbFails(d)
  <2>1. \A e \in Sessions \ {d} : backlog'[e] = backlog[e]
    BY <1>6 DEF Dispatch, UsbFails, Accepted
  <2>2. EventsInv'
    BY <1>6, <2>1 DEF Dispatch, UsbFails, ForgetEvents
  <2>3. FlowInv' /\ LiveInv' /\ FreshInv'
    BY <1>6 DEF Dispatch, UsbFails
  <2> QED
    BY <2>2, <2>3
<1>7. CASE AcceptFails(d)
  BY <1>7 DEF AcceptFails, ForgetEvents
<1>8. CASE FreeResources(d)
  BY <1>8 DEF FreeResources
<1>9. CASE PollReturns(d)
  BY <1>9 DEF PollReturns, ListenReady
<1>10. CASE PollTimesOut(d)
  BY <1>10 DEF PollTimesOut
<1> QED
  BY <1>1, <1>2, <1>3, <1>4, <1>5, <1>6, <1>7, <1>8, <1>9, <1>10
     DEF DaemonStep, ThreadRuns

\* The parts that hold while there are no orphans.  The daemon that steps is
\* then the holder's, so it steps alone among the shared globals.
LEMMA DaemonStepShared ==
  ASSUME IInv, NEW d \in Sessions, DaemonStep(d), UNCHANGED sessionVars
  PROVE  PathInv' /\ RegisteredInv' /\ OwnSocketOnly' /\ NoLostWakeup'
<1> SUFFICES ASSUME NoneAbandoned
             PROVE  PathInv' /\ RegisteredInv' /\ OwnSocketOnly' /\ NoLostWakeup'
  BY DEF sessionVars, NoneAbandoned, PathInv, RegisteredInv, OwnSocketOnly,
         NoLostWakeup
<1>1. Live(d)
  BY DEF DaemonStep, ThreadRuns, PrepareDevice, CreateSocket, EnterLoop,
         TestExit, Recheck, Dispatch, AcceptFails, UsbFails, FreeResources,
         PollReturns, PollTimesOut, Live
<1>2. pc[d] \in Holding
  BY <1>1, LiveHolds DEF IInv
<1>3. \A j \in Sessions : pc[j] \in Holding => j = d
  BY <1>2, Exclusive DEF IInv
<1>4. \A e \in Sessions : Live(e) => e = d
  BY <1>3, LiveHolds DEF IInv
<1>5. pc' = pc /\ NoneAbandoned'
  BY DEF sessionVars, NoneAbandoned
<1>6. /\ daemonPc \in [Sessions -> DaemonPcs]
      /\ listening \in [Sessions -> BOOLEAN]
      /\ backlog \in [Sessions -> Seq(Sessions)]
      /\ registered \in SUBSET Sessions
  BY DEF IInv, TypeOK, DaemonTypeOK
<1>7. PathInv'
  <2>1. CASE CreateSocket(d)
    <3>1. ~listening[d]
      BY <2>1 DEF CreateSocket, IInv, FreshInv
    <3>2. socketPath' \in {d, NoSession}
      BY <2>1, <1>2 DEF CreateSocket, CreateSocketOutcome, IInv, PathInv
    <3>3. listening'[d] => socketPath' = d
      BY <2>1, <3>1 DEF CreateSocket, CreateSocketOutcome
    <3> QED
      BY <1>3, <1>5, <3>2, <3>3 DEF PathInv
  <2>2. CASE UNCHANGED <<socketPath, listening>>
    BY <2>2, <1>5 DEF IInv, PathInv
  <2> QED
    BY <2>1, <2>2
       DEF DaemonStep, ThreadRuns, PrepareDevice, EnterLoop, TestExit,
           Recheck, Dispatch, AcceptFails, UsbFails, FreeResources,
           PollReturns, PollTimesOut
<1>8. RegisteredInv'
  <2>1. CASE PrepareDevice(d)
    BY <2>1, <1>6 DEF PrepareDevice, Goto, RegisteredInv, Live
  <2>2. CASE FreeResources(d)
    BY <2>2 DEF FreeResources, RegisteredInv
  <2>3. CASE registered' \subseteq registered /\ ~FreeResources(d)
             /\ ~PrepareDevice(d)
    BY <2>3, <1>6
       DEF IInv, RegisteredInv, DaemonStep, ThreadRuns, CreateSocket,
           EnterLoop, TestExit, Recheck, Dispatch, AcceptFails, UsbFails,
           PollReturns, PollTimesOut, Goto, Live
  <2> QED
    BY <2>1, <2>2, <2>3
       DEF DaemonStep, ThreadRuns, CreateSocket, EnterLoop, TestExit,
           Recheck, Dispatch, AcceptFails, UsbFails, UsbProcessed,
           PollReturns, PollTimesOut
<1>9. OwnSocketOnly'
  <2>1. CASE backlog' = backlog
    BY <2>1 DEF IInv, OwnSocketOnly
  <2>2. CASE backlog' = Accepted(d) /\ "listen" \in revents[d]
    <3>1. backlog[d] # << >>
      BY <2>2 DEF IInv, EventsInv
    <3>2. \A i \in DOMAIN Tail(backlog[d]) :
            i + 1 \in DOMAIN backlog[d] /\ Tail(backlog[d])[i] = backlog[d][i + 1]
      BY <3>1, <1>6
    <3>3. backlog'[d] = Tail(backlog[d])
      BY <2>2, <1>6 DEF Accepted
    <3>4. \A e \in Sessions \ {d} : backlog'[e] = backlog[e]
      BY <2>2, <1>6 DEF Accepted
    <3>5. ASSUME NEW e \in Sessions, NEW j \in Sessions,
                 NEW i \in DOMAIN backlog'[e], backlog'[e][i] = j
          PROVE  j = e
      <4>1. PICK k \in DOMAIN backlog[e] : backlog[e][k] = j
        BY <3>2, <3>3, <3>4, <3>5
      <4> QED
        BY <4>1 DEF IInv, OwnSocketOnly
    <3> QED
      BY <3>5 DEF OwnSocketOnly
  <2> QED
    BY <2>1, <2>2
       DEF Accepted, DaemonStep, ThreadRuns, PrepareDevice, CreateSocket,
           EnterLoop, TestExit, Recheck, Dispatch, AcceptFails, UsbFails,
           FreeResources, PollReturns, PollTimesOut
<1>10. NoLostWakeup'
  <2>1. daemonPc'[d] = "poll" => ~shouldExit'
    BY <1>6 DEF DaemonStep, ThreadRuns, PrepareDevice, CreateSocket,
         EnterLoop, TestExit, Recheck, Dispatch, AcceptFails, UsbFails,
         FreeResources, PollReturns, PollTimesOut, Goto
  <2>2. \A j \in Sessions : pc'[j] = "joining" => j = d
    BY <1>3, <1>5 DEF Holding
  <2> QED
    BY <2>1, <2>2 DEF NoLostWakeup
<1> QED
  BY <1>7, <1>8, <1>9, <1>10

LEMMA DaemonStepIInv ==
  ASSUME IInv, NEW d \in Sessions, DaemonStep(d), UNCHANGED sessionVars
  PROVE  IInv'
<1>1. TypeOK'
  BY DaemonStepTypeOK DEF IInv
<1>2. QueueInv' /\ HoldInv'
  BY DEF IInv, QueueInv, HoldInv, HasLock, sessionVars
<1> QED
  BY <1>1, <1>2, DaemonStepThreads, DaemonStepShared DEF IInv

-----------------------------------------------------------------------------
(* Steps of the sessions.                                                  *)

\* A step that leaves the daemons alone, starts no holder and no joiner.
LEMMA SessionFrame ==
  ASSUME IInv, UNCHANGED daemonVars, NoneAbandoned' => NoneAbandoned,
         \A j \in Sessions : pc'[j] \in Holding => pc[j] \in Holding,
         \A j \in Sessions : pc'[j] = "joining" => pc[j] = "joining"
  PROVE  /\ DaemonTypeOK' /\ EventsInv' /\ FlowInv' /\ FreshInv'
         /\ PathInv' /\ RegisteredInv' /\ OwnSocketOnly' /\ NoLostWakeup'
<1>1. DaemonTypeOK' /\ EventsInv' /\ FlowInv' /\ FreshInv'
  BY DEF IInv, TypeOK, DaemonTypeOK, EventsInv, FlowInv, FreshInv, daemonVars
<1>2. PathInv' /\ RegisteredInv'
  BY DEF IInv, PathInv, RegisteredInv, Live, daemonVars
<1>3. OwnSocketOnly' /\ NoLostWakeup'
  BY DEF IInv, OwnSocketOnly, NoLostWakeup, ListenReady, daemonVars
<1> QED
  BY <1>1, <1>2, <1>3

LEMMA ExecuteIInv ==
  ASSUME IInv, NEW j \in Sessions, Execute(j)
  PROVE  IInv'
<1> USE DEF Execute, Become
<1>1. /\ lockQueue \in Seq(Sessions)
      /\ pc \in [Sessions -> SessionPcs]
      /\ pc[j] = "idle" /\ pc' = [pc EXCEPT ![j] = "queued"]
      /\ lockQueue' = Append(lockQueue, j)
  BY DEF IInv, TypeOK
<1>2. /\ DaemonTypeOK' /\ EventsInv' /\ FlowInv' /\ FreshInv'
      /\ PathInv' /\ RegisteredInv' /\ OwnSocketOnly' /\ NoLostWakeup'
  BY <1>1, SessionFrame DEF NoneAbandoned, Holding
<1>3. lockQueue' \in Seq(Sessions) /\ Len(lockQueue') = Len(lockQueue) + 1
      /\ lockQueue'[Len(lockQueue) + 1] = j
      /\ \A a \in 1..Len(lockQueue) : lockQueue'[a] = lockQueue[a]
  BY <1>1
<1>4. \A a \in 1..Len(lockQueue) : lockQueue[a] # j
  BY <1>1 DEF IInv, QueueInv, Holding
<1>5. TypeOK'
  BY <1>1, <1>2, <1>3 DEF IInv, TypeOK, SessionPcs
<1>6. QueueInv'
  BY <1>1, <1>3, <1>4 DEF IInv, QueueInv
<1>7. HoldInv'
  BY <1>1, <1>3 DEF IInv, HoldInv, HasLock, Holding
<1>8. LiveInv'
  BY <1>1 DEF IInv, LiveInv, Live, daemonVars, Holding
<1> QED
  BY <1>2, <1>5, <1>6, <1>7, <1>8 DEF IInv

LEMMA WaitingStepIInv ==
  ASSUME IInv, NEW j \in Sessions, SeeStarted(j) \/ Settle(j)
  PROVE  IInv'
<1> USE DEF SeeStarted, Settle, Become
<1>1. /\ pc \in [Sessions -> SessionPcs]
      /\ pc[j] \in {"starting", "settling"} /\ lockQueue' = lockQueue
      /\ \E label \in {"settling", "acting"} : pc' = [pc EXCEPT ![j] = label]
      /\ UNCHANGED <<deviceOpen, daemonVars>>
  BY DEF IInv, TypeOK
<1>2. /\ DaemonTypeOK' /\ EventsInv' /\ FlowInv' /\ FreshInv'
      /\ PathInv' /\ RegisteredInv' /\ OwnSocketOnly' /\ NoLostWakeup'
  BY <1>1, SessionFrame DEF NoneAbandoned, Holding
<1>3. TypeOK'
  BY <1>1, <1>2 DEF IInv, TypeOK, SessionPcs, Holding
<1>4. QueueInv' /\ HoldInv'
  BY <1>1 DEF IInv, TypeOK, QueueInv, HoldInv, HasLock, Holding
<1>5. LiveInv'
  BY <1>1 DEF IInv, LiveInv, Live, daemonVars, Holding
<1> QED
  BY <1>2, <1>3, <1>4, <1>5 DEF IInv

\* The step out of the mutex, ordered or by cancellation: the next waiter
\* becomes the first of the queue.
LEMMA ReleaseQueue ==
  ASSUME IInv, NEW j \in Sessions, pc[j] \in Holding,
         lockQueue' = Tail(lockQueue),
         NEW label \in Over, pc' = [pc EXCEPT ![j] = label]
  PROVE  lockQueue' \in Seq(Sessions) /\ QueueInv' /\ HoldInv'
<1>1. lockQueue \in Seq(Sessions) /\ pc \in [Sessions -> SessionPcs]
  BY DEF IInv, TypeOK
<1>2. lockQueue # << >> /\ lockQueue[1] = j
  BY <1>1 DEF IInv, HoldInv, HasLock
<1>3. lockQueue' \in Seq(Sessions) /\ Len(lockQueue') = Len(lockQueue) - 1
      /\ \A a \in 1..Len(lockQueue') :
            a + 1 \in 2..Len(lockQueue) /\ lockQueue'[a] = lockQueue[a + 1]
  BY <1>1, <1>2
<1>4. \A a \in 2..Len(lockQueue) : lockQueue[a] # j /\ pc[lockQueue[a]] = "queued"
  BY <1>1, <1>2 DEF IInv, QueueInv
<1>5. \A a \in 1..Len(lockQueue') : pc'[lockQueue'[a]] = "queued"
  BY <1>1, <1>3, <1>4
<1>6. QueueInv'
  <2>1. ASSUME NEW a \in 1..Len(lockQueue'), NEW b \in 1..Len(lockQueue'),
               lockQueue'[a] = lockQueue'[b]
        PROVE  a = b
    <3>1. /\ a + 1 \in 1..Len(lockQueue) /\ b + 1 \in 1..Len(lockQueue)
          /\ lockQueue[a + 1] = lockQueue[b + 1]
      BY <1>1, <1>3, <2>1
    <3>2. a + 1 = b + 1
      BY <3>1 DEF IInv, QueueInv
    <3> QED
      BY <3>2
  <2>2. \A a \in 2..Len(lockQueue') : a \in 1..Len(lockQueue')
    OBVIOUS
  <2> QED
    BY <1>5, <2>1, <2>2 DEF QueueInv
<1>7. HoldInv'
  <2>1. \A k \in Sessions \ {j} : pc'[k] = pc[k] /\ pc[k] \notin Holding
    BY <1>1, Exclusive DEF IInv
  <2>2. pc'[j] \notin Holding
    BY <1>1 DEF Holding, Over
  <2> QED
    BY <2>1, <2>2 DEF HoldInv
<1> QED
  BY <1>3, <1>6, <1>7

LEMMA FinishIInv ==
  ASSUME IInv, NEW j \in Sessions, Finish(j)
  PROVE  IInv'
<1> USE DEF Finish, Stopping, Become
<1>1. pc \in [Sessions -> SessionPcs] /\ pc[j] \in Holding
  BY DEF IInv, TypeOK, Holding
<1>2. lockQueue' \in Seq(Sessions) /\ QueueInv' /\ HoldInv'
  BY <1>1, ReleaseQueue DEF Over
<1>3. /\ DaemonTypeOK' /\ EventsInv' /\ FlowInv' /\ FreshInv'
      /\ PathInv' /\ RegisteredInv' /\ OwnSocketOnly' /\ NoLostWakeup'
  BY <1>1, SessionFrame DEF NoneAbandoned, Holding
<1>4. TypeOK'
  BY <1>1, <1>2, <1>3 DEF IInv, TypeOK, SessionPcs, Over
<1>5. ~Live(j)
  BY DEF IInv, FlowInv, Live
<1>6. LiveInv'
  BY <1>1, <1>5 DEF IInv, LiveInv, Live, daemonVars, Holding
<1> QED
  BY <1>2, <1>3, <1>4, <1>6 DEF IInv

LEMMA UnwindIInv ==
  ASSUME IInv, NEW j \in Sessions, Unwind(j)
  PROVE  IInv'
<1> USE DEF Unwind, Become
<1>1. pc \in [Sessions -> SessionPcs] /\ pc[j] \in Holding
  BY DEF IInv, TypeOK, Holding
<1>2. lockQueue' \in Seq(Sessions) /\ QueueInv' /\ HoldInv'
  BY <1>1, ReleaseQueue DEF Over
<1>3. /\ DaemonTypeOK' /\ EventsInv' /\ FlowInv' /\ FreshInv'
      /\ PathInv' /\ RegisteredInv' /\ OwnSocketOnly' /\ NoLostWakeup'
  BY <1>1, SessionFrame DEF NoneAbandoned, Holding
<1>4. TypeOK'
  BY <1>1, <1>2, <1>3 DEF IInv, TypeOK, SessionPcs, Over
<1>5. LiveInv'
  BY <1>1 DEF IInv, LiveInv, Live, daemonVars, Holding
<1> QED
  BY <1>2, <1>3, <1>4, <1>5 DEF IInv

LEMMA CancelScopeIInv ==
  ASSUME IInv, CancelScope
  PROVE  IInv'
<1> USE DEF CancelScope
<1>1. lockQueue \in Seq(Sessions) /\ pc \in [Sessions -> SessionPcs]
  BY DEF IInv, TypeOK
<1>2. /\ pc' \in [Sessions -> SessionPcs]
      /\ \A j \in Sessions :
            /\ pc[j] \in Holding => pc'[j] \in {"doomed", "unwinding"}
            /\ pc[j] = "queued" => pc'[j] = "cancelled"
            /\ pc[j] \notin Holding \cup {"queued"} => pc'[j] = pc[j]
  BY <1>1 DEF Holding, SessionPcs, Over
<1>3. /\ DaemonTypeOK' /\ EventsInv' /\ FlowInv' /\ FreshInv'
      /\ PathInv' /\ RegisteredInv' /\ OwnSocketOnly' /\ NoLostWakeup'
  BY <1>1, <1>2, SessionFrame DEF NoneAbandoned, Holding, SessionPcs, Over
<1>4. LiveInv'
  BY <1>1, <1>2 DEF IInv, LiveInv, Live, daemonVars, Holding
<1>5. lockQueue' \in Seq(Sessions) /\ QueueInv' /\ HoldInv'
  <2>1. CASE \E j \in Sessions : pc[j] \in Holding
    <3>1. PICK j \in Sessions : pc[j] \in Holding
      BY <2>1
    <3>2. lockQueue # << >> /\ Head(lockQueue) = j
      BY <3>1 DEF IInv, HoldInv, HasLock
    <3>3. lockQueue' = <<j>>
      BY <2>1, <3>2 DEF HolderKept
    <3>4. lockQueue' \in Seq(Sessions) /\ Len(lockQueue') = 1 /\ lockQueue'[1] = j
      BY <3>3
    <3>5. pc'[j] \in Holding
      BY <1>2, <3>1 DEF Holding
    <3>6. QueueInv'
      BY <3>4, <3>5 DEF QueueInv
    <3>7. \A k \in Sessions : pc'[k] \in Holding => k = j
      BY <1>2, <3>1, Exclusive DEF IInv, Holding
    <3>8. HoldInv'
      BY <3>3, <3>4, <3>7 DEF HoldInv, HasLock
    <3> QED
      BY <3>4, <3>6, <3>8
  <2>2. CASE ~ \E j \in Sessions : pc[j] \in Holding
    <3>1. lockQueue' = << >>
      BY <2>2 DEF HolderKept
    <3>2. lockQueue' \in Seq(Sessions) /\ Len(lockQueue') = 0
      BY <3>1
    <3>3. QueueInv'
      BY <3>2 DEF QueueInv
    <3>4. HoldInv'
      BY <1>2, <2>2 DEF HoldInv, HasLock, Holding
    <3> QED
      BY <3>2, <3>3, <3>4
  <2> QED
    BY <2>1, <2>2
<1>6. TypeOK'
  BY <1>2, <1>3, <1>5 DEF IInv, TypeOK
<1> QED
  BY <1>3, <1>4, <1>5, <1>6 DEF IInv

LEMMA ProcessDiesIInv ==
  ASSUME IInv, ProcessDies
  PROVE  IInv'
<1> USE DEF ProcessDies, DaemonsDie
<1>1. pc' \in [Sessions -> SessionPcs]
      /\ \A j \in Sessions : pc'[j] \notin Holding \cup {"queued", "abandoned"}
  BY DEF IInv, TypeOK, Holding, SessionPcs, Over
<1>2. << >> \in Seq(Sessions) /\ Len(<< >>) = 0 /\ DOMAIN << >> = {}
  OBVIOUS
<1>3. lockQueue' \in Seq(Sessions) /\ Len(lockQueue') = 0
  BY <1>2
<1>4. backlog' \in [Sessions -> Seq(Sessions)]
      /\ \A d \in Sessions : DOMAIN backlog'[d] = {}
  BY <1>2, Zenon
<1>5. TypeOK'
  BY <1>1, <1>3, <1>4 DEF IInv, TypeOK, DaemonTypeOK, DaemonPcs, FlowStates,
     Events
<1>6. QueueInv' /\ HoldInv' /\ PathInv' /\ NoLostWakeup'
  BY <1>1, <1>3 DEF QueueInv, HoldInv, HasLock, PathInv, NoLostWakeup, Holding
<1>7. EventsInv' /\ FlowInv' /\ LiveInv' /\ FreshInv' /\ RegisteredInv'
  BY <1>1 DEF EventsInv, FlowInv, LiveInv, FreshInv, RegisteredInv, Live
<1>8. OwnSocketOnly'
  BY <1>4 DEF OwnSocketOnly
<1> QED
  BY <1>5, <1>6, <1>7, <1>8 DEF IInv

\* The mutex is free: the first of the queue still waits, so nobody holds.
LEMMA StartSessionIInv ==
  ASSUME IInv, NEW j \in Sessions, StartSession(j)
  PROVE  IInv'
<1> USE DEF StartSession, Become, ResetConfigDir, LaunchDaemon, Goto
<1>1. /\ pc \in [Sessions -> SessionPcs] /\ lockQueue \in Seq(Sessions)
      /\ daemonPc \in [Sessions -> DaemonPcs]
      /\ pc' = [pc EXCEPT ![j] = "starting"]
      /\ pc[j] = "queued" /\ daemonPc[j] = "none"
      /\ daemonPc' = [daemonPc EXCEPT ![j] = "prepare"]
  BY DEF IInv, TypeOK, DaemonTypeOK, LiveInv
<1>2. \A k \in Sessions : pc[k] \notin Holding
  BY <1>1 DEF IInv, HoldInv, HasLock, Holding
<1>3. j \in Sessions /\ pc'[j] \in Holding
      /\ \A k \in Sessions : pc'[k] \in Holding => k = j
  BY <1>1, <1>2 DEF Holding
<1>4. TypeOK'
  BY <1>1 DEF IInv, TypeOK, DaemonTypeOK, SessionPcs, Holding, DaemonPcs
<1>5. EventsInv' /\ FlowInv' /\ FreshInv'
  BY <1>1 DEF IInv, EventsInv, FlowInv, FreshInv
<1>6. LiveInv'
  BY <1>1 DEF IInv, LiveInv, Live, Holding
<1>7. HasLock(j)
  OBVIOUS
<1>8. QueueInv' /\ HoldInv'
  BY <1>1, <1>3, <1>7 DEF IInv, QueueInv, HoldInv, HasLock, Holding
<1>9. PathInv'
  BY <1>1, <1>3 DEF IInv, FreshInv, PathInv
<1>10. NoneAbandoned' => NoneAbandoned
  BY <1>1 DEF NoneAbandoned
<1>11. NoneAbandoned => registered = {}
  BY <1>2, LiveHolds DEF IInv, TypeOK, DaemonTypeOK, RegisteredInv
<1>12. RegisteredInv' /\ OwnSocketOnly' /\ NoLostWakeup'
  BY <1>1, <1>3, <1>10, <1>11
     DEF IInv, RegisteredInv, OwnSocketOnly, NoLostWakeup, ListenReady
<1> QED
  BY <1>4, <1>5, <1>6, <1>8, <1>9, <1>12 DEF IInv

\* A connect() by a holder that succeeds: without orphans it has reached the
\* holder's own socket.
LEMMA ConnectBacklog ==
  ASSUME IInv, NEW j \in Sessions, pc[j] \in Holding, Connect(j)
  PROVE  /\ backlog' \in [Sessions -> Seq(Sessions)]
         /\ \A d \in Sessions : backlog[d] # << >> => backlog'[d] # << >>
         /\ NoneAbandoned => OwnSocketOnly'
         /\ NoneAbandoned => listening[j] /\ backlog'[j] # << >>
<1>1. /\ backlog \in [Sessions -> Seq(Sessions)]
      /\ socketPath \in Sessions \cup {NoSession}
  BY DEF IInv, TypeOK, DaemonTypeOK
<1> DEFINE s == socketPath
<1>2. /\ s \in Sessions /\ listening[s]
      /\ backlog' = [backlog EXCEPT ![s] = Append(backlog[s], j)]
  BY <1>1 DEF Connect, Reachable
<1>3. /\ Append(backlog[s], j) \in Seq(Sessions)
      /\ Append(backlog[s], j) # << >>
      /\ \A i \in DOMAIN Append(backlog[s], j) :
            \/ i \in DOMAIN backlog[s] /\ Append(backlog[s], j)[i] = backlog[s][i]
            \/ Append(backlog[s], j)[i] = j
  <2>1. backlog[s] \in Seq(Sessions)
    BY <1>1, <1>2
  <2> HIDE DEF s
  <2>2. Append(backlog[s], j) \in Seq(Sessions)
    BY <2>1
  <2>3. Len(Append(backlog[s], j)) = Len(backlog[s]) + 1
    BY <2>1
  <2>4. \A i \in 1..Len(backlog[s]) + 1 :
          \/ i \in 1..Len(backlog[s]) /\ Append(backlog[s], j)[i] = backlog[s][i]
          \/ Append(backlog[s], j)[i] = j
    BY <2>1
  <2> QED
    BY <2>1, <2>2, <2>3, <2>4
<1>4. NoneAbandoned => s = j
  BY <1>2, NoSessionAssumption DEF IInv, PathInv
<1>5. /\ backlog'[s] = Append(backlog[s], j)
      /\ \A d \in Sessions \ {s} : backlog'[d] = backlog[d]
  BY <1>1, <1>2
<1>6. backlog' \in [Sessions -> Seq(Sessions)]
  BY <1>1, <1>2, <1>3
<1>7. \A d \in Sessions : backlog[d] # << >> => backlog'[d] # << >>
  BY <1>3, <1>5
<1>8. NoneAbandoned => listening[j] /\ backlog'[j] # << >>
  BY <1>2, <1>3, <1>4, <1>5
<1>9. ASSUME NoneAbandoned PROVE OwnSocketOnly'
  <2>1. ASSUME NEW d \in Sessions, NEW k \in Sessions,
               NEW i \in DOMAIN backlog'[d], backlog'[d][i] = k
        PROVE  k = d
    <3>1. CASE d = s
      BY <3>1, <2>1, <1>3, <1>4, <1>5, <1>9 DEF IInv, OwnSocketOnly
    <3>2. CASE d # s
      BY <3>2, <2>1, <1>5, <1>9 DEF IInv, OwnSocketOnly
    <3> QED
      BY <3>1, <3>2
  <2> QED
    BY <2>1 DEF OwnSocketOnly
<1> QED
  BY <1>6, <1>7, <1>8, <1>9

\* The steps of a holder that connect or set the flag: the queue, and who
\* holds, stay as they are.
LEMMA HolderMoves ==
  ASSUME IInv, NEW j \in Sessions, pc[j] \in Holding,
         NEW label \in Holding, pc' = [pc EXCEPT ![j] = label],
         UNCHANGED <<lockQueue, deviceOpen, daemonPc, flow, socketPath,
                     listening, revents, registered>>
  PROVE  /\ QueueInv' /\ HoldInv' /\ FlowInv' /\ LiveInv' /\ FreshInv'
         /\ PathInv' /\ RegisteredInv'
         /\ pc' \in [Sessions -> SessionPcs]
         /\ NoneAbandoned' => NoneAbandoned
<1>1. /\ pc \in [Sessions -> SessionPcs] /\ pc' \in [Sessions -> SessionPcs]
      /\ lockQueue \in Seq(Sessions)
  BY DEF IInv, TypeOK, SessionPcs
<1>2. \A k \in Sessions : pc'[k] \in Holding <=> pc[k] \in Holding
  BY <1>1
<1>3. \A k \in Sessions : k # j => pc'[k] = pc[k]
  BY <1>1
<1>4. NoneAbandoned' => NoneAbandoned
  BY <1>3 DEF NoneAbandoned, Holding
<1>5. \A a \in 2..Len(lockQueue) : lockQueue[a] # j
  BY <1>1 DEF IInv, HoldInv, HasLock, QueueInv, Holding
<1>6. QueueInv'
  BY <1>1, <1>2, <1>3, <1>5 DEF IInv, QueueInv
<1>7. HoldInv' /\ FlowInv' /\ FreshInv'
  BY <1>2 DEF IInv, HoldInv, HasLock, FlowInv, FreshInv
<1>8. LiveInv'
  BY <1>1, <1>3 DEF IInv, LiveInv, Live, Holding
<1>9. PathInv' /\ RegisteredInv'
  BY <1>2, <1>4 DEF IInv, PathInv, RegisteredInv, Live
<1> QED
  BY <1>1, <1>4, <1>6, <1>7, <1>8, <1>9

LEMMA ActionConnectsIInv ==
  ASSUME IInv, NEW j \in Sessions, ActionConnects(j)
  PROVE  IInv'
<1>1. /\ pc \in [Sessions -> SessionPcs] /\ pc[j] \in Holding
      /\ pc' = [pc EXCEPT ![j] = pc[j]] /\ NoneAbandoned' = NoneAbandoned
  BY DEF IInv, TypeOK, ActionConnects, sessionVars, Holding, NoneAbandoned
<1>2. /\ QueueInv' /\ HoldInv' /\ FlowInv' /\ LiveInv' /\ FreshInv'
      /\ PathInv' /\ RegisteredInv'
  BY <1>1, HolderMoves DEF ActionConnects, sessionVars
<1>3. /\ backlog' \in [Sessions -> Seq(Sessions)]
      /\ \A d \in Sessions : backlog[d] # << >> => backlog'[d] # << >>
      /\ NoneAbandoned => OwnSocketOnly'
  BY <1>1, ConnectBacklog DEF ActionConnects
<1>4. TypeOK'
  BY <1>3 DEF IInv, TypeOK, DaemonTypeOK, ActionConnects, sessionVars
<1>5. EventsInv'
  BY <1>3 DEF IInv, EventsInv, ActionConnects
<1>6. NoLostWakeup'
  BY <1>1, <1>3 DEF IInv, NoLostWakeup, ListenReady, ActionConnects, sessionVars
<1>7. OwnSocketOnly'
  BY <1>1, <1>3 DEF OwnSocketOnly
<1> QED
  BY <1>2, <1>4, <1>5, <1>6, <1>7 DEF IInv

\* The flag is set while the holder is "waking": nobody is "joining" yet.
LEMMA ActionReturnsIInv ==
  ASSUME IInv, NEW j \in Sessions, ActionReturns(j)
  PROVE  IInv'
<1> USE DEF ActionReturns, Become, SetExitFlag
<1>1. pc \in [Sessions -> SessionPcs] /\ pc[j] \in Holding /\ "waking" \in Holding
  BY DEF IInv, TypeOK, Holding
<1>2. /\ QueueInv' /\ HoldInv' /\ FlowInv' /\ LiveInv' /\ FreshInv'
      /\ PathInv' /\ RegisteredInv' /\ pc' \in [Sessions -> SessionPcs]
      /\ NoneAbandoned' => NoneAbandoned
  BY <1>1, HolderMoves
<1>3. TypeOK'
  BY <1>2 DEF IInv, TypeOK, DaemonTypeOK
<1>4. EventsInv' /\ OwnSocketOnly'
  BY <1>2 DEF IInv, EventsInv, OwnSocketOnly
<1>5. NoLostWakeup'
  BY <1>1, Exclusive DEF IInv, NoLostWakeup, Holding
<1> QED
  BY <1>2, <1>3, <1>4, <1>5 DEF IInv

\* The connection is made while the flag is already set; without one the
\* session is not "joining".
LEMMA WakeDaemonIInv ==
  ASSUME IInv, NEW j \in Sessions, WakeDaemon(j)
  PROVE  IInv'
<1> USE DEF WakeDaemon, Become
<1>1. /\ pc \in [Sessions -> SessionPcs] /\ pc[j] \in Holding
      /\ \E label \in {"joining", "unwoken"} : pc' = [pc EXCEPT ![j] = label]
      /\ {"joining", "unwoken"} \subseteq Holding
  BY DEF IInv, TypeOK, Holding
<1>2. /\ QueueInv' /\ HoldInv' /\ FlowInv' /\ LiveInv' /\ FreshInv'
      /\ PathInv' /\ RegisteredInv' /\ pc' \in [Sessions -> SessionPcs]
      /\ NoneAbandoned' => NoneAbandoned
  BY <1>1, HolderMoves
<1>3. /\ backlog' \in [Sessions -> Seq(Sessions)]
      /\ \A d \in Sessions : backlog[d] # << >> => backlog'[d] # << >>
      /\ NoneAbandoned => OwnSocketOnly'
      /\ Connect(j) /\ NoneAbandoned => listening[j] /\ backlog'[j] # << >>
  <2>1. CASE Connect(j)
    BY <1>1, <2>1, ConnectBacklog
  <2>2. CASE UNCHANGED backlog /\ ~Connect(j)
    BY <2>2 DEF IInv, TypeOK, DaemonTypeOK, OwnSocketOnly
  <2> QED
    BY <2>1, <2>2
<1>4. TypeOK'
  BY <1>2, <1>3 DEF IInv, TypeOK, DaemonTypeOK
<1>5. EventsInv'
  BY <1>3 DEF IInv, EventsInv
<1>6. OwnSocketOnly'
  BY <1>2, <1>3 DEF OwnSocketOnly
<1>7. \A k \in Sessions : pc'[k] = "joining" => k = j /\ Connect(j)
  BY <1>1, Exclusive DEF IInv, Holding
<1>8. NoLostWakeup'
  BY <1>2, <1>3, <1>7 DEF NoLostWakeup, ListenReady
<1> QED
  BY <1>2, <1>4, <1>5, <1>6, <1>8 DEF IInv

-----------------------------------------------------------------------------
LEMMA NextIInv == IInv /\ [Next]_vars => IInv'
<1> SUFFICES ASSUME IInv, [Next]_vars PROVE IInv'
  OBVIOUS
<1>1. ASSUME NEW d \in Sessions, DaemonStep(d), UNCHANGED sessionVars
      PROVE  IInv'
  BY <1>1, DaemonStepIInv
<1>2. ASSUME NEW j \in Sessions, SessionStep(j)
      PROVE  IInv'
  <2>1. CASE Execute(j)
    BY <2>1, ExecuteIInv
  <2>2. CASE StartSession(j)
    BY <2>2, StartSessionIInv
  <2>3. CASE SeeStarted(j) \/ Settle(j)
    BY <2>3, WaitingStepIInv
  <2>4. CASE WakeDaemon(j)
    BY <2>4, WakeDaemonIInv
  <2>5. CASE Finish(j)
    BY <2>5, FinishIInv
  <2>6. CASE Unwind(j)
    BY <2>6, UnwindIInv
  <2>7. CASE OpenFails(j) \/ PrepareCrashes(j) \/ ActionThrows(j)
    BY <2>7, ProcessDiesIInv DEF OpenFails, PrepareCrashes, ActionThrows
  <2>8. CASE ActionConnects(j)
    BY <2>8, ActionConnectsIInv
  <2>9. CASE ActionReturns(j)
    BY <2>9, ActionReturnsIInv
  <2> QED
    BY <1>2, <2>1, <2>2, <2>3, <2>4, <2>5, <2>6, <2>7, <2>8, <2>9
       DEF SessionStep, SessionRuns
<1>3. CASE CancelScope
  BY <1>3, CancelScopeIInv
<1>4. CASE UNCHANGED vars
  BY <1>4 DEF vars, sessionVars, daemonVars, IInv, TypeOK, DaemonTypeOK,
     EventsInv, QueueInv, HoldInv, HasLock, FlowInv, LiveInv, FreshInv,
     PathInv, RegisteredInv, OwnSocketOnly, NoLostWakeup, NoneAbandoned, ListenReady, Live
<1> QED
  BY <1>1, <1>2, <1>3, <1>4 DEF Next

THEOREM Invariant == Spec => []IInv
  BY InitIInv, NextIInv, PTL DEF Spec

\* Types of the daemon's and the sessions' state, for every set of sessions.
THEOREM TypeCorrect == Spec => []TypeOK
<1>1. IInv => TypeOK
  BY DEF IInv
<1> QED
  BY <1>1, Invariant, PTL

\* A running daemon is the mutex holder's or an orphan's: runMobileDeviceAction
\* never leaves withLock, in order, with its daemon running.
THEOREM LiveDaemonIsHolders == Spec => []LiveOnlyUnderHolder
<1>1. IInv => LiveOnlyUnderHolder
  BY DEF IInv, LiveInv, HoldInv, LiveOnlyUnderHolder
<1> QED
  BY <1>1, Invariant, PTL

\* connection.close() never comes while the daemon uses the device.
THEOREM DeviceOpenWhileLive == Spec => []OpenWhileLive
<1>1. IInv => OpenWhileLive
  BY DEF IInv, LiveInv, OpenWhileLive
<1> QED
  BY <1>1, Invariant, PTL

\* stop_loop's order, flag first and then connect, loses no wake-up: a daemon
\* that was asked to stop, by a stop_loop that did connect, never sits in ppoll
\* without the connection that ends it.  (A stop_loop whose connect fails is
\* "unwoken", and nothing is claimed for it.)
THEOREM WakeupNotLost == Spec => []NoLostWakeup
<1>1. IInv => NoLostWakeup
  BY DEF IInv
<1> QED
  BY <1>1, Invariant, PTL

\* Without orphans every connection reaches the session's own daemon.
THEOREM ConnectionsToOwnSocket == Spec => []OwnSocketOnly
<1>1. IInv => OwnSocketOnly
  BY DEF IInv
<1> QED
  BY <1>1, Invariant, PTL

-----------------------------------------------------------------------------
(* What a holder waits for.                                                *)

\* The daemon publishes Started when it has left create_socket behind, and a
\* holder has a daemon.
LaunchInv ==
    /\ \A d \in Sessions :
          flow[d] = "NotStarted" <=> daemonPc[d] \in {"none", "prepare", "socket"}
    /\ \A j \in Sessions : pc[j] \in Holding => daemonPc[j] # "none"

LEMMA InitLaunchInv == Init => LaunchInv
BY DEF Init, DaemonInit, LaunchInv, Holding

LEMMA NextLaunchInv == IInv /\ LaunchInv /\ [Next]_vars => LaunchInv'
<1> SUFFICES ASSUME IInv, LaunchInv, [Next]_vars PROVE LaunchInv'
  OBVIOUS
<1>1. /\ daemonPc \in [Sessions -> DaemonPcs] /\ flow \in [Sessions -> FlowStates]
      /\ pc \in [Sessions -> SessionPcs]
  BY DEF IInv, TypeOK, DaemonTypeOK
<1>2. ASSUME NEW d \in Sessions, DaemonStep(d), UNCHANGED sessionVars
      PROVE  LaunchInv'
  <2>1. pc' = pc
    BY <1>2 DEF sessionVars
  <2>2. CASE CreateSocket(d) \/ FreeResources(d)
    BY <1>1, <2>1, <2>2 DEF CreateSocket, FreeResources, Goto, LaunchInv
  <2>3. CASE PrepareDevice(d) \/ EnterLoop(d) \/ TestExit(d) \/ Recheck(d)
             \/ Dispatch(d) \/ AcceptFails(d) \/ UsbFails(d)
             \/ PollReturns(d) \/ PollTimesOut(d)
    <3>1. /\ flow' = flow
          /\ \E label \in DaemonPcs \ {"none"} :
                /\ daemonPc' = [daemonPc EXCEPT ![d] = label]
                /\ label = "socket" <=> daemonPc[d] = "prepare"
                /\ label # "prepare"
          /\ daemonPc[d] \notin {"none", "socket"}
      BY <2>3 DEF PrepareDevice, EnterLoop, TestExit, Recheck, Dispatch, AcceptFails,
           UsbFails, PollReturns, PollTimesOut, Goto, DaemonPcs
    <3> QED
      BY <1>1, <2>1, <3>1 DEF LaunchInv
  <2> QED
    BY <1>2, <2>2, <2>3 DEF DaemonStep, ThreadRuns
<1>3. CASE ProcessDies
  BY <1>1, <1>3 DEF ProcessDies, DaemonsDie, LaunchInv, Holding, SessionPcs, Over
<1>4. ASSUME NEW j \in Sessions, StartSession(j)
      PROVE  LaunchInv'
  <2>1. daemonPc[j] = "none"
    BY <1>4 DEF StartSession, IInv, LiveInv
  <2> QED
    BY <1>1, <1>4, <2>1 DEF StartSession, LaunchDaemon, Goto, Become, LaunchInv
<1>5. ASSUME UNCHANGED <<daemonPc, flow>>,
             \A j \in Sessions : pc'[j] \in Holding => pc[j] \in Holding
      PROVE  LaunchInv'
  BY <1>5 DEF LaunchInv
<1>6. ASSUME NEW j \in Sessions, SessionStep(j), ~StartSession(j), ~ProcessDies
      PROVE  LaunchInv'
  <2>1. /\ UNCHANGED <<daemonPc, flow>>
        /\ \A k \in Sessions : pc'[k] \in Holding => pc[k] \in Holding
    BY <1>1, <1>6 DEF SessionStep, SessionRuns, Execute, SeeStarted, Settle, WakeDaemon,
         Finish, Unwind, OpenFails, PrepareCrashes, ActionConnects, ActionThrows,
         ActionReturns, Become, sessionVars, daemonVars, Holding
  <2> QED
    BY <1>5, <2>1
<1>7. CASE CancelScope \/ UNCHANGED vars
  <2>1. /\ UNCHANGED <<daemonPc, flow>>
        /\ \A k \in Sessions : pc'[k] \in Holding => pc[k] \in Holding
    BY <1>1, <1>7 DEF CancelScope, vars, sessionVars, daemonVars, Holding
  <2> QED
    BY <1>5, <2>1
<1> QED
  BY <1>2, <1>3, <1>4, <1>6, <1>7 DEF Next

\* The mutex is never held by a session that waits for nothing: whoever has it
\* can go on, or its daemon can without a timeout's help, but for the cases
\* that HolderGoesOn names: a missed start, a lost stop, a stop_loop that could
\* not connect, an orphan.
THEOREM NoDeadHolder == Spec => []HolderGoesOn
<1>1. Spec => [](IInv /\ LaunchInv)
  BY InitIInv, NextIInv, InitLaunchInv, NextLaunchInv, PTL DEF Spec
<1>2. IInv /\ LaunchInv => HolderGoesOn
  <2> SUFFICES ASSUME IInv, LaunchInv, NEW j \in Sessions, HasLock(j),
                      pc[j] \notin {"queued", "settling", "acting", "waking", "doomed",
                                   "unwinding"}
               PROVE  \/ /\ pc[j] = "starting"
                         /\ flow[j] = "NotStarted" =>
                              daemonPc[j] \in {"prepare", "socket"}
                      \/ /\ pc[j] \in Stopping
                         /\ \/ flow[j] = "Terminated" \/ ThreadReady(j) \/ LostStop(j)
                            \/ Live(j) /\ (pc[j] = "unwoken" \/ ~NoneAbandoned)
    BY DEF HolderGoesOn
  <2>1. pc[j] \in {"starting", "joining", "unwoken"}
    <3>1. lockQueue \in Seq(Sessions) /\ lockQueue # << >> /\ lockQueue[1] = j
      BY DEF IInv, TypeOK, HasLock
    <3>2. pc[j] \in {"queued"} \cup Holding
      BY <3>1 DEF IInv, QueueInv
    <3> QED
      BY <3>2 DEF Holding
  <2>2. daemonPc[j] # "none" /\ (flow[j] = "Terminated" <=> daemonPc[j] = "end")
    BY <2>1 DEF LaunchInv, Holding, IInv, FlowInv
  <2>3. CASE pc[j] = "starting"
    BY <2>2, <2>3 DEF LaunchInv
  <2>4. CASE pc[j] \in Stopping /\ Live(j) /\ daemonPc[j] = "poll"
    <3>1. ASSUME shouldExit, pc[j] = "joining", NoneAbandoned
          PROVE  ThreadReady(j)
      BY <2>4, <3>1 DEF IInv, NoLostWakeup, ThreadReady
    <3>2. ~shouldExit => LostStop(j)
      BY <2>4 DEF LostStop, InLoop
    <3> QED
      BY <2>4, <3>1, <3>2 DEF Stopping
  <2>5. CASE pc[j] \in Stopping /\ ~(Live(j) /\ daemonPc[j] = "poll")
    BY <2>2, <2>5 DEF ThreadReady, Live
  <2> QED
    BY <2>1, <2>3, <2>4, <2>5 DEF Stopping
<1> QED
  BY <1>1, <1>2, PTL

-----------------------------------------------------------------------------
\* While no session was abandoned, a registered device is taken off the global
\* list by a step of its own daemon (usb_process or freeDaemonResources), or
\* with the whole process.
THEOREM DeviceKept == Spec => DeviceKeptUntilOwnEnd
<1> DEFINE Kept(d) == d \in registered /\ d \notin registered' /\ NoneAbandoned
                      => daemonPc'[d] # daemonPc[d]
<1>1. ASSUME IInv, [Next]_vars, NEW d \in Sessions,
             d \in registered, d \notin registered', NoneAbandoned
      PROVE  daemonPc'[d] # daemonPc[d]
  <2>1. Live(d) /\ daemonPc[d] # "prepare"
    BY <1>1 DEF IInv, RegisteredInv
  <2>2. pc[d] \in Holding
    BY <1>1, <2>1, LiveHolds DEF IInv
  <2>3. ASSUME NEW e \in Sessions, Live(e) PROVE e = d
    BY <1>1, <2>2, <2>3, LiveHolds, Exclusive DEF IInv
  <2>4. daemonPc \in [Sessions -> DaemonPcs]
    BY <1>1 DEF IInv, TypeOK, DaemonTypeOK
  <2>5. ASSUME NEW e \in Sessions, DaemonStep(e)
        PROVE  e = d /\ daemonPc'[d] # daemonPc[d]
    <3>1. Live(e) /\ daemonPc'[e] # daemonPc[e]
      BY <2>4, <2>5
         DEF DaemonStep, ThreadRuns, PrepareDevice, CreateSocket, EnterLoop,
             TestExit, Recheck, Dispatch, AcceptFails, UsbFails, FreeResources,
             PollReturns, PollTimesOut, Goto, Live
    <3> QED
      BY <2>3, <3>1
  <2>6. CASE ProcessDies
    BY <2>1, <2>6 DEF ProcessDies, DaemonsDie, Live
  <2>7. ASSUME NEW j \in Sessions, SessionStep(j)
        PROVE  ProcessDies
    BY <1>1, <2>7
       DEF SessionStep, SessionRuns, Execute, StartSession, SeeStarted, Settle,
           WakeDaemon, Finish, Unwind, OpenFails, PrepareCrashes,
           ActionConnects, ActionThrows, ActionReturns, daemonVars
  <2>8. ~(CancelScope \/ UNCHANGED vars)
    BY <1>1 DEF CancelScope, vars, daemonVars
  <2> QED
    BY <1>1, <2>5, <2>6, <2>7, <2>8 DEF Next
<1>2. IInv /\ [Next]_vars => \A d \in Sessions : Kept(d)
  BY <1>1
<1> QED
  BY <1>2, Invariant, PTL DEF Spec, DeviceKeptUntilOwnEnd

-----------------------------------------------------------------------------
\* A request to stop that its session still waits for is forgotten only by the
\* session's own daemon, as it enters its loop, or with the whole process.
ForgetsAtEntry(j) ==
    /\ pc[j] \in {"waking", "joining", "unwoken"} /\ NoneAbandoned
    /\ shouldExit /\ ~shouldExit'
    => EnterLoop(j) \/ pc'[j] = "lost"
StopForgottenAtEntry == [][\A j \in Sessions : ForgetsAtEntry(j)]_vars

\* Without cancellation the flag that stop_loop sets is lost in one place only:
\* loop_main's should_exit = 0 in the daemon that is to stop.
THEOREM StopLostAtEntryOnly == Spec => StopForgottenAtEntry
<1>1. ASSUME IInv, [Next]_vars, NEW j \in Sessions,
             pc[j] \in {"waking", "joining", "unwoken"},
             shouldExit, ~shouldExit', NoneAbandoned
      PROVE  EnterLoop(j) \/ pc'[j] = "lost"
  <2>1. pc[j] \in Holding
    BY <1>1 DEF Holding
  <2>2. ASSUME NEW e \in Sessions, EnterLoop(e) PROVE e = j
    BY <1>1, <2>1, <2>2, LiveHolds, Exclusive DEF IInv, EnterLoop, Live
  <2>3. CASE ProcessDies
    BY <1>1, <2>1, <2>3 DEF ProcessDies, Holding, Over
  <2>4. ASSUME NEW e \in Sessions, DaemonStep(e), UNCHANGED sessionVars
        PROVE  EnterLoop(e)
    BY <1>1, <2>4 DEF DaemonStep, ThreadRuns, PrepareDevice, CreateSocket, TestExit,
         Recheck, Dispatch, AcceptFails, UsbFails, FreeResources, PollReturns,
         PollTimesOut
  <2>5. ASSUME NEW k \in Sessions, SessionStep(k)
        PROVE  ProcessDies
    BY <1>1, <2>5 DEF SessionStep, SessionRuns, Execute, StartSession, SeeStarted, Settle,
         WakeDaemon, Finish, Unwind, OpenFails, PrepareCrashes, ActionConnects,
         ActionThrows, ActionReturns, SetExitFlag, daemonVars
  <2>6. ~(CancelScope \/ UNCHANGED vars)
    BY <1>1 DEF CancelScope, vars, daemonVars
  <2> QED
    BY <1>1, <2>2, <2>3, <2>4, <2>5, <2>6 DEF Next
<1>2. IInv /\ [Next]_vars => \A j \in Sessions : ForgetsAtEntry(j)
  BY <1>1 DEF ForgetsAtEntry
<1> QED
  BY <1>2, Invariant, PTL DEF Spec, StopForgottenAtEntry
=============================================================================
