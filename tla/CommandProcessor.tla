-------------------------- MODULE CommandProcessor --------------------------
(***************************************************************************)
(* UsbCommandProcessor.execute and DeviceCommunicationApi, composed with   *)
(* the daemon threads they launch.  A session is one call of execute: it   *)
(* queues for the mutex, opens the device, resets the config directory,    *)
(* launches a daemon, waits for it, runs its action, stops the daemon and  *)
(* closes the device.                                                      *)
(*                                                                         *)
(* Sessions are coroutines of the service's MainScope: all of their steps  *)
(* run on the main thread, between two suspension points at a time.  The   *)
(* daemon threads run beside them.  The scope may be cancelled (onDestroy) *)
(* and the process may die of an uncaught exception.                       *)
(***************************************************************************)
EXTENDS UsbMuxDaemon

CONSTANT MayCancel    \* bound: whether a behaviour may contain an onDestroy

ASSUME MayCancelAssumption == MayCancel \in BOOLEAN

VARIABLES
    pc,           \* where each session is
    lockQueue,    \* the Mutex: its holder first, then the waiters in order
    deviceOpen    \* sessions whose UsbDeviceConnection is open

sessionVars == <<pc, lockQueue, deviceOpen>>
vars == <<daemonVars, sessionVars>>

(* idle -> queued -> starting -> settling -> acting -> waking -> joining   *)
(* -> done, with "unwoken" in the place of "joining" when stop_loop could  *)
(* not connect.  A cancelled waiter is "cancelled".  A cancelled holder is *)
(* "doomed" if its action is still running, else "unwinding", and then     *)
(* "abandoned".  "lost" went down with the process.                        *)
Holding == {"starting", "settling", "acting", "waking", "joining", "unwoken",
            "doomed", "unwinding"}
Stopping == {"joining", "unwoken"}    \* stop() waits for Terminated
Over == {"done", "cancelled", "abandoned", "lost"}
SessionPcs == {"idle", "queued"} \cup Holding \cup Over

\* The main thread is not inside stop_loop, its one blocking call that
\* another thread can observe half-way.
MainFree == \A j \in Sessions : pc[j] # "waking"

Become(j, label) == pc' = [pc EXCEPT ![j] = label]

Init ==
    /\ DaemonInit
    /\ pc = [j \in Sessions |-> "idle"]
    /\ lockQueue = << >>
    /\ deviceOpen = {}

-----------------------------------------------------------------------------
(* The mutex and the life of a session.                                    *)

\* mutex.lock(): kotlinx mutexes are fair, first come first served.
Execute(j) ==
    /\ MainFree
    /\ pc[j] = "idle"
    /\ Become(j, "queued")
    /\ lockQueue' = Append(lockQueue, j)
    /\ UNCHANGED <<deviceOpen, daemonVars>>

\* The mutex's owner is the first of the queue.
HasLock(j) == lockQueue # << >> /\ Head(lockQueue) = j

\* The lock is this session's: openDevice, reset of the config directory,
\* construction of the daemon, all before the first suspension.
StartSession(j) ==
    /\ pc[j] = "queued" /\ HasLock(j)
    /\ Become(j, "starting")
    /\ deviceOpen' = deviceOpen \cup {j}
    /\ ResetConfigDir
    /\ LaunchDaemon(j)
    /\ UNCHANGED <<lockQueue, flow, shouldExit, listening, backlog, revents,
                   registered>>

\* An exception no handler of the scope catches ends the process.
ProcessDies ==
    /\ pc' = [k \in Sessions |->
                IF pc[k] = "idle" \/ pc[k] \in Over \ {"abandoned"}
                THEN pc[k] ELSE "lost"]
    /\ lockQueue' = << >>
    /\ deviceOpen' = {}
    /\ DaemonsDie

\* openDevice returns null for a device that is gone, and null is passed
\* where the constructor takes a UsbDeviceConnection.
OpenFails(j) ==
    /\ pc[j] = "queued" /\ HasLock(j)
    /\ ProcessDies

\* prepareDaemon ignores what libusb_wrap_sys_device returns: when it fails
\* devh is read uninitialised, which may end the process.
PrepareCrashes(j) ==
    /\ daemonPc[j] = "prepare"
    /\ ProcessDies

\* waitForStart, first line.  A StateFlow shows its latest value only: a
\* collector that wakes up late never sees a Started that was overwritten.
SeeStarted(j) ==
    /\ pc[j] = "starting"
    /\ flow[j] = "Started"
    /\ Become(j, "settling")
    /\ UNCHANGED <<lockQueue, deviceOpen, daemonVars>>

\* delay(300), which waits for no event of the daemon.
Settle(j) ==
    /\ pc[j] = "settling"
    /\ Become(j, "acting")
    /\ UNCHANGED <<lockQueue, deviceOpen, daemonVars>>

\* The action, libimobiledevice's client side, connects to the daemon.  A
\* connection that fails changes nothing here.
ActionConnects(j) ==
    /\ pc[j] \in {"acting", "doomed"}
    /\ Connect(j)
    /\ Len(backlog[socketPath]) < MaxPending
    /\ UNCHANGED <<sessionVars, daemonPc, flow, shouldExit, socketPath,
                   listening, revents, registered>>

\* An exception in the action, such as the parse of a missing device report.
ActionThrows(j) ==
    /\ pc[j] = "acting"
    /\ ProcessDies

\* Mutant: the connection is closed before the daemon is stopped.
CloseBeforeStop(j) ==
    /\ pc[j] = "acting"
    /\ SetExitFlag
    /\ Become(j, "waking")
    /\ deviceOpen' = deviceOpen \ {j}
    /\ UNCHANGED <<lockQueue, daemonPc, flow, socketPath, listening, backlog,
                   revents, registered>>

\* The action returns and stop_loop sets the flag.
ActionReturns(j) ==
    /\ pc[j] = "acting"
    /\ SetExitFlag
    /\ Become(j, "waking")
    /\ UNCHANGED <<lockQueue, deviceOpen, daemonPc, flow, socketPath,
                   listening, backlog, revents, registered>>

\* The rest of stop_loop: socket and connect, so that ppoll returns.  Either
\* may fail, for want of a descriptor if for nothing else, and is then only
\* logged: stop() waits for Terminated all the same.
WakeDaemon(j) ==
    /\ pc[j] = "waking"
    /\ \/ Connect(j) /\ Become(j, "joining")
       \/ UNCHANGED backlog /\ Become(j, "unwoken")
    /\ UNCHANGED <<lockQueue, deviceOpen, daemonPc, flow, shouldExit,
                   socketPath, listening, revents, registered>>

\* Mutant: stop() does not wait for Terminated.
FinishWithoutJoin(j) ==
    /\ pc[j] \in Stopping
    /\ Become(j, "done")
    /\ deviceOpen' = deviceOpen \ {j}
    /\ lockQueue' = Tail(lockQueue)
    /\ UNCHANGED daemonVars

\* Mutant: the mutex is never unlocked.
FinishKeepsLock(j) ==
    /\ pc[j] \in Stopping
    /\ flow[j] = "Terminated"
    /\ Become(j, "done")
    /\ deviceOpen' = deviceOpen \ {j}
    /\ UNCHANGED <<lockQueue, daemonVars>>

\* The daemon has published Terminated: close the device, release the lock.
Finish(j) ==
    /\ pc[j] \in Stopping
    /\ flow[j] = "Terminated"
    /\ Become(j, "done")
    /\ deviceOpen' = deviceOpen \ {j}
    /\ lockQueue' = Tail(lockQueue)
    /\ UNCHANGED daemonVars

-----------------------------------------------------------------------------
(* Cancellation.                                                           *)

\* Mutant: the holder's lock is released at once.
HolderForgotten == << >>

\* The holder keeps the lock until its coroutine unwinds.
HolderKept == IF \E j \in Sessions : pc[j] \in Holding
              THEN <<Head(lockQueue)>>
              ELSE << >>

\* onDestroy: scope.cancel().  Waiters leave the mutex's queue at once, a
\* waiter that was just handed the lock gives it back; a holder will see the
\* cancellation when it is next resumed.
CancelScope ==
    /\ MayCancel
    /\ MainFree
    /\ lockQueue # << >>
    /\ pc' = [j \in Sessions |->
                CASE pc[j] = "queued" -> "cancelled"
                  [] pc[j] \in {"acting", "doomed"} -> "doomed"
                  [] pc[j] \in Holding \ {"acting", "doomed"} -> "unwinding"
                  [] OTHER -> pc[j]]
    /\ lockQueue' = HolderKept
    /\ UNCHANGED <<deviceOpen, daemonVars>>

\* The exception leaves the suspended call, or the native action once that
\* has returned.  withLock releases the mutex on the way out; nothing between
\* stops the daemon or closes the device.
Unwind(j) ==
    /\ pc[j] \in {"doomed", "unwinding"}
    /\ Become(j, "abandoned")
    /\ lockQueue' = Tail(lockQueue)
    /\ UNCHANGED <<deviceOpen, daemonVars>>

-----------------------------------------------------------------------------
SessionRuns(j) ==
    \/ StartSession(j)
    \/ SeeStarted(j)
    \/ Settle(j)
    \/ WakeDaemon(j)
    \/ Finish(j)
    \/ Unwind(j)

SessionStep(j) ==
    \/ Execute(j)
    \/ SessionRuns(j)
    \/ OpenFails(j)
    \/ PrepareCrashes(j)
    \/ ActionConnects(j)
    \/ ActionThrows(j)
    \/ ActionReturns(j)

Next ==
    \/ \E d \in Sessions : DaemonStep(d) /\ UNCHANGED sessionVars
    \/ \E j \in Sessions : SessionStep(j)
    \/ CancelScope

Spec == Init /\ [][Next]_vars

\* Threads and coroutines that can run do run.  Not assumed: that a command
\* is given, that an action returns (of a doomed session neither), that ppoll
\* returns without a connection.
DaemonFairness(d) ==
    /\ WF_vars(ThreadRuns(d) /\ UNCHANGED sessionVars)
    /\ WF_vars(ListenReady(d) /\ PollReturns(d) /\ UNCHANGED sessionVars)

FairSpec ==
    /\ Spec
    /\ \A d \in Sessions : DaemonFairness(d)
    /\ \A j \in Sessions : WF_vars(pc[j] # "doomed" /\ SessionRuns(j))

-----------------------------------------------------------------------------
TypeOK ==
    /\ DaemonTypeOK
    /\ pc \in [Sessions -> SessionPcs]
    /\ lockQueue \in Seq(Sessions)
    /\ deviceOpen \in SUBSET Sessions

\* The orphans: nobody will stop the daemon of an abandoned session.
NoneAbandoned == \A j \in Sessions : pc[j] # "abandoned"

\* Every live daemon belongs to the session that holds the mutex or to one
\* that was cancelled: a command never gives the lock back, and never starts
\* under somebody else's lock, while a daemon it launched is still running.
LiveOnlyUnderHolder ==
    \A d \in Sessions :
        Live(d) => \/ pc[d] = "abandoned"
                   \/ HasLock(d)

\* While a daemon is running, the device it was given is not closed under it
\* (connection.close() comes after stop() has seen Terminated).
OpenWhileLive == \A d \in Sessions : Live(d) => d \in deviceOpen

\* stop_loop sets the flag before it connects, so that a daemon in ppoll with
\* the flag set has a connection to wake it, once stop_loop did connect.
\* Without cancellation, that is: an orphan's socket may have taken it.
NoLostWakeup ==
    \A j \in Sessions :
        pc[j] = "joining" /\ daemonPc[j] = "poll" /\ shouldExit /\ NoneAbandoned
        => ListenReady(j)

\* Whoever has the mutex can run, or the daemon it waits for can, without the
\* help of a timeout.  A waiting holder is stuck only where the code lets it
\* be: it missed Started; or its daemon is in its loop and has forgotten the
\* request to stop; or stop_loop could not connect, and a timeout of ppoll has
\* to help; or, after a cancellation, an orphan's socket took the connection.
ThreadReady(d) == Live(d) /\ (daemonPc[d] = "poll" => ListenReady(d))
MissedStart(j) == pc[j] = "starting" /\ flow[j] = "Terminated"
LostStop(j) == pc[j] \in Stopping /\ InLoop(j) /\ ~shouldExit
HolderGoesOn ==
    \A j \in Sessions :
        HasLock(j) =>
            \/ pc[j] \in {"queued", "settling", "acting", "waking", "doomed",
                         "unwinding"}
            \/ /\ pc[j] = "starting"
               /\ flow[j] = "NotStarted" => daemonPc[j] \in {"prepare", "socket"}
            \/ /\ pc[j] \in Stopping
               /\ \/ flow[j] = "Terminated" \/ ThreadReady(j) \/ LostStop(j)
                  \/ Live(j) /\ (pc[j] = "unwoken" \/ ~NoneAbandoned)

\* Without cancellation the connections of a session reach its own daemon's
\* socket, never one that an earlier daemon left bound to the same file.
OwnSocketOnly ==
    NoneAbandoned =>
        \A d, j \in Sessions :
            (\E i \in DOMAIN backlog[d] : backlog[d][i] = j) => j = d

\* Without cancellation a device leaves the global list in a step of its own
\* daemon (it was unplugged, or the list is shut down) or with the process, and
\* never by what another command's daemon does.
DeviceKeptUntilOwnEnd ==
    [][\A d \in Sessions :
          d \in registered /\ d \notin registered' /\ NoneAbandoned
          => daemonPc'[d] # daemonPc[d]]_vars

-----------------------------------------------------------------------------
(* Liveness.                                                               *)

\* A daemon inside its loop that was told to stop, by a stop_loop that did
\* connect, does stop without the help of any timeout.
StopHeard ==
    \A j \in Sessions :
        (pc[j] = "joining" /\ InLoop(j) /\ shouldExit /\ NoneAbandoned)
        ~> pc[j] # "joining"

\* A session that launched its daemon gets to act, unless the daemon ended
\* before the session had looked at its state.
StartNoticed ==
    \A j \in Sessions :
        pc[j] = "starting" ~> (pc[j] # "starting" \/ MissedStart(j))

\* A waiter gets the mutex, provided that actions return and ppoll times out,
\* or the holder is in one of two dead ends: it missed Started, or the daemon
\* entered its loop after stop_loop had set the flag.
ActionsReturn ==
    \A j \in Sessions : pc[j] = "acting" ~> pc[j] # "acting"
PollsTimeOut ==
    \A d \in Sessions : WF_vars(PollTimesOut(d) /\ UNCHANGED sessionVars)
WaitersServed ==
    ActionsReturn /\ PollsTimeOut =>
        \A j \in Sessions :
            pc[j] = "queued"
            ~> \/ pc[j] # "queued"
               \/ \E k \in Sessions : MissedStart(k) \/ LostStop(k)

-----------------------------------------------------------------------------
(* What comments in the code say and the code does not do.                 *)

\* UsbMuxDaemon.waitForStart, "Wait for daemon really starts": when the action
\* runs, the daemon is in its loop.  The code sleeps for 300 ms instead.
DaemonUpWhenActing == \A j \in Sessions : pc[j] = "acting" => InLoop(j)

\* stop_loop, "Try to connect to socket for force check daemon dead": a daemon
\* that was told to stop and was connected to ends, if only through ppoll's
\* timeouts.  The code loses the request if the daemon has not entered its loop
\* yet.
StopEndsDaemon ==
    PollsTimeOut => \A j \in Sessions : pc[j] = "joining" ~> ~Live(j)
=============================================================================
