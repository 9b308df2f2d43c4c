---------------------------- MODULE UsbMuxDaemon ----------------------------
(***************************************************************************)
(* The embedded usbmuxd daemon: the thread that UsbMuxDaemon.kt launches   *)
(* for each command (prepareDaemon, startDaemon, freeDaemonResources), the *)
(* poll loop of daemon.c, and stop_loop, by which another thread ends it.  *)
(*                                                                         *)
(* A daemon is named after the session that launches it.  Several daemon   *)
(* threads of one process share the native globals: the flag should_exit,  *)
(* the list of registered devices and the socket file in the config        *)
(* directory.  Nothing in the native code tells two daemons apart.         *)
(***************************************************************************)
EXTENDS Naturals, Sequences

CONSTANTS
    Sessions,     \* the commands, and the daemon threads they launch
    NoSession,    \* "no socket file": not a session
    MaxPending    \* bound: connections an action leaves waiting on a socket

ASSUME NoSessionAssumption == NoSession \notin Sessions
ASSUME MaxPendingAssumption == MaxPending \in Nat \ {0}

VARIABLES
    daemonPc,     \* where each daemon thread is
    flow,         \* UsbMuxDaemon.stateFlow, one per instance
    shouldExit,   \* the static int should_exit of daemon.c
    socketPath,   \* whose socket the file configDir/usbmuxd names
    listening,    \* create_socket got as far as listen (never closed again)
    backlog,      \* connections waiting for accept, in order
    revents,      \* what the last ppoll reported
    registered    \* the global usbmuxd device list, one entry per daemon

daemonVars == <<daemonPc, flow, shouldExit, socketPath, listening, backlog,
                revents, registered>>

FlowStates == {"NotStarted", "Started", "Terminated"}
DaemonPcs == {"none", "prepare", "socket", "enter", "test", "poll", "polled",
              "dispatch", "free", "end"}
Events == {"usb", "listen", "other"}

\* The thread exists and has not published Terminated.
Live(d) == daemonPc[d] \notin {"none", "end"}

\* The thread is inside the while loop of loop_main.
InLoop(d) == daemonPc[d] \in {"test", "poll", "polled", "dispatch"}

Goto(d, label) == daemonPc' = [daemonPc EXCEPT ![d] = label]

DaemonInit ==
    /\ daemonPc = [d \in Sessions |-> "none"]
    /\ flow = [d \in Sessions |-> "NotStarted"]
    /\ shouldExit = FALSE
    /\ socketPath = NoSession
    /\ listening = [d \in Sessions |-> FALSE]
    /\ backlog = [d \in Sessions |-> << >>]
    /\ revents = [d \in Sessions |-> {}]
    /\ registered = {}

-----------------------------------------------------------------------------
(* The daemon thread.                                                      *)

\* prepareDaemon, first half: device_init empties the global list, then
\* public_usb_device_add may or may not add this daemon's device; its result
\* is only logged.
PrepareDevice(d) ==
    /\ daemonPc[d] = "prepare"
    /\ registered' \in {{}, {d}}
    /\ Goto(d, "socket")
    /\ UNCHANGED <<flow, shouldExit, socketPath, listening, backlog, revents>>

\* create_socket: unlink, socket, bind, listen.  Each failure returns -1 and
\* leaves the file as it was, gone, or bound to a socket nobody listens on;
\* the caller goes on in every case and publishes Started.
CreateSocketOutcome(d) ==
    \/ socketPath' = d /\ listening' = [listening EXCEPT ![d] = TRUE]
    \/ socketPath' \in {socketPath, NoSession, d} /\ UNCHANGED listening

\* Mutant: Started is published only by a daemon that listens.
StartedIfListening(d) ==
    /\ daemonPc[d] = "socket"
    /\ CreateSocketOutcome(d)
    /\ flow' = [flow EXCEPT ![d] = IF listening'[d] THEN "Started" ELSE @]
    /\ Goto(d, "enter")
    /\ UNCHANGED <<shouldExit, backlog, revents, registered>>

\* Mutant: a state the enum does not have.
UnknownFlowState(d) ==
    /\ daemonPc[d] = "socket"
    /\ CreateSocketOutcome(d)
    /\ flow' = [flow EXCEPT ![d] = "Running"]
    /\ Goto(d, "enter")
    /\ UNCHANGED <<shouldExit, backlog, revents, registered>>

CreateSocket(d) ==
    /\ daemonPc[d] = "socket"
    /\ CreateSocketOutcome(d)
    /\ flow' = [flow EXCEPT ![d] = "Started"]
    /\ Goto(d, "enter")
    /\ UNCHANGED <<shouldExit, backlog, revents, registered>>

\* loop_main resets the flag on entry, whoever set it.
EnterLoop(d) ==
    /\ daemonPc[d] = "enter"
    /\ shouldExit' = FALSE
    /\ Goto(d, "test")
    /\ UNCHANGED <<flow, socketPath, listening, backlog, revents, registered>>

\* while(!should_exit)
TestExit(d) ==
    /\ daemonPc[d] = "test"
    /\ Goto(d, IF shouldExit THEN "free" ELSE "poll")
    /\ UNCHANGED <<flow, shouldExit, socketPath, listening, backlog, revents,
                   registered>>

\* The listening descriptor is readable.  After a failed create_socket it is
\* -1, which ppoll ignores.
ListenReady(d) == listening[d] /\ backlog[d] # << >>

\* ppoll returns because of a waiting connection, USB traffic, or something
\* that changes no control here (client traffic, EINTR).
PollReturns(d) ==
    /\ daemonPc[d] = "poll"
    /\ \E events \in SUBSET {"usb", "other"} :
         LET all == IF ListenReady(d) THEN events \cup {"listen"} ELSE events
         IN /\ all # {}
            /\ revents' = [revents EXCEPT ![d] = all]
    /\ Goto(d, "polled")
    /\ UNCHANGED <<flow, shouldExit, socketPath, listening, backlog,
                   registered>>

\* ppoll returns 0: nothing was ready for the time usbmuxd asked for.
PollTimesOut(d) ==
    /\ daemonPc[d] = "poll"
    /\ ~ListenReady(d)
    /\ revents' = [revents EXCEPT ![d] = {}]
    /\ Goto(d, "polled")
    /\ UNCHANGED <<flow, shouldExit, socketPath, listening, backlog,
                   registered>>

\* The descriptor list is rebuilt before the next ppoll, or freed.
ForgetEvents(d) == revents' = [revents EXCEPT ![d] = {}]

\* The second look at the flag, right after ppoll.
Recheck(d) ==
    /\ daemonPc[d] = "polled"
    /\ Goto(d, IF shouldExit THEN "free" ELSE "dispatch")
    /\ IF shouldExit THEN ForgetEvents(d) ELSE UNCHANGED revents
    /\ UNCHANGED <<flow, shouldExit, socketPath, listening, backlog,
                   registered>>

\* The descriptors are served, the listening one (index 0) first.
Accepted(d) ==
    IF "listen" \in revents[d]
    THEN [backlog EXCEPT ![d] = Tail(@)]
    ELSE backlog

\* usb_process is called after a timeout and on USB traffic.
UsbDue(d) == revents[d] = {} \/ "usb" \in revents[d]

\* usb_process (libusb underneath) may find that a device was unplugged and
\* take it off the list.
UsbProcessed(d) ==
    IF UsbDue(d) THEN registered' \in SUBSET registered ELSE UNCHANGED registered

Dispatch(d) ==
    /\ daemonPc[d] = "dispatch"
    /\ backlog' = Accepted(d)
    /\ UsbProcessed(d)
    /\ ForgetEvents(d)
    /\ Goto(d, "test")
    /\ UNCHANGED <<flow, shouldExit, socketPath, listening>>

\* client_accept fails: loop_main returns -1 before anything else is served.
AcceptFails(d) ==
    /\ daemonPc[d] = "dispatch"
    /\ "listen" \in revents[d]
    /\ ForgetEvents(d)
    /\ Goto(d, "free")
    /\ UNCHANGED <<flow, shouldExit, socketPath, listening, backlog,
                   registered>>

\* usb_process fails: loop_main returns -1.
UsbFails(d) ==
    /\ daemonPc[d] = "dispatch"
    /\ UsbDue(d)
    /\ backlog' = Accepted(d)
    /\ UsbProcessed(d)
    /\ ForgetEvents(d)
    /\ Goto(d, "free")
    /\ UNCHANGED <<flow, shouldExit, socketPath, listening>>

\* freeDaemonResources takes no handle: it shuts down the whole device list.
\* Then the thread publishes Terminated and ends.
FreeResources(d) ==
    /\ daemonPc[d] = "free"
    /\ registered' = {}
    /\ flow' = [flow EXCEPT ![d] = "Terminated"]
    /\ Goto(d, "end")
    /\ UNCHANGED <<shouldExit, socketPath, listening, backlog, revents>>

\* What the thread does of its own accord; only ppoll waits for somebody.
ThreadRuns(d) ==
    \/ PrepareDevice(d)
    \/ CreateSocket(d)
    \/ EnterLoop(d)
    \/ TestExit(d)
    \/ Recheck(d)
    \/ Dispatch(d)
    \/ AcceptFails(d)
    \/ UsbFails(d)
    \/ FreeResources(d)

DaemonStep(d) == ThreadRuns(d) \/ PollReturns(d) \/ PollTimesOut(d)

-----------------------------------------------------------------------------
(* What the session does to the daemon and to the files they share.  Each  *)
(* operator says what happens to some of the variables above; the session  *)
(* module combines it with the program counter of the session.             *)

\* Mutant: the config directory is not emptied.
KeepConfigDir == UNCHANGED socketPath

\* configDir.deleteRecursively() and mkdirs(): the socket file is gone.
ResetConfigDir == socketPath' = NoSession

\* UsbMuxDaemon's constructor launches the thread.
LaunchDaemon(d) == Goto(d, "prepare")

\* The file is bound to a socket somebody listens on.  The daemon may be gone:
\* no daemon ever closes its listening descriptor.
Reachable == socketPath # NoSession /\ listening[socketPath]

\* Mutant: the socket is made and never connected.
NoConnect(j) == Reachable /\ UNCHANGED backlog

\* A connect() on the socket file by session j that succeeds.
Connect(j) ==
    /\ Reachable
    /\ backlog' = [backlog EXCEPT ![socketPath] = Append(@, j)]

\* stop_loop, first statement.
SetExitFlag == shouldExit' = TRUE

\* The process dies: every thread and every native global goes with it, the
\* file stays on disk, bound to a socket nobody listens on any more.
DaemonsDie ==
    /\ daemonPc' = [d \in Sessions |-> "none"]
    /\ flow' = [d \in Sessions |-> "NotStarted"]
    /\ shouldExit' = FALSE
    /\ listening' = [d \in Sessions |-> FALSE]
    /\ backlog' = [d \in Sessions |-> << >>]
    /\ revents' = [d \in Sessions |-> {}]
    /\ registered' = {}
    /\ UNCHANGED socketPath

DaemonTypeOK ==
    /\ daemonPc \in [Sessions -> DaemonPcs]
    /\ flow \in [Sessions -> FlowStates]
    /\ shouldExit \in BOOLEAN
    /\ socketPath \in Sessions \cup {NoSession}
    /\ listening \in [Sessions -> BOOLEAN]
    /\ backlog \in [Sessions -> Seq(Sessions)]
    /\ revents \in [Sessions -> SUBSET Events]
    /\ registered \in SUBSET Sessions
=============================================================================
