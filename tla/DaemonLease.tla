----------------------------- MODULE DaemonLease -----------------------------
(***************************************************************************)
(* What UsbCommandProcessor promises of the native daemon, without saying  *)
(* how: commands get the daemon one at a time and in the order they came;  *)
(* a command that gives its lease back has no daemon running any more; a   *)
(* daemon may outlive its lease only if its command was abandoned.         *)
(***************************************************************************)
EXTENDS Naturals, Sequences

CONSTANTS Sessions, NoSession

VARIABLES
    waiting,    \* commands that wait for the lease, in order
    lease,      \* the command that has it, or NoSession
    running,    \* commands whose daemon thread is running
    leaked      \* commands that lost their lease without stopping the daemon

leaseVars == <<waiting, lease, running, leaked>>

Init ==
    /\ waiting = << >>
    /\ lease = NoSession
    /\ running = {}
    /\ leaked = {}

Request(j) ==
    /\ \A i \in DOMAIN waiting : waiting[i] # j
    /\ j \notin running \cup leaked \cup {lease}
    /\ waiting' = Append(waiting, j)
    /\ UNCHANGED <<lease, running, leaked>>

Grant ==
    /\ lease = NoSession /\ waiting # << >>
    /\ lease' = Head(waiting)
    /\ waiting' = Tail(waiting)
    /\ running' = running \cup {Head(waiting)}
    /\ UNCHANGED leaked

DaemonEnds(d) ==
    /\ d \in running
    /\ running' = running \ {d}
    /\ UNCHANGED <<waiting, lease, leaked>>

Return ==
    /\ lease # NoSession /\ lease \notin running
    /\ lease' = NoSession
    /\ UNCHANGED <<waiting, running, leaked>>

Abandon ==
    /\ lease # NoSession
    /\ leaked' = leaked \cup {lease}
    /\ lease' = NoSession
    /\ UNCHANGED <<waiting, running>>

CancelWaiting ==
    /\ waiting' = << >>
    /\ UNCHANGED <<lease, running, leaked>>

\* The process dies and takes everything with it.
Crash == waiting' = << >> /\ lease' = NoSession /\ running' = {} /\ leaked' = {}

Next ==
    \/ \E j \in Sessions : Request(j)
    \/ Grant
    \/ \E d \in Sessions : DaemonEnds(d)
    \/ Return
    \/ Abandon
    \/ CancelWaiting
    \/ Crash

Spec == Init /\ [][Next]_leaseVars

\* The promise in one formula.
ExclusiveUnlessLeaked == running \subseteq leaked \cup {lease}
=============================================================================
