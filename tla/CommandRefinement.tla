-------------------------- MODULE CommandRefinement --------------------------
(* CommandProcessor implements DaemonLease: the lease is the mutex from the *)
(* moment its holder launches a daemon.                                     *)
EXTENDS CommandProcessor

HolderBegan == lockQueue # << >> /\ pc[Head(lockQueue)] \in Holding

leaseBar == IF HolderBegan THEN Head(lockQueue) ELSE NoSession
waitingBar == IF HolderBegan THEN Tail(lockQueue) ELSE lockQueue
runningBar == {d \in Sessions : Live(d)}
leakedBar == {j \in Sessions : pc[j] = "abandoned"}

Lease == INSTANCE DaemonLease
         WITH waiting <- waitingBar, lease <- leaseBar,
              running <- runningBar, leaked <- leakedBar

\* Every behaviour of the command processor and its daemon threads is one the
\* abstract lease allows: in order, one at a time, given back only after the
\* daemon has ended (UsbCommandProcessor.execute, runMobileDeviceAction).
LeaseSpec == Lease!Spec
=============================================================================
