-------------------------- MODULE DaemonLeaseProofs --------------------------
(***************************************************************************)
(* What the lease of DaemonLease guarantees, for every set of commands.    *)
(***************************************************************************)
EXTENDS DaemonLease, TLAPS

LeaseInv ==
    /\ waiting \in Seq(Sessions) /\ lease \in Sessions \cup {NoSession}
    /\ running \subseteq Sessions
    /\ ExclusiveUnlessLeaked

LEMMA NextLeaseInv ==
  ASSUME NoSession \notin Sessions, LeaseInv, [Next]_leaseVars
  PROVE  LeaseInv'
<1> USE DEF LeaseInv, ExclusiveUnlessLeaked
<1>1. ASSUME NEW j \in Sessions, Request(j)
      PROVE  LeaseInv'
  BY <1>1 DEF Request
<1>2. CASE Grant
  <2>1. Head(waiting) \in Sessions /\ Tail(waiting) \in Seq(Sessions)
    BY <1>2 DEF Grant
  <2> QED
    BY <1>2, <2>1 DEF Grant
<1>3. ASSUME NEW d \in Sessions, DaemonEnds(d)
      PROVE  LeaseInv'
  BY <1>3 DEF DaemonEnds
<1>4. CASE Return \/ Abandon
  BY <1>4 DEF Return, Abandon
<1>5. << >> \in Seq(Sessions)
  OBVIOUS
<1>6. CASE CancelWaiting
  BY <1>5, <1>6 DEF CancelWaiting
<1>7. CASE Crash
  BY <1>5, <1>7 DEF Crash
<1>8. CASE UNCHANGED leaseVars
  BY <1>8 DEF leaseVars
<1> QED
  BY <1>1, <1>2, <1>3, <1>4, <1>6, <1>7, <1>8 DEF Next

\* A daemon that runs is that of the command with the lease, or its command
\* lost the lease by being abandoned.
THEOREM LeaseExcludes ==
  ASSUME NoSession \notin Sessions
  PROVE  Spec => []ExclusiveUnlessLeaked
<1>1. Init => LeaseInv
  BY DEF Init, LeaseInv, ExclusiveUnlessLeaked
<1>2. LeaseInv /\ [Next]_leaseVars => LeaseInv'
  BY NextLeaseInv
<1>3. LeaseInv => ExclusiveUnlessLeaked
  BY DEF LeaseInv
<1> QED
  BY <1>1, <1>2, <1>3, PTL DEF Spec

\* A command's daemon is started only when those that still run are daemons of
\* abandoned commands.
StartsAlone == running' \subseteq running \/ running \subseteq leaked

THEOREM DaemonsStartAlone ==
  ASSUME NoSession \notin Sessions
  PROVE  Spec => [][StartsAlone]_leaseVars
<1>1. Init => LeaseInv
  BY DEF Init, LeaseInv, ExclusiveUnlessLeaked
<1>2. LeaseInv /\ [Next]_leaseVars => LeaseInv'
  BY NextLeaseInv
<1>3. LeaseInv /\ [Next]_leaseVars => [StartsAlone]_leaseVars
  BY DEF LeaseInv, ExclusiveUnlessLeaked, StartsAlone, Next, Request, Grant, DaemonEnds,
         Return, Abandon, CancelWaiting, Crash
<1> QED
  BY <1>1, <1>2, <1>3, PTL DEF Spec
=============================================================================
