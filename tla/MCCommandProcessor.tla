------------------------- MODULE MCCommandProcessor -------------------------
(* Model checking of CommandProcessor on small sets of sessions.           *)
EXTENDS CommandRefinement, TLC

\* Sound for the safety runs: sessions differ in nothing but their turn.
SessionSymmetry == Permutations(Sessions)
=============================================================================
