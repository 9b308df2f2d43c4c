--------------------------- MODULE MCServiceJobs ----------------------------
(* Model checking of ServiceJobs.                                          *)
EXTENDS ServiceJobs, TLC
=============================================================================
