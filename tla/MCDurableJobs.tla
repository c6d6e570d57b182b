--------------------------- MODULE MCDurableJobs ---------------------------
(***************************************************************************)
(* Instances of DurableJobs for TLC.  The cfg files choose the jobs, the   *)
(* faults and the bounds.                                                  *)
(***************************************************************************)
EXTENDS DurableJobs

Limits12 == {1, 2}
Limits2 == {2}
=============================================================================
