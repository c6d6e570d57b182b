------------------------ MODULE MCMilestoneLifecycle ------------------------
(***************************************************************************)
(* Instances of MilestoneLifecycle for TLC.                                *)
(***************************************************************************)
EXTENDS MilestoneLifecycle
=============================================================================
