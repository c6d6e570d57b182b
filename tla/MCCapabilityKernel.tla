------------------------- MODULE MCCapabilityKernel ------------------------
(***************************************************************************)
(* Instances of CapabilityKernel for TLC; the cfg files choose the runs,   *)
(* the events, the shape of the plan and the faults.                       *)
(***************************************************************************)
EXTENDS CapabilityKernel
=============================================================================
