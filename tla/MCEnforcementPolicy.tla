------------------------ MODULE MCEnforcementPolicy ------------------------
(***************************************************************************)
(* Instances of EnforcementPolicy for TLC; the cfg files choose the        *)
(* tracks, the callers, the faults and the bounds.                         *)
(***************************************************************************)
EXTENDS EnforcementPolicy
=============================================================================
