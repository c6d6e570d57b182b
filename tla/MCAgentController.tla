------------------------- MODULE MCAgentController -------------------------
(***************************************************************************)
(* Instances of AgentController for TLC.  The cfg files choose the limits  *)
(* of config.json and which objectives the operator holds back: holding    *)
(* the first is enough to find it gone when the sequencer comes to it, and *)
(* when it wants to archive it, with another one still to be done.         *)
(***************************************************************************)
EXTENDS AgentController

FirstObjective == {1}
=============================================================================
