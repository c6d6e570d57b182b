-------------------------- MODULE MCMaintainerRuns --------------------------
(***************************************************************************)
(* Instances of MaintainerRuns for TLC: two candidates of low risk for one *)
(* page, a third for another page that is risky, and with four a fourth    *)
(* that contradicts what is known.                                         *)
(***************************************************************************)
EXTENDS MaintainerRuns

CONSTANTS c1, c2, c3, c4, p1, p2

PageOf == [c \in Candidates |-> IF c \in {c1, c2} THEN p1 ELSE p2]
RiskOf == [c \in Candidates |-> IF c = c3 THEN "high" ELSE "low"]
ContradictedOnes == Candidates \cap {c4}
=============================================================================
