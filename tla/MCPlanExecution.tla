--------------------------- MODULE MCPlanExecution ---------------------------
(***************************************************************************)
(* Instances of PlanExecution for TLC: three steps, of which one or two    *)
(* ask a relay node.                                                       *)
(***************************************************************************)
EXTENDS PlanExecution, TLC

CONSTANTS a, b, c, role, n1, n2

OneOrTwo == {{n1}, {n1, n2}}

ThreeSteps == <<a, b, c>>

Shape(ofA, ofB, ofC) == (a :> ofA) @@ (b :> ofB) @@ (c :> ofC)

Valid == {Shape({}, {}, {}), Shape({}, {a}, {a}),
          Shape({c}, {c}, {}), Shape({}, {a}, {a, b})}
Mixed == Valid \cup {Shape({}, {Ghost}, {b})}

TwoModels == (a :> role) @@ (b :> role)

Way(driver, dag, abort, policy) ==
  [driver |-> driver, dag |-> dag, abort |-> abort, policy |-> policy]

(* every combination of executor and order, each with the policies and the *)
(* abort option that make a difference to it                               *)
DeployedWays ==
  {Way("run_plan", TRUE, TRUE, "relay"), Way("run_plan", TRUE, TRUE, "distribute"),
   Way("run_track", TRUE, TRUE, "relay"), Way("run_track", TRUE, FALSE, "local"),
   Way("run_track", FALSE, TRUE, "relay")}
=============================================================================
