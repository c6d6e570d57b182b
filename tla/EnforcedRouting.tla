-------------------------- MODULE EnforcedRouting --------------------------
(***************************************************************************)
(* Model steps of the crew (crew/model-router.js) routed by the            *)
(* enforcement policy.  A step resolves its model, asks the policy whether *)
(* the recommended capability may replace it, awaits the runtime probe of  *)
(* that question, runs, and falls back to the model it had when the        *)
(* recommended one fails.                                                  *)
(***************************************************************************)
EXTENDS EnforcementPolicy

CONSTANTS
  Steps,    \* model steps under way at the same time
  Working   \* the models the runtime manages to run

VARIABLE step    \* progress of every step

routingVars == <<policy, file, fileOk, locked, queue, busy, gates, best,
                 auditHealthy, audited, loadedRev, restarts, corruptions, step>>

Phases == {"idle", "checking", "running", "fallback", "done", "failed"}

StepRecord == [at: Phases, track: Tracks, original: Models,
               recommended: Models \cup {NoModel}, applied: BOOLEAN]

ModelOf(s) == IF step[s].applied THEN step[s].recommended ELSE step[s].original

-----------------------------------------------------------------------------

(* evaluateEnforcement and the part of evaluateEligibility before its      *)
(* await: all of it is read in the turn that starts the step.              *)
MayEnforce(t) ==
  /\ StateOf(t) = "enforced"
  /\ Approved(t)
  /\ best[t].model # NoModel /\ best[t].enough
  /\ ~Overridden(t, best[t].model)

(* executeModelStep up to its first await. *)
StartStep(s, t, m) ==
  /\ Calm
  /\ step[s].at = "idle"
  /\ step' = [step EXCEPT ![s] =
       [at |-> IF MayEnforce(t) THEN "checking" ELSE "running", track |-> t,
        original |-> m, recommended |-> best[t].model, applied |-> FALSE]]
  /\ UNCHANGED vars

(* The runtime probe answers; what was read before it is not read again.   *)
ProbeEnds(s, ready) ==
  /\ Calm
  /\ step[s].at = "checking"
  /\ step' = [step EXCEPT ![s].at = "running", ![s].applied = ready]
  /\ UNCHANGED vars

(* The qualification policy of the request refuses the model the step had: *)
(* it is looked at only after the decision, and nothing runs.              *)
StepRefused(s) ==
  /\ Calm
  /\ step[s].at = "running"
  /\ step' = [step EXCEPT ![s].at = "idle"]
  /\ UNCHANGED vars

FallsBack(s) == step[s].applied /\ step[s].original # step[s].recommended

RunEnds(s) ==
  /\ Calm
  /\ step[s].at = "running"
  /\ step' = [step EXCEPT ![s].at =
       IF ModelOf(s) \in Working THEN "done"
       ELSE IF FallsBack(s) THEN "fallback" ELSE "failed"]
  /\ UNCHANGED vars

FallbackEnds(s) ==
  /\ Calm
  /\ step[s].at = "fallback"
  /\ step' = [step EXCEPT ![s].at =
       IF step[s].original \in Working THEN "done" ELSE "failed"]
  /\ UNCHANGED vars

(* The caller has its answer. *)
Leave(s) ==
  /\ Calm
  /\ step[s].at \in {"done", "failed"}
  /\ step' = [step EXCEPT ![s].at = "idle"]
  /\ UNCHANGED vars

NoStep == [at |-> "idle", track |-> CHOOSE t \in Tracks : TRUE,
           original |-> CHOOSE m \in Models : TRUE, recommended |-> NoModel,
           applied |-> FALSE]

RoutingInit == Init /\ step = [s \in Steps |-> NoStep]

(* The policy moves on under the steps; a restart forgets them. *)
PolicyStep ==
  /\ Next
  /\ step' = IF restarts' = restarts THEN step ELSE [s \in Steps |-> NoStep]

RoutingNext ==
  \/ PolicyStep
  \/ \E s \in Steps :
       \/ \E t \in Tracks, m \in Models : StartStep(s, t, m)
       \/ \E ready \in BOOLEAN : ProbeEnds(s, ready)
       \/ StepRefused(s) \/ RunEnds(s) \/ FallbackEnds(s) \/ Leave(s)

RoutingSpec == RoutingInit /\ [][RoutingNext]_routingVars

-----------------------------------------------------------------------------
(* Properties *)

(* Enforcement never costs a result: a step fails only if the model it had *)
(* before the recommendation could not have served it either.              *)
EnforcementCostsNothing ==
  \A s \in Steps : step[s].at = "failed" => step[s].original \notin Working
=============================================================================
