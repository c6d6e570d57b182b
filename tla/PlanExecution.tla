---------------------------- MODULE PlanExecution ----------------------------
(***************************************************************************)
(* One run of a track: executeRunPlan of the workflow orchestrator         *)
(* (companion/orchestration/run-plan-executor.js) or runTrack of the crew  *)
(* (companion/crew/orchestrator.js, companion/core/dag-executor.js), with  *)
(* the relay router (companion/relay/router.js) deciding for each step     *)
(* where it runs, while the relay nodes register, go silent and leave.     *)
(*                                                                         *)
(* A batch of steps is started in one turn; each of them then waits for    *)
(* its node, for the audit of a fallback and for its local execution.      *)
(***************************************************************************)
EXTENDS StepGraph, RelayRegistry

CONSTANTS
  Graphs,       \* the dependency functions of the tracks that are run
  Requests,     \* the ways they are run, see RequestType
  RoleOf,       \* model step -> the role its executor asks for
  Checked,      \* the model steps whose executor names a schema
  NoNode

ModelSteps == DOMAIN RoleOf

RequestType ==
  [driver : {"run_plan", "run_track"},   \* executeRunPlan or runTrack
   dag    : BOOLEAN,                     \* options.useDag
   abort  : BOOLEAN,                     \* options.abortOnError
   policy : {"local", "relay", "distribute"}]

ASSUME PlanAssumption ==
  /\ Graphs \subseteq Dependencies /\ Requests \subseteq RequestType
  /\ ModelSteps \subseteq Steps /\ NoNode \notin Nodes

VARIABLES
  deps, request,  \* what is run, chosen when it arrives
  assigned,       \* options.relay.assignments
  batches,        \* the steps that are awaited together, in the order they start
  batch,          \* the batch that was started last, 0 before the run
  status,         \* the status of each step
  at,             \* what a running step waits for
  outcome,        \* what the caller got: "none" until the run returned or threw
  localBad        \* history: steps whose local execution threw or gave a bad output

runVars == <<deps, request, assigned, batches, batch, status, at, outcome, localBad>>
vars == <<runVars, regVars>>

Idle == [phase |-> "idle", node |-> NoNode]

(* the levels of the graph, or one step after the other *)
Batches ==
  IF ~request.dag \/ (request.driver = "run_plan" /\ Edges(deps) = {})
  THEN InFileOrder ELSE GroupByLevel(deps)

Refused == request.driver = "run_track" /\ request.dag /\ ~ValidGraph(deps)

----------------------------------------------------------------------------
(* MUTANT of Load: the steps already placed are not counted *)
NoLoad(asg, i, n) == 0

(* pickLeastLoaded over the steps in file order: each model step gets a    *)
(* candidate to which the fewest of the earlier steps went                 *)
Load(asg, i, n) == Cardinality({j \in 1..(i - 1) : asg[StepOrder[j]] = n})

Placements ==
  {asg \in [Steps -> Nodes \cup {NoNode}] :
     \A i \in 1..Len(StepOrder) :
       LET s == StepOrder[i]
           C == IF s \in ModelSteps THEN Candidates(RoleOf[s]) ELSE {}
       IN IF C = {} THEN asg[s] = NoNode
          ELSE /\ asg[s] \in C
               /\ \A n \in C : Load(asg, i, asg[s]) =< Load(asg, i, n)}

Assignments == IF request.policy = "distribute" THEN Placements
               ELSE {[s \in Steps |-> NoNode]}

(***************************************************************************)
(* executeStepViaRelayIfNeeded: where a step may be sent.  "local" stands  *)
(* for local_only, for a run without relay options (the background worker) *)
(* and for route_if_unavailable, because the server answers 503 before it  *)
(* runs anything when the local model is not ready.                        *)
(***************************************************************************)
DecideTarget(s, asg) ==
  LET chosen == IF request.policy = "distribute"
                THEN {n \in Nodes : n = asg[s] /\ IsHealthy(n)}
                ELSE SelectForRole(RoleOf[s])
  IN IF s \notin ModelSteps \/ request.policy = "local" \/ chosen = {}
     THEN {NoNode} ELSE chosen

(* all steps of a batch are sent off before any of them is awaited *)
Launch(started, asg) ==
  \E target \in [started -> Nodes \cup {NoNode}] :
    /\ \A s \in started : target[s] \in DecideTarget(s, asg)
    /\ batch' = batch + 1
    /\ status' = [s \in Steps |-> IF s \in started THEN "running" ELSE status[s]]
    /\ at' = [s \in Steps |->
                IF s \notin started THEN at[s]
                ELSE [phase |-> IF target[s] = NoNode THEN "local" ELSE "remote",
                      node  |-> target[s]]]

Begin ==
  /\ batch = 0
  /\ outcome = "none"
  /\ IF Refused
     THEN /\ outcome' = "failed"
          /\ UNCHANGED <<assigned, batches, batch, status, at>>
     ELSE /\ batches' = Batches
          /\ \E asg \in Assignments : assigned' = asg /\ Launch(batches'[1], asg)
          /\ UNCHANGED outcome
  /\ UNCHANGED <<deps, request, localBad, regVars>>

(* MUTANT of AbortsOn: the next level starts after a failure all the same *)
NeverAborts(failed) == FALSE

AbortsOn(failed) ==
  request.driver = "run_track" /\ request.dag /\ request.abort /\ failed # {}

(* MUTANT of BatchSettled: Promise.race in the place of Promise.allSettled *)
BatchRaced == batch > 0 /\ \E s \in batches[batch] : status[s] # "running"

BatchSettled == batch > 0 /\ \A s \in Steps : status[s] # "running"

Failed == {s \in Steps : status[s] = "failed"}

NextBatch == /\ outcome = "none"
             /\ BatchSettled
             /\ batch < Len(batches)
             /\ ~AbortsOn(Failed)
             /\ Launch(batches[batch + 1], assigned)
             /\ UNCHANGED <<deps, request, assigned, batches, outcome, localBad, regVars>>

(* the workflow result may still fail validateWorkflowResult *)
Return == /\ outcome = "none"
          /\ BatchSettled
          /\ (batch = Len(batches) \/ AbortsOn(Failed))
          /\ outcome' \in IF Failed # {} THEN {"failed"}
                          ELSE IF request.driver = "run_plan" THEN {"completed", "failed"}
                          ELSE {"completed"}
          /\ UNCHANGED <<deps, request, assigned, batches, batch, status, at, localBad, regVars>>

----------------------------------------------------------------------------
(***************************************************************************)
(* A step ends.  Only executeRunPlan validates its output; its Promise.all *)
(* rejects at the first failure, and so does a run in file order, while    *)
(* the steps beside it keep running.                                       *)
(***************************************************************************)
Outputs == {"good", "bad", "throws"}

Accepted(output) ==
  output = "good" \/ (output = "bad" /\ request.driver = "run_track")

ThrowsAtOnce == request.driver = "run_plan" \/ ~request.dag

(* MUTANT of Settle: a failure is swallowed, its step stays running *)
SettleOnlySuccess(s, output) ==
  /\ status' = [status EXCEPT ![s] = IF Accepted(output) THEN "completed" ELSE @]
  /\ at' = [at EXCEPT ![s] = Idle]
  /\ UNCHANGED outcome

Settle(s, output) ==
  /\ status' = [status EXCEPT ![s] = IF Accepted(output) THEN "completed" ELSE "failed"]
  /\ at' = [at EXCEPT ![s] = Idle]
  /\ outcome' = IF ~Accepted(output) /\ ThrowsAtOnce THEN "failed" ELSE outcome

(* the step is audited as a fallback and then runs on this machine: inside *)
(* the router's try block ("guarded") or outside it ("local")              *)
FallBack(s, phase) == /\ at' = [at EXCEPT ![s].phase = phase]
                      /\ UNCHANGED <<status, outcome>>

AfterFailure(n) == MarkUnhealthy(RecordDispatch(nodes, n), n)

(* the node answers; an output that fails the step's schema is not used *)
RemoteAnswers(s) ==
  LET n == at[s].node IN
  /\ at[s].phase = "remote"
  /\ nodes' = RecordDispatch(nodes, n)
  /\ \E output \in {"good", "bad"} :
       IF output = "bad" /\ s \in Checked THEN FallBack(s, "guarded")
       ELSE Settle(s, output)
  /\ UNCHANGED <<deps, request, assigned, batches, batch, localBad, signs, silent>>

(* the node answers ok:false *)
RemoteRefuses(s) ==
  LET n == at[s].node IN
  /\ at[s].phase = "remote"
  /\ nodes' = AfterFailure(n)
  /\ silent' = silent \cup {n}
  /\ FallBack(s, "guarded")
  /\ UNCHANGED <<deps, request, assigned, batches, batch, localBad, signs>>

(* MUTANT of RemoteFails: an unreachable node fails the step *)
RemoteFailsStep(s) ==
  LET n == at[s].node IN
  /\ at[s].phase = "remote"
  /\ nodes' = AfterFailure(n)
  /\ silent' = silent \cup {n}
  /\ Settle(s, "throws")
  /\ UNCHANGED <<deps, request, assigned, batches, batch, localBad, signs>>

(* the exchange throws: unreachable, 15 seconds without an answer, not     *)
(* JSON, an error status or another protocol version                       *)
RemoteFails(s) ==
  LET n == at[s].node IN
  /\ at[s].phase = "remote"
  /\ nodes' = AfterFailure(n)
  /\ silent' = silent \cup {n}
  /\ FallBack(s, "local")
  /\ UNCHANGED <<deps, request, assigned, batches, batch, localBad, signs>>

Blamed(s, output) == localBad' = IF output = "good" THEN localBad
                                 ELSE localBad \cup {s}

(* a local execution inside the try block: when it throws, the catch block *)
(* counts a second failed dispatch and runs the step on this machine again *)
GuardedEnds(s) ==
  LET n == at[s].node IN
  /\ at[s].phase = "guarded"
  /\ \E output \in Outputs :
       /\ Blamed(s, output)
       /\ IF output = "throws"
          THEN /\ nodes' = AfterFailure(n)
               /\ FallBack(s, "local")
          ELSE /\ Settle(s, output)
               /\ UNCHANGED nodes
  /\ UNCHANGED <<deps, request, assigned, batches, batch, signs, silent>>

LocalEnds(s) ==
  /\ at[s].phase = "local"
  /\ \E output \in Outputs : Blamed(s, output) /\ Settle(s, output)
  /\ UNCHANGED <<deps, request, assigned, batches, batch, regVars>>

StepEnds(s) == \/ RemoteAnswers(s) \/ RemoteRefuses(s) \/ RemoteFails(s)
               \/ GuardedEnds(s) \/ LocalEnds(s)

----------------------------------------------------------------------------
Init == /\ deps \in Graphs
        /\ request \in Requests
        /\ assigned = [s \in Steps |-> NoNode]
        /\ batches = <<>>
        /\ batch = 0
        /\ status = [s \in Steps |-> "pending"]
        /\ at = [s \in Steps |-> Idle]
        /\ outcome = "none"
        /\ localBad = {}
        /\ RegInit

Next == \/ Begin \/ NextBatch \/ Return
        \/ \E s \in Steps : StepEnds(s)
        \/ RegNext /\ UNCHANGED runVars

Spec == Init /\ [][Next]_vars

(***************************************************************************)
(* An exchange with a node ends within the connector's 15 seconds, a local *)
(* model call within the runtime's own timeout, a tool step runs in this   *)
(* process, and a continuation whose promises are settled is run.          *)
(***************************************************************************)
Fairness == /\ WF_vars(NextBatch) /\ WF_vars(Return)
            /\ \A s \in Steps : WF_vars(StepEnds(s))

FairSpec == Spec /\ Fairness

----------------------------------------------------------------------------
(* Properties *)

(* The run, its steps and the registry of nodes are of their kind. *)
TypeOK ==
  /\ nodes \in [Nodes -> [status     : {"absent", "unknown", "healthy", "unhealthy"},
                          fresh      : BOOLEAN,
                          roles      : SUBSET Roles,
                          dispatches : Nat]]
  /\ signs \in 0..MaxSigns
  /\ silent \subseteq Nodes
  /\ deps \in Graphs
  /\ request \in Requests
  /\ assigned \in [Steps -> Nodes \cup {NoNode}]
  /\ \A i \in DOMAIN batches : batches[i] \subseteq Steps
  /\ batch \in Nat
  /\ status \in [Steps -> {"pending", "running", "completed", "failed"}]
  /\ at \in [Steps -> [phase : {"idle", "remote", "guarded", "local"},
                       node  : Nodes \cup {NoNode}]]
  /\ outcome \in {"none", "completed", "failed"}
  /\ localBad \subseteq Steps

(* groupByLevel against its purpose: in a valid graph a step waits for     *)
(* exactly the level below it, so the batches respect every dependency and *)
(* no step starts a batch later than it could.                             *)
LevelsTight ==
  request.dag /\ ValidGraph(deps) /\ Edges(deps) # {} =>
    \A i \in 1..Len(batches) : \A s \in batches[i] :
      /\ deps[s] \subseteq UNION {batches[j] : j \in 1..(i - 1)}
      /\ i > 1 => deps[s] \cap batches[i - 1] # {}

(* With DAG execution a step never starts before the steps it depends on   *)
(* have ended well, whatever its siblings, the relay and the failures do;  *)
(* only runTrack with abortOnError false lets it start after a failed one. *)
Ended(d) == IF request.driver = "run_track" /\ ~request.abort
            THEN status[d] \in {"completed", "failed"}
            ELSE status[d] = "completed"

OrderRespected ==
  request.dag /\ ValidGraph(deps) =>
    \A s \in Steps : status[s] # "pending" => \A d \in deps[s] : Ended(d)

(* A caller that is told "completed" gets a run of which every step has    *)
(* ended, well unless runTrack never looks; and runTrack, which awaits all *)
(* of a batch, never answers while one of its steps still runs.            *)
NothingLeftBehind ==
  /\ outcome = "completed" => \A s \in Steps : status[s] = "completed"
  /\ (outcome # "none" /\ request.driver = "run_track")
       => \A s \in Steps : status[s] # "running"

(* The fallback makes relay nodes free of risk: a step with a schema fails *)
(* only when this machine itself could not do it.                          *)
RelayCostsNothing == Failed \cap (Checked \cup (Steps \ ModelSteps)) \subseteq localBad

(* distribute spreads the steps evenly over the nodes that can run them: a *)
(* run of which all model steps ask for one role gives no two candidates   *)
(* shares that differ by more than one step, and leaves none to this       *)
(* machine while there is a candidate.                                     *)
Share(n) == Cardinality({s \in Steps : assigned[s] = n})

PlacementBalanced ==
  [][(request.policy = "distribute" /\ batch = 0 /\ batch' = 1) =>
       \A role \in Roles : (\A s \in ModelSteps : RoleOf[s] = role) =>
         /\ \A n, m \in Candidates(role) : Share(n)' - Share(m)' =< 1
         /\ Candidates(role) # {} => \A s \in ModelSteps : assigned'[s] # NoNode]_vars

(* A node that refused or failed a step gets no other step until it has    *)
(* registered or sent a heartbeat again, whoever chose it and when.        *)
FailedNodesRest ==
  [][\A s \in Steps : at[s].phase = "idle" /\ at'[s].phase = "remote"
                        => at'[s].node \notin silent]_vars

(* A run that began is answered, and the steps it started all end, those   *)
(* beside a failed one included.                                           *)
RunsEnd == (batch > 0) ~>
             (outcome # "none" /\ \A s \in Steps : status[s] # "running")
=============================================================================
