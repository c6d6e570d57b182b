------------------------ MODULE PlanExecutionProofs ------------------------
(***************************************************************************)
(* What the execution of a track guarantees for any steps, any relay nodes *)
(* and any interleaving of their answers with the steps beside them.       *)
(***************************************************************************)
EXTENDS PlanExecution, FiniteSetTheorems, TLAPS

NodeRecords == [status     : {"absent", "unknown", "healthy", "unhealthy"},
                fresh      : BOOLEAN,
                roles      : SUBSET Roles,
                dispatches : Nat]

(* A node that failed an exchange and gave no sign since is not healthy.   *)
SilentRest == \A n \in silent : nodes[n].status \in {"absent", "unhealthy"}

(* A step waits for something exactly while it is running; what waits for  *)
(* a node is a model step, and the node is one.                            *)
WaitsFor ==
  \A s \in Steps :
    /\ at[s].phase # "idle" <=> status[s] = "running"
    /\ at[s].phase \in {"remote", "guarded"} => at[s].node \in Nodes
    /\ at[s].phase = "remote" => s \in ModelSteps

RInv == TypeOK /\ SilentRest /\ WaitsFor /\ RelayCostsNothing

(* One step of FailedNodesRest.                                            *)
RestStep ==
  \A s \in Steps : at[s].phase = "idle" /\ at'[s].phase = "remote"
                     => at'[s].node \notin silent

USE RegistryAssumption, PlanAssumption

----------------------------------------------------------------------------
(* The registry of nodes *)

TypedNodes == nodes \in [Nodes -> NodeRecords]

RegistryOK == /\ TypedNodes /\ signs \in 0..MaxSigns
              /\ silent \subseteq Nodes /\ SilentRest

LEMMA MarkTyped ==
  ASSUME NEW reg \in [Nodes -> NodeRecords], NEW n \in Nodes
  PROVE  /\ MarkUnhealthy(reg, n) \in [Nodes -> NodeRecords]
         /\ MarkUnhealthy(reg, n)[n].status \in {"absent", "unhealthy"}
         /\ \A m \in Nodes : m # n => MarkUnhealthy(reg, n)[m] = reg[m]
<1>. DEFINE r == [reg[n] EXCEPT !.status = "unhealthy"]
<1>1. r \in NodeRecords /\ r.status = "unhealthy"
  BY DEF NodeRecords
<1>2. reg[n].status # "absent" => MarkUnhealthy(reg, n) = [reg EXCEPT ![n] = r]
  BY DEF MarkUnhealthy
<1>3. reg[n].status = "absent" => MarkUnhealthy(reg, n) = reg
  BY DEF MarkUnhealthy
<1>. HIDE DEF r
<1>. QED  BY <1>1, <1>2, <1>3

LEMMA DispatchTyped ==
  ASSUME NEW reg \in [Nodes -> NodeRecords], NEW n \in Nodes
  PROVE  /\ RecordDispatch(reg, n) \in [Nodes -> NodeRecords]
         /\ \A m \in Nodes : RecordDispatch(reg, n)[m].status = reg[m].status
<1>. DEFINE r == [reg[n] EXCEPT !.dispatches = reg[n].dispatches + 1]
<1>1. r \in NodeRecords /\ r.status = reg[n].status
  <2>1. reg[n].dispatches + 1 \in Nat
    BY DEF NodeRecords
  <2>. QED  BY <2>1 DEF NodeRecords
<1>2. reg[n].status # "absent" => RecordDispatch(reg, n) = [reg EXCEPT ![n] = r]
  BY DEF RecordDispatch
<1>3. reg[n].status = "absent" => RecordDispatch(reg, n) = reg
  BY DEF RecordDispatch
<1>. HIDE DEF r
<1>. QED  BY <1>1, <1>2, <1>3

LEMMA AfterFailureTyped ==
  ASSUME TypedNodes, NEW n \in Nodes
  PROVE  /\ AfterFailure(n) \in [Nodes -> NodeRecords]
         /\ AfterFailure(n)[n].status \in {"absent", "unhealthy"}
         /\ \A m \in Nodes : m # n => AfterFailure(n)[m].status = nodes[m].status
<1>1. /\ RecordDispatch(nodes, n) \in [Nodes -> NodeRecords]
      /\ \A m \in Nodes : RecordDispatch(nodes, n)[m].status = nodes[m].status
  BY DispatchTyped DEF TypedNodes
<1>. QED  BY <1>1, MarkTyped DEF AfterFailure

LEMMA SignTyped ==
  ASSUME RInv, NEW n \in Nodes, NEW r \in NodeRecords, Sign(n, r)
  PROVE  RegistryOK'
<1>1. TypedNodes /\ nodes' = [nodes EXCEPT ![n] = r] /\ silent' = silent \ {n}
  BY DEF RInv, TypeOK, TypedNodes, NodeRecords, Sign
<1>2. TypedNodes' /\ \A m \in Nodes : m # n => nodes'[m] = nodes[m]
  BY <1>1 DEF TypedNodes
<1>3. SilentRest'
  BY <1>1, <1>2 DEF SilentRest, RInv, TypeOK
<1>. QED  BY <1>1, <1>2, <1>3 DEF Sign, RInv, TypeOK, RegistryOK

LEMMA RecordsTyped ==
  ASSUME TypedNodes, NEW n \in Nodes, NEW roles \in SUBSET Roles
  PROVE  NewNode(roles) \in NodeRecords /\ Alive(n, roles) \in NodeRecords
         /\ Absent \in NodeRecords
<1>. DEFINE a == [nodes[n] EXCEPT !.status = "healthy"]
            b == [a EXCEPT !.fresh = TRUE]
            c == [b EXCEPT !.roles = roles]
<1>1. NewNode(roles) \in NodeRecords /\ Absent \in NodeRecords
  BY DEF NewNode, Absent, NodeRecords
<1>2. a \in NodeRecords
  BY DEF TypedNodes, NodeRecords
<1>3. Alive(n, roles) = c
  BY DEF Alive, TypedNodes, NodeRecords
<1>. HIDE DEF a
<1>4. b \in NodeRecords
  BY <1>2 DEF NodeRecords
<1>. HIDE DEF b
<1>5. c \in NodeRecords
  BY <1>4 DEF NodeRecords
<1>. QED  BY <1>1, <1>3, <1>5

LEMMA RegistryKeeps ==
  ASSUME RInv, RegNext
  PROVE  RegistryOK'
<1>1. TypedNodes
  BY DEF RInv, TypeOK, TypedNodes, NodeRecords
<1>2. ASSUME NEW n \in Nodes, Register(n) \/ Heartbeat(n) \/ Unregister(n)
      PROVE  \E r \in NodeRecords : Sign(n, r)
  BY <1>1, <1>2, RecordsTyped DEF Register, Heartbeat, Unregister
<1>3. ASSUME NEW n \in Nodes, GoStale(n)
      PROVE  RegistryOK'
  <2>. DEFINE r == [nodes[n] EXCEPT !.fresh = FALSE]
  <2>1. r \in NodeRecords /\ r.status = nodes[n].status
    <3>1. nodes[n] \in NodeRecords
      BY <1>1 DEF TypedNodes
    <3>. QED  BY <3>1 DEF NodeRecords
  <2>2. nodes' = [nodes EXCEPT ![n] = r]
    BY <1>3 DEF GoStale
  <2>. HIDE DEF r
  <2>3. TypedNodes' /\ \A m \in Nodes : nodes'[m].status = nodes[m].status
    BY <1>1, <2>1, <2>2 DEF TypedNodes
  <2>4. signs' = signs /\ silent' = silent
    BY <1>3 DEF GoStale
  <2>5. signs \in 0..MaxSigns /\ silent \subseteq Nodes /\ SilentRest
    BY DEF RInv, TypeOK
  <2>. QED  BY <2>3, <2>4, <2>5 DEF SilentRest, RegistryOK
<1>. QED  BY <1>2, <1>3, SignTyped DEF RegNext

----------------------------------------------------------------------------
(* The run *)

Waits == [phase : {"idle", "remote", "guarded", "local"},
          node  : Nodes \cup {NoNode}]

(* The part of RInv about the steps. *)
StepsOK == /\ status \in [Steps -> {"pending", "running", "completed", "failed"}]
           /\ at \in [Steps -> Waits]
           /\ outcome \in {"none", "completed", "failed"}
           /\ WaitsFor /\ RelayCostsNothing

(* The part about what is run. *)
TrackOK == /\ deps \in Graphs /\ request \in Requests
           /\ assigned \in [Steps -> Nodes \cup {NoNode}]
           /\ \A i \in DOMAIN batches : batches[i] \subseteq Steps
           /\ batch \in Nat

LEMMA Parts == RInv <=> /\ RegistryOK /\ StepsOK /\ TrackOK
                        /\ localBad \subseteq Steps
  BY DEF RInv, TypeOK, RegistryOK, TypedNodes, NodeRecords, StepsOK, Waits, TrackOK

LEMMA PartsNext == /\ RegistryOK' /\ StepsOK' /\ TrackOK' /\ (localBad \subseteq Steps)'
                   => RInv'
  BY DEF RInv, TypeOK, RegistryOK, TypedNodes, NodeRecords, StepsOK, Waits, TrackOK

LEMMA TargetsHealthy ==
  ASSUME NEW s, NEW asg, NEW n \in DecideTarget(s, asg), n # NoNode
  PROVE  n \in Nodes /\ IsHealthy(n) /\ s \in ModelSteps
  BY DEF DecideTarget, SelectForRole, Candidates

LEMMA LaunchKeeps ==
  ASSUME RInv, NEW started,
         NEW asg \in [Steps -> Nodes \cup {NoNode}],
         Launch(started, asg), outcome' = outcome, localBad' = localBad,
         UNCHANGED regVars
  PROVE  StepsOK' /\ RestStep /\ batch' \in Nat
<1>1. RegistryOK /\ StepsOK /\ TrackOK
  BY Parts
<1>2. PICK target \in [started -> Nodes \cup {NoNode}] :
        /\ \A s \in started : target[s] \in DecideTarget(s, asg)
        /\ batch' = batch + 1
        /\ status' = [s \in Steps |-> IF s \in started THEN "running" ELSE status[s]]
        /\ at' = [s \in Steps |->
                    IF s \notin started THEN at[s]
                    ELSE [phase |-> IF target[s] = NoNode THEN "local" ELSE "remote",
                          node  |-> target[s]]]
  BY DEF Launch
<1>3. ASSUME NEW s \in Steps, s \in started
      PROVE  /\ status'[s] = "running"
             /\ at'[s] \in Waits /\ at'[s].phase \in {"local", "remote"}
             /\ at'[s].phase = "remote" =>
                  /\ at'[s].node \in Nodes /\ s \in ModelSteps
                  /\ IsHealthy(at'[s].node)
  <2>1. at'[s] = [phase |-> IF target[s] = NoNode THEN "local" ELSE "remote",
                  node  |-> target[s]]
    BY <1>2, <1>3
  <2>2. target[s] \in Nodes \cup {NoNode} /\ target[s] \in DecideTarget(s, asg)
    BY <1>2, <1>3
  <2>3. target[s] # NoNode =>
          target[s] \in Nodes /\ IsHealthy(target[s]) /\ s \in ModelSteps
    BY <2>2, TargetsHealthy
  <2>4. at'[s] \in Waits /\ at'[s].phase \in {"local", "remote"}
    BY <2>1, <2>2 DEF Waits
  <2>5. at'[s].phase = "remote" => at'[s].node = target[s] /\ target[s] # NoNode
    BY <2>1
  <2>. QED  BY <1>2, <1>3, <2>3, <2>4, <2>5
<1>4. ASSUME NEW s \in Steps, s \notin started
      PROVE  status'[s] = status[s] /\ at'[s] = at[s]
  BY <1>2, <1>4
<1>5. /\ status' \in [Steps -> {"pending", "running", "completed", "failed"}]
      /\ at' \in [Steps -> Waits]
  <2>1. \A s \in Steps : at'[s] \in Waits
    BY <1>1, <1>3, <1>4 DEF StepsOK
  <2>. QED  BY <1>1, <1>2, <2>1 DEF StepsOK
<1>6. WaitsFor'
  <2>1. WaitsFor
    BY <1>1 DEF StepsOK
  <2>. QED  BY <2>1, <1>3, <1>4 DEF WaitsFor
<1>7. RelayCostsNothing'
  <2>1. Failed' \subseteq Failed
    BY <1>3, <1>4 DEF Failed
  <2>. QED  BY <1>1, <2>1 DEF StepsOK, RelayCostsNothing
<1>8. RestStep
  <2>1. \A n \in Nodes : IsHealthy(n) => n \notin silent
    BY <1>1 DEF RegistryOK, SilentRest, IsHealthy
  <2>2. \A s \in Steps : at[s].phase = "idle" /\ at'[s].phase = "remote"
                          => s \in started
    BY <1>4
  <2>. QED  BY <1>3, <2>1, <2>2 DEF RestStep
<1>9. batch' \in Nat
  BY <1>1, <1>2 DEF TrackOK
<1>. QED  BY <1>1, <1>5, <1>6, <1>7, <1>8, <1>9 DEF StepsOK

(* A step may fail when nothing is promised about it, or when this machine *)
(* is to blame.                                                            *)
LEMMA SettleKeeps ==
  ASSUME RInv, NEW s \in Steps, NEW output, Settle(s, output),
         localBad \subseteq localBad',
         \/ Accepted(output) \/ s \in localBad'
         \/ s \in ModelSteps /\ s \notin Checked
  PROVE  StepsOK' /\ RestStep
<1>1. StepsOK
  BY Parts
<1>2. /\ status' = [status EXCEPT ![s] = IF Accepted(output) THEN "completed"
                                        ELSE "failed"]
      /\ at' = [at EXCEPT ![s] = Idle]
      /\ outcome' = outcome \/ outcome' = "failed"
  BY DEF Settle
<1>3. \A t \in Steps : t # s => at'[t] = at[t] /\ status'[t] = status[t]
  BY <1>1, <1>2 DEF StepsOK
<1>4. /\ at'[s] = Idle
      /\ status'[s] = "completed" \/ (status'[s] = "failed" /\ ~Accepted(output))
  BY <1>1, <1>2 DEF StepsOK
<1>5. Idle \in Waits /\ Idle.phase = "idle"
  BY DEF Idle, Waits
<1>6. /\ status' \in [Steps -> {"pending", "running", "completed", "failed"}]
      /\ at' \in [Steps -> Waits] /\ outcome' \in {"none", "completed", "failed"}
  BY <1>1, <1>2, <1>5 DEF StepsOK
<1>7. WaitsFor'
  <2>1. WaitsFor
    BY <1>1 DEF StepsOK
  <2>. QED  BY <2>1, <1>3, <1>4, <1>5 DEF WaitsFor
<1>8. RelayCostsNothing'
  <2>1. Failed' \subseteq Failed \cup (IF Accepted(output) THEN {} ELSE {s})
    BY <1>3, <1>4 DEF Failed
  <2>2. Failed \cap (Checked \cup (Steps \ ModelSteps)) \subseteq localBad
    BY <1>1 DEF StepsOK, RelayCostsNothing
  <2>. QED  BY <2>1, <2>2 DEF RelayCostsNothing
<1>9. RestStep
  BY <1>3, <1>4, <1>5 DEF RestStep
<1>. QED  BY <1>6, <1>7, <1>8, <1>9 DEF StepsOK

LEMMA FallBackKeeps ==
  ASSUME RInv, NEW s \in Steps, NEW phase \in {"guarded", "local"},
         at[s].phase # "idle", phase = "guarded" => at[s].node \in Nodes,
         FallBack(s, phase), localBad \subseteq localBad'
  PROVE  StepsOK' /\ RestStep
<1>. DEFINE w == [at[s] EXCEPT !.phase = phase]
<1>1. StepsOK /\ at[s] \in Waits
  BY Parts DEF StepsOK
<1>2. w \in Waits /\ w.phase = phase /\ w.node = at[s].node
  BY <1>1 DEF Waits
<1>3. at' = [at EXCEPT ![s] = w] /\ status' = status /\ outcome' = outcome
  BY DEF FallBack
<1>. HIDE DEF w
<1>4. \A t \in Steps : t # s => at'[t] = at[t]
  BY <1>1, <1>3 DEF StepsOK
<1>5. at' \in [Steps -> Waits] /\ at'[s] = w
  BY <1>1, <1>2, <1>3 DEF StepsOK
<1>6. WaitsFor'
  <2>1. WaitsFor
    BY <1>1 DEF StepsOK
  <2>. QED  BY <2>1, <1>2, <1>3, <1>4, <1>5 DEF WaitsFor
<1>7. RelayCostsNothing'
  BY <1>1, <1>3 DEF StepsOK, RelayCostsNothing, Failed
<1>8. RestStep
  BY <1>2, <1>4, <1>5 DEF RestStep
<1>. QED  BY <1>1, <1>3, <1>5, <1>6, <1>7, <1>8 DEF StepsOK

LEMMA FailureKeeps ==
  ASSUME RInv, NEW n \in Nodes, nodes' = AfterFailure(n), signs' = signs,
         silent' = silent \/ silent' = silent \cup {n}
  PROVE  RegistryOK'
<1>1. RegistryOK
  BY Parts
<1>2. /\ nodes' \in [Nodes -> NodeRecords]
      /\ nodes'[n].status \in {"absent", "unhealthy"}
      /\ \A m \in Nodes : m # n => nodes'[m].status = nodes[m].status
  BY <1>1, AfterFailureTyped DEF RegistryOK
<1>3. silent' \subseteq Nodes /\ SilentRest'
  BY <1>1, <1>2 DEF RegistryOK, SilentRest
<1>. QED  BY <1>1, <1>2, <1>3 DEF RegistryOK, TypedNodes

LEMMA AnswerKeeps ==
  ASSUME RInv, NEW s \in Steps, StepEnds(s)
  PROVE  RInv' /\ RestStep
<1>. DEFINE n == at[s].node
<1>1. /\ RegistryOK /\ StepsOK /\ TrackOK /\ localBad \subseteq Steps
      /\ at[s].phase \in {"remote", "guarded"} => n \in Nodes
      /\ at[s].phase = "remote" => s \in ModelSteps
  BY Parts DEF StepsOK, WaitsFor
<1>2. TrackOK'
  BY <1>1 DEF TrackOK, StepEnds, RemoteAnswers, RemoteRefuses, RemoteFails,
              GuardedEnds, LocalEnds
<1>3. CASE RemoteAnswers(s)
  <2>1. RegistryOK'
    <3>1. /\ nodes' \in [Nodes -> NodeRecords]
          /\ \A m \in Nodes : nodes'[m].status = nodes[m].status
      BY <1>1, <1>3, DispatchTyped DEF RemoteAnswers, RegistryOK, TypedNodes
    <3>2. signs' = signs /\ silent' = silent
      BY <1>3 DEF RemoteAnswers
    <3>. QED  BY <1>1, <3>1, <3>2 DEF RegistryOK, TypedNodes, SilentRest
  <2>2. localBad' = localBad /\ at[s].phase = "remote"
    BY <1>3 DEF RemoteAnswers
  <2>3. PICK output \in {"good", "bad"} :
          IF output = "bad" /\ s \in Checked THEN FallBack(s, "guarded")
          ELSE Settle(s, output)
    BY <1>3 DEF RemoteAnswers
  <2>4. CASE output = "bad" /\ s \in Checked
    BY <1>1, <2>1, <2>2, <2>3, <2>4, <1>2, FallBackKeeps, PartsNext
  <2>5. CASE ~(output = "bad" /\ s \in Checked)
    <3>1. Accepted(output) \/ (s \in ModelSteps /\ s \notin Checked)
      BY <1>1, <2>2, <2>5 DEF Accepted
    <3>2. StepsOK' /\ RestStep
      BY <2>2, <2>3, <2>5, <3>1, SettleKeeps
    <3>. QED  BY <1>1, <1>2, <2>1, <2>2, <3>2, PartsNext
  <2>. QED  BY <2>4, <2>5
<1>4. CASE RemoteRefuses(s) \/ RemoteFails(s)
  <2>1. /\ at[s].phase = "remote" /\ nodes' = AfterFailure(n)
        /\ silent' = silent \cup {n} /\ signs' = signs /\ localBad' = localBad
        /\ FallBack(s, "guarded") \/ FallBack(s, "local")
    BY <1>4 DEF RemoteRefuses, RemoteFails
  <2>2. RegistryOK'
    BY <1>1, <2>1, FailureKeeps
  <2>3. StepsOK' /\ RestStep
    BY <1>1, <2>1, FallBackKeeps
  <2>. QED  BY <1>1, <1>2, <2>1, <2>2, <2>3, PartsNext
<1>5. CASE GuardedEnds(s)
  <2>1. PICK output \in Outputs :
          /\ Blamed(s, output)
          /\ IF output = "throws"
             THEN nodes' = AfterFailure(n) /\ FallBack(s, "local")
             ELSE Settle(s, output) /\ UNCHANGED nodes
    BY <1>5 DEF GuardedEnds
  <2>2. at[s].phase = "guarded" /\ signs' = signs /\ silent' = silent
    BY <1>5 DEF GuardedEnds
  <2>3. /\ localBad \subseteq localBad' /\ localBad' \subseteq Steps
        /\ output = "good" \/ s \in localBad'
    BY <1>1, <2>1 DEF Blamed
  <2>4. CASE output = "throws"
    <3>1. RegistryOK'
      BY <1>1, <2>1, <2>2, <2>4, FailureKeeps
    <3>2. StepsOK' /\ RestStep
      BY <2>1, <2>2, <2>3, <2>4, FallBackKeeps
    <3>. QED  BY <1>2, <2>3, <3>1, <3>2, PartsNext
  <2>5. CASE output # "throws"
    <3>1. RegistryOK'
      BY <1>1, <2>1, <2>2, <2>5 DEF RegistryOK, TypedNodes, SilentRest
    <3>2. StepsOK' /\ RestStep
      <4>1. Accepted(output) \/ s \in localBad'
        BY <2>3 DEF Accepted
      <4>. QED  BY <2>1, <2>3, <2>5, <4>1, SettleKeeps
    <3>. QED  BY <1>2, <2>3, <3>1, <3>2, PartsNext
  <2>. QED  BY <2>4, <2>5
<1>6. CASE LocalEnds(s)
  <2>1. PICK output \in Outputs : Blamed(s, output) /\ Settle(s, output)
    BY <1>6 DEF LocalEnds
  <2>2. /\ localBad \subseteq localBad' /\ localBad' \subseteq Steps
        /\ output = "good" \/ s \in localBad'
    BY <1>1, <2>1 DEF Blamed
  <2>3. StepsOK' /\ RestStep
    <3>1. Accepted(output) \/ s \in localBad'
      BY <2>2 DEF Accepted
    <3>. QED  BY <2>1, <2>2, <3>1, SettleKeeps
  <2>4. RegistryOK'
    BY <1>1, <1>6 DEF LocalEnds, regVars, RegistryOK, TypedNodes, SilentRest
  <2>. QED  BY <1>2, <2>2, <2>3, <2>4, PartsNext
<1>. QED  BY <1>3, <1>4, <1>5, <1>6 DEF StepEnds

LEMMA BatchesTyped == deps \in Graphs => \A i \in DOMAIN Batches : Batches[i] \subseteq Steps
<1>1. \A i \in DOMAIN InFileOrder : InFileOrder[i] \subseteq Steps
  BY DEF InFileOrder, Steps
<1>2. \A i \in DOMAIN GroupByLevel(deps) : GroupByLevel(deps)[i] \subseteq Steps
  BY DEF GroupByLevel
<1>. QED  BY <1>1, <1>2 DEF Batches

LEMMA AssignmentsTyped == Assignments \subseteq [Steps -> Nodes \cup {NoNode}]
  BY DEF Assignments, Placements

LEMMA InitHolds == Init => RInv
<1>. SUFFICES ASSUME Init PROVE RInv
  OBVIOUS
<1>1. RegistryOK
  <2>1. PICK seeded \in Seeds :
          nodes = [n \in Nodes |-> IF n \in seeded THEN NewNode(Roles) ELSE Absent]
    BY DEF Init, RegInit
  <2>2. NewNode(Roles) \in NodeRecords /\ Absent \in NodeRecords
    BY DEF NewNode, Absent, NodeRecords
  <2>3. TypedNodes
    BY <2>1, <2>2 DEF TypedNodes
  <2>. QED  BY <2>3 DEF Init, RegInit, RegistryOK, SilentRest
<1>2. StepsOK
  <2>1. Idle \in Waits /\ Idle.phase = "idle"
    BY DEF Idle, Waits
  <2>. QED  BY <2>1 DEF Init, StepsOK, WaitsFor, RelayCostsNothing, Failed
<1>3. TrackOK /\ localBad \subseteq Steps
  BY DEF Init, TrackOK
<1>. QED  BY <1>1, <1>2, <1>3, Parts

LEMMA StepHolds == RInv /\ [Next]_vars => RInv' /\ RestStep
<1>. SUFFICES ASSUME RInv, [Next]_vars PROVE RInv' /\ RestStep
  OBVIOUS
<1>1. RegistryOK /\ StepsOK /\ TrackOK /\ localBad \subseteq Steps
  BY Parts
<1>2. ASSUME UNCHANGED regVars PROVE RegistryOK'
  BY <1>1, <1>2 DEF regVars, RegistryOK, TypedNodes, SilentRest
<1>3. ASSUME UNCHANGED <<status, at, localBad>>,
             outcome' \in {"none", "completed", "failed"}
      PROVE  StepsOK' /\ RestStep
  BY <1>1, <1>3 DEF StepsOK, WaitsFor, RelayCostsNothing, Failed, RestStep
<1>4. CASE Begin
  <2>1. /\ UNCHANGED regVars /\ localBad' = localBad
        /\ deps' = deps /\ request' = request
    BY <1>4 DEF Begin
  <2>2. CASE Refused
    <3>1. /\ outcome' = "failed"
          /\ UNCHANGED <<assigned, batches, batch, status, at>>
      BY <1>4, <2>2 DEF Begin
    <3>2. TrackOK'
      BY <1>1, <2>1, <3>1 DEF TrackOK
    <3>. QED  BY <1>1, <1>2, <1>3, <2>1, <3>1, <3>2, PartsNext
  <2>3. CASE ~Refused
    <3>1. PICK asg \in Assignments :
            /\ assigned' = asg /\ Launch(batches'[1], asg)
            /\ batches' = Batches /\ outcome' = outcome
      BY <1>4, <2>3 DEF Begin
    <3>2. asg \in [Steps -> Nodes \cup {NoNode}]
      BY <3>1, AssignmentsTyped
    <3>3. StepsOK' /\ RestStep /\ batch' \in Nat
      BY <2>1, <3>1, <3>2, LaunchKeeps
    <3>4. TrackOK'
      <4>1. \A i \in DOMAIN batches' : batches'[i] \subseteq Steps
        BY <1>1, <3>1, BatchesTyped DEF TrackOK
      <4>. QED  BY <1>1, <2>1, <3>1, <3>2, <3>3, <4>1 DEF TrackOK
    <3>. QED  BY <1>1, <1>2, <2>1, <3>3, <3>4, PartsNext
  <2>. QED  BY <2>2, <2>3
<1>5. CASE NextBatch
  <2>1. /\ UNCHANGED <<deps, request, assigned, batches, outcome, localBad>>
        /\ UNCHANGED regVars
        /\ Launch(batches[batch + 1], assigned)
    BY <1>5 DEF NextBatch
  <2>2. StepsOK' /\ RestStep /\ batch' \in Nat
    BY <1>1, <2>1, LaunchKeeps DEF TrackOK
  <2>3. TrackOK'
    BY <1>1, <2>1, <2>2 DEF TrackOK
  <2>. QED  BY <1>1, <1>2, <2>1, <2>2, <2>3, PartsNext
<1>6. CASE Return
  <2>1. /\ UNCHANGED <<deps, request, assigned, batches, batch>>
        /\ UNCHANGED <<status, at, localBad>> /\ UNCHANGED regVars
        /\ outcome' \in {"none", "completed", "failed"}
    BY <1>6 DEF Return
  <2>2. TrackOK'
    BY <1>1, <2>1 DEF TrackOK
  <2>. QED  BY <1>1, <1>2, <1>3, <2>1, <2>2, PartsNext
<1>7. CASE \E s \in Steps : StepEnds(s)
  BY <1>7, AnswerKeeps
<1>8. CASE RegNext /\ UNCHANGED runVars
  <2>1. RegistryOK'
    BY <1>8, RegistryKeeps
  <2>2. /\ UNCHANGED <<deps, request, assigned, batches, batch>>
        /\ UNCHANGED <<status, at, localBad>> /\ outcome' = outcome
    BY <1>8 DEF runVars
  <2>3. StepsOK' /\ RestStep
    BY <1>1, <1>3, <2>2 DEF StepsOK
  <2>4. TrackOK'
    BY <1>1, <2>2 DEF TrackOK
  <2>. QED  BY <1>1, <2>1, <2>2, <2>3, <2>4, PartsNext
<1>9. CASE UNCHANGED vars
  <2>1. /\ UNCHANGED <<deps, request, assigned, batches, batch>>
        /\ UNCHANGED <<status, at, localBad>> /\ outcome' = outcome
        /\ UNCHANGED regVars
    BY <1>9 DEF vars, runVars
  <2>2. StepsOK' /\ RestStep
    BY <1>1, <1>3, <2>1 DEF StepsOK
  <2>3. TrackOK'
    BY <1>1, <2>1 DEF TrackOK
  <2>. QED  BY <1>1, <1>2, <2>1, <2>2, <2>3, PartsNext
<1>. QED  BY <1>4, <1>5, <1>6, <1>7, <1>8, <1>9 DEF Next

----------------------------------------------------------------------------
(* Results *)

(* Whatever the nodes, the steps and the caller do, the run and the        *)
(* registry stay of their kind.                                            *)
THEOREM TypeCorrect == Spec => []TypeOK
<1>1. RInv => TypeOK
  BY DEF RInv
<1>. QED  BY InitHolds, StepHolds, <1>1, PTL DEF Spec

(* A step with a schema, or one that uses no model, fails only when this   *)
(* machine could not do it: no answer of a relay node, in any order with   *)
(* the answers of the others, costs a step its result.                     *)
THEOREM NodesCostNothing == Spec => []RelayCostsNothing
<1>1. RInv => RelayCostsNothing
  BY DEF RInv
<1>. QED  BY InitHolds, StepHolds, <1>1, PTL DEF Spec

(* A node that failed an exchange is left alone until it gives a sign of   *)
(* life, although the nodes a run places its steps on are chosen at its    *)
(* beginning.                                                              *)
THEOREM SilentNodesRest == Spec => FailedNodesRest
<1>1. RInv /\ [Next]_vars =>
        [\A s \in Steps : at[s].phase = "idle" /\ at'[s].phase = "remote"
                           => at'[s].node \notin silent]_vars
  BY StepHolds DEF RestStep
<1>. QED  BY InitHolds, StepHolds, <1>1, PTL DEF Spec, FailedNodesRest
----------------------------------------------------------------------------
(* Induction and recursion up to a number.  They are stated for sets and   *)
(* functions, not for predicates, so that they can be used by instance.    *)

(* A set of natural numbers that is not empty has a least one. *)
LEMMA LeastNumber ==
  ASSUME NEW T \in SUBSET Nat, T # {}
  PROVE  \E m \in T : \A k \in T : m =< k
<1>. DEFINE D == {0..n : n \in T}
<1>1. D \subseteq FiniteSubsetsOf(Nat) /\ D # {}
  <2>1. \A n \in T : IsFiniteSet(0..n)
    <3>. TAKE n \in T
    <3>. QED  BY FS_Interval
  <2>2. \A n \in T : (0..n) \in SUBSET Nat
    OBVIOUS
  <2>3. \A n \in T : 0..n \in FiniteSubsetsOf(Nat)
    BY <2>1, <2>2 DEF FiniteSubsetsOf
  <2>4. D \subseteq FiniteSubsetsOf(Nat)
    <3>. SUFFICES ASSUME NEW d \in D PROVE d \in FiniteSubsetsOf(Nat)
      OBVIOUS
    <3>1. PICK n \in T : d = 0..n
      OBVIOUS
    <3>. QED  BY <2>3, <3>1
  <2>5. D # {}
    <3>1. PICK n \in T : TRUE
      OBVIOUS
    <3>2. 0..n \in D
      OBVIOUS
    <3>. QED  BY <3>2
  <2>. QED  BY <2>4, <2>5
<1>2. PICK x \in D : \A y \in D : ~(<<y, x>> \in StrictSubsetOrdering(Nat))
  <2>. HIDE DEF D
  <2>1. IsWellFoundedOn(StrictSubsetOrdering(Nat), FiniteSubsetsOf(Nat))
    BY FS_StrictSubsetOrderingWellFounded
  <2>. QED  BY <1>1, <2>1, WFMin
<1>3. PICK m \in T : x = 0..m
  OBVIOUS
<1>4. ASSUME NEW k \in T, k < m PROVE FALSE
  <2>1. 0..k \subseteq 0..m /\ 0..k # 0..m
    <3>1. m \in 0..m /\ m \notin 0..k
      BY <1>4
    <3>. QED  BY <1>4, <3>1
  <2>2. <<0..k, 0..m>> \in StrictSubsetOrdering(Nat)
    BY <2>1 DEF StrictSubsetOrdering
  <2>3. 0..k \in D
    OBVIOUS
  <2>. QED  BY <1>2, <1>3, <2>2, <2>3
<1>. QED  BY <1>4

(* Induction up to N, on the set of the numbers for which a fact holds. *)
LEMMA UpTo ==
  ASSUME NEW N \in Nat, NEW G, 0 \in G,
         \A n \in 1..N : n - 1 \in G => n \in G
  PROVE  \A n \in 0..N : n \in G
<1>. DEFINE T == {n \in 0..N : n \notin G}
<1>. SUFFICES ASSUME T # {} PROVE FALSE
  OBVIOUS
<1>1. PICK m \in T : \A k \in T : m =< k
  <2>. HIDE DEF T
  <2>1. T \in SUBSET Nat
    BY DEF T
  <2>. QED  BY <2>1, LeastNumber
<1>2. m \in 1..N
  OBVIOUS
<1>3. m - 1 \in 0..N /\ m - 1 \notin T
  BY <1>1, <1>2
<1>. QED  BY <1>2, <1>3

(* A recursion over 0..N whose steps stay in S is followed by a function.  *)
StaysIn(S, N, step) == \A n \in 1..N, x \in S : step[<<n, x>>] \in S

Follows(S, N, first, step) ==
  {f \in [0..N -> S] : f[0] = first /\ \A n \in 1..N : f[n] = step[<<n, f[n - 1]>>]}

LEMMA Recursion ==
  ASSUME NEW N \in Nat, NEW S, NEW first \in S, NEW step, StaysIn(S, N, step)
  PROVE  Follows(S, N, first, step) # {}
<1>. DEFINE Goes(f, n) == \A i \in 0..n :
                            f[i] = IF i = 0 THEN first ELSE step[<<i, f[i - 1]>>]
            G == {n \in 0..N : \E f \in [0..n -> S] : Goes(f, n)}
<1>1. 0 \in G
  <2>. DEFINE f == [i \in 0..0 |-> first]
  <2>1. f \in [0..0 -> S] /\ Goes(f, 0)
    OBVIOUS
  <2>. HIDE DEF f
  <2>. QED  BY <2>1
<1>2. ASSUME NEW n \in 1..N, n - 1 \in G PROVE n \in G
  <2>1. PICK f \in [0..(n - 1) -> S] : Goes(f, n - 1)
    BY <1>2
  <2>. DEFINE x == step[<<n, f[n - 1]>>]
              g == [i \in 0..n |-> IF i = n THEN x ELSE f[i]]
  <2>2. f[n - 1] \in S /\ x \in S
    BY DEF StaysIn
  <2>3. g \in [0..n -> S]
    BY <2>2
  <2>4. g[n] = x /\ \A i \in 0..(n - 1) : g[i] = f[i]
    OBVIOUS
  <2>. HIDE DEF x, g
  <2>5. g[n - 1] = f[n - 1]
    BY <2>4
  <2>6. ASSUME NEW i \in 0..n
        PROVE  g[i] = IF i = 0 THEN first ELSE step[<<i, g[i - 1]>>]
    <3>1. CASE i = n
      BY <2>4, <2>5, <3>1 DEF x
    <3>2. CASE i # n
      <4>1. i \in 0..(n - 1) /\ (i # 0 => i - 1 \in 0..(n - 1))
        BY <3>2
      <4>. QED  BY <2>1, <2>4, <4>1
    <3>. QED  BY <3>1, <3>2
  <2>. QED  BY <2>3, <2>6
<1>3. N \in G
  <2>. HIDE DEF G
  <2>. QED  BY <1>1, <1>2, UpTo
<1>4. PICK f \in [0..N -> S] : Goes(f, N)
  BY <1>3
<1>5. f[0] = first /\ \A n \in 1..N : f[n] = step[<<n, f[n - 1]>>]
  <2>1. 0 \in 0..N /\ \A n \in 1..N : n \in 0..N /\ n # 0
    OBVIOUS
  <2>. QED  BY <1>4, <2>1
<1>. QED  BY <1>5 DEF Follows

----------------------------------------------------------------------------
(* Where distribute places the steps *)

LEMMA Numbers ==
  /\ Len(StepOrder) \in Nat /\ Len(StepOrder) > 0
  /\ DOMAIN StepOrder = 1..Len(StepOrder)
  /\ \A i \in 1..Len(StepOrder) : StepOrder[i] \in Steps
  /\ \A s \in Steps : \E i \in 1..Len(StepOrder) : s = StepOrder[i]
  /\ \A i, j \in 1..Len(StepOrder) : StepOrder[i] = StepOrder[j] => i = j
BY StepsAssumption DEF Steps

(* What the steps before number i have in common is counted by number.     *)
LEMMA LoadGrows ==
  ASSUME NEW asg, NEW i \in 1..Len(StepOrder), NEW n
  PROVE  /\ Load(asg, i, n) \in Nat
         /\ Load(asg, i + 1, n) =
              IF asg[StepOrder[i]] = n THEN Load(asg, i, n) + 1 ELSE Load(asg, i, n)
<1>. DEFINE L(k) == {j \in 1..(k - 1) : asg[StepOrder[j]] = n}
<1>0. i \in Nat
  BY Numbers
<1>1. IsFiniteSet(L(i))
  <2>1. IsFiniteSet(1..(i - 1))
    BY <1>0, FS_Interval
  <2>2. L(i) \in SUBSET (1..(i - 1))
    OBVIOUS
  <2>. HIDE DEF L
  <2>. QED  BY <2>1, <2>2, FS_Subset
<1>2. i \notin L(i)
  BY <1>0
<1>3. L(i + 1) = IF asg[StepOrder[i]] = n THEN L(i) \cup {i} ELSE L(i)
  BY <1>0
<1>4. Load(asg, i, n) = Cardinality(L(i)) /\ Load(asg, i + 1, n) = Cardinality(L(i + 1))
  BY DEF Load
<1>. HIDE DEF L
<1>5. Cardinality(L(i)) \in Nat
  BY <1>1, FS_CardinalityType
<1>6. Cardinality(L(i) \cup {i}) = Cardinality(L(i)) + 1
  BY <1>1, <1>2, FS_AddElement
<1>. QED  BY <1>3, <1>4, <1>5, <1>6

(* The share of a node is its load after the last step.                    *)
LEMMA ShareIsLoad ==
  ASSUME NEW asg, NEW n
  PROVE  Cardinality({s \in Steps : asg[s] = n}) = Load(asg, Len(StepOrder) + 1, n)
<1>. DEFINE L == {j \in 1..Len(StepOrder) : asg[StepOrder[j]] = n}
            A == {s \in Steps : asg[s] = n}
            f == [j \in L |-> StepOrder[j]]
<1>1. IsFiniteSet(L)
  <2>1. IsFiniteSet(1..Len(StepOrder))
    BY Numbers, FS_Interval
  <2>2. L \in SUBSET (1..Len(StepOrder))
    OBVIOUS
  <2>. HIDE DEF L
  <2>. QED  BY <2>1, <2>2, FS_Subset
<1>2. f \in Bijection(L, A)
  <2>1. f \in [L -> A]
    BY Numbers
  <2>2. \A j, k \in L : f[j] = f[k] => j = k
    BY Numbers
  <2>3. \A s \in A : \E j \in L : f[j] = s
    BY Numbers
  <2>. HIDE DEF f, L, A
  <2>. QED  BY <2>1, <2>2, <2>3 DEF Bijection, Injection, Surjection, IsInjective
<1>3. Cardinality(A) = Cardinality(L)
  <2>. HIDE DEF f, L, A
  <2>1. ExistsBijection(L, A)
    BY <1>2 DEF ExistsBijection
  <2>. QED  BY <1>1, <2>1, FS_Bijection
<1>4. Len(StepOrder) + 1 - 1 = Len(StepOrder)
  BY Numbers
<1>. QED  BY <1>3, <1>4 DEF Load

(* Where every model step has the same candidates, the loads of two of     *)
(* them never differ by more than one step, however ties are broken.       *)
LEMMA LoadsEven ==
  ASSUME NEW role, \A s \in ModelSteps : RoleOf[s] = role,
         NEW asg \in Placements, NEW n \in Candidates(role), NEW m \in Candidates(role)
  PROVE  Load(asg, Len(StepOrder) + 1, n) - Load(asg, Len(StepOrder) + 1, m) =< 1
<1>. DEFINE C == Candidates(role)
            N == Len(StepOrder)
            G == {i \in 0..N : \A x, y \in C :
                    /\ Load(asg, i + 1, x) \in Nat
                    /\ Load(asg, i + 1, x) - Load(asg, i + 1, y) =< 1}
<1>1. N \in Nat
  BY Numbers
<1>2. 0 \in G
  <2>1. \A x : Load(asg, 1, x) = 0
    BY FS_EmptySet DEF Load
  <2>. QED  BY <1>1, <2>1
<1>3. ASSUME NEW i \in 1..N, i - 1 \in G PROVE i \in G
  <2>. DEFINE s == StepOrder[i]
  <2>1. \A x, y \in C : /\ Load(asg, i, x) \in Nat
                        /\ Load(asg, i, x) - Load(asg, i, y) =< 1
    BY <1>1, <1>3
  <2>2. \A x \in C : Load(asg, i + 1, x) =
                       IF asg[s] = x THEN Load(asg, i, x) + 1 ELSE Load(asg, i, x)
    BY LoadGrows
  <2>3. \/ asg[s] \notin C
        \/ asg[s] \in C /\ \A y \in C : Load(asg, i, asg[s]) =< Load(asg, i, y)
    <3>1. NoNode \notin C
      BY DEF Candidates
    <3>2. C # {}
      OBVIOUS
    <3>. QED  BY <3>1, <3>2 DEF Placements
  <2>. HIDE DEF C, s
  <2>4. ASSUME NEW x \in C, NEW y \in C
        PROVE  /\ Load(asg, i + 1, x) \in Nat
               /\ Load(asg, i + 1, x) - Load(asg, i + 1, y) =< 1
    <3>1. /\ Load(asg, i, x) \in Nat /\ Load(asg, i, y) \in Nat
          /\ Load(asg, i, x) - Load(asg, i, y) =< 1
      BY <2>1
    <3>2. asg[s] = x => Load(asg, i, x) =< Load(asg, i, y)
      BY <2>3
    <3>. QED  BY <2>2, <3>1, <3>2
  <2>. QED  BY <1>1, <2>4
<1>4. N \in G
  <2>. HIDE DEF G, N
  <2>. QED  BY <1>1, <1>2, <1>3, UpTo
<1>. QED  BY <1>4

(* distribute spreads the steps of one role evenly over its candidates and *)
(* leaves none of them to this machine while there is one.                 *)
PlacementStep ==
  (request.policy = "distribute" /\ batch = 0 /\ batch' = 1) =>
    \A role \in Roles : (\A s \in ModelSteps : RoleOf[s] = role) =>
      /\ \A n, m \in Candidates(role) : Share(n)' - Share(m)' =< 1
      /\ Candidates(role) # {} => \A s \in ModelSteps : assigned'[s] # NoNode

THEOREM DistributionEven == Spec => PlacementBalanced
<1>1. [Next]_vars => PlacementStep
  <2>. SUFFICES ASSUME [Next]_vars, request.policy = "distribute",
                       batch = 0, batch' = 1, NEW role \in Roles,
                       \A s \in ModelSteps : RoleOf[s] = role
                PROVE  /\ \A n, m \in Candidates(role) : Share(n)' - Share(m)' =< 1
                       /\ Candidates(role) # {} =>
                            \A s \in ModelSteps : assigned'[s] # NoNode
    BY DEF PlacementStep
  <2>1. Begin
    BY DEF Next, NextBatch, BatchSettled, Return, StepEnds, RemoteAnswers,
           RemoteRefuses, RemoteFails, GuardedEnds, LocalEnds, vars, runVars
  <2>2. assigned' \in Placements
    BY <2>1 DEF Begin, Assignments
  <2>3. ASSUME NEW n \in Candidates(role), NEW m \in Candidates(role)
        PROVE  Share(n)' - Share(m)' =< 1
    <3>1. /\ Share(n)' = Load(assigned', Len(StepOrder) + 1, n)
          /\ Share(m)' = Load(assigned', Len(StepOrder) + 1, m)
      BY ShareIsLoad DEF Share
    <3>. QED  BY <2>2, <2>3, <3>1, LoadsEven
  <2>4. ASSUME Candidates(role) # {}, NEW s \in ModelSteps
        PROVE  assigned'[s] # NoNode
    <3>1. PICK i \in 1..Len(StepOrder) : s = StepOrder[i]
      BY Numbers
    <3>2. assigned'[s] \in Candidates(role)
      BY <2>2, <2>4, <3>1 DEF Placements
    <3>. QED  BY <3>2 DEF Candidates
  <2>. QED  BY <2>3, <2>4
<1>. QED  BY <1>1, PTL DEF Spec, PlacementBalanced, PlacementStep

----------------------------------------------------------------------------
(* The levels of a graph *)

(* q lists each of the first n steps that are in S, once.                  *)
Lists(q, S, n) ==
  /\ q \in Seq(Steps)
  /\ \A k \in 1..Len(q) : \E j \in 1..n : q[k] = StepOrder[j] /\ StepOrder[j] \in S
  /\ \A k, l \in 1..Len(q) : q[k] = q[l] => k = l
  /\ \A j \in 1..n : StepOrder[j] \in S => \E k \in 1..Len(q) : q[k] = StepOrder[j]

LEMMA ListsNext ==
  ASSUME NEW S, NEW n \in 1..Len(StepOrder), NEW q, Lists(q, S, n - 1)
  PROVE  Lists(IF StepOrder[n] \in S THEN Append(q, StepOrder[n]) ELSE q, S, n)
<1>. DEFINE s == StepOrder[n]
            r == Append(q, s)
<1>1. /\ n \in Nat /\ s \in Steps /\ q \in Seq(Steps) /\ Len(q) \in Nat
      /\ \A j \in 1..n : j = n \/ j \in 1..(n - 1)
      /\ \A j \in 1..(n - 1) : StepOrder[j] # s
  BY Numbers DEF Lists
<1>2. CASE s \notin S
  BY <1>1, <1>2 DEF Lists
<1>3. CASE s \in S
  <2>1. /\ r \in Seq(Steps) /\ Len(r) = Len(q) + 1
        /\ \A k \in 1..Len(q) : r[k] = q[k]
        /\ r[Len(q) + 1] = s
    BY <1>1
  <2>. HIDE DEF r
  <2>2. \A k \in 1..Len(r) : k = Len(q) + 1 \/ k \in 1..Len(q)
    BY <1>1, <2>1
  <2>3. \A k \in 1..Len(q) : q[k] # s
    BY <1>1 DEF Lists
  <2>4. \A k \in 1..Len(r) : \E j \in 1..n : r[k] = StepOrder[j] /\ StepOrder[j] \in S
    <3>1. ASSUME NEW k \in 1..Len(q)
          PROVE  \E j \in 1..n : r[k] = StepOrder[j] /\ StepOrder[j] \in S
      <4>1. PICK j \in 1..(n - 1) : q[k] = StepOrder[j] /\ StepOrder[j] \in S
        BY DEF Lists
      <4>. QED  BY <1>1, <2>1, <4>1
    <3>. QED  BY <1>1, <1>3, <2>1, <2>2, <3>1
  <2>5. \A k, l \in 1..Len(r) : r[k] = r[l] => k = l
    BY <2>1, <2>2, <2>3 DEF Lists
  <2>6. \A j \in 1..n : StepOrder[j] \in S => \E k \in 1..Len(r) : r[k] = StepOrder[j]
    <3>1. ASSUME NEW j \in 1..(n - 1), StepOrder[j] \in S
          PROVE  \E k \in 1..Len(r) : r[k] = StepOrder[j]
      <4>1. PICK k \in 1..Len(q) : q[k] = StepOrder[j]
        BY <3>1 DEF Lists
      <4>. QED  BY <1>1, <2>1, <4>1
    <3>2. Len(q) + 1 \in 1..Len(r)
      BY <1>1, <2>1
    <3>. QED  BY <1>1, <2>1, <3>1, <3>2
  <2>. QED  BY <1>3, <2>1, <2>4, <2>5, <2>6 DEF Lists, r
<1>. QED  BY <1>2, <1>3

LEMMA FileOrderLists ==
  ASSUME NEW S
  PROVE  Lists(FileOrder(S), S, Len(StepOrder))
<1>. DEFINE N == Len(StepOrder)
            add(n, q) == IF StepOrder[n] \in S THEN Append(q, StepOrder[n]) ELSE q
            Runs(f) == f = [n \in 0..N |-> IF n = 0 THEN <<>> ELSE add(n, f[n - 1])]
            among == CHOOSE f : Runs(f)
            step == [p \in (1..N) \X Seq(Steps) |-> add(p[1], p[2])]
<1>1. FileOrder(S) = among[N]
  BY DEF FileOrder
<1>2. Runs(among)
  <2>1. step \in [(1..N) \X Seq(Steps) -> Seq(Steps)]
    <3>1. \A n \in 1..N, q \in Seq(Steps) : add(n, q) \in Seq(Steps)
      BY Numbers
    <3>. QED  BY <3>1
  <2>2. \E f \in [0..N -> Seq(Steps)] :
          f[0] = <<>> /\ \A n \in 1..N : f[n] = step[<<n, f[n - 1]>>]
    <3>. DEFINE T == Seq(Steps)
                e == <<>>
    <3>1. e \in T /\ N \in Nat
      BY Numbers
    <3>2. StaysIn(T, N, step)
      BY <2>1 DEF StaysIn
    <3>. HIDE DEF N, T, e, step
    <3>3. Follows(T, N, e, step) # {}
      BY <3>1, <3>2, Recursion
    <3>. QED  BY <3>3 DEF T, e, Follows
  <2>3. PICK f \in [0..N -> Seq(Steps)] :
          f[0] = <<>> /\ \A n \in 1..N : f[n] = step[<<n, f[n - 1]>>]
    BY <2>2
  <2>4. ASSUME NEW n \in 1..N PROVE step[<<n, f[n - 1]>>] = add(n, f[n - 1])
    <3>1. n - 1 \in 0..N
      BY Numbers
    <3>2. f[n - 1] \in Seq(Steps)
      BY <3>1
    <3>. HIDE DEF add
    <3>. QED  BY <3>2
  <2>5. Runs(f)
    <3>. HIDE DEF step, add
    <3>1. \A n \in 0..N : n # 0 => n \in 1..N
      BY Numbers
    <3>. QED  BY <2>3, <2>4, <3>1
  <2>. HIDE DEF Runs
  <2>. QED  BY <2>5
<1>3. /\ N \in Nat /\ among[0] = <<>>
      /\ \A n \in 1..N : among[n] = add(n, among[n - 1])
  <2>. HIDE DEF among, add
  <2>1. N \in Nat
    BY Numbers
  <2>2. 0 \in 0..N /\ \A n \in 1..N : n \in 0..N /\ n # 0
    BY <2>1
  <2>. QED  BY <1>2, <2>1, <2>2
<1>. HIDE DEF among, N, add
<1>. DEFINE G == {n \in 0..N : Lists(among[n], S, n)}
<1>4. 0 \in G
  <2>1. Lists(<<>>, S, 0)
    BY DEF Lists
  <2>. QED  BY <1>3, <2>1
<1>5. ASSUME NEW n \in 1..N, n - 1 \in G PROVE n \in G
  <2>1. Lists(add(n, among[n - 1]), S, n)
    BY <1>5, ListsNext DEF add, N
  <2>. QED  BY <1>3, <2>1
<1>6. N \in G
  <2>. HIDE DEF G
  <2>. QED  BY <1>3, <1>4, <1>5, UpTo
<1>. QED  BY <1>1, <1>6 DEF N

(* Kahn's queue: what holds of it, of the counters and of the levels after *)
(* n turns.  Its first n entries are taken; a step is in it exactly when   *)
(* all it waits for is taken; levels grow along it, by at most one from    *)
(* the entry taken last on; a queued step is one above the highest of the  *)
(* steps it waits for, and one that is not queued is at level 0.           *)
KahnStates == [queue : Seq(Steps), waits : [Steps -> Int], level : [Steps -> Nat]]

Taken(q, n) == {q[i] : i \in {j \in 1..Len(q) : j =< n}}

QueueRight(g, n, q) ==
  /\ \A i, j \in 1..Len(q) : q[i] = q[j] => i = j
  /\ \A s \in Steps : (\E i \in 1..Len(q) : q[i] = s) <=> g[s] \subseteq Taken(q, n)

WaitsRight(g, n, k) ==
  \A s \in Steps : k.waits[s] = Cardinality(g[s] \ Taken(k.queue, n))

LevelsGrow(n, q, level) ==
  /\ \A s \in Steps : level[s] =< n
  /\ \A i, j \in 1..Len(q) : i =< j => level[q[i]] =< level[q[j]]
  /\ \A i, j \in 1..Len(q) : n =< i => level[q[j]] =< level[q[i]] + 1

OneAbove(g, s, level) ==
  /\ g[s] = {} => level[s] = 0
  /\ \A d \in g[s] : level[d] < level[s]
  /\ g[s] # {} => \E d \in g[s] : level[s] = level[d] + 1

Kahn(g, n, k) ==
  /\ k \in KahnStates
  /\ QueueRight(g, n, k.queue)
  /\ WaitsRight(g, n, k)
  /\ LevelsGrow(n, k.queue, k.level)
  /\ \A i \in 1..Len(k.queue) : OneAbove(g, k.queue[i], k.level)
  /\ \A s \in Steps : ~(g[s] \subseteq Taken(k.queue, n)) => k.level[s] = 0

LEMMA StepsFinite ==
  IsFiniteSet(Steps) /\ Cardinality(Steps) =< Len(StepOrder)
<1>1. IsFiniteSet(1..Len(StepOrder)) /\ Cardinality(1..Len(StepOrder)) = Len(StepOrder)
  BY Numbers, FS_Interval
<1>2. StepOrder \in Surjection(1..Len(StepOrder), Steps)
  BY Numbers, StepsAssumption DEF Surjection
<1>. QED  BY <1>1, <1>2, FS_Surjection

LEMMA WaitsFinite ==
  ASSUME NEW g \in Dependencies, NEW s \in Steps, NEW T
  PROVE  IsFiniteSet(g[s] \ T)
<1>1. g[s] \subseteq Steps \cup {Ghost}
  BY DEF Dependencies
<1>2. IsFiniteSet(Steps \cup {Ghost})
  BY StepsFinite, FS_AddElement
<1>3. g[s] \ T \in SUBSET (Steps \cup {Ghost})
  BY <1>1
<1>. QED  BY <1>2, <1>3, FS_Subset

LEMMA FilledKahn ==
  ASSUME NEW g \in Dependencies
  PROVE  Kahn(g, 0, Filled(g))
<1>. DEFINE R == {s \in Steps : g[s] = {}}
            q == FileOrder(R)
            k == Filled(g)
<1>1. k.queue = q /\ k.waits = [s \in Steps |-> Cardinality(g[s])]
      /\ k.level = [s \in Steps |-> 0]
  BY DEF Filled
<1>2. Lists(q, R, Len(StepOrder))
  BY FileOrderLists
<1>3. k \in KahnStates
  <2>1. \A s \in Steps : Cardinality(g[s]) \in Int
    <3>. TAKE s \in Steps
    <3>1. IsFiniteSet(g[s] \ {}) /\ g[s] \ {} = g[s]
      BY WaitsFinite
    <3>. QED  BY <3>1, FS_CardinalityType
  <2>. QED  BY <1>2, <2>1 DEF Lists, KahnStates, Filled
<1>4. Taken(q, 0) = {}
  <2>. HIDE DEF q
  <2>1. \A j \in 1..Len(q) : ~(j =< 0)
    OBVIOUS
  <2>. QED  BY <2>1 DEF Taken
<1>5. QueueRight(g, 0, q)
  <2>1. \A s \in Steps : (\E i \in 1..Len(q) : q[i] = s) <=> s \in R
    <3>. HIDE DEF R, q
    <3>1. ASSUME NEW i \in 1..Len(q) PROVE q[i] \in R
      BY <1>2 DEF Lists
    <3>2. ASSUME NEW s \in Steps, s \in R PROVE \E i \in 1..Len(q) : q[i] = s
      <4>1. PICK j \in 1..Len(StepOrder) : s = StepOrder[j]
        BY Numbers
      <4>. QED  BY <1>2, <3>2, <4>1 DEF Lists
    <3>. QED  BY <3>1, <3>2
  <2>2. \A i, j \in 1..Len(q) : q[i] = q[j] => i = j
    BY <1>2 DEF Lists
  <2>. HIDE DEF q
  <2>. QED  BY <1>4, <2>1, <2>2 DEF QueueRight
<1>6. WaitsRight(g, 0, k)
  <2>1. \A s \in Steps : g[s] \ {} = g[s]
    OBVIOUS
  <2>. HIDE DEF q, k
  <2>2. \A s \in Steps : k.waits[s] = Cardinality(g[s])
    BY <1>1
  <2>. QED  BY <1>1, <1>4, <2>1, <2>2 DEF WaitsRight
<1>7. \A i \in 1..Len(q) : q[i] \in R
  BY <1>2 DEF Lists
<1>. HIDE DEF q, k
<1>8. LevelsGrow(0, q, k.level)
  <2>1. \A i \in 1..Len(q) : k.level[q[i]] = 0
    BY <1>1, <1>7
  <2>. QED  BY <1>1, <2>1 DEF LevelsGrow
<1>9. \A i \in 1..Len(q) : OneAbove(g, q[i], k.level)
  BY <1>1, <1>7 DEF OneAbove
<1>10. \A s \in Steps : k.level[s] = 0
  BY <1>1
<1>. QED  BY <1>1, <1>3, <1>5, <1>6, <1>8, <1>9, <1>10 DEF Kahn, k

(* What the queue gains when new steps enter it in file order.             *)
LEMMA QueueGains ==
  ASSUME NEW q \in Seq(Steps), NEW S \in SUBSET Steps,
         \A i, j \in 1..Len(q) : q[i] = q[j] => i = j,
         \A i \in 1..Len(q) : q[i] \notin S,
         NEW r, r = q \o FileOrder(S)
  PROVE  /\ r \in Seq(Steps) /\ Len(q) =< Len(r)
         /\ \A i \in 1..Len(q) : r[i] = q[i]
         /\ \A i \in 1..Len(r) : i \notin 1..Len(q) => r[i] \in S
         /\ \A s \in S : \E i \in 1..Len(r) : r[i] = s
         /\ \A i, j \in 1..Len(r) : r[i] = r[j] => i = j
<1>. DEFINE F == FileOrder(S)
<1>1. /\ F \in Seq(Steps) /\ Len(F) \in Nat
      /\ \A k \in 1..Len(F) : F[k] \in S
      /\ \A k, l \in 1..Len(F) : F[k] = F[l] => k = l
  <2>1. Lists(F, S, Len(StepOrder))
    BY FileOrderLists
  <2>. HIDE DEF F
  <2>2. F \in Seq(Steps) /\ \A k, l \in 1..Len(F) : F[k] = F[l] => k = l
    BY <2>1 DEF Lists
  <2>3. \A k \in 1..Len(F) : F[k] \in S
    BY <2>1 DEF Lists
  <2>. QED  BY <2>2, <2>3
<1>2. \A s \in S : \E k \in 1..Len(F) : F[k] = s
  <2>. SUFFICES ASSUME NEW s \in S PROVE \E k \in 1..Len(F) : F[k] = s
    OBVIOUS
  <2>1. PICK j \in 1..Len(StepOrder) : s = StepOrder[j]
    BY Numbers
  <2>. QED  BY <2>1, FileOrderLists DEF Lists
<1>. HIDE DEF F
<1>3. /\ r \in Seq(Steps) /\ Len(r) = Len(q) + Len(F) /\ Len(q) \in Nat
      /\ \A i \in 1..Len(q) : r[i] = q[i]
      /\ \A k \in 1..Len(F) : r[Len(q) + k] = F[k]
  BY <1>1 DEF F
<1>4. \A i \in 1..Len(r) : i \notin 1..Len(q) => i - Len(q) \in 1..Len(F)
  BY <1>1, <1>3
<1>5. \A i \in 1..Len(r) : i \notin 1..Len(q) => r[i] = F[i - Len(q)]
  <2>. SUFFICES ASSUME NEW i \in 1..Len(r), i \notin 1..Len(q)
                PROVE  r[i] = F[i - Len(q)]
    OBVIOUS
  <2>1. i - Len(q) \in 1..Len(F) /\ Len(q) + (i - Len(q)) = i
    BY <1>3, <1>4
  <2>. QED  BY <1>3, <2>1
<1>6. \A i \in 1..Len(r) : i \notin 1..Len(q) => r[i] \in S
  BY <1>1, <1>4, <1>5
<1>7. \A s \in S : \E i \in 1..Len(r) : r[i] = s
  <2>. SUFFICES ASSUME NEW s \in S PROVE \E i \in 1..Len(r) : r[i] = s
    OBVIOUS
  <2>1. PICK k \in 1..Len(F) : F[k] = s
    BY <1>2
  <2>2. Len(q) + k \in 1..Len(r)
    BY <1>1, <1>3
  <2>. QED  BY <1>3, <2>1, <2>2
<1>8. ASSUME NEW i \in 1..Len(r), NEW j \in 1..Len(r), r[i] = r[j]
      PROVE  i = j
  <2>1. CASE i \in 1..Len(q) /\ j \in 1..Len(q)
    BY <1>3, <1>8, <2>1
  <2>2. CASE i \notin 1..Len(q) /\ j \notin 1..Len(q)
    <3>1. i - Len(q) = j - Len(q)
      BY <1>1, <1>4, <1>5, <1>8, <2>2
    <3>. QED  BY <1>3, <3>1
  <2>3. CASE (i \in 1..Len(q)) # (j \in 1..Len(q))
    BY <1>3, <1>6, <1>8, <2>3
  <2>. QED  BY <2>1, <2>2, <2>3
<1>9. Len(q) =< Len(r)
  <2>1. Len(F) \in Nat
    BY <1>1
  <2>. QED  BY <1>3, <2>1
<1>10. \A i, j \in 1..Len(r) : r[i] = r[j] => i = j
  BY <1>8
<1>. QED  BY <1>3, <1>6, <1>7, <1>9, <1>10

LEMMA TakenNext ==
  ASSUME NEW q \in Seq(Steps), NEW r \in Seq(Steps), Len(q) =< Len(r),
         \A i \in 1..Len(q) : r[i] = q[i], NEW n \in 1..Len(q)
  PROVE  /\ Taken(r, n) = Taken(q, n - 1) \cup {q[n]}
         /\ Taken(r, n) \subseteq Steps
<1>1. Len(q) \in Nat /\ Len(r) \in Nat
  OBVIOUS
<1>2. /\ {j \in 1..Len(r) : j =< n} = 1..n
      /\ {j \in 1..Len(q) : j =< n - 1} = 1..(n - 1)
      /\ \A i \in 1..n : i \in 1..Len(q) /\ (i = n \/ i \in 1..(n - 1))
      /\ \A i \in 1..(n - 1) : i \in 1..n
      /\ n \in 1..n
  BY <1>1
<1>3. Taken(r, n) = {r[i] : i \in 1..n} /\ Taken(q, n - 1) = {q[i] : i \in 1..(n - 1)}
  BY <1>2 DEF Taken
<1>4. \A i \in 1..n : r[i] = q[i] /\ q[i] \in Steps
  BY <1>2
<1>. QED  BY <1>2, <1>3, <1>4, SMTT(30)

LEMMA TakeNextKahn ==
  ASSUME NEW g \in Dependencies, NEW k, NEW n \in 1..Len(k.queue), Kahn(g, n - 1, k)
  PROVE  Kahn(g, n, TakeNext(g, n, k))
<1>. DEFINE q == k.queue
            id == q[n]
            w == [s \in Steps |-> k.waits[s] - (IF id \in g[s] THEN 1 ELSE 0)]
            freed == {s \in Steps : id \in g[s] /\ w[s] = 0}
            r == q \o FileOrder(freed)
            level == [s \in Steps |-> IF s \in freed THEN k.level[id] + 1 ELSE k.level[s]]
            T == Taken(q, n - 1)
            kk == [queue |-> r, waits |-> w, level |-> level]
<1>1. TakeNext(g, n, k) = kk
  BY DEF TakeNext
<1>2. /\ q \in Seq(Steps) /\ Len(q) \in Nat /\ n \in Nat /\ id \in Steps
      /\ k.waits \in [Steps -> Int] /\ k.level \in [Steps -> Nat]
      /\ QueueRight(g, n - 1, q) /\ WaitsRight(g, n - 1, k)
      /\ LevelsGrow(n - 1, q, k.level)
      /\ \A i \in 1..Len(q) : OneAbove(g, q[i], k.level)
  BY DEF Kahn, KahnStates
<1>3. id \notin T
  BY <1>2 DEF QueueRight, Taken
<1>4. \A s \in Steps : w[s] = Cardinality(g[s] \ (T \cup {id}))
  <2>. SUFFICES ASSUME NEW s \in Steps
                PROVE  w[s] = Cardinality(g[s] \ (T \cup {id}))
    OBVIOUS
  <2>1. k.waits[s] = Cardinality(g[s] \ T)
    BY <1>2 DEF WaitsRight
  <2>2. g[s] \ (T \cup {id}) = (g[s] \ T) \ {id}
    OBVIOUS
  <2>3. id \in g[s] \ T <=> id \in g[s]
    BY <1>3
  <2>. HIDE DEF T, id
  <2>4. Cardinality((g[s] \ T) \ {id}) =
          IF id \in g[s] \ T THEN Cardinality(g[s] \ T) - 1 ELSE Cardinality(g[s] \ T)
    BY WaitsFinite, FS_RemoveElement
  <2>5. Cardinality(g[s] \ T) \in Nat
    BY WaitsFinite, FS_CardinalityType
  <2>6. w[s] = k.waits[s] - (IF id \in g[s] THEN 1 ELSE 0)
    OBVIOUS
  <2>7. Cardinality(g[s] \ (T \cup {id})) = Cardinality((g[s] \ T) \ {id})
    BY <2>2
  <2>. HIDE DEF w
  <2>8. CASE id \in g[s]
    BY <2>1, <2>3, <2>4, <2>5, <2>6, <2>7, <2>8
  <2>9. CASE id \notin g[s]
    BY <2>1, <2>3, <2>4, <2>5, <2>6, <2>7, <2>9
  <2>. QED  BY <2>8, <2>9
<1>5. w \in [Steps -> Int]
  BY <1>2
<1>6. \A s \in Steps : s \in freed <=> id \in g[s] /\ g[s] \subseteq T \cup {id}
  <2>. HIDE DEF w, T, id
  <2>1. ASSUME NEW s \in Steps
        PROVE  w[s] = 0 <=> g[s] \subseteq T \cup {id}
    <3>1. IsFiniteSet(g[s] \ (T \cup {id}))
      BY WaitsFinite
    <3>2. w[s] = 0 <=> g[s] \ (T \cup {id}) = {}
      BY <1>4, <3>1, FS_EmptySet
    <3>. QED  BY <3>2
  <2>. QED  BY <2>1
<1>7. \A i \in 1..Len(q) : q[i] \notin freed
  <2>1. ASSUME NEW i \in 1..Len(q) PROVE q[i] \in Steps /\ g[q[i]] \subseteq T
    <3>. HIDE DEF q, T
    <3>1. q[i] \in Steps
      BY <1>2
    <3>. QED  BY <1>2, <3>1 DEF QueueRight, T
  <2>. HIDE DEF freed, T, id, q
  <2>. QED  BY <1>3, <1>6, <2>1
<1>. HIDE DEF freed, w
<1>8. /\ r \in Seq(Steps) /\ Len(q) =< Len(r)
      /\ \A i \in 1..Len(q) : r[i] = q[i]
      /\ \A i \in 1..Len(r) : i \notin 1..Len(q) => r[i] \in freed
      /\ \A s \in freed : \E i \in 1..Len(r) : r[i] = s
      /\ \A i, j \in 1..Len(r) : r[i] = r[j] => i = j
  <2>1. freed \in SUBSET Steps
    BY DEF freed
  <2>2. \A i, j \in 1..Len(q) : q[i] = q[j] => i = j
    BY <1>2 DEF QueueRight
  <2>. HIDE DEF q, r
  <2>. QED  BY <1>2, <1>7, <2>1, <2>2, QueueGains DEF r
<1>. HIDE DEF r
<1>9. Taken(r, n) = T \cup {id} /\ Taken(r, n) \subseteq Steps
  BY <1>2, <1>8, TakenNext
<1>10. QueueRight(g, n, r)
  <2>1. ASSUME NEW s \in Steps
        PROVE  (\E i \in 1..Len(r) : r[i] = s) <=> g[s] \subseteq T \cup {id}
    <3>1. (\E i \in 1..Len(q) : q[i] = s) <=> g[s] \subseteq T
      BY <1>2 DEF QueueRight
    <3>2. (\E i \in 1..Len(r) : r[i] = s) <=> (\E i \in 1..Len(q) : q[i] = s) \/ s \in freed
      <4>1. \A i \in 1..Len(q) : i \in 1..Len(r)
        BY <1>2, <1>8
      <4>. HIDE DEF q
      <4>. QED  BY <1>8, <4>1
    <3>. HIDE DEF T, q, id
    <3>. QED  BY <1>6, <3>1, <3>2
  <2>. QED  BY <1>8, <1>9, <2>1 DEF QueueRight
<1>11. WaitsRight(g, n, kk)
  BY <1>4, <1>9 DEF WaitsRight
<1>. DEFINE h == k.level[id]
<1>12. /\ level \in [Steps -> Nat] /\ h \in Nat
       /\ \A s \in Steps : s \notin freed => level[s] = k.level[s]
       /\ \A s \in freed : s \in Steps /\ level[s] = h + 1
  BY <1>2, SMTT(30) DEF freed
<1>13. \A i \in 1..Len(q) : /\ q[i] \in Steps
                             /\ level[q[i]] = k.level[q[i]]
                             /\ k.level[q[i]] \in Nat
  BY <1>2, <1>7, <1>12
<1>14. /\ h =< n - 1
       /\ \A i \in 1..Len(q) : i =< n => k.level[q[i]] =< h
       /\ \A i \in 1..Len(q) : n =< i => h =< k.level[q[i]]
       /\ \A i \in 1..Len(q) : k.level[q[i]] =< h + 1
  BY <1>2, SMTT(30) DEF LevelsGrow
<1>15. \A i \in 1..Len(r) :
         \/ i \in 1..Len(q) /\ r[i] = q[i] /\ level[r[i]] = k.level[q[i]]
         \/ i \notin 1..Len(q) /\ level[r[i]] = h + 1
  BY <1>8, <1>12, <1>13
<1>16. LevelsGrow(n, r, level)
  <2>1. \A s \in Steps : level[s] =< n
    <3>1. \A s \in Steps : k.level[s] \in Nat /\ k.level[s] =< n - 1
      BY <1>2 DEF LevelsGrow
    <3>. HIDE DEF level, h
    <3>2. h + 1 =< n /\ \A s \in Steps : k.level[s] =< n
      BY <1>2, <1>12, <1>14, <3>1
    <3>. QED  BY <1>12, <3>2
  <2>2. ASSUME NEW i \in 1..Len(r), NEW j \in 1..Len(r), i =< j
        PROVE  level[r[i]] =< level[r[j]]
    <3>1. CASE i \in 1..Len(q) /\ j \in 1..Len(q)
      <4>1. k.level[q[i]] =< k.level[q[j]]
        BY <1>2, <2>2, <3>1 DEF LevelsGrow
      <4>. QED  BY <1>8, <1>13, <3>1, <4>1
    <3>2. CASE i \in 1..Len(q) /\ j \notin 1..Len(q)
      <4>1. level[r[i]] = k.level[q[i]] /\ k.level[q[i]] =< h + 1 /\ level[r[j]] = h + 1
        BY <1>14, <1>15, <3>2
      <4>. QED  BY <4>1
    <3>3. CASE i \notin 1..Len(q)
      <4>1. j \notin 1..Len(q)
        BY <1>2, <1>8, <2>2, <3>3
      <4>2. level[r[i]] = h + 1 /\ level[r[j]] = h + 1
        BY <1>15, <3>3, <4>1
      <4>. QED  BY <1>12, <4>2
    <3>. QED  BY <3>1, <3>2, <3>3
  <2>3. ASSUME NEW i \in 1..Len(r), NEW j \in 1..Len(r), n =< i
        PROVE  level[r[j]] =< level[r[i]] + 1
    <3>. HIDE DEF h, level, q
    <3>1. level[r[j]] \in Nat /\ level[r[j]] =< h + 1
      <4>1. CASE j \in 1..Len(q)
        BY <1>13, <1>14, <1>15, <4>1
      <4>2. CASE j \notin 1..Len(q)
        BY <1>12, <1>15, <4>2
      <4>. QED  BY <4>1, <4>2
    <3>2. level[r[i]] \in Nat /\ h =< level[r[i]]
      <4>1. CASE i \in 1..Len(q)
        BY <1>13, <1>14, <1>15, <2>3, <4>1
      <4>2. CASE i \notin 1..Len(q)
        BY <1>12, <1>15, <4>2
      <4>. QED  BY <4>1, <4>2
    <3>. QED  BY <1>12, <3>1, <3>2
  <2>. QED  BY <2>1, <2>2, <2>3 DEF LevelsGrow
<1>17. ASSUME NEW i \in 1..Len(r)
       PROVE  OneAbove(g, r[i], level)
  <2>1. CASE i \in 1..Len(q)
    <3>. DEFINE s == q[i]
    <3>1. s \in Steps /\ g[s] \subseteq T /\ OneAbove(g, s, k.level)
      BY <1>2, <1>13, <2>1 DEF QueueRight
    <3>2. \A d \in T : level[d] = k.level[d]
      BY <1>13 DEF Taken
    <3>3. level[s] = k.level[s] /\ r[i] = s
      BY <1>8, <1>13, <2>1
    <3>. HIDE DEF s, T, level
    <3>. QED  BY <3>1, <3>2, <3>3 DEF OneAbove
  <2>2. CASE i \notin 1..Len(q)
    <3>. DEFINE s == r[i]
    <3>1. s \in freed /\ s \in Steps /\ level[s] = h + 1
      BY <1>8, <1>12, <2>2
    <3>2. id \in g[s] /\ g[s] \subseteq T \cup {id}
      BY <1>6, <3>1
    <3>3. level[id] = h
      BY <1>13
    <3>4. ASSUME NEW d \in g[s] PROVE level[d] < level[s]
      <4>1. PICK j \in 1..Len(q) : j =< n /\ d = q[j]
        <5>1. CASE d = id
          BY <1>2, <5>1
        <5>2. CASE d \in T
          BY <1>2, <5>2 DEF Taken
        <5>. QED  BY <3>2, <5>1, <5>2
      <4>2. level[d] \in Nat /\ level[d] =< h
        BY <1>13, <1>14, <4>1
      <4>. HIDE DEF s, h, level
      <4>. QED  BY <1>12, <3>1, <4>2
    <3>. HIDE DEF s, h, level, id
    <3>. QED  BY <3>1, <3>2, <3>3, <3>4 DEF OneAbove, s
  <2>. QED  BY <2>1, <2>2
<1>18. ASSUME NEW s \in Steps, ~(g[s] \subseteq Taken(r, n)) PROVE level[s] = 0
  <2>1. s \notin freed /\ ~(g[s] \subseteq T)
    BY <1>6, <1>9, <1>18
  <2>2. k.level[s] = 0
    BY <2>1 DEF Kahn
  <2>. QED  BY <1>12, <2>1, <2>2
<1>19. kk \in KahnStates
  BY <1>5, <1>8, <1>12 DEF KahnStates
<1>. HIDE DEF level
<1>20. kk.queue = r /\ kk.waits = w /\ kk.level = level
  OBVIOUS
<1>. QED  BY <1>1, <1>10, <1>11, <1>16, <1>17, <1>19, <1>20, <1>18 DEF Kahn

(* A turn after the queue is empty changes nothing.                        *)
LEMMA TurnKahn ==
  ASSUME NEW g \in Dependencies, NEW k, NEW n \in 1..Len(StepOrder), Kahn(g, n - 1, k)
  PROVE  Kahn(g, n, Turn(g, n, k))
<1>1. n \in Nat /\ n > 0 /\ k.queue \in Seq(Steps) /\ Len(k.queue) \in Nat
  BY Numbers DEF Kahn, KahnStates
<1>2. CASE n > Len(k.queue)
  <2>. DEFINE q == k.queue
  <2>1. Taken(q, n) = Taken(q, n - 1)
    <3>1. {j \in 1..Len(q) : j =< n} = {j \in 1..Len(q) : j =< n - 1}
      BY <1>1, <1>2
    <3>. QED  BY <3>1 DEF Taken
  <2>2. QueueRight(g, n, q) /\ WaitsRight(g, n, k)
    BY <2>1 DEF Kahn, QueueRight, WaitsRight
  <2>3. LevelsGrow(n, q, k.level)
    <3>1. \A i \in 1..Len(q) : ~(n =< i)
      BY <1>1, <1>2
    <3>2. \A s \in Steps : k.level[s] \in Nat /\ k.level[s] =< n - 1
      BY DEF Kahn, KahnStates, LevelsGrow
    <3>3. \A s \in Steps : k.level[s] =< n
      BY <1>1, <3>2
    <3>. QED  BY <3>1, <3>3 DEF Kahn, LevelsGrow
  <2>4. Turn(g, n, k) = k
    BY <1>2 DEF Turn
  <2>. QED  BY <2>1, <2>2, <2>3, <2>4 DEF Kahn
<1>3. CASE ~(n > Len(k.queue))
  <2>1. n \in 1..Len(k.queue)
    BY <1>1, <1>3
  <2>2. Turn(g, n, k) = TakeNext(g, n, k)
    BY <1>3 DEF Turn
  <2>. QED  BY <2>1, <2>2, TakeNextKahn
<1>. QED  BY <1>2, <1>3

LEMMA TurnStays ==
  ASSUME NEW g, NEW n \in 1..Len(StepOrder), NEW k \in KahnStates
  PROVE  Turn(g, n, k) \in KahnStates
<1>. DEFINE id == k.queue[n]
            w == [s \in Steps |-> k.waits[s] - (IF id \in g[s] THEN 1 ELSE 0)]
            freed == {s \in Steps : id \in g[s] /\ w[s] = 0}
            r == k.queue \o FileOrder(freed)
            level == [s \in Steps |-> IF s \in freed THEN k.level[id] + 1 ELSE k.level[s]]
<1>1. CASE n > Len(k.queue)
  BY <1>1 DEF Turn
<1>2. CASE ~(n > Len(k.queue))
  <2>1. /\ k.queue \in Seq(Steps) /\ Len(k.queue) \in Nat /\ n \in Nat /\ n > 0
        /\ k.waits \in [Steps -> Int] /\ k.level \in [Steps -> Nat]
    BY Numbers DEF KahnStates
  <2>2. n \in 1..Len(k.queue)
    BY <1>2, <2>1
  <2>3. id \in Steps
    BY <2>1, <2>2
  <2>4. w \in [Steps -> Int]
    BY <2>1
  <2>5. r \in Seq(Steps)
    <3>1. FileOrder(freed) \in Seq(Steps)
      <4>. HIDE DEF freed
      <4>. QED  BY FileOrderLists DEF Lists
    <3>. HIDE DEF freed
    <3>. QED  BY <2>1, <3>1
  <2>6. level \in [Steps -> Nat]
    <3>. HIDE DEF freed
    <3>. QED  BY <2>1, <2>3
  <2>7. Turn(g, n, k) = [queue |-> r, waits |-> w, level |-> level]
    BY <1>2 DEF Turn, TakeNext
  <2>. HIDE DEF r, w, level
  <2>. QED  BY <2>4, <2>5, <2>6, <2>7 DEF KahnStates
<1>. QED  BY <1>1, <1>2

(* The levels are those of a state Kahn's queue is in after all its turns. *)
LEMMA LevelsFromKahn ==
  ASSUME NEW g \in Dependencies
  PROVE  \E k : Kahn(g, Len(StepOrder), k) /\ ComputeLevels(g) = k.level
<1>. DEFINE N == Len(StepOrder)
            first == Filled(g)
            Runs(f) == f = [n \in 0..N |-> IF n = 0 THEN first ELSE Turn(g, n, f[n - 1])]
            kahn == CHOOSE f : Runs(f)
            step == [p \in (1..N) \X KahnStates |-> Turn(g, p[1], p[2])]
<1>1. ComputeLevels(g) = kahn[N].level
  BY DEF ComputeLevels
<1>2. N \in Nat
  BY Numbers
<1>3. Runs(kahn)
  <2>1. StaysIn(KahnStates, N, step)
    <3>1. \A n \in 1..N, k \in KahnStates : Turn(g, n, k) \in KahnStates
      BY TurnStays
    <3>. QED  BY <3>1 DEF StaysIn
  <2>2. first \in KahnStates
    BY FilledKahn DEF Kahn
  <2>3. PICK f \in Follows(KahnStates, N, first, step) : TRUE
    <3>. HIDE DEF N, first, step
    <3>. QED  BY <1>2, <2>1, <2>2, Recursion
  <2>4. /\ f \in [0..N -> KahnStates] /\ f[0] = first
        /\ \A n \in 1..N : f[n] = step[<<n, f[n - 1]>>]
    BY DEF Follows
  <2>5. ASSUME NEW n \in 1..N PROVE f[n] = Turn(g, n, f[n - 1])
    <3>1. f[n - 1] \in KahnStates
      <4>1. n - 1 \in 0..N
        BY <1>2
      <4>. QED  BY <2>4, <4>1
    <3>2. f[n] = step[<<n, f[n - 1]>>]
      BY <2>4
    <3>. QED  BY <3>1, <3>2
  <2>6. Runs(f)
    <3>. HIDE DEF step, first
    <3>1. \A n \in 0..N : n # 0 => n \in 1..N
      BY <1>2
    <3>. QED  BY <2>4, <2>5, <3>1
  <2>. HIDE DEF Runs
  <2>. QED  BY <2>6
<1>4. /\ kahn[0] = first
      /\ \A n \in 1..N : kahn[n] = Turn(g, n, kahn[n - 1])
  <2>. HIDE DEF kahn, first
  <2>2. 0 \in 0..N /\ \A n \in 1..N : n \in 0..N /\ n # 0
    BY <1>2
  <2>. QED  BY <1>3, <2>2
<1>. HIDE DEF kahn
<1>. DEFINE G == {n \in 0..N : Kahn(g, n, kahn[n])}
<1>5. 0 \in G
  BY <1>2, <1>4, FilledKahn
<1>6. ASSUME NEW n \in 1..N, n - 1 \in G PROVE n \in G
  <2>1. Kahn(g, n, Turn(g, n, kahn[n - 1]))
    BY <1>6, TurnKahn
  <2>. QED  BY <1>2, <1>4, <2>1
<1>7. N \in G
  <2>. HIDE DEF G, N
  <2>. QED  BY <1>2, <1>5, <1>6, UpTo
<1>. QED  BY <1>1, <1>7

(* In a valid graph every step enters the queue: those that did not would  *)
(* each wait for one of them.                                              *)
LEMMA AllEnter ==
  ASSUME NEW g \in Dependencies, NEW k, Kahn(g, Len(StepOrder), k), ValidGraph(g)
  PROVE  \A s \in Steps : \E i \in 1..Len(k.queue) : k.queue[i] = s
<1>. DEFINE N == Len(StepOrder)
            q == k.queue
            U == {s \in Steps : \A i \in 1..Len(q) : q[i] # s}
<1>1. /\ q \in Seq(Steps) /\ Len(q) \in Nat /\ DOMAIN q = 1..Len(q) /\ N \in Nat
      /\ \A i, j \in 1..Len(q) : q[i] = q[j] => i = j
      /\ \A s \in Steps : (\E i \in 1..Len(q) : q[i] = s) <=> g[s] \subseteq Taken(q, N)
  <2>1. q \in Seq(Steps) /\ N \in Nat
    BY Numbers DEF Kahn, KahnStates
  <2>2. QueueRight(g, N, q)
    BY DEF Kahn
  <2>3. Len(q) \in Nat /\ DOMAIN q = 1..Len(q)
    BY <2>1
  <2>4. \A i, j \in 1..Len(q) : q[i] = q[j] => i = j
    BY <2>2 DEF QueueRight
  <2>5. \A s \in Steps : (\E i \in 1..Len(q) : q[i] = s) <=> g[s] \subseteq Taken(q, N)
    BY <2>2 DEF QueueRight
  <2>. HIDE DEF q, N
  <2>. QED  BY <2>1, <2>3, <2>4, <2>5
<1>2. Len(q) =< N
  <2>1. q \in Injection(1..Len(q), Steps)
    <3>. HIDE DEF q
    <3>. QED  BY <1>1 DEF Injection, IsInjective
  <2>2. Cardinality(1..Len(q)) = Len(q)
    BY <1>1, FS_Interval, SMTT(30)
  <2>3. Cardinality(1..Len(q)) =< Cardinality(Steps) /\ Cardinality(Steps) \in Nat
    <3>. HIDE DEF q
    <3>. QED  BY <2>1, StepsFinite, FS_Injection, FS_CardinalityType
  <2>. HIDE DEF q
  <2>. QED  BY <1>1, <2>2, <2>3, StepsFinite
<1>3. ASSUME NEW s \in U PROVE g[s] \cap U # {}
  <2>1. ~(g[s] \subseteq Taken(q, N))
    BY <1>1, <1>3
  <2>2. PICK d \in g[s] : d \notin Taken(q, N)
    BY <2>1
  <2>3. d \in Steps
    BY <1>3 DEF ValidGraph, Missing
  <2>4. \A i \in 1..Len(q) : q[i] # d
    <3>1. \A i \in 1..Len(q) : i =< N
      BY <1>1, <1>2
    <3>. QED  BY <2>2, <3>1 DEF Taken
  <2>. QED  BY <2>2, <2>3, <2>4
<1>4. U = {}
  <2>. HIDE DEF U
  <2>1. U \in SUBSET Steps
    BY DEF U
  <2>. QED  BY <1>3, <2>1 DEF ValidGraph, Cyclic
<1>. QED  BY <1>4

LEMMA LevelsRight ==
  ASSUME NEW g \in Dependencies
  PROVE  /\ ComputeLevels(g) \in [Steps -> Nat]
         /\ \A s \in Steps : ComputeLevels(g)[s] =< Len(StepOrder)
         /\ ValidGraph(g) => \A s \in Steps : OneAbove(g, s, ComputeLevels(g))
<1>1. PICK k : Kahn(g, Len(StepOrder), k) /\ ComputeLevels(g) = k.level
  BY LevelsFromKahn
<1>2. k.level \in [Steps -> Nat] /\ \A s \in Steps : k.level[s] =< Len(StepOrder)
  BY <1>1 DEF Kahn, KahnStates, LevelsGrow
<1>3. ASSUME ValidGraph(g), NEW s \in Steps PROVE OneAbove(g, s, k.level)
  <2>1. PICK i \in 1..Len(k.queue) : k.queue[i] = s
    BY <1>1, <1>3, AllEnter
  <2>. QED  BY <1>1, <2>1 DEF Kahn
<1>. QED  BY <1>1, <1>2, <1>3

(* A bounded set of numbers has a greatest one.                            *)
LEMMA Greatest ==
  ASSUME NEW S \in SUBSET Nat, S # {}, NEW b \in Nat, \A x \in S : x =< b
  PROVE  Max(S) \in S /\ \A x \in S : x =< Max(S)
<1>. DEFINE B == {m \in Nat : \A x \in S : x =< m}
<1>1. PICK m \in B : \A l \in B : m =< l
  <2>1. B \in SUBSET Nat /\ b \in B
    OBVIOUS
  <2>. HIDE DEF B
  <2>. QED  BY <2>1, LeastNumber
<1>2. m \in S
  <2>1. m \in Nat /\ \A x \in S : x \in Nat /\ x =< m
    OBVIOUS
  <2>2. ASSUME m \notin S PROVE FALSE
    <3>1. \A x \in S : x =< m - 1
      BY <2>1, <2>2
    <3>2. m - 1 \in Nat
      <4>1. PICK x \in S : x \in Nat /\ x =< m - 1
        BY <2>1, <3>1
      <4>. QED  BY <2>1, <4>1
    <3>3. m - 1 \in B
      BY <3>1, <3>2
    <3>. QED  BY <1>1, <2>1, <3>3
  <2>. QED  BY <2>2
<1>3. \E x \in S : \A y \in S : x >= y
  BY <1>2
<1>. HIDE DEF B
<1>. DEFINE M == CHOOSE x \in S : \A y \in S : x >= y
<1>4. M \in S /\ \A y \in S : M >= y
  BY <1>3
<1>5. Max(S) = M
  BY DEF Max
<1>. HIDE DEF M
<1>. QED  BY <1>4, <1>5

(* groupByLevel: no group is missed, every step is in the one of its level *)
LEMMA Groups ==
  ASSUME NEW g \in Dependencies
  PROVE  /\ GroupByLevel(g) \in Seq(SUBSET Steps) /\ GroupByLevel(g) # <<>>
         /\ DOMAIN GroupByLevel(g) \subseteq Nat \ {0}
         /\ \A s \in Steps : /\ ComputeLevels(g)[s] + 1 \in DOMAIN GroupByLevel(g)
                             /\ s \in GroupByLevel(g)[ComputeLevels(g)[s] + 1]
         /\ \A i \in DOMAIN GroupByLevel(g) :
              GroupByLevel(g)[i] = {s \in Steps : ComputeLevels(g)[s] = i - 1}
<1>. DEFINE L == ComputeLevels(g)
            S == {L[s] : s \in Steps}
            G == [l \in 1..(1 + Max(S)) |-> {s \in Steps : L[s] = l - 1}]
<1>1. L \in [Steps -> Nat] /\ \A s \in Steps : L[s] =< Len(StepOrder)
  BY LevelsRight
<1>2. GroupByLevel(g) = G
  BY DEF GroupByLevel
<1>. HIDE DEF L
<1>3. S \in SUBSET Nat /\ S # {} /\ \A x \in S : x =< Len(StepOrder)
  <2>1. StepOrder[1] \in Steps
    BY Numbers
  <2>. QED  BY <1>1, <2>1
<1>4. \A s \in Steps : L[s] \in S
  OBVIOUS
<1>. HIDE DEF S
<1>5. Max(S) \in Nat /\ \A x \in S : x =< Max(S)
  BY <1>3, Greatest, Numbers
<1>6. G \in Seq(SUBSET Steps) /\ Len(G) = 1 + Max(S) /\ DOMAIN G = 1..(1 + Max(S))
  <2>1. G \in [1..(1 + Max(S)) -> SUBSET Steps]
    OBVIOUS
  <2>. QED  BY <1>5, <2>1
<1>7. \A i \in DOMAIN G : G[i] = {s \in Steps : L[s] = i - 1}
  OBVIOUS
<1>. HIDE DEF G
<1>8. ASSUME NEW s \in Steps PROVE L[s] + 1 \in DOMAIN G /\ s \in G[L[s] + 1]
  <2>1. L[s] \in Nat /\ L[s] =< Max(S)
    BY <1>1, <1>4, <1>5
  <2>2. L[s] + 1 \in DOMAIN G
    BY <1>5, <1>6, <2>1
  <2>. QED  BY <1>7, <2>1, <2>2
<1>9. G # <<>> /\ DOMAIN G \subseteq Nat \ {0}
  BY <1>5, <1>6
<1>. QED  BY <1>2, <1>6, <1>7, <1>8, <1>9 DEF L

(* What the levels of a valid graph promise.                               *)
LEMMA GroupsTight ==
  ASSUME NEW g \in Dependencies, ValidGraph(g),
         NEW i \in DOMAIN GroupByLevel(g), NEW s \in GroupByLevel(g)[i]
  PROVE  /\ \A d \in g[s] : \E j \in 1..(i - 1) :
              j \in DOMAIN GroupByLevel(g) /\ d \in GroupByLevel(g)[j]
         /\ i > 1 => \E d \in g[s] : d \in GroupByLevel(g)[i - 1]
<1>. DEFINE L == ComputeLevels(g)
            G == GroupByLevel(g)
<1>1. s \in Steps /\ L[s] = i - 1 /\ i \in Nat /\ i > 0 /\ L \in [Steps -> Nat]
  BY Groups, LevelsRight
<1>2. OneAbove(g, s, L) /\ g[s] \subseteq Steps
  BY <1>1, LevelsRight DEF ValidGraph, Missing
<1>3. \A d \in Steps : L[d] + 1 \in DOMAIN G /\ d \in G[L[d] + 1] /\ L[d] \in Nat
  BY <1>1, Groups
<1>. HIDE DEF L, G
<1>4. ASSUME NEW d \in g[s]
      PROVE  \E j \in 1..(i - 1) : j \in DOMAIN G /\ d \in G[j]
  <2>1. d \in Steps /\ L[d] < L[s]
    BY <1>2 DEF OneAbove
  <2>2. L[d] + 1 \in 1..(i - 1)
    BY <1>1, <1>3, <2>1
  <2>. QED  BY <1>3, <2>1, <2>2
<1>5. ASSUME i > 1 PROVE \E d \in g[s] : d \in G[i - 1]
  <2>1. g[s] # {}
    BY <1>1, <1>2, <1>5 DEF OneAbove
  <2>2. PICK d \in g[s] : L[s] = L[d] + 1
    BY <1>2, <2>1 DEF OneAbove
  <2>3. L[d] + 1 = i - 1
    BY <1>1, <2>2
  <2>. QED  BY <1>2, <1>3, <2>2, <2>3
<1>. QED  BY <1>4, <1>5 DEF G

(* There is one tight levelling of a valid graph only: neither the order   *)
(* of the steps in the file nor the order of the queue makes a difference. *)
THEOREM LevelsUnique ==
  ASSUME NEW g \in Dependencies, ValidGraph(g), NEW L \in [Steps -> Nat],
         \A s \in Steps : OneAbove(g, s, L)
  PROVE  L = ComputeLevels(g)
<1>. DEFINE K == ComputeLevels(g)
            T == {L[s] : s \in {t \in Steps : L[t] # K[t]}}
<1>1. K \in [Steps -> Nat] /\ \A s \in Steps : OneAbove(g, s, K)
  BY LevelsRight
<1>. HIDE DEF K
<1>2. T = {}
  <2>. SUFFICES ASSUME T # {} PROVE FALSE
    OBVIOUS
  <2>1. PICK m \in T : \A l \in T : m =< l
    <3>1. T \in SUBSET Nat
      OBVIOUS
    <3>. HIDE DEF T
    <3>. QED  BY <3>1, LeastNumber
  <2>2. PICK s \in Steps : m = L[s] /\ L[s] # K[s]
    OBVIOUS
  <2>3. \A d \in g[s] : d \in Steps /\ L[d] = K[d]
    <3>. SUFFICES ASSUME NEW d \in g[s] PROVE d \in Steps /\ L[d] = K[d]
      OBVIOUS
    <3>1. d \in Steps /\ L[d] < L[s]
      BY DEF ValidGraph, Missing, OneAbove
    <3>2. L[d] # K[d] => L[d] \in T
      BY <3>1
    <3>. HIDE DEF T
    <3>. QED  BY <2>1, <2>2, <3>1, <3>2
  <2>. HIDE DEF T
  <2>4. OneAbove(g, s, L) /\ OneAbove(g, s, K) /\ L[s] \in Nat /\ K[s] \in Nat
    BY <1>1
  <2>5. \A d \in g[s] : L[d] \in Nat /\ K[d] \in Nat
    BY <1>1, <2>3
  <2>. QED  BY <2>2, <2>3, <2>4, <2>5 DEF OneAbove
<1>3. \A s \in Steps : L[s] = K[s]
  BY <1>2
<1>. QED  BY <1>1, <1>3 DEF K

(* A step on a cycle, behind one or behind a name that is no step is never *)
(* reached by the queue: it keeps level 0 and runs in the first batch,     *)
(* beside the steps that wait for nothing.                                 *)
THEOREM UnreachedRunFirst ==
  ASSUME NEW g \in Dependencies, NEW C \in SUBSET Steps,
         \A s \in C : g[s] \cap (C \cup ({Ghost} \ Steps)) # {}
  PROVE  \A s \in C : ComputeLevels(g)[s] = 0 /\ s \in GroupByLevel(g)[1]
<1>1. PICK k : Kahn(g, Len(StepOrder), k) /\ ComputeLevels(g) = k.level
  BY LevelsFromKahn
<1>. DEFINE q == k.queue
            L == k.level
            N == Len(StepOrder)
            T == {L[s] : s \in {t \in C : g[t] \subseteq Taken(q, N)}}
<1>2. /\ q \in Seq(Steps) /\ L \in [Steps -> Nat]
      /\ \A s \in Steps : (\E i \in 1..Len(q) : q[i] = s) <=> g[s] \subseteq Taken(q, N)
      /\ \A i \in 1..Len(q) : OneAbove(g, q[i], L)
  BY <1>1 DEF Kahn, KahnStates, QueueRight
<1>3. T = {}
  <2>. SUFFICES ASSUME T # {} PROVE FALSE
    OBVIOUS
  <2>1. PICK m \in T : \A l \in T : m =< l
    <3>1. T \in SUBSET Nat
      BY <1>2
    <3>. HIDE DEF T
    <3>. QED  BY <3>1, LeastNumber
  <2>2. PICK s \in C : m = L[s] /\ g[s] \subseteq Taken(q, N)
    OBVIOUS
  <2>3. PICK d \in g[s] : d \in C \cup ({Ghost} \ Steps)
    OBVIOUS
  <2>4. PICK i \in 1..Len(q) : q[i] = d
    BY <2>2 DEF Taken
  <2>5. d \in Steps /\ d \in C
    BY <1>2, <2>3, <2>4
  <2>6. g[d] \subseteq Taken(q, N)
    BY <1>2, <2>4, <2>5
  <2>7. L[d] \in T
    BY <2>5, <2>6
  <2>8. OneAbove(g, s, L)
    <3>1. PICK j \in 1..Len(q) : q[j] = s
      BY <1>2, <2>2
    <3>. QED  BY <1>2, <3>1
  <2>9. L[d] < L[s] /\ L[d] \in Nat /\ L[s] \in Nat
    BY <1>2, <2>5, <2>8 DEF OneAbove
  <2>. HIDE DEF T
  <2>. QED  BY <2>1, <2>2, <2>7, <2>9
<1>4. ASSUME NEW s \in C PROVE L[s] = 0
  <2>1. ASSUME g[s] \subseteq Taken(q, N) PROVE FALSE
    <3>1. L[s] \in T
      BY <2>1
    <3>. HIDE DEF T
    <3>. QED  BY <3>1, <1>3
  <2>. QED  BY <1>1, <2>1 DEF Kahn
<1>5. ASSUME NEW s \in C PROVE s \in GroupByLevel(g)[1]
  <2>1. ComputeLevels(g)[s] + 1 = 1
    BY <1>1, <1>4
  <2>2. s \in GroupByLevel(g)[ComputeLevels(g)[s] + 1]
    BY Groups
  <2>. QED  BY <2>1, <2>2
<1>. QED  BY <1>1, <1>4, <1>5

----------------------------------------------------------------------------
(* The order of the steps *)

(* What the batches of a run promise: every step is in one of them, none   *)
(* in two, the steps it waits for are in earlier ones, and a run in file   *)
(* order has one step in each.                                             *)
BatchesSound(B) ==
  /\ B \in Seq(SUBSET Steps) /\ Len(B) > 0
  /\ \A s \in Steps : \E i \in 1..Len(B) : s \in B[i]
  /\ \A i, j \in 1..Len(B) : i # j => B[i] \cap B[j] = {}
  /\ request.dag /\ ValidGraph(deps) =>
       \A i \in 1..Len(B) : \A s \in B[i] :
         \A d \in deps[s] : \E j \in 1..(i - 1) : d \in B[j]
  /\ ~request.dag => \A i \in 1..Len(B) : \A s, t \in B[i] : s = t

LEMMA FileOrderSound ==
  /\ InFileOrder \in Seq(SUBSET Steps) /\ Len(InFileOrder) > 0
  /\ \A s \in Steps : \E i \in 1..Len(InFileOrder) : s \in InFileOrder[i]
  /\ \A i, j \in 1..Len(InFileOrder) : i # j => InFileOrder[i] \cap InFileOrder[j] = {}
  /\ \A i \in 1..Len(InFileOrder) : \A s, t \in InFileOrder[i] : s = t
<1>1. Len(StepOrder) \in Nat /\ Len(StepOrder) > 0
      /\ DOMAIN StepOrder = 1..Len(StepOrder)
  BY StepsAssumption
<1>2. InFileOrder \in Seq(SUBSET Steps) /\ Len(InFileOrder) = Len(StepOrder)
  <2>1. \A i \in 1..Len(StepOrder) : StepOrder[i] \in Steps
    BY DEF Steps
  <2>2. InFileOrder \in [1..Len(StepOrder) -> SUBSET Steps]
    BY <2>1 DEF InFileOrder
  <2>. QED  BY <1>1, <2>2
<1>3. \A i \in 1..Len(StepOrder) : InFileOrder[i] = {StepOrder[i]}
  BY DEF InFileOrder
<1>4. \A s \in Steps : \E i \in 1..Len(StepOrder) : s = StepOrder[i]
  BY DEF Steps
<1>. QED  BY <1>1, <1>2, <1>3, <1>4, StepsAssumption

LEMMA BatchesStay ==
  ASSUME BatchesSound(batches), UNCHANGED <<deps, request, batches>>
  PROVE  BatchesSound(batches)'
BY DEF BatchesSound

LEMMA StartSound ==
  ASSUME deps \in Graphs
  PROVE  BatchesSound(Batches)
<1>. DEFINE G == GroupByLevel(deps)
<1>1. CASE Batches = InFileOrder /\ ~request.dag
  BY <1>1, FileOrderSound DEF BatchesSound
<1>2. CASE Batches = InFileOrder /\ Edges(deps) = {}
  <2>1. \A s \in Steps : deps[s] = {}
    <3>1. ASSUME NEW s \in Steps, NEW d \in deps[s] PROVE FALSE
      <4>1. d \in Steps \cup {Ghost}
        BY DEF Dependencies
      <4>2. <<d, s>> \in Edges(deps)
        BY <4>1 DEF Edges
      <4>. QED  BY <1>2, <4>2
    <3>. QED  BY <3>1
  <2>2. \A i \in 1..Len(InFileOrder) : InFileOrder[i] \subseteq Steps
    BY FileOrderSound
  <2>. QED  BY <1>2, <2>1, <2>2, FileOrderSound DEF BatchesSound
<1>3. CASE Batches = G /\ request.dag
  <2>1. /\ G \in Seq(SUBSET Steps) /\ G # <<>>
        /\ \A s \in Steps : \E i \in DOMAIN G : s \in G[i]
        /\ ValidGraph(deps) =>
             \A i \in DOMAIN G : \A s \in G[i] :
               \A d \in deps[s] : \E j \in 1..(i - 1) : d \in G[j]
    BY Groups, GroupsTight
  <2>2. \A i, j \in DOMAIN G : i # j => G[i] \cap G[j] = {}
    <3>1. DOMAIN G \subseteq Int
      BY <2>1
    <3>2. \A i \in DOMAIN G :
            G[i] = {s \in Steps : ComputeLevels(deps)[s] = i - 1}
      BY Groups
    <3>. HIDE DEF G
    <3>. QED  BY <3>1, <3>2
  <2>. HIDE DEF G
  <2>3. DOMAIN G = 1..Len(G) /\ Len(G) > 0
    BY <2>1
  <2>. QED  BY <1>3, <2>1, <2>2, <2>3 DEF BatchesSound
<1>. QED  BY <1>1, <1>2, <1>3 DEF Batches

(* The inductive invariant: the steps of the batches started are the ones  *)
(* that are not pending, those of the batches before the last have ended   *)
(* as they must, and a failure that ends the run at once has ended it.     *)
OrderInv ==
  /\ batch = 0 =>
       /\ \A s \in Steps : status[s] = "pending"
       /\ outcome # "completed"
  /\ batch > 0 =>
       /\ BatchesSound(batches) /\ batch =< Len(batches)
       /\ \A s \in Steps :
            status[s] # "pending" => \E i \in 1..batch : s \in batches[i]
       /\ \A i \in 1..batch : \A s \in batches[i] : status[s] # "pending"
       /\ \A i \in 1..(batch - 1) : \A s \in batches[i] : Ended(s)
  /\ ThrowsAtOnce /\ outcome = "none" => Failed = {}
  /\ outcome = "completed" => \A s \in Steps : status[s] = "completed"
  /\ outcome # "none" /\ request.driver = "run_track" =>
       \A s \in Steps : status[s] # "running"

LEMMA OrderInit == Init => OrderInv
BY DEF Init, OrderInv, Failed

(* A batch is started when the ones before it have ended. *)
LEMMA OrderLaunch ==
  ASSUME RInv, NEW B, BatchesSound(B), NEW asg,
         Launch(B[batch + 1], asg), batch < Len(B),
         outcome = "none", outcome' = outcome,
         deps' = deps, request' = request, batches' = B,
         ThrowsAtOnce => Failed = {},
         \A s \in Steps :
           status[s] # "pending" => \E i \in 1..batch : s \in B[i],
         \A i \in 1..batch : \A s \in B[i] : Ended(s)
  PROVE  OrderInv'
<1>1. /\ batch \in Nat /\ status \in [Steps -> {"pending", "running", "completed", "failed"}]
      /\ batch' = batch + 1 /\ Len(B) \in Nat
      /\ \A i \in 1..Len(B) : B[i] \subseteq Steps
  BY DEF RInv, TypeOK, Launch, BatchesSound
<1>2. /\ \A s \in B[batch + 1] : status'[s] = "running"
      /\ \A s \in Steps : s \notin B[batch + 1] => status'[s] = status[s]
  BY <1>1 DEF Launch
<1>3. \A i \in 1..batch : \A s \in B[i] : status'[s] = status[s]
  <2>1. ASSUME NEW i \in 1..batch PROVE B[i] \cap B[batch + 1] = {}
    BY <1>1 DEF BatchesSound
  <2>2. \A i \in 1..batch : i \in 1..Len(B)
    BY <1>1
  <2>. QED  BY <1>1, <1>2, <2>1, <2>2
<1>4. BatchesSound(batches)'
  BY DEF BatchesSound
<1>5. batch' > 0 /\ batch' =< Len(batches')
  BY <1>1
<1>6. ASSUME NEW s \in Steps, status'[s] # "pending"
      PROVE  \E i \in 1..batch' : s \in batches'[i]
  <2>1. CASE s \in B[batch + 1]
    BY <1>1, <2>1
  <2>2. CASE s \notin B[batch + 1]
    <3>1. PICK i \in 1..batch : s \in B[i]
      BY <1>2, <1>6, <2>2
    <3>. QED  BY <1>1, <3>1
  <2>. QED  BY <2>1, <2>2
<1>7. ASSUME NEW i \in 1..batch', NEW s \in batches'[i]
      PROVE  status'[s] # "pending"
  <2>1. CASE i = batch + 1
    BY <1>2, <2>1
  <2>2. CASE i # batch + 1
    <3>1. i \in 1..batch
      BY <1>1, <2>2
    <3>. QED  BY <1>3, <3>1 DEF Ended
  <2>. QED  BY <2>1, <2>2
<1>8. ASSUME NEW i \in 1..(batch' - 1), NEW s \in batches'[i]
      PROVE  Ended(s)'
  <2>1. i \in 1..batch
    BY <1>1
  <2>. QED  BY <1>3, <2>1 DEF Ended
<1>9. ThrowsAtOnce' => Failed' = {}
  <2>1. Failed' \subseteq Failed
    BY <1>1, <1>2 DEF Failed
  <2>. QED  BY <2>1 DEF ThrowsAtOnce
<1>10. outcome' = "none"
  OBVIOUS
<1>. QED  BY <1>4, <1>5, <1>6, <1>7, <1>8, <1>9, <1>10 DEF OrderInv

(* When all steps started have ended and nothing stops the run, they have  *)
(* ended as they must.                                                     *)
LEMMA SettledEnded ==
  ASSUME RInv, OrderInv, outcome = "none", BatchSettled, ~AbortsOn(Failed)
  PROVE  \A i \in 1..batch : \A s \in batches[i] : Ended(s)
<1>. SUFFICES ASSUME NEW i \in 1..batch, NEW s \in batches[i]
              PROVE  Ended(s)
  OBVIOUS
<1>1. batch > 0 /\ batch \in Nat /\ request \in RequestType
  BY DEF BatchSettled, RInv, TypeOK
<1>2. s \in Steps
  <2>1. BatchesSound(batches) /\ batch =< Len(batches)
    BY <1>1 DEF OrderInv
  <2>2. Len(batches) \in Nat /\ batches \in Seq(SUBSET Steps)
    BY <2>1 DEF BatchesSound
  <2>3. i \in 1..Len(batches)
    BY <1>1, <2>1, <2>2
  <2>. QED  BY <2>2, <2>3
<1>3. status[s] \in {"completed", "failed"}
  <2>1. status[s] # "pending"
    BY <1>1 DEF OrderInv
  <2>2. status[s] # "running"
    BY <1>2 DEF BatchSettled
  <2>. QED  BY <1>2, <2>1, <2>2 DEF RInv, TypeOK
<1>4. CASE request.driver = "run_track" /\ ~request.abort
  BY <1>3, <1>4 DEF Ended
<1>5. CASE ~(request.driver = "run_track" /\ ~request.abort)
  <2>1. Failed = {}
    <3>1. CASE ThrowsAtOnce
      BY <3>1 DEF OrderInv
    <3>2. CASE ~ThrowsAtOnce
      BY <1>1, <1>5, <3>2 DEF ThrowsAtOnce, AbortsOn, RequestType
    <3>. QED  BY <3>1, <3>2
  <2>. QED  BY <1>2, <1>3, <2>1 DEF Failed, Ended
<1>. QED  BY <1>4, <1>5

(* A step that ends was running, in the last batch. *)
LEMMA OrderSettle ==
  ASSUME RInv, OrderInv, NEW s \in Steps, NEW output,
         at[s].phase # "idle", Settle(s, output),
         UNCHANGED <<deps, request, batches, batch>>
  PROVE  OrderInv'
<1>1. /\ status \in [Steps -> {"pending", "running", "completed", "failed"}]
      /\ batch \in Nat /\ request \in RequestType /\ status[s] = "running"
  BY DEF RInv, TypeOK, WaitsFor
<1>2. /\ status' = [status EXCEPT ![s] = IF Accepted(output) THEN "completed"
                                        ELSE "failed"]
      /\ outcome' = IF ~Accepted(output) /\ ThrowsAtOnce THEN "failed" ELSE outcome
  BY DEF Settle
<1>3. /\ \A t \in Steps : t # s => status'[t] = status[t]
      /\ status'[s] \in {"completed", "failed"}
      /\ Accepted(output) => status'[s] = "completed"
  BY <1>1, <1>2
<1>4. batch > 0
  BY <1>1 DEF OrderInv
<1>5. /\ BatchesSound(batches) /\ batch =< Len(batches)
      /\ \A t \in Steps :
           status[t] # "pending" => \E i \in 1..batch : t \in batches[i]
      /\ \A i \in 1..batch : \A t \in batches[i] : status[t] # "pending"
      /\ \A i \in 1..(batch - 1) : \A t \in batches[i] : Ended(t)
  BY <1>4 DEF OrderInv
<1>6. \A i \in 1..batch : batches[i] \subseteq Steps
  <2>1. batches \in Seq(SUBSET Steps) /\ Len(batches) \in Nat
    BY <1>5 DEF BatchesSound
  <2>2. \A i \in 1..batch : i \in 1..Len(batches)
    BY <1>1, <1>5, <2>1
  <2>. QED  BY <2>1, <2>2
<1>7. \A t \in Steps : status[t] = "running" => t \in batches[batch]
  <2>. SUFFICES ASSUME NEW t \in Steps, status[t] = "running"
                PROVE  t \in batches[batch]
    OBVIOUS
  <2>1. PICK i \in 1..batch : t \in batches[i]
    BY <1>5
  <2>2. i \in 1..(batch - 1) => Ended(t)
    BY <1>5, <2>1
  <2>3. ~Ended(t)
    BY DEF Ended
  <2>4. i = batch
    BY <1>1, <2>2, <2>3
  <2>. QED  BY <2>1, <2>4
<1>8. BatchesSound(batches)'
  BY <1>5, BatchesStay
<1>9. \A t \in Steps :
        status'[t] # "pending" => \E i \in 1..batch : t \in batches[i]
  BY <1>1, <1>3, <1>5
<1>10. \A i \in 1..batch : \A t \in batches[i] : status'[t] # "pending"
  BY <1>3, <1>5, <1>6
<1>11. ASSUME NEW i \in 1..(batch - 1), NEW t \in batches[i]
       PROVE  Ended(t)'
  <2>1. Ended(t) /\ t \in Steps
    <3>1. i \in 1..batch
      BY <1>1
    <3>. QED  BY <1>5, <1>6, <3>1
  <2>2. t # s
    BY <1>1, <2>1 DEF Ended
  <2>. QED  BY <1>3, <2>1, <2>2 DEF Ended
<1>12. ThrowsAtOnce' /\ outcome' = "none" => Failed' = {}
  <2>. SUFFICES ASSUME ThrowsAtOnce', outcome' = "none"
                PROVE  Failed' = {}
    OBVIOUS
  <2>1. ThrowsAtOnce
    BY DEF ThrowsAtOnce
  <2>2. Accepted(output) /\ outcome = "none"
    BY <1>2, <2>1
  <2>3. Failed = {}
    BY <2>1, <2>2 DEF OrderInv
  <2>. QED  BY <1>3, <2>2, <2>3 DEF Failed
<1>13. outcome' # "completed"
  <2>1. outcome # "completed"
    BY <1>1 DEF OrderInv
  <2>. QED  BY <1>2, <2>1
<1>14. ASSUME outcome' # "none", request'.driver = "run_track"
       PROVE  \A t \in Steps : status'[t] # "running"
  <2>1. outcome = "none"
    BY <1>1, <1>14 DEF OrderInv
  <2>2. ~request.dag
    BY <1>1, <1>2, <1>14, <2>1 DEF ThrowsAtOnce, RequestType
  <2>3. ASSUME NEW t \in Steps, status[t] = "running" PROVE t = s
    <3>1. t \in batches[batch] /\ s \in batches[batch]
      BY <1>1, <1>7, <2>3
    <3>2. batch \in 1..Len(batches)
      BY <1>1, <1>4, <1>5 DEF BatchesSound
    <3>. QED  BY <1>5, <2>2, <3>1, <3>2 DEF BatchesSound
  <2>. QED  BY <1>3, <2>3
<1>. QED  BY <1>4, <1>5, <1>8, <1>9, <1>10, <1>11, <1>12, <1>13, <1>14 DEF OrderInv

LEMMA OrderStays ==
  ASSUME OrderInv, UNCHANGED <<deps, request, batches, batch, status, outcome>>
  PROVE  OrderInv'
BY DEF OrderInv, BatchesSound, Ended, ThrowsAtOnce, Failed

LEMMA OrderAnswer ==
  ASSUME RInv, OrderInv, NEW s \in Steps, StepEnds(s)
  PROVE  OrderInv'
<1>1. UNCHANGED <<deps, request, batches, batch>>
  BY DEF StepEnds, RemoteAnswers, RemoteRefuses, RemoteFails, GuardedEnds, LocalEnds
<1>2. at[s].phase # "idle"
  BY DEF StepEnds, RemoteAnswers, RemoteRefuses, RemoteFails, GuardedEnds, LocalEnds
<1>3. \/ \E phase : FallBack(s, phase)
      \/ \E output : Settle(s, output)
  BY DEF StepEnds, RemoteAnswers, RemoteRefuses, RemoteFails, GuardedEnds, LocalEnds
<1>4. CASE \E phase : FallBack(s, phase)
  BY <1>1, <1>4, OrderStays DEF FallBack
<1>5. CASE \E output : Settle(s, output)
  BY <1>1, <1>2, <1>5, OrderSettle
<1>. QED  BY <1>3, <1>4, <1>5

LEMMA OrderNext ==
  RInv /\ OrderInv /\ [Next]_vars => OrderInv'
<1>. SUFFICES ASSUME RInv, OrderInv, [Next]_vars PROVE OrderInv'
  OBVIOUS
<1>1. CASE Begin
  <2>1. batch = 0 /\ outcome = "none" /\ deps' = deps /\ request' = request
    BY <1>1 DEF Begin
  <2>2. \A s \in Steps : status[s] = "pending"
    BY <2>1 DEF OrderInv
  <2>3. CASE Refused
    <3>1. outcome' = "failed" /\ UNCHANGED <<batches, batch, status>>
      BY <1>1, <2>3 DEF Begin
    <3>. QED  BY <2>1, <2>2, <3>1 DEF OrderInv
  <2>4. CASE ~Refused
    <3>1. PICK asg \in Assignments : Launch(batches'[1], asg)
      BY <1>1, <2>4 DEF Begin
    <3>2. batches' = Batches /\ outcome' = outcome
      BY <1>1, <2>4 DEF Begin
    <3>3. BatchesSound(Batches)
      BY StartSound DEF RInv, TypeOK
    <3>4. Launch(Batches[batch + 1], asg) /\ batch < Len(Batches)
      BY <2>1, <3>1, <3>2, <3>3 DEF BatchesSound
    <3>5. Failed = {}
      BY <2>2 DEF Failed
    <3>6. \A i \in 1..batch : FALSE
      BY <2>1
    <3>. QED  BY <2>1, <2>2, <3>2, <3>3, <3>4, <3>5, <3>6, OrderLaunch
  <2>. QED  BY <2>3, <2>4
<1>2. CASE NextBatch
  <2>1. /\ outcome = "none" /\ BatchSettled /\ ~AbortsOn(Failed)
        /\ batch < Len(batches) /\ Launch(batches[batch + 1], assigned)
        /\ UNCHANGED <<deps, request, batches, outcome>>
    BY <1>2 DEF NextBatch
  <2>2. batch > 0
    BY <2>1 DEF BatchSettled
  <2>3. \A i \in 1..batch : \A s \in batches[i] : Ended(s)
    BY <2>1, SettledEnded
  <2>4. /\ BatchesSound(batches)
        /\ ThrowsAtOnce => Failed = {}
        /\ \A s \in Steps :
             status[s] # "pending" => \E i \in 1..batch : s \in batches[i]
    BY <2>1, <2>2 DEF OrderInv
  <2>. QED  BY <2>1, <2>3, <2>4, OrderLaunch
<1>3. CASE Return
  <2>1. /\ outcome = "none" /\ BatchSettled
        /\ batch = Len(batches) \/ AbortsOn(Failed)
        /\ outcome' \in {"completed", "failed"}
        /\ outcome' = "completed" => Failed = {}
        /\ UNCHANGED <<deps, request, batches, batch, status>>
    BY <1>3 DEF Return
  <2>2. \A s \in Steps : status[s] # "running"
    BY <2>1 DEF BatchSettled
  <2>3. ASSUME outcome' = "completed", NEW s \in Steps
        PROVE  status[s] = "completed"
    <3>1. Failed = {} /\ batch = Len(batches) /\ batch > 0
      BY <2>1, <2>3 DEF AbortsOn, BatchSettled
    <3>2. PICK i \in 1..batch : s \in batches[i]
      BY <3>1 DEF OrderInv, BatchesSound
    <3>3. status[s] # "pending"
      BY <3>1, <3>2 DEF OrderInv
    <3>. QED  BY <2>2, <3>1, <3>3 DEF Failed, RInv, TypeOK
  <2>4. batch > 0
    BY <2>1 DEF BatchSettled
  <2>. QED  BY <2>1, <2>2, <2>3, <2>4 DEF OrderInv, BatchesSound, Ended, ThrowsAtOnce, Failed
<1>4. CASE \E s \in Steps : StepEnds(s)
  BY <1>4, OrderAnswer
<1>5. CASE (RegNext /\ UNCHANGED runVars) \/ UNCHANGED vars
  BY <1>5, OrderStays DEF vars, runVars
<1>. QED  BY <1>1, <1>2, <1>3, <1>4, <1>5 DEF Next

(* No step of a run with DAG execution starts before the steps it depends  *)
(* on have ended well, whatever the graph, the relay, the steps beside it  *)
(* and the failures do.                                                    *)
THEOREM OrderHolds == Spec => []OrderRespected
<1>1. Init => RInv /\ OrderInv
  BY InitHolds, OrderInit
<1>2. RInv /\ OrderInv /\ [Next]_vars => RInv' /\ OrderInv'
  BY StepHolds, OrderNext
<1>3. RInv /\ OrderInv => OrderRespected
  <2>. SUFFICES ASSUME RInv, OrderInv, request.dag, ValidGraph(deps),
                       NEW s \in Steps, status[s] # "pending", NEW d \in deps[s]
                PROVE  Ended(d)
    BY DEF OrderRespected
  <2>1. batch > 0 /\ batch \in Nat
    BY DEF OrderInv, RInv, TypeOK
  <2>2. PICK i \in 1..batch : s \in batches[i]
    BY <2>1 DEF OrderInv
  <2>3. BatchesSound(batches) /\ batch =< Len(batches) /\ Len(batches) \in Nat
    BY <2>1 DEF OrderInv, BatchesSound
  <2>4. PICK j \in 1..(i - 1) : d \in batches[j]
    <3>1. i \in 1..Len(batches)
      BY <2>1, <2>3
    <3>. QED  BY <2>2, <2>3, <3>1 DEF BatchesSound
  <2>5. j \in 1..(batch - 1)
    BY <2>1
  <2>. QED  BY <2>1, <2>4, <2>5 DEF OrderInv
<1>. QED  BY <1>1, <1>2, <1>3, PTL DEF Spec

(* An answer leaves nothing behind: "completed" means that every step      *)
(* completed, and runTrack never answers while a step still runs.          *)
THEOREM AnswersLeaveNothing == Spec => []NothingLeftBehind
<1>1. Init => RInv /\ OrderInv
  BY InitHolds, OrderInit
<1>2. RInv /\ OrderInv /\ [Next]_vars => RInv' /\ OrderInv'
  BY StepHolds, OrderNext
<1>3. OrderInv => NothingLeftBehind
  BY DEF OrderInv, NothingLeftBehind
<1>. QED  BY <1>1, <1>2, <1>3, PTL DEF Spec

(* The batches, once there are any, are those of the graph and the request. *)
BatchesOfGraph == batches = <<>> \/ batches = Batches

(* In a valid graph of any shape and size the batches of a run with DAG    *)
(* execution are the tight levels of the graph: a step comes after all it  *)
(* waits for, and right after one of them.                                 *)
THEOREM LevelsAreTight == Spec => []LevelsTight
<1>1. Init => RInv /\ BatchesOfGraph
  BY InitHolds DEF Init, BatchesOfGraph
<1>2. BatchesOfGraph /\ [Next]_vars => BatchesOfGraph'
  <2>. SUFFICES ASSUME BatchesOfGraph, [Next]_vars PROVE BatchesOfGraph'
    OBVIOUS
  <2>1. UNCHANGED <<deps, request>>
    BY DEF Next, Begin, NextBatch, Return, StepEnds, RemoteAnswers, RemoteRefuses,
           RemoteFails, GuardedEnds, LocalEnds, vars, runVars
  <2>2. batches' = batches \/ batches' = Batches
    BY DEF Next, Begin, NextBatch, Return, StepEnds, RemoteAnswers, RemoteRefuses,
           RemoteFails, GuardedEnds, LocalEnds, vars, runVars
  <2>3. Batches' = Batches
    BY <2>1 DEF Batches
  <2>. QED  BY <2>2, <2>3 DEF BatchesOfGraph
<1>3. RInv /\ BatchesOfGraph => LevelsTight
  <2>. SUFFICES ASSUME RInv, BatchesOfGraph, request.dag, ValidGraph(deps),
                       Edges(deps) # {}, NEW i \in 1..Len(batches), NEW s \in batches[i]
                PROVE  /\ deps[s] \subseteq UNION {batches[j] : j \in 1..(i - 1)}
                       /\ i > 1 => deps[s] \cap batches[i - 1] # {}
    BY DEF LevelsTight
  <2>. DEFINE G == GroupByLevel(deps)
  <2>1. deps \in Dependencies
    BY DEF RInv, TypeOK
  <2>2. batches = G
    <3>1. batches # <<>>
      OBVIOUS
    <3>. QED  BY <3>1 DEF BatchesOfGraph, Batches
  <2>3. i \in DOMAIN G /\ s \in G[i]
    BY <2>1, <2>2, Groups
  <2>4. /\ \A d \in deps[s] : \E j \in 1..(i - 1) : d \in G[j]
        /\ i > 1 => \E d \in deps[s] : d \in G[i - 1]
    BY <2>1, <2>3, GroupsTight
  <2>. HIDE DEF G
  <2>. QED  BY <2>2, <2>4
<1>. QED  BY <1>1, <1>2, <1>3, StepHolds, PTL DEF Spec

----------------------------------------------------------------------------
(* What the end of a run rests on.  That runs end is a liveness property;  *)
(* its safety part is that the run always has a next thing to do or to     *)
(* wait for, that everything it waits for brings a step nearer to its end, *)
(* and that the end is final.                                              *)

(* The most that a step still waits for: to be started, for its node, for  *)
(* its execution inside the router's try block and for the one outside.    *)
Left == [s \in Steps |-> CASE status[s] = "pending" -> 4
                          [] at[s].phase = "remote" -> 3
                          [] at[s].phase = "guarded" -> 2
                          [] at[s].phase = "local" -> 1
                          [] OTHER -> 0]

(* What every step of the system does to the steps of the run.             *)
Nearer ==
  \A s \in Steps : /\ Left'[s] =< Left[s]
                   /\ Left[s] = 0 => status'[s] = status[s]
                   /\ StepEnds(s) => Left'[s] < Left[s]

LEMMA LeftStays ==
  ASSUME NEW s \in Steps, status'[s] = status[s], at'[s] = at[s]
  PROVE  Left'[s] = Left[s]
BY DEF Left

(* The steps of the next batch have not been started before. *)
LEMMA NextArePending ==
  ASSUME RInv, OrderInv, batch > 0, batch < Len(batches),
         NEW s \in batches[batch + 1]
  PROVE  s \in Steps /\ status[s] = "pending"
<1>1. /\ BatchesSound(batches) /\ batch \in Nat
      /\ \A t \in Steps : status[t] # "pending" => \E i \in 1..batch : t \in batches[i]
  BY DEF RInv, TypeOK, OrderInv
<1>2. Len(batches) \in Nat /\ batch + 1 \in 1..Len(batches)
  BY <1>1 DEF BatchesSound
<1>3. s \in Steps
  BY <1>1, <1>2 DEF BatchesSound
<1>4. ASSUME NEW i \in 1..batch PROVE s \notin batches[i]
  <2>1. i \in 1..Len(batches) /\ i # batch + 1
    BY <1>1, <1>2
  <2>. QED  BY <1>1, <1>2, <2>1 DEF BatchesSound
<1>. QED  BY <1>1, <1>3, <1>4

LEMMA LaunchNearer ==
  ASSUME RInv, NEW started \in SUBSET Steps, NEW asg, Launch(started, asg),
         \A s \in started : status[s] = "pending"
  PROVE  \A s \in Steps : /\ Left'[s] =< Left[s]
                          /\ Left[s] = 0 => status'[s] = status[s]
<1>. SUFFICES ASSUME NEW s \in Steps
              PROVE  Left'[s] =< Left[s] /\ (Left[s] = 0 => status'[s] = status[s])
  OBVIOUS
<1>1. CASE s \in started
  <2>1. Left[s] = 4
    <3>1. status[s] = "pending" /\ at[s].phase = "idle"
      <4>1. at[s].phase # "idle" <=> status[s] = "running"
        BY DEF RInv, WaitsFor
      <4>. QED  BY <1>1, <4>1
    <3>. QED  BY <3>1 DEF Left
  <2>2. status'[s] = "running" /\ at'[s].phase \in {"remote", "local"}
    BY <1>1 DEF Launch
  <2>3. Left'[s] \in {1, 3}
    BY <2>2 DEF Left
  <2>. QED  BY <2>1, <2>3
<1>2. CASE s \notin started
  <2>1. status'[s] = status[s] /\ at'[s] = at[s]
    BY <1>2 DEF Launch
  <2>2. Left[s] \in 0..4
    BY DEF Left
  <2>. QED  BY <2>1, <2>2, LeftStays
<1>. QED  BY <1>1, <1>2

(* Whatever a running step waits for, its end leaves less to wait for. *)
LEMMA AnswerNearer ==
  ASSUME RInv, NEW s \in Steps, StepEnds(s)
  PROVE  /\ Left'[s] < Left[s]
         /\ \A t \in Steps : t # s => status'[t] = status[t] /\ at'[t] = at[t]
<1>1. /\ status \in [Steps -> {"pending", "running", "completed", "failed"}]
      /\ at \in [Steps -> [phase : {"idle", "remote", "guarded", "local"},
                           node  : Nodes \cup {NoNode}]]
      /\ at[s].phase # "idle" => status[s] = "running"
  BY DEF RInv, TypeOK, WaitsFor
<1>2. \/ at[s].phase = "remote" /\ FallBack(s, "guarded")
      \/ at[s].phase = "remote" /\ FallBack(s, "local")
      \/ at[s].phase = "guarded" /\ FallBack(s, "local")
      \/ at[s].phase # "idle" /\ \E output : Settle(s, output)
  BY DEF StepEnds, RemoteAnswers, RemoteRefuses, RemoteFails, GuardedEnds, LocalEnds
<1>3. at[s].phase \in {"idle", "remote", "guarded", "local"}
  BY <1>1
<1>4. ASSUME NEW phase, FallBack(s, phase)
      PROVE  /\ at'[s].phase = phase /\ status'[s] = status[s]
             /\ \A t \in Steps : t # s => status'[t] = status[t] /\ at'[t] = at[t]
  BY <1>1, <1>4 DEF FallBack
<1>5. ASSUME NEW output, Settle(s, output)
      PROVE  /\ at'[s].phase = "idle" /\ status'[s] \in {"completed", "failed"}
             /\ \A t \in Steps : t # s => status'[t] = status[t] /\ at'[t] = at[t]
  BY <1>1, <1>5 DEF Settle, Idle
<1>6. CASE at[s].phase = "remote" /\ (FallBack(s, "guarded") \/ FallBack(s, "local"))
  BY <1>1, <1>4, <1>6 DEF Left
<1>7. CASE at[s].phase = "guarded" /\ FallBack(s, "local")
  BY <1>1, <1>4, <1>7 DEF Left
<1>8. CASE at[s].phase # "idle" /\ \E output : Settle(s, output)
  BY <1>1, <1>3, <1>5, <1>8 DEF Left
<1>. QED  BY <1>2, <1>6, <1>7, <1>8

(* Two steps of the run never end at once. *)
LEMMA OneEndsAtATime ==
  ASSUME RInv, NEW s \in Steps, NEW t \in Steps, StepEnds(s), StepEnds(t)
  PROVE  s = t
<1>. SUFFICES ASSUME s # t PROVE FALSE
  OBVIOUS
<1>1. Left'[s] < Left[s] /\ status'[s] = status[s] /\ at'[s] = at[s]
  BY AnswerNearer
<1>. QED  BY <1>1, LeftStays DEF Left

(* A step of the run, once started, gets through at most three waits and   *)
(* ends once; nothing that the relay, the nodes or the steps beside it do  *)
(* sends it back, and each of its own answers brings it nearer to its end. *)
THEOREM StepsMoveForward == Spec => [][Nearer]_vars
<1>1. RInv /\ OrderInv /\ [Next]_vars => [Nearer]_vars
  <2>. SUFFICES ASSUME RInv, OrderInv, Next PROVE Nearer
    OBVIOUS
  <2>1. ASSUME \A s \in Steps : ~StepEnds(s),
               \A s \in Steps : /\ Left'[s] =< Left[s]
                                /\ Left[s] = 0 => status'[s] = status[s]
        PROVE  Nearer
    BY <2>1 DEF Nearer
  <2>2. CASE \E s \in Steps : StepEnds(s)
    <3>1. PICK s \in Steps : StepEnds(s)
      BY <2>2
    <3>2. /\ Left'[s] < Left[s]
          /\ \A t \in Steps : t # s => status'[t] = status[t] /\ at'[t] = at[t]
      BY <3>1, AnswerNearer
    <3>3. \A t \in Steps : Left[t] \in 0..4 /\ Left'[t] \in 0..4
      BY DEF Left
    <3>4. \A t \in Steps : t # s => Left'[t] = Left[t]
      BY <3>2, LeftStays
    <3>5. \A t \in Steps : StepEnds(t) => t = s
      BY <3>1, OneEndsAtATime
    <3>. HIDE DEF Left
    <3>. QED  BY <3>2, <3>3, <3>4, <3>5 DEF Nearer
  <2>3. CASE /\ \A s \in Steps : ~StepEnds(s)
             /\ UNCHANGED <<status, at>>
    <3>1. \A s \in Steps : Left[s] \in 0..4 /\ Left'[s] = Left[s]
      BY <2>3 DEF Left
    <3>. QED  BY <2>1, <2>3, <3>1
  <2>4. CASE /\ \A s \in Steps : ~StepEnds(s)
             /\ ~UNCHANGED <<status, at>>
    <3>1. Begin \/ NextBatch
      BY <2>4 DEF Next, Return, runVars
    <3>2. CASE Begin
      <4>1. batch = 0 /\ ~Refused
        BY <2>4, <3>2 DEF Begin
      <4>2. BatchesSound(Batches) /\ \A s \in Steps : status[s] = "pending"
        BY <4>1, StartSound DEF RInv, TypeOK, OrderInv
      <4>3. PICK asg : Launch(Batches[1], asg)
        BY <3>2, <4>1 DEF Begin
      <4>4. Batches[1] \in SUBSET Steps
        BY <4>2 DEF BatchesSound
      <4>5. \A s \in Batches[1] : status[s] = "pending"
        BY <4>2, <4>4
      <4>. QED  BY <2>1, <2>4, <4>3, <4>4, <4>5, LaunchNearer
    <3>3. CASE NextBatch
      <4>1. batch > 0 /\ batch < Len(batches) /\ Launch(batches[batch + 1], assigned)
        BY <3>3 DEF NextBatch, BatchSettled
      <4>2. \A s \in batches[batch + 1] : s \in Steps /\ status[s] = "pending"
        BY <4>1, NextArePending
      <4>3. batches[batch + 1] \in SUBSET Steps
        BY <4>2
      <4>. QED  BY <2>1, <2>4, <4>1, <4>2, <4>3, LaunchNearer
    <3>. QED  BY <3>1, <3>2, <3>3
  <2>. QED  BY <2>2, <2>3, <2>4
<1>. QED  BY <1>1, InitHolds, OrderInit, StepHolds, OrderNext, PTL DEF Spec

(* A run under way always goes on: one of its steps still waits for        *)
(* something, or all it started have ended and the run starts its next     *)
(* batch or answers, whichever step failed and wherever.                   *)
GoesOn ==
  batch > 0 /\ outcome = "none" =>
    \/ \E s \in Steps : at[s].phase # "idle"
    \/ /\ BatchSettled
       /\ \/ batch < Len(batches) /\ ~AbortsOn(Failed)
          \/ batch = Len(batches) \/ AbortsOn(Failed)

THEOREM RunsAreNeverStuck == Spec => []GoesOn
<1>1. RInv /\ OrderInv => GoesOn
  <2>. SUFFICES ASSUME RInv, OrderInv, batch > 0,
                       \A s \in Steps : at[s].phase = "idle"
                PROVE  BatchSettled /\ (batch < Len(batches) \/ batch = Len(batches))
    BY DEF GoesOn
  <2>1. \A s \in Steps : status[s] # "running"
    BY DEF RInv, WaitsFor
  <2>2. batch \in Nat /\ Len(batches) \in Nat /\ batch =< Len(batches)
    BY DEF RInv, TypeOK, OrderInv, BatchesSound
  <2>. QED  BY <2>1, <2>2 DEF BatchSettled
<1>. QED  BY <1>1, InitHolds, OrderInit, StepHolds, OrderNext, PTL DEF Spec

(* A caller gets one answer: the steps that go on beside a failed one, and *)
(* the failures that follow the first, never change what it was told.      *)
THEOREM AnswersAreFinal == Spec => [][outcome # "none" => outcome' = outcome]_vars
<1>1. RInv /\ OrderInv /\ [Next]_vars => [outcome # "none" => outcome' = outcome]_vars
  <2>. SUFFICES ASSUME RInv, OrderInv, Next, outcome # "none" PROVE outcome' = outcome
    OBVIOUS
  <2>1. CASE Begin \/ NextBatch \/ Return
    BY <2>1 DEF Begin, NextBatch, Return
  <2>2. ASSUME NEW s \in Steps, StepEnds(s) PROVE outcome' = outcome
    <3>1. \/ outcome' = outcome
          \/ at[s].phase # "idle" /\ outcome' = "failed"
      BY <2>2 DEF StepEnds, RemoteAnswers, RemoteRefuses, RemoteFails, GuardedEnds,
                  LocalEnds, FallBack, Settle
    <3>2. at[s].phase # "idle" => outcome # "completed"
      BY DEF RInv, WaitsFor, OrderInv
    <3>3. outcome \in {"none", "completed", "failed"}
      BY DEF RInv, TypeOK
    <3>. QED  BY <3>1, <3>2, <3>3
  <2>3. CASE RegNext /\ UNCHANGED runVars
    BY <2>3 DEF runVars
  <2>. QED  BY <2>1, <2>2, <2>3 DEF Next
<1>. QED  BY <1>1, InitHolds, OrderInit, StepHolds, OrderNext, PTL DEF Spec
=============================================================================
