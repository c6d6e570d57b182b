------------------------------ MODULE StepGraph ------------------------------
(***************************************************************************)
(* The dependency graph of a track (companion/core/dag-graph.js): which    *)
(* graphs are valid and in which level each step runs.  A track is its     *)
(* steps in file order and, for each step, the steps it depends on;        *)
(* `depends_on' may name a step the track does not have (Ghost), while     *)
(* an $artifacts reference to no step is dropped by collectDependencies.   *)
(***************************************************************************)
EXTENDS Integers, Sequences, FiniteSets, FiniteSetsExt

CONSTANTS StepOrder, \* the step ids, in file order
          Ghost      \* a name that is not one of them

Steps == {StepOrder[i] : i \in 1..Len(StepOrder)}

(* step ids are unique *)
ASSUME StepsAssumption ==
  /\ StepOrder \in Seq(Steps) /\ StepOrder # <<>>
  /\ \A i, j \in DOMAIN StepOrder : StepOrder[i] = StepOrder[j] => i = j

Dependencies == [Steps -> SUBSET (Steps \cup {Ghost})]

(* findCycles: a cycle is there when some steps each depend on one of them *)
Cyclic(deps) == \E C \in SUBSET Steps : /\ C # {}
                                        /\ \A s \in C : deps[s] \cap C # {}

(* findMissingStepRefs *)
Missing(deps) == \E s \in Steps : ~(deps[s] \subseteq Steps)

ValidGraph(deps) == ~Cyclic(deps) /\ ~Missing(deps)

Edges(deps) == {e \in (Steps \cup {Ghost}) \X Steps : e[1] \in deps[e[2]]}

(* MUTANT of ComputeLevels: one wave for all steps that depend on anything *)
ComputeLevelsInTwo(deps) == [s \in Steps |-> IF deps[s] = {} THEN 0 ELSE 1]

(* the steps of S in file order: the order in which nodeIds.filter and the *)
(* adjacency lists, filled step after step, hand them to the queue         *)
FileOrder(S) ==
  LET among[i \in 0..Len(StepOrder)] ==
        IF i = 0 THEN <<>>
        ELSE IF StepOrder[i] \in S THEN Append(among[i - 1], StepOrder[i])
        ELSE among[i - 1]
  IN among[Len(StepOrder)]

(***************************************************************************)
(* computeLevels: Kahn's queue.  After n turns the first n entries of the  *)
(* queue have been taken; a step enters it when the last step it waits     *)
(* for is taken, one level above that step.  A step that never enters it   *)
(* (it waits for itself, for a cycle or for a ghost) keeps level 0.        *)
(***************************************************************************)
Filled(deps) == [queue |-> FileOrder({s \in Steps : deps[s] = {}}),
                 waits |-> [s \in Steps |-> Cardinality(deps[s])],
                 level |-> [s \in Steps |-> 0]]

TakeNext(deps, n, k) ==
  LET id    == k.queue[n]
      waits == [s \in Steps |-> k.waits[s] - (IF id \in deps[s] THEN 1 ELSE 0)]
      freed == {s \in Steps : id \in deps[s] /\ waits[s] = 0}
  IN [queue |-> k.queue \o FileOrder(freed),
      waits |-> waits,
      level |-> [s \in Steps |-> IF s \in freed THEN k.level[id] + 1 ELSE k.level[s]]]

Turn(deps, n, k) == IF n > Len(k.queue) THEN k ELSE TakeNext(deps, n, k)

ComputeLevels(deps) ==
  LET kahn[n \in 0..Len(StepOrder)] ==
        IF n = 0 THEN Filled(deps) ELSE Turn(deps, n, kahn[n - 1])
  IN kahn[Len(StepOrder)].level

(* groupByLevel: the steps of level 0, of level 1, ... *)
GroupByLevel(deps) ==
  LET level == ComputeLevels(deps)
  IN [l \in 1..(1 + Max({level[s] : s \in Steps})) |->
        {s \in Steps : level[s] = l - 1}]

(* one step after the other, in file order *)
InFileOrder == [i \in 1..Len(StepOrder) |-> {StepOrder[i]}]
=============================================================================
