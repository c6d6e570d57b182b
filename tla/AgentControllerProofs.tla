----------------------- MODULE AgentControllerProofs -----------------------
(***************************************************************************)
(* What the agent controller guarantees for any number of objectives, any  *)
(* limits, any answers of the agents and any crashes.                      *)
(***************************************************************************)
EXTENDS AgentController, TLAPS

(* A supervisor exists in one phase of the sequencer only. *)
OneAtATime == sup # "off" <=> seq = "supervise"

(* While the supervisor works nothing is decided, and the corrections it   *)
(* counts are the rejections since the last acceptance.                    *)
Working ==
  sup # "off" =>
    /\ accepted = "none"
    /\ run.status = "running" /\ run.phase # "stop" /\ ~run.complete
    /\ rejected = run.corrections
    /\ run.corrections <= MaxCorrections

(* No call is under way that the head of the loop would have refused. *)
CallsAllowed ==
  sup \in {"call", "retry"} => ~Stopped /\ ~OutOfBudget /\ ~TooManyFailures

(* Reviews that complete an objective.                                     *)
Earning == {"own", "unstamped"}

(* Between the supervisor's exit and the archive a complete run state has  *)
(* been earned; before the next objective all of it is forgotten.          *)
Verdict ==
  /\ seq \in {"record", "archive"} /\ IsComplete => accepted \in Earning
  /\ seq \in {"down", "restore", "choose"} => accepted = "none" /\ rejected = 0

LoopInv == OneAtATime /\ Working /\ CallsAllowed /\ Verdict /\ CorrectionsBounded

(* The file of the objective at hand stays in the queue or is held, and    *)
(* when it is archived its record says where it goes.                      *)
Filing ==
  /\ seq \in {"supervise", "record", "archive"} =>
       \A o \in Objectives : o = Current => files[o] \cap {"queue", "held"} # {}
  /\ seq = "archive" =>
       \A o \in Objectives : o = Current =>
         record[o] = IF IsComplete THEN "complete" ELSE "failed"

FilesInv == NothingLost /\ RecordsAgree /\ Filing

USE LimitsAssumption DEF Objectives, Places, HardCap

----------------------------------------------------------------------------
(* Typing                                                                  *)

(* What a supervisor leaves is a run state. *)
LEMMA OutcomeTyped ==
  ASSUME NEW r, r.status \in {"running", "complete", "blocked", "capped", "budget_exhausted"},
         r.iteration \in 0..MaxIterations, r.complete \in BOOLEAN
  PROVE  Outcome(r) \in RunType
<1>. DEFINE a == [FreshRun EXCEPT !.status = r.status]
            b == [a EXCEPT !.iteration = r.iteration]
<1>1. FreshRun \in RunType
  BY DEF FreshRun, RunType
<1>2. a \in RunType
  BY <1>1 DEF RunType
<1>. HIDE DEF a
<1>3. b \in RunType
  BY <1>2 DEF RunType
<1>. HIDE DEF b
<1>4. [b EXCEPT !.complete = r.complete] \in RunType
  BY <1>3 DEF RunType
<1>. QED  BY <1>4 DEF a, b, Outcome

LEMMA OutcomeKeeps ==
  ASSUME NEW r
  PROVE  /\ Outcome(r).status = r.status
         /\ Outcome(r).complete = r.complete
  BY DEF Outcome, FreshRun

(* A failed call keeps a run state that had failures to spare. *)
LEMMA FailedTyped ==
  ASSUME NEW r \in RunType, r.failures <= MaxFailures
  PROVE  Failed(r) \in RunType
<1>. DEFINE a == [r EXCEPT !.failures = r.failures + 1]
<1>1. a \in RunType
  BY DEF RunType
<1>. HIDE DEF a
<1>2. [a EXCEPT !.blocker = TRUE] \in RunType
  BY <1>1 DEF RunType
<1>. QED  BY <1>2 DEF a, Failed

LEMMA FailedKeeps ==
  ASSUME NEW r \in RunType
  PROVE  /\ Failed(r).status = r.status /\ Failed(r).phase = r.phase
         /\ Failed(r).complete = r.complete /\ Failed(r).iteration = r.iteration
         /\ Failed(r).corrections = r.corrections
  BY DEF Failed, RunType

(* An accepted task starts the counts again. *)
LEMMA AcceptedTyped ==
  ASSUME NEW r \in RunType, r.iteration < MaxIterations
  PROVE  /\ AcceptedTask(r) \in RunType
         /\ AcceptedTask(r).status = r.status /\ AcceptedTask(r).complete = r.complete
         /\ AcceptedTask(r).phase = "plan" /\ AcceptedTask(r).corrections = 0
<1>. DEFINE a == [r EXCEPT !.iteration = r.iteration + 1]
            b == [a EXCEPT !.corrections = 0]
            c == [b EXCEPT !.failures = 0]
<1>1. a \in RunType
  BY DEF RunType
<1>. HIDE DEF a
<1>2. b \in RunType
  BY <1>1 DEF RunType
<1>. HIDE DEF b
<1>3. c \in RunType
  BY <1>2 DEF RunType
<1>. HIDE DEF c
<1>4. [c EXCEPT !.phase = "plan"] \in RunType
  BY <1>3 DEF RunType
<1>5. AcceptedTask(r) \in RunType
  BY <1>4 DEF a, b, c, AcceptedTask
<1>6. /\ AcceptedTask(r).status = r.status /\ AcceptedTask(r).complete = r.complete
      /\ AcceptedTask(r).phase = "plan" /\ AcceptedTask(r).corrections = 0
  BY DEF AcceptedTask, RunType
<1>. QED  BY <1>5, <1>6

(* A rejected one is planned again while corrections and failures are left, *)
(* and stops the supervisor otherwise.                                      *)
LEMMA RejectedTyped ==
  ASSUME NEW r \in RunType
  PROVE  /\ Rejected(r).iteration = r.iteration /\ Rejected(r).complete = r.complete
         /\ \/ Rejected(r).phase = "stop" /\ Rejected(r).status = "blocked"
            \/ /\ Rejected(r) \in RunType
               /\ Rejected(r).phase = "plan" /\ Rejected(r).status = r.status
               /\ Rejected(r).corrections = r.corrections + 1
               /\ Rejected(r).corrections <= MaxCorrections
<1>1. CASE r.corrections + 1 > MaxCorrections \/ r.failures + 1 > MaxFailures
  BY <1>1 DEF Rejected, Failed, RunType
<1>2. CASE r.corrections + 1 <= MaxCorrections /\ r.failures + 1 <= MaxFailures
  <2>. DEFINE a == [r EXCEPT !.corrections = r.corrections + 1]
              c == [r EXCEPT !.corrections = r.corrections + 1, !.failures = r.failures + 1,
                             !.phase = "plan"]
  <2>1. a \in RunType /\ a.failures = r.failures
    BY <1>2 DEF RunType
  <2>2. Rejected(r) = c
    BY <1>2 DEF Rejected, RunType
  <2>3. /\ c.iteration = r.iteration /\ c.complete = r.complete
        /\ c.phase = "plan" /\ c.status = r.status /\ c.corrections = r.corrections + 1
    BY DEF RunType
  <2>. HIDE DEF a
  <2>4. [a EXCEPT !.failures = r.failures + 1] \in RunType
    BY <2>1, <1>2 DEF RunType
  <2>. DEFINE d == [a EXCEPT !.failures = r.failures + 1]
  <2>5. d \in RunType
    BY <2>4
  <2>. HIDE DEF d
  <2>6. [d EXCEPT !.phase = "plan"] \in RunType
    BY <2>5 DEF RunType
  <2>7. c \in RunType
    BY <2>6 DEF a, d
  <2>. HIDE DEF c
  <2>. QED  BY <1>2, <2>2, <2>3, <2>7
<1>. QED  BY <1>1, <1>2 DEF RunType

----------------------------------------------------------------------------
(* The loop invariant                                                      *)

Inv == TypeOK /\ LoopInv

LEMMA InitInv == Init => Inv
<1>1. FreshRun \in RunType /\ FreshRun.corrections = 0
  BY DEF FreshRun, RunType
<1>2. Init => TypeOK
  <2>. SUFFICES ASSUME Init PROVE TypeOK
    OBVIOUS
  <2>1. files \in [Objectives -> SUBSET Places]
    BY DEF Init
  <2>2. record \in [Objectives -> {"none", "in_progress", "complete", "failed"}]
    BY DEF Init
  <2>3. run \in RunType /\ rejected \in Nat /\ guard \in 0..HardCap
    BY <1>1 DEF Init
  <2>4. stopOnBlocker \in BOOLEAN /\ accepted \in Credits
    BY DEF Init, Credits
  <2>5. /\ todo \subseteq Objectives
        /\ seq = "down" /\ sup = "off" /\ late = "none"
    BY DEF Init
  <2>. QED  BY <2>1, <2>2, <2>3, <2>4, <2>5 DEF TypeOK
<1>3. Init => LoopInv
  BY DEF Init, LoopInv, OneAtATime, Working, CallsAllowed, Verdict, CorrectionsBounded
<1>. QED  BY <1>2, <1>3 DEF Inv

(* The steps of the sequencer outside the supervisor. *)
LEMMA SequencerTyped ==
  ASSUME TypeOK,
         \/ StartSequencer \/ Collect \/ EndOfList \/ SkipMissing \/ FinishRecord \/ Archive
         \/ \E o \in Objectives : Restore(o) \/ Hold(o) \/ Unhold(o)
  PROVE  TypeOK'
<1>. USE DEF TypeOK, seqVars, supVars
<1>1. CASE StartSequencer
  BY <1>1 DEF StartSequencer
<1>2. CASE Collect
  BY <1>2 DEF Collect
<1>3. CASE EndOfList
  BY <1>3 DEF EndOfList
<1>4. CASE SkipMissing
  BY <1>4 DEF SkipMissing
<1>5. CASE FinishRecord
  BY <1>5 DEF FinishRecord
<1>6. CASE Archive
  <2>1. files' \in [Objectives -> SUBSET Places]
    BY <1>6 DEF Archive, Moves
  <2>. QED  BY <1>6, <2>1 DEF Archive, Credits
<1>7. ASSUME NEW o \in Objectives, Restore(o) PROVE TypeOK'
  <2>1. files' \in [Objectives -> SUBSET Places]
    <3>1. CASE files' = [files EXCEPT ![o] = (@ \ {"failed"}) \cup {"queue"}]
      BY <3>1
    <3>2. ASSUME NEW copied \in SUBSET {"queue"},
                 files' = [files EXCEPT ![o] = @ \cup copied]
          PROVE  files' \in [Objectives -> SUBSET Places]
      BY <3>2
    <3>. QED  BY <1>7, <3>1, <3>2 DEF Restore
  <2>2. seq' \in {"restore", "down"}
    BY <1>7 DEF Restore
  <2>. QED  BY <1>7, <2>1, <2>2 DEF Restore
<1>8. ASSUME NEW o \in Objectives, Hold(o) \/ Unhold(o) PROVE TypeOK'
  <2>1. files' \in [Objectives -> SUBSET Places]
    BY <1>8 DEF Hold, Unhold
  <2>. QED  BY <1>8, <2>1 DEF Hold, Unhold
<1>. QED  BY <1>1, <1>2, <1>3, <1>4, <1>5, <1>6, <1>7, <1>8

LEMMA SequencerLoopInv ==
  ASSUME LoopInv,
         \/ StartSequencer \/ Collect \/ EndOfList \/ SkipMissing \/ FinishRecord \/ Archive
         \/ \E o \in Objectives : Restore(o) \/ Hold(o) \/ Unhold(o)
  PROVE  LoopInv'
<1>. USE DEF LoopInv, OneAtATime, Working, CallsAllowed, Stopped, OutOfBudget,
             TooManyFailures, Verdict, IsComplete, CorrectionsBounded, seqVars, supVars
<1>1. CASE StartSequencer
  BY <1>1 DEF StartSequencer
<1>2. CASE Collect
  BY <1>2 DEF Collect
<1>3. CASE EndOfList
  BY <1>3 DEF EndOfList
<1>4. CASE SkipMissing
  BY <1>4 DEF SkipMissing
<1>5. CASE FinishRecord
  BY <1>5 DEF FinishRecord
<1>6. CASE Archive
  BY <1>6 DEF Archive
<1>7. ASSUME NEW o \in Objectives, Restore(o) PROVE LoopInv'
  BY <1>7 DEF Restore
<1>8. ASSUME NEW o \in Objectives, Hold(o) \/ Unhold(o) PROVE LoopInv'
  BY <1>8 DEF Hold, Unhold
<1>. QED  BY <1>1, <1>2, <1>3, <1>4, <1>5, <1>6, <1>7, <1>8

(* The exit of a supervisor: what it leaves is typed, and complete only    *)
(* when that has been earned.                                              *)
LEMMA ExitInv ==
  ASSUME TypeOK, sup # "off", OneAtATime, NEW r,
         r.status \in {"running", "complete", "blocked", "capped", "budget_exhausted"},
         r.iteration \in 0..MaxIterations, r.complete \in BOOLEAN,
         ExitWith(r), UNCHANGED <<files, record, todo, stopOnBlocker>>,
         late' \in {"none", "this", "earlier"}, accepted' \in Credits,
         rejected' \in Nat, rejected' <= MaxCorrections + 1,
         r.status = "complete" \/ r.complete => accepted' \in Earning
  PROVE  Inv'
<1>1. /\ run' \in RunType
      /\ run'.status = r.status /\ run'.complete = r.complete
  BY OutcomeTyped, OutcomeKeeps DEF ExitWith
<1>2. TypeOK'
  BY <1>1 DEF TypeOK, ExitWith
<1>3. LoopInv'
  BY <1>1 DEF LoopInv, OneAtATime, Working, CallsAllowed, Verdict, IsComplete,
              CorrectionsBounded, ExitWith
<1>. QED  BY <1>2, <1>3 DEF Inv

(* A turn that goes on keeps the invariant when the new run state counts   *)
(* the rejections and has decided nothing.                                 *)
LEMMA NextTurnInv ==
  ASSUME TypeOK, sup # "off", OneAtATime, NEW r \in RunType,
         r.phase # "stop", r.status = "running", ~r.complete,
         r.corrections <= MaxCorrections, rejected' = r.corrections, accepted' = "none",
         Continue(r), UNCHANGED <<files, record, todo, stopOnBlocker>>,
         late' \in {"none", "this", "earlier"}
  PROVE  Inv'
<1>1. run' = r /\ sup' = "loop" /\ guard' = guard /\ seq' = seq
  BY DEF Continue
<1>2. r.corrections \in Nat
  BY DEF RunType
<1>3. TypeOK'
  BY <1>1, <1>2 DEF TypeOK, Credits
<1>4. LoopInv'
  BY <1>1, <1>2 DEF LoopInv, OneAtATime, Working, CallsAllowed, Verdict, CorrectionsBounded
<1>. QED  BY <1>3, <1>4 DEF Inv

(* A failed call is such a turn. *)
LEMMA FailedCallInv ==
  ASSUME Inv, sup \in {"call", "retry"}, Continue(Failed(run)),
         UNCHANGED <<files, record, todo, stopOnBlocker, accepted, rejected>>,
         late' \in {"none", "this", "earlier"}
  PROVE  Inv'
<1>1. /\ TypeOK /\ sup # "off" /\ OneAtATime /\ accepted = "none"
      /\ run \in RunType /\ run.phase # "stop" /\ run.status = "running" /\ ~run.complete
      /\ run.corrections <= MaxCorrections /\ rejected = run.corrections
      /\ ~(run.failures > MaxFailures)
  BY DEF Inv, TypeOK, LoopInv, Working, CallsAllowed, TooManyFailures
<1>2. run.failures <= MaxFailures
  BY <1>1 DEF RunType
<1>3. Failed(run) \in RunType
  BY <1>1, <1>2, FailedTyped
<1>4. /\ Failed(run).status = run.status /\ Failed(run).phase = run.phase
      /\ Failed(run).complete = run.complete
      /\ Failed(run).corrections = run.corrections
  BY <1>1, FailedKeeps
<1>5. accepted' = "none"
  BY <1>1 DEF Inv, TypeOK
<1>. QED  BY <1>1, <1>3, <1>4, <1>5, NextTurnInv

(* A supervisor that gives up keeps the verdict it has, which is none. *)
LEMMA GivesUpInv ==
  ASSUME Inv, sup # "off", NEW r, ExitWith(r),
         r.status \in {"running", "blocked", "capped", "budget_exhausted"},
         r.iteration \in 0..MaxIterations, r.complete = FALSE,
         UNCHANGED <<files, record, todo, stopOnBlocker, late, accepted, rejected>>
  PROVE  Inv'
<1>1. /\ TypeOK /\ OneAtATime /\ late' \in {"none", "this", "earlier"}
      /\ rejected' \in Nat /\ rejected' <= MaxCorrections + 1
  BY DEF Inv, TypeOK, LoopInv, CorrectionsBounded
<1>2. accepted' \in Credits
  BY DEF Inv, TypeOK
<1>3. /\ r.status \in {"running", "complete", "blocked", "capped", "budget_exhausted"}
      /\ r.status # "complete" /\ r.complete \in BOOLEAN
  OBVIOUS
<1>. QED  BY <1>1, <1>2, <1>3, ExitInv

LEMMA LaunchInv ==
  ASSUME Inv, Activate \/ EnterLoop \/ WorkerTimesOut \/ Crash
  PROVE  Inv'
<1>. USE DEF Inv, LoopInv, OneAtATime, Working, CallsAllowed, Stopped, OutOfBudget,
             TooManyFailures, Verdict, IsComplete, CorrectionsBounded, seqVars, supVars
<1>1. CASE Activate
  <2>1. /\ FreshRun \in RunType /\ FreshRun.corrections = 0 /\ FreshRun.phase # "stop"
        /\ FreshRun.status = "running" /\ ~FreshRun.complete
    BY DEF FreshRun, RunType
  <2>2. TypeOK'
    BY <1>1, <2>1 DEF Activate, TypeOK
  <2>3. LoopInv'
    BY <1>1, <2>1 DEF Activate
  <2>. QED  BY <2>2, <2>3
<1>2. CASE EnterLoop
  <2>1. TypeOK'
    BY <1>2 DEF EnterLoop, TypeOK
  <2>2. LoopInv'
    BY <1>2 DEF EnterLoop
  <2>. QED  BY <2>1, <2>2
<1>3. CASE WorkerTimesOut
  <2>. DEFINE r == [run EXCEPT !.retries = run.retries + 1]
  <2>0. run \in RunType /\ run' = r /\ run.retries < TimeoutRetries
    BY <1>3 DEF WorkerTimesOut, TypeOK
  <2>1. r \in RunType
    BY <2>0 DEF RunType
  <2>4. /\ r.status = run.status /\ r.phase = run.phase /\ r.complete = run.complete
        /\ r.blocker = run.blocker /\ r.iteration = run.iteration
        /\ r.corrections = run.corrections /\ r.failures = run.failures
    BY <2>0 DEF RunType
  <2>. HIDE DEF r
  <2>2. TypeOK'
    BY <1>3, <2>0, <2>1 DEF WorkerTimesOut, TypeOK
  <2>3. LoopInv'
    BY <1>3, <2>0, <2>4 DEF WorkerTimesOut
  <2>. QED  BY <2>2, <2>3
<1>4. CASE Crash
  <2>1. /\ run.status \in {"running", "complete", "blocked", "capped", "budget_exhausted"}
        /\ run.iteration \in 0..MaxIterations /\ run.complete \in BOOLEAN
    BY DEF TypeOK, RunType
  <2>5. Outcome(run) \in RunType
    BY <2>1, OutcomeTyped
  <2>2. run' \in RunType
    BY <1>4, <2>5 DEF Crash
  <2>6. late' \in {"none", "this", "earlier"}
    BY <1>4 DEF Crash, TypeOK
  <2>7. accepted' = "none" /\ rejected' = 0 /\ guard' = 0 /\ todo' = {}
        /\ seq' = "down" /\ sup' = "off" /\ UNCHANGED <<files, record, stopOnBlocker>>
    BY <1>4 DEF Crash
  <2>8. /\ files' \in [Objectives -> SUBSET Places]
        /\ record' \in [Objectives -> {"none", "in_progress", "complete", "failed"}]
    BY <2>7 DEF TypeOK
  <2>9. stopOnBlocker' \in BOOLEAN /\ accepted' \in Credits
    BY <2>7 DEF TypeOK, Credits
  <2>3. TypeOK'
    BY <2>2, <2>6, <2>7, <2>8, <2>9 DEF TypeOK
  <2>4. LoopInv'
    BY <1>4 DEF Crash
  <2>. QED  BY <2>3, <2>4
<1>. QED  BY <1>1, <1>2, <1>3, <1>4

LEMMA TurnInv ==
  ASSUME Inv, SupervisorAborts \/ Turn
  PROVE  Inv'
<1>1. /\ run \in RunType /\ guard \in 0..HardCap
      /\ sup # "off" /\ run.status = "running" /\ run.complete = FALSE
  BY DEF SupervisorAborts, Turn, Inv, TypeOK, LoopInv, Working, RunType
<1>2. run.iteration \in 0..MaxIterations
  BY <1>1 DEF RunType
<1>3. CASE SupervisorAborts
  <2>1. CASE ExitWith(run)
    BY <1>1, <1>2, <1>3, <2>1, GivesUpInv DEF SupervisorAborts
  <2>2. CASE ExitWith([run EXCEPT !.status = "blocked", !.blocker = TRUE])
    <3>. DEFINE r == [run EXCEPT !.status = "blocked", !.blocker = TRUE]
    <3>1. r.status = "blocked" /\ r.iteration = run.iteration /\ r.complete = run.complete
      BY <1>1 DEF RunType
    <3>. HIDE DEF r
    <3>2. ExitWith(r)
      BY <2>2 DEF r
    <3>. QED  BY <1>1, <1>2, <1>3, <3>1, <3>2, GivesUpInv DEF SupervisorAborts
  <2>. QED  BY <1>3, <2>1, <2>2 DEF SupervisorAborts
<1>4. CASE Turn
  <2>1. CASE ExitWith([FreshRun EXCEPT !.status = "capped", !.blocker = TRUE])
    <3>. DEFINE r == [FreshRun EXCEPT !.status = "capped", !.blocker = TRUE]
    <3>1. r.status = "capped" /\ r.iteration \in 0..MaxIterations /\ r.complete = FALSE
      BY DEF FreshRun
    <3>. HIDE DEF r
    <3>2. ExitWith(r)
      BY <2>1 DEF r
    <3>. QED  BY <1>1, <1>4, <3>1, <3>2, GivesUpInv DEF Turn
  <2>2. CASE ExitWith(run)
    BY <1>1, <1>2, <1>4, <2>2, GivesUpInv DEF Turn
  <2>3. CASE ExitWith([run EXCEPT !.status = "budget_exhausted"])
    <3>. DEFINE r == [run EXCEPT !.status = "budget_exhausted"]
    <3>1. r.status = "budget_exhausted" /\ r.iteration = run.iteration
          /\ r.complete = run.complete
      BY <1>1 DEF RunType
    <3>. HIDE DEF r
    <3>2. ExitWith(r)
      BY <2>3 DEF r
    <3>. QED  BY <1>1, <1>2, <1>4, <3>1, <3>2, GivesUpInv DEF Turn
  <2>4. CASE ExitWith([run EXCEPT !.status = "blocked", !.blocker = TRUE])
    <3>. DEFINE r == [run EXCEPT !.status = "blocked", !.blocker = TRUE]
    <3>1. r.status = "blocked" /\ r.iteration = run.iteration /\ r.complete = run.complete
      BY <1>1 DEF RunType
    <3>. HIDE DEF r
    <3>2. ExitWith(r)
      BY <2>4 DEF r
    <3>. QED  BY <1>1, <1>2, <1>4, <3>1, <3>2, GivesUpInv DEF Turn
  <2>5. CASE /\ guard + 1 <= HardCap /\ ~Stopped /\ ~OutOfBudget /\ ~TooManyFailures
             /\ sup' = "call" /\ guard' = guard + 1
             /\ UNCHANGED <<run, seq>>
    <3>1. TypeOK'
      BY <1>1, <1>4, <2>5 DEF Turn, Inv, TypeOK
    <3>2. LoopInv'
      BY <1>1, <1>4, <2>5 DEF Turn, Inv, LoopInv, OneAtATime, Working, CallsAllowed, Stopped,
        OutOfBudget, TooManyFailures, Verdict, CorrectionsBounded
    <3>. QED  BY <3>1, <3>2 DEF Inv
  <2>. QED  BY <1>4, <2>1, <2>2, <2>3, <2>4, <2>5 DEF Turn
<1>. QED  BY <1>3, <1>4

(* The answers to plan and worker calls, and a review that failed. *)
LEMMA AnswerInv ==
  ASSUME Inv, PlanEnds \/ WorkerEnds \/ ReviewFails
  PROVE  Inv'
<1>1. /\ TypeOK /\ OneAtATime /\ run \in RunType /\ accepted = "none"
      /\ sup \in {"call", "retry"} /\ sup # "off"
      /\ run.status = "running" /\ ~run.complete /\ rejected = run.corrections
      /\ run.corrections <= MaxCorrections
      /\ ~(run.failures > MaxFailures)
  BY DEF PlanEnds, WorkerEnds, ReviewFails, Calling, Inv, TypeOK, LoopInv, Working,
         CallsAllowed, TooManyFailures
<1>2. UNCHANGED <<files, record, todo, stopOnBlocker, accepted, rejected>>
  BY DEF PlanEnds, WorkerEnds, ReviewFails
<1>3. late' \in {"none", "this", "earlier"}
  BY <1>1 DEF PlanEnds, WorkerEnds, ReviewFails, TypeOK
<1>4. accepted' = "none"
  BY <1>1, <1>2 DEF TypeOK
<1>5. CASE Continue(Failed(run))
  BY <1>1, <1>2, <1>3, <1>5, FailedCallInv
<1>6. CASE Continue([run EXCEPT !.phase = "worker"])
  <2>. DEFINE r == [run EXCEPT !.phase = "worker"]
  <2>1. /\ r \in RunType
        /\ r.status = run.status /\ r.phase = "worker" /\ r.complete = run.complete
        /\ r.corrections = run.corrections
    BY <1>1 DEF RunType
  <2>. HIDE DEF r
  <2>2. Continue(r)
    BY <1>6 DEF r
  <2>. QED  BY <1>1, <1>2, <1>3, <1>4, <2>1, <2>2, NextTurnInv
<1>7. ASSUME NEW complete \in BOOLEAN, NEW blocker \in BOOLEAN,
             Continue([run EXCEPT !.failures = IF complete THEN 0 ELSE @ + 1,
                                  !.blocker = @ \/ blocker,
                                  !.phase = "review"])
      PROVE  Inv'
  <2>. DEFINE failures == IF complete THEN 0 ELSE run.failures + 1
              a == [run EXCEPT !.failures = failures]
              b == [a EXCEPT !.blocker = run.blocker \/ blocker]
              c == [b EXCEPT !.phase = "review"]
  <2>1. failures \in 0..(MaxFailures + 1)
    BY <1>1 DEF RunType
  <2>. HIDE DEF failures
  <2>2. a \in RunType /\ a.status = run.status /\ a.complete = run.complete
        /\ a.corrections = run.corrections /\ a.blocker = run.blocker
    BY <1>1, <2>1 DEF RunType
  <2>. HIDE DEF a
  <2>3. b \in RunType /\ b.status = a.status /\ b.complete = a.complete
        /\ b.corrections = a.corrections
    BY <2>2 DEF RunType
  <2>. HIDE DEF b
  <2>4. c \in RunType /\ c.status = b.status /\ c.complete = b.complete
        /\ c.corrections = b.corrections /\ c.phase = "review"
    BY <2>3 DEF RunType
  <2>. HIDE DEF c
  <2>5. Continue(c)
    BY <1>7 DEF a, b, c, failures
  <2>. QED  BY <1>1, <1>2, <1>3, <1>4, <2>2, <2>3, <2>4, <2>5, NextTurnInv
<1>. QED  BY <1>5, <1>6, <1>7 DEF PlanEnds, WorkerEnds, ReviewFails

(* The answer to a review. *)
LEMMA ReviewInv ==
  ASSUME Inv, NEW doc \in Review, ReviewEnds(doc)
  PROVE  Inv'
<1>1. /\ TypeOK /\ OneAtATime /\ run \in RunType /\ accepted = "none"
      /\ sup \in {"call", "retry"} /\ sup # "off"
      /\ run.status = "running" /\ ~run.complete /\ rejected = run.corrections
      /\ run.corrections <= MaxCorrections
      /\ run.iteration < MaxIterations
  BY DEF ReviewEnds, Calling, Inv, TypeOK, LoopInv, Working, CallsAllowed, OutOfBudget, RunType
<1>2. /\ UNCHANGED <<files, record, todo, stopOnBlocker>>
      /\ late' \in {"none", "this", "earlier"}
  BY <1>1 DEF ReviewEnds, TypeOK
<1>3. CASE ~Fresh(doc)
  BY <1>1, <1>2, <1>3, FailedCallInv DEF ReviewEnds
<1>4. CASE Fresh(doc)
  <2>. DEFINE r == [run EXCEPT !.blocker = run.blocker \/ doc.blocker]
              s == Reviewed(r, doc)
  <2>1. r \in RunType /\ r.status = run.status /\ r.complete = run.complete
        /\ r.iteration = run.iteration /\ r.corrections = run.corrections
    BY <1>1 DEF RunType, Review
  <2>. HIDE DEF r
  <2>2. /\ Continue(s)
        /\ rejected' = IF doc.accepted THEN 0 ELSE rejected + 1
    BY <1>4 DEF ReviewEnds, r
  <2>3. doc.accepted /\ doc.complete => accepted' \in Earning
    <3>1. Credit(doc) \in Earning
      BY <1>4 DEF Fresh, Review, Stamps, Credit, Earning
    <3>2. ~(run.blocker /\ stopOnBlocker)
      BY <1>1 DEF Inv, LoopInv, CallsAllowed, Stopped
    <3>. QED  BY <1>4, <3>1, <3>2 DEF ReviewEnds
  <2>4. ~(doc.accepted /\ doc.complete) => accepted' = "none"
    BY <1>4 DEF ReviewEnds
  <2>5. rejected' \in Nat /\ rejected' <= MaxCorrections + 1
    BY <1>1, <2>2 DEF RunType
  <2>6. accepted' \in Credits
    BY <2>3, <2>4 DEF Earning, Credits
  <2>7. ASSUME s.phase = "stop",
               s.status \in {"running", "complete", "blocked"},
               s.iteration \in 0..MaxIterations, s.complete \in BOOLEAN,
               s.status = "complete" \/ s.complete => accepted' \in Earning
        PROVE  Inv'
    <3>1. ExitWith(s)
      BY <2>2, <2>7 DEF Continue
    <3>. HIDE DEF s
    <3>. QED  BY <1>1, <1>2, <2>5, <2>6, <2>7, <3>1, ExitInv
  <2>8. CASE doc.accepted /\ doc.complete
    <3>1. s.phase = "stop" /\ s.status = "complete" /\ s.iteration = r.iteration
          /\ s.complete = TRUE
      BY <2>1, <2>8 DEF Reviewed, RunType
    <3>. HIDE DEF s
    <3>. QED  BY <1>1, <2>1, <2>3, <2>7, <2>8, <3>1 DEF RunType
  <2>9. CASE ~(doc.accepted /\ doc.complete) /\ r.blocker /\ stopOnBlocker
    <3>1. s.phase = "stop" /\ s.status = "blocked" /\ s.iteration = r.iteration
          /\ s.complete = r.complete
      BY <2>1, <2>9 DEF Reviewed, RunType
    <3>. HIDE DEF s
    <3>. QED  BY <1>1, <2>1, <2>7, <3>1 DEF RunType
  <2>10. CASE /\ ~(doc.accepted /\ doc.complete) /\ ~(r.blocker /\ stopOnBlocker)
              /\ doc.accepted
    <3>1. s = AcceptedTask(r)
      BY <2>10 DEF Reviewed
    <3>. HIDE DEF s
    <3>2. s \in RunType /\ s.status = "running" /\ ~s.complete /\ s.phase = "plan"
          /\ s.corrections = 0
      BY <1>1, <2>1, <3>1, AcceptedTyped
    <3>3. rejected' = s.corrections /\ s.corrections <= MaxCorrections /\ s.phase # "stop"
      BY <2>2, <2>10, <3>2
    <3>4. accepted' = "none"
      BY <2>4, <2>10
    <3>. QED  BY <1>1, <1>2, <2>2, <3>2, <3>3, <3>4, NextTurnInv
  <2>11. CASE ~(r.blocker /\ stopOnBlocker) /\ ~doc.accepted
    <3>1. s = Rejected(r)
      BY <2>11 DEF Reviewed
    <3>. HIDE DEF s
    <3>2. s.iteration = run.iteration /\ ~s.complete /\ s.complete \in BOOLEAN
      BY <1>1, <2>1, <3>1, RejectedTyped DEF RunType
    <3>3. CASE s.phase = "stop" /\ s.status = "blocked"
      BY <1>1, <2>7, <3>2, <3>3 DEF RunType
    <3>4. CASE /\ s \in RunType /\ s.phase = "plan" /\ s.status = r.status
               /\ s.corrections = r.corrections + 1 /\ s.corrections <= MaxCorrections
      <4>1. rejected' = s.corrections
        BY <1>1, <2>1, <2>2, <2>11, <3>4
      <4>2. accepted' = "none"
        BY <2>4, <2>11
      <4>. QED  BY <1>1, <1>2, <2>1, <2>2, <3>2, <3>4, <4>1, <4>2, NextTurnInv
    <3>. QED  BY <2>1, <3>1, <3>3, <3>4, RejectedTyped
  <2>. QED  BY <2>8, <2>9, <2>10, <2>11
<1>. QED  BY <1>3, <1>4

LEMMA StepInv == Inv /\ [Next]_vars => Inv'
<1>. SUFFICES ASSUME Inv, [Next]_vars PROVE Inv'
  OBVIOUS
<1>1. CASE UNCHANGED vars
  <2>1. TypeOK'
    BY <1>1 DEF Inv, TypeOK, vars, seqVars, supVars
  <2>2. LoopInv'
    BY <1>1 DEF Inv, LoopInv, OneAtATime, Working, CallsAllowed, Stopped, OutOfBudget,
      TooManyFailures, Verdict, IsComplete, CorrectionsBounded, vars, seqVars, supVars
  <2>. QED  BY <2>1, <2>2 DEF Inv
<1>2. ASSUME \/ StartSequencer \/ Collect \/ EndOfList \/ SkipMissing \/ FinishRecord
             \/ Archive
             \/ \E o \in Objectives : Restore(o) \/ Hold(o) \/ Unhold(o)
      PROVE  Inv'
  BY <1>2, SequencerTyped, SequencerLoopInv DEF Inv
<1>3. CASE Activate \/ EnterLoop \/ WorkerTimesOut \/ Crash
  BY <1>3, LaunchInv
<1>4. CASE SupervisorAborts \/ Turn
  BY <1>4, TurnInv
<1>5. CASE PlanEnds \/ WorkerEnds \/ ReviewFails
  BY <1>5, AnswerInv
<1>6. CASE \E doc \in Review : ReviewEnds(doc)
  BY <1>6, ReviewInv
<1>. QED  BY <1>1, <1>2, <1>3, <1>4, <1>5, <1>6 DEF Next, Controller

THEOREM LoopInvariant == Spec => []Inv
  BY InitInv, StepInv, PTL DEF Spec

(* Every reachable state of the sequencer, the supervisor and their files  *)
(* is well typed, for any limits and any number of objectives: no counter  *)
(* of the loop leaves its range.                                           *)
THEOREM TypeCorrect == Spec => []TypeOK
<1>1. Inv => TypeOK
  BY DEF Inv
<1>. QED  BY <1>1, LoopInvariant, PTL

(* The endless-correction protection of supervisor.js works for every      *)
(* max_corrections_per_task.                                               *)
THEOREM CorrectionsStayBounded == Spec => []CorrectionsBounded
<1>1. Inv => CorrectionsBounded
  BY DEF Inv, LoopInv
<1>. QED  BY <1>1, LoopInvariant, PTL

(* An objective is recorded or filed as complete only on a fresh review    *)
(* that accepted all of it over no blocker: one of its own run or, where   *)
(* freshArtifact cannot tell, one that carries no run_id; never on a late  *)
(* review with the run_id of an earlier run, nor after a killed supervisor. *)
THEOREM CompletionIsEarned == Spec => CompletionEarned
<1>. DEFINE Earned == \A o \in Objectives : Completes(o) => accepted \in Earning
<1>1. Inv /\ [Next]_vars => [Earned]_vars
  <2>. SUFFICES ASSUME Inv, Next, NEW o \in Objectives,
                       \/ "completed" \in files'[o] /\ "completed" \notin files[o]
                       \/ record'[o] = "complete" /\ record[o] # "complete"
                PROVE  accepted \in Earning
    BY DEF Completes
  <2>1. /\ files \in [Objectives -> SUBSET Places]
        /\ record \in [Objectives -> {"none", "in_progress", "complete", "failed"}]
        /\ seq \in {"record", "archive"} /\ IsComplete => accepted \in Earning
    BY DEF Inv, TypeOK, LoopInv, Verdict
  <2>2. CASE FinishRecord
    BY <2>1, <2>2 DEF FinishRecord
  <2>3. CASE Archive
    <3>1. seq = "archive" /\ record' = record
      BY <2>3 DEF Archive
    <3>2. "completed" \in files'[o] /\ "completed" \notin files[o]
      BY <3>1
    <3>3. IsComplete
      BY <2>1, <2>3, <3>2 DEF Archive, Moves
    <3>. QED  BY <2>1, <3>1, <3>3
  <2>4. CASE Activate
    BY <2>1, <2>4 DEF Activate
  <2>5. ASSUME NEW p \in Objectives, Restore(p) \/ Hold(p) \/ Unhold(p)
        PROVE  accepted \in Earning
    <3>1. record' = record
      BY <2>5 DEF Restore, Hold, Unhold
    <3>2. files'[o] \subseteq files[o] \cup {"queue", "held"}
      BY <2>1, <2>5 DEF Restore, Hold, Unhold
    <3>. QED  BY <3>1, <3>2
  <2>6. CASE UNCHANGED <<files, record>>
    BY <2>6
  <2>7. CASE \/ StartSequencer \/ Collect \/ EndOfList \/ SkipMissing
             \/ EnterLoop \/ WorkerTimesOut \/ Crash \/ SupervisorAborts \/ Turn
             \/ PlanEnds \/ WorkerEnds \/ ReviewFails
             \/ \E doc \in Review : ReviewEnds(doc)
    BY <2>6, <2>7 DEF StartSequencer, Collect, EndOfList, SkipMissing, EnterLoop,
      WorkerTimesOut, Crash, SupervisorAborts, Turn, PlanEnds, WorkerEnds, ReviewFails,
      ReviewEnds, seqVars, supVars
  <2>. QED  BY <2>2, <2>3, <2>4, <2>5, <2>7 DEF Next, Controller
<1>. QED  BY <1>1, LoopInvariant, PTL DEF Spec, CompletionEarned, Earning

----------------------------------------------------------------------------
(* The files and the records                                               *)

LEMMA FilesStep == Inv /\ FilesInv /\ [Next]_vars => FilesInv'
<1>. SUFFICES ASSUME Inv, FilesInv, [Next]_vars PROVE FilesInv'
  OBVIOUS
<1>. USE DEF FilesInv, NothingLost, RecordsAgree, Filing
<1>0. /\ files \in [Objectives -> SUBSET Places]
      /\ record \in [Objectives -> {"none", "in_progress", "complete", "failed"}]
  BY DEF Inv, TypeOK
<1>1. CASE Archive
  <2>1. /\ seq' = "choose" /\ seq = "archive" /\ record' = record
    BY <1>1 DEF Archive
  <2>2. ASSUME NEW o \in Objectives
        PROVE  /\ files'[o] # {}
               /\ files'[o] = {"completed"} => record[o] = "complete"
               /\ files'[o] = {"failed"} => record[o] = "failed"
    <3>1. CASE files'[o] = files[o]
      BY <3>1
    <3>2. CASE o = Current /\ files'[o] # files[o]
      <4>. DEFINE dest == IF IsComplete THEN "completed" ELSE "failed"
      <4>1. "queue" \in files[o]
        BY <1>1, <3>2 DEF Archive
      <4>2. files'[o] = (files[o] \ {"queue"}) \cup {dest} \/ files'[o] = files[o] \cup {dest}
        BY <1>0, <1>1, <3>2 DEF Archive, Moves
      <4>3. record[o] = IF IsComplete THEN "complete" ELSE "failed"
        BY <2>1, <3>2
      <4>. QED  BY <4>1, <4>2, <4>3
    <3>. QED  BY <1>0, <1>1, <3>1, <3>2 DEF Archive
  <2>. QED  BY <2>1, <2>2
<1>2. CASE FinishRecord
  <2>1. files' = files /\ todo' = todo /\ run' = run /\ seq = "record" /\ seq' = "archive"
    BY <1>2 DEF FinishRecord, supVars
  <2>2. ASSUME NEW o \in Objectives
        PROVE  /\ o = Current => record'[o] = IF IsComplete THEN "complete" ELSE "failed"
               /\ o # Current => record'[o] = record[o]
    BY <1>0, <1>2 DEF FinishRecord
  <2>3. Current' = Current /\ (IsComplete' <=> IsComplete)
    BY <2>1 DEF Current, IsComplete
  <2>. QED  BY <2>1, <2>2, <2>3
<1>3. CASE Activate
  <2>1. files' = files /\ todo' = todo /\ seq' = "supervise" /\ "queue" \in files[Current]
    BY <1>3 DEF Activate
  <2>2. \A o \in Objectives : o # Current => record'[o] = record[o]
    BY <1>0, <1>3 DEF Activate
  <2>3. Current' = Current
    BY <2>1 DEF Current
  <2>. QED  BY <2>1, <2>2, <2>3
<1>4. ASSUME NEW p \in Objectives, Restore(p) PROVE FilesInv'
  <2>1. record' = record /\ seq' \in {"restore", "down"}
    BY <1>4 DEF Restore
  <2>2. \A o \in Objectives : files'[o] = files[o] \/ "queue" \in files'[o]
    <3>1. CASE files' = [files EXCEPT ![p] = (@ \ {"failed"}) \cup {"queue"}]
      BY <1>0, <3>1
    <3>2. ASSUME NEW copied \in SUBSET {"queue"},
                 files' = [files EXCEPT ![p] = @ \cup copied]
          PROVE  \A o \in Objectives : files'[o] = files[o] \/ "queue" \in files'[o]
      <4>1. copied = {} \/ "queue" \in copied
        BY <3>2
      <4>. QED  BY <1>0, <3>2, <4>1
    <3>. QED  BY <1>4, <3>1, <3>2 DEF Restore
  <2>. QED  BY <2>1, <2>2
<1>5. ASSUME NEW p \in Objectives, Hold(p) \/ Unhold(p) PROVE FilesInv'
  <2>1. record' = record /\ seq' = seq /\ todo' = todo /\ run' = run
    BY <1>5 DEF Hold, Unhold, supVars
  <2>2. \A o \in Objectives : files'[o] = files[o] \/ files'[o] \cap {"queue", "held"} # {}
    BY <1>0, <1>5 DEF Hold, Unhold
  <2>3. Current' = Current /\ (IsComplete' <=> IsComplete)
    BY <2>1 DEF Current, IsComplete
  <2>. QED  BY <2>1, <2>2, <2>3
<1>6. CASE StartSequencer \/ Collect \/ EndOfList \/ SkipMissing \/ Crash
  <2>1. files' = files /\ record' = record /\ seq' \in {"down", "restore", "choose"}
    BY <1>6 DEF StartSequencer, Collect, EndOfList, SkipMissing, Crash
  <2>. QED  BY <2>1
<1>7. CASE \/ EnterLoop \/ WorkerTimesOut \/ SupervisorAborts \/ Turn
           \/ PlanEnds \/ WorkerEnds \/ ReviewFails
           \/ \E doc \in Review : ReviewEnds(doc)
  <2>1. sup # "off"
    BY <1>7 DEF EnterLoop, WorkerTimesOut, SupervisorAborts, Turn, PlanEnds, WorkerEnds,
      ReviewFails, ReviewEnds, Calling
  <2>2. seq = "supervise"
    BY <2>1 DEF Inv, LoopInv, OneAtATime
  <2>3. files' = files /\ record' = record /\ todo' = todo
    BY <1>7 DEF EnterLoop, WorkerTimesOut, SupervisorAborts, Turn, PlanEnds, WorkerEnds,
      ReviewFails, ReviewEnds, seqVars
  <2>4. seq' \in {"supervise", "record"}
    BY <1>7, <2>2 DEF EnterLoop, WorkerTimesOut, SupervisorAborts, Turn, PlanEnds, WorkerEnds,
      ReviewFails, ReviewEnds, seqVars, Continue, ExitWith
  <2>5. Current' = Current
    BY <2>3 DEF Current
  <2>. QED  BY <2>2, <2>3, <2>4, <2>5
<1>8. CASE UNCHANGED vars
  <2>1. /\ files' = files /\ record' = record /\ seq' = seq
        /\ Current' = Current /\ (IsComplete' <=> IsComplete)
    BY <1>8 DEF vars, seqVars, supVars, Current, IsComplete
  <2>. QED  BY <2>1
<1>. QED  BY <1>1, <1>2, <1>3, <1>4, <1>5, <1>6, <1>7, <1>8 DEF Next, Controller

(* Renames and copies that fail, operators who hold objectives back and    *)
(* kills at any point lose no objective.                                   *)
THEOREM NothingIsLost == Spec => []NothingLost
<1>1. Init => FilesInv
  BY DEF Init, FilesInv, NothingLost, RecordsAgree, Filing
<1>2. FilesInv => NothingLost
  BY DEF FilesInv
<1>. QED  BY <1>1, <1>2, FilesStep, LoopInvariant, PTL DEF Spec

(* An objective in one place has the record that belongs there, whatever   *)
(* was killed between the record and the archive.                          *)
THEOREM RecordsStayInAgreement == Spec => []RecordsAgree
<1>1. Init => FilesInv
  BY DEF Init, FilesInv, NothingLost, RecordsAgree, Filing
<1>2. FilesInv => RecordsAgree
  BY DEF FilesInv
<1>. QED  BY <1>1, <1>2, FilesStep, LoopInvariant, PTL DEF Spec
=============================================================================
