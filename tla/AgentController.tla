--------------------------- MODULE AgentController ---------------------------
(***************************************************************************)
(* The controller of the agents that build the project                     *)
(* (.opencode/agents/controller): sequencer.js takes the queued objectives *)
(* one after the other, gives each to a supervisor.js of its own, and      *)
(* files it under completed/ or failed/ according to the run state the     *)
(* supervisor left.  The supervisor drives plan, worker and review calls   *)
(* of an agent CLI and owns state/run-state.json.                          *)
(*                                                                         *)
(* The agents answer anything, or nothing; a call that timed out may go on *)
(* and write its review during a later one (on Windows only its shell is   *)
(* killed).  Renames and copies fail, the operator holds objectives back,  *)
(* and both processes may be killed at any point and started again.        *)
(***************************************************************************)
EXTENDS Integers, FiniteSets, FiniteSetsExt

CONSTANTS
  ObjectiveCount,  \* objectives are numbered in the order of their file names
  Holdable,        \* those the operator may take out of the queue
  MaxIterations, MaxCorrections, MaxFailures, TimeoutRetries   \* cfg.loop

ASSUME LimitsAssumption ==
  /\ ObjectiveCount \in Nat
  /\ Holdable \subseteq 1..ObjectiveCount
  /\ MaxIterations \in Nat \ {0}
  /\ MaxCorrections \in Nat /\ MaxFailures \in Nat /\ TimeoutRetries \in Nat

Objectives == 1..ObjectiveCount
Places == {"queue", "completed", "failed", "held"}
HardCap == MaxIterations * 4 + 8

VARIABLES
  files,          \* where the file of each objective is; a copy may be left behind
  record,         \* status of its milestone record
  seq, todo,      \* the sequencer: its phase, the rest of the list it collected
  stopOnBlocker,  \* cfg.loop.stop_on_blocker
  sup, guard,     \* the supervisor: off, or where in its loop; its turns
  run,            \* state/run-state.json
  late,           \* whether a review call that timed out may still be alive,
                  \* and of which run_id it is
  accepted,       \* history: what accepted the whole objective in this run
  rejected        \* history: rejections since the task was last accepted

seqVars == <<files, record, seq, todo>>
supVars == <<sup, guard, run, late, accepted, rejected>>
vars == <<seqVars, stopOnBlocker, supVars>>

(* what the sequencer writes, and the supervisor reads first *)
FreshRun ==
  [status |-> "running", phase |-> "plan", iteration |-> 0, corrections |-> 0,
   failures |-> 0, retries |-> 0, blocker |-> FALSE, complete |-> FALSE]

RunType ==
  [status : {"running", "complete", "blocked", "capped", "budget_exhausted"},
   phase : {"plan", "worker", "review", "stop"},
   iteration : 0..MaxIterations, corrections : 0..(MaxCorrections + 1),
   failures : 0..(MaxFailures + 1), retries : 0..TimeoutRetries,
   blocker : BOOLEAN, complete : BOOLEAN]

(* What is read of state/latest-review.json: whose call wrote it, whether   *)
(* its stamps (run_id; iteration and task) are those of the running one,    *)
(* and the verdict.  The agents are asked to stamp and may leave it out or  *)
(* err, but none knows a run_id it was not given.                           *)
Stamps == {"this", "other", "absent"}
Review ==
  {doc \in [from : {"this", "earlier"}, run : Stamps, turn : Stamps,
            accepted : BOOLEAN, complete : BOOLEAN, blocker : BOOLEAN] :
     doc.from = "earlier" => doc.run # "this"}

(* Whose review it was: one of an earlier run either carries its run_id or  *)
(* has none.                                                                *)
Credits == {"none", "own", "unstamped", "foreign"}
Credit(doc) ==
  IF doc.from = "this" THEN "own"
  ELSE IF doc.run = "absent" THEN "unstamped" ELSE "foreign"

Init ==
  /\ files = [o \in Objectives |-> {"queue"}]
  /\ record = [o \in Objectives |-> "none"]
  /\ seq = "down" /\ todo = {}
  /\ stopOnBlocker \in BOOLEAN
  /\ sup = "off" /\ guard = 0 /\ run = FreshRun
  /\ late = "none"
  /\ accepted = "none" /\ rejected = 0

Current == Min(todo)

----------------------------------------------------------------------------
(* The sequencer up to the launch of a supervisor                          *)

StartSequencer ==
  /\ seq = "down"
  /\ seq' = "restore"
  /\ UNCHANGED <<files, record, todo, stopOnBlocker, supVars>>

(* A file of failed/ goes back to the queue by rename, else by copy and    *)
(* unlink; when these fail too the sequencer exits.                        *)
Restore(o) ==
  /\ seq = "restore"
  /\ "failed" \in files[o]
  /\ \/ /\ files' = [files EXCEPT ![o] = (@ \ {"failed"}) \cup {"queue"}]
        /\ seq' = seq
     \/ /\ \E copied \in SUBSET {"queue"} :
             files' = [files EXCEPT ![o] = @ \cup copied]
        /\ seq' = "down"
  /\ UNCHANGED <<record, todo, stopOnBlocker, supVars>>

Collect ==
  /\ seq = "restore"
  /\ \A o \in Objectives : "failed" \notin files[o]
  /\ todo' = {o \in Objectives : "queue" \in files[o]}
  /\ seq' = IF todo' = {} THEN "down" ELSE "choose"
  /\ UNCHANGED <<files, record, stopOnBlocker, supVars>>

(* The list is done, or the base branch cannot be checked out again, which *)
(* ends the loop early.                                                    *)
EndOfList ==
  /\ seq = "choose"
  /\ seq' = "down" /\ todo' = {}
  /\ UNCHANGED <<files, record, stopOnBlocker, supVars>>

SkipMissing ==
  /\ seq = "choose" /\ todo # {}
  /\ "queue" \notin files[Current]
  /\ todo' = todo \ {Current}
  /\ UNCHANGED <<files, record, seq, stopOnBlocker, supVars>>

Activate ==
  /\ seq = "choose" /\ todo # {}
  /\ "queue" \in files[Current]
  /\ record' = [record EXCEPT ![Current] = "in_progress"]
  /\ run' = FreshRun
  /\ seq' = "supervise" /\ sup' = "start"
  /\ late' = IF late = "this" THEN "earlier" ELSE late
  /\ UNCHANGED <<files, todo, stopOnBlocker, guard, accepted, rejected>>

----------------------------------------------------------------------------
(* The supervisor                                                          *)

(* What matters of a state file once its supervisor is gone: the sequencer *)
(* looks at nothing else, and the next supervisor starts from FreshRun.    *)
Outcome(r) ==
  [FreshRun EXCEPT !.status = r.status, !.iteration = r.iteration, !.complete = r.complete]

(* it exits, and the sequencer goes on with the state file r it left *)
ExitWith(r) == run' = Outcome(r) /\ sup' = "off" /\ guard' = 0 /\ seq' = "record"

(* the state r is written; "stop" ends the loop, else it takes a next turn *)
Continue(r) ==
  IF r.phase = "stop"
  THEN ExitWith(r)
  ELSE run' = r /\ sup' = "loop" /\ UNCHANGED <<guard, seq>>

(* startGitBoundary passes and the state gets a run_id *)
EnterLoop ==
  /\ sup = "start"
  /\ sup' = "loop"
  /\ UNCHANGED <<seqVars, stopOnBlocker, guard, run, late, accepted, rejected>>

(* The catch clause of main (a branch it may not work on, a log it cannot  *)
(* write) marks the run blocked; a killed supervisor leaves it as it was.  *)
SupervisorAborts ==
  /\ sup # "off"
  /\ \/ ExitWith([run EXCEPT !.status = "blocked", !.blocker = TRUE])
     \/ ExitWith(run)
  /\ UNCHANGED <<files, record, todo, stopOnBlocker, late, accepted, rejected>>

Stopped ==
  \/ run.status \in {"complete", "blocked"}
  \/ run.blocker /\ stopOnBlocker

OutOfBudget == run.iteration >= MaxIterations

TooManyFailures == run.failures > MaxFailures

(* A turn of the loop.  The hard cap writes st, the state read before the  *)
(* loop; the other exits write the current one, or nothing.                *)
Turn ==
  /\ sup = "loop"
  /\ \/ /\ guard + 1 > HardCap
        /\ ExitWith([FreshRun EXCEPT !.status = "capped", !.blocker = TRUE])
     \/ /\ guard + 1 <= HardCap
        /\ \/ Stopped /\ ExitWith(run)
           \/ /\ ~Stopped /\ OutOfBudget
              /\ ExitWith([run EXCEPT !.status = "budget_exhausted"])
           \/ /\ ~Stopped /\ ~OutOfBudget /\ TooManyFailures
              /\ ExitWith([run EXCEPT !.status = "blocked", !.blocker = TRUE])
           \/ /\ ~Stopped /\ ~OutOfBudget /\ ~TooManyFailures
              /\ sup' = "call" /\ guard' = guard + 1
              /\ UNCHANGED <<run, seq>>
  /\ UNCHANGED <<files, record, todo, stopOnBlocker, late, accepted, rejected>>

Calling(phase) == sup \in {"call", "retry"} /\ run.phase = phase

(* a call that failed, timed out, or left no artifact with the right stamps *)
Failed(r) == [r EXCEPT !.failures = @ + 1, !.blocker = TRUE]

(* reconcileAfterPlan: a new task, or an unchanged or unusable task file *)
PlanEnds ==
  /\ Calling("plan")
  /\ \/ Continue([run EXCEPT !.phase = "worker"])
     \/ Continue(Failed(run))
  /\ UNCHANGED <<files, record, todo, stopOnBlocker, late, accepted, rejected>>

(* MUTANT of WorkerTimesOut: the retries are not counted *)
RetryUncounted ==
  /\ sup = "call" /\ run.phase = "worker"
  /\ run.retries < TimeoutRetries
  /\ sup' = "loop" /\ guard' = guard - 1
  /\ UNCHANGED <<seqVars, run, stopOnBlocker, late, accepted, rejected>>

(* the first call of a turn timed out, and the objective has a retry left *)
WorkerTimesOut ==
  /\ sup = "call" /\ run.phase = "worker"
  /\ run.retries < TimeoutRetries
  /\ run' = [run EXCEPT !.retries = @ + 1]
  /\ sup' = "retry"
  /\ UNCHANGED <<seqVars, stopOnBlocker, guard, late, accepted, rejected>>

(* reconcileAfterWorker: the worker's own verdict moves the failure count; *)
(* a blocker is its own or a breach of the git boundary.                   *)
WorkerEnds ==
  /\ Calling("worker")
  /\ \/ \E complete, blocker \in BOOLEAN :
          Continue([run EXCEPT !.failures = IF complete THEN 0 ELSE @ + 1,
                               !.blocker = @ \/ blocker,
                               !.phase = "review"])
     \/ Continue(Failed(run))
  /\ UNCHANGED <<files, record, todo, stopOnBlocker, late, accepted, rejected>>

(* MUTANT of Fresh: the run_id is not compared *)
FreshOfAnyRun(doc) == doc.turn # "other"

(* freshArtifact: a stamp that is there must be right; the artifact was     *)
(* cleared before the call, so that there is one at all.                    *)
Fresh(doc) == doc.run # "other" /\ doc.turn # "other"

Rejected(r) ==
  IF r.corrections + 1 > MaxCorrections \/ r.failures + 1 > MaxFailures
  THEN [Failed(r) EXCEPT !.corrections = @ + 1, !.status = "blocked", !.phase = "stop"]
  ELSE [r EXCEPT !.corrections = @ + 1, !.failures = @ + 1, !.phase = "plan"]

AcceptedTask(r) ==
  [r EXCEPT !.iteration = @ + 1, !.corrections = 0, !.failures = 0, !.phase = "plan"]

(* reconcileAfterReview of a fresh review *)
Reviewed(r, doc) ==
  IF doc.accepted /\ doc.complete
  THEN [r EXCEPT !.complete = TRUE, !.status = "complete", !.phase = "stop"]
  ELSE IF r.blocker /\ stopOnBlocker
  THEN [r EXCEPT !.status = "blocked", !.phase = "stop"]
  ELSE IF doc.accepted THEN AcceptedTask(r) ELSE Rejected(r)

(* the review came from this call, or from one that timed out before *)
ReviewEnds(doc) ==
  /\ Calling("review")
  /\ doc.from = "earlier" => late = "earlier"
  /\ IF Fresh(doc)
     THEN /\ Continue(Reviewed([run EXCEPT !.blocker = @ \/ doc.blocker], doc))
          /\ accepted' = IF /\ doc.accepted /\ doc.complete
                            /\ ~(run.blocker /\ stopOnBlocker)
                         THEN Credit(doc) ELSE "none"
          /\ rejected' = IF doc.accepted THEN 0 ELSE rejected + 1
     ELSE Continue(Failed(run)) /\ UNCHANGED <<accepted, rejected>>
  /\ UNCHANGED <<files, record, todo, stopOnBlocker, late>>

ReviewFails ==
  /\ Calling("review")
  /\ late' \in {late, "this"}
  /\ Continue(Failed(run))
  /\ UNCHANGED <<files, record, todo, stopOnBlocker, accepted, rejected>>

----------------------------------------------------------------------------
(* The sequencer after the supervisor                                      *)

IsComplete == run.status = "complete" \/ run.complete

(* MUTANT of FinishRecord: whatever is not blocked is recorded as complete *)
FinishUnlessBlocked ==
  /\ seq = "record"
  /\ record' = [record EXCEPT ![Current] =
                  IF run.status # "blocked" THEN "complete" ELSE "failed"]
  /\ seq' = "archive"
  /\ UNCHANGED <<files, todo, stopOnBlocker, supVars>>

(* markMilestoneComplete or markMilestoneFailed *)
FinishRecord ==
  /\ seq = "record"
  /\ record' = [record EXCEPT ![Current] = IF IsComplete THEN "complete" ELSE "failed"]
  /\ seq' = "archive"
  /\ UNCHANGED <<files, todo, stopOnBlocker, supVars>>

(* MUTANT of Moves: the source is unlinked although the copy failed *)
MovesOrLoses(at, dest) ==
  {(at \ {"queue"}) \cup {dest}, at \cup {dest}, at, at \ {"queue"}}

(* rename, else copy and unlink: moved, left behind as a copy, or not moved *)
Moves(at, dest) == {(at \ {"queue"}) \cup {dest}, at \cup {dest}, at}

Archive ==
  /\ seq = "archive"
  /\ IF "queue" \in files[Current]
     THEN \E at \in Moves(files[Current], IF IsComplete THEN "completed" ELSE "failed") :
            files' = [files EXCEPT ![Current] = at]
     ELSE UNCHANGED files
  /\ todo' = todo \ {Current}
  /\ seq' = "choose"
  /\ accepted' = "none" /\ rejected' = 0
  /\ UNCHANGED <<record, stopOnBlocker, sup, guard, run, late>>

----------------------------------------------------------------------------
(* The surroundings                                                        *)

(* both processes are killed; a review call may survive them *)
Crash ==
  /\ seq # "down"
  /\ seq' = "down" /\ todo' = {} /\ sup' = "off" /\ guard' = 0 /\ run' = Outcome(run)
  /\ late' \in IF Calling("review") THEN {late, "this"} ELSE {late}
  /\ accepted' = "none" /\ rejected' = 0
  /\ UNCHANGED <<files, record, stopOnBlocker>>

(* the operator moves a queued file away, and back, by hand *)
Hold(o) ==
  /\ o \in Holdable
  /\ "queue" \in files[o]
  /\ files' = [files EXCEPT ![o] = (@ \ {"queue"}) \cup {"held"}]
  /\ UNCHANGED <<record, seq, todo, stopOnBlocker, supVars>>

Unhold(o) ==
  /\ "held" \in files[o]
  /\ files' = [files EXCEPT ![o] = (@ \ {"held"}) \cup {"queue"}]
  /\ UNCHANGED <<record, seq, todo, stopOnBlocker, supVars>>

Controller ==
  \/ \E o \in Objectives : Restore(o)
  \/ Collect \/ EndOfList \/ SkipMissing \/ Activate
  \/ EnterLoop \/ Turn
  \/ PlanEnds \/ WorkerTimesOut \/ WorkerEnds
  \/ (\E doc \in Review : ReviewEnds(doc)) \/ ReviewFails
  \/ FinishRecord \/ Archive

Next ==
  \/ StartSequencer
  \/ Controller
  \/ SupervisorAborts
  \/ Crash
  \/ \E o \in Objectives : Hold(o) \/ Unhold(o)

Spec == Init /\ [][Next]_vars

(* A running sequencer goes on, and every call it waits for ends: the CLI  *)
(* is run with a timeout.  Nothing makes the operator start it.            *)
FairSpec == Spec /\ WF_vars(Controller)

----------------------------------------------------------------------------
TypeOK ==
  /\ files \in [Objectives -> SUBSET Places]
  /\ record \in [Objectives -> {"none", "in_progress", "complete", "failed"}]
  /\ seq \in {"down", "restore", "choose", "supervise", "record", "archive"}
  /\ todo \subseteq Objectives
  /\ stopOnBlocker \in BOOLEAN
  /\ sup \in {"off", "start", "loop", "call", "retry"}
  /\ guard \in 0..HardCap
  /\ run \in RunType
  /\ late \in {"none", "this", "earlier"}
  /\ accepted \in Credits
  /\ rejected \in Nat

Completes(o) ==
  \/ "completed" \in files'[o] \ files[o]
  \/ record'[o] = "complete" /\ record[o] # "complete"

(* An objective is recorded as complete, or filed under completed/, only   *)
(* when one review accepted the whole of it and, where blockers stop the   *)
(* run, no blocker had been raised before.  That review is of this run, or *)
(* it carried no run_id: a late review of an earlier run that carries its  *)
(* run_id completes nothing.                                               *)
CompletionEarned ==
  [][\A o \in Objectives : Completes(o) => accepted \in {"own", "unstamped"}]_vars

(* What the header of supervisor.js says of its run_id matching: "stale    *)
(* artifacts are rejected so a failed CLI call can't masquerade as a fresh *)
(* success".  A review of an earlier run completes nothing.                *)
StaleReviewsRejected ==
  [][\A o \in Objectives : Completes(o) => accepted = "own"]_vars

(* Whatever fails, is killed or is held back, every objective keeps a file *)
(* in one of the directories.                                              *)
NothingLost == \A o \in Objectives : files[o] # {}

(* An objective that is filed in one place has a record that agrees.       *)
RecordsAgree ==
  \A o \in Objectives :
    /\ files[o] = {"completed"} => record[o] = "complete"
    /\ files[o] = {"failed"} => record[o] = "failed"

(* The supervisor header promises endless-correction protection: a task is *)
(* never sent back more often than max_corrections_per_task allows, with   *)
(* every reset of the other counters in between.                           *)
CorrectionsBounded == rejected <= MaxCorrections + 1

(* A sequencer that runs comes to its end, whatever the agents answer.     *)
SequencerEnds == (seq # "down") ~> (seq = "down")
=============================================================================
