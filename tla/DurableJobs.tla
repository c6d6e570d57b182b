---------------------------- MODULE DurableJobs -----------------------------
(***************************************************************************)
(* The durable job store of the Local Brain (durable-job-store.js), the    *)
(* background worker that polls it (jobs/worker.js) and the HTTP routes    *)
(* that mutate it (server.js).                                             *)
(*                                                                         *)
(* The store keeps every job twice: a record in a Map (mem) and one JSON   *)
(* file (disk).  An operation changes the record in the Map first, then    *)
(* validates it against the schema, then writes the file: a record that    *)
(* fails validation, or a write that throws, leaves mem ahead of disk.     *)
(* A restart rebuilds mem from disk.                                       *)
(*                                                                         *)
(* JavaScript runs one turn at a time.  The worker's poll does two store   *)
(* operations in one turn (claim, start), and so does a finished execution *)
(* (fail, retry).  The variable turn holds the second half of such a turn: *)
(* while it is pending no other callback runs, but the process can die.    *)
(*                                                                         *)
(* Time is kept as the time each lease has left, so that it is unbounded.  *)
(***************************************************************************)
EXTENDS Naturals, Sequences, FiniteSets, SequencesExt

CONSTANTS
  Jobs,            \* job identifiers (createJob draws a fresh one)
  AttemptLimits,   \* values of maxAttempts callers ask for
  LeaseTTL,        \* DEFAULT_LEASE_DURATION_MS, in ticks
  NoJob,           \* no job
  DiskFaults,      \* may a write to the jobs directory throw?
  MalformedInput,  \* may a review reason or an error code break the schema?
  AllowStop,       \* does anyone call worker.stop()?  (server.js does not)
  MaxRequeues,     \* bound: review decisions that re-queue one job
  MaxRestarts      \* bound: process restarts

ASSUME JobsAssumption == IsFiniteSet(Jobs) /\ NoJob \notin Jobs
ASSUME LimitsAssumption == AttemptLimits \subseteq Nat \ {0}
ASSUME TTLAssumption == LeaseTTL \in Nat \ {0}
ASSUME FlagsAssumption ==
  DiskFaults \in BOOLEAN /\ MalformedInput \in BOOLEAN /\ AllowStop \in BOOLEAN
ASSUME BoundsAssumption == MaxRequeues \in Nat /\ MaxRestarts \in Nat

VARIABLES
  mem,         \* the Map: job -> record
  disk,        \* the files: job -> record
  order,       \* insertion order of the Map, which listClaimableJobs follows
  started,     \* worker: start() was called and stop() was not
  processing,  \* worker: isProcessing
  execs,       \* polls awaiting runTrack / runWorkflow
  turn,        \* the rest of the synchronous turn under way
  starts,      \* history: how often each job was started
  requeues,    \* history: review decisions that re-queued each job
  restarts     \* history: process restarts

jobVars == <<mem, disk>>
workerVars == <<started, processing, execs, turn>>
history == <<starts, requeues, restarts>>
vars == <<mem, disk, order, started, processing, execs, turn,
          starts, requeues, restarts>>

-----------------------------------------------------------------------------
(* Records *)

Statuses ==
  {"queued", "claimed", "running", "completed", "failed", "cancelled",
   "paused_review"}

TerminalStatuses == {"completed", "failed", "cancelled"}

NoLease == 0    \* a lease holds 1 + the ticks it has left, so 1 is expired

Errors == {"none", "retryable", "fatal", "rejected", "malformed"}

Reviews == {"none", "wellformed", "malformed"}

Record ==
  [status: Statuses \cup {"absent"}, attempt: Nat, maxAttempts: Nat,
   lease: Nat, done: BOOLEAN, result: Nat, error: Errors, review: Reviews]

Exec == [job: Jobs, attempt: Nat, maxAttempts: Nat, run: Nat]

Turn == [at: {"idle", "start", "retry"}, job: Jobs \cup {NoJob}]

Idle == [at |-> "idle", job |-> NoJob]

AbsentRecord ==
  [status |-> "absent", attempt |-> 0, maxAttempts |-> 0, lease |-> NoLease,
   done |-> FALSE, result |-> 0, error |-> "none", review |-> "none"]

(* done stands for timestamps.completedAt # null. *)
NewRecord(limit) ==
  [AbsentRecord EXCEPT !.status = "queued", !.maxAttempts = limit]

Claimed(r) == [r EXCEPT !.status = "claimed", !.lease = LeaseTTL + 1]

Started(r) == [r EXCEPT !.status = "running"]

Completed(r, run) ==
  [r EXCEPT !.status = "completed", !.result = run, !.lease = NoLease,
            !.done = TRUE]

Failed(r, error) ==
  [r EXCEPT !.status = "failed", !.error = error, !.lease = NoLease,
            !.done = TRUE]

(* Mutant: cancelling forgets to release the lease. *)
CancelledWithLease(r) == [r EXCEPT !.status = "cancelled", !.done = TRUE]

Cancelled(r) ==
  [r EXCEPT !.status = "cancelled", !.lease = NoLease, !.done = TRUE]

(* Mutant: a retry that does not count. *)
RetriedForFree(r) ==
  [r EXCEPT !.status = "queued", !.lease = NoLease, !.error = "none",
            !.done = FALSE]

Retried(r) ==
  [r EXCEPT !.status = "queued", !.attempt = @ + 1, !.lease = NoLease,
            !.error = "none", !.done = FALSE]

(* reviewJob: the lease is released on the way to queued and to            *)
(* paused_review, completedAt follows terminal and queued targets only,    *)
(* and a rejection records the error HUMAN_REJECTED.                       *)
Reviewed(r, to, review) ==
  [r EXCEPT
     !.status = to,
     !.done   = IF to \in TerminalStatuses THEN TRUE
                ELSE IF to = "queued" THEN FALSE ELSE @,
     !.lease  = IF to \in {"queued", "paused_review"} THEN NoLease ELSE @,
     !.error  = IF to = "failed" THEN "rejected" ELSE @,
     !.review = review]

(* Mutant: an expired lease is taken for no lease at all. *)
LeaseNeverExpires(r) == r.lease = NoLease

LeaseExpired(r) == r.lease = 1

SchemaValid(r) == r.error # "malformed" /\ r.review # "malformed"

(* Mutant: running jobs can be cancelled. *)
CancellableAnytime(r) == r.status \in {"queued", "claimed", "running"}

Cancellable(r) == r.status \in {"queued", "claimed"}

CanRetry(r) == r.status = "failed" /\ r.attempt + 1 < r.maxAttempts

-----------------------------------------------------------------------------
(* Saving a changed record *)

SaveOutcomes(r) ==
  IF ~SchemaValid(r) THEN {"refused"}
  ELSE IF DiskFaults THEN {"written", "threw"} ELSE {"written"}

(* Mutant: the file is written first, and the Map only when that went well. *)
SaveFileFirst(j, r, outcome) ==
  /\ outcome \in SaveOutcomes(r)
  /\ disk' = [disk EXCEPT ![j] = r]
  /\ mem' = IF outcome = "written" THEN [mem EXCEPT ![j] = r] ELSE mem

(* The Map's record is replaced whatever happens; the file only when the   *)
(* record is valid and the write succeeds.                                 *)
Save(j, r, outcome) ==
  /\ outcome \in SaveOutcomes(r)
  /\ mem' = [mem EXCEPT ![j] = r]
  /\ disk' = IF outcome = "written" THEN [disk EXCEPT ![j] = r] ELSE disk

Outcomes == {"written", "refused", "threw"}

-----------------------------------------------------------------------------
(* HTTP routes: each runs one store operation in a turn of its own *)

(* POST /jobs: the file is written before the Map learns of the job, so a  *)
(* write that throws leaves no trace.                                      *)
CreateJob(j, limit) ==
  /\ turn = Idle
  /\ mem[j].status = "absent" /\ disk[j].status = "absent"
  /\ mem' = [mem EXCEPT ![j] = NewRecord(limit)]
  /\ disk' = [disk EXCEPT ![j] = NewRecord(limit)]
  /\ order' = Append(order, j)
  /\ UNCHANGED <<workerVars, history>>

(* POST /jobs/:id/cancel *)
CancelJob(j, outcome) ==
  /\ turn = Idle
  /\ Cancellable(mem[j])
  /\ Save(j, Cancelled(mem[j]), outcome)
  /\ UNCHANGED <<order, workerVars, history>>

(* POST /jobs/:id/retry *)
RetryJob(j, outcome) ==
  /\ turn = Idle
  /\ CanRetry(mem[j])
  /\ Save(j, Retried(mem[j]), outcome)
  /\ UNCHANGED <<order, workerVars, history>>

ReviewNotes == IF MalformedInput THEN {"wellformed", "malformed"}
                                 ELSE {"wellformed"}

(* POST /jobs/:id/review with an action that does not re-queue the job.    *)
Review(j, from, to, note, outcome) ==
  /\ turn = Idle
  /\ mem[j].status = from
  /\ note \in ReviewNotes
  /\ Save(j, Reviewed(mem[j], to, note), outcome)
  /\ UNCHANGED <<order, workerVars>>

RequestReview(j, note, outcome) ==
  /\ Review(j, "running", "paused_review", note, outcome)
  /\ UNCHANGED history

Reject(j, note, outcome) ==
  /\ Review(j, "paused_review", "failed", note, outcome)
  /\ UNCHANGED history

StopJob(j, note, outcome) ==
  /\ Review(j, "paused_review", "cancelled", note, outcome)
  /\ UNCHANGED history

(* approve and request_correction: both re-queue, neither counts as an     *)
(* attempt.                                                                *)
Requeue(j, note, outcome) ==
  /\ requeues[j] < MaxRequeues
  /\ Review(j, "paused_review", "queued", note, outcome)
  /\ requeues' = [requeues EXCEPT ![j] = @ + 1]
  /\ UNCHANGED <<starts, restarts>>

-----------------------------------------------------------------------------
(* The background worker *)

WorkerStart ==
  /\ turn = Idle
  /\ ~started
  /\ started' = TRUE
  /\ UNCHANGED <<jobVars, order, processing, execs, turn, history>>

(* Mutant: stop() abandons the poll in flight. *)
WorkerStopAbandons ==
  /\ AllowStop
  /\ turn = Idle
  /\ started
  /\ started' = FALSE
  /\ processing' = FALSE
  /\ execs' = {}
  /\ UNCHANGED <<jobVars, order, turn, history>>

(* stop() forgets that a poll is in flight; the poll itself goes on.       *)
WorkerStop ==
  /\ AllowStop
  /\ turn = Idle
  /\ started
  /\ started' = FALSE
  /\ processing' = FALSE
  /\ UNCHANGED <<jobVars, order, execs, turn, history>>

Claimable(j) ==
  \/ mem[j].status = "queued"
  \/ mem[j].status = "claimed" /\ LeaseExpired(mem[j])

(* claimableJobs[0] *)
IsFirstClaimable(j) ==
  \E i \in 1..Len(order) :
    /\ order[i] = j
    /\ Claimable(j)
    /\ \A k \in 1..(i - 1) : ~Claimable(order[k])

(* Mutant: poll() does not look at isProcessing. *)
WorkerAlwaysFree == started

WorkerFree == started /\ ~processing

(* The first half of poll(): list, claim.  A claim that is refused ends    *)
(* the poll; one that throws ends it in the outer catch.                   *)
Poll(j, outcome) ==
  /\ turn = Idle
  /\ WorkerFree
  /\ IsFirstClaimable(j)
  /\ Save(j, Claimed(mem[j]), outcome)
  /\ IF outcome = "written"
     THEN /\ processing' = TRUE
          /\ turn' = [at |-> "start", job |-> j]
     ELSE UNCHANGED <<processing, turn>>
  /\ UNCHANGED <<order, started, execs, history>>

(* The second half: startJob, then the call of the execution path with the *)
(* snapshot of the job taken from the list.                                *)
StartTurn(outcome) ==
  LET j == turn.job IN
  /\ turn.at = "start"
  /\ Save(j, Started(mem[j]), outcome)
  /\ turn' = Idle
  /\ IF outcome = "written"
     THEN /\ starts' = [starts EXCEPT ![j] = @ + 1]
          /\ execs' = execs \cup
               {[job |-> j, attempt |-> mem[j].attempt,
                 maxAttempts |-> mem[j].maxAttempts, run |-> starts[j] + 1]}
          /\ UNCHANGED processing
     ELSE /\ processing' = FALSE
          /\ UNCHANGED <<starts, execs>>
  /\ UNCHANGED <<order, started, requeues, restarts>>

(* Mutant: a status that is not yet completed or failed will do. *)
NotYetSettled(e) == mem[e.job].status \notin {"completed", "failed"}

StillRunning(e) == mem[e.job].status = "running"

(* The execution's promise resolves and its result passes                  *)
(* evaluateExecutionOutcome: completeJob.                                  *)
FinishOk(e, outcome) ==
  /\ turn = Idle
  /\ e \in execs
  /\ StillRunning(e)
  /\ Save(e.job, Completed(mem[e.job], e.run), outcome)
  /\ execs' = execs \ {e}
  /\ processing' = FALSE
  /\ UNCHANGED <<order, started, turn, history>>

(* What the catch path or a failed evaluation hands to failJob: an invalid *)
(* result is never retryable, a thrown error is unless it says otherwise,  *)
(* and a thrown error whose code is a number breaks the schema.            *)
ExecErrors == {"retryable", "fatal"} \cup
              (IF MalformedInput THEN {"malformed"} ELSE {})

(* The execution fails: failJob, and when that was written and the stale   *)
(* snapshot has attempts left, retryJob in the same turn.                  *)
FinishFailed(e, error, outcome) ==
  /\ turn = Idle
  /\ e \in execs
  /\ StillRunning(e)
  /\ Save(e.job, Failed(mem[e.job], error), outcome)
  /\ execs' = execs \ {e}
  /\ IF /\ outcome = "written"
        /\ error = "retryable"
        /\ e.attempt < e.maxAttempts - 1
     THEN /\ turn' = [at |-> "retry", job |-> e.job]
          /\ UNCHANGED processing
     ELSE /\ processing' = FALSE
          /\ UNCHANGED turn
  /\ UNCHANGED <<order, started, history>>

(* The execution ends, but its job is no longer running: completeJob and   *)
(* failJob refuse, and whatever the execution produced is dropped.         *)
FinishDropped(e) ==
  /\ turn = Idle
  /\ e \in execs
  /\ ~StillRunning(e)
  /\ execs' = execs \ {e}
  /\ processing' = FALSE
  /\ UNCHANGED <<jobVars, order, started, turn, history>>

RetryTurn(outcome) ==
  /\ turn.at = "retry"
  /\ CanRetry(mem[turn.job])
  /\ Save(turn.job, Retried(mem[turn.job]), outcome)
  /\ turn' = Idle
  /\ processing' = FALSE
  /\ UNCHANGED <<order, started, execs, history>>

(* MAX_ATTEMPTS_EXCEEDED: the snapshot was older than the record.          *)
RetryTurnRefused ==
  /\ turn.at = "retry"
  /\ ~CanRetry(mem[turn.job])
  /\ turn' = Idle
  /\ processing' = FALSE
  /\ UNCHANGED <<jobVars, order, started, execs, history>>

-----------------------------------------------------------------------------
(* Time and failure *)

Aged(r) == [r EXCEPT !.lease = IF @ > 1 THEN @ - 1 ELSE @]

Tick ==
  /\ \E j \in Jobs : mem[j].lease > 1 \/ disk[j].lease > 1
  /\ mem' = [j \in Jobs |-> Aged(mem[j])]
  /\ disk' = [j \in Jobs |-> Aged(disk[j])]
  /\ UNCHANGED <<order, workerVars, history>>

(* The process dies and the next one loads the files, in directory order.  *)
Restart ==
  /\ restarts < MaxRestarts
  /\ restarts' = restarts + 1
  /\ mem' = disk
  /\ order' \in SetToSeqs({j \in Jobs : disk[j].status # "absent"})
  /\ started' = FALSE
  /\ processing' = FALSE
  /\ execs' = {}
  /\ turn' = Idle
  /\ UNCHANGED <<disk, starts, requeues>>

-----------------------------------------------------------------------------

Init ==
  /\ mem = [j \in Jobs |-> AbsentRecord]
  /\ disk = [j \in Jobs |-> AbsentRecord]
  /\ order = <<>>
  /\ started = FALSE
  /\ processing = FALSE
  /\ execs = {}
  /\ turn = Idle
  /\ starts = [j \in Jobs |-> 0]
  /\ requeues = [j \in Jobs |-> 0]
  /\ restarts = 0

Operator ==
  \E j \in Jobs :
    \/ \E limit \in AttemptLimits : CreateJob(j, limit)
    \/ \E out \in Outcomes : CancelJob(j, out) \/ RetryJob(j, out)
    \/ \E note \in ReviewNotes, out \in Outcomes :
         \/ RequestReview(j, note, out)
         \/ Reject(j, note, out)
         \/ StopJob(j, note, out)
         \/ Requeue(j, note, out)

Finish ==
  \E e \in execs :
    \/ \E out \in Outcomes : FinishOk(e, out)
    \/ \E error \in ExecErrors, out \in Outcomes : FinishFailed(e, error, out)
    \/ FinishDropped(e)

PollAny == \E j \in Jobs, out \in Outcomes : Poll(j, out)

EndTurn == (\E out \in Outcomes : StartTurn(out) \/ RetryTurn(out))
           \/ RetryTurnRefused

Next ==
  \/ Operator
  \/ WorkerStart
  \/ WorkerStop
  \/ PollAny
  \/ EndTurn
  \/ Finish
  \/ Tick
  \/ Restart

Spec == Init /\ [][Next]_vars

(* The server starts the worker once it listens, the interval timer polls  *)
(* for ever, a synchronous turn runs to its end, time passes, and every    *)
(* execution settles (the runtime calls carry timeouts).  Nothing is       *)
(* assumed of the operator or of restarts.                                 *)
Fairness ==
  /\ WF_vars(WorkerStart)
  /\ WF_vars(PollAny)
  /\ WF_vars(EndTurn)
  /\ WF_vars(Finish)
  /\ WF_vars(Tick)

FairSpec == Spec /\ Fairness

-----------------------------------------------------------------------------
(* Properties *)

TypeOK ==
  /\ mem \in [Jobs -> Record]
  /\ disk \in [Jobs -> Record]
  /\ order \in Seq(Jobs)
  /\ started \in BOOLEAN
  /\ processing \in BOOLEAN
  /\ execs \subseteq Exec
  /\ turn \in Turn
  /\ turn.at # "idle" => turn.job \in Jobs
  /\ starts \in [Jobs -> Nat]
  /\ requeues \in [Jobs -> Nat]
  /\ restarts \in Nat

(* What durable-job.schema.json says of a record but cannot express: the   *)
(* lease is there exactly while the job is claimed or running, completedAt *)
(* exactly in a terminal status, an error exactly on a failed job, a       *)
(* result exactly on a completed one; attempts stay below their limit.     *)
Coherent(r) ==
  /\ r.lease # NoLease <=> r.status \in {"claimed", "running"}
  /\ r.done <=> r.status \in TerminalStatuses
  /\ r.error # "none" <=> r.status = "failed"
  /\ r.result # 0 <=> r.status = "completed"
  /\ r.status # "absent" => r.attempt < r.maxAttempts

(* Both copies of every job are coherent, whatever sequence of worker,     *)
(* operator and review operations, refused saves, failed writes and        *)
(* restarts led there.                                                     *)
RecordsCoherent == \A j \in Jobs : Coherent(mem[j]) /\ Coherent(disk[j])

(* The Map is never behind the files: a job whose file says completed or   *)
(* cancelled is that in memory too, and no file shows an attempt the Map   *)
(* has not reached.  A restart therefore only ever takes a job back.       *)
DiskNeverAhead ==
  \A j \in Jobs :
    /\ disk[j].attempt <= mem[j].attempt
    /\ disk[j].status \in {"completed", "cancelled"} => mem[j] = disk[j]

(* A completed or cancelled job's file is final: no retry, no zombie       *)
(* execution, no review and no restart rewrites it.                        *)
FinalRecordsKept ==
  [][\A j \in Jobs :
       disk[j].status \in {"completed", "cancelled"} => disk'[j] = disk[j]]_vars

(* The outcome a job gets is that of the latest run of it: no execution    *)
(* that was started earlier decides a job that has been started again.     *)
LatestRunDecides ==
  [][\A e \in execs \ execs' :
       /\ mem[e.job].status = "running"
       /\ mem'[e.job].status # "running"
       /\ restarts' = restarts
       => e.run = starts[e.job]]_vars

(* maxAttempts bounds the runs of a job up to the decisions of reviewers:  *)
(* every run is the first, or was paid for by an attempt, or follows an    *)
(* approve or request_correction.                                          *)
RunsAccounted ==
  \A j \in Jobs : starts[j] <= mem[j].attempt + 1 + requeues[j]

(* While the process lives, a job whose start was written is running only  *)
(* as long as the execution started last for it is in flight, whoever      *)
(* stops and starts the worker: none is left running with nobody to        *)
(* complete or fail it.  (A start that could not be written leaves the job *)
(* running in memory alone, without an execution.)                         *)
RunningHasExecution ==
  restarts = 0 =>
    \A j \in Jobs : mem[j].status = "running" /\ disk[j].status = "running" =>
      \E e \in execs : e.job = j /\ e.run = starts[j]

(* The records on disk follow the promised lifecycle.                      *)
Abstract ==
  INSTANCE JobLifecycle WITH
    status  <- [j \in Jobs |-> disk[j].status],
    attempt <- [j \in Jobs |-> disk[j].attempt],
    limit   <- [j \in Jobs |-> disk[j].maxAttempts]

Lifecycle == Abstract!Spec

(* Every queued job is eventually taken by the worker or cancelled: it     *)
(* does not starve behind the jobs inserted before it.  And a claim is     *)
(* never the last word: the run starts or the lease expires, also when the *)
(* server restarts or the run fails before it has begun.                   *)
JobsMoveOn ==
  \A j \in Jobs : /\ mem[j].status = "queued" ~> mem[j].status # "queued"
                 /\ mem[j].status = "claimed" ~> mem[j].status # "claimed"
=============================================================================
