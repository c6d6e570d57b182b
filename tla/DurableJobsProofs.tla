------------------------- MODULE DurableJobsProofs --------------------------
(***************************************************************************)
(* Theorems about DurableJobs, for any finite set of jobs, any limits and  *)
(* lease duration, with or without failing writes, malformed input, worker *)
(* stops and restarts, unless a theorem says otherwise.                    *)
(***************************************************************************)
EXTENDS DurableJobs, FiniteSetTheorems, SequenceTheorems, TLAPS

(* The helpers that build records yield records. *)
LEMMA BuildersTyped ==
  ASSUME NEW r \in Record
  PROVE  /\ Claimed(r) \in Record
         /\ Started(r) \in Record
         /\ Cancelled(r) \in Record
         /\ Retried(r) \in Record
         /\ Aged(r) \in Record
         /\ \A run \in Nat : Completed(r, run) \in Record
         /\ \A error \in Errors : Failed(r, error) \in Record
         /\ \A to \in Statuses, note \in Reviews : Reviewed(r, to, note) \in Record
<1> USE TTLAssumption DEF Record, Statuses, Errors, Reviews, NoLease
<1>1. Claimed(r) \in Record /\ Started(r) \in Record /\ Cancelled(r) \in Record
  <2>1. LeaseTTL + 1 \in Nat
    BY TTLAssumption
  <2>2. Claimed(r) \in Record
    BY <2>1 DEF Claimed
  <2>3. Started(r) \in Record
    BY DEF Started
  <2>4. Cancelled(r) \in Record
    BY DEF Cancelled
  <2>5. QED
    BY <2>2, <2>3, <2>4
<1>2. Retried(r) \in Record
  <2>1. r.attempt + 1 \in Nat
    OBVIOUS
  <2>2. QED
    BY <2>1 DEF Retried
<1>3. Aged(r) \in Record
  BY DEF Aged
<1>4. \A run \in Nat : Completed(r, run) \in Record
  BY DEF Completed
<1>5. \A error \in Errors : Failed(r, error) \in Record
  BY DEF Failed
<1>6. ASSUME NEW to \in Statuses, NEW note \in Reviews
      PROVE  Reviewed(r, to, note) \in Record
  <2> DEFINE d == IF to \in TerminalStatuses THEN TRUE
                  ELSE IF to = "queued" THEN FALSE ELSE r.done
             l == IF to \in {"queued", "paused_review"} THEN NoLease ELSE r.lease
             e == IF to = "failed" THEN "rejected" ELSE r.error
  <2>1. Reviewed(r, to, note) =
          [r EXCEPT !.status = to, !.done = d, !.lease = l, !.error = e,
                    !.review = note]
    BY DEF Reviewed
  <2>2. d \in BOOLEAN /\ l \in Nat /\ e \in Errors
    OBVIOUS
  <2> HIDE DEF d, l, e
  <2>3. QED
    BY <2>1, <2>2
<1>7. QED
  BY <1>1, <1>2, <1>3, <1>4, <1>5, <1>6

LEMMA NewRecordTyped ==
  AbsentRecord \in Record /\ \A limit \in AttemptLimits : NewRecord(limit) \in Record
BY LimitsAssumption
   DEF AbsentRecord, NewRecord, Record, Statuses, Errors, Reviews, NoLease

(* A save keeps both copies typed. *)
LEMMA SaveTyped ==
  ASSUME TypeOK, NEW j \in Jobs, NEW r \in Record, NEW out, Save(j, r, out)
  PROVE  mem' \in [Jobs -> Record] /\ disk' \in [Jobs -> Record]
BY DEF TypeOK, Save

(* The order in which a restarted store lists its jobs. *)
LEMMA LoadedOrderTyped ==
  ASSUME NEW D \in SUBSET Jobs, NEW s \in SetToSeqs(D)
  PROVE  s \in Seq(Jobs)
<1>1. IsFiniteSet(D)
  BY JobsAssumption, FS_Subset
<1>2. Cardinality(D) \in Nat
  BY <1>1, FS_CardinalityType
<1>3. s \in [1..Cardinality(D) -> D]
  BY DEF SetToSeqs
<1>4. s \in Seq(D)
  BY <1>2, <1>3
<1>5. QED
  BY <1>4

-----------------------------------------------------------------------------

LEMMA TypeInit == Init => TypeOK
<1> SUFFICES ASSUME Init PROVE TypeOK
  OBVIOUS
<1>1. mem \in [Jobs -> Record] /\ disk \in [Jobs -> Record]
  BY NewRecordTyped DEF Init
<1>2. order \in Seq(Jobs)
  BY DEF Init
<1>3. turn \in Turn /\ turn.at = "idle"
  BY DEF Init, Turn, Idle
<1>4. QED
  BY <1>1, <1>2, <1>3 DEF Init, TypeOK

LEMMA TypeOperator == TypeOK /\ Operator => TypeOK'
<1> SUFFICES ASSUME TypeOK, NEW j \in Jobs,
                    \/ \E limit \in AttemptLimits : CreateJob(j, limit)
                    \/ \E out \in Outcomes : CancelJob(j, out) \/ RetryJob(j, out)
                    \/ \E note \in ReviewNotes, out \in Outcomes :
                         \/ RequestReview(j, note, out)
                         \/ Reject(j, note, out)
                         \/ StopJob(j, note, out)
                         \/ Requeue(j, note, out)
             PROVE  TypeOK'
  BY DEF Operator
<1>1. ASSUME NEW limit \in AttemptLimits, CreateJob(j, limit)
      PROVE  TypeOK'
  BY <1>1, NewRecordTyped DEF CreateJob, TypeOK, workerVars, history
<1>2. ASSUME NEW out \in Outcomes, CancelJob(j, out)
      PROVE  TypeOK'
  <2>1. Cancelled(mem[j]) \in Record
    BY BuildersTyped DEF TypeOK
  <2>2. mem' \in [Jobs -> Record] /\ disk' \in [Jobs -> Record]
    BY <1>2, <2>1, SaveTyped DEF CancelJob
  <2>3. QED
    BY <1>2, <2>2 DEF CancelJob, TypeOK, workerVars, history
<1>3. ASSUME NEW out \in Outcomes, RetryJob(j, out)
      PROVE  TypeOK'
  <2>1. Retried(mem[j]) \in Record
    BY BuildersTyped DEF TypeOK
  <2>2. mem' \in [Jobs -> Record] /\ disk' \in [Jobs -> Record]
    BY <1>3, <2>1, SaveTyped DEF RetryJob
  <2>3. QED
    BY <1>3, <2>2 DEF RetryJob, TypeOK, workerVars, history
<1>4. ASSUME NEW note \in ReviewNotes, NEW out \in Outcomes,
             RequestReview(j, note, out) \/ Reject(j, note, out)
             \/ StopJob(j, note, out) \/ Requeue(j, note, out)
      PROVE  TypeOK'
  <2>1. PICK from \in Statuses, to \in Statuses : Review(j, from, to, note, out)
    BY <1>4 DEF RequestReview, Reject, StopJob, Requeue, Statuses
  <2>2. note \in Reviews
    BY DEF ReviewNotes, Reviews
  <2>3. Reviewed(mem[j], to, note) \in Record
    BY <2>2, BuildersTyped DEF TypeOK
  <2>4. mem' \in [Jobs -> Record] /\ disk' \in [Jobs -> Record]
    BY <2>1, <2>3, SaveTyped DEF Review
  <2>5. /\ requeues' \in [Jobs -> Nat]
        /\ starts' = starts /\ restarts' = restarts
    BY <1>4 DEF RequestReview, Reject, StopJob, Requeue, history, TypeOK
  <2>6. QED
    BY <2>1, <2>4, <2>5 DEF Review, TypeOK, workerVars
<1>5. QED
  BY <1>1, <1>2, <1>3, <1>4

LEMMA TypeWorker ==
  TypeOK /\ (PollAny \/ EndTurn \/ Finish \/ WorkerStart \/ WorkerStop) => TypeOK'
<1> SUFFICES ASSUME TypeOK,
                    PollAny \/ EndTurn \/ Finish \/ WorkerStart \/ WorkerStop
             PROVE  TypeOK'
  OBVIOUS
<1>1. ASSUME NEW j \in Jobs, NEW out \in Outcomes, Poll(j, out)
      PROVE  TypeOK'
  <2>1. Claimed(mem[j]) \in Record
    BY BuildersTyped DEF TypeOK
  <2>2. mem' \in [Jobs -> Record] /\ disk' \in [Jobs -> Record]
    BY <1>1, <2>1, SaveTyped DEF Poll
  <2>3. turn' \in Turn /\ (turn'.at # "idle" => turn'.job \in Jobs)
    BY <1>1 DEF Poll, TypeOK, Turn
  <2>4. processing' \in BOOLEAN
    BY <1>1 DEF Poll, TypeOK
  <2>5. QED
    BY <1>1, <2>2, <2>3, <2>4 DEF Poll, TypeOK, history
<1>2. ASSUME NEW out \in Outcomes, StartTurn(out)
      PROVE  TypeOK'
  <2> DEFINE j == turn.job
  <2>1. j \in Jobs
    BY <1>2 DEF StartTurn, TypeOK
  <2>2. Started(mem[j]) \in Record
    BY <2>1, BuildersTyped DEF TypeOK
  <2>3. mem' \in [Jobs -> Record] /\ disk' \in [Jobs -> Record]
    BY <1>2, <2>1, <2>2, SaveTyped DEF StartTurn
  <2>4. turn' \in Turn /\ turn'.at = "idle"
    BY <1>2 DEF StartTurn, Turn, Idle
  <2>5. execs' \subseteq Exec
    BY <1>2, <2>1 DEF StartTurn, TypeOK, Exec, Record
  <2>6. starts' \in [Jobs -> Nat]
    <3>1. starts' = starts \/ starts' = [starts EXCEPT ![j] = @ + 1]
      BY <1>2 DEF StartTurn
    <3>2. starts \in [Jobs -> Nat] /\ starts[j] + 1 \in Nat
      BY <2>1 DEF TypeOK
    <3>3. QED
      BY <3>1, <3>2
  <2>7. processing' \in BOOLEAN
    BY <1>2 DEF StartTurn, TypeOK
  <2>8. QED
    BY <1>2, <2>3, <2>4, <2>5, <2>6, <2>7 DEF StartTurn, TypeOK
<1>3. ASSUME NEW out \in Outcomes, RetryTurn(out)
      PROVE  TypeOK'
  <2>1. turn.job \in Jobs
    BY <1>3 DEF RetryTurn, TypeOK
  <2>2. Retried(mem[turn.job]) \in Record
    BY <2>1, BuildersTyped DEF TypeOK
  <2>3. mem' \in [Jobs -> Record] /\ disk' \in [Jobs -> Record]
    BY <1>3, <2>1, <2>2, SaveTyped DEF RetryTurn
  <2>4. QED
    BY <1>3, <2>3 DEF RetryTurn, TypeOK, Turn, Idle, history
<1>4. CASE RetryTurnRefused
  BY <1>4 DEF RetryTurnRefused, TypeOK, Turn, Idle, history, jobVars
<1>5. ASSUME NEW e \in execs, NEW out \in Outcomes, FinishOk(e, out)
      PROVE  TypeOK'
  <2>1. e.job \in Jobs /\ e.run \in Nat
    BY DEF TypeOK, Exec
  <2>2. Completed(mem[e.job], e.run) \in Record
    BY <2>1, BuildersTyped DEF TypeOK
  <2>3. mem' \in [Jobs -> Record] /\ disk' \in [Jobs -> Record]
    BY <1>5, <2>1, <2>2, SaveTyped DEF FinishOk
  <2>4. QED
    BY <1>5, <2>3 DEF FinishOk, TypeOK, history
<1>6. ASSUME NEW e \in execs, NEW error \in ExecErrors, NEW out \in Outcomes,
             FinishFailed(e, error, out)
      PROVE  TypeOK'
  <2>1. e.job \in Jobs /\ error \in Errors
    BY DEF TypeOK, Exec, ExecErrors, Errors
  <2>2. Failed(mem[e.job], error) \in Record
    BY <2>1, BuildersTyped DEF TypeOK
  <2>3. mem' \in [Jobs -> Record] /\ disk' \in [Jobs -> Record]
    BY <1>6, <2>1, <2>2, SaveTyped DEF FinishFailed
  <2>4. turn' \in Turn /\ (turn'.at # "idle" => turn'.job \in Jobs)
    BY <1>6, <2>1 DEF FinishFailed, TypeOK, Turn
  <2>5. QED
    BY <1>6, <2>3, <2>4 DEF FinishFailed, TypeOK, history
<1>7. ASSUME NEW e \in execs, FinishDropped(e)
      PROVE  TypeOK'
  BY <1>7 DEF FinishDropped, TypeOK, history, jobVars
<1>8. CASE WorkerStart \/ WorkerStop
  BY <1>8 DEF WorkerStart, WorkerStop, TypeOK, jobVars, history
<1>9. QED
  BY <1>1, <1>2, <1>3, <1>4, <1>5, <1>6, <1>7, <1>8
     DEF PollAny, EndTurn, Finish

LEMMA TypeEnvironment == TypeOK /\ (Tick \/ Restart) => TypeOK'
<1>1. ASSUME TypeOK, Tick
      PROVE  TypeOK'
  BY <1>1, BuildersTyped DEF Tick, TypeOK, workerVars, history
<1>2. ASSUME TypeOK, Restart
      PROVE  TypeOK'
  <2>1. order' \in Seq(Jobs)
    BY <1>2, LoadedOrderTyped DEF Restart
  <2>2. turn' \in Turn /\ turn'.at = "idle"
    BY <1>2 DEF Restart, Turn, Idle
  <2>3. /\ mem' = disk /\ disk' = disk
        /\ started' = FALSE /\ processing' = FALSE
        /\ execs' = {}
        /\ starts' = starts /\ requeues' = requeues /\ restarts' = restarts + 1
    BY <1>2 DEF Restart
  <2>4. /\ mem' \in [Jobs -> Record] /\ disk' \in [Jobs -> Record]
        /\ starts' \in [Jobs -> Nat] /\ requeues' \in [Jobs -> Nat]
        /\ restarts' \in Nat
    BY <1>2, <2>3 DEF TypeOK
  <2>5. started' \in BOOLEAN /\ processing' \in BOOLEAN /\ execs' \subseteq Exec
    BY <2>3
  <2>6. QED
    BY <2>1, <2>2, <2>4, <2>5 DEF TypeOK
<1>3. QED
  BY <1>1, <1>2

LEMMA TypeNext == TypeOK /\ [Next]_vars => TypeOK'
<1>1. CASE UNCHANGED vars
  BY <1>1 DEF vars, TypeOK
<1>2. QED
  BY <1>1, TypeOperator, TypeWorker, TypeEnvironment DEF Next

(* Every reachable state of the store and its worker is well typed. *)
THEOREM TypeCorrect == Spec => []TypeOK
<1>1. QED
  BY TypeInit, TypeNext, PTL DEF Spec

-----------------------------------------------------------------------------
(* The inductive invariant behind the safety theorems.  To the properties  *)
(* it adds what the worker relies on between the two halves of a turn (the *)
(* job it is about to start is the one it claimed) and that runs are       *)
(* numbered from 1, so that a completed job has a result.                  *)

TurnSound == turn.at = "start" => mem[turn.job].status = "claimed"

RunsNumbered == \A e \in execs : e.run # 0

IInv ==
  /\ TypeOK
  /\ RecordsCoherent
  /\ DiskNeverAhead
  /\ TurnSound
  /\ RunsNumbered

Final == {"completed", "cancelled"}

(* The operations of the store lead from coherent records to coherent ones *)
(* and never start from a final one.                                       *)
LEMMA BuildersCoherent ==
  ASSUME NEW r \in Record, Coherent(r)
  PROVE  /\ r.status = "queued" => Coherent(Claimed(r))
         /\ r.status = "claimed" => Coherent(Claimed(r))
         /\ r.status = "claimed" => Coherent(Started(r))
         /\ Cancellable(r) => Coherent(Cancelled(r))
         /\ CanRetry(r) => Coherent(Retried(r))
         /\ Coherent(Aged(r))
         /\ \A run \in Nat \ {0} : r.status = "running" => Coherent(Completed(r, run))
         /\ \A error \in Errors \ {"none"} :
              r.status = "running" => Coherent(Failed(r, error))
<1> USE TTLAssumption DEF Record, Coherent, NoLease, TerminalStatuses
<1>1. LeaseTTL + 1 # 0
  OBVIOUS
<1>2. r.status \in {"queued", "claimed"} => Coherent(Claimed(r))
  BY <1>1 DEF Claimed
<1>3. r.status = "claimed" => Coherent(Started(r))
  BY DEF Started
<1>4. Cancellable(r) => Coherent(Cancelled(r))
  BY DEF Cancelled, Cancellable
<1>5. CanRetry(r) => Coherent(Retried(r))
  BY DEF Retried, CanRetry
<1>6. Coherent(Aged(r))
  BY DEF Aged
<1>7. \A run \in Nat \ {0} : r.status = "running" => Coherent(Completed(r, run))
  BY DEF Completed
<1>8. \A error \in Errors \ {"none"} :
        r.status = "running" => Coherent(Failed(r, error))
  BY DEF Failed
<1>9. QED
  BY <1>2, <1>3, <1>4, <1>5, <1>6, <1>7, <1>8

(* No operation lowers the attempt number. *)
LEMMA BuildersAttempt ==
  ASSUME NEW r \in Record
  PROVE  /\ Claimed(r).attempt >= r.attempt /\ Claimed(r).status = "claimed"
         /\ Started(r).attempt >= r.attempt
         /\ Cancelled(r).attempt >= r.attempt
         /\ Retried(r).attempt >= r.attempt
         /\ \A run : Completed(r, run).attempt >= r.attempt
         /\ \A error : Failed(r, error).attempt >= r.attempt
BY DEF Record, Claimed, Started, Cancelled, Retried, Completed, Failed

LEMMA ReviewedCoherent ==
  ASSUME NEW r \in Record, Coherent(r), NEW note \in Reviews
  PROVE  /\ r.status = "running" => Coherent(Reviewed(r, "paused_review", note))
         /\ r.status = "paused_review" =>
              \A to \in {"queued", "failed", "cancelled"} :
                Coherent(Reviewed(r, to, note))
<1> USE DEF Record, Coherent, NoLease, TerminalStatuses, Reviewed
<1>1. r.status = "running" => Coherent(Reviewed(r, "paused_review", note))
  OBVIOUS
<1>2. ASSUME r.status = "paused_review"
      PROVE  /\ Coherent(Reviewed(r, "queued", note))
             /\ Coherent(Reviewed(r, "failed", note))
             /\ Coherent(Reviewed(r, "cancelled", note))
  BY <1>2
<1>3. QED
  BY <1>1, <1>2

LEMMA NewRecordCoherent ==
  Coherent(AbsentRecord) /\ \A limit \in AttemptLimits : Coherent(NewRecord(limit))
BY LimitsAssumption
   DEF Coherent, AbsentRecord, NewRecord, NoLease, TerminalStatuses

(* What one save does to the two properties that relate Map and file: the  *)
(* new record is coherent, the old one is not final, attempts do not drop. *)
LEMMA SaveKeeps ==
  ASSUME TypeOK, RecordsCoherent, DiskNeverAhead,
         NEW j \in Jobs, NEW r \in Record, NEW out, Save(j, r, out),
         Coherent(r), mem[j].status \notin Final, r.attempt >= mem[j].attempt
  PROVE  /\ RecordsCoherent'
         /\ DiskNeverAhead'
         /\ \A k \in Jobs : disk[k].status \in Final => disk'[k] = disk[k]
<1>1. /\ mem' = [mem EXCEPT ![j] = r]
      /\ disk' = disk \/ disk' = [disk EXCEPT ![j] = r]
  BY DEF Save
<1>2. disk[j].status \notin Final
  BY DEF DiskNeverAhead, Final
<1>3. \A k \in Jobs : k # j => mem'[k] = mem[k] /\ disk'[k] = disk[k]
  BY <1>1 DEF TypeOK
<1>4. mem'[j] = r /\ (disk'[j] = disk[j] \/ disk'[j] = r)
  BY <1>1 DEF TypeOK
<1>5. RecordsCoherent'
  BY <1>3, <1>4 DEF RecordsCoherent
<1>6. disk'[j].attempt <= mem'[j].attempt
  <2>1. disk[j].attempt <= mem[j].attempt
    BY DEF DiskNeverAhead
  <2>2. /\ disk[j].attempt \in Nat /\ mem[j].attempt \in Nat
        /\ r.attempt \in Nat
    BY DEF TypeOK, Record
  <2>3. QED
    BY <1>4, <2>1, <2>2
<1>7. DiskNeverAhead'
  BY <1>2, <1>3, <1>4, <1>6 DEF DiskNeverAhead, Final
<1>8. QED
  BY <1>2, <1>3, <1>5, <1>7

-----------------------------------------------------------------------------
(* Final files are kept by every step. *)
FinalKept == \A k \in Jobs : disk[k].status \in Final => disk'[k] = disk[k]

Safe == RecordsCoherent' /\ DiskNeverAhead' /\ TurnSound' /\ RunsNumbered' /\ FinalKept

LEMMA SafeInit == Init => IInv
<1> SUFFICES ASSUME Init PROVE IInv
  OBVIOUS
<1>1. TypeOK
  BY TypeInit
<1>2. RecordsCoherent
  BY NewRecordCoherent DEF Init, RecordsCoherent
<1>3. DiskNeverAhead
  BY DEF Init, DiskNeverAhead, AbsentRecord
<1>4. TurnSound /\ RunsNumbered
  BY DEF Init, TurnSound, RunsNumbered, Idle
<1>5. QED
  BY <1>1, <1>2, <1>3, <1>4 DEF IInv

LEMMA SafeOperator == IInv /\ Operator => Safe
<1> SUFFICES ASSUME IInv, NEW j \in Jobs,
                    \/ \E limit \in AttemptLimits : CreateJob(j, limit)
                    \/ \E out \in Outcomes : CancelJob(j, out) \/ RetryJob(j, out)
                    \/ \E note \in ReviewNotes, out \in Outcomes :
                         \/ RequestReview(j, note, out)
                         \/ Reject(j, note, out)
                         \/ StopJob(j, note, out)
                         \/ Requeue(j, note, out)
             PROVE  Safe
  BY DEF Operator
<1> USE DEF IInv
<1>1. mem[j] \in Record /\ Coherent(mem[j])
  BY DEF TypeOK, RecordsCoherent
<1>2. ASSUME NEW limit \in AttemptLimits, CreateJob(j, limit)
      PROVE  Safe
  <2>1. /\ mem' = [mem EXCEPT ![j] = NewRecord(limit)]
        /\ disk' = [disk EXCEPT ![j] = NewRecord(limit)]
        /\ disk[j].status = "absent"
    BY <1>2 DEF CreateJob
  <2>2. RecordsCoherent'
    BY <2>1, NewRecordCoherent DEF RecordsCoherent, TypeOK
  <2>3. NewRecord(limit).attempt = 0 /\ NewRecord(limit).status = "queued"
    BY DEF NewRecord, AbsentRecord
  <2>4. DiskNeverAhead'
    BY <2>1, <2>3 DEF DiskNeverAhead, TypeOK
  <2>5. FinalKept
    BY <2>1 DEF FinalKept, Final, TypeOK
  <2>6. TurnSound' /\ RunsNumbered'
    BY <1>2 DEF CreateJob, workerVars, TurnSound, RunsNumbered, Idle
  <2>7. QED
    BY <2>2, <2>4, <2>5, <2>6 DEF Safe
<1>3. ASSUME NEW out \in Outcomes, CancelJob(j, out)
      PROVE  Safe
  <2>1. /\ Cancellable(mem[j])
        /\ Save(j, Cancelled(mem[j]), out)
        /\ turn' = turn /\ turn = Idle /\ execs' = execs
    BY <1>3 DEF CancelJob, workerVars
  <2>2. /\ Cancelled(mem[j]) \in Record /\ Coherent(Cancelled(mem[j]))
        /\ mem[j].status \notin Final
        /\ Cancelled(mem[j]).attempt >= mem[j].attempt
    <3>1. Cancelled(mem[j]) \in Record /\ Coherent(Cancelled(mem[j]))
      BY <1>1, <2>1, BuildersTyped, BuildersCoherent
    <3>2. mem[j].status \notin Final
      BY <1>1, <2>1 DEF Final, Cancellable
    <3>3. QED
      BY <1>1, <2>1, <3>1, <3>2, BuildersAttempt
  <2>3. RecordsCoherent' /\ DiskNeverAhead' /\ FinalKept
    BY <2>1, <2>2, SaveKeeps DEF FinalKept
  <2>4. QED
    BY <2>1, <2>3 DEF Safe, TurnSound, RunsNumbered, Idle
<1>4. ASSUME NEW out \in Outcomes, RetryJob(j, out)
      PROVE  Safe
  <2>1. /\ CanRetry(mem[j])
        /\ Save(j, Retried(mem[j]), out)
        /\ turn' = turn /\ turn = Idle /\ execs' = execs
    BY <1>4 DEF RetryJob, workerVars
  <2>2. /\ Retried(mem[j]) \in Record /\ Coherent(Retried(mem[j]))
        /\ mem[j].status \notin Final
        /\ Retried(mem[j]).attempt >= mem[j].attempt
    <3>1. Retried(mem[j]) \in Record /\ Coherent(Retried(mem[j]))
      BY <1>1, <2>1, BuildersTyped, BuildersCoherent
    <3>2. mem[j].status \notin Final
      BY <1>1, <2>1 DEF Final, CanRetry
    <3>3. QED
      BY <1>1, <2>1, <3>1, <3>2, BuildersAttempt
  <2>3. RecordsCoherent' /\ DiskNeverAhead' /\ FinalKept
    BY <2>1, <2>2, SaveKeeps DEF FinalKept
  <2>4. QED
    BY <2>1, <2>3 DEF Safe, TurnSound, RunsNumbered, Idle
<1>5. ASSUME NEW note \in ReviewNotes, NEW out \in Outcomes,
             RequestReview(j, note, out) \/ Reject(j, note, out)
             \/ StopJob(j, note, out) \/ Requeue(j, note, out)
      PROVE  Safe
  <2>1. PICK from \in {"running", "paused_review"},
             to \in {"paused_review", "failed", "cancelled", "queued"} :
          /\ Review(j, from, to, note, out)
          /\ from = "running" <=> to = "paused_review"
    BY <1>5 DEF RequestReview, Reject, StopJob, Requeue
  <2>2. /\ mem[j].status = from
        /\ Save(j, Reviewed(mem[j], to, note), out)
        /\ turn' = turn /\ turn = Idle /\ execs' = execs
    BY <2>1 DEF Review, workerVars
  <2>3. note \in Reviews
    BY DEF ReviewNotes, Reviews
  <2>4. Reviewed(mem[j], to, note) \in Record
    BY <1>1, <2>3, BuildersTyped DEF Statuses
  <2>5. Coherent(Reviewed(mem[j], to, note))
    BY <1>1, <2>1, <2>2, <2>3, ReviewedCoherent
  <2>6. /\ mem[j].status \notin Final
        /\ Reviewed(mem[j], to, note).attempt >= mem[j].attempt
    BY <1>1, <2>2 DEF Reviewed, Final, Record
  <2>7. RecordsCoherent' /\ DiskNeverAhead' /\ FinalKept
    BY <2>2, <2>4, <2>5, <2>6, SaveKeeps DEF FinalKept
  <2>8. QED
    BY <2>2, <2>7 DEF Safe, TurnSound, RunsNumbered, Idle
<1>6. QED
  BY <1>2, <1>3, <1>4, <1>5

LEMMA SafeWorker ==
  IInv /\ (PollAny \/ EndTurn \/ Finish \/ WorkerStart \/ WorkerStop) => Safe
<1> SUFFICES ASSUME IInv,
                    PollAny \/ EndTurn \/ Finish \/ WorkerStart \/ WorkerStop
             PROVE  Safe
  OBVIOUS
<1> USE DEF IInv
<1>1. ASSUME NEW j \in Jobs, NEW out \in Outcomes, Poll(j, out)
      PROVE  Safe
  <2>1. /\ Claimable(j)
        /\ Save(j, Claimed(mem[j]), out)
        /\ turn' = [at |-> "start", job |-> j] \/ turn' = turn
        /\ turn = Idle /\ execs' = execs
    BY <1>1 DEF Poll, IsFirstClaimable
  <2>2. mem[j] \in Record /\ Coherent(mem[j])
    BY DEF TypeOK, RecordsCoherent
  <2>3. /\ Claimed(mem[j]) \in Record /\ Coherent(Claimed(mem[j]))
        /\ mem[j].status \notin Final
        /\ Claimed(mem[j]).attempt >= mem[j].attempt
        /\ Claimed(mem[j]).status = "claimed"
    <3>1. Claimed(mem[j]) \in Record /\ Coherent(Claimed(mem[j]))
      BY <2>1, <2>2, BuildersTyped, BuildersCoherent DEF Claimable
    <3>2. mem[j].status \notin Final
      BY <2>1, <2>2 DEF Final, Claimable
    <3>3. QED
      BY <2>1, <2>2, <3>1, <3>2, BuildersAttempt
  <2>4. RecordsCoherent' /\ DiskNeverAhead' /\ FinalKept
    BY <2>1, <2>3, SaveKeeps DEF FinalKept
  <2>5. mem'[j].status = "claimed"
    BY <2>1, <2>3 DEF Save, TypeOK
  <2>6. QED
    BY <2>1, <2>4, <2>5 DEF Safe, TurnSound, RunsNumbered, Idle
<1>2. ASSUME NEW out \in Outcomes, StartTurn(out)
      PROVE  Safe
  <2> DEFINE j == turn.job
  <2>1. /\ turn.at = "start" /\ turn' = Idle
        /\ Save(j, Started(mem[j]), out)
    BY <1>2 DEF StartTurn
  <2>2. j \in Jobs /\ mem[j] \in Record /\ Coherent(mem[j]) /\ starts[j] \in Nat
    BY <2>1 DEF TypeOK, RecordsCoherent
  <2>3. mem[j].status = "claimed"
    BY <2>1 DEF TurnSound
  <2>4. /\ Started(mem[j]) \in Record /\ Coherent(Started(mem[j]))
        /\ mem[j].status \notin Final
        /\ Started(mem[j]).attempt >= mem[j].attempt
    <3>1. Started(mem[j]) \in Record /\ Coherent(Started(mem[j]))
      BY <2>2, <2>3, BuildersTyped, BuildersCoherent
    <3>2. mem[j].status \notin Final
      BY <2>2, <2>3 DEF Final
    <3>3. QED
      BY <2>2, <2>3, <3>1, <3>2, BuildersAttempt
  <2>5. RecordsCoherent' /\ DiskNeverAhead' /\ FinalKept
    BY <2>1, <2>2, <2>4, SaveKeeps DEF FinalKept
  <2>6. \A e \in execs' : e \in execs \/ e.run = starts[j] + 1
    BY <1>2 DEF StartTurn
  <2>7. RunsNumbered'
    BY <2>2, <2>6 DEF RunsNumbered
  <2>8. QED
    BY <2>1, <2>5, <2>7 DEF Safe, TurnSound, Idle
<1>3. ASSUME NEW out \in Outcomes, RetryTurn(out)
      PROVE  Safe
  <2> DEFINE j == turn.job
  <2>1. /\ turn.at = "retry" /\ turn' = Idle /\ execs' = execs
        /\ CanRetry(mem[j])
        /\ Save(j, Retried(mem[j]), out)
    BY <1>3 DEF RetryTurn
  <2>2. j \in Jobs /\ mem[j] \in Record /\ Coherent(mem[j])
    BY <2>1 DEF TypeOK, RecordsCoherent
  <2>3. /\ Retried(mem[j]) \in Record /\ Coherent(Retried(mem[j]))
        /\ mem[j].status \notin Final
        /\ Retried(mem[j]).attempt >= mem[j].attempt
    <3>1. Retried(mem[j]) \in Record /\ Coherent(Retried(mem[j]))
      BY <2>1, <2>2, BuildersTyped, BuildersCoherent
    <3>2. mem[j].status \notin Final
      BY <2>1, <2>2 DEF Final, CanRetry
    <3>3. QED
      BY <2>1, <2>2, <3>1, <3>2, BuildersAttempt
  <2>4. RecordsCoherent' /\ DiskNeverAhead' /\ FinalKept
    BY <2>1, <2>2, <2>3, SaveKeeps DEF FinalKept
  <2>5. QED
    BY <2>1, <2>4 DEF Safe, TurnSound, RunsNumbered, Idle
<1>4. ASSUME NEW e \in execs, NEW out \in Outcomes, FinishOk(e, out)
      PROVE  Safe
  <2> DEFINE j == e.job
  <2>1. /\ turn' = turn /\ turn = Idle /\ execs' = execs \ {e}
        /\ mem[j].status = "running"
        /\ Save(j, Completed(mem[j], e.run), out)
    BY <1>4 DEF FinishOk, StillRunning
  <2>2. /\ j \in Jobs /\ mem[j] \in Record /\ Coherent(mem[j])
        /\ e.run \in Nat \ {0}
    BY DEF TypeOK, RecordsCoherent, RunsNumbered, Exec
  <2>3. /\ Completed(mem[j], e.run) \in Record /\ Coherent(Completed(mem[j], e.run))
        /\ mem[j].status \notin Final
        /\ Completed(mem[j], e.run).attempt >= mem[j].attempt
    <3>1. Completed(mem[j], e.run) \in Record /\ Coherent(Completed(mem[j], e.run))
      BY <2>1, <2>2, BuildersTyped, BuildersCoherent
    <3>2. mem[j].status \notin Final
      BY <2>1, <2>2 DEF Final
    <3>3. QED
      BY <2>1, <2>2, <3>1, <3>2, BuildersAttempt
  <2>4. RecordsCoherent' /\ DiskNeverAhead' /\ FinalKept
    BY <2>1, <2>2, <2>3, SaveKeeps DEF FinalKept
  <2>5. QED
    BY <2>1, <2>4 DEF Safe, TurnSound, RunsNumbered, Idle
<1>5. ASSUME NEW e \in execs, NEW error \in ExecErrors, NEW out \in Outcomes,
             FinishFailed(e, error, out)
      PROVE  Safe
  <2> DEFINE j == e.job
  <2>1. /\ turn'.at # "start" /\ execs' = execs \ {e}
        /\ mem[j].status = "running"
        /\ Save(j, Failed(mem[j], error), out)
    BY <1>5 DEF FinishFailed, StillRunning, Idle
  <2>2. /\ j \in Jobs /\ mem[j] \in Record /\ Coherent(mem[j])
        /\ error \in Errors \ {"none"}
    BY DEF TypeOK, RecordsCoherent, Exec, ExecErrors, Errors
  <2>3. /\ Failed(mem[j], error) \in Record /\ Coherent(Failed(mem[j], error))
        /\ mem[j].status \notin Final
        /\ Failed(mem[j], error).attempt >= mem[j].attempt
    <3>1. Failed(mem[j], error) \in Record /\ Coherent(Failed(mem[j], error))
      BY <2>1, <2>2, BuildersTyped, BuildersCoherent
    <3>2. mem[j].status \notin Final
      BY <2>1, <2>2 DEF Final
    <3>3. QED
      BY <2>1, <2>2, <3>1, <3>2, BuildersAttempt
  <2>4. RecordsCoherent' /\ DiskNeverAhead' /\ FinalKept
    BY <2>1, <2>2, <2>3, SaveKeeps DEF FinalKept
  <2>5. QED
    BY <2>1, <2>4 DEF Safe, TurnSound, RunsNumbered
<1>6. ASSUME jobVars' = jobVars, execs' \subseteq execs, turn'.at # "start"
      PROVE  Safe
  BY <1>6 DEF Safe, jobVars, RecordsCoherent, DiskNeverAhead, FinalKept,
              TurnSound, RunsNumbered
<1>7. CASE RetryTurnRefused
  BY <1>6, <1>7 DEF RetryTurnRefused, Idle
<1>8. ASSUME NEW e \in execs, FinishDropped(e)
      PROVE  Safe
  BY <1>6, <1>8 DEF FinishDropped, Idle
<1>9. CASE WorkerStart \/ WorkerStop
  BY <1>6, <1>9 DEF WorkerStart, WorkerStop, Idle
<1>10. QED
  BY <1>1, <1>2, <1>3, <1>4, <1>5, <1>7, <1>8, <1>9
     DEF PollAny, EndTurn, Finish

LEMMA SafeEnvironment == IInv /\ (Tick \/ Restart) => Safe
<1> USE DEF IInv
<1>1. ASSUME IInv, Tick
      PROVE  Safe
  <2>1. /\ \A j \in Jobs : mem'[j] = Aged(mem[j]) /\ disk'[j] = Aged(disk[j])
        /\ turn' = turn /\ execs' = execs
    BY <1>1 DEF Tick, workerVars
  <2>2. \A j \in Jobs : /\ mem[j] \in Record /\ Coherent(mem[j])
                       /\ disk[j] \in Record /\ Coherent(disk[j])
    BY <1>1 DEF TypeOK, RecordsCoherent
  <2>3. ASSUME NEW r \in Record
        PROVE  Aged(r).status = r.status /\ Aged(r).attempt = r.attempt
    BY DEF Aged, Record
  <2>4. RecordsCoherent'
    BY <2>1, <2>2, BuildersCoherent DEF RecordsCoherent
  <2>5. DiskNeverAhead'
    BY <1>1, <2>1, <2>2, <2>3 DEF DiskNeverAhead
  <2>6. ASSUME NEW r \in Record, Coherent(r), r.status \in Final
        PROVE  Aged(r) = r
    BY <2>6 DEF Aged, Coherent, Record, Final, NoLease
  <2>7. FinalKept
    BY <2>1, <2>2, <2>6 DEF FinalKept
  <2>8. TurnSound'
    <3>1. turn.at = "start" => turn.job \in Jobs
      BY <1>1 DEF TypeOK
    <3>2. QED
      BY <1>1, <2>1, <2>2, <2>3, <3>1 DEF TurnSound
  <2>9. RunsNumbered'
    BY <1>1, <2>1 DEF RunsNumbered
  <2>10. QED
    BY <2>4, <2>5, <2>7, <2>8, <2>9 DEF Safe
<1>2. ASSUME IInv, Restart
      PROVE  Safe
  <2>1. mem' = disk /\ disk' = disk /\ execs' = {} /\ turn' = Idle
    BY <1>2 DEF Restart
  <2>2. \A j \in Jobs : disk[j].attempt \in Nat
    BY <1>2 DEF TypeOK, Record
  <2>3. QED
    BY <1>2, <2>1, <2>2 DEF Safe, RecordsCoherent, DiskNeverAhead, FinalKept,
                            TurnSound, RunsNumbered, Idle
<1>3. QED
  BY <1>1, <1>2

LEMMA SafeNext == IInv /\ [Next]_vars => IInv' /\ FinalKept
<1> SUFFICES ASSUME IInv, [Next]_vars
             PROVE  Safe
  BY TypeNext DEF IInv, Safe
<1>1. CASE UNCHANGED vars
  BY <1>1 DEF vars, IInv, Safe, RecordsCoherent, DiskNeverAhead, FinalKept,
              TurnSound, RunsNumbered
<1>2. QED
  BY <1>1, SafeOperator, SafeWorker, SafeEnvironment DEF Next

LEMMA SafeAlways == Spec => []IInv
BY SafeInit, SafeNext, PTL DEF Spec

(* No sequence of worker, operator and review operations, refused saves,   *)
(* failing writes, stops and restarts leaves an incoherent record, in      *)
(* memory or on disk.                                                      *)
THEOREM RecordsStayCoherent == Spec => []RecordsCoherent
<1>1. IInv => RecordsCoherent
  BY DEF IInv
<1>2. QED
  BY <1>1, SafeAlways, PTL

(* The files never overtake the Map, whatever fails.                       *)
THEOREM DiskStaysBehind == Spec => []DiskNeverAhead
<1>1. IInv => DiskNeverAhead
  BY DEF IInv
<1>2. QED
  BY <1>1, SafeAlways, PTL

(* A completed or cancelled job's file is never written again.             *)
THEOREM FinalFilesKept == Spec => FinalRecordsKept
<1>1. IInv /\ [Next]_vars =>
        [\A j \in Jobs :
           disk[j].status \in {"completed", "cancelled"} => disk'[j] = disk[j]]_vars
  BY SafeNext DEF FinalKept, Final
<1>2. QED
  BY <1>1, SafeAlways, PTL DEF Spec, FinalRecordsKept

-----------------------------------------------------------------------------
(* What a step that changes a record does to it and to the history.  The   *)
(* theorems about runs and about the lifecycle rest on this summary of the *)
(* actions.                                                                *)

Moves ==
  {<<"queued", "claimed">>, <<"claimed", "claimed">>, <<"claimed", "running">>,
   <<"queued", "cancelled">>, <<"claimed", "cancelled">>,
   <<"running", "completed">>, <<"running", "failed">>,
   <<"running", "paused_review">>, <<"failed", "queued">>,
   <<"paused_review", "queued">>, <<"paused_review", "failed">>,
   <<"paused_review", "cancelled">>}

(* r may follow the record old: only a retry raises the attempt, and what  *)
(* breaks the schema comes from malformed input.                           *)
Follows(old, r) ==
  /\ MalformedInput \/ (SchemaValid(old) => SchemaValid(r))
  /\ <<old.status, r.status>> \in Moves
  /\ r.maxAttempts = old.maxAttempts
  /\ old.status # "failed" => r.attempt = old.attempt
  /\ old.status = "failed" => r.attempt = old.attempt + 1 /\ r.attempt < r.maxAttempts

SaveStep(j, r, out) ==
  /\ Save(j, r, out)
  /\ Follows(mem[j], r)
  /\ starts' = IF r.status = "running" /\ out = "written"
               THEN [starts EXCEPT ![j] = @ + 1] ELSE starts
  /\ requeues' = IF mem[j].status = "paused_review" /\ r.status = "queued"
                 THEN [requeues EXCEPT ![j] = @ + 1] ELSE requeues

NoSave == UNCHANGED <<jobVars, starts, requeues>>

Creation == \E j \in Jobs, limit \in AttemptLimits : CreateJob(j, limit)

Saving == \E j \in Jobs, r \in Record, out \in Outcomes : SaveStep(j, r, out)

LEMMA BuildersFollow ==
  ASSUME NEW r \in Record
  PROVE  /\ r.status \in {"queued", "claimed"} => Follows(r, Claimed(r))
         /\ r.status = "claimed" => Follows(r, Started(r))
         /\ Cancellable(r) => Follows(r, Cancelled(r))
         /\ CanRetry(r) => Follows(r, Retried(r))
         /\ \A run : r.status = "running" => Follows(r, Completed(r, run))
         /\ \A error \in ExecErrors : r.status = "running" => Follows(r, Failed(r, error))
<1> USE DEF Record, Follows, Moves, SchemaValid
<1>1. r.status \in {"queued", "claimed"} => Follows(r, Claimed(r))
  BY DEF Claimed
<1>2. r.status = "claimed" => Follows(r, Started(r))
  BY DEF Started
<1>3. Cancellable(r) => Follows(r, Cancelled(r))
  BY DEF Cancellable, Cancelled
<1>4. CanRetry(r) => Follows(r, Retried(r))
  BY DEF CanRetry, Retried
<1>5. \A run : r.status = "running" => Follows(r, Completed(r, run))
  BY DEF Completed
<1>6. \A error \in ExecErrors : r.status = "running" => Follows(r, Failed(r, error))
  BY DEF Failed, ExecErrors
<1>7. QED
  BY <1>1, <1>2, <1>3, <1>4, <1>5, <1>6

LEMMA BuildersStatus ==
  ASSUME NEW r \in Record
  PROVE  /\ Claimed(r).status = "claimed"
         /\ Started(r).status = "running"
         /\ Cancelled(r).status = "cancelled"
         /\ Retried(r).status = "queued"
         /\ \A run : Completed(r, run).status = "completed"
         /\ \A error : Failed(r, error).status = "failed"
         /\ \A to, note : Reviewed(r, to, note).status = to
BY DEF Record, Claimed, Started, Cancelled, Retried, Completed, Failed, Reviewed

LEMMA OperatorSaves == IInv /\ Operator => Creation \/ Saving
<1> SUFFICES ASSUME IInv, NEW j \in Jobs,
                    \/ \E out \in Outcomes : CancelJob(j, out) \/ RetryJob(j, out)
                    \/ \E note \in ReviewNotes, out \in Outcomes :
                         \/ RequestReview(j, note, out)
                         \/ Reject(j, note, out)
                         \/ StopJob(j, note, out)
                         \/ Requeue(j, note, out)
             PROVE  Saving
  BY DEF Operator, Creation
<1> USE DEF IInv
<1>1. mem[j] \in Record
  BY DEF TypeOK
<1>2. ASSUME NEW out \in Outcomes, CancelJob(j, out)
      PROVE  Saving
  <2>1. SaveStep(j, Cancelled(mem[j]), out)
    <3>1. Follows(mem[j], Cancelled(mem[j])) /\ Cancelled(mem[j]).status = "cancelled"
      BY <1>1, <1>2, BuildersFollow, BuildersStatus DEF CancelJob
    <3>2. QED
      BY <1>2, <3>1 DEF CancelJob, SaveStep, history
  <2>2. QED
    BY <1>1, <2>1, BuildersTyped DEF Saving
<1>3. ASSUME NEW out \in Outcomes, RetryJob(j, out)
      PROVE  Saving
  <2>1. SaveStep(j, Retried(mem[j]), out)
    <3>1. Follows(mem[j], Retried(mem[j])) /\ Retried(mem[j]).status = "queued"
      BY <1>1, <1>3, BuildersFollow, BuildersStatus DEF RetryJob
    <3>2. mem[j].status = "failed"
      BY <1>3 DEF RetryJob, CanRetry
    <3>3. QED
      BY <1>3, <3>1, <3>2 DEF RetryJob, SaveStep, history
  <2>2. QED
    BY <1>1, <2>1, BuildersTyped DEF Saving
<1>4. ASSUME NEW note \in ReviewNotes, NEW out \in Outcomes,
             RequestReview(j, note, out) \/ Reject(j, note, out)
             \/ StopJob(j, note, out) \/ Requeue(j, note, out)
      PROVE  Saving
  <2>1. PICK from \in {"running", "paused_review"},
             to \in {"paused_review", "failed", "cancelled", "queued"} :
          /\ Review(j, from, to, note, out)
          /\ from = "running" <=> to = "paused_review"
          /\ starts' = starts
          /\ requeues' = IF to = "queued" THEN [requeues EXCEPT ![j] = @ + 1]
                         ELSE requeues
    BY <1>4 DEF RequestReview, Reject, StopJob, Requeue, history
  <2> DEFINE r == Reviewed(mem[j], to, note)
  <2>2. r \in Record /\ r.status = to
    <3>1. note \in Reviews
      BY DEF ReviewNotes, Reviews
    <3>2. r \in Record
      BY <1>1, <3>1, BuildersTyped DEF Statuses
    <3>3. r.status = to
      BY <1>1, BuildersStatus
    <3>4. QED
      BY <3>2, <3>3
  <2>3. Follows(mem[j], r)
    <3>1. r.maxAttempts = mem[j].maxAttempts /\ r.attempt = mem[j].attempt
      BY <1>1 DEF Reviewed, Record
    <3>2. mem[j].status = from
      BY <2>1 DEF Review
    <3>3. <<from, to>> \in Moves
      BY <2>1 DEF Moves
    <3>4. MalformedInput \/ (SchemaValid(mem[j]) => SchemaValid(r))
      BY <1>1, FlagsAssumption DEF SchemaValid, Reviewed, Record, ReviewNotes
    <3>5. QED
      BY <2>2, <3>1, <3>2, <3>3, <3>4 DEF Follows
  <2>4. SaveStep(j, r, out)
    BY <2>1, <2>2, <2>3 DEF SaveStep, Review
  <2>5. QED
    BY <2>2, <2>4 DEF Saving
<1>5. QED
  BY <1>2, <1>3, <1>4

LEMMA WorkerSaves ==
  IInv /\ (PollAny \/ EndTurn \/ Finish \/ WorkerStart \/ WorkerStop)
    => Saving \/ NoSave
<1> SUFFICES ASSUME IInv,
                    PollAny \/ EndTurn \/ Finish \/ WorkerStart \/ WorkerStop
             PROVE  Saving \/ NoSave
  OBVIOUS
<1> USE DEF IInv
<1>1. ASSUME NEW j \in Jobs, NEW out \in Outcomes, Poll(j, out)
      PROVE  Saving
  <2>1. mem[j] \in Record /\ mem[j].status \in {"queued", "claimed"}
    BY <1>1 DEF TypeOK, Poll, IsFirstClaimable, Claimable
  <2>2. /\ Follows(mem[j], Claimed(mem[j])) /\ Claimed(mem[j]).status = "claimed"
        /\ Claimed(mem[j]) \in Record
    BY <2>1, BuildersFollow, BuildersStatus, BuildersTyped
  <2>3. SaveStep(j, Claimed(mem[j]), out)
    BY <1>1, <2>2 DEF Poll, SaveStep, history
  <2>4. QED
    BY <2>2, <2>3 DEF Saving
<1>2. ASSUME NEW out \in Outcomes, StartTurn(out)
      PROVE  Saving
  <2> DEFINE j == turn.job
  <2>1. j \in Jobs /\ mem[j] \in Record /\ mem[j].status = "claimed"
    BY <1>2 DEF TypeOK, TurnSound, StartTurn
  <2>2. /\ Follows(mem[j], Started(mem[j])) /\ Started(mem[j]).status = "running"
        /\ Started(mem[j]) \in Record
    BY <2>1, BuildersFollow, BuildersStatus, BuildersTyped
  <2>3. SaveStep(j, Started(mem[j]), out)
    BY <1>2, <2>1, <2>2 DEF StartTurn, SaveStep
  <2>4. QED
    BY <2>1, <2>2, <2>3 DEF Saving
<1>3. ASSUME NEW out \in Outcomes, RetryTurn(out)
      PROVE  Saving
  <2> DEFINE j == turn.job
  <2>1. j \in Jobs /\ mem[j] \in Record /\ mem[j].status = "failed"
    BY <1>3 DEF TypeOK, RetryTurn, CanRetry
  <2>2. /\ Follows(mem[j], Retried(mem[j])) /\ Retried(mem[j]).status = "queued"
        /\ Retried(mem[j]) \in Record
    BY <1>3, <2>1, BuildersFollow, BuildersStatus, BuildersTyped DEF RetryTurn
  <2>3. SaveStep(j, Retried(mem[j]), out)
    BY <1>3, <2>1, <2>2 DEF RetryTurn, SaveStep, history
  <2>4. QED
    BY <2>1, <2>2, <2>3 DEF Saving
<1>4. ASSUME NEW e \in execs, NEW out \in Outcomes, FinishOk(e, out)
      PROVE  Saving
  <2> DEFINE j == e.job
  <2>1. j \in Jobs /\ e.run \in Nat /\ mem[j] \in Record /\ mem[j].status = "running"
    BY <1>4 DEF TypeOK, Exec, FinishOk, StillRunning
  <2> DEFINE r == Completed(mem[j], e.run)
  <2>2. Follows(mem[j], r) /\ r.status = "completed" /\ r \in Record
    <3>1. Follows(mem[j], r)
      BY <2>1, BuildersFollow
    <3>2. r.status = "completed"
      BY <2>1, BuildersStatus
    <3>3. r \in Record
      BY <2>1, BuildersTyped
    <3>4. QED
      BY <3>1, <3>2, <3>3
  <2>3. SaveStep(j, r, out)
    BY <1>4, <2>1, <2>2 DEF FinishOk, SaveStep, history
  <2>4. QED
    BY <2>1, <2>2, <2>3 DEF Saving
<1>5. ASSUME NEW e \in execs, NEW error \in ExecErrors, NEW out \in Outcomes,
             FinishFailed(e, error, out)
      PROVE  Saving
  <2> DEFINE j == e.job
             r == Failed(mem[j], error)
  <2>1. j \in Jobs /\ error \in Errors /\ mem[j] \in Record /\ mem[j].status = "running"
    BY <1>5 DEF TypeOK, Exec, ExecErrors, Errors, FinishFailed, StillRunning
  <2>2. Follows(mem[j], r) /\ r.status = "failed" /\ r \in Record
    <3>1. Follows(mem[j], r)
      BY <2>1, BuildersFollow
    <3>2. r.status = "failed"
      BY <2>1, BuildersStatus
    <3>3. r \in Record
      BY <2>1, BuildersTyped
    <3>4. QED
      BY <3>1, <3>2, <3>3
  <2>3. SaveStep(j, r, out)
    BY <1>5, <2>1, <2>2 DEF FinishFailed, SaveStep, history
  <2>4. QED
    BY <2>1, <2>2, <2>3 DEF Saving
<1>6. CASE RetryTurnRefused \/ WorkerStart \/ WorkerStop
           \/ \E e \in execs : FinishDropped(e)
  BY <1>6 DEF RetryTurnRefused, WorkerStart, WorkerStop, FinishDropped, history, NoSave
<1>7. QED
  BY <1>1, <1>2, <1>3, <1>4, <1>5, <1>6 DEF PollAny, EndTurn, Finish

LEMMA StepKinds ==
  IInv /\ [Next]_vars => Creation \/ Saving \/ NoSave \/ Tick \/ Restart
<1>1. UNCHANGED vars => NoSave
  BY DEF vars, NoSave, jobVars
<1>2. QED
  BY <1>1, OperatorSaves, WorkerSaves DEF Next

-----------------------------------------------------------------------------
(* The runs of a job.  A copy of a record that waits to be started still   *)
(* has the run it waits for to its credit; this holds of the file too,     *)
(* from which a restart continues.                                         *)

Credit(j, r) ==
  /\ starts[j] <= r.attempt + 1 + requeues[j]
  /\ r.status \in {"queued", "claimed"} => starts[j] <= r.attempt + requeues[j]
  /\ r.status = "absent" => starts[j] = 0

RunsCredited == \A j \in Jobs : Credit(j, mem[j]) /\ Credit(j, disk[j])

LEMMA CreditInit == Init => RunsCredited
BY DEF Init, RunsCredited, Credit, AbsentRecord

LEMMA CreditSaving == TypeOK /\ RunsCredited /\ Saving => RunsCredited'
<1> SUFFICES ASSUME TypeOK, RunsCredited,
                    NEW j \in Jobs, NEW r \in Record, NEW out \in Outcomes,
                    SaveStep(j, r, out)
             PROVE  RunsCredited'
  BY DEF Saving
<1>1. /\ mem[j] \in Record /\ disk[j] \in Record
      /\ starts[j] \in Nat /\ requeues[j] \in Nat
      /\ mem[j].attempt \in Nat /\ disk[j].attempt \in Nat /\ r.attempt \in Nat
  BY DEF TypeOK, Record
<1>2. Credit(j, mem[j]) /\ Credit(j, disk[j])
  BY DEF RunsCredited
<1>3. ASSUME NEW k \in Jobs, k # j
      PROVE  Credit(k, mem[k])' /\ Credit(k, disk[k])'
  <2>1. /\ mem'[k] = mem[k] /\ disk'[k] = disk[k]
        /\ starts'[k] = starts[k] /\ requeues'[k] = requeues[k]
    BY <1>3 DEF SaveStep, Save, TypeOK
  <2>2. QED
    BY <2>1 DEF RunsCredited, Credit
<1>4. mem'[j] = r /\ disk'[j] = IF out = "written" THEN r ELSE disk[j]
  BY DEF SaveStep, Save, TypeOK
<1>5. starts'[j] = IF r.status = "running" /\ out = "written"
                   THEN starts[j] + 1 ELSE starts[j]
  BY DEF SaveStep, TypeOK
<1>6. requeues'[j] = IF mem[j].status = "paused_review" /\ r.status = "queued"
                     THEN requeues[j] + 1 ELSE requeues[j]
  BY DEF SaveStep, TypeOK
<1>7. Follows(mem[j], r)
  BY DEF SaveStep
<1>8. Credit(j, mem[j])'
  <2>1. r.status = "running" => mem[j].status = "claimed"
    BY <1>7 DEF Follows, Moves
  <2>2. r.status = "claimed" => mem[j].status \in {"queued", "claimed"}
    BY <1>7 DEF Follows, Moves
  <2>3. r.status = "queued" => mem[j].status \in {"failed", "paused_review"}
    BY <1>7 DEF Follows, Moves
  <2>4. r.status # "absent"
    BY <1>7 DEF Follows, Moves
  <2>5. r.attempt >= mem[j].attempt
        /\ (mem[j].status = "failed" => r.attempt = mem[j].attempt + 1)
    BY <1>1, <1>7 DEF Follows
  <2>6. CASE r.status = "running"
    BY <1>1, <1>2, <1>4, <1>5, <1>6, <2>1, <2>5, <2>6 DEF Credit
  <2>7. CASE r.status # "running"
    BY <1>1, <1>2, <1>4, <1>5, <1>6, <2>2, <2>3, <2>4, <2>5, <2>7 DEF Credit
  <2>8. QED
    BY <2>6, <2>7
<1>9. Credit(j, disk[j])'
  <2>1. CASE out = "written"
    BY <1>4, <1>8, <2>1 DEF Credit
  <2>2. CASE out # "written"
    <3>1. disk'[j] = disk[j] /\ starts'[j] = starts[j] /\ requeues'[j] >= requeues[j]
      BY <1>1, <1>4, <1>5, <1>6, <2>2
    <3>2. requeues'[j] \in Nat
      BY <1>1, <1>6
    <3>3. QED
      BY <1>1, <1>2, <3>1, <3>2 DEF Credit
  <2>3. QED
    BY <2>1, <2>2
<1>10. QED
  BY <1>3, <1>8, <1>9 DEF RunsCredited

LEMMA CreditNext == IInv /\ RunsCredited /\ [Next]_vars => RunsCredited'
<1> SUFFICES ASSUME IInv, RunsCredited, [Next]_vars
             PROVE  RunsCredited'
  OBVIOUS
<1> USE DEF IInv
<1>1. ASSUME NEW j \in Jobs, NEW limit \in AttemptLimits, CreateJob(j, limit)
      PROVE  RunsCredited'
  <2>1. /\ mem' = [mem EXCEPT ![j] = NewRecord(limit)]
        /\ disk' = [disk EXCEPT ![j] = NewRecord(limit)]
        /\ mem[j].status = "absent"
        /\ starts' = starts /\ requeues' = requeues
    BY <1>1 DEF CreateJob, history
  <2>2. starts[j] = 0 /\ requeues[j] \in Nat
    BY <2>1 DEF RunsCredited, Credit, TypeOK
  <2>3. NewRecord(limit).attempt = 0 /\ NewRecord(limit).status = "queued"
    BY DEF NewRecord, AbsentRecord
  <2>4. \A k \in Jobs : k # j => mem'[k] = mem[k] /\ disk'[k] = disk[k]
    BY <2>1 DEF TypeOK
  <2>5. mem'[j] = NewRecord(limit) /\ disk'[j] = NewRecord(limit)
    BY <2>1 DEF TypeOK
  <2>6. QED
    BY <2>1, <2>2, <2>3, <2>4, <2>5 DEF RunsCredited, Credit
<1>2. CASE NoSave
  BY <1>2 DEF NoSave, jobVars, RunsCredited, Credit
<1>3. CASE Tick
  <2>1. /\ \A j \in Jobs : mem'[j] = Aged(mem[j]) /\ disk'[j] = Aged(disk[j])
        /\ starts' = starts /\ requeues' = requeues
    BY <1>3 DEF Tick, history
  <2>2. ASSUME NEW r \in Record
        PROVE  Aged(r).status = r.status /\ Aged(r).attempt = r.attempt
    BY DEF Aged, Record
  <2>3. \A j \in Jobs : mem[j] \in Record /\ disk[j] \in Record
    BY DEF TypeOK
  <2>4. QED
    BY <2>1, <2>2, <2>3 DEF RunsCredited, Credit
<1>4. CASE Restart
  BY <1>4 DEF Restart, RunsCredited, Credit
<1>5. QED
  BY <1>1, <1>2, <1>3, <1>4, CreditSaving, StepKinds DEF Creation

(* A job runs once, once more for every attempt it was given and once more *)
(* for every decision that re-queued it, also when writes fail and the     *)
(* process restarts from older files.                                      *)
THEOREM RunsBounded == Spec => []RunsAccounted
<1>1. Init => IInv /\ RunsCredited
  BY SafeInit, CreditInit
<1>2. IInv /\ RunsCredited /\ [Next]_vars => IInv' /\ RunsCredited'
  BY SafeNext, CreditNext
<1>3. RunsCredited => RunsAccounted
  BY DEF RunsCredited, Credit, RunsAccounted
<1>4. QED
  BY <1>1, <1>2, <1>3, PTL DEF Spec

-----------------------------------------------------------------------------
(* Running jobs and their executions.  A claim is on disk before the run   *)
(* is started in the same turn.                                            *)

ClaimWritten == turn.at = "start" => disk[turn.job].status = "claimed"

ExecInv == ClaimWritten /\ RunningHasExecution

LEMMA ExecInit == Init => ExecInv
BY DEF Init, ExecInv, ClaimWritten, RunningHasExecution, Idle, AbsentRecord

(* The step saves a record that is not running, and loses no execution of  *)
(* another job that is. *)
LEMMA ExecSave ==
  ASSUME IInv, ExecInv, NEW j \in Jobs, NEW r \in Record, NEW out,
         Save(j, r, out), r.status # "running", restarts' = restarts,
         starts' = starts, \A e \in execs : e \in execs' \/ e.job = j
  PROVE  RunningHasExecution'
<1> USE DEF IInv
<1>1. mem'[j] = r /\ \A k \in Jobs : k # j => mem'[k] = mem[k] /\ disk'[k] = disk[k]
  BY DEF Save, TypeOK
<1>2. ASSUME NEW k \in Jobs, restarts = 0,
             mem'[k].status = "running", disk'[k].status = "running"
      PROVE  \E e \in execs' : e.job = k /\ e.run = starts[k]
  <2>1. k # j
    BY <1>1, <1>2
  <2>2. mem[k].status = "running" /\ disk[k].status = "running"
    BY <1>1, <1>2, <2>1
  <2>3. PICK e \in execs : e.job = k /\ e.run = starts[k]
    BY <1>2, <2>2 DEF ExecInv, RunningHasExecution
  <2>4. QED
    BY <2>1, <2>3
<1>3. QED
  BY <1>2 DEF RunningHasExecution

LEMMA ExecOperator == IInv /\ ExecInv /\ Operator => ExecInv'
<1> SUFFICES ASSUME IInv, ExecInv, NEW j \in Jobs,
                    \/ \E limit \in AttemptLimits : CreateJob(j, limit)
                    \/ \E out \in Outcomes : CancelJob(j, out) \/ RetryJob(j, out)
                    \/ \E note \in ReviewNotes, out \in Outcomes :
                         \/ RequestReview(j, note, out)
                         \/ Reject(j, note, out)
                         \/ StopJob(j, note, out)
                         \/ Requeue(j, note, out)
             PROVE  ExecInv'
  BY DEF Operator
<1> USE DEF IInv
<1>1. turn = Idle /\ turn' = turn /\ execs' = execs /\ starts' = starts
      /\ restarts' = restarts
  BY DEF CreateJob, CancelJob, RetryJob, RequestReview, Reject, StopJob, Requeue,
         Review, workerVars, history
<1>2. ClaimWritten'
  BY <1>1 DEF ClaimWritten, Idle
<1>3. mem[j] \in Record
  BY DEF TypeOK
<1>4. ASSUME NEW limit \in AttemptLimits, CreateJob(j, limit)
      PROVE  RunningHasExecution'
  <2>1. /\ mem'[j].status = "queued"
        /\ \A k \in Jobs : k # j => mem'[k] = mem[k] /\ disk'[k] = disk[k]
    BY <1>4 DEF CreateJob, TypeOK, NewRecord, AbsentRecord
  <2>2. QED
    BY <1>1, <2>1 DEF ExecInv, RunningHasExecution
<1>5. ASSUME NEW out \in Outcomes, CancelJob(j, out)
      PROVE  RunningHasExecution'
  <2>1. Cancelled(mem[j]) \in Record /\ Cancelled(mem[j]).status # "running"
    BY <1>3, BuildersTyped, BuildersStatus
  <2>2. QED
    BY <1>1, <1>5, <2>1, ExecSave DEF CancelJob
<1>6. ASSUME NEW out \in Outcomes, RetryJob(j, out)
      PROVE  RunningHasExecution'
  <2>1. Retried(mem[j]) \in Record /\ Retried(mem[j]).status # "running"
    BY <1>3, BuildersTyped, BuildersStatus
  <2>2. QED
    BY <1>1, <1>6, <2>1, ExecSave DEF RetryJob
<1>7. ASSUME NEW note \in ReviewNotes, NEW out \in Outcomes,
             RequestReview(j, note, out) \/ Reject(j, note, out)
             \/ StopJob(j, note, out) \/ Requeue(j, note, out)
      PROVE  RunningHasExecution'
  <2>1. PICK to \in {"paused_review", "failed", "cancelled", "queued"} :
          Save(j, Reviewed(mem[j], to, note), out)
    BY <1>7 DEF RequestReview, Reject, StopJob, Requeue, Review
  <2>2. note \in Reviews
    BY DEF ReviewNotes, Reviews
  <2>3. Reviewed(mem[j], to, note) \in Record
    BY <1>3, <2>2, BuildersTyped DEF Statuses
  <2>4. Reviewed(mem[j], to, note).status # "running"
    BY <1>3, BuildersStatus
  <2>5. QED
    BY <1>1, <2>1, <2>3, <2>4, ExecSave
<1>8. QED
  BY <1>2, <1>4, <1>5, <1>6, <1>7 DEF ExecInv

LEMMA ExecWorker ==
  IInv /\ ExecInv /\ (PollAny \/ EndTurn \/ Finish \/ WorkerStart \/ WorkerStop)
    => ExecInv'
<1> SUFFICES ASSUME IInv, ExecInv,
                    PollAny \/ EndTurn \/ Finish \/ WorkerStart \/ WorkerStop
             PROVE  ExecInv'
  OBVIOUS
<1> USE DEF IInv
<1>1. ASSUME NEW j \in Jobs, NEW out \in Outcomes, Poll(j, out)
      PROVE  ExecInv'
  <2>1. /\ Save(j, Claimed(mem[j]), out) /\ execs' = execs
        /\ starts' = starts /\ restarts' = restarts /\ turn = Idle
        /\ turn' = IF out = "written" THEN [at |-> "start", job |-> j] ELSE turn
    BY <1>1 DEF Poll, history
  <2>2. Claimed(mem[j]) \in Record /\ Claimed(mem[j]).status = "claimed"
    BY BuildersTyped, BuildersStatus DEF TypeOK
  <2>3. RunningHasExecution'
    BY <2>1, <2>2, ExecSave
  <2>4. out = "written" => disk'[j].status = "claimed"
    BY <2>1, <2>2 DEF Save, TypeOK
  <2>5. QED
    BY <2>1, <2>3, <2>4 DEF ExecInv, ClaimWritten, Idle
<1>2. ASSUME NEW out \in Outcomes, StartTurn(out)
      PROVE  ExecInv'
  <2> DEFINE j == turn.job
  <2>1. j \in Jobs /\ starts[j] \in Nat
    BY <1>2 DEF StartTurn, TypeOK
  <2>2. disk[j].status = "claimed"
    BY <1>2 DEF StartTurn, ExecInv, ClaimWritten
  <2>3. /\ Save(j, Started(mem[j]), out) /\ turn' = Idle /\ restarts' = restarts
    BY <1>2 DEF StartTurn
  <2>4. \A k \in Jobs : k # j => mem'[k] = mem[k] /\ disk'[k] = disk[k]
    BY <2>3 DEF Save, TypeOK
  <2>5. CASE out = "written"
    <3>1. /\ starts' = [starts EXCEPT ![j] = @ + 1]
          /\ execs \subseteq execs'
          /\ \E e \in execs' : e.job = j /\ e.run = starts[j] + 1
      <4> DEFINE new == [job |-> j, attempt |-> mem[j].attempt,
                         maxAttempts |-> mem[j].maxAttempts, run |-> starts[j] + 1]
      <4>1. execs' = execs \cup {new} /\ starts' = [starts EXCEPT ![j] = @ + 1]
        BY <1>2, <2>5 DEF StartTurn
      <4>2. new \in execs' /\ new.job = j /\ new.run = starts[j] + 1
        BY <4>1
      <4>3. QED
        BY <4>1, <4>2
    <3>2. starts'[j] = starts[j] + 1 /\ \A k \in Jobs : k # j => starts'[k] = starts[k]
      BY <2>1, <3>1 DEF TypeOK
    <3>3. QED
      BY <2>3, <2>4, <3>1, <3>2 DEF ExecInv, RunningHasExecution, ClaimWritten, Idle
  <2>6. CASE out # "written"
    <3>1. execs' = execs /\ starts' = starts
      BY <1>2, <2>6 DEF StartTurn
    <3>2. disk' = disk
      BY <2>3, <2>6 DEF Save
    <3>3. QED
      BY <2>2, <2>3, <2>4, <3>1, <3>2
         DEF ExecInv, RunningHasExecution, ClaimWritten, Idle
  <2>7. QED
    BY <2>5, <2>6
<1>3. ASSUME NEW out \in Outcomes, RetryTurn(out)
      PROVE  ExecInv'
  <2>1. turn.job \in Jobs
    BY <1>3 DEF RetryTurn, TypeOK
  <2>2. /\ Retried(mem[turn.job]) \in Record
        /\ Retried(mem[turn.job]).status = "queued"
    BY <2>1, BuildersTyped, BuildersStatus DEF TypeOK
  <2>3. /\ Save(turn.job, Retried(mem[turn.job]), out) /\ execs' = execs
        /\ starts' = starts /\ restarts' = restarts /\ turn' = Idle
    BY <1>3 DEF RetryTurn, history
  <2>4. RunningHasExecution'
    BY <2>1, <2>2, <2>3, ExecSave
  <2>5. QED
    BY <2>3, <2>4 DEF ExecInv, ClaimWritten, Idle
<1>4. ASSUME NEW e \in execs, NEW out \in Outcomes, FinishOk(e, out)
      PROVE  ExecInv'
  <2>1. e.job \in Jobs /\ e.run \in Nat /\ mem[e.job] \in Record
    BY DEF TypeOK, Exec
  <2>2. Completed(mem[e.job], e.run) \in Record
    BY <2>1, BuildersTyped
  <2>3. Completed(mem[e.job], e.run).status # "running"
    BY <2>1, BuildersStatus
  <2>4. /\ Save(e.job, Completed(mem[e.job], e.run), out) /\ execs' = execs \ {e}
        /\ starts' = starts /\ restarts' = restarts /\ turn' = turn /\ turn = Idle
    BY <1>4 DEF FinishOk, history
  <2>5. RunningHasExecution'
    BY <2>1, <2>2, <2>3, <2>4, ExecSave
  <2>6. QED
    BY <2>4, <2>5 DEF ExecInv, ClaimWritten, Idle
<1>5. ASSUME NEW e \in execs, NEW error \in ExecErrors, NEW out \in Outcomes,
             FinishFailed(e, error, out)
      PROVE  ExecInv'
  <2>1. e.job \in Jobs /\ error \in Errors /\ mem[e.job] \in Record
    BY DEF TypeOK, Exec, ExecErrors, Errors
  <2>2. Failed(mem[e.job], error) \in Record
    BY <2>1, BuildersTyped
  <2>3. Failed(mem[e.job], error).status # "running"
    BY <2>1, BuildersStatus
  <2>4. /\ Save(e.job, Failed(mem[e.job], error), out) /\ execs' = execs \ {e}
        /\ starts' = starts /\ restarts' = restarts /\ turn'.at # "start"
    BY <1>5 DEF FinishFailed, history, Idle
  <2>5. RunningHasExecution'
    BY <2>1, <2>2, <2>3, <2>4, ExecSave
  <2>6. QED
    BY <2>4, <2>5 DEF ExecInv, ClaimWritten
<1>6. ASSUME NEW e \in execs, FinishDropped(e)
      PROVE  ExecInv'
  <2>1. /\ mem[e.job].status # "running" /\ execs' = execs \ {e}
        /\ jobVars' = jobVars /\ turn' = turn
        /\ starts' = starts /\ restarts' = restarts
    BY <1>6 DEF FinishDropped, StillRunning, history
  <2>2. QED
    BY <2>1 DEF ExecInv, RunningHasExecution, ClaimWritten, jobVars
<1>7. CASE RetryTurnRefused \/ WorkerStart \/ WorkerStop
  <2>1. /\ jobVars' = jobVars /\ execs' = execs /\ turn'.at # "start"
        /\ starts' = starts /\ restarts' = restarts
    BY <1>7 DEF RetryTurnRefused, WorkerStart, WorkerStop, history, Idle
  <2>2. QED
    BY <2>1 DEF ExecInv, RunningHasExecution, ClaimWritten, jobVars
<1>8. QED
  BY <1>1, <1>2, <1>3, <1>4, <1>5, <1>6, <1>7 DEF PollAny, EndTurn, Finish

LEMMA ExecNext == IInv /\ ExecInv /\ [Next]_vars => ExecInv'
<1> SUFFICES ASSUME IInv, ExecInv, [Next]_vars
             PROVE  ExecInv'
  OBVIOUS
<1> USE DEF IInv
<1>1. CASE Tick
  <2>1. /\ \A j \in Jobs : mem'[j] = Aged(mem[j]) /\ disk'[j] = Aged(disk[j])
        /\ turn' = turn /\ execs' = execs
        /\ starts' = starts /\ restarts' = restarts
    BY <1>1 DEF Tick, workerVars, history
  <2>2. ASSUME NEW r \in Record
        PROVE  Aged(r).status = r.status
    BY DEF Aged, Record
  <2>3. \A j \in Jobs : mem[j] \in Record /\ disk[j] \in Record
    BY DEF TypeOK
  <2>4. turn.at = "start" => turn.job \in Jobs
    BY DEF TypeOK
  <2>5. QED
    BY <2>1, <2>2, <2>3, <2>4 DEF ExecInv, RunningHasExecution, ClaimWritten
<1>2. CASE Restart
  <2>1. restarts' # 0 /\ turn' = Idle
    BY <1>2 DEF Restart, TypeOK
  <2>2. QED
    BY <2>1 DEF ExecInv, RunningHasExecution, ClaimWritten, Idle
<1>3. CASE UNCHANGED vars
  BY <1>3 DEF vars, ExecInv, RunningHasExecution, ClaimWritten
<1>4. QED
  BY <1>1, <1>2, <1>3, ExecOperator, ExecWorker DEF Next

(* Until the process dies, a job that both copies show as running is being *)
(* run, by the execution started last for it: stopping and starting the    *)
(* worker and zombie executions included.                                  *)
THEOREM RunningIsRun == Spec => []RunningHasExecution
<1>1. Init => IInv /\ ExecInv
  BY SafeInit, ExecInit
<1>2. IInv /\ ExecInv /\ [Next]_vars => IInv' /\ ExecInv'
  BY SafeNext, ExecNext
<1>3. ExecInv => RunningHasExecution
  BY DEF ExecInv
<1>4. QED
  BY <1>1, <1>2, <1>3, PTL DEF Spec

-----------------------------------------------------------------------------
(* One execution at a time.  As long as nobody stops the worker, a poll    *)
(* claims nothing while an execution is in flight, so that the one in      *)
(* flight is the latest run of its job.                                    *)

OneRun ==
  /\ ~processing => execs = {}
  /\ turn.at # "idle" => processing /\ execs = {}
  /\ \A e, f \in execs : e = f
  /\ \A e \in execs : e.run = starts[e.job]

LEMMA OneRunInit == Init => OneRun
BY DEF Init, OneRun, Idle

LEMMA OneRunNext == ~AllowStop /\ TypeOK /\ OneRun /\ [Next]_vars => OneRun'
<1> SUFFICES ASSUME ~AllowStop, TypeOK, OneRun, [Next]_vars
             PROVE  OneRun'
  OBVIOUS
<1>1. ASSUME UNCHANGED <<processing, execs, turn, starts>>
      PROVE  OneRun'
  BY <1>1 DEF OneRun
<1>2. ASSUME execs' = {}, turn'.at = "idle"
      PROVE  OneRun'
  BY <1>2 DEF OneRun
<1>3. CASE Operator
  <2>1. UNCHANGED <<processing, execs, turn, starts>>
    BY <1>3 DEF Operator, CreateJob, CancelJob, RetryJob, RequestReview, Reject,
                StopJob, Requeue, Review, workerVars, history
  <2>2. QED
    BY <1>1, <2>1
<1>4. CASE WorkerStart \/ Tick
  BY <1>1, <1>4 DEF WorkerStart, Tick, workerVars, history
<1>5. ASSUME NEW j \in Jobs, NEW out \in Outcomes, Poll(j, out)
      PROVE  OneRun'
  <2>1. /\ ~processing /\ execs' = execs
        /\ turn = Idle
    BY <1>5 DEF Poll, WorkerFree
  <2>2. execs' = {}
    BY <2>1 DEF OneRun
  <2>3. processing' = TRUE \/ turn'.at = "idle"
    BY <1>5 DEF Poll, Idle
  <2>4. QED
    BY <2>2, <2>3 DEF OneRun
<1>6. ASSUME NEW out \in Outcomes, StartTurn(out)
      PROVE  OneRun'
  <2> DEFINE j == turn.job
             new == [job |-> j, attempt |-> mem[j].attempt,
                     maxAttempts |-> mem[j].maxAttempts, run |-> starts[j] + 1]
  <2>1. turn' = Idle /\ processing /\ execs = {} /\ j \in Jobs
    BY <1>6 DEF StartTurn, OneRun, TypeOK
  <2>2. CASE out = "written"
    <3>1. /\ execs' = {new} /\ processing'
          /\ starts' = [starts EXCEPT ![j] = @ + 1]
      BY <1>6, <2>1, <2>2 DEF StartTurn
    <3>2. new.run = starts'[new.job]
      BY <2>1, <3>1 DEF TypeOK
    <3> HIDE DEF new
    <3>3. QED
      BY <2>1, <3>1, <3>2 DEF OneRun, Idle
  <2>3. CASE out # "written"
    <3>1. execs' = {}
      BY <1>6, <2>1, <2>3 DEF StartTurn
    <3>2. QED
      BY <1>2, <2>1, <3>1 DEF Idle
  <2>4. QED
    BY <2>2, <2>3
<1>7. ASSUME RetryTurnRefused \/ \E out \in Outcomes : RetryTurn(out)
      PROVE  OneRun'
  BY <1>2, <1>7 DEF RetryTurn, RetryTurnRefused, OneRun, Idle
<1>8. ASSUME NEW e \in execs, execs' = execs \ {e}
      PROVE  execs' = {}
  BY <1>8 DEF OneRun
<1>9. ASSUME NEW e \in execs, NEW out \in Outcomes, FinishOk(e, out)
      PROVE  OneRun'
  BY <1>2, <1>8, <1>9 DEF FinishOk, Idle
<1>10. ASSUME NEW e \in execs, NEW error \in ExecErrors, NEW out \in Outcomes,
              FinishFailed(e, error, out)
       PROVE  OneRun'
  <2>1. execs' = {}
    BY <1>8, <1>10 DEF FinishFailed
  <2>2. processing
    BY DEF OneRun
  <2>3. CASE UNCHANGED processing
    BY <2>1, <2>2, <2>3 DEF OneRun
  <2>4. CASE UNCHANGED turn
    BY <1>2, <1>10, <2>1, <2>4 DEF FinishFailed, Idle
  <2>5. QED
    BY <1>10, <2>3, <2>4 DEF FinishFailed
<1>11. ASSUME NEW e \in execs, FinishDropped(e)
       PROVE  OneRun'
  BY <1>2, <1>8, <1>11 DEF FinishDropped, Idle
<1>12. CASE Restart
  BY <1>2, <1>12 DEF Restart, Idle
<1>13. CASE UNCHANGED vars
  BY <1>1, <1>13 DEF vars
<1>14. QED
  BY <1>3, <1>4, <1>5, <1>6, <1>7, <1>9, <1>10, <1>11, <1>12, <1>13
     DEF Next, PollAny, EndTurn, Finish, WorkerStop

(* Nobody stops the worker, as in server.js: no execution that was started *)
(* earlier decides a job that has been started again.                      *)
THEOREM LatestRunAlwaysDecides == ~AllowStop => (Spec => LatestRunDecides)
<1> SUFFICES ASSUME ~AllowStop PROVE Spec => LatestRunDecides
  OBVIOUS
<1> DEFINE Decides ==
      \A e \in execs \ execs' :
        /\ mem[e.job].status = "running"
        /\ mem'[e.job].status # "running"
        /\ restarts' = restarts
        => e.run = starts[e.job]
<1>1. Init => IInv /\ OneRun
  BY SafeInit, OneRunInit
<1>2. IInv /\ OneRun /\ [Next]_vars => IInv' /\ OneRun'
  BY SafeNext, OneRunNext DEF IInv
<1>3. OneRun => [Decides]_vars
  BY DEF OneRun
<1>4. QED
  BY <1>1, <1>2, <1>3, PTL DEF Spec, LatestRunDecides

-----------------------------------------------------------------------------
(* The lifecycle.  With a disk that works and input that fits the schema   *)
(* both copies of a record are the same between two operations, and every  *)
(* step of the store is a step of JobLifecycle, or none.                   *)

NoFaults == ~DiskFaults /\ ~MalformedInput

Mirrored ==
  /\ mem = disk
  /\ \A j \in Jobs : SchemaValid(mem[j])
  /\ \A j \in Jobs : mem[j].status = "absent" => mem[j].attempt = 0

LEMMA MirroredInit == Init => Mirrored
BY DEF Init, Mirrored, SchemaValid, AbsentRecord

LEMMA SaveMirrored ==
  ASSUME NoFaults, TypeOK, Mirrored, NEW j \in Jobs, NEW r \in Record,
         NEW out \in Outcomes, SaveStep(j, r, out)
  PROVE  mem' = [mem EXCEPT ![j] = r] /\ disk' = mem' /\ Mirrored'
<1>1. SchemaValid(r) /\ r.status # "absent"
  BY DEF SaveStep, Follows, Moves, Mirrored, NoFaults
<1>2. out = "written"
  BY <1>1 DEF SaveStep, Save, SaveOutcomes, NoFaults
<1>3. mem' = [mem EXCEPT ![j] = r] /\ disk' = mem'
  BY <1>2 DEF SaveStep, Save, Mirrored
<1>4. QED
  BY <1>1, <1>3 DEF Mirrored, TypeOK

LEMMA CreateMirrored ==
  ASSUME TypeOK, Mirrored, NEW j \in Jobs, NEW limit \in AttemptLimits,
         CreateJob(j, limit)
  PROVE  Mirrored'
<1>1. mem' = [mem EXCEPT ![j] = NewRecord(limit)] /\ disk' = mem'
  BY DEF CreateJob, Mirrored
<1>2. SchemaValid(NewRecord(limit)) /\ NewRecord(limit).status = "queued"
  BY DEF NewRecord, AbsentRecord, SchemaValid
<1>3. QED
  BY <1>1, <1>2 DEF Mirrored, TypeOK

LEMMA AgedKeeps ==
  ASSUME NEW r \in Record
  PROVE  /\ Aged(r).status = r.status /\ Aged(r).attempt = r.attempt
         /\ Aged(r).maxAttempts = r.maxAttempts
         /\ Aged(r).error = r.error /\ Aged(r).review = r.review
BY DEF Aged, Record

LEMMA MirroredNext == NoFaults /\ IInv /\ Mirrored /\ [Next]_vars => Mirrored'
<1> SUFFICES ASSUME NoFaults, IInv, Mirrored, [Next]_vars
             PROVE  Mirrored'
  OBVIOUS
<1> USE DEF IInv
<1>1. CASE Creation
  BY <1>1, CreateMirrored DEF Creation
<1>2. CASE Saving
  BY <1>2, SaveMirrored DEF Saving
<1>3. CASE NoSave
  BY <1>3 DEF NoSave, jobVars, Mirrored
<1>4. CASE Tick
  <2>1. /\ mem' = [j \in Jobs |-> Aged(mem[j])]
        /\ disk' = [j \in Jobs |-> Aged(disk[j])]
    BY <1>4 DEF Tick
  <2>2. mem' = disk'
    BY <2>1 DEF Mirrored
  <2>3. ASSUME NEW j \in Jobs
        PROVE  /\ SchemaValid(mem'[j])
               /\ mem'[j].status = "absent" => mem'[j].attempt = 0
    <3>1. mem'[j] = Aged(mem[j]) /\ mem[j] \in Record
      BY <2>1 DEF TypeOK
    <3>2. QED
      BY <3>1, AgedKeeps DEF Mirrored, SchemaValid
  <2>4. QED
    BY <2>2, <2>3 DEF Mirrored
<1>5. CASE Restart
  BY <1>5 DEF Restart, Mirrored
<1>6. QED
  BY <1>1, <1>2, <1>3, <1>4, <1>5, StepKinds

(* The lifecycle's variables, as the refinement mapping gives them. *)
StatusOnDisk == [j \in Jobs |-> disk[j].status]
AttemptOnDisk == [j \in Jobs |-> disk[j].attempt]
LimitOnDisk == [j \in Jobs |-> disk[j].maxAttempts]

LEMMA LifecycleSave ==
  ASSUME NoFaults, TypeOK, Mirrored, NEW j \in Jobs, NEW r \in Record,
         NEW out \in Outcomes, SaveStep(j, r, out)
  PROVE  [Abstract!Next]_(Abstract!vars)
<1> DEFINE old == disk[j]
<1>1. disk' = [disk EXCEPT ![j] = r] /\ mem[j] = old
  BY SaveMirrored DEF Mirrored
<1>2. Follows(old, r)
  BY <1>1 DEF SaveStep
<1>3. /\ StatusOnDisk' = [StatusOnDisk EXCEPT ![j] = r.status]
      /\ AttemptOnDisk' = [AttemptOnDisk EXCEPT ![j] = r.attempt]
      /\ LimitOnDisk' = [LimitOnDisk EXCEPT ![j] = r.maxAttempts]
  BY <1>1 DEF StatusOnDisk, AttemptOnDisk, LimitOnDisk, TypeOK
<1>4. /\ StatusOnDisk[j] = old.status /\ AttemptOnDisk[j] = old.attempt
      /\ LimitOnDisk[j] = old.maxAttempts
  BY DEF StatusOnDisk, AttemptOnDisk, LimitOnDisk
<1>5. LimitOnDisk' = LimitOnDisk
  BY <1>2, <1>3, <1>4 DEF Follows, LimitOnDisk
<1>6. CASE old.status = "failed"
  <2>1. r.status = "queued"
    BY <1>2, <1>6 DEF Follows, Moves
  <2>2. Abstract!Retry(j)
    BY <1>2, <1>3, <1>4, <1>5, <1>6, <2>1
       DEF Follows, Abstract!Retry, StatusOnDisk, AttemptOnDisk, LimitOnDisk
  <2>3. QED
    BY <2>2 DEF Abstract!Next
<1>7. CASE old.status # "failed"
  <2>1. AttemptOnDisk' = AttemptOnDisk
    BY <1>2, <1>3, <1>4, <1>7 DEF Follows, AttemptOnDisk
  <2>2. CASE old.status = "claimed" /\ r.status = "claimed"
    <3>1. StatusOnDisk' = StatusOnDisk
      BY <1>3, <1>4, <2>2 DEF StatusOnDisk
    <3>2. QED
      BY <1>5, <2>1, <3>1 DEF Abstract!vars, StatusOnDisk, AttemptOnDisk, LimitOnDisk
  <2>3. CASE ~(old.status = "claimed" /\ r.status = "claimed")
    <3>1. /\ old.status \in Abstract!Statuses \ {"failed"}
          /\ r.status \in Abstract!ValidTransitions[old.status]
      BY <1>2, <1>7, <2>3
         DEF Follows, Moves, Abstract!Statuses, Abstract!ValidTransitions
    <3>2. Abstract!Move(j)
      BY <1>3, <1>4, <1>5, <2>1, <3>1
         DEF Abstract!Move, StatusOnDisk, AttemptOnDisk, LimitOnDisk
    <3>3. QED
      BY <3>2 DEF Abstract!Next
  <2>4. QED
    BY <2>2, <2>3
<1>8. QED
  BY <1>6, <1>7

LEMMA LifecycleCreate ==
  ASSUME TypeOK, Mirrored, NEW j \in Jobs, NEW limit \in AttemptLimits,
         CreateJob(j, limit)
  PROVE  Abstract!Next
<1> DEFINE r == NewRecord(limit)
<1>1. r.status = "queued" /\ r.attempt = 0 /\ r.maxAttempts = limit
  BY DEF NewRecord, AbsentRecord
<1>2. disk' = [disk EXCEPT ![j] = r] /\ disk[j].status = "absent"
      /\ disk[j].attempt = 0
  BY DEF CreateJob, Mirrored
<1> HIDE DEF r
<1>3. /\ StatusOnDisk' = [StatusOnDisk EXCEPT ![j] = "queued"]
      /\ AttemptOnDisk' = AttemptOnDisk
      /\ LimitOnDisk' = [LimitOnDisk EXCEPT ![j] = limit]
  BY <1>1, <1>2 DEF StatusOnDisk, AttemptOnDisk, LimitOnDisk, TypeOK
<1>4. Abstract!Create(j)
  BY <1>2, <1>3 DEF Abstract!Create, StatusOnDisk, AttemptOnDisk, LimitOnDisk
<1>5. QED
  BY <1>4 DEF Abstract!Next

LEMMA LifecycleNext ==
  NoFaults /\ IInv /\ Mirrored /\ [Next]_vars => [Abstract!Next]_(Abstract!vars)
<1> SUFFICES ASSUME NoFaults, IInv, Mirrored, [Next]_vars
             PROVE  [Abstract!Next]_(Abstract!vars)
  OBVIOUS
<1> USE DEF IInv
<1>1. CASE Creation
  BY <1>1, LifecycleCreate DEF Creation
<1>2. CASE Saving
  BY <1>2, LifecycleSave DEF Saving
<1>3. CASE NoSave \/ Restart
  BY <1>3 DEF NoSave, Restart, jobVars, Abstract!vars
<1>4. CASE Tick
  <2>1. disk' = [j \in Jobs |-> Aged(disk[j])]
    BY <1>4 DEF Tick
  <2>2. /\ StatusOnDisk' = StatusOnDisk /\ AttemptOnDisk' = AttemptOnDisk
        /\ LimitOnDisk' = LimitOnDisk
    BY <2>1, AgedKeeps DEF StatusOnDisk, AttemptOnDisk, LimitOnDisk, TypeOK
  <2>3. QED
    BY <2>2 DEF Abstract!vars, StatusOnDisk, AttemptOnDisk, LimitOnDisk
<1>5. QED
  BY <1>1, <1>2, <1>3, <1>4, StepKinds

(* With a disk that works and well-formed input, the files of the store    *)
(* live the lifecycle that JobLifecycle promises, whatever the worker, the *)
(* operators, the reviewers and restarts do.                               *)
THEOREM ImplementsLifecycle == NoFaults => (Spec => Lifecycle)
<1> SUFFICES ASSUME NoFaults PROVE Spec => Lifecycle
  OBVIOUS
<1>1. Init => IInv /\ Mirrored
  BY SafeInit, MirroredInit
<1>2. IInv /\ Mirrored /\ [Next]_vars => IInv' /\ Mirrored'
  BY SafeNext, MirroredNext
<1>3. Init => Abstract!Init
  BY DEF Init, Abstract!Init, AbsentRecord
<1>4. IInv /\ Mirrored /\ [Next]_vars => [Abstract!Next]_(Abstract!vars)
  BY LifecycleNext
<1>5. QED
  BY <1>1, <1>2, <1>3, <1>4, PTL DEF Spec, Lifecycle, Abstract!Spec

=============================================================================
