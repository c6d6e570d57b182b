---------------------------- MODULE JobLifecycle ----------------------------
(***************************************************************************)
(* What the durable job store promises to its callers, with no worker, no  *)
(* lease, no memory image and no disk: a job has a lifecycle status that   *)
(* moves only along VALID_TRANSITIONS of durable-job-store.js, and an      *)
(* attempt number that counts its retries and never reaches its limit.     *)
(* DurableJobs is shown to implement it for the records on disk.           *)
(***************************************************************************)
EXTENDS Naturals

CONSTANTS
  Jobs,            \* job identifiers
  AttemptLimits    \* the maxAttempts a caller may ask for

VARIABLES
  status,          \* lifecycle status of every job, "absent" until created
  attempt,         \* attempt number, 0-based
  limit            \* maxAttempts, fixed at creation (0 while absent)

vars == <<status, attempt, limit>>

Statuses ==
  {"queued", "claimed", "running", "completed", "failed", "cancelled",
   "paused_review"}

TerminalStatuses == {"completed", "failed", "cancelled"}

(* VALID_TRANSITIONS of the store, one set of successors per status. *)
ValidTransitions ==
  [queued        |-> {"claimed", "cancelled"},
   claimed       |-> {"running", "cancelled", "queued"},
   running       |-> {"completed", "failed", "paused_review"},
   failed        |-> {"queued"},
   completed     |-> {},
   cancelled     |-> {},
   paused_review |-> {"queued", "failed", "cancelled"}]

-----------------------------------------------------------------------------

Init ==
  /\ status = [j \in Jobs |-> "absent"]
  /\ attempt = [j \in Jobs |-> 0]
  /\ limit = [j \in Jobs |-> 0]

Create(j) ==
  /\ status[j] = "absent"
  /\ status' = [status EXCEPT ![j] = "queued"]
  /\ \E n \in AttemptLimits : limit' = [limit EXCEPT ![j] = n]
  /\ UNCHANGED attempt

(* Any transition of the table but the one out of failed. *)
Move(j) ==
  /\ status[j] \in Statuses \ {"failed"}
  /\ \E s \in ValidTransitions[status[j]] :
       status' = [status EXCEPT ![j] = s]
  /\ UNCHANGED <<attempt, limit>>

(* Leaving failed costs one of the attempts that remain. *)
Retry(j) ==
  /\ status[j] = "failed"
  /\ attempt[j] + 1 < limit[j]
  /\ status' = [status EXCEPT ![j] = "queued"]
  /\ attempt' = [attempt EXCEPT ![j] = @ + 1]
  /\ UNCHANGED limit

Next == \E j \in Jobs : Create(j) \/ Move(j) \/ Retry(j)

Spec == Init /\ [][Next]_vars
=============================================================================
