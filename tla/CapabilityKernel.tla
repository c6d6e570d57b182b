-------------------------- MODULE CapabilityKernel -------------------------
(***************************************************************************)
(* The capability trigger kernel (capability-kernel/kernel.js) over its    *)
(* provenance store (provenance-store.js): one process in which any number *)
(* of submissions overlap, and the journal runs.jsonl that outlives it.    *)
(*                                                                         *)
(* A submission awaits the journal read of the duplicate check, the        *)
(* handlers of its plan, the output file and the append of its one record; *)
(* everything in between is a single turn.  A record is written only when  *)
(* the run is over.                                                        *)
(***************************************************************************)
EXTENDS Naturals, Sequences, SequencesExt

CONSTANTS
  Runs,            \* submissions, one run identifier each
  Events,          \* event identifiers
  StepCount,       \* steps of an execution plan
  MaxAttempts,     \* declared attempts of a step
  RetryTimeouts,   \* is HANDLER_TIMEOUT among the retryable codes?
  DiskFaults,      \* may writing an output or a record fail?
  MaxCrashes       \* bound: how often the process dies

ASSUME KernelConstants ==
  /\ StepCount \in Nat \ {0} /\ MaxAttempts \in Nat \ {0}
  /\ RetryTimeouts \in BOOLEAN /\ DiskFaults \in BOOLEAN
  /\ MaxCrashes \in Nat

VARIABLES
  run,       \* the submissions and their records under construction
  journal,   \* runs.jsonl
  outputs,   \* runs whose output file exists
  chain,     \* appendChain: runs that wait for their append, in order
  crashes    \* history: how often the process died

vars == <<run, journal, outputs, chain, crashes>>

-----------------------------------------------------------------------------

TerminalStates ==
  {"completed", "ignored", "rejected", "approval_required", "failed"}

AllowedTransitions ==
  [received   |-> {"normalized", "rejected"},
   normalized |-> {"matched", "ignored", "rejected"},
   matched    |-> {"planned", "approval_required", "rejected"},
   planned    |-> {"running", "rejected"},
   running    |-> {"validating", "failed"},
   validating |-> {"completed", "failed"}]

States == DOMAIN AllowedTransitions \cup TerminalStates

(* What the event, the node and the registry make of a submission: the     *)
(* schema, the source, the match, the status and the policy, the plan.     *)
Verdicts == {"invalid", "untrusted", "unmatched", "ambiguous", "ineligible",
             "approval", "unplannable", "runnable"}

(* The states a submission goes through before its handlers, or its end. *)
Path(v) ==
  CASE v = "invalid"               -> <<"rejected">>
    [] v = "untrusted"             -> <<"normalized", "rejected">>
    [] v = "unmatched"             -> <<"normalized", "ignored">>
    [] v = "ambiguous"             -> <<"normalized", "rejected">>
    [] v = "approval"              -> <<"normalized", "matched", "approval_required">>
    [] v \in {"ineligible", "unplannable"} -> <<"normalized", "matched", "rejected">>
    [] v = "runnable"              -> <<"normalized", "matched", "planned", "running">>

Phases == {"absent", "reading", "checking", "handling", "saving", "appending",
           "answered", "refused", "lost"}

Settled == {"answered", "refused", "lost"}

RunRecord ==
  [at: Phases, event: Events, verdict: Verdicts, seen: BOOLEAN, late: BOOLEAN,
   step: 0..StepCount, attempt: 0..MaxAttempts, trace: Seq(States)]

Executed(trace) == "running" \in ToSet(trace)

(* Mutant: only completed runs count. *)
CompletedAlready(e) ==
  \E r \in journal : r.event = e /\ "completed" \in ToSet(r.trace)

(* Mutant: any record of the event counts. *)
RecordedAlready(e) == \E r \in journal : r.event = e

(* hasExecutedEvent *)
ExecutedAlready(e) == \E r \in journal : r.event = e /\ Executed(r.trace)

-----------------------------------------------------------------------------
(* submitEvent *)

(* The record is complete and joins the append chain. *)
Finish(r, next) ==
  /\ run' = [run EXCEPT ![r] = [next EXCEPT !.at = "appending"]]
  /\ chain' = Append(chain, r)

(* An invalid or untrusted event is recorded without the duplicate check.  *)
Submit(r, e, v) ==
  /\ run[r].at = "absent"
  /\ LET late == \E q \in Runs : /\ run[q].at = "answered" /\ run[q].event = e
                                 /\ Executed(run[q].trace)
         fresh == [at |-> "reading", event |-> e, verdict |-> v, seen |-> FALSE,
                   late |-> late, step |-> 0, attempt |-> 0,
                   trace |-> <<"received">>]
     IN  IF v \in {"invalid", "untrusted"}
         THEN Finish(r, [fresh EXCEPT !.trace = @ \o Path(v)])
         ELSE run' = [run EXCEPT ![r] = fresh] /\ UNCHANGED chain
  /\ UNCHANGED <<journal, outputs, crashes>>

(* The journal is read ... *)
JournalRead(r) ==
  /\ run[r].at = "reading"
  /\ run' = [run EXCEPT ![r].at = "checking",
                        ![r].seen = ExecutedAlready(run[r].event)]
  /\ UNCHANGED <<journal, outputs, chain, crashes>>

(* ... and a later turn decides with what it said, up to the first handler *)
(* of the plan, or to an input of its first step that breaks its schema.   *)
CheckEnds(r) ==
  /\ run[r].at = "checking"
  /\ \/ /\ run[r].seen
        /\ Finish(r, [run[r] EXCEPT !.trace = @ \o <<"normalized", "ignored">>])
     \/ /\ ~run[r].seen /\ run[r].verdict # "runnable"
        /\ Finish(r, [run[r] EXCEPT !.trace = @ \o Path(run[r].verdict)])
     \/ /\ ~run[r].seen /\ run[r].verdict = "runnable"
        /\ run' = [run EXCEPT ![r] =
                     [run[r] EXCEPT !.at = "handling", !.step = 1, !.attempt = 1,
                                    !.trace = @ \o Path("runnable")]]
        /\ UNCHANGED chain
     \/ /\ ~run[r].seen /\ run[r].verdict = "runnable"
        /\ Finish(r, [run[r] EXCEPT !.trace = @ \o Path("runnable") \o <<"failed">>])
  /\ UNCHANGED <<journal, outputs, crashes>>

Fail(r) == Finish(r, [run[r] EXCEPT !.trace = @ \o <<"failed">>])

(* The handler's output is valid: the next step starts, unless its input   *)
(* breaks its schema, or the plan is through.                              *)
StepSucceeds(r, valid) ==
  /\ run[r].at = "handling"
  /\ \/ /\ run[r].step < StepCount /\ valid
        /\ run' = [run EXCEPT ![r].step = @ + 1, ![r].attempt = 1]
        /\ UNCHANGED chain
     \/ /\ run[r].step < StepCount /\ ~valid
        /\ Fail(r)
     \/ /\ run[r].step = StepCount /\ valid
        /\ run' = [run EXCEPT ![r].at = "saving",
                              ![r].trace = @ \o <<"validating", "completed">>]
        /\ UNCHANGED chain
     \/ /\ run[r].step = StepCount /\ ~valid
        /\ Finish(r, [run[r] EXCEPT !.trace = @ \o <<"validating", "failed">>])
  /\ UNCHANGED <<journal, outputs, crashes>>

(* The output of a handler breaks the schema of its step. *)
OutputInvalid(r) ==
  /\ run[r].at = "handling"
  /\ Fail(r)
  /\ UNCHANGED <<journal, outputs, crashes>>

MayRetry(r, retryable) == retryable /\ run[r].attempt < MaxAttempts

Retry(r, retryable) ==
  /\ run[r].at = "handling"
  /\ \/ /\ MayRetry(r, retryable)
        /\ run' = [run EXCEPT ![r].attempt = @ + 1]
        /\ UNCHANGED chain
     \/ /\ ~MayRetry(r, retryable)
        /\ Fail(r)
  /\ UNCHANGED <<journal, outputs, crashes>>

(* The handler throws, with a code that is retryable or not. *)
HandlerThrows(r) == \E retryable \in BOOLEAN : Retry(r, retryable)

(* Mutant: nothing ends a handler that hangs. *)
HandlerHangs(r) == FALSE /\ UNCHANGED vars

(* withTimeout: the race goes on without the handler. *)
HandlerTimesOut(r) == Retry(r, RetryTimeouts)

(* The output file of a completed run: temporary file and rename. *)
SaveOutput(r) ==
  /\ run[r].at = "saving"
  /\ outputs' = outputs \cup {r}
  /\ Finish(r, run[r])
  /\ UNCHANGED <<journal, crashes>>

(* Mutant: a failed write of the output goes unnoticed. *)
SaveSwallowed(r) ==
  /\ run[r].at = "saving"
  /\ DiskFaults
  /\ Finish(r, run[r])
  /\ UNCHANGED <<journal, outputs, crashes>>

(* It fails: the submission is refused and leaves no record. *)
SaveFails(r) ==
  /\ run[r].at = "saving"
  /\ DiskFaults
  /\ run' = [run EXCEPT ![r].at = "refused"]
  /\ UNCHANGED <<journal, outputs, chain, crashes>>

(* appendRunRecord: appends happen one after the other, and one that fails *)
(* refuses its own submission only.                                        *)
AppendEnds ==
  /\ chain # <<>>
  /\ LET r == Head(chain)
     IN  /\ journal' = journal \cup
              {[run |-> r, event |-> run[r].event, trace |-> run[r].trace]}
         /\ run' = [run EXCEPT ![r].at = "answered"]
  /\ chain' = Tail(chain)
  /\ UNCHANGED <<outputs, crashes>>

(* Mutant: the answer does not wait for the append. *)
AppendAssumed ==
  /\ chain # <<>>
  /\ DiskFaults
  /\ run' = [run EXCEPT ![Head(chain)].at = "answered"]
  /\ chain' = Tail(chain)
  /\ UNCHANGED <<journal, outputs, crashes>>

AppendFails ==
  /\ chain # <<>>
  /\ DiskFaults
  /\ run' = [run EXCEPT ![Head(chain)].at = "refused"]
  /\ chain' = Tail(chain)
  /\ UNCHANGED <<journal, outputs, crashes>>

(* The process dies with every submission in it. *)
Crash ==
  /\ crashes < MaxCrashes
  /\ crashes' = crashes + 1
  /\ run' = [r \in Runs |->
               IF run[r].at \in Settled \cup {"absent"} THEN run[r]
               ELSE [run[r] EXCEPT !.at = "lost"]]
  /\ chain' = <<>>
  /\ UNCHANGED <<journal, outputs>>

-----------------------------------------------------------------------------

Init ==
  /\ \E e \in Events :
       run = [r \in Runs |->
                [at |-> "absent", event |-> e, verdict |-> "invalid",
                 seen |-> FALSE, late |-> FALSE, step |-> 0, attempt |-> 0,
                 trace |-> <<>>]]
  /\ journal = {}
  /\ outputs = {}
  /\ chain = <<>>
  /\ crashes = 0

Handling(r) ==
  \/ \E valid \in BOOLEAN : StepSucceeds(r, valid)
  \/ OutputInvalid(r)
  \/ HandlerThrows(r)
  \/ HandlerTimesOut(r)

Saving(r) == SaveOutput(r) \/ SaveFails(r)

Appending == AppendEnds \/ AppendFails

Next ==
  \/ \E r \in Runs :
       \/ \E e \in Events, v \in Verdicts : Submit(r, e, v)
       \/ JournalRead(r)
       \/ CheckEnds(r)
       \/ Handling(r)
       \/ Saving(r)
  \/ Appending
  \/ Crash

Spec == Init /\ [][Next]_vars

(* File operations end and timers fire.  No handler has to settle. *)
Fairness ==
  /\ \A r \in Runs : /\ WF_vars(JournalRead(r))
                     /\ WF_vars(CheckEnds(r))
                     /\ WF_vars(HandlerTimesOut(r))
                     /\ WF_vars(Saving(r))
  /\ WF_vars(Appending)

FairSpec == Spec /\ Fairness

-----------------------------------------------------------------------------
(* Properties *)

TypeOK ==
  /\ run \in [Runs -> RunRecord]
  /\ journal \subseteq [run: Runs, event: Events, trace: Seq(States)]
  /\ outputs \subseteq Runs
  /\ chain \in Seq(Runs)
  /\ crashes \in Nat

(* Whoever got an answer finds it in the journal after any crash: exactly  *)
(* one record of the run, with the very transitions that were answered.    *)
AnsweredIsRecorded ==
  \A r \in Runs :
    /\ {rec \in journal : rec.run = r} \subseteq
         {[run |-> r, event |-> run[r].event, trace |-> run[r].trace]}
    /\ run[r].at = "answered" => \E rec \in journal : rec.run = r

(* A record of a completed run never refers to an output that is missing.  *)
CompletedHasOutput ==
  \A rec \in journal : Last(rec.trace) = "completed" => rec.run \in outputs

(* An event whose execution was answered, whatever its end, is never       *)
(* executed by a later submission, not even after a crash.                 *)
NeverRunAgain == \A r \in Runs : run[r].late => ~Executed(run[r].trace)

(* Only an execution blocks an event: a run that could have been executed  *)
(* and was ignored has one of its event on record.  An event that awaited  *)
(* approval, was ineligible or could not be planned can be submitted again. *)
IgnoredForAReason ==
  \A rec \in journal :
    /\ run[rec.run].verdict = "runnable" /\ Last(rec.trace) = "ignored"
    => \E other \in journal : other.event = rec.event /\ Executed(other.trace)

(* Every record tells a legal life: it starts at received, follows the     *)
(* kernel's own table and ends in its only terminal state.  A run that     *)
(* left the table would throw and leave no record at all.                  *)
LegalLife ==
  \A r \in Runs : run[r].at # "absent" =>
    LET trace == run[r].trace
    IN  /\ trace[1] = "received"
        /\ \A i \in 1..(Len(trace) - 1) :
             /\ trace[i] \notin TerminalStates
             /\ trace[i + 1] \in AllowedTransitions[trace[i]]
        /\ run[r].at \in {"appending", "answered"} => Last(trace) \in TerminalStates

(* Every submission is settled, though handlers may hang and disks fail. *)
Submitted(r) == run[r].at # "absent"

AllSettled == \A r \in Runs : Submitted(r) ~> run[r].at \in Settled

(* The documentation says that submitting an event again "does not call    *)
(* the handler twice": an event would be executed at most once.            *)
ExecutedOnce ==
  \A r, q \in Runs :
    r # q /\ run[r].event = run[q].event =>
      ~(Executed(run[r].trace) /\ Executed(run[q].trace))
=============================================================================
