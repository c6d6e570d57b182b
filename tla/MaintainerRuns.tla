--------------------------- MODULE MaintainerRuns ---------------------------
(***************************************************************************)
(* Reviewed candidates on their way to the vault (companion/memory/events, *)
(* candidate-review-inbox.js and maintainer-manager.js).  A review that    *)
(* approves a candidate leaves a proposal in the vault's inbox and is      *)
(* final.  A maintainer run lists the approved candidates with what is to  *)
(* be done with each; applying it appends their sections to vault pages,   *)
(* one page after the other, and records what has been done.               *)
(*                                                                         *)
(* Candidates are reviewed one at a time, in the server or on the command  *)
(* line, and runs are applied by the server; either process may stop       *)
(* between two files it writes.                                            *)
(***************************************************************************)
EXTENDS Naturals, Sequences, FiniteSets

CONSTANTS
  Candidates,    \* knowledge candidates
  Pages,         \* pages of the vault
  Page,          \* the page a candidate is meant for
  Risk,          \* reviewRisk of each candidate
  Contradicted,  \* candidates whose contradictionStatus is not "none"
  MaxRuns,       \* bound: runs ever planned
  MaxRollbacks   \* bound: rollback manifests ever saved

ASSUME CandidatesAssumption ==
  /\ Page \in [Candidates -> Pages]
  /\ Risk \in [Candidates -> {"low", "medium", "high"}]
  /\ Contradicted \subseteq Candidates
ASSUME BoundsAssumption == MaxRuns \in Nat /\ MaxRollbacks \in Nat

VARIABLES
  review,     \* the review of each candidate
  proposals,  \* candidates with a proposal in the inbox
  sections,   \* candidates each page has a section of
  run,        \* maintainer runs, in the order planned
  rollback,   \* pages of each rollback manifest, in the order saved
  reviewing,  \* candidate whose approval is under way
  applying    \* run being applied

reviews == <<review, proposals, reviewing>>
maintained == <<sections, run, rollback, applying>>
vars == <<reviews, maintained>>

Nobody == {}   \* reviewing nothing
NoApply == [run |-> 0, left |-> {}, done |-> {}, covered |-> FALSE]

ReviewStatus == {"pending", "deferred", "approved", "rejected", "merged"}
Reviews == [status : ReviewStatus, proposal : BOOLEAN]
PlannedActions == {"none", "append_section", "skip_duplicate", "review_required"}
Runs == [status : {"planned", "partial", "applied"},
         action : [Candidates -> PlannedActions],
         applied : SUBSET Candidates, rollbacks : SUBSET (1 .. MaxRollbacks)]
Applies == [run : 0 .. MaxRuns, left : SUBSET Candidates,
            done : SUBSET Candidates, covered : BOOLEAN]

Init ==
  /\ review = [c \in Candidates |-> [status |-> "pending", proposal |-> FALSE]]
  /\ proposals = {} /\ reviewing = Nobody
  /\ sections = [p \in Pages |-> {}]
  /\ run = <<>> /\ rollback = <<>> /\ applying = NoApply

-----------------------------------------------------------------------------
(* performAction of the review inbox *)

(* Mutant: an approval can be taken back. *)
FinalUnlessApproved(status) == status \in {"rejected", "merged"}

IsFinal(status) == status \in {"approved", "rejected", "merged"}

Reviewable(c) == reviewing = Nobody /\ ~IsFinal(review[c].status)

(* One write: every action but an approval, and an approval as well where  *)
(* no vault is configured, on the command line always.                     *)
Decide(c, status) ==
  /\ Reviewable(c)
  /\ review' = [review EXCEPT ![c] = [status |-> status, proposal |-> FALSE]]
  /\ UNCHANGED <<proposals, reviewing, maintained>>

(* An approval writes the proposal, then the review that names it. *)
Propose(c) ==
  /\ Reviewable(c)
  /\ proposals' = proposals \cup {c}
  /\ reviewing' = {c}
  /\ UNCHANGED <<review, maintained>>

Approve(c) ==
  /\ c \in reviewing
  /\ review' = [review EXCEPT ![c] = [status |-> "approved", proposal |-> TRUE]]
  /\ reviewing' = Nobody
  /\ UNCHANGED <<proposals, maintained>>

ReviewCut ==
  /\ reviewing # Nobody
  /\ reviewing' = Nobody
  /\ UNCHANGED <<review, proposals, maintained>>

-----------------------------------------------------------------------------
(* Maintainer runs *)

Approved == {c \in Candidates : review[c].status = "approved"}

(* resolvePlannedAction: a statement the page has already is skipped, what *)
(* carries a risk or a contradiction is left to a person.                  *)
PlannedAction(c, seesVault) ==
  IF c \notin Approved THEN "none"
  ELSE IF seesVault /\ c \in sections[Page[c]] THEN "skip_duplicate"
  ELSE IF Risk[c] # "low" \/ c \in Contradicted THEN "review_required"
  ELSE "append_section"

(* planRun; the command line has no vault to compare with. *)
Plan(seesVault) ==
  /\ Approved # {} /\ Len(run) < MaxRuns
  /\ run' = Append(run,
       [status |-> "planned",
        action |-> [c \in Candidates |-> PlannedAction(c, seesVault)],
        applied |-> {}, rollbacks |-> {}])
  /\ UNCHANGED <<reviews, sections, rollback, applying>>

ItemsOf(r, actions) == {c \in Candidates : run[r].action[c] \in actions}

(* applyRun with allowApplyLowRisk: nothing of a higher risk is ever       *)
(* applicable, whatever is allowed.                                        *)
Apply(r) ==
  /\ applying = NoApply /\ Len(rollback) < MaxRollbacks
  /\ run[r].status # "applied"
  /\ ItemsOf(r, {"append_section"}) # {}
  /\ applying' = [NoApply EXCEPT !.run = r, !.left = ItemsOf(r, {"append_section"})]
  /\ UNCHANGED <<reviews, sections, run, rollback>>

(* The page is not looked at again for the statement. *)
WriteSection(c) ==
  /\ c \in applying.left
  /\ sections' = [sections EXCEPT ![Page[c]] = @ \cup {c}]
  /\ applying' = [applying EXCEPT !.left = @ \ {c}, !.done = @ \cup {c}]
  /\ UNCHANGED <<reviews, run, rollback>>

Written == applying # NoApply /\ applying.left = {}

(* The pages as they were are saved when all sections are written. *)
SaveRollback ==
  /\ Written /\ ~applying.covered
  /\ rollback' = Append(rollback, {Page[c] : c \in applying.done})
  /\ applying' = [applying EXCEPT !.covered = TRUE]
  /\ UNCHANGED <<reviews, sections, run>>

(* Items left to a person keep the run from being "applied". *)
Recorded(r, done, id) ==
  run' = [run EXCEPT ![r] =
    [run[r] EXCEPT !.status =
                     IF done = ItemsOf(r, {"append_section", "review_required"})
                     THEN "applied" ELSE "partial",
                   !.applied = run[r].applied \cup done,
                   !.rollbacks = run[r].rollbacks \cup {id}]]

(* Mutant: the run is saved before its rollback manifest. *)
SaveRunFirst ==
  /\ Written /\ ~applying.covered
  /\ Recorded(applying.run, applying.done, Len(rollback) + 1)
  /\ UNCHANGED <<reviews, sections, rollback, applying>>

SaveRun ==
  /\ Written /\ applying.covered
  /\ Recorded(applying.run, applying.done, Len(rollback))
  /\ applying' = NoApply
  /\ UNCHANGED <<reviews, sections, rollback>>

(* A write fails, or the server stops: what is written stays written. *)
ApplyCut ==
  /\ applying # NoApply
  /\ applying' = NoApply
  /\ UNCHANGED <<reviews, sections, run, rollback>>

-----------------------------------------------------------------------------

Next ==
  \/ \E c \in Candidates :
       \/ \E status \in ReviewStatus \ {"pending"} : Decide(c, status)
       \/ Propose(c) \/ Approve(c) \/ WriteSection(c)
  \/ ReviewCut
  \/ \E seesVault \in BOOLEAN : Plan(seesVault)
  \/ \E r \in DOMAIN run : Apply(r)
  \/ SaveRollback \/ SaveRun \/ ApplyCut

Spec == Init /\ [][Next]_vars

-----------------------------------------------------------------------------
(* Properties *)

(* Reviews, runs and the apply under way are of their kind. *)
TypeOK ==
  /\ review \in [Candidates -> Reviews]
  /\ proposals \subseteq Candidates /\ reviewing \subseteq Candidates
  /\ sections \in [Pages -> SUBSET Candidates]
  /\ run \in Seq(Runs) /\ Len(run) <= MaxRuns
  /\ rollback \in Seq(SUBSET Pages) /\ Len(rollback) <= MaxRollbacks
  /\ applying \in Applies

(* What the maintainer writes to the vault is approved, of low risk and    *)
(* not contradicted: a run planned long ago, applied again or cut short    *)
(* never brings in anything else, since reviews are final.                 *)
OnlyApprovedWritten ==
  \A p \in Pages : \A c \in sections[p] :
    review[c].status = "approved" /\ Risk[c] = "low" /\ c \notin Contradicted

(* A record never names a file that is not there, whichever write a stop   *)
(* has cut off: a review finds its proposal in the inbox, and whatever a   *)
(* run says it has applied is in a saved rollback manifest it names.       *)
NamedFilesExist ==
  /\ \A c \in Candidates : review[c].proposal => c \in proposals
  /\ \A r \in DOMAIN run : \A c \in run[r].applied :
       \E id \in run[r].rollbacks :
         id \in DOMAIN rollback /\ Page[c] \in rollback[id]

(* Rollback snapshots are captured before any apply: with none under way,  *)
(* every page the maintainer has written to is in a rollback manifest.     *)
SnapshotsFirst ==
  applying = NoApply =>
    \A p \in Pages :
      sections[p] # {} => \E id \in DOMAIN rollback : p \in rollback[id]
=============================================================================
