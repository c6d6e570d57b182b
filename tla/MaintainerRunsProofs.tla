------------------------ MODULE MaintainerRunsProofs ------------------------
(***************************************************************************)
(* What maintainer runs guarantee for any candidates, pages and risks, any *)
(* number of runs and any stops between two files.                         *)
(***************************************************************************)
EXTENDS MaintainerRuns, TLAPS

(* A run plans to append only what may be appended, and since reviews are  *)
(* final this stays so however late the run is applied.                    *)
Appendable(c) ==
  review[c].status = "approved" /\ Risk[c] = "low" /\ c \notin Contradicted

PlansAppendable ==
  \A r \in DOMAIN run : \A c \in Candidates :
    run[r].action[c] = "append_section" => Appendable(c)

(* What an apply has still to write, or has written, is of its run.        *)
ApplyOfRun ==
  applying # NoApply =>
    /\ applying.run \in DOMAIN run
    /\ applying.left \cup applying.done \subseteq
         {c \in Candidates : run[applying.run].action[c] = "append_section"}

(* The rollback manifest is saved once all is written, and there is room   *)
(* for it until then.                                                      *)
ApplyRollback ==
  applying # NoApply =>
    IF applying.covered
    THEN /\ Len(rollback) > 0
         /\ applying.left = {}
         /\ rollback[Len(rollback)] = {Page[c] : c \in applying.done}
    ELSE Len(rollback) < MaxRollbacks

(* An approval under way has its proposal and is not decided yet.          *)
UnderReview ==
  /\ reviewing \subseteq proposals
  /\ \A c \in reviewing : ~IsFinal(review[c].status)

IInv ==
  /\ TypeOK
  /\ PlansAppendable /\ OnlyApprovedWritten
  /\ ApplyOfRun /\ ApplyRollback
  /\ UnderReview /\ NamedFilesExist

USE CandidatesAssumption, BoundsAssumption

LEMMA Starts == Init => IInv
<1>. SUFFICES ASSUME Init PROVE IInv
  OBVIOUS
<1>1. TypeOK
  <2>1. review \in [Candidates -> Reviews]
    BY DEF Init, Reviews, ReviewStatus
  <2>2. NoApply \in Applies
    BY DEF NoApply, Applies
  <2>. QED  BY <2>1, <2>2 DEF Init, TypeOK, Nobody
<1>2. PlansAppendable /\ OnlyApprovedWritten /\ ApplyOfRun /\ ApplyRollback
  BY DEF Init, PlansAppendable, OnlyApprovedWritten, ApplyOfRun, ApplyRollback
<1>3. UnderReview /\ NamedFilesExist
  BY DEF Init, UnderReview, NamedFilesExist, Nobody
<1>. QED  BY <1>1, <1>2, <1>3 DEF IInv

----------------------------------------------------------------------------
(* Reviews *)

(* A review step that leaves every final review alone, and names a         *)
(* proposal only when it is there, keeps the invariant.                    *)
LEMMA ReviewKeeps ==
  ASSUME IInv, UNCHANGED maintained,
         review' \in [Candidates -> Reviews],
         proposals' \subseteq Candidates, reviewing' \subseteq Candidates,
         proposals \subseteq proposals', UnderReview',
         \A c \in Candidates : IsFinal(review[c].status) =>
           review'[c].status = review[c].status,
         \A c \in Candidates : review'[c].proposal => c \in proposals'
  PROVE  IInv'
<1>1. TypeOK'
  BY DEF IInv, TypeOK, maintained
<1>2. \A c \in Candidates : Appendable(c) => Appendable(c)'
  BY DEF Appendable, IsFinal
<1>3. PlansAppendable'
  BY <1>2 DEF IInv, PlansAppendable, maintained
<1>4. OnlyApprovedWritten'
  BY <1>2 DEF IInv, OnlyApprovedWritten, Appendable, maintained, TypeOK
<1>5. ApplyOfRun' /\ ApplyRollback'
  BY DEF IInv, ApplyOfRun, ApplyRollback, maintained
<1>6. NamedFilesExist'
  BY DEF IInv, NamedFilesExist, maintained
<1>. QED  BY <1>1, <1>3, <1>4, <1>5, <1>6 DEF IInv

LEMMA DecideKeeps ==
  ASSUME IInv, NEW c \in Candidates, NEW status \in ReviewStatus, Decide(c, status)
  PROVE  IInv'
<1>. DEFINE decided == [status |-> status, proposal |-> FALSE]
<1>1. decided \in Reviews
  BY DEF Reviews
<1>2. review' = [review EXCEPT ![c] = decided]
  BY DEF Decide
<1>3. review' \in [Candidates -> Reviews]
  BY <1>1, <1>2 DEF IInv, TypeOK
<1>4. \A d \in Candidates : /\ IsFinal(review[d].status) =>
                                 review'[d].status = review[d].status
                            /\ review'[d].proposal => d \in proposals
  BY <1>2 DEF Decide, Reviewable, IInv, TypeOK, NamedFilesExist
<1>5. UnderReview'
  BY DEF Decide, Reviewable, UnderReview, Nobody
<1>. QED
  BY <1>3, <1>4, <1>5, ReviewKeeps DEF Decide, IInv, TypeOK

LEMMA ProposeKeeps ==
  ASSUME IInv, NEW c \in Candidates, Propose(c)
  PROVE  IInv'
<1>1. \A d \in Candidates : review'[d].proposal => d \in proposals'
  BY DEF Propose, IInv, NamedFilesExist
<1>2. UnderReview'
  BY DEF Propose, Reviewable, UnderReview
<1>. QED
  BY <1>1, <1>2, ReviewKeeps DEF Propose, IInv, TypeOK

LEMMA ApproveKeeps ==
  ASSUME IInv, NEW c \in Candidates, Approve(c)
  PROVE  IInv'
<1>. DEFINE approved == [status |-> "approved", proposal |-> TRUE]
<1>1. approved \in Reviews
  BY DEF Reviews, ReviewStatus
<1>2. review' = [review EXCEPT ![c] = approved]
  BY DEF Approve
<1>3. review' \in [Candidates -> Reviews]
  BY <1>1, <1>2 DEF IInv, TypeOK
<1>4. c \in proposals /\ ~IsFinal(review[c].status)
  BY DEF Approve, IInv, UnderReview
<1>5. \A d \in Candidates : /\ IsFinal(review[d].status) =>
                                 review'[d].status = review[d].status
                            /\ review'[d].proposal => d \in proposals
  BY <1>2, <1>4 DEF IInv, TypeOK, NamedFilesExist
<1>6. UnderReview'
  BY DEF Approve, UnderReview, Nobody
<1>. QED
  BY <1>3, <1>5, <1>6, ReviewKeeps DEF Approve, IInv, TypeOK, Nobody

LEMMA ReviewCutKeeps == IInv /\ ReviewCut => IInv'
<1>. SUFFICES ASSUME IInv, ReviewCut PROVE IInv'
  OBVIOUS
<1>1. UnderReview'
  BY DEF ReviewCut, UnderReview, Nobody
<1>. QED
  BY <1>1, ReviewKeeps DEF ReviewCut, IInv, TypeOK, NamedFilesExist, Nobody

----------------------------------------------------------------------------
(* Maintainer runs *)

(* What the page sections, runs and rollback manifests are made of.        *)
TypedRuns ==
  /\ sections \in [Pages -> SUBSET Candidates]
  /\ run \in Seq(Runs) /\ Len(run) <= MaxRuns
  /\ rollback \in Seq(SUBSET Pages) /\ Len(rollback) <= MaxRollbacks
  /\ applying \in Applies

(* A step of the maintainer leaves the reviews as they are.                *)
LEMMA MaintainerKeeps ==
  ASSUME IInv, UNCHANGED reviews, TypedRuns',
         PlansAppendable', OnlyApprovedWritten', ApplyOfRun', ApplyRollback',
         \A r \in DOMAIN run' : \A c \in run'[r].applied :
           \E id \in run'[r].rollbacks :
             id \in DOMAIN rollback' /\ Page[c] \in rollback'[id]
  PROVE  IInv'
<1>1. TypeOK'
  BY DEF IInv, TypeOK, TypedRuns, reviews
<1>2. UnderReview' /\ NamedFilesExist'
  BY DEF IInv, UnderReview, NamedFilesExist, reviews
<1>. QED  BY <1>1, <1>2 DEF IInv

LEMMA PlanKeeps ==
  ASSUME IInv, NEW seesVault \in BOOLEAN, Plan(seesVault)
  PROVE  IInv'
<1>. DEFINE planned == [status |-> "planned",
                        action |-> [c \in Candidates |-> PlannedAction(c, seesVault)],
                        applied |-> {}, rollbacks |-> {}]
<1>1. planned \in Runs
  <2>1. [c \in Candidates |-> PlannedAction(c, seesVault)]
          \in [Candidates -> PlannedActions]
    BY DEF PlannedAction, PlannedActions
  <2>. QED  BY <2>1 DEF Runs
<1>2. \A c \in Candidates : planned.action[c] = "append_section" => Appendable(c)
  BY DEF PlannedAction, Appendable, Approved
<1>3. planned.applied = {}
  OBVIOUS
<1>. HIDE DEF planned
<1>4. run' = Append(run, planned) /\ Len(run) < MaxRuns
  BY DEF Plan, planned
<1>5. /\ run \in Seq(Runs) /\ run' \in Seq(Runs) /\ Len(run') = Len(run) + 1
      /\ \A r \in DOMAIN run : r \in DOMAIN run' /\ run'[r] = run[r]
      /\ \A r \in DOMAIN run' : r \in DOMAIN run \/ run'[r] = planned
  BY <1>1, <1>4 DEF IInv, TypeOK
<1>6. TypedRuns'
  BY <1>4, <1>5 DEF Plan, IInv, TypeOK, TypedRuns
<1>7. PlansAppendable'
  BY <1>2, <1>5 DEF Plan, IInv, PlansAppendable, Appendable, reviews
<1>8. OnlyApprovedWritten' /\ ApplyRollback'
  BY DEF Plan, IInv, OnlyApprovedWritten, ApplyRollback, reviews
<1>9. ApplyOfRun'
  BY <1>5 DEF Plan, IInv, ApplyOfRun
<1>10. \A r \in DOMAIN run' : \A c \in run'[r].applied :
         \E id \in run'[r].rollbacks :
           id \in DOMAIN rollback' /\ Page[c] \in rollback'[id]
  BY <1>3, <1>5 DEF Plan, IInv, NamedFilesExist
<1>. QED
  BY <1>6, <1>7, <1>8, <1>9, <1>10, MaintainerKeeps DEF Plan

LEMMA ApplyKeeps ==
  ASSUME IInv, NEW r \in DOMAIN run, Apply(r)
  PROVE  IInv'
<1>. DEFINE items == ItemsOf(r, {"append_section"})
<1>1. /\ applying'.run = r /\ applying'.left = items
      /\ applying'.done = {} /\ applying'.covered = FALSE
  BY DEF Apply, NoApply
<1>2. applying' \in Applies
  <2>1. applying' = [run |-> r, left |-> items, done |-> {}, covered |-> FALSE]
    BY DEF Apply, NoApply
  <2>2. items \subseteq Candidates
    BY DEF ItemsOf
  <2>3. r \in 0 .. MaxRuns
    BY DEF IInv, TypeOK
  <2>. QED  BY <2>1, <2>2, <2>3 DEF Applies
<1>3. TypedRuns'
  BY <1>2 DEF Apply, IInv, TypeOK, TypedRuns
<1>4. PlansAppendable' /\ OnlyApprovedWritten'
  BY DEF Apply, IInv, PlansAppendable, OnlyApprovedWritten, Appendable, reviews
<1>5. ApplyOfRun' /\ ApplyRollback'
  BY <1>1 DEF Apply, ApplyOfRun, ApplyRollback, ItemsOf
<1>. QED
  BY <1>3, <1>4, <1>5, MaintainerKeeps DEF Apply, IInv, NamedFilesExist

LEMMA WriteSectionKeeps ==
  ASSUME IInv, NEW c \in Candidates, WriteSection(c)
  PROVE  IInv'
<1>1. /\ applying'.run = applying.run /\ applying'.left = applying.left \ {c}
      /\ applying'.done = applying.done \cup {c}
      /\ applying'.covered = applying.covered /\ c \in applying.left
  BY DEF WriteSection, IInv, TypeOK, Applies
<1>2. applying' \in Applies /\ applying # NoApply
  <2>. DEFINE a == [applying EXCEPT !.left = applying.left \ {c}]
  <2>1. a \in Applies /\ a.done = applying.done
    BY DEF IInv, TypeOK, Applies
  <2>. HIDE DEF a
  <2>2. [a EXCEPT !.done = a.done \cup {c}] \in Applies
    BY <2>1 DEF Applies
  <2>3. applying' = [a EXCEPT !.done = a.done \cup {c}]
    BY <2>1 DEF WriteSection, a
  <2>. QED  BY <2>2, <2>3, <1>1 DEF NoApply
<1>3. Appendable(c)
  BY <1>1, <1>2 DEF IInv, ApplyOfRun, PlansAppendable
<1>4. /\ sections' \in [Pages -> SUBSET Candidates]
      /\ \A p \in Pages : \A d \in sections'[p] : d \in sections[p] \/ d = c
  <2>. Page[c] \in Pages
    OBVIOUS
  <2>. QED  BY DEF WriteSection, IInv, TypeOK
<1>5. TypedRuns'
  BY <1>2, <1>4 DEF WriteSection, IInv, TypeOK, TypedRuns
<1>6. OnlyApprovedWritten' /\ PlansAppendable'
  BY <1>3, <1>4 DEF WriteSection, IInv, OnlyApprovedWritten, PlansAppendable,
                    Appendable, reviews
<1>7. ApplyOfRun' /\ ApplyRollback'
  BY <1>1, <1>2 DEF WriteSection, IInv, ApplyOfRun, ApplyRollback
<1>. QED
  BY <1>5, <1>6, <1>7, MaintainerKeeps DEF WriteSection, IInv, NamedFilesExist

LEMMA SaveRollbackKeeps == IInv /\ SaveRollback => IInv'
<1>. SUFFICES ASSUME IInv, SaveRollback PROVE IInv'
  OBVIOUS
<1>. DEFINE pages == {Page[c] : c \in applying.done}
<1>1. /\ applying'.run = applying.run /\ applying'.left = applying.left
      /\ applying'.done = applying.done /\ applying'.covered = TRUE
      /\ applying' \in Applies
  BY DEF SaveRollback, IInv, TypeOK, Applies
<1>2. /\ Len(rollback) < MaxRollbacks /\ applying # NoApply /\ applying.left = {}
  BY DEF SaveRollback, Written, IInv, ApplyRollback
<1>3. pages \subseteq Pages
  BY DEF IInv, TypeOK, Applies
<1>. HIDE DEF pages
<1>4. rollback' = Append(rollback, pages)
  BY DEF SaveRollback, pages
<1>5. /\ rollback' \in Seq(SUBSET Pages) /\ Len(rollback') = Len(rollback) + 1
      /\ rollback'[Len(rollback')] = pages
      /\ \A id \in DOMAIN rollback :
           id \in DOMAIN rollback' /\ rollback'[id] = rollback[id]
  BY <1>3, <1>4 DEF IInv, TypeOK
<1>6. TypedRuns'
  BY <1>1, <1>2, <1>5 DEF SaveRollback, IInv, TypeOK, TypedRuns
<1>7. OnlyApprovedWritten' /\ PlansAppendable'
  BY DEF SaveRollback, IInv, OnlyApprovedWritten, PlansAppendable, Appendable, reviews
<1>8. ApplyOfRun'
  BY <1>1, <1>2 DEF SaveRollback, IInv, ApplyOfRun
<1>9. ApplyRollback'
  <2>1. Len(rollback') > 0
    BY <1>5 DEF IInv, TypeOK
  <2>. QED  BY <1>1, <1>2, <1>5, <2>1 DEF ApplyRollback, pages
<1>10. \A r \in DOMAIN run' : \A c \in run'[r].applied :
         \E id \in run'[r].rollbacks :
           id \in DOMAIN rollback' /\ Page[c] \in rollback'[id]
  BY <1>5 DEF SaveRollback, IInv, NamedFilesExist
<1>. QED
  BY <1>6, <1>7, <1>8, <1>9, <1>10, MaintainerKeeps DEF SaveRollback

(* A run that is recorded stays of its kind and keeps what it planned.     *)
Saved(r, status, done, id) ==
  [r EXCEPT !.status = status, !.applied = r.applied \cup done,
            !.rollbacks = r.rollbacks \cup {id}]

LEMMA SavedTyped ==
  ASSUME NEW r \in Runs, NEW status \in {"planned", "partial", "applied"},
         NEW done \in SUBSET Candidates, NEW id \in 1 .. MaxRollbacks
  PROVE  Saved(r, status, done, id) \in Runs
<1>. DEFINE a == [r EXCEPT !.status = status]
            b == [a EXCEPT !.applied = a.applied \cup done]
            q == [b EXCEPT !.rollbacks = b.rollbacks \cup {id}]
<1>1. a \in Runs /\ a.applied = r.applied /\ a.rollbacks = r.rollbacks
  BY DEF Runs
<1>2. Saved(r, status, done, id) = q
  BY <1>1 DEF Runs, Saved
<1>. HIDE DEF a
<1>3. b \in Runs /\ b.rollbacks = a.rollbacks
  BY <1>1 DEF Runs
<1>. HIDE DEF b
<1>4. q \in Runs
  BY <1>3 DEF Runs
<1>. QED  BY <1>2, <1>4

LEMMA SaveRunKeeps == IInv /\ SaveRun => IInv'
<1>. SUFFICES ASSUME IInv, SaveRun PROVE IInv'
  OBVIOUS
<1>. DEFINE now == applying.run
            last == Len(rollback)
<1>1. /\ applying # NoApply /\ now \in DOMAIN run
      /\ last \in 1 .. MaxRollbacks /\ last \in DOMAIN rollback
      /\ rollback[last] = {Page[c] : c \in applying.done}
      /\ applying.done \subseteq Candidates
  BY DEF SaveRun, Written, IInv, ApplyOfRun, ApplyRollback, TypeOK, Applies
<1>2. PICK status \in {"planned", "partial", "applied"} :
        run' = [run EXCEPT ![now] = Saved(run[now], status, applying.done, last)]
  BY DEF SaveRun, Recorded, Saved
<1>3. run \in Seq(Runs) /\ run[now] \in Runs
  BY <1>1 DEF IInv, TypeOK
<1>4. /\ run'[now] \in Runs /\ run'[now].action = run[now].action
      /\ run'[now].applied = run[now].applied \cup applying.done
      /\ run'[now].rollbacks = run[now].rollbacks \cup {last}
  <2>1. run'[now] = Saved(run[now], status, applying.done, last)
    BY <1>1, <1>2, <1>3
  <2>2. run'[now] \in Runs
    <3>1. applying.done \in SUBSET Candidates
      BY <1>1
    <3>. QED  BY <1>1, <1>3, <2>1, <3>1, SavedTyped
  <2>. QED  BY <1>3, <2>1, <2>2 DEF Saved, Runs
<1>5. /\ run' \in Seq(Runs) /\ Len(run') = Len(run) /\ DOMAIN run' = DOMAIN run
      /\ \A q \in DOMAIN run : q = now \/ run'[q] = run[q]
  BY <1>1, <1>2, <1>3, <1>4
<1>6. TypedRuns'
  <2>1. applying' \in Applies
    BY DEF SaveRun, NoApply, Applies
  <2>. QED  BY <1>5, <2>1 DEF SaveRun, IInv, TypeOK, TypedRuns
<1>7. OnlyApprovedWritten'
  BY DEF SaveRun, IInv, OnlyApprovedWritten, reviews
<1>8. PlansAppendable'
  BY <1>4, <1>5 DEF SaveRun, IInv, PlansAppendable, Appendable, reviews
<1>9. ApplyOfRun' /\ ApplyRollback'
  BY DEF SaveRun, ApplyOfRun, ApplyRollback
<1>10. ASSUME NEW q \in DOMAIN run', NEW c \in run'[q].applied
       PROVE  \E i \in run'[q].rollbacks :
                i \in DOMAIN rollback' /\ Page[c] \in rollback'[i]
  <2>1. CASE q = now /\ c \in applying.done
    BY <1>1, <1>4, <2>1 DEF SaveRun
  <2>2. CASE q # now \/ c \notin applying.done
    BY <1>4, <1>5, <1>10, <2>2 DEF SaveRun, IInv, NamedFilesExist
  <2>. QED  BY <2>1, <2>2
<1>. QED
  BY <1>6, <1>7, <1>8, <1>9, <1>10, MaintainerKeeps DEF SaveRun

LEMMA ApplyCutKeeps == IInv /\ ApplyCut => IInv'
<1>. SUFFICES ASSUME IInv, ApplyCut PROVE IInv'
  OBVIOUS
<1>1. TypedRuns'
  BY DEF ApplyCut, NoApply, Applies, IInv, TypeOK, TypedRuns
<1>2. ApplyOfRun' /\ ApplyRollback'
  BY DEF ApplyCut, ApplyOfRun, ApplyRollback
<1>3. PlansAppendable' /\ OnlyApprovedWritten'
  BY DEF ApplyCut, IInv, PlansAppendable, OnlyApprovedWritten, Appendable, reviews
<1>. QED
  BY <1>1, <1>2, <1>3, MaintainerKeeps DEF ApplyCut, IInv, NamedFilesExist

----------------------------------------------------------------------------

LEMMA StepKeeps == IInv /\ [Next]_vars => IInv'
<1>. SUFFICES ASSUME IInv, [Next]_vars PROVE IInv'
  OBVIOUS
<1>1. CASE UNCHANGED vars
  <2>1. UNCHANGED <<reviews, maintained>>
    BY <1>1 DEF vars
  <2>2. TypedRuns' /\ PlansAppendable' /\ OnlyApprovedWritten'
    BY <2>1 DEF IInv, TypeOK, TypedRuns, PlansAppendable, OnlyApprovedWritten,
               Appendable, reviews, maintained
  <2>3. ApplyOfRun' /\ ApplyRollback'
    BY <2>1 DEF IInv, ApplyOfRun, ApplyRollback, maintained
  <2>. QED  BY <2>1, <2>2, <2>3, MaintainerKeeps
            DEF IInv, NamedFilesExist, maintained
<1>2. CASE ReviewCut \/ SaveRollback \/ SaveRun \/ ApplyCut
  BY <1>2, ReviewCutKeeps, SaveRollbackKeeps, SaveRunKeeps, ApplyCutKeeps
<1>3. ASSUME NEW c \in Candidates,
             \/ \E status \in ReviewStatus \ {"pending"} : Decide(c, status)
             \/ Propose(c) \/ Approve(c) \/ WriteSection(c)
      PROVE  IInv'
  BY <1>3, DecideKeeps, ProposeKeeps, ApproveKeeps, WriteSectionKeeps
<1>4. ASSUME NEW seesVault \in BOOLEAN, Plan(seesVault) PROVE IInv'
  BY <1>4, PlanKeeps
<1>5. ASSUME NEW r \in DOMAIN run, Apply(r) PROVE IInv'
  BY <1>5, ApplyKeeps
<1>. QED  BY <1>1, <1>2, <1>3, <1>4, <1>5 DEF Next

LEMMA Always == Spec => []IInv
  BY Starts, StepKeeps, PTL DEF Spec

(* Reviews, runs and the apply under way are always of their kind.         *)
THEOREM TypeCorrect == Spec => []TypeOK
<1>1. IInv => TypeOK
  BY DEF IInv
<1>. QED  BY <1>1, Always, PTL

(* Nothing gets into the vault that is not approved, of low risk and free  *)
(* of contradictions, whenever its run was planned and however often it is *)
(* applied: what a run plans to append stays approved for ever.            *)
THEOREM OnlyApprovedIsWritten == Spec => []OnlyApprovedWritten
<1>1. IInv => OnlyApprovedWritten
  BY DEF IInv
<1>. QED  BY <1>1, Always, PTL

(* Reviews and runs never name a proposal or a rollback manifest that has  *)
(* not been written, wherever the process stops.                           *)
THEOREM NamedFilesAreThere == Spec => []NamedFilesExist
<1>1. IInv => NamedFilesExist
  BY DEF IInv
<1>. QED  BY <1>1, Always, PTL
=============================================================================
