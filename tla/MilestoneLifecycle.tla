------------------------- MODULE MilestoneLifecycle -------------------------
(***************************************************************************)
(* The development control plane (scripts/dev-lifecycle.js): milestones,   *)
(* work sessions and the project state, each a JSON file, moved by         *)
(* commands that check what they find and then write one file after the    *)
(* other.  A command that is interrupted leaves the files it has written.  *)
(*                                                                         *)
(* The operator runs one command at a time and works on one branch; in     *)
(* between, the source tree is edited and committed.  A content of the     *)
(* source tree is a number, and a diff is the pair of contents it leads    *)
(* from and to.  Only the development/ records are outside the tree.       *)
(***************************************************************************)
EXTENDS Naturals, Sequences, FiniteSets, FiniteSetsExt

CONSTANTS
  MilestoneCount,  \* milestones are 1 .. MilestoneCount, in directory order
  MaxSessions,     \* bound: session files ever created
  MaxCommits,      \* bound: commits made
  MaxCrashes,      \* bound: commands interrupted between two writes
  Contents         \* what the source tree can hold

ASSUME CountsAssumption ==
  /\ MilestoneCount \in Nat \ {0}
  /\ MaxSessions \in Nat /\ MaxCommits \in Nat /\ MaxCrashes \in Nat
ASSUME ContentsAssumption == Contents \subseteq Nat /\ 0 \in Contents

VARIABLES
  milestone,  \* the milestone files
  session,    \* the session files, in the order of their names
  project,    \* project-state.json
  head,       \* HEAD: which commit, and the tree it holds
  work,       \* content of the working tree
  todo,       \* writes the command under way has still to make
  crashes     \* commands interrupted so far

vars == <<milestone, session, project, head, work, todo, crashes>>
records == <<milestone, session, project>>
tree == <<head, work>>

Milestones == 1 .. MilestoneCount
None == 0   \* no milestone, no session

MilestoneStatus == {"planned", "active", "paused", "blocked", "validating",
                    "ready-for-delivery", "merged"}
SessionStatus == {"active", "paused", "closed"}
ProjectStatus == {"idle", "active", "paused", "blocked", "ready-for-delivery"}

Diffs == {<<>>} \cup (Contents \X Contents)
Commits == [n : 0 .. MaxCommits, tree : Contents]

(* The latest validation of a milestone as the commands see it: one that   *)
(* failed or is too old serves none of them and counts as none.            *)
Validations == [good : BOOLEAN, diff : Diffs]
NotValidated == [good |-> FALSE, diff |-> <<>>]

MilestoneRecord == [status : MilestoneStatus, blocked : BOOLEAN,
                    validated : Validations]
SessionRecord == [status : SessionStatus, milestone : Milestones]
ProjectRecord == [status : ProjectStatus, current : Milestones \cup {None},
                  activeSession : 0 .. MaxSessions]

(* A write names a milestone or a session, and what the file will hold;    *)
(* "profile" stands for the commands validate runs before it writes on.    *)
Writes ==
  [file : {"milestone", "profile"}, id : Milestones, set : MilestoneRecord]
    \cup [file : {"session"}, id : 1 .. MaxSessions, set : SessionRecord]
    \cup [file : {"project"}, id : {None}, set : ProjectRecord]

Init ==
  /\ milestone = [m \in Milestones |->
       [status |-> "planned", blocked |-> FALSE, validated |-> NotValidated]]
  /\ session = <<>>
  /\ project = [status |-> "idle", current |-> None, activeSession |-> None]
  /\ head = [n |-> 0, tree |-> 0] /\ work = 0
  /\ todo = <<>> /\ crashes = 0

-----------------------------------------------------------------------------
(* What a command finds: the first record of a status, in directory order *)

FirstOf(S) == IF S = {} THEN None ELSE Min(S)

MilestoneIn(status) == FirstOf({m \in Milestones : milestone[m].status = status})
SessionIn(status) == FirstOf({s \in DOMAIN session : session[s].status = status})

FirstFound(x, y) == IF x # None THEN x ELSE y

(* Mutant: what is paused is looked for before what is active. *)
ResumablePausedFirst == FirstFound(MilestoneIn("paused"), MilestoneIn("active"))

Resumable == FirstFound(MilestoneIn("active"), MilestoneIn("paused"))

(* computeGitFingerprint: the branch, HEAD and the diff of the sources. *)
Fingerprint == IF work = head.tree THEN <<>> ELSE <<head.tree, work>>

(* The error contradictions of dev-status.js. *)
Contradicted ==
  \/ project.status = "active" /\ MilestoneIn("active") = None
                               /\ MilestoneIn("validating") = None
  \/ project.status = "idle" /\ MilestoneIn("active") # None
  \/ project.activeSession # None /\ project.activeSession \notin DOMAIN session

-----------------------------------------------------------------------------
(* Commands and their writes *)

PutMilestone(m, r) == [file |-> "milestone", id |-> m, set |-> r]
PutSession(s, r) == [file |-> "session", id |-> s, set |-> r]
PutProject(r) == [file |-> "project", id |-> None, set |-> r]

Idle == todo = <<>>
InProfile == todo # <<>> /\ Head(todo).file = "profile"

Does(writes) == todo' = writes /\ UNCHANGED <<records, tree, crashes>>

NewSession == Len(session) + 1
Opened(m) == PutSession(NewSession, [status |-> "active", milestone |-> m])
Recorded(m, status) == PutMilestone(m, [milestone[m] EXCEPT !.status = status])

(* The next write of the command under way. *)
Write ==
  /\ ~Idle /\ ~InProfile
  /\ LET w == Head(todo) IN
       /\ milestone' = IF w.file = "milestone"
                       THEN [milestone EXCEPT ![w.id] = w.set] ELSE milestone
       /\ session' = IF w.file # "session" THEN session
                     ELSE IF w.id \in DOMAIN session
                          THEN [session EXCEPT ![w.id] = w.set]
                          ELSE Append(session, w.set)
       /\ project' = IF w.file = "project" THEN w.set ELSE project
  /\ todo' = Tail(todo)
  /\ UNCHANGED <<tree, crashes>>

(* The command is killed, or the machine goes down. *)
Crash ==
  /\ ~Idle /\ crashes < MaxCrashes
  /\ crashes' = crashes + 1
  /\ todo' = <<>>
  /\ UNCHANGED <<records, tree>>

-----------------------------------------------------------------------------
(* Commands *)

(* Mutant: the project state announces the session before it is written. *)
StartWritesBackwards(m) ==
  << Recorded(m, "active"),
     PutProject([status |-> "active", current |-> m, activeSession |-> NewSession]),
     Opened(m) >>

(* An existing milestone of whatever status becomes active; its blockers   *)
(* and its validation stay.                                                *)
StartWrites(m) ==
  << Recorded(m, "active"), Opened(m),
     PutProject([status |-> "active", current |-> m, activeSession |-> NewSession]) >>

Start(m) ==
  /\ Idle /\ Len(session) < MaxSessions
  /\ MilestoneIn("active") = None
  /\ SessionIn("active") = None
  /\ Does(StartWrites(m))

Pause ==
  /\ Idle /\ SessionIn("active") # None
  /\ LET s == SessionIn("active")
         m == MilestoneIn("active")
         left == PutSession(s, [session[s] EXCEPT !.status = "paused"])
         told == PutProject([status |-> "paused", current |-> m,
                             activeSession |-> None])
     IN  Does(IF m = None THEN <<left, told>>
              ELSE <<left, Recorded(m, "paused"), told>>)

(* The session stays open. *)
Block ==
  /\ Idle /\ MilestoneIn("active") # None
  /\ LET m == MilestoneIn("active") IN
       Does(<<PutMilestone(m, [milestone[m] EXCEPT !.status = "blocked",
                                                   !.blocked = TRUE]),
              PutProject([project EXCEPT !.status = "blocked",
                                         !.current = m])>>)

(* A new session goes on with the milestone of the paused one, whichever   *)
(* milestone is resumed; the paused session stays paused.                  *)
ResumeSession ==
  /\ Idle /\ Len(session) < MaxSessions
  /\ SessionIn("active") = None /\ SessionIn("paused") # None
  /\ LET m == Resumable
         again == Opened(session[SessionIn("paused")].milestone)
         told == PutProject([project EXCEPT !.status = "active",
                                            !.activeSession = NewSession])
     IN  Does(IF m # None /\ milestone[m].status = "paused"
              THEN <<Recorded(m, "active"), again, told>> ELSE <<again, told>>)

ResumeMilestone ==
  /\ Idle /\ Len(session) < MaxSessions
  /\ SessionIn("active") # None \/ SessionIn("paused") = None
  /\ Resumable # None /\ milestone[Resumable].status = "paused"
  /\ Does(StartWrites(Resumable))

CloseSession ==
  /\ Idle /\ SessionIn("active") # None
  /\ LET s == SessionIn("active") IN
       Does(<<PutSession(s, [session[s] EXCEPT !.status = "closed"])>>)

(* The fingerprint and the strict status check are taken before the        *)
(* milestone says "validating".                                            *)
Validate ==
  /\ Idle /\ MilestoneIn("active") # None
  /\ LET m == MilestoneIn("active")
         found == IF Contradicted THEN NotValidated
                  ELSE [good |-> TRUE, diff |-> Fingerprint]
     IN  Does(<<Recorded(m, "validating"),
                [file |-> "profile", id |-> m,
                 set |-> [milestone[m] EXCEPT !.validated = found]]>>)

(* The commands of the profile end; the record read at the start is        *)
(* written with the result, then with its former status.                   *)
ProfileEnds(passed) ==
  /\ InProfile
  /\ LET w == Head(todo)
         checked == IF passed THEN w.set
                    ELSE [w.set EXCEPT !.validated = NotValidated]
     IN  Does(<<PutMilestone(w.id, [checked EXCEPT !.status = "validating"]),
                PutMilestone(w.id, checked)>>)

(* Gates 1b and 6 to 9 read files no command writes (issues, the closeout, *)
(* criteria, remaining work, manual checks) and can only refuse.           *)
ToComplete ==
  FirstFound(MilestoneIn("active"),
             FirstFound(MilestoneIn("paused"), MilestoneIn("blocked")))

(* Mutant: blockers are looked up in the status. *)
UnblockedByStatus(m) == milestone[m].status # "blocked"

Unblocked(m) == ~milestone[m].blocked

(* Gates 3 and 4: HEAD may differ from the validated one when the diffs    *)
(* are equal.                                                              *)
ValidationHolds(m) ==
  /\ milestone[m].validated.good
  /\ milestone[m].validated.diff = Fingerprint

Complete ==
  /\ Idle /\ ToComplete # None
  /\ LET m == ToComplete IN
       /\ Unblocked(m)
       /\ ~Contradicted
       /\ ValidationHolds(m)
       /\ SessionIn("active") = None
       /\ Does(<<Recorded(m, "ready-for-delivery"),
                 PutProject([status |-> "ready-for-delivery", current |-> None,
                             activeSession |-> None])>>)

(* Commits what the tree holds, the development records at least. *)
Prepare ==
  /\ Idle /\ MilestoneIn("active") # None /\ SessionIn("active") = None
  /\ head.n < MaxCommits
  /\ head' = [n |-> head.n + 1, tree |-> work]
  /\ UNCHANGED <<records, work, todo, crashes>>

(* The operator names the merge commit; deliver-milestone.js never gets a  *)
(* milestone past its preflight.                                           *)
Merge(m) ==
  /\ Idle /\ milestone[m].status = "ready-for-delivery"
  /\ Does(<<Recorded(m, "merged"),
            PutProject([status |-> "idle", current |-> None,
                        activeSession |-> None])>>)

(* Sources are edited between commands, and while a validation runs. *)
Edit(content) ==
  /\ Idle \/ InProfile
  /\ content # work
  /\ work' = content
  /\ UNCHANGED <<records, head, todo, crashes>>

Commit ==
  /\ Idle /\ work # head.tree /\ head.n < MaxCommits
  /\ head' = [n |-> head.n + 1, tree |-> work]
  /\ UNCHANGED <<records, work, todo, crashes>>

(* validationMaxAgeMinutes goes by. *)
ValidationAges(m) ==
  /\ Idle /\ milestone[m].validated.good
  /\ milestone' = [milestone EXCEPT ![m].validated = NotValidated]
  /\ UNCHANGED <<session, project, tree, todo, crashes>>

Next ==
  \/ Write \/ Crash
  \/ \E m \in Milestones : Start(m) \/ Merge(m) \/ ValidationAges(m)
  \/ Pause \/ Block \/ ResumeSession \/ ResumeMilestone \/ CloseSession
  \/ Validate \/ Complete \/ Prepare \/ Commit
  \/ \E passed \in BOOLEAN : ProfileEnds(passed)
  \/ \E content \in Contents : Edit(content)

Spec == Init /\ [][Next]_vars

-----------------------------------------------------------------------------
(* Properties *)

(* The files hold what their schemas say. *)
TypeOK ==
  /\ milestone \in [Milestones -> MilestoneRecord]
  /\ session \in Seq(SessionRecord) /\ Len(session) <= MaxSessions
  /\ project \in ProjectRecord
  /\ head \in Commits /\ work \in Contents
  /\ todo \in Seq(Writes)
  /\ crashes \in 0 .. MaxCrashes

(* However commands are cut short, at most one milestone is active: the    *)
(* check of start and the preference of resume are enough.                 *)
OneActiveMilestone ==
  Cardinality({m \in Milestones : milestone[m].status = "active"}) <= 1

(* project-state.json never names a session whose file does not exist      *)
(* (CP_SESSION_MISSING): the session is always written first.              *)
NamedSessionExists ==
  project.activeSession = None \/ project.activeSession \in DOMAIN session

(* A milestone that was ever blocked is never delivered or merged: nothing *)
(* clears a blocker, start only hides the status.                          *)
BlockedNeverShips ==
  \A m \in Milestones :
    milestone[m].blocked =>
      milestone[m].status \notin {"ready-for-delivery", "merged"}
=============================================================================
