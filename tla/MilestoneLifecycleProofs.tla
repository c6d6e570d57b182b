---------------------- MODULE MilestoneLifecycleProofs ----------------------
(***************************************************************************)
(* What the control plane guarantees for any number of milestones,         *)
(* sessions and commits, and commands interrupted after any write.         *)
(***************************************************************************)
EXTENDS MilestoneLifecycle, FiniteSetTheorems, WellFoundedInduction, TLAPS

OnMilestone(w) == w.file \in {"milestone", "profile"}

Shipped == {"ready-for-delivery", "merged"}
Coherent(r) == r.blocked => r.status \notin Shipped

(* All writes of a command are for one milestone; those that make it       *)
(* active find no other that is, and none ships what is blocked.           *)
MilestoneWrites ==
  \A i \in DOMAIN todo : OnMilestone(todo[i]) =>
    /\ Coherent(todo[i].set)
    /\ todo[i].set.status = "active" =>
         \A m \in Milestones : milestone[m].status = "active" => m = todo[i].id
    /\ \A j \in DOMAIN todo : OnMilestone(todo[j]) => todo[i].id = todo[j].id

(* A session is new or there already, and the project state names it after *)
(* it has been written.                                                    *)
SessionWrites ==
  \A i \in DOMAIN todo :
    /\ todo[i].file = "session" => todo[i].id <= Len(session) + 1
    /\ todo[i].file = "project" =>
         \/ todo[i].set.activeSession = None
         \/ todo[i].set.activeSession \in DOMAIN session
         \/ \E j \in 1 .. (i - 1) : /\ todo[j].file = "session"
                                    /\ todo[j].id = todo[i].set.activeSession

(* OneActiveMilestone without counting. *)
ActiveIsOne ==
  \A m, n \in Milestones :
    milestone[m].status = "active" /\ milestone[n].status = "active" => m = n

IInv ==
  /\ TypeOK
  /\ MilestoneWrites /\ SessionWrites
  /\ ActiveIsOne /\ NamedSessionExists /\ BlockedNeverShips

USE CountsAssumption, ContentsAssumption DEF Milestones, None

----------------------------------------------------------------------------
(* The first record of a status *)

LEMMA LeastIsMember ==
  ASSUME NEW S \in SUBSET Nat, S # {}
  PROVE  Min(S) \in S
<1>. DEFINE Less == OpToRel(<, Nat)
<1>1. IsWellFoundedOn(Less, Nat)
  BY NatLessThanWellFounded
<1>2. \A x, y \in Nat : <<y, x>> \notin Less => x <= y
  BY DEF OpToRel
<1>. HIDE DEF Less
<1>3. PICK x \in S : \A y \in S : ~ (<<y, x>> \in Less)
  BY <1>1, WFMin
<1>4. \A y \in S : x <= y
  BY <1>2, <1>3
<1>. QED  BY <1>4 DEF Min

LEMMA FirstMilestone ==
  ASSUME NEW status
  PROVE  LET m == MilestoneIn(status) IN
         /\ m = None => \A n \in Milestones : milestone[n].status # status
         /\ m # None => m \in Milestones /\ milestone[m].status = status
<1>. DEFINE S == {n \in Milestones : milestone[n].status = status}
<1>1. CASE S = {}
  BY <1>1 DEF MilestoneIn, FirstOf
<1>2. CASE S # {}
  <2>1. Min(S) \in S
    BY <1>2, LeastIsMember
  <2>. QED  BY <1>2, <2>1 DEF MilestoneIn, FirstOf
<1>. QED  BY <1>1, <1>2

LEMMA FirstSession ==
  ASSUME TypeOK, NEW status
  PROVE  LET s == SessionIn(status) IN
         s # None => s \in DOMAIN session /\ session[s].status = status
<1>. DEFINE S == {n \in DOMAIN session : session[n].status = status}
<1>1. CASE S = {}
  BY <1>1 DEF SessionIn, FirstOf
<1>2. CASE S # {}
  <2>1. S \in SUBSET Nat
    BY DEF TypeOK
  <2>2. Min(S) \in S
    BY <1>2, <2>1, LeastIsMember
  <2>. QED  BY <1>2, <2>2 DEF SessionIn, FirstOf
<1>. QED  BY <1>1, <1>2

LEMMA FirstResumable ==
  LET m == Resumable IN
    m # None => /\ m \in Milestones
                /\ milestone[m].status \in {"active", "paused"}
                /\ milestone[m].status = "paused" =>
                     \A n \in Milestones : milestone[n].status # "active"
<1>1. CASE MilestoneIn("active") # None
  <2>1. Resumable = MilestoneIn("active")
    BY <1>1 DEF Resumable, FirstFound
  <2>. QED  BY <1>1, <2>1, FirstMilestone
<1>2. CASE MilestoneIn("active") = None
  <2>1. Resumable = MilestoneIn("paused")
    BY <1>2 DEF Resumable, FirstFound
  <2>. QED  BY <1>2, <2>1, FirstMilestone
<1>. QED  BY <1>1, <1>2

----------------------------------------------------------------------------
(* Writes *)

LEMMA MilestoneWriteTyped ==
  ASSUME NEW m \in Milestones, NEW r \in MilestoneRecord
  PROVE  PutMilestone(m, r) \in Writes
  BY DEF PutMilestone, Writes

LEMMA SessionWriteTyped ==
  ASSUME NEW s \in 1 .. MaxSessions, NEW r \in SessionRecord
  PROVE  PutSession(s, r) \in Writes
  BY DEF PutSession, Writes

LEMMA ProjectWriteTyped ==
  ASSUME NEW r \in ProjectRecord
  PROVE  PutProject(r) \in Writes
  BY DEF PutProject, Writes

LEMMA RecordedTyped ==
  ASSUME TypeOK, NEW m \in Milestones, NEW status \in MilestoneStatus
  PROVE  /\ Recorded(m, status) \in Writes
         /\ Recorded(m, status).file = "milestone" /\ Recorded(m, status).id = m
         /\ Recorded(m, status).set.status = status
         /\ Recorded(m, status).set.blocked = milestone[m].blocked
<1>. DEFINE r == [milestone[m] EXCEPT !.status = status]
<1>1. milestone[m] \in MilestoneRecord
  BY DEF TypeOK
<1>2. r \in MilestoneRecord /\ r.status = status /\ r.blocked = milestone[m].blocked
  BY <1>1 DEF MilestoneRecord
<1>. HIDE DEF r
<1>3. Recorded(m, status) = PutMilestone(m, r)
  BY DEF Recorded, r
<1>. QED  BY <1>2, <1>3, MilestoneWriteTyped DEF PutMilestone

LEMMA OpenedTyped ==
  ASSUME TypeOK, NEW m \in Milestones, Len(session) < MaxSessions
  PROVE  /\ Opened(m) \in Writes
         /\ Opened(m).file = "session" /\ Opened(m).id = NewSession
<1>1. [status |-> "active", milestone |-> m] \in SessionRecord
  BY DEF SessionRecord, SessionStatus
<1>2. NewSession \in 1 .. MaxSessions
  BY DEF NewSession, TypeOK
<1>. QED  BY <1>1, <1>2, SessionWriteTyped DEF Opened, PutSession

----------------------------------------------------------------------------
(* A command: what it is going to write fits what it has found *)

(* The writes a command starts with. *)
Planned(w) ==
  /\ w \in Seq(Writes)
  /\ \A i \in DOMAIN w :
       /\ OnMilestone(w[i]) =>
            /\ Coherent(w[i].set)
            /\ w[i].set.status = "active" =>
                 \A m \in Milestones : milestone[m].status = "active" => m = w[i].id
            /\ \A j \in DOMAIN w : OnMilestone(w[j]) => w[i].id = w[j].id
       /\ w[i].file = "session" => w[i].id <= Len(session) + 1
       /\ w[i].file = "project" =>
            \/ w[i].set.activeSession = None
            \/ w[i].set.activeSession \in DOMAIN session
            \/ \E j \in 1 .. (i - 1) : /\ w[j].file = "session"
                                       /\ w[j].id = w[i].set.activeSession

LEMMA CommandKeeps ==
  ASSUME IInv, NEW w, Does(w), Planned(w)
  PROVE  IInv'
<1>1. todo' = w /\ UNCHANGED <<milestone, session, project, head, work, crashes>>
  BY DEF Does, records, tree
<1>2. TypeOK'
  BY <1>1 DEF IInv, TypeOK, Planned
<1>3. MilestoneWrites' /\ SessionWrites'
  BY <1>1 DEF Planned, MilestoneWrites, SessionWrites
<1>4. ActiveIsOne' /\ NamedSessionExists' /\ BlockedNeverShips'
  BY <1>1 DEF IInv, ActiveIsOne, NamedSessionExists, BlockedNeverShips
<1>. QED  BY <1>2, <1>3, <1>4 DEF IInv

(* A milestone that becomes active or is resumed gets a session of its     *)
(* own, and the project state names it last.                               *)
LEMMA StartWritesPlanned ==
  ASSUME IInv, NEW m \in Milestones, Len(session) < MaxSessions,
         \A n \in Milestones : milestone[n].status # "active"
  PROVE  Planned(StartWrites(m))
<1>. DEFINE a == Recorded(m, "active")
            b == Opened(m)
            r == [status |-> "active", current |-> m, activeSession |-> NewSession]
            c == PutProject(r)
<1>1. TypeOK
  BY DEF IInv
<1>2. "active" \in MilestoneStatus
  BY DEF MilestoneStatus
<1>3. /\ a \in Writes /\ a.file = "milestone" /\ a.id = m
      /\ a.set.status = "active"
  BY <1>1, <1>2, RecordedTyped
<1>4. b \in Writes /\ b.file = "session" /\ b.id = NewSession
  BY <1>1, OpenedTyped
<1>5. r \in ProjectRecord
  BY <1>1 DEF ProjectRecord, ProjectStatus, NewSession, TypeOK
<1>6. c \in Writes /\ c.file = "project" /\ c.set.activeSession = NewSession
  BY <1>5, ProjectWriteTyped DEF PutProject
<1>7. StartWrites(m) = <<a, b, c>>
  BY DEF StartWrites
<1>. HIDE DEF a, b, c
<1>8. Coherent(a.set)
  BY <1>3 DEF Coherent, Shipped
<1>9. NewSession <= Len(session) + 1
  BY <1>1 DEF NewSession, TypeOK
<1>. QED  BY <1>3, <1>4, <1>6, <1>7, <1>8, <1>9 DEF Planned, OnMilestone

LEMMA StartKeeps ==
  ASSUME IInv, NEW m \in Milestones, Start(m)
  PROVE  IInv'
<1>1. \A n \in Milestones : milestone[n].status # "active"
  BY FirstMilestone DEF Start
<1>2. Planned(StartWrites(m))
  BY <1>1, StartWritesPlanned DEF Start
<1>. QED  BY <1>2, CommandKeeps DEF Start

LEMMA ResumeMilestoneKeeps == IInv /\ ResumeMilestone => IInv'
<1>. SUFFICES ASSUME IInv, ResumeMilestone PROVE IInv'
  OBVIOUS
<1>1. /\ Resumable \in Milestones
      /\ \A n \in Milestones : milestone[n].status # "active"
  BY FirstResumable DEF ResumeMilestone
<1>2. Planned(StartWrites(Resumable))
  BY <1>1, StartWritesPlanned DEF ResumeMilestone
<1>. QED  BY <1>2, CommandKeeps DEF ResumeMilestone

(* The file of a session there is, with another status.                    *)
LEMMA SessionPutTyped ==
  ASSUME TypeOK, NEW s \in DOMAIN session, NEW status \in SessionStatus
  PROVE  LET w == PutSession(s, [session[s] EXCEPT !.status = status]) IN
         w \in Writes /\ w.file = "session" /\ w.id = s /\ s <= Len(session) + 1
<1>1. session[s] \in SessionRecord /\ s \in 1 .. MaxSessions /\ s <= Len(session) + 1
  BY DEF TypeOK
<1>2. [session[s] EXCEPT !.status = status] \in SessionRecord
  BY <1>1 DEF SessionRecord
<1>. QED  BY <1>1, <1>2, SessionWriteTyped DEF PutSession

LEMMA PauseKeeps == IInv /\ Pause => IInv'
<1>. SUFFICES ASSUME IInv, Pause PROVE IInv'
  OBVIOUS
<1>. DEFINE s == SessionIn("active")
            m == MilestoneIn("active")
            left == PutSession(s, [session[s] EXCEPT !.status = "paused"])
            r == [status |-> "paused", current |-> m, activeSession |-> None]
            told == PutProject(r)
            put == Recorded(m, "paused")
            w == IF m = None THEN <<left, told>> ELSE <<left, put, told>>
<1>1. TypeOK
  BY DEF IInv
<1>2. s \in DOMAIN session
  BY <1>1, FirstSession DEF Pause
<1>3. m = None \/ m \in Milestones
  BY FirstMilestone
<1>4. /\ left \in Writes /\ left.file = "session" /\ left.id = s
      /\ s <= Len(session) + 1
  BY <1>1, <1>2, SessionPutTyped DEF SessionStatus
<1>5. r \in ProjectRecord
  BY <1>3 DEF ProjectRecord, ProjectStatus
<1>6. told \in Writes /\ told.file = "project" /\ told.set.activeSession = None
  BY <1>5, ProjectWriteTyped DEF PutProject
<1>7. ASSUME m # None
      PROVE  /\ put \in Writes /\ put.file = "milestone"
             /\ put.set.status = "paused"
  BY <1>1, <1>3, <1>7, RecordedTyped DEF MilestoneStatus
<1>8. Does(w)
  BY DEF Pause
<1>. HIDE DEF m, s, left, told, put
<1>9. Planned(w)
  <2>1. CASE m = None
    BY <1>4, <1>6, <2>1 DEF Planned, OnMilestone
  <2>2. CASE m # None
    <3>1. Coherent(put.set)
      BY <1>7, <2>2 DEF Coherent, Shipped
    <3>. QED  BY <1>4, <1>6, <1>7, <2>2, <3>1 DEF Planned, OnMilestone
  <2>. QED  BY <2>1, <2>2
<1>. QED  BY <1>8, <1>9, CommandKeeps

LEMMA BlockKeeps == IInv /\ Block => IInv'
<1>. SUFFICES ASSUME IInv, Block PROVE IInv'
  OBVIOUS
<1>. DEFINE m == MilestoneIn("active")
            a == [milestone[m] EXCEPT !.status = "blocked"]
            r == [milestone[m] EXCEPT !.status = "blocked", !.blocked = TRUE]
            p == [project EXCEPT !.status = "blocked"]
            q == [project EXCEPT !.status = "blocked", !.current = m]
            put == PutMilestone(m, r)
            told == PutProject(q)
<1>1. TypeOK
  BY DEF IInv
<1>2. m \in Milestones
  BY FirstMilestone DEF Block
<1>3. r \in MilestoneRecord /\ r.status = "blocked"
  <2>1. a \in MilestoneRecord
    BY <1>1, <1>2 DEF TypeOK, MilestoneRecord, MilestoneStatus
  <2>2. r = [a EXCEPT !.blocked = TRUE]
    BY <1>1, <1>2 DEF TypeOK, MilestoneRecord
  <2>. HIDE DEF a
  <2>3. r \in MilestoneRecord
    BY <2>1, <2>2 DEF MilestoneRecord
  <2>. QED  BY <1>1, <1>2, <2>3 DEF TypeOK, MilestoneRecord
<1>4. q \in ProjectRecord /\ q.activeSession = project.activeSession
  <2>1. p \in ProjectRecord
    BY <1>1 DEF TypeOK, ProjectRecord, ProjectStatus
  <2>2. q = [p EXCEPT !.current = m]
    BY <1>1 DEF TypeOK, ProjectRecord
  <2>. HIDE DEF p
  <2>3. q \in ProjectRecord
    BY <1>2, <2>1, <2>2 DEF ProjectRecord
  <2>. QED  BY <1>1, <2>3 DEF TypeOK, ProjectRecord
<1>5. Does(<<put, told>>)
  BY DEF Block
<1>. HIDE DEF m, r, q
<1>6. /\ put \in Writes /\ put.file = "milestone"
      /\ put.set.status = "blocked"
  BY <1>2, <1>3, MilestoneWriteTyped DEF PutMilestone
<1>7. /\ told \in Writes /\ told.file = "project"
      /\ told.set.activeSession = project.activeSession
  BY <1>4, ProjectWriteTyped DEF PutProject
<1>8. project.activeSession = None \/ project.activeSession \in DOMAIN session
  BY DEF IInv, NamedSessionExists
<1>. HIDE DEF put, told
<1>9. Planned(<<put, told>>)
  <2>1. Coherent(put.set)
    BY <1>6 DEF Coherent, Shipped
  <2>. QED  BY <1>6, <1>7, <1>8, <2>1 DEF Planned, OnMilestone
<1>. QED  BY <1>5, <1>9, CommandKeeps

LEMMA ResumeSessionKeeps == IInv /\ ResumeSession => IInv'
<1>. SUFFICES ASSUME IInv, ResumeSession PROVE IInv'
  OBVIOUS
<1>. DEFINE m == Resumable
            again == Opened(session[SessionIn("paused")].milestone)
            p == [project EXCEPT !.status = "active"]
            q == [project EXCEPT !.status = "active", !.activeSession = NewSession]
            told == PutProject(q)
            put == Recorded(m, "active")
            w == IF m # None /\ milestone[m].status = "paused"
                 THEN <<put, again, told>> ELSE <<again, told>>
<1>1. TypeOK /\ Len(session) < MaxSessions
  BY DEF IInv, ResumeSession
<1>2. session[SessionIn("paused")].milestone \in Milestones
  <2>1. SessionIn("paused") \in DOMAIN session
    BY <1>1, FirstSession DEF ResumeSession
  <2>2. session[SessionIn("paused")] \in SessionRecord
    BY <1>1, <2>1 DEF TypeOK
  <2>. QED  BY <2>2 DEF SessionRecord
<1>3. again \in Writes /\ again.file = "session" /\ again.id = NewSession
  BY <1>1, <1>2, OpenedTyped
<1>4. NewSession \in 1 .. MaxSessions /\ NewSession <= Len(session) + 1
  BY <1>1 DEF NewSession, TypeOK
<1>5. q \in ProjectRecord /\ q.activeSession = NewSession
  <2>1. p \in ProjectRecord
    BY <1>1 DEF TypeOK, ProjectRecord, ProjectStatus
  <2>2. q = [p EXCEPT !.activeSession = NewSession]
    BY <1>1 DEF TypeOK, ProjectRecord
  <2>. HIDE DEF p, q
  <2>. QED  BY <1>4, <2>1, <2>2 DEF ProjectRecord
<1>6. Does(w)
  BY DEF ResumeSession
<1>. HIDE DEF again, q
<1>7. told \in Writes /\ told.file = "project" /\ told.set.activeSession = NewSession
  BY <1>5, ProjectWriteTyped DEF PutProject
<1>8. ASSUME m # None, milestone[m].status = "paused"
      PROVE  /\ put \in Writes /\ put.file = "milestone" /\ put.id = m
             /\ put.set.status = "active"
             /\ \A n \in Milestones : milestone[n].status # "active"
  BY <1>1, <1>8, FirstResumable, RecordedTyped DEF MilestoneStatus
<1>. HIDE DEF m, told, put
<1>9. Planned(w)
  <2>1. CASE m # None /\ milestone[m].status = "paused"
    <3>1. Coherent(put.set)
      BY <1>8, <2>1 DEF Coherent, Shipped
    <3>. QED  BY <1>3, <1>4, <1>7, <1>8, <2>1, <3>1 DEF Planned, OnMilestone
  <2>2. CASE ~(m # None /\ milestone[m].status = "paused")
    BY <1>3, <1>4, <1>7, <2>2 DEF Planned, OnMilestone
  <2>. QED  BY <2>1, <2>2
<1>. QED  BY <1>6, <1>9, CommandKeeps

LEMMA CloseSessionKeeps == IInv /\ CloseSession => IInv'
<1>. SUFFICES ASSUME IInv, CloseSession PROVE IInv'
  OBVIOUS
<1>. DEFINE s == SessionIn("active")
            w == PutSession(s, [session[s] EXCEPT !.status = "closed"])
<1>1. TypeOK
  BY DEF IInv
<1>2. s \in DOMAIN session
  BY <1>1, FirstSession DEF CloseSession
<1>3. w \in Writes /\ w.file = "session" /\ w.id <= Len(session) + 1
  BY <1>1, <1>2, SessionPutTyped DEF SessionStatus
<1>4. Does(<<w>>)
  BY DEF CloseSession
<1>. HIDE DEF w
<1>5. Planned(<<w>>)
  BY <1>3 DEF Planned, OnMilestone
<1>. QED  BY <1>4, <1>5, CommandKeeps

LEMMA ValidateKeeps == IInv /\ Validate => IInv'
<1>. SUFFICES ASSUME IInv, Validate PROVE IInv'
  OBVIOUS
<1>. DEFINE m == MilestoneIn("active")
            found == IF Contradicted THEN NotValidated
                     ELSE [good |-> TRUE, diff |-> Fingerprint]
            put == Recorded(m, "validating")
            r == [milestone[m] EXCEPT !.validated = found]
            w == [file |-> "profile", id |-> m, set |-> r]
<1>1. TypeOK
  BY DEF IInv
<1>2. m \in Milestones /\ milestone[m].status = "active"
  BY FirstMilestone DEF Validate
<1>3. /\ put \in Writes /\ put.file = "milestone" /\ put.id = m
      /\ put.set.status = "validating"
  BY <1>1, <1>2, RecordedTyped DEF MilestoneStatus
<1>4. found \in Validations
  <2>1. Fingerprint \in Diffs
    BY <1>1 DEF Fingerprint, Diffs, TypeOK, Commits
  <2>2. <<>> \in Diffs
    BY DEF Diffs
  <2>. QED  BY <2>1, <2>2 DEF Validations, NotValidated
<1>5. Does(<<put, w>>)
  BY DEF Validate
<1>. HIDE DEF found
<1>6. r \in MilestoneRecord /\ r.status = "active"
  BY <1>1, <1>2, <1>4 DEF TypeOK, MilestoneRecord
<1>. HIDE DEF r, put
<1>7. w \in Writes /\ w.file = "profile" /\ w.id = m /\ w.set = r
  BY <1>2, <1>6 DEF Writes
<1>8. \A n \in Milestones : milestone[n].status = "active" => n = m
  BY <1>2 DEF IInv, ActiveIsOne
<1>9. Coherent(put.set) /\ Coherent(w.set)
  BY <1>3, <1>6, <1>7 DEF Coherent, Shipped
<1>. HIDE DEF w, m
<1>10. Planned(<<put, w>>)
  BY <1>3, <1>6, <1>7, <1>8, <1>9 DEF Planned, OnMilestone
<1>. QED  BY <1>5, <1>10, CommandKeeps

LEMMA ProfileEndsKeeps ==
  ASSUME IInv, NEW passed \in BOOLEAN, ProfileEnds(passed)
  PROVE  IInv'
<1>. DEFINE w == Head(todo)
            checked == IF passed THEN w.set
                       ELSE [w.set EXCEPT !.validated = NotValidated]
            r == [checked EXCEPT !.status = "validating"]
            first == PutMilestone(w.id, r)
            second == PutMilestone(w.id, checked)
<1>1. TypeOK
  BY DEF IInv
<1>2. todo # <<>> /\ w = todo[1] /\ 1 \in DOMAIN todo /\ w.file = "profile"
  BY <1>1 DEF ProfileEnds, InProfile, TypeOK
<1>3. w.id \in Milestones /\ w.set \in MilestoneRecord
  <2>1. w \in Writes
    BY <1>1, <1>2 DEF TypeOK
  <2>. QED  BY <1>2, <2>1 DEF Writes
<1>4. /\ Coherent(w.set)
      /\ w.set.status = "active" =>
           \A m \in Milestones : milestone[m].status = "active" => m = w.id
  BY <1>2 DEF IInv, MilestoneWrites, OnMilestone
<1>5. Does(<<first, second>>)
  BY DEF ProfileEnds
<1>. HIDE DEF w
<1>6. /\ checked \in MilestoneRecord /\ checked.status = w.set.status
      /\ checked.blocked = w.set.blocked
  <2>1. NotValidated \in Validations
    BY DEF NotValidated, Validations, Diffs
  <2>. QED  BY <1>3, <2>1 DEF MilestoneRecord
<1>. HIDE DEF checked
<1>7. r \in MilestoneRecord /\ r.status = "validating"
  BY <1>6 DEF MilestoneRecord, MilestoneStatus
<1>. HIDE DEF r
<1>8. /\ first \in Writes /\ first.file = "milestone"
      /\ first.id = w.id /\ first.set = r
      /\ second \in Writes /\ second.file = "milestone"
      /\ second.id = w.id /\ second.set = checked
  BY <1>3, <1>6, <1>7, MilestoneWriteTyped DEF PutMilestone
<1>9. Coherent(r) /\ Coherent(checked)
  BY <1>4, <1>6, <1>7 DEF Coherent, Shipped
<1>. HIDE DEF first, second
<1>10. Planned(<<first, second>>)
  BY <1>4, <1>6, <1>7, <1>8, <1>9 DEF Planned, OnMilestone
<1>. QED  BY <1>5, <1>10, CommandKeeps

(* A milestone that is not blocked is shipped, and no session is named.    *)
LEMMA ShipPlanned ==
  ASSUME IInv, NEW m \in Milestones, ~milestone[m].blocked,
         NEW status \in Shipped, NEW r \in ProjectRecord, r.activeSession = None
  PROVE  Planned(<<Recorded(m, status), PutProject(r)>>)
<1>. DEFINE put == Recorded(m, status)
            told == PutProject(r)
<1>1. /\ put \in Writes /\ put.file = "milestone"
      /\ put.set.status = status /\ put.set.blocked = milestone[m].blocked
  BY RecordedTyped DEF IInv, MilestoneStatus, Shipped
<1>2. told \in Writes /\ told.file = "project" /\ told.set.activeSession = None
  BY ProjectWriteTyped DEF PutProject
<1>3. Coherent(put.set) /\ put.set.status # "active"
  BY <1>1 DEF Coherent, Shipped
<1>. HIDE DEF put, told
<1>4. Planned(<<put, told>>)
  BY <1>1, <1>2, <1>3 DEF Planned, OnMilestone
<1>. QED  BY <1>4 DEF put, told

LEMMA CompleteKeeps == IInv /\ Complete => IInv'
<1>. SUFFICES ASSUME IInv, Complete PROVE IInv'
  OBVIOUS
<1>. DEFINE m == ToComplete
            r == [status |-> "ready-for-delivery", current |-> None,
                  activeSession |-> None]
<1>1. m \in Milestones
  BY FirstMilestone DEF ToComplete, FirstFound, Complete
<1>2. ~milestone[m].blocked
  BY DEF Complete, Unblocked
<1>3. r \in ProjectRecord
  BY DEF ProjectRecord, ProjectStatus
<1>4. Does(<<Recorded(m, "ready-for-delivery"), PutProject(r)>>)
  BY DEF Complete
<1>. HIDE DEF m
<1>. QED  BY <1>1, <1>2, <1>3, <1>4, ShipPlanned, CommandKeeps DEF Shipped

LEMMA MergeKeeps ==
  ASSUME IInv, NEW m \in Milestones, Merge(m)
  PROVE  IInv'
<1>. DEFINE r == [status |-> "idle", current |-> None, activeSession |-> None]
<1>1. ~milestone[m].blocked
  BY DEF Merge, IInv, BlockedNeverShips
<1>2. r \in ProjectRecord
  BY DEF ProjectRecord, ProjectStatus
<1>3. Does(<<Recorded(m, "merged"), PutProject(r)>>)
  BY DEF Merge
<1>. QED  BY <1>1, <1>2, <1>3, ShipPlanned, CommandKeeps DEF Shipped

----------------------------------------------------------------------------
(* The next write, a crash, and the source tree *)

LEMMA WriteKeeps == IInv /\ Write => IInv'
<1>. SUFFICES ASSUME IInv, Write PROVE IInv'
  OBVIOUS
<1>. DEFINE w == Head(todo)
<1>1. TypeOK
  BY DEF IInv
<1>2. /\ todo # <<>> /\ w = todo[1] /\ 1 \in DOMAIN todo /\ w.file # "profile"
      /\ todo' = Tail(todo) /\ todo' \in Seq(Writes)
      /\ \A i \in DOMAIN todo' : i + 1 \in DOMAIN todo /\ todo'[i] = todo[i + 1]
  BY <1>1 DEF Write, Idle, InProfile, TypeOK
<1>3. /\ milestone' = IF w.file = "milestone"
                       THEN [milestone EXCEPT ![w.id] = w.set] ELSE milestone
      /\ session' = IF w.file # "session" THEN session
                     ELSE IF w.id \in DOMAIN session
                          THEN [session EXCEPT ![w.id] = w.set]
                          ELSE Append(session, w.set)
      /\ project' = IF w.file = "project" THEN w.set ELSE project
      /\ UNCHANGED <<head, work, crashes>>
  BY DEF Write, tree
<1>4. w \in Writes
  BY <1>1, <1>2 DEF TypeOK
<1>5. w.file = "milestone" =>
        /\ w.id \in Milestones /\ w.set \in MilestoneRecord /\ Coherent(w.set)
        /\ w.set.status = "active" =>
             \A m \in Milestones : milestone[m].status = "active" => m = w.id
  BY <1>2, <1>4 DEF Writes, IInv, MilestoneWrites, OnMilestone
<1>6. w.file = "session" =>
        /\ w.id \in 1 .. MaxSessions /\ w.set \in SessionRecord
        /\ w.id <= Len(session) + 1
  BY <1>2, <1>4 DEF Writes, IInv, SessionWrites
<1>7. w.file = "project" =>
        /\ w.set \in ProjectRecord
        /\ w.set.activeSession = None \/ w.set.activeSession \in DOMAIN session
  BY <1>2, <1>4 DEF Writes, IInv, SessionWrites
<1>. HIDE DEF w
<1>8. /\ session' \in Seq(SessionRecord) /\ Len(session') <= MaxSessions
      /\ DOMAIN session \subseteq DOMAIN session' /\ Len(session) <= Len(session')
      /\ w.file = "session" => w.id \in DOMAIN session'
  <2>1. CASE w.file # "session"
    BY <1>1, <1>3, <2>1 DEF TypeOK
  <2>2. CASE w.file = "session" /\ w.id \in DOMAIN session
    BY <1>1, <1>3, <1>6, <2>2 DEF TypeOK
  <2>3. CASE w.file = "session" /\ w.id \notin DOMAIN session
    <3>1. session' = Append(session, w.set) /\ w.id = Len(session) + 1
      BY <1>1, <1>3, <1>6, <2>3 DEF TypeOK
    <3>. QED  BY <1>1, <1>6, <2>3, <3>1 DEF TypeOK
  <2>. QED  BY <2>1, <2>2, <2>3
<1>9. milestone' \in [Milestones -> MilestoneRecord]
  BY <1>1, <1>3, <1>5 DEF TypeOK
<1>10. \A m \in Milestones :
         milestone'[m] = IF w.file = "milestone" /\ m = w.id THEN w.set ELSE milestone[m]
  BY <1>1, <1>3, <1>5 DEF TypeOK
<1>11. TypeOK'
  BY <1>1, <1>2, <1>3, <1>7, <1>8, <1>9 DEF TypeOK
<1>12. MilestoneWrites'
  <2>. SUFFICES ASSUME NEW i \in DOMAIN todo', OnMilestone(todo'[i])
                PROVE  /\ Coherent(todo'[i].set)
                       /\ todo'[i].set.status = "active" =>
                            \A m \in Milestones :
                              milestone'[m].status = "active" => m = todo'[i].id
                       /\ \A j \in DOMAIN todo' :
                            OnMilestone(todo'[j]) => todo'[i].id = todo'[j].id
    BY DEF MilestoneWrites, OnMilestone
  <2>1. Coherent(todo'[i].set)
    BY <1>2 DEF IInv, MilestoneWrites
  <2>2. \A j \in DOMAIN todo' : OnMilestone(todo'[j]) => todo'[i].id = todo'[j].id
    BY <1>2 DEF IInv, MilestoneWrites
  <2>3. w.file = "milestone" => w.id = todo'[i].id
    BY <1>2 DEF IInv, MilestoneWrites, OnMilestone
  <2>4. todo'[i].set.status = "active" =>
          \A m \in Milestones : milestone[m].status = "active" => m = todo'[i].id
    BY <1>2 DEF IInv, MilestoneWrites
  <2>. QED  BY <1>10, <2>1, <2>2, <2>3, <2>4
<1>13. SessionWrites'
  <2>. SUFFICES ASSUME NEW i \in DOMAIN todo'
                PROVE  /\ todo'[i].file = "session" =>
                            todo'[i].id <= Len(session') + 1
                       /\ todo'[i].file = "project" =>
                            \/ todo'[i].set.activeSession = None
                            \/ todo'[i].set.activeSession \in DOMAIN session'
                            \/ \E j \in 1 .. (i - 1) :
                                 /\ todo'[j].file = "session"
                                 /\ todo'[j].id = todo'[i].set.activeSession
    BY DEF SessionWrites
  <2>1. todo'[i].file = "session" => todo'[i].id <= Len(session') + 1
    <3>. SUFFICES ASSUME todo'[i].file = "session"
                  PROVE  todo'[i].id <= Len(session') + 1
      OBVIOUS
    <3>1. todo'[i].id <= Len(session) + 1
      BY <1>2 DEF IInv, SessionWrites
    <3>2. todo'[i].id \in 1 .. MaxSessions
      BY <1>2 DEF Writes
    <3>. QED  BY <1>1, <1>8, <3>1, <3>2 DEF TypeOK
  <2>2. ASSUME todo'[i].file = "project",
               todo'[i].set.activeSession # None,
               todo'[i].set.activeSession \notin DOMAIN session'
        PROVE  \E j \in 1 .. (i - 1) :
                 /\ todo'[j].file = "session"
                 /\ todo'[j].id = todo'[i].set.activeSession
    <3>1. PICK j \in 1 .. i : /\ todo[j].file = "session"
                              /\ todo[j].id = todo'[i].set.activeSession
      BY <1>2, <1>8, <2>2 DEF IInv, SessionWrites
    <3>2. j # 1
      BY <1>2, <1>8, <2>2, <3>1
    <3>3. j - 1 \in 1 .. (i - 1) /\ todo'[j - 1] = todo[j]
      BY <1>2, <3>2
    <3>. QED  BY <3>1, <3>3
  <2>. QED  BY <2>1, <2>2
<1>14. ActiveIsOne'
  BY <1>5, <1>10 DEF IInv, ActiveIsOne
<1>15. NamedSessionExists'
  BY <1>3, <1>7, <1>8 DEF IInv, NamedSessionExists
<1>16. BlockedNeverShips'
  BY <1>5, <1>10 DEF IInv, BlockedNeverShips, Coherent, Shipped
<1>. QED  BY <1>11, <1>12, <1>13, <1>14, <1>15, <1>16 DEF IInv

(* The records stay as they are, and nothing is left to write or what was. *)
LEMMA TreeKeeps ==
  ASSUME IInv, UNCHANGED records, todo' = <<>> \/ UNCHANGED todo,
         head' \in Commits, work' \in Contents, crashes' \in 0 .. MaxCrashes
  PROVE  IInv'
<1>1. TypeOK'
  <2>1. <<>> \in Seq(Writes) /\ todo \in Seq(Writes)
    BY DEF IInv, TypeOK
  <2>2. todo' \in Seq(Writes)
    BY <2>1
  <2>. QED  BY <2>2 DEF IInv, TypeOK, records
<1>2. MilestoneWrites' /\ SessionWrites'
  BY DEF IInv, MilestoneWrites, SessionWrites, records
<1>3. ActiveIsOne' /\ NamedSessionExists' /\ BlockedNeverShips'
  BY DEF IInv, ActiveIsOne, NamedSessionExists, BlockedNeverShips, records
<1>. QED  BY <1>1, <1>2, <1>3 DEF IInv

LEMMA EnvironmentKeeps ==
  ASSUME IInv,
         Crash \/ Prepare \/ Commit \/ (\E content \in Contents : Edit(content))
  PROVE  IInv'
<1>1. head \in Commits /\ work \in Contents /\ crashes \in 0 .. MaxCrashes
  BY DEF IInv, TypeOK
<1>2. head.n < MaxCommits => [n |-> head.n + 1, tree |-> work] \in Commits
  BY <1>1 DEF Commits
<1>3. crashes < MaxCrashes => crashes + 1 \in 0 .. MaxCrashes
  BY <1>1
<1>4. /\ UNCHANGED records
      /\ todo' = <<>> \/ UNCHANGED todo
  BY DEF Crash, Prepare, Commit, Edit
<1>5. head' \in Commits /\ work' \in Contents /\ crashes' \in 0 .. MaxCrashes
  BY <1>1, <1>2, <1>3 DEF Crash, Prepare, Commit, Edit, tree
<1>. QED  BY <1>4, <1>5, TreeKeeps

LEMMA ValidationAgesKeeps ==
  ASSUME IInv, NEW m \in Milestones, ValidationAges(m)
  PROVE  IInv'
<1>. DEFINE r == [milestone[m] EXCEPT !.validated = NotValidated]
<1>1. TypeOK
  BY DEF IInv
<1>2. /\ r \in MilestoneRecord /\ r.status = milestone[m].status
      /\ r.blocked = milestone[m].blocked
  <2>1. NotValidated \in Validations
    BY DEF NotValidated, Validations, Diffs
  <2>. QED  BY <1>1, <2>1 DEF TypeOK, MilestoneRecord
<1>3. milestone' = [milestone EXCEPT ![m] = r]
  BY DEF ValidationAges
<1>. HIDE DEF r
<1>4. /\ milestone' \in [Milestones -> MilestoneRecord]
      /\ \A n \in Milestones : /\ milestone'[n].status = milestone[n].status
                               /\ milestone'[n].blocked = milestone[n].blocked
  BY <1>1, <1>2, <1>3 DEF TypeOK
<1>5. todo = <<>> /\ UNCHANGED <<session, project, head, work, todo, crashes>>
  BY DEF ValidationAges, Idle, tree
<1>6. TypeOK'
  BY <1>1, <1>4, <1>5 DEF TypeOK
<1>7. MilestoneWrites' /\ SessionWrites'
  BY <1>5 DEF MilestoneWrites, SessionWrites
<1>8. ActiveIsOne' /\ BlockedNeverShips'
  BY <1>4 DEF IInv, ActiveIsOne, BlockedNeverShips
<1>9. NamedSessionExists'
  BY <1>5 DEF IInv, NamedSessionExists
<1>. QED  BY <1>6, <1>7, <1>8, <1>9 DEF IInv

----------------------------------------------------------------------------

LEMMA Starts == Init => IInv
<1>. SUFFICES ASSUME Init PROVE IInv
  OBVIOUS
<1>1. milestone \in [Milestones -> MilestoneRecord]
  <2>1. NotValidated \in Validations
    BY DEF NotValidated, Validations, Diffs
  <2>. QED  BY <2>1 DEF Init, MilestoneRecord, MilestoneStatus
<1>2. TypeOK
  <2>1. project \in ProjectRecord
    BY DEF Init, ProjectRecord, ProjectStatus
  <2>2. head \in Commits
    BY DEF Init, Commits
  <2>3. /\ session \in Seq(SessionRecord) /\ todo \in Seq(Writes)
        /\ Len(session) <= MaxSessions
    BY DEF Init
  <2>4. work \in Contents /\ crashes \in 0 .. MaxCrashes
    BY DEF Init
  <2>. QED  BY <1>1, <2>1, <2>2, <2>3, <2>4 DEF TypeOK
<1>3. MilestoneWrites /\ SessionWrites
  BY DEF Init, MilestoneWrites, SessionWrites
<1>4. ActiveIsOne /\ NamedSessionExists /\ BlockedNeverShips
  BY DEF Init, ActiveIsOne, NamedSessionExists, BlockedNeverShips
<1>. QED  BY <1>2, <1>3, <1>4 DEF IInv

LEMMA StepKeeps == IInv /\ [Next]_vars => IInv'
<1>. SUFFICES ASSUME IInv, [Next]_vars PROVE IInv'
  OBVIOUS
<1>1. CASE UNCHANGED vars
  <2>1. UNCHANGED records /\ UNCHANGED <<head, work, todo, crashes>>
    BY <1>1 DEF vars, records
  <2>2. head \in Commits /\ work \in Contents /\ crashes \in 0 .. MaxCrashes
    BY DEF IInv, TypeOK
  <2>. QED  BY <2>1, <2>2, TreeKeeps
<1>2. CASE Write
  BY <1>2, WriteKeeps
<1>3. CASE Pause \/ Block \/ ResumeSession \/ ResumeMilestone \/ CloseSession
  BY <1>3, PauseKeeps, BlockKeeps, ResumeSessionKeeps, ResumeMilestoneKeeps,
     CloseSessionKeeps
<1>4. CASE Validate \/ Complete \/ \E passed \in BOOLEAN : ProfileEnds(passed)
  BY <1>4, ValidateKeeps, CompleteKeeps, ProfileEndsKeeps
<1>5. CASE \/ Crash \/ Prepare \/ Commit
           \/ \E content \in Contents : Edit(content)
  BY <1>5, EnvironmentKeeps
<1>6. ASSUME NEW m \in Milestones, Start(m) \/ Merge(m) \/ ValidationAges(m)
      PROVE  IInv'
  BY <1>6, StartKeeps, MergeKeeps, ValidationAgesKeeps
<1>. QED  BY <1>1, <1>2, <1>3, <1>4, <1>5, <1>6 DEF Next

LEMMA Always == Spec => []IInv
  BY Starts, StepKeeps, PTL DEF Spec

(* The records and the writes under way are always of their kind.          *)
THEOREM TypeCorrect == Spec => []TypeOK
<1>1. IInv => TypeOK
  BY DEF IInv
<1>. QED  BY <1>1, Always, PTL

(* At most one milestone is active, after whichever write a command has    *)
(* been cut short: only start, resume and the end of a validation make one *)
(* active, and each of them has found no other.                            *)
THEOREM OneMilestoneIsActive == Spec => []OneActiveMilestone
<1>1. IInv => OneActiveMilestone
  <2>. SUFFICES ASSUME IInv PROVE OneActiveMilestone
    OBVIOUS
  <2>. DEFINE S == {m \in Milestones : milestone[m].status = "active"}
  <2>1. \A m, n \in S : m = n
    BY DEF IInv, ActiveIsOne
  <2>. HIDE DEF S
  <2>2. CASE S = {}
    <3>1. Cardinality(S) = 0
      BY <2>2, FS_EmptySet
    <3>. QED  BY <3>1 DEF OneActiveMilestone, S
  <2>3. CASE S # {}
    <3>1. PICK m : S = {m}
      BY <2>1, <2>3
    <3>2. Cardinality(S) = 1
      BY <3>1, FS_Singleton
    <3>. QED  BY <3>2 DEF OneActiveMilestone, S
  <2>. QED  BY <2>2, <2>3
<1>. QED  BY <1>1, Always, PTL

(* The project state never names a session without a file.                 *)
THEOREM NamedSessionIsThere == Spec => []NamedSessionExists
<1>1. IInv => NamedSessionExists
  BY DEF IInv
<1>. QED  BY <1>1, Always, PTL

(* A milestone that was blocked once never ships.                          *)
THEOREM BlockedStaysHome == Spec => []BlockedNeverShips
<1>1. IInv => BlockedNeverShips
  BY DEF IInv
<1>. QED  BY <1>1, Always, PTL
=============================================================================
