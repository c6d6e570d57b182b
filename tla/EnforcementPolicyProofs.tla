---------------------- MODULE EnforcementPolicyProofs ----------------------
(***************************************************************************)
(* Theorems about EnforcementPolicy and the steps EnforcedRouting routes   *)
(* by it, for any tracks, capabilities and clients, with or without        *)
(* failing writes and audits, malformed input, a damaged file and          *)
(* restarts.                                                               *)
(***************************************************************************)
EXTENDS EnforcedRouting, SequenceTheorems, TLAPS

Queued == {queue[i] : i \in 1..Len(queue)}

Pending == gates \cup Queued

ApprovedWhereEnforced(p) ==
  \A t \in Tracks : p.tracks[t].state = "enforced" => p.tracks[t].approved

AllDown(p) ==
  \A t \in Tracks : p.tracks[t].state # "eligible" /\ p.tracks[t].state # "enforced"

(* A request for enforced carries a token of an approved track, of a       *)
(* revision that memory has reached, and at that very revision the         *)
(* capability it names is not blocked; an override names a capability.     *)
Sound(r) ==
  /\ r.kind = "set" /\ r.target = "enforced" =>
       /\ r.approved
       /\ r.rev <= policy.rev
       /\ r.rev = policy.rev => ~Overridden(r.track, r.model)
  /\ r.kind = "override" => r.model \in Models

Modest(r) == r.kind = "set" => r.target # "eligible" /\ r.target # "enforced"

(* The inductive invariant. *)
PolicyInv ==
  /\ TypeOK
  /\ \A r \in gates : r.kind = "set" /\ r.target = "enforced"
  /\ \A r \in Pending : Sound(r)
  /\ EnforcedApproved
  /\ busy.at = "written" => file.rev = policy.rev + 1
  /\ busy.at # "written" => policy = file \/ (locked /\ ~fileOk)
  /\ locked => /\ AllDown(policy)
               /\ busy.at = "written" => AllDown(file)
               /\ \A r \in Pending : Modest(r)

-----------------------------------------------------------------------------
(* What a mutation does *)

LEMMA MutatedTyped ==
  ASSUME NEW p \in Policy, NEW r \in Request,
         r.kind = "override" => r.model \in Models
  PROVE  Mutated(p, r) \in Policy /\ Mutated(p, r).rev = p.rev + 1
<1>1. p.rev + 1 \in Nat
  BY DEF Policy
<1>2. CASE r.kind = "set"
  <2>1. [p.tracks[r.track] EXCEPT !.known = TRUE, !.state = r.target] \in TrackRecord
    BY DEF Policy, Request, TrackRecord
  <2>2. QED
    BY <1>1, <1>2, <2>1 DEF Mutated, SetTo, WithTrack, Policy, Request
<1>3. CASE r.kind = "approve"
  <2>1. [p.tracks[r.track] EXCEPT !.known = TRUE, !.approved = TRUE] \in TrackRecord
    BY DEF Policy, Request, TrackRecord
  <2>2. QED
    BY <1>1, <1>3, <2>1 DEF Mutated, ApprovedIn, WithTrack, Policy, Request
<1>4. CASE r.kind = "revoke"
  <2>1. FallBack(p.tracks[r.track].state) \in States
    BY DEF FallBack, States, Policy, Request, TrackRecord
  <2>2. [p.tracks[r.track] EXCEPT !.approved = FALSE, !.state = FallBack(@)]
          \in TrackRecord
    BY <2>1 DEF Policy, Request, TrackRecord
  <2>3. QED
    BY <1>1, <1>4, <2>2 DEF Mutated, RevokedIn, WithTrack, Policy, Request
<1>5. CASE r.kind = "override"
  <2>1. p.overrides \cup {<<r.track, r.model>>} \in SUBSET (Tracks \X Models)
    BY <1>5 DEF Policy, Request
  <2>2. QED
    BY <1>1, <1>5, <2>1 DEF Mutated, Policy
<1>6. CASE r.kind = "clear"
  <2>1. p.overrides \ {<<r.track, r.model>>} \in SUBSET (Tracks \X Models)
    BY DEF Policy
  <2>2. QED
    BY <1>1, <1>6, <2>1 DEF Mutated, Policy
<1>7. QED
  BY <1>2, <1>3, <1>4, <1>5, <1>6 DEF Request, Kinds

LEMMA MutatedApproved ==
  ASSUME NEW p \in Policy, NEW r \in Request, ApprovedWhereEnforced(p),
         Accepted(p, r),
         r.kind = "set" /\ r.target = "enforced" => r.approved
  PROVE  ApprovedWhereEnforced(Mutated(p, r))
<1>1. CASE r.kind = "set"
  <2>1. r.target = "enforced" => p.tracks[r.track].approved
    BY <1>1 DEF Accepted, TokenHolds
  <2>2. QED
    BY <1>1, <2>1, ZenonT(60)
       DEF ApprovedWhereEnforced, Mutated, SetTo, WithTrack, Policy, Request, TrackRecord
<1>2. CASE r.kind = "approve"
  BY <1>2, ZenonT(60)
     DEF ApprovedWhereEnforced, Mutated, ApprovedIn, WithTrack, Policy, Request, TrackRecord
<1>3. CASE r.kind = "revoke"
  <2>1. FallBack(p.tracks[r.track].state) # "enforced"
    BY DEF FallBack, States, Policy, Request, TrackRecord
  <2>2. QED
    BY <1>3, <2>1
       DEF ApprovedWhereEnforced, Mutated, RevokedIn, WithTrack, Policy, Request, TrackRecord
<1>4. CASE r.kind \in {"override", "clear"}
  BY <1>4 DEF ApprovedWhereEnforced, Mutated, Policy
<1>5. QED
  BY <1>1, <1>2, <1>3, <1>4 DEF Request, Kinds

LEMMA MutatedDown ==
  ASSUME NEW p \in Policy, NEW r \in Request, AllDown(p), Modest(r)
  PROVE  AllDown(Mutated(p, r))
<1>1. CASE r.kind = "set"
  <2>1. r.target # "eligible" /\ r.target # "enforced"
    BY <1>1 DEF Modest
  <2>2. QED
    BY <1>1, <2>1, ZenonT(60) DEF AllDown, Mutated, SetTo, WithTrack, Policy, Request,
                      TrackRecord
<1>2. CASE r.kind = "approve"
  BY <1>2, ZenonT(60) DEF AllDown, Mutated, ApprovedIn, WithTrack, Policy, Request, TrackRecord
<1>3. CASE r.kind = "revoke"
  <2>1. /\ FallBack(p.tracks[r.track].state) # "eligible"
        /\ FallBack(p.tracks[r.track].state) # "enforced"
    BY DEF FallBack, States, Policy, Request, TrackRecord
  <2>2. QED
    BY <1>3, <2>1, ZenonT(60) DEF AllDown, Mutated, RevokedIn, WithTrack, Policy, Request, TrackRecord
<1>4. CASE r.kind \in {"override", "clear"}
  BY <1>4 DEF AllDown, Mutated, Policy
<1>5. QED
  BY <1>1, <1>2, <1>3, <1>4 DEF Request, Kinds

-----------------------------------------------------------------------------
(* The queue *)

LEMMA EnqueueAdds ==
  ASSUME TypeOK, NEW r \in Request, Enqueue(r)
  PROVE  queue' \in Seq(Request) /\ Queued' \subseteq Queued \cup {r}
<1>1. queue \in Seq(Request) /\ queue' = Append(queue, r)
  BY DEF TypeOK, Enqueue
<1>2. queue' \in Seq(Request)
  BY <1>1
<1>3. Len(queue') = Len(queue) + 1 /\ Len(queue) \in Nat
  BY <1>1
<1>4. \A i \in 1..Len(queue') : queue'[i] = IF i = Len(queue) + 1 THEN r ELSE queue[i]
  BY <1>1, <1>3
<1>5. ASSUME NEW q \in Queued'
      PROVE  q \in Queued \cup {r}
  <2>1. PICK i \in 1..Len(queue') : q = queue'[i]
    BY DEF Queued
  <2>2. i = Len(queue) + 1 \/ i \in 1..Len(queue)
    BY <1>3
  <2>3. QED
    BY <2>1, <2>2, <1>4 DEF Queued
<1>6. QED
  BY <1>2, <1>5

LEMMA TakenRemoves ==
  ASSUME TypeOK, NEW r, Taken(r)
  PROVE  /\ r \in Request /\ r \in Queued
         /\ queue' \in Seq(Request) /\ Queued' \subseteq Queued
<1>1. queue \in Seq(Request) /\ queue # <<>> /\ r = Head(queue) /\ queue' = Tail(queue)
  BY DEF TypeOK, Taken
<1>2. /\ r \in Request /\ queue' \in Seq(Request)
      /\ Len(queue') = Len(queue) - 1
      /\ \A i \in 1..Len(queue') : queue'[i] = queue[i + 1]
  BY <1>1, HeadTailProperties
<1>3. Len(queue) \in Nat \ {0} /\ r = queue[1]
  BY <1>1, EmptySeq
<1>4. r \in Queued
  BY <1>3 DEF Queued
<1>5. ASSUME NEW q \in Queued'
      PROVE  q \in Queued
  <2>1. PICK i \in 1..Len(queue') : q = queue'[i]
    BY DEF Queued
  <2>2. q = queue[i + 1] /\ i + 1 \in 1..Len(queue)
    BY <2>1, <1>2, <1>3
  <2>3. QED
    BY <2>2 DEF Queued
<1>6. QED
  BY <1>2, <1>4, <1>5

LEMMA QueuedTyped == TypeOK => Queued \subseteq Request
BY ElementOfSeq DEF TypeOK, Queued

-----------------------------------------------------------------------------
(* The inductive invariant *)

LEMMA PolicyInit == Init => PolicyInv
<1> SUFFICES ASSUME Init PROVE PolicyInv
  OBVIOUS
<1>1. DefaultPolicy \in Policy
  BY DEF DefaultPolicy, Policy, TrackRecord, States
<1>2. Idle \in Busy
  BY DEF Idle, Busy
<1>3. TypeOK
  <2>1. policy \in Policy /\ file \in Policy /\ busy \in Busy
    BY <1>1, <1>2 DEF Init
  <2>2. queue \in Seq(Request)
    BY DEF Init
  <2>3. /\ gates \subseteq Request /\ best \in [Tracks -> Best]
        /\ audited \subseteq Nat /\ loadedRev \in Nat
        /\ restarts \in Nat /\ corruptions \in Nat
    BY DEF Init
  <2>4. fileOk \in BOOLEAN /\ locked \in BOOLEAN /\ auditHealthy \in BOOLEAN
    BY DEF Init
  <2>5. QED
    BY <2>1, <2>2, <2>3, <2>4 DEF TypeOK
<1>4. Pending = {}
  BY DEF Init, Pending, Queued
<1>5. EnforcedApproved
  <2>1. \A t \in Tracks : DefaultPolicy.tracks[t].state = "shadow"
    BY DEF DefaultPolicy
  <2>2. QED
    BY <2>1 DEF Init, EnforcedApproved
<1>6. busy.at = "idle"
  BY DEF Init, Idle
<1>7. QED
  BY <1>3, <1>4, <1>5, <1>6 DEF Init, PolicyInv

(* A route or a gate adds at most one request and leaves the store alone. *)
LEMMA RequestsKeepInv ==
  ASSUME PolicyInv, NEW r \in Request, Sound(r), locked => Modest(r),
         UNCHANGED <<storeVars, busy, best, auditVars, history>>,
         gates' \subseteq Request, queue' \in Seq(Request),
         \A g \in gates' : g.kind = "set" /\ g.target = "enforced",
         Pending' \subseteq Pending \cup {r}
  PROVE  PolicyInv'
<1>1. TypeOK'
  BY DEF PolicyInv, TypeOK, storeVars, auditVars, history
<1>2. \A q \in Pending' : Sound(q)'
  <2>1. \A q \in Pending \cup {r} : Sound(q)
    BY DEF PolicyInv
  <2>2. QED
    BY <2>1 DEF Sound, Overridden, storeVars
<1>3. EnforcedApproved'
  BY DEF PolicyInv, EnforcedApproved, storeVars
<1>4. locked' => \A q \in Pending' : Modest(q)'
  BY DEF PolicyInv, Modest, storeVars
<1>5. QED
  BY <1>1, <1>2, <1>3, <1>4 DEF PolicyInv, storeVars, AllDown

LEMMA AskKeepsInv ==
  ASSUME PolicyInv, Ask
  PROVE  PolicyInv'
<1>1. PICK c \in Clients, t \in Tracks :
        \/ \E s \in States : AskState(c, t, s)
        \/ AskEnforced(c, t)
        \/ \E kind \in {"approve", "revoke"} : AskApproval(c, t, kind)
        \/ \E m \in Models, kind \in {"override", "clear"} : AskOverride(c, t, m, kind)
  BY DEF Ask
<1>2. TypeOK
  BY DEF PolicyInv
<1>3. ASSUME NEW r \in Request, Enqueue(r), UNCHANGED gates, Sound(r),
             locked => Modest(r)
      PROVE  PolicyInv'
  <2>1. queue' \in Seq(Request) /\ Queued' \subseteq Queued \cup {r}
    BY <1>2, <1>3, EnqueueAdds
  <2>2. UNCHANGED <<storeVars, busy, best, auditVars, history>>
    BY <1>3 DEF Enqueue
  <2>3. Pending' \subseteq Pending \cup {r}
    BY <1>3, <2>1 DEF Pending
  <2>4. gates' \subseteq Request /\ \A g \in gates' : g.kind = "set" /\ g.target = "enforced"
    BY <1>3 DEF PolicyInv, TypeOK
  <2>5. QED
    BY <1>3, <2>1, <2>2, <2>3, <2>4, RequestsKeepInv
<1>4. ASSUME NEW s \in States, AskState(c, t, s)
      PROVE  PolicyInv'
  <2> DEFINE r == [Simple(c, "set", t) EXCEPT !.target = s]
  <2>1. r \in Request /\ r.kind = "set" /\ r.target = s
    BY DEF Simple, Request, Kinds, States
  <2>2. Enqueue(r) /\ UNCHANGED gates /\ s # "enforced" /\ Unlocked(s)
    BY <1>4 DEF AskState
  <2>3. Sound(r)
    BY <2>1, <2>2 DEF Sound
  <2>4. locked => Modest(r)
    BY <2>1, <2>2 DEF Modest, Unlocked
  <2>5. QED
    BY <2>1, <2>2, <2>3, <2>4, <1>3
<1>5. ASSUME AskEnforced(c, t)
      PROVE  PolicyInv'
  <2> DEFINE r == [Simple(c, "set", t) EXCEPT !.target = "enforced",
                     !.model = best[t].model, !.rev = policy.rev,
                     !.approved = Approved(t)]
  <2>1. /\ best[t].model \in Models \cup {NoModel} /\ policy.rev \in Nat
        /\ Approved(t) \in BOOLEAN
    BY <1>2 DEF TypeOK, Best, Policy, TrackRecord, Approved
  <2>2. /\ r.kind = "set" /\ r.target = "enforced" /\ r.track = t
        /\ r.model = best[t].model /\ r.rev = policy.rev /\ r.approved = Approved(t)
    BY DEF Simple
  <2>3. r \in Request
    BY <2>1 DEF Simple, Request, Kinds, States
  <2>4. gates' = gates \cup {r} /\ ~locked
    BY <1>5 DEF AskEnforced, Unlocked
  <2>5. Sound(r)
    BY <1>5, <2>1, <2>2 DEF AskEnforced, Sound
  <2>6. UNCHANGED <<storeVars, queue, busy, best, auditVars, history>>
    BY <1>5 DEF AskEnforced
  <2>7. gates' \subseteq Request /\ \A g \in gates' : g.kind = "set" /\ g.target = "enforced"
    BY <1>2, <2>2, <2>3, <2>4 DEF PolicyInv, TypeOK
  <2>8. queue' \in Seq(Request)
    BY <1>2, <2>6 DEF TypeOK
  <2>9. Pending' \subseteq Pending \cup {r}
    BY <2>4, <2>6 DEF Pending, Queued
  <2>10. QED
    BY <2>3, <2>4, <2>5, <2>6, <2>7, <2>8, <2>9, RequestsKeepInv
<1>6. ASSUME NEW kind \in {"approve", "revoke"}, AskApproval(c, t, kind)
      PROVE  PolicyInv'
  <2>1. Simple(c, kind, t) \in Request /\ Simple(c, kind, t).kind = kind
    BY DEF Simple, Request, Kinds, States
  <2>2. Sound(Simple(c, kind, t)) /\ Modest(Simple(c, kind, t))
    BY <2>1 DEF Sound, Modest
  <2>3. QED
    BY <1>6, <2>1, <2>2, <1>3 DEF AskApproval
<1>7. ASSUME NEW m \in Models, NEW kind \in {"override", "clear"},
             AskOverride(c, t, m, kind)
      PROVE  PolicyInv'
  <2> DEFINE r == [Simple(c, kind, t) EXCEPT !.model = m]
  <2>1. r \in Request /\ r.kind = kind /\ r.model = m
    BY DEF Simple, Request, Kinds, States
  <2>2. Sound(r) /\ Modest(r)
    BY <2>1 DEF Sound, Modest
  <2>3. Enqueue(r) /\ UNCHANGED gates
    BY <1>7 DEF AskOverride
  <2>4. QED
    BY <2>1, <2>2, <2>3, <1>3
<1>8. QED
  BY <1>1, <1>4, <1>5, <1>6, <1>7

LEMMA SettleKeepsInv ==
  ASSUME PolicyInv, NEW r \in gates, Settle(r)
  PROVE  PolicyInv'
<1>1. TypeOK /\ r \in Request /\ Sound(r) /\ (locked => Modest(r))
  BY DEF PolicyInv, TypeOK, Pending
<1>2. gates' = gates \ {r} /\ UNCHANGED <<storeVars, busy, best, auditVars, history>>
  BY DEF Settle, GatePasses, GateFails, Enqueue
<1>3. queue' \in Seq(Request) /\ Queued' \subseteq Queued \cup {r}
  <2>1. CASE GatePasses(r)
    BY <2>1, <1>1, EnqueueAdds DEF GatePasses
  <2>2. CASE GateFails(r)
    BY <2>2, <1>1 DEF GateFails, TypeOK, Queued
  <2>3. QED
    BY <2>1, <2>2 DEF Settle
<1>4. Pending' \subseteq Pending \cup {r}
  BY <1>2, <1>3 DEF Pending
<1>5. gates' \subseteq Request /\ \A g \in gates' : g.kind = "set" /\ g.target = "enforced"
  BY <1>1, <1>2 DEF PolicyInv, TypeOK
<1>6. QED
  BY <1>1, <1>2, <1>3, <1>4, <1>5, RequestsKeepInv

(* A mutation that leaves memory as it is keeps every pending request      *)
(* sound.                                                                  *)
LEMMA TakenKeepsPending ==
  ASSUME PolicyInv, NEW r, Taken(r), UNCHANGED <<policy, locked>>
  PROVE  /\ Pending' \subseteq Pending
         /\ \A q \in Pending' : Sound(q)'
         /\ locked' => \A q \in Pending' : Modest(q)'
<1>1. TypeOK /\ gates' = gates
  BY DEF PolicyInv, Taken
<1>2. Pending' \subseteq Pending
  BY <1>1, TakenRemoves DEF Pending
<1>3. \A q \in Pending' : Sound(q)'
  BY <1>2 DEF PolicyInv, Sound, Overridden
<1>4. QED
  BY <1>2, <1>3 DEF PolicyInv, Modest

LEMMA TakeNextKeepsInv ==
  ASSUME PolicyInv, TakeNext
  PROVE  PolicyInv'
<1> DEFINE r == Head(queue)
<1>1. Refuse(r) \/ WriteFails(r) \/ Write(r)
  BY DEF TakeNext
<1>2. /\ Taken(r) /\ TypeOK /\ UNCHANGED <<policy, locked>>
      /\ busy.at = "idle"
      /\ UNCHANGED <<gates, best, auditVars, history>>
  BY <1>1 DEF Refuse, WriteFails, Write, Taken, PolicyInv, storeVars
<1> HIDE DEF r
<1>3. r \in Request /\ queue' \in Seq(Request) /\ r \in Pending
  BY <1>2, TakenRemoves DEF Pending
<1>4. /\ \A q \in Pending' : Sound(q)'
      /\ locked' => \A q \in Pending' : Modest(q)'
  BY <1>2, TakenKeepsPending
<1>5. \A g \in gates' : g.kind = "set" /\ g.target = "enforced"
  BY <1>2 DEF PolicyInv
<1>6. CASE Refuse(r) \/ WriteFails(r)
  <2>1. UNCHANGED storeVars /\ busy'.at # "written" /\ busy' \in Busy
    <3>1. Auditing(r.client, FALSE) \in Busy
      BY <1>3 DEF Auditing, Busy, Request
    <3>2. CASE Refuse(r)
      BY <3>1, <3>2 DEF Refuse, Auditing
    <3>3. CASE WriteFails(r)
      BY <3>3, <1>2 DEF WriteFails, TypeOK
    <3>4. QED
      BY <3>2, <3>3, <1>6
  <2>2. TypeOK'
    BY <2>1, <1>2, <1>3 DEF TypeOK, storeVars, auditVars, history
  <2>3. EnforcedApproved'
    BY <2>1 DEF PolicyInv, EnforcedApproved, storeVars
  <2>4. QED
    BY <2>1, <2>2, <2>3, <1>2, <1>4, <1>5 DEF PolicyInv, storeVars, AllDown
<1>7. CASE Write(r)
  <2>1. /\ Accepted(policy, r) /\ file' = Mutated(policy, r) /\ fileOk' = TRUE
        /\ busy' = [at |-> "written", client |-> r.client, success |-> TRUE]
    BY <1>7 DEF Write
  <2>2. file' \in Policy /\ file'.rev = policy.rev + 1
    BY <2>1, <1>2, <1>3, MutatedTyped DEF PolicyInv, TypeOK, Sound
  <2>3. busy' \in Busy /\ busy'.at = "written"
    BY <2>1, <1>3 DEF Busy, Request
  <2>4. TypeOK'
    <3>1. fileOk' \in BOOLEAN /\ locked' \in BOOLEAN /\ auditHealthy' \in BOOLEAN
      BY <2>1, <1>2 DEF TypeOK, auditVars
    <3>2. QED
      BY <3>1, <2>2, <2>3, <1>2, <1>3 DEF TypeOK, auditVars, history
  <2>5. ApprovedWhereEnforced(policy) /\ ApprovedWhereEnforced(Mutated(policy, r))
    <3>1. ApprovedWhereEnforced(policy)
      BY DEF PolicyInv, EnforcedApproved, ApprovedWhereEnforced
    <3>2. r.kind = "set" /\ r.target = "enforced" => r.approved
      BY <1>3 DEF PolicyInv, Sound
    <3>3. QED
      BY <3>1, <3>2, <2>1, <1>2, <1>3, MutatedApproved DEF TypeOK
  <2>6. EnforcedApproved'
    BY <2>5, <2>1, <1>2 DEF EnforcedApproved, ApprovedWhereEnforced
  <2>7. locked => AllDown(policy) /\ AllDown(Mutated(policy, r))
    BY <1>2, <1>3, MutatedDown DEF PolicyInv, TypeOK
  <2>8. QED
    BY <2>1, <2>2, <2>3, <2>4, <2>6, <2>7, <1>2, <1>4, <1>5 DEF PolicyInv, AllDown
<1>8. QED
  BY <1>1, <1>6, <1>7

LEMMA PublishKeepsInv ==
  ASSUME PolicyInv, Publish
  PROVE  PolicyInv'
<1>1. /\ policy' = file /\ file.rev = policy.rev + 1
      /\ UNCHANGED <<file, fileOk, locked, queue, gates, best, auditVars, history>>
      /\ busy' = Auditing(busy.client, TRUE) /\ busy.at = "written"
  BY DEF Publish, PolicyInv
<1>2. busy' \in Busy /\ busy'.at = "auditing"
  BY <1>1 DEF PolicyInv, TypeOK, Busy, Auditing
<1>3. TypeOK'
  BY <1>1, <1>2 DEF PolicyInv, TypeOK, auditVars, history
<1>4. Pending' = Pending
  BY <1>1 DEF Pending, Queued
<1>5. \A r \in Pending' : Sound(r)'
  <2>1. policy.rev \in Nat /\ Pending \subseteq Request
    BY QueuedTyped DEF PolicyInv, TypeOK, Policy, Pending
  <2>2. SUFFICES ASSUME NEW r \in Pending
                 PROVE  Sound(r)'
    BY <1>4
  <2>3. r.rev \in Nat
    BY <2>1 DEF Request
  <2>4. Sound(r)
    BY DEF PolicyInv
  <2>5. r.kind = "set" /\ r.target = "enforced" => r.approved /\ r.rev <= policy.rev
    BY <2>4 DEF Sound
  <2>6. r.rev <= policy.rev => r.rev <= policy'.rev /\ r.rev # policy'.rev
    BY <1>1, <2>1, <2>3
  <2>7. QED
    BY <2>4, <2>5, <2>6 DEF Sound
<1>6. EnforcedApproved'
  BY <1>1 DEF PolicyInv, EnforcedApproved
<1>7. QED
  BY <1>1, <1>2, <1>3, <1>4, <1>5, <1>6 DEF PolicyInv, AllDown, Modest

LEMMA AuditKeepsInv ==
  ASSUME PolicyInv, NEW written \in BOOLEAN, AuditEnds(written)
  PROVE  PolicyInv'
<1>1. UNCHANGED <<storeVars, queue, gates, best, loadedRev, history>> /\ busy' = Idle
  BY DEF AuditEnds
<1>2. TypeOK'
  <2>1. busy' \in Busy
    BY <1>1 DEF Idle, Busy
  <2>2. audited' \subseteq Nat
    BY DEF AuditEnds, PolicyInv, TypeOK, Policy
  <2>3. auditHealthy' \in BOOLEAN
    BY DEF AuditEnds, HealthAfter
  <2>4. QED
    BY <1>1, <2>1, <2>2, <2>3 DEF PolicyInv, TypeOK, storeVars, history
<1>3. Pending' = Pending
  BY <1>1 DEF Pending, Queued
<1>4. \A r \in Pending' : Sound(r)'
  BY <1>1, <1>3 DEF PolicyInv, Sound, Overridden, storeVars
<1>5. EnforcedApproved' /\ busy'.at = "idle" /\ busy.at # "written"
  BY <1>1 DEF PolicyInv, EnforcedApproved, storeVars, Idle, AuditEnds
<1>6. QED
  BY <1>1, <1>2, <1>3, <1>4, <1>5 DEF PolicyInv, AllDown, Modest, storeVars

(* The registry and the file's damage concern no request. *)
LEMMA SurroundingsKeepInv ==
  ASSUME PolicyInv,
         \/ \E t \in Tracks, b \in Best : RegistryChanges(t, b)
         \/ FileDamaged
         \/ UNCHANGED vars
  PROVE  PolicyInv'
<1>1. UNCHANGED <<policy, file, locked, queue, busy, gates, auditVars, restarts>>
  BY DEF RegistryChanges, FileDamaged, vars, storeVars, auditVars, history
<1>2. best' \in [Tracks -> Best]
  BY DEF RegistryChanges, FileDamaged, vars, PolicyInv, TypeOK
<1>3. fileOk' \in BOOLEAN /\ (~fileOk => ~fileOk') /\ corruptions' \in Nat
  <2>1. CASE \E t \in Tracks, b \in Best : RegistryChanges(t, b)
    BY <2>1 DEF RegistryChanges, PolicyInv, TypeOK, storeVars, history
  <2>2. CASE FileDamaged
    <3>1. fileOk' = FALSE /\ corruptions' = corruptions + 1
      BY <2>2 DEF FileDamaged
    <3>2. corruptions \in Nat
      BY DEF PolicyInv, TypeOK
    <3>3. corruptions' \in Nat
      BY <3>1, <3>2
    <3>4. QED
      BY <3>1, <3>3
  <2>3. CASE UNCHANGED vars
    <3>1. fileOk' = fileOk /\ corruptions' = corruptions
      BY <2>3 DEF vars
    <3>2. fileOk \in BOOLEAN /\ corruptions \in Nat
      BY DEF PolicyInv, TypeOK
    <3>3. QED
      BY <3>1, <3>2
  <2>4. QED
    BY <2>1, <2>2, <2>3
<1>4. TypeOK'
  BY <1>1, <1>2, <1>3 DEF PolicyInv, TypeOK, auditVars
<1>5. Pending' = Pending
  BY <1>1 DEF Pending, Queued
<1>6. \A r \in Pending' : Sound(r)'
  BY <1>1, <1>5 DEF PolicyInv, Sound, Overridden
<1>7. EnforcedApproved'
  BY <1>1 DEF PolicyInv, EnforcedApproved
<1>8. QED
  BY <1>1, <1>3, <1>4, <1>5, <1>6, <1>7 DEF PolicyInv, AllDown, Modest

LEMMA RestartKeepsInv ==
  ASSUME PolicyInv, Restart
  PROVE  PolicyInv'
<1>1. /\ policy' = (IF fileOk THEN file ELSE DefaultPolicy) /\ locked' = ~fileOk
      /\ queue' = <<>> /\ gates' = {} /\ busy' = Idle
      /\ UNCHANGED <<file, fileOk, best, corruptions>>
  BY DEF Restart
<1>2. DefaultPolicy \in Policy /\ AllDown(DefaultPolicy)
      /\ ApprovedWhereEnforced(DefaultPolicy)
  <2>1. DefaultPolicy \in Policy
    BY DEF DefaultPolicy, Policy, TrackRecord, States
  <2>2. \A t \in Tracks : DefaultPolicy.tracks[t].state = "shadow"
    BY DEF DefaultPolicy
  <2>3. QED
    BY <2>1, <2>2 DEF AllDown, ApprovedWhereEnforced
<1>3. TypeOK'
  <2>1. busy' \in Busy /\ queue' \in Seq(Request) /\ gates' \subseteq Request
    BY <1>1 DEF Idle, Busy
  <2>2. policy' \in Policy /\ file' \in Policy
    BY <1>1, <1>2 DEF PolicyInv, TypeOK
  <2>3. fileOk' \in BOOLEAN /\ locked' \in BOOLEAN /\ auditHealthy' \in BOOLEAN
    BY <1>1 DEF PolicyInv, TypeOK, Restart
  <2>4. /\ best' \in [Tracks -> Best] /\ audited' \subseteq Nat
        /\ loadedRev' \in Nat /\ restarts' \in Nat /\ corruptions' \in Nat
    BY <1>1 DEF PolicyInv, TypeOK, Restart, Policy
  <2>5. QED
    BY <2>1, <2>2, <2>3, <2>4 DEF TypeOK
<1>4. Pending' = {} /\ busy'.at = "idle"
  BY <1>1 DEF Pending, Queued, Idle
<1>5. EnforcedApproved'
  <2>1. ApprovedWhereEnforced(file)
    BY DEF PolicyInv, EnforcedApproved, ApprovedWhereEnforced
  <2>2. QED
    BY <1>1, <1>2, <2>1 DEF EnforcedApproved, ApprovedWhereEnforced
<1>6. locked' => AllDown(policy)'
  BY <1>1, <1>2 DEF AllDown
<1>7. QED
  BY <1>1, <1>3, <1>4, <1>5, <1>6 DEF PolicyInv

(* Every step keeps the inductive invariant. *)
LEMMA PolicyStepKeepsInv == PolicyInv /\ [Next]_vars => PolicyInv'
<1> SUFFICES ASSUME PolicyInv, [Next]_vars PROVE PolicyInv'
  OBVIOUS
<1>1. CASE Ask
  BY <1>1, AskKeepsInv
<1>2. ASSUME NEW r \in gates, Settle(r) PROVE PolicyInv'
  BY <1>2, SettleKeepsInv
<1>3. CASE TakeNext
  BY <1>3, TakeNextKeepsInv
<1>4. CASE Publish
  BY <1>4, PublishKeepsInv
<1>5. CASE AuditStep
  BY <1>5, AuditKeepsInv DEF AuditStep
<1>6. CASE \/ \E t \in Tracks, b \in Best : RegistryChanges(t, b)
           \/ FileDamaged
           \/ UNCHANGED vars
  BY <1>6, SurroundingsKeepInv
<1>7. CASE Restart
  BY <1>7, RestartKeepsInv
<1>8. QED
  BY <1>1, <1>2, <1>3, <1>4, <1>5, <1>6, <1>7 DEF Next

(* The inductive invariant holds in every reachable state. *)
THEOREM PolicyInvariant == Spec => []PolicyInv
<1>1. Init => PolicyInv
  BY PolicyInit
<1>2. PolicyInv /\ [Next]_vars => PolicyInv'
  BY PolicyStepKeepsInv
<1>3. QED
  BY <1>1, <1>2, PTL DEF Spec

(* Every variable keeps its type. *)
THEOREM TypeCorrect == Spec => []TypeOK
<1>1. PolicyInv => TypeOK
  BY DEF PolicyInv
<1>2. QED
  BY <1>1, PolicyInvariant, PTL

(* No track is enforced without an approval, neither in memory nor in the  *)
(* file: setEnforcementState and revokeApproval, whatever was queued.      *)
THEOREM ApprovalRequired == Spec => []EnforcedApproved
<1>1. PolicyInv => EnforcedApproved
  BY DEF PolicyInv
<1>2. QED
  BY <1>1, PolicyInvariant, PTL

(* A process that could not read its policy keeps every track out of       *)
(* enforcement: enforcementLocked in initialize and in the transitions.    *)
THEOREM StaysDown == Spec => []DegradedStaysDown
<1>1. PolicyInv => DegradedStaysDown
  BY DEF PolicyInv, DegradedStaysDown, AllDown, StateOf
<1>2. QED
  BY <1>1, PolicyInvariant, PTL

(* Memory and file agree between two mutations: atomicWrite before         *)
(* policy = candidate.                                                     *)
THEOREM Durable == Spec => []ServedIsDurable
<1>1. PolicyInv => ServedIsDurable
  BY DEF PolicyInv, ServedIsDurable
<1>2. QED
  BY <1>1, PolicyInvariant, PTL

(* The commit that enforces a track finds everything its gate saw still    *)
(* true: the comparison of the gate token in setEnforcementState.          *)
THEOREM EnforcedOnFreshEvidence == Spec => EnforceSound
<1> DEFINE Fresh(t) == /\ StateOf(t) = "eligible"
                       /\ Approved(t)
                       /\ best[t].model # NoModel /\ best[t].enough
                       /\ ~Overridden(t, best[t].model)
           Enforces(t) == /\ file'.tracks[t].state = "enforced"
                          /\ file.tracks[t].state # "enforced"
<1>1. ASSUME PolicyInv, Next, NEW t \in Tracks, Enforces(t)
      PROVE  Fresh(t)
  <2>1. PICK r : Write(r)
    <3>1. file' # file
      BY <1>1
    <3>2. CASE Ask
      BY <3>1, <3>2
         DEF Ask, AskState, AskEnforced, AskApproval, AskOverride, Enqueue, storeVars
    <3>3. CASE \E r \in gates : Settle(r)
      BY <3>1, <3>3 DEF Settle, GatePasses, GateFails, Enqueue, storeVars
    <3>4. CASE TakeNext
      BY <3>1, <3>4 DEF TakeNext, Refuse, WriteFails, storeVars
    <3>5. CASE Publish \/ AuditStep
      BY <3>1, <3>5 DEF Publish, AuditStep, AuditEnds, storeVars
    <3>6. CASE \/ \E u \in Tracks, b \in Best : RegistryChanges(u, b)
               \/ FileDamaged
               \/ Restart
      BY <3>1, <3>6 DEF RegistryChanges, FileDamaged, Restart, storeVars
    <3>7. QED
      BY <1>1, <3>2, <3>3, <3>4, <3>5, <3>6 DEF Next
  <2>2. /\ Taken(r) /\ Accepted(policy, r) /\ file' = Mutated(policy, r)
        /\ TypeOK /\ busy.at = "idle"
    BY <1>1, <2>1 DEF Write, Taken, PolicyInv
  <2>3. r \in Request /\ r \in Pending /\ Sound(r) /\ (locked => Modest(r))
    BY <1>1, <2>2, TakenRemoves DEF PolicyInv, Pending
  <2>4. policy \in Policy /\ best \in [Tracks -> Best]
    BY <2>2 DEF TypeOK
  <2>5. policy.tracks[t].state # "enforced"
    <3>1. CASE locked
      BY <1>1, <3>1 DEF PolicyInv, AllDown
    <3>2. CASE ~locked
      BY <1>1, <2>2, <3>2 DEF PolicyInv
    <3>3. QED
      BY <3>1, <3>2
  <2>6. r.kind = "set" /\ r.target = "enforced" /\ r.track = t
    <3>1. Mutated(policy, r).tracks[t].state = "enforced"
      BY <1>1, <2>2
    <3>2. r.kind # "approve"
      BY <3>1, <2>3, <2>4, <2>5
         DEF Mutated, ApprovedIn, WithTrack, Policy, Request, TrackRecord
    <3>3. r.kind # "revoke"
      <4>1. FallBack(policy.tracks[r.track].state) # "enforced"
        BY <2>3, <2>4 DEF FallBack, States, Policy, Request, TrackRecord
      <4>2. QED
        BY <3>1, <2>3, <2>4, <2>5, <4>1
           DEF Mutated, RevokedIn, WithTrack, Policy, Request, TrackRecord
    <3>4. r.kind # "override" /\ r.kind # "clear"
      BY <3>1, <2>4, <2>5 DEF Mutated, Policy
    <3>5. r.kind = "set"
      BY <3>2, <3>3, <3>4, <2>3 DEF Request, Kinds
    <3>6. Mutated(policy, r).tracks =
            [policy.tracks EXCEPT ![r.track] =
               [policy.tracks[r.track] EXCEPT !.known = TRUE, !.state = r.target]]
      BY <3>5, <2>4 DEF Mutated, SetTo, WithTrack, Policy
    <3>7. r.track = t
      BY <3>1, <3>6, <2>4, <2>5 DEF Policy
    <3>8. policy.tracks[t] \in TrackRecord
      BY <2>4 DEF Policy
    <3>9. r.target = "enforced"
      BY <3>1, <3>6, <3>7, <3>8, <2>4 DEF Policy, TrackRecord
    <3>10. QED
      BY <3>5, <3>7, <3>9
  <2>7. TokenHolds(policy, r)
    BY <2>2, <2>6 DEF Accepted
  <2>8. /\ StateOf(t) = "eligible" /\ Approved(t) = r.approved /\ r.approved
        /\ best[t].model = r.model /\ best[t].enough /\ r.rev = policy.rev
    BY <2>3, <2>6, <2>7 DEF TokenHolds, Sound, StateOf, Approved
  <2>9. ~Overridden(t, best[t].model)
    BY <2>3, <2>6, <2>8 DEF Sound
  <2>10. best[t].model # NoModel
    <3>1. best[t] \in Best
      BY <2>4
    <3>2. best[t] # [model |-> NoModel, enough |-> FALSE]
      BY <2>8
    <3>3. best[t] \in [model: Models, enough: BOOLEAN]
      BY <3>1, <3>2 DEF Best
    <3>4. QED
      BY <3>3, PolicyConstants
  <2>11. QED
    BY <2>8, <2>9, <2>10
<1>2. ASSUME PolicyInv, [Next]_vars
      PROVE  [\A t \in Tracks : Enforces(t) => Fresh(t)]_vars
  BY <1>1, <1>2
<1>3. QED
  BY <1>2, PolicyInvariant, PTL DEF Spec, EnforceSound

-----------------------------------------------------------------------------
(* The audit trail *)

AuditInv ==
  /\ AuditComplete
  /\ loadedRev <= policy.rev
  /\ busy.at = "written" => busy.success
  /\ busy.at = "auditing" /\ busy.success => loadedRev < policy.rev

LEMMA AuditInit == Init => AuditInv
<1> SUFFICES ASSUME Init PROVE AuditInv
  OBVIOUS
<1>1. policy.rev = 0 /\ loadedRev = 0 /\ audited = {} /\ busy.at = "idle"
  BY DEF Init, DefaultPolicy, Idle
<1>2. (0 + 1)..0 = {}
  OBVIOUS
<1>3. AuditComplete
  BY <1>1, <1>2 DEF AuditComplete
<1>4. QED
  BY <1>1, <1>3 DEF AuditInv

LEMMA AuditStepKeepsInv ==
  ASSUME PolicyInv, AuditInv, [Next]_vars
  PROVE  AuditInv'
<1>1. /\ policy.rev \in Nat /\ loadedRev \in Nat /\ audited \subseteq Nat
      /\ auditHealthy \in BOOLEAN /\ busy \in Busy /\ TypeOK
  BY DEF PolicyInv, TypeOK, Policy
<1>2. ASSUME UNCHANGED <<policy, busy, auditHealthy, audited, loadedRev>>
      PROVE  AuditInv'
  BY <1>2 DEF AuditInv, AuditComplete
<1>3. CASE Ask
  BY <1>2, <1>3
     DEF Ask, AskState, AskEnforced, AskApproval, AskOverride, Enqueue, storeVars, auditVars
<1>4. CASE \E r \in gates : Settle(r)
  BY <1>2, <1>4 DEF Settle, GatePasses, GateFails, Enqueue, storeVars, auditVars
<1>5. CASE TakeNext
  <2> DEFINE r == Head(queue)
  <2>1. /\ UNCHANGED <<policy, auditVars>> /\ busy.at = "idle"
        /\ \/ busy' = Auditing(r.client, FALSE)
           \/ busy' = busy
           \/ busy' = [at |-> "written", client |-> r.client, success |-> TRUE]
    BY <1>5 DEF TakeNext, Refuse, WriteFails, Write, Taken, storeVars
  <2> HIDE DEF r
  <2>2. /\ busy'.at # "auditing" \/ busy'.success = FALSE
        /\ busy'.at = "written" => busy'.success = TRUE
    BY <2>1 DEF Auditing
  <2>3. QED
    BY <2>1, <2>2 DEF AuditInv, AuditComplete, auditVars
<1>6. CASE Publish
  <2>1. /\ policy' = file /\ busy' = Auditing(busy.client, TRUE)
        /\ UNCHANGED auditVars /\ file.rev = policy.rev + 1 /\ busy.at = "written"
    BY <1>6 DEF Publish, PolicyInv
  <2>2. busy'.at = "auditing" /\ busy'.success = TRUE /\ policy'.rev = policy.rev + 1
    BY <2>1 DEF Auditing
  <2>3. ((loadedRev + 1)..policy'.rev) \ {policy'.rev} = (loadedRev + 1)..policy.rev
    BY <1>1, <2>2
  <2>4. auditHealthy => audited = (loadedRev + 1)..policy.rev
    BY <2>1 DEF AuditInv, AuditComplete
  <2>5. AuditComplete'
    BY <2>1, <2>2, <2>3, <2>4 DEF AuditComplete, auditVars
  <2>6. loadedRev <= policy'.rev /\ loadedRev < policy'.rev
    BY <1>1, <2>2 DEF AuditInv
  <2>7. QED
    BY <2>1, <2>2, <2>5, <2>6 DEF AuditInv, auditVars
<1>7. ASSUME NEW written \in BOOLEAN, AuditEnds(written)
      PROVE  AuditInv'
  <2>1. /\ busy.at = "auditing" /\ busy' = Idle /\ loadedRev' = loadedRev
        /\ policy' = policy /\ busy'.at = "idle"
        /\ auditHealthy' = (auditHealthy /\ written)
        /\ audited' = IF written /\ busy.success THEN audited \cup {policy.rev}
                                                  ELSE audited
    BY <1>7 DEF AuditEnds, HealthAfter, Idle, storeVars
  <2>2. CASE busy.success
    <3>1. loadedRev < policy.rev
      BY <2>1, <2>2 DEF AuditInv
    <3>2. (((loadedRev + 1)..policy.rev) \ {policy.rev}) \cup {policy.rev}
            = (loadedRev + 1)..policy.rev
      BY <1>1, <3>1
    <3>3. auditHealthy => audited = ((loadedRev + 1)..policy.rev) \ {policy.rev}
      BY <2>1, <2>2 DEF AuditInv, AuditComplete
    <3>4. AuditComplete'
      BY <2>1, <2>2, <3>2, <3>3 DEF AuditComplete
    <3>5. QED
      BY <2>1, <3>4 DEF AuditInv
  <2>3. CASE ~busy.success
    BY <2>1, <2>3 DEF AuditInv, AuditComplete
  <2>4. QED
    BY <2>2, <2>3
<1>8. CASE \/ \E t \in Tracks, b \in Best : RegistryChanges(t, b)
           \/ FileDamaged
           \/ UNCHANGED vars
  BY <1>2, <1>8 DEF RegistryChanges, FileDamaged, vars, storeVars, auditVars
<1>9. CASE Restart
  <2>1. /\ busy' = Idle /\ audited' = {} /\ loadedRev' = policy'.rev
        /\ busy'.at = "idle"
    BY <1>9 DEF Restart, DefaultPolicy, Idle
  <2>2. policy'.rev \in Nat
    BY <1>9 DEF Restart, DefaultPolicy, PolicyInv, TypeOK, Policy
  <2>3. (loadedRev' + 1)..policy'.rev = {}
    BY <2>1, <2>2
  <2>4. AuditComplete'
    BY <2>1, <2>3 DEF AuditComplete
  <2>5. QED
    BY <2>1, <2>2, <2>4 DEF AuditInv
<1>10. QED
  BY <1>3, <1>4, <1>5, <1>6, <1>7, <1>8, <1>9 DEF Next, AuditStep

(* While the audit is healthy no committed revision lacks its event:       *)
(* executeMutation awaits the append before it takes the next mutation.    *)
THEOREM AuditTrailComplete == Spec => []AuditComplete
<1>1. PolicyInv /\ AuditInv /\ [Next]_vars => AuditInv'
  BY AuditStepKeepsInv
<1>2. AuditInv => AuditComplete
  BY DEF AuditInv
<1>3. QED
  BY <1>1, <1>2, AuditInit, PolicyInvariant, PTL DEF Spec

-----------------------------------------------------------------------------
(* The promised lifecycle of a track *)

MayCommit(r) ==
  r.kind = "set" /\ r.target = "enforced" =>
    StateOf(r.track) = "eligible" /\ Approved(r.track)

(* A written file holds the mutation of one request that memory allows. *)
WrittenInv ==
  busy.at = "written" =>
    \E r \in Request : MayCommit(r) /\ file = Mutated(policy, r)

LEMMA WrittenStepKeepsInv ==
  ASSUME PolicyInv, WrittenInv, [Next]_vars
  PROVE  WrittenInv'
<1>1. ASSUME busy'.at = "written" => UNCHANGED <<policy, file, busy>>
      PROVE  WrittenInv'
  BY <1>1 DEF WrittenInv, MayCommit, StateOf, Approved
<1>2. CASE Ask
  BY <1>1, <1>2
     DEF Ask, AskState, AskEnforced, AskApproval, AskOverride, Enqueue, storeVars
<1>3. CASE \E r \in gates : Settle(r)
  BY <1>1, <1>3 DEF Settle, GatePasses, GateFails, Enqueue, storeVars
<1>4. CASE TakeNext
  <2>1. PICK r : Refuse(r) \/ WriteFails(r) \/ Write(r)
    BY <1>4 DEF TakeNext
  <2>2. CASE Refuse(r)
    BY <1>1, <2>2 DEF Refuse, Auditing
  <2>3. CASE WriteFails(r)
    BY <1>1, <2>3 DEF WriteFails, storeVars
  <2>4. CASE Write(r)
    <3>1. /\ r \in Request /\ Sound(r)
      BY <2>4, TakenRemoves DEF Write, PolicyInv, Pending
    <3>2. MayCommit(r)
      BY <2>4, <3>1 DEF Write, Accepted, TokenHolds, MayCommit, Sound, StateOf, Approved
    <3>3. policy' = policy /\ file' = Mutated(policy, r)
      BY <2>4 DEF Write
    <3>4. MayCommit(r)' /\ file' = Mutated(policy', r)
      BY <3>2, <3>3 DEF MayCommit, StateOf, Approved
    <3>5. QED
      BY <3>1, <3>3, <3>4 DEF WrittenInv
  <2>5. QED
    BY <2>1, <2>2, <2>3, <2>4
<1>5. CASE Publish
  BY <1>1, <1>5 DEF Publish, Auditing
<1>6. CASE AuditStep
  BY <1>1, <1>6 DEF AuditStep, AuditEnds, Idle
<1>7. CASE \/ \E t \in Tracks, b \in Best : RegistryChanges(t, b)
           \/ FileDamaged
           \/ UNCHANGED vars
  BY <1>1, <1>7 DEF RegistryChanges, FileDamaged, vars, storeVars
<1>8. CASE Restart
  BY <1>1, <1>8 DEF Restart, Idle
<1>9. QED
  BY <1>2, <1>3, <1>4, <1>5, <1>6, <1>7, <1>8 DEF Next

(* Publishing an allowed mutation is one step of the abstract lifecycle,   *)
(* or none when it concerns an override.                                   *)
LEMMA MutationIsPromised ==
  ASSUME TypeOK, NEW r \in Request, MayCommit(r), policy' = Mutated(policy, r)
  PROVE  Gate!Next \/ UNCHANGED Gate!vars
<1> DEFINE state == [t \in Tracks |-> StateOf(t)]
           approved == [t \in Tracks |-> Approved(t)]
           u == r.track
<1>1. /\ u \in Tracks /\ r.target \in States /\ policy.tracks \in [Tracks -> TrackRecord]
      /\ DOMAIN policy = {"rev", "tracks", "overrides"}
  BY DEF TypeOK, Policy, Request
<1> HIDE DEF u
<1>2. ASSUME NEW record \in TrackRecord,
             policy'.tracks = [policy.tracks EXCEPT ![u] = record]
      PROVE  /\ state' = [state EXCEPT ![u] = record.state]
             /\ approved' = [approved EXCEPT ![u] = record.approved]
  BY <1>1, <1>2 DEF StateOf, Approved, TrackRecord
<1>3. CASE r.kind = "set"
  <2> DEFINE record == [policy.tracks[u] EXCEPT !.known = TRUE, !.state = r.target]
  <2>1. /\ record \in TrackRecord /\ record.state = r.target
        /\ record.approved = policy.tracks[u].approved
    BY <1>1 DEF TrackRecord
  <2>2. policy'.tracks = [policy.tracks EXCEPT ![u] = record]
    BY <1>1, <1>3 DEF Mutated, SetTo, WithTrack, TypeOK, Policy, u
  <2> HIDE DEF record
  <2>3. state' = [state EXCEPT ![u] = r.target] /\ approved' = approved
    BY <1>1, <1>2, <2>1, <2>2 DEF Approved
  <2>4. CASE r.target = "enforced"
    <3>1. state[u] = "eligible" /\ approved[u]
      BY <1>1, <1>3, <2>4 DEF MayCommit, u
    <3>2. Gate!Enforce(u)
      BY <2>3, <2>4, <3>1 DEF Gate!Enforce
    <3>3. QED
      BY <1>1, <3>2 DEF Gate!Next
  <2>5. CASE r.target # "enforced"
    <3>1. Gate!Set(u, r.target) /\ r.target \in Gate!States
      BY <1>1, <2>3, <2>5 DEF Gate!Set, Gate!States, States
    <3>2. QED
      BY <1>1, <3>1 DEF Gate!Next
  <2>6. QED
    BY <2>4, <2>5
<1>4. CASE r.kind = "approve"
  <2> DEFINE record == [policy.tracks[u] EXCEPT !.known = TRUE, !.approved = TRUE]
  <2>1. /\ record \in TrackRecord /\ record.state = policy.tracks[u].state
        /\ record.approved = TRUE
    BY <1>1 DEF TrackRecord
  <2>2. policy'.tracks = [policy.tracks EXCEPT ![u] = record]
    BY <1>1, <1>4 DEF Mutated, ApprovedIn, WithTrack, TypeOK, Policy, u
  <2> HIDE DEF record
  <2>3. state' = state /\ approved' = [approved EXCEPT ![u] = TRUE]
    BY <1>1, <1>2, <2>1, <2>2, ZenonT(60) DEF StateOf
  <2>4. Gate!Approve(u)
    BY <2>3 DEF Gate!Approve
  <2>5. QED
    BY <1>1, <2>4 DEF Gate!Next
<1>5. CASE r.kind = "revoke"
  <2> DEFINE record == [policy.tracks[u] EXCEPT !.approved = FALSE, !.state = FallBack(@)]
  <2>1. FallBack(policy.tracks[u].state) \in States
    BY <1>1 DEF FallBack, States, TrackRecord
  <2>2. /\ record \in TrackRecord /\ record.state = FallBack(policy.tracks[u].state)
        /\ record.approved = FALSE
    BY <1>1, <2>1 DEF TrackRecord
  <2>3. policy'.tracks = [policy.tracks EXCEPT ![u] = record]
    BY <1>1, <1>5 DEF Mutated, RevokedIn, WithTrack, TypeOK, Policy, u
  <2> HIDE DEF record
  <2>4. /\ state' = [state EXCEPT ![u] = FallBack(state[u])]
        /\ approved' = [approved EXCEPT ![u] = FALSE]
    BY <1>1, <1>2, <2>2, <2>3 DEF StateOf
  <2>5. Gate!Revoke(u)
    BY <2>4 DEF Gate!Revoke, FallBack
  <2>6. QED
    BY <1>1, <2>5 DEF Gate!Next
<1>6. CASE r.kind \in {"override", "clear"}
  <2>1. policy'.tracks = policy.tracks
    BY <1>1, <1>6 DEF Mutated
  <2>2. QED
    BY <2>1 DEF Gate!vars, StateOf, Approved
<1>7. QED
  BY <1>3, <1>4, <1>5, <1>6 DEF Request, Kinds

LEMMA StepIsPromised ==
  ASSUME PolicyInv, WrittenInv, [Next]_vars
  PROVE  [Gate!Next]_(Gate!vars)
<1>1. ASSUME policy' = policy
      PROVE  UNCHANGED Gate!vars
  BY <1>1 DEF Gate!vars, StateOf, Approved
<1>2. CASE Ask
  BY <1>1, <1>2
     DEF Ask, AskState, AskEnforced, AskApproval, AskOverride, Enqueue, storeVars
<1>3. CASE \E r \in gates : Settle(r)
  BY <1>1, <1>3 DEF Settle, GatePasses, GateFails, Enqueue, storeVars
<1>4. CASE TakeNext
  BY <1>1, <1>4 DEF TakeNext, Refuse, WriteFails, Write, storeVars
<1>5. CASE AuditStep
  BY <1>1, <1>5 DEF AuditStep, AuditEnds, storeVars
<1>6. CASE \/ \E t \in Tracks, b \in Best : RegistryChanges(t, b)
           \/ FileDamaged
           \/ UNCHANGED vars
  BY <1>1, <1>6 DEF RegistryChanges, FileDamaged, vars, storeVars
<1>7. ASSUME busy.at = "written", policy' = file
      PROVE  Gate!Next \/ UNCHANGED Gate!vars
  <2>1. PICK r \in Request : MayCommit(r) /\ file = Mutated(policy, r)
    BY <1>7 DEF WrittenInv
  <2>2. QED
    BY <1>7, <2>1, MutationIsPromised DEF PolicyInv
<1>8. CASE Publish
  BY <1>7, <1>8 DEF Publish
<1>9. CASE Restart
  <2>1. CASE fileOk /\ busy.at = "written"
    BY <1>7, <1>9, <2>1 DEF Restart
  <2>2. CASE fileOk /\ busy.at # "written"
    BY <1>1, <1>9, <2>2 DEF Restart, PolicyInv
  <2>3. CASE ~fileOk
    <3>1. policy' = DefaultPolicy
      BY <1>9, <2>3 DEF Restart
    <3>2. \A t \in Tracks : /\ policy'.tracks[t].state = "shadow"
                            /\ policy'.tracks[t].approved = FALSE
      BY <3>1 DEF DefaultPolicy
    <3>3. Gate!Lose
      BY <3>2 DEF Gate!Lose, Gate!AtRest, StateOf, Approved
    <3>4. QED
      BY <3>3 DEF Gate!Next
  <2>4. QED
    BY <2>1, <2>2, <2>3
<1>10. QED
  BY <1>2, <1>3, <1>4, <1>5, <1>6, <1>8, <1>9 DEF Next

(* The tracks only ever do what EnforcementGate promises: enforced from    *)
(* eligible and approved, and down with the approval in one step.          *)
THEOREM GateImplemented == Spec => GatePromise
<1>1. Init => Gate!Init
  <2>1. SUFFICES ASSUME Init
                 PROVE  Gate!Init
    OBVIOUS
  <2>2. \A t \in Tracks : policy.tracks[t].state = "shadow" /\ policy.tracks[t].approved = FALSE
    BY <2>1 DEF Init, DefaultPolicy
  <2>3. QED
    BY <2>2 DEF Gate!Init, Gate!AtRest, StateOf, Approved
<1>2. Init => WrittenInv
  BY DEF Init, WrittenInv, Idle
<1>3. PolicyInv /\ WrittenInv /\ [Next]_vars => WrittenInv'
  BY WrittenStepKeepsInv
<1>4. PolicyInv /\ WrittenInv /\ [Next]_vars => [Gate!Next]_(Gate!vars)
  BY StepIsPromised
<1>5. QED
  BY <1>1, <1>2, <1>3, <1>4, PolicyInvariant, PTL DEF Spec, GatePromise, Gate!Spec
-----------------------------------------------------------------------------
(* Model steps under the policy.  Only the phase of a step changes on its  *)
(* way, but for the probe's answer; a step that fails had nothing left to  *)
(* try.                                                                    *)

StepKept(s) ==
  /\ step[s] = [at |-> step[s].at, track |-> step[s].track,
                original |-> step[s].original,
                recommended |-> step[s].recommended,
                applied |-> step[s].applied]
  /\ step[s].at = "failed" => step[s].original \notin Working

StepsInv ==
  /\ step = [s \in Steps |-> step[s]]
  /\ \A s \in Steps : StepKept(s)

LEMMA IdleStep ==
  /\ NoStep = [at |-> NoStep.at, track |-> NoStep.track,
               original |-> NoStep.original, recommended |-> NoStep.recommended,
               applied |-> NoStep.applied]
  /\ NoStep.at # "failed"
<1> DEFINE t == CHOOSE t \in Tracks : TRUE
           m == CHOOSE m \in Models : TRUE
<1>1. NoStep = [at |-> "idle", track |-> t, original |-> m,
                recommended |-> NoModel, applied |-> FALSE]
  BY DEF NoStep
<1> HIDE DEF t, m
<1>2. QED
  BY <1>1

LEMMA StepsInit == RoutingInit => StepsInv
BY IdleStep DEF RoutingInit, StepsInv, StepKept

(* One step moves, the others stay. *)
LEMMA OneStepMoves ==
  ASSUME StepsInv, NEW s \in Steps, NEW r, step' = [step EXCEPT ![s] = r],
         r = [at |-> r.at, track |-> r.track, original |-> r.original,
              recommended |-> r.recommended, applied |-> r.applied],
         r.at = "failed" => r.original \notin Working
  PROVE  StepsInv'
<1>1. step' = [u \in Steps |-> step'[u]]
  BY DEF StepsInv
<1>2. step'[s] = r /\ \A u \in Steps : u # s => step'[u] = step[u]
  BY DEF StepsInv
<1>3. ASSUME NEW u \in Steps
      PROVE  StepKept(u)'
  BY <1>2 DEF StepsInv, StepKept
<1>4. QED
  BY <1>1, <1>3 DEF StepsInv

LEMMA StepsNext == StepsInv /\ [RoutingNext]_routingVars => StepsInv'
<1> SUFFICES ASSUME StepsInv, [RoutingNext]_routingVars
             PROVE  StepsInv'
  OBVIOUS
<1>1. CASE step' = step
  BY <1>1 DEF StepsInv, StepKept
<1>2. CASE PolicyStep
  <2>1. step' = step \/ step' = [s \in Steps |-> NoStep]
    BY <1>2 DEF PolicyStep
  <2>2. QED
    BY <1>1, <2>1, IdleStep DEF StepsInv, StepKept
<1>3. ASSUME NEW s \in Steps, NEW t \in Tracks, NEW m \in Models, StartStep(s, t, m)
      PROVE  StepsInv'
  <2> DEFINE phase == IF MayEnforce(t) THEN "checking" ELSE "running"
             r == [at |-> phase, track |-> t, original |-> m,
                   recommended |-> best[t].model, applied |-> FALSE]
  <2>1. step' = [step EXCEPT ![s] = r]
    BY <1>3 DEF StartStep
  <2>2. r = [at |-> r.at, track |-> r.track, original |-> r.original,
             recommended |-> r.recommended, applied |-> r.applied]
    OBVIOUS
  <2>3. r.at # "failed"
    OBVIOUS
  <2> HIDE DEF r
  <2>4. QED
    BY <2>1, <2>2, <2>3, OneStepMoves
<1>4. ASSUME NEW s \in Steps, NEW ready \in BOOLEAN, ProbeEnds(s, ready)
      PROVE  StepsInv'
  <2> DEFINE r == [at |-> "running", track |-> step[s].track,
                   original |-> step[s].original,
                   recommended |-> step[s].recommended, applied |-> ready]
  <2>1. step' = [step EXCEPT ![s] = r]
    <3>1. step[s] = [at |-> step[s].at, track |-> step[s].track,
                     original |-> step[s].original,
                     recommended |-> step[s].recommended,
                     applied |-> step[s].applied]
      BY DEF StepsInv, StepKept
    <3>2. [step[s] EXCEPT !.at = "running", !.applied = ready] = r
      <4> DEFINE once == [at |-> "running", track |-> step[s].track,
                          original |-> step[s].original,
                          recommended |-> step[s].recommended,
                          applied |-> step[s].applied]
      <4>1. [step[s] EXCEPT !.at = "running"] = once
        BY <3>1
      <4>2. [once EXCEPT !.applied = ready] = r
        OBVIOUS
      <4>3. [step[s] EXCEPT !.at = "running", !.applied = ready]
              = [[step[s] EXCEPT !.at = "running"] EXCEPT !.applied = ready]
        BY Zenon
      <4>4. QED
        BY <4>1, <4>2, <4>3
    <3>3. step' = [step EXCEPT ![s] =
                     [step[s] EXCEPT !.at = "running", !.applied = ready]]
      BY <1>4 DEF ProbeEnds, StepsInv
    <3>4. QED
      BY <3>2, <3>3
  <2>2. r = [at |-> r.at, track |-> r.track, original |-> r.original,
             recommended |-> r.recommended, applied |-> r.applied]
    OBVIOUS
  <2>3. r.at # "failed"
    OBVIOUS
  <2> HIDE DEF r
  <2>4. QED
    BY <2>1, <2>2, <2>3, OneStepMoves
<1>5. ASSUME NEW s \in Steps, NEW phase, step' = [step EXCEPT ![s].at = phase],
             phase = "failed" => step[s].original \notin Working
      PROVE  StepsInv'
  <2> DEFINE r == [at |-> phase, track |-> step[s].track,
                   original |-> step[s].original,
                   recommended |-> step[s].recommended,
                   applied |-> step[s].applied]
  <2>1. step' = [step EXCEPT ![s] = r]
    <3>1. step[s] = [at |-> step[s].at, track |-> step[s].track,
                     original |-> step[s].original,
                     recommended |-> step[s].recommended,
                     applied |-> step[s].applied]
      BY DEF StepsInv, StepKept
    <3>2. [step[s] EXCEPT !.at = phase] = r
      BY <3>1
    <3>3. step' = [step EXCEPT ![s] = [step[s] EXCEPT !.at = phase]]
      BY <1>5 DEF StepsInv
    <3>4. QED
      BY <3>2, <3>3
  <2>2. r = [at |-> r.at, track |-> r.track, original |-> r.original,
             recommended |-> r.recommended, applied |-> r.applied]
    OBVIOUS
  <2>3. r.at = "failed" => r.original \notin Working
    BY <1>5
  <2> HIDE DEF r
  <2>4. QED
    BY <2>1, <2>2, <2>3, OneStepMoves
<1>6. ASSUME NEW s \in Steps, StepRefused(s) \/ Leave(s)
      PROVE  StepsInv'
  BY <1>5, <1>6 DEF StepRefused, Leave
<1>7. ASSUME NEW s \in Steps, RunEnds(s)
      PROVE  StepsInv'
  <2> DEFINE phase == IF ModelOf(s) \in Working THEN "done"
                      ELSE IF FallsBack(s) THEN "fallback" ELSE "failed"
  <2>1. step' = [step EXCEPT ![s].at = phase]
    BY <1>7 DEF RunEnds
  <2>2. phase = "failed" => step[s].original \notin Working
    BY DEF FallsBack, ModelOf
  <2> HIDE DEF phase
  <2>3. QED
    BY <1>5, <2>1, <2>2
<1>8. ASSUME NEW s \in Steps, FallbackEnds(s)
      PROVE  StepsInv'
  <2> DEFINE phase == IF step[s].original \in Working THEN "done" ELSE "failed"
  <2>1. step' = [step EXCEPT ![s].at = phase]
    BY <1>8 DEF FallbackEnds
  <2>2. phase = "failed" => step[s].original \notin Working
    OBVIOUS
  <2> HIDE DEF phase
  <2>3. QED
    BY <1>5, <2>1, <2>2
<1>9. QED
  BY <1>1, <1>2, <1>3, <1>4, <1>6, <1>7, <1>8 DEF RoutingNext, routingVars

(* Whatever the policy says or changes while a step is under way, a step   *)
(* fails only where the model it had before could not have served it.      *)
THEOREM EnforcementIsFree == RoutingSpec => []EnforcementCostsNothing
<1>1. StepsInv => EnforcementCostsNothing
  BY DEF StepsInv, StepKept, EnforcementCostsNothing
<1>2. QED
  BY <1>1, StepsInit, StepsNext, PTL DEF RoutingSpec

=============================================================================
