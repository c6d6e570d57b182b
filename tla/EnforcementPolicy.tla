------------------------- MODULE EnforcementPolicy -------------------------
(***************************************************************************)
(* The durable enforcement policy (core/enforcement-policy-store.js), its  *)
(* wrapper (core/enforcement-policy.js) and the /enforcement routes that   *)
(* change it.                                                              *)
(*                                                                         *)
(* Requests are validated when they arrive and enqueued as mutations; one  *)
(* at a time is taken from the queue, applied to a clone of the policy,    *)
(* written to the file, published to memory a microtask later, and audited *)
(* with an awaited append.  Between arrival and turn any number of other   *)
(* mutations may commit.  Only a request for "enforced" is validated again *)
(* when its turn comes, against a token taken before its asynchronous      *)
(* checks of the runtime and of the shadow evidence.                       *)
(*                                                                         *)
(* A mutation is taken from an idle queue in the turn that enqueued it:    *)
(* while the queue is idle and not empty nothing else happens.             *)
(***************************************************************************)
EXTENDS Naturals, Sequences

CONSTANTS
  Tracks,          \* track identifiers
  Models,          \* capabilities
  NoModel,         \* no qualified capability
  Clients,         \* callers, each with at most one request in flight
  NoClient,        \* nobody
  DiskFaults,      \* may writing the policy file fail?
  MalformedInput,  \* may a reason or an actor break the policy schema?
  AuditFaults,     \* may appending an audit event fail?
  MaxRevision,     \* bound: no request is made at this revision or above
  MaxRestarts,     \* bound: process restarts
  MaxCorruptions   \* bound: times the policy file is damaged from outside

ASSUME PolicyConstants ==
  /\ NoModel \notin Models
  /\ NoClient \notin Clients
  /\ DiskFaults \in BOOLEAN /\ MalformedInput \in BOOLEAN
  /\ AuditFaults \in BOOLEAN
  /\ MaxRevision \in Nat /\ MaxRestarts \in Nat /\ MaxCorruptions \in Nat

VARIABLES
  policy,        \* the policy in memory
  file,          \* what the policy file says, when it can be read
  fileOk,        \* can it?
  locked,        \* enforcementLocked: this process found it unreadable
  queue,         \* pending mutations
  busy,          \* the mutation under way
  gates,         \* requests for enforced that await their checks
  best,          \* the registry: best qualified capability of each track
  auditHealthy,  \* has every audit event of this process been written?
  audited,       \* history: revisions of this process with a success event
  loadedRev,     \* history: the revision this process started from
  restarts,      \* history: process restarts
  corruptions    \* history: times the file was damaged

storeVars == <<policy, file, fileOk, locked>>
auditVars == <<auditHealthy, audited, loadedRev>>
history == <<restarts, corruptions>>
vars == <<policy, file, fileOk, locked, queue, busy, gates, best,
          auditHealthy, audited, loadedRev, restarts, corruptions>>

-----------------------------------------------------------------------------

States == {"disabled", "shadow", "eligible", "enforced", "suspended"}

AllowedTransitions ==
  [disabled  |-> {"shadow"},
   shadow    |-> {"disabled", "eligible"},
   eligible  |-> {"shadow", "enforced", "suspended"},
   enforced  |-> {"suspended", "eligible", "shadow"},
   suspended |-> {"shadow", "eligible", "disabled"}]

(* known: is there an entry for the track?  Without one it reads as        *)
(* shadow and not approved.                                                *)
TrackRecord == [known: BOOLEAN, state: States, approved: BOOLEAN]

Policy == [rev: Nat, tracks: [Tracks -> TrackRecord],
           overrides: SUBSET (Tracks \X Models)]

DefaultPolicy ==
  [rev |-> 0,
   tracks |-> [t \in Tracks |->
                 [known |-> FALSE, state |-> "shadow", approved |-> FALSE]],
   overrides |-> {}]

Kinds == {"set", "approve", "revoke", "override", "clear"}

(* model, rev and approved are the gate token of a request for enforced;   *)
(* model is also the subject of an override.                               *)
Request ==
  [client: Clients, kind: Kinds, track: Tracks, target: States,
   model: Models \cup {NoModel}, rev: Nat, approved: BOOLEAN]

Simple(c, kind, t) ==
  [client |-> c, kind |-> kind, track |-> t, target |-> "shadow",
   model |-> NoModel, rev |-> 0, approved |-> FALSE]

Busy == [at: {"idle", "written", "auditing"}, client: Clients \cup {NoClient},
         success: BOOLEAN]

Idle == [at |-> "idle", client |-> NoClient, success |-> FALSE]

Best == [model: Models, enough: BOOLEAN] \cup {[model |-> NoModel, enough |-> FALSE]}

StateOf(t) == policy.tracks[t].state

Approved(t) == policy.tracks[t].approved

Overridden(t, m) == <<t, m>> \in policy.overrides

-----------------------------------------------------------------------------
(* What the mutation functions do to their clone of the policy *)

WithTrack(p, t, record) ==
  [p EXCEPT !.rev = @ + 1, !.tracks[t] = record]

SetTo(p, t, s) ==
  WithTrack(p, t, [p.tracks[t] EXCEPT !.known = TRUE, !.state = s])

ApprovedIn(p, t) ==
  WithTrack(p, t, [p.tracks[t] EXCEPT !.known = TRUE, !.approved = TRUE])

(* Mutant: the approval goes, the rollout state stays. *)
FallBackLater(s) == s

(* Revoking the approval takes the track out of enforcement. *)
FallBack(s) ==
  CASE s = "enforced" -> "suspended" [] s = "eligible" -> "shadow" [] OTHER -> s

RevokedIn(p, t) ==
  WithTrack(p, t, [p.tracks[t] EXCEPT !.approved = FALSE, !.state = FallBack(@)])

Mutated(p, r) ==
  CASE r.kind = "set"      -> SetTo(p, r.track, r.target)
    [] r.kind = "approve"  -> ApprovedIn(p, r.track)
    [] r.kind = "revoke"   -> RevokedIn(p, r.track)
    [] r.kind = "override" ->
         [p EXCEPT !.rev = @ + 1, !.overrides = @ \cup {<<r.track, r.model>>}]
    [] r.kind = "clear"    ->
         [p EXCEPT !.rev = @ + 1, !.overrides = @ \ {<<r.track, r.model>>}]

(* Mutant: the token's revision is not compared. *)
TokenHoldsAnyRevision(p, r) ==
  /\ p.tracks[r.track].state = "eligible"
  /\ p.tracks[r.track].approved = r.approved
  /\ best[r.track].model = r.model
  /\ best[r.track].enough

(* Mutant: only the qualification is looked at again. *)
TokenHoldsModelOnly(p, r) ==
  best[r.track].model = r.model /\ best[r.track].enough

(* The gate token, compared with the clone when the mutation's turn comes. *)
TokenHolds(p, r) ==
  /\ p.tracks[r.track].state = "eligible"
  /\ p.rev = r.rev
  /\ p.tracks[r.track].approved = r.approved
  /\ best[r.track].model = r.model
  /\ best[r.track].enough

Accepted(p, r) ==
  CASE r.kind = "set"      -> r.target = "enforced" => TokenHolds(p, r)
    [] r.kind = "approve"  -> TRUE
    [] r.kind = "revoke"   -> p.tracks[r.track].known
    [] r.kind = "override" -> <<r.track, r.model>> \notin p.overrides
    [] r.kind = "clear"    -> <<r.track, r.model>> \in p.overrides

-----------------------------------------------------------------------------
(* The routes: validate, then enqueue *)

Waiting(c) ==
  \/ busy.client = c
  \/ \E r \in gates : r.client = c
  \/ \E i \in 1..Len(queue) : queue[i].client = c

(* Nothing else runs while an idle queue holds a mutation. *)
Calm == busy.at # "idle" \/ queue = <<>>

MayAsk(c) == Calm /\ ~Waiting(c) /\ policy.rev < MaxRevision

Enqueue(r) ==
  /\ queue' = Append(queue, r)
  /\ UNCHANGED <<storeVars, busy, best, auditVars, history>>

(* A store that could not read its file refuses to escalate. *)
Unlocked(s) == ~(locked /\ s \in {"eligible", "enforced"})

(* POST /enforcement/set with any state but enforced. *)
AskState(c, t, s) ==
  /\ MayAsk(c)
  /\ s # "enforced"
  /\ Unlocked(s)
  /\ s = StateOf(t) \/ s \in AllowedTransitions[StateOf(t)]
  /\ s = "eligible" => Approved(t) /\ best[t].model # NoModel
  /\ Enqueue([Simple(c, "set", t) EXCEPT !.target = s])
  /\ UNCHANGED gates

(* POST /enforcement/set with enforced: the token is taken and everything  *)
(* that can be checked at once is checked, before the awaits.              *)
AskEnforced(c, t) ==
  /\ MayAsk(c)
  /\ Unlocked("enforced")
  /\ StateOf(t) = "eligible"
  /\ Approved(t)
  /\ best[t].model # NoModel /\ best[t].enough
  /\ ~Overridden(t, best[t].model)
  /\ gates' = gates \cup
       {[Simple(c, "set", t) EXCEPT !.target = "enforced",
           !.model = best[t].model, !.rev = policy.rev, !.approved = Approved(t)]}
  /\ UNCHANGED <<storeVars, queue, busy, best, auditVars, history>>

(* The runtime is up and there is enough shadow evidence. *)
GatePasses(r) ==
  /\ Calm
  /\ r \in gates
  /\ gates' = gates \ {r}
  /\ Enqueue(r)

(* A check of the gate fails or throws: the request is refused. *)
GateFails(r) ==
  /\ Calm
  /\ r \in gates
  /\ gates' = gates \ {r}
  /\ UNCHANGED <<storeVars, queue, busy, best, auditVars, history>>

(* POST /enforcement/approve and /enforcement/revoke: no check at all. *)
AskApproval(c, t, kind) ==
  /\ MayAsk(c)
  /\ kind \in {"approve", "revoke"}
  /\ Enqueue(Simple(c, kind, t))
  /\ UNCHANGED gates

(* POST /enforcement/override and /enforcement/override/clear; the wrapper *)
(* refuses an override that is there already.                              *)
AskOverride(c, t, m, kind) ==
  /\ MayAsk(c)
  /\ kind = "clear" \/ (kind = "override" /\ ~Overridden(t, m))
  /\ Enqueue([Simple(c, kind, t) EXCEPT !.model = m])
  /\ UNCHANGED gates

-----------------------------------------------------------------------------
(* The queue: processQueue and executeMutation *)

Taken(r) ==
  /\ busy.at = "idle"
  /\ queue # <<>>
  /\ r = Head(queue)
  /\ queue' = Tail(queue)
  /\ UNCHANGED <<gates, best, auditVars, history>>

Auditing(c, success) == [at |-> "auditing", client |-> c, success |-> success]

(* The mutation function refuses, or its result breaks the policy schema:  *)
(* nothing changes, and that is audited.                                   *)
Refuse(r) ==
  /\ Taken(r)
  /\ ~Accepted(policy, r) \/ MalformedInput
  /\ busy' = Auditing(r.client, FALSE)
  /\ UNCHANGED storeVars

(* Mutant: memory is changed although the write failed. *)
WriteFailsInMemoryToo(r) ==
  /\ Taken(r)
  /\ Accepted(policy, r)
  /\ DiskFaults
  /\ policy' = Mutated(policy, r)
  /\ UNCHANGED <<file, fileOk, locked, busy>>

(* The write throws: nothing changes, and nothing is audited. *)
WriteFails(r) ==
  /\ Taken(r)
  /\ Accepted(policy, r)
  /\ DiskFaults
  /\ UNCHANGED <<storeVars, busy>>

(* Temporary file and rename, in one turn with the mutation. *)
Write(r) ==
  /\ Taken(r)
  /\ Accepted(policy, r)
  /\ file' = Mutated(policy, r)
  /\ fileOk' = TRUE
  /\ busy' = [at |-> "written", client |-> r.client, success |-> TRUE]
  /\ UNCHANGED <<policy, locked>>

(* policy = candidate, after the await of atomicWrite. *)
Publish ==
  /\ busy.at = "written"
  /\ policy' = file
  /\ busy' = Auditing(busy.client, TRUE)
  /\ UNCHANGED <<file, fileOk, locked, queue, gates, best, auditVars, history>>

(* Mutant: a failed append goes unnoticed. *)
HealthAssumed(written) == auditHealthy

(* Once an append has failed the process says so until it ends. *)
HealthAfter(written) == auditHealthy /\ written

(* The audit append ends and the caller gets its answer. *)
AuditEnds(written) ==
  /\ busy.at = "auditing"
  /\ written \/ AuditFaults
  /\ busy' = Idle
  /\ audited' = IF written /\ busy.success THEN audited \cup {policy.rev}
                                            ELSE audited
  /\ auditHealthy' = HealthAfter(written)
  /\ UNCHANGED <<storeVars, queue, gates, best, loadedRev, history>>

-----------------------------------------------------------------------------
(* The surroundings *)

(* New qualification evidence changes what the registry says of a track. *)
RegistryChanges(t, b) ==
  /\ Calm
  /\ b # best[t]
  /\ best' = [best EXCEPT ![t] = b]
  /\ UNCHANGED <<storeVars, queue, busy, gates, auditVars, history>>

(* Somebody damages the policy file. *)
FileDamaged ==
  /\ Calm
  /\ corruptions < MaxCorruptions
  /\ fileOk
  /\ fileOk' = FALSE
  /\ corruptions' = corruptions + 1
  /\ UNCHANGED <<policy, file, locked, queue, busy, gates, best, auditVars,
                 restarts>>

(* The process dies, anywhere; the next one loads the file, or falls back  *)
(* to the default policy and locks escalation.                             *)
Restart ==
  /\ restarts < MaxRestarts
  /\ restarts' = restarts + 1
  /\ policy' = IF fileOk THEN file ELSE DefaultPolicy
  /\ locked' = ~fileOk
  /\ queue' = <<>>
  /\ busy' = Idle
  /\ gates' = {}
  /\ auditHealthy' = TRUE
  /\ audited' = {}
  /\ loadedRev' = IF fileOk THEN file.rev ELSE 0
  /\ UNCHANGED <<file, fileOk, best, corruptions>>

-----------------------------------------------------------------------------

Init ==
  /\ policy = DefaultPolicy
  /\ file = DefaultPolicy
  /\ fileOk = TRUE
  /\ locked = FALSE
  /\ queue = <<>>
  /\ busy = Idle
  /\ gates = {}
  /\ best \in [Tracks -> Best]
  /\ auditHealthy = TRUE
  /\ audited = {}
  /\ loadedRev = 0
  /\ restarts = 0
  /\ corruptions = 0

Ask ==
  \E c \in Clients, t \in Tracks :
    \/ \E s \in States : AskState(c, t, s)
    \/ AskEnforced(c, t)
    \/ \E kind \in {"approve", "revoke"} : AskApproval(c, t, kind)
    \/ \E m \in Models, kind \in {"override", "clear"} : AskOverride(c, t, m, kind)

Settle(r) == GatePasses(r) \/ GateFails(r)

(* Mutant: a failed audit stops the queue. *)
TakeNextWhileHealthy ==
  /\ queue # <<>> /\ auditHealthy
  /\ Refuse(Head(queue)) \/ WriteFails(Head(queue)) \/ Write(Head(queue))

TakeNext ==
  /\ queue # <<>>
  /\ Refuse(Head(queue)) \/ WriteFails(Head(queue)) \/ Write(Head(queue))

AuditStep == \E written \in BOOLEAN : AuditEnds(written)

Next ==
  \/ Ask
  \/ \E r \in gates : Settle(r)
  \/ TakeNext
  \/ Publish
  \/ AuditStep
  \/ \E t \in Tracks, b \in Best : RegistryChanges(t, b)
  \/ FileDamaged
  \/ Restart

Spec == Init /\ [][Next]_vars

(* Microtasks run, file appends end, and the checks of a gate settle: the  *)
(* runtime probe carries a timeout and the evidence is read from files.    *)
(* Strong fairness, because the turns of other callers, which come and go, *)
(* only delay the callback of a check that has ended.                      *)
Fairness ==
  /\ WF_vars(TakeNext)
  /\ WF_vars(Publish)
  /\ WF_vars(AuditStep)
  /\ \A c \in Clients : SF_vars(\E r \in gates : r.client = c /\ Settle(r))

FairSpec == Spec /\ Fairness

-----------------------------------------------------------------------------
(* Properties *)

TypeOK ==
  /\ policy \in Policy
  /\ file \in Policy
  /\ fileOk \in BOOLEAN
  /\ locked \in BOOLEAN
  /\ queue \in Seq(Request)
  /\ busy \in Busy
  /\ gates \subseteq Request
  /\ best \in [Tracks -> Best]
  /\ auditHealthy \in BOOLEAN
  /\ audited \subseteq Nat
  /\ loadedRev \in Nat
  /\ restarts \in Nat
  /\ corruptions \in Nat

(* No track is enforced without an approval, neither in memory nor in the  *)
(* file a restart would load, whatever was revoked, set or approved while  *)
(* requests waited for their turn.                                         *)
EnforcedApproved ==
  \A p \in {policy, file} : \A t \in Tracks :
    p.tracks[t].state = "enforced" => p.tracks[t].approved

(* The commit that enforces a track happens in a state where all of it     *)
(* still holds: the track is eligible and approved, its best qualified     *)
(* capability scores enough and no override blocks that capability.        *)
EnforceSound ==
  [][\A t \in Tracks :
       /\ file'.tracks[t].state = "enforced"
       /\ file.tracks[t].state # "enforced"
       => /\ StateOf(t) = "eligible"
          /\ Approved(t)
          /\ best[t].model # NoModel /\ best[t].enough
          /\ ~Overridden(t, best[t].model)]_vars

(* What memory serves is what a restart would load, except between the     *)
(* rename and the publication of one mutation.                             *)
ServedIsDurable == fileOk /\ busy.at # "written" => policy = file

(* As long as the store reports a healthy audit, the log has one success   *)
(* event for every revision this process committed, but for the mutation   *)
(* whose event is being written.                                           *)
AuditComplete ==
  auditHealthy =>
    audited = ((loadedRev + 1)..policy.rev) \
                (IF busy.at = "auditing" /\ busy.success THEN {policy.rev} ELSE {})

(* A process that could not read its policy never lets a track become      *)
(* eligible or enforced.                                                   *)
DegradedStaysDown ==
  locked => \A t \in Tracks : StateOf(t) \notin {"eligible", "enforced"}

(* The tracks follow the promised lifecycle. *)
Gate == INSTANCE EnforcementGate WITH
  state    <- [t \in Tracks |-> StateOf(t)],
  approved <- [t \in Tracks |-> Approved(t)]

GatePromise == Gate!Spec

(* Every request is answered: no failed write, refused mutation or failed  *)
(* audit leaves the queue stuck behind it.                                 *)
RequestsAnswered == \A c \in Clients : Waiting(c) ~> ~Waiting(c)
=============================================================================
