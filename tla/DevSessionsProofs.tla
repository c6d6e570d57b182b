-------------------------- MODULE DevSessionsProofs --------------------------
(***************************************************************************)
(* What development sessions guarantee for any number of sessions, events  *)
(* and overlapping runs of the processor, deaths, restarts and rebuilds by *)
(* hand.                                                                   *)
(***************************************************************************)
EXTENDS DevSessions, FiniteSetTheorems, WellFoundedInduction, TLAPS

IsEnded(s) == manifest[s].status # "open"

(* Ended, or of those nothing is promised about.                           *)
Settled(s) == IsEnded(s) \/ s \in byHand

(* A close or a rebuild ends a session whose manifest is there, but for a  *)
(* session rebuilt by hand while it was open: its "open" may be on its way *)
(* back, in the hand's own rebuild or in one that has read it since.       *)
OpsEnd ==
  \A a \in Actors : op[a].kind \in {"close", "rebuild"} =>
    /\ op[a].session \in Sessions
    /\ op[a].status # "open" \/ op[a].session \in byHand

(* What the sequencer does next is possible.                               *)
AgentReady ==
  /\ agent.at = "marking" => Len(manifest) < MaxSessions
  /\ agent.at = "pointing" => Len(manifest) > 0
  /\ agent.at = "closing" => op["agent"].kind = "close"

(* A run of the processor has before it only sessions that are there; it   *)
(* rebuilds only those that are ended, or were once rebuilt by hand.       *)
TodoThere ==
  \A p \in Processors :
    /\ worker[p].todo \subseteq Sessions
    /\ worker[p].at \in {"looking", "rebuilding", "extracting"} =>
         worker[p].todo # {}
    /\ worker[p].at \in {"rebuilding", "extracting"} =>
         \A s \in worker[p].todo : Settled(s)

Extracting ==
  \A p \in Processors :
    op[p].kind = "extract" => worker[p].at = "extracting"

IInv ==
  /\ TypeOK
  /\ OpsEnd /\ AgentReady /\ TodoThere /\ Extracting
  /\ PointerNamesSession /\ CandidateOnce

(* One step of EndedStaysEnded.                                            *)
StayEnded ==
  \A s \in Sessions \ byHand : IsEnded(s) => manifest'[s].status # "open"

Step == IInv' /\ StayEnded

USE ActorsAssumption, BoundsAssumption DEF NoSession

LEMMA LeastIsMember ==
  ASSUME NEW S \in SUBSET Nat, S # {}
  PROVE  Min(S) \in S
<1>. DEFINE Less == OpToRel(<, Nat)
<1>1. IsWellFoundedOn(Less, Nat)
  BY NatLessThanWellFounded
<1>2. \A x, y \in Nat : <<y, x>> \notin Less => x <= y
  BY DEF OpToRel
<1>. HIDE DEF Less
<1>3. PICK x \in S : \A y \in S : ~ (<<y, x>> \in Less)
  BY <1>1, WFMin
<1>4. \A y \in S : x <= y
  BY <1>2, <1>3
<1>. QED  BY <1>4 DEF Min

----------------------------------------------------------------------------
(* Manifests *)

(* A manifest that is saved with another status and end.                   *)
LEMMA EndedTyped ==
  ASSUME TypeOK, NEW s \in Sessions, NEW status \in Statuses,
         NEW end \in 0 .. MaxEvents, status # "open" \/ s \in byHand
  PROVE  LET m == Ended(s, status, end) IN
         /\ m \in Seq(Manifests) /\ Len(m) = Len(manifest)
         /\ \A t \in Sessions \ byHand : IsEnded(t) => m[t].status # "open"
<1>. DEFINE a == [manifest[s] EXCEPT !.status = status]
            b == [manifest[s] EXCEPT !.status = status, !.ended = end]
<1>1. manifest \in Seq(Manifests) /\ manifest[s] \in Manifests
  BY DEF TypeOK, Sessions
<1>2. a \in Manifests /\ a.status = status
  BY <1>1 DEF Manifests
<1>3. b = [a EXCEPT !.ended = end]
  BY <1>1 DEF Manifests
<1>. HIDE DEF a, b
<1>4. b \in Manifests /\ b.status = status
  BY <1>2, <1>3 DEF Manifests
<1>5. Ended(s, status, end) = [manifest EXCEPT ![s] = b]
  BY DEF Ended, b
<1>. QED  BY <1>1, <1>4, <1>5 DEF Sessions, IsEnded

(* A step that only adds manifests or ends them disturbs nobody's plans.   *)
LEMMA ManifestKeeps ==
  ASSUME IInv, UNCHANGED <<op, worker, byHand>>, Len(manifest) <= Len(manifest'),
         manifest' \in Seq(Manifests),
         StayEnded
  PROVE  OpsEnd' /\ TodoThere' /\ Extracting'
<1>1. Sessions \subseteq Sessions'
  BY DEF Sessions, IInv, TypeOK
<1>2. OpsEnd'
  BY <1>1 DEF OpsEnd, IInv
<1>3. TodoThere'
  BY <1>1 DEF TodoThere, Settled, StayEnded, IsEnded, IInv
<1>4. Extracting'
  BY DEF Extracting, IInv
<1>. QED  BY <1>2, <1>3, <1>4

(* Nothing said of a manifest changes.                                     *)
LEMMA SameManifest ==
  ASSUME IInv, UNCHANGED manifest
  PROVE  StayEnded /\ Sessions' = Sessions /\ \A s : IsEnded(s)' = IsEnded(s)
  BY DEF StayEnded, Sessions, IsEnded

(* An operation that ends saves its manifest.                              *)
LEMMA SavedKeeps ==
  ASSUME IInv, NEW a \in Actors, op[a].kind \in {"close", "rebuild"}, Saved(a),
         byHand' = byHand
  PROVE  /\ manifest' \in Seq(Manifests) /\ Len(manifest') = Len(manifest)
         /\ op' \in [Actors -> Ops] /\ pointer' \in {pointer, NoSession}
         /\ StayEnded /\ OpsEnd'
<1>. DEFINE o == op[a]
<1>1. TypeOK /\ o \in Ops
  BY DEF IInv, TypeOK
<1>2. o.session \in Sessions /\ (o.status # "open" \/ o.session \in byHand)
  BY DEF IInv, OpsEnd
<1>3. o.status \in Statuses /\ o.ended \in 0 .. MaxEvents
  BY <1>1 DEF Ops, NoOp
<1>4. manifest' = Ended(o.session, o.status, o.ended)
  BY DEF Saved
<1>5. /\ manifest' \in Seq(Manifests) /\ Len(manifest') = Len(manifest)
      /\ \A t \in Sessions \ byHand :
           IsEnded(t) => manifest'[t].status # "open"
  <2>. HIDE DEF o
  <2>. QED  BY <1>1, <1>2, <1>3, <1>4, EndedTyped
<1>6. StayEnded
  BY <1>5 DEF StayEnded
<1>7. op' = [op EXCEPT ![a] = NoOp]
  BY DEF Saved
<1>8. op' \in [Actors -> Ops]
  BY <1>1, <1>7 DEF TypeOK, Ops
<1>9. OpsEnd'
  <2>1. Sessions' = Sessions
    BY <1>1, <1>5 DEF Sessions, TypeOK
  <2>2. \A b \in Actors : op'[b] = op[b] \/ op'[b].kind = "none"
    BY <1>1, <1>7 DEF TypeOK, NoOp
  <2>. QED  BY <2>1, <2>2 DEF OpsEnd, IInv
<1>. QED  BY <1>5, <1>6, <1>8, <1>9 DEF Saved

----------------------------------------------------------------------------
(* The sequencer *)

LEMMA AgentTyped ==
  ASSUME NEW a \in Agents,
         NEW at \in {"idle", "marking", "pointing", "working", "closing", "after"}
  PROVE  [a EXCEPT !.at = at] \in Agents /\ [a EXCEPT !.at = at].at = at
  BY DEF Agents

LEMMA AwayTyped == Away \in Agents /\ Away.at = "idle"
<1>1. (CHOOSE o \in Objectives : TRUE) \in Objectives
  BY ActorsAssumption
<1>. QED  BY <1>1 DEF Away, Agents

LEMMA StartSessionKeeps ==
  ASSUME IInv, NEW o \in Objectives, StartSession(o)
  PROVE  Step
<1>1. TypeOK /\ Now \in 0 .. MaxEvents
  BY DEF IInv, TypeOK, Now
<1>2. /\ manifest' \in Seq(Manifests) /\ Len(manifest') = Len(manifest)
      /\ StayEnded
  <2>1. CASE pointer = NoSession \/ ~IsOpen(pointer)
    BY <1>1, <2>1 DEF StartSession, TypeOK, StayEnded, IsEnded
  <2>2. CASE ~(pointer = NoSession \/ ~IsOpen(pointer))
    <3>1. pointer \in Sessions
      BY <2>2 DEF IInv, PointerNamesSession
    <3>2. manifest' = Ended(pointer, "interrupted", Now)
      BY <2>2 DEF StartSession
    <3>3. "interrupted" \in Statuses /\ "interrupted" # "open"
      BY DEF Statuses
    <3>. QED  BY <1>1, <3>1, <3>2, <3>3, EndedTyped DEF StayEnded
  <2>. QED  BY <2>1, <2>2
<1>3. OpsEnd' /\ TodoThere' /\ Extracting'
  BY <1>1, <1>2, ManifestKeeps DEF StartSession, TypeOK, outside
<1>4. agent' \in Agents /\ agent'.at = "marking"
  BY DEF StartSession, Agents
<1>5. TypeOK'
  BY <1>1, <1>2, <1>4 DEF TypeOK, StartSession, results, outside
<1>6. AgentReady'
  BY <1>2, <1>4 DEF AgentReady, StartSession
<1>7. PointerNamesSession' /\ CandidateOnce'
  BY DEF StartSession, PointerNamesSession, IInv, CandidateOnce, results
<1>. QED  BY <1>2, <1>3, <1>5, <1>6, <1>7 DEF Step, IInv

LEMMA SaveManifestKeeps == IInv /\ SaveManifest => Step
<1>. SUFFICES ASSUME IInv, SaveManifest PROVE Step
  OBVIOUS
<1>. DEFINE m == [status |-> "open", objective |-> agent.objective,
                  started |-> Now, ended |-> Always]
<1>1. TypeOK /\ Now \in 0 .. MaxEvents /\ Len(manifest) < MaxSessions
  BY DEF IInv, TypeOK, Now, AgentReady, SaveManifest
<1>2. m \in Manifests
  BY <1>1 DEF Manifests, Statuses, Always, TypeOK, Agents
<1>3. manifest' = Append(manifest, m)
  BY DEF SaveManifest
<1>. HIDE DEF m
<1>4. /\ manifest' \in Seq(Manifests) /\ Len(manifest') = Len(manifest) + 1
      /\ \A s \in Sessions : s \in Sessions' /\ manifest'[s] = manifest[s]
  BY <1>1, <1>2, <1>3 DEF TypeOK, Sessions
<1>5. StayEnded
  BY <1>4 DEF StayEnded, IsEnded
<1>6. OpsEnd' /\ TodoThere' /\ Extracting'
  BY <1>1, <1>4, <1>5, ManifestKeeps DEF SaveManifest, TypeOK, outside
<1>7. agent' \in Agents /\ agent'.at = "pointing"
  BY <1>1, AgentTyped DEF SaveManifest, TypeOK
<1>8. TypeOK'
  BY <1>1, <1>4, <1>7 DEF TypeOK, SaveManifest, results, outside
<1>9. AgentReady'
  BY <1>1, <1>4, <1>7 DEF AgentReady, TypeOK
<1>10. PointerNamesSession' /\ CandidateOnce'
  BY <1>4 DEF SaveManifest, PointerNamesSession, IInv, CandidateOnce, results
<1>. QED  BY <1>5, <1>6, <1>8, <1>9, <1>10 DEF Step, IInv

(* Steps that leave the manifests, the operations and the processor alone, *)
(* and let the pointer name a session that is there.                       *)
LEMMA QuietKeeps ==
  ASSUME IInv, UNCHANGED <<manifest, op, worker, results, outside>>,
         agent' \in Agents,
         event' \in Seq(EventRecords), Len(event') <= MaxEvents,
         AgentReady', pointer' = pointer \/ pointer' = NoSession \/ pointer' \in Sessions
  PROVE  Step
<1>1. Sessions' = Sessions /\ \A s : IsEnded(s)' = IsEnded(s)
  BY SameManifest
<1>2. pointer' \in 0 .. MaxSessions
  BY DEF IInv, TypeOK, Sessions
<1>3. TypeOK'
  BY <1>2 DEF IInv, TypeOK, results, outside
<1>4. OpsEnd' /\ TodoThere' /\ Extracting'
  BY <1>1 DEF IInv, OpsEnd, TodoThere, Settled, Extracting, outside
<1>5. PointerNamesSession' /\ CandidateOnce'
  BY <1>1 DEF IInv, PointerNamesSession, CandidateOnce, results
<1>6. StayEnded
  BY SameManifest
<1>. QED  BY <1>3, <1>4, <1>5, <1>6 DEF Step, IInv

LEMMA WritePointerKeeps == IInv /\ WritePointer => Step
<1>. SUFFICES ASSUME IInv, WritePointer PROVE Step
  OBVIOUS
<1>1. TypeOK
  BY DEF IInv
<1>2. agent' \in Agents /\ agent'.at = "working"
  BY <1>1, AgentTyped DEF WritePointer, TypeOK
<1>3. pointer' \in Sessions
  BY <1>1 DEF WritePointer, IInv, AgentReady, TypeOK, Sessions
<1>4. AgentReady'
  BY <1>2 DEF AgentReady
<1>. QED
  BY <1>1, <1>2, <1>3, <1>4, QuietKeeps DEF WritePointer, TypeOK

LEMMA RecordKeeps == IInv /\ Record => Step
<1>. SUFFICES ASSUME IInv, Record PROVE Step
  OBVIOUS
<1>. DEFINE e == [session |-> pointer, objective |-> agent.objective, at |-> "writing"]
<1>1. TypeOK
  BY DEF IInv
<1>2. e \in EventRecords
  BY <1>1 DEF EventRecords, TypeOK, Agents
<1>3. event' = Append(event, e) /\ Len(event) < MaxEvents
  BY DEF Record
<1>. HIDE DEF e
<1>4. event' \in Seq(EventRecords) /\ Len(event') <= MaxEvents
  BY <1>1, <1>2, <1>3 DEF TypeOK
<1>5. AgentReady'
  BY DEF Record, IInv, AgentReady
<1>. QED
  BY <1>1, <1>4, <1>5, QuietKeeps DEF Record, TypeOK

LEMMA StoreEventKeeps ==
  ASSUME IInv, NEW e \in DOMAIN event, StoreEvent(e)
  PROVE  Step
<1>. DEFINE r == [event[e] EXCEPT !.at = "stored"]
<1>1. TypeOK /\ event \in Seq(EventRecords) /\ event[e] \in EventRecords
  BY DEF IInv, TypeOK
<1>2. r \in EventRecords
  BY <1>1 DEF EventRecords
<1>3. event' = [event EXCEPT ![e] = r]
  BY DEF StoreEvent
<1>. HIDE DEF r
<1>4. event' \in Seq(EventRecords) /\ Len(event') <= MaxEvents
  BY <1>1, <1>2, <1>3 DEF TypeOK
<1>5. AgentReady'
  BY DEF StoreEvent, IInv, AgentReady
<1>. QED
  BY <1>1, <1>4, <1>5, QuietKeeps DEF StoreEvent, TypeOK

LEMMA WaitingKeeps == IInv /\ (NothingToClose \/ NextObjective) => Step
<1>. SUFFICES ASSUME IInv, NothingToClose \/ NextObjective PROVE Step
  OBVIOUS
<1>1. TypeOK
  BY DEF IInv
<1>2. agent' \in Agents /\ agent'.at \in {"after", "idle"}
  <2>1. CASE NothingToClose
    BY <1>1, <2>1, AgentTyped DEF NothingToClose, TypeOK
  <2>2. CASE NextObjective
    BY <2>2, AwayTyped DEF NextObjective
  <2>. QED  BY <2>1, <2>2
<1>3. AgentReady'
  BY <1>2 DEF AgentReady
<1>4. UNCHANGED <<manifest, op, worker, results, pointer, event, outside>>
  BY DEF NothingToClose, NextObjective, files
<1>. QED
  BY <1>1, <1>2, <1>3, <1>4, QuietKeeps DEF TypeOK

LEMMA AgentOpKeeps ==
  ASSUME IInv, UNCHANGED worker, NEW o \in Ops, op' = [op EXCEPT !["agent"] = o]
  PROVE  Extracting'
<1>1. \A p \in Processors : op'[p] = op[p]
  BY DEF IInv, TypeOK, Actors
<1>. QED  BY <1>1 DEF IInv, Extracting

(* A close that is asked for knows the session the pointer names.          *)
LEMMA CloseOpTyped ==
  ASSUME IInv, NEW s \in Sessions, NEW status \in {"closed", "interrupted"}
  PROVE  /\ CloseOp(s, status) \in Ops /\ CloseOp(s, status).kind = "close"
         /\ CloseOp(s, status).session = s
         /\ CloseOp(s, status).status # "open"
<1>1. s \in 1 .. MaxSessions /\ Now \in 0 .. MaxEvents
  BY DEF IInv, TypeOK, Sessions, Now
<1>. QED  BY <1>1 DEF CloseOp, Ops, Statuses

(* An operation is asked for, or waits no more.                            *)
LEMMA AskedKeeps ==
  ASSUME IInv, NEW a \in Actors, NEW o \in Ops, op' = [op EXCEPT ![a] = o],
         UNCHANGED manifest, byHand \subseteq byHand',
         o.kind \in {"close", "rebuild"} =>
           o.session \in Sessions /\ (o.status # "open" \/ o.session \in byHand')
  PROVE  /\ op' \in [Actors -> Ops] /\ OpsEnd' /\ StayEnded
         /\ Sessions' = Sessions /\ \A s : IsEnded(s)' = IsEnded(s)
<1>1. Sessions' = Sessions /\ StayEnded /\ \A s : IsEnded(s)' = IsEnded(s)
  BY SameManifest
<1>2. op' \in [Actors -> Ops]
  BY DEF IInv, TypeOK
<1>3. \A b \in Actors : op'[b] = op[b] \/ op'[b] = o
  BY DEF IInv, TypeOK
<1>4. OpsEnd'
  BY <1>1, <1>3 DEF IInv, OpsEnd
<1>. QED  BY <1>1, <1>2, <1>4

LEMMA CloseSessionKeeps ==
  ASSUME IInv, NEW complete \in BOOLEAN, CloseSession(complete)
  PROVE  Step
<1>. DEFINE status == IF complete THEN "closed" ELSE "interrupted"
            o == CloseOp(pointer, status)
<1>1. TypeOK /\ "agent" \in Actors /\ pointer \in Sessions
  BY DEF IInv, CloseSession, PointerNamesSession, Actors
<1>2. status \in {"closed", "interrupted"}
  OBVIOUS
<1>. HIDE DEF status
<1>3. /\ o \in Ops /\ o.kind = "close" /\ o.session \in Sessions
      /\ o.status # "open"
  BY <1>1, <1>2, CloseOpTyped
<1>4. op' = [op EXCEPT !["agent"] = o] /\ UNCHANGED <<manifest, pointer, event, byHand>>
  BY DEF CloseSession, status, files, outside
<1>. HIDE DEF o
<1>5. /\ op' \in [Actors -> Ops] /\ OpsEnd' /\ StayEnded
      /\ Sessions' = Sessions /\ \A s : IsEnded(s)' = IsEnded(s)
  BY <1>1, <1>3, <1>4, AskedKeeps
<1>6. agent' \in Agents /\ agent'.at = "closing"
  BY <1>1, AgentTyped DEF CloseSession, TypeOK
<1>7. TypeOK'
  BY <1>1, <1>4, <1>5, <1>6 DEF CloseSession, TypeOK, results, outside
<1>8. AgentReady'
  BY <1>1, <1>3, <1>4, <1>6 DEF AgentReady, TypeOK
<1>9. TodoThere' /\ PointerNamesSession' /\ CandidateOnce'
  BY <1>4, <1>5 DEF CloseSession, IInv, TodoThere, Settled,
                    PointerNamesSession, CandidateOnce, results
<1>10. Extracting'
  BY <1>3, <1>4, AgentOpKeeps DEF CloseSession
<1>. QED  BY <1>5, <1>7, <1>8, <1>9, <1>10 DEF Step, IInv

LEMMA SessionClosedKeeps == IInv /\ SessionClosed => Step
<1>. SUFFICES ASSUME IInv, SessionClosed PROVE Step
  OBVIOUS
<1>1. TypeOK /\ "agent" \in Actors /\ op["agent"].kind = "close"
  BY DEF IInv, SessionClosed, AgentReady, Actors
<1>2. /\ manifest' \in Seq(Manifests) /\ Len(manifest') = Len(manifest)
      /\ op' \in [Actors -> Ops] /\ pointer' \in {pointer, NoSession}
      /\ StayEnded /\ OpsEnd'
  BY <1>1, SavedKeeps DEF SessionClosed, outside
<1>3. Sessions' = Sessions
  BY <1>1, <1>2 DEF Sessions, TypeOK
<1>4. agent' \in Agents /\ agent'.at = "after"
  BY <1>1, AgentTyped DEF SessionClosed, TypeOK
<1>5. TypeOK' /\ AgentReady'
  BY <1>1, <1>2, <1>4 DEF SessionClosed, TypeOK, AgentReady, results, outside
<1>6. TodoThere'
  BY <1>2, <1>3 DEF SessionClosed, IInv, TodoThere, Settled, StayEnded, IsEnded,
                    outside
<1>7. PointerNamesSession' /\ CandidateOnce'
  BY <1>2, <1>3 DEF SessionClosed, IInv, PointerNamesSession, CandidateOnce, results
<1>8. Extracting'
  <2>1. NoOp \in Ops
    BY DEF Ops
  <2>. QED  BY <2>1, AgentOpKeeps DEF SessionClosed, Saved
<1>. QED  BY <1>2, <1>5, <1>6, <1>7, <1>8 DEF Step, IInv

LEMMA AgentDiesKeeps == IInv /\ AgentDies => Step
<1>. SUFFICES ASSUME IInv, AgentDies PROVE Step
  OBVIOUS
<1>1. TypeOK /\ "agent" \in Actors /\ NoOp \in Ops /\ NoOp.kind = "none"
  BY DEF IInv, Actors, Ops, NoOp
<1>2. op' = [op EXCEPT !["agent"] = NoOp]
      /\ UNCHANGED <<manifest, pointer, worker, results, byHand>>
  BY DEF AgentDies
<1>3. /\ op' \in [Actors -> Ops] /\ OpsEnd' /\ StayEnded
      /\ Sessions' = Sessions /\ \A s : IsEnded(s)' = IsEnded(s)
  BY <1>1, <1>2, AskedKeeps
<1>4. event' \in Seq(EventRecords) /\ Len(event') <= MaxEvents
  <2>0. \A r \in EventRecords : [r EXCEPT !.at = "lost"] \in EventRecords
    BY DEF EventRecords
  <2>1. \A e \in DOMAIN event : [event[e] EXCEPT !.at = "lost"] \in EventRecords
    <3>1. \A e \in DOMAIN event : event[e] \in EventRecords
      BY <1>1 DEF TypeOK
    <3>. QED  BY <2>0, <3>1
  <2>. DEFINE f == [e \in DOMAIN event |->
                     IF event[e].at = "writing" THEN [event[e] EXCEPT !.at = "lost"]
                                                ELSE event[e]]
  <2>2. /\ DOMAIN event = 1 .. Len(event) /\ Len(event) \in Nat
        /\ \A e \in DOMAIN event : event[e] \in EventRecords
    BY <1>1 DEF TypeOK
  <2>3. f \in [1 .. Len(event) -> EventRecords]
    BY <2>1, <2>2
  <2>4. event' = f
    BY DEF AgentDies
  <2>. HIDE DEF f
  <2>5. f \in Seq(EventRecords) /\ Len(f) = Len(event)
    BY <2>2, <2>3
  <2>. QED  BY <1>1, <2>4, <2>5 DEF TypeOK
<1>5. agent' \in Agents /\ agent'.at = "idle"
  BY AwayTyped DEF AgentDies
<1>6. TypeOK' /\ AgentReady'
  BY <1>1, <1>2, <1>3, <1>4, <1>5 DEF AgentDies, TypeOK, AgentReady, results
<1>7. TodoThere' /\ PointerNamesSession' /\ CandidateOnce'
  BY <1>2, <1>3 DEF IInv, TodoThere, Settled, PointerNamesSession, CandidateOnce,
                    results
<1>8. Extracting'
  BY <1>1, <1>2, AgentOpKeeps
<1>. QED  BY <1>3, <1>6, <1>7, <1>8 DEF Step, IInv

----------------------------------------------------------------------------
(* The capture processor *)

Tallied == upsets \in 0 .. MaxUpsets

(* A run of the processor moves on, with an operation asked for or none.   *)
LEMMA MovesKeeps ==
  ASSUME IInv, NEW p \in Processors, UNCHANGED <<files, agent, byHand>>, Tallied',
         reported' \subseteq 1 .. MaxSessions,
         kept' \in [1 .. MaxEvents -> Nat], CandidateOnce',
         NEW o \in Ops, op' = [op EXCEPT ![p] = o],
         o.kind \in {"close", "rebuild"} =>
           o.session \in Sessions /\ (o.status # "open" \/ o.session \in byHand),
         NEW at \in {"off", "called", "recovering", "looking", "choosing",
                     "rebuilding", "extracting"},
         NEW todo \in SUBSET Sessions, Moves(p, at, todo),
         at \in {"looking", "rebuilding", "extracting"} => todo # {},
         at \in {"rebuilding", "extracting"} => \A s \in todo : Settled(s),
         o.kind = "extract" => at = "extracting"
  PROVE  Step
<1>1. TypeOK /\ p \in Actors /\ p # "agent"
  BY DEF IInv, Actors
<1>2. UNCHANGED <<manifest, pointer, event, agent, byHand>>
  BY DEF files
<1>3. /\ op' \in [Actors -> Ops] /\ OpsEnd' /\ StayEnded
      /\ Sessions' = Sessions /\ \A s : IsEnded(s)' = IsEnded(s)
  BY <1>1, <1>2, AskedKeeps
<1>4. [at |-> at, todo |-> todo] \in Runs
  BY <1>1 DEF Runs, TypeOK, Sessions
<1>5. /\ worker' \in [Processors -> Runs]
      /\ \A q \in Processors :
           worker'[q] = IF q = p THEN [at |-> at, todo |-> todo] ELSE worker[q]
  BY <1>1, <1>4 DEF Moves, TypeOK
<1>6. TypeOK'
  BY <1>1, <1>2, <1>3, <1>5 DEF TypeOK, Tallied
<1>7. TodoThere'
  BY <1>2, <1>3, <1>5 DEF IInv, TodoThere, Settled
<1>8. AgentReady'
  BY <1>1, <1>2 DEF IInv, AgentReady, TypeOK
<1>9. PointerNamesSession'
  BY <1>2, <1>3 DEF IInv, PointerNamesSession
<1>10. Extracting'
  <2>1. \A q \in Processors : op'[q] = IF q = p THEN o ELSE op[q]
    BY <1>1 DEF TypeOK, Actors
  <2>. QED  BY <1>5, <2>1 DEF IInv, Extracting
<1>. QED  BY <1>3, <1>6, <1>7, <1>8, <1>9, <1>10 DEF Step, IInv

(* Nothing is awaited at rest, and nothing if the operation stays.         *)
LEMMA RestTyped ==
  ASSUME IInv, NEW p \in Processors
  PROVE  /\ NoOp \in Ops /\ ~(NoOp.kind \in {"close", "rebuild"})
         /\ op[p] = NoOp => op = [op EXCEPT ![p] = NoOp]
         /\ worker[p].todo \subseteq Sessions
         /\ worker[p].todo # {} => Min(worker[p].todo) \in worker[p].todo
<1>1. TypeOK /\ p \in Actors
  BY DEF IInv, Actors
<1>2. worker[p].todo \subseteq Sessions
  BY DEF IInv, TodoThere
<1>3. Sessions \subseteq Nat
  BY <1>1 DEF TypeOK, Sessions
<1>4. worker[p].todo # {} => Min(worker[p].todo) \in worker[p].todo
  <2>1. worker[p].todo \in SUBSET Nat
    BY <1>2, <1>3
  <2>. QED  BY <2>1, LeastIsMember
<1>5. NoOp \in Ops /\ ~(NoOp.kind \in {"close", "rebuild"})
  BY DEF Ops, NoOp
<1>6. op[p] = NoOp => op = [op EXCEPT ![p] = NoOp]
  BY <1>1 DEF TypeOK
<1>. QED  BY <1>2, <1>4, <1>5, <1>6

LEMMA KeepsTyped ==
  ASSUME IInv, UNCHANGED results
  PROVE  /\ reported' \subseteq 1 .. MaxSessions
         /\ kept' \in [1 .. MaxEvents -> Nat] /\ CandidateOnce'
  BY DEF IInv, TypeOK, CandidateOnce, results

LEMMA OutsideKeeps ==
  ASSUME IInv, UNCHANGED outside
  PROVE  byHand' = byHand /\ Tallied'
  BY DEF IInv, TypeOK, Tallied, outside

(* A run moves on, with nothing asked for that ends a session or extracts. *)
LEMMA IdleMovesKeeps ==
  ASSUME IInv, NEW p \in Processors, Keeps,
         NEW o \in Ops, op' = [op EXCEPT ![p] = o],
         ~(o.kind \in {"close", "rebuild", "extract"}),
         NEW at \in {"off", "called", "recovering", "looking", "choosing",
                     "rebuilding", "extracting"},
         NEW todo \in SUBSET Sessions, Moves(p, at, todo),
         at \in {"looking", "rebuilding", "extracting"} => todo # {},
         at \in {"rebuilding", "extracting"} => \A s \in todo : Settled(s)
  PROVE  Step
<1>1. /\ reported' \subseteq 1 .. MaxSessions
      /\ kept' \in [1 .. MaxEvents -> Nat] /\ CandidateOnce'
  BY KeepsTyped DEF Keeps
<1>2. UNCHANGED <<files, agent, byHand>> /\ Tallied'
  BY OutsideKeeps DEF Keeps
<1>. QED  BY <1>1, <1>2, MovesKeeps

(* A run at rest moves on without asking for anything.                     *)
LEMMA RestMovesKeeps ==
  ASSUME IInv, NEW p \in Processors, op[p] = NoOp, UNCHANGED op, Keeps,
         NEW at \in {"off", "called", "recovering", "looking", "choosing",
                     "rebuilding", "extracting"},
         NEW todo \in SUBSET Sessions, Moves(p, at, todo),
         at \in {"looking", "rebuilding", "extracting"} => todo # {},
         at \in {"rebuilding", "extracting"} => \A s \in todo : Settled(s)
  PROVE  Step
<1>1. PICK o \in Ops :
        op' = [op EXCEPT ![p] = o] /\ ~(o.kind \in {"close", "rebuild", "extract"})
  BY RestTyped DEF NoOp
<1>. QED  BY <1>1, IdleMovesKeeps

(* A run moves on and asks for the manifest of a session to be ended.      *)
LEMMA AskingMovesKeeps ==
  ASSUME IInv, NEW p \in Processors, Keeps,
         NEW o \in Ops, op' = [op EXCEPT ![p] = o],
         o.kind # "extract", o.session \in Sessions,
         o.status # "open" \/ o.session \in byHand,
         NEW at \in {"off", "called", "recovering", "looking", "choosing",
                     "rebuilding", "extracting"},
         NEW todo \in SUBSET Sessions, Moves(p, at, todo),
         at \in {"looking", "rebuilding", "extracting"} => todo # {},
         at \in {"rebuilding", "extracting"} => \A s \in todo : Settled(s)
  PROVE  Step
<1>1. /\ reported' \subseteq 1 .. MaxSessions
      /\ kept' \in [1 .. MaxEvents -> Nat] /\ CandidateOnce'
  BY KeepsTyped DEF Keeps
<1>2. UNCHANGED <<files, agent, byHand>> /\ Tallied'
  BY OutsideKeeps DEF Keeps
<1>. QED  BY <1>1, <1>2, MovesKeeps

LEMMA RecoverKeeps ==
  ASSUME IInv, NEW p \in Processors, Recover(p)
  PROVE  Step
<1>. DEFINE s == Min(Orphans(p))
            left == {t \in Listed(p) : t > s}
            o == CloseOp(s, "interrupted")
<1>1. Listed(p) \subseteq Sessions /\ Orphans(p) \subseteq Sessions
  BY RestTyped DEF Listed, Orphans
<1>2. s \in Sessions
  <2>1. Orphans(p) \in SUBSET Nat
    BY <1>1 DEF Sessions, IInv, TypeOK
  <2>. QED  BY <1>1, <2>1, LeastIsMember DEF Recover
<1>3. left \subseteq Sessions
  BY <1>1
<1>4. op' = [op EXCEPT ![p] = o] /\ Moves(p, "recovering", left)
  BY DEF Recover, Awaits
<1>. HIDE DEF s, left, o
<1>5. /\ o \in Ops /\ o.kind # "extract"
      /\ o.session \in Sessions /\ o.status # "open"
  BY <1>2, CloseOpTyped DEF o
<1>6. left \in SUBSET Sessions
  BY <1>3
<1>7. Keeps
  BY DEF Recover
<1>. QED  BY <1>4, <1>5, <1>6, <1>7, AskingMovesKeeps

LEMMA LookForIdleKeeps ==
  ASSUME IInv, NEW p \in Processors, LookForIdle(p)
  PROVE  Step
<1>1. {pointer} \in SUBSET Sessions /\ {pointer} # {}
  BY DEF LookForIdle, Pointed, IInv, PointerNamesSession
<1>2. /\ op[p] = NoOp /\ UNCHANGED op /\ Keeps
      /\ Moves(p, "looking", {pointer})
  BY DEF LookForIdle, Recovering, Begins, AtRest
<1>. QED  BY <1>1, <1>2, RestMovesKeeps

LEMMA CloseIdleKeeps ==
  ASSUME IInv, NEW p \in Processors, CloseIdle(p)
  PROVE  Step
<1>. DEFINE o == CloseOp(Min(worker[p].todo), "interrupted")
<1>1. Min(worker[p].todo) \in Sessions
  BY RestTyped DEF CloseIdle, AtRest, IInv, TodoThere
<1>2. op' = [op EXCEPT ![p] = o] /\ Moves(p, "choosing", {}) /\ Keeps
  BY DEF CloseIdle, Awaits
<1>. HIDE DEF o
<1>3. /\ o \in Ops /\ o.kind # "extract"
      /\ o.session \in Sessions /\ o.status # "open"
  BY <1>1, CloseOpTyped DEF o
<1>4. {} \in SUBSET Sessions
  OBVIOUS
<1>. QED  BY <1>2, <1>3, <1>4, AskingMovesKeeps

LEMMA LeaveOpenKeeps ==
  ASSUME IInv, NEW p \in Processors, LeaveOpen(p) \/ NothingPending(p)
  PROVE  Step
<1>1. op[p] = NoOp /\ UNCHANGED op /\ Keeps
  BY DEF LeaveOpen, NothingPending, Chooses, Recovering, Begins, AtRest
<1>2. Moves(p, "off", {}) \/ Moves(p, "choosing", {})
  BY DEF LeaveOpen, NothingPending
<1>3. {} \in SUBSET Sessions
  OBVIOUS
<1>. QED  BY <1>1, <1>2, <1>3, RestMovesKeeps

(* A batch has at least one session, and all of its sessions are ended.    *)
LEMMA BatchOfEnded ==
  ASSUME IInv, Pending # {}, NEW B \in Batches
  PROVE  B \subseteq Sessions /\ B # {} /\ \A s \in B : Settled(s)
<1>. DEFINE n == Cardinality(Pending)
            k == Min({BatchSize, n})
<1>1. B \subseteq Pending /\ Cardinality(B) = k
  BY DEF Batches
<1>2. IsFiniteSet(Pending)
  <2>1. IsFiniteSet(1 .. Len(manifest)) /\ Pending \subseteq 1 .. Len(manifest)
    <3>1. Len(manifest) \in Nat /\ Sessions = 1 .. Len(manifest)
      BY DEF Sessions, IInv, TypeOK
    <3>2. IsFiniteSet(1 .. Len(manifest))
      BY <3>1, FS_Interval
    <3>. QED  BY <3>1, <3>2 DEF Pending
  <2>. QED  BY <2>1, FS_Subset
<1>3. n \in Nat /\ n # 0
  BY <1>2, FS_CardinalityType, FS_EmptySet
<1>. HIDE DEF n
<1>4. k \in {BatchSize, n}
  <2>1. {BatchSize, n} \in SUBSET Nat
    BY <1>3
  <2>. QED  BY <2>1, LeastIsMember
<1>5. k # 0
  BY <1>3, <1>4
<1>6. B # {}
  BY <1>1, <1>5, FS_EmptySet
<1>. QED  BY <1>1, <1>6 DEF Pending, Settled, IsEnded, IsOpen

LEMMA ChooseKeeps ==
  ASSUME IInv, NEW p \in Processors, Choose(p)
  PROVE  Step
<1>1. PICK B \in Batches : Moves(p, "rebuilding", B)
  BY DEF Choose
<1>2. B \subseteq Sessions /\ B # {} /\ \A s \in B : Settled(s)
  BY BatchOfEnded DEF Choose
<1>3. op[p] = NoOp /\ UNCHANGED op /\ Keeps
  BY DEF Choose, Chooses, Recovering, Begins, AtRest
<1>4. B \in SUBSET Sessions
  BY <1>2
<1>. QED  BY <1>1, <1>2, <1>3, <1>4, RestMovesKeeps

(* What a run of the processor works on next is there and settled.         *)
LEMMA NextIsSettled ==
  ASSUME IInv, NEW p \in Processors, worker[p].at \in {"rebuilding", "extracting"}
  PROVE  LET s == Min(worker[p].todo) IN
         /\ s \in Sessions /\ s \in 1 .. MaxSessions /\ Settled(s)
         /\ manifest[s].status \in Statuses /\ manifest[s].ended \in 0 .. MaxEvents
<1>. DEFINE s == Min(worker[p].todo)
<1>1. s \in worker[p].todo
  BY RestTyped DEF IInv, TodoThere
<1>2. s \in Sessions /\ Settled(s)
  BY <1>1 DEF IInv, TodoThere
<1>. HIDE DEF s
<1>3. manifest[s] \in Manifests /\ s \in 1 .. MaxSessions
  BY <1>2 DEF IInv, TypeOK, Sessions
<1>4. manifest[s].status \in Statuses /\ manifest[s].ended \in 0 .. MaxEvents
  BY <1>3 DEF Manifests
<1>. QED  BY <1>2, <1>3, <1>4 DEF s

LEMMA RebuildKeeps ==
  ASSUME IInv, NEW p \in Processors, Rebuild(p)
  PROVE  Step
<1>. DEFINE s == Min(worker[p].todo)
            o == RebuildOp(s)
<1>1. /\ s \in Sessions /\ s \in 1 .. MaxSessions /\ Settled(s)
      /\ manifest[s].status \in Statuses /\ manifest[s].ended \in 0 .. MaxEvents
  BY NextIsSettled DEF Rebuild, AtRest
<1>2. op' = [op EXCEPT ![p] = o] /\ Moves(p, "extracting", worker[p].todo)
  BY DEF Rebuild, Awaits
<1>. HIDE DEF s
<1>3. /\ o \in Ops /\ o.kind # "extract"
      /\ o.session \in Sessions
      /\ o.status # "open" \/ o.session \in byHand
  BY <1>1 DEF RebuildOp, Ops, Settled, IsEnded
<1>. HIDE DEF o
<1>4. Keeps
  BY DEF Rebuild
<1>5. /\ worker[p].todo \in SUBSET Sessions /\ worker[p].todo # {}
      /\ \A t \in worker[p].todo : Settled(t)
  BY DEF Rebuild, AtRest, IInv, TodoThere
<1>. QED  BY <1>2, <1>3, <1>4, <1>5, AskingMovesKeeps

LEMMA ExtractKeeps ==
  ASSUME IInv, NEW p \in Processors, Extract(p)
  PROVE  Step
<1>. DEFINE s == Min(worker[p].todo)
            o == ExtractOp(s)
<1>1. TypeOK /\ s \in 1 .. MaxSessions
  BY NextIsSettled DEF Extract, AtRest, IInv
<1>2. op' = [op EXCEPT ![p] = o]
  BY DEF Extract, Awaits
<1>. HIDE DEF s
<1>3. o \in Ops /\ o.kind = "extract"
  <2>1. Gather(s, manifest[s].ended) \subseteq 1 .. MaxEvents
    BY <1>1 DEF Gather, TypeOK
  <2>. QED  BY <1>1, <2>1 DEF ExtractOp, Ops
<1>. HIDE DEF o
<1>4. UNCHANGED <<files, agent, results, byHand>> /\ Tallied'
  BY OutsideKeeps DEF Extract, Keeps
<1>5. /\ worker[p].todo \subseteq Sessions /\ worker[p].todo # {}
      /\ \A t \in worker[p].todo : Settled(t)
  BY DEF Extract, AtRest, IInv, TodoThere
<1>6. Moves(p, "extracting", worker[p].todo)
  <2>1. worker[p] \in Runs /\ worker[p].at = "extracting"
    BY <1>1 DEF Extract, AtRest, TypeOK
  <2>2. worker[p] = [at |-> "extracting", todo |-> worker[p].todo]
    BY <2>1 DEF Runs
  <2>3. worker' = worker
    BY DEF Extract
  <2>4. worker = [worker EXCEPT ![p] = worker[p]]
    BY <1>1 DEF TypeOK
  <2>. QED  BY <2>2, <2>3, <2>4 DEF Moves
<1>. QED  BY <1>2, <1>3, <1>4, <1>5, <1>6, KeepsTyped, MovesKeeps

LEMMA ExtractRefusedKeeps ==
  ASSUME IInv, NEW p \in Processors, ExtractRefused(p)
  PROVE  Step
<1>. DEFINE left == worker[p].todo \ {Min(worker[p].todo)}
            at == IF left = {} THEN "off" ELSE "rebuilding"
<1>1. op[p] = NoOp /\ UNCHANGED op /\ Keeps /\ Moves(p, at, left)
  BY DEF ExtractRefused, AtRest, GoesOn
<1>2. left \in SUBSET Sessions /\ \A s \in left : Settled(s)
  BY DEF ExtractRefused, AtRest, IInv, TodoThere
<1>. HIDE DEF left
<1>3. CASE left = {}
  <2>1. Moves(p, "off", {}) /\ {} \in SUBSET Sessions
    BY <1>1, <1>3
  <2>. QED  BY <1>1, <2>1, RestMovesKeeps
<1>4. CASE left # {}
  <2>1. Moves(p, "rebuilding", left)
    BY <1>1, <1>4
  <2>. QED  BY <1>1, <1>2, <1>4, <2>1, RestMovesKeeps
<1>. QED  BY <1>3, <1>4

(* A POST begins a run; nothing was awaited.                               *)
LEMMA PostKeeps ==
  ASSUME IInv, NEW p \in Processors, Post(p)
  PROVE  Step
<1>. DEFINE o == op[p]
<1>1. TypeOK /\ p \in Actors /\ o \in Ops
  BY DEF IInv, TypeOK, Actors
<1>2. op' = [op EXCEPT ![p] = o]
  BY <1>1 DEF Post, TypeOK
<1>3. UNCHANGED <<files, agent, byHand, results>> /\ Tallied'
  BY <1>1 DEF Post, TypeOK, Tallied
<1>4. o.kind # "extract"
  BY DEF Post, Off, IInv, Extracting
<1>5. o.kind \in {"close", "rebuild"} =>
        o.session \in Sessions /\ (o.status # "open" \/ o.session \in byHand)
  BY <1>1 DEF IInv, OpsEnd
<1>6. Moves(p, "called", {}) /\ {} \in SUBSET Sessions
  BY DEF Post
<1>. HIDE DEF o
<1>. QED  BY <1>1, <1>2, <1>3, <1>4, <1>5, <1>6, KeepsTyped, MovesKeeps

LEMMA ExtractedKeeps ==
  ASSUME IInv, NEW p \in Processors, Extracted(p)
  PROVE  Step
<1>. DEFINE left == worker[p].todo \ {op[p].session}
            at == IF left = {} THEN "off" ELSE "rebuilding"
<1>1. TypeOK /\ p \in Actors /\ op[p] \in Ops
  BY DEF IInv, TypeOK, Actors
<1>2. op[p].session \in 1 .. MaxSessions
  BY <1>1 DEF Extracted, Ops, NoOp
<1>3. reported' \subseteq 1 .. MaxSessions
  BY <1>1, <1>2 DEF Extracted, TypeOK
<1>4. kept' \in [1 .. MaxEvents -> Nat] /\ CandidateOnce'
  <2>1. \A e \in 1 .. MaxEvents :
          /\ kept[e] \in Nat /\ kept[e] <= 1
          /\ kept'[e] = IF e \in New(op[p]) THEN kept[e] + 1 ELSE kept[e]
          /\ e \in New(op[p]) => kept[e] = 0
    BY <1>1 DEF Extracted, New, TypeOK, IInv, CandidateOnce
  <2>2. DOMAIN kept' = 1 .. MaxEvents
    BY <1>1 DEF Extracted, TypeOK
  <2>3. \A e \in 1 .. MaxEvents : kept'[e] \in Nat /\ kept'[e] <= 1
    BY <2>1
  <2>4. kept' = [e \in DOMAIN kept' |-> kept'[e]]
    BY DEF Extracted
  <2>. QED  BY <2>2, <2>3, <2>4 DEF CandidateOnce
<1>5. op' = [op EXCEPT ![p] = NoOp] /\ Moves(p, at, left)
  BY DEF Extracted, Awaits, GoesOn
<1>6. /\ left \in SUBSET Sessions
      /\ left # {} => \A s \in left : Settled(s)
  <2>1. worker[p].at = "extracting"
    BY DEF Extracted, IInv, Extracting
  <2>. QED  BY <2>1 DEF IInv, TodoThere
<1>7. UNCHANGED <<files, agent, byHand>> /\ Tallied'
  BY OutsideKeeps DEF Extracted, outside
<1>8. /\ NoOp \in Ops /\ ~(NoOp.kind \in {"close", "rebuild"})
      /\ NoOp.kind # "extract"
  BY DEF Ops, NoOp
<1>9. CASE left = {}
  <2>1. Moves(p, "off", {}) /\ {} \in SUBSET Sessions
    BY <1>5, <1>9
  <2>. QED  BY <1>3, <1>4, <1>5, <1>7, <1>8, <2>1, MovesKeeps
<1>10. CASE left # {}
  <2>1. Moves(p, "rebuilding", left)
    BY <1>5, <1>10
  <2>. HIDE DEF left
  <2>. QED  BY <1>3, <1>4, <1>5, <1>6, <1>7, <1>8, <1>10, <2>1, MovesKeeps
<1>. QED  BY <1>9, <1>10

LEMMA ProcessorSavesKeeps ==
  ASSUME IInv, NEW p \in Processors, ProcessorSaves(p)
  PROVE  Step
<1>1. TypeOK /\ p \in Actors /\ p # "agent"
  BY DEF IInv, Actors
<1>2. /\ manifest' \in Seq(Manifests) /\ Len(manifest') = Len(manifest)
      /\ op' \in [Actors -> Ops] /\ pointer' \in {pointer, NoSession}
      /\ StayEnded /\ OpsEnd'
  BY <1>1, SavedKeeps DEF ProcessorSaves, outside
<1>3. Sessions' = Sessions
  BY <1>1, <1>2 DEF Sessions, TypeOK
<1>4. UNCHANGED <<event, agent, worker, results, outside>>
  BY DEF ProcessorSaves
<1>5. op' = [op EXCEPT ![p] = NoOp]
  BY DEF ProcessorSaves, Saved
<1>6. TypeOK'
  BY <1>1, <1>2, <1>4 DEF TypeOK, results, outside
<1>7. AgentReady'
  BY <1>1, <1>2, <1>4, <1>5 DEF IInv, AgentReady, TypeOK
<1>8. TodoThere'
  BY <1>2, <1>3, <1>4 DEF IInv, TodoThere, Settled, StayEnded, IsEnded, outside
<1>9. Extracting'
  <2>1. \A q \in Processors : op'[q] = op[q] \/ op'[q].kind = "none"
    BY <1>1, <1>5 DEF TypeOK, Actors, NoOp
  <2>. QED  BY <1>4, <2>1 DEF IInv, Extracting
<1>10. PointerNamesSession' /\ CandidateOnce'
  BY <1>2, <1>3, <1>4 DEF IInv, PointerNamesSession, CandidateOnce, results
<1>. QED  BY <1>2, <1>6, <1>7, <1>8, <1>9, <1>10 DEF Step, IInv

(* Of a session that is rebuilt by hand while it is open nothing is        *)
(* promised from then on.                                                  *)
LEMMA RebuildByHandKeeps ==
  ASSUME IInv, NEW s \in Sessions, RebuildByHand(s)
  PROVE  Step
<1>. DEFINE o == RebuildOp(s)
<1>1. TypeOK /\ "hand" \in Actors /\ s \in 1 .. MaxSessions
  BY DEF IInv, TypeOK, Actors, Sessions
<1>2. /\ op' = [op EXCEPT !["hand"] = o]
      /\ UNCHANGED <<manifest, pointer, event, agent, worker, results>>
      /\ byHand \subseteq byHand' /\ byHand' \subseteq 1 .. MaxSessions
      /\ IsOpen(s) => s \in byHand'
  BY <1>1 DEF RebuildByHand, files, TypeOK
<1>3. /\ o \in Ops /\ o.kind = "rebuild" /\ o.session \in Sessions
      /\ o.status # "open" \/ o.session \in byHand'
  <2>1. manifest[s] \in Manifests
    BY <1>1 DEF TypeOK, Sessions
  <2>. QED  BY <1>1, <1>2, <2>1 DEF RebuildOp, Ops, Manifests, IsOpen
<1>. HIDE DEF o
<1>4. /\ op' \in [Actors -> Ops] /\ OpsEnd' /\ StayEnded
      /\ Sessions' = Sessions /\ \A t : IsEnded(t)' = IsEnded(t)
  BY <1>1, <1>2, <1>3, AskedKeeps
<1>5. \A a \in Actors : a # "hand" => op'[a] = op[a]
  BY <1>1, <1>2 DEF TypeOK
<1>6. TypeOK'
  BY <1>1, <1>2, <1>4 DEF RebuildByHand, TypeOK, results
<1>7. AgentReady'
  BY <1>2, <1>5 DEF IInv, AgentReady, Actors
<1>8. TodoThere'
  BY <1>2, <1>4 DEF IInv, TodoThere, Settled
<1>9. Extracting'
  BY <1>2, <1>5 DEF IInv, Extracting, Actors
<1>10. PointerNamesSession' /\ CandidateOnce'
  BY <1>2, <1>4 DEF IInv, PointerNamesSession, CandidateOnce, results
<1>. QED  BY <1>4, <1>6, <1>7, <1>8, <1>9, <1>10 DEF Step, IInv

LEMMA RebuiltByHandKeeps == IInv /\ RebuiltByHand => Step
<1>. SUFFICES ASSUME IInv, RebuiltByHand PROVE Step
  OBVIOUS
<1>1. TypeOK /\ "hand" \in Actors
  BY DEF IInv, Actors
<1>2. UNCHANGED <<event, agent, worker, results, outside>>
  BY DEF RebuiltByHand
<1>3. /\ manifest' \in Seq(Manifests) /\ Len(manifest') = Len(manifest)
      /\ op' \in [Actors -> Ops] /\ pointer' \in {pointer, NoSession}
      /\ StayEnded /\ OpsEnd'
  BY <1>1, <1>2, SavedKeeps DEF RebuiltByHand, outside
<1>4. Sessions' = Sessions
  BY <1>1, <1>3 DEF Sessions, TypeOK
<1>5. \A a \in Actors : a # "hand" => op'[a] = op[a]
  BY <1>1 DEF RebuiltByHand, Saved, TypeOK
<1>6. TypeOK'
  BY <1>1, <1>2, <1>3 DEF TypeOK, results, outside
<1>7. AgentReady'
  BY <1>2, <1>3, <1>5 DEF IInv, AgentReady, Actors
<1>8. TodoThere'
  BY <1>2, <1>3, <1>4 DEF IInv, TodoThere, Settled, StayEnded, IsEnded, outside
<1>9. Extracting'
  BY <1>2, <1>5 DEF IInv, Extracting, Actors
<1>10. PointerNamesSession' /\ CandidateOnce'
  BY <1>2, <1>3, <1>4 DEF IInv, PointerNamesSession, CandidateOnce, results
<1>. QED  BY <1>3, <1>6, <1>7, <1>8, <1>9, <1>10 DEF Step, IInv

LEMMA ServerRestartsKeeps == IInv /\ ServerRestarts => Step
<1>. SUFFICES ASSUME IInv, ServerRestarts PROVE Step
  OBVIOUS
<1>1. TypeOK /\ Sessions' = Sessions /\ StayEnded
  BY SameManifest DEF IInv, ServerRestarts, files
<1>2. UNCHANGED <<manifest, pointer, event, agent, reported, kept, byHand>>
  BY DEF ServerRestarts, files, results
<1>3. op' \in [Actors -> Ops] /\ worker' \in [Processors -> Runs]
  BY <1>1 DEF ServerRestarts, TypeOK, Ops, Runs, Off
<1>4. /\ op'["agent"] = op["agent"]
      /\ \A a \in Actors : op'[a] = op[a] \/ op'[a].kind = "none"
      /\ \A p \in Processors : op'[p].kind = "none"
  BY DEF ServerRestarts, Actors, NoOp
<1>5. \A p \in Processors : worker'[p].at = "off" /\ worker'[p].todo = {}
  BY DEF ServerRestarts, Off
<1>6. TypeOK'
  BY <1>1, <1>2, <1>3 DEF TypeOK, ServerRestarts
<1>7. OpsEnd' /\ AgentReady' /\ TodoThere' /\ Extracting'
  BY <1>1, <1>2, <1>4, <1>5
  DEF IInv, OpsEnd, AgentReady, TodoThere, Settled, Extracting
<1>8. PointerNamesSession' /\ CandidateOnce'
  BY <1>1, <1>2 DEF IInv, PointerNamesSession, CandidateOnce
<1>. QED  BY <1>1, <1>6, <1>7, <1>8 DEF Step, IInv

----------------------------------------------------------------------------

LEMMA Starts == Init => IInv
<1>. SUFFICES ASSUME Init PROVE IInv
  OBVIOUS
<1>1. TypeOK
  <2>1. op \in [Actors -> Ops] /\ worker \in [Processors -> Runs]
    BY DEF Init, Ops, Off, Runs
  <2>2. /\ manifest \in Seq(Manifests) /\ Len(manifest) <= MaxSessions
        /\ event \in Seq(EventRecords) /\ Len(event) <= MaxEvents
    BY DEF Init
  <2>3. agent \in Agents
    BY AwayTyped DEF Init
  <2>4. /\ pointer \in 0 .. MaxSessions /\ reported \subseteq 1 .. MaxSessions
        /\ kept \in [1 .. MaxEvents -> Nat] /\ upsets \in 0 .. MaxUpsets
        /\ byHand \subseteq 1 .. MaxSessions
    BY DEF Init
  <2>. QED  BY <2>1, <2>2, <2>3, <2>4 DEF TypeOK
<1>2. OpsEnd /\ TodoThere /\ Extracting
  BY DEF Init, OpsEnd, TodoThere, Extracting, NoOp, Off, Actors
<1>3. AgentReady
  BY AwayTyped DEF Init, AgentReady
<1>4. PointerNamesSession /\ CandidateOnce
  BY DEF Init, PointerNamesSession, CandidateOnce
<1>. QED  BY <1>1, <1>2, <1>3, <1>4 DEF IInv

LEMMA ProcessKeeps ==
  ASSUME IInv, NEW p \in Processors, Process(p)
  PROVE  Step
  BY RecoverKeeps, LookForIdleKeeps, CloseIdleKeeps, LeaveOpenKeeps, ChooseKeeps,
     RebuildKeeps, ProcessorSavesKeeps, ExtractKeeps, ExtractRefusedKeeps, ExtractedKeeps
  DEF Process

LEMMA AgentKeeps == IInv /\ Agent => Step
  BY SaveManifestKeeps, WritePointerKeeps, SessionClosedKeeps, WaitingKeeps,
     CloseSessionKeeps DEF Agent

LEMMA StepKeeps == IInv /\ [Next]_vars => Step
<1>. SUFFICES ASSUME IInv, [Next]_vars PROVE Step
  OBVIOUS
<1>1. CASE UNCHANGED vars
  <2>1. /\ UNCHANGED <<manifest, op, worker, results, outside>>
        /\ UNCHANGED <<pointer, event, agent>>
    BY <1>1 DEF vars, files
  <2>2. AgentReady'
    BY <2>1 DEF IInv, AgentReady
  <2>3. /\ agent \in Agents
        /\ event \in Seq(EventRecords) /\ Len(event) <= MaxEvents
    BY DEF IInv, TypeOK
  <2>. QED  BY <2>1, <2>2, <2>3, QuietKeeps
<1>2. CASE Agent \/ Record \/ AgentDies \/ ServerRestarts \/ RebuiltByHand
  BY <1>2, AgentKeeps, RecordKeeps, AgentDiesKeeps, ServerRestartsKeeps,
     RebuiltByHandKeeps
<1>3. ASSUME NEW o \in Objectives, StartSession(o) PROVE Step
  BY <1>3, StartSessionKeeps
<1>4. ASSUME NEW e \in DOMAIN event, StoreEvent(e) PROVE Step
  BY <1>4, StoreEventKeeps
<1>5. ASSUME NEW p \in Processors, Post(p) \/ Process(p) PROVE Step
  BY <1>5, PostKeeps, ProcessKeeps
<1>6. ASSUME NEW s \in Sessions, RebuildByHand(s) PROVE Step
  BY <1>6, RebuildByHandKeeps
<1>. QED  BY <1>1, <1>2, <1>3, <1>4, <1>5, <1>6 DEF Next

LEMMA IInvHolds == Spec => []IInv
<1>1. IInv /\ [Next]_vars => IInv'
  BY StepKeeps DEF Step
<1>. QED  BY Starts, <1>1, PTL DEF Spec

(* Manifests, events and the state of every actor are of their kind.       *)
THEOREM TypeCorrect == Spec => []TypeOK
<1>1. IInv => TypeOK
  BY DEF IInv
<1>. QED  BY <1>1, IInvHolds, PTL

(* The pointer of the active session never dangles.                        *)
THEOREM PointerIsSound == Spec => []PointerNamesSession
<1>1. IInv => PointerNamesSession
  BY DEF IInv
<1>. QED  BY <1>1, IInvHolds, PTL

(* No event yields two candidates, however many runs of the processor      *)
(* extract from it at once: duplicates are looked for in the turn that     *)
(* saves.                                                                  *)
THEOREM CandidatesComeOnce == Spec => []CandidateOnce
<1>1. IInv => CandidateOnce
  BY DEF IInv
<1>. QED  BY <1>1, IInvHolds, PTL

(* An ended session stays ended as long as nobody has rebuilt it by hand   *)
(* while it was open: what the processor writes back from an old reading   *)
(* was ended when it was read.  Of a session rebuilt by hand while open    *)
(* nothing is said; rebuildSession may open it again.                      *)
THEOREM SessionsStayEnded == Spec => EndedStaysEnded
<1>1. IInv /\ [Next]_vars =>
        [\A s \in Sessions \ byHand :
           ~IsOpen(s) => manifest'[s].status # "open"]_vars
  BY StepKeeps DEF Step, StayEnded, IsEnded, IsOpen
<1>. QED  BY <1>1, IInvHolds, PTL DEF Spec, EndedStaysEnded
=============================================================================
