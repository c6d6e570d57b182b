----------------------------- MODULE DevSessions -----------------------------
(***************************************************************************)
(* Development sessions and their capture (companion/memory/events).       *)
(*                                                                         *)
(* The sequencer of the agents opens a session for an objective, records   *)
(* events while it works and closes the session.  In the server, the       *)
(* capture processor looks at the same files: it closes sessions that were *)
(* left open or have gone quiet, rebuilds the manifests of ended sessions  *)
(* and extracts candidates from their events.  The worker's tick and a     *)
(* POST to /memory/capture/process may run the processor at once.  The     *)
(* operator may rebuild any session by hand (npm run                       *)
(* memory:session:rebuild), the active one by default.                     *)
(*                                                                         *)
(* What is read before an await is kept in op and used after it.  Events   *)
(* are numbered in the order they occur; a session lasts from the event    *)
(* after started to the event ended.                                       *)
(***************************************************************************)
EXTENDS Naturals, Sequences, FiniteSets, FiniteSetsExt

CONSTANTS
  Objectives,   \* what sessions are opened for
  Processors,   \* runs of the capture processor that may overlap ...
  Ticker,       \* ... one of them the worker's own, the others by POST
  BatchSize,    \* sessions one run of the processor extracts from
  MaxSessions,  \* bound: sessions ever started
  MaxEvents,    \* bound: events ever recorded
  MaxUpsets     \* bound: deaths of the sequencer, restarts of the server,
                \* POSTs and rebuilds by hand

ASSUME ActorsAssumption ==
  /\ Objectives # {} /\ Ticker \in Processors
  /\ "agent" \notin Processors /\ "hand" \notin Processors
ASSUME BoundsAssumption ==
  /\ BatchSize \in Nat \ {0}
  /\ MaxSessions \in Nat /\ MaxEvents \in Nat /\ MaxUpsets \in Nat

VARIABLES
  manifest,  \* session manifests, in the order of their sessions
  pointer,   \* active-session.json
  event,     \* events, stored or still being written
  agent,     \* what the sequencer is doing
  op,        \* close, rebuild or extraction waiting for its events
  worker,    \* where each run of the processor is
  reported,  \* sessions with an extraction report
  kept,      \* candidates saved from each event
  byHand,    \* history: sessions rebuilt by hand while they were open
  upsets     \* deaths, restarts, POSTs and rebuilds by hand so far

files == <<manifest, pointer, event>>
results == <<reported, kept>>
outside == <<byHand, upsets>>
vars == <<files, agent, op, worker, results, outside>>

NoSession == 0
Always == MaxEvents   \* no end yet: nothing is cut off
Actors == {"agent", "hand"} \cup Processors

Statuses == {"open", "closed", "interrupted"}
Manifests == [status : Statuses, objective : Objectives,
              started : 0 .. MaxEvents, ended : 0 .. MaxEvents]
EventRecords == [session : 0 .. MaxSessions, objective : Objectives,
                 at : {"writing", "stored", "lost"}]

Agents == [at : {"idle", "marking", "pointing", "working", "closing", "after"},
           objective : Objectives]
Runs == [at : {"off", "called", "recovering", "looking", "choosing", "rebuilding", "extracting"},
         todo : SUBSET (1 .. MaxSessions)]
NoOp == [kind |-> "none"]
Ops == {NoOp}
  \cup [kind : {"close", "rebuild"}, session : 1 .. MaxSessions,
        status : Statuses, ended : 0 .. MaxEvents]
  \cup [kind : {"extract"}, session : 1 .. MaxSessions,
        seen : SUBSET (1 .. MaxEvents)]
Off == [at |-> "off", todo |-> {}]
Away == [at |-> "idle", objective |-> CHOOSE o \in Objectives : TRUE]

Init ==
  /\ manifest = <<>> /\ pointer = NoSession /\ event = <<>>
  /\ agent = Away
  /\ op = [a \in Actors |-> NoOp]
  /\ worker = [p \in Processors |-> Off]
  /\ reported = {} /\ kept = [e \in 1 .. MaxEvents |-> 0]
  /\ byHand = {} /\ upsets = 0

-----------------------------------------------------------------------------
(* Manifests and their events *)

Sessions == DOMAIN manifest
IsOpen(s) == manifest[s].status = "open"
Now == Len(event)

(* eventBelongsToSession: by session id or, within the session, by         *)
(* objective; the query cuts off what occurred before or after it.         *)
Belongs(e, s, ended) ==
  /\ manifest[s].started < e /\ e <= ended
  /\ event[e].session = s \/ event[e].objective = manifest[s].objective

(* gatherSessionEvents: what is on disk when the query lists the files. *)
Gather(s, ended) ==
  {e \in DOMAIN event : event[e].at = "stored" /\ Belongs(e, s, ended)}

(* closeSession up to its await: whatever the manifest says is replaced. *)
CloseOp(s, status) ==
  [kind |-> "close", session |-> s, status |-> status, ended |-> Now]

(* rebuildSession up to its await: status and end are those of the file. *)
RebuildOp(s) ==
  [kind |-> "rebuild", session |-> s, status |-> manifest[s].status,
   ended |-> manifest[s].ended]

(* extractFromSession up to its await. *)
ExtractOp(s) ==
  [kind |-> "extract", session |-> s, seen |-> Gather(s, manifest[s].ended)]

Ended(s, status, ended) ==
  [manifest EXCEPT ![s] = [manifest[s] EXCEPT !.status = status, !.ended = ended]]

(* The events are there: the manifest is saved, and a close clears the     *)
(* pointer if it still names the session.                                  *)
Saved(a) ==
  LET o == op[a] IN
    /\ manifest' = Ended(o.session, o.status, o.ended)
    /\ pointer' = IF o.kind = "close" /\ pointer = o.session
                  THEN NoSession ELSE pointer
    /\ op' = [op EXCEPT ![a] = NoOp]

-----------------------------------------------------------------------------
(* The sequencer and the agents it launches *)

(* Mutant: the session is announced before its manifest is there. *)
StartPointed(o) ==
  /\ agent.at = "idle" /\ Len(manifest) < MaxSessions
  /\ agent' = [at |-> "marking", objective |-> o]
  /\ pointer' = Len(manifest) + 1
  /\ UNCHANGED <<manifest, event, op, worker, results, outside>>

(* startSession: a session the pointer still names is interrupted ... *)
StartSession(o) ==
  /\ agent.at = "idle" /\ Len(manifest) < MaxSessions
  /\ agent' = [at |-> "marking", objective |-> o]
  /\ manifest' = IF pointer = NoSession \/ ~IsOpen(pointer) THEN manifest
                 ELSE Ended(pointer, "interrupted", Now)
  /\ pointer' = NoSession
  /\ UNCHANGED <<event, op, worker, results, outside>>

(* ... then the marker and the manifest are saved ... *)
SaveManifest ==
  /\ agent.at = "marking"
  /\ manifest' = Append(manifest,
       [status |-> "open", objective |-> agent.objective, started |-> Now,
        ended |-> Always])
  /\ agent' = [agent EXCEPT !.at = "pointing"]
  /\ UNCHANGED <<pointer, event, op, worker, results, outside>>

(* ... and last the pointer. *)
WritePointer ==
  /\ agent.at = "pointing"
  /\ pointer' = Len(manifest)
  /\ agent' = [agent EXCEPT !.at = "working"]
  /\ UNCHANGED <<manifest, event, op, worker, results, outside>>

(* recordCaptureEvent: the event is built with the session the pointer     *)
(* names; the file is written later.                                       *)
Record ==
  /\ agent.at \in {"working", "closing", "after"}
  /\ Len(event) < MaxEvents
  /\ event' = Append(event, [session |-> pointer, objective |-> agent.objective,
                             at |-> "writing"])
  /\ UNCHANGED <<manifest, pointer, agent, op, worker, results, outside>>

StoreEvent(e) ==
  /\ event[e].at = "writing"
  /\ event' = [event EXCEPT ![e].at = "stored"]
  /\ UNCHANGED <<manifest, pointer, agent, op, worker, results, outside>>

(* closeSession without an id: the session the pointer names, if any. *)
CloseSession(complete) ==
  /\ agent.at = "working" /\ pointer # NoSession
  /\ agent' = [agent EXCEPT !.at = "closing"]
  /\ op' = [op EXCEPT !["agent"] =
       CloseOp(pointer, IF complete THEN "closed" ELSE "interrupted")]
  /\ UNCHANGED <<files, worker, results, outside>>

NothingToClose ==
  /\ agent.at = "working" /\ pointer = NoSession
  /\ agent' = [agent EXCEPT !.at = "after"]
  /\ UNCHANGED <<files, op, worker, results, outside>>

SessionClosed ==
  /\ agent.at = "closing"
  /\ Saved("agent")
  /\ agent' = [agent EXCEPT !.at = "after"]
  /\ UNCHANGED <<event, worker, results, outside>>

(* The objective is filed and the loop goes on.  Nobody waits for the       *)
(* events of the outcome: they may still be being written.                 *)
NextObjective ==
  /\ agent.at = "after"
  /\ agent' = Away
  /\ UNCHANGED <<files, op, worker, results, outside>>

(* The sequencer dies, and the writes it had under way with it. *)
AgentDies ==
  /\ agent.at # "idle" /\ upsets < MaxUpsets
  /\ upsets' = upsets + 1
  /\ agent' = Away
  /\ op' = [op EXCEPT !["agent"] = NoOp]
  /\ event' = [e \in DOMAIN event |->
       IF event[e].at = "writing" THEN [event[e] EXCEPT !.at = "lost"] ELSE event[e]]
  /\ UNCHANGED <<manifest, pointer, worker, results, byHand>>

(* The operator rebuilds a session in a process of its own: the active one *)
(* or, by its id, any other; nobody asks whether it has ended.             *)
RebuildByHand(s) ==
  /\ op["hand"] = NoOp /\ upsets < MaxUpsets
  /\ upsets' = upsets + 1
  /\ op' = [op EXCEPT !["hand"] = RebuildOp(s)]
  /\ byHand' = byHand \cup (IF IsOpen(s) THEN {s} ELSE {})
  /\ UNCHANGED <<files, agent, worker, results>>

RebuiltByHand ==
  /\ op["hand"].kind = "rebuild"
  /\ Saved("hand")
  /\ UNCHANGED <<event, agent, worker, results, outside>>

-----------------------------------------------------------------------------
(* The capture processor: processOnce, from await to await *)

(* Nothing awaited: the run goes on from here. *)
AtRest(p, at) == worker[p].at = at /\ op[p] = NoOp

Moves(p, at, todo) == worker' = [worker EXCEPT ![p] = [at |-> at, todo |-> todo]]
Awaits(p, o) == op' = [op EXCEPT ![p] = o]
Keeps == UNCHANGED <<files, agent, results, outside>>

(* POST /memory/capture/process; the worker needs no call. *)
Post(p) ==
  /\ p # Ticker /\ worker[p] = Off /\ upsets < MaxUpsets
  /\ upsets' = upsets + 1
  /\ Moves(p, "called", {})
  /\ UNCHANGED <<files, agent, op, results, byHand>>

Begins(p) == AtRest(p, IF p = Ticker THEN "off" ELSE "called")

(* recoverInterruptedSessions goes through the manifests there were when   *)
(* the run began, and closes those that are open and not pointed to.       *)
Recovering(p) == Begins(p) \/ AtRest(p, "recovering")
Listed(p) == IF Begins(p) THEN Sessions ELSE worker[p].todo
Orphans(p) == {s \in Listed(p) : IsOpen(s) /\ pointer # s}

Recover(p) ==
  /\ Recovering(p) /\ Orphans(p) # {}
  /\ LET s == Min(Orphans(p)) IN
       /\ Awaits(p, CloseOp(s, "interrupted"))
       /\ Moves(p, "recovering", {t \in Listed(p) : t > s})
  /\ Keeps

(* closeIdleOpenSessions reads the pointer and awaits the events of the    *)
(* session it names.                                                       *)
Pointed == pointer # NoSession /\ IsOpen(pointer)

LookForIdle(p) ==
  /\ Recovering(p) /\ Orphans(p) = {} /\ Pointed
  /\ Moves(p, "looking", {pointer})
  /\ UNCHANGED op /\ Keeps

(* The last event is old enough.  What closeSession finds by now, it       *)
(* closes.                                                                 *)
CloseIdle(p) ==
  /\ AtRest(p, "looking")
  /\ Awaits(p, CloseOp(Min(worker[p].todo), "interrupted"))
  /\ Moves(p, "choosing", {})
  /\ Keeps

(* There was an event just now: only while an agent is at work. *)
LeaveOpen(p) ==
  /\ AtRest(p, "looking") /\ agent.at # "idle"
  /\ Moves(p, "choosing", {})
  /\ UNCHANGED op /\ Keeps

(* Mutant: whatever has no report is rebuilt, ended or not. *)
PendingOfAll == Sessions \ reported

(* Mutant: only what was closed in good order is extracted from. *)
PendingOfClosed == {s \in Sessions : manifest[s].status = "closed"} \ reported

(* listClosedSessionsPendingExtraction *)
Pending == {s \in Sessions : ~IsOpen(s)} \ reported

(* The oldest ones, as far as the batch goes; ends of one time come in any *)
(* order.                                                                  *)
Batches ==
  {B \in SUBSET Pending :
     /\ Cardinality(B) = Min({BatchSize, Cardinality(Pending)})
     /\ \A s \in B, t \in Pending \ B : manifest[s].ended <= manifest[t].ended}

Chooses(p) ==
  \/ Recovering(p) /\ Orphans(p) = {} /\ ~Pointed
  \/ AtRest(p, "choosing")

Choose(p) ==
  /\ Chooses(p) /\ Pending # {}
  /\ \E B \in Batches : Moves(p, "rebuilding", B)
  /\ UNCHANGED op /\ Keeps

NothingPending(p) ==
  /\ Chooses(p) /\ Pending = {}
  /\ Moves(p, "off", {})
  /\ UNCHANGED op /\ Keeps

Rebuild(p) ==
  /\ AtRest(p, "rebuilding")
  /\ Awaits(p, RebuildOp(Min(worker[p].todo)))
  /\ Moves(p, "extracting", worker[p].todo)
  /\ Keeps

(* The close or rebuild under way ends; the run goes on in a turn of its   *)
(* own.                                                                    *)
ProcessorSaves(p) ==
  /\ op[p].kind \in {"close", "rebuild"}
  /\ Saved(p)
  /\ UNCHANGED <<event, agent, worker, results, outside>>

Extract(p) ==
  /\ AtRest(p, "extracting") /\ ~IsOpen(Min(worker[p].todo))
  /\ Awaits(p, ExtractOp(Min(worker[p].todo)))
  /\ UNCHANGED worker /\ Keeps

(* The run is done with session s and turns to the next of its batch. *)
GoesOn(p, s) ==
  LET left == worker[p].todo \ {s} IN
    Moves(p, IF left = {} THEN "off" ELSE "rebuilding", left)

(* Nothing is extracted from a session that is open again. *)
ExtractRefused(p) ==
  /\ AtRest(p, "extracting") /\ IsOpen(Min(worker[p].todo))
  /\ GoesOn(p, Min(worker[p].todo))
  /\ UNCHANGED op /\ Keeps

(* Mutant: what has been saved before is not looked up. *)
NewUnchecked(o) == o.seen

(* partitionCandidatesForSave: a candidate whose statement is there        *)
(* already is a duplicate.                                                 *)
New(o) == {e \in o.seen : kept[e] = 0}

(* Candidates and report are saved in the turn that lists the candidates.  *)
Extracted(p) ==
  /\ op[p].kind = "extract"
  /\ kept' = [e \in DOMAIN kept |-> IF e \in New(op[p]) THEN kept[e] + 1 ELSE kept[e]]
  /\ reported' = reported \cup {op[p].session}
  /\ Awaits(p, NoOp)
  /\ GoesOn(p, op[p].session)
  /\ UNCHANGED <<files, agent, outside>>

ServerRestarts ==
  /\ \E p \in Processors : worker[p] # Off
  /\ upsets < MaxUpsets
  /\ upsets' = upsets + 1
  /\ worker' = [p \in Processors |-> Off]
  /\ op' = [a \in Actors |-> IF a \in Processors THEN NoOp ELSE op[a]]
  /\ UNCHANGED <<files, agent, results, byHand>>

-----------------------------------------------------------------------------

Process(p) ==
  \/ Recover(p) \/ LookForIdle(p) \/ CloseIdle(p) \/ LeaveOpen(p)
  \/ Choose(p) \/ NothingPending(p) \/ Rebuild(p) \/ ProcessorSaves(p)
  \/ Extract(p) \/ ExtractRefused(p) \/ Extracted(p)

Agent ==
  \/ SaveManifest \/ WritePointer \/ SessionClosed \/ NothingToClose
  \/ NextObjective
  \/ \E complete \in BOOLEAN : CloseSession(complete)

Next ==
  \/ Agent
  \/ \E o \in Objectives : StartSession(o)
  \/ Record \/ \E e \in DOMAIN event : StoreEvent(e)
  \/ AgentDies \/ ServerRestarts
  \/ RebuiltByHand \/ \E s \in Sessions : RebuildByHand(s)
  \/ \E p \in Processors : Post(p) \/ Process(p)

Spec == Init /\ [][Next]_vars

(* The worker ticks for ever and its awaits end; an objective under way    *)
(* ends.  Nobody need ever POST or rebuild by hand, a run or a rebuild     *)
(* begun so may hang, and an event may never be written.                   *)
FairSpec ==
  /\ Spec
  /\ WF_vars(Process(Ticker))
  /\ WF_vars(Agent)

-----------------------------------------------------------------------------
(* Properties *)

(* Manifests, events and the state of every actor are of their kind. *)
TypeOK ==
  /\ manifest \in Seq(Manifests) /\ Len(manifest) <= MaxSessions
  /\ pointer \in 0 .. MaxSessions
  /\ event \in Seq(EventRecords) /\ Len(event) <= MaxEvents
  /\ agent \in Agents
  /\ op \in [Actors -> Ops]
  /\ worker \in [Processors -> Runs]
  /\ reported \subseteq 1 .. MaxSessions
  /\ kept \in [1 .. MaxEvents -> Nat]
  /\ byHand \subseteq 1 .. MaxSessions /\ upsets \in 0 .. MaxUpsets

(* The pointer names a session whose manifest is there, whichever write a  *)
(* crash has cut off.                                                      *)
PointerNamesSession == pointer = NoSession \/ pointer \in Sessions

(* Neither the sequencer nor the processor ever opens an ended session     *)
(* again, although the processor writes back manifests it read before an   *)
(* await.  A session that was rebuilt by hand while it was open is left    *)
(* out: rebuildSession looks at no status and may write its "open" over an *)
(* end that came meanwhile.                                                *)
EndedStaysEnded ==
  [][\A s \in Sessions \ byHand :
       ~IsOpen(s) => manifest'[s].status # "open"]_vars

(* An event yields its candidate once, also when two runs of the           *)
(* processor, or two sessions of an objective, extract from it.            *)
CandidateOnce == \A e \in DOMAIN kept : kept[e] <= 1

(* In the end every session there is stays ended and has been extracted    *)
(* from, also when the sequencer dies between two of its writes, the       *)
(* server restarts in the middle of a run of the processor or a rebuild by *)
(* hand opens an ended session again.                                      *)
SessionsSettle == <>[](\A s \in Sessions : ~IsOpen(s) /\ s \in reported)
=============================================================================
