---------------------------- MODULE RelayRegistry ----------------------------
(***************************************************************************)
(* The registry of relay nodes (companion/relay/registry.js), an in-memory *)
(* Map of the coordinator.  A node is absent or has a status, a time of    *)
(* last sign of life (`fresh' while it is within the 60 seconds of         *)
(* isHealthy), the roles it advertises and the number of its dispatches.   *)
(* Labels, hardware and the failure count are reported only.               *)
(***************************************************************************)
EXTENDS Integers

CONSTANTS Nodes, Roles,
          Seeds,     \* the sets of nodes the configuration may name
          MaxSigns   \* bound: registrations, heartbeats and removals of a behaviour

ASSUME RegistryAssumption == Seeds \subseteq SUBSET Nodes /\ MaxSigns \in Nat

VARIABLES nodes,     \* nodeId -> record, the Map
          signs,     \* bound: how many of them happened
          silent     \* history: nodes that failed an exchange and gave no sign since

regVars == <<nodes, signs, silent>>

Absent == [status |-> "absent", fresh |-> FALSE, roles |-> {}, dispatches |-> 0]

(* createNodeRecord *)
NewNode(roles) ==
  [status |-> "unknown", fresh |-> TRUE, roles |-> roles, dispatches |-> 0]

Registered(n) == nodes[n].status # "absent"

(* MUTANT of IsHealthy: only the time of the last sign of life counts *)
IsFresh(n) == nodes[n].fresh

IsHealthy(n) == nodes[n].status \in {"unknown", "healthy"} /\ nodes[n].fresh

(* markUnhealthy and recordDispatch: no effect on a node that was removed *)
MarkUnhealthy(reg, n) ==
  IF reg[n].status = "absent" THEN reg
  ELSE [reg EXCEPT ![n].status = "unhealthy"]

RecordDispatch(reg, n) ==
  IF reg[n].status = "absent" THEN reg
  ELSE [reg EXCEPT ![n].dispatches = @ + 1]

(* listHealthy, for one role *)
Candidates(role) == {n \in Nodes : IsHealthy(n) /\ role \in nodes[n].roles}

(* selectForRole: the candidates with the fewest dispatches *)
SelectForRole(role) ==
  {n \in Candidates(role) :
     \A m \in Candidates(role) : nodes[n].dispatches =< nodes[m].dispatches}

----------------------------------------------------------------------------
(* seedFromConfig *)
RegInit == /\ \E seeded \in Seeds :
                nodes = [n \in Nodes |-> IF n \in seeded THEN NewNode(Roles) ELSE Absent]
           /\ signs = 0
           /\ silent = {}

Sign(n, record) == /\ signs < MaxSigns
                   /\ signs' = signs + 1
                   /\ nodes' = [nodes EXCEPT ![n] = record]
                   /\ silent' = silent \ {n}

Alive(n, roles) ==
  [nodes[n] EXCEPT !.status = "healthy", !.fresh = TRUE, !.roles = roles]

(* POST /relay/register of a new node, or with overwrite of a known one; a *)
(* duplicate without overwrite is refused and changes nothing              *)
Register(n) == \E roles \in SUBSET Roles :
                 Sign(n, IF Registered(n) THEN Alive(n, roles) ELSE NewNode(roles))

(* POST /relay/heartbeat: the node may change what it advertises *)
Heartbeat(n) == /\ Registered(n)
                /\ \E roles \in SUBSET Roles : Sign(n, Alive(n, roles))

(* POST /relay/unregister *)
Unregister(n) == Registered(n) /\ Sign(n, Absent)

(* sixty seconds without a sign of life *)
GoStale(n) == /\ nodes[n].fresh
              /\ nodes' = [nodes EXCEPT ![n].fresh = FALSE]
              /\ UNCHANGED <<signs, silent>>

RegNext == \E n \in Nodes : \/ Register(n) \/ Heartbeat(n)
                            \/ Unregister(n) \/ GoStale(n)
=============================================================================
