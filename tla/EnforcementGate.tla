-------------------------- MODULE EnforcementGate --------------------------
(***************************************************************************)
(* What the enforcement policy promises about each track, with no queue,   *)
(* no gate in flight, no file and no revision: a track becomes enforced    *)
(* only from eligible and only while it is approved, and revoking the      *)
(* approval takes an enforced or eligible track down in the same step.     *)
(* EnforcementPolicy is shown to implement it.                             *)
(***************************************************************************)

CONSTANT Tracks

VARIABLES
  state,      \* rollout state of every track
  approved    \* whether an operator approved it

vars == <<state, approved>>

States == {"disabled", "shadow", "eligible", "enforced", "suspended"}

(* Where the policy of a track starts, and where a lost policy leaves it. *)
AtRest ==
  /\ state = [t \in Tracks |-> "shadow"]
  /\ approved = [t \in Tracks |-> FALSE]

Init == AtRest

Approve(t) ==
  /\ approved' = [approved EXCEPT ![t] = TRUE]
  /\ UNCHANGED state

(* revokeApproval: one mutation for both fields. *)
Revoke(t) ==
  /\ approved' = [approved EXCEPT ![t] = FALSE]
  /\ state' = [state EXCEPT ![t] = CASE @ = "enforced" -> "suspended"
                                     [] @ = "eligible" -> "shadow"
                                     [] OTHER          -> @]

Enforce(t) ==
  /\ state[t] = "eligible"
  /\ approved[t]
  /\ state' = [state EXCEPT ![t] = "enforced"]
  /\ UNCHANGED approved

(* Any other rollout state may be set. *)
Set(t, s) ==
  /\ s # "enforced"
  /\ state' = [state EXCEPT ![t] = s]
  /\ UNCHANGED approved

(* A policy file that cannot be read is replaced by the safe default. *)
Lose == AtRest'

Next ==
  \/ \E t \in Tracks : \/ Approve(t) \/ Revoke(t) \/ Enforce(t)
                       \/ \E s \in States : Set(t, s)
  \/ Lose

Spec == Init /\ [][Next]_vars
=============================================================================
