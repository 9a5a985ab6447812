----------------------------- MODULE MCEventLog -----------------------------
(* The instance of OutboxRelay for TLC, with the fairness of its relays. *)
EXTENDS OutboxRelay

RelaySpec == Spec /\ Fairness
=============================================================================
