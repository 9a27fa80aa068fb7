-------------------------- MODULE MCDecisionQueue --------------------------
(* Instances of the decision queue for TLC. *)
EXTENDS DecisionQueue

MCVar == 1..4
SmallVar == 1..3

=============================================================================
