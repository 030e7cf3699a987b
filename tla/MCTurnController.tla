-------------------------- MODULE MCTurnController --------------------------
(* Instances of TurnController for TLC. *)
EXTENDS TurnController, TLC

\* Requests and tasks are told apart by nothing but their identity.
Symmetry == Permutations(Starts) \cup Permutations(Slots)
=============================================================================
