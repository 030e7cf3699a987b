------------------------ MODULE MCSubagentLifecycle ------------------------
(* Instances of SubagentLifecycle for TLC. *)
EXTENDS SubagentLifecycle, TLC

LaunchSymmetry == Permutations(Launches)
Symmetry == Permutations(Agents) \cup LaunchSymmetry
=============================================================================
