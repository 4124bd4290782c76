-------------------------- MODULE MCLeaderElection --------------------------
(* LeaderElection for TLC: nodes are interchangeable. *)
EXTENDS LeaderElection, TLC

NodeSymmetry == Permutations(Node)
=============================================================================
