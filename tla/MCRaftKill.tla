------------------------------ MODULE MCRaftKill ------------------------------
(* RaftKill for TLC. *)
EXTENDS RaftKill, TLC

Symmetry == Permutations(Electable) \cup Permutations(Server \ Electable)
=============================================================================
