------------------------------- MODULE MCRaft -------------------------------
(* Raft for TLC. *)
EXTENDS Raft, TLC

\* The peers whose timer may fire are interchangeable, and so are the others.
Symmetry == Permutations(Electable) \cup Permutations(Server \ Electable)

\* acked is there for the proofs: no action reads it and no property of these
\* runs mentions it, so states that differ in it alone count as one.
Seen == <<up, server, role, votes, commitIndex, lastApplied, leading, calls,
          elected, termLog, chosen, chosenTerm, applied, crashes>>
=============================================================================
