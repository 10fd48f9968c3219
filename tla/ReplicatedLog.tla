---------------------------- MODULE ReplicatedLog ----------------------------
(***************************************************************************)
(* What a cluster of Raft peers promises the state machines above it: one  *)
(* log that only ever grows, and at every peer a state machine that is fed *)
(* the entries of that log, in index order, exactly once between restarts. *)
(* The comments of ApplyMsg and of applier in raft.go say so.              *)
(***************************************************************************)
EXTENDS Naturals, Sequences

CONSTANTS Server

VARIABLES
    chosen,     \* the committed log
    applied     \* applied[i]: what the state machine of peer i was fed

Init ==
    /\ chosen = << >>
    /\ applied = [i \in Server |-> << >>]

\* The committed log grows; nothing in it changes.
Choose ==
    /\ Len(chosen') > Len(chosen)
    /\ SubSeq(chosen', 1, Len(chosen)) = chosen
    /\ UNCHANGED applied

\* Peer i is fed the next entries of the committed log.
Apply(i) ==
    \E n \in Len(applied[i]) + 1 .. Len(chosen) :
        /\ applied[i] = SubSeq(chosen, 1, Len(applied[i]))
        /\ applied' = [applied EXCEPT ![i] = SubSeq(chosen, 1, n)]
        /\ UNCHANGED chosen

\* Peer i restarts with an empty state machine.
Restart(i) ==
    /\ applied' = [applied EXCEPT ![i] = << >>]
    /\ UNCHANGED chosen

Next == Choose \/ \E i \in Server : Apply(i) \/ Restart(i)

Spec == Init /\ [][Next]_<<chosen, applied>>
=============================================================================
