------------------------------ MODULE RaftKill ------------------------------
(***************************************************************************)
(* Raft under the crash of the test harness (config_test.go, crash and     *)
(* restart): Kill sets a flag, setDown cuts the peer off, and startPeer    *)
(* makes a new peer over the same persister. Nothing stops the goroutines  *)
(* of the killed peer that wait in Network.Call: once the node is up again *)
(* their calls are delivered, and the code after the call, which does not  *)
(* look at killed(), still runs becomeFollower, and so persist, on the     *)
(* killed peer.                                                            *)
(*                                                                         *)
(* A peer makes calls only in terms above the one it was made in, so born  *)
(* tells the calls of the running peer from those of the killed one.       *)
(* Left out: a killed candidate that still wins its election broadcasts    *)
(* once; of two killed peers of one node only the later is kept.           *)
(***************************************************************************)
EXTENDS Raft

VARIABLES
    born,      \* born[i]: the term that the running peer of i was made in
    killed     \* killed[i]: the term and log in the memory of the killed peer

killVars == <<vars, born, killed>>

NoPeer == [term |-> 0, log |-> << >>]

KillInit ==
    /\ Init
    /\ born = [i \in Server |-> 0]
    /\ killed = [i \in Server |-> NoPeer]

\* crash: Kill and setDown. The calls under way stay under way.
Kill(i) ==
    /\ up[i] /\ crashes < MaxCrashes
    /\ crashes' = crashes + 1
    /\ up' = [up EXCEPT ![i] = FALSE]
    /\ killed' = [killed EXCEPT ![i] = [term |-> currentTerm[i], log |-> log[i]]]
    /\ currentTerm' = [currentTerm EXCEPT ![i] = 0]
    /\ votedFor' = [votedFor EXCEPT ![i] = Nil]
    /\ log' = [log EXCEPT ![i] = << >>]
    /\ role' = [role EXCEPT ![i] = Follower]
    /\ votes' = [votes EXCEPT ![i] = {}]
    /\ commitIndex' = [commitIndex EXCEPT ![i] = 0]
    /\ lastApplied' = [lastApplied EXCEPT ![i] = 0]
    /\ applied' = [applied EXCEPT ![i] = << >>]
    /\ nextIndex' = [nextIndex EXCEPT ![i] = [p \in Server |-> 0]]
    /\ matchIndex' = [matchIndex EXCEPT ![i] = [p \in Server |-> 0]]
    /\ voteReqs' = {m \in voteReqs : m.from # i \/ m.term > born[i]}
    /\ voteReps' = {r \in voteReps : r.req.from # i \/ r.req.term > born[i]}
    /\ appReqs' = {m \in appReqs : m.from # i \/ m.term > born[i]}
    /\ appReps' = {r \in appReps : r.req.from # i \/ r.req.term > born[i]}
    /\ UNCHANGED <<persister, history, born>>

\* restart: startPeer over the same persister.
Restart(i) ==
    /\ Make(i)
    /\ born' = [born EXCEPT ![i] = persister[i].term]
    /\ UNCHANGED killed

\* Whose goroutine waits for this reply?
OfKilled(r) == ~up[r.req.from] \/ r.req.term <= born[r.req.from]

\* The killed peer's goroutine gets its reply: becomeFollower if the term is
\* newer than the killed peer's own; any other return touches its memory only.
KilledReply(r) ==
    LET i     == r.req.from
        newer == r.term > killed[i].term
    IN  /\ r \in voteReps \cup appReps /\ OfKilled(r)
        /\ killed' = [killed EXCEPT ![i].term = IF newer THEN r.term ELSE @]
        /\ persister' = [persister EXCEPT ![i] =
             IF newer THEN [term |-> r.term, vote |-> Nil, log |-> killed[i].log] ELSE @]
        /\ voteReps' = voteReps \ {r}
        /\ appReps' = appReps \ {r}
        /\ UNCHANGED <<up, currentTerm, votedFor, log, role, votes, commitIndex,
                       lastApplied, leading, voteReqs, appReqs, history, applied,
                       crashes, born>>

RunningPeers ==
    \/ \E i \in Server : startElection(i)
    \/ \E m \in voteReqs : up[m.from] /\ RequestVote(m)
    \/ \E r \in voteReps : ~OfKilled(r) /\ VoteReply(r)
    \/ \E i \in Server, c \in Command : Start(i, c)
    \/ \E i, j \in Server : replicateTo(i, j)
    \/ \E m \in appReqs : up[m.from] /\ (\/ AppendEntriesStale(m)
                                         \/ AppendEntriesReject(m)
                                         \/ AppendEntriesAccept(m))
    \/ \E r \in appReps : ~OfKilled(r) /\ (\/ AppendReplyNewerTerm(r)
                                           \/ AppendReplyIgnored(r)
                                           \/ AppendReplySuccess(r)
                                           \/ AppendReplyBackup(r))
    \/ \E i \in Server : applier(i)
    \/ Lose

KillNext ==
    \/ RunningPeers /\ UNCHANGED <<born, killed>>
    \/ \E i \in Server : Kill(i)
    \/ \E i \in Server : Restart(i)
    \/ \E r \in voteReps \cup appReps : KilledReply(r)

KillSpec == KillInit /\ [][KillNext]_killVars

=============================================================================
