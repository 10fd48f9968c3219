---------------------------- MODULE RaftCatchUp ----------------------------
(***************************************************************************)
(* A leader brings a follower with another log up to date.                 *)
(*                                                                         *)
(* The behaviours of Raft from the moment Winner has become leader of term *)
(* MaxTerm with the vote of Third, which then crashed. Winner and Behind   *)
(* led earlier terms with Third's vote while their calls to each other     *)
(* were lost, so their logs may differ in any way that Compatible allows.  *)
(* From here on the network delivers and heartbeats (100 ms) arrive within *)
(* the election timeout (at least 400 ms): no further election starts.     *)
(***************************************************************************)
EXTENDS Raft, SequencesExt

CONSTANTS
    Winner, Behind, Third,    \* the three peers
    MaxOld                    \* bound: length of the logs at the election

ASSUME PeersAssumption ==
    /\ Server = {Winner, Behind, Third} /\ Cardinality(Server) = 3
    /\ MaxTerm > 1 /\ MaxOld \in Nat

\* The logs that terms before MaxTerm may have left: terms never decrease.
OldLog ==
    {l \in BoundedSeq([term : 1..MaxTerm - 1, command : Command], MaxOld) :
        \A k \in 2..Len(l) : l[k - 1].term <= l[k].term}

\* Entries of one term come from one leader, which wrote them onto one log.
Compatible(a, b) ==
    \A j \in 1..Len(a), k \in 1..Len(b) :
        a[j].term = b[k].term => Prefix(a, Min2(j, k)) = Prefix(b, Min2(j, k))

InitDiverged ==
    \E w, b \in OldLog :
        /\ Compatible(w, b)
        /\ log = [i \in Server |-> CASE i = Winner -> w [] i = Behind -> b [] OTHER -> << >>]
        /\ up = [i \in Server |-> i # Third]
        /\ currentTerm = [i \in Server |-> CASE i = Winner -> MaxTerm
                                             [] i = Behind -> MaxTerm - 1
                                             [] OTHER -> 0]
        /\ votedFor = [i \in Server |-> IF i = Winner THEN Winner ELSE Nil]
        /\ persister = [i \in Server |->
             IF i = Third THEN [term |-> MaxTerm, vote |-> Winner, log |-> << >>]
             ELSE [term |-> currentTerm[i], vote |-> votedFor[i], log |-> log[i]]]
        /\ role = [i \in Server |-> IF i = Winner THEN Leader ELSE Follower]
        /\ votes = [i \in Server |-> IF i = Winner THEN {Winner, Third} ELSE {}]
        /\ nextIndex = [i \in Server |-> [j \in Server |-> IF i = Winner THEN Len(w) + 1 ELSE 0]]
        /\ matchIndex = [i \in Server |->
             [j \in Server |-> IF i = Winner /\ j = Winner THEN Len(w) ELSE 0]]
        /\ elected = [t \in Term |->
             IF t = MaxTerm THEN {[leader |-> Winner, voters |-> {Winner, Third}]} ELSE {}]
        /\ termLog = [t \in Term |-> IF t = MaxTerm THEN w ELSE << >>]
        /\ acked = [i \in Server |-> [t \in Term |-> 0]]
        /\ commitIndex = [i \in Server |-> 0] /\ lastApplied = [i \in Server |-> 0]
        /\ voteReqs = {} /\ voteReps = {} /\ appReqs = {} /\ appReps = {}
        /\ chosen = << >> /\ chosenTerm = 0
        /\ applied = [i \in Server |-> << >>]
        /\ crashes = 1

Serve == \E m \in appReqs : AppendEntriesReject(m) \/ AppendEntriesAccept(m)
Learn == \E r \in appReps : AppendReplySuccess(r) \/ AppendReplyBackup(r)

CatchUpNext ==
    \/ \E c \in Command : Start(Winner, c)
    \/ replicateTo(Winner, Behind)
    \/ \E m \in appReqs : AppendEntriesReject(m)
    \/ \E m \in appReqs : AppendEntriesAccept(m)
    \/ \E r \in appReps : AppendReplySuccess(r)
    \/ \E r \in appReps : AppendReplyBackup(r)
    \/ \E i \in Server : applier(i)

\* The ticker broadcasts every heartbeatInterval; a call made between two peers
\* that are up is served and returns; the applier runs when it is signalled.
Fairness ==
    /\ WF_vars(replicateTo(Winner, Behind))
    /\ WF_vars(Serve)
    /\ WF_vars(Learn)
    /\ \A i \in {Winner, Behind} : WF_vars(applier(i))

CatchUpSpec == InitDiverged /\ [][CatchUpNext]_vars /\ Fairness

-----------------------------------------------------------------------------
\* The follower ends with the leader's log (it may keep a longer tail that no
\* entry of the leader contradicts): the rejections and backups of replicateTo
\* terminate, whatever the two logs were.
CatchesUp == <>[]IsPart(log[Winner], log[Behind])

\* Once a client's command is in the leader's log, the whole log up to it is
\* applied by both peers: the indirect commit of the Figure 8 comment, "only ever
\* advance the commit index onto an entry from the CURRENT term. Everything
\* before it is committed implicitly".
CommandsAreApplied ==
    \A k \in 1..MaxLog :
        (k <= Len(log[Winner]) /\ TermAt(log[Winner], k) = MaxTerm) ~>
            \A i \in {Winner, Behind} : k <= Len(applied[i]) /\ applied[i][k] = log[Winner][k]

=============================================================================
