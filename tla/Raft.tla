-------------------------------- MODULE Raft --------------------------------
(***************************************************************************)
(* The Raft peer of layer 4, topic 5 (golang/raft/raft.go), its persister  *)
(* and the network it is called over.                                      *)
(*                                                                         *)
(* A handler, and the part of a caller that runs after its call returned,  *)
(* holds rf.mu from its first line to its last, so each is one action.     *)
(* Between them anything may happen: Network.Call runs every call on a     *)
(* goroutine of its own, delays it, and loses the request or the reply.    *)
(*                                                                         *)
(*   startElection      the ticker's timeout, and the RequestVote calls    *)
(*   RequestVote        the handler                                        *)
(*   VoteReply          the rest of the calling goroutine                  *)
(*   Start              the client's entry point                           *)
(*   replicateTo        the first half of replicateTo: one AppendEntries   *)
(*   AppendEntries...   the handler, one action per way out of it          *)
(*   AppendReply...     the second half of replicateTo                     *)
(*   applier            one batch handed to the state machine              *)
(*   Crash, Make        the process dies; it is made again over the same   *)
(*                      persister                                          *)
(*                                                                         *)
(*   Lose               Call returns false                                 *)
(*                                                                         *)
(* A call that no action serves is as good as lost, so Lose only makes room *)
(* for others (see MaxCalls). log[0], the sentinel {Term: 0}, is implicit: *)
(* see TermAt.                                                             *)
(***************************************************************************)
EXTENDS Integers, Sequences, FiniteSets, FiniteSetsExt

CONSTANTS
    Server,       \* the peers
    Command,      \* what clients pass to Start
    Nil,          \* votedFor = -1
    MaxTerm,      \* bound: no election starts beyond this term
    MaxLog,       \* bound: Start is not called on a log of this length
    MaxCrashes,   \* bound: crashes in a behaviour
    MaxCalls,     \* bound: no call is made while this many are under way
    Electable,    \* the peers whose election timer may fire
    KeepCalls     \* TRUE: an AppendEntries call stands for any number of
                  \* equal ones (every heartbeat repeats it); FALSE: for one

ASSUME ServerAssumption == IsFiniteSet(Server) /\ Nil \notin Server
ASSUME BoundAssumption ==
    /\ MaxTerm \in Nat /\ MaxLog \in Nat /\ MaxCrashes \in Nat
    /\ MaxCalls \in Nat
    /\ Electable \subseteq Server
    /\ KeepCalls \in BOOLEAN

Follower  == "follower"
Candidate == "candidate"
Leader    == "leader"
Role      == {Follower, Candidate, Leader}
NoTerm    == -1           \* reply.ConflictTerm when the follower's log is short

Term  == 1..MaxTerm
Entry == [term : Term, command : Command]
Log   == Seq(Entry)

VARIABLES
    up,            \* up[i]: the process of i runs
    currentTerm, votedFor, log,                    \* Figure 2, persistent
    persister,     \* persister[i]: the last state i saved
    role, votes,   \* votes[i]: the peers counted in i's current election
    commitIndex, lastApplied,
    nextIndex, matchIndex,
    voteReqs, voteReps, appReqs, appReps,          \* calls and replies under way
    \* What happened, for the properties; no action reads these.
    elected,       \* elected[t]: who became leader of term t, on whose votes
    termLog,       \* termLog[t]: the log of the leader of t, as t left it
    chosen,        \* the longest log prefix a leader declared committed
    chosenTerm,    \* the term of that leader
    applied,       \* applied[i]: what i's applyCh has carried since Make
    crashes,       \* the number of crashes so far
    acked          \* acked[p][t]: how much of termLog[t] p has confirmed to hold

server  == <<currentTerm, votedFor, log, persister>>
leading == <<nextIndex, matchIndex>>
calls   == <<voteReqs, voteReps, appReqs, appReps>>
history == <<elected, termLog, acked, chosen, chosenTerm>>
vars    == <<up, server, role, votes, commitIndex, lastApplied, leading,
             calls, history, applied, crashes>>

-----------------------------------------------------------------------------
(* Helpers. *)

Max2(a, b) == IF a > b THEN a ELSE b
Min2(a, b) == IF a < b THEN a ELSE b

Prefix(l, n) == SubSeq(l, 1, n)

TermAt(l, k) == IF k = 0 THEN 0 ELSE l[k].term

lastLogTerm(l) == TermAt(l, Len(l))

\* Mutant: one more than a majority.
Majority_OffByOne(S) == Cardinality(S) > Cardinality(Server) \div 2 + 1

Majority(S) == Cardinality(S) >= Cardinality(Server) \div 2 + 1

\* Mutant: votedFor never reaches the persister.
persist_WithoutVote(i) ==
    persister' = [persister EXCEPT ![i] =
        [term |-> currentTerm'[i], vote |-> Nil, log |-> log'[i]]]

\* Mutant: the log is not part of what is saved.
persist_WithoutLog(i) ==
    persister' = [persister EXCEPT ![i] =
        [term |-> currentTerm'[i], vote |-> votedFor'[i], log |-> << >>]]

\* persist(): what the peer holds at the end of the step reaches the persister.
persist(i) ==
    persister' = [persister EXCEPT ![i] =
        [term |-> currentTerm'[i], vote |-> votedFor'[i], log |-> log'[i]]]

becomeFollower(i, t) ==
    /\ currentTerm' = [currentTerm EXCEPT ![i] = t]
    /\ votedFor' = [votedFor EXCEPT ![i] = Nil]
    /\ role' = [role EXCEPT ![i] = Follower]
    /\ UNCHANGED log
    /\ persist(i)

\* Mutant: the restriction compares lengths only.
UpToDate_ByLength(m, l) == m.lastIndex >= Len(l)

\* The election restriction: is the log that m describes at least as good as l?
UpToDate(m, l) ==
    \/ m.lastTerm > lastLogTerm(l)
    \/ m.lastTerm = lastLogTerm(l) /\ m.lastIndex >= Len(l)

\* Mutant: the 3B bug, log[:prev+1] followed by the entries.
MergeLog_Truncating(l, prev, es) == Prefix(l, prev) \o es

\* The AppendEntries loop: keep what agrees, and from the first entry that is
\* missing or has another term on, take the leader's.
MergeLog(l, prev, es) ==
    LET differ == {k \in 1..Len(es) :
                      \/ prev + k > Len(l)
                      \/ l[prev + k].term # es[k].term}
    IN  IF differ = {} THEN l
        ELSE Prefix(l, prev + Min(differ) - 1) \o SubSeq(es, Min(differ), Len(es))

\* The follower's new commit index: min(leaderCommit, index of last new entry).
FollowerCommit(m, old) ==
    IF m.commit > old THEN Min2(m.commit, m.prev + Len(m.entries)) ELSE old

\* The first index of the run of entries of one term that ends at prev.
ConflictStart(l, prev) ==
    Min({k \in 1..prev : \A j \in k..prev : l[j].term = l[prev].term})

\* Mutant: off by one behind a conflicting term the leader does not have.
BackupTo_PastConflict(l, r) == Max2(1, r.conflictIndex + 1)

\* Fast backup: where the leader resumes after a rejection.
BackupTo(l, r) ==
    LET same == {k \in 1..Len(l) : l[k].term = r.conflictTerm}
    IN  IF r.conflictTerm # NoTerm /\ same # {}
        THEN Max(same) + 1
        ELSE Max2(1, r.conflictIndex)

\* Mutant: Figure 8, any entry a majority stores is committed.
advanceCommitIndex_AnyTerm(i, match) ==
    LET n == {k \in commitIndex[i] + 1 .. Len(log[i]) :
                 Majority({i} \cup {p \in Server : match[p] >= k})}
    IN  IF n = {} THEN commitIndex[i] ELSE Max(n)

\* advanceCommitIndex: the last entry of the leader's own term on a majority.
advanceCommitIndex(i, match) ==
    LET n == {k \in commitIndex[i] + 1 .. Len(log[i]) :
                 /\ log[i][k].term = currentTerm[i]
                 /\ Majority({i} \cup {p \in Server : match[p] >= k})}
    IN  IF n = {} THEN commitIndex[i] ELSE Max(n)

\* An AppendEntries call or reply m has been dealt with.
Done(S, m) == IF KeepCalls THEN S ELSE S \ {m}

\* The calls under way, and whether there is room for one more.
Outstanding == Cardinality(voteReqs) + Cardinality(voteReps)
                 + Cardinality(appReqs) + Cardinality(appReps)
Room == Outstanding < MaxCalls

-----------------------------------------------------------------------------
(* Init: every peer made over an empty persister. *)

Fresh == [term |-> 0, vote |-> Nil, log |-> << >>]

Init ==
    /\ up = [i \in Server |-> TRUE]
    /\ currentTerm = [i \in Server |-> 0]
    /\ votedFor = [i \in Server |-> Nil]
    /\ log = [i \in Server |-> << >>]
    /\ persister = [i \in Server |-> Fresh]
    /\ role = [i \in Server |-> Follower]
    /\ votes = [i \in Server |-> {}]
    /\ commitIndex = [i \in Server |-> 0]
    /\ lastApplied = [i \in Server |-> 0]
    /\ nextIndex = [i \in Server |-> [p \in Server |-> 0]]
    /\ matchIndex = [i \in Server |-> [p \in Server |-> 0]]
    /\ voteReqs = {} /\ voteReps = {} /\ appReqs = {} /\ appReps = {}
    /\ elected = [t \in Term |-> {}]
    /\ termLog = [t \in Term |-> << >>]
    /\ acked = [p \in Server |-> [t \in Term |-> 0]]
    /\ chosen = << >> /\ chosenTerm = 0
    /\ applied = [i \in Server |-> << >>]
    /\ crashes = 0

-----------------------------------------------------------------------------
(* Elections. *)

\* The ticker looked at the timer, released rf.mu, and startElection takes it
\* again: by then only the role is looked at, so any non-leader may start.
startElection(i) ==
    /\ up[i] /\ role[i] # Leader
    /\ i \in Electable /\ currentTerm[i] < MaxTerm /\ Room
    /\ currentTerm' = [currentTerm EXCEPT ![i] = @ + 1]
    /\ role' = [role EXCEPT ![i] = Candidate]
    /\ votedFor' = [votedFor EXCEPT ![i] = i]
    /\ UNCHANGED log
    /\ persist(i)
    /\ votes' = [votes EXCEPT ![i] = {i}]
    /\ voteReqs' = voteReqs \cup
         {[from |-> i, to |-> j, term |-> currentTerm[i] + 1,
           lastIndex |-> Len(log[i]), lastTerm |-> lastLogTerm(log[i])]
             : j \in Server \ {i}}
    /\ UNCHANGED <<up, commitIndex, lastApplied, leading, voteReps, appReqs,
                   appReps, history, applied, crashes>>

RequestVote(m) ==
    LET i     == m.to
        newer == m.term > currentTerm[i]
        vote  == IF newer THEN Nil ELSE votedFor[i]
        grant == /\ m.term >= currentTerm[i]
                 /\ vote \in {Nil, m.from}
                 /\ UpToDate(m, log[i])
    IN  /\ m \in voteReqs /\ up[i]
        /\ currentTerm' = [currentTerm EXCEPT ![i] = Max2(@, m.term)]
        /\ role' = [role EXCEPT ![i] = IF newer THEN Follower ELSE @]
        /\ votedFor' = [votedFor EXCEPT ![i] = IF grant THEN m.from ELSE vote]
        /\ UNCHANGED log
        /\ IF newer \/ grant THEN persist(i) ELSE UNCHANGED persister
        /\ voteReqs' = voteReqs \ {m}
        /\ voteReps' = voteReps \cup
             {[req |-> m, term |-> currentTerm'[i], granted |-> grant]}
        /\ UNCHANGED <<up, votes, commitIndex, lastApplied, leading, appReqs,
                       appReps, history, applied, crashes>>

becomeLeader(i) ==
    LET last == Len(log[i])
    IN  /\ elected' = [elected EXCEPT ![currentTerm[i]] =
             @ \cup {[leader |-> i, voters |-> votes'[i]]}]
        /\ termLog' = [termLog EXCEPT ![currentTerm[i]] = log[i]]
        /\ matchIndex' = [matchIndex EXCEPT ![i] =
             [p \in Server |-> IF p = i THEN last ELSE 0]]
        /\ nextIndex' = [nextIndex EXCEPT ![i] = [p \in Server |-> last + 1]]
        /\ role' = [role EXCEPT ![i] = Leader]

\* Mutant: a late vote is counted in whatever election is on.
InElection_AnyTerm(i, r) == role[i] = Candidate

\* The guard against a reply from an election the peer has left.
InElection(i, r) == role[i] = Candidate /\ currentTerm[i] = r.req.term

VoteReply(r) ==
    LET i == r.req.from
    IN  /\ r \in voteReps /\ up[i]
        /\ voteReps' = voteReps \ {r}
        /\ \/ /\ r.term > currentTerm[i]
              /\ becomeFollower(i, r.term)
              /\ UNCHANGED <<votes, leading, elected, termLog>>
           \/ /\ r.term <= currentTerm[i]
              /\ InElection(i, r) /\ r.granted
              /\ votes' = [votes EXCEPT ![i] = @ \cup {r.req.to}]
              /\ IF Majority(votes[i] \cup {r.req.to})
                 THEN becomeLeader(i)
                 ELSE UNCHANGED <<role, leading, elected, termLog>>
              /\ UNCHANGED server
           \/ /\ r.term <= currentTerm[i]
              /\ ~(InElection(i, r) /\ r.granted)
              /\ UNCHANGED <<server, role, votes, leading, elected, termLog>>
        /\ UNCHANGED <<up, commitIndex, lastApplied, voteReqs, appReqs, appReps,
                       acked, chosen, chosenTerm, applied, crashes>>

-----------------------------------------------------------------------------
(* Replication. *)

Start(i, c) ==
    /\ up[i] /\ role[i] = Leader
    /\ Len(log[i]) < MaxLog
    /\ log' = [log EXCEPT ![i] =
                 Append(@, [term |-> currentTerm[i], command |-> c])]
    /\ UNCHANGED <<currentTerm, votedFor>>
    /\ persist(i)
    /\ termLog' = [termLog EXCEPT ![currentTerm[i]] = log'[i]]
    /\ acked' = [acked EXCEPT ![i][currentTerm[i]] = Len(log'[i])]
    /\ UNCHANGED <<up, role, votes, commitIndex, lastApplied, leading, calls,
                   elected, chosen, chosenTerm, applied, crashes>>

\* Mutant: PrevLogIndex off by one.
AppendArgs_PrevTooLow(i, j) ==
    LET next == Min2(Max2(nextIndex[i][j], 1), Len(log[i]) + 1)
    IN  [from |-> i, to |-> j, term |-> currentTerm[i],
         prev |-> next - 2, prevTerm |-> 0,
         entries |-> SubSeq(log[i], next, Len(log[i])),
         commit |-> commitIndex[i]]

\* What replicateTo sends to j: everything from nextIndex on.
AppendArgs(i, j) ==
    LET next == Min2(Max2(nextIndex[i][j], 1), Len(log[i]) + 1)
    IN  [from |-> i, to |-> j, term |-> currentTerm[i],
         prev |-> next - 1, prevTerm |-> TermAt(log[i], next - 1),
         entries |-> SubSeq(log[i], next, Len(log[i])),
         commit |-> commitIndex[i]]

replicateTo(i, j) ==
    /\ up[i] /\ role[i] = Leader /\ j # i /\ Room
    /\ AppendArgs(i, j) \notin appReqs
    /\ appReqs' = appReqs \cup {AppendArgs(i, j)}
    /\ UNCHANGED <<up, server, role, votes, commitIndex, lastApplied, leading,
                   voteReqs, voteReps, appReps, history, applied, crashes>>

\* Mutant: the consistency check looks at the length only.
Matches_LengthOnly(l, m) == m.prev <= Len(l)

Matches(l, m) == m.prev <= Len(l) /\ TermAt(l, m.prev) = m.prevTerm

\* Every exit of the handler answers, and leaves these alone.
AppendAnswer(m, reply) ==
    /\ appReqs' = Done(appReqs, m)
    /\ appReps' = appReps \cup {reply}
    /\ UNCHANGED <<up, votes, lastApplied, leading, voteReqs, voteReps, elected,
                   termLog, chosen, chosenTerm, applied, crashes>>

\* A call from a term the peer has left.
AppendEntriesStale(m) ==
    LET i == m.to
    IN  /\ m \in appReqs /\ up[i]
        /\ m.term < currentTerm[i]
        /\ UNCHANGED <<server, role, commitIndex, acked>>
        /\ AppendAnswer(m, [req |-> m, term |-> currentTerm[i], success |-> FALSE,
                            conflictTerm |-> NoTerm, conflictIndex |-> -1])

\* The first lines of the handler for a call that is not stale.
AcceptTerm(i, t) ==
    /\ currentTerm' = [currentTerm EXCEPT ![i] = t]
    /\ votedFor' = [votedFor EXCEPT ![i] = IF t > currentTerm[i] THEN Nil ELSE @]
    /\ role' = [role EXCEPT ![i] = Follower]

\* The consistency check failed: say where to resume.
AppendEntriesReject(m) ==
    LET i == m.to
    IN  /\ m \in appReqs /\ up[i]
        /\ m.term >= currentTerm[i]
        /\ ~Matches(log[i], m)
        /\ AcceptTerm(i, m.term)
        /\ UNCHANGED <<log, commitIndex, acked>>
        /\ IF m.term > currentTerm[i] THEN persist(i) ELSE UNCHANGED persister
        /\ AppendAnswer(m,
             IF m.prev > Len(log[i])
             THEN [req |-> m, term |-> m.term, success |-> FALSE,
                   conflictTerm |-> NoTerm, conflictIndex |-> Len(log[i]) + 1]
             ELSE [req |-> m, term |-> m.term, success |-> FALSE,
                   conflictTerm |-> log[i][m.prev].term,
                   conflictIndex |-> ConflictStart(log[i], m.prev)])

AppendEntriesAccept(m) ==
    LET i == m.to
    IN  /\ m \in appReqs /\ up[i]
        /\ m.term >= currentTerm[i]
        /\ Matches(log[i], m)
        /\ AcceptTerm(i, m.term)
        /\ log' = [log EXCEPT ![i] = MergeLog(@, m.prev, m.entries)]
        /\ persist(i)
        /\ commitIndex' = [commitIndex EXCEPT ![i] = FollowerCommit(m, @)]
        /\ acked' = [acked EXCEPT ![i][m.term] = Max2(@, m.prev + Len(m.entries))]
        /\ AppendAnswer(m, [req |-> m, term |-> m.term, success |-> TRUE,
                            conflictTerm |-> NoTerm, conflictIndex |-> -1])

\* The guard against a reply to a leader that no longer leads that term.
InCharge(i, r) == role[i] = Leader /\ currentTerm[i] = r.req.term

AppendReplyNewerTerm(r) ==
    LET i == r.req.from
    IN  /\ r \in appReps /\ up[i]
        /\ r.term > currentTerm[i]
        /\ becomeFollower(i, r.term)
        /\ appReps' = Done(appReps, r)
        /\ UNCHANGED <<up, votes, commitIndex, lastApplied, leading, voteReqs,
                       voteReps, appReqs, history, applied, crashes>>

\* The returns that change nothing: only the call ends.
AppendReplyIgnored(r) ==
    LET i == r.req.from
    IN  /\ r \in appReps /\ up[i]
        /\ r.term <= currentTerm[i] /\ ~InCharge(i, r)
        /\ appReps' = Done(appReps, r)
        /\ UNCHANGED <<up, server, role, votes, commitIndex, lastApplied, leading,
                       voteReqs, voteReps, appReqs, history, applied, crashes>>

AppendReplySuccess(r) ==
    LET i     == r.req.from
        j     == r.req.to
        match == r.req.prev + Len(r.req.entries)
        fresh == match > matchIndex[i][j]
        new   == advanceCommitIndex(i, matchIndex'[i])
        first == new > commitIndex[i] /\ new > Len(chosen)
    IN  /\ r \in appReps /\ up[i]
        /\ r.term <= currentTerm[i] /\ InCharge(i, r) /\ r.success
        /\ matchIndex' = [matchIndex EXCEPT ![i][j] = IF fresh THEN match ELSE @]
        /\ nextIndex' = [nextIndex EXCEPT ![i][j] = IF fresh THEN match + 1 ELSE @]
        /\ commitIndex' = [commitIndex EXCEPT ![i] = new]
        /\ chosen' = IF first THEN Prefix(log[i], new) ELSE chosen
        /\ chosenTerm' = IF first THEN currentTerm[i] ELSE chosenTerm
        /\ appReps' = Done(appReps, r)
        /\ UNCHANGED <<up, server, role, votes, lastApplied, voteReqs, voteReps,
                       appReqs, elected, termLog, acked, applied, crashes>>

AppendReplyBackup(r) ==
    LET i == r.req.from
        j == r.req.to
    IN  /\ r \in appReps /\ up[i]
        /\ r.term <= currentTerm[i] /\ InCharge(i, r) /\ ~r.success
        /\ nextIndex' = [nextIndex EXCEPT ![i][j] = BackupTo(log[i], r)]
        /\ appReps' = Done(appReps, r)
        /\ UNCHANGED <<up, server, role, votes, commitIndex, lastApplied,
                       matchIndex, voteReqs, voteReps, appReqs, history, applied,
                       crashes>>

\* Mutant: the batch is handed over and not counted.
applier_NotAdvanced(i) ==
    /\ up[i] /\ lastApplied[i] < commitIndex[i]
    /\ applied' = [applied EXCEPT ![i] =
                     @ \o SubSeq(log[i], lastApplied[i] + 1, commitIndex[i])]
    /\ UNCHANGED <<up, server, role, votes, commitIndex, lastApplied, leading,
                   calls, history, crashes>>

applier(i) ==
    /\ up[i] /\ lastApplied[i] < commitIndex[i]
    /\ applied' = [applied EXCEPT ![i] =
                     @ \o SubSeq(log[i], lastApplied[i] + 1, commitIndex[i])]
    /\ lastApplied' = [lastApplied EXCEPT ![i] = commitIndex[i]]
    /\ UNCHANGED <<up, server, role, votes, commitIndex, leading, calls, history,
                   crashes>>

-----------------------------------------------------------------------------
(* The network: Call returns false for an unreachable peer, a lost request *)
(* or a lost reply, and its goroutine is gone.                             *)

Lose ==
    /\ ~Room
    /\ \/ \E m \in voteReqs : voteReqs' = voteReqs \ {m} /\ UNCHANGED <<voteReps, appReqs, appReps>>
       \/ \E r \in voteReps : voteReps' = voteReps \ {r} /\ UNCHANGED <<voteReqs, appReqs, appReps>>
       \/ \E m \in appReqs : appReqs' = appReqs \ {m} /\ UNCHANGED <<voteReqs, voteReps, appReps>>
       \/ \E r \in appReps : appReps' = appReps \ {r} /\ UNCHANGED <<voteReqs, voteReps, appReqs>>
    /\ UNCHANGED <<up, server, role, votes, commitIndex, lastApplied, leading,
                   history, applied, crashes>>

-----------------------------------------------------------------------------
(* Crashes. The process takes its memory and the goroutines of its calls   *)
(* with it; what it last saved stays.                                      *)

Crash(i) ==
    /\ up[i] /\ crashes < MaxCrashes
    /\ crashes' = crashes + 1
    /\ up' = [up EXCEPT ![i] = FALSE]
    /\ currentTerm' = [currentTerm EXCEPT ![i] = 0]
    /\ votedFor' = [votedFor EXCEPT ![i] = Nil]
    /\ log' = [log EXCEPT ![i] = << >>]
    /\ role' = [role EXCEPT ![i] = Follower]
    /\ votes' = [votes EXCEPT ![i] = {}]
    /\ commitIndex' = [commitIndex EXCEPT ![i] = 0]
    /\ lastApplied' = [lastApplied EXCEPT ![i] = 0]
    /\ applied' = [applied EXCEPT ![i] = << >>]
    /\ nextIndex' = [nextIndex EXCEPT ![i] = [p \in Server |-> 0]]
    /\ matchIndex' = [matchIndex EXCEPT ![i] = [p \in Server |-> 0]]
    /\ voteReqs' = {m \in voteReqs : m.from # i}
    /\ voteReps' = {r \in voteReps : r.req.from # i}
    /\ appReqs' = {m \in appReqs : m.from # i}
    /\ appReps' = {r \in appReps : r.req.from # i}
    /\ UNCHANGED <<persister, history>>

\* Make: the defaults that Crash left, then whatever the persister holds.
Make(i) ==
    /\ ~up[i]
    /\ up' = [up EXCEPT ![i] = TRUE]
    /\ currentTerm' = [currentTerm EXCEPT ![i] = persister[i].term]
    /\ votedFor' = [votedFor EXCEPT ![i] = persister[i].vote]
    /\ log' = [log EXCEPT ![i] = persister[i].log]
    /\ UNCHANGED <<persister, role, votes, commitIndex, lastApplied, leading,
                   calls, history, applied, crashes>>

-----------------------------------------------------------------------------
Next ==
    \/ \E i \in Server : startElection(i)
    \/ \E m \in voteReqs : RequestVote(m)
    \/ \E r \in voteReps : VoteReply(r)
    \/ \E i \in Server, c \in Command : Start(i, c)
    \/ \E i, j \in Server : replicateTo(i, j)
    \/ \E m \in appReqs : AppendEntriesStale(m)
    \/ \E m \in appReqs : AppendEntriesReject(m)
    \/ \E m \in appReqs : AppendEntriesAccept(m)
    \/ \E r \in appReps : AppendReplyNewerTerm(r)
    \/ \E r \in appReps : AppendReplyIgnored(r)
    \/ \E r \in appReps : AppendReplySuccess(r)
    \/ \E r \in appReps : AppendReplyBackup(r)
    \/ \E i \in Server : applier(i)
    \/ Lose
    \/ \E i \in Server : Crash(i)
    \/ \E i \in Server : Make(i)

Spec == Init /\ [][Next]_vars

-----------------------------------------------------------------------------
(* Properties. *)

VoteReq == [from : Server, to : Server, term : Term, lastIndex : Nat, lastTerm : Nat]
VoteRep == [req : VoteReq, term : Term, granted : BOOLEAN]
AppReq  == [from : Server, to : Server, term : Term, prev : Nat, prevTerm : Nat,
            entries : Log, commit : Nat]
AppRep  == [req : AppReq, term : Term, success : BOOLEAN, conflictTerm : Int,
            conflictIndex : Int]
Saved   == [term : 0..MaxTerm, vote : Server \cup {Nil}, log : Log]

\* The type of every variable of the model, applied excepted: that what it holds
\* are entries at all is part of StateMachineSafety.
TypeOK ==
    /\ up \in [Server -> BOOLEAN]
    /\ currentTerm \in [Server -> 0..MaxTerm]
    /\ votedFor \in [Server -> Server \cup {Nil}]
    /\ log \in [Server -> Log]
    /\ persister \in [Server -> Saved]
    /\ role \in [Server -> Role]
    /\ votes \in [Server -> SUBSET Server]
    /\ commitIndex \in [Server -> Nat]
    /\ lastApplied \in [Server -> Nat]
    /\ nextIndex \in [Server -> [Server -> Nat]]
    /\ matchIndex \in [Server -> [Server -> Nat]]
    /\ voteReqs \subseteq VoteReq
    /\ voteReps \subseteq VoteRep
    /\ appReqs \subseteq AppReq
    /\ appReps \subseteq AppRep
    /\ elected \in [Term -> SUBSET [leader : Server, voters : SUBSET Server]]
    /\ termLog \in [Term -> Log]
    /\ acked \in [Server -> [Term -> Nat]]
    /\ chosen \in Log /\ chosenTerm \in Nat
    /\ crashes \in 0..MaxCrashes

-----------------------------------------------------------------------------
(* Elections. *)

\* "Two leaders in one term, and every safety argument in the paper collapses"
\* (persister.go): over the whole behaviour, crashes and restarts included, at
\* most one peer ever runs becomeLeaderLocked in a given term.
OneLeaderPerTerm ==
    \A t \in Term : \A a, b \in elected[t] : a.leader = b.leader

\* p has promised its vote of term t to c, and a restart cannot forget it.
VoteIsSaved(p, t, c) ==
    \/ persister[p].term > t
    \/ persister[p].term = t /\ persister[p].vote = c

\* "Durable BEFORE the reply leaves": a granted vote that is on its way to the
\* candidate, or that it has counted, is in the voter's persister.
VotesAreDurable ==
    /\ \A r \in voteReps : r.granted => VoteIsSaved(r.req.to, r.req.term, r.req.from)
    /\ \A i \in Server : \A p \in votes[i] :
           role[i] = Candidate => VoteIsSaved(p, currentTerm[i], i)

\* Nothing a running peer acts on is missing from its persister.
SavedIsCurrent ==
    \A i \in Server : up[i] =>
        persister[i] = [term |-> currentTerm[i], vote |-> votedFor[i], log |-> log[i]]

\* A candidate or a leader runs, in a term that some election has started.
RunningRoles ==
    \A i \in Server : role[i] # Follower => up[i] /\ currentTerm[i] \in Term

\* Peer c has got hold of the vote of p in term t: it is in a reply under way, it
\* is counted in c's election, or it is one of those that c won with.
Claim(p, t, c) ==
    \/ \E r \in voteReps :
           r.granted /\ r.req.to = p /\ r.req.term = t /\ r.req.from = c
    \/ role[c] = Candidate /\ currentTerm[c] = t /\ p \in votes[c]
    \/ \E e \in elected[t] : e.leader = c /\ p \in e.voters

\* Why there is one leader per term, as an inductive invariant: every claim is
\* backed by the voter's persister, no vote is claimed twice, and whoever won
\* holds the votes of a majority.
ClaimsSaved ==
    \A p, c \in Server : \A t \in Term : Claim(p, t, c) => VoteIsSaved(p, t, c)
ClaimsAgree ==
    \A p, c, d \in Server : \A t \in Term : Claim(p, t, c) /\ Claim(p, t, d) => c = d
WonByMajority ==
    \A t \in Term : \A e \in elected[t] : Majority(e.voters)
ElectionInv ==
    SavedIsCurrent /\ RunningRoles /\ ClaimsSaved /\ ClaimsAgree /\ WonByMajority

-----------------------------------------------------------------------------
(* Logs. *)

\* Two logs, in memory or saved, that have an entry of the same term at an index
\* are the same up to that index (the Log Matching Property that the Figure 8
\* comment of advanceCommitIndex and the fast backup rely on).
SameUpTo(a, b) ==
    \A k \in 1..Min2(Len(a), Len(b)) :
        a[k].term = b[k].term => Prefix(a, k) = Prefix(b, k)
LogMatching ==
    \A i, j \in Server :
        /\ SameUpTo(log[i], log[j])
        /\ SameUpTo(log[i], persister[j].log)
        /\ SameUpTo(persister[i].log, persister[j].log)

\* a is an initial part of b.
IsPart(a, b) == Len(a) <= Len(b) /\ Prefix(b, Len(a)) = a

\* The election restriction "is what guarantees a new leader already holds every
\* committed entry": whoever leads the committing term or a later one has the
\* committed prefix.
LeaderCompleteness ==
    \A i \in Server :
        role[i] = Leader /\ currentTerm[i] >= chosenTerm => IsPart(chosen, log[i])

\* State machine safety, of what the applyCh carried and of what a peer has been
\* told is committed: nobody departs from the one committed prefix.
StateMachineSafety ==
    \A i \in Server :
        /\ IsPart(applied[i], chosen)
        /\ commitIndex[i] <= Len(log[i])
        /\ IsPart(Prefix(log[i], commitIndex[i]), chosen)

\* A success reply tells the leader that its log up to the last entry sent is in
\* the follower's persister; that stays true until the follower hears of a
\* newer term, through any number of stale and repeated calls (the 3B bug).
AcksAreDurable ==
    \A r \in appReps :
        LET n == r.req.prev + Len(r.req.entries)
            p == persister[r.req.to]
        IN  r.success /\ p.term = r.req.term =>
                /\ n <= Len(p.log)
                /\ Prefix(p.log, n) = Prefix(termLog[r.req.term], n)

\* What the peers promise together: one log that only grows, and state machines
\* that are fed from it in order (the comments of ApplyMsg and applier).
Promise == INSTANCE ReplicatedLog WITH chosen <- chosen, applied <- applied
ImplementsReplicatedLog == Promise!Spec

\* While a process runs, its commit index never goes back and no step touches
\* an entry it has been told is committed.
CommittedIsFinal ==
    [][\A i \in Server : up[i] /\ up'[i] =>
           /\ commitIndex[i] <= commitIndex'[i]
           /\ IsPart(Prefix(log[i], commitIndex[i]), log'[i])]_vars

=============================================================================
