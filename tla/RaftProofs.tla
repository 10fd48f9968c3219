------------------------------ MODULE RaftProofs ------------------------------
(***************************************************************************)
(* Proofs about Raft, for every set of peers and commands and every bound. *)
(***************************************************************************)
EXTENDS Raft, FiniteSetTheorems, WellFoundedInduction, NaturalsInduction, TLAPS

-----------------------------------------------------------------------------
(* Facts about the helpers. *)

\* A non-empty set of numbers has a least element.
LEMMA MinOfNat ==
    ASSUME NEW S \in SUBSET Nat, S # {}
    PROVE  Min(S) \in S /\ \A x \in S : Min(S) <= x
<1> DEFINE R == OpToRel(<, Nat)
<1>1. IsWellFoundedOn(R, Nat)
  BY NatLessThanWellFounded
<1>2. \A x, y \in Nat : <<y, x>> \notin R => x <= y
  BY DEF OpToRel
<1> HIDE DEF R
<1>3. \E x \in S : \A y \in S : <<y, x>> \notin R
  BY <1>1, WFMin
<1>4. \E x \in S : \A y \in S : x <= y
  BY <1>2, <1>3
<1> QED BY <1>4 DEF Min

\* A non-empty set of numbers with a bound has a greatest element.
LEMMA MaxOfNat ==
    ASSUME NEW S \in SUBSET Nat, S # {}, NEW b \in Nat, \A x \in S : x <= b
    PROVE  Max(S) \in S /\ \A x \in S : x <= Max(S)
<1> DEFINE T == {b - x : x \in S}
<1>1. T \in SUBSET Nat /\ T # {}
  <2>1. \A x \in S : b - x \in Nat
    OBVIOUS
  <2> QED BY <2>1
<1>2. Min(T) \in T /\ \A y \in T : Min(T) <= y
  BY <1>1, MinOfNat
<1>3. PICK x \in S : Min(T) = b - x
  BY <1>2
<1>4. \A y \in S : b - x <= b - y
  BY <1>2, <1>3
<1>5. \A y \in S : y <= x
  BY <1>4
<1> QED BY <1>5 DEF Max

LEMMA LenType == ASSUME NEW l \in Log PROVE Len(l) \in Nat
BY DEF Log

\* An initial part of a log is a log.
LEMMA PrefixType ==
    ASSUME NEW l \in Log, NEW n \in 0..Len(l)
    PROVE  Prefix(l, n) \in Log /\ Len(Prefix(l, n)) = n
BY DEF Prefix, Log

LEMMA TermAtType ==
    ASSUME NEW l \in Log, NEW k \in 0..Len(l)
    PROVE  TermAt(l, k) \in Nat
<1>1. k # 0 => l[k] \in Entry
  BY DEF Log
<1> QED BY <1>1, BoundAssumption DEF TermAt, Entry, Term

\* The terms are numbers.
LEMMA TermsAreNat == Term \subseteq Nat /\ 0..MaxTerm \subseteq Nat
BY BoundAssumption DEF Term

\* What the AppendEntries loop leaves is a log that reaches the last entry sent.
LEMMA MergeLogType ==
    ASSUME NEW l \in Log, NEW es \in Log, NEW prev \in 0..Len(l)
    PROVE  MergeLog(l, prev, es) \in Log
<1> DEFINE differ == {k \in 1..Len(es) :
                        prev + k > Len(l) \/ l[prev + k].term # es[k].term}
<1> DEFINE k == Min(differ)
<1> HIDE DEF differ
<1>1. CASE differ = {}
  BY <1>1 DEF MergeLog, differ
<1>2. CASE differ # {}
  <2>1. k \in differ /\ \A x \in differ : k <= x
    <3>1. differ \in SUBSET Nat
      BY DEF differ
    <3> QED BY <1>2, <3>1, MinOfNat
  <2>2. k \in 1..Len(es)
    BY <2>1 DEF differ
  <2>3. prev + k - 1 \in 0..Len(l)
    <3>1. CASE k = 1
      BY <3>1 DEF Log
    <3>2. CASE k # 1
      <4>1. k - 1 \notin differ /\ k - 1 \in 1..Len(es)
        BY <2>1, <2>2, <3>2 DEF Log
      <4>2. prev + (k - 1) <= Len(l)
        BY <4>1 DEF differ, Log
      <4> QED BY <4>2, <2>2 DEF Log
    <3> QED BY <3>1, <3>2
  <2>4. Prefix(l, prev + k - 1) \in Log
    BY <2>3, PrefixType
  <2>5. SubSeq(es, k, Len(es)) \in Log
    BY <2>2 DEF Log
  <2>6. MergeLog(l, prev, es) = Prefix(l, prev + k - 1) \o SubSeq(es, k, Len(es))
    BY <1>2 DEF MergeLog, differ
  <2> QED BY <2>4, <2>5, <2>6 DEF Log
<1> QED BY <1>1, <1>2

\* The commit index that advanceCommitIndex finds is the old one or the index of
\* an entry.
LEMMA AdvanceType ==
    ASSUME TypeOK, NEW i \in Server, NEW match
    PROVE  \/ advanceCommitIndex(i, match) = commitIndex[i]
           \/ /\ advanceCommitIndex(i, match) \in commitIndex[i] + 1 .. Len(log[i])
              /\ log[i][advanceCommitIndex(i, match)].term = currentTerm[i]
              /\ Majority({i} \cup {p \in Server : match[p] >= advanceCommitIndex(i, match)})
<1> DEFINE n == {k \in commitIndex[i] + 1 .. Len(log[i]) :
                   /\ log[i][k].term = currentTerm[i]
                   /\ Majority({i} \cup {p \in Server : match[p] >= k})}
<1>1. commitIndex[i] \in Nat /\ Len(log[i]) \in Nat
  BY DEF TypeOK, Log
<1>2. n \in SUBSET Nat /\ \A x \in n : x <= Len(log[i])
  BY <1>1
<1>3. n # {} => Max(n) \in n
  <2> HIDE DEF n
  <2> QED BY <1>1, <1>2, MaxOfNat
<1>4. advanceCommitIndex(i, match) = IF n = {} THEN commitIndex[i] ELSE Max(n)
  BY DEF advanceCommitIndex
<1> QED BY <1>3, <1>4

\* Where fast backup resumes is an index.
LEMMA BackupType ==
    ASSUME NEW l \in Log, NEW r \in AppRep
    PROVE  BackupTo(l, r) \in Nat
<1> DEFINE same == {k \in 1..Len(l) : l[k].term = r.conflictTerm}
<1>1. Len(l) \in Nat /\ same \in SUBSET Nat /\ \A x \in same : x <= Len(l)
  BY DEF Log
<1>2. same # {} => Max(same) \in Nat
  <2> HIDE DEF same
  <2> QED BY <1>1, MaxOfNat
<1>3. Max2(1, r.conflictIndex) \in Nat
  BY DEF Max2, AppRep
<1>4. BackupTo(l, r) = IF r.conflictTerm # NoTerm /\ same # {} THEN Max(same) + 1
                       ELSE Max2(1, r.conflictIndex)
  BY DEF BackupTo
<1> QED BY <1>2, <1>3, <1>4

-----------------------------------------------------------------------------
(* Types. *)

\* The calls a peer makes, and the replies they get, are well formed.
LEMMA VoteReqType ==
    ASSUME TypeOK, NEW i \in Server, currentTerm[i] < MaxTerm, NEW j \in Server
    PROVE  [from |-> i, to |-> j, term |-> currentTerm[i] + 1,
            lastIndex |-> Len(log[i]), lastTerm |-> lastLogTerm(log[i])] \in VoteReq
<1>1. log[i] \in Log /\ Len(log[i]) \in 0..Len(log[i])
  BY DEF TypeOK, Log
<1>2. lastLogTerm(log[i]) \in Nat /\ Len(log[i]) \in Nat
  BY <1>1, TermAtType DEF lastLogTerm
<1>3. currentTerm[i] + 1 \in Term
  <2>1. currentTerm[i] \in 0..MaxTerm
    BY DEF TypeOK
  <2> QED BY <2>1, BoundAssumption DEF Term
<1> QED BY <1>2, <1>3 DEF VoteReq

LEMMA AppendArgsType ==
    ASSUME TypeOK, NEW i \in Server, NEW j \in Server, currentTerm[i] \in Term
    PROVE  AppendArgs(i, j) \in AppReq
<1> DEFINE next == Min2(Max2(nextIndex[i][j], 1), Len(log[i]) + 1)
<1>1. log[i] \in Log /\ Len(log[i]) \in Nat /\ nextIndex[i][j] \in Nat
  BY DEF TypeOK, Log
<1>2. next \in 1..Len(log[i]) + 1
  BY <1>1 DEF Min2, Max2
<1> HIDE DEF next
<1>3. next - 1 \in 0..Len(log[i])
  BY <1>1, <1>2
<1>4. TermAt(log[i], next - 1) \in Nat
  BY <1>1, <1>3, TermAtType
<1>5. SubSeq(log[i], next, Len(log[i])) \in Log
  BY <1>1, <1>2 DEF Log
<1>6. AppendArgs(i, j) =
         [from |-> i, to |-> j, term |-> currentTerm[i],
          prev |-> next - 1, prevTerm |-> TermAt(log[i], next - 1),
          entries |-> SubSeq(log[i], next, Len(log[i])),
          commit |-> commitIndex[i]]
  BY DEF AppendArgs, next
<1> QED BY <1>1, <1>3, <1>4, <1>5, <1>6 DEF AppReq, TypeOK

\* The inductive invariant for the types: only a peer that is in some term can be
\* a candidate or a leader, so the entries and calls it makes have a term; and a
\* call never doubts the sentinel log[0], so a refused PrevLogIndex is an entry.
SentinelCalls == \A m \in appReqs : m.prev = 0 => m.prevTerm = 0
TypeCore == TypeOK /\ RunningRoles
TypeInv == TypeCore /\ SentinelCalls

LEMMA TypeInit == Init => TypeInv
<1> SUFFICES ASSUME Init PROVE TypeInv
  OBVIOUS
<1>1. << >> \in Log
  BY DEF Log
<1>2. Fresh \in Saved
  BY <1>1, BoundAssumption DEF Fresh, Saved
<1>3. TypeOK
  BY <1>1, <1>2, BoundAssumption DEF Init, TypeOK, Role, Follower
<1>4. RunningRoles
  BY DEF Init, RunningRoles
<1>5. SentinelCalls
  BY DEF Init, SentinelCalls
<1> QED BY <1>3, <1>4, <1>5 DEF TypeInv, TypeCore

\* Saving a well-typed state.
LEMMA PersistType ==
    ASSUME NEW i \in Server, persist(i), persister \in [Server -> Saved],
           currentTerm'[i] \in 0..MaxTerm, votedFor'[i] \in Server \cup {Nil},
           log'[i] \in Log
    PROVE  persister' \in [Server -> Saved]
BY TermsAreNat DEF persist, Saved

\* Every call a leader makes agrees with the sentinel.
LEMMA SentinelStep == TypeInv /\ [Next]_vars => SentinelCalls'
<1> SUFFICES ASSUME TypeInv, [Next]_vars PROVE SentinelCalls'
  OBVIOUS
<1>1. ASSUME NEW i \in Server, NEW j \in Server, replicateTo(i, j) PROVE SentinelCalls'
  <2>1. AppendArgs(i, j).prev = 0 => AppendArgs(i, j).prevTerm = 0
    BY DEF AppendArgs, TermAt
  <2> QED BY <1>1, <2>1 DEF replicateTo, SentinelCalls, TypeInv
<1>2. ASSUME appReqs' \subseteq appReqs PROVE SentinelCalls'
  BY <1>2 DEF SentinelCalls, TypeInv
<1>3. ASSUME NEW m \in appReqs, \/ AppendEntriesStale(m)
                                \/ AppendEntriesReject(m)
                                \/ AppendEntriesAccept(m)
      PROVE  appReqs' \subseteq appReqs
  BY <1>3 DEF AppendEntriesStale, AppendEntriesReject, AppendEntriesAccept,
              AppendAnswer, Done
<1>4. ASSUME NEW i \in Server, startElection(i) \/ applier(i) \/ Crash(i) \/ Make(i)
      PROVE  appReqs' \subseteq appReqs
  BY <1>4 DEF startElection, applier, Crash, Make, calls
<1>5. ASSUME NEW i \in Server, NEW c \in Command, Start(i, c)
      PROVE  appReqs' \subseteq appReqs
  BY <1>5 DEF Start, calls
<1>6. ASSUME NEW m, RequestVote(m) \/ VoteReply(m) \/ AppendReplyNewerTerm(m)
             \/ AppendReplyIgnored(m) \/ AppendReplySuccess(m) \/ AppendReplyBackup(m)
      PROVE  appReqs' \subseteq appReqs
  BY <1>6 DEF RequestVote, VoteReply, AppendReplyNewerTerm, AppendReplyIgnored,
              AppendReplySuccess, AppendReplyBackup
<1>7. CASE Lose \/ UNCHANGED vars
  BY <1>2, <1>7 DEF Lose, vars, calls
<1> QED BY <1>1, <1>2, <1>3, <1>4, <1>5, <1>6, <1>7 DEF Next

LEMMA TypeStep == TypeInv /\ [Next]_vars => TypeCore'
<1> SUFFICES ASSUME TypeInv, [Next]_vars PROVE TypeCore'
  OBVIOUS
<1> USE DEF TypeInv, TypeCore
<1>1. ASSUME NEW i \in Server, startElection(i) PROVE TypeCore'
  <2>1. currentTerm' \in [Server -> 0..MaxTerm] /\ currentTerm'[i] \in Term
    BY <1>1, BoundAssumption DEF startElection, TypeOK, Term
  <2>2. votedFor' \in [Server -> Server \cup {Nil}] /\ log' = log
    BY <1>1 DEF startElection, TypeOK
  <2>3. persister' \in [Server -> Saved]
    BY <1>1, <2>1, <2>2, PersistType DEF startElection, TypeOK
  <2>4. voteReqs' \subseteq VoteReq
    BY <1>1, VoteReqType DEF startElection, TypeOK
  <2>5. role' \in [Server -> Role] /\ votes' \in [Server -> SUBSET Server]
    BY <1>1 DEF startElection, TypeOK, Role
  <2>6. TypeOK'
    BY <1>1, <2>1, <2>2, <2>3, <2>4, <2>5 DEF startElection, TypeOK, leading, history
  <2>7. RunningRoles'
    BY <1>1, <2>1 DEF startElection, RunningRoles, TypeOK
  <2> QED BY <2>6, <2>7
<1>2. ASSUME NEW m \in voteReqs, RequestVote(m) PROVE TypeCore'
  <2> DEFINE i == m.to
  <2>1. m \in VoteReq /\ i \in Server /\ m.term \in Term
    BY <1>2 DEF TypeOK, VoteReq
  <2>2. currentTerm' \in [Server -> 0..MaxTerm] /\ currentTerm'[i] \in Term
    BY <1>2, <2>1, BoundAssumption DEF RequestVote, TypeOK, Term, Max2
  <2>3. votedFor' \in [Server -> Server \cup {Nil}] /\ log' = log
    BY <1>2, <2>1 DEF RequestVote, TypeOK, VoteReq
  <2>4. persister' \in [Server -> Saved]
    BY <1>2, <2>1, <2>2, <2>3, PersistType DEF RequestVote, TypeOK
  <2>5. voteReqs' \subseteq VoteReq
    BY <1>2 DEF RequestVote, TypeOK
  <2>6. voteReps' \subseteq VoteRep
    <3> DEFINE vote  == IF m.term > currentTerm[i] THEN Nil ELSE votedFor[i]
               grant == /\ m.term >= currentTerm[i]
                        /\ vote \in {Nil, m.from}
                        /\ UpToDate(m, log[i])
    <3>1. voteReps' = voteReps \cup
                        {[req |-> m, term |-> currentTerm'[i], granted |-> grant]}
      BY <1>2, Zenon DEF RequestVote
    <3>2. grant \in BOOLEAN
      BY Zenon
    <3> HIDE DEF grant
    <3>3. [req |-> m, term |-> currentTerm'[i], granted |-> grant] \in VoteRep
      BY <2>1, <2>2, <3>2 DEF VoteRep
    <3> QED BY <3>1, <3>3 DEF TypeOK
  <2>7. role' \in [Server -> Role]
    BY <1>2, <2>1 DEF RequestVote, TypeOK, Role
  <2>8. TypeOK'
    BY <1>2, <2>2, <2>3, <2>4, <2>5, <2>6, <2>7 DEF RequestVote, TypeOK, leading, history
  <2>9. RunningRoles'
    <3>1. up' = up
      BY <1>2 DEF RequestVote
    <3>2. \A k \in Server \ {i} : role'[k] = role[k] /\ currentTerm'[k] = currentTerm[k]
      BY <1>2, <2>1 DEF RequestVote, TypeOK
    <3>3. role'[i] \in {Follower, role[i]}
      BY <1>2, <2>1 DEF RequestVote, TypeOK
    <3> QED BY <2>1, <2>2, <3>1, <3>2, <3>3 DEF RunningRoles
  <2> QED BY <2>8, <2>9
<1>3. ASSUME NEW r \in voteReps, VoteReply(r) PROVE TypeCore'
  <2> DEFINE i == r.req.from
  <2>1. r \in VoteRep /\ i \in Server /\ r.req.to \in Server /\ r.term \in Term
    BY <1>3 DEF TypeOK, VoteRep, VoteReq
  <2>2. voteReps' \subseteq VoteRep
    BY <1>3 DEF VoteReply, TypeOK
  <2>3. CASE r.term > currentTerm[i] /\ becomeFollower(i, r.term)
                /\ UNCHANGED <<votes, leading, elected, termLog>>
    <3>1. currentTerm' \in [Server -> 0..MaxTerm] /\ votedFor' \in [Server -> Server \cup {Nil}]
          /\ role' \in [Server -> Role] /\ log' = log
      BY <2>1, <2>3 DEF becomeFollower, TypeOK, Term, Role
    <3>2. persister' \in [Server -> Saved]
      BY <2>1, <2>3, <3>1, PersistType DEF becomeFollower, TypeOK
    <3>3. TypeOK'
      BY <1>3, <2>2, <2>3, <3>1, <3>2 DEF VoteReply, TypeOK, leading
    <3>4. RunningRoles'
      BY <1>3, <2>1, <2>3 DEF VoteReply, becomeFollower, RunningRoles, TypeOK
    <3> QED BY <3>3, <3>4
  <2>4. CASE /\ InElection(i, r)
             /\ votes' = [votes EXCEPT ![i] = @ \cup {r.req.to}]
             /\ IF Majority(votes[i] \cup {r.req.to})
                THEN becomeLeader(i)
                ELSE UNCHANGED <<role, leading, elected, termLog>>
             /\ UNCHANGED server
    <3>1. currentTerm[i] \in Term /\ up[i] /\ log[i] \in Log
      BY <2>1, <2>4 DEF InElection, RunningRoles, Candidate, Follower, TypeOK
    <3>2. votes' \in [Server -> SUBSET Server]
      BY <2>1, <2>4 DEF TypeOK
    <3>3. CASE becomeLeader(i)
      <4>1. role' \in [Server -> Role] /\ \A k \in Server : role'[k] # Follower => role[k] # Follower \/ k = i
        BY <2>1, <3>3 DEF becomeLeader, TypeOK, Role
      <4>2. nextIndex' \in [Server -> [Server -> Nat]] /\ matchIndex' \in [Server -> [Server -> Nat]]
        <5>1. Len(log[i]) \in Nat
          BY <3>1, LenType
        <5>2. [j \in Server |-> Len(log[i]) + 1] \in [Server -> Nat]
              /\ [j \in Server |-> IF j = i THEN Len(log[i]) ELSE 0] \in [Server -> Nat]
          BY <5>1
        <5> QED BY <2>1, <3>3, <5>2 DEF becomeLeader, TypeOK
      <4>3. elected' \in [Term -> SUBSET [leader : Server, voters : SUBSET Server]]
        <5>1. [leader |-> i, voters |-> votes'[i]] \in [leader : Server, voters : SUBSET Server]
          BY <2>1, <3>2
        <5> QED BY <3>1, <3>3, <5>1 DEF becomeLeader, TypeOK
      <4>4. termLog' \in [Term -> Log]
        BY <2>1, <3>1, <3>3 DEF becomeLeader, TypeOK
      <4>5. TypeOK'
        BY <1>3, <2>2, <2>4, <3>2, <4>1, <4>2, <4>3, <4>4 DEF VoteReply, TypeOK, server
      <4>6. RunningRoles'
        BY <1>3, <2>4, <3>1, <4>1 DEF VoteReply, RunningRoles, server
      <4> QED BY <4>5, <4>6
    <3>4. CASE UNCHANGED <<role, leading, elected, termLog>>
      <4>1. TypeOK'
        BY <1>3, <2>2, <2>4, <3>2, <3>4 DEF VoteReply, TypeOK, server, leading
      <4>2. RunningRoles'
        BY <1>3, <2>4, <3>4 DEF VoteReply, RunningRoles, server
      <4> QED BY <4>1, <4>2
    <3> QED BY <2>4, <3>3, <3>4
  <2>5. CASE UNCHANGED <<server, role, votes, leading, elected, termLog>>
    <3>1. TypeOK'
      BY <1>3, <2>2, <2>5 DEF VoteReply, TypeOK, server, leading
    <3>2. RunningRoles'
      BY <1>3, <2>5 DEF VoteReply, RunningRoles, server
    <3> QED BY <3>1, <3>2
  <2> QED BY <1>3, <2>3, <2>4, <2>5 DEF VoteReply
<1>4. ASSUME NEW i \in Server, NEW c \in Command, Start(i, c) PROVE TypeCore'
  <2>1. currentTerm[i] \in Term /\ log[i] \in Log
    BY <1>4 DEF Start, RunningRoles, Leader, Follower, TypeOK
  <2>2. log' \in [Server -> Log]
    <3>1. [term |-> currentTerm[i], command |-> c] \in Entry
      BY <2>1 DEF Entry
    <3>2. Append(log[i], [term |-> currentTerm[i], command |-> c]) \in Log
      BY <2>1, <3>1 DEF Log
    <3> QED BY <1>4, <3>2 DEF Start, TypeOK
  <2>3. persister' \in [Server -> Saved]
    BY <1>4, <2>2, PersistType DEF Start, TypeOK
  <2>4. termLog' \in [Term -> Log]
    BY <1>4, <2>2 DEF Start, TypeOK
  <2>5. TypeOK'
    BY <1>4, <2>2, <2>3, <2>4 DEF Start, TypeOK, leading, calls
  <2>6. RunningRoles'
    BY <1>4 DEF Start, RunningRoles
  <2> QED BY <2>5, <2>6
<1>5. ASSUME NEW i \in Server, NEW j \in Server, replicateTo(i, j) PROVE TypeCore'
  <2>1. AppendArgs(i, j) \in AppReq
    BY <1>5, AppendArgsType DEF replicateTo, RunningRoles, Leader, Follower
  <2>2. TypeOK'
    BY <1>5, <2>1 DEF replicateTo, TypeOK, server, leading, history
  <2>3. RunningRoles'
    BY <1>5 DEF replicateTo, RunningRoles, server
  <2> QED BY <2>2, <2>3
<1>6. ASSUME NEW m \in appReqs, AppendEntriesStale(m) PROVE TypeCore'
  <2>1. m \in AppReq /\ m.to \in Server /\ m.term \in Term
    BY <1>6 DEF TypeOK, AppReq
  <2>2. currentTerm[m.to] \in Term
    BY <1>6, <2>1, BoundAssumption DEF AppendEntriesStale, TypeOK, Term
  <2>3. [req |-> m, term |-> currentTerm[m.to], success |-> FALSE,
         conflictTerm |-> NoTerm, conflictIndex |-> -1] \in AppRep
    BY <2>1, <2>2 DEF AppRep, NoTerm
  <2>4. appReqs' \subseteq AppReq /\ appReps' \subseteq AppRep
    BY <1>6, <2>3 DEF AppendEntriesStale, AppendAnswer, Done, TypeOK
  <2>5. TypeOK'
    BY <1>6, <2>4 DEF AppendEntriesStale, AppendAnswer, TypeOK, server, leading, history
  <2>6. RunningRoles'
    BY <1>6 DEF AppendEntriesStale, AppendAnswer, RunningRoles, server
  <2> QED BY <2>5, <2>6
<1>7. ASSUME NEW m \in appReqs, AppendEntriesReject(m) PROVE TypeCore'
  <2> DEFINE i == m.to
  <2>1. m \in AppReq /\ i \in Server /\ m.term \in Term /\ m.prev \in Nat
        /\ log[i] \in Log /\ Len(log[i]) \in Nat
    <3>1. m \in AppReq /\ i \in Server /\ m.term \in Term /\ m.prev \in Nat
      BY <1>7 DEF TypeOK, AppReq
    <3> QED BY <3>1, LenType DEF TypeOK
  <2>2. currentTerm' \in [Server -> 0..MaxTerm] /\ votedFor' \in [Server -> Server \cup {Nil}]
        /\ role' \in [Server -> Role] /\ log' = log
    BY <1>7, <2>1 DEF AppendEntriesReject, AcceptTerm, TypeOK, Term, Role
  <2>3. persister' \in [Server -> Saved]
    BY <1>7, <2>1, <2>2, PersistType DEF AppendEntriesReject, TypeOK
  <2>4. m.prev <= Len(log[i]) =>
          [req |-> m, term |-> m.term, success |-> FALSE,
           conflictTerm |-> log[i][m.prev].term,
           conflictIndex |-> ConflictStart(log[i], m.prev)] \in AppRep
    <3> SUFFICES ASSUME m.prev <= Len(log[i])
                 PROVE  log[i][m.prev].term \in Int /\ ConflictStart(log[i], m.prev) \in Int
      BY <2>1 DEF AppRep
    <3>1. m.prev # 0
      BY <1>7, <2>1 DEF AppendEntriesReject, Matches, TermAt, SentinelCalls
    <3>2. log[i][m.prev] \in Entry
      BY <2>1, <3>1 DEF Log
    <3> DEFINE run == {k \in 1..m.prev : \A j \in k..m.prev : log[i][j].term = log[i][m.prev].term}
    <3>3. m.prev \in run /\ run \in SUBSET Nat /\ run # {}
      BY <2>1, <3>1
    <3>4. Min(run) \in run
      <4> HIDE DEF run
      <4> QED BY <3>3, MinOfNat
    <3>5. ConflictStart(log[i], m.prev) = Min(run)
      BY DEF ConflictStart
    <3>6. Min(run) \in Int
      <4>1. \A k \in run : k \in Int
        BY <2>1
      <4> HIDE DEF run
      <4> QED BY <3>4, <4>1
    <3>7. log[i][m.prev].term \in Int
      <4>1. log[i][m.prev].term \in Term
        BY <3>2 DEF Entry
      <4> QED BY <4>1, BoundAssumption DEF Term
    <3> QED BY <3>5, <3>6, <3>7
  <2>5. [req |-> m, term |-> m.term, success |-> FALSE,
         conflictTerm |-> NoTerm, conflictIndex |-> Len(log[i]) + 1] \in AppRep
    BY <2>1 DEF AppRep, NoTerm
  <2>6. appReqs' \subseteq AppReq /\ appReps' \subseteq AppRep
    <3> DEFINE short == [req |-> m, term |-> m.term, success |-> FALSE,
                         conflictTerm |-> NoTerm, conflictIndex |-> Len(log[i]) + 1]
               other == [req |-> m, term |-> m.term, success |-> FALSE,
                         conflictTerm |-> log[i][m.prev].term,
                         conflictIndex |-> ConflictStart(log[i], m.prev)]
    <3>1. AppendAnswer(m, IF m.prev > Len(log[i]) THEN short ELSE other)
      BY <1>7 DEF AppendEntriesReject
    <3>2. (IF m.prev > Len(log[i]) THEN short ELSE other) \in AppRep
      BY <2>1, <2>4, <2>5
    <3> HIDE DEF short, other
    <3> QED BY <3>1, <3>2 DEF AppendAnswer, Done, TypeOK
  <2>7. TypeOK'
    BY <1>7, <2>2, <2>3, <2>6 DEF AppendEntriesReject, AppendAnswer, TypeOK, leading, history
  <2>8. RunningRoles'
    BY <1>7, <2>1 DEF AppendEntriesReject, AppendAnswer, AcceptTerm, RunningRoles, TypeOK
  <2> QED BY <2>7, <2>8
<1>8. ASSUME NEW m \in appReqs, AppendEntriesAccept(m) PROVE TypeCore'
  <2> DEFINE i == m.to
  <2>1. m \in AppReq /\ i \in Server /\ m.term \in Term /\ m.prev \in Nat
        /\ m.commit \in Nat /\ m.entries \in Log /\ log[i] \in Log
    BY <1>8 DEF TypeOK, AppReq
  <2>2. MergeLog(log[i], m.prev, m.entries) \in Log
    <3>1. m.prev \in 0..Len(log[i])
      BY <1>8, <2>1 DEF AppendEntriesAccept, Matches, Log
    <3> QED BY <2>1, <3>1, MergeLogType
  <2>3. currentTerm' \in [Server -> 0..MaxTerm] /\ votedFor' \in [Server -> Server \cup {Nil}]
        /\ role' \in [Server -> Role] /\ log' \in [Server -> Log]
    BY <1>8, <2>1, <2>2 DEF AppendEntriesAccept, AcceptTerm, TypeOK, Term, Role
  <2>4. persister' \in [Server -> Saved]
    BY <1>8, <2>1, <2>3, PersistType DEF AppendEntriesAccept, TypeOK
  <2>5. commitIndex' \in [Server -> Nat]
    <3>1. Len(m.entries) \in Nat /\ commitIndex[i] \in Nat
      BY <2>1 DEF TypeOK, Log
    <3>2. FollowerCommit(m, commitIndex[i]) \in Nat
      BY <2>1, <3>1 DEF FollowerCommit, Min2
    <3> QED BY <1>8, <2>1, <3>2 DEF AppendEntriesAccept, TypeOK
  <2>6. [req |-> m, term |-> m.term, success |-> TRUE,
         conflictTerm |-> NoTerm, conflictIndex |-> -1] \in AppRep
    BY <2>1 DEF AppRep, NoTerm
  <2>7. appReqs' \subseteq AppReq /\ appReps' \subseteq AppRep
    BY <1>8, <2>6 DEF AppendEntriesAccept, AppendAnswer, Done, TypeOK
  <2>a. acked' \in [Server -> [Term -> Nat]]
    <3>1. Max2(acked[i][m.term], m.prev + Len(m.entries)) \in Nat
      <4>1. acked[i][m.term] \in Nat
        BY <2>1 DEF TypeOK
      <4>2. Len(m.entries) \in Nat
        BY <2>1, LenType
      <4> QED BY <2>1, <4>1, <4>2 DEF Max2
    <3> QED BY <1>8, <2>1, <3>1 DEF AppendEntriesAccept, TypeOK
  <2>8. TypeOK'
    BY <1>8, <2>3, <2>4, <2>5, <2>7, <2>a DEF AppendEntriesAccept, AppendAnswer, TypeOK,
       leading
  <2>9. RunningRoles'
    BY <1>8, <2>1 DEF AppendEntriesAccept, AppendAnswer, AcceptTerm, RunningRoles, TypeOK
  <2> QED BY <2>8, <2>9
<1>9. ASSUME NEW r \in appReps, AppendReplyNewerTerm(r) PROVE TypeCore'
  <2> DEFINE i == r.req.from
  <2>1. i \in Server /\ r.term \in Term
    BY <1>9 DEF TypeOK, AppRep, AppReq
  <2>2. currentTerm' \in [Server -> 0..MaxTerm] /\ votedFor' \in [Server -> Server \cup {Nil}]
        /\ role' \in [Server -> Role] /\ log' = log
    BY <1>9, <2>1 DEF AppendReplyNewerTerm, becomeFollower, TypeOK, Term, Role
  <2>3. persister' \in [Server -> Saved]
    BY <1>9, <2>1, <2>2, PersistType DEF AppendReplyNewerTerm, becomeFollower, TypeOK
  <2>4. TypeOK'
    BY <1>9, <2>2, <2>3 DEF AppendReplyNewerTerm, Done, TypeOK, leading, history
  <2>5. RunningRoles'
    BY <1>9, <2>1 DEF AppendReplyNewerTerm, becomeFollower, RunningRoles, TypeOK
  <2> QED BY <2>4, <2>5
<1>10. ASSUME NEW r \in appReps, AppendReplyIgnored(r) PROVE TypeCore'
  <2>1. TypeOK'
    BY <1>10 DEF AppendReplyIgnored, Done, TypeOK, server, leading, history
  <2>2. RunningRoles'
    BY <1>10 DEF AppendReplyIgnored, RunningRoles, server
  <2> QED BY <2>1, <2>2
<1>11. ASSUME NEW r \in appReps, AppendReplySuccess(r) PROVE TypeCore'
  <2> DEFINE i == r.req.from
             match == r.req.prev + Len(r.req.entries)
             new == advanceCommitIndex(i, matchIndex'[i])
  <2>1. i \in Server /\ r.req.to \in Server /\ match \in Nat
    <3>1. r.req \in AppReq
      BY <1>11 DEF TypeOK, AppRep
    <3>2. i \in Server /\ r.req.to \in Server /\ r.req.prev \in Nat /\ r.req.entries \in Log
      BY <3>1 DEF AppReq
    <3> QED BY <3>2, LenType
  <2>2. matchIndex' \in [Server -> [Server -> Nat]] /\ nextIndex' \in [Server -> [Server -> Nat]]
    <3> HIDE DEF match
    <3>1. matchIndex' = [matchIndex EXCEPT ![i][r.req.to] =
                           IF match > matchIndex[i][r.req.to] THEN match ELSE @]
          /\ nextIndex' = [nextIndex EXCEPT ![i][r.req.to] =
                           IF match > matchIndex[i][r.req.to] THEN match + 1 ELSE @]
      BY <1>11 DEF AppendReplySuccess, match
    <3> QED BY <2>1, <3>1 DEF TypeOK
  <2>3. commitIndex[i] \in Nat /\ Len(log[i]) \in Nat /\ log[i] \in Log /\ currentTerm[i] \in Nat
    <3>1. commitIndex[i] \in Nat /\ log[i] \in Log /\ currentTerm[i] \in 0..MaxTerm
      BY <2>1 DEF TypeOK
    <3> QED BY <3>1, LenType, TermsAreNat
  <2>4. new = commitIndex[i] \/ new \in commitIndex[i] + 1 .. Len(log[i])
    BY <2>1, AdvanceType
  <2> HIDE DEF new
  <2>5. commitIndex' \in [Server -> Nat]
    <3>1. commitIndex' = [commitIndex EXCEPT ![i] = new]
      BY <1>11 DEF AppendReplySuccess, new
    <3>2. new \in Nat
      BY <2>3, <2>4
    <3> QED BY <2>1, <3>1, <3>2 DEF TypeOK
  <2>6. chosen' \in Log /\ chosenTerm' \in Nat
    <3>1. CASE new > commitIndex[i]
      <4>1. Prefix(log[i], new) \in Log
        BY <2>3, <2>4, <3>1, PrefixType
      <4> QED BY <1>11, <2>3, <4>1 DEF AppendReplySuccess, new, TypeOK
    <3>2. CASE ~(new > commitIndex[i])
      BY <1>11, <3>2 DEF AppendReplySuccess, new, TypeOK
    <3> QED BY <3>1, <3>2
  <2>7. TypeOK'
    BY <1>11, <2>2, <2>5, <2>6 DEF AppendReplySuccess, Done, TypeOK, server
  <2>8. RunningRoles'
    BY <1>11 DEF AppendReplySuccess, RunningRoles, server
  <2> QED BY <2>7, <2>8
<1>12. ASSUME NEW r \in appReps, AppendReplyBackup(r) PROVE TypeCore'
  <2>1. r \in AppRep /\ r.req.from \in Server /\ r.req.to \in Server
    BY <1>12 DEF TypeOK, AppRep, AppReq
  <2>2. BackupTo(log[r.req.from], r) \in Nat
    BY <2>1, BackupType DEF TypeOK
  <2>3. nextIndex' \in [Server -> [Server -> Nat]]
    BY <1>12, <2>1, <2>2 DEF AppendReplyBackup, TypeOK
  <2>4. TypeOK'
    BY <1>12, <2>3 DEF AppendReplyBackup, Done, TypeOK, server, history
  <2>5. RunningRoles'
    BY <1>12 DEF AppendReplyBackup, RunningRoles, server
  <2> QED BY <2>4, <2>5
<1>13. ASSUME NEW i \in Server, applier(i) PROVE TypeCore'
  <2>1. TypeOK'
    BY <1>13 DEF applier, TypeOK, server, leading, calls, history
  <2>2. RunningRoles'
    BY <1>13 DEF applier, RunningRoles, server
  <2> QED BY <2>1, <2>2
<1>14. CASE Lose
  <2>1. TypeOK'
    BY <1>14 DEF Lose, TypeOK, server, leading, history
  <2>2. RunningRoles'
    BY <1>14 DEF Lose, RunningRoles, server
  <2> QED BY <2>1, <2>2
<1>15. ASSUME NEW i \in Server, Crash(i) PROVE TypeCore'
  <2>1. << >> \in Log
    BY DEF Log
  <2>2. TypeOK'
    BY <1>15, <2>1, BoundAssumption DEF Crash, TypeOK, Role, history
  <2>3. RunningRoles'
    BY <1>15 DEF Crash, RunningRoles, TypeOK
  <2> QED BY <2>2, <2>3
<1>16. ASSUME NEW i \in Server, Make(i) PROVE TypeCore'
  <2>1. persister[i] \in Saved
    BY DEF TypeOK
  <2>2. currentTerm' \in [Server -> 0..MaxTerm] /\ votedFor' \in [Server -> Server \cup {Nil}]
        /\ log' \in [Server -> Log]
    BY <1>16, <2>1 DEF Make, TypeOK, Saved
  <2>3. TypeOK'
    BY <1>16, <2>2 DEF Make, TypeOK, leading, calls, history
  <2>4. RunningRoles'
    BY <1>16 DEF Make, RunningRoles, TypeOK
  <2> QED BY <2>3, <2>4
<1>17. CASE UNCHANGED vars
  <2>1. TypeOK'
    BY <1>17 DEF vars, TypeOK, server, leading, calls, history
  <2>2. RunningRoles'
    BY <1>17 DEF vars, RunningRoles, server
  <2> QED BY <2>1, <2>2
<1> QED BY <1>1, <1>2, <1>3, <1>4, <1>5, <1>6, <1>7, <1>8, <1>9, <1>10, <1>11, <1>12,
           <1>13, <1>14, <1>15, <1>16, <1>17 DEF Next

\* In every behaviour of Raft the variables have their types, and no call or
\* entry is ever made outside a term: RequestVote, AppendEntries and Start never
\* see a value the Go types would not hold.
THEOREM TypeCorrect == Spec => []TypeOK
<1>1. Init => TypeInv
  BY TypeInit
<1>2. TypeInv /\ [Next]_vars => TypeInv'
  BY TypeStep, SentinelStep DEF TypeInv
<1>3. TypeInv => TypeOK
  BY DEF TypeInv, TypeCore
<1> QED BY <1>1, <1>2, <1>3, PTL DEF Spec

-----------------------------------------------------------------------------
(* Elections. *)

\* What any step may do to a persister: nothing, a later term, or the vote of
\* the term it is in when there is none yet.
SavesOnward(p) ==
    \/ persister'[p] = persister[p]
    \/ persister'[p].term > persister[p].term
    \/ /\ persister'[p].term = persister[p].term
       /\ persister[p].vote \in {Nil, persister'[p].vote}

\* So a vote once saved stays saved.
LEMMA VoteStaysSaved ==
    ASSUME TypeOK, TypeOK', NEW p \in Server, SavesOnward(p), NEW t \in Term,
           NEW c \in Server, VoteIsSaved(p, t, c)
    PROVE  VoteIsSaved(p, t, c)'
<1>1. persister[p].term \in Int /\ persister'[p].term \in Int /\ t \in Int
  <2>1. persister[p] \in Saved /\ persister'[p] \in Saved
    BY DEF TypeOK
  <2> QED BY <2>1, BoundAssumption DEF Saved, Term
<1>2. c # Nil
  BY ServerAssumption
<1> QED BY <1>1, <1>2 DEF SavesOnward, VoteIsSaved

\* A step that makes no new claim keeps the claims backed and in agreement.
LEMMA NoNewClaim ==
    ASSUME TypeOK, TypeOK', ElectionInv, \A p \in Server : SavesOnward(p),
           \A p, c \in Server : \A t \in Term : Claim(p, t, c)' => Claim(p, t, c)
    PROVE  ClaimsSaved' /\ ClaimsAgree'
<1>1. ASSUME NEW p \in Server, NEW c \in Server, NEW t \in Term, Claim(p, t, c)'
      PROVE  VoteIsSaved(p, t, c)'
  <2>1. VoteIsSaved(p, t, c)
    BY <1>1 DEF ElectionInv, ClaimsSaved
  <2> QED BY <2>1, VoteStaysSaved
<1>2. ClaimsSaved'
  BY <1>1 DEF ClaimsSaved
<1>3. ClaimsAgree'
  BY DEF ClaimsAgree, ElectionInv
<1> QED BY <1>2, <1>3

\* So does a step that makes one, if the voter has just saved that vote and
\* nobody else had a claim to it.
LEMMA OneNewClaim ==
    ASSUME TypeOK, TypeOK', ElectionInv, \A p \in Server : SavesOnward(p),
           NEW q \in Server, NEW s \in Term, NEW b \in Server,
           VoteIsSaved(q, s, b)',
           \A d \in Server : Claim(q, s, d) => d = b,
           \A p, c \in Server : \A t \in Term :
               Claim(p, t, c)' => Claim(p, t, c) \/ (p = q /\ t = s /\ c = b)
    PROVE  ClaimsSaved' /\ ClaimsAgree'
<1>1. ASSUME NEW p \in Server, NEW c \in Server, NEW t \in Term, Claim(p, t, c)'
      PROVE  VoteIsSaved(p, t, c)'
  <2>1. CASE Claim(p, t, c)
    <3>1. VoteIsSaved(p, t, c)
      BY <2>1 DEF ElectionInv, ClaimsSaved
    <3> QED BY <3>1, VoteStaysSaved
  <2>2. CASE p = q /\ t = s /\ c = b
    BY <2>2
  <2> QED BY <1>1, <2>1, <2>2
<1>2. ClaimsSaved'
  BY <1>1 DEF ClaimsSaved
<1>3. ClaimsAgree'
  BY DEF ClaimsAgree, ElectionInv
<1> QED BY <1>2, <1>3

LEMMA CurrentIsSaved ==
    ASSUME ElectionInv, NEW i \in Server, up[i]
    PROVE  /\ persister[i].term = currentTerm[i]
           /\ persister[i].vote = votedFor[i]
           /\ persister[i].log = log[i]
<1>1. persister[i] = [term |-> currentTerm[i], vote |-> votedFor[i], log |-> log[i]]
  BY Zenon DEF ElectionInv, SavedIsCurrent
<1> QED BY <1>1

\* A peer in term s that is free to vote for b: no other peer claims its vote.
LEMMA FreeVote ==
    ASSUME TypeOK, ElectionInv, NEW q \in Server, up[q], NEW s \in Term, NEW b \in Server,
           \/ currentTerm[q] < s
           \/ currentTerm[q] = s /\ votedFor[q] \in {Nil, b},
           NEW d \in Server, Claim(q, s, d)
    PROVE  d = b
<1>1. persister[q].term = currentTerm[q] /\ persister[q].vote = votedFor[q]
  BY CurrentIsSaved
<1>2. VoteIsSaved(q, s, d)
  BY DEF ElectionInv, ClaimsSaved
<1>3. currentTerm[q] \in Int /\ s \in Int
  BY BoundAssumption DEF TypeOK, Term
<1> QED BY <1>1, <1>2, <1>3, ServerAssumption DEF VoteIsSaved

\* What follows when peer i saves its state at the end of a step that has brought
\* it to a later term, or left it in its term with the vote it had or a new one.
LEMMA SavedStep ==
    ASSUME TypeOK, TypeOK', ElectionInv, NEW i \in Server, up[i], up' = up, persist(i),
           \A k \in Server \ {i} : /\ currentTerm'[k] = currentTerm[k]
                                    /\ votedFor'[k] = votedFor[k]
                                    /\ log'[k] = log[k],
           \/ currentTerm'[i] > currentTerm[i]
           \/ currentTerm'[i] = currentTerm[i] /\ votedFor[i] \in {Nil, votedFor'[i]}
    PROVE  SavedIsCurrent' /\ \A p \in Server : SavesOnward(p)
<1>1. persister'[i] = [term |-> currentTerm'[i], vote |-> votedFor'[i], log |-> log'[i]]
      /\ \A k \in Server \ {i} : persister'[k] = persister[k]
  BY DEF persist, TypeOK
<1>2. SavedIsCurrent'
  BY <1>1 DEF SavedIsCurrent, ElectionInv
<1>3. \A k \in Server \ {i} : SavesOnward(k)
  BY <1>1 DEF SavesOnward
<1>4. SavesOnward(i)
  <2>1. persister[i].term = currentTerm[i] /\ persister[i].vote = votedFor[i]
    BY CurrentIsSaved
  <2> QED BY <1>1, <2>1 DEF SavesOnward
<1> QED BY <1>2, <1>3, <1>4

\* Steps that touch neither what is saved nor what is claimed.
LEMMA ElectionFrame ==
    ASSUME ElectionInv, UNCHANGED <<up, server, role, votes, voteReps, elected>>
    PROVE  ElectionInv'
BY DEF ElectionInv, SavedIsCurrent, RunningRoles, ClaimsSaved, ClaimsAgree, WonByMajority,
       Claim, VoteIsSaved, server

LEMMA ElectionInit == Init => ElectionInv
<1> SUFFICES ASSUME Init PROVE ElectionInv
  OBVIOUS
<1>1. SavedIsCurrent
  BY DEF Init, SavedIsCurrent, Fresh
<1>2. RunningRoles
  BY DEF Init, RunningRoles
<1>3. \A p, c \in Server : \A t \in Term : ~Claim(p, t, c)
  BY DEF Init, Claim, Follower, Candidate
<1>4. WonByMajority
  BY DEF Init, WonByMajority
<1> QED BY <1>1, <1>2, <1>3, <1>4 DEF ElectionInv, ClaimsSaved, ClaimsAgree

\* Peer i steps down, or stays a follower, in a later term or in its own, and the
\* claims it had as a candidate lapse: becomeFollower and AcceptTerm.
LEMMA StepDown ==
    ASSUME TypeOK, TypeCore', ElectionInv, NEW i \in Server, up[i], up' = up,
           role' = [role EXCEPT ![i] = Follower], persist(i),
           voteReps' \subseteq voteReps, UNCHANGED <<votes, elected>>,
           \A k \in Server \ {i} : /\ currentTerm'[k] = currentTerm[k]
                                    /\ votedFor'[k] = votedFor[k]
                                    /\ log'[k] = log[k],
           \/ currentTerm'[i] > currentTerm[i]
           \/ currentTerm'[i] = currentTerm[i] /\ votedFor[i] \in {Nil, votedFor'[i]}
    PROVE  ElectionInv'
<1>1. SavedIsCurrent' /\ \A p \in Server : SavesOnward(p)
  BY SavedStep DEF TypeCore
<1>2. \A c \in Server : role'[c] = Candidate => role[c] = Candidate /\ c # i
  BY DEF TypeOK, Follower, Candidate
<1>3. \A p, c \in Server : \A t \in Term : Claim(p, t, c)' => Claim(p, t, c)
  BY <1>2 DEF Claim
<1>4. ClaimsSaved' /\ ClaimsAgree'
  BY <1>1, <1>3, NoNewClaim DEF TypeCore
<1>5. WonByMajority'
  BY DEF WonByMajority, ElectionInv
<1> QED BY <1>1, <1>4, <1>5 DEF ElectionInv, TypeCore

LEMMA ElectionStep == TypeInv /\ ElectionInv /\ [Next]_vars => ElectionInv'
<1> SUFFICES ASSUME TypeInv, ElectionInv, [Next]_vars PROVE ElectionInv'
  OBVIOUS
<1>t. TypeOK /\ TypeOK' /\ RunningRoles' /\ TypeCore'
  BY TypeStep DEF TypeInv, TypeCore
<1>1. ASSUME NEW i \in Server, startElection(i) PROVE ElectionInv'
  <2>0. PICK s \in Term : s = currentTerm[i] + 1
    BY <1>1, <1>t, BoundAssumption DEF startElection, TypeOK, Term
  <2>1. currentTerm[i] < s /\ up[i]
    BY <1>1, <1>t, <2>0, BoundAssumption DEF startElection, TypeOK, Term
  <2>2. /\ currentTerm'[i] = s /\ votedFor'[i] = i /\ votes'[i] = {i}
        /\ \A k \in Server \ {i} : /\ currentTerm'[k] = currentTerm[k]
                                    /\ votedFor'[k] = votedFor[k]
                                    /\ log'[k] = log[k]
                                    /\ role'[k] = role[k]
                                    /\ votes'[k] = votes[k]
    BY <1>1, <1>t, <2>0 DEF startElection, TypeOK
  <2>3. persist(i) /\ up' = up /\ voteReps' = voteReps /\ elected' = elected
    BY <1>1 DEF startElection, history
  <2>4. SavedIsCurrent' /\ \A p \in Server : SavesOnward(p)
    BY <1>t, <2>1, <2>2, <2>3, SavedStep
  <2>5. VoteIsSaved(i, s, i)'
    BY <1>t, <2>2, <2>3 DEF VoteIsSaved, persist, TypeOK
  <2>6. \A d \in Server : Claim(i, s, d) => d = i
    BY <1>t, <2>1, FreeVote
  <2>7. \A p, c \in Server : \A t \in Term :
           Claim(p, t, c)' => Claim(p, t, c) \/ (p = i /\ t = s /\ c = i)
    BY <2>2, <2>3 DEF Claim
  <2>8. ClaimsSaved' /\ ClaimsAgree'
    BY <1>t, <2>1, <2>4, <2>5, <2>6, <2>7, OneNewClaim
  <2>9. WonByMajority'
    BY <2>3 DEF WonByMajority, ElectionInv
  <2> QED BY <1>t, <2>4, <2>8, <2>9 DEF ElectionInv
<1>2. ASSUME NEW m \in voteReqs, RequestVote(m) PROVE ElectionInv'
  <2> DEFINE i     == m.to
             newer == m.term > currentTerm[i]
             vote  == IF newer THEN Nil ELSE votedFor[i]
             grant == /\ m.term >= currentTerm[i]
                      /\ vote \in {Nil, m.from}
                      /\ UpToDate(m, log[i])
  <2>1. i \in Server /\ m.from \in Server /\ m.term \in Term /\ m.term \in Int
        /\ currentTerm[i] \in Int /\ up[i]
    BY <1>2, <1>t, BoundAssumption DEF RequestVote, TypeOK, VoteReq, Term
  <2>2. /\ currentTerm'[i] = (IF newer THEN m.term ELSE currentTerm[i])
        /\ votedFor'[i] = (IF grant THEN m.from ELSE vote)
        /\ role'[i] \in {Follower, role[i]} /\ (newer => role'[i] = Follower)
        /\ \A k \in Server \ {i} : /\ currentTerm'[k] = currentTerm[k]
                                    /\ votedFor'[k] = votedFor[k]
                                    /\ log'[k] = log[k]
                                    /\ role'[k] = role[k]
    <3>1. currentTerm' = [currentTerm EXCEPT ![i] = Max2(@, m.term)]
          /\ role' = [role EXCEPT ![i] = IF newer THEN Follower ELSE @]
          /\ votedFor' = [votedFor EXCEPT ![i] = IF grant THEN m.from ELSE vote]
          /\ log' = log
      BY <1>2, Zenon DEF RequestVote
    <3>2. currentTerm'[i] = (IF newer THEN m.term ELSE currentTerm[i])
      <4>1. currentTerm'[i] = Max2(currentTerm[i], m.term)
        BY <1>t, <2>1, <3>1 DEF TypeOK
      <4> QED BY <2>1, <4>1 DEF Max2
    <3>3. role'[i] \in {Follower, role[i]} /\ (newer => role'[i] = Follower)
      BY <1>t, <2>1, <3>1 DEF TypeOK
    <3> HIDE DEF grant, vote, newer
    <3>4. votedFor'[i] = (IF grant THEN m.from ELSE vote)
      BY <1>t, <2>1, <3>1, Zenon DEF TypeOK
    <3>5. \A k \in Server \ {i} : /\ currentTerm'[k] = currentTerm[k]
                                   /\ votedFor'[k] = votedFor[k]
                                   /\ log'[k] = log[k]
                                   /\ role'[k] = role[k]
      BY <1>t, <2>1, <3>1 DEF TypeOK
    <3> QED BY <3>2, <3>3, <3>4, <3>5
  <2>3. /\ up' = up /\ votes' = votes /\ elected' = elected /\ log' = log
        /\ IF newer \/ grant THEN persist(i) ELSE UNCHANGED persister
        /\ voteReps' = voteReps \cup {[req |-> m, term |-> currentTerm'[i], granted |-> grant]}
    BY <1>2, Zenon DEF RequestVote, history
  <2>4. grant => \/ currentTerm[i] < m.term
                 \/ currentTerm[i] = m.term /\ votedFor[i] \in {Nil, m.from}
    BY <2>1
  <2>5. SavedIsCurrent' /\ \A p \in Server : SavesOnward(p)
    <3>1. CASE newer \/ grant
      <4>1. \/ currentTerm'[i] > currentTerm[i]
            \/ currentTerm'[i] = currentTerm[i] /\ votedFor[i] \in {Nil, votedFor'[i]}
        BY <2>1, <2>2, <3>1
      <4> QED BY <1>t, <2>1, <2>2, <2>3, <3>1, <4>1, SavedStep
    <3>2. CASE ~(newer \/ grant)
      <4>1. persister' = persister /\ currentTerm'[i] = currentTerm[i] /\ votedFor'[i] = votedFor[i]
        BY <2>2, <2>3, <3>2
      <4> HIDE DEF newer, grant, vote
      <4> QED BY <2>2, <2>3, <4>1 DEF SavedIsCurrent, SavesOnward, ElectionInv
    <3> QED BY <3>1, <3>2
  <2>6. \A c \in Server : role'[c] = Candidate =>
           role[c] = Candidate /\ currentTerm'[c] = currentTerm[c]
    BY <2>1, <2>2 DEF Follower, Candidate
  <2>9. WonByMajority'
    BY <2>3 DEF WonByMajority, ElectionInv
  <2>7. CASE grant
    <3>1. PICK s \in Term, q \in Server, b \in Server : s = m.term /\ q = i /\ b = m.from
      BY <2>1
    <3>2. VoteIsSaved(q, s, b)'
      <4>1. currentTerm'[i] = s /\ votedFor'[i] = b /\ persist(i)
        BY <2>1, <2>2, <2>3, <2>7, <3>1
      <4> QED BY <1>t, <2>1, <3>1, <4>1 DEF VoteIsSaved, persist, TypeOK
    <3>3. \A d \in Server : Claim(q, s, d) => d = b
      BY <1>t, <2>1, <2>4, <2>7, <3>1, FreeVote
    <3>4. \A p, c \in Server : \A t \in Term :
             Claim(p, t, c)' => Claim(p, t, c) \/ (p = q /\ t = s /\ c = b)
      <4> HIDE DEF newer, grant, vote
      <4> QED BY <2>3, <2>6, <3>1 DEF Claim
    <3> QED BY <1>t, <2>5, <3>2, <3>3, <3>4, OneNewClaim, <2>9 DEF ElectionInv
  <2>8. CASE ~grant
    <3>1. \A p, c \in Server : \A t \in Term : Claim(p, t, c)' => Claim(p, t, c)
      <4> HIDE DEF newer, grant, vote
      <4> QED BY <2>3, <2>6, <2>8 DEF Claim
    <3> QED BY <1>t, <2>5, <2>9, <3>1, NoNewClaim DEF ElectionInv
  <2> QED BY <2>7, <2>8
<1>3. ASSUME NEW r \in voteReps, VoteReply(r) PROVE ElectionInv'
  <2> DEFINE i == r.req.from
  <2>1. i \in Server /\ r.req.to \in Server /\ r.term \in Term /\ up[i] /\ up' = up
        /\ voteReps' \subseteq voteReps
    BY <1>3, <1>t DEF VoteReply, TypeOK, VoteRep, VoteReq
  <2>2. CASE r.term > currentTerm[i] /\ becomeFollower(i, r.term)
                /\ UNCHANGED <<votes, leading, elected, termLog>>
    <3>1. /\ currentTerm'[i] > currentTerm[i]
          /\ \A k \in Server \ {i} : /\ currentTerm'[k] = currentTerm[k]
                                      /\ votedFor'[k] = votedFor[k]
                                      /\ log'[k] = log[k]
      BY <1>t, <2>1, <2>2 DEF becomeFollower, TypeOK
    <3>2. role' = [role EXCEPT ![i] = Follower] /\ persist(i)
      BY <2>2 DEF becomeFollower
    <3> QED BY <1>t, <2>1, <2>2, <3>1, <3>2, StepDown
  <2>3. CASE /\ InElection(i, r) /\ r.granted
             /\ votes' = [votes EXCEPT ![i] = @ \cup {r.req.to}]
             /\ IF Majority(votes[i] \cup {r.req.to})
                THEN becomeLeader(i)
                ELSE UNCHANGED <<role, leading, elected, termLog>>
             /\ UNCHANGED server
    <3>1. role[i] = Candidate /\ currentTerm[i] = r.req.term /\ currentTerm[i] \in Term
      BY <2>1, <2>3 DEF InElection, ElectionInv, RunningRoles, Candidate, Follower
    <3>2. votes'[i] = votes[i] \cup {r.req.to} /\ \A k \in Server \ {i} : votes'[k] = votes[k]
      BY <1>t, <2>1, <2>3 DEF TypeOK
    <3>3. persister' = persister /\ currentTerm' = currentTerm /\ votedFor' = votedFor /\ log' = log
      BY <2>3 DEF server
    <3>4. \A p \in votes'[i] : Claim(p, currentTerm[i], i)
      <4>1. ASSUME NEW p \in votes[i] PROVE Claim(p, currentTerm[i], i)
        BY <3>1 DEF Claim
      <4>2. Claim(r.req.to, currentTerm[i], i)
        BY <2>3, <3>1 DEF Claim
      <4> QED BY <3>2, <4>1, <4>2
    <3>5. \A c \in Server : role'[c] = Candidate => role[c] = Candidate
      <4>1. CASE becomeLeader(i)
        <5>1. role' = [role EXCEPT ![i] = Leader]
          BY <4>1 DEF becomeLeader
        <5> QED BY <1>t, <5>1 DEF TypeOK, Leader, Candidate
      <4>2. CASE role' = role
        BY <4>2
      <4> QED BY <2>3, <4>1, <4>2
    <3>6. \A t \in Term : \A e \in elected'[t] :
            \/ e \in elected[t]
            \/ /\ t = currentTerm[i] /\ e.leader = i /\ e.voters = votes'[i]
               /\ Majority(votes'[i])
      <4>1. CASE Majority(votes[i] \cup {r.req.to}) /\ becomeLeader(i)
        <5> DEFINE won == [leader |-> i, voters |-> votes'[i]]
        <5>1. elected' = [elected EXCEPT ![currentTerm[i]] = @ \cup {won}]
          BY <4>1 DEF becomeLeader
        <5>2. won.leader = i /\ won.voters = votes'[i]
          OBVIOUS
        <5> HIDE DEF won
        <5>3. elected'[currentTerm[i]] = elected[currentTerm[i]] \cup {won}
              /\ \A t \in Term \ {currentTerm[i]} : elected'[t] = elected[t]
          BY <1>t, <3>1, <5>1 DEF TypeOK
        <5>4. Majority(votes'[i])
          BY <3>2, <4>1
        <5> QED BY <5>2, <5>3, <5>4
      <4>2. CASE elected' = elected
        BY <4>2
      <4> QED BY <2>3, <4>1, <4>2
    <3>7. ASSUME NEW p \in Server, NEW c \in Server, NEW t \in Term, Claim(p, t, c)'
          PROVE  Claim(p, t, c)
      <4>1. CASE \E q \in voteReps' : q.granted /\ q.req.to = p /\ q.req.term = t /\ q.req.from = c
        BY <2>1, <4>1 DEF Claim
      <4>2. CASE role'[c] = Candidate /\ currentTerm'[c] = t /\ p \in votes'[c]
        <5>1. CASE c = i
          BY <3>3, <3>4, <4>2, <5>1
        <5>2. CASE c # i
          BY <3>2, <3>3, <3>5, <4>2, <5>2 DEF Claim
        <5> QED BY <5>1, <5>2
      <4>3. CASE \E e \in elected'[t] : e.leader = c /\ p \in e.voters
        <5>1. PICK e \in elected'[t] : e.leader = c /\ p \in e.voters
          BY <4>3
        <5>2. CASE e \in elected[t]
          BY <5>1, <5>2 DEF Claim
        <5>3. CASE t = currentTerm[i] /\ e.leader = i /\ e.voters = votes'[i]
          BY <3>4, <5>1, <5>3
        <5> QED BY <3>6, <5>2, <5>3
      <4> QED BY <3>7, <4>1, <4>2, <4>3 DEF Claim
    <3>8. SavedIsCurrent' /\ \A p \in Server : SavesOnward(p)
      BY <2>1, <3>3 DEF SavedIsCurrent, SavesOnward, ElectionInv
    <3>9. ClaimsSaved' /\ ClaimsAgree'
      BY <1>t, <3>7, <3>8, NoNewClaim
    <3>10. WonByMajority'
      <4>1. ASSUME NEW t \in Term, NEW e \in elected'[t] PROVE Majority(e.voters)
        BY <3>6 DEF WonByMajority, ElectionInv
      <4> QED BY <4>1 DEF WonByMajority, Majority
    <3> QED BY <1>t, <3>8, <3>9, <3>10 DEF ElectionInv
  <2>4. CASE UNCHANGED <<server, role, votes, leading, elected, termLog>>
    <3>1. SavedIsCurrent' /\ \A p \in Server : SavesOnward(p)
      BY <2>1, <2>4 DEF SavedIsCurrent, SavesOnward, ElectionInv, server
    <3>2. \A p, c \in Server : \A t \in Term : Claim(p, t, c)' => Claim(p, t, c)
      BY <2>1, <2>4 DEF Claim, server
    <3>3. ClaimsSaved' /\ ClaimsAgree'
      BY <1>t, <3>1, <3>2, NoNewClaim
    <3>4. WonByMajority'
      BY <2>4 DEF WonByMajority, ElectionInv
    <3> QED BY <1>t, <3>1, <3>3, <3>4 DEF ElectionInv
  <2> QED BY <1>3, <2>2, <2>3, <2>4 DEF VoteReply
<1>4. ASSUME NEW i \in Server, NEW c \in Command, Start(i, c) PROVE ElectionInv'
  <2>1. /\ up[i] /\ up' = up /\ persist(i) /\ currentTerm' = currentTerm /\ votedFor' = votedFor
        /\ \A k \in Server \ {i} : log'[k] = log[k]
    BY <1>4, <1>t DEF Start, TypeOK
  <2>2. SavedIsCurrent' /\ \A p \in Server : SavesOnward(p)
    BY <1>t, <2>1, SavedStep
  <2>3. UNCHANGED <<role, votes, voteReps, elected>>
    BY <1>4 DEF Start, calls
  <2>4. \A p, k \in Server : \A t \in Term : Claim(p, t, k)' => Claim(p, t, k)
    BY <2>1, <2>3 DEF Claim
  <2>5. ClaimsSaved' /\ ClaimsAgree'
    BY <1>t, <2>2, <2>4, NoNewClaim
  <2>6. WonByMajority'
    BY <2>3 DEF WonByMajority, ElectionInv
  <2> QED BY <1>t, <2>2, <2>5, <2>6 DEF ElectionInv
<1>5. ASSUME NEW i \in Server, NEW j \in Server, replicateTo(i, j) PROVE ElectionInv'
  BY <1>5, ElectionFrame DEF replicateTo, history
<1>6. ASSUME NEW m \in appReqs, AppendEntriesStale(m) PROVE ElectionInv'
  BY <1>6, ElectionFrame DEF AppendEntriesStale, AppendAnswer, history
<1>7. ASSUME NEW m \in appReqs, AppendEntriesReject(m) PROVE ElectionInv'
  <2> DEFINE i == m.to
  <2>1. i \in Server /\ up[i] /\ up' = up /\ UNCHANGED <<votes, voteReps, elected>>
        /\ m.term \in Int /\ currentTerm[i] \in Int /\ m.term >= currentTerm[i]
    BY <1>7, <1>t, BoundAssumption DEF AppendEntriesReject, AppendAnswer, TypeOK, AppReq,
       history, Term
  <2>2. /\ currentTerm'[i] = m.term /\ role' = [role EXCEPT ![i] = Follower]
        /\ m.term = currentTerm[i] => votedFor'[i] = votedFor[i]
        /\ log' = log
        /\ \A k \in Server \ {i} : /\ currentTerm'[k] = currentTerm[k]
                                    /\ votedFor'[k] = votedFor[k]
    BY <1>7, <1>t, <2>1 DEF AppendEntriesReject, AcceptTerm, TypeOK
  <2>3. CASE m.term > currentTerm[i]
    <3>1. persist(i)
      BY <1>7, <2>3 DEF AppendEntriesReject
    <3> QED BY <1>t, <2>1, <2>2, <2>3, <3>1, StepDown
  <2>4. CASE m.term = currentTerm[i]
    <3>1. persister' = persister
      BY <1>7, <2>1, <2>4 DEF AppendEntriesReject
    <3>2. \A k \in Server : currentTerm'[k] = currentTerm[k] /\ votedFor'[k] = votedFor[k]
      BY <2>2, <2>4
    <3>3. SavedIsCurrent' /\ \A p \in Server : SavesOnward(p)
      BY <2>1, <2>2, <3>1, <3>2 DEF SavedIsCurrent, SavesOnward, ElectionInv
    <3>4. \A c \in Server : role'[c] = Candidate => role[c] = Candidate
      BY <1>t, <2>2 DEF TypeOK, Follower, Candidate
    <3>5. \A p, c \in Server : \A t \in Term : Claim(p, t, c)' => Claim(p, t, c)
      BY <2>1, <3>2, <3>4 DEF Claim
    <3>6. ClaimsSaved' /\ ClaimsAgree'
      BY <1>t, <3>3, <3>5, NoNewClaim
    <3>7. WonByMajority'
      BY <2>1 DEF WonByMajority, ElectionInv
    <3> QED BY <1>t, <3>3, <3>6, <3>7 DEF ElectionInv
  <2> QED BY <2>1, <2>3, <2>4
<1>8. ASSUME NEW m \in appReqs, AppendEntriesAccept(m) PROVE ElectionInv'
  <2> DEFINE i == m.to
  <2>1. i \in Server /\ up[i] /\ up' = up /\ UNCHANGED <<votes, voteReps, elected>>
        /\ m.term \in Int /\ currentTerm[i] \in Int /\ m.term >= currentTerm[i]
    BY <1>8, <1>t, BoundAssumption DEF AppendEntriesAccept, AppendAnswer, TypeOK, AppReq,
       history, Term
  <2>2. /\ currentTerm'[i] = m.term /\ role' = [role EXCEPT ![i] = Follower]
        /\ m.term = currentTerm[i] => votedFor'[i] = votedFor[i]
        /\ persist(i)
        /\ \A k \in Server \ {i} : /\ currentTerm'[k] = currentTerm[k]
                                    /\ votedFor'[k] = votedFor[k]
                                    /\ log'[k] = log[k]
    BY <1>8, <1>t, <2>1 DEF AppendEntriesAccept, AcceptTerm, TypeOK
  <2>3. \/ currentTerm'[i] > currentTerm[i]
        \/ currentTerm'[i] = currentTerm[i] /\ votedFor[i] \in {Nil, votedFor'[i]}
    BY <2>1, <2>2
  <2> QED BY <1>t, <2>1, <2>2, <2>3, StepDown
<1>9. ASSUME NEW r \in appReps, AppendReplyNewerTerm(r) PROVE ElectionInv'
  <2> DEFINE i == r.req.from
  <2>1. i \in Server /\ up[i] /\ up' = up /\ UNCHANGED <<votes, voteReps, elected>>
        /\ r.term > currentTerm[i]
    BY <1>9, <1>t DEF AppendReplyNewerTerm, TypeOK, AppRep, AppReq, history
  <2>2. /\ currentTerm'[i] = r.term /\ role' = [role EXCEPT ![i] = Follower] /\ persist(i)
        /\ \A k \in Server \ {i} : /\ currentTerm'[k] = currentTerm[k]
                                    /\ votedFor'[k] = votedFor[k]
                                    /\ log'[k] = log[k]
    BY <1>9, <1>t, <2>1 DEF AppendReplyNewerTerm, becomeFollower, TypeOK
  <2> QED BY <1>t, <2>1, <2>2, StepDown
<1>10. ASSUME NEW r \in appReps, AppendReplyIgnored(r) PROVE ElectionInv'
  BY <1>10, ElectionFrame DEF AppendReplyIgnored, history
<1>11. ASSUME NEW r \in appReps, AppendReplySuccess(r) PROVE ElectionInv'
  BY <1>11, ElectionFrame DEF AppendReplySuccess
<1>12. ASSUME NEW r \in appReps, AppendReplyBackup(r) PROVE ElectionInv'
  BY <1>12, ElectionFrame DEF AppendReplyBackup, history
<1>13. ASSUME NEW i \in Server, applier(i) PROVE ElectionInv'
  BY <1>13, ElectionFrame DEF applier, calls, history
<1>14. CASE Lose
  <2>1. UNCHANGED <<up, server, role, votes, elected>> /\ voteReps' \subseteq voteReps
    BY <1>14 DEF Lose, history
  <2>2. SavedIsCurrent' /\ \A p \in Server : SavesOnward(p)
    BY <2>1 DEF SavedIsCurrent, SavesOnward, ElectionInv, server
  <2>3. \A p, c \in Server : \A t \in Term : Claim(p, t, c)' => Claim(p, t, c)
    BY <2>1 DEF Claim, server
  <2>4. ClaimsSaved' /\ ClaimsAgree'
    BY <1>t, <2>2, <2>3, NoNewClaim
  <2>5. WonByMajority'
    BY <2>1 DEF WonByMajority, ElectionInv
  <2> QED BY <1>t, <2>2, <2>4, <2>5 DEF ElectionInv
<1>15. ASSUME NEW i \in Server, Crash(i) PROVE ElectionInv'
  <2>1. /\ persister' = persister /\ elected' = elected /\ voteReps' \subseteq voteReps
        /\ ~up'[i] /\ role'[i] = Follower
        /\ \A k \in Server \ {i} : /\ up'[k] = up[k] /\ currentTerm'[k] = currentTerm[k]
                                    /\ votedFor'[k] = votedFor[k] /\ log'[k] = log[k]
                                    /\ role'[k] = role[k] /\ votes'[k] = votes[k]
    BY <1>15, <1>t DEF Crash, history, TypeOK
  <2>2. SavedIsCurrent' /\ \A p \in Server : SavesOnward(p)
    BY <2>1 DEF SavedIsCurrent, SavesOnward, ElectionInv
  <2>3. \A p, c \in Server : \A t \in Term : Claim(p, t, c)' => Claim(p, t, c)
    BY <2>1 DEF Claim, Follower, Candidate
  <2>4. ClaimsSaved' /\ ClaimsAgree'
    BY <1>t, <2>2, <2>3, NoNewClaim
  <2>5. WonByMajority'
    BY <2>1 DEF WonByMajority, ElectionInv
  <2> QED BY <1>t, <2>2, <2>4, <2>5 DEF ElectionInv
<1>16. ASSUME NEW i \in Server, Make(i) PROVE ElectionInv'
  <2>1. /\ UNCHANGED <<persister, role, votes, voteReps, elected>> /\ ~up[i]
        /\ currentTerm'[i] = persister[i].term /\ votedFor'[i] = persister[i].vote
        /\ log'[i] = persister[i].log
        /\ \A k \in Server \ {i} : /\ up'[k] = up[k] /\ currentTerm'[k] = currentTerm[k]
                                    /\ votedFor'[k] = votedFor[k] /\ log'[k] = log[k]
    BY <1>16, <1>t DEF Make, calls, history, TypeOK
  <2>2. persister[i] = [term |-> persister[i].term, vote |-> persister[i].vote,
                        log |-> persister[i].log]
    BY <1>t DEF TypeOK, Saved
  <2>3. SavedIsCurrent' /\ \A p \in Server : SavesOnward(p)
    BY <2>1, <2>2 DEF SavedIsCurrent, SavesOnward, ElectionInv
  <2>4. role[i] # Candidate
    BY <2>1 DEF ElectionInv, RunningRoles, Follower, Candidate
  <2>5. \A p, c \in Server : \A t \in Term : Claim(p, t, c)' => Claim(p, t, c)
    BY <2>1, <2>4 DEF Claim
  <2>6. ClaimsSaved' /\ ClaimsAgree'
    BY <1>t, <2>3, <2>5, NoNewClaim
  <2>7. WonByMajority'
    BY <2>1 DEF WonByMajority, ElectionInv
  <2> QED BY <1>t, <2>3, <2>6, <2>7 DEF ElectionInv
<1>17. CASE UNCHANGED vars
  BY <1>17, ElectionFrame DEF vars, calls, history
<1> QED BY <1>1, <1>2, <1>3, <1>4, <1>5, <1>6, <1>7, <1>8, <1>9, <1>10, <1>11, <1>12,
           <1>13, <1>14, <1>15, <1>16, <1>17 DEF Next

\* The election invariant holds in every reachable state: nothing a peer acts on,
\* and no vote anybody counts, is missing from a persister.
THEOREM ElectionInvariant == Spec => []ElectionInv
<1>1. Init => TypeInv /\ ElectionInv
  BY TypeInit, ElectionInit
<1>2. TypeInv /\ ElectionInv /\ [Next]_vars => (TypeInv /\ ElectionInv)'
  BY TypeStep, SentinelStep, ElectionStep DEF TypeInv
<1> QED BY <1>1, <1>2, PTL DEF Spec

\* Two majorities have a member in common.
LEMMA MajoritiesMeet ==
    ASSUME NEW A \in SUBSET Server, NEW B \in SUBSET Server, Majority(A), Majority(B)
    PROVE  \E p \in Server : p \in A /\ p \in B
<1>1. Cardinality(Server) \in Nat /\ Cardinality(A) \in Nat /\ Cardinality(B) \in Nat
  BY ServerAssumption, FS_CardinalityType, FS_Subset
<1>2. Cardinality(A) + Cardinality(B) > Cardinality(Server)
  BY <1>1 DEF Majority
<1>3. A \cap B # {}
  BY <1>2, ServerAssumption, FS_MajoritiesIntersect
<1> QED BY <1>3

LEMMA ElectionOneLeader == TypeOK /\ ElectionInv => OneLeaderPerTerm
<1> SUFFICES ASSUME TypeOK, ElectionInv, NEW t \in Term,
                    NEW a \in elected[t], NEW b \in elected[t]
             PROVE  a.leader = b.leader
  BY DEF OneLeaderPerTerm
<1>1. a.leader \in Server /\ b.leader \in Server
      /\ a.voters \in SUBSET Server /\ b.voters \in SUBSET Server
  BY DEF TypeOK
<1>2. Majority(a.voters) /\ Majority(b.voters)
  BY DEF ElectionInv, WonByMajority
<1>3. PICK p \in Server : p \in a.voters /\ p \in b.voters
  BY <1>1, <1>2, MajoritiesMeet
<1>4. Claim(p, t, a.leader) /\ Claim(p, t, b.leader)
  BY <1>3 DEF Claim
<1> QED BY <1>1, <1>4 DEF ElectionInv, ClaimsAgree

\* At most one peer ever becomes leader of a term, through any number of
\* crashes, restarts and lost, late and repeated calls (startElection,
\* RequestVote, becomeLeaderLocked): two winners would have a voter in common.
THEOREM OneLeader == Spec => []OneLeaderPerTerm
BY ElectionOneLeader, TypeCorrect, ElectionInvariant, PTL

\* A granted vote that is on its way or has been counted is in the voter's
\* persister (the persist before the reply in RequestVote).
THEOREM DurableVotes == Spec => []VotesAreDurable
<1>1. TypeOK /\ ElectionInv => VotesAreDurable
  <2> SUFFICES ASSUME TypeOK, ElectionInv PROVE VotesAreDurable
    OBVIOUS
  <2>1. ASSUME NEW r \in voteReps, r.granted
        PROVE  VoteIsSaved(r.req.to, r.req.term, r.req.from)
    <3>1. r.req.to \in Server /\ r.req.from \in Server /\ r.req.term \in Term
      BY DEF TypeOK, VoteRep, VoteReq
    <3>2. Claim(r.req.to, r.req.term, r.req.from)
      BY <2>1 DEF Claim
    <3> QED BY <3>1, <3>2 DEF ElectionInv, ClaimsSaved
  <2>2. ASSUME NEW i \in Server, NEW p \in votes[i], role[i] = Candidate
        PROVE  VoteIsSaved(p, currentTerm[i], i)
    <3>1. p \in Server /\ currentTerm[i] \in Term
      BY <2>2 DEF TypeOK, ElectionInv, RunningRoles, Candidate, Follower
    <3>2. Claim(p, currentTerm[i], i)
      BY <2>2 DEF Claim
    <3> QED BY <3>1, <3>2 DEF ElectionInv, ClaimsSaved
  <2> QED BY <2>1, <2>2 DEF VotesAreDurable
<1> QED BY <1>1, TypeCorrect, ElectionInvariant, PTL

=============================================================================
