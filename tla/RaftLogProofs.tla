---------------------------- MODULE RaftLogProofs ----------------------------
(***************************************************************************)
(* Proofs about the logs of Raft: what a leader has committed stays in the *)
(* logs of all later leaders, and the state machines are fed from one log. *)
(*                                                                         *)
(* The argument is layered. Each layer is a conjunct of the inductive      *)
(* invariant and is preserved given the layers above it:                   *)
(*   LeadInv    a term has one log, and it only grows;                     *)
(*   RootInv    every log is, up to each of its entries, the log of that   *)
(*              entry's term;                                              *)
(*   AckInv     what a peer has confirmed is in its persister;             *)
(*   SafeInv    an entry of term s that a majority may still confirm is in *)
(*              the log of every later term;                               *)
(*   CommitInv  every commit index stands for such an entry.               *)
(***************************************************************************)
EXTENDS RaftProofs, SequenceTheorems

-----------------------------------------------------------------------------
(* The invariant. *)

PLog(p) == persister[p].log

\* Logs a and b have their first n entries, and have them in common.
Agree(a, b, n) ==
    /\ n <= Len(a) /\ n <= Len(b)
    /\ \A k \in 1..n : a[k] = b[k]

\* Leaders come out of elections, and the log of a term is that of its leader.
LeadInv ==
    /\ \A i \in Server : role[i] = Leader =>
          /\ \E e \in elected[currentTerm[i]] : e.leader = i
          /\ termLog[currentTerm[i]] = log[i]
    /\ \A i \in Server : role[i] = Candidate =>
          \A e \in elected[currentTerm[i]] : e.leader # i
    /\ \A t \in Term : \A e \in elected[t] : persister[e.leader].term >= t
    /\ \A t \in Term : elected[t] = {} => termLog[t] = << >>
    /\ \A m \in appReqs : elected[m.term] # {}

\* A log that a peer in term t may have, when T are the logs of the terms.
Good(l, t, T) ==
    /\ \A k \in 1..Len(l) : l[k].term <= t
    /\ \A j, k \in 1..Len(l) : j <= k => l[j].term <= l[k].term
    /\ \A k \in 1..Len(l) : Agree(l, T[l[k].term], k)

\* The entries of call m are those of the log T.
Carries(m, T) ==
    /\ m.prev + Len(m.entries) <= Len(T)
    /\ \A k \in 1..Len(m.entries) : m.entries[k] = T[m.prev + k]
    /\ m.prevTerm = TermAt(T, m.prev)

RootInv ==
    /\ \A p \in Server : Good(PLog(p), persister[p].term, termLog)
    /\ \A t \in Term : Good(termLog[t], t, termLog)
    /\ \A m \in appReqs : Carries(m, termLog[m.term])

AckInv ==
    /\ \A p \in Server, s \in Term : acked[p][s] > 0 =>
          /\ persister[p].term >= s
          /\ acked[p][s] <= Len(termLog[s])
          /\ persister[p].term = s => Agree(PLog(p), termLog[s], acked[p][s])
    /\ \A r \in appReps : r.success =>
          acked[r.req.to][r.req.term] >= r.req.prev + Len(r.req.entries)
    /\ \A i \in Server : role[i] = Leader =>
          /\ \A p \in Server \ {i} : matchIndex[i][p] <= acked[p][currentTerm[i]]
          /\ \A k \in 1..Len(log[i]) :
                log[i][k].term = currentTerm[i] => k <= acked[i][currentTerm[i]]

\* Index n of the log of term s holds an entry of that term.
Own(s, n) == n \in 1..Len(termLog[s]) /\ termLog[s][n].term = s

\* No majority can confirm entry n of term s any more.
Dead(s, n) ==
    \E V \in SUBSET Server :
        /\ Majority(V)
        /\ \A p \in V : persister[p].term > s /\ acked[p][s] < n

\* A log of length li that ends in term lt is at least as good as one that ends
\* with entry n of term s.
Better(lt, li, s, n) == lt > s \/ (lt = s /\ li >= n)

\* Peer p confirmed entry n of term s.
Holds(p, s, n) == Own(s, n) /\ n <= acked[p][s]

\* Vote request m says what the log of its candidate is.
Describes(m) ==
    /\ m.term <= persister[m.from].term
    /\ role[m.from] = Candidate /\ currentTerm[m.from] = m.term =>
         m.lastIndex = Len(log[m.from]) /\ m.lastTerm = lastLogTerm(log[m.from])

\* What p confirmed is still in its log, or cannot be committed any more.
Kept ==
    \A p \in Server, s \in Term, n \in Nat :
        Holds(p, s, n) => Agree(PLog(p), termLog[s], n) \/ Dead(s, n)

\* So it is in the log of every later term.
Inherited ==
    \A s, u \in Term, n \in Nat :
        s < u /\ elected[u] # {} /\ Own(s, n) =>
            Agree(termLog[s], termLog[u], n) \/ Dead(s, n)

Described ==
    /\ \A m \in voteReqs : Describes(m)
    /\ \A r \in voteReps : Describes(r.req)

\* Nobody votes for a candidate with a worse log than its own.
VotedBetter ==
    /\ \A r \in voteReps, s \in Term, n \in Nat :
          r.granted /\ s < r.req.term /\ Holds(r.req.to, s, n) =>
              Better(r.req.lastTerm, r.req.lastIndex, s, n) \/ Dead(s, n)
    /\ \A i \in Server, s \in Term, n \in Nat : \A p \in votes[i] :
          role[i] = Candidate /\ s < currentTerm[i] /\ Holds(p, s, n) =>
              Better(lastLogTerm(log[i]), Len(log[i]), s, n) \/ Dead(s, n)

SafeInv == Kept /\ Inherited /\ Described /\ VotedBetter

\* A majority has confirmed entry n of term s.
Committed(s, n) == Own(s, n) /\ Majority({p \in Server : acked[p][s] >= n})

\* The first n entries of l are committed by term t.
Told(l, n, t) ==
    n > 0 => \E s \in Term, k \in Nat :
                 s <= t /\ n <= k /\ Committed(s, k) /\ Agree(l, termLog[s], n)

\* What peer i takes for committed is.
Informed(i) ==
    /\ commitIndex[i] <= Len(log[i]) /\ commitIndex[i] <= Len(chosen)
    /\ Told(log[i], commitIndex[i], currentTerm[i])

\* What call m says is committed is, and m itself brings its receiver that far.
Informs(m) ==
    /\ m.commit <= m.prev + Len(m.entries) /\ m.commit <= Len(chosen)
    /\ Told(termLog[m.term], m.commit, m.term)

\* The state machine of i was fed the beginning of the log, as far as lastApplied.
Fed(i) == lastApplied[i] <= commitIndex[i] /\ applied[i] = Prefix(log[i], lastApplied[i])

\* A process that does not run has no log.
Blank == \A i \in Server : ~up[i] => log[i] = << >>

CommitInv ==
    /\ Blank
    /\ applied \in [Server -> Log]
    /\ \A i \in Server : Informed(i) /\ Fed(i)
    /\ \A m \in appReqs : Informs(m)
    /\ Len(chosen) > 0 =>
          /\ chosenTerm \in Term /\ Committed(chosenTerm, Len(chosen))
          /\ Agree(chosen, termLog[chosenTerm], Len(chosen))

LogInv == LeadInv /\ RootInv /\ AckInv /\ SafeInv /\ CommitInv

-----------------------------------------------------------------------------
(* Facts about logs. *)

LEMMA EntryOf ==
    ASSUME NEW l \in Log, NEW k \in 1..Len(l)
    PROVE  l[k] \in Entry /\ l[k].term \in Term /\ l[k].term \in Nat
<1>1. l[k] \in Entry
  BY DEF Log
<1> QED BY <1>1, TermsAreNat DEF Entry

LEMMA AgreeTrans ==
    ASSUME NEW a \in Log, NEW b \in Log, NEW c \in Log,
           NEW m \in Nat, NEW n \in Nat, NEW k \in Nat,
           Agree(a, b, m), Agree(b, c, n), k <= m, k <= n
    PROVE  Agree(a, c, k)
<1>1. Len(a) \in Nat /\ Len(b) \in Nat /\ Len(c) \in Nat
  BY LenType
<1> QED BY <1>1 DEF Agree

LEMMA AgreeSym ==
    ASSUME NEW a, NEW b, NEW n, Agree(a, b, n)
    PROVE  Agree(b, a, n)
BY DEF Agree

LEMMA AgreeLess ==
    ASSUME NEW a \in Log, NEW b \in Log, NEW n \in Nat, Agree(a, b, n), NEW k \in Nat, k <= n
    PROVE  Agree(a, b, k)
<1>1. Len(a) \in Nat /\ Len(b) \in Nat
  BY LenType
<1> QED BY <1>1 DEF Agree

\* Agreement is having the same initial part.
LEMMA AgreeIsPrefix ==
    ASSUME NEW a \in Log, NEW b \in Log, NEW n \in Nat, Agree(a, b, n)
    PROVE  Prefix(a, n) = Prefix(b, n)
<1>1. n \in 0..Len(a) /\ n \in 0..Len(b)
  BY LenType DEF Agree
<1> QED BY <1>1 DEF Agree, Prefix, Log

LEMMA PartIsAgree ==
    ASSUME NEW a \in Log, NEW b \in Log, Agree(a, b, Len(a))
    PROVE  IsPart(a, b)
<1>1. Len(a) \in Nat /\ Prefix(a, Len(a)) = a
  BY DEF Log, Prefix
<1> QED BY <1>1, AgreeIsPrefix DEF IsPart, Agree

\* Every log of T is an initial part of the one that U has in its place.
Grows(T, U) == \A t \in Term : Agree(T[t], U[t], Len(T[t]))

LEMMA GrowsRefl ==
    ASSUME NEW T \in [Term -> Log] PROVE Grows(T, T)
<1>1. \A t \in Term : Len(T[t]) \in Nat
  BY LenType
<1> QED BY <1>1 DEF Grows, Agree

\* What agreed with the log of a term still does when that log has grown.
LEMMA AgreeGrows ==
    ASSUME NEW T \in [Term -> Log], NEW U \in [Term -> Log], Grows(T, U), NEW t \in Term,
           NEW l \in Log, NEW n \in Nat, Agree(l, T[t], n)
    PROVE  Agree(l, U[t], n)
<1>1. T[t] \in Log /\ U[t] \in Log /\ Len(T[t]) \in Nat
  BY LenType
<1>2. Agree(T[t], U[t], Len(T[t])) /\ n <= Len(T[t])
  BY DEF Grows, Agree
<1> QED BY <1>1, <1>2, AgreeTrans

LEMMA GoodGrows ==
    ASSUME NEW T \in [Term -> Log], NEW U \in [Term -> Log], Grows(T, U),
           NEW l \in Log, NEW t \in Nat, NEW u \in Nat, t <= u, Good(l, t, T)
    PROVE  Good(l, u, U)
<1>1. \A k \in 1..Len(l) : l[k].term \in Term /\ l[k].term \in Nat /\ k \in Nat
  BY EntryOf, LenType
<1>2. \A k \in 1..Len(l) : l[k].term <= u
  BY <1>1 DEF Good
<1>3. \A k \in 1..Len(l) : Agree(l, U[l[k].term], k)
  BY <1>1, AgreeGrows DEF Good
<1> QED BY <1>2, <1>3 DEF Good

\* An initial part of a good log is one.
LEMMA GoodPart ==
    ASSUME NEW T \in [Term -> Log], NEW l \in Log, NEW t \in Nat, Good(l, t, T),
           NEW a \in Log, Agree(a, l, Len(a))
    PROVE  Good(a, t, T)
<1>1. Len(a) \in Nat /\ Len(l) \in Nat /\ Len(a) <= Len(l)
  BY LenType DEF Agree
<1>2. \A k \in 1..Len(a) : a[k] = l[k] /\ k \in 1..Len(l) /\ k \in Nat
  BY <1>1 DEF Agree
<1>3. ASSUME NEW k \in 1..Len(a) PROVE Agree(a, T[a[k].term], k)
  <2>1. Agree(l, T[l[k].term], k) /\ a[k] = l[k] /\ l[k].term \in Term
    BY <1>2, EntryOf DEF Good
  <2> QED BY <1>1, <1>2, <2>1, AgreeTrans
<1> QED BY <1>2, <1>3 DEF Good

\* Two good logs with entries of one term at an index agree up to it.
LEMMA GoodMatch ==
    ASSUME NEW T \in [Term -> Log], NEW a \in Log, NEW b \in Log, NEW t, NEW u,
           Good(a, t, T), Good(b, u, T),
           NEW k \in 1..Len(a), k \in 1..Len(b), a[k].term = b[k].term
    PROVE  Agree(a, b, k)
<1>1. k \in Nat /\ a[k].term \in Term /\ T[a[k].term] \in Log
  BY EntryOf, LenType
<1>2. Agree(a, T[a[k].term], k) /\ Agree(T[a[k].term], b, k)
  BY AgreeSym DEF Good
<1> QED BY <1>1, <1>2, AgreeTrans

\* What the AppendEntries loop leaves: the leader's log up to the last entry sent,
\* and nothing lost of what the peer already had of the leader's log.
LEMMA MergeAgrees ==
    ASSUME NEW l \in Log, NEW L \in Log, NEW m \in AppReq, Carries(m, L), Matches(l, m),
           \A k \in 1..Len(l) : k \in 1..Len(L) /\ l[k].term = L[k].term => Agree(l, L, k)
    PROVE  LET l2 == MergeLog(l, m.prev, m.entries)
               n  == m.prev + Len(m.entries)
           IN  /\ l2 \in Log
               /\ Agree(l2, L, n)
               /\ l2 = l \/ Len(l2) = n
               /\ \A k \in Nat : Agree(l, L, k) => Agree(l2, L, k)
<1> DEFINE prev == m.prev
           es == m.entries
           n  == prev + Len(es)
           l2 == MergeLog(l, prev, es)
           differ == {k \in 1..Len(es) :
                        prev + k > Len(l) \/ l[prev + k].term # es[k].term}
           d == Min(differ)
<1> HIDE DEF differ
<1>1. es \in Log /\ Len(es) \in Nat /\ prev \in Nat /\ Len(l) \in Nat /\ Len(L) \in Nat
  BY LenType DEF AppReq
<1>2. prev \in 0..Len(l) /\ n <= Len(L)
  BY <1>1 DEF Matches, Carries
<1>3. l2 \in Log
  BY <1>1, <1>2, MergeLogType
<1>4. Agree(l, L, prev)
  <2>1. CASE prev = 0
    BY <1>1, <2>1 DEF Agree
  <2>2. CASE prev # 0
    <3>1. prev \in 1..Len(l) /\ prev \in 1..Len(L)
      BY <1>1, <1>2, <2>2
    <3>2. l[prev].term = L[prev].term
      BY <2>2 DEF Matches, Carries, TermAt
    <3> QED BY <3>1, <3>2
  <2> QED BY <2>1, <2>2
<1>5. \A k \in 1..Len(es) : k \notin differ => Agree(l, L, prev + k)
  <2> SUFFICES ASSUME NEW k \in 1..Len(es), k \notin differ PROVE Agree(l, L, prev + k)
    OBVIOUS
  <2>1. prev + k <= Len(l) /\ l[prev + k].term = es[k].term
    BY <1>1 DEF differ
  <2>2. es[k] = L[prev + k] /\ prev + k \in 1..Len(L) /\ prev + k \in 1..Len(l)
    BY <1>1, <1>2, <2>1 DEF Carries
  <2> QED BY <2>1, <2>2
<1>6. CASE differ = {}
  <2>1. l2 = l
    BY <1>6 DEF MergeLog, differ
  <2>2. Agree(l, L, n)
    <3>1. CASE Len(es) = 0
      BY <1>1, <1>4, <3>1
    <3>2. CASE Len(es) # 0
      BY <1>1, <1>5, <1>6, <3>2
    <3> QED BY <3>1, <3>2
  <2> QED BY <1>3, <2>1, <2>2
<1>7. CASE differ # {}
  <2>1. d \in differ /\ d \in 1..Len(es) /\ \A x \in differ : d <= x
    <3>1. differ \in SUBSET Nat /\ differ \subseteq 1..Len(es)
      BY DEF differ
    <3> QED BY <1>7, <3>1, MinOfNat
  <2>2. Agree(l, L, prev + d - 1)
    <3>1. CASE d = 1
      BY <1>1, <1>4, <3>1
    <3>2. CASE d # 1
      <4>1. d - 1 \in 1..Len(es) /\ d - 1 \notin differ
        BY <1>1, <2>1, <3>2
      <4>2. prev + (d - 1) = prev + d - 1
        BY <1>1, <2>1
      <4> QED BY <1>5, <4>1, <4>2
    <3> QED BY <3>1, <3>2
  <2>3. l2 = Prefix(l, prev + d - 1) \o SubSeq(es, d, Len(es))
    BY <1>7 DEF MergeLog, differ
  <2>4. prev + d - 1 \in 0..Len(l)
    BY <1>1, <2>1, <2>2 DEF Agree
  <2> HIDE DEF d
  <2>5. Len(l2) = n /\ \A k \in 1..n : l2[k] = IF k <= prev + d - 1 THEN l[k] ELSE es[k - prev]
    <3> DEFINE a == Prefix(l, prev + d - 1)
               b == SubSeq(es, d, Len(es))
    <3>1. a \in Seq(Entry) /\ Len(a) = prev + d - 1 /\ \A k \in 1..prev + d - 1 : a[k] = l[k]
      BY <2>4 DEF Prefix, Log
    <3>2. b \in Seq(Entry) /\ Len(b) = Len(es) - d + 1 /\ \A k \in 1..Len(es) - d + 1 : b[k] = es[d + k - 1]
      BY <1>1, <2>1 DEF Log
    <3> HIDE DEF a, b
    <3>3. Len(a \o b) = n /\ \A k \in 1..n : (a \o b)[k] = IF k <= prev + d - 1 THEN a[k] ELSE b[k - (prev + d - 1)]
      <4>1. /\ Len(a \o b) = Len(a) + Len(b)
            /\ \A k \in 1..Len(a) + Len(b) : (a \o b)[k] = IF k <= Len(a) THEN a[k] ELSE b[k - Len(a)]
        BY <3>1, <3>2, ConcatProperties
      <4>2. Len(a) + Len(b) = n
        BY <1>1, <2>1, <3>1, <3>2
      <4> QED BY <3>1, <4>1, <4>2
    <3>4. ASSUME NEW k \in 1..n, ~(k <= prev + d - 1) PROVE b[k - (prev + d - 1)] = es[k - prev]
      <4>1. k - (prev + d - 1) \in 1..Len(es) - d + 1 /\ d + (k - (prev + d - 1)) - 1 = k - prev
        BY <1>1, <2>1, <3>4
      <4> QED BY <3>2, <4>1
    <3>5. \A k \in 1..n : k <= prev + d - 1 => a[k] = l[k]
      BY <1>1, <2>1, <3>1
    <3>6. l2 = a \o b
      BY <2>3 DEF a, b
    <3> HIDE DEF l2
    <3> QED BY <3>3, <3>4, <3>5, <3>6
  <2>6. \A k \in 1..n : l2[k] = L[k]
    <3> SUFFICES ASSUME NEW k \in 1..n PROVE l2[k] = L[k]
      OBVIOUS
    <3>1. CASE k <= prev + d - 1
      BY <1>1, <2>1, <2>2, <2>5, <3>1 DEF Agree
    <3>2. CASE ~(k <= prev + d - 1)
      <4>1. k - prev \in 1..Len(es) /\ prev + (k - prev) = k
        BY <1>1, <2>1, <3>2
      <4> QED BY <2>5, <3>2, <4>1 DEF Carries
    <3> QED BY <3>1, <3>2
  <2>7. Agree(l2, L, n)
    BY <1>1, <1>2, <2>5, <2>6 DEF Agree
  <2>8. \A k \in Nat : Agree(l, L, k) => k <= n
    <3> SUFFICES ASSUME NEW k \in Nat, Agree(l, L, k), ~(k <= n) PROVE FALSE
      OBVIOUS
    <3>1. prev + d \in 1..k /\ prev + d <= Len(l)
      BY <1>1, <2>1 DEF Agree
    <3>2. l[prev + d] = L[prev + d] /\ es[d] = L[prev + d]
      BY <2>1, <3>1 DEF Agree, Carries
    <3> QED BY <1>1, <2>1, <3>1, <3>2 DEF differ
  <2>9. \A k \in Nat : Agree(l, L, k) => Agree(l2, L, k)
    BY <1>1, <1>3, <2>7, <2>8, AgreeLess
  <2> QED BY <1>3, <2>5, <2>7, <2>9
<1> QED BY <1>6, <1>7

-----------------------------------------------------------------------------
(* What a step may do, once and for all. *)

\* The vote that makes i a leader.
Elect(i, r) ==
    /\ up[i] /\ InElection(i, r) /\ r.granted /\ r.req.from = i
    /\ votes' = [votes EXCEPT ![i] = @ \cup {r.req.to}]
    /\ Majority(votes'[i])
    /\ becomeLeader(i)
    /\ UNCHANGED <<up, server, commitIndex, lastApplied, voteReqs, appReqs, appReps,
                   acked, chosen, chosenTerm, applied>>
    /\ voteReps' = voteReps \ {r}

\* A vote that is counted and does not decide the election.
Count(i, r) ==
    /\ up[i] /\ InElection(i, r) /\ r.granted /\ r.req.from = i
    /\ votes' = [votes EXCEPT ![i] = @ \cup {r.req.to}]
    /\ UNCHANGED <<up, server, role>>

\* The steps that leave every log as it is and bring nobody to an earlier term.
Quiet ==
    /\ UNCHANGED <<elected, termLog, acked>>
    /\ \A p \in Server : PLog(p)' = PLog(p) /\ persister[p].term <= persister'[p].term

LEMMA SavedType ==
    ASSUME TypeOK, NEW p \in Server
    PROVE  /\ persister[p].term \in Nat /\ PLog(p) \in Log
           /\ currentTerm[p] \in Nat /\ log[p] \in Log
           /\ Len(PLog(p)) \in Nat /\ Len(log[p]) \in Nat
<1>1. persister[p] \in Saved /\ currentTerm[p] \in 0..MaxTerm /\ log[p] \in Log
  BY DEF TypeOK
<1> QED BY <1>1, TermsAreNat, LenType DEF Saved, PLog

LEMMA QuietSave ==
    ASSUME TypeOK, ElectionInv, NEW i \in Server, up[i], log' = log,
           currentTerm[i] <= currentTerm'[i], persist(i) \/ UNCHANGED persister
    PROVE  \A p \in Server : PLog(p)' = PLog(p) /\ persister[p].term <= persister'[p].term
<1>1. \A p \in Server : persister[p].term \in Nat
  BY SavedType
<1>2. persister[i].term = currentTerm[i] /\ PLog(i) = log[i]
  BY CurrentIsSaved DEF PLog
<1>3. CASE persist(i)
  <2>1. persister'[i].term = currentTerm'[i] /\ persister'[i].log = log'[i]
        /\ \A p \in Server \ {i} : persister'[p] = persister[p]
    BY <1>3 DEF persist, TypeOK
  <2> QED BY <1>1, <1>2, <2>1 DEF PLog
<1>4. CASE UNCHANGED persister
  BY <1>1, <1>4 DEF PLog
<1> QED BY <1>3, <1>4

\* One vote reply, taken apart.
LEMMA VoteReplyKinds ==
    ASSUME TypeOK, NEW r \in voteReps, VoteReply(r)
    PROVE  LET i == r.req.from
           IN  \/ /\ up[i] /\ r.term > currentTerm[i] /\ becomeFollower(i, r.term)
                  /\ UNCHANGED <<up, votes, leading, elected, termLog, acked>>
               \/ Elect(i, r)
               \/ Count(i, r) /\ UNCHANGED <<leading, elected, termLog, acked>>
               \/ UNCHANGED <<up, server, role, votes, leading, elected, termLog, acked>>
<1> DEFINE i == r.req.from
<1>1. CASE /\ r.term <= currentTerm[i] /\ InElection(i, r) /\ r.granted
           /\ votes' = [votes EXCEPT ![i] = @ \cup {r.req.to}]
           /\ Majority(votes[i] \cup {r.req.to})
           /\ becomeLeader(i) /\ UNCHANGED server
  <2>1. i \in Server
    BY DEF TypeOK, VoteRep, VoteReq
  <2>2. votes'[i] = votes[i] \cup {r.req.to}
    BY <1>1, <2>1 DEF TypeOK
  <2> QED BY <1>1, <2>2 DEF VoteReply, Elect
<1> QED BY <1>1 DEF VoteReply, Count, Elect

LEMMA StepKinds ==
    ASSUME TypeInv, ElectionInv, [Next]_vars
    PROVE  \/ Quiet
           \/ \E i \in Server, r \in voteReps : Elect(i, r)
           \/ \E i \in Server, c \in Command : Start(i, c)
           \/ \E m \in appReqs : AppendEntriesAccept(m)
<1>t. TypeOK
  BY DEF TypeInv, TypeCore
<1>0. ASSUME UNCHANGED <<persister, elected, termLog, acked>> PROVE Quiet
  BY <1>0, <1>t, SavedType DEF Quiet, PLog
<1>1. ASSUME NEW i \in Server, startElection(i) PROVE Quiet
  <2>1. up[i] /\ log' = log /\ currentTerm[i] <= currentTerm'[i] /\ persist(i)
    BY <1>1, <1>t, SavedType DEF startElection, TypeOK
  <2> QED BY <1>1, <1>t, <2>1, QuietSave DEF startElection, Quiet, history
<1>2. ASSUME NEW m \in voteReqs, RequestVote(m) PROVE Quiet
  <2>0. m.to \in Server /\ m.term \in Nat
    BY <1>t, TermsAreNat DEF TypeOK, VoteReq
  <2>1. up[m.to] /\ log' = log /\ currentTerm[m.to] <= currentTerm'[m.to]
        /\ (persist(m.to) \/ UNCHANGED persister)
    BY <1>2, <1>t, <2>0, SavedType DEF RequestVote, TypeOK, Max2
  <2> QED BY <1>2, <1>t, <2>0, <2>1, QuietSave DEF RequestVote, Quiet, history
<1>3. ASSUME NEW r \in voteReps, VoteReply(r)
      PROVE  Quiet \/ \E i \in Server, q \in voteReps : Elect(i, q)
  <2> DEFINE i == r.req.from
  <2>0. i \in Server /\ r.term \in Nat
    BY <1>t, TermsAreNat DEF TypeOK, VoteRep, VoteReq
  <2>1. CASE /\ up[i] /\ r.term > currentTerm[i] /\ becomeFollower(i, r.term)
             /\ UNCHANGED <<elected, termLog, acked>>
    <3>1. log' = log /\ currentTerm[i] <= currentTerm'[i] /\ persist(i)
      BY <1>t, <2>0, <2>1, SavedType DEF becomeFollower, TypeOK
    <3> QED BY <1>t, <2>0, <2>1, <3>1, QuietSave DEF Quiet
  <2>2. CASE UNCHANGED <<server, elected, termLog, acked>>
    BY <1>0, <2>2 DEF server
  <2> QED BY <1>3, <1>t, <2>0, <2>1, <2>2, VoteReplyKinds DEF Count
<1>4. ASSUME NEW m \in appReqs, AppendEntriesReject(m) PROVE Quiet
  <2>0. m.to \in Server /\ m.term \in Nat
    BY <1>t, TermsAreNat DEF TypeOK, AppReq
  <2>1. up[m.to] /\ log' = log /\ currentTerm[m.to] <= currentTerm'[m.to]
        /\ (persist(m.to) \/ UNCHANGED persister)
    BY <1>4, <1>t, <2>0, SavedType DEF AppendEntriesReject, AcceptTerm, TypeOK
  <2> QED BY <1>4, <1>t, <2>0, <2>1, QuietSave DEF AppendEntriesReject, AppendAnswer, Quiet
<1>5. ASSUME NEW r \in appReps, AppendReplyNewerTerm(r) PROVE Quiet
  <2>0. r.req.from \in Server /\ r.term \in Nat
    BY <1>t, TermsAreNat DEF TypeOK, AppReq, AppRep
  <2>1. up[r.req.from] /\ log' = log /\ currentTerm[r.req.from] <= currentTerm'[r.req.from]
        /\ persist(r.req.from)
    BY <1>5, <1>t, <2>0, SavedType DEF AppendReplyNewerTerm, becomeFollower, TypeOK
  <2> QED BY <1>5, <1>t, <2>0, <2>1, QuietSave DEF AppendReplyNewerTerm, Quiet, history
<1>6. ASSUME NEW i \in Server, applier(i) \/ Crash(i) \/ Make(i) PROVE Quiet
  BY <1>0, <1>6 DEF applier, Crash, Make, server, history
<1>7. ASSUME NEW i, NEW j, replicateTo(i, j) PROVE Quiet
  BY <1>0, <1>7 DEF replicateTo, server, history
<1>8. ASSUME NEW m, \/ AppendEntriesStale(m)
                    \/ AppendReplyIgnored(m) \/ AppendReplySuccess(m) \/ AppendReplyBackup(m)
      PROVE  Quiet
  BY <1>0, <1>8 DEF AppendEntriesStale, AppendAnswer, AppendReplyIgnored, AppendReplySuccess,
                    AppendReplyBackup, server, history
<1>9. CASE Lose \/ UNCHANGED vars
  BY <1>0, <1>9 DEF Lose, vars, server, history
<1> QED BY <1>1, <1>2, <1>3, <1>4, <1>5, <1>6, <1>7, <1>8, <1>9 DEF Next

\* The step leaves what makes j a candidate or a leader as it is.
SamePeer(j) ==
    /\ up'[j] = up[j] /\ role'[j] = role[j] /\ currentTerm'[j] = currentTerm[j]
    /\ log'[j] = log[j] /\ votes'[j] = votes[j]

LEMMA PeerStep ==
    ASSUME TypeInv, [Next]_vars, NEW j \in Server
    PROVE  \/ SamePeer(j)
           \/ role'[j] = Follower
           \/ startElection(j)
           \/ \E r \in voteReps : Elect(j, r) \/ Count(j, r)
           \/ \E c \in Command : Start(j, c)
<1> USE DEF SamePeer
<1>t. TypeOK
  BY DEF TypeInv, TypeCore
<1>0. ASSUME UNCHANGED <<up, server, role, votes>> PROVE SamePeer(j)
  BY <1>0 DEF server
<1>1. ASSUME NEW i \in Server, startElection(i) PROVE SamePeer(j) \/ startElection(j)
  BY <1>1, <1>t DEF startElection, TypeOK
<1>2. ASSUME NEW m \in voteReqs, RequestVote(m) PROVE SamePeer(j) \/ role'[j] = Follower
  <2>0. m.to \in Server /\ m.term \in Nat
    BY <1>t, TermsAreNat DEF TypeOK, VoteReq
  <2>1. currentTerm[m.to] \in Nat
    BY <1>t, <2>0, SavedType
  <2>2. \A k \in Server \ {m.to} : currentTerm'[k] = currentTerm[k] /\ role'[k] = role[k]
    BY <1>2, <1>t, <2>0 DEF RequestVote, TypeOK
  <2>3. \/ currentTerm'[m.to] = currentTerm[m.to] /\ role'[m.to] = role[m.to]
        \/ role'[m.to] = Follower
    <3>1. currentTerm'[m.to] = Max2(currentTerm[m.to], m.term)
      BY <1>2, <1>t, <2>0 DEF RequestVote, TypeOK
    <3>2. role'[m.to] = IF m.term > currentTerm[m.to] THEN Follower ELSE role[m.to]
      BY <1>2, <1>t, <2>0 DEF RequestVote, TypeOK
    <3> QED BY <2>0, <2>1, <3>1, <3>2 DEF Max2
  <2>4. up' = up /\ log' = log /\ votes' = votes
    BY <1>2 DEF RequestVote
  <2> QED BY <2>2, <2>3, <2>4
<1>3. ASSUME NEW r \in voteReps, VoteReply(r)
      PROVE  SamePeer(j) \/ role'[j] = Follower \/ Elect(j, r) \/ Count(j, r)
  <2> DEFINE i == r.req.from
  <2>0. i \in Server
    BY <1>t DEF TypeOK, VoteRep, VoteReq
  <2>1. CASE becomeFollower(i, r.term) /\ UNCHANGED <<up, votes>>
    BY <1>t, <2>0, <2>1 DEF becomeFollower, TypeOK
  <2>2. CASE Elect(i, r)
    BY <1>t, <2>0, <2>2 DEF Elect, becomeLeader, server, TypeOK
  <2>3. CASE Count(i, r)
    BY <1>t, <2>0, <2>3 DEF Count, server, TypeOK
  <2>4. CASE UNCHANGED <<up, server, role, votes>>
    BY <1>0, <2>4
  <2> QED BY <1>3, <1>t, <2>1, <2>2, <2>3, <2>4, VoteReplyKinds
<1>4. ASSUME NEW i \in Server, NEW c \in Command, Start(i, c) PROVE SamePeer(j) \/ Start(j, c)
  BY <1>4, <1>t DEF Start, TypeOK
<1>5. ASSUME NEW m \in appReqs, AppendEntriesReject(m) PROVE SamePeer(j) \/ role'[j] = Follower
  <2>0. m.to \in Server
    BY <1>t DEF TypeOK, AppReq
  <2> QED BY <1>5, <1>t, <2>0 DEF AppendEntriesReject, AppendAnswer, AcceptTerm, TypeOK
<1>6. ASSUME NEW m \in appReqs, AppendEntriesAccept(m) PROVE SamePeer(j) \/ role'[j] = Follower
  <2>0. m.to \in Server
    BY <1>t DEF TypeOK, AppReq
  <2> QED BY <1>6, <1>t, <2>0 DEF AppendEntriesAccept, AppendAnswer, AcceptTerm, TypeOK
<1>7. ASSUME NEW r \in appReps, AppendReplyNewerTerm(r) PROVE SamePeer(j) \/ role'[j] = Follower
  <2>0. r.req.from \in Server
    BY <1>t DEF TypeOK, AppReq, AppRep
  <2> QED BY <1>7, <1>t, <2>0 DEF AppendReplyNewerTerm, becomeFollower, TypeOK
<1>8. ASSUME NEW i \in Server, Crash(i) PROVE SamePeer(j) \/ role'[j] = Follower
  BY <1>8, <1>t DEF Crash, TypeOK
<1>9. ASSUME NEW i \in Server, Make(i) PROVE SamePeer(j) \/ role'[j] = Follower
  <2>1. role[i] = Follower
    BY <1>9 DEF Make, TypeInv, TypeCore, RunningRoles
  <2> QED BY <1>9, <1>t, <2>1 DEF Make, TypeOK
<1>a. ASSUME NEW i, NEW k, replicateTo(i, k) PROVE SamePeer(j)
  BY <1>0, <1>a DEF replicateTo
<1>b. ASSUME NEW m, \/ AppendEntriesStale(m) \/ applier(m)
                    \/ AppendReplyIgnored(m) \/ AppendReplySuccess(m) \/ AppendReplyBackup(m)
      PROVE  SamePeer(j)
  BY <1>0, <1>b DEF AppendEntriesStale, AppendAnswer, AppendReplyIgnored, AppendReplySuccess,
                    AppendReplyBackup, applier
<1>c. CASE Lose \/ UNCHANGED vars
  BY <1>0, <1>c DEF Lose, vars
<1> HIDE DEF SamePeer
<1> QED BY <1>1, <1>2, <1>3, <1>4, <1>5, <1>6, <1>7, <1>8, <1>9, <1>a, <1>b, <1>c DEF Next

\* Where the calls and replies under way come from.
LEMMA CallStep ==
    ASSUME TypeInv, [Next]_vars
    PROVE  /\ \A m \in appReqs' : m \in appReqs \/
                \E i, j \in Server : replicateTo(i, j) /\ m = AppendArgs(i, j)
           /\ \A m \in voteReqs' : m \in voteReqs \/
                \E i \in Server : /\ startElection(i)
                                  /\ m.from = i /\ m.term = currentTerm[i] + 1
                                  /\ m.lastIndex = Len(log[i])
                                  /\ m.lastTerm = lastLogTerm(log[i])
           /\ \A r \in voteReps' : r \in voteReps \/
                \E m \in voteReqs : /\ RequestVote(m) /\ r.req = m
                                    /\ r.granted => /\ m.term >= currentTerm[m.to]
                                                    /\ UpToDate(m, log[m.to])
           /\ \A r \in appReps' : r \in appReps \/
                \E m \in appReqs : r.req = m /\ (r.success => AppendEntriesAccept(m))
<1> DEFINE Old == /\ appReqs' \subseteq appReqs /\ voteReqs' \subseteq voteReqs
                  /\ voteReps' \subseteq voteReps /\ appReps' \subseteq appReps
           Goal == /\ \A m \in appReqs' : m \in appReqs \/
                        \E i, j \in Server : replicateTo(i, j) /\ m = AppendArgs(i, j)
                   /\ \A m \in voteReqs' : m \in voteReqs \/
                        \E i \in Server : /\ startElection(i)
                                          /\ m.from = i /\ m.term = currentTerm[i] + 1
                                          /\ m.lastIndex = Len(log[i])
                                          /\ m.lastTerm = lastLogTerm(log[i])
                   /\ \A r \in voteReps' : r \in voteReps \/
                        \E m \in voteReqs : /\ RequestVote(m) /\ r.req = m
                                            /\ r.granted => /\ m.term >= currentTerm[m.to]
                                                            /\ UpToDate(m, log[m.to])
                   /\ \A r \in appReps' : r \in appReps \/
                        \E m \in appReqs : r.req = m /\ (r.success => AppendEntriesAccept(m))
<1>0. ASSUME Old PROVE Goal
  BY <1>0, Zenon
<1>1. ASSUME NEW i \in Server, startElection(i) PROVE Goal
  <2>1. appReqs' = appReqs /\ voteReps' = voteReps /\ appReps' = appReps
    BY <1>1 DEF startElection
  <2>2. ASSUME NEW m \in voteReqs', m \notin voteReqs
        PROVE  /\ m.from = i /\ m.term = currentTerm[i] + 1
               /\ m.lastIndex = Len(log[i]) /\ m.lastTerm = lastLogTerm(log[i])
    BY <1>1, <2>2 DEF startElection
  <2> QED BY <1>1, <2>1, <2>2
<1>2. ASSUME NEW m \in voteReqs, RequestVote(m) PROVE Goal
  <2>1. appReqs' = appReqs /\ voteReqs' \subseteq voteReqs /\ appReps' = appReps
    BY <1>2 DEF RequestVote
  <2>2. ASSUME NEW r \in voteReps', r \notin voteReps
        PROVE  r.req = m /\ (r.granted => m.term >= currentTerm[m.to] /\ UpToDate(m, log[m.to]))
    BY <1>2, <2>2 DEF RequestVote
  <2> QED BY <1>2, <2>1, <2>2
<1>3. ASSUME NEW i \in Server, NEW j \in Server, replicateTo(i, j) PROVE Goal
  <2>1. voteReqs' = voteReqs /\ voteReps' = voteReps /\ appReps' = appReps
        /\ appReqs' = appReqs \cup {AppendArgs(i, j)}
    BY <1>3 DEF replicateTo
  <2> QED BY <1>3, <2>1
<1>4. ASSUME NEW m \in appReqs, AppendEntriesStale(m) \/ AppendEntriesReject(m) PROVE Goal
  <2>1. voteReqs' = voteReqs /\ voteReps' = voteReps /\ appReqs' \subseteq appReqs
    BY <1>4 DEF AppendEntriesStale, AppendEntriesReject, AppendAnswer, Done
  <2>2. ASSUME NEW r \in appReps', r \notin appReps PROVE r.req = m /\ ~r.success
    BY <1>4, <2>2 DEF AppendEntriesStale, AppendEntriesReject, AppendAnswer
  <2> QED BY <2>1, <2>2
<1>5. ASSUME NEW m \in appReqs, AppendEntriesAccept(m) PROVE Goal
  <2>1. voteReqs' = voteReqs /\ voteReps' = voteReps /\ appReqs' \subseteq appReqs
    BY <1>5 DEF AppendEntriesAccept, AppendAnswer, Done
  <2>2. ASSUME NEW r \in appReps', r \notin appReps PROVE r.req = m
    BY <1>5, <2>2 DEF AppendEntriesAccept, AppendAnswer
  <2> QED BY <1>5, <2>1, <2>2
<1>6. ASSUME NEW i \in Server, applier(i) \/ Crash(i) \/ Make(i) PROVE Old
  BY <1>6 DEF applier, Crash, Make, calls
<1>7. ASSUME NEW i \in Server, NEW c \in Command, Start(i, c) PROVE Old
  BY <1>7 DEF Start, calls
<1>8. ASSUME NEW r, \/ VoteReply(r) \/ AppendReplyNewerTerm(r) \/ AppendReplyIgnored(r)
                    \/ AppendReplySuccess(r) \/ AppendReplyBackup(r)
      PROVE  Old
  BY <1>8 DEF VoteReply, AppendReplyNewerTerm, AppendReplyIgnored, AppendReplySuccess,
              AppendReplyBackup, Done
<1>9. ASSUME Lose \/ UNCHANGED vars PROVE Old
  BY <1>9 DEF Lose, vars, calls
<1> HIDE DEF Old
<1>10. Goal
  <2> HIDE DEF Goal
  <2> QED BY <1>0, <1>1, <1>2, <1>3, <1>4, <1>5, <1>6, <1>7, <1>8, <1>9 DEF Next
<1> QED BY <1>10

-----------------------------------------------------------------------------
(* Leaders and the logs of their terms. *)

\* The invariants of RaftProofs, before and after the step.
LEMMA BaseStep ==
    TypeInv /\ ElectionInv /\ [Next]_vars =>
        /\ TypeInv' /\ ElectionInv' /\ OneLeaderPerTerm /\ OneLeaderPerTerm'
        /\ TypeOK /\ TypeOK' /\ RunningRoles /\ RunningRoles'
<1>1. (TypeOK /\ ElectionInv)' => OneLeaderPerTerm'
  BY ElectionOneLeader, PTL
<1> QED BY <1>1, ElectionOneLeader, TypeStep, SentinelStep, ElectionStep DEF TypeInv, TypeCore

\* Nobody had won the term before: two winners have a voter in common.
LEMMA ElectFresh ==
    ASSUME TypeInv, ElectionInv, [Next]_vars, LeadInv, NEW i \in Server,
           NEW r \in voteReps, Elect(i, r)
    PROVE  /\ currentTerm[i] \in Term /\ role[i] = Candidate /\ role'[i] = Leader
           /\ elected[currentTerm[i]] = {} /\ termLog[currentTerm[i]] = << >>
           /\ \A t \in Term : elected'[t] = elected[t] \cup
                (IF t = currentTerm[i] THEN {[leader |-> i, voters |-> votes'[i]]} ELSE {})
           /\ \A t \in Term : termLog'[t] = IF t = currentTerm[i] THEN log[i] ELSE termLog[t]
<1>0. TypeOK /\ TypeOK' /\ RunningRoles /\ OneLeaderPerTerm'
  BY BaseStep
<1>1. role[i] = Candidate /\ currentTerm[i] \in Term
  BY <1>0 DEF Elect, InElection, RunningRoles, Candidate, Follower
<1>2. role'[i] = Leader
  BY <1>0 DEF Elect, becomeLeader, TypeOK
<1>3. \A t \in Term : elected'[t] = elected[t] \cup
        (IF t = currentTerm[i] THEN {[leader |-> i, voters |-> votes'[i]]} ELSE {})
  BY <1>0, <1>1 DEF Elect, becomeLeader, TypeOK
<1>4. \A t \in Term : termLog'[t] = IF t = currentTerm[i] THEN log[i] ELSE termLog[t]
  BY <1>0, <1>1 DEF Elect, becomeLeader, TypeOK
<1>5. ASSUME NEW e \in elected[currentTerm[i]] PROVE FALSE
  <2>1. e \in elected'[currentTerm[i]]
        /\ [leader |-> i, voters |-> votes'[i]] \in elected'[currentTerm[i]]
    BY <1>1, <1>3
  <2>2. e.leader = [leader |-> i, voters |-> votes'[i]].leader
    BY <1>0, <1>1, <2>1 DEF OneLeaderPerTerm
  <2> QED BY <1>1, <2>2 DEF LeadInv
<1>6. elected[currentTerm[i]] = {}
  BY <1>5
<1>7. termLog[currentTerm[i]] = << >>
  BY <1>1, <1>6 DEF LeadInv
<1> QED BY <1>1, <1>2, <1>3, <1>4, <1>6, <1>7

\* A command becomes the last entry of the leader and of its term.
LEMMA StartGrows ==
    ASSUME TypeInv, ElectionInv, LeadInv, NEW i \in Server, NEW c \in Command, Start(i, c)
    PROVE  LET e == [term |-> currentTerm[i], command |-> c]
               t == currentTerm[i]
           IN  /\ up[i] /\ role[i] = Leader /\ t \in Term /\ e \in Entry
               /\ log'[i] = Append(log[i], e)
               /\ Append(log[i], e) \in Log /\ Len(Append(log[i], e)) = Len(log[i]) + 1
               /\ Agree(log[i], Append(log[i], e), Len(log[i]))
               /\ Append(log[i], e)[Len(log[i]) + 1] = e
               /\ termLog[t] = log[i] /\ PLog(i) = log[i] /\ persister[i].term = t
               /\ \A u \in Term : termLog'[u] = IF u = t THEN Append(log[i], e) ELSE termLog[u]
               /\ PLog(i)' = Append(log[i], e) /\ persister'[i].term = t
               /\ \A p \in Server \ {i} : log'[p] = log[p] /\ persister'[p] = persister[p]
               /\ \A p \in Server, u \in Term :
                     acked'[p][u] = IF p = i /\ u = t THEN Len(log[i]) + 1 ELSE acked[p][u]
               /\ UNCHANGED <<elected, role, currentTerm, up>>
<1> DEFINE t == currentTerm[i]
           e == [term |-> currentTerm[i], command |-> c]
           l == Append(log[i], e)
<1>0. TypeOK /\ RunningRoles
  BY DEF TypeInv, TypeCore
<1>1. up[i] /\ role[i] = Leader /\ t \in Term /\ log[i] \in Log /\ Len(log[i]) \in Nat
  BY <1>0, SavedType DEF Start, RunningRoles, Leader, Follower
<1>2. e \in Entry
  BY <1>1 DEF Entry
<1>3. l \in Log /\ Len(l) = Len(log[i]) + 1 /\ l[Len(log[i]) + 1] = e
      /\ \A k \in 1..Len(log[i]) : l[k] = log[i][k]
  <2> HIDE DEF e
  <2> QED BY <1>1, <1>2 DEF Log
<1> HIDE DEF l
<1>4. log'[i] = l /\ \A p \in Server \ {i} : log'[p] = log[p]
  BY <1>0 DEF Start, TypeOK, l
<1>5. Agree(log[i], l, Len(log[i]))
  BY <1>1, <1>3 DEF Agree
<1>6. termLog[t] = log[i]
  BY <1>1 DEF LeadInv
<1>7. PLog(i) = log[i] /\ persister[i].term = t
  BY <1>1, CurrentIsSaved DEF PLog
<1>8. \A u \in Term : termLog'[u] = IF u = t THEN l ELSE termLog[u]
  BY <1>0, <1>1, <1>4 DEF Start, TypeOK
<1>9. /\ PLog(i)' = l /\ persister'[i].term = t
      /\ \A p \in Server \ {i} : persister'[p] = persister[p]
  BY <1>0, <1>4 DEF Start, persist, TypeOK, PLog
<1>10. \A p \in Server, u \in Term :
          acked'[p][u] = IF p = i /\ u = t THEN Len(log[i]) + 1 ELSE acked[p][u]
  <2>1. acked' = [acked EXCEPT ![i][t] = Len(l)]
    BY <1>4 DEF Start
  <2> QED BY <1>0, <1>1, <1>3, <2>1 DEF TypeOK
<1>11. UNCHANGED <<elected, role, currentTerm, up>>
  BY DEF Start
<1> QED BY <1>1, <1>2, <1>3, <1>4, <1>5, <1>6, <1>7, <1>8, <1>9, <1>10, <1>11 DEF l

\* Terms, elections and the logs of the terms only ever go forward.
Forward ==
    /\ Grows(termLog, termLog')
    /\ \A t \in Term : elected[t] \subseteq elected'[t]
    /\ \A p \in Server : persister[p].term <= persister'[p].term

LEMMA ForwardStep ==
    ASSUME TypeInv, ElectionInv, [Next]_vars, LeadInv
    PROVE  Forward
<1>0. TypeOK /\ TypeOK'
  BY BaseStep
<1>1. Grows(termLog, termLog) /\ \A p \in Server : persister[p].term \in Nat
  BY <1>0, GrowsRefl, SavedType DEF TypeOK
<1>2. CASE Quiet
  BY <1>1, <1>2 DEF Quiet, Forward
<1>3. ASSUME NEW i \in Server, NEW r \in voteReps, Elect(i, r) PROVE Forward
  <2>1. persister' = persister
    BY <1>3 DEF Elect, server
  <2>2. \A t \in Term : elected[t] \subseteq elected'[t]
    BY <1>3, ElectFresh
  <2>3. ASSUME NEW t \in Term PROVE Agree(termLog[t], termLog'[t], Len(termLog[t]))
    <3>1. CASE t = currentTerm[i]
      <4>1. termLog[t] = << >> /\ termLog'[t] = log[i] /\ Len(log[i]) \in Nat
        BY <1>0, <1>3, <3>1, ElectFresh, SavedType
      <4> QED BY <4>1 DEF Agree
    <3>2. CASE t # currentTerm[i]
      <4>1. termLog'[t] = termLog[t]
        BY <1>3, <3>2, ElectFresh
      <4> QED BY <1>1, <4>1 DEF Grows
    <3> QED BY <3>1, <3>2
  <2> QED BY <1>1, <2>1, <2>2, <2>3 DEF Forward, Grows
<1>4. ASSUME NEW i \in Server, NEW c \in Command, Start(i, c) PROVE Forward
  <2>1. Grows(termLog, termLog')
    <3> DEFINE l == Append(log[i], [term |-> currentTerm[i], command |-> c])
    <3>1. /\ termLog[currentTerm[i]] = log[i] /\ Agree(log[i], l, Len(log[i]))
          /\ \A u \in Term : termLog'[u] = IF u = currentTerm[i] THEN l ELSE termLog[u]
      BY <1>4, StartGrows
    <3> HIDE DEF l
    <3> QED BY <1>1, <3>1 DEF Grows
  <2>2. \A p \in Server : persister[p].term = persister'[p].term
    BY <1>4, StartGrows
  <2> QED BY <1>1, <1>4, <2>1, <2>2 DEF Forward, Start
<1>5. ASSUME NEW m \in appReqs, AppendEntriesAccept(m) PROVE Forward
  <2>1. m.to \in Server /\ m.term \in Nat /\ up[m.to] /\ m.term >= currentTerm[m.to]
        /\ currentTerm[m.to] = persister[m.to].term
    <3>1. m.to \in Server /\ m.term \in Nat
      BY <1>0, TermsAreNat DEF TypeOK, AppReq
    <3> QED BY <1>5, <3>1, CurrentIsSaved DEF AppendEntriesAccept
  <2>2. persister'[m.to].term = m.term /\ \A p \in Server \ {m.to} : persister'[p] = persister[p]
    BY <1>0, <1>5, <2>1 DEF AppendEntriesAccept, AcceptTerm, persist, TypeOK
  <2>3. UNCHANGED <<termLog, elected>>
    BY <1>5 DEF AppendEntriesAccept, AppendAnswer
  <2> QED BY <1>1, <2>1, <2>2, <2>3 DEF Forward
<1> QED BY <1>2, <1>3, <1>4, <1>5, StepKinds

LEMMA LeadStep ==
    ASSUME TypeInv, ElectionInv, [Next]_vars, LeadInv
    PROVE  LeadInv'
<1>0. /\ TypeOK /\ TypeOK' /\ RunningRoles /\ RunningRoles' /\ ElectionInv'
      /\ OneLeaderPerTerm /\ Forward
  BY BaseStep, ForwardStep
\* A new winner is a leader.
<1>1. \A t \in Term : \A e \in elected'[t] :
          e \in elected[t] \/ \E i \in Server : /\ e.leader = i /\ role'[i] = Leader
                                                 /\ t = currentTerm[i] /\ persister'[i].term = t
  <2>1. CASE Quiet
    BY <2>1 DEF Quiet
  <2>2. ASSUME NEW i \in Server, NEW r \in voteReps, Elect(i, r)
        PROVE  \A t \in Term : \A e \in elected'[t] : e \in elected[t] \/
                   (e.leader = i /\ role'[i] = Leader /\ t = currentTerm[i] /\ persister'[i].term = t)
    <3>1. persister' = persister /\ persister[i].term = currentTerm[i]
      BY <2>2, CurrentIsSaved DEF Elect, server
    <3> QED BY <2>2, <3>1, ElectFresh
  <2>3. ASSUME NEW i \in Server, NEW c \in Command, Start(i, c) PROVE elected' = elected
    BY <2>3 DEF Start
  <2>4. ASSUME NEW m \in appReqs, AppendEntriesAccept(m) PROVE elected' = elected
    BY <2>4 DEF AppendEntriesAccept, AppendAnswer
  <2> QED BY <2>1, <2>2, <2>3, <2>4, StepKinds
\* The log of a term changes in the hands of its leader.
<1>2. \A t \in Term : termLog'[t] = termLog[t] \/
          \E i \in Server : /\ t = currentTerm[i] /\ currentTerm'[i] = t
                            /\ role'[i] = Leader /\ termLog'[t] = log'[i]
                            /\ \/ \E e \in elected[t] : e.leader = i
                               \/ elected[t] = {}
                            /\ elected'[t] # {}
  <2>1. CASE Quiet
    BY <2>1 DEF Quiet
  <2>2. ASSUME NEW i \in Server, NEW r \in voteReps, Elect(i, r), NEW t \in Term
        PROVE  termLog'[t] = termLog[t] \/
                 (/\ t = currentTerm[i] /\ currentTerm'[i] = t
                  /\ role'[i] = Leader /\ termLog'[t] = log'[i]
                  /\ elected[t] = {} /\ elected'[t] # {})
    <3>1. log' = log /\ currentTerm' = currentTerm
      BY <2>2 DEF Elect, server
    <3>2. /\ role'[i] = Leader /\ elected[currentTerm[i]] = {}
          /\ \A u \in Term : termLog'[u] = IF u = currentTerm[i] THEN log[i] ELSE termLog[u]
      BY <2>2, ElectFresh
    <3>3. t = currentTerm[i] => [leader |-> i, voters |-> votes'[i]] \in elected'[t]
      BY <2>2, ElectFresh
    <3> QED BY <3>1, <3>2, <3>3
  <2>3. ASSUME NEW i \in Server, NEW c \in Command, Start(i, c), NEW t \in Term
        PROVE  termLog'[t] = termLog[t] \/
                 (/\ t = currentTerm[i] /\ currentTerm'[i] = t
                  /\ role'[i] = Leader /\ termLog'[t] = log'[i]
                  /\ \E e \in elected[t] : e.leader = i
                  /\ elected'[t] # {})
    <3>1. /\ role[i] = Leader /\ UNCHANGED <<elected, role, currentTerm>>
          /\ termLog'[t] = IF t = currentTerm[i] THEN log'[i] ELSE termLog[t]
      <4> DEFINE l == Append(log[i], [term |-> currentTerm[i], command |-> c])
      <4>1. /\ role[i] = Leader /\ UNCHANGED <<elected, role, currentTerm>> /\ log'[i] = l
            /\ \A u \in Term : termLog'[u] = IF u = currentTerm[i] THEN l ELSE termLog[u]
        BY <2>3, StartGrows
      <4> HIDE DEF l
      <4> QED BY <4>1
    <3>2. \E e \in elected[currentTerm[i]] : e.leader = i
      BY <3>1 DEF LeadInv
    <3> QED BY <3>1, <3>2
  <2>4. ASSUME NEW m \in appReqs, AppendEntriesAccept(m) PROVE termLog' = termLog
    BY <2>4 DEF AppendEntriesAccept, AppendAnswer
  <2> QED BY <2>1, <2>2, <2>3, <2>4, StepKinds
<1>3. ASSUME NEW j \in Server, role'[j] = Leader
      PROVE  /\ \E e \in elected'[currentTerm'[j]] : e.leader = j
             /\ termLog'[currentTerm'[j]] = log'[j]
  <2>1. CASE SamePeer(j)
    <3> DEFINE t == currentTerm[j]
    <3>1. /\ role[j] = Leader /\ currentTerm'[j] = t /\ log'[j] = log[j] /\ t \in Term
          /\ \E e \in elected[t] : e.leader = j
          /\ termLog[t] = log[j]
      BY <1>0, <1>3, <2>1 DEF SamePeer, LeadInv, RunningRoles, Leader, Follower
    <3>2. \E e \in elected'[t] : e.leader = j
      BY <1>0, <3>1 DEF Forward
    <3>3. ASSUME termLog'[t] # termLog[t] PROVE termLog'[t] = log'[j]
      <4>1. PICK i \in Server : termLog'[t] = log'[i] /\ \E e \in elected[t] : e.leader = i
        BY <1>2, <3>1, <3>3
      <4>2. i = j
        BY <1>0, <3>1, <4>1 DEF OneLeaderPerTerm
      <4> QED BY <4>1, <4>2
    <3> QED BY <3>1, <3>2, <3>3
  <2>2. ASSUME NEW r \in voteReps, Elect(j, r)
        PROVE  /\ \E e \in elected'[currentTerm'[j]] : e.leader = j
               /\ termLog'[currentTerm'[j]] = log'[j]
    <3>1. log' = log /\ currentTerm' = currentTerm
      BY <2>2 DEF Elect, server
    <3>2. /\ currentTerm[j] \in Term /\ termLog'[currentTerm[j]] = log[j]
          /\ [leader |-> j, voters |-> votes'[j]] \in elected'[currentTerm[j]]
      BY <2>2, ElectFresh
    <3> QED BY <3>1, <3>2
  <2>3. ASSUME NEW c \in Command, Start(j, c)
        PROVE  /\ \E e \in elected'[currentTerm'[j]] : e.leader = j
               /\ termLog'[currentTerm'[j]] = log'[j]
    <3>1. /\ role[j] = Leader /\ UNCHANGED <<elected, role, currentTerm>>
          /\ currentTerm[j] \in Term /\ termLog'[currentTerm[j]] = log'[j]
      BY <2>3, StartGrows
    <3> QED BY <3>1 DEF LeadInv
  <2>4. ~startElection(j)
    BY <1>0, <1>3 DEF startElection, TypeOK, Leader, Candidate
  <2>5. ASSUME NEW r \in voteReps PROVE ~Count(j, r)
    BY <1>3 DEF Count, InElection, Leader, Candidate
  <2> QED BY <1>3, <2>1, <2>2, <2>3, <2>4, <2>5, PeerStep DEF Leader, Follower
<1>4. ASSUME NEW j \in Server, role'[j] = Candidate, NEW e \in elected'[currentTerm'[j]]
      PROVE  e.leader # j
  <2>0. currentTerm'[j] \in Term
    BY <1>0, <1>4 DEF RunningRoles, Candidate, Follower
  <2>1. SUFFICES ASSUME e \in elected[currentTerm'[j]] PROVE e.leader # j
    BY <1>1, <1>4, <2>0 DEF Leader, Candidate
  <2>2. CASE role[j] = Candidate /\ currentTerm'[j] = currentTerm[j]
    BY <2>1, <2>2 DEF LeadInv
  <2>3. CASE startElection(j)
    <3>1. persister[j].term = currentTerm[j] /\ currentTerm'[j] = currentTerm[j] + 1
          /\ currentTerm[j] \in Nat
      BY <1>0, <2>3, CurrentIsSaved, SavedType DEF startElection, TypeOK
    <3>2. persister[e.leader].term >= currentTerm'[j]
      BY <2>0, <2>1 DEF LeadInv
    <3> QED BY <3>1, <3>2
  <2>4. ASSUME NEW r \in voteReps PROVE ~Elect(j, r)
    BY <1>4, ElectFresh DEF Leader, Candidate
  <2>5. ASSUME NEW r \in voteReps, Count(j, r)
        PROVE  role[j] = Candidate /\ currentTerm'[j] = currentTerm[j]
    BY <2>5 DEF Count, InElection, server
  <2>6. ASSUME NEW c \in Command PROVE ~Start(j, c)
    BY <1>4 DEF Start, Leader, Candidate
  <2>7. SamePeer(j) => role[j] = Candidate /\ currentTerm'[j] = currentTerm[j]
    BY <1>4 DEF SamePeer
  <2> QED BY <1>4, <2>2, <2>3, <2>4, <2>5, <2>6, <2>7, PeerStep DEF Candidate, Follower
<1>5. ASSUME NEW t \in Term, NEW e \in elected'[t] PROVE persister'[e.leader].term >= t
  <2>0. t \in Nat
    BY TermsAreNat
  <2>1. CASE e \in elected[t]
    <3>1. e.leader \in Server /\ persister[e.leader].term >= t
      BY <1>0, <2>1 DEF LeadInv, TypeOK
    <3>2. persister[e.leader].term <= persister'[e.leader].term
      BY <1>0, <3>1 DEF Forward
    <3>3. persister[e.leader].term \in Nat
      BY <1>0, <3>1, SavedType
    <3>4. persister'[e.leader].term \in Nat
      BY <1>0, <3>1, TermsAreNat DEF TypeOK, Saved
    <3> QED BY <2>0, <3>1, <3>2, <3>3, <3>4
  <2>2. CASE e \notin elected[t]
    BY <1>1, <1>5, <2>0, <2>2
  <2> QED BY <2>1, <2>2
<1>6. ASSUME NEW t \in Term, elected'[t] = {} PROVE termLog'[t] = << >>
  BY <1>0, <1>2, <1>6 DEF LeadInv, Forward
<1>7. ASSUME NEW m \in appReqs' PROVE elected'[m.term] # {}
  <2>0. m.term \in Term
    BY <1>0 DEF TypeOK, AppReq
  <2>1. CASE m \in appReqs
    BY <1>0, <2>0, <2>1 DEF LeadInv, Forward
  <2>2. ASSUME NEW i \in Server, NEW j \in Server, replicateTo(i, j), m = AppendArgs(i, j)
        PROVE  elected'[m.term] # {}
    <3>1. role[i] = Leader /\ m.term = currentTerm[i] /\ elected' = elected
      BY <2>2 DEF replicateTo, AppendArgs, history
    <3> QED BY <3>1 DEF LeadInv
  <2> QED BY <2>1, <2>2, CallStep
<1> QED BY <1>3, <1>4, <1>5, <1>6, <1>7 DEF LeadInv

-----------------------------------------------------------------------------
(* Every log is made of the logs of the terms. *)

LEMMA GoodAppend ==
    ASSUME NEW T \in [Term -> Log], NEW U \in [Term -> Log], Grows(T, U),
           NEW l \in Log, NEW t \in Term, NEW e \in Entry, e.term = t, Good(l, t, T),
           NEW a \in Log, Len(a) = Len(l) + 1, Agree(l, a, Len(l)), a[Len(l) + 1] = e,
           U[t] = a
    PROVE  Good(a, t, U)
<1>0. Len(l) \in Nat /\ t \in Nat /\ \A k \in 1..Len(a) : k \in 1..Len(l) \/ k = Len(l) + 1
  BY LenType, TermsAreNat
<1>1. Good(l, t, U)
  BY <1>0, GoodGrows
<1>2. \A k \in 1..Len(l) : a[k] = l[k] /\ k \in Nat /\ l[k].term \in Term /\ l[k].term \in Nat
  BY <1>0, EntryOf DEF Agree
<1>3. \A k \in 1..Len(a) : a[k].term <= t
  BY <1>0, <1>1, <1>2 DEF Good
<1>4. ASSUME NEW j \in 1..Len(a), NEW k \in 1..Len(a), j <= k PROVE a[j].term <= a[k].term
  <2>1. CASE k \in 1..Len(l)
    <3>1. j \in 1..Len(l)
      BY <1>0, <1>4, <2>1
    <3> QED BY <1>1, <1>2, <1>4, <2>1, <3>1 DEF Good
  <2>2. CASE k = Len(l) + 1
    BY <1>3, <2>2
  <2> QED BY <1>0, <2>1, <2>2
<1>5. ASSUME NEW k \in 1..Len(a) PROVE Agree(a, U[a[k].term], k)
  <2>1. CASE k \in 1..Len(l)
    <3>1. Agree(a, l, Len(l)) /\ Agree(l, U[l[k].term], k) /\ k <= Len(l)
      BY <1>0, <1>1, <2>1, AgreeSym DEF Good
    <3>2. U[l[k].term] \in Log /\ k <= k /\ k \in Nat
      BY <1>2, <2>1
    <3>3. Agree(a, U[l[k].term], k)
      BY <1>0, <3>1, <3>2, AgreeTrans
    <3> QED BY <1>2, <2>1, <3>3
  <2>2. CASE k = Len(l) + 1
    BY <1>0, <2>2 DEF Agree
  <2> QED BY <1>0, <2>1, <2>2
<1> QED BY <1>3, <1>4, <1>5 DEF Good

\* What AppendEntries does to the peer that accepts.
LEMMA AcceptFacts ==
    ASSUME TypeInv, ElectionInv, RootInv, NEW m \in appReqs, AppendEntriesAccept(m)
    PROVE  LET i == m.to
               n == m.prev + Len(m.entries)
               L == termLog[m.term]
           IN  /\ i \in Server /\ m.term \in Term /\ m.term \in Nat /\ n \in Nat /\ up[i]
               /\ L \in Log /\ m.prev \in Nat /\ Len(m.entries) \in Nat /\ m.commit \in Nat
               /\ n <= Len(L)
               /\ PLog(i) = log[i] /\ log[i] \in Log
               /\ persister[i].term = currentTerm[i] /\ currentTerm[i] <= m.term
               /\ PLog(i)' = log'[i] /\ persister'[i].term = m.term /\ currentTerm'[i] = m.term
               /\ log'[i] \in Log /\ Agree(log'[i], L, n)
               /\ log'[i] = log[i] \/ Len(log'[i]) = n
               /\ \A k \in Nat : Agree(log[i], L, k) => Agree(log'[i], L, k)
               /\ \A p \in Server \ {i} : persister'[p] = persister[p] /\ log'[p] = log[p]
               /\ \A p \in Server, u \in Term : acked'[p][u] =
                     IF p = i /\ u = m.term THEN Max2(acked[p][u], n) ELSE acked[p][u]
               /\ UNCHANGED <<termLog, elected>>
<1> DEFINE i == m.to
           n == m.prev + Len(m.entries)
           L == termLog[m.term]
<1>0. TypeOK
  BY DEF TypeInv, TypeCore
<1>1. m \in AppReq /\ i \in Server /\ m.term \in Term /\ L \in Log /\ m.prev \in Nat
      /\ m.entries \in Log /\ m.commit \in Nat
  BY <1>0 DEF TypeOK, AppReq
<1>2. Len(m.entries) \in Nat /\ n \in Nat /\ m.term \in Nat
  <2>1. Len(m.entries) \in Nat
    BY <1>1, LenType
  <2>2. m.term \in Nat
    BY <1>1, TermsAreNat
  <2> QED BY <1>1, <2>1, <2>2
<1>3. up[i] /\ currentTerm[i] <= m.term /\ Matches(log[i], m)
      /\ UNCHANGED <<termLog, elected>>
  <2>1. currentTerm[i] \in Nat
    BY <1>0, <1>1, SavedType
  <2> QED BY <1>2, <2>1 DEF AppendEntriesAccept, AppendAnswer
<1>4. PLog(i) = log[i] /\ persister[i].term = currentTerm[i] /\ log[i] \in Log
  BY <1>0, <1>1, <1>3, CurrentIsSaved, SavedType DEF PLog
<1>5. log'[i] = MergeLog(log[i], m.prev, m.entries)
  BY <1>0, <1>1 DEF AppendEntriesAccept, TypeOK
<1>6. Carries(m, L) /\ Good(log[i], persister[i].term, termLog) /\ Good(L, m.term, termLog)
  BY <1>1, <1>4 DEF RootInv
<1>7. \A k \in 1..Len(log[i]) : k \in 1..Len(L) /\ log[i][k].term = L[k].term => Agree(log[i], L, k)
  <2>1. termLog \in [Term -> Log]
    BY <1>0 DEF TypeOK
  <2> QED BY <1>1, <1>4, <1>6, <2>1, GoodMatch
<1>8. /\ log'[i] \in Log /\ Agree(log'[i], L, n)
      /\ log'[i] = log[i] \/ Len(log'[i]) = n
      /\ \A k \in Nat : Agree(log[i], L, k) => Agree(log'[i], L, k)
  <2> DEFINE l == log[i]
             l2 == MergeLog(l, m.prev, m.entries)
  <2>1. l \in Log /\ Carries(m, L) /\ Matches(l, m)
        /\ \A k \in 1..Len(l) : k \in 1..Len(L) /\ l[k].term = L[k].term => Agree(l, L, k)
    BY <1>3, <1>4, <1>6, <1>7
  <2> HIDE DEF L, l
  <2>2. /\ l2 \in Log /\ Agree(l2, L, n)
        /\ l2 = l \/ Len(l2) = n
        /\ \A k \in Nat : Agree(l, L, k) => Agree(l2, L, k)
    BY <1>1, <2>1, MergeAgrees
  <2> QED BY <1>5, <2>2 DEF l
<1>9. PLog(i)' = log'[i] /\ persister'[i].term = m.term /\ currentTerm'[i] = m.term
      /\ \A p \in Server \ {i} : persister'[p] = persister[p] /\ log'[p] = log[p]
  BY <1>0, <1>1 DEF AppendEntriesAccept, AcceptTerm, persist, TypeOK, PLog
<1>10. \A p \in Server, u \in Term : acked'[p][u] =
          IF p = i /\ u = m.term THEN Max2(acked[p][u], n) ELSE acked[p][u]
  <2>1. acked' = [acked EXCEPT ![i][m.term] = Max2(@, n)]
    BY DEF AppendEntriesAccept
  <2> QED BY <1>0, <1>1, <2>1 DEF TypeOK
<1>11. n <= Len(L)
  BY <1>6 DEF Carries
<1> QED BY <1>1, <1>2, <1>3, <1>4, <1>8, <1>9, <1>10, <1>11

\* A call carries what the log of its term holds, however long that grows.
LEMMA CarriesGrows ==
    ASSUME NEW m \in AppReq, NEW L \in Log, NEW M \in Log, Carries(m, L), Agree(L, M, Len(L))
    PROVE  Carries(m, M)
<1>1. Len(L) \in Nat /\ Len(M) \in Nat /\ m.prev \in Nat /\ Len(m.entries) \in Nat
  BY LenType DEF AppReq
<1>2. m.prev + Len(m.entries) <= Len(M) /\ m.prev <= Len(L)
  BY <1>1 DEF Carries, Agree
<1>3. \A k \in 1..Len(m.entries) : m.prev + k \in 1..Len(L)
  BY <1>1 DEF Carries
<1>4. TermAt(L, m.prev) = TermAt(M, m.prev)
  BY <1>1, <1>2 DEF TermAt, Agree
<1> QED BY <1>2, <1>3, <1>4 DEF Carries, Agree

LEMMA ArgsCarry ==
    ASSUME TypeOK, NEW i \in Server, NEW j \in Server
    PROVE  LET m == AppendArgs(i, j)
           IN  /\ Carries(m, log[i]) /\ m.prev + Len(m.entries) = Len(log[i])
               /\ m.term = currentTerm[i] /\ m.commit = commitIndex[i]
<1> DEFINE l == log[i]
           next == Min2(Max2(nextIndex[i][j], 1), Len(l) + 1)
<1>1. l \in Log /\ Len(l) \in Nat /\ nextIndex[i][j] \in Nat
  BY SavedType DEF TypeOK
<1>2. next \in 1..Len(l) + 1
  BY <1>1 DEF Min2, Max2
<1> HIDE DEF next, l
<1>3. Len(SubSeq(l, next, Len(l))) = Len(l) + 1 - next
      /\ \A k \in 1..Len(l) + 1 - next : SubSeq(l, next, Len(l))[k] = l[next - 1 + k]
  BY <1>1, <1>2 DEF Log
<1>4. AppendArgs(i, j) =
         [from |-> i, to |-> j, term |-> currentTerm[i],
          prev |-> next - 1, prevTerm |-> TermAt(l, next - 1),
          entries |-> SubSeq(l, next, Len(l)),
          commit |-> commitIndex[i]]
  BY DEF AppendArgs, next, l
<1>5. (next - 1) + (Len(l) + 1 - next) = Len(l)
  BY <1>1, <1>2
<1> QED BY <1>1, <1>2, <1>3, <1>4, <1>5 DEF Carries, l

LEMMA RootStep ==
    ASSUME TypeInv, ElectionInv, [Next]_vars, LeadInv, RootInv
    PROVE  RootInv'
<1>0. TypeOK /\ TypeOK' /\ Forward
  BY BaseStep, ForwardStep
<1>1. termLog \in [Term -> Log] /\ termLog' \in [Term -> Log] /\ Grows(termLog, termLog')
  BY <1>0 DEF TypeOK, Forward
<1>2. \A p \in Server : /\ persister[p].term \in Nat /\ PLog(p) \in Log
                        /\ persister'[p].term \in Nat /\ PLog(p)' \in Log
                        /\ persister[p].term <= persister'[p].term
  <2>1. \A p \in Server : persister'[p] \in Saved
    BY <1>0 DEF TypeOK
  <2> QED BY <1>0, <2>1, SavedType, TermsAreNat DEF Forward, Saved, PLog
<1>3. ASSUME NEW p \in Server, PLog(p)' = PLog(p)
      PROVE  Good(PLog(p)', persister'[p].term, termLog')
  BY <1>1, <1>2, <1>3, GoodGrows DEF RootInv
<1>4. ASSUME NEW t \in Term, termLog'[t] = termLog[t] PROVE Good(termLog'[t], t, termLog')
  <2>1. Good(termLog[t], t, termLog) /\ t \in Nat /\ termLog[t] \in Log
    BY <1>1, TermsAreNat DEF RootInv
  <2> QED BY <1>1, <1>4, <2>1, GoodGrows
<1> DEFINE Logs == /\ \A p \in Server : Good(PLog(p)', persister'[p].term, termLog')
                   /\ \A t \in Term : Good(termLog'[t], t, termLog')
<1>5. Logs
  <2>1. CASE Quiet
    BY <1>3, <1>4, <2>1 DEF Quiet
  <2>2. ASSUME NEW i \in Server, NEW r \in voteReps, Elect(i, r) PROVE Logs
    <3>1. persister' = persister /\ PLog(i) = log[i] /\ persister[i].term = currentTerm[i]
      BY <2>2, CurrentIsSaved DEF Elect, server, PLog
    <3>2. \A p \in Server : Good(PLog(p)', persister'[p].term, termLog')
      BY <1>3, <3>1 DEF PLog
    <3>3. \A t \in Term : termLog'[t] = IF t = currentTerm[i] THEN log[i] ELSE termLog[t]
      BY <2>2, ElectFresh
    <3>4. Good(log[i], currentTerm[i], termLog')
      BY <3>1, <3>2 DEF PLog
    <3> QED BY <1>4, <3>2, <3>3, <3>4
  <2>3. ASSUME NEW i \in Server, NEW c \in Command, Start(i, c) PROVE Logs
    <3> DEFINE e == [term |-> currentTerm[i], command |-> c]
               t == currentTerm[i]
               a == Append(log[i], e)
    <3>1. /\ t \in Term /\ e \in Entry /\ a \in Log /\ Len(a) = Len(log[i]) + 1
          /\ Agree(log[i], a, Len(log[i])) /\ a[Len(log[i]) + 1] = e
          /\ PLog(i) = log[i] /\ persister[i].term = t
          /\ PLog(i)' = a /\ persister'[i].term = t
          /\ \A u \in Term : termLog'[u] = IF u = t THEN a ELSE termLog[u]
          /\ \A p \in Server \ {i} : persister'[p] = persister[p]
      BY <2>3, StartGrows
    <3>2. e.term = t /\ log[i] \in Log /\ Good(log[i], t, termLog)
      BY <1>2, <3>1 DEF RootInv
    <3> HIDE DEF e, a, t
    <3>3. termLog'[t] = a
      BY <3>1
    <3>4. Good(a, t, termLog')
      BY <1>1, <3>1, <3>2, <3>3, GoodAppend
    <3>5. \A p \in Server \ {i} : PLog(p)' = PLog(p)
      BY <3>1 DEF PLog
    <3>6. \A p \in Server : Good(PLog(p)', persister'[p].term, termLog')
      BY <1>3, <3>1, <3>4, <3>5
    <3>7. \A u \in Term : Good(termLog'[u], u, termLog')
      BY <1>4, <3>1, <3>4
    <3> QED BY <3>6, <3>7
  <2>4. ASSUME NEW m \in appReqs, AppendEntriesAccept(m) PROVE Logs
    <3> DEFINE i == m.to
               n == m.prev + Len(m.entries)
               L == termLog[m.term]
    <3>1. /\ i \in Server /\ m.term \in Term /\ L \in Log /\ m.term \in Nat
          /\ PLog(i) = log[i] /\ PLog(i)' = log'[i] /\ persister'[i].term = m.term
          /\ Agree(log'[i], L, n) /\ termLog' = termLog
          /\ \A p \in Server \ {i} : persister'[p] = persister[p]
      BY <2>4, AcceptFacts
    <3>2. log'[i] = log[i] \/ Len(log'[i]) = n
      BY <2>4, AcceptFacts
    <3>3. Good(PLog(i)', persister'[i].term, termLog')
      <4>1. CASE log'[i] = log[i]
        BY <1>3, <3>1, <4>1
      <4>2. CASE Len(log'[i]) = n
        <5>1. Good(L, m.term, termLog) /\ log'[i] \in Log /\ Agree(log'[i], L, Len(log'[i]))
          BY <1>2, <3>1, <4>2 DEF RootInv
        <5>2. Good(log'[i], m.term, termLog)
          BY <1>1, <3>1, <5>1, GoodPart
        <5> QED BY <3>1, <5>2
      <4> QED BY <3>2, <4>1, <4>2
    <3>4. \A p \in Server \ {i} : PLog(p)' = PLog(p)
      BY <3>1 DEF PLog
    <3> QED BY <1>3, <1>4, <3>1, <3>3, <3>4
  <2> HIDE DEF Logs
  <2> QED BY <2>1, <2>2, <2>3, <2>4, StepKinds
<1>6. ASSUME NEW m \in appReqs' PROVE Carries(m, termLog'[m.term])
  <2>0. m \in AppReq /\ m.term \in Term
    BY <1>0 DEF TypeOK, AppReq
  <2>1. CASE m \in appReqs
    <3>1. /\ termLog[m.term] \in Log /\ termLog'[m.term] \in Log
          /\ Carries(m, termLog[m.term])
          /\ Agree(termLog[m.term], termLog'[m.term], Len(termLog[m.term]))
      BY <1>1, <2>0, <2>1 DEF RootInv, Grows
    <3> QED BY <2>0, <3>1, CarriesGrows
  <2>2. ASSUME NEW i \in Server, NEW j \in Server, replicateTo(i, j), m = AppendArgs(i, j)
        PROVE  Carries(m, termLog'[m.term])
    <3>1. role[i] = Leader /\ termLog' = termLog
      BY <2>2 DEF replicateTo, history
    <3>2. Carries(m, log[i]) /\ m.term = currentTerm[i]
      BY <1>0, <2>2, ArgsCarry
    <3>3. termLog[currentTerm[i]] = log[i]
      BY <3>1 DEF LeadInv
    <3> QED BY <3>1, <3>2, <3>3
  <2> QED BY <2>1, <2>2, CallStep
<1> QED BY <1>5, <1>6 DEF RootInv

-----------------------------------------------------------------------------
(* Acknowledgements. *)

LEMMA AckType ==
    ASSUME TypeOK, NEW p \in Server, NEW s \in Term
    PROVE  acked[p][s] \in Nat /\ termLog[s] \in Log /\ Len(termLog[s]) \in Nat /\ s \in Nat
BY LenType, TermsAreNat DEF TypeOK

\* Nothing confirmed is taken back, and nothing is confirmed to a term that the
\* peer has left.
AckOnward ==
    \A p \in Server, s \in Term :
        /\ acked[p][s] <= acked'[p][s]
        /\ persister'[p].term > s => acked'[p][s] = acked[p][s]

LEMMA AckForward ==
    ASSUME TypeInv, ElectionInv, [Next]_vars, LeadInv, RootInv, AckInv
    PROVE  AckOnward
<1>0. TypeOK
  BY BaseStep
<1>1. \A p \in Server, s \in Term : acked[p][s] \in Nat /\ s \in Nat
  BY <1>0, AckType
<1>2. CASE acked' = acked
  BY <1>1, <1>2 DEF AckOnward
<1>3. ASSUME NEW i \in Server, NEW c \in Command, Start(i, c) PROVE AckOnward
  <2>1. /\ currentTerm[i] \in Term /\ termLog[currentTerm[i]] = log[i]
        /\ persister'[i].term = currentTerm[i]
        /\ \A p \in Server, u \in Term : acked'[p][u] =
              IF p = i /\ u = currentTerm[i] THEN Len(log[i]) + 1 ELSE acked[p][u]
    BY <1>3, StartGrows
  <2>2. Len(log[i]) \in Nat
    BY <1>0, SavedType
  <2>3. acked[i][currentTerm[i]] <= Len(log[i]) + 1
    BY <1>1, <2>1, <2>2 DEF AckInv
  <2> QED BY <1>1, <2>1, <2>2, <2>3 DEF AckOnward
<1>4. ASSUME NEW m \in appReqs, AppendEntriesAccept(m) PROVE AckOnward
  <2> DEFINE n == m.prev + Len(m.entries)
  <2>1. /\ m.to \in Server /\ m.term \in Term /\ n \in Nat
        /\ persister'[m.to].term = m.term
        /\ \A p \in Server, u \in Term : acked'[p][u] =
              IF p = m.to /\ u = m.term THEN Max2(acked[p][u], n) ELSE acked[p][u]
    BY <1>4, AcceptFacts
  <2> HIDE DEF n
  <2> QED BY <1>1, <2>1 DEF AckOnward, Max2
<1>5. Quiet => acked' = acked
  BY DEF Quiet
<1>6. ASSUME NEW i \in Server, NEW r \in voteReps, Elect(i, r) PROVE acked' = acked
  BY <1>6 DEF Elect
<1> QED BY <1>2, <1>3, <1>4, <1>5, <1>6, StepKinds

\* Where a leader's matchIndex comes from.
LEMMA MatchStep ==
    ASSUME TypeInv, [Next]_vars, NEW j \in Server, NEW p \in Server
    PROVE  \/ matchIndex'[j][p] = matchIndex[j][p]
           \/ role'[j] = Follower
           \/ \E r \in voteReps : Elect(j, r)
           \/ \E r \in appReps : /\ r.success /\ InCharge(j, r) /\ r.req.to = p
                                 /\ matchIndex'[j][p] = r.req.prev + Len(r.req.entries)
<1>0. TypeOK
  BY DEF TypeInv, TypeCore
<1>1. ASSUME NEW r \in voteReps, VoteReply(r)
      PROVE  matchIndex' = matchIndex \/ Elect(r.req.from, r)
  BY <1>0, <1>1, VoteReplyKinds DEF leading
<1>2. ASSUME NEW r \in voteReps, VoteReply(r)
      PROVE  matchIndex'[j][p] = matchIndex[j][p] \/ Elect(j, r)
  <2>1. r.req.from \in Server
    BY <1>0 DEF TypeOK, VoteRep, VoteReq
  <2>2. Elect(r.req.from, r) /\ r.req.from # j => matchIndex'[j] = matchIndex[j]
    BY <1>0, <2>1 DEF Elect, becomeLeader, TypeOK
  <2> QED BY <1>1, <1>2, <2>2
<1>3. ASSUME NEW r \in appReps, AppendReplySuccess(r)
      PROVE  \/ matchIndex'[j][p] = matchIndex[j][p]
             \/ /\ r.success /\ InCharge(j, r) /\ r.req.to = p
                /\ matchIndex'[j][p] = r.req.prev + Len(r.req.entries)
  <2> DEFINE i == r.req.from
             n == r.req.prev + Len(r.req.entries)
  <2>1. i \in Server /\ r.req.to \in Server
    BY <1>0 DEF TypeOK, AppRep, AppReq
  <2>2. PICK v \in {n, matchIndex[i][r.req.to]} :
            matchIndex' = [matchIndex EXCEPT ![i][r.req.to] = v]
    BY <1>3 DEF AppendReplySuccess
  <2>3. matchIndex'[j][p] = matchIndex[j][p] \/ (j = i /\ p = r.req.to /\ matchIndex'[j][p] = n)
    <3>1. matchIndex \in [Server -> [Server -> Nat]]
      BY <1>0 DEF TypeOK
    <3>2. CASE j = i /\ p = r.req.to
      <4>1. matchIndex'[j][p] = v
        BY <2>1, <2>2, <3>1, <3>2
      <4> QED BY <3>2, <4>1
    <3>3. CASE ~(j = i /\ p = r.req.to)
      BY <2>1, <2>2, <3>1, <3>3
    <3> QED BY <3>2, <3>3
  <2>4. r.success /\ InCharge(i, r)
    BY <1>3 DEF AppendReplySuccess
  <2> QED BY <2>3, <2>4
<1>4. ASSUME NEW i \in Server, Crash(i)
      PROVE  matchIndex'[j][p] = matchIndex[j][p] \/ role'[j] = Follower
  BY <1>0, <1>4 DEF Crash, TypeOK
<1>5. ASSUME NEW i, startElection(i) \/ applier(i) \/ Make(i) PROVE matchIndex' = matchIndex
  BY <1>5 DEF startElection, applier, Make, leading
<1>6. ASSUME NEW i, NEW c, Start(i, c) \/ replicateTo(i, c) PROVE matchIndex' = matchIndex
  BY <1>6 DEF Start, replicateTo, leading
<1>7. ASSUME NEW m, \/ RequestVote(m) \/ AppendEntriesStale(m) \/ AppendEntriesReject(m)
                    \/ AppendEntriesAccept(m) \/ AppendReplyNewerTerm(m)
                    \/ AppendReplyIgnored(m) \/ AppendReplyBackup(m)
      PROVE  matchIndex' = matchIndex
  BY <1>7 DEF RequestVote, AppendEntriesStale, AppendEntriesReject, AppendEntriesAccept,
              AppendAnswer, AppendReplyNewerTerm, AppendReplyIgnored, AppendReplyBackup, leading
<1>8. CASE Lose \/ UNCHANGED vars
  BY <1>8 DEF Lose, vars, leading
<1> QED BY <1>2, <1>3, <1>4, <1>5, <1>6, <1>7, <1>8 DEF Next

LEMMA AckStep ==
    ASSUME TypeInv, ElectionInv, [Next]_vars, LeadInv, RootInv, AckInv
    PROVE  AckInv'
<1>0. TypeOK /\ TypeOK' /\ Forward /\ AckOnward /\ RunningRoles
  BY BaseStep, ForwardStep, AckForward
<1>1. termLog \in [Term -> Log] /\ termLog' \in [Term -> Log] /\ Grows(termLog, termLog')
  BY <1>0 DEF TypeOK, Forward
<1>2. \A p \in Server, s \in Term :
          /\ acked[p][s] \in Nat /\ acked'[p][s] \in Nat /\ s \in Nat
          /\ persister[p].term \in Nat /\ persister'[p].term \in Nat /\ PLog(p) \in Log
          /\ Len(termLog[s]) \in Nat /\ Len(termLog'[s]) \in Nat
          /\ Len(termLog[s]) <= Len(termLog'[s])
          /\ persister[p].term <= persister'[p].term
  <2>1. \A p \in Server : persister'[p] \in Saved
    BY <1>0 DEF TypeOK
  <2>2. \A p \in Server, s \in Term : acked'[p][s] \in Nat /\ Len(termLog'[s]) \in Nat
    BY <1>0, LenType DEF TypeOK
  <2>3. \A s \in Term : Len(termLog[s]) <= Len(termLog'[s])
    BY <1>1 DEF Grows, Agree
  <2>4. \A p \in Server : persister'[p].term \in Nat /\ persister[p].term <= persister'[p].term
    BY <1>0, <2>1, TermsAreNat DEF Forward, Saved
  <2> QED BY <1>0, <2>2, <2>3, <2>4, AckType, SavedType
\* What was confirmed before the step, unless the log of the peer has changed.
<1>3. ASSUME NEW p \in Server, NEW s \in Term, acked'[p][s] = acked[p][s], acked[p][s] > 0
      PROVE  /\ persister'[p].term >= s /\ acked'[p][s] <= Len(termLog'[s])
             /\ persister'[p].term = s /\ PLog(p)' = PLog(p) =>
                   Agree(PLog(p)', termLog'[s], acked'[p][s])
  <2>1. persister[p].term >= s /\ acked[p][s] <= Len(termLog[s])
        /\ (persister[p].term = s => Agree(PLog(p), termLog[s], acked[p][s]))
    BY <1>3 DEF AckInv
  <2>2. persister'[p].term >= s /\ acked'[p][s] <= Len(termLog'[s])
        /\ (persister'[p].term = s => persister[p].term = s)
    <3>1. /\ acked[p][s] \in Nat /\ s \in Nat /\ persister[p].term \in Nat
          /\ persister'[p].term \in Nat /\ Len(termLog[s]) \in Nat /\ Len(termLog'[s]) \in Nat
          /\ Len(termLog[s]) <= Len(termLog'[s]) /\ persister[p].term <= persister'[p].term
      BY <1>2
    <3> QED BY <1>3, <2>1, <3>1
  <2>3. persister'[p].term = s => Agree(PLog(p), termLog'[s], acked[p][s])
    BY <1>1, <1>2, <2>1, <2>2, AgreeGrows
  <2> QED BY <1>3, <2>2, <2>3
<1> DEFINE Mine(p, s) == acked'[p][s] > 0 =>
              /\ persister'[p].term >= s
              /\ acked'[p][s] <= Len(termLog'[s])
              /\ persister'[p].term = s => Agree(PLog(p)', termLog'[s], acked'[p][s])
<1>4. ASSUME NEW p \in Server, NEW s \in Term, acked'[p][s] = acked[p][s],
             PLog(p)' = PLog(p) \/ persister'[p].term # s
      PROVE  Mine(p, s)
  BY <1>3, <1>4
<1>5. \A p \in Server, s \in Term : Mine(p, s)
  <2> HIDE DEF Mine
  <2>1. CASE Quiet
    BY <1>4, <2>1 DEF Quiet
  <2>2. ASSUME NEW i \in Server, NEW r \in voteReps, Elect(i, r)
        PROVE  \A p \in Server, s \in Term : Mine(p, s)
    <3>1. persister' = persister /\ acked' = acked
      BY <2>2 DEF Elect, server
    <3> QED BY <1>4, <3>1 DEF PLog
  <2>3. ASSUME NEW i \in Server, NEW c \in Command, Start(i, c), NEW p \in Server, NEW s \in Term
        PROVE  Mine(p, s)
    <3> DEFINE a == Append(log[i], [term |-> currentTerm[i], command |-> c])
               t == currentTerm[i]
    <3>1. /\ t \in Term /\ a \in Log /\ Len(a) = Len(log[i]) + 1
          /\ PLog(i)' = a /\ persister'[i].term = t
          /\ \A u \in Term : termLog'[u] = IF u = t THEN a ELSE termLog[u]
          /\ \A q \in Server \ {i} : persister'[q] = persister[q]
          /\ \A q \in Server, u \in Term :
                acked'[q][u] = IF q = i /\ u = t THEN Len(log[i]) + 1 ELSE acked[q][u]
      BY <2>3, StartGrows
    <3> HIDE DEF a, t
    <3>2. CASE p = i /\ s = t
      <4>1. acked'[p][s] = Len(a) /\ termLog'[s] = a /\ PLog(p)' = a /\ persister'[p].term = s
            /\ Len(a) \in Nat /\ s \in Nat
        BY <1>2, <3>1, <3>2, LenType
      <4> QED BY <4>1 DEF Mine, Agree
    <3>3. CASE ~(p = i /\ s = t)
      <4>1. acked'[p][s] = acked[p][s] /\ (PLog(p)' = PLog(p) \/ persister'[p].term # s)
        BY <3>1, <3>3 DEF PLog
      <4> QED BY <1>4, <4>1
    <3> QED BY <3>2, <3>3
  <2>4. ASSUME NEW m \in appReqs, AppendEntriesAccept(m), NEW p \in Server, NEW s \in Term
        PROVE  Mine(p, s)
    <3> DEFINE i == m.to
               n == m.prev + Len(m.entries)
               L == termLog[m.term]
    <3>1. /\ i \in Server /\ m.term \in Term /\ L \in Log /\ n \in Nat /\ n <= Len(L)
          /\ PLog(i) = log[i] /\ PLog(i)' = log'[i] /\ persister'[i].term = m.term
          /\ persister[i].term <= m.term
          /\ Agree(log'[i], L, n) /\ termLog' = termLog
          /\ \A q \in Server \ {i} : persister'[q] = persister[q]
          /\ \A q \in Server, u \in Term : acked'[q][u] =
                IF q = i /\ u = m.term THEN Max2(acked[q][u], n) ELSE acked[q][u]
      BY <2>4, AcceptFacts
    <3>2. \A k \in Nat : Agree(log[i], L, k) => Agree(log'[i], L, k)
      BY <2>4, AcceptFacts
    <3>3. CASE p = i /\ s = m.term
      <4>1. acked'[p][s] \in {n, acked[p][s]}
        BY <3>1, <3>3 DEF Max2
      <4>2. CASE acked'[p][s] = n
        <5>1. persister'[p].term = s /\ s \in Nat /\ termLog'[s] = L /\ PLog(p)' = log'[i]
          BY <1>2, <3>1, <3>3
        <5> QED BY <3>1, <4>2, <5>1 DEF Mine
      <4>3. CASE acked'[p][s] = acked[p][s] /\ acked[p][s] > 0
        <5>1. persister[p].term = s /\ Agree(log[i], L, acked[p][s]) /\ acked[p][s] <= Len(L)
          <6>1. persister[p].term >= s /\ acked[p][s] <= Len(termLog[s])
                /\ (persister[p].term = s => Agree(PLog(p), termLog[s], acked[p][s]))
            BY <4>3 DEF AckInv
          <6>2. persister[p].term \in Nat /\ s \in Nat
            BY <1>2
          <6> QED BY <3>1, <3>3, <6>1, <6>2
        <5>2. Agree(log'[i], L, acked[p][s])
          BY <1>2, <3>2, <5>1
        <5>3. persister'[p].term = s /\ s \in Nat /\ termLog'[s] = L /\ PLog(p)' = log'[i]
          BY <1>2, <3>1, <3>3
        <5> QED BY <4>3, <5>1, <5>2, <5>3 DEF Mine
      <4>4. CASE acked'[p][s] = acked[p][s] /\ ~(acked[p][s] > 0)
        BY <4>4 DEF Mine
      <4> QED BY <4>1, <4>2, <4>3, <4>4
    <3>4. CASE ~(p = i /\ s = m.term)
      <4>1. acked'[p][s] = acked[p][s] /\ (PLog(p)' = PLog(p) \/ persister'[p].term # s)
        BY <3>1, <3>4 DEF PLog
      <4> QED BY <1>4, <4>1
    <3> QED BY <3>3, <3>4
  <2> QED BY <2>1, <2>2, <2>3, <2>4, StepKinds
<1>6. ASSUME NEW r \in appReps', r.success
      PROVE  acked'[r.req.to][r.req.term] >= r.req.prev + Len(r.req.entries)
  <2> DEFINE n == r.req.prev + Len(r.req.entries)
  <2>0. r.req.to \in Server /\ r.req.term \in Term /\ n \in Nat
    <3>1. r.req \in AppReq
      BY <1>0 DEF TypeOK, AppRep
    <3>2. Len(r.req.entries) \in Nat
      BY <3>1, LenType DEF AppReq
    <3> QED BY <3>1, <3>2 DEF AppReq
  <2>1. CASE r \in appReps
    <3>1. acked[r.req.to][r.req.term] >= n
      BY <1>6, <2>1 DEF AckInv
    <3> QED BY <1>0, <1>2, <2>0, <3>1 DEF AckOnward
  <2>2. ASSUME NEW m \in appReqs, r.req = m, AppendEntriesAccept(m)
        PROVE  acked'[r.req.to][r.req.term] >= n
    <3>1. acked'[m.to][m.term] = Max2(acked[m.to][m.term], m.prev + Len(m.entries))
      BY <2>0, <2>2, AcceptFacts
    <3>2. acked[m.to][m.term] \in Nat
      BY <1>2, <2>0, <2>2
    <3> QED BY <2>0, <2>2, <3>1, <3>2 DEF Max2
  <2> QED BY <1>6, <2>1, <2>2, CallStep
<1>7. ASSUME NEW j \in Server, role'[j] = Leader
      PROVE  /\ \A p \in Server \ {j} : matchIndex'[j][p] <= acked'[p][currentTerm'[j]]
             /\ \A k \in 1..Len(log'[j]) :
                   log'[j][k].term = currentTerm'[j] => k <= acked'[j][currentTerm'[j]]
  <2> DEFINE Claims == /\ \A p \in Server \ {j} : matchIndex'[j][p] <= acked'[p][currentTerm'[j]]
                       /\ \A k \in 1..Len(log'[j]) :
                           log'[j][k].term = currentTerm'[j] => k <= acked'[j][currentTerm'[j]]
             t == currentTerm[j]
  <2>1. ASSUME role[j] = Leader, currentTerm'[j] = currentTerm[j],
               \A r \in voteReps : ~Elect(j, r)
        PROVE  \A p \in Server \ {j} : matchIndex'[j][p] <= acked'[p][currentTerm'[j]]
    <3> SUFFICES ASSUME NEW p \in Server \ {j} PROVE matchIndex'[j][p] <= acked'[p][t]
      BY <2>1
    <3>1. t \in Term /\ acked[p][t] \in Nat /\ acked'[p][t] \in Nat /\ acked[p][t] <= acked'[p][t]
      BY <1>0, <1>2, <2>1 DEF RunningRoles, Leader, Follower, AckOnward
    <3>2. CASE matchIndex'[j][p] = matchIndex[j][p]
      <4>1. matchIndex[j][p] <= acked[p][t] /\ matchIndex[j][p] \in Nat
        <5>1. matchIndex[j][p] \in Nat
          BY <1>0 DEF TypeOK
        <5> QED BY <2>1, <5>1 DEF AckInv
      <4> QED BY <3>1, <3>2, <4>1
    <3>3. ASSUME NEW r \in appReps, r.success, InCharge(j, r), r.req.to = p,
                 matchIndex'[j][p] = r.req.prev + Len(r.req.entries)
          PROVE  matchIndex'[j][p] <= acked'[p][t]
      <4>1. acked[p][t] >= matchIndex'[j][p]
        BY <3>3 DEF AckInv, InCharge
      <4>2. matchIndex'[j][p] \in Nat
        BY <1>0 DEF TypeOK
      <4> QED BY <3>1, <4>1, <4>2
    <3> QED BY <1>7, <2>1, <3>2, <3>3, MatchStep DEF Leader, Follower
  <2>2. CASE SamePeer(j)
    <3>1. role[j] = Leader /\ currentTerm'[j] = t /\ log'[j] = log[j]
      BY <1>7, <2>2 DEF SamePeer
    <3>2. t \in Term
      BY <1>0, <3>1 DEF RunningRoles, Leader, Follower
    <3>3. \A r \in voteReps : ~Elect(j, r)
      BY <3>1, ElectFresh DEF Leader, Candidate
    <3>4. ASSUME NEW k \in 1..Len(log[j]), log[j][k].term = t PROVE k <= acked'[j][t]
      <4>1. k <= acked[j][t] /\ acked[j][t] <= acked'[j][t] /\ acked[j][t] \in Nat
            /\ acked'[j][t] \in Nat
        BY <1>0, <1>2, <3>1, <3>2, <3>4 DEF AckInv, AckOnward
      <4>2. k \in Nat
        BY <1>0, SavedType
      <4> QED BY <4>1, <4>2
    <3> QED BY <2>1, <3>1, <3>3, <3>4
  <2>3. ASSUME NEW r \in voteReps, Elect(j, r) PROVE Claims
    <3>1. t \in Term /\ termLog[t] = << >>
      BY <2>3, ElectFresh
    <3>2. currentTerm' = currentTerm /\ log' = log /\ up[j]
      BY <2>3 DEF Elect, server
    <3>3. \A p \in Server \ {j} : matchIndex'[j][p] = 0
      BY <1>0, <2>3 DEF Elect, becomeLeader, TypeOK
    <3>4. ASSUME NEW k \in 1..Len(log[j]), log[j][k].term = t PROVE FALSE
      <4>1. PLog(j) = log[j] /\ Len(log[j]) \in Nat
        BY <1>0, <3>2, CurrentIsSaved, SavedType DEF PLog
      <4>2. Agree(log[j], termLog[t], k)
        BY <3>4, <4>1 DEF RootInv, Good
      <4>3. k <= Len(termLog[t]) /\ Len(termLog[t]) = 0
        BY <3>1, <4>2 DEF Agree
      <4> QED BY <4>1, <4>3
    <3>5. \A p \in Server \ {j} : matchIndex'[j][p] <= acked'[p][t]
      BY <1>2, <3>1, <3>3
    <3> QED BY <3>2, <3>4, <3>5
  <2>4. ASSUME NEW c \in Command, Start(j, c) PROVE Claims
    <3>1. /\ role[j] = Leader /\ currentTerm' = currentTerm /\ t \in Term
          /\ log'[j] = Append(log[j], [term |-> currentTerm[j], command |-> c])
          /\ Len(Append(log[j], [term |-> currentTerm[j], command |-> c])) = Len(log[j]) + 1
          /\ acked'[j][t] = Len(log[j]) + 1
      BY <2>4, StartGrows
    <3>2. \A k \in 1..Len(log'[j]) : k <= acked'[j][t]
      <4>1. Len(log'[j]) = acked'[j][t] /\ Len(log'[j]) \in Nat
        BY <1>2, <3>1
      <4> QED BY <4>1
    <3>3. \A r \in voteReps : ~Elect(j, r)
      BY <3>1, ElectFresh DEF Leader, Candidate
    <3> QED BY <2>1, <3>1, <3>2, <3>3
  <2>5. ~startElection(j)
    BY <1>0, <1>7 DEF startElection, TypeOK, Leader, Candidate
  <2>6. ASSUME NEW r \in voteReps PROVE ~Count(j, r)
    BY <1>7 DEF Count, InElection, Leader, Candidate
  <2> QED BY <1>7, <2>2, <2>3, <2>4, <2>5, <2>6, PeerStep DEF Leader, Follower
<1> QED BY <1>5, <1>6, <1>7 DEF AckInv

-----------------------------------------------------------------------------
(* An entry that may still be committed is in every later leader's log. *)

\* Entries of a term stay where they are, and no majority comes back.
LEMMA EntriesStay ==
    ASSUME TypeInv, ElectionInv, [Next]_vars, LeadInv, RootInv, AckInv,
           NEW s \in Term, NEW n \in Nat
    PROVE  /\ Own(s, n) => Own(s, n)' /\ Agree(termLog[s], termLog'[s], n)
           /\ Own(s, n)' /\ n <= Len(termLog[s]) => Own(s, n)
           /\ Dead(s, n) => Dead(s, n)'
           /\ \A p \in Server : Holds(p, s, n)' /\ persister'[p].term > s => Holds(p, s, n)
<1>0. TypeOK /\ TypeOK' /\ Forward /\ AckOnward
  BY BaseStep, ForwardStep, AckForward
<1>1. /\ termLog[s] \in Log /\ termLog'[s] \in Log /\ Len(termLog[s]) \in Nat
      /\ Len(termLog'[s]) \in Nat /\ s \in Nat
      /\ Agree(termLog[s], termLog'[s], Len(termLog[s]))
  BY <1>0, LenType, TermsAreNat DEF TypeOK, Forward, Grows
<1>2. Own(s, n) => Own(s, n)' /\ Agree(termLog[s], termLog'[s], n)
  BY <1>1, AgreeLess DEF Own, Agree
<1>3. Own(s, n)' /\ n <= Len(termLog[s]) => Own(s, n)
  BY <1>1 DEF Own, Agree
<1>4. Dead(s, n) => Dead(s, n)'
  <2> SUFFICES ASSUME NEW V \in SUBSET Server, Majority(V),
                      \A p \in V : persister[p].term > s /\ acked[p][s] < n
               PROVE  \A p \in V : persister'[p].term > s /\ acked'[p][s] < n
    BY DEF Dead
  <2>1. ASSUME NEW p \in V PROVE persister'[p].term > s /\ acked'[p][s] < n
    <3>1. /\ p \in Server /\ persister[p].term > s /\ acked[p][s] < n
          /\ persister[p].term \in Nat /\ persister[p].term <= persister'[p].term
      BY <1>0, SavedType DEF Forward
    <3>2. persister'[p].term \in Nat
      BY <1>0, <3>1, TermsAreNat DEF TypeOK, Saved
    <3> QED BY <1>0, <1>1, <3>1, <3>2 DEF AckOnward
  <2> QED BY <2>1
<1>5. ASSUME NEW p \in Server, Holds(p, s, n)', persister'[p].term > s PROVE Holds(p, s, n)
  <2>1. acked'[p][s] = acked[p][s] /\ acked[p][s] \in Nat
    BY <1>0, <1>5, AckType DEF AckOnward
  <2>2. n <= acked[p][s] /\ n > 0 /\ Own(s, n)'
    BY <1>1, <1>5, <2>1 DEF Holds, Own
  <2>3. n <= Len(termLog[s])
    BY <1>1, <2>1, <2>2 DEF AckInv
  <2> QED BY <1>3, <2>2, <2>3 DEF Holds
<1> QED BY <1>2, <1>3, <1>4, <1>5

\* A log that has entry n of term s ends at least as well, and so does the log of
\* whoever that log's owner votes for.
LEMMA BetterLog ==
    ASSUME NEW T \in [Term -> Log], NEW l \in Log, NEW t, Good(l, t, T),
           NEW s \in Term, NEW n \in 1..Len(l), l[n].term = s
    PROVE  /\ Better(lastLogTerm(l), Len(l), s, n)
           /\ \A m \in VoteReq : UpToDate(m, l) => Better(m.lastTerm, m.lastIndex, s, n)
<1>1. Len(l) \in Nat /\ n \in Nat /\ n <= Len(l) /\ Len(l) \in 1..Len(l) /\ s \in Nat
  BY LenType, TermsAreNat
<1>2. lastLogTerm(l) = l[Len(l)].term /\ lastLogTerm(l) \in Nat
  BY <1>1, EntryOf DEF lastLogTerm, TermAt
<1>3. s <= lastLogTerm(l)
  BY <1>1, <1>2 DEF Good
<1>4. \A m \in VoteReq : m.lastTerm \in Nat /\ m.lastIndex \in Nat
  BY DEF VoteReq
<1> QED BY <1>1, <1>2, <1>3, <1>4 DEF Better, UpToDate

\* A log that ends at least as well as entry n of term s has that entry.
LEMMA BetterHas ==
    ASSUME TypeOK, LeadInv, RootInv, SafeInv, NEW l \in Log, NEW t, Good(l, t, termLog),
           NEW s \in Term, NEW n \in Nat, Own(s, n), Better(lastLogTerm(l), Len(l), s, n)
    PROVE  Agree(termLog[s], l, n) \/ Dead(s, n)
<1> DEFINE u == lastLogTerm(l)
           z == Len(l)
<1>1. z \in Nat /\ s \in Nat /\ s > 0 /\ termLog[s] \in Log /\ n \in 1..Len(termLog[s])
      /\ Len(termLog[s]) \in Nat
  BY LenType, TermsAreNat DEF Own, Term, TypeOK
<1>2. z > 0
  BY <1>1 DEF Better, lastLogTerm, TermAt
<1>3. z \in 1..Len(l) /\ u = l[z].term /\ u \in Term /\ u \in Nat
  BY <1>1, <1>2, EntryOf DEF lastLogTerm, TermAt
<1>4. Agree(l, termLog[u], z) /\ termLog[u] \in Log
  BY <1>3 DEF Good, TypeOK
<1>5. CASE u = s
  <2>1. n <= z
    BY <1>1, <1>3, <1>5 DEF Better
  <2>2. Agree(l, termLog[s], n)
    BY <1>1, <1>4, <1>5, <2>1, AgreeLess
  <2> QED BY <2>2, AgreeSym
<1>6. CASE u > s
  <2>1. elected[u] # {}
    <3>1. termLog[u] # << >>
      BY <1>1, <1>2, <1>4 DEF Agree
    <3> QED BY <1>3, <3>1 DEF LeadInv
  <2>2. Agree(termLog[s], termLog[u], n) \/ Dead(s, n)
    BY <1>1, <1>3, <1>6, <2>1 DEF SafeInv, Inherited
  <2>3. ASSUME Agree(termLog[s], termLog[u], n) PROVE Agree(termLog[s], l, n)
    <3>1. ASSUME z < n PROVE FALSE
      <4>1. termLog[u][z] = termLog[s][z] /\ termLog[u][z] = l[z] /\ z \in 1..Len(termLog[s])
        BY <1>1, <1>2, <1>4, <2>3, <3>1 DEF Agree
      <4>2. termLog[s][z].term <= s
        BY <4>1 DEF RootInv, Good
      <4> QED BY <1>1, <1>3, <1>6, <4>1, <4>2
    <3>2. n <= z
      BY <1>1, <3>1
    <3>3. Agree(termLog[u], l, z)
      BY <1>4, AgreeSym
    <3> QED BY <1>1, <1>4, <2>3, <3>2, <3>3, AgreeTrans
  <2> QED BY <2>2, <2>3
<1> QED BY <1>1, <1>3, <1>5, <1>6 DEF Better

\* The election restriction at work: the log that wins term t has every entry of
\* an earlier term that could still be committed.
LEMMA ElectSafe ==
    ASSUME TypeInv, ElectionInv, [Next]_vars, LeadInv, RootInv, AckInv, SafeInv,
           NEW i \in Server, NEW r \in voteReps, Elect(i, r),
           NEW s \in Term, s < currentTerm[i], NEW n \in Nat, Own(s, n)
    PROVE  Agree(termLog[s], log[i], n) \/ Dead(s, n)
<1> DEFINE t == currentTerm[i]
           V == votes[i] \cup {r.req.to}
<1>0. TypeOK /\ role[i] = Candidate /\ t \in Term /\ s \in Nat /\ t \in Nat
  BY BaseStep, ElectFresh, TermsAreNat
<1>1. /\ up[i] /\ r.granted /\ r.req.from = i /\ r.req.term = t
      /\ r.req.to \in Server /\ r.req \in VoteReq /\ V \in SUBSET Server
  BY <1>0 DEF Elect, InElection, TypeOK, VoteRep, VoteReq
<1>2. Majority(V)
  BY <1>0 DEF Elect, TypeOK
<1>3. PLog(i) = log[i] /\ log[i] \in Log /\ Good(log[i], persister[i].term, termLog)
  BY <1>0, <1>1, CurrentIsSaved, SavedType DEF PLog, RootInv
<1>4. ASSUME NEW p \in V PROVE persister[p].term > s
  <2>1. Claim(p, t, i)
    BY <1>0, <1>1 DEF Claim
  <2>2. VoteIsSaved(p, t, i)
    BY <1>0, <1>1, <2>1 DEF ElectionInv, ClaimsSaved
  <2>3. persister[p].term \in Nat
    BY <1>0, <1>1, SavedType
  <2> QED BY <1>0, <2>2, <2>3 DEF VoteIsSaved
<1>5. CASE \A p \in V : acked[p][s] < n
  BY <1>1, <1>2, <1>4, <1>5 DEF Dead
<1>6. ASSUME NEW p \in V, ~(acked[p][s] < n) PROVE Agree(termLog[s], log[i], n) \/ Dead(s, n)
  <2>1. Holds(p, s, n)
    BY <1>0, <1>1, <1>6, AckType DEF Holds
  <2>2. Better(lastLogTerm(log[i]), Len(log[i]), s, n) \/ Dead(s, n)
    <3>1. CASE p \in votes[i]
      BY <1>0, <2>1, <3>1 DEF SafeInv, VotedBetter
    <3>2. CASE p = r.req.to
      <4>1. Better(r.req.lastTerm, r.req.lastIndex, s, n) \/ Dead(s, n)
        BY <1>1, <2>1, <3>2 DEF SafeInv, VotedBetter
      <4>2. Describes(r.req)
        BY DEF SafeInv, Described
      <4>3. r.req.lastIndex = Len(log[i]) /\ r.req.lastTerm = lastLogTerm(log[i])
        BY <1>0, <1>1, <4>2 DEF Describes
      <4> QED BY <4>1, <4>3
    <3> QED BY <3>1, <3>2
  <2> QED BY <1>0, <1>3, <2>2, BetterHas
<1> QED BY <1>5, <1>6

\* A peer's log stays, grows, or is changed by an AppendEntries it accepts.
LEMMA LogKinds ==
    ASSUME TypeInv, ElectionInv, [Next]_vars, LeadInv, RootInv, NEW p \in Server
    PROVE  \/ Agree(PLog(p), PLog(p)', Len(PLog(p)))
           \/ \E m \in appReqs : AppendEntriesAccept(m) /\ m.to = p
<1>0. TypeOK /\ PLog(p) \in Log /\ Len(PLog(p)) \in Nat
  BY BaseStep, SavedType
<1>1. ASSUME PLog(p)' = PLog(p) PROVE Agree(PLog(p), PLog(p)', Len(PLog(p)))
  BY <1>0, <1>1 DEF Agree
<1>2. CASE Quiet
  BY <1>1, <1>2 DEF Quiet
<1>3. ASSUME NEW i \in Server, NEW r \in voteReps, Elect(i, r) PROVE PLog(p)' = PLog(p)
  BY <1>3 DEF Elect, server, PLog
<1>4. ASSUME NEW i \in Server, NEW c \in Command, Start(i, c)
      PROVE  Agree(PLog(p), PLog(p)', Len(PLog(p)))
  <2> DEFINE a == Append(log[i], [term |-> currentTerm[i], command |-> c])
  <2>1. /\ Agree(log[i], a, Len(log[i])) /\ PLog(i) = log[i] /\ PLog(i)' = a
        /\ \A q \in Server \ {i} : persister'[q] = persister[q]
    BY <1>4, StartGrows
  <2> HIDE DEF a
  <2>2. CASE p = i
    BY <2>1, <2>2
  <2>3. CASE p # i
    BY <1>1, <2>1, <2>3 DEF PLog
  <2> QED BY <2>2, <2>3
<1>5. ASSUME NEW m \in appReqs, AppendEntriesAccept(m), m.to # p PROVE PLog(p)' = PLog(p)
  BY <1>5, AcceptFacts DEF PLog
<1> QED BY <1>1, <1>2, <1>3, <1>4, <1>5, StepKinds

LEMMA KeptStep ==
    ASSUME TypeInv, ElectionInv, [Next]_vars, LeadInv, RootInv, AckInv, SafeInv
    PROVE  Kept'
<1>0. TypeOK /\ TypeOK' /\ Forward /\ AckInv'
  BY BaseStep, ForwardStep, AckStep
<1> SUFFICES ASSUME NEW p \in Server, NEW s \in Term, NEW n \in Nat, Holds(p, s, n)'
             PROVE  Agree(PLog(p)', termLog'[s], n) \/ Dead(s, n)'
  BY DEF Kept
<1>1. /\ PLog(p) \in Log /\ PLog(p)' \in Log /\ termLog[s] \in Log /\ termLog'[s] \in Log
      /\ persister'[p].term \in Nat /\ s \in Nat /\ acked'[p][s] \in Nat
      /\ Len(PLog(p)) \in Nat /\ Len(termLog'[s]) \in Nat
  <2>1. persister[p] \in Saved /\ persister'[p] \in Saved
    BY <1>0 DEF TypeOK
  <2> QED BY <1>0, <2>1, LenType, TermsAreNat DEF Saved, TypeOK, PLog
<1>2. acked'[p][s] > 0 /\ n <= acked'[p][s]
  BY <1>1 DEF Holds, Own
<1>3. /\ persister'[p].term >= s
      /\ persister'[p].term = s => Agree(PLog(p)', termLog'[s], acked'[p][s])
  BY <1>0, <1>2 DEF AckInv
<1>4. CASE persister'[p].term = s
  BY <1>1, <1>2, <1>3, <1>4, AgreeLess
<1>5. CASE persister'[p].term > s
  <2>1. Holds(p, s, n)
    BY <1>5, EntriesStay
  <2>2. Own(s, n) /\ Agree(termLog[s], termLog'[s], n) /\ (Dead(s, n) => Dead(s, n)')
    BY <2>1, EntriesStay DEF Holds
  <2>3. Agree(PLog(p), termLog[s], n) \/ Dead(s, n)
    BY <2>1 DEF SafeInv, Kept
  <2>4. ASSUME Agree(PLog(p), termLog[s], n), Agree(PLog(p), PLog(p)', Len(PLog(p)))
        PROVE  Agree(PLog(p)', termLog'[s], n)
    <3>1. Agree(PLog(p)', PLog(p), Len(PLog(p))) /\ n <= Len(PLog(p))
      BY <2>4, AgreeSym DEF Agree
    <3>2. Agree(PLog(p)', termLog[s], n)
      BY <1>1, <2>4, <3>1, AgreeTrans
    <3> QED BY <1>1, <2>2, <3>2, AgreeTrans
  <2>5. ASSUME Agree(PLog(p), termLog[s], n),
               NEW m \in appReqs, AppendEntriesAccept(m), m.to = p
        PROVE  Agree(PLog(p)', termLog'[s], n) \/ Dead(s, n)
    <3> DEFINE L == termLog[m.term]
    <3>1. /\ m.term \in Term /\ L \in Log /\ PLog(p) = log[p] /\ PLog(p)' = log'[p]
          /\ persister'[p].term = m.term /\ termLog' = termLog
          /\ \A k \in Nat : Agree(log[p], L, k) => Agree(log'[p], L, k)
      BY <2>5, AcceptFacts
    <3>2. elected[m.term] # {}
      BY DEF LeadInv
    <3>3. Agree(termLog[s], L, n) \/ Dead(s, n)
      BY <1>5, <2>2, <3>1, <3>2 DEF SafeInv, Inherited
    <3>4. ASSUME Agree(termLog[s], L, n) PROVE Agree(PLog(p)', termLog'[s], n)
      <4>1. Agree(PLog(p), L, n)
        BY <1>1, <2>5, <3>1, <3>4, AgreeTrans
      <4>2. Agree(PLog(p)', L, n)
        BY <3>1, <4>1
      <4>3. Agree(L, termLog[s], n)
        BY <3>4, AgreeSym
      <4>4. Agree(PLog(p)', termLog[s], n)
        BY <1>1, <3>1, <4>2, <4>3, AgreeTrans
      <4> QED BY <3>1, <4>4
    <3> QED BY <3>3, <3>4
  <2> QED BY <2>2, <2>3, <2>4, <2>5, LogKinds
<1> QED BY <1>1, <1>3, <1>4, <1>5

LEMMA InheritedStep ==
    ASSUME TypeInv, ElectionInv, [Next]_vars, LeadInv, RootInv, AckInv, SafeInv
    PROVE  Inherited'
<1>0. TypeOK /\ TypeOK' /\ Forward /\ AckOnward
  BY BaseStep, ForwardStep, AckForward
<1> SUFFICES ASSUME NEW s \in Term, NEW u \in Term, NEW n \in Nat,
                    s < u, elected'[u] # {}, Own(s, n)'
             PROVE  Agree(termLog'[s], termLog'[u], n) \/ Dead(s, n)'
  BY DEF Inherited
<1>1. /\ termLog[s] \in Log /\ termLog'[s] \in Log /\ termLog[u] \in Log /\ termLog'[u] \in Log
      /\ s \in Nat /\ u \in Nat
      /\ termLog \in [Term -> Log] /\ termLog' \in [Term -> Log] /\ Grows(termLog, termLog')
  BY <1>0, TermsAreNat DEF TypeOK, Forward
\* The entry was there and the later term had its leader.
<1>2. ASSUME Own(s, n), elected[u] # {}
      PROVE  Agree(termLog'[s], termLog'[u], n) \/ Dead(s, n)'
  <2>1. Agree(termLog[s], termLog[u], n) \/ Dead(s, n)
    BY <1>2 DEF SafeInv, Inherited
  <2>2. Agree(termLog[s], termLog'[s], n) /\ (Dead(s, n) => Dead(s, n)')
    BY <1>2, EntriesStay
  <2>3. ASSUME Agree(termLog[s], termLog[u], n) PROVE Agree(termLog'[s], termLog'[u], n)
    <3>1. Agree(termLog[s], termLog'[u], n)
      BY <1>1, <2>3, AgreeGrows
    <3>2. Agree(termLog'[s], termLog[s], n)
      BY <2>2, AgreeSym
    <3> QED BY <1>1, <3>1, <3>2, AgreeTrans
  <2> QED BY <2>1, <2>2, <2>3
<1>3. ASSUME elected' = elected, termLog' = termLog
      PROVE  Own(s, n) /\ elected[u] # {}
  BY <1>3 DEF Own
<1>4. ASSUME NEW i \in Server, NEW r \in voteReps, Elect(i, r)
      PROVE  Agree(termLog'[s], termLog'[u], n) \/ Dead(s, n)'
  <2> DEFINE t == currentTerm[i]
  <2>1. /\ t \in Term /\ termLog[t] = << >>
        /\ \A v \in Term : termLog'[v] = IF v = t THEN log[i] ELSE termLog[v]
    BY <1>4, ElectFresh
  <2>7. \A v \in Term : v # t => elected'[v] = elected[v]
    <3>1. \A v \in Term : elected'[v] = elected[v] \cup
            (IF v = t THEN {[leader |-> i, voters |-> votes'[i]]} ELSE {})
      BY <1>4, ElectFresh
    <3> QED BY <3>1
  <2>2. up[i] /\ PLog(i) = log[i] /\ log[i] \in Log
    BY <1>0, <1>4, CurrentIsSaved, SavedType DEF Elect, PLog
  <2>3. s # t
    <3> SUFFICES ASSUME s = t PROVE FALSE
      OBVIOUS
    <3>1. n \in 1..Len(log[i]) /\ log[i][n].term = t
      BY <2>1 DEF Own
    <3>2. Agree(log[i], termLog[t], n)
      BY <2>2, <3>1 DEF RootInv, Good
    <3>3. Len(termLog[t]) = 0 /\ n <= Len(termLog[t]) /\ Len(log[i]) \in Nat
      BY <2>1, <2>2, <3>2, LenType DEF Agree
    <3> QED BY <3>1, <3>3
  <2>4. Own(s, n)
    BY <2>1, <2>3 DEF Own
  <2>5. CASE u # t
    BY <1>2, <2>7, <2>4, <2>5
  <2>6. CASE u = t
    <3>1. Agree(termLog[s], log[i], n) \/ Dead(s, n)
      BY <1>4, <2>4, <2>6, ElectSafe
    <3>2. Dead(s, n) => Dead(s, n)'
      BY EntriesStay
    <3> QED BY <2>1, <2>3, <2>6, <3>1, <3>2
  <2> QED BY <2>5, <2>6
<1>5. ASSUME NEW i \in Server, NEW c \in Command, Start(i, c)
      PROVE  Agree(termLog'[s], termLog'[u], n) \/ Dead(s, n)'
  <2> DEFINE a == Append(log[i], [term |-> currentTerm[i], command |-> c])
             t == currentTerm[i]
  <2>1. /\ t \in Term /\ Len(a) = Len(log[i]) + 1 /\ termLog[t] = log[i]
        /\ persister[i].term = t /\ elected' = elected
        /\ \A v \in Term : termLog'[v] = IF v = t THEN a ELSE termLog[v]
    BY <1>5, StartGrows
  <2> HIDE DEF a
  <2>2. CASE Own(s, n)
    BY <1>2, <2>1, <2>2
  <2>3. CASE ~Own(s, n)
    <3>0. Len(log[i]) \in Nat
      BY <1>0, SavedType
    <3>1. s = t
      BY <2>1, <2>3 DEF Own
    <3>2. n = Len(log[i]) + 1
      <4>1. ~(n <= Len(termLog[s]))
        BY <2>3, EntriesStay
      <4>2. n <= Len(a)
        BY <2>1, <3>1 DEF Own
      <4> QED BY <2>1, <3>0, <3>1, <4>1, <4>2
    <3>3. PICK e \in elected[u] : TRUE
      BY <2>1
    <3>4. e.leader \in Server /\ e.voters \in SUBSET Server /\ Majority(e.voters)
      BY <1>0, <3>3 DEF TypeOK, ElectionInv, WonByMajority
    <3>5. ASSUME NEW p \in e.voters PROVE persister[p].term > s /\ acked[p][s] < n
      <4>1. VoteIsSaved(p, u, e.leader)
        <5>1. Claim(p, u, e.leader)
          BY <3>3 DEF Claim
        <5> QED BY <3>4, <5>1 DEF ElectionInv, ClaimsSaved
      <4>2. persister[p].term \in Nat /\ acked[p][s] \in Nat
        BY <1>0, <3>4, SavedType, AckType
      <4>3. acked[p][s] <= Len(log[i])
        BY <2>1, <3>0, <3>1, <3>4, <4>2 DEF AckInv
      <4> QED BY <1>1, <3>0, <3>2, <4>1, <4>2, <4>3 DEF VoteIsSaved
    <3>6. Dead(s, n)
      BY <3>4, <3>5 DEF Dead
    <3> QED BY <3>6, EntriesStay
  <2> QED BY <2>2, <2>3
<1>6. ASSUME NEW m \in appReqs, AppendEntriesAccept(m) PROVE elected' = elected /\ termLog' = termLog
  BY <1>6 DEF AppendEntriesAccept, AppendAnswer
<1>7. Quiet => elected' = elected /\ termLog' = termLog
  BY DEF Quiet
<1> QED BY <1>2, <1>3, <1>4, <1>5, <1>6, <1>7, StepKinds

\* A request goes on describing its candidate, while that election lasts.
LEMMA DescribesStays ==
    ASSUME TypeInv, ElectionInv, [Next]_vars, LeadInv, NEW m \in VoteReq, Describes(m)
    PROVE  Describes(m)'
<1> DEFINE j == m.from
<1>1. /\ j \in Server /\ m.term \in Nat /\ currentTerm[j] \in Nat
      /\ persister[j].term \in Nat /\ persister'[j].term \in Nat
  BY BaseStep, SavedType, TermsAreNat DEF VoteReq, TypeOK, Saved
<1>2. m.term <= persister'[j].term
  <2>1. persister[j].term <= persister'[j].term /\ m.term <= persister[j].term
    BY <1>1, ForwardStep DEF Forward, Describes
  <2> QED BY <1>1, <2>1
<1>3. ASSUME role'[j] = Candidate, currentTerm'[j] = m.term
      PROVE  /\ role[j] = Candidate /\ currentTerm[j] = m.term /\ log'[j] = log[j]
  <2>1. CASE SamePeer(j)
    BY <1>3, <2>1 DEF SamePeer
  <2>2. CASE role'[j] = Follower
    BY <1>3, <2>2 DEF Follower, Candidate
  <2>3. CASE startElection(j)
    <3>1. currentTerm'[j] = currentTerm[j] + 1 /\ up[j]
      BY <1>1, <2>3, BaseStep DEF startElection, TypeOK
    <3>2. m.term <= currentTerm[j]
      BY <1>1, <3>1, CurrentIsSaved DEF Describes
    <3> QED BY <1>1, <1>3, <3>1, <3>2
  <2>4. ASSUME NEW r \in voteReps, Elect(j, r) PROVE FALSE
    <3>1. role'[j] = Leader
      BY <1>1, <2>4, ElectFresh
    <3> QED BY <1>3, <3>1 DEF Leader, Candidate
  <2>5. ASSUME NEW r \in voteReps, Count(j, r)
        PROVE  role' = role /\ currentTerm' = currentTerm /\ log' = log
    BY <2>5 DEF Count, server
  <2>6. ASSUME NEW c \in Command, Start(j, c) PROVE FALSE
    BY <1>3, <2>6 DEF Start, Leader, Candidate
  <2> QED BY <1>1, <1>3, <2>1, <2>2, <2>3, <2>4, <2>5, <2>6, PeerStep
<1> QED BY <1>2, <1>3 DEF Describes

LEMMA DescribedStep ==
    ASSUME TypeInv, ElectionInv, [Next]_vars, LeadInv, Described
    PROVE  Described'
<1>0. TypeOK /\ TypeOK'
  BY BaseStep
<1>1. \A m \in voteReqs : m \in VoteReq /\ Describes(m)'
  BY <1>0, DescribesStays DEF TypeOK, Described
<1>2. \A r \in voteReps : r.req \in VoteReq /\ Describes(r.req)'
  BY <1>0, DescribesStays DEF TypeOK, Described, VoteRep
<1>3. ASSUME NEW m \in voteReqs', NEW i \in Server, startElection(i),
             m.from = i, m.term = currentTerm[i] + 1, m.lastIndex = Len(log[i]),
             m.lastTerm = lastLogTerm(log[i])
      PROVE  Describes(m)'
  <2>1. log' = log /\ up[i] /\ persist(i) /\ currentTerm'[i] = currentTerm[i] + 1
    BY <1>0, <1>3 DEF startElection, TypeOK
  <2>2. persister'[i].term = currentTerm[i] + 1
    BY <1>0, <2>1 DEF persist, TypeOK
  <2> QED BY <1>0, <1>3, <2>1, <2>2, SavedType DEF Describes
<1>4. \A m \in voteReqs' : Describes(m)'
  BY <1>1, <1>3, CallStep
<1>5. \A r \in voteReps' : Describes(r.req)'
  BY <1>1, <1>2, CallStep
<1> QED BY <1>4, <1>5 DEF Described

\* A vote that is claimed in the next state binds its voter to a term beyond s, so
\* what the voter confirmed in s it had confirmed before.
LEMMA ClaimedHolds ==
    ASSUME TypeInv, ElectionInv, [Next]_vars, LeadInv, RootInv, AckInv,
           NEW p \in Server, NEW c \in Server, NEW t \in Term, Claim(p, t, c)',
           NEW s \in Term, s < t, NEW n \in Nat, Holds(p, s, n)'
    PROVE  Holds(p, s, n)
<1>1. VoteIsSaved(p, t, c)'
  BY BaseStep DEF ElectionInv, ClaimsSaved
<1>2. persister'[p].term \in Nat /\ t \in Nat /\ s \in Nat
  BY BaseStep, TermsAreNat DEF TypeOK, Saved
<1>3. persister'[p].term > s
  BY <1>1, <1>2 DEF VoteIsSaved
<1> QED BY <1>3, EntriesStay

\* A peer whose log has kept what it confirmed votes for better logs only.
LEMMA KeptIsBetter ==
    ASSUME TypeInv, ElectionInv, RootInv, SafeInv, NEW p \in Server, up[p],
           NEW s \in Term, NEW n \in Nat, Holds(p, s, n)
    PROVE  \/ Dead(s, n)
           \/ /\ Better(lastLogTerm(log[p]), Len(log[p]), s, n)
              /\ \A m \in VoteReq : UpToDate(m, log[p]) => Better(m.lastTerm, m.lastIndex, s, n)
<1>0. TypeOK
  BY DEF TypeInv, TypeCore
<1>1. PLog(p) = log[p] /\ log[p] \in Log /\ Len(log[p]) \in Nat
  BY <1>0, CurrentIsSaved, SavedType DEF PLog
<1>2. termLog \in [Term -> Log] /\ Good(log[p], persister[p].term, termLog)
  BY <1>0, <1>1 DEF TypeOK, RootInv
<1>3. CASE Agree(log[p], termLog[s], n)
  <2>1. n \in 1..Len(log[p]) /\ log[p][n] = termLog[s][n] /\ termLog[s][n].term = s
    BY <1>1, <1>3 DEF Agree, Holds, Own
  <2> QED BY <1>1, <1>2, <2>1, BetterLog
<1> QED BY <1>1, <1>3 DEF SafeInv, Kept

LEMMA VotedBetterStep ==
    ASSUME TypeInv, ElectionInv, [Next]_vars, LeadInv, RootInv, AckInv, SafeInv
    PROVE  VotedBetter'
<1>0. TypeOK /\ TypeOK' /\ RunningRoles'
  BY BaseStep
<1>1. ASSUME NEW r \in voteReps', NEW s \in Term, NEW n \in Nat, r.granted,
             s < r.req.term, Holds(r.req.to, s, n)'
      PROVE  Better(r.req.lastTerm, r.req.lastIndex, s, n) \/ Dead(s, n)'
  <2>1. r.req \in VoteReq /\ r.req.to \in Server /\ r.req.from \in Server /\ r.req.term \in Term
    BY <1>0 DEF TypeOK, VoteRep, VoteReq
  <2>2. Holds(r.req.to, s, n)
    <3>1. Claim(r.req.to, r.req.term, r.req.from)'
      BY <1>1 DEF Claim
    <3> QED BY <1>1, <2>1, <3>1, ClaimedHolds
  <2>3. Dead(s, n) => Dead(s, n)'
    BY EntriesStay
  <2>4. CASE r \in voteReps
    BY <1>1, <2>2, <2>3, <2>4 DEF SafeInv, VotedBetter
  <2>5. ASSUME NEW m \in voteReqs, RequestVote(m), r.req = m, UpToDate(m, log[m.to])
        PROVE  Better(r.req.lastTerm, r.req.lastIndex, s, n) \/ Dead(s, n)'
    <3>1. up[m.to]
      BY <2>5 DEF RequestVote
    <3> QED BY <2>1, <2>2, <2>3, <2>5, <3>1, KeptIsBetter
  <2> QED BY <1>1, <2>4, <2>5, CallStep
<1>2. ASSUME NEW i \in Server, NEW s \in Term, NEW n \in Nat, NEW p \in votes'[i],
             role'[i] = Candidate, s < currentTerm'[i], Holds(p, s, n)'
      PROVE  Better(lastLogTerm(log'[i]), Len(log'[i]), s, n) \/ Dead(s, n)'
  <2>1. p \in Server /\ currentTerm'[i] \in Term
    BY <1>0, <1>2 DEF TypeOK, RunningRoles, Candidate, Follower
  <2>2. Holds(p, s, n)
    <3>1. PICK t \in Term : t = currentTerm'[i]
      BY <2>1
    <3>2. Claim(p, t, i)'
      BY <1>2, <3>1 DEF Claim
    <3> QED BY <1>2, <2>1, <3>1, <3>2, ClaimedHolds
  <2>3. Dead(s, n) => Dead(s, n)'
    BY EntriesStay
  <2>4. CASE SamePeer(i)
    BY <1>2, <2>1, <2>2, <2>3, <2>4 DEF SamePeer, SafeInv, VotedBetter
  <2>5. CASE role'[i] = Follower
    BY <1>2, <2>5 DEF Follower, Candidate
  <2>6. CASE startElection(i)
    <3>1. p = i /\ up[i] /\ log' = log
      BY <1>0, <1>2, <2>6 DEF startElection, TypeOK
    <3> QED BY <2>2, <2>3, <3>1, KeptIsBetter
  <2>7. ASSUME NEW r \in voteReps, Elect(i, r) PROVE FALSE
    <3>1. role'[i] = Leader
      BY <2>7, ElectFresh
    <3> QED BY <1>2, <3>1 DEF Leader, Candidate
  <2>8. ASSUME NEW r \in voteReps, Count(i, r)
        PROVE  Better(lastLogTerm(log'[i]), Len(log'[i]), s, n) \/ Dead(s, n)'
    <3>1. /\ role[i] = Candidate /\ currentTerm[i] = r.req.term /\ r.granted /\ r.req.from = i
          /\ log' = log /\ currentTerm' = currentTerm /\ votes'[i] = votes[i] \cup {r.req.to}
      BY <1>0, <2>8 DEF Count, InElection, server, TypeOK
    <3>2. CASE p \in votes[i]
      BY <1>2, <2>2, <2>3, <3>1, <3>2 DEF SafeInv, VotedBetter
    <3>3. CASE p = r.req.to
      <4>1. Better(r.req.lastTerm, r.req.lastIndex, s, n) \/ Dead(s, n)
        BY <1>2, <2>2, <3>1, <3>3 DEF SafeInv, VotedBetter
      <4>2. r.req.lastIndex = Len(log[i]) /\ r.req.lastTerm = lastLogTerm(log[i])
        BY <3>1 DEF SafeInv, Described, Describes
      <4> QED BY <2>3, <3>1, <4>1, <4>2
    <3> QED BY <1>2, <3>1, <3>2, <3>3
  <2>9. ASSUME NEW c \in Command, Start(i, c) PROVE FALSE
    BY <1>2, <2>9 DEF Start, Leader, Candidate
  <2> QED BY <2>4, <2>5, <2>6, <2>7, <2>8, <2>9, PeerStep
<1> QED BY <1>1, <1>2 DEF VotedBetter

LEMMA SafeStep ==
    ASSUME TypeInv, ElectionInv, [Next]_vars, LeadInv, RootInv, AckInv, SafeInv
    PROVE  SafeInv'
<1>1. Described
  BY DEF SafeInv
<1> QED BY <1>1, KeptStep, InheritedStep, DescribedStep, VotedBetterStep DEF SafeInv

-----------------------------------------------------------------------------
(* What is committed. *)

LEMMA MajorityGrows ==
    ASSUME NEW A \in SUBSET Server, NEW B \in SUBSET Server, A \subseteq B, Majority(A)
    PROVE  Majority(B)
<1>1. Cardinality(Server) \in Nat /\ Cardinality(A) \in Nat /\ Cardinality(B) \in Nat
      /\ Cardinality(A) <= Cardinality(B)
  BY ServerAssumption, FS_CardinalityType, FS_Subset
<1> QED BY <1>1 DEF Majority

LEMMA CommittedStays ==
    ASSUME TypeInv, ElectionInv, [Next]_vars, LeadInv, RootInv, AckInv,
           NEW s \in Term, NEW n \in Nat, Committed(s, n)
    PROVE  Committed(s, n)'
<1>0. TypeOK /\ TypeOK'
  BY BaseStep
<1>1. Own(s, n)'
  BY EntriesStay DEF Committed
<1>2. \A p \in Server : acked[p][s] >= n => acked'[p][s] >= n
  <2> SUFFICES ASSUME NEW p \in Server, acked[p][s] >= n PROVE acked'[p][s] >= n
    OBVIOUS
  <2>1. acked[p][s] \in Nat /\ acked'[p][s] \in Nat
    BY <1>0 DEF TypeOK
  <2>2. acked[p][s] <= acked'[p][s]
    BY AckForward DEF AckOnward
  <2> QED BY <2>1, <2>2
<1>3. Majority({p \in Server : acked'[p][s] >= n})
  BY <1>2, MajorityGrows DEF Committed
<1> QED BY <1>1, <1>3 DEF Committed

\* The majority that confirmed an entry meets every other.
LEMMA CommittedAlive ==
    ASSUME TypeOK, NEW s \in Term, NEW n \in Nat, Committed(s, n)
    PROVE  ~Dead(s, n)
<1> SUFFICES ASSUME NEW V \in SUBSET Server, Majority(V),
                    \A p \in V : acked[p][s] < n
             PROVE  FALSE
  BY DEF Dead
<1>1. PICK p \in Server : p \in V /\ p \in {q \in Server : acked[q][s] >= n}
  BY MajoritiesMeet DEF Committed
<1>2. acked[p][s] \in Nat
  BY AckType
<1> QED BY <1>1, <1>2

\* The log of a later term that has one begins with what is committed.
LEMMA CommittedLater ==
    ASSUME TypeOK, SafeInv, NEW s \in Term, NEW n \in Nat, Committed(s, n),
           NEW u \in Term, s <= u, elected[u] # {}
    PROVE  Agree(termLog[s], termLog[u], n)
<1>1. s \in Nat /\ u \in Nat /\ Len(termLog[s]) \in Nat /\ Own(s, n)
  BY AckType, TermsAreNat, LenType DEF Committed, TypeOK
<1>2. CASE s = u
  BY <1>1, <1>2 DEF Own, Agree
<1>3. CASE s < u
  BY <1>1, <1>3, CommittedAlive DEF SafeInv, Inherited
<1> QED BY <1>1, <1>2, <1>3

\* Two committed entries are in one log, that of the later of their terms.
LEMMA CommittedAgree ==
    ASSUME TypeOK, LeadInv, SafeInv, NEW s \in Term, NEW n \in Nat, Committed(s, n),
           NEW u \in Term, NEW k \in Nat, Committed(u, k), s <= u
    PROVE  Agree(termLog[s], termLog[u], n)
<1>1. elected[u] # {}
  <2>1. k \in 1..Len(termLog[u])
    BY DEF Committed, Own
  <2>2. termLog[u] = << >> => Len(termLog[u]) = 0
    BY EmptySeq
  <2> QED BY <2>1, <2>2 DEF LeadInv
<1> QED BY <1>1, CommittedLater

\* Told, of the state after the step.
ToldNext(l, n, t) ==
    n > 0 => \E s \in Term, k \in Nat :
                 s <= t /\ n <= k /\ Committed(s, k)' /\ Agree(l, termLog'[s], n)

LEMMA ToldStays ==
    ASSUME TypeInv, ElectionInv, [Next]_vars, LeadInv, RootInv, AckInv,
           NEW l \in Log, NEW n \in Nat, NEW t \in Nat, Told(l, n, t),
           NEW l2 \in Log, Agree(l, l2, n), NEW u \in Nat, t <= u
    PROVE  ToldNext(l2, n, u)
<1> SUFFICES ASSUME n > 0 PROVE ToldNext(l2, n, u)
  BY DEF ToldNext
<1>0. TypeOK /\ TypeOK' /\ Forward
  BY BaseStep, ForwardStep
<1>1. PICK s \in Term, k \in Nat :
        s <= t /\ n <= k /\ Committed(s, k) /\ Agree(l, termLog[s], n)
  BY DEF Told
<1>2. /\ termLog \in [Term -> Log] /\ termLog' \in [Term -> Log] /\ Grows(termLog, termLog')
      /\ s \in Nat
  BY <1>0, TermsAreNat DEF TypeOK, Forward
<1>3. Agree(l, termLog'[s], n)
  BY <1>1, <1>2, AgreeGrows
<1>4. Agree(l2, termLog'[s], n)
  <2>1. Agree(l2, l, n) /\ termLog'[s] \in Log
    BY <1>2, AgreeSym
  <2> QED BY <1>3, <2>1, AgreeTrans
<1>5. Committed(s, k)'
  BY <1>1, CommittedStays
<1>6. s <= u
  BY <1>1, <1>2
<1> QED BY <1>1, <1>4, <1>5, <1>6 DEF ToldNext

\* The step tells j nothing about what is committed, and takes nothing from its log.
Calm(j) ==
    /\ up'[j] = up[j] /\ currentTerm[j] <= currentTerm'[j]
    /\ log'[j] = log[j] \/ \E c \in Command : Start(j, c)
    /\ commitIndex'[j] = commitIndex[j] /\ lastApplied'[j] = lastApplied[j]
    /\ applied'[j] = applied[j]

LEMMA TellStep ==
    ASSUME TypeInv, [Next]_vars, applied \in [Server -> Log], NEW j \in Server
    PROVE  \/ Calm(j)
           \/ Crash(j) \/ Make(j) \/ applier(j)
           \/ \E m \in appReqs : AppendEntriesAccept(m) /\ m.to = j
           \/ \E r \in appReps : AppendReplySuccess(r) /\ r.req.from = j
<1>t. TypeOK /\ currentTerm[j] \in Nat
  BY SavedType DEF TypeInv, TypeCore
<1>0. ASSUME UNCHANGED <<up, currentTerm, log, commitIndex, lastApplied, applied>>
      PROVE  Calm(j)
  BY <1>0, <1>t DEF Calm
\* Only the term of one peer moves, and it moves up.
<1>1. ASSUME NEW i \in Server, NEW t \in Nat, t >= currentTerm[i],
             currentTerm' = [currentTerm EXCEPT ![i] = t],
             UNCHANGED <<up, log, commitIndex, lastApplied, applied>>
      PROVE  Calm(j)
  <2>1. currentTerm'[j] = IF j = i THEN t ELSE currentTerm[j]
    BY <1>1, <1>t DEF TypeOK
  <2> QED BY <1>1, <1>t, <2>1 DEF Calm
<1>2. ASSUME NEW i \in Server, startElection(i) PROVE Calm(j)
  <2>1. currentTerm[i] \in Nat
    BY <1>t, SavedType
  <2>2. currentTerm[i] + 1 \in Nat /\ currentTerm[i] + 1 >= currentTerm[i]
    BY <2>1
  <2> QED BY <1>1, <1>2, <2>2 DEF startElection
<1>3. ASSUME NEW m \in voteReqs, RequestVote(m) PROVE Calm(j)
  <2>1. m.to \in Server /\ m.term \in Nat /\ currentTerm[m.to] \in Nat
    BY <1>t, TermsAreNat, SavedType DEF TypeOK, VoteReq
  <2>2. Max2(currentTerm[m.to], m.term) \in Nat /\ Max2(currentTerm[m.to], m.term) >= currentTerm[m.to]
    BY <2>1 DEF Max2
  <2>3. currentTerm' = [currentTerm EXCEPT ![m.to] = Max2(currentTerm[m.to], m.term)]
    BY <1>3 DEF RequestVote
  <2>4. UNCHANGED <<up, log, commitIndex, lastApplied, applied>>
    BY <1>3 DEF RequestVote
  <2> QED BY <1>1, <2>1, <2>2, <2>3, <2>4
<1>4. ASSUME NEW r \in voteReps, VoteReply(r) PROVE Calm(j)
  <2> DEFINE i == r.req.from
  <2>0. i \in Server /\ r.term \in Nat /\ currentTerm[i] \in Nat
    BY <1>t, TermsAreNat, SavedType DEF TypeOK, VoteRep, VoteReq
  <2>1. UNCHANGED <<up, commitIndex, lastApplied, applied>>
    BY <1>4 DEF VoteReply
  <2>2. \/ UNCHANGED server
        \/ r.term > currentTerm[i] /\ becomeFollower(i, r.term)
    BY <1>4 DEF VoteReply
  <2>3. CASE UNCHANGED server
    BY <1>0, <2>1, <2>3 DEF server
  <2>4. CASE r.term > currentTerm[i] /\ becomeFollower(i, r.term)
    <3>1. currentTerm' = [currentTerm EXCEPT ![i] = r.term] /\ log' = log /\ r.term >= currentTerm[i]
      BY <2>0, <2>4 DEF becomeFollower
    <3> QED BY <1>1, <2>0, <2>1, <3>1
  <2> QED BY <2>2, <2>3, <2>4
<1>5. ASSUME NEW i \in Server, NEW c \in Command, Start(i, c) PROVE Calm(j)
  <2>1. UNCHANGED <<up, currentTerm, commitIndex, lastApplied, applied>>
    BY <1>5 DEF Start
  <2>2. log'[j] = log[j] \/ i = j
    BY <1>5, <1>t DEF Start, TypeOK
  <2> QED BY <1>5, <1>t, <2>1, <2>2 DEF Calm
<1>6. ASSUME NEW m \in appReqs, AppendEntriesReject(m) PROVE Calm(j)
  <2>1. m.to \in Server /\ m.term \in Nat
    BY <1>t, TermsAreNat DEF TypeOK, AppReq
  <2> QED BY <1>1, <1>6, <2>1 DEF AppendEntriesReject, AppendAnswer, AcceptTerm
<1>7. ASSUME NEW m \in appReqs, AppendEntriesAccept(m), m.to # j PROVE Calm(j)
  <2>1. m.to \in Server
    BY <1>t DEF TypeOK, AppReq
  <2>2. currentTerm'[j] = currentTerm[j] /\ log'[j] = log[j] /\ commitIndex'[j] = commitIndex[j]
    BY <1>7, <1>t, <2>1 DEF AppendEntriesAccept, AcceptTerm, TypeOK
  <2> QED BY <1>7, <1>t, <2>2 DEF AppendEntriesAccept, AppendAnswer, Calm
<1>8. ASSUME NEW r \in appReps, AppendReplyNewerTerm(r) PROVE Calm(j)
  <2>1. r.req.from \in Server /\ r.term \in Nat /\ currentTerm[r.req.from] \in Nat
    BY <1>t, TermsAreNat, SavedType DEF TypeOK, AppReq, AppRep
  <2>2. /\ currentTerm' = [currentTerm EXCEPT ![r.req.from] = r.term]
        /\ r.term >= currentTerm[r.req.from]
        /\ UNCHANGED <<up, log, commitIndex, lastApplied, applied>>
    BY <1>8, <2>1 DEF AppendReplyNewerTerm, becomeFollower
  <2> QED BY <1>1, <2>1, <2>2
<1>9. ASSUME NEW r \in appReps, AppendReplySuccess(r), r.req.from # j PROVE Calm(j)
  <2>1. commitIndex'[j] = commitIndex[j]
    BY <1>9, <1>t DEF AppendReplySuccess, TypeOK
  <2>2. UNCHANGED <<up, currentTerm, log, lastApplied, applied>>
    BY <1>9 DEF AppendReplySuccess, server
  <2> QED BY <1>t, <2>1, <2>2 DEF Calm
<1>a. ASSUME NEW i \in Server, i # j, applier(i) \/ Crash(i) \/ Make(i) PROVE Calm(j)
  BY <1>a, <1>t DEF applier, Crash, Make, server, TypeOK, Calm
<1>b. ASSUME NEW i, NEW k, replicateTo(i, k) PROVE Calm(j)
  BY <1>0, <1>b DEF replicateTo, server
<1>c. ASSUME NEW m, AppendEntriesStale(m) \/ AppendReplyIgnored(m) \/ AppendReplyBackup(m)
      PROVE  Calm(j)
  BY <1>0, <1>c DEF AppendEntriesStale, AppendAnswer, AppendReplyIgnored, AppendReplyBackup,
                    server
<1>d. CASE Lose \/ UNCHANGED vars
  BY <1>0, <1>d DEF Lose, vars, server
<1> QED BY <1>2, <1>3, <1>4, <1>5, <1>6, <1>7, <1>8, <1>9, <1>a, <1>b, <1>c, <1>d DEF Next

LEMMA ChosenKinds ==
    ASSUME [Next]_vars
    PROVE  \/ UNCHANGED <<chosen, chosenTerm>>
           \/ \E r \in appReps : AppendReplySuccess(r)
<1> USE DEF history
<1>1. ASSUME NEW i, \/ startElection(i) \/ applier(i) \/ Crash(i) \/ Make(i)
                    \/ \E c \in Command : Start(i, c)
                    \/ \E j \in Server : replicateTo(i, j)
      PROVE  UNCHANGED <<chosen, chosenTerm>>
  BY <1>1 DEF startElection, applier, Crash, Make, Start, replicateTo
<1>2. ASSUME NEW m, \/ RequestVote(m) \/ VoteReply(m) \/ AppendEntriesStale(m)
                    \/ AppendEntriesReject(m) \/ AppendEntriesAccept(m)
      PROVE  UNCHANGED <<chosen, chosenTerm>>
  BY <1>2 DEF RequestVote, VoteReply, AppendEntriesStale, AppendEntriesReject,
              AppendEntriesAccept, AppendAnswer
<1>3. ASSUME NEW r, AppendReplyNewerTerm(r) \/ AppendReplyIgnored(r) \/ AppendReplyBackup(r)
      PROVE  UNCHANGED <<chosen, chosenTerm>>
  BY <1>3 DEF AppendReplyNewerTerm, AppendReplyIgnored, AppendReplyBackup
<1>4. CASE Lose \/ UNCHANGED vars
  BY <1>4 DEF Lose, vars
<1> QED BY <1>1, <1>2, <1>3, <1>4 DEF Next

\* advanceCommitIndex commits entries of the leader's term that a majority confirmed.
LEMMA AdvanceFacts ==
    ASSUME TypeInv, ElectionInv, [Next]_vars, LeadInv, RootInv, AckInv,
           NEW r \in appReps, AppendReplySuccess(r)
    PROVE  LET i   == r.req.from
               new == commitIndex'[i]
           IN  /\ i \in Server /\ up[i] /\ role[i] = Leader /\ currentTerm[i] \in Term
               /\ termLog[currentTerm[i]] = log[i] /\ log[i] \in Log
               /\ new \in Nat /\ commitIndex[i] \in Nat
               /\ \/ new = commitIndex[i]
                  \/ /\ new \in commitIndex[i] + 1 .. Len(log[i])
                     /\ Committed(currentTerm[i], new)
               /\ chosen' = IF new > commitIndex[i] /\ new > Len(chosen)
                            THEN Prefix(log[i], new) ELSE chosen
               /\ chosenTerm' = IF new > commitIndex[i] /\ new > Len(chosen)
                                THEN currentTerm[i] ELSE chosenTerm
               /\ UNCHANGED <<up, log, currentTerm, role, termLog, acked, lastApplied,
                              applied>>
<1> DEFINE i == r.req.from
           new == commitIndex'[i]
           t == currentTerm[i]
<1>0. TypeOK /\ TypeOK' /\ RunningRoles /\ AckInv'
  BY BaseStep, AckStep
<1>1. i \in Server /\ up[i] /\ role[i] = Leader
  BY <1>0 DEF AppendReplySuccess, InCharge, TypeOK, AppRep, AppReq
<1>2. /\ t \in Term /\ termLog[t] = log[i] /\ log[i] \in Log /\ Len(log[i]) \in Nat
      /\ new \in Nat /\ commitIndex[i] \in Nat
  BY <1>0, <1>1, SavedType DEF RunningRoles, LeadInv, TypeOK, Leader, Follower
<1>3. new = advanceCommitIndex(i, matchIndex'[i])
  BY <1>0, <1>1 DEF AppendReplySuccess, TypeOK
<1>4. UNCHANGED <<up, log, currentTerm, role, termLog, acked, lastApplied, applied>>
  BY DEF AppendReplySuccess, server
<1>5. /\ chosen' = IF new > commitIndex[i] /\ new > Len(chosen)
                   THEN Prefix(log[i], new) ELSE chosen
      /\ chosenTerm' = IF new > commitIndex[i] /\ new > Len(chosen)
                       THEN currentTerm[i] ELSE chosenTerm
  BY <1>3 DEF AppendReplySuccess
<1>6. ASSUME new # commitIndex[i]
      PROVE  new \in commitIndex[i] + 1 .. Len(log[i]) /\ Committed(t, new)
  <2>1. /\ new \in commitIndex[i] + 1 .. Len(log[i])
        /\ log[i][new].term = t
        /\ Majority({i} \cup {p \in Server : matchIndex'[i][p] >= new})
    <3>1. PICK match : match = matchIndex'[i]
      OBVIOUS
    <3>2. new = advanceCommitIndex(i, match)
      BY <1>3, <3>1
    <3> HIDE DEF new
    <3>3. /\ new \in commitIndex[i] + 1 .. Len(log[i])
          /\ log[i][new].term = t
          /\ Majority({i} \cup {p \in Server : match[p] >= new})
      BY <1>0, <1>1, <1>6, <3>2, AdvanceType
    <3> QED BY <3>1, <3>3
  <2> HIDE DEF new
  <2>2. Own(t, new)
    BY <1>2, <2>1 DEF Own
  <2>3. ASSUME NEW p \in {i} \cup {q \in Server : matchIndex'[i][q] >= new}
        PROVE  p \in Server /\ acked[p][t] >= new
    <3>0. p \in Server
      BY <1>1
    <3>1. acked[p][t] \in Nat /\ matchIndex'[i][p] \in Nat
      <4>1. acked[p][t] \in Nat
        BY <1>0, <1>2, <3>0, AckType
      <4>2. matchIndex' \in [Server -> [Server -> Nat]]
        BY <1>0 DEF TypeOK
      <4> QED BY <1>1, <3>0, <4>1, <4>2
    <3>2. CASE p = i
      <4>1. new \in 1..Len(log[i])
        BY <1>2, <2>1
      <4> QED BY <1>1, <1>2, <2>1, <3>1, <3>2, <4>1 DEF AckInv
    <3>3. CASE p # i
      <4>1. matchIndex'[i][p] <= acked'[p][t] /\ acked' = acked
        BY <1>0, <1>1, <1>4, <3>0, <3>3 DEF AckInv
      <4> QED BY <1>2, <2>3, <3>1, <3>3, <4>1
    <3> QED BY <3>0, <3>2, <3>3
  <2>4. Majority({p \in Server : acked[p][t] >= new})
    BY <1>1, <2>1, <2>3, MajorityGrows
  <2> QED BY <2>1, <2>2, <2>4 DEF Committed
<1> QED BY <1>1, <1>2, <1>4, <1>5, <1>6

\* The committed log only grows, and it stays committed.
LEMMA ChosenStep ==
    ASSUME TypeInv, ElectionInv, [Next]_vars, LeadInv, RootInv, AckInv, SafeInv, CommitInv
    PROVE  /\ Agree(chosen, chosen', Len(chosen))
           /\ Len(chosen') > 0 =>
                 /\ chosenTerm' \in Term /\ Committed(chosenTerm, Len(chosen))'
                 /\ Agree(chosen', termLog'[chosenTerm'], Len(chosen'))
<1>0. TypeOK /\ TypeOK' /\ Forward
  BY BaseStep, ForwardStep
<1>1. /\ chosen \in Log /\ chosen' \in Log /\ Len(chosen) \in Nat /\ Len(chosen') \in Nat
      /\ termLog \in [Term -> Log] /\ termLog' \in [Term -> Log] /\ Grows(termLog, termLog')
  BY <1>0, LenType DEF TypeOK, Forward
<1>2. Agree(chosen, chosen, Len(chosen))
  BY <1>1 DEF Agree
<1>3. CASE UNCHANGED <<chosen, chosenTerm>>
  <2> SUFFICES ASSUME Len(chosen) > 0
               PROVE  /\ chosenTerm \in Term /\ Committed(chosenTerm, Len(chosen))'
                      /\ Agree(chosen, termLog'[chosenTerm], Len(chosen))
    BY <1>2, <1>3
  <2>1. chosenTerm \in Term /\ Committed(chosenTerm, Len(chosen))
        /\ Agree(chosen, termLog[chosenTerm], Len(chosen))
    BY DEF CommitInv
  <2>2. Agree(chosen, termLog'[chosenTerm], Len(chosen))
    BY <1>1, <2>1, AgreeGrows
  <2>3. PICK s \in Term, n \in Nat : s = chosenTerm /\ n = Len(chosen)
    BY <1>1, <2>1
  <2>4. Committed(s, n)'
    BY <2>1, <2>3, CommittedStays
  <2>5. s = chosenTerm' /\ n = Len(chosen')
    BY <1>3, <2>3
  <2> QED BY <2>1, <2>2, <2>4, <2>5 DEF Committed, Own
<1>4. ASSUME NEW r \in appReps, AppendReplySuccess(r), ~UNCHANGED <<chosen, chosenTerm>>
      PROVE  /\ Agree(chosen, chosen', Len(chosen))
             /\ chosenTerm' \in Term /\ Committed(chosenTerm, Len(chosen))'
             /\ Agree(chosen', termLog'[chosenTerm'], Len(chosen'))
  <2> DEFINE i == r.req.from
             t == currentTerm[i]
  <2>1. PICK new \in Nat : new = commitIndex'[i]
    BY <1>4, AdvanceFacts
  <2>2. /\ t \in Term /\ log[i] \in Log /\ termLog[t] = log[i] /\ commitIndex[i] \in Nat
        /\ termLog' = termLog
        /\ new = commitIndex[i] \/ (new \in commitIndex[i] + 1 .. Len(log[i]) /\ Committed(t, new))
    BY <1>4, <2>1, AdvanceFacts
  <2>3. /\ chosen' = Prefix(log[i], new) /\ chosenTerm' = t
        /\ new > commitIndex[i] /\ new > Len(chosen)
    BY <1>4, <2>1, AdvanceFacts
  <2>4. Committed(t, new) /\ new \in 1..Len(log[i]) /\ Len(log[i]) \in Nat
    BY <2>2, <2>3, LenType
  <2>5. Len(chosen') = new /\ \A k \in 1..new : chosen'[k] = log[i][k]
    BY <2>2, <2>3, <2>4 DEF Prefix, Log
  <2>6. Agree(chosen', log[i], new)
    BY <2>4, <2>5 DEF Agree
  <2>7. ASSUME Len(chosen) > 0 PROVE Agree(chosen, log[i], Len(chosen))
    <3> DEFINE s == chosenTerm
               n == Len(chosen)
    <3>1. s \in Term /\ Committed(s, n) /\ Agree(chosen, termLog[s], n)
      BY <2>7 DEF CommitInv
    <3>2. s \in Nat /\ t \in Nat /\ termLog[s] \in Log
      BY <1>1, <2>2, <3>1, TermsAreNat
    <3>3. CASE s <= t
      <4>1. Agree(termLog[s], log[i], n)
        BY <1>0, <1>1, <2>2, <2>4, <3>1, <3>3, CommittedAgree
      <4> QED BY <1>1, <2>2, <3>1, <3>2, <4>1, AgreeTrans
    <3>4. CASE t <= s
      <4>1. Agree(log[i], termLog[s], new)
        BY <1>0, <1>1, <2>2, <2>4, <3>1, <3>4, CommittedAgree
      <4>2. Agree(termLog[s], log[i], new)
        BY <4>1, AgreeSym
      <4> QED BY <1>1, <2>2, <2>3, <3>1, <3>2, <4>2, AgreeTrans
    <3> QED BY <3>2, <3>3, <3>4
  <2>8. Agree(chosen, chosen', Len(chosen))
    <3>1. CASE Len(chosen) = 0
      BY <1>1, <3>1 DEF Agree
    <3>2. CASE Len(chosen) > 0
      <4>1. Agree(log[i], chosen', new)
        BY <2>6, AgreeSym
      <4> QED BY <1>1, <2>2, <2>3, <2>7, <3>2, <4>1, AgreeTrans
    <3> QED BY <1>1, <3>1, <3>2
  <2>9. PICK u \in Term : u = t
    BY <2>2
  <2>10. Committed(u, new)'
    BY <2>4, <2>9, CommittedStays
  <2>11. u = chosenTerm' /\ new = Len(chosen')
    BY <2>3, <2>5, <2>9
  <2> QED BY <2>2, <2>3, <2>5, <2>6, <2>8, <2>10, <2>11 DEF Committed, Own
<1> QED BY <1>3, <1>4, ChosenKinds

\* What the step leaves peer j with, and that it takes nothing committed from it.
StaysInformed(j) ==
    /\ commitIndex'[j] <= Len(log'[j]) /\ commitIndex'[j] <= Len(chosen')
    /\ ToldNext(log'[j], commitIndex'[j], currentTerm'[j])
    /\ lastApplied'[j] <= commitIndex'[j]
    /\ applied'[j] = Prefix(log'[j], lastApplied'[j])
    /\ up[j] /\ up'[j] => /\ commitIndex[j] <= commitIndex'[j]
                          /\ Agree(log[j], log'[j], commitIndex[j])

LEMMA CommitTypes ==
    ASSUME TypeInv, ElectionInv, [Next]_vars, NEW j \in Server
    PROVE  /\ log[j] \in Log /\ log'[j] \in Log /\ Len(log[j]) \in Nat /\ Len(log'[j]) \in Nat
           /\ currentTerm[j] \in Nat /\ currentTerm'[j] \in Nat
           /\ commitIndex[j] \in Nat /\ commitIndex'[j] \in Nat
           /\ lastApplied[j] \in Nat /\ lastApplied'[j] \in Nat
           /\ chosen \in Log /\ chosen' \in Log /\ Len(chosen) \in Nat /\ Len(chosen') \in Nat
<1>1. TypeOK /\ TypeOK'
  BY BaseStep
<1>2. log[j] \in Log /\ log'[j] \in Log /\ chosen \in Log /\ chosen' \in Log
  BY <1>1 DEF TypeOK
<1>3. /\ commitIndex[j] \in Nat /\ commitIndex'[j] \in Nat
      /\ lastApplied[j] \in Nat /\ lastApplied'[j] \in Nat
      /\ currentTerm[j] \in 0..MaxTerm /\ currentTerm'[j] \in 0..MaxTerm
  BY <1>1 DEF TypeOK
<1> QED BY <1>2, <1>3, LenType, TermsAreNat

\* A step that keeps the log of j as far as it is committed, and its bookkeeping.
LEMMA KeepInformed ==
    ASSUME TypeInv, ElectionInv, [Next]_vars, LeadInv, RootInv, AckInv, SafeInv, CommitInv,
           NEW j \in Server, currentTerm[j] <= currentTerm'[j],
           Agree(log[j], log'[j], commitIndex[j]),
           commitIndex'[j] = commitIndex[j], lastApplied'[j] = lastApplied[j],
           applied'[j] = applied[j]
    PROVE  StaysInformed(j)
<1>1. /\ log[j] \in Log /\ log'[j] \in Log /\ Len(log[j]) \in Nat /\ Len(log'[j]) \in Nat
      /\ currentTerm[j] \in Nat /\ currentTerm'[j] \in Nat /\ commitIndex[j] \in Nat
      /\ lastApplied[j] \in Nat /\ Len(chosen) \in Nat /\ Len(chosen') \in Nat
  BY CommitTypes
<1>2. /\ commitIndex[j] <= Len(chosen) /\ Told(log[j], commitIndex[j], currentTerm[j])
      /\ lastApplied[j] <= commitIndex[j] /\ applied[j] = Prefix(log[j], lastApplied[j])
  BY DEF CommitInv, Informed, Fed
<1>3. Len(chosen) <= Len(chosen')
  BY ChosenStep DEF Agree
<1>4. ToldNext(log'[j], commitIndex[j], currentTerm'[j])
  BY <1>1, <1>2, ToldStays
<1>5. applied[j] = Prefix(log'[j], lastApplied[j])
  <2>1. Agree(log[j], log'[j], lastApplied[j])
    BY <1>1, <1>2, AgreeLess
  <2> QED BY <1>1, <1>2, <2>1, AgreeIsPrefix
<1>6. commitIndex[j] <= Len(log'[j]) /\ commitIndex[j] <= Len(chosen')
  BY <1>1, <1>2, <1>3 DEF Agree
<1> QED BY <1>1, <1>2, <1>4, <1>5, <1>6 DEF StaysInformed

LEMMA AgreeRefl ==
    ASSUME NEW l \in Log, NEW n \in Nat, n <= Len(l)
    PROVE  Agree(l, l, n)
BY DEF Agree

\* AppendEntries: the call brings no more than it says is committed, and what the
\* peer already knew to be committed is in the leader's log too.
LEMMA AcceptInforms ==
    ASSUME TypeInv, ElectionInv, [Next]_vars, LeadInv, RootInv, AckInv, SafeInv, CommitInv,
           NEW m \in appReqs, AppendEntriesAccept(m)
    PROVE  StaysInformed(m.to)
<1> DEFINE j == m.to
           n == m.prev + Len(m.entries)
           L == termLog[m.term]
           c == commitIndex[j]
<1>0. TypeOK
  BY BaseStep
<1>1. /\ j \in Server /\ m.term \in Term /\ m.term \in Nat /\ n \in Nat /\ L \in Log
      /\ m.commit \in Nat
      /\ currentTerm[j] <= m.term /\ currentTerm'[j] = m.term
      /\ Agree(log'[j], L, n)
      /\ \A k \in Nat : Agree(log[j], L, k) => Agree(log'[j], L, k)
  BY AcceptFacts
<1>2. /\ log[j] \in Log /\ log'[j] \in Log /\ Len(log[j]) \in Nat /\ Len(log'[j]) \in Nat
      /\ currentTerm[j] \in Nat /\ c \in Nat
      /\ lastApplied[j] \in Nat /\ Len(chosen) \in Nat /\ Len(chosen') \in Nat
  BY <1>1, CommitTypes
<1>3. /\ c <= Len(log[j]) /\ c <= Len(chosen) /\ Told(log[j], c, currentTerm[j])
      /\ lastApplied[j] <= c /\ applied[j] = Prefix(log[j], lastApplied[j])
  BY <1>1 DEF CommitInv, Informed, Fed
<1>4. /\ m.commit <= n /\ m.commit <= Len(chosen) /\ Told(L, m.commit, m.term)
      /\ elected[m.term] # {}
  BY DEF CommitInv, Informs, LeadInv
<1>5. commitIndex'[j] = IF m.commit > c THEN Min2(m.commit, n) ELSE c
  BY <1>0, <1>1 DEF AppendEntriesAccept, FollowerCommit, TypeOK
<1>6. lastApplied' = lastApplied /\ applied' = applied
  BY DEF AppendEntriesAccept, AppendAnswer
<1> HIDE DEF n, L, c
<1>7. Agree(log[j], log'[j], c)
  <2>1. CASE c = 0
    BY <1>2, <2>1 DEF Agree
  <2>2. CASE c > 0
    <3>1. PICK s \in Term, k \in Nat :
            s <= currentTerm[j] /\ c <= k /\ Committed(s, k) /\ Agree(log[j], termLog[s], c)
      BY <1>3, <2>2 DEF Told
    <3>2. s \in Nat /\ termLog[s] \in Log
      BY <1>0, TermsAreNat DEF TypeOK
    <3>3. s <= m.term
      BY <1>1, <1>2, <3>1, <3>2
    <3>4. Agree(termLog[s], L, k)
      BY <1>0, <1>1, <1>4, <3>1, <3>3, CommittedLater DEF L
    <3>5. Agree(log[j], L, c)
      BY <1>1, <1>2, <3>1, <3>2, <3>4, AgreeTrans
    <3>6. Agree(L, log'[j], c)
      BY <1>1, <1>2, <3>5, AgreeSym
    <3> QED BY <1>1, <1>2, <3>5, <3>6, AgreeTrans
  <2> QED BY <1>2, <2>1, <2>2
<1>8. CASE m.commit <= c
  <2>1. commitIndex'[j] = c
    BY <1>1, <1>2, <1>5, <1>8
  <2> QED BY <1>1, <1>6, <1>7, <2>1, KeepInformed DEF c
<1>9. CASE m.commit > c
  <2>1. commitIndex'[j] = m.commit
    BY <1>1, <1>4, <1>5, <1>9 DEF Min2
  <2>2. Agree(L, log'[j], m.commit)
    <3>1. Agree(L, log'[j], n)
      BY <1>1, AgreeSym
    <3> QED BY <1>1, <1>2, <1>4, <3>1, AgreeLess
  <2>3. ToldNext(log'[j], m.commit, m.term)
    BY <1>1, <1>2, <1>4, <2>2, ToldStays
  <2>4. Len(chosen) <= Len(chosen')
    BY ChosenStep DEF Agree
  <2>5. applied[j] = Prefix(log'[j], lastApplied[j])
    <3>1. Agree(log[j], log'[j], lastApplied[j])
      BY <1>2, <1>3, <1>7, AgreeLess
    <3> QED BY <1>2, <1>3, <3>1, AgreeIsPrefix
  <2>6. m.commit <= Len(log'[j]) /\ m.commit <= Len(chosen') /\ lastApplied[j] <= m.commit
    BY <1>1, <1>2, <1>3, <1>4, <1>9, <2>2, <2>4 DEF Agree
  <2>7. c <= m.commit
    BY <1>1, <1>2, <1>9
  <2> QED BY <1>1, <1>6, <1>7, <2>1, <2>3, <2>5, <2>6, <2>7 DEF StaysInformed, c
<1> QED BY <1>1, <1>2, <1>8, <1>9

LEMMA AdvanceInforms ==
    ASSUME TypeInv, ElectionInv, [Next]_vars, LeadInv, RootInv, AckInv, SafeInv, CommitInv,
           NEW r \in appReps, AppendReplySuccess(r)
    PROVE  StaysInformed(r.req.from)
<1> DEFINE j == r.req.from
           t == currentTerm[j]
           c == commitIndex[j]
<1>1. PICK new \in Nat : new = commitIndex'[j]
  BY AdvanceFacts
<1>2. /\ j \in Server /\ t \in Term /\ termLog[t] = log[j] /\ log[j] \in Log
      /\ new = c \/ (new \in c + 1 .. Len(log[j]) /\ Committed(t, new))
      /\ UNCHANGED <<log, currentTerm, termLog, lastApplied, applied>>
  BY <1>1, AdvanceFacts
<1>3. chosen' = IF new > c /\ new > Len(chosen) THEN Prefix(log[j], new) ELSE chosen
  BY <1>1, AdvanceFacts
<1>4. /\ Len(log[j]) \in Nat /\ t \in Nat /\ c \in Nat /\ lastApplied[j] \in Nat
      /\ Len(chosen) \in Nat
  BY <1>2, CommitTypes
<1>5. c <= Len(log[j]) /\ lastApplied[j] <= c /\ applied[j] = Prefix(log[j], lastApplied[j])
  BY <1>2 DEF CommitInv, Informed, Fed
<1>6. Agree(log[j], log'[j], c)
  BY <1>2, <1>4, <1>5, AgreeRefl
<1>7. CASE new = c
  <2>1. /\ commitIndex'[j] = commitIndex[j] /\ lastApplied'[j] = lastApplied[j]
        /\ applied'[j] = applied[j] /\ currentTerm[j] <= currentTerm'[j]
    BY <1>1, <1>2, <1>4, <1>7
  <2> QED BY <1>2, <1>6, <2>1, KeepInformed
<1>8. CASE new # c
  <2>1. new \in c + 1 .. Len(log[j]) /\ Committed(t, new)
    BY <1>2, <1>8
  <2>2. PICK u \in Term : u = t
    BY <1>2
  <2>3. Committed(u, new)'
    BY <2>1, <2>2, CommittedStays
  <2>4. Agree(log[j], termLog'[u], new) /\ u <= t /\ new <= new
    BY <1>2, <1>4, <2>1, <2>2, AgreeRefl
  <2>5. ToldNext(log[j], new, t)
    BY <2>3, <2>4 DEF ToldNext
  <2>6. new <= Len(chosen')
    <3>1. Len(Prefix(log[j], new)) = new
      BY <1>2, <1>4, <2>1, PrefixType
    <3> QED BY <1>3, <1>4, <2>1, <3>1
  <2>7. new <= Len(log[j]) /\ lastApplied[j] <= new /\ c <= new
    BY <1>4, <1>5, <2>1
  <2> QED BY <1>1, <1>2, <1>5, <1>6, <2>5, <2>6, <2>7 DEF StaysInformed
<1> QED BY <1>7, <1>8

LEMMA PeerInformed ==
    ASSUME TypeInv, ElectionInv, [Next]_vars, LeadInv, RootInv, AckInv, SafeInv, CommitInv,
           NEW j \in Server
    PROVE  StaysInformed(j) /\ (~up'[j] => log'[j] = << >>)
<1> DEFINE c == commitIndex[j]
<1>0. TypeOK /\ applied \in [Server -> Log]
  BY BaseStep DEF CommitInv
<1>1. /\ log[j] \in Log /\ log'[j] \in Log /\ Len(log[j]) \in Nat /\ Len(log'[j]) \in Nat
      /\ currentTerm[j] \in Nat /\ c \in Nat /\ lastApplied[j] \in Nat
      /\ Len(chosen) \in Nat /\ Len(chosen') \in Nat
  BY CommitTypes
<1>2. /\ c <= Len(log[j]) /\ c <= Len(chosen) /\ lastApplied[j] <= c
      /\ applied[j] = Prefix(log[j], lastApplied[j])
      /\ Told(log[j], c, currentTerm[j])
      /\ ~up[j] => log[j] = << >>
  BY DEF CommitInv, Informed, Fed, Blank
<1>3. Len(<< >>) = 0 /\ \A l : Prefix(l, 0) = << >>
  BY SubSeqEmpty, EmptySeq DEF Prefix
<1>4. CASE Calm(j)
  <2>1. Agree(log[j], log'[j], c)
    <3>1. CASE log'[j] = log[j]
      BY <1>1, <1>2, <3>1, AgreeRefl
    <3>2. ASSUME NEW d \in Command, Start(j, d) PROVE Agree(log[j], log'[j], c)
      <4> DEFINE a == Append(log[j], [term |-> currentTerm[j], command |-> d])
      <4>1. log'[j] = a /\ Agree(log[j], a, Len(log[j]))
        BY <3>2, StartGrows
      <4> HIDE DEF a
      <4> QED BY <1>1, <1>2, <4>1, AgreeLess
    <3> QED BY <1>4, <3>1, <3>2 DEF Calm
  <2>2. StaysInformed(j)
    BY <1>4, <2>1, KeepInformed DEF Calm
  <2>3. ASSUME NEW d \in Command, Start(j, d) PROVE up'[j]
    BY <2>3 DEF Start
  <2> QED BY <1>2, <1>4, <2>2, <2>3 DEF Calm
<1>5. CASE Crash(j)
  <2>1. /\ ~up'[j] /\ log'[j] = << >> /\ commitIndex'[j] = 0 /\ lastApplied'[j] = 0
        /\ applied'[j] = << >>
    BY <1>0, <1>5 DEF Crash, TypeOK
  <2>2. ToldNext(log'[j], commitIndex'[j], currentTerm'[j])
    BY <2>1 DEF ToldNext
  <2> QED BY <1>1, <1>3, <2>1, <2>2 DEF StaysInformed
<1>6. CASE Make(j)
  <2>1. ~up[j] /\ up'[j] /\ UNCHANGED <<commitIndex, lastApplied, applied>>
    BY <1>0, <1>6 DEF Make, TypeOK
  <2>2. c = 0 /\ lastApplied[j] = 0 /\ applied[j] = << >>
    BY <1>1, <1>2, <1>3, <2>1
  <2>3. ToldNext(log'[j], commitIndex'[j], currentTerm'[j])
    BY <2>1, <2>2 DEF ToldNext
  <2> QED BY <1>1, <1>3, <2>1, <2>2, <2>3 DEF StaysInformed
<1>7. CASE applier(j)
  <2>1. /\ UNCHANGED <<up, log, currentTerm, commitIndex, chosen>>
        /\ lastApplied'[j] = c
        /\ applied'[j] = applied[j] \o SubSeq(log[j], lastApplied[j] + 1, c)
    BY <1>0, <1>7 DEF applier, server, history, TypeOK
  <2>2. applied'[j] = Prefix(log[j], c)
    <3>1. 1 \in 1 .. Len(log[j]) + 1 /\ lastApplied[j] \in 1 - 1 .. Len(log[j]) /\ c \in lastApplied[j] .. Len(log[j])
      BY <1>1, <1>2
    <3> QED BY <1>1, <1>2, <2>1, <3>1, ConcatAdjacentSubSeq DEF Prefix, Log
  <2>3. ToldNext(log[j], c, currentTerm[j]) /\ Agree(log[j], log[j], c)
    BY <1>1, <1>2, ToldStays, AgreeRefl
  <2>4. up[j]
    BY <1>7 DEF applier
  <2>5. /\ commitIndex'[j] = c /\ log'[j] = log[j] /\ currentTerm'[j] = currentTerm[j]
        /\ chosen' = chosen /\ up'[j] = up[j]
    BY <2>1
  <2>6. c <= c
    BY <1>1
  <2> HIDE DEF c
  <2>7. StaysInformed(j)
    BY <1>2, <2>1, <2>2, <2>3, <2>5, <2>6 DEF StaysInformed, c
  <2> QED BY <2>4, <2>5, <2>7
<1>8. ASSUME NEW m \in appReqs, AppendEntriesAccept(m), m.to = j
      PROVE  StaysInformed(j) /\ up'[j]
  BY <1>8, AcceptInforms DEF AppendEntriesAccept, AppendAnswer
<1>9. ASSUME NEW r \in appReps, AppendReplySuccess(r), r.req.from = j
      PROVE  StaysInformed(j) /\ up'[j]
  BY <1>9, AdvanceInforms DEF AppendReplySuccess
<1> QED BY <1>0, <1>4, <1>5, <1>6, <1>7, <1>8, <1>9, TellStep

LEMMA AppliedKinds ==
    ASSUME [Next]_vars
    PROVE  \/ applied' = applied
           \/ \E i \in Server : applier(i) \/ Crash(i)
<1>1. ASSUME NEW i, \/ startElection(i) \/ Make(i)
                    \/ \E c \in Command : Start(i, c)
                    \/ \E j \in Server : replicateTo(i, j)
      PROVE  applied' = applied
  BY <1>1 DEF startElection, Make, Start, replicateTo
<1>2. ASSUME NEW m, \/ RequestVote(m) \/ VoteReply(m) \/ AppendEntriesStale(m)
                    \/ AppendEntriesReject(m) \/ AppendEntriesAccept(m)
      PROVE  applied' = applied
  BY <1>2 DEF RequestVote, VoteReply, AppendEntriesStale, AppendEntriesReject,
              AppendEntriesAccept, AppendAnswer
<1>3. ASSUME NEW r, \/ AppendReplyNewerTerm(r) \/ AppendReplyIgnored(r)
                    \/ AppendReplySuccess(r) \/ AppendReplyBackup(r)
      PROVE  applied' = applied
  BY <1>3 DEF AppendReplyNewerTerm, AppendReplyIgnored, AppendReplySuccess, AppendReplyBackup
<1>4. CASE Lose \/ UNCHANGED vars
  BY <1>4 DEF Lose, vars
<1> QED BY <1>1, <1>2, <1>3, <1>4 DEF Next

LEMMA CommitStep ==
    ASSUME TypeInv, ElectionInv, [Next]_vars, LeadInv, RootInv, AckInv, SafeInv, CommitInv
    PROVE  CommitInv'
<1>0. TypeOK /\ TypeOK' /\ Forward
  BY BaseStep, ForwardStep
<1>1. \A j \in Server : StaysInformed(j) /\ (~up'[j] => log'[j] = << >>)
  BY PeerInformed
<1>2. Blank'
  BY <1>1 DEF Blank
<1>3. applied' \in [Server -> Log]
  <2>1. ASSUME NEW j \in Server PROVE applied'[j] \in Log
    <3>1. /\ applied'[j] = Prefix(log'[j], lastApplied'[j])
          /\ lastApplied'[j] <= commitIndex'[j] /\ commitIndex'[j] <= Len(log'[j])
      BY <1>1 DEF StaysInformed
    <3>2. /\ log'[j] \in Log /\ Len(log'[j]) \in Nat /\ lastApplied'[j] \in Nat
          /\ commitIndex'[j] \in Nat
      BY CommitTypes
    <3>3. lastApplied'[j] \in 0..Len(log'[j])
      BY <3>1, <3>2
    <3> QED BY <3>1, <3>2, <3>3, PrefixType
  <2>2. applied \in [Server -> Log]
    BY DEF CommitInv
  <2>3. CASE applied' = applied
    BY <2>2, <2>3
  <2>4. ASSUME NEW i \in Server, applier(i) \/ Crash(i) PROVE applied' \in [Server -> Log]
    <3>1. PICK l : applied' = [applied EXCEPT ![i] = l]
      BY <2>4 DEF applier, Crash
    <3>2. l \in Log
      BY <2>1, <2>2, <3>1
    <3> QED BY <2>2, <3>1, <3>2
  <2> QED BY <2>3, <2>4, AppliedKinds
<1>4. ASSUME NEW j \in Server PROVE Informed(j)' /\ Fed(j)'
  BY <1>1, <1>4 DEF StaysInformed, Informed, Fed, Told, ToldNext
<1>5. /\ chosen \in Log /\ chosen' \in Log /\ Len(chosen) \in Nat /\ Len(chosen') \in Nat
      /\ Len(chosen) <= Len(chosen')
  BY <1>0, LenType, ChosenStep DEF TypeOK, Agree
<1>6. ASSUME NEW m \in appReqs' PROVE Informs(m)'
  <2>1. /\ m \in AppReq /\ m.term \in Term /\ m.term \in Nat /\ m.commit \in Nat
        /\ m.prev \in Nat /\ m.entries \in Log
    BY <1>0, TermsAreNat DEF TypeOK, AppReq
  <2>2. /\ termLog[m.term] \in Log /\ termLog'[m.term] \in Log /\ Len(termLog[m.term]) \in Nat
        /\ Agree(termLog[m.term], termLog'[m.term], Len(termLog[m.term]))
    BY <1>0, <2>1, LenType DEF TypeOK, Forward, Grows
  <2>3. /\ m.commit <= m.prev + Len(m.entries) /\ m.commit <= Len(chosen)
        /\ Told(termLog[m.term], m.commit, m.term)
        /\ m.prev + Len(m.entries) <= Len(termLog[m.term])
    <3>1. CASE m \in appReqs
      BY <3>1 DEF CommitInv, Informs, RootInv, Carries
    <3>2. ASSUME NEW i \in Server, NEW j \in Server, replicateTo(i, j), m = AppendArgs(i, j)
          PROVE  /\ m.commit <= m.prev + Len(m.entries) /\ m.commit <= Len(chosen)
                 /\ Told(termLog[m.term], m.commit, m.term)
                 /\ m.prev + Len(m.entries) <= Len(termLog[m.term])
      <4>1. role[i] = Leader
        BY <3>2 DEF replicateTo
      <4>2. /\ m.prev + Len(m.entries) = Len(log[i]) /\ m.term = currentTerm[i]
            /\ m.commit = commitIndex[i]
        BY <1>0, <3>2, ArgsCarry
      <4>3. termLog[m.term] = log[i]
        BY <4>1, <4>2 DEF LeadInv
      <4>4. Informed(i) /\ Len(log[i]) \in Nat
        BY <1>0, SavedType DEF CommitInv
      <4> QED BY <4>2, <4>3, <4>4 DEF Informed
    <3> QED BY <3>1, <3>2, CallStep
  <2>4. Agree(termLog[m.term], termLog'[m.term], m.commit)
    <3>1. Len(m.entries) \in Nat
      BY <2>1, LenType
    <3>2. m.commit <= Len(termLog[m.term])
      BY <2>1, <2>2, <2>3, <3>1
    <3> QED BY <2>1, <2>2, <3>2, AgreeLess
  <2>5. m.term <= m.term
    BY <2>1
  <2>6. ToldNext(termLog'[m.term], m.commit, m.term)
    BY <2>1, <2>2, <2>3, <2>4, <2>5, ToldStays
  <2>7. m.commit <= Len(chosen')
    BY <1>5, <2>1, <2>3
  <2> QED BY <2>3, <2>6, <2>7 DEF Informs, Told, ToldNext
<1>7. Len(chosen') > 0 =>
          /\ chosenTerm' \in Term /\ Committed(chosenTerm, Len(chosen))'
          /\ Agree(chosen', termLog'[chosenTerm'], Len(chosen'))
  BY ChosenStep
<1> QED BY <1>2, <1>3, <1>4, <1>6, <1>7 DEF CommitInv

-----------------------------------------------------------------------------
(* The invariant, and what it says. *)

LEMMA LogInit == Init => LogInv
<1> SUFFICES ASSUME Init PROVE LogInv
  OBVIOUS
<1> USE DEF Init
<1>1. Len(<< >>) = 0 /\ << >> \in Log /\ Prefix(<< >>, 0) = << >>
  BY SubSeqEmpty, EmptySeq DEF Prefix, Log
<1>2. LeadInv
  BY DEF LeadInv, Follower, Leader, Candidate
<1>3. RootInv
  BY <1>1 DEF RootInv, Good, PLog, Fresh
<1>4. AckInv
  BY DEF AckInv, Follower, Leader
<1>5. \A s \in Term, n \in Nat : ~Own(s, n)
  BY <1>1 DEF Own
<1>6. SafeInv
  BY <1>5 DEF SafeInv, Kept, Inherited, Described, VotedBetter, Holds
<1>7. CommitInv
  BY <1>1 DEF CommitInv, Blank, Informed, Fed, Told
<1> QED BY <1>2, <1>3, <1>4, <1>6, <1>7 DEF LogInv

\* Everything the proofs know of a reachable state.
RaftInv == TypeInv /\ ElectionInv /\ LogInv

LEMMA RaftInvStep == RaftInv /\ [Next]_vars => RaftInv'
<1> SUFFICES ASSUME RaftInv, [Next]_vars PROVE RaftInv'
  OBVIOUS
<1>1. TypeInv /\ ElectionInv /\ LeadInv /\ RootInv /\ AckInv /\ SafeInv /\ CommitInv
  BY DEF RaftInv, LogInv
<1>2. TypeInv' /\ ElectionInv'
  BY <1>1, BaseStep
<1>3. LeadInv' /\ RootInv' /\ AckInv'
  BY <1>1, LeadStep, RootStep, AckStep
<1>4. SafeInv' /\ CommitInv'
  BY <1>1, SafeStep, CommitStep
<1> QED BY <1>2, <1>3, <1>4 DEF RaftInv, LogInv

\* The invariant of the Raft peer: who may lead, what the logs have in common, what
\* a majority has confirmed, and what every commit index stands for.
THEOREM LogInvariant == Spec => []RaftInv
<1>1. Init => RaftInv
  BY TypeInit, ElectionInit, LogInit DEF RaftInv
<1> QED BY <1>1, RaftInvStep, PTL DEF Spec

LEMMA MatchGood ==
    ASSUME NEW T \in [Term -> Log], NEW a \in Log, NEW b \in Log, NEW t, NEW u,
           Good(a, t, T), Good(b, u, T)
    PROVE  SameUpTo(a, b)
<1> SUFFICES ASSUME NEW k \in 1..Min2(Len(a), Len(b)), a[k].term = b[k].term
             PROVE  Prefix(a, k) = Prefix(b, k)
  BY DEF SameUpTo
<1>1. Len(a) \in Nat /\ Len(b) \in Nat
  BY LenType
<1>2. k \in 1..Len(a) /\ k \in 1..Len(b) /\ k \in Nat
  BY <1>1 DEF Min2
<1>3. Agree(a, b, k)
  BY <1>2, GoodMatch
<1> QED BY <1>2, <1>3, AgreeIsPrefix

\* The Log Matching Property: two logs, in memory or saved, with an entry of the
\* same term at an index are the same up to it, through every conflict that
\* AppendEntries resolves and every restart.
THEOREM LogsMatch == Spec => []LogMatching
<1>1. RaftInv => LogMatching
  <2> SUFFICES ASSUME RaftInv PROVE LogMatching
    OBVIOUS
  <2>0. TypeOK /\ ElectionInv /\ RootInv /\ Blank
    BY DEF RaftInv, LogInv, CommitInv, TypeInv, TypeCore
  <2>1. termLog \in [Term -> Log] /\ \A i \in Server : log[i] \in Log /\ persister[i].log \in Log
    BY <2>0, SavedType DEF TypeOK, PLog
  <2>2. \A i \in Server : Good(persister[i].log, persister[i].term, termLog)
    BY <2>0 DEF RootInv, PLog
  <2>3. ASSUME NEW i \in Server PROVE Good(log[i], persister[i].term, termLog)
    <3>1. CASE up[i]
      BY <2>0, <2>2, <3>1, CurrentIsSaved
    <3>2. CASE ~up[i]
      <4>1. log[i] = << >> /\ Len(<< >>) = 0
        BY <2>0, <3>2, EmptySeq DEF Blank
      <4> QED BY <4>1 DEF Good
    <3> QED BY <3>1, <3>2
  <2> QED BY <2>1, <2>2, <2>3, MatchGood DEF LogMatching
<1> QED BY <1>1, LogInvariant, PTL

\* A success reply of AppendEntries stays true of the follower's persister until the
\* follower hears of a newer term, whatever late and repeated calls it serves.
THEOREM DurableAcks == Spec => []AcksAreDurable
<1>1. RaftInv => AcksAreDurable
  <2> SUFFICES ASSUME RaftInv, NEW r \in appReps, r.success,
                      persister[r.req.to].term = r.req.term
               PROVE  LET n == r.req.prev + Len(r.req.entries)
                          p == persister[r.req.to]
                      IN  /\ n <= Len(p.log)
                          /\ Prefix(p.log, n) = Prefix(termLog[r.req.term], n)
    BY DEF AcksAreDurable
  <2> DEFINE n == r.req.prev + Len(r.req.entries)
             q == r.req.to
             s == r.req.term
  <2>0. TypeOK /\ AckInv
    BY DEF RaftInv, LogInv, TypeInv, TypeCore
  <2>1. /\ q \in Server /\ s \in Term /\ r.req.prev \in Nat /\ r.req.entries \in Log
    BY <2>0 DEF TypeOK, AppRep, AppReq
  <2>2. /\ n \in Nat /\ acked[q][s] \in Nat /\ termLog[s] \in Log /\ PLog(q) \in Log
        /\ Len(PLog(q)) \in Nat
    BY <2>0, <2>1, LenType, AckType, SavedType
  <2>3. acked[q][s] >= n
    BY <2>0 DEF AckInv
  <2> HIDE DEF n, q, s
  <2>4. CASE acked[q][s] > 0
    <3>1. Agree(PLog(q), termLog[s], acked[q][s])
      BY <2>0, <2>1, <2>4 DEF AckInv, q, s
    <3>2. Agree(PLog(q), termLog[s], n)
      BY <2>2, <2>3, <3>1, AgreeLess
    <3>3. Prefix(PLog(q), n) = Prefix(termLog[s], n) /\ n <= Len(PLog(q))
      BY <2>2, <3>2, AgreeIsPrefix DEF Agree
    <3> QED BY <3>3 DEF PLog, n, q, s
  <2>5. CASE acked[q][s] = 0
    <3>1. n = 0 /\ \A l : Prefix(l, 0) = << >>
      BY <2>2, <2>3, <2>5, SubSeqEmpty DEF Prefix
    <3>2. n <= Len(PLog(q)) /\ Prefix(PLog(q), n) = Prefix(termLog[s], n)
      BY <2>2, <3>1
    <3> QED BY <3>2 DEF PLog, n, q, s
  <2> QED BY <2>2, <2>4, <2>5
<1> QED BY <1>1, LogInvariant, PTL

\* Leader completeness, what the election restriction of RequestVote is for: whoever
\* leads the committing term or a later one has everything that was committed.
THEOREM LeadersAreComplete == Spec => []LeaderCompleteness
<1>1. RaftInv => LeaderCompleteness
  <2> SUFFICES ASSUME RaftInv, NEW i \in Server, role[i] = Leader, currentTerm[i] >= chosenTerm
               PROVE  IsPart(chosen, log[i])
    BY DEF LeaderCompleteness
  <2> DEFINE t == currentTerm[i]
             n == Len(chosen)
  <2>0. TypeOK /\ RunningRoles /\ LeadInv /\ SafeInv /\ CommitInv
    BY DEF RaftInv, LogInv, TypeInv, TypeCore
  <2>1. /\ t \in Term /\ termLog[t] = log[i] /\ elected[t] # {} /\ log[i] \in Log
        /\ chosen \in Log /\ n \in Nat
    BY <2>0, LenType DEF RunningRoles, LeadInv, TypeOK, Leader, Follower
  <2>2. Agree(chosen, log[i], n)
    <3>1. CASE n = 0
      <4>1. Len(log[i]) \in Nat
        BY <2>1, LenType
      <4> QED BY <2>1, <3>1, <4>1 DEF Agree
    <3>2. CASE n > 0
      <4>1. /\ chosenTerm \in Term /\ Committed(chosenTerm, n)
            /\ Agree(chosen, termLog[chosenTerm], n)
        BY <2>0, <3>2 DEF CommitInv
      <4>2. chosenTerm <= t /\ termLog[chosenTerm] \in Log
        BY <2>0, <2>1, <4>1, TermsAreNat DEF TypeOK
      <4>3. Agree(termLog[chosenTerm], log[i], n)
        BY <2>0, <2>1, <4>1, <4>2, CommittedLater
      <4> QED BY <2>1, <4>1, <4>2, <4>3, AgreeTrans
    <3> QED BY <2>1, <3>1, <3>2
  <2> QED BY <2>1, <2>2, PartIsAgree
<1> QED BY <1>1, LogInvariant, PTL

\* Every commit index stands for a part of the one committed log.
LEMMA CommittedPart ==
    ASSUME RaftInv, NEW i \in Server
    PROVE  /\ log[i] \in Log /\ chosen \in Log /\ commitIndex[i] \in Nat /\ lastApplied[i] \in Nat
           /\ lastApplied[i] <= commitIndex[i] /\ applied[i] = Prefix(log[i], lastApplied[i])
           /\ Agree(log[i], chosen, commitIndex[i])
<1> DEFINE c == commitIndex[i]
           n == Len(chosen)
<1>0. TypeOK /\ LeadInv /\ SafeInv /\ CommitInv
  BY DEF RaftInv, LogInv, TypeInv, TypeCore
<1>1. /\ log[i] \in Log /\ chosen \in Log /\ c \in Nat /\ lastApplied[i] \in Nat
      /\ Len(log[i]) \in Nat /\ n \in Nat /\ currentTerm[i] \in Nat
  BY <1>0, LenType, SavedType DEF TypeOK
<1>2. /\ lastApplied[i] <= c /\ applied[i] = Prefix(log[i], lastApplied[i])
      /\ c <= n /\ c <= Len(log[i]) /\ Told(log[i], c, currentTerm[i])
  BY <1>0 DEF CommitInv, Informed, Fed
<1>3. Agree(log[i], chosen, c)
  <2>1. CASE c = 0
    BY <1>1, <2>1 DEF Agree
  <2>2. CASE c > 0
    <3>1. PICK s \in Term, k \in Nat : c <= k /\ Committed(s, k) /\ Agree(log[i], termLog[s], c)
      BY <1>2, <2>2 DEF Told
    <3> DEFINE u == chosenTerm
    <3>2. u \in Term /\ Committed(u, n) /\ Agree(termLog[u], chosen, n)
      <4>1. n > 0
        BY <1>1, <1>2, <2>2
      <4> QED BY <1>0, <4>1, AgreeSym DEF CommitInv
    <3>3. s \in Nat /\ u \in Nat /\ termLog[s] \in Log /\ termLog[u] \in Log
      BY <1>0, <3>2, TermsAreNat DEF TypeOK
    <3>4. Agree(termLog[s], termLog[u], c)
      <4>1. CASE s <= u
        <5>1. Agree(termLog[s], termLog[u], k)
          BY <1>0, <1>1, <3>1, <3>2, <4>1, CommittedAgree
        <5> QED BY <1>1, <3>1, <3>3, <5>1, AgreeLess
      <4>2. CASE u <= s
        <5>1. Agree(termLog[u], termLog[s], n)
          BY <1>0, <1>1, <3>1, <3>2, <4>2, CommittedAgree
        <5>2. Agree(termLog[u], termLog[s], c)
          BY <1>1, <1>2, <3>3, <5>1, AgreeLess
        <5> QED BY <5>2, AgreeSym
      <4> QED BY <3>3, <4>1, <4>2
    <3>5. Agree(log[i], termLog[u], c)
      BY <1>1, <3>1, <3>3, <3>4, AgreeTrans
    <3> QED BY <1>1, <1>2, <3>2, <3>3, <3>5, AgreeTrans
  <2> QED BY <1>1, <2>1, <2>2
<1> QED BY <1>1, <1>2, <1>3

LEMMA PartOf ==
    ASSUME NEW a \in Log, NEW b \in Log, NEW n \in Nat, Agree(a, b, n)
    PROVE  IsPart(Prefix(a, n), b)
<1>1. n \in 0..Len(a) /\ n <= Len(b)
  BY LenType DEF Agree
<1>2. Len(Prefix(a, n)) = n /\ Prefix(b, n) = Prefix(a, n)
  BY <1>1, PrefixType, AgreeIsPrefix
<1> QED BY <1>1, <1>2 DEF IsPart

\* State machine safety: what any applyCh has carried, and what any peer takes for
\* committed, is a part of one and the same log.
THEOREM StateMachinesAgree == Spec => []StateMachineSafety
<1>1. RaftInv => StateMachineSafety
  <2> SUFFICES ASSUME RaftInv, NEW i \in Server
               PROVE  /\ IsPart(applied[i], chosen)
                      /\ commitIndex[i] <= Len(log[i])
                      /\ IsPart(Prefix(log[i], commitIndex[i]), chosen)
    BY DEF StateMachineSafety
  <2>1. /\ log[i] \in Log /\ chosen \in Log /\ commitIndex[i] \in Nat /\ lastApplied[i] \in Nat
        /\ lastApplied[i] <= commitIndex[i] /\ applied[i] = Prefix(log[i], lastApplied[i])
        /\ Agree(log[i], chosen, commitIndex[i])
    BY CommittedPart
  <2>2. Agree(log[i], chosen, lastApplied[i])
    BY <2>1, AgreeLess
  <2>3. IsPart(applied[i], chosen)
    BY <2>1, <2>2, PartOf
  <2>4. IsPart(Prefix(log[i], commitIndex[i]), chosen)
    BY <2>1, PartOf
  <2> QED BY <2>1, <2>3, <2>4 DEF Agree
<1> QED BY <1>1, LogInvariant, PTL

\* While a process runs, its commit index never goes back, and no AppendEntries, late
\* or repeated, touches an entry it has been told is committed.
THEOREM CommittedStaysFinal == Spec => CommittedIsFinal
<1>1. RaftInv /\ [Next]_vars =>
        [\A i \in Server : up[i] /\ up'[i] =>
             /\ commitIndex[i] <= commitIndex'[i]
             /\ IsPart(Prefix(log[i], commitIndex[i]), log'[i])]_vars
  <2> SUFFICES ASSUME RaftInv, [Next]_vars, NEW i \in Server, up[i], up'[i]
               PROVE  /\ commitIndex[i] <= commitIndex'[i]
                      /\ IsPart(Prefix(log[i], commitIndex[i]), log'[i])
    OBVIOUS
  <2>1. TypeInv /\ ElectionInv /\ LeadInv /\ RootInv /\ AckInv /\ SafeInv /\ CommitInv
    BY DEF RaftInv, LogInv
  <2>2. commitIndex[i] <= commitIndex'[i] /\ Agree(log[i], log'[i], commitIndex[i])
    BY <2>1, PeerInformed DEF StaysInformed
  <2>3. log[i] \in Log /\ log'[i] \in Log /\ commitIndex[i] \in Nat
    BY <2>1, CommitTypes
  <2> QED BY <2>2, <2>3, PartOf
<1> QED BY <1>1, LogInvariant, PTL DEF Spec, CommittedIsFinal

\* Raft as coded implements the replicated log: the committed log only grows, and
\* every state machine is fed its entries in order, each once between restarts.
THEOREM RaftImplementsReplicatedLog == Spec => ImplementsReplicatedLog
<1>1. Init => Promise!Init
  BY DEF Init, Promise!Init
<1>2. RaftInv /\ [Next]_vars => [Promise!Next]_<<chosen, applied>>
  <2> SUFFICES ASSUME RaftInv, [Next]_vars, ~UNCHANGED <<chosen, applied>>
               PROVE  Promise!Next
    OBVIOUS
  <2>0. TypeInv /\ ElectionInv /\ LeadInv /\ RootInv /\ AckInv /\ SafeInv /\ CommitInv
    BY DEF RaftInv, LogInv
  <2>1. /\ applied \in [Server -> Log] /\ chosen \in Log /\ chosen' \in Log
        /\ Len(chosen) \in Nat /\ Len(chosen') \in Nat
    BY <2>0, BaseStep, LenType DEF CommitInv, TypeOK
  \* A leader commits.
  <2>2. CASE applied' = applied
    <3>1. PICK r \in appReps : AppendReplySuccess(r)
      BY <2>2, ChosenKinds
    <3>2. Len(chosen') > Len(chosen)
      <4>1. PICK i \in Server, new \in Nat :
              /\ i = r.req.from /\ new = commitIndex'[i] /\ commitIndex[i] \in Nat /\ log[i] \in Log
              /\ new = commitIndex[i] \/ new \in commitIndex[i] + 1 .. Len(log[i])
              /\ chosen' = IF new > commitIndex[i] /\ new > Len(chosen)
                           THEN Prefix(log[i], new) ELSE chosen
        BY <2>0, <3>1, AdvanceFacts
      <4>2. /\ chosen' = Prefix(log[i], new) /\ new > commitIndex[i] /\ new > Len(chosen)
        BY <2>2, <4>1
      <4>3. new \in 0..Len(log[i])
        BY <4>1, <4>2, LenType
      <4>4. Len(Prefix(log[i], new)) = new
        BY <4>1, <4>3, PrefixType
      <4> QED BY <4>2, <4>4
    <3>3. SubSeq(chosen', 1, Len(chosen)) = chosen
      <4>1. IsPart(chosen, chosen')
        BY <2>0, <2>1, ChosenStep, PartIsAgree
      <4> QED BY <4>1 DEF IsPart, Prefix
    <3> QED BY <2>2, <3>2, <3>3 DEF Promise!Next, Promise!Choose
  \* A state machine is fed a batch.
  <2>3. ASSUME NEW i \in Server, applier(i) PROVE Promise!Next
    <3> DEFINE c == commitIndex[i]
               a == lastApplied[i]
    <3>1. /\ log[i] \in Log /\ c \in Nat /\ a \in Nat /\ applied[i] = Prefix(log[i], a)
          /\ Agree(log[i], chosen, c)
      BY CommittedPart
    <3>2. /\ a < c /\ chosen' = chosen
          /\ applied' = [applied EXCEPT ![i] = applied[i] \o SubSeq(log[i], a + 1, c)]
          /\ lastApplied'[i] = c /\ log' = log
      BY <2>0, <2>3, BaseStep DEF applier, history, server, TypeOK
    <3>3. applied'[i] = Prefix(log[i], c)
      <4>1. StaysInformed(i)
        BY <2>0, PeerInformed
      <4> QED BY <3>2, <4>1 DEF StaysInformed
    <3>4. applied' = [applied EXCEPT ![i] = Prefix(log[i], c)]
      <4>1. applied'[i] = applied[i] \o SubSeq(log[i], a + 1, c)
        BY <2>1, <3>2
      <4> QED BY <3>2, <3>3, <4>1
    <3>5. a \in 0..Len(log[i]) /\ c <= Len(chosen) /\ Agree(log[i], chosen, a)
      BY <2>1, <3>1, <3>2, LenType, AgreeLess DEF Agree
    <3>6. Len(applied[i]) = a /\ applied[i] = SubSeq(chosen, 1, a)
      BY <2>1, <3>1, <3>5, PrefixType, AgreeIsPrefix DEF Prefix
    <3>7. Prefix(log[i], c) = SubSeq(chosen, 1, c)
      BY <2>1, <3>1, AgreeIsPrefix DEF Prefix
    <3>8. c \in a + 1 .. Len(chosen)
      BY <2>1, <3>1, <3>2, <3>5
    <3>9. Promise!Apply(i)
      <4> HIDE DEF c, a
      <4> QED BY <3>2, <3>4, <3>6, <3>7, <3>8 DEF Promise!Apply
    <3> QED BY <3>9 DEF Promise!Next
  \* A state machine is lost with its process.
  <2>4. ASSUME NEW i \in Server, Crash(i) PROVE Promise!Next
    <3>1. Promise!Restart(i)
      BY <2>4 DEF Crash, history, Promise!Restart
    <3> QED BY <3>1 DEF Promise!Next
  <2> QED BY <2>2, <2>3, <2>4, AppliedKinds
<1> QED BY <1>1, <1>2, LogInvariant, PTL DEF Spec, ImplementsReplicatedLog, Promise!Spec

-----------------------------------------------------------------------------
(* Leader Append-Only. *)

\* Every AppendEntries under way comes from another peer, the leader of its term.
CallsFromLeaders ==
    \A m \in appReqs : m.from # m.to /\ \E e \in elected[m.term] : e.leader = m.from

\* A leader that runs on in its term goes on leading it, and changes its log at
\* the end only (Start; "AcceptTerm" demotes whoever it is called for).
LeadersOnlyAppend ==
    [][\A i \in Server :
         role[i] = Leader /\ up'[i] /\ currentTerm'[i] = currentTerm[i] =>
            role'[i] = Leader /\ IsPart(log[i], log'[i])]_vars

LEMMA CallsStep ==
    ASSUME RaftInv, CallsFromLeaders, [Next]_vars
    PROVE  CallsFromLeaders'
<1> SUFFICES ASSUME NEW m \in appReqs'
             PROVE  m.from # m.to /\ \E e \in elected'[m.term] : e.leader = m.from
  BY DEF CallsFromLeaders
<1>0. TypeInv /\ ElectionInv /\ LeadInv
  BY DEF RaftInv, LogInv
<1>1. TypeOK /\ TypeOK' /\ RunningRoles /\ Forward
  BY <1>0, BaseStep, ForwardStep
<1>2. m.term \in Term
  BY <1>1 DEF TypeOK, AppReq
<1>3. elected[m.term] \subseteq elected'[m.term]
  BY <1>1, <1>2 DEF Forward
<1>4. CASE m \in appReqs
  BY <1>3, <1>4 DEF CallsFromLeaders
<1>5. ASSUME NEW i \in Server, NEW j \in Server, replicateTo(i, j), m = AppendArgs(i, j)
      PROVE  m.from # m.to /\ \E e \in elected'[m.term] : e.leader = m.from
  <2>1. m.from = i /\ m.to = j /\ m.term = currentTerm[i] /\ role[i] = Leader /\ i # j
    BY <1>5 DEF replicateTo, AppendArgs
  <2>2. \E e \in elected[m.term] : e.leader = i
    BY <1>0, <2>1 DEF LeadInv
  <2> QED BY <1>3, <2>1, <2>2
<1> QED BY <1>0, <1>4, <1>5, CallStep

\* The ways to stop leading and run on.
LEMMA StepsDown ==
    ASSUME TypeInv, [Next]_vars, NEW j \in Server,
           role[j] = Leader, role'[j] = Follower, up'[j]
    PROVE  \/ currentTerm'[j] > currentTerm[j]
           \/ \E m \in appReqs : m.to = j /\ m.term = currentTerm'[j]
<1> DEFINE Goal == \/ currentTerm'[j] > currentTerm[j]
                   \/ \E m \in appReqs : m.to = j /\ m.term = currentTerm'[j]
<1>t. TypeOK /\ RunningRoles
  BY DEF TypeInv, TypeCore
<1>n. Leader # Follower /\ Candidate # Follower /\ role'[j] # role[j]
  BY DEF Leader, Follower, Candidate
<1>1. ASSUME NEW i \in Server, \/ startElection(i) \/ Make(i) \/ Crash(i) \/ applier(i)
      PROVE  FALSE
  <2>1. CASE startElection(i)
    BY <1>t, <1>n, <2>1 DEF startElection, TypeOK
  <2>2. CASE Make(i)
    BY <1>t, <1>n, <2>2 DEF Make, TypeOK
  <2>3. CASE Crash(i)
    BY <1>t, <1>n, <2>3 DEF Crash, TypeOK
  <2>4. CASE applier(i)
    BY <1>n, <2>4 DEF applier
  <2> QED BY <1>1, <2>1, <2>2, <2>3, <2>4
<1>2. ASSUME NEW m \in voteReqs, RequestVote(m) PROVE Goal
  <2>0. m.to \in Server /\ m.term \in Nat /\ currentTerm[m.to] \in Nat
    BY <1>t, TermsAreNat, SavedType DEF TypeOK, VoteReq
  <2>1. role' = [role EXCEPT ![m.to] = IF m.term > currentTerm[m.to] THEN Follower ELSE @]
    BY <1>2 DEF RequestVote
  <2>2. j = m.to /\ m.term > currentTerm[j]
    BY <1>n, <1>t, <2>0, <2>1 DEF TypeOK
  <2>3. currentTerm'[j] = Max2(currentTerm[j], m.term)
    BY <1>2, <1>t, <2>0, <2>2 DEF RequestVote, TypeOK
  <2> QED BY <2>0, <2>2, <2>3 DEF Max2
<1>3. ASSUME NEW i \in Server, NEW t, t > currentTerm[i], becomeFollower(i, t) PROVE Goal
  <2>1. j = i
    BY <1>3, <1>n, <1>t DEF becomeFollower, TypeOK
  <2>2. currentTerm'[j] = t
    BY <1>3, <1>t, <2>1 DEF becomeFollower, TypeOK
  <2> QED BY <1>3, <2>1, <2>2
<1>4. ASSUME NEW r \in voteReps, VoteReply(r) PROVE Goal
  <2> DEFINE i == r.req.from
  <2>0. i \in Server
    BY <1>t DEF TypeOK, VoteRep, VoteReq
  <2>1. \/ r.term > currentTerm[i] /\ becomeFollower(i, r.term)
        \/ becomeLeader(i) \/ UNCHANGED role
    BY <1>4 DEF VoteReply
  <2>2. ~becomeLeader(i)
    BY <1>n, <1>t, <2>0 DEF becomeLeader, TypeOK
  <2> QED BY <1>3, <1>n, <2>0, <2>1, <2>2
<1>5. ASSUME NEW r \in appReps, AppendReplyNewerTerm(r) PROVE Goal
  <2>0. r.req.from \in Server
    BY <1>t DEF TypeOK, AppReq, AppRep
  <2>1. r.term > currentTerm[r.req.from] /\ becomeFollower(r.req.from, r.term)
    BY <1>5 DEF AppendReplyNewerTerm
  <2> QED BY <1>3, <2>0, <2>1
<1>6. ASSUME NEW m \in appReqs, AppendEntriesReject(m) \/ AppendEntriesAccept(m) PROVE Goal
  <2>0. m.to \in Server
    BY <1>t DEF TypeOK, AppReq
  <2>1. AcceptTerm(m.to, m.term)
    BY <1>6 DEF AppendEntriesReject, AppendEntriesAccept
  <2>2. j = m.to
    BY <1>n, <1>t, <2>0, <2>1 DEF AcceptTerm, TypeOK
  <2>3. currentTerm'[j] = m.term
    BY <1>t, <2>0, <2>1, <2>2 DEF AcceptTerm, TypeOK
  <2> QED BY <2>2, <2>3
<1>7. ASSUME NEW a, NEW b, \/ replicateTo(a, b) \/ Start(a, b) \/ AppendEntriesStale(a)
                           \/ AppendReplyIgnored(a) \/ AppendReplySuccess(a)
                           \/ AppendReplyBackup(a) \/ Lose \/ UNCHANGED vars
      PROVE  FALSE
  <2>1. role' = role
    BY <1>7 DEF replicateTo, Start, AppendEntriesStale, AppendReplyIgnored,
                AppendReplySuccess, AppendReplyBackup, Lose, vars
  <2> QED BY <1>n, <2>1
<1> HIDE DEF Goal
<1>8. Goal
  BY <1>1, <1>2, <1>4, <1>5, <1>6, <1>7 DEF Next
<1> QED BY <1>8 DEF Goal

\* Leader Append-Only: as long as a leader runs in its term it leads, whatever
\* calls and replies reach it, and it never overwrites or drops an entry of its
\* own log; the AppendEntries that would demote it or cut its log in its own
\* term could only come from a second leader of that term.
THEOREM LeadersNeverOverwrite == Spec => LeadersOnlyAppend
<1> DEFINE Sound == RaftInv /\ CallsFromLeaders
<1>1. Init => Sound
  <2>1. Init => CallsFromLeaders
    BY DEF Init, CallsFromLeaders
  <2> QED BY <2>1, TypeInit, ElectionInit, LogInit DEF RaftInv
<1>2. Sound /\ [Next]_vars => Sound'
  BY RaftInvStep, CallsStep
<1>3. Sound /\ [Next]_vars =>
        [\A i \in Server :
           role[i] = Leader /\ up'[i] /\ currentTerm'[i] = currentTerm[i] =>
              role'[i] = Leader /\ IsPart(log[i], log'[i])]_vars
  <2> SUFFICES ASSUME RaftInv, CallsFromLeaders, [Next]_vars, NEW i \in Server,
                      role[i] = Leader, up'[i], currentTerm'[i] = currentTerm[i]
               PROVE  role'[i] = Leader /\ IsPart(log[i], log'[i])
    OBVIOUS
  <2>0. TypeInv /\ ElectionInv /\ LeadInv /\ LeadInv'
    BY RaftInvStep DEF RaftInv, LogInv
  <2>1. TypeOK /\ TypeOK' /\ RunningRoles /\ OneLeaderPerTerm /\ Forward
    BY <2>0, BaseStep, ForwardStep
  <2>2. Leader # Follower /\ Leader # Candidate
    BY DEF Leader, Follower, Candidate
  <2>3. currentTerm[i] \in Term
    BY <2>1, <2>2 DEF RunningRoles
  <2>4. role'[i] # Follower
    <3> SUFFICES ASSUME role'[i] = Follower PROVE FALSE
      OBVIOUS
    <3>1. currentTerm[i] \in Nat
      BY <2>3, TermsAreNat
    <3>2. PICK m \in appReqs : m.to = i /\ m.term = currentTerm[i]
      BY <2>0, <3>1, StepsDown
    <3>3. PICK e \in elected[currentTerm[i]] : e.leader = m.from
      BY <3>2 DEF CallsFromLeaders
    <3>4. PICK f \in elected[currentTerm[i]] : f.leader = i
      BY <2>0 DEF LeadInv
    <3>5. m.from = i
      BY <2>1, <2>3, <3>3, <3>4 DEF OneLeaderPerTerm
    <3> QED BY <3>2, <3>5 DEF CallsFromLeaders
  <2>5. role'[i] = Leader
    <3>1. ~startElection(i) /\ \A r \in voteReps : ~Elect(i, r) /\ ~Count(i, r)
      BY <2>2 DEF startElection, Elect, Count, InElection
    <3>2. SamePeer(i) \/ \E c \in Command : Start(i, c)
      BY <2>0, <2>4, <3>1, PeerStep
    <3> QED BY <3>2 DEF SamePeer, Start
  <2>6. log[i] \in Log /\ log'[i] \in Log
    BY <2>1 DEF TypeOK
  <2>7. termLog[currentTerm[i]] = log[i] /\ termLog'[currentTerm[i]] = log'[i]
    BY <2>0, <2>5 DEF LeadInv
  <2>8. Agree(log[i], log'[i], Len(log[i]))
    BY <2>1, <2>3, <2>7 DEF Forward, Grows
  <2> QED BY <2>5, <2>6, <2>8, PartIsAgree
<1> HIDE DEF Sound
<1> QED BY <1>1, <1>2, <1>3, PTL DEF Spec, LeadersOnlyAppend
=============================================================================
