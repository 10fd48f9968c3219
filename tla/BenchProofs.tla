---------------------------- MODULE BenchProofs ----------------------------
(***************************************************************************)
(* Theorems about the programs that share nothing with one another: the    *)
(* work queue, the retries and the hedges of the layer 5 service, the      *)
(* charge, the sessions over a replica, the hand-rolled pool, the retry    *)
(* storm, the admission of the layer 5 service, the retry window and the   *)
(* pages of the orders service, the payments and their ledger, and the     *)
(* fencing demo. One section each, for every number of workers, requests   *)
(* and calls and every setting of the program. A section states the        *)
(* inductive invariant, that Init gives it, that every action keeps it,    *)
(* and what it gives.                                                      *)
(***************************************************************************)
EXTENDS JobQueue, LabRetry, Hedging, Charge, Sessions, HandPool, RetryStorm,
        LabService, RetryWindow, Paging, PayLedger, FencingDemo, LeasesProofs,
        FiniteSetTheorems, SequenceTheorems, WellFoundedInduction, TLAPS

-----------------------------------------------------------------------------
(* Counting. *)

\* An element that joins or leaves a finite set.
LEMMA CountOne ==
    ASSUME NEW S, IsFiniteSet(S), NEW x
    PROVE  /\ Cardinality(S) \in Nat
           /\ IsFiniteSet(S \cup {x}) /\ IsFiniteSet(S \ {x})
           /\ x \notin S => Cardinality(S \cup {x}) = Cardinality(S) + 1
           /\ x \in S => Cardinality(S \ {x}) = Cardinality(S) - 1
BY FS_CardinalityType, FS_AddElement, FS_RemoveElement

\* A part of a finite set has no more elements.
LEMMA CountPart ==
    ASSUME NEW S, IsFiniteSet(S), NEW T, T \subseteq S
    PROVE  /\ IsFiniteSet(T) /\ Cardinality(T) \in Nat /\ Cardinality(S) \in Nat
           /\ Cardinality(T) <= Cardinality(S)
BY FS_CardinalityType, FS_Subset

-----------------------------------------------------------------------------
(* JobQueue: skip_locked_queue.py *)

QueueTypeOK ==
    /\ skip \in BOOLEAN
    /\ done \in SUBSET Job
    /\ batch \in [Hand -> SUBSET Job]
    /\ at \in [Hand -> Nat \ {0}]
    /\ hand \in [Hand -> {"claiming", "working", "left", "raised", "out of time"}]
    /\ processed \in [Job -> Nat]

\* A row is done, or locked by one worker, or neither.
RowsHaveOneOwner ==
    /\ \A h \in Hand : batch[h] \cap done = {}
    /\ \A g, h \in Hand : g # h => batch[g] \cap batch[h] = {}

\* What a scan has passed is done or in somebody's hands, unless a worker failed
\* and let go of what it held.
PassedIsTaken ==
    \/ \E g \in Hand : hand[g] = "raised"
    \/ \A h \in Hand, j \in Job : j < at[h] => j \in done \/ \E g \in Hand : j \in batch[g]

\* A worker leaves with empty hands, at the end of the table.
LeavesAtTheEnd ==
    \A h \in Hand : hand[h] = "left" => batch[h] = {} /\ at[h] > JOBS

CountedOnce == \A j \in Job : processed[j] = IF j \in done THEN 1 ELSE 0

QueueInv ==
    QueueTypeOK /\ RowsHaveOneOwner /\ PassedIsTaken /\ LeavesAtTheEnd /\ CountedOnce

\* Every row is ready and nobody holds one.
LEMMA QueueStarts == QueueInit => QueueInv
BY JobQueueAssumption DEF QueueInit, QueueInv, QueueTypeOK, RowsHaveOneOwner, PassedIsTaken,
   LeavesAtTheEnd, CountedOnce, Job

\* One row of a scan: it becomes the worker's, or it is done or another's.
LEMMA ScanKeepsQueue ==
    ASSUME QueueInv, NEW h \in Hand, scanRow(h)
    PROVE  QueueInv'
<1> USE DEF QueueInv
<1> DEFINE j == at[h]
<1>1. j \in Job /\ j \in Nat \ {0}
  <2>1. j \in Nat \ {0}  BY DEF QueueTypeOK
  <2>2. j <= JOBS  BY DEF scanRow, More
  <2>3. QED BY <2>1, <2>2, JobQueueAssumption DEF Job
<1>2. at' = [at EXCEPT ![h] = j + 1] /\ UNCHANGED <<skip, done, hand, processed>>
  BY DEF scanRow
<1>3. \A g \in Hand : at'[g] = IF g = h THEN j + 1 ELSE at[g]
  BY <1>2 DEF QueueTypeOK
<1>4. hand[h] = "claiming"
  BY DEF scanRow, More
<1>5. /\ batch' \in [Hand -> SUBSET Job]
      /\ \A g \in Hand : batch[g] \subseteq batch'[g]
      /\ \A g \in Hand : g # h => batch'[g] = batch[g]
      /\ j \in done \/ \E g \in Hand : j \in batch'[g]
      /\ RowsHaveOneOwner'
  <2>1. CASE Lockable(h, j) /\ batch' = [batch EXCEPT ![h] = @ \cup {j}]
    <3>1. /\ batch' \in [Hand -> SUBSET Job]
          /\ \A g \in Hand : batch'[g] = IF g = h THEN batch[h] \cup {j} ELSE batch[g]
      BY <1>1, <2>1 DEF QueueTypeOK
    <3>2. j \notin done /\ \A g \in Hand : g # h => j \notin batch[g]
      BY <2>1 DEF Lockable, Locked
    <3>3. RowsHaveOneOwner'
      BY <1>2, <3>1, <3>2 DEF RowsHaveOneOwner
    <3>4. QED BY <3>1, <3>3
  <2>2. CASE ~Lockable(h, j) /\ UNCHANGED batch
    BY <1>1, <1>2, <2>2 DEF Lockable, Locked, QueueTypeOK, RowsHaveOneOwner
  <2>3. QED BY <2>1, <2>2 DEF scanRow
<1>6. at' \in [Hand -> Nat \ {0}]
  <2>1. j + 1 \in Nat \ {0}  BY <1>1
  <2>2. QED BY <1>2, <2>1 DEF QueueTypeOK
<1>7. QueueTypeOK'
  BY <1>2, <1>5, <1>6 DEF QueueTypeOK
<1>8. PassedIsTaken'
  <2>1. CASE \E g \in Hand : hand[g] = "raised"
    BY <1>2, <2>1 DEF PassedIsTaken
  <2>2. CASE ~\E g \in Hand : hand[g] = "raised"
    <3>1. SUFFICES ASSUME NEW g \in Hand, NEW i \in Job, i < at'[g]
                   PROVE  i \in done' \/ \E f \in Hand : i \in batch'[f]
      BY DEF PassedIsTaken
    <3>2. CASE i < at[g]
      BY <1>2, <1>5, <2>2, <3>2 DEF PassedIsTaken
    <3>3. CASE ~(i < at[g])
      <4>1. at[g] \in Nat  BY DEF QueueTypeOK
      <4>2. i \in Nat  BY DEF Job
      <4>3. i = j  BY <1>1, <1>3, <3>1, <3>3, <4>1, <4>2
      <4>4. QED BY <1>2, <1>5, <4>3
    <3>4. QED BY <3>2, <3>3
  <2>3. QED BY <2>1, <2>2
<1>9. LeavesAtTheEnd'
  BY <1>2, <1>3, <1>4, <1>5 DEF LeavesAtTheEnd
<1>10. CountedOnce'
  BY <1>2 DEF CountedOnce
<1>11. QED BY <1>5, <1>7, <1>8, <1>9, <1>10

\* The claim returns: an empty one only after a scan of the whole table.
LEMMA ClaimedKeepsQueue ==
    ASSUME QueueInv, NEW h \in Hand, claimed(h)
    PROVE  QueueInv'
<1> USE DEF QueueInv
<1>1. /\ hand' = [hand EXCEPT ![h] = IF batch[h] = {} THEN "left" ELSE "working"]
      /\ UNCHANGED <<skip, done, batch, at, processed>>
  BY DEF claimed
<1>2. batch[h] = {} => at[h] > JOBS
  <2>1. SUFFICES ASSUME batch[h] = {}  PROVE at[h] > JOBS
    OBVIOUS
  <2>2. Cardinality(batch[h]) = 0  BY <2>1, FS_EmptySet
  <2>3. ~(at[h] <= JOBS)
    BY <2>2, JobQueueAssumption DEF claimed, More
  <2>4. at[h] \in Nat  BY DEF QueueTypeOK
  <2>5. QED BY <2>3, <2>4, JobQueueAssumption
<1>3. QueueTypeOK'  BY <1>1 DEF QueueTypeOK
<1>4. RowsHaveOneOwner' /\ CountedOnce'
  BY <1>1 DEF RowsHaveOneOwner, CountedOnce
<1>5. PassedIsTaken'
  BY <1>1 DEF PassedIsTaken, QueueTypeOK, claimed
<1>6. LeavesAtTheEnd'
  BY <1>1, <1>2 DEF LeavesAtTheEnd, QueueTypeOK
<1>7. QED BY <1>3, <1>4, <1>5, <1>6

\* COMMIT: the rows of the batch are done, and counted now.
LEMMA CommitKeepsQueue ==
    ASSUME QueueInv, NEW h \in Hand, commitBatch(h)
    PROVE  QueueInv'
<1> USE DEF QueueInv
<1>1. /\ done' = done \cup batch[h]
      /\ batch' = [batch EXCEPT ![h] = {}] /\ at' = [at EXCEPT ![h] = 1]
      /\ hand' = [hand EXCEPT ![h] = "claiming"] /\ UNCHANGED skip
  BY DEF commitBatch
<1>2. \A g \in Hand : batch'[g] = (IF g = h THEN {} ELSE batch[g])
                   /\ at'[g] = (IF g = h THEN 1 ELSE at[g])
                   /\ hand'[g] = (IF g = h THEN "claiming" ELSE hand[g])
  BY <1>1 DEF QueueTypeOK
<1>3. processed' = [j \in Job |-> processed[j] + IF j \in batch[h] THEN 1 ELSE 0]
  BY DEF commitBatch
<1>4. processed' \in [Job -> Nat] /\ CountedOnce'
  <2>1. \A j \in Job : processed[j] \in Nat /\ processed[j] = IF j \in done THEN 1 ELSE 0
    BY DEF QueueTypeOK, CountedOnce
  <2>2. batch[h] \cap done = {}  BY DEF RowsHaveOneOwner
  <2>3. \A j \in Job : processed'[j] = (IF j \in done' THEN 1 ELSE 0)
    BY <1>1, <1>3, <2>1, <2>2
  <2>4. QED BY <1>3, <2>3 DEF CountedOnce
<1>5. QueueTypeOK'
  <2>1. at' \in [Hand -> Nat \ {0}]
    <3>1. at \in [Hand -> Nat \ {0}]  BY DEF QueueTypeOK
    <3>2. 1 \in Nat \ {0}  OBVIOUS
    <3>3. QED BY <1>1, <3>1, <3>2
  <2>2. QED BY <1>1, <1>4, <2>1 DEF QueueTypeOK
<1>6. RowsHaveOneOwner'
  BY <1>1, <1>2 DEF RowsHaveOneOwner
<1>7. LeavesAtTheEnd'
  BY <1>2 DEF LeavesAtTheEnd
<1>8. PassedIsTaken'
  <2>1. CASE \E g \in Hand : hand[g] = "raised"
    BY <1>2, <2>1 DEF PassedIsTaken, commitBatch
  <2>2. CASE ~\E g \in Hand : hand[g] = "raised"
    <3>1. \A g \in Hand, j \in Job : j < at'[g] => j < at[g]
      <4>1. \A j \in Job : ~(j < 1)  BY DEF Job
      <4>2. QED BY <1>2, <4>1
    <3>2. \A j \in Job : j \in done \/ (\E g \in Hand : j \in batch[g])
              => j \in done' \/ \E g \in Hand : j \in batch'[g]
      BY <1>1, <1>2
    <3>3. QED BY <2>2, <3>1, <3>2 DEF PassedIsTaken
  <2>3. QED BY <2>1, <2>2
<1>9. QED BY <1>4, <1>5, <1>6, <1>7, <1>8

\* ROLLBACK, or the deadline between two claims: what was claimed is ready again.
LEMMA FailureKeepsQueue ==
    ASSUME QueueInv, NEW h \in Hand, raise(h) \/ ceiling(h)
    PROVE  QueueInv'
<1> USE DEF QueueInv
<1>1. CASE raise(h)
  <2>1. \A g \in Hand : batch'[g] \subseteq batch[g]
    BY <1>1 DEF raise, QueueTypeOK
  <2>2. hand'[h] = "raised" /\ \A g \in Hand : hand'[g] = "left" => hand[g] = "left"
    BY <1>1 DEF raise, QueueTypeOK
  <2>3. QueueTypeOK'
    BY <1>1 DEF raise, QueueTypeOK
  <2>4. RowsHaveOneOwner' /\ CountedOnce'
    BY <1>1, <2>1 DEF raise, RowsHaveOneOwner, CountedOnce
  <2>5. PassedIsTaken'  BY <2>2 DEF PassedIsTaken
  <2>6. LeavesAtTheEnd'
    BY <1>1, <2>1, <2>2 DEF raise, LeavesAtTheEnd
  <2>7. QED BY <2>3, <2>4, <2>5, <2>6
<1>2. CASE ceiling(h)
  <2>1. UNCHANGED <<skip, done, batch, at, processed>>
    BY <1>2 DEF ceiling
  <2>2. /\ hand' = [hand EXCEPT ![h] = "out of time"]
        /\ \A g \in Hand : hand'[g] \in {hand[g], "out of time"}
        /\ \A g \in Hand : hand[g] = "raised" => hand'[g] = "raised"
    BY <1>2 DEF ceiling, QueueTypeOK
  <2>3. QueueTypeOK'  BY <2>1, <2>2 DEF QueueTypeOK
  <2>4. RowsHaveOneOwner' /\ CountedOnce'
    BY <2>1 DEF RowsHaveOneOwner, CountedOnce
  <2>5. PassedIsTaken'  BY <2>1, <2>2 DEF PassedIsTaken
  <2>6. LeavesAtTheEnd'  BY <2>1, <2>2 DEF LeavesAtTheEnd
  <2>7. QED BY <2>3, <2>4, <2>5, <2>6
<1>3. QED BY <1>1, <1>2

\* For any number of workers, jobs and rows per claim, with SKIP LOCKED and
\* without: no job is processed twice, and when all workers have left nothing is
\* left over.
THEOREM QueueRunsEveryJobOnce == QueueSpec => []EveryJobOnce
<1>1. QueueInv /\ [QueueNext]_queueVars => QueueInv'
  <2>1. SUFFICES ASSUME QueueInv, [QueueNext]_queueVars  PROVE QueueInv'
    OBVIOUS
  <2>2. CASE UNCHANGED queueVars
    BY <2>1, <2>2 DEF queueVars, QueueInv, QueueTypeOK, RowsHaveOneOwner, PassedIsTaken,
       LeavesAtTheEnd, CountedOnce
  <2>3. CASE QueueNext
    BY <2>1, <2>3, ScanKeepsQueue, ClaimedKeepsQueue, CommitKeepsQueue, FailureKeepsQueue
       DEF QueueNext
  <2>4. QED BY <2>1, <2>2, <2>3
<1>2. QueueInv => EveryJobOnce
  <2>1. SUFFICES ASSUME QueueInv, \A h \in Hand : hand[h] = "left"
                 PROVE  done = Job
    BY DEF QueueInv, CountedOnce, EveryJobOnce
  <2>2. PICK h \in Hand : TRUE
    BY JobQueueAssumption
  <2>3. ~\E g \in Hand : hand[g] = "raised"
    BY <2>1
  <2>4. \A g \in Hand : batch[g] = {}
    BY <2>1 DEF QueueInv, LeavesAtTheEnd
  <2>5. \A j \in Job : j < at[h]
    <3>1. at[h] > JOBS /\ at[h] \in Nat
      BY <2>1 DEF QueueInv, QueueTypeOK, LeavesAtTheEnd
    <3>2. QED BY <3>1, JobQueueAssumption DEF Job
  <2>6. Job \subseteq done
    BY <2>1, <2>3, <2>4, <2>5 DEF QueueInv, PassedIsTaken
  <2>7. QED BY <2>1, <2>6 DEF QueueInv, QueueTypeOK
<1>3. QED BY QueueStarts, <1>1, <1>2, PTL DEF QueueSpec

-----------------------------------------------------------------------------
(* LabRetry: with_retries and RetryBudget of the layer 5 service *)

RetryTypeOK ==
    /\ budgeted \in BOOLEAN /\ inCache \in BOOLEAN
    /\ path \in [Trip -> {"chain", "cached"}]
    /\ trip \in [Trip -> {"new", "calling", "sleeping", "filling", "answered"}]
    /\ answer \in [Trip -> {"none", "ok", "refused", "failed", "hit"}]

RetryCounts == retryTokens \in Nat /\ retriesSent \in Nat

\* A request that is not over has no result, or a failure that it may retry.
UnderWayHasNoResult ==
    \A t \in Trip :
        trip[t] \in {"new", "calling", "sleeping"} => answer[t] \in {"none", "failed"}

\* The cache is filled with what a request of /cached has got.
FilledBySuccess ==
    /\ \A t \in Trip : trip[t] = "filling" => path[t] = "cached" /\ answer[t] = "ok"
    /\ inCache => \E u \in Trip : path[u] = "cached" /\ answer[u] = "ok"

Succeeded == {t \in Trip : answer[t] \in {"ok", "refused"}}

RetryInv ==
    /\ RetryTypeOK /\ RetryCounts
    /\ UnderWayHasNoResult /\ FilledBySuccess
    /\ RetriesArePaidFor

\* No tokens, no results and nothing in the cache.
LEMMA RetryStarts == RetryInit => RetryInv
<1>1. SUFFICES ASSUME RetryInit  PROVE RetryInv
  OBVIOUS
<1>2. RetryTypeOK /\ UnderWayHasNoResult /\ FilledBySuccess
  BY <1>1, LabRetryAssumption DEF RetryInit, RetryTypeOK, UnderWayHasNoResult, FilledBySuccess
<1>3. RetryCounts
  BY <1>1 DEF RetryInit, RetryCounts
<1>4. Succeeded = {}
  BY <1>1 DEF RetryInit, Succeeded
<1>5. Cardinality(Succeeded) = 0
  BY <1>4, FS_EmptySet
<1>6. PerRetry * retriesSent + retryTokens = 0
  BY <1>1, LabRetryAssumption DEF RetryInit
<1>7. \A t \in Trip : answer[t] # "hit"
  BY <1>1 DEF RetryInit
<1>8. RetriesArePaidFor
  BY <1>5, <1>6, <1>7 DEF RetriesArePaidFor, Succeeded
<1>9. QED BY <1>2, <1>3, <1>8 DEF RetryInv

\* What an action that leaves the results and the budget alone has to keep.
LEMMA PaidAsBefore ==
    ASSUME RetriesArePaidFor,
           UNCHANGED <<budgeted, retryTokens, retriesSent, path, answer>>
    PROVE  RetriesArePaidFor'
BY DEF RetriesArePaidFor

\* A request comes in: it calls, or it is a hit that a success has paid for.
LEMMA ArriveKeepsRetry ==
    ASSUME RetryInv, NEW t \in Trip, arrive(t)
    PROVE  RetryInv'
<1> USE DEF RetryInv
<1>1. UNCHANGED <<budgeted, retryTokens, inCache, path, retriesSent>> /\ trip[t] = "new"
  BY DEF arrive
<1>2. CASE begin(t)
  <2>1. trip' = [trip EXCEPT ![t] = "calling"] /\ UNCHANGED answer
    BY <1>2 DEF begin
  <2>2. RetryTypeOK' /\ RetryCounts'
    BY <1>1, <2>1 DEF RetryTypeOK, RetryCounts
  <2>3. UnderWayHasNoResult' /\ FilledBySuccess'
    BY <1>1, <2>1 DEF RetryTypeOK, UnderWayHasNoResult, FilledBySuccess
  <2>4. QED BY <1>1, <2>1, <2>2, <2>3, PaidAsBefore
<1>3. CASE /\ inCache
           /\ trip' = [trip EXCEPT ![t] = "answered"]
           /\ answer' = [answer EXCEPT ![t] = "hit"]
  <2>1. \A u \in Trip : answer'[u] = IF u = t THEN "hit" ELSE answer[u]
    BY <1>3 DEF RetryTypeOK
  <2>2. answer[t] \in {"none", "failed"}
    BY <1>1 DEF UnderWayHasNoResult
  <2>3. Succeeded' = Succeeded
    BY <2>1, <2>2 DEF Succeeded
  <2>4. PICK u \in Trip : path[u] = "cached" /\ answer[u] = "ok"
    BY <1>3 DEF FilledBySuccess
  <2>5. answer'[u] = "ok"
    BY <2>1, <2>2, <2>4
  <2>6. RetryTypeOK' /\ RetryCounts'
    BY <1>1, <1>3 DEF RetryTypeOK, RetryCounts
  <2>7. UnderWayHasNoResult' /\ FilledBySuccess'
    BY <1>1, <1>3, <2>1, <2>2, <2>4, <2>5 DEF RetryTypeOK, UnderWayHasNoResult, FilledBySuccess
  <2>8. RetriesArePaidFor'
    BY <1>1, <2>3, <2>4, <2>5 DEF RetriesArePaidFor, Succeeded
  <2>9. QED BY <2>6, <2>7, <2>8
<1>4. QED BY <1>2, <1>3 DEF arrive

\* An attempt returns: one more success for at most one more token.
LEMMA ReturnKeepsRetry ==
    ASSUME RetryInv, NEW t \in Trip, NEW r \in {"ok", "refused", "failed"},
           attemptReturns(t, r)
    PROVE  RetryInv'
<1> USE DEF RetryInv
<1>1. /\ UNCHANGED <<budgeted, inCache, path, retriesSent>>
      /\ trip[t] = "calling" /\ (r = "refused" => path[t] = "chain")
      /\ answer' = [answer EXCEPT ![t] = r]
  BY DEF attemptReturns
<1>2. PICK w : /\ trip' = [trip EXCEPT ![t] = w]
               /\ r # "failed" => w = IF path[t] = "cached" THEN "filling" ELSE "answered"
               /\ r = "failed" => w \in {"answered", "sleeping"}
  <2>1. PICK w \in IF r # "failed"
                   THEN {IF path[t] = "cached" THEN "filling" ELSE "answered"}
                   ELSE {"answered"} \cup (IF tries[t] < Attempts THEN {"sleeping"} ELSE {}) :
            trip' = [trip EXCEPT ![t] = w]
    BY DEF attemptReturns
  <2>2. QED BY <2>1
<1>3. /\ \A u \in Trip : answer'[u] = IF u = t THEN r ELSE answer[u]
      /\ \A u \in Trip : trip'[u] = IF u = t THEN w ELSE trip[u]
  BY <1>1, <1>2 DEF RetryTypeOK
<1>4. answer[t] \in {"none", "failed"}
  BY <1>1 DEF UnderWayHasNoResult
<1>5. RetryTypeOK'
  BY <1>1, <1>2 DEF RetryTypeOK
<1>6. \A u \in Trip : answer[u] = "ok" => answer'[u] = "ok"
  BY <1>3, <1>4
<1>7. UnderWayHasNoResult' /\ FilledBySuccess'
  BY <1>1, <1>2, <1>3, <1>6 DEF RetryTypeOK, UnderWayHasNoResult, FilledBySuccess
<1>8. /\ Cardinality(Succeeded) \in Nat /\ Cardinality(Succeeded') \in Nat
      /\ Cardinality(Succeeded') = Cardinality(Succeeded) + IF r # "failed" THEN 1 ELSE 0
  <2>1. IsFiniteSet(Succeeded)
    BY LabRetryAssumption, FS_Subset DEF Succeeded
  <2>2. t \notin Succeeded
    BY <1>4 DEF Succeeded
  <2>3. Succeeded' = IF r # "failed" THEN Succeeded \cup {t} ELSE Succeeded
    BY <1>3, <1>4 DEF Succeeded
  <2>4. /\ Cardinality(Succeeded) \in Nat
        /\ Cardinality(Succeeded \cup {t}) = Cardinality(Succeeded) + 1
    BY <2>1, <2>2, CountOne
  <2>5. QED BY <2>3, <2>4
<1>9. /\ RetryCounts'
      /\ budgeted => retryTokens' <= retryTokens + IF r # "failed" THEN 1 ELSE 0
  <2>1. CASE Deposits(r) /\ retryTokens < Bank * PerRetry
    BY <1>1, <2>1 DEF attemptReturns, RetryCounts, Deposits
  <2>2. CASE ~(Deposits(r) /\ retryTokens < Bank * PerRetry)
    BY <1>1, <2>2 DEF attemptReturns, RetryCounts, Deposits
  <2>3. QED BY <2>1, <2>2
<1>10. RetriesArePaidFor'
  <2>1. budgeted => PerRetry * retriesSent + retryTokens' <= Cardinality(Succeeded')
    <3>1. PerRetry * retriesSent \in Nat
      BY LabRetryAssumption DEF RetryCounts
    <3>2. budgeted => PerRetry * retriesSent + retryTokens <= Cardinality(Succeeded)
      BY DEF RetriesArePaidFor, Succeeded
    <3>3. retryTokens \in Nat /\ retryTokens' \in Nat
      BY <1>9 DEF RetryCounts
    <3>4. QED BY <1>8, <1>9, <3>1, <3>2, <3>3
  <2>2. \A u \in Trip : answer'[u] = "hit" =>
            \E v \in Trip : path[v] = "cached" /\ answer'[v] = "ok"
    BY <1>3, <1>6 DEF RetriesArePaidFor
  <2>3. QED BY <1>1, <2>1, <2>2 DEF RetriesArePaidFor, Succeeded
<1>11. QED BY <1>5, <1>7, <1>9, <1>10

\* The next attempt costs what PerRetry successes have paid in.
LEMMA AgainKeepsRetry ==
    ASSUME RetryInv, NEW t \in Trip, again(t)
    PROVE  RetryInv'
<1> USE DEF RetryInv
<1>1. /\ trip[t] = "sleeping" /\ UNCHANGED <<budgeted, inCache, path, answer>>
      /\ trip' = [trip EXCEPT ![t] = "calling"]
      /\ retriesSent' = retriesSent + 1
      /\ budgeted => retryTokens >= PerRetry
      /\ retryTokens' = IF budgeted THEN retryTokens - PerRetry ELSE retryTokens
  BY DEF again
<1>2. RetryTypeOK' /\ UnderWayHasNoResult' /\ FilledBySuccess'
  BY <1>1 DEF RetryTypeOK, UnderWayHasNoResult, FilledBySuccess
<1>3. RetryCounts'
  BY <1>1, LabRetryAssumption DEF RetryCounts, RetryTypeOK
<1>4. PerRetry * (retriesSent + 1) = PerRetry * retriesSent + PerRetry
  BY LabRetryAssumption DEF RetryCounts
<1>5. budgeted => PerRetry * retriesSent' + retryTokens' = PerRetry * retriesSent + retryTokens
  <2>1. PerRetry * retriesSent \in Nat /\ PerRetry \in Nat /\ retryTokens \in Nat
    BY LabRetryAssumption DEF RetryCounts
  <2>2. QED BY <1>1, <1>4, <2>1
<1>6. RetriesArePaidFor'
  BY <1>1, <1>5 DEF RetriesArePaidFor
<1>7. QED BY <1>2, <1>3, <1>6

\* The rest moves no token: a retry that is refused, the fill, and a key that
\* leaves the cache.
LEMMA QuietKeepsRetry ==
    ASSUME RetryInv, (\E t \in Trip : denied(t) \/ fill(t)) \/ flushall
    PROVE  RetryInv'
<1> USE DEF RetryInv
<1>1. UNCHANGED <<budgeted, retryTokens, retriesSent, path, answer>>
  BY DEF denied, fill, flushall
<1>2. RetryCounts' /\ RetriesArePaidFor'
  BY <1>1, PaidAsBefore DEF RetryCounts
<1>3. CASE \E t \in Trip : denied(t)
  <2>1. PICK t \in Trip : denied(t)  BY <1>3
  <2>2. QED BY <1>1, <1>2, <2>1 DEF denied, RetryTypeOK, UnderWayHasNoResult, FilledBySuccess
<1>4. CASE \E t \in Trip : fill(t)
  <2>1. PICK t \in Trip : fill(t)  BY <1>4
  <2>2. path[t] = "cached" /\ answer[t] = "ok"
    BY <2>1 DEF fill, FilledBySuccess
  <2>3. inCache' \in BOOLEAN /\ trip' = [trip EXCEPT ![t] = "answered"]
    BY <2>1 DEF fill, RetryTypeOK
  <2>4. QED BY <1>1, <1>2, <2>2, <2>3 DEF RetryTypeOK, UnderWayHasNoResult, FilledBySuccess
<1>5. CASE flushall
  BY <1>1, <1>2, <1>5 DEF flushall, RetryTypeOK, UnderWayHasNoResult, FilledBySuccess
<1>6. QED BY <1>3, <1>4, <1>5

\* For any number of requests and any budget: retries are paid for by requests
\* that got a result, however they overlap, and a cache hit by one that succeeded.
THEOREM RetriesStayWithinTheBudget == RetrySpec => []RetriesArePaidFor
<1>1. RetryInv /\ [RetryNext]_retryVars => RetryInv'
  <2>1. SUFFICES ASSUME RetryInv, [RetryNext]_retryVars  PROVE RetryInv'
    OBVIOUS
  <2>2. CASE UNCHANGED retryVars
    BY <2>1, <2>2, PaidAsBefore DEF retryVars, RetryInv, RetryTypeOK, RetryCounts,
       UnderWayHasNoResult, FilledBySuccess
  <2>3. CASE RetryNext
    BY <2>1, <2>3, ArriveKeepsRetry, ReturnKeepsRetry, AgainKeepsRetry, QuietKeepsRetry
       DEF RetryNext
  <2>4. QED BY <2>1, <2>2, <2>3
<1>2. RetryInv => RetriesArePaidFor
  BY DEF RetryInv
<1>3. QED BY RetryStarts, <1>1, <1>2, PTL DEF RetrySpec

-----------------------------------------------------------------------------
(* Hedging: hedged_call of the layer 5 service *)

Copy == {"none", "running", "ok", "failed", "cancelled"}

HedgingTypeOK ==
    /\ hedge \in BOOLEAN
    /\ leg \in [Leg -> {"new", "timed", "waiting", "hedged", "done"}]
    /\ copy \in [Leg -> [{"first", "second"} -> Copy]]
    /\ result \in [Leg -> Over \cup {"none"}]

HedgingCounts == hedgeTokens \in Nat /\ hedges \in Nat

\* There is a second copy only of a call that was hedged, and a clock on a call
\* only when hedging is on.
SecondIsAHedge ==
    \A l \in Leg : /\ leg[l] \in {"new", "timed", "waiting"} => copy[l].second = "none"
                   /\ leg[l] = "timed" => hedge

\* Nobody works any more for a call that has returned.
ReturnedIsOver ==
    \A l \in Leg : leg[l] = "done" =>
        /\ copy[l].first # "running" /\ copy[l].second # "running"
        /\ result[l] \in Over /\ result[l] \in {copy[l].first, copy[l].second}

Unhedged == {l \in Leg : leg[l] \in {"done", "waiting"}}

\* Hedges and tokens together are paid for by calls that are over or go on alone.
HedgesArePaidFor ==
    /\ PerHedge * hedges + hedgeTokens <= Cardinality(Unhedged)
    /\ hedge \/ hedges = 0

HedgingInv ==
    /\ HedgingTypeOK /\ HedgingCounts
    /\ SecondIsAHedge /\ ReturnedIsOver /\ HedgesArePaidFor

\* No call has begun, and nothing has been paid in.
LEMMA HedgingStarts == HedgingInit => HedgingInv
<1>1. SUFFICES ASSUME HedgingInit  PROVE HedgingInv
  OBVIOUS
<1>2. [first |-> "none", second |-> "none"] = [i \in {"first", "second"} |-> "none"]
  OBVIOUS
<1>3. HedgingTypeOK
  BY <1>1, <1>2, HedgingAssumption DEF HedgingInit, HedgingTypeOK, Copy, Over
<1>4. HedgingCounts
  BY <1>1 DEF HedgingInit, HedgingCounts
<1>5. SecondIsAHedge /\ ReturnedIsOver
  BY <1>1 DEF HedgingInit, SecondIsAHedge, ReturnedIsOver
<1>6. Cardinality(Unhedged) = 0
  <2>1. Unhedged = {}  BY <1>1 DEF HedgingInit, Unhedged
  <2>2. QED BY <2>1, FS_EmptySet
<1>7. HedgesArePaidFor
  BY <1>1, <1>6, HedgingAssumption DEF HedgingInit, HedgesArePaidFor
<1>8. QED BY <1>3, <1>4, <1>5, <1>7 DEF HedgingInv

\* The number of calls that are over or go on alone, when one of them changes.
LEMMA CountUnhedged ==
    ASSUME HedgingTypeOK, NEW l \in Leg, NEW where,
           leg' = [leg EXCEPT ![l] = where]
    PROVE  /\ Cardinality(Unhedged) \in Nat /\ Cardinality(Unhedged') \in Nat
           /\ leg[l] \notin {"done", "waiting"} /\ where \in {"done", "waiting"} =>
                 Cardinality(Unhedged') = Cardinality(Unhedged) + 1
           /\ (leg[l] \in {"done", "waiting"} <=> where \in {"done", "waiting"}) =>
                 Cardinality(Unhedged') = Cardinality(Unhedged)
<1>1. IsFiniteSet(Unhedged) /\ IsFiniteSet(Unhedged')
  BY HedgingAssumption, FS_Subset DEF Unhedged
<1>2. \A k \in Leg : leg'[k] = IF k = l THEN where ELSE leg[k]
  BY DEF HedgingTypeOK
<1>3. ASSUME leg[l] \notin {"done", "waiting"}, where \in {"done", "waiting"}
      PROVE  Cardinality(Unhedged') = Cardinality(Unhedged) + 1
  <2>1. Unhedged' = Unhedged \cup {l} /\ l \notin Unhedged
    BY <1>2, <1>3 DEF Unhedged
  <2>2. QED BY <1>1, <2>1, CountOne
<1>4. ASSUME leg[l] \in {"done", "waiting"} <=> where \in {"done", "waiting"}
      PROVE  Cardinality(Unhedged') = Cardinality(Unhedged)
  <2>1. Unhedged' = Unhedged
    BY <1>2, <1>4 DEF Unhedged
  <2>2. QED BY <2>1
<1>5. QED BY <1>1, <1>3, <1>4, FS_CardinalityType

\* A deposit adds at most one token.
LEMMA DepositsOne ==
    ASSUME HedgingCounts, Deposit, UNCHANGED hedges
    PROVE  HedgingCounts' /\ hedgeTokens' <= hedgeTokens + 1
BY DEF HedgingCounts, Deposit

\* A call that pays in is one more that is over or goes on alone.
LEMMA DepositIsPaidFor ==
    ASSUME HedgingInv, NEW l \in Leg, NEW where \in {"done", "waiting"},
           leg' = [leg EXCEPT ![l] = where], leg[l] \notin {"done", "waiting"},
           Deposit, UNCHANGED <<hedge, hedges>>
    PROVE  HedgesArePaidFor' /\ HedgingCounts'
<1>1. /\ Cardinality(Unhedged) \in Nat
      /\ Cardinality(Unhedged') = Cardinality(Unhedged) + 1
  BY CountUnhedged DEF HedgingInv
<1>2. HedgingCounts' /\ hedgeTokens' <= hedgeTokens + 1
  BY DepositsOne DEF HedgingInv
<1>3. PerHedge * hedges \in Nat
  BY HedgingAssumption DEF HedgingInv, HedgingCounts
<1>4. hedgeTokens \in Nat /\ hedgeTokens' \in Nat
  BY <1>2 DEF HedgingInv, HedgingCounts
<1>5. PerHedge * hedges + hedgeTokens' <= Cardinality(Unhedged')
  BY <1>1, <1>2, <1>3, <1>4 DEF HedgingInv, HedgesArePaidFor
<1>6. QED BY <1>2, <1>5 DEF HedgingInv, HedgesArePaidFor

\* A call moves and pays nothing.
LEMMA FreeIsPaidFor ==
    ASSUME HedgingInv, NEW l \in Leg, NEW where,
           leg' = [leg EXCEPT ![l] = where],
           leg[l] \in {"done", "waiting"} => where \in {"done", "waiting"},
           UNCHANGED <<hedge, hedges, hedgeTokens>>
    PROVE  HedgesArePaidFor' /\ HedgingCounts'
<1>1. /\ Cardinality(Unhedged) \in Nat /\ Cardinality(Unhedged') \in Nat
      /\ Cardinality(Unhedged) <= Cardinality(Unhedged')
  <2>1. HedgingTypeOK  BY DEF HedgingInv
  <2>2. Cardinality(Unhedged) \in Nat /\ Cardinality(Unhedged') \in Nat
    BY <2>1, CountUnhedged
  <2>3. CASE leg[l] \in {"done", "waiting"} <=> where \in {"done", "waiting"}
    <3>1. Cardinality(Unhedged') = Cardinality(Unhedged)  BY <2>1, <2>3, CountUnhedged
    <3>2. QED BY <2>2, <3>1
  <2>4. CASE leg[l] \notin {"done", "waiting"} /\ where \in {"done", "waiting"}
    <3>1. Cardinality(Unhedged') = Cardinality(Unhedged) + 1  BY <2>1, <2>4, CountUnhedged
    <3>2. QED BY <2>2, <3>1
  <2>5. QED BY <2>3, <2>4
<1>2. PerHedge * hedges \in Nat /\ hedgeTokens \in Nat
  BY HedgingAssumption DEF HedgingInv, HedgingCounts
<1>3. PerHedge * hedges + hedgeTokens <= Cardinality(Unhedged')
  BY <1>1, <1>2 DEF HedgingInv, HedgesArePaidFor
<1>4. QED BY <1>3 DEF HedgingInv, HedgesArePaidFor, HedgingCounts

\* The first copy goes out.
LEMMA CallKeepsHedging ==
    ASSUME HedgingInv, NEW l \in Leg, hedged_call(l)
    PROVE  HedgingInv'
<1> USE DEF HedgingInv
<1>1. PICK where \in {"timed", "waiting"} :
          leg' = [leg EXCEPT ![l] = where] /\ (where = "timed" => hedge)
  BY DEF hedged_call
<1>2. /\ leg[l] = "new" /\ copy' = [copy EXCEPT ![l].first = "running"]
      /\ UNCHANGED <<hedge, hedgeTokens, hedges, result>>
  BY DEF hedged_call
<1>3. HedgingTypeOK'
  BY <1>1, <1>2 DEF HedgingTypeOK, Copy
<1>4. /\ \A k \in Leg : leg'[k] = IF k = l THEN where ELSE leg[k]
      /\ \A k \in Leg : k # l => copy'[k] = copy[k]
      /\ copy'[l].second = copy[l].second
  BY <1>1, <1>2 DEF HedgingTypeOK
<1>5. SecondIsAHedge' /\ ReturnedIsOver'
  BY <1>1, <1>2, <1>4 DEF SecondIsAHedge, ReturnedIsOver
<1>6. HedgesArePaidFor' /\ HedgingCounts'
  BY <1>1, <1>2, FreeIsPaidFor
<1>7. QED BY <1>3, <1>5, <1>6

\* A copy that runs belongs to a call that has not returned.
LEMMA AnswerKeepsHedging ==
    ASSUME HedgingInv, NEW l \in Leg, NEW i \in {"first", "second"}, backendAnswers(l, i)
    PROVE  HedgingInv'
<1> USE DEF HedgingInv
<1>1. PICK r \in Over : copy' = [copy EXCEPT ![l][i] = r]
  BY DEF backendAnswers
<1>2. copy[l][i] = "running" /\ UNCHANGED <<hedge, hedgeTokens, leg, hedges, result>>
  BY DEF backendAnswers
<1>3. HedgingTypeOK'
  BY <1>1, <1>2 DEF HedgingTypeOK, Copy, Over
<1>4. /\ \A k \in Leg : k # l => copy'[k] = copy[k]
      /\ copy'[l][i] = r
      /\ \A j \in {"first", "second"} : j # i => copy'[l][j] = copy[l][j]
  BY <1>1 DEF HedgingTypeOK
<1>5. i = "first" \/ i = "second"
  OBVIOUS
<1>6. leg[l] # "done" /\ (i = "second" => leg[l] = "hedged")
  BY <1>2, <1>5 DEF ReturnedIsOver, SecondIsAHedge, HedgingTypeOK
<1>7. SecondIsAHedge' /\ ReturnedIsOver'
  BY <1>2, <1>4, <1>6 DEF SecondIsAHedge, ReturnedIsOver
<1>8. HedgesArePaidFor' /\ HedgingCounts'
  BY <1>2 DEF HedgesArePaidFor, HedgingCounts, Unhedged
<1>9. QED BY <1>3, <1>7, <1>8

\* The first copy is the only one, and its answer is returned.
LEMMA FirstKeepsHedging ==
    ASSUME HedgingInv, NEW l \in Leg, awaitFirst(l) \/ inTime(l)
    PROVE  HedgingInv'
<1> USE DEF HedgingInv
<1>1. /\ leg[l] \in {"waiting", "timed"} /\ copy[l].first \in Over
      /\ leg' = [leg EXCEPT ![l] = "done"] /\ result' = [result EXCEPT ![l] = copy[l].first]
      /\ UNCHANGED <<hedge, copy, hedges>>
  BY DEF awaitFirst, inTime, Return
<1>2. HedgingTypeOK'
  BY <1>1 DEF HedgingTypeOK
<1>3. /\ \A k \in Leg : leg'[k] = IF k = l THEN "done" ELSE leg[k]
      /\ \A k \in Leg : result'[k] = IF k = l THEN copy[l].first ELSE result[k]
  BY <1>1 DEF HedgingTypeOK
<1>4. copy[l].second = "none" /\ copy[l].first # "running"
  BY <1>1 DEF SecondIsAHedge, Over
<1>5. SecondIsAHedge' /\ ReturnedIsOver'
  BY <1>1, <1>3, <1>4 DEF SecondIsAHedge, ReturnedIsOver
<1>6. CASE awaitFirst(l)
  <2>1. leg[l] = "waiting" /\ UNCHANGED hedgeTokens  BY <1>6 DEF awaitFirst
  <2>2. HedgesArePaidFor' /\ HedgingCounts'  BY <1>1, <2>1, FreeIsPaidFor
  <2>3. QED BY <1>2, <1>5, <2>2
<1>7. CASE inTime(l)
  <2>1. leg[l] = "timed" /\ Deposit  BY <1>7 DEF inTime
  <2>2. HedgesArePaidFor' /\ HedgingCounts'  BY <1>1, <2>1, DepositIsPaidFor
  <2>3. QED BY <1>2, <1>5, <2>2
<1>8. QED BY <1>6, <1>7

\* The threshold passes: without a token the call pays in and goes on alone, with
\* one it costs what PerHedge calls have paid in.
LEMMA ThresholdKeepsHedging ==
    ASSUME HedgingInv, NEW l \in Leg, refuseHedge(l) \/ sendSecond(l)
    PROVE  HedgingInv'
<1> USE DEF HedgingInv
<1>1. CASE refuseHedge(l)
  <2>1. /\ leg[l] = "timed" /\ Deposit /\ leg' = [leg EXCEPT ![l] = "waiting"]
        /\ UNCHANGED <<hedge, copy, hedges, result>>
    BY <1>1 DEF refuseHedge
  <2>2. HedgingTypeOK' /\ SecondIsAHedge' /\ ReturnedIsOver'
    BY <2>1 DEF HedgingTypeOK, SecondIsAHedge, ReturnedIsOver
  <2>3. HedgesArePaidFor' /\ HedgingCounts'  BY <2>1, DepositIsPaidFor
  <2>4. QED BY <2>2, <2>3
<1>2. CASE sendSecond(l)
  <2>1. /\ leg[l] = "timed" /\ leg' = [leg EXCEPT ![l] = "hedged"]
        /\ copy' = [copy EXCEPT ![l].second = "running"]
        /\ UNCHANGED <<hedge, result>>
    BY <1>2 DEF sendSecond
  <2>2. /\ hedgeTokens >= PerHedge
        /\ hedgeTokens' = hedgeTokens - PerHedge /\ hedges' = hedges + 1
    BY <1>2 DEF sendSecond
  <2>3. HedgingTypeOK'
    BY <2>1 DEF HedgingTypeOK, Copy
  <2>4. /\ \A k \in Leg : leg'[k] = IF k = l THEN "hedged" ELSE leg[k]
        /\ \A k \in Leg : k # l => copy'[k] = copy[k]
    BY <2>1 DEF HedgingTypeOK
  <2>5. SecondIsAHedge' /\ ReturnedIsOver'
    BY <2>1, <2>4 DEF SecondIsAHedge, ReturnedIsOver
  <2>6. HedgingCounts'
    BY <2>2, HedgingAssumption DEF HedgingCounts
  <2>7. Cardinality(Unhedged') = Cardinality(Unhedged)
    <3>1. HedgingTypeOK  OBVIOUS
    <3>2. leg[l] \in {"done", "waiting"} <=> "hedged" \in {"done", "waiting"}
      BY <2>1
    <3>3. QED BY <2>1, <3>1, <3>2, CountUnhedged
  <2>8. PerHedge * hedges' + hedgeTokens' = PerHedge * hedges + hedgeTokens
    <3>1. PerHedge * (hedges + 1) = PerHedge * hedges + PerHedge /\ PerHedge * hedges \in Nat
      BY HedgingAssumption DEF HedgingCounts
    <3>2. PerHedge \in Nat /\ hedgeTokens \in Nat
      BY HedgingAssumption DEF HedgingCounts
    <3>3. QED BY <2>2, <3>1, <3>2
  <2>9. hedge  BY <2>1 DEF SecondIsAHedge
  <2>10. HedgesArePaidFor'
    BY <2>1, <2>7, <2>8, <2>9 DEF HedgesArePaidFor
  <2>11. QED BY <2>3, <2>5, <2>6, <2>10
<1>3. QED BY <1>1, <1>2

\* The winner is returned and the loser cancelled.
LEMMA WinnerKeepsHedging ==
    ASSUME HedgingInv, NEW l \in Leg, takeWinner(l)
    PROVE  HedgingInv'
<1> USE DEF HedgingInv
<1>1. PICK i \in {"first", "second"} : copy[l][i] \in Over /\ Return(l, copy[l][i])
  BY DEF takeWinner
<1>2. /\ leg' = [leg EXCEPT ![l] = "done"] /\ result' = [result EXCEPT ![l] = copy[l][i]]
      /\ copy' = [copy EXCEPT ![l] = Cancelled(copy[l])]
      /\ leg[l] = "hedged" /\ Deposit /\ UNCHANGED <<hedge, hedges>>
  BY <1>1 DEF takeWinner, Return
<1>3. /\ Cancelled(copy[l]) \in [{"first", "second"} -> Copy]
      /\ \A j \in {"first", "second"} : Cancelled(copy[l])[j] # "running"
      /\ Cancelled(copy[l])[i] = copy[l][i]
  BY <1>1 DEF HedgingTypeOK, Cancelled, Copy, Over
<1>4. HedgingTypeOK'
  BY <1>1, <1>2, <1>3 DEF HedgingTypeOK
<1>5. /\ \A k \in Leg : leg'[k] = IF k = l THEN "done" ELSE leg[k]
      /\ \A k \in Leg : result'[k] = IF k = l THEN copy[l][i] ELSE result[k]
      /\ \A k \in Leg : copy'[k] = IF k = l THEN Cancelled(copy[l]) ELSE copy[k]
  BY <1>2 DEF HedgingTypeOK
<1>6. SecondIsAHedge'
  BY <1>2, <1>5 DEF SecondIsAHedge
<1>7. ReturnedIsOver'
  <2>1. /\ copy'[l].first # "running" /\ copy'[l].second # "running"
        /\ result'[l] \in Over /\ result'[l] \in {copy'[l].first, copy'[l].second}
    BY <1>1, <1>3, <1>5
  <2>2. QED BY <1>5, <2>1 DEF ReturnedIsOver
<1>8. HedgesArePaidFor' /\ HedgingCounts'
  BY <1>2, DepositIsPaidFor
<1>9. QED BY <1>4, <1>6, <1>7, <1>8

\* For any number of calls and any budget: hedges are paid for by calls that were
\* not hedged or are over, there are none with HEDGE off, and a call that has
\* returned has no copy that runs and an answer that one of them gave.
THEOREM HedgesStayWithinTheBudget == HedgingSpec => []HedgesAreCapped
<1>1. HedgingInv /\ [HedgingNext]_hedgingVars => HedgingInv'
  <2>1. SUFFICES ASSUME HedgingInv, [HedgingNext]_hedgingVars  PROVE HedgingInv'
    OBVIOUS
  <2>2. CASE UNCHANGED hedgingVars
    BY <2>1, <2>2 DEF hedgingVars, HedgingInv, HedgingTypeOK, HedgingCounts, SecondIsAHedge,
       ReturnedIsOver, HedgesArePaidFor, Unhedged
  <2>3. CASE HedgingNext
    BY <2>1, <2>3, CallKeepsHedging, AnswerKeepsHedging, FirstKeepsHedging,
       ThresholdKeepsHedging, WinnerKeepsHedging DEF HedgingNext
  <2>4. QED BY <2>1, <2>2, <2>3
<1>2. HedgingInv => HedgesAreCapped
  <2>1. SUFFICES ASSUME HedgingInv  PROVE HedgesAreCapped
    OBVIOUS
  <2>2. PerHedge * hedges <= Cardinality(Unhedged)
    <3>1. PerHedge * hedges \in Nat /\ hedgeTokens \in Nat
      BY <2>1, HedgingAssumption DEF HedgingInv, HedgingCounts
    <3>2. IsFiniteSet(Unhedged)
      BY HedgingAssumption, FS_Subset DEF Unhedged
    <3>3. Cardinality(Unhedged) \in Nat
      BY <3>2, FS_CardinalityType
    <3>4. QED BY <2>1, <3>1, <3>3 DEF HedgingInv, HedgesArePaidFor
  <2>3. \A l \in Leg : leg[l] = "done" =>
            /\ "running" \notin {copy[l].first, copy[l].second}
            /\ result[l] \in Over /\ result[l] \in {copy[l].first, copy[l].second}
    BY <2>1 DEF HedgingInv, ReturnedIsOver
  <2>4. QED BY <2>1, <2>2, <2>3 DEF HedgesAreCapped, Unhedged, HedgingInv, HedgesArePaidFor
<1>3. QED BY HedgingStarts, <1>1, <1>2, PTL DEF HedgingSpec

-----------------------------------------------------------------------------
(* Charge: the idempotent handlers of layers 5 and 8 *)

KeyRow == [fp : Body, state : {"in_progress", "done"}, holder : Caller, expired : BOOLEAN,
        response : Caller \cup {Nothing}]

ChargeTypeOK ==
    /\ impl \in {"naive", "lab", "claim", "single", "late", "order"}
    /\ stage \in [Caller -> {"new", "working", "recording", "replay", "answered", "refused",
                             "dead"}]
    /\ body \in [Caller -> Body]
    /\ told \in [Caller -> Caller \cup {Nothing}]
    /\ paid \in SUBSET Caller
    /\ keyRow \in KeyRow \cup {NoRow}

RobbedCounts == robbed \in Nat

\* The row has the body of its holder and a stored answer that is on the books;
\* only a handler of two transactions leaves a row without an answer.
RowIsTrue ==
    keyRow # NoRow =>
        /\ keyRow.fp = body[keyRow.holder]
        /\ keyRow.state = "done" => keyRow.response \in paid
        /\ impl \notin {"lab", "claim"} => keyRow.state = "done"

\* Those that have charged or still may.
Busy == paid \cup {c \in Caller : stage[c] = "working"}

\* With two transactions: whoever is busy has the claim or was robbed of it, and
\* nobody has charged while the row has no answer.
ClaimsAreCounted ==
    impl \in {"lab", "claim"} =>
        /\ keyRow = NoRow => Busy = {}
        /\ keyRow # NoRow => Cardinality(Busy \ {keyRow.holder}) <= robbed
        /\ keyRow.state = "in_progress" => paid = {}

\* The takeover for the same body only.
SameBodyTakesOver ==
    impl = "claim" /\ keyRow # NoRow => \A c \in Busy : body[c] = keyRow.fp

\* With one transaction: the holder of the row has charged, and nobody else.
OneTransaction ==
    impl \in {"single", "order"} =>
        /\ robbed = 0
        /\ keyRow = NoRow => paid = {}
        /\ keyRow # NoRow => paid \subseteq {keyRow.holder}

ChargeInv ==
    /\ ChargeTypeOK /\ RobbedCounts
    /\ RowIsTrue /\ ClaimsAreCounted /\ SameBodyTakesOver /\ OneTransaction
    /\ AnswersMatchTheBody

\* There is no row and nobody has done anything.
LEMMA ChargeStarts == ChargeInit => ChargeInv
<1>1. SUFFICES ASSUME ChargeInit  PROVE ChargeInv
  OBVIOUS
<1>2. Busy = {} /\ NoRow.state # "in_progress"
  BY <1>1 DEF ChargeInit, Busy, NoRow
<1>3. ChargeTypeOK
  BY <1>1, ChargeAssumption DEF ChargeInit, ChargeTypeOK
<1>4. RobbedCounts
  BY <1>1 DEF ChargeInit, RobbedCounts
<1>5. RowIsTrue /\ ClaimsAreCounted /\ SameBodyTakesOver /\ OneTransaction
  BY <1>1, <1>2 DEF ChargeInit, RowIsTrue, ClaimsAreCounted, SameBodyTakesOver, OneTransaction
<1>6. AnswersMatchTheBody
  BY <1>1 DEF ChargeInit, AnswersMatchTheBody
<1>7. QED BY <1>3, <1>4, <1>5, <1>6 DEF ChargeInv

\* The answers that were given stay right; the one that is given now has to be.
LEMMA AnswersStayRight ==
    ASSUME ChargeInv, NEW c \in Caller, UNCHANGED <<impl, body>>,
           paid \subseteq paid', robbed' \in {robbed, robbed + 1},
           \A d \in Caller : d # c => stage'[d] = stage[d] /\ told'[d] = told[d],
           stage'[c] = "answered" =>
              /\ told'[c] \in paid'
              /\ impl \in {"claim", "single"} \/ (impl = "lab" /\ robbed = 0) =>
                    body[told'[c]] = body[c]
    PROVE  AnswersMatchTheBody'
<1>1. robbed' = 0 => robbed = 0
  BY DEF ChargeInv, RobbedCounts
<1>2. QED BY <1>1 DEF ChargeInv, AnswersMatchTheBody

\* A stored answer is on the books, and for the body of the row.
LEMMA StoredAnswerFits ==
    ASSUME ChargeInv, keyRow # NoRow, keyRow.state = "done"
    PROVE  /\ keyRow.response \in paid
           /\ impl \in {"claim", "single"} \/ (impl = "lab" /\ robbed = 0) =>
                 body[keyRow.response] = keyRow.fp
<1> USE DEF ChargeInv
<1>1. keyRow.response \in paid /\ keyRow.fp = body[keyRow.holder]
  BY DEF RowIsTrue
<1>2. CASE impl = "claim"
  BY <1>1, <1>2 DEF SameBodyTakesOver, Busy
<1>3. CASE impl = "single"
  BY <1>1, <1>3 DEF OneTransaction
<1>4. CASE impl = "lab" /\ robbed = 0
  <2>1. Cardinality(Busy \ {keyRow.holder}) <= 0
    BY <1>4 DEF ClaimsAreCounted
  <2>2. IsFiniteSet(Busy \ {keyRow.holder})
    BY ChargeAssumption, FS_Subset DEF Busy, ChargeTypeOK
  <2>3. Cardinality(Busy \ {keyRow.holder}) \in Nat
    BY <2>2, FS_CardinalityType
  <2>4. Cardinality(Busy \ {keyRow.holder}) = 0
    BY <2>1, <2>3
  <2>5. Busy \ {keyRow.holder} = {}
    BY <2>2, <2>4, FS_EmptySet
  <2>6. keyRow.response = keyRow.holder
    BY <1>1, <2>5 DEF Busy
  <2>7. QED BY <1>1, <2>6
<1>5. QED BY <1>1, <1>2, <1>3, <1>4

\* naive: what is found or inserted is a charge.
LEMMA NaiveKeepsCharge ==
    ASSUME ChargeInv, NEW c \in Caller, lookup(c) \/ insertCharge(c)
    PROVE  ChargeInv'
<1> USE DEF ChargeInv
<1>1. /\ impl = "naive" /\ UNCHANGED <<impl, body, keyRow, robbed>>
      /\ paid \subseteq paid' /\ paid' \subseteq Caller
  BY DEF lookup, insertCharge, ChargeTypeOK
<1>2. PICK s \in {"working", "answered"} : stage' = [stage EXCEPT ![c] = s]
  BY DEF lookup, insertCharge, Stage, Tell
<1>3. PICK d \in Caller \cup {Nothing} :
          /\ told' = [told EXCEPT ![c] = d]
          /\ s = "answered" => d \in paid'
  <2>1. CASE insertCharge(c)
    <3>1. told' = [told EXCEPT ![c] = c] /\ c \in paid'
      BY <2>1 DEF insertCharge, Tell
    <3>2. QED BY <3>1
  <2>2. CASE paid = {} /\ Stage(c, "working") /\ UNCHANGED told
    <3>1. told' = [told EXCEPT ![c] = told[c]] /\ told[c] \in Caller \cup {Nothing}
      BY <2>2 DEF ChargeTypeOK
    <3>2. s = "working"
      BY <1>2, <2>2 DEF Stage, ChargeTypeOK
    <3>3. QED BY <3>1, <3>2
  <2>3. ASSUME NEW d \in paid, Tell(c, d), paid' = paid
        PROVE  \E e \in Caller \cup {Nothing} :
                   /\ told' = [told EXCEPT ![c] = e]
                   /\ s = "answered" => e \in paid'
    BY <2>3 DEF Tell, ChargeTypeOK
  <2>4. QED BY <2>1, <2>2, <2>3 DEF lookup
<1>4. ChargeTypeOK' /\ RobbedCounts'
  BY <1>1, <1>2, <1>3 DEF ChargeTypeOK, RobbedCounts
<1>5. RowIsTrue' /\ ClaimsAreCounted' /\ SameBodyTakesOver' /\ OneTransaction'
  BY <1>1 DEF RowIsTrue, ClaimsAreCounted, SameBodyTakesOver, OneTransaction
<1>6. AnswersMatchTheBody'
  <2>1. /\ \A e \in Caller : e # c => stage'[e] = stage[e] /\ told'[e] = told[e]
        /\ stage'[c] = s /\ told'[c] = d
    BY <1>2, <1>3 DEF ChargeTypeOK
  <2>2. QED BY <1>1, <1>3, <2>1, AnswersStayRight
<1>7. QED BY <1>4, <1>5, <1>6

\* The row of a claim.
LEMMA ClaimedIsARow ==
    ASSUME ChargeTypeOK, NEW c \in Caller
    PROVE  /\ Claimed(c) \in KeyRow /\ Claimed(c) # NoRow
           /\ Claimed(c).fp = body[c] /\ Claimed(c).holder = c
           /\ Claimed(c).state = "in_progress"
BY DEF ChargeTypeOK, Claimed, KeyRow, NoRow

\* lab and claim take a claim: a takeover from a handler that works is counted.
LEMMA ClaimKeepsCharge ==
    ASSUME ChargeInv, NEW c \in Caller, claim(c)
    PROVE  ChargeInv'
<1> USE DEF ChargeInv
<1>1. /\ impl \in {"lab", "claim"} /\ stage[c] = "new"
      /\ UNCHANGED <<impl, body, told, paid>>
  BY DEF claim
<1>2. PICK s \in {"working", "replay"} : stage' = [stage EXCEPT ![c] = s]
  BY DEF claim, Stage
<1>3. /\ \A d \in Caller : d # c => stage'[d] = stage[d] /\ told'[d] = told[d]
      /\ stage'[c] = s /\ stage' \in [Caller -> {"new", "working", "recording", "replay",
                                                 "answered", "refused", "dead"}]
  BY <1>1, <1>2 DEF ChargeTypeOK
<1>4. robbed' \in {robbed, robbed + 1}
  BY DEF claim
<1>5. RobbedCounts'
  BY <1>4 DEF RobbedCounts
<1>6. AnswersMatchTheBody'
  BY <1>1, <1>2, <1>3, <1>4, AnswersStayRight
<1>7. OneTransaction'
  BY <1>1 DEF OneTransaction
<1>8. IsFiniteSet(Busy) /\ Busy \subseteq Caller
  BY ChargeAssumption, FS_Subset DEF Busy, ChargeTypeOK
<1>9. CASE keyRow # NoRow /\ ~Stealable(c)
  <2>1. s = "replay" /\ UNCHANGED <<keyRow, robbed>>
    BY <1>2, <1>9 DEF claim, Stage, ChargeTypeOK
  <2>2. Busy' = Busy
    BY <1>1, <1>3, <2>1 DEF Busy
  <2>3. ChargeTypeOK'
    BY <1>1, <1>3, <2>1 DEF ChargeTypeOK, KeyRow
  <2>4. RowIsTrue' /\ ClaimsAreCounted' /\ SameBodyTakesOver'
    BY <1>1, <2>1, <2>2 DEF RowIsTrue, ClaimsAreCounted, SameBodyTakesOver
  <2>5. QED BY <1>5, <1>6, <1>7, <2>3, <2>4
<1>10. CASE keyRow = NoRow \/ Stealable(c)
  <2>1. keyRow' = Claimed(c) /\ s = "working"
    BY <1>2, <1>10 DEF claim, Stage, ChargeTypeOK
  <2>2. /\ keyRow' \in KeyRow /\ keyRow' # NoRow /\ keyRow'.fp = body[c]
        /\ keyRow'.holder = c /\ keyRow'.state = "in_progress"
    BY <2>1, ClaimedIsARow
  <2>3. ChargeTypeOK'
    BY <1>1, <1>3, <2>2 DEF ChargeTypeOK, KeyRow
  <2>4. RowIsTrue'
    BY <1>1, <2>2 DEF RowIsTrue
  <2>5. paid = {}
    BY <1>1, <1>10 DEF ClaimsAreCounted, Stealable, Busy
  <2>6. Busy' = Busy \cup {c} /\ c \notin Busy
    BY <1>1, <1>3, <2>1, <2>5 DEF Busy
  <2>7. Busy' \ {c} = Busy
    BY <2>6
  <2>8. Cardinality(Busy) <= robbed'
    <3>1. CASE keyRow = NoRow
      <4>1. Busy = {} /\ robbed' = robbed
        BY <1>1, <3>1 DEF claim, ClaimsAreCounted
      <4>2. Cardinality(Busy) = 0  BY <4>1, FS_EmptySet
      <4>3. QED BY <4>1, <4>2 DEF RobbedCounts
    <3>2. CASE keyRow # NoRow /\ stage[keyRow.holder] = "working"
      <4>1. robbed' = robbed + 1
        BY <1>10, <3>2 DEF claim
      <4>2. keyRow.holder \in Busy
        BY <3>2 DEF Busy, ChargeTypeOK, KeyRow
      <4>3. Cardinality(Busy \ {keyRow.holder}) = Cardinality(Busy) - 1
        BY <1>8, <4>2, CountOne
      <4>4. Cardinality(Busy \ {keyRow.holder}) <= robbed
        BY <1>1, <3>2 DEF ClaimsAreCounted
      <4>5. Cardinality(Busy) \in Nat  BY <1>8, FS_CardinalityType
      <4>6. QED BY <4>1, <4>3, <4>4, <4>5 DEF RobbedCounts
    <3>3. CASE keyRow # NoRow /\ stage[keyRow.holder] # "working"
      <4>1. robbed' = robbed
        BY <1>10, <3>3 DEF claim
      <4>2. Busy \ {keyRow.holder} = Busy
        BY <2>5, <3>3 DEF Busy
      <4>3. QED BY <1>1, <3>3, <4>1, <4>2 DEF ClaimsAreCounted
    <3>4. QED BY <3>1, <3>2, <3>3
  <2>9. ClaimsAreCounted'
    BY <1>1, <2>2, <2>5, <2>7, <2>8 DEF ClaimsAreCounted
  <2>10. SameBodyTakesOver'
    <3>1. CASE keyRow = NoRow
      BY <1>1, <2>2, <2>6, <3>1 DEF SameBodyTakesOver, ClaimsAreCounted
    <3>2. CASE keyRow # NoRow
      BY <1>1, <1>10, <2>2, <2>6, <3>2 DEF SameBodyTakesOver, Stealable
    <3>3. QED BY <3>1, <3>2
  <2>11. QED BY <1>5, <1>6, <1>7, <2>3, <2>4, <2>9, <2>10
<1>11. QED BY <1>9, <1>10

\* lab and claim: the charge and the stored answer of a handler that works,
\* whether or not it still has the claim.
LEMMA WorkKeepsCharge ==
    ASSUME ChargeInv, NEW c \in Caller, work(c)
    PROVE  ChargeInv'
<1> USE DEF ChargeInv
<1>1. /\ impl \in {"lab", "claim"} /\ stage[c] = "working"
      /\ UNCHANGED <<impl, body, robbed>> /\ paid' = paid \cup {c}
      /\ keyRow' = [keyRow EXCEPT !.state = "done", !.response = c]
      /\ told' = [told EXCEPT ![c] = c] /\ stage' = [stage EXCEPT ![c] = "answered"]
  BY DEF work, Tell, Stage
<1>2. c \in Busy
  BY <1>1 DEF Busy
<1>3. keyRow \in KeyRow /\ keyRow # NoRow
  BY <1>1, <1>2 DEF ClaimsAreCounted, ChargeTypeOK
<1>4. /\ keyRow' \in KeyRow /\ keyRow'.fp = keyRow.fp /\ keyRow'.holder = keyRow.holder
      /\ keyRow'.state = "done" /\ keyRow'.response = c /\ keyRow' # NoRow
  BY <1>1, <1>3 DEF KeyRow, NoRow
<1>5. /\ \A d \in Caller : d # c => stage'[d] = stage[d] /\ told'[d] = told[d]
      /\ stage'[c] = "answered" /\ told'[c] = c
  BY <1>1 DEF ChargeTypeOK
<1>6. Busy' = Busy
  BY <1>1, <1>5 DEF Busy
<1>7. ChargeTypeOK' /\ RobbedCounts'
  BY <1>1, <1>4 DEF ChargeTypeOK, RobbedCounts
<1>8. RowIsTrue' /\ ClaimsAreCounted'
  BY <1>1, <1>3, <1>4, <1>6 DEF RowIsTrue, ClaimsAreCounted
<1>9. SameBodyTakesOver' /\ OneTransaction'
  BY <1>1, <1>3, <1>4, <1>6 DEF SameBodyTakesOver, OneTransaction
<1>10. AnswersMatchTheBody'
  BY <1>1, <1>5, AnswersStayRight
<1>11. QED BY <1>7, <1>8, <1>9, <1>10

\* A handler dies: fewer are busy.
LEMMA CrashKeepsCharge ==
    ASSUME ChargeInv, NEW c \in Caller, crash(c)
    PROVE  ChargeInv'
<1> USE DEF ChargeInv
<1>1. /\ stage' = [stage EXCEPT ![c] = "dead"]
      /\ UNCHANGED <<impl, body, told, keyRow, paid, robbed>>
  BY DEF crash, Stage
<1>2. /\ \A d \in Caller : d # c => stage'[d] = stage[d] /\ told'[d] = told[d]
      /\ stage'[c] = "dead"
  BY <1>1 DEF ChargeTypeOK
<1>3. Busy' \subseteq Busy
  BY <1>1, <1>2 DEF Busy
<1>4. ChargeTypeOK' /\ RobbedCounts'
  BY <1>1 DEF ChargeTypeOK, RobbedCounts
<1>5. ASSUME keyRow # NoRow, impl \in {"lab", "claim"}
      PROVE  Cardinality(Busy' \ {keyRow.holder}) <= robbed
  <2>1. IsFiniteSet(Busy \ {keyRow.holder})
    BY ChargeAssumption, FS_Subset DEF Busy, ChargeTypeOK
  <2>2. Busy' \ {keyRow.holder} \subseteq Busy \ {keyRow.holder}
    BY <1>3
  <2>3. /\ Cardinality(Busy' \ {keyRow.holder}) \in Nat
        /\ Cardinality(Busy \ {keyRow.holder}) \in Nat
        /\ Cardinality(Busy' \ {keyRow.holder}) <= Cardinality(Busy \ {keyRow.holder})
    BY <2>1, <2>2, CountPart
  <2>4. Cardinality(Busy \ {keyRow.holder}) <= robbed
    BY <1>5 DEF ClaimsAreCounted
  <2>5. QED BY <2>3, <2>4 DEF RobbedCounts
<1>6. RowIsTrue' /\ ClaimsAreCounted' /\ SameBodyTakesOver' /\ OneTransaction'
  BY <1>1, <1>3, <1>5 DEF RowIsTrue, ClaimsAreCounted, SameBodyTakesOver, OneTransaction
<1>7. AnswersMatchTheBody'
  BY <1>1, <1>2, AnswersStayRight
<1>8. QED BY <1>4, <1>6, <1>7

\* A handler that does not work, and will not, gets or gives an answer: nothing
\* but its stage and what it tells changes.
LEMMA OnlyAnswersKeepsCharge ==
    ASSUME ChargeInv, NEW c \in Caller, NEW d \in Caller \cup {Nothing},
           NEW s \in {"replay", "answered", "refused"},
           stage[c] # "working", stage' = [stage EXCEPT ![c] = s],
           told' = [told EXCEPT ![c] = d], UNCHANGED <<impl, body, keyRow, paid, robbed>>,
           s = "answered" =>
              /\ d \in paid
              /\ impl \in {"claim", "single"} \/ (impl = "lab" /\ robbed = 0) =>
                    body[d] = body[c]
    PROVE  ChargeInv'
<1> USE DEF ChargeInv
<1>1. /\ \A e \in Caller : e # c => stage'[e] = stage[e] /\ told'[e] = told[e]
      /\ stage'[c] = s /\ told'[c] = d
  BY DEF ChargeTypeOK
<1>2. Busy' = Busy
  BY <1>1 DEF Busy
<1>3. ChargeTypeOK' /\ RobbedCounts'
  BY DEF ChargeTypeOK, RobbedCounts
<1>4. RowIsTrue' /\ ClaimsAreCounted' /\ SameBodyTakesOver' /\ OneTransaction'
  BY <1>2 DEF RowIsTrue, ClaimsAreCounted, SameBodyTakesOver, OneTransaction
<1>5. AnswersMatchTheBody'
  BY <1>1, AnswersStayRight
<1>6. QED BY <1>3, <1>4, <1>5

\* The stored answer, for the body that it was given for, or a refusal.
LEMMA ReplayKeepsCharge ==
    ASSUME ChargeInv, NEW c \in Caller, replay(c)
    PROVE  ChargeInv'
<1> USE DEF ChargeInv
<1>1. stage[c] # "working" /\ UNCHANGED <<impl, body, keyRow, paid, robbed>>
  BY DEF replay
<1>2. CASE SameBody(c) /\ keyRow.state = "done"
  <2>1. stage' = [stage EXCEPT ![c] = "answered"]
        /\ told' = [told EXCEPT ![c] = keyRow.response]
    BY <1>2 DEF replay, Tell, Stage
  <2>2. keyRow # NoRow
    BY <1>2 DEF NoRow
  <2>3. /\ keyRow.response \in paid
        /\ impl \in {"claim", "single"} \/ (impl = "lab" /\ robbed = 0) =>
              body[keyRow.response] = body[c]
    BY <1>2, <2>2, StoredAnswerFits DEF SameBody
  <2>4. keyRow.response \in Caller
    BY <2>3 DEF ChargeTypeOK
  <2>5. QED BY <1>1, <2>1, <2>3, <2>4, OnlyAnswersKeepsCharge
<1>3. CASE ~(SameBody(c) /\ keyRow.state = "done")
  <2>1. stage' = [stage EXCEPT ![c] = "refused"] /\ told' = told
    BY <1>3 DEF replay, Stage
  <2>2. told[c] \in Caller \cup {Nothing} /\ told' = [told EXCEPT ![c] = told[c]]
    BY <2>1 DEF ChargeTypeOK
  <2>3. QED BY <1>1, <2>1, <2>2, OnlyAnswersKeepsCharge
<1>4. QED BY <1>2, <1>3

\* single: the loser of the race goes and looks.
LEMMA LoseKeepsCharge ==
    ASSUME ChargeInv, NEW c \in Caller, loseSingle(c)
    PROVE  ChargeInv'
<1>1. /\ stage[c] # "working" /\ UNCHANGED <<impl, body, keyRow, paid, robbed>>
      /\ stage' = [stage EXCEPT ![c] = "replay"] /\ told' = told
  BY DEF loseSingle, Stage
<1>2. told[c] \in Caller \cup {Nothing} /\ told' = [told EXCEPT ![c] = told[c]]
  BY <1>1 DEF ChargeInv, ChargeTypeOK
<1>3. QED BY <1>1, <1>2, OnlyAnswersKeepsCharge

\* The row expires, and is otherwise the same.
LEMMA TtlKeepsCharge ==
    ASSUME ChargeInv, ttlOver
    PROVE  ChargeInv'
<1> USE DEF ChargeInv
<1>1. /\ keyRow # NoRow /\ keyRow' = [keyRow EXCEPT !.expired = TRUE]
      /\ UNCHANGED <<impl, stage, body, told, paid, robbed>>
  BY DEF ttlOver
<1>2. /\ keyRow' \in KeyRow /\ keyRow' # NoRow
      /\ keyRow'.fp = keyRow.fp /\ keyRow'.holder = keyRow.holder
      /\ keyRow'.state = keyRow.state /\ keyRow'.response = keyRow.response
  BY <1>1 DEF ChargeTypeOK, KeyRow, NoRow
<1>3. Busy' = Busy
  BY <1>1 DEF Busy
<1>4. ChargeTypeOK' /\ RobbedCounts'
  BY <1>1, <1>2 DEF ChargeTypeOK, RobbedCounts
<1>5. RowIsTrue' /\ ClaimsAreCounted' /\ SameBodyTakesOver' /\ OneTransaction'
  BY <1>1, <1>2, <1>3 DEF RowIsTrue, ClaimsAreCounted, SameBodyTakesOver, OneTransaction
<1>6. AnswersMatchTheBody'
  BY <1>1 DEF AnswersMatchTheBody
<1>7. QED BY <1>4, <1>5, <1>6

\* The row of a transaction that charges and records: it is there, with its answer.
Recorded(c) == [Claimed(c) EXCEPT !.state = "done", !.response = c]

\* It names its holder, and the charge that was made with it.
LEMMA RecordedIsARow ==
    ASSUME ChargeTypeOK, NEW c \in Caller
    PROVE  /\ Recorded(c) \in KeyRow /\ Recorded(c) # NoRow /\ Recorded(c).fp = body[c]
           /\ Recorded(c).holder = c /\ Recorded(c).state = "done"
           /\ Recorded(c).response = c
BY DEF ChargeTypeOK, Recorded, Claimed, KeyRow, NoRow

\* single, order and late: the first to record the key.
LEMMA RecordKeepsCharge ==
    ASSUME ChargeInv, NEW c \in Caller, impl \in {"single", "late", "order"}, keyRow = NoRow,
           keyRow' = [Claimed(c) EXCEPT !.state = "done", !.response = c],
           paid' = paid \cup {c}, Tell(c, c), UNCHANGED <<impl, body, robbed>>
    PROVE  ChargeInv'
<1> USE DEF ChargeInv
<1>1. /\ keyRow' \in KeyRow /\ keyRow' # NoRow /\ keyRow'.fp = body[c]
      /\ keyRow'.holder = c /\ keyRow'.state = "done" /\ keyRow'.response = c
  <2>1. keyRow' = Recorded(c)  BY DEF Recorded
  <2>2. QED BY <2>1, RecordedIsARow
<1>2. told' = [told EXCEPT ![c] = c] /\ stage' = [stage EXCEPT ![c] = "answered"]
  BY DEF Tell, Stage
<1>3. /\ \A e \in Caller : e # c => stage'[e] = stage[e] /\ told'[e] = told[e]
      /\ stage'[c] = "answered" /\ told'[c] = c
  BY <1>2 DEF ChargeTypeOK
<1>4. ChargeTypeOK' /\ RobbedCounts'
  BY <1>1, <1>2 DEF ChargeTypeOK, RobbedCounts
<1>5. RowIsTrue' /\ ClaimsAreCounted' /\ SameBodyTakesOver' /\ OneTransaction'
  BY <1>1 DEF RowIsTrue, ClaimsAreCounted, SameBodyTakesOver, OneTransaction
<1>6. AnswersMatchTheBody'
  BY <1>3, AnswersStayRight
<1>7. QED BY <1>4, <1>5, <1>6

\* late and order: the look at the key.
LEMMA SelectKeepsCharge ==
    ASSUME ChargeInv, NEW c \in Caller, selectKey(c)
    PROVE  ChargeInv'
<1> USE DEF ChargeInv
<1>1. /\ impl \in {"late", "order"} /\ stage[c] = "new"
      /\ UNCHANGED <<impl, body, keyRow, paid, robbed>>
  BY DEF selectKey
<1>2. CASE keyRow = NoRow
  <2>1. stage' = [stage EXCEPT ![c] = "working"] /\ UNCHANGED told
    BY <1>2 DEF selectKey, Stage
  <2>2. /\ \A e \in Caller : e # c => stage'[e] = stage[e] /\ told'[e] = told[e]
        /\ stage'[c] = "working"
    BY <2>1 DEF ChargeTypeOK
  <2>3. ChargeTypeOK' /\ RobbedCounts'
    BY <1>1, <2>1 DEF ChargeTypeOK, RobbedCounts
  <2>4. RowIsTrue' /\ ClaimsAreCounted' /\ SameBodyTakesOver' /\ OneTransaction'
    BY <1>1 DEF RowIsTrue, ClaimsAreCounted, SameBodyTakesOver, OneTransaction
  <2>5. AnswersMatchTheBody'
    BY <1>1, <2>2, AnswersStayRight
  <2>6. QED BY <2>3, <2>4, <2>5
<1>3. CASE keyRow # NoRow
  <2>1. /\ stage' = [stage EXCEPT ![c] = "answered"]
        /\ told' = [told EXCEPT ![c] = keyRow.response]
    BY <1>3 DEF selectKey, Tell, Stage
  <2>2. keyRow.response \in paid
    BY <1>1, <1>3 DEF RowIsTrue
  <2>3. keyRow.response \in Caller
    BY <2>2 DEF ChargeTypeOK
  <2>4. QED BY <1>1, <2>1, <2>2, <2>3, OnlyAnswersKeepsCharge
<1>4. QED BY <1>2, <1>3

\* late: the charge, on its own.
LEMMA LateKeepsCharge ==
    ASSUME ChargeInv, NEW c \in Caller, orderAndCharge(c)
    PROVE  ChargeInv'
<1> USE DEF ChargeInv
<1>1. /\ impl = "late" /\ paid' = paid \cup {c} /\ stage' = [stage EXCEPT ![c] = "recording"]
      /\ UNCHANGED <<impl, body, told, keyRow, robbed>>
  BY DEF orderAndCharge, Stage
<1>2. /\ \A e \in Caller : e # c => stage'[e] = stage[e] /\ told'[e] = told[e]
      /\ stage'[c] = "recording"
  BY <1>1 DEF ChargeTypeOK
<1>3. ChargeTypeOK' /\ RobbedCounts'
  BY <1>1 DEF ChargeTypeOK, RobbedCounts
<1>4. RowIsTrue' /\ ClaimsAreCounted' /\ SameBodyTakesOver' /\ OneTransaction'
  BY <1>1 DEF RowIsTrue, ClaimsAreCounted, SameBodyTakesOver, OneTransaction
<1>5. AnswersMatchTheBody'
  BY <1>1, <1>2, AnswersStayRight
<1>6. QED BY <1>3, <1>4, <1>5

\* late and order: the unique constraint lets the first in and undoes the others.
LEMMA CommitKeyKeepsCharge ==
    ASSUME ChargeInv, NEW c \in Caller, commitKey(c)
    PROVE  ChargeInv'
<1> USE DEF ChargeInv
<1>1. impl \in {"late", "order"} /\ UNCHANGED <<impl, body, robbed>>
  BY DEF commitKey
<1>2. CASE keyRow = NoRow
  BY <1>1, <1>2, RecordKeepsCharge DEF commitKey
<1>3. CASE keyRow # NoRow
  <2>1. stage' = [stage EXCEPT ![c] = "refused"] /\ UNCHANGED <<told, keyRow, paid>>
    BY <1>3 DEF commitKey, Stage
  <2>2. /\ \A e \in Caller : e # c => stage'[e] = stage[e] /\ told'[e] = told[e]
        /\ stage'[c] = "refused"
    BY <2>1 DEF ChargeTypeOK
  <2>3. ChargeTypeOK' /\ RobbedCounts'
    BY <1>1, <2>1 DEF ChargeTypeOK, RobbedCounts
  <2>4. RowIsTrue' /\ ClaimsAreCounted' /\ SameBodyTakesOver' /\ OneTransaction'
    BY <1>1, <2>1 DEF RowIsTrue, ClaimsAreCounted, SameBodyTakesOver, OneTransaction
  <2>5. AnswersMatchTheBody'
    BY <1>1, <2>1, <2>2, AnswersStayRight
  <2>6. QED BY <2>3, <2>4, <2>5
<1>4. QED BY <1>2, <1>3

\* The invariant of all six implementations.
THEOREM ChargeInvariant == ChargeSpec => []ChargeInv
<1>1. ChargeInv /\ [ChargeNext]_chargeVars => ChargeInv'
  <2>1. SUFFICES ASSUME ChargeInv, [ChargeNext]_chargeVars  PROVE ChargeInv'
    OBVIOUS
  <2>2. CASE UNCHANGED chargeVars
    <3>1. Busy' = Busy  BY <2>2 DEF chargeVars, Busy
    <3>2. QED
      BY <2>1, <2>2, <3>1 DEF chargeVars, ChargeInv, ChargeTypeOK, RobbedCounts, RowIsTrue,
         ClaimsAreCounted, SameBodyTakesOver, OneTransaction, AnswersMatchTheBody
  <2>3. ASSUME NEW c \in Caller, chargeSingle(c)  PROVE ChargeInv'
    BY <2>1, <2>3, RecordKeepsCharge DEF chargeSingle
  <2>4. CASE ChargeNext
    BY <2>1, <2>3, <2>4, NaiveKeepsCharge, ClaimKeepsCharge, WorkKeepsCharge, CrashKeepsCharge,
       ReplayKeepsCharge, TtlKeepsCharge, LoseKeepsCharge, SelectKeepsCharge, LateKeepsCharge,
       CommitKeyKeepsCharge DEF ChargeNext
  <2>5. QED BY <2>1, <2>2, <2>4
<1>2. QED BY ChargeStarts, <1>1, PTL DEF ChargeSpec

\* For any number of requests with the key: a handler that dies, an expired row
\* and a repeated request cost no second charge; only a takeover from a handler
\* that was still at work does, one each, and with one transaction nothing.
THEOREM ClaimsChargeOnce == ChargeSpec => []OneChargePerClaim
<1>1. ChargeInv => OneChargePerClaim
  <2>1. SUFFICES ASSUME ChargeInv, impl \notin {"naive", "late"}
                 PROVE  Cardinality(paid) <= 1 + robbed
    BY DEF ChargeInv, OneTransaction, OneChargePerClaim
  <2> USE DEF ChargeInv
  <2>2. CASE keyRow = NoRow
    <3>1. paid = {}
      BY <2>1, <2>2 DEF ClaimsAreCounted, OneTransaction, ChargeTypeOK, Busy
    <3>2. Cardinality(paid) = 0  BY <3>1, FS_EmptySet
    <3>3. robbed \in Nat  BY <2>1 DEF RobbedCounts
    <3>4. QED BY <3>2, <3>3
  <2>3. CASE keyRow # NoRow
    <3> DEFINE h == keyRow.holder
    <3>1. IsFiniteSet(Busy) /\ paid \subseteq (Busy \ {h}) \cup {h}
      BY <2>1, ChargeAssumption, FS_Subset DEF Busy, ChargeTypeOK
    <3>2. IsFiniteSet(paid) /\ IsFiniteSet(paid \ {h}) /\ IsFiniteSet(Busy \ {h})
      BY <2>1, ChargeAssumption, FS_Subset DEF Busy, ChargeTypeOK
    <3>3. Cardinality(paid \ {h}) \in Nat /\ Cardinality(paid) \in Nat
      BY <3>2, FS_CardinalityType
    <3>4. Cardinality(paid) <= Cardinality(paid \ {h}) + 1
      <4>1. CASE h \in paid
        <5>1. Cardinality(paid \ {h}) = Cardinality(paid) - 1
          BY <3>2, <4>1, CountOne
        <5>2. QED BY <3>3, <5>1
      <4>2. CASE h \notin paid
        <5>1. paid \ {h} = paid  BY <4>2
        <5>2. QED BY <3>3, <5>1
      <4>3. QED BY <4>1, <4>2
    <3>5. Cardinality(paid \ {h}) <= robbed
      <4>1. CASE impl \in {"lab", "claim"}
        <5>1. Cardinality(Busy \ {h}) <= robbed
          BY <2>1, <2>3, <4>1 DEF ClaimsAreCounted
        <5>2. paid \ {h} \subseteq Busy \ {h}  BY DEF Busy
        <5>3. /\ Cardinality(Busy \ {h}) \in Nat
              /\ Cardinality(paid \ {h}) <= Cardinality(Busy \ {h})
          BY <3>2, <5>2, CountPart
        <5>4. robbed \in Nat  BY <2>1 DEF RobbedCounts
        <5>5. QED BY <3>3, <5>1, <5>3, <5>4
      <4>2. CASE impl \in {"single", "order"}
        <5>1. paid \ {h} = {} /\ robbed = 0
          BY <2>1, <2>3, <4>2 DEF OneTransaction
        <5>2. Cardinality(paid \ {h}) = 0  BY <5>1, FS_EmptySet
        <5>3. QED BY <5>1, <5>2
      <4>3. QED BY <2>1, <4>1, <4>2 DEF ChargeTypeOK
    <3>6. robbed \in Nat  BY <2>1 DEF RobbedCounts
    <3> HIDE DEF h
    <3>7. QED BY <3>3, <3>4, <3>5, <3>6
  <2>4. QED BY <2>2, <2>3
<1>2. QED BY <1>1, ChargeInvariant, PTL

\* An answer reports a charge that is on the books, and where the body is
\* checked, and in the lab's version while nobody is robbed, one for the body
\* that was sent.
THEOREM AnswersFitTheRequest == ChargeSpec => []AnswersMatchTheBody
<1>1. ChargeInv => AnswersMatchTheBody
  BY DEF ChargeInv
<1>2. QED BY <1>1, ChargeInvariant, PTL

-----------------------------------------------------------------------------
(* Sessions: reads of a standby that is behind *)

SessionsTypeOK ==
    /\ fix \in {"none", "sticky", "lsn"}
    /\ visit \in [Visit -> {"new", "committed", "flushed", "written", "polling", "standby",
                            "primary", "read primary", "read standby"}]
    /\ wentBack \in BOOLEAN

Lsns ==
    /\ wal \in Nat /\ replayed \in Nat /\ session.lsn \in Nat
    /\ lsn \in [Visit -> Nat] /\ owed \in [Visit -> Nat] /\ seen \in [Visit -> Nat]

\* Nobody is ahead of the primary.
PrimaryIsAhead ==
    /\ replayed <= wal
    /\ \A v \in Visit : owed[v] <= wal
    /\ \A v \in Visit : visit[v] \in {"committed", "flushed", "written"} => seen[v] <= wal

\* The LSN that a write gets is its own or a later one, and the session has one
\* that covers every write that was answered, unless an older one replaced it.
TokenCoversWrites ==
    /\ \A v \in Visit : visit[v] \in {"flushed", "written"} => seen[v] <= lsn[v]
    /\ ~wentBack => \A v \in Visit : visit[v] = "written" => lsn[v] <= session.lsn

\* With FIX=lsn a read waits for what it is owed.
ReadsWait ==
    fix = "lsn" /\ ~wentBack => \A v \in Visit :
        /\ visit[v] = "polling" => owed[v] <= lsn[v]
        /\ visit[v] = "standby" => owed[v] <= replayed

SessionsInv ==
    /\ SessionsTypeOK /\ Lsns
    /\ PrimaryIsAhead /\ TokenCoversWrites /\ ReadsWait
    /\ ReadsOwnWrites

\* Nothing is written yet.
LEMMA SessionsStart == SessionsInit => SessionsInv
<1>1. SUFFICES ASSUME SessionsInit  PROVE SessionsInv
  OBVIOUS
<1>2. SessionsTypeOK
  BY <1>1, SessionsAssumption DEF SessionsInit, SessionsTypeOK
<1>3. Lsns
  BY <1>1 DEF SessionsInit, Lsns
<1>4. PrimaryIsAhead /\ TokenCoversWrites /\ ReadsWait /\ ReadsOwnWrites
  BY <1>1 DEF SessionsInit, PrimaryIsAhead, TokenCoversWrites, ReadsWait, ReadsOwnWrites
<1>5. QED BY <1>2, <1>3, <1>4 DEF SessionsInv

\* A set of numbers that has a bound and an element has a greatest element.
LEMMA GreatestExists ==
    ASSUME NEW S \in SUBSET Nat, S # {}, NEW n \in Nat, \A s \in S : s <= n
    PROVE  \E m \in S : \A s \in S : s <= m
<1> DEFINE T == {n - s : s \in S}
<1>1. T \subseteq Nat /\ T # {}
  <2>1. \A s \in S : n - s \in Nat  OBVIOUS
  <2>2. QED BY <2>1
<1>2. PICK x \in T : \A y \in T : ~(<<y, x>> \in OpToRel(<, Nat))
  BY <1>1, NatLessThanWellFounded, WFMin
<1>3. \A y \in T : ~(y < x)
  BY <1>1, <1>2 DEF OpToRel
<1>4. PICK m \in S : x = n - m
  OBVIOUS
<1>5. \A s \in S : s <= m
  <2>1. TAKE s \in S
  <2>2. n - s \in T  OBVIOUS
  <2>3. ~(n - s < n - m)  BY <1>3, <1>4, <2>2
  <2>4. QED BY <2>3
<1>6. QED BY <1>5

\* What a read is owed: the last write that was answered is covered by the token.
LEMMA OwedIsCovered ==
    ASSUME SessionsInv
    PROVE  /\ LastAnswered \in Nat /\ LastAnswered <= wal
           /\ ~wentBack => LastAnswered <= session.lsn
<1> DEFINE writes == {seen[v] : v \in {u \in Visit : visit[u] = "written"}}
<1>1. /\ wal \in Nat /\ session.lsn \in Nat
      /\ \A v \in Visit : seen[v] \in Nat /\ lsn[v] \in Nat
  BY DEF SessionsInv, Lsns
<1>2. CASE writes = {}
  BY <1>1, <1>2 DEF LastAnswered
<1>3. CASE writes # {}
  <2>1. writes \in SUBSET Nat /\ \A s \in writes : s <= wal
    BY <1>1 DEF SessionsInv, PrimaryIsAhead
  <2>2. \E m \in writes : \A s \in writes : s <= m
    BY <1>1, <1>3, <2>1, GreatestExists
  <2>3. LastAnswered \in writes
    BY <1>3, <2>2 DEF LastAnswered
  <2>4. PICK v \in Visit : visit[v] = "written" /\ LastAnswered = seen[v]
    BY <2>3
  <2>5. /\ seen[v] <= wal /\ seen[v] <= lsn[v]
        /\ ~wentBack => lsn[v] <= session.lsn
    BY <2>4 DEF SessionsInv, PrimaryIsAhead, TokenCoversWrites
  <2>6. QED BY <1>1, <2>4, <2>5
<1>4. QED BY <1>2, <1>3

\* A visit that is not a read yet, and the others as they were: the reads keep
\* what they got.
LEMMA ReadsKeep ==
    ASSUME ReadsOwnWrites, NEW v \in Visit, fix' = fix, owed' = owed,
           wentBack \/ ~wentBack, ~wentBack' => ~wentBack,
           visit'[v] # "read primary", visit'[v] # "read standby",
           \A u \in Visit : u # v => visit'[u] = visit[u] /\ seen'[u] = seen[u]
    PROVE  ReadsOwnWrites'
<1>1. SUFFICES ASSUME NEW u \in Visit
               PROVE  /\ visit'[u] = "read primary" => seen'[u] >= owed[u]
                      /\ visit'[u] = "read standby" /\ fix = "lsn" /\ ~wentBack'
                         => seen'[u] >= owed[u]
  BY DEF ReadsOwnWrites
<1>2. CASE u = v
  BY <1>2
<1>3. CASE u # v
  <2>1. visit'[u] = visit[u] /\ seen'[u] = seen[u]
    BY <1>3
  <2>2. /\ visit[u] = "read primary" => seen[u] >= owed[u]
        /\ visit[u] = "read standby" /\ fix = "lsn" /\ ~wentBack => seen[u] >= owed[u]
    BY DEF ReadsOwnWrites
  <2>3. QED BY <2>1, <2>2, Zenon
<1>4. QED BY <1>2, <1>3

\* The two steps of a write before it is answered, and the log of the standby.
LEMMA WriteKeepsSessions ==
    ASSUME SessionsInv, NEW v \in Visit, write(v) \/ flushLsn(v)
    PROVE  SessionsInv'
<1> USE DEF SessionsInv
<1>1. /\ wal \in Nat /\ wal + 1 \in Nat /\ wal < wal + 1
      /\ \A u \in Visit : seen[u] \in Nat /\ lsn[u] \in Nat /\ owed[u] \in Nat
  BY DEF Lsns
<1>2. CASE write(v)
  <2>1. /\ visit[v] = "new" /\ wal' = wal + 1 /\ seen' = [seen EXCEPT ![v] = wal + 1]
        /\ visit' = [visit EXCEPT ![v] = "committed"]
        /\ UNCHANGED <<fix, replayed, session, lsn, owed, wentBack>>
    BY <1>2 DEF write, To
  <2>2. SessionsTypeOK'  BY <2>1 DEF SessionsTypeOK
  <2>3. Lsns'  BY <1>1, <2>1 DEF Lsns
  <2>4. /\ \A u \in Visit : visit'[u] = IF u = v THEN "committed" ELSE visit[u]
        /\ \A u \in Visit : seen'[u] = IF u = v THEN wal + 1 ELSE seen[u]
    BY <2>1 DEF SessionsTypeOK, Lsns
  <2>5. replayed \in Nat  BY DEF Lsns
  <2>6. PrimaryIsAhead'
    BY <1>1, <2>1, <2>4, <2>5 DEF PrimaryIsAhead
  <2>7. TokenCoversWrites'
    BY <2>1, <2>4 DEF TokenCoversWrites
  <2>8. ReadsWait'
    BY <2>1, <2>4 DEF ReadsWait
  <2>9. ReadsOwnWrites'
    <3>1. visit'[v] # "read primary" /\ visit'[v] # "read standby"  BY <2>4
    <3>2. \A u \in Visit : u # v => visit'[u] = visit[u] /\ seen'[u] = seen[u]  BY <2>4
    <3>3. QED BY <2>1, <3>1, <3>2, ReadsKeep
  <2>10. QED BY <2>2, <2>3, <2>6, <2>7, <2>8, <2>9
<1>3. CASE flushLsn(v)
  <2>1. /\ visit[v] = "committed" /\ lsn' = [lsn EXCEPT ![v] = wal]
        /\ visit' = [visit EXCEPT ![v] = "flushed"]
        /\ UNCHANGED <<fix, wal, replayed, session, owed, seen, wentBack>>
    BY <1>3 DEF flushLsn, To
  <2>2. SessionsTypeOK'  BY <2>1 DEF SessionsTypeOK
  <2>3. Lsns'  BY <1>1, <2>1 DEF Lsns
  <2>4. /\ \A u \in Visit : visit'[u] = IF u = v THEN "flushed" ELSE visit[u]
        /\ \A u \in Visit : lsn'[u] = IF u = v THEN wal ELSE lsn[u]
    BY <2>1 DEF SessionsTypeOK, Lsns
  <2>5. PrimaryIsAhead'
    BY <2>1, <2>4 DEF PrimaryIsAhead
  <2>6. TokenCoversWrites'
    BY <2>1, <2>4 DEF TokenCoversWrites, PrimaryIsAhead
  <2>7. ReadsWait'
    BY <2>1, <2>4 DEF ReadsWait
  <2>8. ReadsOwnWrites'
    <3>1. visit'[v] # "read primary" /\ visit'[v] # "read standby"  BY <2>4
    <3>2. \A u \in Visit : u # v => visit'[u] = visit[u] /\ seen'[u] = seen[u]  BY <2>1, <2>4
    <3>3. QED BY <2>1, <3>1, <3>2, ReadsKeep
  <2>9. QED BY <2>2, <2>3, <2>5, <2>6, <2>7, <2>8
<1>4. QED BY <1>2, <1>3

\* The answer to a write: the token is the newest, or it is noted that it is not.
LEMMA RememberKeepsSessions ==
    ASSUME SessionsInv, NEW v \in Visit, remember(v)
    PROVE  SessionsInv'
<1> USE DEF SessionsInv
<1>1. /\ visit[v] = "flushed" /\ session' = [lsn |-> lsn[v], recent |-> TRUE]
      /\ wentBack' = (wentBack \/ lsn[v] < session.lsn)
      /\ visit' = [visit EXCEPT ![v] = "written"]
      /\ UNCHANGED <<fix, wal, replayed, lsn, owed, seen>>
  BY DEF remember, To
<1>2. session'.lsn = lsn[v]
  BY <1>1
<1>3. \A u \in Visit : lsn[u] \in Nat
  BY DEF Lsns
<1>4. SessionsTypeOK'  BY <1>1 DEF SessionsTypeOK
<1>5. Lsns'  BY <1>1, <1>2, <1>3 DEF Lsns
<1>6. \A u \in Visit : visit'[u] = IF u = v THEN "written" ELSE visit[u]
  BY <1>1 DEF SessionsTypeOK
<1>7. ~wentBack' => ~wentBack /\ session.lsn <= lsn[v]
  <2>1. session.lsn \in Nat /\ lsn[v] \in Nat  BY DEF Lsns
  <2>2. ~wentBack' => ~wentBack /\ ~(lsn[v] < session.lsn)  BY <1>1, Zenon
  <2>3. QED BY <2>1, <2>2
<1>8. PrimaryIsAhead'
  BY <1>1, <1>6 DEF PrimaryIsAhead
<1>9. TokenCoversWrites'
  <2>1. \A u \in Visit : visit'[u] \in {"flushed", "written"} => seen[u] <= lsn[u]
    BY <1>1, <1>6 DEF TokenCoversWrites
  <2>2. ASSUME ~wentBack', NEW u \in Visit, visit'[u] = "written"
        PROVE  lsn[u] <= lsn[v]
    <3>1. CASE u = v  BY <1>3, <3>1
    <3>2. CASE u # v
      <4>1. lsn[u] <= session.lsn  BY <1>6, <1>7, <2>2, <3>2 DEF TokenCoversWrites
      <4>2. session.lsn \in Nat  BY DEF Lsns
      <4>3. QED BY <1>3, <1>7, <2>2, <4>1, <4>2
    <3>3. QED BY <3>1, <3>2
  <2>3. QED BY <1>1, <1>2, <2>1, <2>2 DEF TokenCoversWrites
<1>10. ReadsWait'
  BY <1>1, <1>6, <1>7 DEF ReadsWait
<1>11. ReadsOwnWrites'
  <2>1. visit'[v] # "read primary" /\ visit'[v] # "read standby"  BY <1>6
  <2>2. \A u \in Visit : u # v => visit'[u] = visit[u] /\ seen'[u] = seen[u]  BY <1>1, <1>6
  <2>3. QED BY <1>1, <1>7, <2>1, <2>2, ReadsKeep
<1>12. QED BY <1>4, <1>5, <1>8, <1>9, <1>10, <1>11

\* Time passes, and the standby catches up.
LEMMA StandbyKeepsSessions ==
    ASSUME SessionsInv, stickyOver \/ replayWal
    PROVE  SessionsInv'
<1> USE DEF SessionsInv
<1>1. CASE stickyOver
  <2>1. /\ session' = [session EXCEPT !.recent = FALSE]
        /\ UNCHANGED <<fix, wal, replayed, visit, lsn, owed, seen, wentBack>>
    BY <1>1 DEF stickyOver
  <2>2. session'.lsn = session.lsn
    BY <2>1
  <2>3. SessionsTypeOK' /\ Lsns'
    BY <2>1, <2>2 DEF SessionsTypeOK, Lsns
  <2>4. PrimaryIsAhead' /\ TokenCoversWrites' /\ ReadsWait' /\ ReadsOwnWrites'
    BY <2>1, <2>2 DEF PrimaryIsAhead, TokenCoversWrites, ReadsWait, ReadsOwnWrites
  <2>5. QED BY <2>3, <2>4
<1>2. CASE replayWal
  <2>1. /\ replayed < wal /\ replayed' = replayed + 1
        /\ UNCHANGED <<fix, wal, session, visit, lsn, owed, seen, wentBack>>
    BY <1>2 DEF replayWal
  <2>2. wal \in Nat /\ replayed \in Nat /\ \A v \in Visit : owed[v] \in Nat
    BY DEF Lsns
  <2>3. SessionsTypeOK'  BY <2>1 DEF SessionsTypeOK
  <2>4. Lsns'  BY <2>1, <2>2 DEF Lsns
  <2>5. replayed' <= wal /\ \A v \in Visit : owed[v] <= replayed => owed[v] <= replayed'
    BY <2>1, <2>2
  <2>6. PrimaryIsAhead' /\ TokenCoversWrites'
    BY <2>1, <2>5 DEF PrimaryIsAhead, TokenCoversWrites
  <2>7. ReadsWait' /\ ReadsOwnWrites'
    BY <2>1, <2>5 DEF ReadsWait, ReadsOwnWrites
  <2>8. QED BY <2>3, <2>4, <2>6, <2>7
<1>3. QED BY <1>1, <1>2

\* The routing decision: what the read is owed is at most its token.
LEMMA RouteKeepsSessions ==
    ASSUME SessionsInv, NEW v \in Visit, route(v)
    PROVE  SessionsInv'
<1> USE DEF SessionsInv
<1>1. PICK s \in {"primary", "polling", "standby"} :
          /\ visit' = [visit EXCEPT ![v] = s]
          /\ fix = "lsn" /\ s = "standby" => session.lsn = 0
  BY DEF route, To
<1>2. /\ visit[v] = "new" /\ owed' = [owed EXCEPT ![v] = LastAnswered]
      /\ lsn' = [lsn EXCEPT ![v] = session.lsn]
      /\ UNCHANGED <<fix, wal, replayed, session, seen, wentBack>>
  BY DEF route
<1>3. /\ LastAnswered \in Nat /\ LastAnswered <= wal
      /\ ~wentBack => LastAnswered <= session.lsn
  BY OwedIsCovered
<1>4. SessionsTypeOK'  BY <1>1, <1>2 DEF SessionsTypeOK
<1>5. Lsns'  BY <1>2, <1>3 DEF Lsns
<1>6. /\ \A u \in Visit : visit'[u] = IF u = v THEN s ELSE visit[u]
      /\ \A u \in Visit : owed'[u] = IF u = v THEN LastAnswered ELSE owed[u]
      /\ \A u \in Visit : lsn'[u] = IF u = v THEN session.lsn ELSE lsn[u]
  BY <1>1, <1>2 DEF SessionsTypeOK, Lsns
<1>7. PrimaryIsAhead'
  BY <1>2, <1>3, <1>6 DEF PrimaryIsAhead
<1>8. TokenCoversWrites'
  BY <1>1, <1>2, <1>6 DEF TokenCoversWrites
<1>9. ReadsWait'
  <2>1. fix = "lsn" /\ ~wentBack /\ s = "standby" => LastAnswered <= replayed
    <3>1. replayed \in Nat  BY DEF Lsns
    <3>2. QED BY <1>1, <1>3, <3>1
  <2>2. QED BY <1>1, <1>2, <1>3, <1>6, <2>1 DEF ReadsWait
<1>10. ReadsOwnWrites'
  BY <1>1, <1>2, <1>6, ZenonT(30) DEF ReadsOwnWrites
<1>11. QED BY <1>4, <1>5, <1>7, <1>8, <1>9, <1>10

\* The poll of the standby's position, and its deadline.
LEMMA PollKeepsSessions ==
    ASSUME SessionsInv, NEW v \in Visit, pollReached(v) \/ fallBack(v)
    PROVE  SessionsInv'
<1> USE DEF SessionsInv
<1>1. PICK s \in {"standby", "primary"} :
          /\ visit' = [visit EXCEPT ![v] = s]
          /\ s = "standby" => replayed >= lsn[v]
  BY DEF pollReached, fallBack, To, Reached
<1>2. visit[v] = "polling" /\ UNCHANGED <<fix, wal, replayed, session, lsn, owed, seen, wentBack>>
  BY DEF pollReached, fallBack
<1>3. \A u \in Visit : visit'[u] = IF u = v THEN s ELSE visit[u]
  BY <1>1 DEF SessionsTypeOK
<1>4. SessionsTypeOK' /\ Lsns'
  BY <1>1, <1>2 DEF SessionsTypeOK, Lsns
<1>5. PrimaryIsAhead' /\ TokenCoversWrites' /\ ReadsOwnWrites'
  BY <1>1, <1>2, <1>3 DEF PrimaryIsAhead, TokenCoversWrites, ReadsOwnWrites
<1>6. ReadsWait'
  <2>1. fix = "lsn" /\ ~wentBack /\ s = "standby" => owed[v] <= replayed
    <3>1. replayed \in Nat /\ owed[v] \in Nat /\ lsn[v] \in Nat  BY DEF Lsns
    <3>2. fix = "lsn" /\ ~wentBack => owed[v] <= lsn[v]  BY <1>2 DEF ReadsWait
    <3>3. QED BY <1>1, <3>1, <3>2
  <2>2. QED BY <1>1, <1>2, <1>3, <2>1 DEF ReadsWait
<1>7. QED BY <1>4, <1>5, <1>6

\* The read itself.
LEMMA ReadKeepsSessions ==
    ASSUME SessionsInv, NEW v \in Visit, read(v)
    PROVE  SessionsInv'
<1> USE DEF SessionsInv
<1>1. /\ visit[v] \in {"standby", "primary"}
      /\ seen' = [seen EXCEPT ![v] = IF visit[v] = "primary" THEN wal ELSE replayed]
      /\ visit' = [visit EXCEPT ![v] = IF visit[v] = "primary" THEN "read primary"
                                       ELSE "read standby"]
      /\ UNCHANGED <<fix, wal, replayed, session, lsn, owed, wentBack>>
  BY DEF read, To
<1>2. SessionsTypeOK' /\ Lsns'
  BY <1>1 DEF SessionsTypeOK, Lsns
<1>3. /\ \A u \in Visit : u # v => visit'[u] = visit[u] /\ seen'[u] = seen[u]
      /\ visit[v] = "primary" => visit'[v] = "read primary" /\ seen'[v] = wal
      /\ visit[v] = "standby" => visit'[v] = "read standby" /\ seen'[v] = replayed
  BY <1>1 DEF SessionsTypeOK, Lsns
<1>4. PrimaryIsAhead' /\ TokenCoversWrites' /\ ReadsWait'
  BY <1>1, <1>3 DEF PrimaryIsAhead, TokenCoversWrites, ReadsWait
<1>5. ReadsOwnWrites'
  <2>1. /\ visit[v] = "primary" => wal >= owed[v]
        /\ visit[v] = "standby" /\ fix = "lsn" /\ ~wentBack => replayed >= owed[v]
    BY DEF PrimaryIsAhead, ReadsWait, Lsns
  <2>2. QED BY <1>1, <1>3, <2>1 DEF ReadsOwnWrites
<1>6. QED BY <1>2, <1>4, <1>5

\* For any number of overlapping requests of a session: with FIX=lsn a read gets
\* the last write that was answered before it, or a later one, however far the
\* standby is behind, as long as the token was not replaced by an older one; a
\* read of the primary always does.
THEOREM SessionsReadTheirWrites == SessionsSpec => []ReadsOwnWrites
<1>1. SessionsInv /\ [SessionsNext]_sessionVars => SessionsInv'
  <2>1. SUFFICES ASSUME SessionsInv, [SessionsNext]_sessionVars  PROVE SessionsInv'
    OBVIOUS
  <2>2. CASE UNCHANGED sessionVars
    BY <2>1, <2>2 DEF sessionVars, SessionsInv, SessionsTypeOK, Lsns, PrimaryIsAhead,
       TokenCoversWrites, ReadsWait, ReadsOwnWrites
  <2>3. CASE SessionsNext
    BY <2>1, <2>3, WriteKeepsSessions, RememberKeepsSessions, StandbyKeepsSessions,
       RouteKeepsSessions, PollKeepsSessions, ReadKeepsSessions DEF SessionsNext
  <2>4. QED BY <2>1, <2>2, <2>3
<1>2. SessionsInv => ReadsOwnWrites
  BY DEF SessionsInv
<1>3. QED BY SessionsStart, <1>1, <1>2, PTL DEF SessionsSpec

-----------------------------------------------------------------------------
(* HandPool: the hand-rolled connection pool *)

PoolTypeOK ==
    /\ poolPolicy \in {"Unbounded", "BlockForever", "Timeout", "Shed"}
    /\ thread \in [Thread -> {"start", "waiting", "woken", "holding", "notifying", "done",
                              "refused", "timed out"}]

PoolNumbers == created \in Nat /\ idle \in Seq(Nat) /\ conn \in [Thread -> Nat]

\* A thread has a connection exactly while it is between acquire and release.
HoldersHaveOne == \A t \in Thread : conn[t] # 0 <=> thread[t] = "holding"

\* No connection is in two places of the pool, or with two threads.
NoConnTwice ==
    /\ \A i, j \in DOMAIN idle : idle[i] = idle[j] => i = j
    /\ \A t, u \in Thread : conn[t] # 0 /\ conn[t] = conn[u] => t = u

Holders == {t \in Thread : conn[t] # 0}

\* The conservation of connections.
ConnsAreSomewhere ==
    /\ InThePool \cap HandedOut = {} /\ InThePool \cup HandedOut = 1..created
    /\ Len(idle) + Cardinality(Holders) = created
    /\ poolPolicy # "Unbounded" => created = PoolSize

\* The threads that will look, or will make a waiter look.
Coming == {t \in Thread : thread[t] \in {"woken", "notifying"}}

\* While anybody waits, every idle connection has its own thread on the way.
\* The count against the waiters in PoolHandsOn does not follow from itself: a
\* woken thread that takes a connection would spend it.
WaitersAreTold == Waiting = {} \/ Len(idle) <= Cardinality(Coming)

PoolInv ==
    /\ PoolTypeOK /\ PoolNumbers /\ HoldersHaveOne /\ NoConnTwice
    /\ ConnsAreSomewhere /\ WaitersAreTold

\* The pool starts full, and nobody has asked.
LEMMA PoolStarts == PoolInit => PoolInv
<1>1. SUFFICES ASSUME PoolInit  PROVE PoolInv
  OBVIOUS
<1>2. PoolSize \in Nat /\ poolPolicy \in {"Unbounded", "BlockForever", "Timeout", "Shed"}
  BY <1>1, HandPoolAssumption DEF PoolInit
<1>3. PoolTypeOK
  BY <1>1, <1>2 DEF PoolInit, PoolTypeOK
<1>4. /\ idle \in Seq(Nat) /\ Len(idle) = PoolSize /\ DOMAIN idle = 1..PoolSize
      /\ \A i \in 1..PoolSize : idle[i] = i
  BY <1>1, <1>2 DEF PoolInit
<1>5. PoolNumbers /\ HoldersHaveOne /\ NoConnTwice
  BY <1>1, <1>2, <1>4 DEF PoolInit, PoolNumbers, HoldersHaveOne, NoConnTwice
<1>6. ConnsAreSomewhere
  <2>1. Holders = {} /\ HandedOut = {}
    BY <1>1 DEF PoolInit, Holders, HandedOut
  <2>2. InThePool = 1..PoolSize
    BY <1>4 DEF InThePool
  <2>3. Cardinality(Holders) = 0
    BY <2>1, FS_EmptySet
  <2>4. created = PoolSize  BY <1>1 DEF PoolInit
  <2>5. QED BY <1>2, <1>4, <2>1, <2>2, <2>3, <2>4 DEF ConnsAreSomewhere
<1>7. WaitersAreTold
  BY <1>1 DEF PoolInit, WaitersAreTold, Waiting
<1>8. QED BY <1>3, <1>5, <1>6, <1>7 DEF PoolInv

\* A thread that leaves its place for another one.
LEMMA ThreadMoves ==
    ASSUME PoolTypeOK, NEW t \in Thread, NEW s, Go(t, s)
    PROVE  /\ thread'[t] = s /\ \A u \in Thread : u # t => thread'[u] = thread[u]
           /\ IsFiniteSet(Coming) /\ IsFiniteSet(Coming') /\ IsFiniteSet(Waiting)
<1>1. thread'[t] = s /\ \A u \in Thread : u # t => thread'[u] = thread[u]
  BY DEF PoolTypeOK, Go
<1>2. Coming \subseteq Thread /\ Coming' \subseteq Thread /\ Waiting \subseteq Thread
  BY DEF Coming, Waiting
<1>3. QED BY <1>1, <1>2, HandPoolAssumption, FS_Subset

\* The connection on top goes to t, which had none.
LEMMA TakeKeepsConns ==
    ASSUME PoolInv, NEW t \in Thread, thread[t] # "holding", TakeIdle(t), UNCHANGED poolPolicy
    PROVE  PoolNumbers' /\ HoldersHaveOne' /\ NoConnTwice' /\ ConnsAreSomewhere'
<1> USE DEF PoolInv
<1> DEFINE c == idle[Len(idle)]
           n == Len(idle)
<1>1. /\ idle \in Seq(Nat) /\ n \in Nat /\ n # 0 /\ created \in Nat /\ c \in Nat
      /\ n \in DOMAIN idle
  BY DEF PoolNumbers, TakeIdle
<1>2. /\ idle' = SubSeq(idle, 1, n - 1) /\ conn' = [conn EXCEPT ![t] = c]
      /\ thread' = [thread EXCEPT ![t] = "holding"] /\ UNCHANGED <<created, poolPolicy>>
  BY DEF TakeIdle, Go
<1>3. /\ idle' \in Seq(Nat) /\ Len(idle') = n - 1 /\ DOMAIN idle' = 1..(n - 1)
      /\ \A i \in 1..(n - 1) : idle'[i] = idle[i]
  <2> DEFINE short == SubSeq(idle, 1, n - 1)
  <2>1. \A i \in 1..(n - 1) : idle[i] \in Nat
    BY <1>1
  <2>2. /\ short \in Seq(Nat) /\ Len(short) = IF 1 <= n - 1 THEN (n - 1) - 1 + 1 ELSE 0
        /\ \A i \in 1..((n - 1) - 1 + 1) : short[i] = idle[1 + i - 1]
    BY <1>1, <2>1, SubSeqProperties
  <2> HIDE DEF short
  <2>3. short \in Seq(Nat) /\ Len(short) = n - 1
    <3>1. Len(short) = IF 1 <= n - 1 THEN (n - 1) - 1 + 1 ELSE 0  BY <2>2
    <3> HIDE DEF n
    <3>2. Len(short) = n - 1  BY <1>1, <3>1
    <3>3. QED BY <2>2, <3>2
  <2>4. \A i \in 1..(n - 1) : short[i] = idle[i]
    <3>1. TAKE i \in 1..(n - 1)
    <3>2. i \in 1..((n - 1) - 1 + 1) /\ 1 + i - 1 = i  BY <1>1
    <3>3. short[i] = idle[1 + i - 1]  BY <2>2, <3>2
    <3>4. QED BY <3>2, <3>3
  <2>5. DOMAIN short = 1..(n - 1)
    BY <2>3
  <2>6. idle' = short  BY <1>2 DEF short
  <2>7. QED BY <2>3, <2>4, <2>5, <2>6
<1>4. conn[t] = 0
  BY DEF HoldersHaveOne
<1>5. c \in InThePool
  BY <1>1 DEF InThePool
<1>6. c \in 1..created /\ c \notin HandedOut /\ c # 0
  BY <1>1, <1>5 DEF ConnsAreSomewhere
<1>7. /\ conn' \in [Thread -> Nat] /\ conn'[t] = c
      /\ \A u \in Thread : u # t => conn'[u] = conn[u]
  BY <1>1, <1>2 DEF PoolNumbers
<1>8. PoolNumbers'
  BY <1>1, <1>2, <1>3, <1>7 DEF PoolNumbers
<1>9. HoldersHaveOne'
  <2>1. thread'[t] = "holding" /\ \A u \in Thread : u # t => thread'[u] = thread[u]
    BY <1>2 DEF PoolTypeOK
  <2>2. QED BY <1>6, <1>7, <2>1 DEF HoldersHaveOne
<1>10. NoConnTwice'
  <2>1. \A i, j \in DOMAIN idle' : idle'[i] = idle'[j] => i = j
    <3>1. \A i \in 1..(n - 1) : i \in DOMAIN idle  BY <1>1
    <3>2. QED BY <1>3, <3>1 DEF NoConnTwice
  <2>2. \A u \in Thread : u # t /\ conn[u] # 0 => conn[u] # c
    BY <1>6 DEF HandedOut
  <2>3. \A u, w \in Thread : conn'[u] # 0 /\ conn'[u] = conn'[w] => u = w
    BY <1>6, <1>7, <2>2 DEF NoConnTwice
  <2>4. QED BY <2>1, <2>3 DEF NoConnTwice
<1>11. ConnsAreSomewhere'
  <2>1. InThePool' = InThePool \ {c}
    <3>1. InThePool' = {idle[i] : i \in 1..(n - 1)}
      BY <1>3 DEF InThePool
    <3>2. InThePool = {idle[i] : i \in 1..(n - 1)} \cup {c}
      BY <1>1 DEF InThePool
    <3>3. \A i \in 1..(n - 1) : idle[i] # c
      BY <1>1 DEF NoConnTwice
    <3>4. QED BY <3>1, <3>2, <3>3
  <2>2. HandedOut' = HandedOut \cup {c}
    BY <1>4, <1>6, <1>7 DEF HandedOut
  <2>3. InThePool' \cap HandedOut' = {} /\ InThePool' \cup HandedOut' = 1..created
    BY <1>5, <1>6, <2>1, <2>2 DEF ConnsAreSomewhere
  <2>4. Holders' = Holders \cup {t} /\ t \notin Holders
    BY <1>4, <1>6, <1>7 DEF Holders
  <2>5. IsFiniteSet(Holders)
    BY HandPoolAssumption, FS_Subset DEF Holders
  <2>6. Cardinality(Holders') = Cardinality(Holders) + 1 /\ Cardinality(Holders) \in Nat
    BY <2>4, <2>5, CountOne
  <2>7. Len(idle') + Cardinality(Holders') = created
    BY <1>1, <1>3, <2>6 DEF ConnsAreSomewhere
  <2>8. QED BY <1>2, <2>3, <2>7 DEF ConnsAreSomewhere
<1>12. QED BY <1>8, <1>9, <1>10, <1>11

\* The connection of t goes back on top.
LEMMA PushKeepsConns ==
    ASSUME PoolInv, NEW t \in Thread, pushIdle(t)
    PROVE  PoolNumbers' /\ HoldersHaveOne' /\ NoConnTwice' /\ ConnsAreSomewhere'
<1> USE DEF PoolInv
<1> DEFINE c == conn[t]
           n == Len(idle)
<1>1. /\ idle \in Seq(Nat) /\ n \in Nat /\ created \in Nat /\ c \in Nat
      /\ DOMAIN idle = 1..n
  BY DEF PoolNumbers
<1>2. /\ thread[t] = "holding" /\ idle' = Append(idle, c) /\ conn' = [conn EXCEPT ![t] = 0]
      /\ thread' = [thread EXCEPT ![t] = "notifying"] /\ UNCHANGED <<created, poolPolicy>>
  BY DEF pushIdle, Go
<1>3. c # 0 /\ c \in HandedOut
  BY <1>2 DEF HoldersHaveOne, HandedOut
<1>4. c \notin InThePool
  BY <1>3 DEF ConnsAreSomewhere
<1>5. /\ idle' \in Seq(Nat) /\ Len(idle') = n + 1 /\ DOMAIN idle' = 1..(n + 1)
      /\ idle'[n + 1] = c /\ \A i \in 1..n : idle'[i] = idle[i]
  BY <1>1, <1>2, AppendProperties
<1>6. /\ conn' \in [Thread -> Nat] /\ conn'[t] = 0
      /\ \A u \in Thread : u # t => conn'[u] = conn[u]
  BY <1>1, <1>2 DEF PoolNumbers
<1>7. PoolNumbers'
  BY <1>1, <1>2, <1>5, <1>6 DEF PoolNumbers
<1>8. HoldersHaveOne'
  <2>1. thread'[t] = "notifying" /\ \A u \in Thread : u # t => thread'[u] = thread[u]
    BY <1>2 DEF PoolTypeOK
  <2>2. QED BY <1>6, <2>1 DEF HoldersHaveOne
<1>9. InThePool' = InThePool \cup {c} /\ \A i \in 1..n : idle[i] # c
  <2>1. InThePool' = {idle'[i] : i \in 1..(n + 1)}  BY <1>5 DEF InThePool
  <2>2. InThePool = {idle[i] : i \in 1..n}  BY <1>1 DEF InThePool
  <2>3. \A i \in 1..(n + 1) : i \in 1..n \/ i = n + 1  BY <1>1
  <2>4. \A i \in 1..n : i \in 1..(n + 1)  BY <1>1
  <2>5. n + 1 \in 1..(n + 1)  BY <1>1
  <2>6. QED BY <1>4, <1>5, <2>1, <2>2, <2>3, <2>4, <2>5
<1>10. NoConnTwice'
  <2>1. ASSUME NEW i \in DOMAIN idle', NEW j \in DOMAIN idle', idle'[i] = idle'[j]
        PROVE  i = j
    <3>1. (i \in 1..n \/ i = n + 1) /\ (j \in 1..n \/ j = n + 1)  BY <1>1, <1>5
    <3>2. CASE i \in 1..n /\ j \in 1..n
      BY <1>1, <1>5, <2>1, <3>2 DEF NoConnTwice
    <3>3. CASE i = n + 1 \/ j = n + 1
      BY <1>5, <1>9, <2>1, <3>1, <3>3
    <3>4. QED BY <3>1, <3>2, <3>3
  <2>2. \A u, w \in Thread : conn'[u] # 0 /\ conn'[u] = conn'[w] => u = w
    BY <1>6 DEF NoConnTwice
  <2>3. QED BY <2>1, <2>2 DEF NoConnTwice
<1>11. ConnsAreSomewhere'
  <2>1. HandedOut' = HandedOut \ {c}
    <3>1. \A u \in Thread : u # t /\ conn[u] # 0 => conn[u] # c
      BY <1>3 DEF NoConnTwice
    <3>2. QED BY <1>3, <1>6, <3>1 DEF HandedOut
  <2>2. InThePool' \cap HandedOut' = {} /\ InThePool' \cup HandedOut' = 1..created
    BY <1>3, <1>9, <2>1 DEF ConnsAreSomewhere
  <2>3. Holders' = Holders \ {t} /\ t \in Holders
    BY <1>3, <1>6 DEF Holders
  <2>4. IsFiniteSet(Holders)
    BY HandPoolAssumption, FS_Subset DEF Holders
  <2>5. Cardinality(Holders') = Cardinality(Holders) - 1 /\ Cardinality(Holders) \in Nat
    BY <2>3, <2>4, CountOne
  <2>6. Len(idle') + Cardinality(Holders') = created
    BY <1>1, <1>5, <2>5 DEF ConnsAreSomewhere
  <2>7. QED BY <1>2, <2>2, <2>6 DEF ConnsAreSomewhere
<1>12. QED BY <1>7, <1>8, <1>10, <1>11

\* A connection beyond size_, for t that had none.
LEMMA OverflowKeepsConns ==
    ASSUME PoolInv, NEW t \in Thread, overflowConn(t)
    PROVE  PoolNumbers' /\ HoldersHaveOne' /\ NoConnTwice' /\ ConnsAreSomewhere'
<1> USE DEF PoolInv
<1>1. created \in Nat /\ created + 1 \in Nat /\ created + 1 # 0 /\ idle \in Seq(Nat)
  BY DEF PoolNumbers
<1>2. /\ thread[t] = "start" /\ poolPolicy = "Unbounded" /\ created' = created + 1
      /\ conn' = [conn EXCEPT ![t] = created + 1]
      /\ thread' = [thread EXCEPT ![t] = "holding"] /\ UNCHANGED <<poolPolicy, idle>>
  BY DEF overflowConn, Go
<1>3. /\ conn' \in [Thread -> Nat] /\ conn'[t] = created + 1
      /\ \A u \in Thread : u # t => conn'[u] = conn[u]
  BY <1>1, <1>2 DEF PoolNumbers
<1>4. conn[t] = 0
  BY <1>2 DEF HoldersHaveOne
<1>5. PoolNumbers'
  BY <1>1, <1>2, <1>3 DEF PoolNumbers
<1>6. HoldersHaveOne'
  <2>1. thread'[t] = "holding" /\ \A u \in Thread : u # t => thread'[u] = thread[u]
    BY <1>2 DEF PoolTypeOK
  <2>2. QED BY <1>1, <1>3, <2>1 DEF HoldersHaveOne
<1>7. created + 1 \notin 1..created /\ 1..(created + 1) = (1..created) \cup {created + 1}
  BY <1>1
<1>8. created + 1 \notin InThePool /\ created + 1 \notin HandedOut
  BY <1>7 DEF ConnsAreSomewhere
<1>9. NoConnTwice'
  <2>1. \A u \in Thread : u # t /\ conn[u] # 0 => conn[u] # created + 1
    BY <1>8 DEF HandedOut
  <2>2. \A u, w \in Thread : conn'[u] # 0 /\ conn'[u] = conn'[w] => u = w
    BY <1>1, <1>3, <2>1 DEF NoConnTwice
  <2>3. QED BY <1>2, <2>2 DEF NoConnTwice
<1>10. ConnsAreSomewhere'
  <2>1. HandedOut' = HandedOut \cup {created + 1} /\ InThePool' = InThePool
    BY <1>1, <1>2, <1>3, <1>4 DEF HandedOut, InThePool
  <2>2. InThePool' \cap HandedOut' = {} /\ InThePool' \cup HandedOut' = 1..created'
    BY <1>2, <1>7, <1>8, <2>1 DEF ConnsAreSomewhere
  <2>3. Holders' = Holders \cup {t} /\ t \notin Holders
    BY <1>1, <1>3, <1>4 DEF Holders
  <2>4. IsFiniteSet(Holders)
    BY HandPoolAssumption, FS_Subset DEF Holders
  <2>5. Cardinality(Holders') = Cardinality(Holders) + 1 /\ Cardinality(Holders) \in Nat
    BY <2>3, <2>4, CountOne
  <2>6. Len(idle') + Cardinality(Holders') = created'
    <3>1. Len(idle) \in Nat /\ Len(idle') = Len(idle)  BY <1>1, <1>2
    <3>2. Len(idle) + Cardinality(Holders) = created  BY DEF ConnsAreSomewhere
    <3>3. QED BY <1>1, <1>2, <2>5, <3>1, <3>2
  <2>7. QED BY <1>2, <2>2, <2>6 DEF ConnsAreSomewhere
<1>11. QED BY <1>5, <1>6, <1>9, <1>10

\* A thread that has no connection moves and gets none.
LEMMA MoveKeepsConns ==
    ASSUME PoolInv, UNCHANGED <<poolPolicy, idle, created, conn>>,
           \A u \in Thread : thread'[u] = "holding" <=> thread[u] = "holding"
    PROVE  PoolNumbers' /\ HoldersHaveOne' /\ NoConnTwice' /\ ConnsAreSomewhere'
<1> USE DEF PoolInv
<1>1. PoolNumbers' /\ NoConnTwice'
  BY DEF PoolNumbers, NoConnTwice
<1>2. HoldersHaveOne'
  BY DEF HoldersHaveOne
<1>3. InThePool' = InThePool /\ HandedOut' = HandedOut /\ Holders' = Holders
  BY DEF InThePool, HandedOut, Holders
<1>4. ConnsAreSomewhere'
  BY <1>3 DEF ConnsAreSomewhere
<1>5. QED BY <1>1, <1>2, <1>4

\* Nobody waits that did not, and the connections are as many as before or fewer,
\* with as many threads on the way; or the pool is empty.
LEMMA StillTold ==
    ASSUME PoolInv, IsFiniteSet(Coming), IsFiniteSet(Coming'), idle' \in Seq(Nat),
           \/ Len(idle') = 0
           \/ /\ Waiting' \subseteq Waiting
              /\ Len(idle') - Cardinality(Coming') <= Len(idle) - Cardinality(Coming)
    PROVE  WaitersAreTold'
<1>1. Len(idle) \in Nat /\ Len(idle') \in Nat
  BY DEF PoolInv, PoolNumbers
<1>2. Cardinality(Coming) \in Nat /\ Cardinality(Coming') \in Nat
  BY FS_CardinalityType
<1>3. CASE Len(idle') = 0
  BY <1>2, <1>3 DEF WaitersAreTold
<1>4. CASE /\ Waiting' \subseteq Waiting
           /\ Len(idle') - Cardinality(Coming') <= Len(idle) - Cardinality(Coming)
  <2>1. CASE Waiting = {}
    BY <1>4, <2>1 DEF WaitersAreTold
  <2>2. CASE Len(idle) <= Cardinality(Coming)
    <3>1. Len(idle') <= Cardinality(Coming')  BY <1>1, <1>2, <1>4, <2>2
    <3>2. QED BY <3>1 DEF WaitersAreTold
  <2>3. QED BY <2>1, <2>2 DEF PoolInv, WaitersAreTold
<1>5. QED BY <1>3, <1>4

\* A thread takes the connection on top: a newcomer leaves the others to come, a
\* waiter that looked comes no more.
LEMMA TakeKeepsPool ==
    ASSUME PoolInv, NEW t \in Thread, thread[t] \in {"start", "waiting", "woken"},
           TakeIdle(t), UNCHANGED poolPolicy
    PROVE  PoolInv'
<1>1. Go(t, "holding") /\ PoolTypeOK /\ idle \in Seq(Nat)
  BY DEF TakeIdle, PoolInv, PoolNumbers
<1>2. /\ thread'[t] = "holding" /\ \A u \in Thread : u # t => thread'[u] = thread[u]
      /\ IsFiniteSet(Coming) /\ IsFiniteSet(Coming')
  BY <1>1, ThreadMoves
<1>3. PoolTypeOK'
  BY <1>1 DEF PoolTypeOK, Go
<1>4. PoolNumbers' /\ HoldersHaveOne' /\ NoConnTwice' /\ ConnsAreSomewhere'
  BY TakeKeepsConns
<1>5. idle' \in Seq(Nat) /\ Len(idle') = Len(idle) - 1 /\ Len(idle) \in Nat
  <2>1. idle # <<>> /\ idle' = SubSeq(idle, 1, Len(idle) - 1)
    BY DEF TakeIdle
  <2>2. Len(idle) \in Nat /\ Len(idle) # 0  BY <1>1, <2>1
  <2>3. idle' \in Seq(Nat)  BY <1>4 DEF PoolNumbers
  <2>4. \A i \in 1..(Len(idle) - 1) : idle[i] \in Nat  BY <1>1
  <2>5. Len(idle') = IF 1 <= Len(idle) - 1 THEN (Len(idle) - 1) - 1 + 1 ELSE 0
    BY <2>1, <2>2, <2>4, SubSeqProperties
  <2>6. Len(idle') = Len(idle) - 1
    <3> DEFINE n == Len(idle)
               m == Len(idle')
    <3>1. n \in Nat /\ n # 0 /\ m = IF 1 <= n - 1 THEN (n - 1) - 1 + 1 ELSE 0
      BY <2>2, <2>5
    <3> HIDE DEF n, m
    <3>2. m = n - 1  BY <3>1
    <3>3. QED BY <3>2 DEF n, m
  <2>7. QED BY <2>2, <2>3, <2>6
<1>6. Waiting' \subseteq Waiting
  BY <1>2 DEF Waiting
<1>7. Cardinality(Coming) \in Nat /\ Cardinality(Coming') >= Cardinality(Coming) - 1
      /\ Cardinality(Coming') \in Nat
  <2>1. Coming' = Coming \ {t}
    BY <1>2 DEF Coming
  <2>2. CASE t \in Coming
    BY <1>2, <2>1, <2>2, CountOne
  <2>3. CASE t \notin Coming
    <3>1. Coming' = Coming  BY <2>1, <2>3
    <3>2. Cardinality(Coming) \in Nat  BY <1>2, FS_CardinalityType
    <3>3. QED BY <3>1, <3>2
  <2>4. QED BY <2>2, <2>3
<1>8. Len(idle') - Cardinality(Coming') <= Len(idle) - Cardinality(Coming)
  BY <1>5, <1>7
<1>9. WaitersAreTold'
  BY <1>2, <1>5, <1>6, <1>8, StillTold
<1>10. QED BY <1>3, <1>4, <1>9 DEF PoolInv

\* One more on the way, for as many connections.
LEMMA OneMoreComes == \A n, a \in Nat : n - (a + 1) <= n - a
OBVIOUS

\* The steps of a thread that finds the pool empty, and a spurious wake-up.
LEMMA WaitKeepsPool ==
    ASSUME PoolInv, NEW t \in Thread, NEW s \in {"refused", "waiting", "timed out", "woken"},
           thread[t] \in {"start", "waiting", "woken"}, Go(t, s),
           idle = <<>> \/ (thread[t] = "waiting" /\ s = "woken"),
           UNCHANGED <<poolPolicy, idle, created, conn>>
    PROVE  PoolInv'
<1>1. PoolTypeOK /\ idle \in Seq(Nat)
  BY DEF PoolInv, PoolNumbers
<1>2. /\ thread'[t] = s /\ \A u \in Thread : u # t => thread'[u] = thread[u]
      /\ IsFiniteSet(Coming) /\ IsFiniteSet(Coming')
  BY <1>1, ThreadMoves
<1>3. PoolTypeOK'
  BY <1>1 DEF PoolTypeOK, Go
<1>4. \A u \in Thread : thread'[u] = "holding" <=> thread[u] = "holding"
  BY <1>2
<1>5. PoolNumbers' /\ HoldersHaveOne' /\ NoConnTwice' /\ ConnsAreSomewhere'
  BY <1>4, MoveKeepsConns
<1>6. WaitersAreTold'
  <2>1. CASE idle = <<>>
    <3>1. Len(idle') = 0  BY <2>1
    <3>2. QED BY <1>1, <1>2, <3>1, StillTold
  <2>2. CASE thread[t] = "waiting" /\ s = "woken"
    <3>1. Waiting' \subseteq Waiting /\ Coming' = Coming \cup {t} /\ t \notin Coming
      BY <1>2, <2>2 DEF Waiting, Coming
    <3>2. Cardinality(Coming') = Cardinality(Coming) + 1 /\ Cardinality(Coming) \in Nat
      BY <1>2, <3>1, CountOne
    <3>3. Len(idle) \in Nat /\ Len(idle') = Len(idle)
      <4>1. idle' = idle  OBVIOUS
      <4>2. Len(idle') = Len(idle)  BY <4>1, Zenon
      <4>3. Len(idle) \in Nat  BY <1>1, LenProperties, Zenon
      <4>4. QED BY <4>2, <4>3, Zenon
    <3>4. Len(idle') - Cardinality(Coming') <= Len(idle) - Cardinality(Coming)
      <4>1. Len(idle) - (Cardinality(Coming) + 1) <= Len(idle) - Cardinality(Coming)
        BY <3>2, <3>3, OneMoreComes, Zenon
      <4>2. QED BY <3>2, <3>3, <4>1, Zenon
    <3>5. QED BY <1>1, <1>2, <3>1, <3>4, StillTold
  <2>3. QED BY <2>1, <2>2
<1>7. QED BY <1>3, <1>5, <1>6 DEF PoolInv

\* Both halves of release: as many connections more as threads that will tell,
\* and the one that tells hands its place to the one that it woke.
LEMMA ReleaseKeepsPool ==
    ASSUME PoolInv, NEW t \in Thread, pushIdle(t) \/ notifyOne(t)
    PROVE  PoolInv'
<1>1. PoolTypeOK /\ idle \in Seq(Nat) /\ Len(idle) \in Nat
  BY LenProperties DEF PoolInv, PoolNumbers
<1>2. CASE pushIdle(t)
  <2>1. /\ Go(t, "notifying") /\ thread[t] = "holding" /\ UNCHANGED poolPolicy
        /\ idle' = Append(idle, conn[t]) /\ conn[t] \in Nat
    BY <1>2 DEF pushIdle, PoolInv, PoolNumbers
  <2>2. /\ thread'[t] = "notifying" /\ \A u \in Thread : u # t => thread'[u] = thread[u]
        /\ IsFiniteSet(Coming) /\ IsFiniteSet(Coming')
    BY <1>1, <2>1, ThreadMoves
  <2>3. PoolTypeOK'
    BY <1>1, <2>1 DEF PoolTypeOK, Go
  <2>4. PoolNumbers' /\ HoldersHaveOne' /\ NoConnTwice' /\ ConnsAreSomewhere'
    BY <1>2, PushKeepsConns
  <2>5. idle' \in Seq(Nat) /\ Len(idle') = Len(idle) + 1
    BY <1>1, <2>1, AppendProperties
  <2>6. Waiting' \subseteq Waiting /\ Coming' = Coming \cup {t} /\ t \notin Coming
    BY <2>1, <2>2 DEF Waiting, Coming
  <2>7. Cardinality(Coming') = Cardinality(Coming) + 1 /\ Cardinality(Coming) \in Nat
    BY <2>2, <2>6, CountOne
  <2>8. Len(idle') - Cardinality(Coming') <= Len(idle) - Cardinality(Coming)
    BY <1>1, <2>5, <2>7
  <2>9. WaitersAreTold'
    BY <2>2, <2>5, <2>6, <2>8, StillTold
  <2>10. QED BY <2>3, <2>4, <2>9 DEF PoolInv
<1>3. CASE notifyOne(t)
  <2>1. thread[t] = "notifying" /\ UNCHANGED <<poolPolicy, idle, created, conn>>
    BY <1>3 DEF notifyOne
  <2>2. IsFiniteSet(Coming) /\ IsFiniteSet(Coming')
    <3>1. Coming \subseteq Thread /\ Coming' \subseteq Thread  BY DEF Coming
    <3>2. QED BY <3>1, HandPoolAssumption, FS_Subset
  <2>3. CASE Waiting = {} /\ Go(t, "done")
    <3>1. thread'[t] = "done" /\ \A u \in Thread : u # t => thread'[u] = thread[u]
      BY <1>1, <2>3, ThreadMoves
    <3>2. PoolTypeOK'
      BY <1>1, <2>1, <2>3 DEF PoolTypeOK, Go
    <3>3. \A u \in Thread : thread'[u] = "holding" <=> thread[u] = "holding"
      BY <2>1, <3>1
    <3>4. PoolNumbers' /\ HoldersHaveOne' /\ NoConnTwice' /\ ConnsAreSomewhere'
      BY <2>1, <3>3, MoveKeepsConns
    <3>5. Waiting' = {}
      BY <2>3, <3>1 DEF Waiting
    <3>6. QED BY <3>2, <3>4, <3>5 DEF PoolInv, WaitersAreTold
  <2>4. ASSUME NEW u \in Waiting, thread' = [thread EXCEPT ![t] = "done", ![u] = "woken"]
        PROVE  PoolInv'
    <3>1. u \in Thread /\ u # t /\ thread[u] = "waiting"
      BY <2>1 DEF Waiting
    <3>2. /\ thread'[t] = "done" /\ thread'[u] = "woken"
          /\ \A w \in Thread : w # t /\ w # u => thread'[w] = thread[w]
      BY <1>1, <2>4, <3>1 DEF PoolTypeOK
    <3>3. PoolTypeOK'
      BY <1>1, <2>1, <2>4, <3>1 DEF PoolTypeOK
    <3>4. \A w \in Thread : thread'[w] = "holding" <=> thread[w] = "holding"
      BY <2>1, <3>1, <3>2
    <3>5. PoolNumbers' /\ HoldersHaveOne' /\ NoConnTwice' /\ ConnsAreSomewhere'
      BY <2>1, <3>4, MoveKeepsConns
    <3>6. /\ Coming' = (Coming \ {t}) \cup {u} /\ t \in Coming /\ u \notin Coming
          /\ Waiting' \subseteq Waiting
      BY <2>1, <3>1, <3>2 DEF Coming, Waiting
    <3>7. /\ IsFiniteSet(Coming \ {t}) /\ Cardinality(Coming) \in Nat
          /\ Cardinality(Coming \ {t}) = Cardinality(Coming) - 1
      BY <2>2, <3>6, CountOne
    <3>8. /\ Cardinality(Coming \ {t}) \in Nat
          /\ Cardinality(Coming') = Cardinality(Coming \ {t}) + 1
      BY <3>6, <3>7, CountOne
    <3>9. Cardinality(Coming') = Cardinality(Coming)
      BY <3>7, <3>8
    <3>10. idle' = idle  BY <2>1
    <3>11. Len(idle') - Cardinality(Coming') <= Len(idle) - Cardinality(Coming)
      BY <1>1, <3>7, <3>9, <3>10
    <3>12. WaitersAreTold'
      BY <1>1, <2>2, <3>6, <3>10, <3>11, StillTold
    <3>13. QED BY <3>3, <3>5, <3>12 DEF PoolInv
  <2>5. QED BY <1>3, <2>3, <2>4 DEF notifyOne
<1>4. QED BY <1>2, <1>3

\* The overflow connection is not for those that wait: nobody does.
LEMMA OverflowKeepsPool ==
    ASSUME PoolInv, NEW t \in Thread, overflowConn(t)
    PROVE  PoolInv'
<1>1. /\ PoolTypeOK /\ idle \in Seq(Nat) /\ Go(t, "holding") /\ UNCHANGED <<poolPolicy, idle>>
      /\ idle = <<>>
  BY DEF PoolInv, PoolNumbers, overflowConn
<1>2. IsFiniteSet(Coming) /\ IsFiniteSet(Coming')
  BY <1>1, ThreadMoves
<1>3. PoolTypeOK'
  BY <1>1 DEF PoolTypeOK, Go
<1>4. idle' \in Seq(Nat) /\ Len(idle') = 0
  BY <1>1
<1>5. WaitersAreTold'
  BY <1>2, <1>4, StillTold
<1>6. QED BY <1>3, <1>5, OverflowKeepsConns DEF PoolInv

\* PoolInv holds in every state, under each of the four policies.
THEOREM PoolInvariant == PoolSpec => []PoolInv
<1>1. PoolInv /\ [PoolNext]_poolVars => PoolInv'
  <2>1. SUFFICES ASSUME PoolInv, [PoolNext]_poolVars  PROVE PoolInv'
    OBVIOUS
  <2>2. CASE UNCHANGED poolVars
    <3>1. UNCHANGED <<poolPolicy, idle, created, conn>> /\ thread' = thread
      BY <2>2 DEF poolVars
    <3>2. PoolNumbers' /\ HoldersHaveOne' /\ NoConnTwice' /\ ConnsAreSomewhere'
      BY <2>1, <3>1, MoveKeepsConns
    <3>3. PoolTypeOK'
      BY <2>1, <3>1 DEF PoolInv, PoolTypeOK
    <3>4. idle' = idle /\ Waiting' = Waiting /\ Coming' = Coming
      BY <3>1 DEF Waiting, Coming
    <3>5. WaitersAreTold'
      BY <2>1, <3>4, Zenon DEF PoolInv, WaitersAreTold
    <3>6. QED BY <3>2, <3>3, <3>5 DEF PoolInv
  <2>3. ASSUME NEW t \in Thread, takeConn(t)  PROVE PoolInv'
    BY <2>1, <2>3, TakeKeepsPool DEF takeConn
  <2>4. ASSUME NEW t \in Thread, overflowConn(t)  PROVE PoolInv'
    BY <2>1, <2>4, OverflowKeepsPool
  <2>5. ASSUME NEW t \in Thread, refuse(t)  PROVE PoolInv'
    BY <2>1, <2>5, WaitKeepsPool DEF refuse
  <2>6. ASSUME NEW t \in Thread, block(t)  PROVE PoolInv'
    BY <2>1, <2>6, WaitKeepsPool DEF block
  <2>7. ASSUME NEW t \in Thread, spurious(t)  PROVE PoolInv'
    BY <2>1, <2>7, WaitKeepsPool DEF spurious
  <2>8. ASSUME NEW t \in Thread, look(t)  PROVE PoolInv'
    <3>1. CASE TakeIdle(t)
      BY <2>1, <2>8, <3>1, TakeKeepsPool DEF look
    <3>2. CASE idle = <<>> /\ Go(t, "waiting") /\ UNCHANGED <<idle, created, conn>>
      BY <2>1, <2>8, <3>2, WaitKeepsPool DEF look
    <3>3. QED BY <2>8, <3>1, <3>2 DEF look
  <2>9. ASSUME NEW t \in Thread, waitLimit(t)  PROVE PoolInv'
    <3>1. CASE TakeIdle(t)
      BY <2>1, <2>9, <3>1, TakeKeepsPool DEF waitLimit
    <3>2. CASE idle = <<>> /\ Go(t, "timed out") /\ UNCHANGED <<idle, created, conn>>
      BY <2>1, <2>9, <3>2, WaitKeepsPool DEF waitLimit
    <3>3. QED BY <2>9, <3>1, <3>2 DEF waitLimit
  <2>10. ASSUME NEW t \in Thread, pushIdle(t) \/ notifyOne(t)  PROVE PoolInv'
    BY <2>1, <2>10, ReleaseKeepsPool
  <2>11. QED BY <2>1, <2>2, <2>3, <2>4, <2>5, <2>6, <2>7, <2>8, <2>9, <2>10 DEF PoolNext
<1>2. QED BY <1>1, PoolStarts, PTL DEF PoolSpec

\* For any number of threads and any size: no connection is lost, handed out
\* twice or made beyond size_ by a policy with a bound, and no thread sleeps
\* beside an idle connection that nobody is on the way to.
THEOREM PoolHandsEveryConnOn == PoolSpec => []PoolHandsOn
<1>1. PoolInv => PoolHandsOn
  <2>1. SUFFICES ASSUME PoolInv  PROVE PoolHandsOn
    OBVIOUS
  <2>2. /\ InThePool \cap HandedOut = {} /\ InThePool \cup HandedOut = 1..created
        /\ Len(idle) + Cardinality(Holders) = created
        /\ poolPolicy # "Unbounded" => created = PoolSize
    BY <2>1 DEF PoolInv, ConnsAreSomewhere
  <2>3. Cardinality(Coming) \in Nat /\ Len(idle) \in Nat
    <3>1. IsFiniteSet(Coming)  BY HandPoolAssumption, FS_Subset DEF Coming
    <3>2. QED BY <2>1, <3>1, FS_CardinalityType, LenProperties DEF PoolInv, PoolNumbers
  <2>4. Cardinality(Coming) >= Len(idle) \/ Cardinality(Coming) >= Cardinality(Waiting)
    <3>1. CASE Waiting = {}
      <4>1. Cardinality(Waiting) = 0  BY <3>1, FS_EmptySet
      <4>2. QED BY <2>3, <4>1
    <3>2. CASE Len(idle) <= Cardinality(Coming)
      BY <2>3, <3>2
    <3>3. QED BY <2>1, <3>1, <3>2 DEF PoolInv, WaitersAreTold
  <2>5. QED BY <2>2, <2>4 DEF PoolHandsOn, Holders, Coming
<1>2. QED BY <1>1, PoolInvariant, PTL

-----------------------------------------------------------------------------
(* RetryStorm: three hops that retry *)

GatewayPlaces == {"gateway sleeps", "gateway caught"}
BPlaces == {"b sleeps", "b caught"}
CPlaces == {"c sleeps", "c caught"}

StormTypeOK ==
    /\ policy \in {"naive", "budget", "edge"} /\ window \in {"ahead", "open", "closed"}
    /\ place \in [Client -> {"idle", "leaf", "ok", "failed"} \cup GatewayPlaces
                            \cup BPlaces \cup CPlaces]

StormNumbers == calls \in [Client -> Nat] /\ tried \in [Client -> [Hop -> Nat]]

\* A request that has started is in a call of every hop, and sleeps only before
\* an attempt that it has left.
AttemptsAreCounted ==
    \A q \in Client :
        /\ place[q] = "idle" => calls[q] = 0 /\ \A h \in Hop : tried[q][h] = 0
        /\ place[q] # "idle" => \A h \in Hop : tried[q][h] \in 1..ATTEMPTS
        /\ \A h \in Hop : place[q] = Backoff[h] => tried[q][h] < ATTEMPTS

\* The calls made so far, when each hop is at its present attempt and each one
\* before that had the whole product below it.
ProductSoFar ==
    policy # "edge" => \A q \in Client : place[q] # "idle" =>
        calls[q] <= (tried[q]["gateway"] - 1) * (ATTEMPTS * ATTEMPTS)
                    + (tried[q]["b"] - 1) * ATTEMPTS + tried[q]["c"]

\* Under edge only, b never sees a retryable error, and the gateway sees what its
\* own timer made: before the fault window is over, never of the last call of c.
OnlyTimersReachTheGateway ==
    policy = "edge" => \A q \in Client :
        /\ place[q] \notin BPlaces
        /\ window = "ahead" => place[q] \notin CPlaces
        /\ window # "closed" /\ place[q] = "leaf" => tried[q]["c"] = 1
        /\ window # "closed" /\ place[q] \in GatewayPlaces =>
              tried[q]["c"] = 1 \/ tried[q]["c"] < ATTEMPTS

\* So every attempt of the gateway but the present one had one call less than the
\* product below it, except once: the last call of c, after the window, may be
\* cut off by the timer, and c retries no more from then on.
EdgeSoFar ==
    policy = "edge" => \A q \in Client : place[q] # "idle" =>
        \/ calls[q] <= (tried[q]["gateway"] - 1) * (ATTEMPTS - 1) + tried[q]["c"]
        \/ /\ window = "closed" /\ place[q] \notin CPlaces
           /\ tried[q]["c"] = 1 /\ tried[q]["gateway"] >= 2
           /\ calls[q] <= (tried[q]["gateway"] - 1) * (ATTEMPTS - 1) + 2

StormInv ==
    /\ StormTypeOK /\ StormNumbers /\ AttemptsAreCounted
    /\ ProductSoFar /\ OnlyTimersReachTheGateway /\ EdgeSoFar

\* The names of the places.
LEMMA PlaceNames ==
    /\ Backoff["gateway"] = "gateway sleeps" /\ Caught["gateway"] = "gateway caught"
    /\ Backoff["b"] = "b sleeps" /\ Caught["b"] = "b caught"
    /\ Backoff["c"] = "c sleeps" /\ Caught["c"] = "c caught"
    /\ Below["gateway"] = {"b", "c"} /\ Below["b"] = {"c"} /\ Below["c"] = {}
BY DEF Backoff, Caught, Below

\* The four ways that products grow.
LEMMA OneTimesMore ==
    ASSUME NEW t \in Nat, t # 0, NEW n \in Nat
    PROVE  (t + 1 - 1) * n = (t - 1) * n + n /\ (t - 1) * n \in Nat
<1>1. (t - 1) * n + n = t * n  OBVIOUS
<1>2. t + 1 - 1 = t /\ t - 1 \in Nat  OBVIOUS
<1>3. (t - 1) * n \in Nat  BY <1>2
<1>4. QED BY <1>1, <1>2, <1>3

LEMMA NoMoreTimes ==
    ASSUME NEW s \in Nat, NEW t \in Nat, s <= t, NEW n \in Nat
    PROVE  s * n <= t * n /\ s * n \in Nat /\ t * n \in Nat
OBVIOUS

\* Nothing has started.
LEMMA StormStarts == StormInit => StormInv
<1>1. SUFFICES ASSUME StormInit  PROVE StormInv
  OBVIOUS
<1>2. StormTypeOK
  BY <1>1, StormAssumption DEF StormInit, StormTypeOK
<1>3. StormNumbers
  BY <1>1 DEF StormInit, StormNumbers
<1>4. /\ \A q \in Client : place[q] = "idle" /\ calls[q] = 0
      /\ \A q \in Client : \A h \in Hop : tried[q][h] = 0
  BY <1>1 DEF StormInit
<1>5. AttemptsAreCounted
  <2>1. \A h \in Hop : Backoff[h] # "idle"
    BY PlaceNames DEF Hop
  <2>2. QED BY <1>4, <2>1 DEF AttemptsAreCounted
<1>6. ProductSoFar /\ EdgeSoFar
  BY <1>4 DEF ProductSoFar, EdgeSoFar
<1>7. OnlyTimersReachTheGateway
  BY <1>4 DEF OnlyTimersReachTheGateway, GatewayPlaces, BPlaces, CPlaces
<1>8. QED BY <1>2, <1>3, <1>5, <1>6, <1>7 DEF StormInv

\* A way up, or into a sleep, that a request takes without a call.
Moves(q, p) ==
    /\ place[q] # "idle" /\ p \in {"ok", "failed"} \cup GatewayPlaces \cup BPlaces \cup CPlaces
    /\ \A h \in Hop : p = Backoff[h] => tried[q][h] < ATTEMPTS
    /\ policy = "edge" =>
          /\ p \notin BPlaces
          /\ p \in CPlaces => place[q] \in CPlaces
          /\ p \in GatewayPlaces => place[q] \in GatewayPlaces \cup {"leaf", "c sleeps"}

\* The steps of a request that make no call.
LEMMA MoveKeepsStorm ==
    ASSUME StormInv, NEW q \in Client, NEW p, Moves(q, p), Place(q, p),
           UNCHANGED <<policy, window, tried, calls>>
    PROVE  StormInv'
<1> USE DEF StormInv
<1>1. place'[q] = p /\ \A r \in Client : r # q => place'[r] = place[r]
  BY DEF StormTypeOK, Place
<1>2. StormTypeOK'
  BY DEF StormTypeOK, Place, Moves
<1>3. StormNumbers'
  BY DEF StormNumbers
<1>4. p # "idle" /\ p # "leaf" /\ place[q] # "idle"
  BY DEF Moves, GatewayPlaces, BPlaces, CPlaces
<1>5. AttemptsAreCounted'
  BY <1>1, <1>4 DEF AttemptsAreCounted, Moves
<1>6. ProductSoFar'
  BY <1>1, <1>4 DEF ProductSoFar
<1>7. OnlyTimersReachTheGateway'
  <2>1. SUFFICES ASSUME policy = "edge"  PROVE OnlyTimersReachTheGateway'
    BY DEF OnlyTimersReachTheGateway
  <2>2. /\ p \notin BPlaces
        /\ window = "ahead" => p \notin CPlaces
    BY <2>1 DEF Moves, OnlyTimersReachTheGateway
  <2>3. window # "closed" /\ p \in GatewayPlaces => tried[q]["c"] = 1 \/ tried[q]["c"] < ATTEMPTS
    <3>1. place[q] = "c sleeps" => tried[q]["c"] < ATTEMPTS
      BY PlaceNames DEF AttemptsAreCounted, Hop
    <3>2. QED BY <2>1, <3>1 DEF Moves, OnlyTimersReachTheGateway
  <2>4. QED BY <1>1, <1>4, <2>1, <2>2, <2>3 DEF OnlyTimersReachTheGateway
<1>8. EdgeSoFar'
  BY <1>1, <1>4 DEF EdgeSoFar, Moves
<1>9. QED BY <1>2, <1>3, <1>5, <1>6, <1>7, <1>8

\* Where the exception of a hop goes.
LEMMA AboveIs ==
    /\ Above("c") = IF policy = "edge" THEN "failed" ELSE "b caught"
    /\ Above("b") = "gateway caught" /\ Above("gateway") = "failed"
<1>1. Above("c") = IF policy = "edge" THEN "failed" ELSE "b caught"
  <2>1. CASE policy = "edge"  BY <2>1, PlaceNames DEF Above
  <2>2. CASE policy # "edge"  BY <2>2, PlaceNames DEF Above
  <2>3. QED BY <2>1, <2>2
<1>2. Above("b") = "gateway caught" /\ Above("gateway") = "failed"
  BY PlaceNames DEF Above
<1>3. QED BY <1>1, <1>2

\* From a hop that sleeps or has caught, up.
LEMMA UpIsAMove ==
    ASSUME StormInv, NEW q \in Client, NEW h \in Hop, place[q] \in {Backoff[h], Caught[h]}
    PROVE  Moves(q, Above(h)) /\ \A g \in Hop : Above(h) # Backoff[g]
<1>1. policy = "edge" => place[q] \notin BPlaces
  BY DEF StormInv, OnlyTimersReachTheGateway
<1>2. CASE h = "c"
  BY <1>2, AboveIs, PlaceNames DEF Moves, Hop, GatewayPlaces, BPlaces, CPlaces
<1>3. CASE h = "b"
  BY <1>1, <1>3, AboveIs, PlaceNames DEF Moves, Hop, GatewayPlaces, BPlaces, CPlaces
<1>4. CASE h = "gateway"
  BY <1>4, AboveIs, PlaceNames DEF Moves, Hop, GatewayPlaces, BPlaces, CPlaces
<1>5. QED BY <1>2, <1>3, <1>4 DEF Hop

\* From a hop that has caught, into its sleep.
LEMMA SleepIsAMove ==
    ASSUME StormInv, NEW q \in Client, NEW h \in Hop, place[q] = Caught[h],
           tried[q][h] < ATTEMPTS
    PROVE  Moves(q, Backoff[h])
<1>1. policy = "edge" => place[q] \notin BPlaces
  BY DEF StormInv, OnlyTimersReachTheGateway
<1>2. CASE h = "c"
  BY <1>2, PlaceNames DEF Moves, Hop, GatewayPlaces, BPlaces, CPlaces
<1>3. CASE h = "b"
  BY <1>1, <1>3, PlaceNames DEF Moves, Hop, GatewayPlaces, BPlaces, CPlaces
<1>4. CASE h = "gateway"
  BY <1>4, PlaceNames DEF Moves, Hop, GatewayPlaces, BPlaces, CPlaces
<1>5. QED BY <1>2, <1>3, <1>4 DEF Hop

\* The steps that make no call.
LEMMA QuietKeepsStorm ==
    ASSUME StormInv, NEW q \in Client,
           answered(q) \/ timeout(q) \/ \E h \in Hop : expired(q, h) \/ retry(q, h) \/ giveIn(q, h)
    PROVE  StormInv'
<1>1. CASE answered(q)
  <2>1. Moves(q, "ok") /\ Place(q, "ok") /\ UNCHANGED <<policy, window, tried, calls>>
    BY <1>1, PlaceNames DEF answered, Moves, Hop, GatewayPlaces, BPlaces, CPlaces
  <2>2. QED BY <2>1, MoveKeepsStorm
<1>2. CASE timeout(q)
  <2>1. policy = "edge" => place[q] \notin BPlaces
    BY DEF StormInv, OnlyTimersReachTheGateway
  <2>2. Moves(q, Caught["gateway"])
    BY <1>2, <2>1, PlaceNames DEF timeout, Moves, Hop, GatewayPlaces, BPlaces, CPlaces
  <2>3. QED BY <1>2, <2>2, MoveKeepsStorm DEF timeout
<1>3. ASSUME NEW h \in Hop, expired(q, h)  PROVE StormInv'
  BY <1>3, UpIsAMove, MoveKeepsStorm DEF expired
<1>4. ASSUME NEW h \in Hop, giveIn(q, h)  PROVE StormInv'
  BY <1>4, UpIsAMove, MoveKeepsStorm DEF giveIn
<1>5. ASSUME NEW h \in Hop, retry(q, h)  PROVE StormInv'
  BY <1>5, UpIsAMove, SleepIsAMove, MoveKeepsStorm DEF retry
<1>6. QED BY <1>1, <1>2, <1>3, <1>4, <1>5

\* The fault window.
LEMMA TurnKeepsStorm ==
    ASSUME StormInv, turn
    PROVE  StormInv'
<1> USE DEF StormInv
<1>1. /\ window # "closed" /\ window' \in {"open", "closed"}
      /\ UNCHANGED <<policy, place, tried, calls>>
  BY DEF turn
<1>2. StormTypeOK' /\ StormNumbers'
  BY <1>1 DEF StormTypeOK, StormNumbers
<1>3. AttemptsAreCounted' /\ ProductSoFar'
  BY <1>1 DEF AttemptsAreCounted, ProductSoFar
<1>4. OnlyTimersReachTheGateway'
  BY <1>1 DEF OnlyTimersReachTheGateway
<1>5. EdgeSoFar'
  BY <1>1 DEF EdgeSoFar
<1>6. QED BY <1>2, <1>3, <1>4, <1>5

\* An attempt of hop h: one more there, one below, and one more call.
LEMMA DescendDoes ==
    ASSUME StormInv, NEW q \in Client, NEW h \in Hop, Descend(q, h)
    PROVE  /\ StormNumbers'
           /\ calls'[q] = calls[q] + 1 /\ \A r \in Client : r # q => calls'[r] = calls[r]
           /\ \A g \in Hop : tried'[q][g] = IF g = h THEN tried[q][g] + 1
                                            ELSE IF g \in Below[h] THEN 1 ELSE tried[q][g]
           /\ \A r \in Client : r # q => tried'[r] = tried[r]
           /\ place'[q] = IF window = "open" THEN "c caught" ELSE "leaf"
           /\ \A r \in Client : r # q => place'[r] = place[r]
           /\ UNCHANGED <<policy, window>> /\ StormTypeOK'
<1> USE DEF StormInv
<1> DEFINE down == [g \in Hop |-> IF g = h THEN tried[q][g] + 1
                                  ELSE IF g \in Below[h] THEN 1 ELSE tried[q][g]]
           at0 == IF window = "open" THEN "c caught" ELSE "leaf"
<1>1. /\ tried' = [tried EXCEPT ![q] = down]
      /\ calls' = [calls EXCEPT ![q] = calls[q] + 1]
      /\ place' = [place EXCEPT ![q] = at0]
      /\ UNCHANGED <<policy, window>>
  BY PlaceNames DEF Descend, Place
<1>2. tried \in [Client -> [Hop -> Nat]] /\ calls \in [Client -> Nat]
  BY DEF StormNumbers
<1>3. down \in [Hop -> Nat]
  <2>1. tried[q] \in [Hop -> Nat]  BY <1>2
  <2>2. QED BY <2>1
<1>4. /\ tried' \in [Client -> [Hop -> Nat]] /\ tried'[q] = down
      /\ \A r \in Client : r # q => tried'[r] = tried[r]
  BY <1>1, <1>2, <1>3
<1>5. /\ calls' \in [Client -> Nat] /\ calls'[q] = calls[q] + 1
      /\ \A r \in Client : r # q => calls'[r] = calls[r]
  <2>1. calls[q] \in Nat /\ calls[q] + 1 \in Nat  BY <1>2
  <2>2. QED BY <1>1, <1>2, <2>1
<1>6. /\ place'[q] = at0 /\ \A r \in Client : r # q => place'[r] = place[r]
      /\ StormTypeOK'
  BY <1>1 DEF StormTypeOK, CPlaces
<1>7. \A g \in Hop : tried'[q][g] = IF g = h THEN tried[q][g] + 1
                                    ELSE IF g \in Below[h] THEN 1 ELSE tried[q][g]
  BY <1>4
<1>8. QED BY <1>1, <1>4, <1>5, <1>6, <1>7 DEF StormNumbers

\* The product when the gateway tries again, when b does, and at the end.
LEMMA ProductGrows ==
    ASSUME NEW A \in Nat, A # 0, NEW tg \in 1..A, NEW tb \in 1..A, NEW tc \in 1..A, NEW n \in Nat,
           n <= (tg - 1) * (A * A) + (tb - 1) * A + tc
    PROVE  /\ n + 1 <= (tg + 1 - 1) * (A * A) + (1 - 1) * A + 1
           /\ n + 1 <= (tg - 1) * (A * A) + (tb + 1 - 1) * A + 1
           /\ n <= A * A * A
<1> DEFINE AA == A * A
           G == (tg - 1) * AA
           B == (tb - 1) * A
<1>1. /\ tg \in Nat /\ tg # 0 /\ tb \in Nat /\ tb # 0 /\ tc \in Nat /\ AA \in Nat
      /\ tg <= A /\ tb <= A /\ tc <= A /\ tg - 1 \in Nat /\ tb - 1 \in Nat /\ A - 1 \in Nat
      /\ tg - 1 <= A - 1 /\ tb - 1 <= A - 1
  OBVIOUS
<1>2. (tg + 1 - 1) * AA = G + AA /\ G \in Nat
  BY <1>1, OneTimesMore
<1>3. (tb + 1 - 1) * A = B + A /\ B \in Nat
  BY <1>1, OneTimesMore
<1>4. B <= (A - 1) * A /\ (A - 1) * A = AA - A
  BY <1>1, NoMoreTimes
<1>5. G <= (A - 1) * AA /\ (A - 1) * AA = A * AA - AA /\ A * AA \in Nat
  <2>1. G <= (A - 1) * AA  BY <1>1, NoMoreTimes
  <2>2. A * AA \in Nat  BY <1>1
  <2>3. (A - 1) * AA = A * AA - AA
    <3>1. \A x, y \in Nat : (x - 1) * y = x * y - y  OBVIOUS
    <3>2. QED BY <1>1, <3>1
  <2>4. QED BY <2>1, <2>2, <2>3
<1>6. A * A * A = A * AA
  BY <1>1
<1>7. n <= G + B + tc  OBVIOUS
<1>8. (1 - 1) * A = 0  OBVIOUS
<1> HIDE DEF AA, G, B
<1>9. B + tc <= AA
  BY <1>1, <1>3, <1>4
<1>10. n + 1 <= G + AA + 0 + 1
  BY <1>1, <1>2, <1>3, <1>7, <1>9
<1>11. n + 1 <= G + (B + A) + 1
  BY <1>1, <1>2, <1>3, <1>7
<1>12. n <= A * AA
  BY <1>1, <1>2, <1>3, <1>5, <1>7, <1>9
<1>13. n + 1 <= (tg + 1 - 1) * (A * A) + (1 - 1) * A + 1
  BY <1>2, <1>8, <1>10 DEF AA
<1>14. n + 1 <= (tg - 1) * (A * A) + (tb + 1 - 1) * A + 1
  BY <1>3, <1>11 DEF G, AA
<1>15. n <= A * A * A
  BY <1>6, <1>12
<1>16. QED BY <1>13, <1>14, <1>15

\* The same under edge only.
LEMMA EdgeGrows ==
    ASSUME NEW A \in Nat, A # 0, NEW tg \in 1..A, NEW tc \in 1..A, NEW n \in Nat
    PROVE  /\ n <= (tg - 1) * (A - 1) + tc /\ tc <= A - 1
                 => n + 1 <= (tg + 1 - 1) * (A - 1) + 1
           /\ n <= (tg - 1) * (A - 1) + tc => n + 1 <= (tg + 1 - 1) * (A - 1) + 2
           /\ n <= (tg - 1) * (A - 1) + 2 /\ A >= 2
                 => n + 1 <= (tg + 1 - 1) * (A - 1) + 2
           /\ n <= (tg - 1) * (A - 1) + tc => n <= A * (A - 1) + 1
           /\ n <= (tg - 1) * (A - 1) + 2 /\ A >= 2 => n <= A * (A - 1) + 1
<1> DEFINE D == A - 1
           G == (tg - 1) * D
           P == A * D
<1>1. /\ tg \in Nat /\ tg # 0 /\ tc \in Nat /\ D \in Nat /\ tc <= D + 1
      /\ tg - 1 \in Nat /\ tg - 1 <= A - 1 /\ A - 1 \in Nat /\ A >= 2 => D >= 1
  OBVIOUS
<1>2. (tg + 1 - 1) * D = G + D /\ G \in Nat
  BY <1>1, OneTimesMore
<1>3. G <= (A - 1) * D
  BY <1>1, NoMoreTimes
<1>4. (A - 1) * D = P - D /\ P \in Nat
  <2>1. \A x, y \in Nat : (x - 1) * y = x * y - y /\ x * y \in Nat  OBVIOUS
  <2>2. QED BY <1>1, <2>1
<1> DEFINE N == (tg + 1 - 1) * D
<1>5. N = G + D  BY <1>2
<1>6. G <= P - D  BY <1>3, <1>4
<1> HIDE DEF D, G, P, N
<1>7. /\ n <= G + tc /\ tc <= D => n + 1 <= N + 1
      /\ n <= G + tc => n + 1 <= N + 2
      /\ n <= G + 2 /\ A >= 2 => n + 1 <= N + 2
  BY <1>1, <1>2, <1>5
<1>8. /\ n <= G + tc => n <= P + 1
      /\ n <= G + 2 /\ A >= 2 => n <= P + 1
  BY <1>1, <1>2, <1>4, <1>6
<1>9. QED BY <1>7, <1>8 DEF D, G, P, N

\* Where a call comes from: the task is new, or the hop has slept.
Calls(q, h) == (place[q] = "idle" /\ h = "gateway") \/ place[q] = Backoff[h]

\* A call: the first of a request, or the next attempt of a hop that slept.
LEMMA DescendKeepsStorm ==
    ASSUME StormInv, NEW q \in Client, NEW h \in Hop, Descend(q, h),
           Calls(q, h)
    PROVE  StormInv'
<1> DEFINE A == ATTEMPTS
           tg == tried[q]["gateway"]
           tb == tried[q]["b"]
           tc == tried[q]["c"]
           n == calls[q]
           ug == tried'[q]["gateway"]
           ub == tried'[q]["b"]
           uc == tried'[q]["c"]
           m == calls'[q]
<1>1. /\ StormNumbers' /\ StormTypeOK' /\ UNCHANGED <<policy, window>>
      /\ m = n + 1 /\ \A r \in Client : r # q => calls'[r] = calls[r]
      /\ \A r \in Client : r # q => tried'[r] = tried[r]
      /\ place'[q] = IF window = "open" THEN "c caught" ELSE "leaf"
      /\ \A r \in Client : r # q => place'[r] = place[r]
  BY DescendDoes
<1>2. \A g \in Hop : tried'[q][g] = IF g = h THEN tried[q][g] + 1
                                    ELSE IF g \in Below[h] THEN 1 ELSE tried[q][g]
  BY DescendDoes
<1>3. /\ h = "gateway" => /\ ug = tg + 1
                          /\ ub = 1 /\ uc = 1
      /\ h = "b" => ug = tg /\ ub = tb + 1 /\ uc = 1
      /\ h = "c" => ug = tg /\ ub = tb /\ uc = tc + 1
  BY <1>2, PlaceNames DEF Hop
<1>4. A \in Nat /\ A # 0 /\ tg \in Nat /\ tb \in Nat /\ tc \in Nat /\ n \in Nat
  BY StormAssumption DEF StormInv, StormNumbers, Hop
<1>5. /\ place[q] = "idle" => n = 0 /\ tg = 0 /\ tb = 0 /\ tc = 0
      /\ place[q] # "idle" => tg \in 1..A /\ tb \in 1..A /\ tc \in 1..A
  BY DEF StormInv, AttemptsAreCounted, Hop
<1>6. /\ h = "gateway" => place[q] = "idle" \/ (place[q] = "gateway sleeps" /\ tg < A)
      /\ h = "b" => place[q] = "b sleeps" /\ tb < A
      /\ h = "c" => place[q] = "c sleeps" /\ tc < A
  BY PlaceNames DEF Calls, StormInv, AttemptsAreCounted, Hop
<1>7. h \in {"gateway", "b", "c"}
  BY DEF Hop
<1>8. /\ place'[q] \in {"c caught", "leaf"} /\ \A g \in Hop : place'[q] # Backoff[g]
  BY <1>1, PlaceNames DEF Hop
<1> HIDE DEF A, tg, tb, tc, n, ug, ub, uc, m
<1>9. place[q] = "idle" => ug = 1 /\ ub = 1 /\ uc = 1 /\ m = 1
  <2>1. SUFFICES ASSUME place[q] = "idle"  PROVE ug = 1 /\ ub = 1 /\ uc = 1 /\ m = 1
    OBVIOUS
  <2>2. h = "gateway" /\ n = 0 /\ tg = 0  BY <1>5, <1>6, <1>7, <2>1
  <2>3. ug = tg + 1 /\ ub = 1 /\ uc = 1  BY <1>3, <2>2, Zenon
  <2>4. m = n + 1  BY <1>1, Zenon
  <2>5. n = 0 /\ tg = 0  BY <2>2, Zenon
  <2>6. QED BY <2>3, <2>4, <2>5
<1>10. place[q] # "idle" /\ h = "gateway" =>
          /\ place[q] = "gateway sleeps" /\ tg < A
          /\ ug = tg + 1 /\ ub = 1 /\ uc = 1 /\ m = n + 1
  BY <1>1, <1>3, <1>6, Zenon
<1>11. h = "b" => tb < A /\ ug = tg /\ ub = tb + 1 /\ uc = 1 /\ m = n + 1
  BY <1>1, <1>3, <1>6, Zenon
<1>12. h = "c" => tc < A /\ ug = tg /\ ub = tb /\ uc = tc + 1 /\ m = n + 1
  BY <1>1, <1>3, <1>6, Zenon
<1>13. AttemptsAreCounted'
  <2>1. \A g \in Hop : tried'[q][g] \in 1..A
    <3>1. ug \in 1..A /\ ub \in 1..A /\ uc \in 1..A
      <4>1. CASE place[q] = "idle"
        <5>1. ug = 1 /\ ub = 1 /\ uc = 1  BY <1>9, <4>1, Zenon
        <5>2. QED BY <1>4, <5>1
      <4>2. CASE place[q] # "idle"
        <5>1. tg \in 1..A /\ tb \in 1..A /\ tc \in 1..A  BY <1>5, <4>2, Zenon
        <5>2. \/ tg < A /\ ug = tg + 1 /\ ub = 1 /\ uc = 1
              \/ tb < A /\ ug = tg /\ ub = tb + 1 /\ uc = 1
              \/ tc < A /\ ug = tg /\ ub = tb /\ uc = tc + 1
          BY <1>7, <1>10, <1>11, <1>12, <4>2, Zenon
        <5>3. QED BY <1>4, <5>1, <5>2
      <4>3. QED BY <4>1, <4>2
    <3>2. QED BY <3>1 DEF Hop, ug, ub, uc
  <2>2. ASSUME NEW r \in Client, r # q
        PROVE  /\ place'[r] = place[r] /\ calls'[r] = calls[r] /\ tried'[r] = tried[r]
    BY <1>1, <2>2
  <2>3. place'[q] # "idle"
    BY <1>8
  <2>4. QED BY <1>8, <2>1, <2>2, <2>3, ZenonT(30) DEF StormInv, AttemptsAreCounted, A
<1>14. ProductSoFar'
  <2>1. SUFFICES ASSUME policy # "edge"
                 PROVE  m <= (ug - 1) * (A * A)
                                     + (ub - 1) * A + uc
    BY <1>1 DEF StormInv, ProductSoFar, A, ug, ub, uc, m
  <2>2. CASE place[q] = "idle"
    <3>1. m = 1 /\ ug = 1 /\ ub = 1 /\ uc = 1
      BY <1>9, <2>2, Zenon
    <3>2. (1 - 1) * (A * A) + (1 - 1) * A + 1 = 1  BY <1>4
    <3>3. QED BY <3>1, <3>2
  <2>3. CASE place[q] # "idle"
    <3>1. n <= (tg - 1) * (A * A) + (tb - 1) * A + tc
      BY <2>1, <2>3 DEF StormInv, ProductSoFar, A, tg, tb, tc, n
    <3>2. /\ n + 1 <= (tg + 1 - 1) * (A * A) + (1 - 1) * A + 1
          /\ n + 1 <= (tg - 1) * (A * A) + (tb + 1 - 1) * A + 1
      BY <1>4, <1>5, <2>3, <3>1, ProductGrows
    <3>3. n + 1 <= (tg - 1) * (A * A) + (tb - 1) * A + (tc + 1)
      <4> DEFINE X == (tg - 1) * (A * A) + (tb - 1) * A
      <4>1. X \in Int  BY <1>4
      <4>2. n <= X + tc  BY <3>1
      <4> HIDE DEF X
      <4>3. n + 1 <= X + (tc + 1)  BY <1>4, <4>1, <4>2
      <4>4. QED BY <4>3 DEF X
    <3>4. CASE h = "gateway"
      <4>1. m = n + 1 /\ ug = tg + 1 /\ ub = 1 /\ uc = 1  BY <1>10, <2>3, <3>4, Zenon
      <4>2. (ug - 1) * (A * A) + (ub - 1) * A + uc
               = (tg + 1 - 1) * (A * A) + (1 - 1) * A + 1
        BY <1>4, <4>1
      <4>3. QED BY <3>2, <4>1, <4>2, Zenon
    <3>5. CASE h = "b"
      <4>1. m = n + 1 /\ ug = tg /\ ub = tb + 1 /\ uc = 1  BY <1>11, <3>5, Zenon
      <4>2. (ug - 1) * (A * A) + (ub - 1) * A + uc
               = (tg - 1) * (A * A) + (tb + 1 - 1) * A + 1
        BY <1>4, <4>1
      <4>3. QED BY <3>2, <4>1, <4>2, Zenon
    <3>6. CASE h = "c"
      <4>1. m = n + 1 /\ ug = tg /\ ub = tb /\ uc = tc + 1  BY <1>12, <3>6, Zenon
      <4>2. QED BY <3>3, <4>1, Zenon
    <3>7. QED BY <1>7, <3>4, <3>5, <3>6
  <2>4. QED BY <2>2, <2>3
<1>15. OnlyTimersReachTheGateway'
  <2>1. SUFFICES ASSUME policy = "edge"
                 PROVE  /\ place'[q] \notin BPlaces
                        /\ window = "ahead" => place'[q] \notin CPlaces
                        /\ window # "closed" /\ place'[q] = "leaf" => uc = 1
                        /\ window # "closed" /\ place'[q] \in GatewayPlaces =>
                              uc = 1 \/ uc < ATTEMPTS
    <3>1. ASSUME NEW r \in Client, r # q
          PROVE  place'[r] = place[r] /\ tried'[r] = tried[r]
      BY <1>1, <3>1
    <3>2. window' = window /\ policy' = policy  BY <1>1
    <3>3. QED BY <3>1, <3>2 DEF StormInv, OnlyTimersReachTheGateway, uc
  <2>2. place[q] \notin BPlaces /\ (window = "ahead" => place[q] \notin CPlaces)
    BY <2>1 DEF StormInv, OnlyTimersReachTheGateway
  <2>3. h # "b" /\ (window = "ahead" => h = "gateway")
    BY <1>6, <1>7, <2>2 DEF BPlaces, CPlaces
  <2>4. window \in {"ahead", "open", "closed"}
    BY DEF StormInv, StormTypeOK
  <2>5. QED BY <1>1, <1>3, <2>3, <2>4 DEF GatewayPlaces, BPlaces, CPlaces
<1>16. EdgeSoFar'
  <2>1. SUFFICES ASSUME policy = "edge"
                 PROVE  \/ m <= (ug - 1) * (A - 1) + uc
                        \/ /\ window = "closed" /\ place'[q] \notin CPlaces
                           /\ uc = 1 /\ ug >= 2
                           /\ m <= (ug - 1) * (A - 1) + 2
    BY <1>1, ZenonT(30) DEF StormInv, EdgeSoFar, A, ug, uc, m
  <2>2. CASE place[q] = "idle"
    <3>1. m = 1 /\ ug = 1 /\ uc = 1
      BY <1>9, <2>2, Zenon
    <3>2. (1 - 1) * (A - 1) + 1 = 1  BY <1>4
    <3>3. QED BY <3>1, <3>2
  <2>3. CASE place[q] # "idle" /\ h = "gateway"
    <3>1. place[q] = "gateway sleeps"  BY <1>10, <2>3, Zenon
    <3>2. tg < A /\ tg \in 1..A /\ tc \in 1..A /\ A >= 2
      <4>1. tg < A /\ tg \in 1..A /\ tc \in 1..A  BY <1>5, <1>10, <2>3, Zenon
      <4>2. QED BY <1>4, <4>1
    <3>3. ug = tg + 1 /\ uc = 1 /\ m = n + 1 /\ ug >= 2
      <4>1. ug = tg + 1 /\ uc = 1 /\ m = n + 1  BY <1>10, <2>3, Zenon
      <4>2. QED BY <3>2, <4>1
    <3>4. /\ n <= (tg - 1) * (A - 1) + tc /\ tc <= A - 1
                => n + 1 <= (tg + 1 - 1) * (A - 1) + 1
          /\ n <= (tg - 1) * (A - 1) + tc => n + 1 <= (tg + 1 - 1) * (A - 1) + 2
          /\ n <= (tg - 1) * (A - 1) + 2 => n + 1 <= (tg + 1 - 1) * (A - 1) + 2
      BY <1>4, <3>2, EdgeGrows
    <3>5. CASE window = "closed"
      <4>1. place'[q] \notin CPlaces  BY <1>1, <3>5 DEF CPlaces
      <4>2. \/ n <= (tg - 1) * (A - 1) + tc
            \/ n <= (tg - 1) * (A - 1) + 2
        BY <2>1, <2>3 DEF StormInv, EdgeSoFar, A, tg, tc, n
      <4>3. n + 1 <= (tg + 1 - 1) * (A - 1) + 2
        BY <3>4, <4>2
      <4>4. m <= (ug - 1) * (A - 1) + 2
        <5>1. ug = tg + 1 /\ m = n + 1  BY <3>3, Zenon
        <5>2. (ug - 1) * (A - 1) + 2 = (tg + 1 - 1) * (A - 1) + 2  BY <1>4, <5>1
        <5>3. QED BY <5>1, <5>2, <4>3, Zenon
      <4>5. QED BY <3>3, <3>5, <4>1, <4>4, Zenon
    <3>6. CASE window # "closed"
      <4>1. n <= (tg - 1) * (A - 1) + tc
        BY <2>1, <2>3, <3>6 DEF StormInv, EdgeSoFar, A, tg, tc, n
      <4>2. tc = 1 \/ tc < A
        BY <2>1, <3>1, <3>6 DEF StormInv, OnlyTimersReachTheGateway, GatewayPlaces, A, tc
      <4>3. tc <= A - 1
        <5>1. tc \in Nat /\ A \in Nat  BY <1>4
        <5>2. A >= 2  BY <3>2
        <5>3. QED BY <5>1, <5>2, <4>2
      <4>4. n + 1 <= (tg + 1 - 1) * (A - 1) + 1
        BY <3>4, <4>1, <4>3
      <4>5. m <= (ug - 1) * (A - 1) + uc
        <5>1. ug = tg + 1 /\ uc = 1 /\ m = n + 1  BY <3>3, Zenon
        <5>2. (ug - 1) * (A - 1) + uc = (tg + 1 - 1) * (A - 1) + 1  BY <1>4, <5>1
        <5>3. QED BY <5>1, <5>2, <4>4, Zenon
      <4>6. QED BY <4>5
    <3>7. QED BY <3>5, <3>6
  <2>4. CASE h = "c"
    <3>1. place[q] \in CPlaces /\ place[q] # "idle"
      BY <1>6, <2>4 DEF CPlaces
    <3>2. n <= (tg - 1) * (A - 1) + tc
      BY <2>1, <3>1 DEF StormInv, EdgeSoFar, A, tg, tc, n
    <3>3. n + 1 <= (tg - 1) * (A - 1) + (tc + 1)
      <4> DEFINE X == (tg - 1) * (A - 1)
      <4>1. X \in Int  BY <1>4
      <4>2. n <= X + tc  BY <3>2
      <4> HIDE DEF X
      <4>3. n + 1 <= X + (tc + 1)  BY <1>4, <4>1, <4>2
      <4>4. QED BY <4>3 DEF X
    <3>4. QED BY <1>1, <1>3, <2>4, <3>3
  <2>5. CASE h = "b"
    <3>1. place[q] \in BPlaces
      BY <1>6, <2>5 DEF BPlaces
    <3>2. QED BY <2>1, <3>1 DEF StormInv, OnlyTimersReachTheGateway
  <2>6. QED BY <1>7, <2>2, <2>3, <2>4, <2>5
<1>17. QED BY <1>1, <1>13, <1>14, <1>15, <1>16 DEF StormInv

\* StormInv holds in every state, under every variant.
THEOREM StormInvariant == StormSpec => []StormInv
<1>1. StormInv /\ [StormNext]_stormVars => StormInv'
  <2>1. SUFFICES ASSUME StormInv, [StormNext]_stormVars  PROVE StormInv'
    OBVIOUS
  <2>2. CASE UNCHANGED stormVars
    BY <2>1, <2>2 DEF stormVars, StormInv, StormTypeOK, StormNumbers, AttemptsAreCounted,
       ProductSoFar, OnlyTimersReachTheGateway, EdgeSoFar
  <2>3. ASSUME NEW q \in Client, gateway(q)  PROVE StormInv'
    BY <2>1, <2>3, DescendKeepsStorm DEF gateway, Hop, Calls
  <2>4. ASSUME NEW q \in Client, NEW h \in Hop, attempt(q, h)  PROVE StormInv'
    BY <2>1, <2>4, DescendKeepsStorm DEF attempt, Calls
  <2>5. ASSUME NEW q \in Client,
               answered(q) \/ timeout(q)
               \/ \E h \in Hop : expired(q, h) \/ retry(q, h) \/ giveIn(q, h)
        PROVE  StormInv'
    BY <2>1, <2>5, QuietKeepsStorm
  <2>6. CASE turn
    BY <2>1, <2>6, TurnKeepsStorm
  <2>7. QED BY <2>1, <2>2, <2>3, <2>4, <2>5, <2>6 DEF StormNext
<1>2. QED BY <1>1, StormStarts, PTL DEF StormSpec

\* For any number of attempts per hop: the worst case of a request is the product
\* of the three loops, and under edge only, whatever the window and the timers
\* do, no more than ATTEMPTS * (ATTEMPTS - 1) + 1 calls of the database.
THEOREM RequestsAmplifyNoFurther == StormSpec => []AmplificationBound
<1>1. StormInv => AmplificationBound
  <2>1. SUFFICES ASSUME StormInv, NEW q \in Client
                 PROVE  calls[q] <= IF policy = "edge" THEN ATTEMPTS * (ATTEMPTS - 1) + 1
                                    ELSE ATTEMPTS * ATTEMPTS * ATTEMPTS
    BY DEF AmplificationBound
  <2> DEFINE A == ATTEMPTS
  <2>2. A \in Nat /\ A # 0 /\ calls[q] \in Nat
    BY <2>1, StormAssumption DEF StormInv, StormNumbers
  <2>3. CASE place[q] = "idle"
    <3>1. calls[q] = 0  BY <2>1, <2>3 DEF StormInv, AttemptsAreCounted
    <3>2. A * (A - 1) + 1 >= 0 /\ A * A * A >= 0
      <4>1. A - 1 \in Nat /\ A * A \in Nat  BY <2>2
      <4>2. A * (A - 1) \in Nat /\ A * A * A \in Nat  BY <2>2, <4>1
      <4>3. QED BY <4>2
    <3>3. QED BY <3>1, <3>2
  <2>4. CASE place[q] # "idle"
    <3>1. /\ tried[q]["gateway"] \in 1..A /\ tried[q]["b"] \in 1..A /\ tried[q]["c"] \in 1..A
      BY <2>1, <2>4 DEF StormInv, AttemptsAreCounted, Hop
    <3>2. CASE policy # "edge"
      <4>1. calls[q] <= (tried[q]["gateway"] - 1) * (A * A)
                        + (tried[q]["b"] - 1) * A + tried[q]["c"]
        BY <2>1, <2>4, <3>2 DEF StormInv, ProductSoFar
      <4>2. QED BY <2>2, <3>1, <3>2, <4>1, ProductGrows
    <3>3. CASE policy = "edge"
      <4>1. \/ calls[q] <= (tried[q]["gateway"] - 1) * (A - 1) + tried[q]["c"]
            \/ /\ tried[q]["gateway"] >= 2
               /\ calls[q] <= (tried[q]["gateway"] - 1) * (A - 1) + 2
        BY <2>1, <2>4, <3>3 DEF StormInv, EdgeSoFar
      <4>2. tried[q]["gateway"] >= 2 => A >= 2
        BY <2>2, <3>1
      <4>3. calls[q] <= A * (A - 1) + 1
        BY <2>2, <3>1, <4>1, <4>2, EdgeGrows
      <4>4. QED BY <3>3, <4>3
    <3>4. QED BY <3>2, <3>3
  <2>5. QED BY <2>3, <2>4
<1>2. QED BY <1>1, StormInvariant, PTL

Asleep == {"gateway sleeps", "b sleeps", "c sleeps"}
Sleepers == {q \in Client : place[q] \in Asleep}

StormCounts ==
    /\ metrics \in [offered : Nat, leaf_received : Nat, ok : Nat, retries : Nat]
    /\ tokens \in [Hop -> Nat]

\* A call of the database is the first of a request, or a retry that was counted;
\* who sleeps has a counted one ahead.
EveryCallIsCounted ==
    metrics.leaf_received + Cardinality(Sleepers) <= metrics.offered + metrics.retries

Bucketed == tokens["gateway"] + tokens["b"] + tokens["c"]

\* With the budget, what was retried and what is in the buckets comes from the
\* floors and from the successes, a token's part per hop.
RetriesAreDrawn ==
    policy = "budget" => Unit * metrics.retries + Bucketed <= 3 * (Floor * Unit + metrics.ok)

LoadInv == StormTypeOK /\ StormCounts /\ EveryCallIsCounted /\ RetriesAreDrawn

\* Nothing is counted yet, and the buckets are at their floors.
LEMMA LoadStarts == StormInit => LoadInv
<1>1. SUFFICES ASSUME StormInit  PROVE LoadInv
  OBVIOUS
<1>2. StormTypeOK
  BY <1>1, StormAssumption DEF StormInit, StormTypeOK
<1>3. Floor * Unit \in Nat /\ Unit \in Nat
  BY StormAssumption
<1>4. /\ metrics.offered = 0 /\ metrics.leaf_received = 0 /\ metrics.ok = 0
      /\ metrics.retries = 0 /\ \A h \in Hop : tokens[h] = Floor * Unit
      /\ StormCounts
  BY <1>1, <1>3 DEF StormInit, StormCounts
<1>5. EveryCallIsCounted
  <2>1. Sleepers = {}  BY <1>1 DEF StormInit, Sleepers, Asleep
  <2>2. Cardinality(Sleepers) = 0  BY <2>1, FS_EmptySet
  <2>3. QED BY <1>4, <2>2 DEF EveryCallIsCounted
<1>6. RetriesAreDrawn
  <2>1. Bucketed = Floor * Unit + Floor * Unit + Floor * Unit
    BY <1>4 DEF Bucketed, Hop
  <2>2. Unit * metrics.retries = 0  BY <1>3, <1>4
  <2>3. \A x \in Nat : 0 + (x + x + x) <= 3 * (x + 0)  OBVIOUS
  <2>4. QED BY <1>3, <1>4, <2>1, <2>2, <2>3 DEF RetriesAreDrawn
<1>7. QED BY <1>2, <1>4, <1>5, <1>6 DEF LoadInv

\* The sleepers, after q went to p.
LEMMA CountSleepers ==
    ASSUME StormTypeOK, NEW q \in Client, NEW p, Place(q, p)
    PROVE  /\ Cardinality(Sleepers) \in Nat /\ Cardinality(Sleepers') \in Nat
           /\ Cardinality(Sleepers') <= Cardinality(Sleepers) + 1
           /\ p \notin Asleep
                 => Cardinality(Sleepers') <= Cardinality(Sleepers)
           /\ p \notin Asleep /\ place[q] \in Asleep
                 => Cardinality(Sleepers') + 1 = Cardinality(Sleepers)
<1>1. place'[q] = p /\ \A r \in Client : r # q => place'[r] = place[r]
  BY DEF StormTypeOK, Place
<1>2. IsFiniteSet(Sleepers) /\ IsFiniteSet(Sleepers')
  <2>1. Sleepers \subseteq Client /\ Sleepers' \subseteq Client  BY DEF Sleepers
  <2>2. QED BY <2>1, StormAssumption, FS_Subset
<1>3. Cardinality(Sleepers) \in Nat /\ Cardinality(Sleepers') \in Nat
  BY <1>2, FS_CardinalityType
<1>4. CASE p \in Asleep
  <2>1. Sleepers' = Sleepers \cup {q}  BY <1>1, <1>4 DEF Sleepers
  <2>2. Cardinality(Sleepers') <= Cardinality(Sleepers) + 1
    <3>1. CASE q \in Sleepers
      <4>1. Sleepers' = Sleepers  BY <2>1, <3>1
      <4>2. QED BY <1>3, <4>1
    <3>2. CASE q \notin Sleepers
      <4>1. Cardinality(Sleepers') = Cardinality(Sleepers) + 1  BY <1>2, <2>1, <3>2, CountOne
      <4>2. QED BY <1>3, <4>1
    <3>3. QED BY <3>1, <3>2
  <2>3. QED BY <1>3, <1>4, <2>2
<1>5. CASE p \notin Asleep
  <2>1. Sleepers' = Sleepers \ {q}  BY <1>1, <1>5 DEF Sleepers
  <2>2. q \in Sleepers <=> place[q] \in Asleep
    BY DEF Sleepers
  <2>3. CASE q \in Sleepers
    <3>1. Cardinality(Sleepers') = Cardinality(Sleepers) - 1  BY <1>2, <2>1, <2>3, CountOne
    <3>2. /\ Cardinality(Sleepers') + 1 = Cardinality(Sleepers)
          /\ Cardinality(Sleepers') <= Cardinality(Sleepers)
          /\ Cardinality(Sleepers') <= Cardinality(Sleepers) + 1
      BY <1>3, <3>1
    <3>3. QED BY <1>3, <1>5, <3>2, Zenon
  <2>4. CASE q \notin Sleepers
    <3>1. Sleepers' = Sleepers  BY <2>1, <2>4
    <3>2. /\ Cardinality(Sleepers') <= Cardinality(Sleepers)
          /\ Cardinality(Sleepers') <= Cardinality(Sleepers) + 1
      BY <1>3, <3>1
    <3>3. QED BY <1>3, <2>2, <2>4, <3>2
  <2>5. QED BY <2>3, <2>4
<1>6. QED BY <1>4, <1>5

\* The fields of metrics and the buckets are numbers.
LEMMA CountsAreNumbers ==
    ASSUME StormCounts
    PROVE  /\ metrics.offered \in Nat /\ metrics.leaf_received \in Nat
           /\ metrics.ok \in Nat /\ metrics.retries \in Nat
           /\ tokens["gateway"] \in Nat /\ tokens["b"] \in Nat /\ tokens["c"] \in Nat
           /\ Bucketed \in Nat
<1>1. /\ metrics.offered \in Nat /\ metrics.leaf_received \in Nat
      /\ metrics.ok \in Nat /\ metrics.retries \in Nat
  BY DEF StormCounts
<1>2. tokens["gateway"] \in Nat /\ tokens["b"] \in Nat /\ tokens["c"] \in Nat
  BY DEF StormCounts, Hop
<1>3. QED BY <1>1, <1>2 DEF Bucketed

\* A call: a request more, or a sleeper less.
LEMMA CallKeepsLoad ==
    ASSUME LoadInv, NEW q \in Client, gateway(q) \/ \E h \in Hop : attempt(q, h)
    PROVE  LoadInv'
<1>1. PICK p : p \in {"c caught", "leaf"} /\ Place(q, p) /\ UNCHANGED <<policy, window, tokens>>
  BY PlaceNames DEF gateway, attempt, Descend
<1>2. StormTypeOK /\ StormCounts /\ EveryCallIsCounted /\ RetriesAreDrawn
  BY DEF LoadInv
<1>3. StormTypeOK'
  BY <1>1, <1>2 DEF StormTypeOK, Place, CPlaces
<1>4. p \notin Asleep
  BY <1>1 DEF Asleep
<1>5. /\ Cardinality(Sleepers) \in Nat /\ Cardinality(Sleepers') \in Nat
      /\ Cardinality(Sleepers') <= Cardinality(Sleepers)
      /\ place[q] \in Asleep
            => Cardinality(Sleepers') + 1 = Cardinality(Sleepers)
  BY <1>1, <1>2, <1>4, CountSleepers
<1>6. /\ metrics.offered \in Nat /\ metrics.leaf_received \in Nat
      /\ metrics.ok \in Nat /\ metrics.retries \in Nat
  BY <1>2, CountsAreNumbers
<1>7. CASE gateway(q)
  <2>1. /\ metrics'.offered = metrics.offered + 1 /\ metrics'.ok = metrics.ok
        /\ metrics'.leaf_received = metrics.leaf_received + 1
        /\ metrics'.retries = metrics.retries /\ StormCounts'
    <3>1. metrics' = [metrics EXCEPT !.offered = @ + 1, !.leaf_received = @ + 1]
      BY <1>7 DEF gateway
    <3>2. metrics \in [offered : Nat, leaf_received : Nat, ok : Nat, retries : Nat]
      BY <1>2 DEF StormCounts
    <3>3. metrics' \in [offered : Nat, leaf_received : Nat, ok : Nat, retries : Nat]
      <4> DEFINE one == [metrics EXCEPT !.offered = metrics.offered + 1]
                 R == [offered : Nat, leaf_received : Nat, ok : Nat, retries : Nat]
      <4>1. one \in R /\ one.leaf_received \in Nat
        BY <1>6, <3>2
      <4>2. metrics' = [one EXCEPT !.leaf_received = one.leaf_received + 1]
        BY <3>1, <3>2
      <4> HIDE DEF one
      <4>3. QED BY <4>1, <4>2
    <3>4. QED BY <1>1, <1>2, <3>1, <3>2, <3>3 DEF StormCounts
  <2>2. metrics'.leaf_received + Cardinality(Sleepers')
          <= metrics'.offered + metrics'.retries
    <3>1. metrics.leaf_received + Cardinality(Sleepers) <= metrics.offered + metrics.retries
      BY <1>2 DEF EveryCallIsCounted
    <3>2. Cardinality(Sleepers') <= Cardinality(Sleepers)  BY <1>5, Zenon
    <3>3. Cardinality(Sleepers) \in Nat /\ Cardinality(Sleepers') \in Nat  BY <1>5, Zenon
    <3>4. QED BY <1>6, <2>1, <3>1, <3>2, <3>3
  <2>3. RetriesAreDrawn'
    BY <1>1, <1>2, <2>1 DEF RetriesAreDrawn, Bucketed
  <2>4. QED BY <1>3, <2>1, <2>2, <2>3 DEF LoadInv, EveryCallIsCounted
<1>8. ASSUME NEW h \in Hop, attempt(q, h)  PROVE LoadInv'
  <2>1. /\ metrics'.offered = metrics.offered /\ metrics'.ok = metrics.ok
        /\ metrics'.leaf_received = metrics.leaf_received + 1
        /\ metrics'.retries = metrics.retries /\ StormCounts'
    <3>1. metrics' = [metrics EXCEPT !.leaf_received = @ + 1]
      BY <1>8 DEF attempt
    <3>2. metrics \in [offered : Nat, leaf_received : Nat, ok : Nat, retries : Nat]
      BY <1>2 DEF StormCounts
    <3>3. metrics' \in [offered : Nat, leaf_received : Nat, ok : Nat, retries : Nat]
      BY <3>1, <3>2
    <3>4. QED BY <1>1, <1>2, <3>1, <3>2, <3>3 DEF StormCounts
  <2>2. metrics'.leaf_received + Cardinality(Sleepers')
          <= metrics'.offered + metrics'.retries
    <3>1. metrics.leaf_received + Cardinality(Sleepers) <= metrics.offered + metrics.retries
      BY <1>2 DEF EveryCallIsCounted
    <3>2. place[q] \in Asleep
      BY <1>8, PlaceNames DEF attempt, Hop, Asleep
    <3>3. Cardinality(Sleepers') + 1 = Cardinality(Sleepers)  BY <1>5, <3>2, Zenon
    <3>4. Cardinality(Sleepers) \in Nat /\ Cardinality(Sleepers') \in Nat  BY <1>5, Zenon
    <3>5. QED BY <1>6, <2>1, <3>1, <3>3, <3>4
  <2>3. RetriesAreDrawn'
    BY <1>1, <1>2, <2>1 DEF RetriesAreDrawn, Bucketed
  <2>4. QED BY <1>3, <2>1, <2>2, <2>3 DEF LoadInv, EveryCallIsCounted
<1>9. QED BY <1>7, <1>8

\* A step up that counts nothing.
LEMMA UpKeepsLoad ==
    ASSUME LoadInv, NEW q \in Client,
           timeout(q) \/ \E h \in Hop : expired(q, h) \/ giveIn(q, h)
    PROVE  LoadInv'
<1>1. PICK p : /\ p \in {"failed", "b caught", "gateway caught"} /\ Place(q, p)
               /\ UNCHANGED <<policy, window, tokens, metrics>>
  <2>1. \A h \in Hop : Above(h) \in {"failed", "b caught", "gateway caught"}
    BY AboveIs DEF Hop
  <2>2. QED BY <2>1, PlaceNames DEF timeout, expired, giveIn
<1>2. StormTypeOK /\ StormCounts /\ EveryCallIsCounted /\ RetriesAreDrawn
  BY DEF LoadInv
<1>3. StormTypeOK'
  BY <1>1, <1>2 DEF StormTypeOK, Place, BPlaces, GatewayPlaces
<1>4. p \notin Asleep
  BY <1>1 DEF Asleep
<1>5. /\ Cardinality(Sleepers) \in Nat /\ Cardinality(Sleepers') \in Nat
      /\ Cardinality(Sleepers') <= Cardinality(Sleepers)
  BY <1>1, <1>2, <1>4, CountSleepers
<1>6. metrics' = metrics /\ tokens' = tokens /\ policy' = policy
  BY <1>1
<1>7. StormCounts' /\ RetriesAreDrawn'
  BY <1>2, <1>6 DEF StormCounts, RetriesAreDrawn, Bucketed
<1>8. EveryCallIsCounted'
  <2>1. metrics.leaf_received + Cardinality(Sleepers) <= metrics.offered + metrics.retries
    BY <1>2 DEF EveryCallIsCounted
  <2>2. metrics.offered \in Nat /\ metrics.leaf_received \in Nat /\ metrics.retries \in Nat
    BY <1>2, CountsAreNumbers
  <2>3. metrics.leaf_received + Cardinality(Sleepers') <= metrics.offered + metrics.retries
    BY <1>5, <2>1, <2>2
  <2>4. QED BY <1>6, <2>3 DEF EveryCallIsCounted
<1>9. QED BY <1>3, <1>7, <1>8 DEF LoadInv

\* A success: a token's part per hop at the most.
LEMMA AnswerKeepsLoad ==
    ASSUME LoadInv, NEW q \in Client, answered(q)
    PROVE  LoadInv'
<1>1. /\ Place(q, "ok") /\ metrics' = [metrics EXCEPT !.ok = metrics.ok + 1]
      /\ tokens' = IF policy = "budget" THEN Deposited ELSE tokens
      /\ UNCHANGED <<policy, window>>
  BY DEF answered
<1>2. StormTypeOK /\ StormCounts /\ EveryCallIsCounted /\ RetriesAreDrawn
  BY DEF LoadInv
<1>3. StormTypeOK'
  BY <1>1, <1>2 DEF StormTypeOK, Place
<1>4. /\ Cardinality(Sleepers) \in Nat /\ Cardinality(Sleepers') \in Nat
      /\ Cardinality(Sleepers') <= Cardinality(Sleepers)
  <2>1. "ok" \notin Asleep  BY DEF Asleep
  <2>2. QED BY <1>1, <1>2, <2>1, CountSleepers
<1>5. /\ metrics.offered \in Nat /\ metrics.leaf_received \in Nat
      /\ metrics.ok \in Nat /\ metrics.retries \in Nat
      /\ tokens["gateway"] \in Nat /\ tokens["b"] \in Nat /\ tokens["c"] \in Nat
      /\ Bucketed \in Nat
  BY <1>2, CountsAreNumbers
<1>6. /\ metrics'.offered = metrics.offered /\ metrics'.ok = metrics.ok + 1
      /\ metrics'.leaf_received = metrics.leaf_received /\ metrics'.retries = metrics.retries
      /\ metrics' \in [offered : Nat, leaf_received : Nat, ok : Nat, retries : Nat]
  <2>1. metrics \in [offered : Nat, leaf_received : Nat, ok : Nat, retries : Nat]
    BY <1>2 DEF StormCounts
  <2>2. QED BY <1>1, <1>5, <2>1
<1>7. Deposited \in [Hop -> Nat] /\ \A h \in Hop : Deposited[h] <= tokens[h] + 1
  <2> DEFINE top == (Floor + 100) * Unit
  <2>1. top \in Nat
    <3>1. Floor + 100 \in Nat /\ Unit \in Nat  BY StormAssumption
    <3>2. QED BY <3>1
  <2>2. \A h \in Hop : tokens[h] \in Nat  BY <1>2 DEF StormCounts
  <2>3. Deposited = [h \in Hop |-> IF tokens[h] + 1 > top THEN top ELSE tokens[h] + 1]
    BY DEF Deposited
  <2> HIDE DEF top
  <2>4. QED BY <2>1, <2>2, <2>3
<1>8. StormCounts'
  BY <1>1, <1>2, <1>6, <1>7 DEF StormCounts
<1>9. EveryCallIsCounted'
  <2>1. metrics.leaf_received + Cardinality(Sleepers) <= metrics.offered + metrics.retries
    BY <1>2 DEF EveryCallIsCounted
  <2>2. metrics.leaf_received + Cardinality(Sleepers') <= metrics.offered + metrics.retries
    BY <1>4, <1>5, <2>1
  <2>3. QED BY <1>6, <2>2 DEF EveryCallIsCounted
<1>10. RetriesAreDrawn'
  <2>1. SUFFICES ASSUME policy = "budget"
                 PROVE  Unit * metrics.retries + Bucketed' <= 3 * (Floor * Unit + (metrics.ok + 1))
    BY <1>1, <1>6 DEF RetriesAreDrawn
  <2>2. tokens' = Deposited  BY <1>1, <2>1
  <2>3. /\ Deposited["gateway"] \in Nat /\ Deposited["gateway"] <= tokens["gateway"] + 1
        /\ Deposited["b"] \in Nat /\ Deposited["b"] <= tokens["b"] + 1
        /\ Deposited["c"] \in Nat /\ Deposited["c"] <= tokens["c"] + 1
    BY <1>7 DEF Hop
  <2>4. Bucketed' = Deposited["gateway"] + Deposited["b"] + Deposited["c"]
    BY <2>2 DEF Bucketed
  <2>5. Bucketed' \in Nat /\ Bucketed' <= Bucketed + 3
    BY <1>5, <2>3, <2>4 DEF Bucketed
  <2>6. Unit * metrics.retries + Bucketed <= 3 * (Floor * Unit + metrics.ok)
    BY <1>2, <2>1 DEF RetriesAreDrawn
  <2>7. Unit * metrics.retries \in Nat /\ Floor * Unit \in Nat
    BY <1>5, StormAssumption
  <2>8. \A x, y, z, f, k \in Nat : x + y <= 3 * (f + k) /\ z <= y + 3
                                     => x + z <= 3 * (f + (k + 1))
    OBVIOUS
  <2>9. QED BY <1>5, <2>5, <2>6, <2>7, <2>8
<1>11. QED BY <1>3, <1>8, <1>9, <1>10 DEF LoadInv

\* A retry: counted, and under the budget drawn from the bucket of its hop.
LEMMA RetryKeepsLoad ==
    ASSUME LoadInv, NEW q \in Client, NEW h \in Hop, retry(q, h)
    PROVE  LoadInv'
<1>1. /\ metrics' = [metrics EXCEPT !.retries = metrics.retries + 1]
      /\ policy = "budget" => tokens[h] >= Unit /\ tokens' = [tokens EXCEPT ![h] = tokens[h] - Unit]
      /\ policy # "budget" => tokens' = tokens
      /\ UNCHANGED <<policy, window>>
  BY DEF retry, Withdrawn
<1>2. PICK p : /\ Place(q, p)
               /\ p \in {"failed", "b caught", "gateway caught",
                         "gateway sleeps", "b sleeps", "c sleeps"}
  <2>1. Above(h) \in {"failed", "b caught", "gateway caught"}
    BY AboveIs DEF Hop
  <2>2. Backoff[h] \in {"gateway sleeps", "b sleeps", "c sleeps"}
    BY PlaceNames DEF Hop
  <2>3. QED BY <2>1, <2>2 DEF retry
<1>3. StormTypeOK /\ StormCounts /\ EveryCallIsCounted /\ RetriesAreDrawn
  BY DEF LoadInv
<1>4. StormTypeOK'
  BY <1>1, <1>2, <1>3 DEF StormTypeOK, Place, GatewayPlaces, BPlaces, CPlaces
<1>5. /\ Cardinality(Sleepers) \in Nat /\ Cardinality(Sleepers') \in Nat
      /\ Cardinality(Sleepers') <= Cardinality(Sleepers) + 1
  BY <1>2, <1>3, CountSleepers
<1>6. /\ metrics.offered \in Nat /\ metrics.leaf_received \in Nat
      /\ metrics.ok \in Nat /\ metrics.retries \in Nat
      /\ tokens["gateway"] \in Nat /\ tokens["b"] \in Nat /\ tokens["c"] \in Nat
      /\ Bucketed \in Nat
  BY <1>3, CountsAreNumbers
<1>7. /\ metrics'.offered = metrics.offered /\ metrics'.ok = metrics.ok
      /\ metrics'.leaf_received = metrics.leaf_received
      /\ metrics'.retries = metrics.retries + 1
      /\ metrics' \in [offered : Nat, leaf_received : Nat, ok : Nat, retries : Nat]
  <2>1. metrics \in [offered : Nat, leaf_received : Nat, ok : Nat, retries : Nat]
    BY <1>3 DEF StormCounts
  <2>2. QED BY <1>1, <1>6, <2>1
<1>8. Unit \in Nat /\ Floor * Unit \in Nat
  BY StormAssumption
<1>9. StormCounts'
  <2>1. tokens \in [Hop -> Nat]  BY <1>3 DEF StormCounts
  <2>2. tokens' \in [Hop -> Nat]
    <3>1. CASE policy = "budget"
      <4>1. tokens[h] \in Nat /\ tokens[h] >= Unit  BY <1>1, <2>1, <3>1
      <4>2. tokens[h] - Unit \in Nat  BY <1>8, <4>1
      <4>3. QED BY <1>1, <2>1, <3>1, <4>2
    <3>2. CASE policy # "budget"  BY <1>1, <2>1, <3>2
    <3>3. QED BY <3>1, <3>2
  <2>3. QED BY <1>7, <2>2 DEF StormCounts
<1>10. EveryCallIsCounted'
  <2>1. metrics.leaf_received + Cardinality(Sleepers) <= metrics.offered + metrics.retries
    BY <1>3 DEF EveryCallIsCounted
  <2>2. metrics.leaf_received + Cardinality(Sleepers')
          <= metrics.offered + (metrics.retries + 1)
    BY <1>5, <1>6, <2>1
  <2>3. QED BY <1>7, <2>2 DEF EveryCallIsCounted
<1>11. RetriesAreDrawn'
  <2>1. SUFFICES ASSUME policy = "budget"
                 PROVE  Unit * (metrics.retries + 1) + Bucketed' <= 3 * (Floor * Unit + metrics.ok)
    BY <1>1, <1>7 DEF RetriesAreDrawn
  <2>2. tokens' = [tokens EXCEPT ![h] = tokens[h] - Unit]
    BY <1>1, <2>1
  <2>3. Bucketed' = Bucketed - Unit
    <3>1. tokens \in [Hop -> Nat] /\ h \in Hop  BY <1>3 DEF StormCounts
    <3>2. \A g \in Hop : tokens'[g] = IF g = h THEN tokens[g] - Unit ELSE tokens[g]
      BY <2>2, <3>1
    <3>3. \/ /\ tokens'["gateway"] = tokens["gateway"] - Unit
             /\ tokens'["b"] = tokens["b"] /\ tokens'["c"] = tokens["c"]
          \/ /\ tokens'["b"] = tokens["b"] - Unit
             /\ tokens'["gateway"] = tokens["gateway"] /\ tokens'["c"] = tokens["c"]
          \/ /\ tokens'["c"] = tokens["c"] - Unit
             /\ tokens'["gateway"] = tokens["gateway"] /\ tokens'["b"] = tokens["b"]
      BY <3>2 DEF Hop
    <3>4. QED BY <1>6, <1>8, <3>3 DEF Bucketed
  <2>4. Unit * metrics.retries + Bucketed <= 3 * (Floor * Unit + metrics.ok)
    BY <1>3, <2>1 DEF RetriesAreDrawn
  <2>5. Unit * (metrics.retries + 1) = Unit * metrics.retries + Unit
    <3>1. \A x, y \in Nat : x * (y + 1) = x * y + x  OBVIOUS
    <3>2. QED BY <1>6, <1>8, <3>1
  <2>6. Unit * metrics.retries \in Nat
    BY <1>6, <1>8
  <2>7. \A x, y, u, z \in Nat : x + y <= z => (x + u) + (y - u) <= z
    OBVIOUS
  <2>8. 3 * (Floor * Unit + metrics.ok) \in Nat
    BY <1>6, <1>8
  <2>9. (Unit * metrics.retries + Unit) + (Bucketed - Unit) <= 3 * (Floor * Unit + metrics.ok)
    BY <1>6, <1>8, <2>4, <2>6, <2>7, <2>8
  <2>10. QED BY <2>3, <2>5, <2>9
<1>12. QED BY <1>4, <1>9, <1>10, <1>11 DEF LoadInv

\* "Only this bounds it", for any number of requests and attempts, any budget
\* and any fault window: the load on the database beyond the offered requests is
\* paid from the floors of the buckets and from the successes.
THEOREM TheBudgetBoundsTheLoad == StormSpec => []BudgetBoundsTheLoad
<1>1. LoadInv /\ [StormNext]_stormVars => LoadInv'
  <2>1. SUFFICES ASSUME LoadInv, [StormNext]_stormVars  PROVE LoadInv'
    OBVIOUS
  <2>2. CASE UNCHANGED stormVars \/ turn
    <3>1. UNCHANGED <<policy, place, tokens, metrics>> /\ window' \in {window, "open", "closed"}
      BY <2>2 DEF stormVars, turn
    <3>2. StormTypeOK'
      BY <2>1, <3>1 DEF LoadInv, StormTypeOK
    <3>3. Sleepers' = Sleepers /\ metrics' = metrics
      BY <3>1 DEF Sleepers
    <3>4. EveryCallIsCounted'
      BY <2>1, <3>3, Zenon DEF LoadInv, EveryCallIsCounted
    <3>5. StormCounts' /\ RetriesAreDrawn'
      BY <2>1, <3>1 DEF LoadInv, StormCounts, RetriesAreDrawn, Bucketed
    <3>6. QED BY <3>2, <3>4, <3>5 DEF LoadInv
  <2>3. ASSUME NEW q \in Client, gateway(q) \/ \E h \in Hop : attempt(q, h)  PROVE LoadInv'
    BY <2>1, <2>3, CallKeepsLoad
  <2>4. ASSUME NEW q \in Client, timeout(q) \/ \E h \in Hop : expired(q, h) \/ giveIn(q, h)
        PROVE  LoadInv'
    BY <2>1, <2>4, UpKeepsLoad
  <2>5. ASSUME NEW q \in Client, answered(q)  PROVE LoadInv'
    BY <2>1, <2>5, AnswerKeepsLoad
  <2>6. ASSUME NEW q \in Client, NEW h \in Hop, retry(q, h)  PROVE LoadInv'
    BY <2>1, <2>6, RetryKeepsLoad
  <2>7. QED BY <2>1, <2>2, <2>3, <2>4, <2>5, <2>6 DEF StormNext
<1>2. LoadInv => BudgetBoundsTheLoad
  <2>1. SUFFICES ASSUME LoadInv, policy = "budget"
                 PROVE  Unit * metrics.leaf_received
                          <= Unit * metrics.offered + 3 * (Floor * Unit + metrics.ok)
    BY DEF BudgetBoundsTheLoad
  <2>2. /\ metrics.offered \in Nat /\ metrics.leaf_received \in Nat
        /\ metrics.ok \in Nat /\ metrics.retries \in Nat /\ Bucketed \in Nat
    BY <2>1, CountsAreNumbers DEF LoadInv
  <2>3. Cardinality(Sleepers) \in Nat
    BY StormAssumption, FS_Subset, FS_CardinalityType DEF Sleepers
  <2>4. metrics.leaf_received <= metrics.offered + metrics.retries
    <3>1. metrics.leaf_received + Cardinality(Sleepers) <= metrics.offered + metrics.retries
      BY <2>1 DEF LoadInv, EveryCallIsCounted
    <3>2. QED BY <2>2, <2>3, <3>1
  <2>5. Unit * metrics.retries + Bucketed <= 3 * (Floor * Unit + metrics.ok)
    BY <2>1 DEF LoadInv, RetriesAreDrawn
  <2>6. Unit \in Nat /\ 3 * (Floor * Unit + metrics.ok) \in Nat
    <3>1. Unit \in Nat /\ Floor * Unit \in Nat  BY StormAssumption
    <3>2. QED BY <2>2, <3>1
  <2>7. \A u, l, o, r \in Nat : l <= o + r => u * l <= u * o + u * r
    <3>1. TAKE u \in Nat, l \in Nat, o \in Nat, r \in Nat
    <3>2. HAVE l <= o + r
    <3>3. l * u <= (o + r) * u  BY <3>2, NoMoreTimes
    <3>4. (o + r) * u = u * o + u * r /\ l * u = u * l  OBVIOUS
    <3>5. QED BY <3>3, <3>4
  <2>8. Unit * metrics.leaf_received <= Unit * metrics.offered + Unit * metrics.retries
    BY <2>2, <2>4, <2>6, <2>7
  <2>9. /\ Unit * metrics.leaf_received \in Nat /\ Unit * metrics.offered \in Nat
        /\ Unit * metrics.retries \in Nat
    BY <2>2, <2>6
  <2>10. \A a, b, r, y, z \in Nat : a <= b + r /\ r + y <= z => a <= b + z
    OBVIOUS
  <2>11. QED BY <2>2, <2>5, <2>6, <2>8, <2>9, <2>10
<1>3. QED BY <1>1, <1>2, LoadStarts, PTL DEF StormSpec

-----------------------------------------------------------------------------
(* LabService: admission, deadlines and pools *)

\* A queue has nobody in it twice.
Queue(s) ==
    /\ s \in Seq(Request) /\ \A i, j \in DOMAIN s : s[i] = s[j] => i = j
    /\ Len(s) = Cardinality(ToSet(s))

\* A sequence without its i-th element, which it has once.
LEMMA WithoutOne ==
    ASSUME NEW S, NEW s \in Seq(S), \A i, j \in DOMAIN s : s[i] = s[j] => i = j,
           NEW i \in DOMAIN s
    PROVE  /\ RemoveAt(s, i) \in Seq(S) /\ Len(RemoveAt(s, i)) = Len(s) - 1
           /\ \A j, k \in DOMAIN RemoveAt(s, i) : RemoveAt(s, i)[j] = RemoveAt(s, i)[k] => j = k
           /\ ToSet(RemoveAt(s, i)) = ToSet(s) \ {s[i]}
<1> DEFINE n == Len(s)
           front == SubSeq(s, 1, i - 1)
           back == SubSeq(s, i + 1, n)
           short == RemoveAt(s, i)
<1>1. /\ n \in Nat /\ i \in 1..n /\ i \in Nat /\ i - 1 \in Nat /\ n - i \in Nat
      /\ i + 1 \in Int /\ i - 1 \in Int /\ DOMAIN s = 1..n
  OBVIOUS
<1>2. /\ front \in Seq(S) /\ Len(front) = i - 1
      /\ \A j \in 1..(i - 1) : front[j] = s[j]
  <2>1. \A j \in 1..(i - 1) : s[j] \in S
    BY <1>1
  <2>2. /\ front \in Seq(S) /\ Len(front) = IF 1 <= i - 1 THEN (i - 1) - 1 + 1 ELSE 0
        /\ \A j \in 1..((i - 1) - 1 + 1) : front[j] = s[1 + j - 1]
    BY <1>1, <2>1, SubSeqProperties, SMTT(20)
  <2> HIDE DEF front
  <2>3. Len(front) = i - 1
    <3>1. Len(front) = IF 1 <= i - 1 THEN (i - 1) - 1 + 1 ELSE 0  BY <2>2
    <3>2. QED BY <1>1, <3>1
  <2>4. \A j \in 1..(i - 1) : front[j] = s[j]
    <3>1. TAKE j \in 1..(i - 1)
    <3>2. j \in 1..((i - 1) - 1 + 1) /\ 1 + j - 1 = j  BY <1>1
    <3>3. front[j] = s[1 + j - 1]  BY <2>2, <3>2
    <3>4. QED BY <3>2, <3>3
  <2>5. QED BY <2>2, <2>3, <2>4
<1>3. /\ back \in Seq(S) /\ Len(back) = n - i
      /\ \A j \in 1..(n - i) : back[j] = s[j + i]
  <2>1. \A j \in (i + 1)..n : s[j] \in S
    BY <1>1
  <2>2. /\ back \in Seq(S) /\ Len(back) = IF i + 1 <= n THEN n - (i + 1) + 1 ELSE 0
        /\ \A j \in 1..(n - (i + 1) + 1) : back[j] = s[(i + 1) + j - 1]
    BY <1>1, <2>1, SubSeqProperties, SMTT(20)
  <2> HIDE DEF back, n
  <2>3. Len(back) = n - i
    <3>1. Len(back) = IF i + 1 <= n THEN n - (i + 1) + 1 ELSE 0  BY <2>2
    <3>2. QED BY <1>1, <3>1
  <2>4. \A j \in 1..(n - i) : back[j] = s[j + i]
    <3>1. TAKE j \in 1..(n - i)
    <3>2. j \in 1..(n - (i + 1) + 1) /\ (i + 1) + j - 1 = j + i
      BY ONLY <1>1, j \in 1..(n - i)
    <3>3. back[j] = s[(i + 1) + j - 1]  BY <2>2, <3>2
    <3>4. QED BY <3>2, <3>3
  <2>5. QED BY <2>2, <2>3, <2>4
<1>4. short = front \o back
  BY DEF RemoveAt
<1> HIDE DEF front, back
<1>5. /\ short \in Seq(S) /\ Len(short) = n - 1
      /\ \A j \in 1..(n - 1) : short[j] = IF j <= i - 1 THEN front[j] ELSE back[j - (i - 1)]
  <2>1. /\ short \in Seq(S) /\ Len(short) = Len(front) + Len(back)
        /\ \A j \in 1..(Len(front) + Len(back)) :
              short[j] = IF j <= Len(front) THEN front[j] ELSE back[j - Len(front)]
    <3> HIDE DEF short, n
    <3>1. front \in Seq(S) /\ back \in Seq(S)  BY <1>2, <1>3
    <3>2. /\ front \o back \in Seq(S) /\ Len(front \o back) = Len(front) + Len(back)
          /\ \A j \in 1..(Len(front) + Len(back)) :
                (front \o back)[j] = IF j <= Len(front) THEN front[j] ELSE back[j - Len(front)]
      BY ONLY <3>1, ConcatProperties, ZenonT(20)
    <3>3. QED BY <1>4, <3>2, Zenon
  <2> HIDE DEF short, n
  <2>2. Len(front) + Len(back) = n - 1
    BY <1>1, <1>2, <1>3
  <2>3. QED BY <1>2, <2>1, <2>2
<1> HIDE DEF short
<1>6. \A j \in 1..(n - 1) : short[j] = IF j < i THEN s[j] ELSE s[j + 1]
  <2>1. TAKE j \in 1..(n - 1)
  <2> HIDE DEF n
  <2>2. CASE j < i
    <3>1. j <= i - 1 /\ j \in 1..(i - 1)  BY <1>1, <2>2
    <3>2. QED BY <1>2, <1>5, <2>2, <3>1
  <2>3. CASE ~(j < i)
    <3>1. ~(j <= i - 1) /\ j - (i - 1) \in 1..(n - i) /\ (j - (i - 1)) + i = j + 1
      BY <1>1, <2>3
    <3>2. short[j] = back[j - (i - 1)]  BY <1>5, <3>1
    <3>3. back[j - (i - 1)] = s[(j - (i - 1)) + i]  BY <1>3, <3>1
    <3>4. QED BY <2>3, <3>1, <3>2, <3>3
  <2>4. QED BY <2>2, <2>3
<1>7. DOMAIN short = 1..(n - 1)
  <2> HIDE DEF n
  <2>1. QED BY <1>5
<1>8. \A j, k \in DOMAIN short : short[j] = short[k] => j = k
  <2>1. SUFFICES ASSUME NEW j \in 1..(n - 1), NEW k \in 1..(n - 1), short[j] = short[k]
                 PROVE  j = k
    BY <1>7
  <2> HIDE DEF n
  <2> DEFINE J == IF j < i THEN j ELSE j + 1
             K == IF k < i THEN k ELSE k + 1
  <2>2. J \in 1..n /\ K \in 1..n  BY <1>1
  <2>3. short[j] = s[J] /\ short[k] = s[K]  BY <1>6
  <2>4. J = K
    <3> HIDE DEF J, K
    <3>1. QED BY <1>1, <2>1, <2>2, <2>3
  <2>5. QED BY <1>1, <2>4
<1>9. ToSet(short) = ToSet(s) \ {s[i]}
  <2>1. ToSet(short) = {short[j] : j \in 1..(n - 1)} /\ ToSet(s) = {s[j] : j \in 1..n}
    BY <1>1, <1>7 DEF ToSet
  <2> HIDE DEF n
  <2>2. ASSUME NEW j \in 1..(n - 1)  PROVE short[j] \in {s[k] : k \in 1..n} \ {s[i]}
    <3> DEFINE J == IF j < i THEN j ELSE j + 1
    <3>1. J \in 1..n /\ J # i  BY <1>1
    <3>2. short[j] = s[J]  BY <1>6
    <3>3. s[J] # s[i]
      <4> HIDE DEF J
      <4>1. QED BY <1>1, <3>1
    <3>4. QED BY <3>1, <3>2, <3>3
  <2>3. ASSUME NEW k \in 1..n, s[k] # s[i]  PROVE s[k] \in {short[j] : j \in 1..(n - 1)}
    <3>1. k # i  BY <2>3
    <3> DEFINE J == IF k < i THEN k ELSE k - 1
    <3>2. J \in 1..(n - 1) /\ s[k] = IF J < i THEN s[J] ELSE s[J + 1]
      BY <1>1, <3>1
    <3>3. s[k] = short[J]  BY <1>6, <3>2
    <3>4. QED BY <3>2, <3>3
  <2>4. QED BY <2>1, <2>2, <2>3
<1>10. QED BY <1>5, <1>8, <1>9 DEF short

\* Who is in a queue is a request; the set is finite.
LEMMA QueueIsFinite ==
    ASSUME NEW s \in Seq(Request)
    PROVE  ToSet(s) \subseteq Request /\ IsFiniteSet(ToSet(s)) /\ Cardinality(ToSet(s)) \in Nat
<1>1. ToSet(s) \subseteq Request
  BY DEF ToSet
<1>2. IsFiniteSet(ToSet(s))
  BY <1>1, ShedderAssumption, FS_Subset
<1>3. QED BY <1>1, <1>2, FS_CardinalityType

\* r leaves the queue, if it is in it.
LEMMA LeftIsAQueue ==
    ASSUME Queue(waiters), NEW r \in Request
    PROVE  Queue(Left(r)) /\ ToSet(Left(r)) = ToSet(waiters) \ {r}
<1>1. waiters \in Seq(Request) /\ Len(waiters) = Cardinality(ToSet(waiters))
  BY DEF Queue
<1>2. CASE r \notin ToSet(waiters)
  BY <1>2 DEF Left
<1>3. CASE r \in ToSet(waiters)
  <2> DEFINE i == CHOOSE j \in DOMAIN waiters : waiters[j] = r
             short == RemoveAt(waiters, i)
  <2>1. i \in DOMAIN waiters /\ waiters[i] = r
    <3>1. \E j \in DOMAIN waiters : waiters[j] = r  BY <1>3 DEF ToSet
    <3>2. QED BY <3>1
  <2>2. Left(r) = short
    BY <1>3 DEF Left
  <2> HIDE DEF i
  <2>3. /\ short \in Seq(Request) /\ Len(short) = Len(waiters) - 1
        /\ \A j, k \in DOMAIN short : short[j] = short[k] => j = k
        /\ ToSet(short) = ToSet(waiters) \ {waiters[i]}
    BY <1>1, <2>1, WithoutOne DEF Queue
  <2> HIDE DEF short
  <2>4. ToSet(short) = ToSet(waiters) \ {r}
    BY <2>1, <2>3
  <2>5. Cardinality(ToSet(short)) = Cardinality(ToSet(waiters)) - 1
    <3>1. IsFiniteSet(ToSet(waiters))  BY <1>1, QueueIsFinite
    <3>2. QED BY <1>3, <2>4, <3>1, CountOne
  <2>6. Queue(short)
    BY <1>1, <2>3, <2>5 DEF Queue
  <2>7. QED BY <2>2, <2>4, <2>6
<1>4. QED BY <1>2, <1>3

\* r joins at the end.
LEMMA JoinedIsAQueue ==
    ASSUME NEW s, Queue(s), NEW r \in Request, r \notin ToSet(s)
    PROVE  Queue(Append(s, r)) /\ ToSet(Append(s, r)) = ToSet(s) \cup {r}
<1> DEFINE n == Len(s)
           long == Append(s, r)
<1>1. s \in Seq(Request) /\ n \in Nat /\ n = Cardinality(ToSet(s)) /\ DOMAIN s = 1..n
  BY LenProperties DEF Queue
<1>2. /\ long \in Seq(Request) /\ Len(long) = n + 1 /\ DOMAIN long = 1..(n + 1)
      /\ long[n + 1] = r /\ \A i \in 1..n : long[i] = s[i]
  BY <1>1, AppendProperties
<1>3. \A i \in 1..n : s[i] # r
  BY <1>1 DEF ToSet
<1>4. \A i \in 1..(n + 1) : i \in 1..n \/ i = n + 1
  BY <1>1
<1>5. \A i \in 1..n : i \in 1..(n + 1)
  BY <1>1
<1>6. n + 1 \in 1..(n + 1)
  BY <1>1
<1> HIDE DEF long
<1>7. ToSet(long) = ToSet(s) \cup {r}
  <2>1. ToSet(long) = {long[i] : i \in 1..(n + 1)} /\ ToSet(s) = {s[i] : i \in 1..n}
    BY <1>1, <1>2 DEF ToSet
  <2> HIDE DEF n
  <2>2. QED BY <1>2, <1>4, <1>5, <1>6, <2>1
<1>8. \A i, j \in DOMAIN long : long[i] = long[j] => i = j
  <2>1. SUFFICES ASSUME NEW i \in 1..(n + 1), NEW j \in 1..(n + 1), long[i] = long[j]
                 PROVE  i = j
    BY <1>2
  <2>2. (i \in 1..n \/ i = n + 1) /\ (j \in 1..n \/ j = n + 1)
    BY <1>4
  <2>3. CASE i \in 1..n /\ j \in 1..n
    <3>1. s[i] = s[j]  BY <1>2, <2>1, <2>3
    <3>2. QED BY <1>1, <2>3, <3>1 DEF Queue
  <2>4. CASE i = n + 1 \/ j = n + 1
    <3> HIDE DEF n
    <3>1. QED BY <1>2, <1>3, <2>1, <2>2, <2>4
  <2>5. QED BY <2>2, <2>3, <2>4
<1>9. Cardinality(ToSet(long)) = Cardinality(ToSet(s)) + 1
  <2>1. IsFiniteSet(ToSet(s))  BY <1>1, QueueIsFinite
  <2>2. QED BY <1>7, <2>1, CountOne
<1>10. Len(long) = Cardinality(ToSet(long))
  BY <1>1, <1>2, <1>9
<1>11. QED BY <1>2, <1>7, <1>8, <1>10 DEF Queue, long

\* Condition.notify() tells one more, unless all have been told.
LEMMA OneMoreIsTold ==
    ASSUME NEW s, Queue(s), NEW heard, heard \subseteq ToSet(s)
    PROVE  LET then == heard \cup FirstUntold(s, heard)
           IN  /\ then \subseteq ToSet(s) /\ Cardinality(then) \in Nat /\ Cardinality(heard) \in Nat
               /\ then = ToSet(s) \/ Cardinality(then) >= Cardinality(heard) + 1
               /\ heard = ToSet(s) => then = ToSet(s)
<1> DEFINE then == heard \cup FirstUntold(s, heard)
           open == {j \in DOMAIN s : s[j] \notin heard}
<1>1. s \in Seq(Request) /\ DOMAIN s = 1..Len(s) /\ Len(s) \in Nat /\ IsFiniteSet(ToSet(s))
  BY QueueIsFinite, LenProperties DEF Queue
<1>2. FirstUntold(s, heard) \subseteq ToSet(s)
  BY DEF FirstUntold, ToSet
<1>3. then \subseteq ToSet(s)
  BY <1>2
<1>4. /\ IsFiniteSet(heard) /\ IsFiniteSet(then)
      /\ Cardinality(heard) \in Nat /\ Cardinality(then) \in Nat
  BY <1>1, <1>3, FS_Subset, FS_CardinalityType
<1>5. heard = ToSet(s) => then = ToSet(s)
  BY <1>3
<1>6. CASE open = {}
  <2>1. heard = ToSet(s)
    BY <1>6 DEF ToSet
  <2>2. QED BY <1>3, <1>4, <1>5, <2>1
<1>7. CASE open # {}
  <2>1. open \subseteq Nat
    BY <1>1
  <2>2. PICK i \in open : \A j \in open : ~(<<j, i>> \in OpToRel(<, Nat))
    BY <1>7, <2>1, NatLessThanWellFounded, WFMin
  <2>3. \A j \in open : ~(j < i)
    BY <2>1, <2>2 DEF OpToRel
  <2>4. \A k \in 1 .. i - 1 : s[k] \in heard
    <3>1. TAKE k \in 1 .. i - 1
    <3>2. i \in 1..Len(s)  BY <1>1
    <3>3. k \in 1..Len(s) /\ k < i  BY <1>1, <3>2
    <3>4. k \notin open  BY <2>3, <3>3
    <3>5. QED BY <1>1, <3>3, <3>4
  <2>5. s[i] \in FirstUntold(s, heard) /\ s[i] \notin heard
    BY <2>4 DEF FirstUntold
  <2>6. heard \cup {s[i]} \subseteq then
    BY <2>5
  <2>7. Cardinality(heard \cup {s[i]}) = Cardinality(heard) + 1
    BY <1>4, <2>5, CountOne
  <2>8. Cardinality(heard \cup {s[i]}) <= Cardinality(then)
    BY <1>4, <2>6, CountPart
  <2>9. Cardinality(then) >= Cardinality(heard) + 1
    BY <1>4, <2>7, <2>8
  <2>10. QED BY <1>3, <1>4, <1>5, <2>9
<1>8. QED BY <1>6, <1>7

ServiceTypeOK ==
    /\ mode \in Mode
    /\ flags \in [bulkhead : BOOLEAN, propagate : BOOLEAN, explicit : BOOLEAN]
    /\ handler \in [Request -> {"new", "waiting", "admitted", "connect", "sleep", "count", "done"}]
    /\ endpoint \in [Request -> Endpoint \cup {"none"}] /\ budget \in [Request -> Budget]

ServiceNumbers ==
    limit \in 1 .. MaxLimit /\ inflight \in Nat /\ patches \in 0 .. MaxPatches

\* The queue of the condition is those that wait, and some of them have been told.
WaitersQueue ==
    /\ Queue(waiters) /\ notified \subseteq ToSet(waiters)
    /\ ToSet(waiters) = {r \in Request : handler[r] = "waiting"}

AdmittedReports == {r \in Admitted : endpoint[r] = "report"}

\* With the tiers, the reports alone do not fill the limit.
ReportsFit == mode = "priority" /\ patches = 0 => Cardinality(AdmittedReports) <= allowance(2)

ServiceInv ==
    /\ ServiceTypeOK /\ ServiceNumbers /\ WaitersQueue /\ inflight = Cardinality(Admitted)
    /\ NoSlotForTheDead /\ NoLostWakeup /\ ReportsFit

\* The stages of the admitted.
Inside == {"admitted", "connect", "sleep", "count"}

\* What is there to count.
LEMMA AdmittedIsFinite ==
    /\ IsFiniteSet(Admitted) /\ Cardinality(Admitted) \in Nat
    /\ IsFiniteSet(AdmittedReports) /\ Cardinality(AdmittedReports) \in Nat
    /\ Cardinality(AdmittedReports) <= Cardinality(Admitted)
<1>1. IsFiniteSet(Admitted)
  BY ShedderAssumption, FS_Subset DEF Admitted
<1>2. AdmittedReports \subseteq Admitted
  BY DEF AdmittedReports
<1>3. QED BY <1>1, <1>2, CountPart

\* The allowance is a positive number that follows mode and limit.
LEMMA AllowanceIs ==
    ASSUME limit \in Nat, limit >= 1
    PROVE  /\ allowance(2) \in Nat
           /\ mode # "priority" => \A t : allowance(t) = limit
           /\ allowance(0) = limit
           /\ mode = "priority" /\ limit > 1 => allowance(2) < limit
<1>1. mode # "priority" => \A t : allowance(t) = limit
  BY DEF allowance
<1>2. (limit * (4 - 0)) \div 4 = limit
  OBVIOUS
<1>3. (limit * (4 - 2)) \div 4 \in Nat /\ (limit > 1 => (limit * (4 - 2)) \div 4 < limit)
  OBVIOUS
<1>4. allowance(2) \in Nat
  BY <1>3 DEF allowance
<1>5. allowance(0) = limit
  BY <1>2 DEF allowance
<1>6. mode = "priority" /\ limit > 1 => allowance(2) < limit
  BY <1>3 DEF allowance
<1>7. QED BY <1>1, <1>4, <1>5, <1>6

\* Nobody has called.
LEMMA ServiceStarts == LabInit => ServiceInv
<1>1. SUFFICES ASSUME LabInit  PROVE ServiceInv
  OBVIOUS
<1>2. /\ mode \in Mode /\ limit \in Limit /\ inflight = 0 /\ waiters = << >> /\ notified = {}
      /\ patches = 0
      /\ flags \in [bulkhead : BOOLEAN, propagate : BOOLEAN, explicit : BOOLEAN]
      /\ handler = [r \in Request |-> "new"] /\ endpoint = [r \in Request |-> "none"]
      /\ budget = [r \in Request |-> "none"]
  BY <1>1 DEF LabInit, ShedInit
<1>3. ServiceTypeOK
  BY <1>2 DEF ServiceTypeOK, Budget
<1>4. ServiceNumbers
  BY <1>2, ShedderAssumption DEF ServiceNumbers
<1>5. ToSet(waiters) = {} /\ Admitted = {} /\ AdmittedReports = {}
  BY <1>2 DEF ToSet, Admitted, AdmittedReports
<1>6. Cardinality({}) = 0
  BY FS_EmptySet
<1>7. Queue(waiters)
  <2>1. waiters \in Seq(Request) /\ Len(waiters) = 0 /\ DOMAIN waiters = {}
    BY <1>2
  <2>2. QED BY <1>5, <1>6, <2>1 DEF Queue
<1>8. WaitersQueue
  <2>1. {r \in Request : handler[r] = "waiting"} = {}  BY <1>2
  <2>2. QED BY <1>2, <1>5, <1>7, <2>1 DEF WaitersQueue
<1>9. NoSlotForTheDead
  BY <1>2 DEF NoSlotForTheDead, FromBudget
<1>10. NoLostWakeup
  BY <1>2, <1>5 DEF NoLostWakeup, FreeSlotsAreAnnounced
<1>11. ReportsFit
  <2>1. limit \in Nat /\ limit >= 1  BY <1>4, ShedderAssumption DEF ServiceNumbers
  <2>2. allowance(2) \in Nat  BY <2>1, AllowanceIs
  <2>3. 0 <= allowance(2)  BY <2>2
  <2>4. QED BY <1>5, <1>6, <2>3 DEF ReportsFit
<1>12. inflight = Cardinality(Admitted)
  BY <1>2, <1>5, <1>6
<1>13. QED BY <1>3, <1>4, <1>8, <1>9, <1>10, <1>11, <1>12 DEF ServiceInv

\* Who counts on what: with the same mode and configuration, the wake-ups and
\* the reports are as safe as before when nothing they depend on is worse.
LEMMA ReportsStillFit ==
    ASSUME ServiceInv, UNCHANGED <<mode, patches>>,
           mode = "priority" => limit' = limit,
           AdmittedReports' \subseteq AdmittedReports
    PROVE  ReportsFit'
<1>1. SUFFICES ASSUME mode = "priority", patches = 0
               PROVE  Cardinality(AdmittedReports') <= allowance(2)'
  BY DEF ReportsFit
<1>2. allowance(2)' = allowance(2)
  BY <1>1 DEF allowance
<1>3. Cardinality(AdmittedReports') <= Cardinality(AdmittedReports)
      /\ Cardinality(AdmittedReports') \in Nat
  BY AdmittedIsFinite, CountPart
<1>4. Cardinality(AdmittedReports) <= allowance(2)
  BY <1>1 DEF ServiceInv, ReportsFit
<1>5. allowance(2) \in Nat /\ Cardinality(AdmittedReports) \in Nat
  <2>1. limit \in Nat /\ limit >= 1
    BY ShedderAssumption DEF ServiceInv, ServiceNumbers
  <2>2. QED BY <2>1, AllowanceIs, AdmittedIsFinite
<1>6. Cardinality(AdmittedReports') <= allowance(2)
  BY <1>3, <1>4, <1>5
<1>7. QED BY <1>2, <1>6

\* A request that goes to s: the admitted and the waiting afterwards.
LEMMA HandlerMoves ==
    ASSUME ServiceTypeOK, NEW r \in Request, NEW s, At(r, s)
    PROVE  /\ handler'[r] = s /\ \A q \in Request : q # r => handler'[q] = handler[q]
           /\ s \in Inside => Admitted' = Admitted \cup {r}
           /\ s \notin Inside => Admitted' = Admitted \ {r}
           /\ s = "waiting" => {q \in Request : handler'[q] = "waiting"}
                                 = {q \in Request : handler[q] = "waiting"} \cup {r}
           /\ s # "waiting" => {q \in Request : handler'[q] = "waiting"}
                                 = {q \in Request : handler[q] = "waiting"} \ {r}
           /\ r \in Admitted <=> handler[r] \in Inside
<1>1. handler'[r] = s /\ \A q \in Request : q # r => handler'[q] = handler[q]
  BY DEF ServiceTypeOK, At
<1>2. /\ s \in Inside => Admitted' = Admitted \cup {r}
      /\ s \notin Inside => Admitted' = Admitted \ {r}
  BY <1>1 DEF Admitted, Inside
<1>3. r \in Admitted <=> handler[r] \in Inside
  BY DEF Admitted, Inside
<1>4. /\ s = "waiting" => {q \in Request : handler'[q] = "waiting"}
                            = {q \in Request : handler[q] = "waiting"} \cup {r}
      /\ s # "waiting" => {q \in Request : handler'[q] = "waiting"}
                            = {q \in Request : handler[q] = "waiting"} \ {r}
  BY <1>1
<1>5. QED BY <1>1, <1>2, <1>3, <1>4

\* The work of an admitted request: it keeps its slot, and goes to the database
\* only with time left.
LEMMA WorkKeepsService ==
    ASSUME ServiceInv, NEW r \in Request, NEW s \in Inside, handler[r] \in Inside, At(r, s),
           s = "sleep" => ~TooLate(budget[r]),
           UNCHANGED <<shedVars, flags, endpoint, budget>>
    PROVE  ServiceInv'
<1> USE DEF ServiceInv
<1>1. UNCHANGED <<mode, limit, inflight, waiters, notified, patches, flags, endpoint, budget>>
  BY DEF shedVars
<1>2. s \in {"admitted", "connect", "sleep", "count"} /\ s # "waiting"
  BY DEF Inside
<1>3. ServiceTypeOK' /\ ServiceNumbers'
  BY <1>1, <1>2 DEF ServiceTypeOK, ServiceNumbers, At
<1>4. handler[r] # "waiting"
  BY DEF Inside
<1>5. Admitted' = Admitted
  BY HandlerMoves
<1>6. {q \in Request : handler'[q] = "waiting"} = {q \in Request : handler[q] = "waiting"}
  <2>1. {q \in Request : handler'[q] = "waiting"} = {q \in Request : handler[q] = "waiting"} \ {r}
    BY <1>2, HandlerMoves
  <2>2. QED BY <1>4, <2>1
<1>7. WaitersQueue'
  BY <1>1, <1>6 DEF WaitersQueue
<1>8. NoSlotForTheDead'
  <2>1. handler'[r] = s /\ \A q \in Request : q # r => handler'[q] = handler[q]
    BY HandlerMoves
  <2>2. s = "sleep" /\ FromBudget => budget[r] # "past"
    BY DEF TooLate, FromBudget
  <2>3. QED BY <1>1, <2>1, <2>2 DEF NoSlotForTheDead, FromBudget
<1>9. NoLostWakeup'
  BY <1>1 DEF NoLostWakeup, FreeSlotsAreAnnounced
<1>10. AdmittedReports' = AdmittedReports
  BY <1>1, <1>5 DEF AdmittedReports
<1>11. ReportsFit'
  BY <1>1, <1>10, ReportsStillFit
<1>12. inflight' = Cardinality(Admitted')
  BY <1>1, <1>5
<1>13. QED BY <1>3, <1>7, <1>8, <1>9, <1>11, <1>12

\* Time passes for a request.
LEMMA TickKeepsService ==
    ASSUME ServiceInv, NEW r \in Request, tick(r)
    PROVE  ServiceInv'
<1> USE DEF ServiceInv
<1>1. UNCHANGED <<mode, limit, inflight, waiters, notified, patches, flags, handler, endpoint>>
  BY DEF tick, shedVars
<1>2. PICK b \in {"slack", "past"} :
          /\ budget' = [budget EXCEPT ![r] = b]
          /\ b = "past" => ~(FromBudget /\ handler[r] = "sleep")
  BY DEF tick
<1>3. ServiceTypeOK' /\ ServiceNumbers'
  BY <1>1, <1>2 DEF ServiceTypeOK, ServiceNumbers, Budget
<1>4. Admitted' = Admitted /\ AdmittedReports' = AdmittedReports
  BY <1>1 DEF Admitted, AdmittedReports
<1>5. WaitersQueue' /\ NoLostWakeup'
  BY <1>1 DEF WaitersQueue, NoLostWakeup, FreeSlotsAreAnnounced
<1>6. NoSlotForTheDead'
  <2>1. budget'[r] = b /\ \A q \in Request : q # r => budget'[q] = budget[q]
    BY <1>2 DEF ServiceTypeOK
  <2>2. QED BY <1>1, <1>2, <2>1 DEF NoSlotForTheDead, FromBudget
<1>7. ReportsFit'
  BY <1>1, <1>4, ReportsStillFit
<1>8. inflight' = Cardinality(Admitted')
  BY <1>1, <1>4
<1>9. QED BY <1>3, <1>5, <1>6, <1>7, <1>8

\* What Answer leaves behind.
LEMMA AnswerLeaves ==
    ASSUME ServiceInv, NEW r \in Request, Answer(r), UNCHANGED <<mode, flags>>
    PROVE  /\ ServiceTypeOK' /\ NoSlotForTheDead' /\ At(r, "done")
           /\ Admitted' = Admitted \ {r} /\ AdmittedReports' \subseteq AdmittedReports
           /\ {q \in Request : handler'[q] = "waiting"}
                = {q \in Request : handler[q] = "waiting"} \ {r}
<1> USE DEF ServiceInv
<1>1. /\ At(r, "done") /\ endpoint' = [endpoint EXCEPT ![r] = "none"]
      /\ budget' = [budget EXCEPT ![r] = "none"]
  BY DEF Answer
<1>2. ServiceTypeOK'
  BY <1>1 DEF ServiceTypeOK, At, Budget
<1>3. handler'[r] = "done" /\ \A q \in Request : q # r => handler'[q] = handler[q]
  BY <1>1, HandlerMoves
<1>4. /\ Admitted' = Admitted \ {r}
      /\ {q \in Request : handler'[q] = "waiting"}
           = {q \in Request : handler[q] = "waiting"} \ {r}
  <2>1. "done" \notin Inside /\ "done" # "waiting"  BY DEF Inside
  <2>2. QED BY <1>1, <2>1, HandlerMoves
<1>5. /\ \A q \in Request : q # r => budget'[q] = budget[q] /\ endpoint'[q] = endpoint[q]
  BY <1>1 DEF ServiceTypeOK
<1>6. NoSlotForTheDead'
  BY <1>3, <1>5 DEF NoSlotForTheDead, FromBudget
<1>7. AdmittedReports' \subseteq AdmittedReports
  BY <1>4, <1>5 DEF AdmittedReports, Admitted
<1>8. QED BY <1>1, <1>2, <1>4, <1>6, <1>7

\* The finally clause: a slot less, and one more is told of it.
LEMMA FinishKeepsService ==
    ASSUME ServiceInv, NEW r \in Request, handler[r] \in Inside, finish(r)
    PROVE  ServiceInv'
<1> USE DEF ServiceInv
<1>1. /\ release /\ Answer(r) /\ UNCHANGED flags
  BY DEF finish
<1>2. /\ observe /\ inflight' = IF inflight = 0 THEN 0 ELSE inflight - 1
      /\ notified' = notified \cup FirstUntold(waiters, notified)
      /\ UNCHANGED <<mode, waiters, patches>>
  BY <1>1 DEF release, Notify
<1>3. /\ ServiceTypeOK' /\ NoSlotForTheDead' /\ At(r, "done")
      /\ Admitted' = Admitted \ {r} /\ AdmittedReports' \subseteq AdmittedReports
      /\ {q \in Request : handler'[q] = "waiting"}
           = {q \in Request : handler[q] = "waiting"} \ {r}
  BY <1>1, <1>2, AnswerLeaves
<1>4. limit \in Nat /\ limit >= 1 /\ MaxLimit \in Nat /\ limit <= MaxLimit
  BY ShedderAssumption DEF ServiceNumbers
<1>5. limit' \in 1 .. MaxLimit /\ (mode # "adaptive" => limit' = limit)
  BY <1>2, <1>4 DEF observe
<1>6. inflight \in Nat /\ inflight >= 1 /\ inflight' = inflight - 1
      /\ inflight' = Cardinality(Admitted')
  <2>1. r \in Admitted  BY DEF Admitted, Inside
  <2>2. IsFiniteSet(Admitted)  BY AdmittedIsFinite
  <2>3. Cardinality(Admitted') = Cardinality(Admitted) - 1 /\ Cardinality(Admitted) \in Nat
    BY <1>3, <2>1, <2>2, CountOne
  <2>4. Cardinality(Admitted') \in Nat
    BY <1>3, <2>2, CountOne, FS_CardinalityType
  <2>5. QED BY <1>2, <2>3, <2>4
<1>7. ServiceNumbers'
  BY <1>2, <1>5, <1>6 DEF ServiceNumbers
<1>8. /\ notified' \subseteq ToSet(waiters)
      /\ Cardinality(notified') \in Nat /\ Cardinality(notified) \in Nat
      /\ notified' = ToSet(waiters) \/ Cardinality(notified') >= Cardinality(notified) + 1
      /\ notified = ToSet(waiters) => notified' = ToSet(waiters)
  BY <1>2, OneMoreIsTold DEF WaitersQueue
<1>9. WaitersQueue'
  <2>1. {q \in Request : handler'[q] = "waiting"} = {q \in Request : handler[q] = "waiting"}
    BY <1>3 DEF Inside
  <2>2. QED BY <1>2, <1>8, <2>1 DEF WaitersQueue
<1>10. NoLostWakeup'
  <2>1. SUFFICES ASSUME mode = "static", patches = 0, notified' # ToSet(waiters)
                 PROVE  inflight' + Cardinality(notified') >= limit'
    BY <1>2 DEF NoLostWakeup, FreeSlotsAreAnnounced
  <2>2. limit' = limit
    BY <1>5, <2>1
  <2>3. Cardinality(notified') >= Cardinality(notified) + 1 /\ notified # ToSet(waiters)
    BY <1>8, <2>1
  <2>4. inflight < limit => inflight + Cardinality(notified) >= limit
    BY <2>1, <2>3 DEF NoLostWakeup, FreeSlotsAreAnnounced
  <2>5. Cardinality(notified') \in Nat /\ Cardinality(notified) \in Nat
    BY <1>8
  <2>6. QED BY <1>4, <1>6, <2>2, <2>3, <2>4, <2>5
<1>11. ReportsFit'
  <2>1. mode = "priority" => limit' = limit  BY <1>5
  <2>2. QED BY <1>2, <1>3, <2>1, ReportsStillFit
<1>12. QED BY <1>3, <1>6, <1>7, <1>9, <1>10, <1>11

\* A request that is too late to be let in.
LEMMA RejectKeepsService ==
    ASSUME ServiceInv, NEW r \in Request, NEW b, reject(r, b)
    PROVE  ServiceInv'
<1> USE DEF ServiceInv
<1>1. /\ handler[r] = "new" /\ Answer(r)
      /\ UNCHANGED <<mode, limit, inflight, waiters, notified, patches, flags>>
  BY DEF reject, shedVars
<1>2. /\ ServiceTypeOK' /\ NoSlotForTheDead' /\ At(r, "done")
      /\ Admitted' = Admitted \ {r} /\ AdmittedReports' \subseteq AdmittedReports
      /\ {q \in Request : handler'[q] = "waiting"}
           = {q \in Request : handler[q] = "waiting"} \ {r}
  BY <1>1, AnswerLeaves
<1>3. Admitted' = Admitted
  BY <1>1, <1>2 DEF Admitted
<1>4. WaitersQueue' /\ NoLostWakeup' /\ ServiceNumbers'
  BY <1>1, <1>2 DEF WaitersQueue, NoLostWakeup, FreeSlotsAreAnnounced, ServiceNumbers
<1>5. ReportsFit'
  BY <1>1, <1>2, ReportsStillFit
<1>6. inflight' = Cardinality(Admitted')
  BY <1>1, <1>3
<1>7. QED BY <1>2, <1>4, <1>5, <1>6

\* r is let in, for endpoint e, when there is room for its tier.
LEMMA AdmittedFits ==
    ASSUME ServiceInv, NEW r \in Request, r \notin Admitted, NEW e, Room(Tier(e)), admit,
           Admitted' = Admitted \cup {r}, endpoint'[r] = e,
           \A q \in Request : q # r => endpoint'[q] = endpoint[q],
           UNCHANGED <<mode, limit, patches>>
    PROVE  inflight' = Cardinality(Admitted') /\ inflight' \in Nat /\ ReportsFit'
<1> USE DEF ServiceInv
<1>1. inflight \in Nat /\ inflight' = inflight + 1 /\ limit \in Nat /\ limit >= 1
  BY ShedderAssumption DEF ServiceNumbers, admit
<1>2. inflight' = Cardinality(Admitted')
  <2>1. IsFiniteSet(Admitted)  BY AdmittedIsFinite
  <2>2. Cardinality(Admitted') = Cardinality(Admitted) + 1
    BY <2>1, CountOne
  <2>3. QED BY <1>1, <2>2
<1>3. CASE e # "report"
  <2>1. AdmittedReports' \subseteq AdmittedReports
    <3>1. \A q \in AdmittedReports' : q \in Admitted' /\ endpoint'[q] = "report"
      BY DEF AdmittedReports
    <3>2. \A q \in AdmittedReports' : q # r /\ q \in Admitted
      BY <1>3, <3>1
    <3>3. \A q \in Admitted : q \in Request  BY DEF Admitted
    <3>4. QED BY <3>1, <3>2, <3>3 DEF AdmittedReports
  <2>2. QED BY <1>1, <1>2, <2>1, ReportsStillFit
<1>4. CASE e = "report"
  <2>1. SUFFICES ASSUME mode = "priority"
                 PROVE  Cardinality(AdmittedReports') <= allowance(2)'
    BY <1>1, <1>2 DEF ReportsFit
  <2>2. Tier("report") = 2  BY DEF Tier
  <2>3. inflight < allowance(2)
    BY <1>4, <2>1, <2>2 DEF Room
  <2>4. allowance(2)' = allowance(2) /\ allowance(2) \in Nat
    <3>1. allowance(2)' = allowance(2)  BY DEF allowance
    <3>2. QED BY <1>1, <3>1, AllowanceIs
  <2>5. /\ Cardinality(AdmittedReports') <= Cardinality(Admitted')
        /\ Cardinality(AdmittedReports') \in Nat
    <3>1. AdmittedReports' \subseteq Admitted'  BY DEF AdmittedReports
    <3>2. IsFiniteSet(Admitted')  BY AdmittedIsFinite, CountOne
    <3>3. QED BY <3>1, <3>2, CountPart
  <2>6. Cardinality(AdmittedReports') <= allowance(2)
    BY <1>1, <1>2, <2>3, <2>4, <2>5
  <2>7. QED BY <2>4, <2>6
<1>5. QED BY <1>3, <1>4

\* A request comes in.
LEMMA AcquireKeepsService ==
    ASSUME ServiceInv, NEW r \in Request, NEW e \in Endpoint, NEW b \in Budget,
           acquireSlot(r, e, b)
    PROVE  ServiceInv'
<1> USE DEF ServiceInv
<1>1. /\ handler[r] = "new" /\ endpoint' = [endpoint EXCEPT ![r] = e]
      /\ budget' = [budget EXCEPT ![r] = b]
      /\ UNCHANGED <<mode, limit, notified, patches, flags>>
  BY DEF acquireSlot
<1>2. /\ endpoint'[r] = e /\ \A q \in Request : q # r => endpoint'[q] = endpoint[q]
      /\ \A q \in Request : q # r => budget'[q] = budget[q]
  BY <1>1 DEF ServiceTypeOK
<1>3. r \notin Admitted /\ r \notin ToSet(waiters)
  BY <1>1 DEF Admitted, WaitersQueue
<1>4. inflight \in Nat /\ limit \in Nat /\ limit >= 1
  BY ShedderAssumption DEF ServiceNumbers
<1>5. CASE Room(Tier(e))
  <2>1. admit /\ At(r, "admitted") /\ UNCHANGED waiters
    BY <1>5 DEF acquireSlot
  <2>2. "admitted" \in Inside /\ "admitted" # "waiting"  BY DEF Inside
  <2>3. /\ handler'[r] = "admitted" /\ \A q \in Request : q # r => handler'[q] = handler[q]
        /\ Admitted' = Admitted \cup {r}
        /\ {q \in Request : handler'[q] = "waiting"}
             = {q \in Request : handler[q] = "waiting"} \ {r}
    BY <2>1, <2>2, HandlerMoves
  <2>4. inflight' = Cardinality(Admitted') /\ inflight' \in Nat /\ ReportsFit'
    BY <1>1, <1>2, <1>3, <1>5, <2>1, <2>3, AdmittedFits
  <2>5. ServiceTypeOK'
    BY <1>1, <2>1 DEF ServiceTypeOK, At
  <2>6. ServiceNumbers'
    BY <1>1, <2>4 DEF ServiceNumbers
  <2>7. WaitersQueue'
    BY <1>1, <2>1, <2>3 DEF WaitersQueue
  <2>8. NoSlotForTheDead'
    BY <1>1, <1>2, <2>3 DEF NoSlotForTheDead, FromBudget
  <2>9. NoLostWakeup'
    <3>1. SUFFICES ASSUME mode = "static", patches = 0, inflight' < limit,
                          notified # ToSet(waiters)
                   PROVE  inflight' + Cardinality(notified) >= limit
      BY <1>1, <2>1 DEF NoLostWakeup, FreeSlotsAreAnnounced
    <3>2. inflight' = inflight + 1  BY <2>1 DEF admit
    <3>3. inflight < limit  BY <1>4, <3>1, <3>2
    <3>4. inflight + Cardinality(notified) >= limit
      BY <3>1, <3>3 DEF NoLostWakeup, FreeSlotsAreAnnounced
    <3>5. Cardinality(notified) \in Nat
      BY OneMoreIsTold DEF WaitersQueue
    <3>6. QED BY <1>4, <3>2, <3>4, <3>5
  <2>10. QED BY <2>4, <2>5, <2>6, <2>7, <2>8, <2>9
<1>6. CASE ~Room(Tier(e))
  <2>1. wait(r) /\ At(r, "waiting") /\ UNCHANGED inflight
    BY <1>6 DEF acquireSlot
  <2>2. "waiting" \notin Inside  BY DEF Inside
  <2>3. /\ handler'[r] = "waiting" /\ \A q \in Request : q # r => handler'[q] = handler[q]
        /\ Admitted' = Admitted \ {r}
        /\ {q \in Request : handler'[q] = "waiting"}
             = {q \in Request : handler[q] = "waiting"} \cup {r}
    BY <2>1, <2>2, HandlerMoves
  <2>4. Admitted' = Admitted  BY <1>3, <2>3
  <2>5. waiters' = Append(waiters, r)
    BY <1>3, <2>1 DEF wait, Left
  <2>6. Queue(waiters') /\ ToSet(waiters') = ToSet(waiters) \cup {r}
    BY <1>3, <2>5, JoinedIsAQueue DEF WaitersQueue
  <2>7. WaitersQueue'
    BY <1>1, <2>3, <2>6 DEF WaitersQueue
  <2>8. ServiceTypeOK' /\ ServiceNumbers'
    BY <1>1, <2>1 DEF ServiceTypeOK, ServiceNumbers, At
  <2>9. NoSlotForTheDead'
    BY <1>1, <1>2, <2>3 DEF NoSlotForTheDead, FromBudget
  <2>10. NoLostWakeup'
    <3>1. mode = "static" => ~(inflight < limit)
      BY <1>4, <1>6, AllowanceIs DEF Room
    <3>2. QED BY <1>1, <2>1, <3>1 DEF NoLostWakeup, FreeSlotsAreAnnounced
  <2>11. AdmittedReports' \subseteq AdmittedReports
    BY <1>2, <1>3, <2>4 DEF AdmittedReports, Admitted
  <2>12. ReportsFit'
    BY <1>1, <2>11, ReportsStillFit
  <2>13. inflight' = Cardinality(Admitted')
    BY <2>1, <2>4
  <2>14. QED BY <2>7, <2>8, <2>9, <2>10, <2>12, <2>13
<1>7. QED BY <1>5, <1>6

\* One that was told looks again: it is let in, waits again or gives up.
LEMMA WakeKeepsService ==
    ASSUME ServiceInv, NEW r \in Request, wake(r)
    PROVE  ServiceInv'
<1> USE DEF ServiceInv
<1>1. /\ handler[r] = "waiting" /\ r \in notified /\ notified' = notified \ {r}
      /\ UNCHANGED <<mode, limit, patches, flags>>
  BY DEF wake
<1>2. r \notin Admitted
  BY <1>1 DEF Admitted
<1>3. inflight \in Nat /\ limit \in Nat /\ limit >= 1
  BY ShedderAssumption DEF ServiceNumbers
<1>4. Queue(Left(r)) /\ ToSet(Left(r)) = ToSet(waiters) \ {r}
  BY LeftIsAQueue DEF WaitersQueue
<1>5. notified' \subseteq ToSet(waiters) \ {r} /\ r \in ToSet(waiters)
  BY <1>1 DEF WaitersQueue
<1>6. ~Room(Tier(endpoint[r])) => (mode = "static" => ~(inflight < limit))
  BY <1>3, AllowanceIs DEF Room
<1>7. CASE /\ Room(Tier(endpoint[r])) /\ admit /\ At(r, "admitted")
           /\ waiters' = Left(r) /\ UNCHANGED <<endpoint, budget>>
  <2>1. "admitted" \in Inside /\ "admitted" # "waiting"  BY DEF Inside
  <2>2. /\ handler'[r] = "admitted" /\ \A q \in Request : q # r => handler'[q] = handler[q]
        /\ Admitted' = Admitted \cup {r}
        /\ {q \in Request : handler'[q] = "waiting"}
             = {q \in Request : handler[q] = "waiting"} \ {r}
    BY <1>7, <2>1, HandlerMoves
  <2>3. endpoint'[r] = endpoint[r] /\ \A q \in Request : q # r => endpoint'[q] = endpoint[q]
    BY <1>7
  <2>4. inflight' = Cardinality(Admitted') /\ inflight' \in Nat /\ ReportsFit'
    BY <1>1, <1>2, <1>7, <2>2, <2>3, AdmittedFits
  <2>5. ServiceTypeOK'
    BY <1>1, <1>7 DEF ServiceTypeOK, At
  <2>6. ServiceNumbers'
    BY <1>1, <2>4 DEF ServiceNumbers
  <2>7. WaitersQueue'
    BY <1>4, <1>5, <1>7, <2>2 DEF WaitersQueue
  <2>8. NoSlotForTheDead'
    BY <1>1, <1>7, <2>2 DEF NoSlotForTheDead, FromBudget
  <2>9. NoLostWakeup'
    <3>1. SUFFICES ASSUME mode = "static", patches = 0, inflight' < limit,
                          notified' # ToSet(waiters')
                   PROVE  inflight' + Cardinality(notified') >= limit
      BY <1>1 DEF NoLostWakeup, FreeSlotsAreAnnounced
    <3>2. inflight' = inflight + 1  BY <1>7 DEF admit
    <3>3. inflight < limit  BY <1>3, <3>1, <3>2
    <3>4. notified # ToSet(waiters)
      BY <1>1, <1>4, <1>7, <3>1
    <3>5. inflight + Cardinality(notified) >= limit
      BY <3>1, <3>3, <3>4 DEF NoLostWakeup, FreeSlotsAreAnnounced
    <3>6. IsFiniteSet(notified)
      BY QueueIsFinite, FS_Subset DEF WaitersQueue, Queue
    <3>7. Cardinality(notified') = Cardinality(notified) - 1 /\ Cardinality(notified) \in Nat
      BY <1>1, <3>6, CountOne
    <3>8. QED BY <1>3, <3>2, <3>5, <3>7
  <2>10. QED BY <2>4, <2>5, <2>6, <2>7, <2>8, <2>9
<1>8. CASE ~Room(Tier(endpoint[r])) /\ wait(r) /\ UNCHANGED <<inflight, reqVars>>
  <2>1. waiters' = Append(Left(r), r) /\ UNCHANGED <<inflight, handler, endpoint, budget>>
    BY <1>8 DEF wait, reqVars
  <2>2. r \notin ToSet(Left(r))
    BY <1>4
  <2>3. Queue(waiters') /\ ToSet(waiters') = ToSet(Left(r)) \cup {r}
    BY <1>4, <2>1, <2>2, JoinedIsAQueue
  <2>4. ToSet(waiters') = ToSet(waiters)
    BY <1>4, <1>5, <2>3
  <2>5. WaitersQueue'
    BY <1>5, <2>1, <2>3, <2>4 DEF WaitersQueue
  <2>6. ServiceTypeOK' /\ ServiceNumbers' /\ NoSlotForTheDead'
    BY <1>1, <2>1 DEF ServiceTypeOK, ServiceNumbers, NoSlotForTheDead, FromBudget
  <2>7. NoLostWakeup'
    BY <1>1, <1>6, <1>8, <2>1 DEF NoLostWakeup, FreeSlotsAreAnnounced
  <2>8. Admitted' = Admitted /\ AdmittedReports' = AdmittedReports
    BY <2>1 DEF Admitted, AdmittedReports
  <2>9. ReportsFit'
    BY <1>1, <2>8, ReportsStillFit
  <2>10. inflight' = Cardinality(Admitted')
    BY <2>1, <2>8
  <2>11. QED BY <2>5, <2>6, <2>7, <2>9, <2>10
<1>9. CASE ~Room(Tier(endpoint[r])) /\ waiters' = Left(r) /\ Answer(r) /\ UNCHANGED inflight
  <2>1. /\ ServiceTypeOK' /\ NoSlotForTheDead'
        /\ Admitted' = Admitted \ {r} /\ AdmittedReports' \subseteq AdmittedReports
        /\ {q \in Request : handler'[q] = "waiting"}
             = {q \in Request : handler[q] = "waiting"} \ {r}
    BY <1>1, <1>9, AnswerLeaves
  <2>2. WaitersQueue'
    BY <1>4, <1>5, <1>9, <2>1 DEF WaitersQueue
  <2>3. ServiceNumbers'
    BY <1>1, <1>9 DEF ServiceNumbers
  <2>4. NoLostWakeup'
    BY <1>1, <1>6, <1>9 DEF NoLostWakeup, FreeSlotsAreAnnounced
  <2>5. ReportsFit'
    BY <1>1, <2>1, ReportsStillFit
  <2>6. inflight' = Cardinality(Admitted')
    BY <1>2, <1>9, <2>1
  <2>7. QED BY <2>1, <2>2, <2>3, <2>4, <2>5, <2>6
<1>10. QED BY <1>7, <1>8, <1>9 DEF wake

\* SHED_WAIT_MS is over for one that waits; another is told in its stead.
LEMMA ShedKeepsService ==
    ASSUME ServiceInv, NEW r \in Request, shed(r)
    PROVE  ServiceInv'
<1> USE DEF ServiceInv
<1>1. /\ handler[r] = "waiting" /\ waiters' = Left(r) /\ Answer(r)
      /\ notified' = (notified \ {r}) \cup FirstUntold(Left(r), notified \ {r})
      /\ UNCHANGED <<mode, limit, inflight, patches, flags>>
  BY DEF shed, giveUp, Notify
<1>2. inflight \in Nat /\ limit \in Nat /\ limit >= 1
  BY ShedderAssumption DEF ServiceNumbers
<1>3. Queue(Left(r)) /\ ToSet(Left(r)) = ToSet(waiters) \ {r}
  BY LeftIsAQueue DEF WaitersQueue
<1>4. notified \ {r} \subseteq ToSet(Left(r))
  BY <1>3 DEF WaitersQueue
<1> DEFINE heard == notified \ {r}
<1>5. /\ notified' \subseteq ToSet(Left(r))
      /\ Cardinality(notified') \in Nat /\ Cardinality(heard) \in Nat
      /\ notified' = ToSet(Left(r)) \/ Cardinality(notified') >= Cardinality(heard) + 1
      /\ heard = ToSet(Left(r)) => notified' = ToSet(Left(r))
  <2>1. heard \subseteq ToSet(Left(r)) /\ notified' = heard \cup FirstUntold(Left(r), heard)
    BY <1>1, <1>4
  <2> HIDE DEF heard
  <2> DEFINE then == heard \cup FirstUntold(Left(r), heard)
  <2>2. /\ then \subseteq ToSet(Left(r)) /\ Cardinality(then) \in Nat /\ Cardinality(heard) \in Nat
        /\ then = ToSet(Left(r)) \/ Cardinality(then) >= Cardinality(heard) + 1
        /\ heard = ToSet(Left(r)) => then = ToSet(Left(r))
    BY <1>3, <2>1, OneMoreIsTold
  <2>3. notified' = then  BY <2>1
  <2> HIDE DEF then
  <2>4. QED BY <2>2, <2>3
<1>6. /\ ServiceTypeOK' /\ NoSlotForTheDead'
      /\ Admitted' = Admitted \ {r} /\ AdmittedReports' \subseteq AdmittedReports
      /\ {q \in Request : handler'[q] = "waiting"}
           = {q \in Request : handler[q] = "waiting"} \ {r}
  BY <1>1, AnswerLeaves
<1>7. r \notin Admitted
  BY <1>1 DEF Admitted
<1>8. WaitersQueue'
  BY <1>1, <1>3, <1>5, <1>6 DEF WaitersQueue
<1>9. ServiceNumbers'
  BY <1>1 DEF ServiceNumbers
<1>10. NoLostWakeup'
  <2>1. SUFFICES ASSUME mode = "static", patches = 0, inflight < limit,
                        notified' # ToSet(Left(r))
                 PROVE  inflight + Cardinality(notified') >= limit
    BY <1>1 DEF NoLostWakeup, FreeSlotsAreAnnounced
  <2>2. heard # ToSet(Left(r)) /\ Cardinality(notified') >= Cardinality(heard) + 1
    BY <1>5, <2>1
  <2>3. notified # ToSet(waiters)
    BY <1>3, <2>2
  <2>4. inflight + Cardinality(notified) >= limit
    BY <2>1, <2>3 DEF NoLostWakeup, FreeSlotsAreAnnounced
  <2>5. Cardinality(notified) \in Nat /\ Cardinality(heard) + 1 >= Cardinality(notified)
    <3>1. IsFiniteSet(notified)
      BY QueueIsFinite, FS_Subset DEF WaitersQueue, Queue
    <3>2. CASE r \in notified
      <4>1. Cardinality(heard) = Cardinality(notified) - 1 /\ Cardinality(notified) \in Nat
        BY <3>1, <3>2, CountOne
      <4> HIDE DEF heard
      <4>2. QED BY <4>1
    <3>3. CASE r \notin notified
      <4>1. heard = notified  BY <3>3
      <4>2. Cardinality(notified) \in Nat  BY <3>1, CountOne
      <4> HIDE DEF heard
      <4>3. QED BY <4>1, <4>2
    <3>4. QED BY <3>2, <3>3
  <2> HIDE DEF heard
  <2>6. Cardinality(notified') \in Nat /\ Cardinality(heard) \in Nat
    BY <1>5
  <2>7. QED BY <1>2, <2>2, <2>4, <2>5, <2>6
<1>11. ReportsFit'
  BY <1>1, <1>6, ReportsStillFit
<1>12. inflight' = Cardinality(Admitted')
  BY <1>1, <1>6, <1>7
<1>13. QED BY <1>6, <1>8, <1>9, <1>10, <1>11, <1>12

\* Another mode or limit: the promises that depend on them end with it.
LEMMA ConfigKeepsService ==
    ASSUME ServiceInv, post_config
    PROVE  ServiceInv'
<1> USE DEF ServiceInv
<1>1. /\ patches < MaxPatches /\ patches' = patches + 1 /\ mode' \in Mode /\ limit' \in Limit
      /\ UNCHANGED <<inflight, waiters, notified, flags, handler, endpoint, budget>>
  BY DEF post_config, reqVars
<1>2. patches' \in 0 .. MaxPatches /\ patches' # 0
  BY <1>1, ShedderAssumption DEF ServiceNumbers
<1>3. ServiceTypeOK' /\ NoSlotForTheDead' /\ WaitersQueue'
  BY <1>1 DEF ServiceTypeOK, NoSlotForTheDead, FromBudget, WaitersQueue
<1>4. ServiceNumbers'
  BY <1>1, <1>2, ShedderAssumption DEF ServiceNumbers
<1>5. NoLostWakeup' /\ ReportsFit'
  BY <1>2 DEF NoLostWakeup, ReportsFit
<1>6. inflight' = Cardinality(Admitted')
  BY <1>1 DEF Admitted
<1>7. QED BY <1>3, <1>4, <1>5, <1>6

\* What the service does keeps what it promises.
LEMMA LabKeepsService == ServiceInv /\ [LabNext]_labVars => ServiceInv'
<1>1. SUFFICES ASSUME ServiceInv, [LabNext]_labVars  PROVE ServiceInv'
  OBVIOUS
<1>2. ASSUME NEW r \in Request, startWork(r)  PROVE ServiceInv'
  <2>1. "connect" \in Inside /\ "connect" # "sleep" /\ handler[r] \in Inside
    BY <1>2 DEF startWork, Inside
  <2>2. At(r, "connect") /\ UNCHANGED <<shedVars, flags, endpoint, budget>>
    BY <1>2 DEF startWork
  <2>3. QED BY <1>1, <2>1, <2>2, WorkKeepsService
<1>3. ASSUME NEW r \in Request, connect(r)  PROVE ServiceInv'
  <2>1. handler[r] \in Inside  BY <1>3 DEF connect, Inside
  <2>2. CASE ~TooLate(budget[r]) /\ At(r, "sleep") /\ UNCHANGED <<shedVars, flags, endpoint, budget>>
    <3>1. "sleep" \in Inside  BY DEF Inside
    <3>2. QED BY <1>1, <2>1, <2>2, <3>1, WorkKeepsService
  <2>3. CASE finish(r)
    BY <1>1, <2>1, <2>3, FinishKeepsService
  <2>4. QED BY <1>3, <2>2, <2>3 DEF connect
<1>4. ASSUME NEW r \in Request, slept(r)  PROVE ServiceInv'
  <2>1. "count" \in Inside /\ "count" # "sleep" /\ handler[r] \in Inside
    BY <1>4 DEF slept, Inside
  <2>2. At(r, "count") /\ UNCHANGED <<shedVars, flags, endpoint, budget>>
    BY <1>4 DEF slept
  <2>3. QED BY <1>1, <2>1, <2>2, WorkKeepsService
<1>5. ASSUME NEW r \in Request, fault(r) \/ poolTimeout(r) \/ counted(r) \/ queryError(r)
      PROVE  ServiceInv'
  <2>1. handler[r] \in Inside /\ finish(r)
    BY <1>5 DEF fault, poolTimeout, counted, queryError, Inside
  <2>2. QED BY <1>1, <2>1, FinishKeepsService
<1>6. CASE \E r \in Request, b \in Budget : reject(r, b)
  BY <1>1, <1>6, RejectKeepsService
<1>7. CASE \E r \in Request, e \in Endpoint, b \in Budget : acquireSlot(r, e, b)
  BY <1>1, <1>7, AcquireKeepsService
<1>8. CASE \E r \in Request : step(r)
  <2>1. PICK r \in Request : step(r)  BY <1>8
  <2>2. CASE wake(r)  BY <1>1, <2>2, WakeKeepsService
  <2>3. CASE shed(r)  BY <1>1, <2>3, ShedKeepsService
  <2>4. QED BY <1>2, <1>3, <1>4, <1>5, <2>1, <2>2, <2>3 DEF step
<1>9. CASE \E r \in Request : fault(r)
  BY <1>5, <1>9
<1>10. CASE \E r \in Request : tick(r)
  BY <1>1, <1>10, TickKeepsService
<1>11. CASE post_config
  BY <1>1, <1>11, ConfigKeepsService
<1>12. CASE UNCHANGED labVars
  <2>1. UNCHANGED <<mode, limit, inflight, waiters, notified, patches, flags, handler,
                    endpoint, budget>>
    BY <1>12 DEF labVars, shedVars, reqVars
  <2>2. Admitted' = Admitted /\ AdmittedReports' = AdmittedReports
    BY <2>1 DEF Admitted, AdmittedReports
  <2>3. ServiceTypeOK' /\ ServiceNumbers' /\ WaitersQueue' /\ NoSlotForTheDead' /\ NoLostWakeup'
    BY <1>1, <2>1
    DEF ServiceInv, ServiceTypeOK, ServiceNumbers, WaitersQueue, NoSlotForTheDead,
        FromBudget, NoLostWakeup, FreeSlotsAreAnnounced
  <2>4. ReportsFit'
    BY <1>1, <2>1, <2>2, ReportsStillFit
  <2>5. inflight' = Cardinality(Admitted')
    BY <1>1, <2>1, <2>2 DEF ServiceInv
  <2>6. QED BY <2>3, <2>4, <2>5 DEF ServiceInv
<1>13. QED
  BY <1>1, <1>6, <1>7, <1>8, <1>9, <1>10, <1>11, <1>12 DEF LabNext

\* The inductive invariant of run_handler, the shedder and the pools.
THEOREM ServiceInvariant == LabSpec => []ServiceInv
BY ServiceStarts, LabKeepsService, PTL DEF LabSpec

\* run_handler in every mode: the counter of the requests in flight is the number
\* of those that were admitted and not released, whatever the way out; the queue
\* of the condition is those that wait, each once; and under propagation, unless an
\* explicit STATEMENT_TIMEOUT_MS replaces the one that do_work derives after the
\* checkout, nobody whose deadline has passed holds a connection for pg_sleep.
THEOREM SlotsAreReturned == LabSpec => []LabInv
<1>1. ServiceInv => LabInv
  <2>1. SUFFICES ASSUME ServiceInv  PROVE LabInv
    OBVIOUS
  <2>2. ShedTypeOK
    BY <2>1 DEF ServiceInv, ServiceTypeOK, ServiceNumbers, WaitersQueue, Queue, ShedTypeOK
  <2>3. LabTypeOK
    BY <2>1, <2>2 DEF ServiceInv, ServiceTypeOK, LabTypeOK
  <2>4. InflightIsTheAdmitted
    BY <2>1 DEF ServiceInv, WaitersQueue, Queue, InflightIsTheAdmitted
  <2>5. QED BY <2>1, <2>3, <2>4 DEF ServiceInv, LabInv
<1>2. QED BY <1>1, ServiceInvariant, PTL

\* Mode static: release, giving up and the newcomers that take a slot first leave
\* no free slot unannounced to those that wait for it.
THEOREM FreeSlotsAreTold == LabSpec => []NoLostWakeup
<1>1. ServiceInv => NoLostWakeup
  BY DEF ServiceInv
<1>2. QED BY <1>1, ServiceInvariant, PTL

\* BULKHEAD=1: with the tiers of mode priority, or with no admission control at
\* all, what a /checkout waits for, a slot or a connection, is never taken by
\* reports alone.
THEOREM ReportsDoNotDrownCheckout == LabSpec => []BulkheadHolds
<1>1. ServiceInv => BulkheadHolds
  <2>1. SUFFICES ASSUME ServiceInv, flags.bulkhead, patches = 0,
                        mode = "none" \/ (mode = "priority" /\ limit > 1),
                        NEW r \in Request, endpoint[r] = "checkout"
                 PROVE  /\ ~Room(0) => \E q \in Admitted : endpoint[q] # "report"
                        /\ ~Free(r) => \E q \in Admitted :
                               endpoint[q] # "report" /\ handler[q] \in {"sleep", "count"}
    BY DEF BulkheadHolds
  <2>2. inflight \in Nat /\ limit \in Nat /\ limit >= 1 /\ inflight = Cardinality(Admitted)
    BY <2>1, ShedderAssumption DEF ServiceInv, ServiceNumbers
  <2>3. ASSUME ~Room(0)  PROVE \E q \in Admitted : endpoint[q] # "report"
    <3>1. mode = "priority" /\ limit > 1
      BY <2>1, <2>3 DEF Room
    <3>2. inflight >= limit
      <4>1. ~(inflight < allowance(0))  BY <2>3 DEF Room
      <4>2. allowance(0) = limit  BY <2>2, AllowanceIs
      <4>3. QED BY <2>2, <4>1, <4>2
    <3>3. allowance(2) < limit /\ allowance(2) \in Nat
      BY <2>2, <3>1, AllowanceIs
    <3>4. Cardinality(AdmittedReports) <= allowance(2) /\ Cardinality(AdmittedReports) \in Nat
      BY <2>1, <3>1, AdmittedIsFinite DEF ServiceInv, ReportsFit
    <3>5. Cardinality(AdmittedReports) # Cardinality(Admitted)
      BY <2>2, <3>2, <3>3, <3>4
    <3>6. AdmittedReports # Admitted
      BY <3>5
    <3>7. QED BY <3>6 DEF AdmittedReports
  <2>4. ASSUME ~Free(r)
        PROVE  \E q \in Admitted : endpoint[q] # "report" /\ handler[q] \in {"sleep", "count"}
    <3> DEFINE busy == {q \in Request : handler[q] \in {"sleep", "count"} /\ OwnPool(q) = OwnPool(r)}
    <3>1. OwnPool(r) = FALSE
      BY <2>1 DEF OwnPool
    <3>2. ~(Cardinality(busy) < PoolTotal)
      BY <2>4, <3>1, Zenon DEF Free
    <3>3. busy # {}
      <4>1. SUFFICES ASSUME busy = {}  PROVE FALSE
        OBVIOUS
      <4>2. Cardinality({}) = 0  BY FS_EmptySet
      <4>3. Cardinality(busy) = 0  BY <4>1, <4>2
      <4> HIDE DEF busy
      <4>4. QED BY <3>2, <4>3, ServiceAssumption
    <3>4. PICK q \in Request : handler[q] \in {"sleep", "count"} /\ OwnPool(q) = FALSE
      BY <3>1, <3>3
    <3>5. endpoint[q] # "report"
      BY <2>1, <3>4, Zenon DEF OwnPool
    <3>6. q \in Admitted
      BY <3>4 DEF Admitted
    <3>7. QED BY <3>4, <3>5, <3>6
  <2>5. QED BY <2>3, <2>4
<1>2. QED BY <1>1, ServiceInvariant, PTL

-----------------------------------------------------------------------------
(* RetryWindow: core/resilience.py of the orders service *)

\* The calls that have been counted as a request.
Started == {k \in Task : task[k] # "new"}

\* A queue of past instants, oldest first.
Chronicle(q) ==
    /\ q \in Seq(Nat)
    /\ \A i, j \in 1..Len(q) : i <= j => q[i] <= q[j]
    /\ \A i \in 1..Len(q) : q[i] <= now

\* The first n instants of q are the ones before t.
Splits(q, n, t) ==
    /\ \A i \in 1..Len(q) : i <= n => q[i] < t
    /\ \A i \in 1..Len(q) : n < i => t <= q[i]

WindowTypeOK ==
    /\ now \in Nat /\ spent \in Nat
    /\ task \in [Task -> {"new", "calling", "sleeping", "over"}]
    /\ Chronicle(requests) /\ Chronicle(retries)

\* Whatever instant the history is cut at that the queues still tell apart, the
\* retries that were granted before it are paid for by the requests before it.
\* The queues are trimmed at one instant, so no cut separates a retry from the
\* requests that it was granted for.
PastsArePaidFor(rq, rt, granted, begun) ==
    \A t \in Nat, m \in 0..Len(rq), n \in 0..Len(rt) :
        Splits(rq, m, t) /\ Splits(rt, n, t) =>
            100 * granted + Pct * (Len(rq) - m) <= Pct * begun + 100 * (Len(rt) - n)

EveryPastIsPaidFor == PastsArePaidFor(requests, retries, spent, Cardinality(Started))

WindowInv == WindowTypeOK /\ EveryPastIsPaidFor

\* What _trim leaves of a queue: the instants of the window.
LEMMA TrimmedQueue ==
    ASSUME now \in Nat, NEW q, Chronicle(q)
    PROVE  \E gone \in 0..Len(q) :
             /\ Recent(q) = SubSeq(q, gone + 1, Len(q))
             /\ \A i \in 1..Len(q) : i <= gone => q[i] + WindowS < now
             /\ \A i \in 1..Len(q) : gone < i => now <= q[i] + WindowS
<1>1. q \in Seq(Nat) /\ Len(q) \in Nat /\ \A i \in 1..Len(q) : q[i] \in Nat
  BY LenProperties, ElementOfSeq DEF Chronicle
<1>2. WindowS \in Nat  BY RetryWindowAssumption
<1> DEFINE Young == {n \in 0..Len(q) : n < Len(q) => q[n + 1] + WindowS >= now}
           Stop(n) == /\ \A i \in 1..n : q[i] + WindowS < now
                      /\ n < Len(q) => q[n + 1] + WindowS >= now
<1>3. \E n \in 0..Len(q) : Stop(n)
  <2>1. Len(q) \in Young /\ Young \subseteq Nat  BY <1>1
  <2> HIDE DEF Young
  <2>2. PICK n \in Young : \A j \in Young : ~(<<j, n>> \in OpToRel(<, Nat))
    BY <2>1, NatLessThanWellFounded, WFMin
  <2>3. \A j \in Young : ~(j < n)  BY <2>1, <2>2 DEF OpToRel
  <2>4. n \in 0..Len(q) /\ (n < Len(q) => q[n + 1] + WindowS >= now)  BY DEF Young
  <2>5. ASSUME NEW i \in 1..n PROVE q[i] + WindowS < now
    <3>1. i \in Nat /\ i - 1 \in 0..Len(q) /\ i - 1 < n /\ i \in 1..Len(q) /\ i - 1 < Len(q)
      BY <2>4, <1>1
    <3>2. i - 1 \notin Young  BY <3>1, <2>3
    <3>3. ~(q[(i - 1) + 1] + WindowS >= now)  BY <3>1, <3>2 DEF Young
    <3>4. (i - 1) + 1 = i /\ q[i] \in Nat  BY <3>1, <1>1
    <3> QED BY <3>3, <3>4, <1>2
  <2> QED BY <2>4, <2>5
<1> DEFINE gone == CHOOSE n \in 0..Len(q) : Stop(n)
<1>4. gone \in 0..Len(q) /\ Stop(gone)  BY <1>3
<1>5. Recent(q) = SubSeq(q, gone + 1, Len(q))  BY DEF Recent
<1> HIDE DEF gone
<1>6. \A i \in 1..Len(q) : i <= gone => q[i] + WindowS < now  BY <1>4, <1>1
<1>7. ASSUME NEW i \in 1..Len(q), gone < i PROVE now <= q[i] + WindowS
  <2>1. gone + 1 \in 1..Len(q) /\ gone + 1 <= i /\ gone < Len(q)  BY <1>1, <1>4, <1>7
  <2>2. q[gone + 1] <= q[i]  BY <2>1, <1>7 DEF Chronicle
  <2>3. q[gone + 1] \in Nat /\ q[i] \in Nat  BY <2>1, <1>1
  <2> QED BY <2>1, <2>2, <2>3, <1>4, <1>2
<1> QED BY <1>4, <1>5, <1>6, <1>7

\* An instant x on this side of the window's edge, and on that.
LEMMA Older ==
    ASSUME NEW x \in Nat, NEW u \in Nat, NEW w \in Nat, NEW here \in Nat,
           x + w < here, here <= u + w
    PROVE  x < u
OBVIOUS

LEMMA Younger ==
    ASSUME NEW x \in Nat, NEW t \in Nat, NEW u \in Nat, NEW w \in Nat, NEW here \in Nat,
           t <= x, here <= x + w, u = t \/ u + w = here
    PROVE  u <= x
OBVIOUS

\* _trim keeps the queues in order, and every past paid for: what the trimmed
\* queues can tell apart the queues could before.
LEMMA TrimKeepsThePast ==
    ASSUME now \in Nat, NEW rq, NEW rt, NEW granted, NEW begun,
           Chronicle(rq), Chronicle(rt), PastsArePaidFor(rq, rt, granted, begun)
    PROVE  /\ Chronicle(Recent(rq)) /\ Chronicle(Recent(rt))
           /\ PastsArePaidFor(Recent(rq), Recent(rt), granted, begun)
<1>1. PICK a \in 0..Len(rq) :
         /\ Recent(rq) = SubSeq(rq, a + 1, Len(rq))
         /\ \A i \in 1..Len(rq) : i <= a => rq[i] + WindowS < now
         /\ \A i \in 1..Len(rq) : a < i => now <= rq[i] + WindowS
  BY TrimmedQueue
<1>2. PICK b \in 0..Len(rt) :
         /\ Recent(rt) = SubSeq(rt, b + 1, Len(rt))
         /\ \A i \in 1..Len(rt) : i <= b => rt[i] + WindowS < now
         /\ \A i \in 1..Len(rt) : b < i => now <= rt[i] + WindowS
  BY TrimmedQueue
<1>3. /\ rq \in Seq(Nat) /\ Len(rq) \in Nat /\ \A i \in 1..Len(rq) : rq[i] \in Nat
      /\ rt \in Seq(Nat) /\ Len(rt) \in Nat /\ \A i \in 1..Len(rt) : rt[i] \in Nat
  BY LenProperties, ElementOfSeq DEF Chronicle
<1>4. WindowS \in Nat /\ Pct \in Nat  BY RetryWindowAssumption
<1> DEFINE xq == Recent(rq)  xt == Recent(rt)
<1>5. /\ xq \in Seq(Nat) /\ Len(xq) = Len(rq) - a /\ \A i \in 1..Len(xq) : xq[i] = rq[a + i]
  <2>1. a + 1 \in 1..(Len(rq) + 1) /\ Len(rq) \in a..Len(rq)  BY <1>3
  <2>2. /\ SubSeq(rq, a + 1, Len(rq)) \in Seq(Nat)
        /\ Len(SubSeq(rq, a + 1, Len(rq))) =
              (IF a + 1 <= Len(rq) THEN Len(rq) - (a + 1) + 1 ELSE 0)
        /\ \A i \in 1..(Len(rq) - (a + 1) + 1) : SubSeq(rq, a + 1, Len(rq))[i] = rq[(a + 1) + i - 1]
    BY <2>1, <1>3, SubSeqProperties
  <2>3. Len(xq) = Len(rq) - a  BY <2>2, <1>1, <1>3
  <2>4. ASSUME NEW i \in 1..Len(xq) PROVE xq[i] = rq[a + i]
    <3>1. i \in 1..(Len(rq) - (a + 1) + 1)  BY <2>3, <1>3
    <3>2. (a + 1) + i - 1 = a + i  BY <1>3
    <3> QED BY <3>1, <3>2, <2>2, <1>1
  <2> QED BY <2>2, <2>3, <2>4, <1>1
<1>6. /\ xt \in Seq(Nat) /\ Len(xt) = Len(rt) - b /\ \A i \in 1..Len(xt) : xt[i] = rt[b + i]
  <2>2. /\ SubSeq(rt, b + 1, Len(rt)) \in Seq(Nat)
        /\ Len(SubSeq(rt, b + 1, Len(rt))) =
              (IF b + 1 <= Len(rt) THEN Len(rt) - (b + 1) + 1 ELSE 0)
        /\ \A i \in 1..(Len(rt) - (b + 1) + 1) : SubSeq(rt, b + 1, Len(rt))[i] = rt[(b + 1) + i - 1]
    <3>1. b + 1 \in 1..(Len(rt) + 1) /\ Len(rt) \in b..Len(rt)  BY <1>3
    <3> QED BY <3>1, <1>3, SubSeqProperties
  <2>3. Len(xt) = Len(rt) - b  BY <2>2, <1>2, <1>3
  <2>4. ASSUME NEW i \in 1..Len(xt) PROVE xt[i] = rt[b + i]
    <3>1. i \in 1..(Len(rt) - (b + 1) + 1)  BY <2>3, <1>3
    <3>2. (b + 1) + i - 1 = b + i  BY <1>3
    <3> QED BY <3>1, <3>2, <2>2, <1>2
  <2> QED BY <2>2, <2>3, <2>4, <1>2
<1> HIDE DEF xq, xt
<1>7. Chronicle(xq)
  <2>1. /\ \A i, j \in 1..Len(rq) : i <= j => rq[i] <= rq[j]
        /\ \A i \in 1..Len(rq) : rq[i] <= now
    BY DEF Chronicle
  <2>2. \A i \in 1..Len(xq) : a + i \in 1..Len(rq) /\ xq[i] = rq[a + i]  BY <1>5, <1>3
  <2>3. \A i, j \in 1..Len(xq) : i <= j => a + i <= a + j  BY <1>5, <1>3
  <2>4. \A i, j \in 1..Len(xq) : i <= j => xq[i] <= xq[j]  BY <2>1, <2>2, <2>3
  <2>5. \A i \in 1..Len(xq) : xq[i] <= now  BY <2>1, <2>2
  <2> QED BY <1>5, <2>4, <2>5 DEF Chronicle
<1>8. Chronicle(xt)
  <2>1. /\ \A i, j \in 1..Len(rt) : i <= j => rt[i] <= rt[j]
        /\ \A i \in 1..Len(rt) : rt[i] <= now
    BY DEF Chronicle
  <2>2. \A i \in 1..Len(xt) : b + i \in 1..Len(rt) /\ xt[i] = rt[b + i]  BY <1>6, <1>3
  <2>3. \A i, j \in 1..Len(xt) : i <= j => b + i <= b + j  BY <1>6, <1>3
  <2>4. \A i, j \in 1..Len(xt) : i <= j => xt[i] <= xt[j]  BY <2>1, <2>2, <2>3
  <2>5. \A i \in 1..Len(xt) : xt[i] <= now  BY <2>1, <2>2
  <2> QED BY <1>6, <2>4, <2>5 DEF Chronicle
<1>9. PastsArePaidFor(xq, xt, granted, begun)
  <2> SUFFICES ASSUME NEW t \in Nat, NEW m \in 0..Len(xq), NEW n \in 0..Len(xt),
                      Splits(xq, m, t), Splits(xt, n, t)
               PROVE  100 * granted + Pct * (Len(xq) - m) <= Pct * begun + 100 * (Len(xt) - n)
    BY DEF PastsArePaidFor
  <2> DEFINE u == IF t + WindowS < now THEN now - WindowS ELSE t
  <2>1. u \in Nat /\ t <= u /\ now <= u + WindowS /\ (u = t \/ u + WindowS = now)
    BY <1>4
  <2> HIDE DEF u
  <2>2. Splits(rq, a + m, u)
    <3>1. ASSUME NEW i \in 1..Len(rq), i <= a + m PROVE rq[i] < u
      <4>1. CASE i <= a
        <5>1. rq[i] + WindowS < now /\ rq[i] \in Nat  BY <4>1, <1>1, <1>3
        <5> QED BY <5>1, <2>1, <1>4, Older
      <4>2. CASE a < i
        <5>1. i - a \in 1..Len(xq) /\ i - a <= m /\ a + (i - a) = i  BY <4>2, <3>1, <1>3, <1>5
        <5>2. xq[i - a] < t  BY <5>1 DEF Splits
        <5>3. rq[i] < t /\ rq[i] \in Nat  BY <5>1, <5>2, <1>5, <1>3
        <5> QED BY <5>3, <2>1
      <4> QED BY <4>1, <4>2, <1>3
    <3>2. ASSUME NEW i \in 1..Len(rq), a + m < i PROVE u <= rq[i]
      <4>0. a \in Nat /\ m \in Nat /\ i \in 1..Len(rq) /\ a + m < i
            /\ Len(xq) = Len(rq) - a /\ Len(rq) \in Nat
        BY <3>2, <1>3, <1>5
      <4>1. i - a \in 1..Len(xq) /\ m < i - a /\ a + (i - a) = i /\ a < i
        BY ONLY <4>0
      <4>2. t <= xq[i - a]  BY <4>1 DEF Splits
      <4>3. t <= rq[i] /\ rq[i] \in Nat /\ now <= rq[i] + WindowS  BY <4>1, <4>2, <1>5, <1>3, <1>1
      <4> QED BY <4>3, <2>1, <1>4, Younger
    <3> QED BY <3>1, <3>2 DEF Splits
  <2>3. Splits(rt, b + n, u)
    <3>1. ASSUME NEW i \in 1..Len(rt), i <= b + n PROVE rt[i] < u
      <4>1. CASE i <= b
        <5>1. rt[i] + WindowS < now /\ rt[i] \in Nat  BY <4>1, <1>2, <1>3
        <5> QED BY <5>1, <2>1, <1>4, Older
      <4>2. CASE b < i
        <5>1. i - b \in 1..Len(xt) /\ i - b <= n /\ b + (i - b) = i  BY <4>2, <3>1, <1>3, <1>6
        <5>2. xt[i - b] < t  BY <5>1 DEF Splits
        <5>3. rt[i] < t /\ rt[i] \in Nat  BY <5>1, <5>2, <1>6, <1>3
        <5> QED BY <5>3, <2>1
      <4> QED BY <4>1, <4>2, <1>3
    <3>2. ASSUME NEW i \in 1..Len(rt), b + n < i PROVE u <= rt[i]
      <4>0. b \in Nat /\ n \in Nat /\ i \in 1..Len(rt) /\ b + n < i
            /\ Len(xt) = Len(rt) - b /\ Len(rt) \in Nat
        BY <3>2, <1>3, <1>6
      <4>1. i - b \in 1..Len(xt) /\ n < i - b /\ b + (i - b) = i /\ b < i
        BY ONLY <4>0
      <4>2. t <= xt[i - b]  BY <4>1 DEF Splits
      <4>3. t <= rt[i] /\ rt[i] \in Nat /\ now <= rt[i] + WindowS  BY <4>1, <4>2, <1>6, <1>3, <1>2
      <4> QED BY <4>3, <2>1, <1>4, Younger
    <3> QED BY <3>1, <3>2 DEF Splits
  <2>4. a + m \in 0..Len(rq) /\ b + n \in 0..Len(rt)  BY <1>3, <1>5, <1>6
  <2>5. 100 * granted + Pct * (Len(rq) - (a + m)) <= Pct * begun + 100 * (Len(rt) - (b + n))
    BY <2>1, <2>2, <2>3, <2>4 DEF PastsArePaidFor
  <2>6. Len(rq) - (a + m) = Len(xq) - m /\ Len(rt) - (b + n) = Len(xt) - n
    BY <1>3, <1>5, <1>6
  <2> QED BY <2>5, <2>6
<1> QED BY <1>7, <1>8, <1>9 DEF xq, xt

\* An instant that joins a queue: now.
LEMMA QueueGrows ==
    ASSUME now \in Nat, NEW q, Chronicle(q)
    PROVE  /\ Chronicle(Append(q, now))
           /\ Len(q) \in Nat /\ Len(Append(q, now)) = Len(q) + 1
           /\ \A n \in 0..Len(q) + 1, t \in Nat :
                 Splits(Append(q, now), n, t) =>
                    \/ n <= Len(q) /\ t <= now /\ Splits(q, n, t)
                    \/ n = Len(q) + 1 /\ now < t /\ Splits(q, Len(q), t)
<1>1. q \in Seq(Nat) /\ Len(q) \in Nat /\ \A i \in 1..Len(q) : q[i] \in Nat
  BY LenProperties, ElementOfSeq DEF Chronicle
<1> DEFINE x == Append(q, now)
<1>2. /\ x \in Seq(Nat) /\ Len(x) = Len(q) + 1
      /\ \A i \in 1..Len(q) : x[i] = q[i]
      /\ x[Len(q) + 1] = now
  BY <1>1, AppendProperties
<1> HIDE DEF x
<1>3. Chronicle(x)
  <2>1. /\ \A i, j \in 1..Len(q) : i <= j => q[i] <= q[j]
        /\ \A i \in 1..Len(q) : q[i] <= now
    BY DEF Chronicle
  <2>2. \A i \in 1..Len(x) : i \in 1..Len(q) \/ i = Len(q) + 1  BY <1>1, <1>2
  <2>3. \A i \in 1..Len(x) : x[i] <= now  BY <1>1, <1>2, <2>1, <2>2
  <2>4. ASSUME NEW i \in 1..Len(x), NEW j \in 1..Len(x), i <= j PROVE x[i] <= x[j]
    <3>1. CASE j = Len(q) + 1  BY <3>1, <1>2, <2>3
    <3>2. CASE j \in 1..Len(q)
      <4>1. i \in 1..Len(q)  BY <3>2, <2>4, <1>1
      <4> QED BY <3>2, <4>1, <2>1, <2>4, <1>2
    <3> QED BY <3>1, <3>2, <2>2
  <2> QED BY <1>2, <2>3, <2>4 DEF Chronicle
<1>4. ASSUME NEW n \in 0..Len(q) + 1, NEW t \in Nat, Splits(x, n, t)
      PROVE  \/ n <= Len(q) /\ t <= now /\ Splits(q, n, t)
             \/ n = Len(q) + 1 /\ now < t /\ Splits(q, Len(q), t)
  <2>1. CASE n <= Len(q)
    <3>1. t <= now
      <4>1. Len(q) + 1 \in 1..Len(x) /\ n < Len(q) + 1  BY <2>1, <1>1, <1>2
      <4> QED BY <4>1, <1>2, <1>4 DEF Splits
    <3>2. \A i \in 1..Len(q) : i \in 1..Len(x) /\ x[i] = q[i]  BY <1>1, <1>2
    <3>3. /\ \A i \in 1..Len(x) : i <= n => x[i] < t
          /\ \A i \in 1..Len(x) : n < i => t <= x[i]
      BY <1>4 DEF Splits
    <3>4. Splits(q, n, t)  BY ONLY <3>2, <3>3 DEF Splits
    <3> QED BY <2>1, <3>1, <3>4
  <2>2. CASE n = Len(q) + 1
    <3>1. now < t
      <4>1. Len(q) + 1 \in 1..Len(x)  BY <1>1, <1>2
      <4> QED BY <4>1, <1>1, <1>2, <1>4, <2>2 DEF Splits
    <3>2. Splits(q, Len(q), t)  BY <1>1, <1>2, <1>4, <2>2 DEF Splits
    <3> QED BY <2>2, <3>1, <3>2
  <2> QED BY <2>1, <2>2, <1>1
<1> QED BY <1>1, <1>2, <1>3, <1>4 DEF x

\* Nothing in a queue comes after now.
LEMMA AllIsPast ==
    ASSUME now \in Nat, NEW q, Chronicle(q), NEW t \in Nat, now < t, NEW n \in 0..Len(q),
           Splits(q, n, t)
    PROVE  n = Len(q)
<1>1. q \in Seq(Nat) /\ Len(q) \in Nat /\ \A i \in 1..Len(q) : q[i] \in Nat
  BY LenProperties, ElementOfSeq DEF Chronicle
<1>2. SUFFICES ASSUME n < Len(q) PROVE FALSE  BY <1>1
<1>3. Len(q) \in 1..Len(q)  BY <1>1, <1>2
<1>4. t <= q[Len(q)] /\ q[Len(q)] <= now /\ q[Len(q)] \in Nat
  BY <1>1, <1>2, <1>3 DEF Splits, Chronicle
<1> QED BY <1>4

\* One more costs one price more.
LEMMA OneMorePrice ==
    ASSUME NEW p \in Nat, NEW x \in Int
    PROVE  p * (x + 1) = p * x + p
OBVIOUS

\* A request pays for every past that it is in.
LEMMA RequestPays ==
    ASSUME now \in Nat, NEW rq, NEW rt, NEW granted \in Nat, NEW begun \in Nat,
           Chronicle(rq), Chronicle(rt), PastsArePaidFor(rq, rt, granted, begun)
    PROVE  PastsArePaidFor(Append(rq, now), rt, granted, begun + 1)
<1> DEFINE x == Append(rq, now)
<1>1. /\ Len(rq) \in Nat /\ Len(x) = Len(rq) + 1
      /\ \A m \in 0..Len(rq) + 1, t \in Nat : Splits(x, m, t) =>
            \/ m <= Len(rq) /\ t <= now /\ Splits(rq, m, t)
            \/ m = Len(rq) + 1 /\ now < t /\ Splits(rq, Len(rq), t)
  BY QueueGrows
<1>2. Len(rt) \in Nat  BY LenProperties DEF Chronicle
<1>3. Pct \in Nat  BY RetryWindowAssumption
<1> HIDE DEF x
<1> SUFFICES ASSUME NEW t \in Nat, NEW m \in 0..Len(x), NEW n \in 0..Len(rt),
                    Splits(x, m, t), Splits(rt, n, t)
             PROVE  100 * granted + Pct * (Len(x) - m) <= Pct * (begun + 1) + 100 * (Len(rt) - n)
  BY DEF PastsArePaidFor, x
<1>4. CASE m <= Len(rq) /\ Splits(rq, m, t)
  <2>1. m \in 0..Len(rq)  BY <1>1, <1>4
  <2>2. 100 * granted + Pct * (Len(rq) - m) <= Pct * begun + 100 * (Len(rt) - n)
    BY <1>4, <2>1 DEF PastsArePaidFor
  <2>3. Len(x) - m = (Len(rq) - m) + 1 /\ Len(rq) - m \in Int  BY <1>1, <2>1
  <2>4. Pct * (Len(x) - m) = Pct * (Len(rq) - m) + Pct  BY <2>3, <1>3, OneMorePrice
  <2>5. Pct * (begun + 1) = Pct * begun + Pct  BY <1>3, OneMorePrice
  <2>6. Pct * (Len(rq) - m) \in Int /\ Pct * begun \in Int  BY <1>3, <2>3
  <2> QED BY <2>2, <2>4, <2>5, <2>6, <1>2, <1>3
<1>5. CASE m = Len(rq) + 1 /\ Splits(rq, Len(rq), t)
  <2>1. 100 * granted + Pct * (Len(rq) - Len(rq)) <= Pct * begun + 100 * (Len(rt) - n)
    BY <1>1, <1>5 DEF PastsArePaidFor
  <2>2. Len(rq) - Len(rq) = 0 /\ Len(x) - m = 0 /\ Pct * 0 = 0  BY <1>1, <1>3, <1>5
  <2>3. Pct * (begun + 1) = Pct * begun + Pct /\ Pct * begun \in Int  BY <1>3, OneMorePrice
  <2> QED BY <2>1, <2>2, <2>3, <1>2, <1>3
<1> QED BY <1>1, <1>4, <1>5

\* A retry that the budget affords is paid for, in every past that it is in:
\* the requests of the window pay for it and for the retries of the window.
LEMMA RetryIsPaid ==
    ASSUME now \in Nat, NEW rq, NEW rt, NEW granted \in Nat, NEW begun \in Nat,
           Chronicle(rq), Chronicle(rt), PastsArePaidFor(rq, rt, granted, begun),
           100 * (Len(rt) + 1) <= Pct * Len(rq)
    PROVE  PastsArePaidFor(rq, Append(rt, now), granted + 1, begun)
<1> DEFINE x == Append(rt, now)
<1>1. /\ Len(rt) \in Nat /\ Len(x) = Len(rt) + 1
      /\ \A n \in 0..Len(rt) + 1, t \in Nat : Splits(x, n, t) =>
            \/ n <= Len(rt) /\ t <= now /\ Splits(rt, n, t)
            \/ n = Len(rt) + 1 /\ now < t /\ Splits(rt, Len(rt), t)
  BY QueueGrows
<1>2. Len(rq) \in Nat  BY LenProperties DEF Chronicle
<1>3. Pct \in Nat  BY RetryWindowAssumption
<1> HIDE DEF x
<1> SUFFICES ASSUME NEW t \in Nat, NEW m \in 0..Len(rq), NEW n \in 0..Len(x),
                    Splits(rq, m, t), Splits(x, n, t)
             PROVE  100 * (granted + 1) + Pct * (Len(rq) - m) <= Pct * begun + 100 * (Len(x) - n)
  BY DEF PastsArePaidFor, x
<1>4. Pct * begun \in Int /\ Pct * Len(rq) \in Int /\ Pct * (Len(rq) - m) \in Int  BY <1>2, <1>3
<1>5. CASE n <= Len(rt) /\ Splits(rt, n, t)
  <2>1. n \in 0..Len(rt)  BY <1>1, <1>5
  <2>2. 100 * granted + Pct * (Len(rq) - m) <= Pct * begun + 100 * (Len(rt) - n)
    BY <1>5, <2>1 DEF PastsArePaidFor
  <2> DEFINE young == Pct * (Len(rq) - m)  all == Pct * begun
  <2>3. young \in Int /\ all \in Int /\ n \in Nat /\ granted \in Nat  BY <1>1, <1>4, <2>1
  <2>4. 100 * granted + young <= all + 100 * (Len(rt) - n)  BY <2>2
  <2> HIDE DEF young, all
  <2>5. 100 * (granted + 1) + young <= all + 100 * (Len(x) - n)
    BY ONLY <2>3, <2>4, <1>1
  <2> QED BY <2>5 DEF young, all
<1>6. CASE n = Len(rt) + 1 /\ now < t
  <2>1. m = Len(rq)  BY <1>6, AllIsPast
  <2>2. Splits(rq, 0, 0) /\ Splits(rt, 0, 0)
    <3>1. /\ \A i \in 1..Len(rq) : rq[i] \in Nat
          /\ \A i \in 1..Len(rt) : rt[i] \in Nat
      BY ElementOfSeq DEF Chronicle
    <3> QED BY <3>1, <1>1, <1>2 DEF Splits
  <2>3. 0 \in Nat /\ 0 \in 0..Len(rq) /\ 0 \in 0..Len(rt)  BY <1>1, <1>2
  <2>4. 100 * granted + Pct * (Len(rq) - 0) <= Pct * begun + 100 * (Len(rt) - 0)
    BY <2>2, <2>3 DEF PastsArePaidFor
  <2>5. Len(rq) - 0 = Len(rq) /\ Len(rt) - 0 = Len(rt) /\ Len(rq) - m = 0 /\ Pct * 0 = 0
    BY <1>1, <1>2, <1>3, <2>1
  <2> DEFINE pays == Pct * Len(rq)  all == Pct * begun
  <2>6. /\ pays \in Int /\ all \in Int /\ granted \in Nat /\ Len(rt) \in Nat
        /\ 100 * granted + pays <= all + 100 * Len(rt) /\ 100 * (Len(rt) + 1) <= pays
    BY <1>1, <1>4, <2>4, <2>5
  <2> HIDE DEF pays, all
  <2>7. 100 * (granted + 1) <= all  BY ONLY <2>6
  <2>8. Pct * (Len(rq) - m) = 0 /\ Len(x) - n = 0  BY <2>5, <1>1, <1>6
  <2>9. 100 * (granted + 1) + 0 <= all + 100 * 0  BY ONLY <2>6, <2>7
  <2> QED BY <2>8, <2>9 DEF all
<1> QED BY <1>1, <1>5, <1>6

\* Nothing has been asked for and nothing granted.
LEMMA WindowStarts == WindowInit => WindowInv
<1> SUFFICES ASSUME WindowInit PROVE WindowInv  OBVIOUS
<1>1. now \in Nat /\ spent \in Nat /\ task \in [Task -> {"new", "calling", "sleeping", "over"}]
  BY DEF WindowInit
<1>2. /\ requests = <<>> /\ retries = <<>> /\ spent = 0
      /\ <<>> \in Seq(Nat) /\ Len(<<>>) = 0
  BY EmptySeq DEF WindowInit
<1>3. Chronicle(requests) /\ Chronicle(retries)  BY <1>2 DEF Chronicle
<1>4. Cardinality(Started) \in Nat
  <2>1. Started \subseteq Task /\ IsFiniteSet(Task)  BY RetryWindowAssumption DEF Started
  <2> HIDE DEF Started
  <2> QED BY <2>1, CountPart
<1>5. EveryPastIsPaidFor
  <2>1. Pct \in Nat /\ Pct * Cardinality(Started) \in Nat  BY <1>4, RetryWindowAssumption
  <2> QED BY <1>2, <2>1 DEF EveryPastIsPaidFor, PastsArePaidFor
<1> QED BY <1>1, <1>3, <1>5 DEF WindowInv, WindowTypeOK

\* A call is counted as started when it stops being new, and never again.
LEMMA CallsStartOnce ==
    ASSUME WindowInv, NEW k \in Task, NEW where \in {"calling", "sleeping", "over"},
           Become(k, where)
    PROVE  /\ Cardinality(Started) \in Nat
           /\ task' \in [Task -> {"new", "calling", "sleeping", "over"}]
           /\ task[k] = "new" => Cardinality(Started') = Cardinality(Started) + 1
           /\ task[k] # "new" => Started' = Started
<1>1. task \in [Task -> {"new", "calling", "sleeping", "over"}]  BY DEF WindowInv, WindowTypeOK
<1>2. task' = [task EXCEPT ![k] = where] /\ where # "new"  BY DEF Become
<1>3. task' \in [Task -> {"new", "calling", "sleeping", "over"}]  BY <1>1, <1>2
<1>4. Started' = Started \cup {k}  BY <1>1, <1>2 DEF Started
<1>5. IsFiniteSet(Started) /\ Cardinality(Started) \in Nat
  <2>1. Started \subseteq Task /\ IsFiniteSet(Task)  BY RetryWindowAssumption DEF Started
  <2> HIDE DEF Started
  <2> QED BY <2>1, CountPart
<1>6. task[k] = "new" => k \notin Started  BY DEF Started
<1>7. task[k] # "new" => k \in Started  BY DEF Started
<1>8. task[k] = "new" => Cardinality(Started') = Cardinality(Started) + 1
  BY <1>4, <1>5, <1>6, CountOne
<1>9. task[k] # "new" => Started' = Started  BY <1>4, <1>7
<1> QED BY <1>3, <1>5, <1>8, <1>9

\* What _trim leaves satisfies all that the queues did.
LEMMA TrimmedInv ==
    ASSUME WindowInv
    PROVE  /\ now \in Nat /\ spent \in Nat /\ Cardinality(Started) \in Nat
           /\ Chronicle(trim.requests) /\ Chronicle(trim.retries)
           /\ PastsArePaidFor(trim.requests, trim.retries, spent, Cardinality(Started))
<1>1. /\ now \in Nat /\ spent \in Nat /\ Chronicle(requests) /\ Chronicle(retries)
      /\ PastsArePaidFor(requests, retries, spent, Cardinality(Started))
  BY DEF WindowInv, WindowTypeOK, EveryPastIsPaidFor
<1>2. Cardinality(Started) \in Nat
  <2>1. Started \subseteq Task /\ IsFiniteSet(Task)  BY RetryWindowAssumption DEF Started
  <2> HIDE DEF Started
  <2> QED BY <2>1, CountPart
<1>3. trim.requests = Recent(requests) /\ trim.retries = Recent(retries)  BY DEF trim
<1> QED BY <1>1, <1>2, <1>3, TrimKeepsThePast

\* with_retries is called: its request is recorded.
LEMMA RecordKeepsWindow ==
    ASSUME WindowInv, NEW k \in Task, record_request(k)
    PROVE  WindowInv'
<1> DEFINE rq == trim.requests  rt == trim.retries  begun == Cardinality(Started)
<1>1. /\ requests' = Append(rq, now) /\ retries' = rt /\ task[k] = "new"
      /\ Become(k, "calling") /\ now' = now /\ spent' = spent
  BY DEF record_request
<1>2. /\ now \in Nat /\ spent \in Nat /\ begun \in Nat
      /\ Chronicle(rq) /\ Chronicle(rt) /\ PastsArePaidFor(rq, rt, spent, begun)
  BY TrimmedInv
<1>3. /\ task' \in [Task -> {"new", "calling", "sleeping", "over"}]
      /\ Cardinality(Started') = begun + 1
  BY <1>1, CallsStartOnce
<1> HIDE DEF rq, rt, begun
<1>4. Chronicle(Append(rq, now)) /\ PastsArePaidFor(Append(rq, now), rt, spent, begun + 1)
  BY <1>2, QueueGrows, RequestPays
<1>5. Chronicle(requests)' /\ Chronicle(retries)'  BY <1>1, <1>2, <1>4 DEF Chronicle
<1>6. EveryPastIsPaidFor'
  <2>1. PastsArePaidFor(requests', retries', spent', Cardinality(Started'))
    BY <1>1, <1>3, <1>4, Zenon
  <2> QED BY ONLY <2>1, Zenon DEF EveryPastIsPaidFor, PastsArePaidFor, Splits
<1> QED BY <1>1, <1>2, <1>3, <1>5, <1>6 DEF WindowInv, WindowTypeOK

\* A retry is granted, made or not.
LEMMA GrantKeepsWindow ==
    ASSUME WindowInv, NEW k \in Task, unavailable(k)
    PROVE  WindowInv'
<1> DEFINE rq == trim.requests  rt == trim.retries  begun == Cardinality(Started)
<1>1. /\ requests' = rq /\ retries' = Append(rt, now) /\ now' = now /\ spent' = spent + 1
      /\ 100 * (Len(rt) + 1) <= Pct * Len(rq)
  BY DEF unavailable, Affordable
<1>2. PICK where \in {"calling", "sleeping", "over"} : Become(k, where) /\ task[k] # "new"
  BY DEF unavailable
<1>3. /\ now \in Nat /\ spent \in Nat /\ begun \in Nat
      /\ Chronicle(rq) /\ Chronicle(rt) /\ PastsArePaidFor(rq, rt, spent, begun)
  BY TrimmedInv
<1>4. /\ task' \in [Task -> {"new", "calling", "sleeping", "over"}]
      /\ Cardinality(Started') = begun
  BY <1>2, CallsStartOnce
<1> HIDE DEF rq, rt, begun
<1>5. Chronicle(Append(rt, now)) /\ PastsArePaidFor(rq, Append(rt, now), spent + 1, begun)
  BY <1>1, <1>3, QueueGrows, RetryIsPaid
<1>6. Chronicle(requests)' /\ Chronicle(retries)'  BY <1>1, <1>3, <1>5 DEF Chronicle
<1>7. EveryPastIsPaidFor'
  <2>1. PastsArePaidFor(requests', retries', spent', Cardinality(Started'))
    BY <1>1, <1>4, <1>5, Zenon
  <2> QED BY ONLY <2>1, Zenon DEF EveryPastIsPaidFor, PastsArePaidFor, Splits
<1>8. spent' \in Nat  BY <1>1, <1>3
<1> QED BY <1>1, <1>3, <1>4, <1>6, <1>7, <1>8 DEF WindowInv, WindowTypeOK

\* A step that starts no call and grants nothing, and trims both queues or none.
LEMMA QuietKeepsWindow ==
    ASSUME WindowInv, now' = now, spent' = spent, Started' = Started,
           task' \in [Task -> {"new", "calling", "sleeping", "over"}],
           \/ requests' = trim.requests /\ retries' = trim.retries
           \/ UNCHANGED <<requests, retries>>
    PROVE  WindowInv'
<1>1. /\ now \in Nat /\ spent \in Nat
      /\ Chronicle(requests) /\ Chronicle(retries)
      /\ PastsArePaidFor(requests, retries, spent, Cardinality(Started))
  BY DEF WindowInv, WindowTypeOK, EveryPastIsPaidFor
<1> DEFINE q == requests'  r == retries'
<1>2. Chronicle(q) /\ Chronicle(r) /\ PastsArePaidFor(q, r, spent, Cardinality(Started))
  BY <1>1, TrimmedInv
<1>3. Chronicle(requests)' /\ Chronicle(retries)'  BY <1>2 DEF Chronicle
<1>4. EveryPastIsPaidFor'
  BY <1>2 DEF EveryPastIsPaidFor, PastsArePaidFor, Splits
<1> QED BY <1>1, <1>3, <1>4 DEF WindowInv, WindowTypeOK

\* Every step of the calls and of the clock keeps the invariant.
LEMMA WindowStep == WindowInv /\ [WindowNext]_windowVars => WindowInv'
<1> SUFFICES ASSUME WindowInv, [WindowNext]_windowVars PROVE WindowInv'  OBVIOUS
<1>0. task \in [Task -> {"new", "calling", "sleeping", "over"}]  BY DEF WindowInv, WindowTypeOK
<1>1. CASE \E k \in Task : record_request(k)  BY <1>1, RecordKeepsWindow
<1>2. CASE \E k \in Task : unavailable(k)  BY <1>2, GrantKeepsWindow
<1>3. CASE \E k \in Task : ends(k) \/ giveUpCall(k) \/ callAgain(k)
  <2>1. PICK k \in Task : ends(k) \/ giveUpCall(k) \/ callAgain(k)  BY <1>3
  <2>2. PICK where \in {"calling", "sleeping", "over"} : Become(k, where) /\ task[k] # "new"
    BY <2>1 DEF ends, giveUpCall, callAgain
  <2>3. Started' = Started /\ task' \in [Task -> {"new", "calling", "sleeping", "over"}]
    BY <2>2, CallsStartOnce
  <2>4. now' = now /\ spent' = spent  BY <2>1 DEF ends, giveUpCall, callAgain
  <2>5. \/ requests' = trim.requests /\ retries' = trim.retries
        \/ UNCHANGED <<requests, retries>>
    BY <2>1 DEF ends, giveUpCall, callAgain
  <2> QED BY <2>3, <2>4, <2>5, QuietKeepsWindow
<1>4. CASE stats
  <2>1. Started' = Started  BY <1>4 DEF stats, Started
  <2> QED BY <1>0, <1>4, <2>1, QuietKeepsWindow DEF stats
<1>5. CASE passTime
  <2>1. now \in Nat /\ now' = now + 1 /\ UNCHANGED <<requests, retries, task, spent>>
    BY <1>5 DEF passTime, WindowInv, WindowTypeOK
  <2>2. Chronicle(requests)' /\ Chronicle(retries)'
    <3>1. /\ \A i \in 1..Len(requests) : requests[i] \in Nat
          /\ \A i \in 1..Len(retries) : retries[i] \in Nat
      BY ElementOfSeq DEF WindowInv, WindowTypeOK, Chronicle
    <3> QED BY <2>1, <3>1 DEF WindowInv, WindowTypeOK, Chronicle
  <2>3. EveryPastIsPaidFor'
    <3>1. Started' = Started  BY <2>1 DEF Started
    <3>2. PastsArePaidFor(requests', retries', spent', Cardinality(Started'))
      <4>1. PastsArePaidFor(requests, retries, spent, Cardinality(Started))
        BY DEF WindowInv, EveryPastIsPaidFor
      <4> QED BY <4>1, <2>1, <3>1, Zenon
    <3> QED BY ONLY <3>2, Zenon DEF EveryPastIsPaidFor, PastsArePaidFor, Splits
  <2> QED BY <2>1, <2>2, <2>3 DEF WindowInv, WindowTypeOK
<1>6. CASE UNCHANGED windowVars
  <2>1. Started' = Started  BY <1>6 DEF windowVars, Started
  <2> QED BY <1>0, <1>6, <2>1, QuietKeepsWindow DEF windowVars
<1> QED BY <1>1, <1>2, <1>3, <1>4, <1>5, <1>6 DEF WindowNext

\* The cut before everything that is still in the window says what was ever granted.
LEMMA WindowGivesTheBudget == WindowInv => BudgetOverAllTime
<1> SUFFICES ASSUME WindowInv PROVE BudgetOverAllTime  OBVIOUS
<1>1. /\ spent \in Nat /\ now \in Nat /\ Chronicle(requests) /\ Chronicle(retries)
      /\ PastsArePaidFor(requests, retries, spent, Cardinality(Started))
  BY DEF WindowInv, WindowTypeOK, EveryPastIsPaidFor
<1>2. /\ Len(requests) \in Nat /\ \A i \in 1..Len(requests) : requests[i] \in Nat
      /\ Len(retries) \in Nat /\ \A i \in 1..Len(retries) : retries[i] \in Nat
  BY <1>1, LenProperties, ElementOfSeq DEF Chronicle
<1>3. Splits(requests, Len(requests), now + 1) /\ Splits(retries, Len(retries), now + 1)
  BY <1>1, <1>2 DEF Splits, Chronicle
<1>4. 100 * spent + Pct * (Len(requests) - Len(requests))
         <= Pct * Cardinality(Started) + 100 * (Len(retries) - Len(retries))
  BY <1>1, <1>2, <1>3 DEF PastsArePaidFor
<1>5. Cardinality(Started) \in Nat /\ Pct \in Nat  BY TrimmedInv, RetryWindowAssumption
<1>6. Len(requests) - Len(requests) = 0 /\ Len(retries) - Len(retries) = 0 /\ Pct * 0 = 0
  BY <1>2, <1>5
<1>7. Pct * Cardinality(Started) \in Int  BY <1>5
<1>8. 100 * spent <= Pct * Cardinality(Started)  BY <1>1, <1>4, <1>6, <1>7
<1> QED BY <1>8 DEF BudgetOverAllTime, Started

\* The retry budget of the orders service only looks at the requests and the
\* retries of the last window_s seconds. Yet at no time have more retries been
\* granted than pct percent of all the requests so far, for every window, every
\* pct, every number of calls and however their attempts, their failures and the
\* trims of record_request, try_spend and stats are spread over time.
THEOREM BudgetHoldsOverAllTime == WindowSpec => []BudgetOverAllTime
<1>1. WindowInit => WindowInv  BY WindowStarts
<1>2. WindowInv /\ [WindowNext]_windowVars => WindowInv'  BY WindowStep
<1>3. WindowInv => BudgetOverAllTime  BY WindowGivesTheBudget
<1> QED BY <1>1, <1>2, <1>3, PTL DEF WindowSpec

-----------------------------------------------------------------------------
(* Paging: core/pagination.py of the orders service *)

\* The table: rows with ids of their own, in the order of the precondition.
SortedTable ==
    /\ listing \in Seq(Row)
    /\ \A i, j \in 1..Len(listing) :
          i < j => listing[i].id # listing[j].id /\ InOrder(listing[i], listing[j])

PagingTypeOK ==
    /\ pager \in {"page", "inclusive", "composite"}
    /\ pageLimit \in Nat \ {0} /\ pages \in Nat /\ walking \in BOOLEAN
    /\ delivered \in Seq(Row)

\* The first m rows of the table are delivered, in order (composite); or every
\* one shares its timestamp with one of those delivered, which are among them and
\* come once (page); or are delivered at least once (inclusive).
Covers(m) ==
    /\ pager = "composite" =>
          Len(delivered) = m /\ \A i \in 1..m : delivered[i] = listing[i]
    /\ pager = "page" =>
          /\ \A i, j \in 1..Len(delivered) : i # j => delivered[i] # delivered[j]
          /\ \A i \in 1..Len(delivered) : \E j \in 1..m : delivered[i] = listing[j]
          /\ \A j \in 1..m : \E i \in 1..Len(delivered) :
                delivered[i].created_at = listing[j].created_at
    /\ pager = "inclusive" =>
          \A j \in 1..m : \E i \in 1..Len(delivered) : delivered[i] = listing[j]

\* A walk that goes on is at the m-th row, which the cursor names; every page but
\* the inclusive one has moved it on by pageLimit rows.
WalkIsAt(m) ==
    /\ cursor = IF m = 0 THEN <<>> ELSE <<listing[m]>>
    /\ Covers(m)
    /\ pager # "inclusive" => pageLimit * pages <= m

PagingInv ==
    /\ PagingTypeOK /\ SortedTable
    /\ walking => \E m \in 0..Len(listing) : WalkIsAt(m)
    /\ ~walking =>
          /\ Covers(Len(listing))
          /\ pager # "inclusive" => pageLimit * (pages - 1) <= Len(listing)

\* A row passes the WHERE clause of the page that is fetched next.
Passes(i) == cursor # <<>> => After(listing[i])

\* The rows of the table, and the timestamps and the ids in them.
LEMMA TableRows ==
    ASSUME SortedTable
    PROVE  /\ Len(listing) \in Nat /\ DOMAIN listing = 1..Len(listing)
           /\ \A i \in 1..Len(listing) :
                 /\ listing[i] \in Row
                 /\ listing[i].created_at \in Nat /\ listing[i].id \in Nat
<1>1. listing \in Seq(Row) /\ Len(listing) \in Nat /\ DOMAIN listing = 1..Len(listing)
  BY LenProperties DEF SortedTable
<1>2. \A i \in 1..Len(listing) : listing[i] \in Row  BY <1>1, ElementOfSeq
<1>3. \A r \in Row : r.created_at \in Nat /\ r.id \in Nat  BY PagingAssumption DEF Row
<1> QED BY <1>1, <1>2, <1>3

\* The rows are in descending order of created_at, whatever page is walked.
LEMMA TimesDescend ==
    ASSUME SortedTable, NEW i \in 1..Len(listing), NEW j \in 1..Len(listing), i <= j
    PROVE  listing[j].created_at <= listing[i].created_at
<1>1. /\ listing[i].created_at \in Nat /\ listing[j].created_at \in Nat /\ Len(listing) \in Nat
  BY TableRows
<1>2. CASE i = j  BY <1>1, <1>2
<1>3. CASE i < j
  <2>1. InOrder(listing[i], listing[j])  BY <1>3 DEF SortedTable
  <2> QED BY <1>1, <2>1 DEF InOrder, Precedes
<1> QED BY <1>1, <1>2, <1>3

\* The order of tuples is transitive.
LEMMA TupleOrder ==
    ASSUME NEW a \in Nat, NEW i \in Nat, NEW b \in Nat, NEW j \in Nat,
           NEW c \in Nat, NEW k \in Nat,
           a > b \/ (a = b /\ i > j), b > c \/ (b = c /\ j > k)
    PROVE  a > c \/ (a = c /\ i > k)
OBVIOUS

\* A cursor that is there is a row of the table: what passes it is an end of the table.
LEMMA PassingIsAnEnd ==
    ASSUME PagingTypeOK, SortedTable, NEW m \in 0..Len(listing),
           cursor = IF m = 0 THEN <<>> ELSE <<listing[m]>>,
           NEW i \in 1..Len(listing), NEW j \in 1..Len(listing), i < j, Passes(i)
    PROVE  Passes(j)
<1>1. CASE m = 0  BY <1>1 DEF Passes
<1>2. CASE m # 0
  <2>1. m \in 1..Len(listing) /\ cursor[1] = listing[m] /\ cursor # <<>>
    BY <1>2, TableRows
  <2>2. /\ listing[m].created_at \in Nat /\ listing[m].id \in Nat
        /\ listing[i].created_at \in Nat /\ listing[i].id \in Nat
        /\ listing[j].created_at \in Nat /\ listing[j].id \in Nat
    BY <2>1, TableRows
  <2>3. After(listing[i])  BY <2>1 DEF Passes
  <2>4. listing[j].created_at <= listing[i].created_at  BY TimesDescend, TableRows
  <2>5. CASE pager = "page"
    <3>1. After(listing[j]) <=> listing[j].created_at < listing[m].created_at
      BY <2>1, <2>5 DEF After
    <3>2. listing[i].created_at < listing[m].created_at  BY <2>1, <2>3, <2>5 DEF After
    <3> QED BY <3>1, <3>2, <2>2, <2>4 DEF Passes
  <2>6. CASE pager = "inclusive"
    <3>1. After(listing[j]) <=> listing[j].created_at <= listing[m].created_at
      BY <2>1, <2>6 DEF After
    <3>2. listing[i].created_at <= listing[m].created_at  BY <2>1, <2>3, <2>6 DEF After
    <3> QED BY <3>1, <3>2, <2>2, <2>4 DEF Passes
  <2>7. CASE pager = "composite"
    <3>1. After(listing[j]) <=> Precedes(listing[m], listing[j])  BY <2>1, <2>7 DEF After
    <3>2. Precedes(listing[m], listing[i])  BY <2>1, <2>3, <2>7 DEF After
    <3>3. Precedes(listing[i], listing[j])  BY <2>7 DEF SortedTable, InOrder
    <3>4. Precedes(listing[m], listing[j])  BY <3>2, <3>3, <2>2, TupleOrder DEF Precedes
    <3> QED BY <3>1, <3>4 DEF Passes
  <2> QED BY <2>5, <2>6, <2>7 DEF PagingTypeOK
<1> QED BY <1>1, <1>2

\* The list comprehension keeps the end of the table from the row after the p-th.
LEMMA RestIsAnEnd ==
    ASSUME PagingTypeOK, SortedTable, NEW m \in 0..Len(listing),
           cursor = IF m = 0 THEN <<>> ELSE <<listing[m]>>
    PROVE  \E p \in 0..Len(listing) :
              /\ Rest \in Seq(Row) /\ Len(Rest) = Len(listing) - p
              /\ \A k \in 1..Len(listing) - p : Rest[k] = listing[p + k]
              /\ \A i \in 1..Len(listing) : Passes(i) <=> p < i
<1> DEFINE n == Len(listing)
           kept == {i \in DOMAIN listing : cursor # <<>> => After(listing[i])}
           All == {p \in 0..n : \A i \in 1..n : p < i => Passes(i)}
<1>1. n \in Nat /\ DOMAIN listing = 1..n /\ \A i \in 1..n : listing[i] \in Row  BY TableRows
<1>2. kept = {i \in 1..n : Passes(i)}  BY <1>1 DEF Passes
<1> HIDE DEF n, kept
<1>3. n \in All /\ All \subseteq Nat  BY <1>1
<1> HIDE DEF All
<1>4. PICK p \in All : \A q \in All : ~(<<q, p>> \in OpToRel(<, Nat))
  BY <1>3, NatLessThanWellFounded, WFMin
<1>5. \A q \in All : ~(q < p)  BY <1>3, <1>4 DEF OpToRel
<1>6. p \in 0..n /\ \A i \in 1..n : p < i => Passes(i)  BY DEF All
<1>7. ASSUME NEW i \in 1..n, i <= p PROVE ~Passes(i)
  <2>1. SUFFICES ASSUME Passes(i) PROVE FALSE  OBVIOUS
  <2>2. \A j \in 1..n : i < j => Passes(j)  BY <2>1, PassingIsAnEnd DEF n
  <2>3. i - 1 \in 0..n /\ i - 1 < p  BY <1>1, <1>6, <1>7
  <2>4. \A j \in 1..n : i - 1 < j => j = i \/ i < j  BY <1>1
  <2>5. i - 1 \in All  BY <2>1, <2>2, <2>3, <2>4 DEF All
  <2> QED BY <1>5, <2>3, <2>5
<1>8. \A i \in 1..n : Passes(i) <=> p < i  BY <1>1, <1>6, <1>7
<1>9. kept = (p + 1)..n  BY <1>1, <1>2, <1>6, <1>8
<1>10. Cardinality(kept) = n - p
  <2>1. p + 1 \in Int /\ n \in Int  BY <1>1, <1>6
  <2>2. Cardinality((p + 1)..n) = IF p + 1 > n THEN 0 ELSE n - (p + 1) + 1
    BY <2>1, FS_Interval
  <2> QED BY <2>2, <1>1, <1>6, <1>9
<1>11. ASSUME NEW i \in kept PROVE Cardinality({j \in kept : j <= i}) = i - p
  <2>1. i \in Nat /\ p < i /\ i <= n /\ p \in Nat  BY <1>1, <1>6, <1>9
  <2>2. {j \in kept : j <= i} = (p + 1)..i  BY <1>1, <1>9, <2>1
  <2>3. p + 1 \in Int /\ i \in Int  BY <2>1
  <2>4. Cardinality((p + 1)..i) = IF p + 1 > i THEN 0 ELSE i - (p + 1) + 1
    BY <2>3, FS_Interval
  <2>5. Cardinality((p + 1)..i) = i - p  BY <2>1, <2>4
  <2> QED BY <2>2, <2>5
<1> DEFINE nth(k) == CHOOSE i \in kept : Cardinality({j \in kept : j <= i}) = k
<1>12. ASSUME NEW k \in 1..n - p PROVE nth(k) = p + k
  <2>1. p + k \in kept /\ (p + k) - p = k  BY <1>1, <1>6, <1>9
  <2>2. Cardinality({j \in kept : j <= p + k}) = k  BY <2>1, <1>11
  <2>3. nth(k) \in kept /\ Cardinality({j \in kept : j <= nth(k)}) = k  BY <2>1, <2>2
  <2>4. nth(k) - p = k  BY <2>3, <1>11
  <2>5. nth(k) \in Nat  BY <2>3, <1>1, <1>6, <1>9
  <2> HIDE DEF nth
  <2> QED BY <2>4, <2>5, <1>1, <1>6
<1>13. Rest = [k \in 1..n - p |-> listing[nth(k)]]  BY <1>10 DEF Rest, kept
<1> HIDE DEF nth
<1>14. \A k \in 1..n - p : Rest[k] = listing[p + k] /\ Rest[k] \in Row
  <2> SUFFICES ASSUME NEW k \in 1..n - p PROVE Rest[k] = listing[p + k] /\ Rest[k] \in Row
    OBVIOUS
  <2>1. Rest[k] = listing[p + k]  BY <1>12, <1>13
  <2>2. p + k \in 1..n  BY <1>1, <1>6
  <2> QED BY <1>1, <2>1, <2>2
<1>15. n - p \in Nat  BY <1>1, <1>6
<1>16. Rest \in Seq(Row) /\ Len(Rest) = n - p
  <2>1. Rest \in [1..n - p -> Row]  BY <1>13, <1>14
  <2>2. Rest \in Seq(Row)  BY <2>1, <1>15, IsASeq
  <2>3. DOMAIN Rest = 1..n - p /\ Len(Rest) \in Nat /\ DOMAIN Rest = 1..Len(Rest)
    BY <2>1, <2>2, LenProperties
  <2> QED BY <2>2, <2>3, <1>15
<1> QED BY <1>6, <1>8, <1>14, <1>16 DEF n

\* The page that is fetched next: at most pageLimit rows, those after the p-th.
LEMMA PageIsASlice ==
    ASSUME PagingTypeOK, SortedTable, NEW m \in 0..Len(listing),
           cursor = IF m = 0 THEN <<>> ELSE <<listing[m]>>
    PROVE  \E p \in 0..Len(listing), l \in Nat :
              /\ NextPage \in Seq(Row) /\ Len(NextPage) = l
              /\ l = IF Len(listing) - p < pageLimit THEN Len(listing) - p ELSE pageLimit
              /\ p + l <= Len(listing)
              /\ \A k \in 1..l : NextPage[k] = listing[p + k]
              /\ \A i \in 1..Len(listing) : Passes(i) <=> p < i
<1>1. Len(listing) \in Nat  BY TableRows
<1>2. pageLimit \in Nat \ {0}  BY DEF PagingTypeOK
<1>3. PICK p \in 0..Len(listing) :
         /\ Rest \in Seq(Row) /\ Len(Rest) = Len(listing) - p
         /\ \A k \in 1..Len(listing) - p : Rest[k] = listing[p + k]
         /\ \A i \in 1..Len(listing) : Passes(i) <=> p < i
  BY RestIsAnEnd
<1> DEFINE l == IF Len(listing) - p < pageLimit THEN Len(listing) - p ELSE pageLimit
<1>4. l \in Nat /\ l <= Len(Rest) /\ p + l <= Len(listing)  BY <1>1, <1>2, <1>3
<1>5. NextPage = SubSeq(Rest, 1, l)  BY <1>3 DEF NextPage
<1> HIDE DEF l
<1>6. /\ NextPage \in Seq(Row)
      /\ Len(NextPage) = IF 1 <= l THEN l - 1 + 1 ELSE 0
      /\ \A k \in 1..(l - 1 + 1) : NextPage[k] = Rest[1 + k - 1]
  <2>1. 1 \in 1..(Len(Rest) + 1) /\ l \in (1 - 1)..Len(Rest)  BY <1>1, <1>3, <1>4
  <2> QED BY <2>1, <1>3, <1>5, SubSeqProperties
<1>7. Len(NextPage) = l  BY <1>4, <1>6
<1>8. ASSUME NEW k \in 1..l PROVE NextPage[k] = listing[p + k]
  <2>1. k \in 1..(l - 1 + 1) /\ 1 + k - 1 = k /\ k \in 1..Len(listing) - p
    BY <1>1, <1>3, <1>4
  <2> QED BY <2>1, <1>3, <1>6
<1> QED BY <1>3, <1>4, <1>6, <1>7, <1>8 DEF l

\* Where the next page starts: where the cursor is (composite), or after the rows
\* that share its timestamp (page), or before them (inclusive).
LEMMA WhereThePageStarts ==
    ASSUME PagingTypeOK, SortedTable, NEW m \in 0..Len(listing),
           cursor = IF m = 0 THEN <<>> ELSE <<listing[m]>>,
           NEW p \in 0..Len(listing), \A i \in 1..Len(listing) : Passes(i) <=> p < i
    PROVE  /\ pager = "composite" => p = m
           /\ pager = "page" =>
                 /\ m <= p
                 /\ \A i \in 1..Len(listing) : m < i /\ i <= p =>
                       0 < m /\ listing[i].created_at = listing[m].created_at
           /\ pager = "inclusive" => p <= m
<1>1. Len(listing) \in Nat  BY TableRows
<1>2. CASE m = 0
  <2>1. \A i \in 1..Len(listing) : Passes(i)  BY <1>2 DEF Passes
  <2>2. p = 0
    <3>1. p # 0 => p \in 1..Len(listing) /\ ~(p < p)  BY <1>1
    <3> QED BY <2>1, <3>1
  <2> QED BY <1>2, <2>2, <1>1
<1>3. CASE m # 0
  <2>1. m \in 1..Len(listing) /\ cursor[1] = listing[m] /\ cursor # <<>>
    BY <1>1, <1>3
  <2>2. \A i \in 1..Len(listing) : After(listing[i]) <=> p < i  BY <2>1 DEF Passes
  <2>3. \A i \in 1..Len(listing) : listing[i].created_at \in Nat /\ listing[i].id \in Nat
    BY TableRows
  <2>4. CASE pager = "composite"
    <3>1. \A i \in 1..Len(listing) : Precedes(listing[m], listing[i]) <=> p < i
      BY <2>1, <2>2, <2>4 DEF After
    <3>2. ~Precedes(listing[m], listing[m])  BY <2>1, <2>3 DEF Precedes
    <3>3. ~(p < m)  BY <2>1, <3>1, <3>2
    <3>4. ~(m < p)
      <4>1. SUFFICES ASSUME m < p PROVE FALSE  OBVIOUS
      <4>2. p \in 1..Len(listing)  BY <1>1, <4>1
      <4>3. Precedes(listing[m], listing[p])  BY <2>1, <2>4, <4>1, <4>2 DEF SortedTable, InOrder
      <4> QED BY <3>1, <4>2, <4>3
    <3> QED BY <2>4, <3>3, <3>4, <1>1
  <2>5. CASE pager = "page"
    <3>1. \A i \in 1..Len(listing) :
             listing[i].created_at < listing[m].created_at <=> p < i
      BY <2>1, <2>2, <2>5 DEF After
    <3>2. m <= p  BY <2>1, <2>3, <3>1, <1>1
    <3>3. ASSUME NEW i \in 1..Len(listing), m < i, i <= p
          PROVE  0 < m /\ listing[i].created_at = listing[m].created_at
      <4>1. ~(listing[i].created_at < listing[m].created_at)  BY <3>1, <3>3, <1>1
      <4>2. listing[i].created_at <= listing[m].created_at  BY <2>1, <3>3, <1>1, TimesDescend
      <4> QED BY <2>1, <2>3, <4>1, <4>2
    <3> QED BY <2>5, <3>2, <3>3
  <2>6. CASE pager = "inclusive"
    <3>1. \A i \in 1..Len(listing) :
             listing[i].created_at <= listing[m].created_at <=> p < i
      BY <2>1, <2>2, <2>6 DEF After
    <3>2. p < m  BY <2>1, <2>3, <3>1
    <3> QED BY <2>6, <3>2, <1>1
  <2> QED BY <2>4, <2>5, <2>6 DEF PagingTypeOK
<1> QED BY <1>2, <1>3

\* A step of walk_pages, in terms of rows: what it delivers, and where it stops.
LEMMA PageIsDelivered ==
    ASSUME PagingTypeOK, SortedTable, NEW m \in 0..Len(listing),
           cursor = IF m = 0 THEN <<>> ELSE <<listing[m]>>, nextPage
    PROVE  \E p \in 0..Len(listing), l \in 0..pageLimit :
              /\ \A i \in 1..Len(listing) : Passes(i) <=> p < i
              /\ p + l <= Len(listing)
              /\ delivered' \in Seq(Row) /\ Len(delivered) \in Nat
              /\ Len(delivered') = Len(delivered) + l
              /\ \A i \in 1..Len(delivered) : delivered'[i] = delivered[i]
              /\ \A k \in 1..l : delivered'[Len(delivered) + k] = listing[p + k]
              /\ l = pageLimit => walking' = TRUE /\ cursor' = <<listing[p + l]>>
              /\ l # pageLimit => walking' = FALSE /\ p + l = Len(listing)
<1>1. Len(listing) \in Nat /\ pageLimit \in Nat \ {0} /\ delivered \in Seq(Row)
  BY TableRows DEF PagingTypeOK
<1>2. PICK p \in 0..Len(listing), l \in Nat :
         /\ NextPage \in Seq(Row) /\ Len(NextPage) = l
         /\ l = IF Len(listing) - p < pageLimit THEN Len(listing) - p ELSE pageLimit
         /\ p + l <= Len(listing)
         /\ \A k \in 1..l : NextPage[k] = listing[p + k]
         /\ \A i \in 1..Len(listing) : Passes(i) <=> p < i
  BY PageIsASlice
<1>3. l \in 0..pageLimit /\ (l # pageLimit => p + l = Len(listing))  BY <1>1, <1>2
<1> DEFINE d == delivered \o NextPage
<1>4. /\ d \in Seq(Row) /\ Len(d) = Len(delivered) + l
      /\ \A i \in 1..(Len(delivered) + l) :
            d[i] = IF i <= Len(delivered) THEN delivered[i] ELSE NextPage[i - Len(delivered)]
  <2>1. /\ d \in Seq(Row) /\ Len(d) = Len(delivered) + Len(NextPage)
        /\ \A i \in 1..(Len(delivered) + Len(NextPage)) :
              d[i] = IF i <= Len(delivered) THEN delivered[i] ELSE NextPage[i - Len(delivered)]
    BY <1>1, <1>2, ConcatProperties
  <2>2. Len(NextPage) = l  BY <1>2
  <2> HIDE DEF d
  <2> QED BY <2>1, <2>2
<1>5. delivered' = d  BY DEF nextPage
<1> HIDE DEF d
<1>6. Len(delivered) \in Nat  BY <1>1, LenProperties
<1>7. ASSUME NEW i \in 1..Len(delivered) PROVE d[i] = delivered[i]
  <2>1. i \in 1..(Len(delivered) + l) /\ i <= Len(delivered)  BY <1>2, <1>6
  <2> QED BY <2>1, <1>4
<1>8. ASSUME NEW k \in 1..l PROVE d[Len(delivered) + k] = listing[p + k]
  <2>1. /\ Len(delivered) + k \in 1..(Len(delivered) + l)
        /\ ~(Len(delivered) + k <= Len(delivered)) /\ (Len(delivered) + k) - Len(delivered) = k
    BY <1>2, <1>6
  <2> QED BY <2>1, <1>2, <1>4
<1>9. ASSUME l = pageLimit PROVE walking' = TRUE /\ cursor' = <<listing[p + l]>>
  <2>1. l \in 1..l  BY <1>1, <1>9
  <2>2. cursor' = <<Last(NextPage)>> /\ walking' = TRUE  BY <1>2, <1>9 DEF nextPage
  <2>3. Last(NextPage) = listing[p + l]  BY <2>1, <1>2 DEF Last
  <2> QED BY <2>2, <2>3
<1>10. l # pageLimit => walking' = FALSE  BY <1>2 DEF nextPage
<1> QED BY <1>2, <1>3, <1>4, <1>5, <1>6, <1>7, <1>8, <1>9, <1>10

\* The rows of a table are all different.
LEMMA RowsDiffer ==
    ASSUME SortedTable, NEW i \in 1..Len(listing), NEW j \in 1..Len(listing), i # j
    PROVE  listing[i] # listing[j]
<1>1. i \in Nat /\ j \in Nat  BY TableRows
<1>2. i < j \/ j < i  BY <1>1
<1> QED BY <1>2 DEF SortedTable

\* A page covers the rows that it holds and loses none that was covered.
LEMMA PageCovers ==
    ASSUME PagingTypeOK, SortedTable, NEW m \in 0..Len(listing),
           cursor = IF m = 0 THEN <<>> ELSE <<listing[m]>>, Covers(m),
           pager' = pager, listing' = listing,
           NEW p \in 0..Len(listing), NEW l \in 0..pageLimit,
           \A i \in 1..Len(listing) : Passes(i) <=> p < i,
           p + l <= Len(listing), Len(delivered) \in Nat,
           Len(delivered') = Len(delivered) + l,
           \A i \in 1..Len(delivered) : delivered'[i] = delivered[i],
           \A k \in 1..l : delivered'[Len(delivered) + k] = listing[p + k]
    PROVE  Covers(p + l)'
<1> DEFINE N == Len(delivered)
<1>1. Len(listing) \in Nat /\ pageLimit \in Nat /\ m \in Nat /\ p \in Nat /\ l \in Nat /\ N \in Nat
  BY TableRows DEF PagingTypeOK
<1>2. \A i \in 1..N : i \in 1..(N + l) /\ delivered'[i] = delivered[i]  BY <1>1
<1>3. ASSUME NEW j \in 1..(p + l), p < j
      PROVE  N + (j - p) \in 1..(N + l) /\ delivered'[N + (j - p)] = listing[j]
  <2>1. j - p \in 1..l /\ p + (j - p) = j /\ N + (j - p) \in 1..(N + l)  BY <1>1, <1>3
  <2> QED BY <2>1
<1>4. ASSUME NEW i \in 1..(N + l), N < i
      PROVE  p + (i - N) \in 1..(p + l) /\ p < p + (i - N) /\ delivered'[i] = listing[p + (i - N)]
  <2>1. /\ i - N \in 1..l /\ N + (i - N) = i /\ p + (i - N) \in 1..(p + l) /\ p < p + (i - N)
    BY <1>1, <1>4
  <2> QED BY <2>1
<1>5. ASSUME pager = "composite"
      PROVE  Len(delivered') = p + l /\ \A i \in 1..(p + l) : delivered'[i] = listing[i]
  <2>1. p = m  BY <1>5, WhereThePageStarts
  <2>2. N = m /\ \A i \in 1..m : delivered[i] = listing[i]  BY <1>5 DEF Covers
  <2>3. ASSUME NEW i \in 1..(p + l) PROVE delivered'[i] = listing[i]
    <3>1. CASE i <= N  BY <3>1, <2>1, <2>2, <1>1, <1>2
    <3>2. CASE N < i
      <4>1. i \in 1..(N + l) /\ p + (i - N) = i  BY <2>1, <2>2, <1>1
      <4> QED BY <3>2, <4>1, <1>4
    <3> QED BY <3>1, <3>2, <1>1
  <2> QED BY <2>1, <2>2, <2>3
<1>6. ASSUME pager = "page"
      PROVE  /\ \A i, j \in 1..Len(delivered') : i # j => delivered'[i] # delivered'[j]
             /\ \A i \in 1..Len(delivered') : \E j \in 1..(p + l) : delivered'[i] = listing[j]
             /\ \A j \in 1..(p + l) : \E i \in 1..Len(delivered') :
                   delivered'[i].created_at = listing[j].created_at
  <2>1. /\ m <= p
        /\ \A i \in 1..Len(listing) : m < i /\ i <= p =>
              0 < m /\ listing[i].created_at = listing[m].created_at
    BY <1>6, WhereThePageStarts
  <2>2. /\ \A i, j \in 1..N : i # j => delivered[i] # delivered[j]
        /\ \A i \in 1..N : \E j \in 1..m : delivered[i] = listing[j]
        /\ \A j \in 1..m : \E i \in 1..N : delivered[i].created_at = listing[j].created_at
    BY <1>6 DEF Covers
  <2>3. ASSUME NEW i \in 1..(N + l)
        PROVE  \E j \in 1..(p + l) : delivered'[i] = listing[j] /\ (i <= N => j <= m)
                                       /\ (N < i => j = p + (i - N))
    <3>1. CASE i <= N
      <4>1. i \in 1..N  BY <3>1, <1>1
      <4>2. PICK j \in 1..m : delivered[i] = listing[j]  BY <2>2, <4>1
      <4>3. j \in 1..(p + l) /\ j <= m  BY <2>1, <1>1
      <4> QED BY <3>1, <4>1, <4>2, <4>3, <1>1, <1>2
    <3>2. CASE N < i  BY <3>2, <1>1, <1>4
    <3>3. i <= N \/ N < i  BY ONLY <1>1, i \in 1..(N + l)
    <3> QED BY <3>1, <3>2, <3>3
  <2>4. ASSUME NEW i \in 1..(N + l), NEW j \in 1..(N + l), i < j
        PROVE  delivered'[i] # delivered'[j]
    <3>1. CASE j <= N
      <4>1. i \in 1..N /\ j \in 1..N /\ i # j  BY <3>1, <2>4, <1>1
      <4> QED BY <4>1, <2>2, <1>2
    <3>2. CASE N < j
      <4>1. PICK a \in 1..(p + l) : delivered'[i] = listing[a] /\ (i <= N => a <= m)
                                       /\ (N < i => a = p + (i - N))
        BY <2>3
      <4>2. PICK b \in 1..(p + l) : delivered'[j] = listing[b] /\ b = p + (j - N)
        BY <2>3, <3>2
      <4>3. a # b
        <5>1. CASE i <= N
          <6>1. a <= m /\ m <= p  BY <4>1, <5>1, <2>1
          <6> QED BY <6>1, <4>2, <3>2, <1>1
        <5>2. CASE N < i
          <6>1. a = p + (i - N)  BY <4>1, <5>2
          <6>2. p \in Nat /\ N \in Nat /\ i \in Nat /\ j \in Nat /\ i < j /\ b = p + (j - N)
            BY <4>2, <2>4, <1>1
          <6> QED BY ONLY <6>1, <6>2
        <5> QED BY <5>1, <5>2, <1>1
      <4>4. a \in 1..Len(listing) /\ b \in 1..Len(listing)  BY <1>1
      <4> QED BY <4>1, <4>2, <4>3, <4>4, RowsDiffer
    <3> QED BY <3>1, <3>2, <1>1
  <2>5. \A i, j \in 1..(N + l) : i # j => delivered'[i] # delivered'[j]
    <3>1. \A i, j \in 1..(N + l) : i # j => i < j \/ j < i  BY <1>1
    <3> QED BY <2>4, <3>1
  <2>6. ASSUME NEW j \in 1..(p + l)
        PROVE  \E i \in 1..(N + l) : delivered'[i].created_at = listing[j].created_at
    <3>1. CASE p < j  BY <3>1, <1>3
    <3>2. CASE j <= p
      <4>1. \E b \in 1..m : listing[b].created_at = listing[j].created_at
        <5>1. CASE j <= m
          <6>1. j \in 1..m  BY <5>1, <1>1
          <6> QED BY <6>1
        <5>2. CASE m < j
          <6>1. j \in 1..Len(listing)  BY <1>1
          <6>2. 0 < m /\ listing[j].created_at = listing[m].created_at
            BY <2>1, <3>2, <5>2, <6>1
          <6>3. m \in 1..m  BY <1>1, <6>2
          <6> QED BY <6>2, <6>3
        <5> QED BY <5>1, <5>2, <1>1
      <4>2. PICK b \in 1..m : listing[b].created_at = listing[j].created_at  BY <4>1
      <4>3. PICK i \in 1..N : delivered[i].created_at = listing[b].created_at  BY <2>2
      <4> QED BY <4>2, <4>3, <1>2
    <3> QED BY <3>1, <3>2, <1>1
  <2>7. \A i \in 1..(N + l) : \E j \in 1..(p + l) : delivered'[i] = listing[j]  BY <2>3
  <2> QED BY <2>5, <2>6, <2>7
<1>7. ASSUME pager = "inclusive", NEW j \in 1..(p + l)
      PROVE  \E i \in 1..Len(delivered') : delivered'[i] = listing[j]
  <2>1. p <= m  BY <1>7, WhereThePageStarts
  <2>2. CASE p < j  BY <2>2, <1>3
  <2>3. CASE j <= p
    <3>1. j \in 1..m  BY <2>1, <2>3, <1>1
    <3>2. PICK i \in 1..N : delivered[i] = listing[j]  BY <3>1, <1>7 DEF Covers
    <3> QED BY <3>2, <1>2
  <2> QED BY <2>2, <2>3, <1>1
<1> QED BY <1>5, <1>6, <1>7 DEF Covers

\* A sequence without a repetition has as many elements as it is long.
LEMMA NoRepetition ==
    ASSUME NEW S, NEW s \in Seq(S), \A i, j \in 1..Len(s) : i # j => s[i] # s[j]
    PROVE  Cardinality({s[i] : i \in DOMAIN s}) = Len(s)
<1>1. Len(s) \in Nat /\ DOMAIN s = 1..Len(s)  BY LenProperties
<1> DEFINE D == 1..Len(s)  T == {s[i] : i \in D}  f == [i \in D |-> s[i]]
<1>2. f \in Bijection(D, T)
  <2>1. f \in [D -> T] /\ \A t \in T : \E i \in D : f[i] = t  OBVIOUS
  <2>2. \A i, j \in D : f[i] = f[j] => i = j  OBVIOUS
  <2> QED BY <2>1, <2>2 DEF Bijection, Injection, IsInjective, Surjection
<1>3. ExistsBijection(D, T)  BY <1>2 DEF ExistsBijection
<1>4. IsFiniteSet(D) /\ Cardinality(D) = Len(s)
  <2>1. 1 \in Int /\ Len(s) \in Int  BY <1>1
  <2>2. IsFiniteSet(1..Len(s)) /\ Cardinality(1..Len(s)) = IF 1 > Len(s) THEN 0 ELSE Len(s) - 1 + 1
    BY <2>1, FS_Interval
  <2> QED BY <1>1, <2>2
<1>5. Cardinality(T) = Len(s)
  <2> HIDE DEF D, T, f
  <2> QED BY <1>3, <1>4, FS_Bijection
<1> QED BY <1>1, <1>5

\* The first m rows.
LEMMA FirstRows ==
    ASSUME NEW s \in Seq(Row), NEW m \in 0..Len(s)
    PROVE  /\ SubSeq(s, 1, m) \in Seq(Row) /\ Len(SubSeq(s, 1, m)) = m
           /\ \A i \in 1..m : SubSeq(s, 1, m)[i] = s[i]
<1>1. Len(s) \in Nat /\ m \in Nat /\ \A i \in 1..Len(s) : s[i] \in Row
  BY LenProperties, ElementOfSeq
<1>2. 1 \in Int /\ m \in Int /\ \A i \in 1..m : s[i] \in Row  BY <1>1
<1> DEFINE d == SubSeq(s, 1, m)
<1>3. /\ d \in Seq(Row) /\ Len(d) = IF 1 <= m THEN m - 1 + 1 ELSE 0
      /\ \A i \in 1..(m - 1 + 1) : d[i] = s[1 + i - 1]
  BY ONLY <1>2, SubSeqProperties
<1> HIDE DEF d
<1>4. Len(d) = m  BY <1>1, <1>3
<1>5. \A i \in 1..m : i \in 1..(m - 1 + 1) /\ 1 + i - 1 = i  BY <1>1
<1>6. \A i \in 1..m : d[i] = s[i]  BY <1>3, <1>5
<1> QED BY <1>3, <1>4, <1>6 DEF d

\* The walk takes one page more than the rows fill, at most.
FewPages == pager # "inclusive" => pageLimit * (pages - 1) <= Len(listing)

\* What is covered is what WalkIsComplete asks for.
LEMMA CoveredIsComplete ==
    ASSUME PagingTypeOK, SortedTable, NEW m \in 0..Len(listing), Covers(m),
           ~walking => m = Len(listing), FewPages
    PROVE  WalkIsComplete
<1> DEFINE shown == {delivered[i] : i \in DOMAIN delivered}
           missing == {listing[i] : i \in DOMAIN listing} \ shown
<1>1. /\ Len(listing) \in Nat /\ DOMAIN listing = 1..Len(listing)
      /\ Len(delivered) \in Nat /\ DOMAIN delivered = 1..Len(delivered)
      /\ listing \in Seq(Row) /\ delivered \in Seq(Row)
  BY TableRows, LenProperties DEF PagingTypeOK, SortedTable
<1>2. \A i \in 1..Len(delivered) : delivered[i] \in shown  BY <1>1
<1>3. \A row \in missing : \E j \in 1..Len(listing) : row = listing[j] /\ row \notin shown  BY <1>1
<1>4. ASSUME pager = "composite"
      PROVE  IsPrefix(delivered, listing) /\ (~walking => delivered = listing)
  <2>1. Len(delivered) = m /\ \A i \in 1..m : delivered[i] = listing[i]  BY <1>4 DEF Covers
  <2>2. Len(delivered) <= Len(listing)  BY <2>1, <1>1
  <2>3. SubSeq(delivered, 1, Len(delivered)) = SubSeq(listing, 1, Len(delivered))
    <3> DEFINE d == SubSeq(delivered, 1, m)  e == SubSeq(listing, 1, m)
    <3>1. m \in 0..Len(listing) /\ m \in 0..Len(delivered)  BY <1>1, <2>1
    <3>2. d \in Seq(Row) /\ Len(d) = m /\ \A i \in 1..m : d[i] = delivered[i]
      BY <1>1, <3>1, FirstRows
    <3>3. e \in Seq(Row) /\ Len(e) = m /\ \A i \in 1..m : e[i] = listing[i]
      BY <1>1, <3>1, FirstRows
    <3> HIDE DEF d, e
    <3>4. \A i \in 1..m : d[i] = e[i]  BY <3>2, <3>3, <2>1
    <3>5. d = e  BY <3>2, <3>3, <3>4, SeqEqual
    <3> QED BY <3>5, <2>1 DEF d, e
  <2>4. ASSUME ~walking PROVE delivered = listing
    <3>1. m = Len(listing)  BY <2>4
    <3> QED BY <2>1, <3>1, <1>1, SeqEqual
  <2> QED BY <2>2, <2>3, <2>4 DEF IsPrefix
<1>5. ASSUME pager = "page"
      PROVE  /\ Cardinality(shown) = Len(delivered)
             /\ ~walking => \A row \in missing : \E s \in shown : s.created_at = row.created_at
  <2>1. /\ \A i, j \in 1..Len(delivered) : i # j => delivered[i] # delivered[j]
        /\ \A j \in 1..m : \E i \in 1..Len(delivered) :
              delivered[i].created_at = listing[j].created_at
    BY <1>5 DEF Covers
  <2>2. Cardinality(shown) = Len(delivered)  BY <1>1, <2>1, NoRepetition
  <2>3. ASSUME ~walking, NEW row \in missing
        PROVE  \E s \in shown : s.created_at = row.created_at
    <3>1. PICK j \in 1..Len(listing) : row = listing[j]  BY <1>3, <2>3
    <3>2. PICK i \in 1..Len(delivered) : delivered[i].created_at = listing[j].created_at
      BY <2>1, <2>3
    <3> QED BY <3>1, <3>2, <1>2
  <2> QED BY <2>2, <2>3
<1>6. ASSUME pager = "inclusive", ~walking PROVE missing = {}
  <2>1. \A j \in 1..Len(listing) : \E i \in 1..Len(delivered) : delivered[i] = listing[j]
    BY <1>6 DEF Covers
  <2>2. \A j \in 1..Len(listing) : listing[j] \in shown
    <3> SUFFICES ASSUME NEW j \in 1..Len(listing) PROVE listing[j] \in shown  OBVIOUS
    <3>1. PICK i \in 1..Len(delivered) : delivered[i] = listing[j]  BY <2>1
    <3> QED BY <3>1, <1>2
  <2> HIDE DEF shown
  <2> QED BY <2>2, <1>1
<1> QED BY <1>4, <1>5, <1>6 DEF WalkIsComplete, FewPages

\* A page was fetched, and it advances the walk by itself or ends it.
LEMMA PageKeepsWalk ==
    ASSUME PagingInv, nextPage
    PROVE  PagingInv'
<1>1. PagingTypeOK /\ SortedTable /\ walking /\ UNCHANGED <<pager, listing, pageLimit>>
  BY DEF PagingInv, nextPage
<1>2. PICK m \in 0..Len(listing) : WalkIsAt(m)  BY <1>1 DEF PagingInv
<1>3. cursor = (IF m = 0 THEN <<>> ELSE <<listing[m]>>) /\ Covers(m)  BY <1>2 DEF WalkIsAt
<1>4. PICK p \in 0..Len(listing), l \in 0..pageLimit :
         /\ \A i \in 1..Len(listing) : Passes(i) <=> p < i
         /\ p + l <= Len(listing)
         /\ delivered' \in Seq(Row) /\ Len(delivered) \in Nat
         /\ Len(delivered') = Len(delivered) + l
         /\ \A i \in 1..Len(delivered) : delivered'[i] = delivered[i]
         /\ \A k \in 1..l : delivered'[Len(delivered) + k] = listing[p + k]
         /\ l = pageLimit => walking' = TRUE /\ cursor' = <<listing[p + l]>>
         /\ l # pageLimit => walking' = FALSE /\ p + l = Len(listing)
  BY <1>1, <1>3, PageIsDelivered
<1>5. Covers(p + l)'  BY <1>1, <1>3, <1>4, PageCovers
<1>6. /\ Len(listing) \in Nat /\ pageLimit \in Nat \ {0} /\ pages \in Nat
      /\ m \in Nat /\ p \in Nat /\ l \in Nat
  BY <1>1, TableRows DEF PagingTypeOK
<1>7. pages' = pages + 1  BY DEF nextPage
<1>8. PagingTypeOK'
  <2>1. walking' \in BOOLEAN  BY DEF nextPage
  <2>2. pages' \in Nat  BY <1>6, <1>7
  <2>3. pager' \in {"page", "inclusive", "composite"} /\ pageLimit' \in Nat \ {0}
    BY <1>1 DEF PagingTypeOK
  <2> QED BY <1>4, <2>1, <2>2, <2>3 DEF PagingTypeOK
<1>9. SortedTable'  BY <1>1 DEF SortedTable, InOrder
<1>10. p + l \in 0..Len(listing')  BY <1>1, <1>4, <1>6
<1>11. pager # "inclusive" => pageLimit * pages <= p
  <2>1. pager # "inclusive" => pageLimit * pages <= m  BY <1>2 DEF WalkIsAt
  <2>2. pager # "inclusive" => m <= p
    <3>1. /\ pager = "composite" => p = m
          /\ pager = "page" => m <= p
      BY <1>1, <1>3, <1>4, WhereThePageStarts
    <3>2. pager # "inclusive" => pager = "composite" \/ pager = "page"  BY <1>1 DEF PagingTypeOK
    <3>3. p = m => m <= p  BY <1>6
    <3> QED BY <3>1, <3>2, <3>3
  <2>3. pageLimit * pages \in Int  BY <1>6
  <2>4. pageLimit * pages <= m /\ m <= p => pageLimit * pages <= p  BY <2>3, <1>6
  <2> QED BY <2>1, <2>2, <2>4
<1>12. ASSUME l = pageLimit PROVE WalkIsAt(p + l)'
  <2>1. p + l # 0 /\ cursor' = <<listing[p + l]>>  BY <1>4, <1>6, <1>12
  <2>2. pageLimit * (pages + 1) = pageLimit * pages + pageLimit /\ pageLimit * pages \in Int
    BY <1>6, OneMorePrice
  <2>3. pageLimit * pages <= p => pageLimit * (pages + 1) <= p + l  BY <2>2, <1>6, <1>12
  <2>4. (pager # "inclusive" => pageLimit * pages <= p + l)'  BY <1>1, <1>7, <1>11, <2>3
  <2>5. (cursor = IF p + l = 0 THEN <<>> ELSE <<listing[p + l]>>)'  BY <1>1, <2>1
  <2> QED BY <1>5, <2>4, <2>5 DEF WalkIsAt
<1>13. ASSUME l # pageLimit
       PROVE  /\ Covers(Len(listing))'
              /\ (pager # "inclusive" => pageLimit * (pages - 1) <= Len(listing))'
  <2>1. p + l = Len(listing)'  BY <1>1, <1>4, <1>13
  <2>2. pageLimit * pages <= p => pageLimit * ((pages + 1) - 1) <= Len(listing)
    <3>1. (pages + 1) - 1 = pages /\ pageLimit * pages \in Int /\ p <= Len(listing)  BY <1>6
    <3> QED BY <3>1, <1>6
  <2>3. (pager # "inclusive" => pageLimit * (pages - 1) <= Len(listing))'
    BY <1>1, <1>7, <1>11, <2>2
  <2>4. Covers(Len(listing))'  BY <1>5, <2>1 DEF Covers
  <2> QED BY <2>3, <2>4
<1>14. l = pageLimit => walking' = TRUE  BY <1>4
<1>15. l # pageLimit => walking' = FALSE  BY <1>4
<1> QED BY <1>8, <1>9, <1>10, <1>12, <1>13, <1>14, <1>15 DEF PagingInv

\* The walk starts before the first row of a sorted table.
LEMMA WalkStarts == PagingInit => PagingInv
<1> SUFFICES ASSUME PagingInit PROVE PagingInv  OBVIOUS
<1>1. listing \in Listings /\ pageLimit \in PageLimit /\ pages = 0 /\ walking = TRUE
      /\ cursor = <<>> /\ delivered = <<>> /\ pager \in {"page", "inclusive", "composite"}
  BY DEF PagingInit
<1>2. PICK n \in 0..Cardinality(Id) : listing \in [1..n -> Row]
  BY <1>1 DEF Listings, BoundedSeq, SeqOf
<1>3. Cardinality(Id) \in Nat  BY PagingAssumption, FS_CardinalityType
<1>4. listing \in Seq(Row) /\ DOMAIN listing = 1..Len(listing) /\ Len(listing) \in Nat
  <2>1. n \in Nat  BY <1>2, <1>3
  <2>2. listing \in Seq(Row)  BY <1>2, <2>1, IsASeq
  <2> QED BY <2>2, LenProperties
<1>5. SortedTable  BY <1>1, <1>4 DEF SortedTable, Listings
<1>6. pageLimit \in Nat \ {0}  BY <1>1, PagingAssumption
<1>7. delivered \in Seq(Row) /\ Len(delivered) = 0  BY <1>1, EmptySeq
<1>8. PagingTypeOK  BY <1>1, <1>6, <1>7 DEF PagingTypeOK
<1>9. Covers(0)  BY <1>7 DEF Covers
<1>10. pageLimit * pages <= 0
  <2>1. pageLimit * 0 = 0  BY <1>6
  <2> QED BY <1>1, <2>1
<1>11. WalkIsAt(0)  BY <1>1, <1>9, <1>10 DEF WalkIsAt
<1>12. 0 \in 0..Len(listing)  BY <1>4
<1> QED BY <1>1, <1>5, <1>8, <1>11, <1>12 DEF PagingInv

\* A walk that goes on has delivered what it should, and one that has ended, all.
LEMMA WalkGivesTheRows == PagingInv => WalkIsComplete
<1> SUFFICES ASSUME PagingInv PROVE WalkIsComplete  OBVIOUS
<1>1. PagingTypeOK /\ SortedTable  BY DEF PagingInv
<1>2. Len(listing) \in Nat  BY <1>1, TableRows
<1>3. CASE walking
  <2>1. PICK m \in 0..Len(listing) : WalkIsAt(m)  BY <1>3 DEF PagingInv
  <2>2. pageLimit \in Nat \ {0} /\ pages \in Nat /\ m \in Nat /\ m <= Len(listing)
    BY <1>1, <1>2 DEF PagingTypeOK
  <2>3. pageLimit * pages <= m => pageLimit * (pages - 1) <= Len(listing)
    <3>1. pages - 1 \in Int /\ (pages - 1) + 1 = pages  BY <2>2
    <3>2. pageLimit * ((pages - 1) + 1) = pageLimit * (pages - 1) + pageLimit
      BY <2>2, <3>1, OneMorePrice
    <3>3. pageLimit * pages = pageLimit * (pages - 1) + pageLimit  BY <3>1, <3>2
    <3>4. pageLimit * (pages - 1) \in Int /\ pageLimit * pages \in Int  BY <2>2
    <3> QED BY <3>3, <3>4, <2>2, <1>2
  <2>4. Covers(m) /\ FewPages  BY <2>1, <2>3 DEF WalkIsAt, FewPages
  <2> QED BY <1>1, <1>3, <2>4, CoveredIsComplete
<1>4. CASE ~walking
  <2>1. Covers(Len(listing)) /\ FewPages  BY <1>4 DEF PagingInv, FewPages
  <2>2. Len(listing) \in 0..Len(listing)  BY <1>2
  <2> QED BY <1>1, <2>1, <2>2, CoveredIsComplete
<1> QED BY <1>3, <1>4

\* For every table, with its ties in any order, and every page size: a walk with
\* the composite cursor has delivered the rows so far in order and ends with all
\* of them; `<' repeats none and loses only rows that tie with a delivered one,
\* and neither fetches more than one page beyond the rows; `<=' loses none if it
\* ends.
THEOREM WalksAreComplete == PagingSpec => []WalkIsComplete
<1>1. PagingInit => PagingInv  BY WalkStarts
<1>2. PagingInv /\ [PagingNext]_pagingVars => PagingInv'
  <2> SUFFICES ASSUME PagingInv, [PagingNext]_pagingVars PROVE PagingInv'  OBVIOUS
  <2>1. CASE nextPage  BY <2>1, PageKeepsWalk
  <2>2. CASE UNCHANGED pagingVars
    BY <2>2 DEF pagingVars, PagingInv, PagingTypeOK, SortedTable, InOrder, WalkIsAt, Covers
  <2> QED BY <2>1, <2>2 DEF PagingNext
<1>3. PagingInv => WalkIsComplete  BY WalkGivesTheRows
<1> QED BY <1>1, <1>2, <1>3, PTL DEF PagingSpec

-----------------------------------------------------------------------------
(* PayLedger: payments1.py and its ledger, for any number of attempts *)

PayTypeOK ==
    /\ retryPolicy \in {"any", "safe-only"}
    /\ pay \in {"idle", "connecting", "calling", "answered"}
    /\ call \in {"none", "out", "mute", "200", "500"}
    /\ status \in {"none", "success", "safe", "ambiguous", "500"}
    /\ attempts \in Nat /\ late \in Nat /\ charges \in Nat /\ doubtful \in Nat

\* What may still become a charge.
Landing == charges + late + (IF call = "out" THEN 1 ELSE 0)

\* SafeMeansSafe is kept up by what holds while the loop runs: a client that
\* retries only what is safe has nothing doubtful behind it when it goes on.
PayInv ==
    /\ PayTypeOK
    /\ pay = "calling" <=> call # "none"
    /\ status # "none" => pay = "answered"
    /\ Landing <= doubtful + (IF pay = "calling" THEN 1 ELSE 0)
    /\ retryPolicy = "safe-only" =>
          /\ pay # "answered" => doubtful = 0
          /\ doubtful <= 1
          /\ status = "safe" => doubtful = 0
    /\ call = "200" \/ status = "success" => charges >= 1

\* The except branch keeps the invariant, provided that an error of a call that
\* was sent is not called safe.
LEMMA ExceptPreserves ==
    ASSUME PayInv, NEW e, Except(e), pay \in {"connecting", "calling"},
           pay = "calling" => classify(e) = "ambiguous",
           UNCHANGED <<retryPolicy, attempts, charges>>
    PROVE  PayInv'
<1>1. classify(e) \in {"safe", "ambiguous"}
  BY DEF classify
<1>2. PayTypeOK'
  BY <1>1 DEF PayInv, PayTypeOK, Except
<1>3. Landing' = Landing
  BY DEF PayInv, PayTypeOK, Except, Landing
<1>4. QED
  BY <1>1, <1>2, <1>3 DEF PayInv, PayTypeOK, Except, Landing

LEMMA PayInitially == PayInit => PayInv
BY PayLedgerAssumption DEF PayInit, PayInv, PayTypeOK, Landing

LEMMA PayInductive == PayInv /\ [PayNext]_payVars => PayInv'
<1> SUFFICES ASSUME PayInv, [PayNext]_payVars PROVE PayInv'
  OBVIOUS
<1>1. CASE beginAttempt
  BY <1>1 DEF beginAttempt, PayInv, PayTypeOK, Landing
<1>2. CASE \E e \in Unsent : connectFails(e)
  BY <1>2, ExceptPreserves DEF connectFails
<1>3. CASE send
  BY <1>3 DEF send, PayInv, PayTypeOK, Landing
<1>4. CASE charge
  BY <1>4 DEF charge, PayInv, PayTypeOK, Landing
<1>5. CASE chargeLate
  <2>0. /\ late \in Nat /\ charges \in Nat /\ late > 0 /\ late' = late - 1
        /\ charges' = charges \/ charges' = charges + 1
    BY <1>5 DEF chargeLate, PayInv, PayTypeOK
  <2>1. late' \in Nat /\ charges' \in Nat /\ charges' >= charges
        /\ charges' + late' <= charges + late
    BY <2>0
  <2>2. PayTypeOK'
    BY <1>5, <2>1 DEF chargeLate, PayInv, PayTypeOK
  <2>3. UNCHANGED <<call, pay, doubtful>>
    BY <1>5 DEF chargeLate
  <2>4. CASE charges' = charges
    BY <1>5, <2>0, <2>2, <2>3, <2>4 DEF PayInv, PayTypeOK, Landing, chargeLate
  <2>5. CASE charges' = charges + 1
    BY <1>5, <2>0, <2>2, <2>3, <2>5 DEF PayInv, PayTypeOK, Landing, chargeLate
  <2>6. QED
    BY <2>0, <2>4, <2>5
<1>6. CASE \E e \in Sent : callFails(e)
  <2>1. PICK e \in Sent : callFails(e)
    BY <1>6
  <2>2. classify(e) = "ambiguous"
    BY DEF Sent, Unsent, classify
  <2>3. QED
    BY <2>1, <2>2, ExceptPreserves DEF callFails
<1>7. CASE refused500
  <2>1. classify("HTTPStatusError") = "ambiguous"
    BY DEF Unsent, classify
  <2>2. QED
    BY <1>7, <2>1, ExceptPreserves DEF refused500
<1>8. CASE succeed
  <2>1. classify("OperationalError") = "ambiguous"
    BY DEF Unsent, classify
  <2>2. CASE Except("OperationalError")
    BY <1>8, <2>1, <2>2, ExceptPreserves DEF succeed
  <2>3. CASE pay' = "answered" /\ status' = "success" /\ call' = "none"
             /\ doubtful' = doubtful + 1 /\ UNCHANGED late
    BY <1>8, <2>3 DEF succeed, PayInv, PayTypeOK, Landing
  <2>4. QED
    BY <1>8, <2>2, <2>3 DEF succeed
<1>9. CASE UNCHANGED payVars
  BY <1>9 DEF payVars, PayInv, PayTypeOK, Landing
<1>10. QED
  BY <1>1, <1>2, <1>3, <1>4, <1>5, <1>6, <1>7, <1>8, <1>9 DEF PayNext

\* No payment is charged more often, now or later, than it had attempts that
\* payments1.py did not call safe; retrying only what is safe charges it once at
\* most, and an answer "safe" or "success" is true.
THEOREM SafeIsSafe == PaySpec => []SafeMeansSafe
<1>1. PayInv => SafeMeansSafe
  BY DEF PayInv, PayTypeOK, Landing, SafeMeansSafe
<1>2. QED
  BY <1>1, PayInitially, PayInductive, PTL DEF PaySpec

-----------------------------------------------------------------------------
(* FencingDemo: fencing_demo.py *)

DemoPc == {"loop", "acquire", "renew", "select", "send", "sent",
           "paused", "replay", "replayed", "stale", "done"}

DemoTypeOK ==
    /\ LeasesOK
    /\ pc \in [Worker -> DemoPc]
    /\ todo \in [Worker -> SUBSET Key]
    /\ rows \in [Worker -> {0, 1}]
    /\ paused \in BOOLEAN

\* No attempt on record carries an epoch that was not handed out.
AttemptsArePast == attempted <= lease.epoch

DemoInv == DemoTypeOK /\ EpochInv /\ AttemptsArePast

\* ORDER BY payout_key: the first key of a batch is one of it.
LEMMA FirstOfBatch ==
    ASSUME NEW S, S \subseteq Key, S # {}
    PROVE  Min(S) \in S
<1>1. S \subseteq Nat  BY DemoAssumption
<1>2. PICK x \in S : \A y \in S : ~(<<y, x>> \in OpToRel(<, Nat))
  BY <1>1, NatLessThanWellFounded, WFMin
<1>3. \A y \in S : ~(y < x)  BY <1>1, <1>2 DEF OpToRel
<1>4. \A y \in S : x <= y  BY <1>1, <1>3
<1> QED BY <1>4 DEF Min

\* The token of a worker is its epoch, or 0.
LEMMA TokenOfWorker ==
    ASSUME DemoInv, NEW w \in Worker
    PROVE  /\ Token(w) \in Nat /\ Token(w) <= lease.epoch
           /\ (Token(w) = epoch[w] /\ epoch[w] # None) \/ Token(w) = 0
<1>1. epoch[w] \in Nat \cup {None} /\ lease.epoch \in Nat  BY DEF DemoInv, DemoTypeOK, LeasesOK
<1>2. epoch[w] # None => epoch[w] <= lease.epoch  BY DEF DemoInv, EpochInv, BeliefsArePast
<1> QED BY <1>1, <1>2 DEF Token

\* Nobody has started.
LEMMA DemoStarts == DemoInit => DemoInv
<1> SUFFICES ASSUME DemoInit PROVE DemoInv  OBVIOUS
<1>1. LeasesOK /\ EpochInv  BY LeasesStart DEF DemoInit
<1>2. AttemptsArePast  BY DEF DemoInit, LeasesInit, NoLease, AttemptsArePast
<1>3. /\ pc \in [Worker -> DemoPc] /\ todo \in [Worker -> SUBSET Key]
      /\ rows \in [Worker -> {0, 1}] /\ paused \in BOOLEAN
  BY DEF DemoInit, DemoPc
<1> QED BY <1>1, <1>2, <1>3 DEF DemoInv, DemoTypeOK

\* The steps that leave the tables and the epochs alone.
LEMMA LocalKeepsDemo ==
    ASSUME DemoInv, UNCHANGED <<tables, epoch>>,
           pc' \in [Worker -> DemoPc], todo' \in [Worker -> SUBSET Key],
           rows' \in [Worker -> {0, 1}], paused' \in BOOLEAN
    PROVE  DemoInv'
<1>1. LeasesOK'  BY DEF DemoInv, DemoTypeOK, LeasesOK, tables
<1>2. EpochInv'
  BY EpochFrame DEF DemoInv, DemoTypeOK, tables
<1>3. AttemptsArePast'  BY DEF DemoInv, AttemptsArePast, tables
<1> QED BY <1>1, <1>2, <1>3 DEF DemoInv, DemoTypeOK

\* The lease statements: acquire, renew, and the TTL.
LEMMA LeaseKeepsDemo ==
    ASSUME DemoInv, NEW w \in Worker, tryAcquire(w) \/ renew(w) \/ expire
    PROVE  DemoInv'
<1>1. /\ LeasesOK /\ EpochInv /\ attempted \in Nat /\ lease \in LeaseType
      /\ payouts \in [Key -> PayoutType] /\ epoch \in [Worker -> Nat \cup {None}]
      /\ pc \in [Worker -> DemoPc] /\ todo \in [Worker -> SUBSET Key]
      /\ rows \in [Worker -> {0, 1}] /\ paused \in BOOLEAN /\ attempted <= lease.epoch
  BY DEF DemoInv, DemoTypeOK, LeasesOK, LeaseType, PayoutType, AttemptsArePast
<1>2. UNCHANGED <<payouts, attempted, todo, rows, paused>>
  BY DEF tryAcquire, renew, expire, Expire
<1>3. /\ pc' \in [Worker -> DemoPc] /\ lease' \in LeaseType
      /\ epoch' \in [Worker -> Nat \cup {None}] /\ lease.epoch <= lease'.epoch
      /\ EpochInv'
  <2>1. CASE tryAcquire(w)
    <3>1. pc' \in [Worker -> DemoPc]  BY <1>1, <2>1 DEF tryAcquire, Goto, DemoPc
    <3>2. acquire(w) /\ epoch' = [epoch EXCEPT ![w] = IF lease.expired THEN lease'.epoch ELSE None]
      BY <2>1 DEF tryAcquire
    <3>3. lease' \in LeaseType  BY <1>1, <3>2, AcquireType
    <3>4. lease.epoch <= lease'.epoch /\ lease'.epoch \in Nat
      <4>1. lease.epoch \in Nat /\ lease'.epoch \in Nat  BY <1>1, <3>3 DEF LeaseType
      <4>2. lease'.epoch = lease.epoch + 1 \/ lease'.epoch = lease.epoch
        BY <3>2 DEF acquire, Acquired
      <4> QED BY <4>1, <4>2
    <3>5. epoch' \in [Worker -> Nat \cup {None}]  BY <1>1, <3>2, <3>4
    <3>6. EpochInv'
      <4>1. \/ lease.expired /\ epoch' = [epoch EXCEPT ![w] = lease'.epoch]
            \/ ~lease.expired /\ epoch' = [epoch EXCEPT ![w] = None]
        BY <3>2
      <4> QED BY <1>1, <1>2, <3>2, <4>1, EpochAcquire
    <3> QED BY <3>1, <3>3, <3>4, <3>5, <3>6
  <2>2. CASE renew(w)
    <3>1. pc' \in [Worker -> DemoPc]  BY <1>1, <2>2 DEF renew, Goto, DemoPc
    <3>2. epoch' = [epoch EXCEPT ![w] = IF Renewable(w) THEN @ ELSE None]  BY <2>2 DEF renew
    <3>3. epoch' \in [Worker -> Nat \cup {None}]  BY <1>1, <3>2
    <3>4. \A v \in Worker : epoch'[v] = epoch[v] \/ epoch'[v] = None  BY <1>1, <3>2
    <3>5. /\ lease' \in LeaseType /\ lease'.holder = lease.holder /\ lease'.epoch = lease.epoch
      BY <1>1, <2>2 DEF renew, LeaseType
    <3>6. lease.epoch <= lease'.epoch  BY <1>1, <3>5 DEF LeaseType
    <3>7. EpochInv'  BY <1>1, <1>2, <3>4, <3>5, EpochFrame
    <3> QED BY <3>1, <3>3, <3>5, <3>6, <3>7
  <2>3. CASE expire
    <3>1. epoch' = epoch /\ pc' = pc  BY <2>3 DEF expire
    <3>2. /\ lease' \in LeaseType /\ lease'.holder = lease.holder /\ lease'.epoch = lease.epoch
      BY <1>1, <2>3 DEF expire, Expire, LeaseType
    <3>3. lease.epoch <= lease'.epoch  BY <1>1, <3>2 DEF LeaseType
    <3>4. EpochInv'  BY <1>1, <1>2, <3>1, <3>2, EpochFrame
    <3> QED BY <1>1, <3>1, <3>2, <3>3, <3>4
  <2> QED BY <2>1, <2>2, <2>3
<1>4. LeasesOK'  BY <1>1, <1>2, <1>3 DEF LeasesOK, LeaseType, PayoutType
<1>5. AttemptsArePast'
  <2>1. lease.epoch \in Nat /\ lease'.epoch \in Nat  BY <1>1, <1>3 DEF LeaseType
  <2> QED BY <1>1, <1>2, <1>3, <2>1 DEF AttemptsArePast
<1> QED BY <1>1, <1>2, <1>3, <1>4, <1>5 DEF DemoInv, DemoTypeOK

\* The payout UPDATE, of the steady loop and of the replay.
LEMMA UpdateKeepsDemo ==
    ASSUME DemoInv, NEW w \in Worker, NEW from, NEW to \in {"sent", "replayed"},
           update(w, from, to)
    PROVE  DemoInv'
<1> DEFINE k == Min(todo[w])
<1>1. /\ LeasesOK /\ EpochInv /\ todo \in [Worker -> SUBSET Key]
      /\ payouts \in [Key -> PayoutType] /\ pc \in [Worker -> DemoPc]
      /\ rows \in [Worker -> {0, 1}] /\ paused \in BOOLEAN
  BY DEF DemoInv, DemoTypeOK, LeasesOK, PayoutType
<1>2. UNCHANGED <<lease, attempted, epoch, paused>>  BY DEF update
<1>3. k \in Key
  <2>1. todo[w] # {} /\ todo[w] \subseteq Key  BY <1>1 DEF update
  <2>2. Min(todo[w]) \in todo[w]  BY <2>1, FirstOfBatch
  <2> QED BY <2>1, <2>2
<1>4. \/ Pay(w, k, Token(w))
      \/ payouts' = payouts
  BY DEF update
<1>5. /\ todo' = [todo EXCEPT ![w] = @ \ {k}] /\ pc' = [pc EXCEPT ![w] = to]
      /\ rows' = [rows EXCEPT ![w] = IF Accepts(k, Token(w)) THEN 1 ELSE 0]
  BY DEF update, Goto
<1> HIDE DEF k
<1>6. /\ todo' \in [Worker -> SUBSET Key] /\ pc' \in [Worker -> DemoPc]
      /\ rows' \in [Worker -> {0, 1}]
  BY <1>1, <1>5 DEF DemoPc
<1>7. payouts' \in [Key -> PayoutType] /\ EpochInv'
  <2>1. /\ Token(w) \in Nat
        /\ (Token(w) = epoch[w] /\ epoch[w] # None) \/ Token(w) = 0
    BY TokenOfWorker
  <2>2. CASE Pay(w, k, Token(w))
    <3> DEFINE e == Token(w)
    <3>1. e \in Nat /\ ((e = epoch[w] /\ epoch[w] # None) \/ e = 0) /\ Pay(w, k, e)
      BY <2>1, <2>2
    <3> HIDE DEF e
    <3>2. EpochInv'  BY <1>1, <1>2, <1>3, <3>1, EpochPaid
    <3>3. payouts' \in [Key -> PayoutType]  BY <1>1, <1>3, <3>1 DEF Pay, PayoutType
    <3> QED BY <3>2, <3>3
  <2>3. CASE payouts' = payouts  BY <1>1, <1>2, <2>3, EpochFrame
  <2> QED BY <1>4, <2>2, <2>3
<1>8. LeasesOK'  BY <1>1, <1>2, <1>7 DEF LeasesOK, PayoutType
<1>9. AttemptsArePast'  BY <1>2 DEF DemoInv, AttemptsArePast
<1> QED BY <1>1, <1>2, <1>6, <1>7, <1>8, <1>9 DEF DemoInv, DemoTypeOK

\* The INSERT of the attempt.
LEMMA RecordKeepsDemo ==
    ASSUME DemoInv, NEW w \in Worker, recordSent(w) \/ (w = Pauser /\ recordReplayed)
    PROVE  DemoInv'
<1>1. UNCHANGED <<lease, payouts, epoch, todo, rows, paused>> /\ Record(Token(w))
  BY DEF recordSent, recordReplayed
<1>2. pc' \in [Worker -> DemoPc]
  BY DEF recordSent, recordReplayed, Goto, DemoInv, DemoTypeOK, DemoPc
<1>3. Token(w) \in Nat /\ Token(w) <= lease.epoch  BY TokenOfWorker
<1>4. attempted \in Nat /\ attempted <= lease.epoch
  BY DEF DemoInv, DemoTypeOK, LeasesOK, AttemptsArePast
<1>5. attempted' \in Nat /\ attempted' <= lease.epoch  BY <1>1, <1>3, <1>4 DEF Record
<1>6. LeasesOK'  BY <1>1, <1>5 DEF LeasesOK, DemoInv, DemoTypeOK
<1>7. EpochInv'  BY <1>1, EpochFrame DEF DemoInv, DemoTypeOK
<1>8. AttemptsArePast'  BY <1>1, <1>5 DEF AttemptsArePast
<1> QED BY <1>1, <1>2, <1>6, <1>7, <1>8 DEF DemoInv, DemoTypeOK

\* Every step of the two threads keeps the invariant.
LEMMA DemoStep == DemoInv /\ [DemoNext]_demoVars => DemoInv'
<1> SUFFICES ASSUME DemoInv, [DemoNext]_demoVars PROVE DemoInv'  OBVIOUS
<1>1. /\ pc \in [Worker -> DemoPc] /\ todo \in [Worker -> SUBSET Key]
      /\ rows \in [Worker -> {0, 1}] /\ paused \in BOOLEAN /\ Pauser \in Worker
  BY DemoAssumption DEF DemoInv, DemoTypeOK
<1>2. ASSUME NEW w \in Worker, tryAcquire(w) \/ renew(w) PROVE DemoInv'
  BY <1>2, LeaseKeepsDemo
<1>3. CASE expire  BY <1>1, <1>3, LeaseKeepsDemo
<1>4. ASSUME NEW w \in Worker, update(w, "send", "sent") PROVE DemoInv'
  BY <1>4, UpdateKeepsDemo
<1>5. CASE update(Pauser, "replay", "replayed")  BY <1>1, <1>5, UpdateKeepsDemo
<1>6. ASSUME NEW w \in Worker, recordSent(w) PROVE DemoInv'  BY <1>6, RecordKeepsDemo
<1>7. CASE recordReplayed  BY <1>1, <1>7, RecordKeepsDemo
<1>8. ASSUME NEW w \in Worker, loop(w) \/ sleep(w) \/ die(w) PROVE DemoInv'
  <2>1. UNCHANGED <<tables, epoch>> /\ UNCHANGED <<todo, rows, paused>>
    BY <1>8 DEF loop, sleep, die
  <2>2. pc' \in [Worker -> DemoPc]  BY <1>1, <1>8 DEF loop, sleep, die, Goto, DemoPc
  <2> QED BY <1>1, <2>1, <2>2, LocalKeepsDemo
<1>9. ASSUME NEW w \in Worker, select(w) PROVE DemoInv'
  <2>1. UNCHANGED <<tables, epoch>> /\ UNCHANGED <<rows, paused>>  BY <1>9 DEF select
  <2>2. pc' \in [Worker -> DemoPc]  BY <1>1, <1>9 DEF select, Goto, DemoPc
  <2>3. todo' \in [Worker -> SUBSET Key]  BY <1>1, <1>9 DEF select
  <2> QED BY <1>1, <2>1, <2>2, <2>3, LocalKeepsDemo
<1>10. CASE pause \/ resume
  <2>1. UNCHANGED <<tables, epoch>> /\ UNCHANGED rows  BY <1>10 DEF pause, resume
  <2>2. pc' \in [Worker -> DemoPc]  BY <1>1, <1>10 DEF pause, resume, Goto, DemoPc
  <2>3. todo' \in [Worker -> SUBSET Key]  BY <1>1, <1>10 DEF pause, resume
  <2>4. paused' \in BOOLEAN  BY <1>1, <1>10 DEF pause, resume
  <2> QED BY <1>1, <2>1, <2>2, <2>3, <2>4, LocalKeepsDemo
<1>11. CASE UNCHANGED demoVars
  <2>1. UNCHANGED <<tables, epoch>> /\ UNCHANGED <<pc, todo, rows, paused>>
    BY <1>11 DEF demoVars, tables
  <2> QED BY <1>1, <2>1, LocalKeepsDemo
<1> QED BY <1>2, <1>3, <1>4, <1>5, <1>6, <1>7, <1>8, <1>9, <1>10, <1>11 DEF DemoNext

\* In the demo, fenced or not, and however long a thread stops: no two threads
\* believe in one epoch, a payout that carries a token names the thread that held
\* that epoch, and every token on a payout or an attempt was handed out.
THEOREM DemoEpochs == DemoSpec => [](LeasesOK /\ EpochInv /\ AttemptsArePast)
<1>1. DemoInv => LeasesOK /\ EpochInv /\ AttemptsArePast  BY DEF DemoInv, DemoTypeOK
<1> QED BY <1>1, DemoStarts, DemoStep, PTL DEF DemoSpec

\* Who is refused has lost its epoch, or something has been paid under it.
Outrun(w) == lease.epoch > epoch[w] \/ \E k \in Key : payouts[k].fence = epoch[w]

RefusedAreOutrun == \A w \in Worker : Refused(w) => Outrun(w)

\* Who is outrun stays outrun while it keeps its epoch: a payout of that epoch is
\* paid again only under a newer one, and that is an epoch of the lease row.
LEMMA OutrunLasts ==
    ASSUME FENCING, DemoInv, NEW w \in Worker, Outrun(w), epoch[w] # None,
           epoch'[w] = epoch[w], lease'.epoch \in Nat, lease.epoch <= lease'.epoch,
           \/ payouts' = payouts
           \/ \E v \in Worker, k \in Key : Pay(v, k, Token(v)) /\ Accepts(k, Token(v))
    PROVE  Outrun(w)'
<1>1. /\ payouts \in [Key -> PayoutType] /\ lease.epoch \in Nat /\ epoch[w] \in Nat
  BY DEF DemoInv, DemoTypeOK, LeasesOK, PayoutType
<1>2. CASE lease.epoch > epoch[w]
  <2>1. lease'.epoch > epoch[w]  BY <1>1, <1>2
  <2> QED BY <2>1 DEF Outrun
<1>3. CASE \E k \in Key : payouts[k].fence = epoch[w]
  <2>1. PICK k \in Key : payouts[k].fence = epoch[w]  BY <1>3
  <2>2. CASE payouts'[k] = payouts[k]  BY <2>1, <2>2 DEF Outrun
  <2>3. CASE payouts'[k] # payouts[k]
    <3>1. PICK v \in Worker, j \in Key : Pay(v, j, Token(v)) /\ Accepts(j, Token(v))
      BY <2>3
    <3>2. j = k  BY <1>1, <2>3, <3>1 DEF Pay
    <3>3. payouts[k].fence < Token(v)  BY <3>1, <3>2 DEF Accepts
    <3>4. Token(v) \in Nat /\ Token(v) <= lease.epoch  BY TokenOfWorker
    <3>5. lease'.epoch > epoch[w]  BY <1>1, <2>1, <3>3, <3>4
    <3> QED BY <3>5 DEF Outrun
  <2> QED BY <2>2, <2>3
<1> QED BY <1>2, <1>3 DEF Outrun

\* An UPDATE that matches no row has met a fence that is not older than its token.
LEMMA RefusedIsOutrun ==
    ASSUME FENCING, DemoInv, NEW w \in Worker, NEW k \in Key, epoch[w] # None,
           ~Accepts(k, Token(w))
    PROVE  Outrun(w)
<1>1. /\ payouts[k].fence \in Nat /\ lease.epoch \in Nat /\ epoch[w] \in Nat
  BY DEF DemoInv, DemoTypeOK, LeasesOK
<1>2. ~(payouts[k].fence < epoch[w])  BY DEF Accepts, Token
<1>3. payouts[k].fence <= lease.epoch  BY DEF DemoInv, EpochInv, FencesArePast
<1>4. lease.epoch > epoch[w] \/ payouts[k].fence = epoch[w]  BY <1>1, <1>2, <1>3
<1> QED BY <1>4 DEF Outrun

\* A step of w keeps it that the refused are outrun, if it does for w itself.
LEMMA OthersStayRefused ==
    ASSUME FENCING, DemoInv, RefusedAreOutrun, NEW w \in Worker,
           \A v \in Worker \ {w} : pc'[v] = pc[v] /\ rows'[v] = rows[v] /\ epoch'[v] = epoch[v],
           Refused(w)' => Outrun(w) /\ epoch[w] # None /\ epoch'[w] = epoch[w],
           lease'.epoch \in Nat, lease.epoch <= lease'.epoch,
           \/ payouts' = payouts
           \/ \E v \in Worker, k \in Key : Pay(v, k, Token(v)) /\ Accepts(k, Token(v))
    PROVE  RefusedAreOutrun'
<1>1. SUFFICES ASSUME NEW v \in Worker, Refused(v)'  PROVE Outrun(v)'
  BY DEF RefusedAreOutrun
<1>2. Outrun(v) /\ epoch[v] # None /\ epoch'[v] = epoch[v]
  <2>1. CASE v = w  BY <1>1, <2>1
  <2>2. CASE v # w
    <3>1. pc'[v] = pc[v] /\ rows'[v] = rows[v] /\ epoch'[v] = epoch[v]  BY <2>2
    <3>2. Refused(v)  BY <1>1, <3>1 DEF Refused
    <3>3. epoch[v] # None  BY <3>2 DEF Refused
    <3> QED BY <3>1, <3>2, <3>3 DEF RefusedAreOutrun
  <2> QED BY <2>1, <2>2
<1> QED BY <1>2, OutrunLasts

\* Only a refused UPDATE adds to the refused.
LEMMA RefusedStep ==
    ASSUME FENCING, DemoInv, DemoInv', RefusedAreOutrun, [DemoNext]_demoVars
    PROVE  RefusedAreOutrun'
<1>1. /\ pc \in [Worker -> DemoPc] /\ rows \in [Worker -> {0, 1}] /\ Pauser \in Worker
      /\ epoch \in [Worker -> Nat \cup {None}] /\ todo \in [Worker -> SUBSET Key]
  BY DemoAssumption DEF DemoInv, DemoTypeOK, LeasesOK
<1>2. lease.epoch \in Nat /\ lease'.epoch \in Nat  BY DEF DemoInv, DemoTypeOK, LeasesOK
<1>3. ASSUME NEW w \in Worker, loop(w) \/ select(w) \/ recordSent(w) \/ sleep(w) \/ die(w)
      PROVE  RefusedAreOutrun'
  <2>1. UNCHANGED <<lease, payouts, epoch, rows>>
    BY <1>3 DEF loop, select, recordSent, sleep, die, tables
  <2>2. \E p \in {"acquire", "renew", "send", "loop", "done"} : pc' = [pc EXCEPT ![w] = p]
    BY <1>3 DEF loop, select, recordSent, sleep, die, Goto
  <2>3. ~Refused(w)' /\ \A v \in Worker \ {w} : pc'[v] = pc[v]
    BY <1>1, <2>2 DEF Refused
  <2> QED BY <1>2, <2>1, <2>3, OthersStayRefused
<1>4. ASSUME NEW w \in Worker, tryAcquire(w) \/ renew(w)  PROVE RefusedAreOutrun'
  <2>1. UNCHANGED <<payouts, rows>>  BY <1>4 DEF tryAcquire, renew
  <2>2. \E p \in {"renew", "loop", "select"} : pc' = [pc EXCEPT ![w] = p]
    BY <1>4 DEF tryAcquire, renew, Goto
  <2>3. ~Refused(w)' /\ \A v \in Worker \ {w} : pc'[v] = pc[v]
    BY <1>1, <2>2 DEF Refused
  <2>4. \E x : epoch' = [epoch EXCEPT ![w] = x]  BY <1>4 DEF tryAcquire, renew
  <2>5. \A v \in Worker \ {w} : epoch'[v] = epoch[v]  BY <1>1, <2>4
  <2>6. lease'.epoch = lease.epoch \/ lease'.epoch = lease.epoch + 1
    BY <1>4 DEF tryAcquire, acquire, Acquired, renew, DemoInv, DemoTypeOK, LeasesOK
  <2>7. lease.epoch <= lease'.epoch  BY <1>2, <2>6
  <2> QED BY <1>2, <2>1, <2>3, <2>5, <2>7, OthersStayRefused
<1>5. ASSUME NEW w \in Worker, NEW from \in {"send", "replay"}, NEW to \in {"sent", "replayed"},
             update(w, from, to)
      PROVE  RefusedAreOutrun'
  <2> DEFINE k == Min(todo[w])
  <2>1. k \in Key
    <3>1. todo[w] # {} /\ todo[w] \subseteq Key  BY <1>1, <1>5 DEF update
    <3>2. Min(todo[w]) \in todo[w]  BY <3>1, FirstOfBatch
    <3> QED BY <3>1, <3>2
  <2>2. /\ UNCHANGED <<lease, epoch>> /\ pc' = [pc EXCEPT ![w] = to]
        /\ rows' = [rows EXCEPT ![w] = IF Accepts(k, Token(w)) THEN 1 ELSE 0]
        /\ IF Accepts(k, Token(w)) THEN Pay(w, k, Token(w)) ELSE payouts' = payouts
    BY <1>5 DEF update, Goto
  <2> HIDE DEF k
  <2>3. \A v \in Worker \ {w} : pc'[v] = pc[v] /\ rows'[v] = rows[v] /\ epoch'[v] = epoch[v]
    BY <1>1, <2>2
  <2>4. \/ payouts' = payouts
        \/ \E v \in Worker, j \in Key : Pay(v, j, Token(v)) /\ Accepts(j, Token(v))
    BY <2>1, <2>2
  <2>5. Refused(w)' => Outrun(w) /\ epoch[w] # None /\ epoch'[w] = epoch[w]
    <3>1. SUFFICES ASSUME Refused(w)'  PROVE Outrun(w) /\ epoch[w] # None /\ epoch'[w] = epoch[w]
      OBVIOUS
    <3>2. rows'[w] = 0 /\ epoch[w] # None /\ epoch'[w] = epoch[w]
      BY <2>2, <3>1 DEF Refused
    <3>3. ~Accepts(k, Token(w))  BY <1>1, <2>2, <3>2
    <3>4. Outrun(w)  BY <2>1, <3>2, <3>3, RefusedIsOutrun
    <3> QED BY <3>2, <3>4
  <2>6. lease.epoch <= lease'.epoch  BY <1>2, <2>2
  <2> QED BY <1>2, <2>3, <2>4, <2>5, <2>6, OthersStayRefused
<1>6. CASE pause \/ resume
  <2>1. UNCHANGED <<lease, payouts, epoch, rows>>  BY <1>6 DEF pause, resume, tables
  <2>2. \E p \in {"paused", "replay"} : pc' = [pc EXCEPT ![Pauser] = p]
    BY <1>6 DEF pause, resume, Goto
  <2>3. ~Refused(Pauser)' /\ \A v \in Worker \ {Pauser} : pc'[v] = pc[v]
    BY <1>1, <2>2 DEF Refused
  <2> QED BY <1>1, <1>2, <2>1, <2>3, OthersStayRefused
<1>7. CASE recordReplayed
  <2>1. UNCHANGED <<lease, payouts, epoch, rows>> /\ pc[Pauser] = "replayed"
    BY <1>7 DEF recordReplayed
  <2>2. \E p \in DemoPc : pc' = [pc EXCEPT ![Pauser] = p]
    BY <1>7 DEF recordReplayed, Goto, DemoPc
  <2>3. Refused(Pauser)' => Refused(Pauser)  BY <2>1 DEF Refused
  <2>4. Refused(Pauser)' => Outrun(Pauser) /\ epoch[Pauser] # None
    BY <1>1, <2>3 DEF RefusedAreOutrun, Refused
  <2>5. \A v \in Worker \ {Pauser} : pc'[v] = pc[v]  BY <1>1, <2>2
  <2> QED BY <1>1, <1>2, <2>1, <2>4, <2>5, OthersStayRefused
<1>8. CASE expire
  <2>1. UNCHANGED <<payouts, epoch, rows, pc>> /\ lease'.epoch = lease.epoch
    BY <1>8 DEF expire, Expire, DemoInv, DemoTypeOK, LeasesOK
  <2>2. Refused(Pauser)' => Refused(Pauser)  BY <2>1 DEF Refused
  <2>3. Refused(Pauser)' => Outrun(Pauser) /\ epoch[Pauser] # None
    BY <1>1, <2>2 DEF RefusedAreOutrun, Refused
  <2> QED BY <1>1, <1>2, <2>1, <2>3, OthersStayRefused
<1>9. CASE UNCHANGED demoVars
  <2>1. UNCHANGED <<lease, payouts, epoch, rows, pc>>  BY <1>9 DEF demoVars, tables
  <2> QED BY <2>1 DEF RefusedAreOutrun, Refused, Outrun
<1> QED BY <1>1, <1>3, <1>4, <1>5, <1>6, <1>7, <1>8, <1>9 DEF DemoNext

\* With the guard in the UPDATE of send_payout, whatever pauses, takeovers, lost
\* threads and replays: who updates zero rows has lost its epoch to a newer one, or
\* meets a payout of its own epoch, and all of those are its own.
THEOREM RefusedOnlyWhenStale == DemoSpec => []ZeroRowsMeanStale
<1> DEFINE I == DemoInv /\ (FENCING => RefusedAreOutrun)
<1>1. DemoInit => I
  <2>1. DemoInit => RefusedAreOutrun  BY DEF DemoInit, RefusedAreOutrun, Refused
  <2> QED BY <2>1, DemoStarts
<1>2. I /\ [DemoNext]_demoVars => I'
  BY DemoStep, RefusedStep
<1>3. I => ZeroRowsMeanStale
  <2>1. SUFFICES ASSUME I, FENCING, NEW w \in Worker, Refused(w)
                 PROVE  \/ lease.epoch > epoch[w]
                        \/ /\ \E k \in Key : payouts[k].fence = epoch[w]
                           /\ \A k \in Key : payouts[k].fence = epoch[w] => payouts[k].sent_by = w
    BY DEF ZeroRowsMeanStale
  <2>2. Outrun(w)  BY <2>1 DEF RefusedAreOutrun
  <2>3. epoch[w] # None /\ epoch[w] \in Nat /\ epoch[w] # 0
    BY <2>1 DEF Refused, DemoInv, DemoTypeOK, LeasesOK, EpochInv, BeliefsArePast
  <2>4. \A k \in Key : payouts[k].fence = epoch[w] => payouts[k].sent_by = w
    BY <2>1, <2>3 DEF DemoInv, EpochInv, FencesArePast
  <2> QED BY <2>2, <2>4 DEF Outrun
<1> QED BY <1>1, <1>2, <1>3, PTL DEF DemoSpec
=============================================================================
