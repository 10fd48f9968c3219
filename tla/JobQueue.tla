------------------------------ MODULE JobQueue ------------------------------
(***************************************************************************)
(* skip_locked_queue.py: workers that claim batches from one table, with    *)
(* FOR UPDATE SKIP LOCKED or with FOR UPDATE alone. A claim goes through    *)
(* the ready rows by id and locks them one by one; PostgreSQL looks at a row *)
(* again once it has the lock. Nothing is ready that was not ready at the   *)
(* start, so every scan may begin with all of them. Rows are locked in one  *)
(* order, so the deadlock that the loop provides for does not occur.        *)
(***************************************************************************)
EXTENDS Naturals, FiniteSets

CONSTANTS
    Hand,        \* the workers
    JOBS,        \* the rows of the table, by id
    BATCH        \* how many a claim takes

ASSUME JobQueueAssumption ==
    /\ IsFiniteSet(Hand) /\ Hand # {}
    /\ JOBS \in Nat /\ BATCH \in Nat \ {0}

VARIABLES
    skip,        \* SKIP LOCKED
    done,        \* the jobs whose row says 'done', committed
    batch,       \* batch[h]: the rows that the transaction of h has locked
    at,          \* at[h]: the row that the scan of h has come to
    hand,        \* hand[h]: where the loop of h is
    processed    \* processed[j]: claimed[j], how often j was processed

queueVars == <<skip, done, batch, at, hand, processed>>

Job == 1..JOBS

QueueInit ==
    /\ skip \in BOOLEAN
    /\ done = {}
    /\ batch = [h \in Hand |-> {}] /\ at = [h \in Hand |-> 1]
    /\ hand = [h \in Hand |-> "claiming"]
    /\ processed = [j \in Job |-> 0]

Locked(h) == UNION {batch[g] : g \in Hand \ {h}}

\* Mutant: the claim takes what it sees.
Lockable_Anyhow(h, j) == j \notin done

Lockable(h, j) == j \notin done /\ j \notin Locked(h)

More(h) == hand[h] = "claiming" /\ at[h] <= JOBS /\ Cardinality(batch[h]) < BATCH

\* One row of the scan: locked, or passed over because it is done by now or,
\* with SKIP LOCKED, because someone else has it. Without it the scan waits.
scanRow(h) ==
    /\ More(h)
    /\ \/ Lockable(h, at[h]) /\ batch' = [batch EXCEPT ![h] = @ \cup {at[h]}]
       \/ /\ ~Lockable(h, at[h]) /\ (at[h] \in done \/ skip)
          /\ UNCHANGED batch
    /\ at' = [at EXCEPT ![h] = @ + 1]
    /\ UNCHANGED <<skip, done, hand, processed>>

\* RETURNING id: a batch to work on, or none and the loop ends.
claimed(h) ==
    /\ hand[h] = "claiming" /\ ~More(h)
    /\ hand' = [hand EXCEPT ![h] = IF batch[h] = {} THEN "left" ELSE "working"]
    /\ UNCHANGED <<skip, done, batch, at, processed>>

\* COMMIT; the ids go into `claimed' after that, under _lock.
commitBatch(h) ==
    /\ hand[h] = "working"
    /\ done' = done \cup batch[h]
    /\ processed' = [j \in Job |-> processed[j] + IF j \in batch[h] THEN 1 ELSE 0]
    /\ batch' = [batch EXCEPT ![h] = {}] /\ at' = [at EXCEPT ![h] = 1]
    /\ hand' = [hand EXCEPT ![h] = "claiming"]
    /\ UNCHANGED skip

\* An error other than a deadlock, or the death of the worker: ROLLBACK.
raise(h) ==
    /\ hand[h] \in {"claiming", "working"}
    /\ batch' = [batch EXCEPT ![h] = {}]
    /\ hand' = [hand EXCEPT ![h] = "raised"]
    /\ UNCHANGED <<skip, done, at, processed>>

\* The deadline, before a claim begins.
ceiling(h) ==
    /\ hand[h] = "claiming" /\ at[h] = 1
    /\ hand' = [hand EXCEPT ![h] = "out of time"]
    /\ UNCHANGED <<skip, done, batch, at, processed>>

QueueNext ==
    \/ \E h \in Hand : scanRow(h)
    \/ \E h \in Hand : claimed(h)
    \/ \E h \in Hand : commitBatch(h)
    \/ \E h \in Hand : raise(h)
    \/ \E h \in Hand : ceiling(h)

QueueSpec == QueueInit /\ [][QueueNext]_queueVars

-----------------------------------------------------------------------------
(* Properties. *)

\* "No job ran twice", whoever fails. And an empty claim does mean "queue
\* drained" as long as nobody fails: SKIP LOCKED shows a worker an empty queue
\* when the last jobs are in others' hands, it leaves, and those that hold them
\* finish them. What is left over then belongs to a worker that raised or ran
\* out of time.
EveryJobOnce ==
    /\ \A j \in Job : processed[j] = IF j \in done THEN 1 ELSE 0
    /\ (\A h \in Hand : hand[h] = "left") => done = Job
=============================================================================
