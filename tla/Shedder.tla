------------------------------ MODULE Shedder ------------------------------
(***************************************************************************)
(* Admission control of the layer 5 service (05-failure/lab/app/shed.py):  *)
(* a count of the requests in flight, an asyncio.Condition to wait on, and *)
(* a limit that the mode and the tier decide.                              *)
(*                                                                         *)
(* The event loop runs one task at a time and no method awaits anything    *)
(* while it holds the lock of the condition, except in wait(), which gives *)
(* it up. So what happens between two waits is one step.                   *)
(***************************************************************************)
EXTENDS Naturals, Sequences, FiniteSets, SequencesExt

CONSTANTS
    Request,     \* the requests
    Mode,        \* the SHED_MODEs that the run looks at
    Limit,       \* the SHED_LIMITs that the run looks at
    MaxLimit,    \* bound: the adaptive limit stays at or below it
    MaxPatches   \* bound: how often /admin/config is posted to

ASSUME ShedderAssumption ==
    /\ IsFiniteSet(Request)
    /\ Mode \subseteq {"none", "static", "priority", "adaptive"}
    /\ Limit \subseteq 1 .. MaxLimit
    /\ MaxLimit \in Nat /\ MaxPatches \in Nat

VARIABLES
    mode,        \* SHED_MODE
    limit,       \* SHED_LIMIT; in mode adaptive, the gradient controller's limit
    inflight,    \* Shedder.inflight
    waiters,     \* the queue of the condition
    notified,    \* those in the queue that have been told to look again
    patches      \* how often the configuration has been changed

shedVars == <<mode, limit, inflight, waiters, notified, patches>>

ShedInit ==
    /\ mode \in Mode /\ limit \in Limit
    /\ inflight = 0 /\ waiters = << >> /\ notified = {} /\ patches = 0

\* TIER_FRACTION in quarters; int() rounds down.
allowance(tier) ==
    LET share == (limit * (4 - tier)) \div 4
    IN  IF mode = "priority" THEN (IF share < 1 THEN 1 ELSE share) ELSE limit

\* The loop condition of acquire, or a mode that has no limit.
Room(tier) == mode = "none" \/ inflight < allowance(tier)

\* acquire() that admits: the part behind the loop.
admit == inflight' = inflight + 1

\* A waiter wakes up or gives up: it is out of the queue.
Left(r) ==
    IF r \in ToSet(waiters)
    THEN RemoveAt(waiters, CHOOSE i \in DOMAIN waiters : waiters[i] = r)
    ELSE waiters

\* acquire() that waits. Nobody is in the queue twice.
wait(r) == waiters' = Append(Left(r), r)

\* The first of q that has not been told yet, if any.
FirstUntold(q, told) ==
    {q[i] : i \in {j \in DOMAIN q : q[j] \notin told /\ \A k \in 1 .. j - 1 : q[k] \in told}}

\* Condition.notify().
Notify(q, told) == notified' = told \cup FirstUntold(q, told)

\* wait_for gives up on a waiter, told or not. Condition.wait() tells another
\* one in its stead (Python 3.13, the base image).
giveUp(r) ==
    /\ waiters' = Left(r)
    /\ Notify(Left(r), notified \ {r})

\* A step of the gradient controller moves the limit, which stays in its bounds.
observe ==
    IF mode = "adaptive"
    THEN limit' \in {l \in {limit - 1, limit, limit + 1} : 1 <= l /\ l <= MaxLimit}
    ELSE limit' = limit

\* Mutant: nobody is told.
release_Silent ==
    /\ observe
    /\ inflight' = IF inflight = 0 THEN 0 ELSE inflight - 1
    /\ UNCHANGED <<mode, waiters, notified, patches>>

release ==
    /\ observe
    /\ inflight' = IF inflight = 0 THEN 0 ELSE inflight - 1
    /\ Notify(waiters, notified)
    /\ UNCHANGED <<mode, waiters, patches>>

-----------------------------------------------------------------------------
(* Properties. *)

ShedTypeOK ==
    /\ mode \in Mode /\ limit \in 1 .. MaxLimit
    /\ inflight \in Nat /\ patches \in 0 .. MaxPatches
    /\ waiters \in Seq(Request) /\ notified \subseteq ToSet(waiters)

\* What a waiter may count on: as many of those in the queue have been told as
\* there are free slots, or everybody has. A slot that nobody was told of stays
\* idle while its waiters run into SHED_WAIT_MS.
FreeSlotsAreAnnounced ==
    inflight < limit =>
        \/ notified = ToSet(waiters)
        \/ inflight + Cardinality(notified) >= limit

=============================================================================
