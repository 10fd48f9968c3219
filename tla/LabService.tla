---------------------------- MODULE LabService ----------------------------
(***************************************************************************)
(* The layer 5 service (05-failure/lab/app): the endpoints /checkout (tier *)
(* 0), /report (tier 2) and /search (tier 3) as run_handler runs them, with*)
(* the deadline check, admission by the Shedder, injected faults, and the  *)
(* work of db.do_work on a connection of the engine's pool.                *)
(*                                                                         *)
(* A request's remaining budget is abstracted to what the code compares it *)
(* with: "ample" is more than DEADLINE_SLACK_MS, "slack" is less, "past"   *)
(* is none, and "none" is a request that came without a deadline.          *)
(***************************************************************************)
EXTENDS Shedder

CONSTANTS
    Endpoint,        \* the endpoints that are called
    PoolTotal,       \* POOL_SIZE + MAX_OVERFLOW
    ReportPoolSize   \* REPORT_POOL_SIZE

ASSUME ServiceAssumption ==
    /\ Endpoint \subseteq {"checkout", "report", "search"}
    /\ PoolTotal \in Nat \ {0} /\ ReportPoolSize \in Nat \ {0}

VARIABLES
    flags,       \* BULKHEAD, PROPAGATE_DEADLINE, and STATEMENT_TIMEOUT_MS is set
    handler,     \* handler[r]: where run_handler of r is
    endpoint,    \* endpoint[r]: what r called
    budget       \* budget[r]: what is left until its deadline

reqVars == <<handler, endpoint, budget>>
labVars == <<shedVars, flags, reqVars>>

LabInit ==
    /\ ShedInit
    /\ flags \in [bulkhead : BOOLEAN, propagate : BOOLEAN, explicit : BOOLEAN]
    /\ handler = [r \in Request |-> "new"]
    /\ endpoint = [r \in Request |-> "none"]
    /\ budget = [r \in Request |-> "none"]

\* What a request may have left of its deadline.
Budget == {"none", "ample", "slack", "past"}

Tier(e) == CASE e = "checkout" -> 0
             [] e = "report" -> 2
             [] OTHER -> 3

At(r, p) == handler' = [handler EXCEPT ![r] = p]

\* The handler returns, with whatever status, and its variables with it.
Answer(r) ==
    /\ At(r, "done")
    /\ endpoint' = [endpoint EXCEPT ![r] = "none"]
    /\ budget' = [budget EXCEPT ![r] = "none"]

\* The admitted: between acquire and the finally clause of run_handler.
Admitted == {r \in Request : handler[r] \in {"admitted", "connect", "sleep", "count"}}

-----------------------------------------------------------------------------
(* run_handler *)

\* remaining_ms(deadline) < DEADLINE_SLACK_MS, if the deadline is obeyed.
TooLate(b) == flags.propagate /\ b \in {"slack", "past"}

\* should_reject: no slot is taken for a request that cannot be answered in time.
reject(r, b) ==
    /\ handler[r] = "new" /\ TooLate(b)
    /\ Answer(r)
    /\ UNCHANGED <<shedVars, flags>>

\* A request for e with budget b comes in: acquire(tier) up to its first wait.
acquireSlot(r, e, b) ==
    /\ handler[r] = "new" /\ ~TooLate(b)
    /\ endpoint' = [endpoint EXCEPT ![r] = e]
    /\ budget' = [budget EXCEPT ![r] = b]
    /\ IF Room(Tier(e))
       THEN admit /\ At(r, "admitted") /\ UNCHANGED waiters
       ELSE wait(r) /\ At(r, "waiting") /\ UNCHANGED inflight
    /\ UNCHANGED <<mode, limit, notified, patches, flags>>

\* acquire(tier) from a wait on. Without room it waits again, at the end of the
\* queue, or finds that its time is up.
wake(r) ==
    /\ handler[r] = "waiting" /\ r \in notified
    /\ notified' = notified \ {r}
    /\ \/ /\ Room(Tier(endpoint[r]))
          /\ admit /\ At(r, "admitted")
          /\ waiters' = Left(r)
          /\ UNCHANGED <<endpoint, budget>>
       \/ /\ ~Room(Tier(endpoint[r]))
          /\ wait(r) /\ UNCHANGED <<inflight, reqVars>>
       \/ /\ ~Room(Tier(endpoint[r]))
          /\ waiters' = Left(r)
          /\ Answer(r) /\ UNCHANGED inflight
    /\ UNCHANGED <<mode, limit, patches, flags>>

\* SHED_WAIT_MS is over.
shed(r) ==
    /\ handler[r] = "waiting"
    /\ giveUp(r)
    /\ Answer(r)
    /\ UNCHANGED <<mode, limit, inflight, patches, flags>>

\* The finally clause, record_completion and the response, of whatever status.
finish(r) ==
    /\ release
    /\ Answer(r)
    /\ UNCHANGED flags

\* Mutant: the early return of an injected error skips the finally clause.
fault_NoRelease(r) ==
    /\ handler[r] = "admitted"
    /\ Answer(r)
    /\ UNCHANGED <<shedVars, flags>>

\* faults.should_error, or an exception in the handler.
fault(r) ==
    /\ handler[r] = "admitted"
    /\ finish(r)

-----------------------------------------------------------------------------
(* do_work, after faults.delay *)

startWork(r) ==
    /\ handler[r] = "admitted"
    /\ At(r, "connect")
    /\ UNCHANGED <<shedVars, flags, endpoint, budget>>

\* Mutant: /report works on the engine of the others.
OwnPool_Shared(r) == FALSE

\* report_engine: /report has a pool of its own under BULKHEAD.
OwnPool(r) == flags.bulkhead /\ endpoint[r] = "report"

\* A connection of the pool that r asks.
Free(r) ==
    Cardinality({q \in Request : handler[q] \in {"sleep", "count"} /\ OwnPool(q) = OwnPool(r)})
        < IF OwnPool(r) THEN ReportPoolSize ELSE PoolTotal

\* The connection is there and the deadline is read again: too late, and it
\* goes back unused ("deadline_abandoned").
connect(r) ==
    /\ handler[r] = "connect" /\ Free(r)
    /\ \/ /\ ~TooLate(budget[r])
          /\ At(r, "sleep")
          /\ UNCHANGED <<shedVars, flags, endpoint, budget>>
       \/ /\ TooLate(budget[r])
          /\ finish(r)

\* POOL_TIMEOUT_S is over.
poolTimeout(r) ==
    /\ handler[r] = "connect" /\ ~Free(r)
    /\ finish(r)

\* SELECT pg_sleep is done; SELECT count(*) follows in the transaction.
slept(r) ==
    /\ handler[r] = "sleep"
    /\ At(r, "count")
    /\ UNCHANGED <<shedVars, flags, endpoint, budget>>

counted(r) == handler[r] = "count" /\ finish(r)

\* A statement fails: statement_timeout, or the database.
queryError(r) == handler[r] \in {"sleep", "count"} /\ finish(r)

-----------------------------------------------------------------------------
(* The environment *)

\* Where the statement_timeout comes from: an explicit STATEMENT_TIMEOUT_MS wins,
\* else it is what propagation finds left, but the slack, or there is none.
FromBudget == flags.propagate /\ ~flags.explicit

\* Time passes for r. A timeout from the budget ends pg_sleep while the slack
\* is left; an explicit one, as long as it likes, or none lets it outlive the
\* deadline. Every statement has the whole of the timeout, so count(*), which
\* starts later, may outlive the deadline in any case.
tick(r) ==
    /\ handler[r] \notin {"new", "done"}
    /\ \/ budget[r] = "ample" /\ budget' = [budget EXCEPT ![r] = "slack"]
       \/ /\ budget[r] = "slack"
          /\ ~(FromBudget /\ handler[r] = "sleep")
          /\ budget' = [budget EXCEPT ![r] = "past"]
    /\ UNCHANGED <<shedVars, flags, handler, endpoint>>

\* POST /admin/config with another mode or limit: nobody is told.
post_config ==
    /\ patches < MaxPatches
    /\ patches' = patches + 1
    /\ mode' \in Mode /\ limit' \in Limit
    /\ UNCHANGED <<inflight, waiters, notified, flags, reqVars>>

step(r) ==
    \/ wake(r) \/ shed(r) \/ startWork(r)
    \/ connect(r) \/ poolTimeout(r) \/ slept(r) \/ counted(r) \/ queryError(r)

LabNext ==
    \/ \E r \in Request, b \in Budget : reject(r, b)
    \/ \E r \in Request, e \in Endpoint, b \in Budget : acquireSlot(r, e, b)
    \/ \E r \in Request : step(r)
    \/ \E r \in Request : fault(r)
    \/ \E r \in Request : tick(r)
    \/ post_config

LabSpec == LabInit /\ [][LabNext]_labVars

-----------------------------------------------------------------------------
(* Properties. *)

LabTypeOK ==
    /\ ShedTypeOK
    /\ flags \in [bulkhead : BOOLEAN, propagate : BOOLEAN, explicit : BOOLEAN]
    /\ handler \in [Request -> {"new", "waiting", "admitted", "connect",
                           "sleep", "count", "done"}]
    /\ endpoint \in [Request -> Endpoint \cup {"none"}]
    /\ budget \in [Request -> Budget]

\* X-Inflight is topic 1's L: the counter is the number of requests that were
\* admitted and not released, on every path out of the handler (an injected
\* fault, a refused connection, a cancelled statement, a change of mode while
\* requests wait), and the queue is exactly the requests that wait.
InflightIsTheAdmitted ==
    /\ inflight = Cardinality(Admitted)
    /\ ToSet(waiters) = {r \in Request : handler[r] = "waiting"}
    /\ Len(waiters) = Cardinality(ToSet(waiters))

\* "No budget left means the query is never issued, and what is left becomes the
\* statement_timeout": under propagation, and unless an explicit
\* STATEMENT_TIMEOUT_MS takes the place of what is left, nobody whose deadline
\* has passed holds a connection for pg_sleep.
NoSlotForTheDead ==
    \A r \in Request : FromBudget /\ handler[r] = "sleep" => budget[r] # "past"

\* What holds of run_handler in every mode: the three above.
LabInv == LabTypeOK /\ InflightIsTheAdmitted /\ NoSlotForTheDead

\* "An unbounded wait for admission is just the pool queue again": in mode
\* static no free slot goes unannounced to those that wait for it, whatever
\* newcomers take it first and whoever gives up in between.
NoLostWakeup == mode = "static" /\ patches = 0 => FreeSlotsAreAnnounced

\* /report: "With BULKHEAD=0 it drowns /checkout; with 1 it cannot". Without
\* admission control, and with the tiers of mode priority, the reports alone
\* never take what a /checkout is waiting for.
BulkheadHolds ==
    flags.bulkhead /\ patches = 0 /\ (mode = "none" \/ (mode = "priority" /\ limit > 1)) =>
        \A r \in Request : endpoint[r] = "checkout" =>
            /\ handler[r] = "waiting" /\ ~Room(0) =>
                  \E q \in Admitted : endpoint[q] # "report"
            /\ handler[r] = "connect" /\ ~Free(r) =>
                  \E q \in Admitted : endpoint[q] # "report" /\ handler[q] \in {"sleep", "count"}

\* priority: "tier 0 (/checkout) may use all of it ... the cheap traffic is what
\* absorbs the rejections". While a /checkout waits and there is room for it,
\* someone is on the way to take that room.
CheckoutIsServedFirst ==
    \A r \in Request :
        handler[r] = "waiting" /\ Tier(endpoint[r]) = 0 /\ Room(0) => notified # {}
=============================================================================
