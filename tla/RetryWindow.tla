---------------------------- MODULE RetryWindow ----------------------------
(***************************************************************************)
(* with_retries and RetryBudget of the orders service (core/resilience.py). *)
(* The budget looks at a window that slides: both of its deques forget what *)
(* is older than window_s.                                                  *)
(***************************************************************************)
EXTENDS Naturals, Sequences, FiniteSets

CONSTANTS
    Task,        \* the calls of with_retries
    MaxRetries,  \* attempts, the retries of one call
    Pct,         \* pct
    WindowS,     \* window_s
    MaxNow       \* the clock stops here

ASSUME RetryWindowAssumption ==
    IsFiniteSet(Task) /\ {MaxRetries, Pct, WindowS, MaxNow} \subseteq Nat

VARIABLES
    now,         \* time.monotonic()
    requests,    \* _requests
    retries,     \* _retries
    task,        \* task[k]: where the call is
    retried,     \* retried[k]: `attempt', the retries that it has begun
    spent        \* retries that were ever granted

windowVars == <<now, requests, retries, task, retried, spent>>

WindowInit ==
    /\ now = 0 /\ requests = <<>> /\ retries = <<>>
    /\ task = [k \in Task |-> "new"]
    /\ retried = [k \in Task |-> 0]
    /\ spent = 0

\* popleft until the queue is empty or its head is young enough.
Recent(q) ==
    LET gone == CHOOSE n \in 0..Len(q) :
                    /\ \A i \in 1..n : q[i] + WindowS < now
                    /\ n < Len(q) => q[n + 1] + WindowS >= now
    IN  SubSeq(q, gone + 1, Len(q))

\* Mutant: only one of the deques is trimmed.
trim_RetriesOnly == [requests |-> requests, retries |-> Recent(retries)]

\* _trim
trim == [requests |-> Recent(requests), retries |-> Recent(retries)]

Become(k, where) == task' = [task EXCEPT ![k] = where]

record_request(k) ==
    /\ task[k] = "new"
    /\ requests' = Append(trim.requests, now) /\ retries' = trim.retries
    /\ Become(k, "calling")
    /\ UNCHANGED <<now, retried, spent>>

\* fn() returns, or raises something that is not Unavailable, or the request's
\* deadline cancels it, in the call or in the sleep before the next.
ends(k) ==
    /\ task[k] \in {"calling", "sleeping"}
    /\ Become(k, "over")
    /\ UNCHANGED <<now, requests, retries, retried, spent>>

\* try_spend
Affordable == Pct > 0 /\ 100 * (Len(trim.retries) + 1) <= Pct * Len(trim.requests)

\* Unavailable, and a retry is granted. It counts, too, when the deadline then
\* turns out to be nearer than the delay and the retry is not made.
unavailable(k) ==
    /\ task[k] = "calling" /\ retried[k] < MaxRetries /\ Affordable
    /\ requests' = trim.requests /\ retries' = Append(trim.retries, now)
    /\ spent' = spent + 1
    /\ \/ Become(k, "sleeping") /\ retried' = [retried EXCEPT ![k] = @ + 1]
       \/ Become(k, "over") /\ UNCHANGED retried
    /\ UNCHANGED now

\* Unavailable, and it was the last attempt, or there is no budget.
giveUpCall(k) ==
    /\ task[k] = "calling"
    /\ \/ retried[k] >= MaxRetries /\ UNCHANGED <<requests, retries>>
       \/ /\ retried[k] < MaxRetries /\ ~Affordable
          /\ IF Pct > 0 THEN requests' = trim.requests /\ retries' = trim.retries
                        ELSE UNCHANGED <<requests, retries>>
    /\ Become(k, "over")
    /\ UNCHANGED <<now, retried, spent>>

\* The delay is over: fn() again.
callAgain(k) ==
    /\ task[k] = "sleeping"
    /\ Become(k, "calling")
    /\ UNCHANGED <<now, requests, retries, retried, spent>>

\* GET /_stats: looking at the numbers trims, too.
stats ==
    /\ requests' = trim.requests /\ retries' = trim.retries
    /\ UNCHANGED <<now, task, retried, spent>>

passTime ==
    /\ now < MaxNow /\ now' = now + 1
    /\ UNCHANGED <<requests, retries, task, retried, spent>>

WindowNext ==
    \/ \E k \in Task : record_request(k)
    \/ \E k \in Task : ends(k)
    \/ \E k \in Task : unavailable(k)
    \/ \E k \in Task : giveUpCall(k)
    \/ \E k \in Task : callAgain(k)
    \/ stats
    \/ passTime

WindowSpec == WindowInit /\ [][WindowNext]_windowVars

-----------------------------------------------------------------------------
(* Properties. *)

\* "Cap retries as a fraction of total requests": the budget only compares the
\* retries and the requests of the last window_s, and requests leave the window
\* before the retries that they paid for. Yet over the whole life of the
\* service, however its calls are spread over time, no more than pct percent of
\* the requests have been retried.
BudgetOverAllTime ==
    100 * spent <= Pct * Cardinality({k \in Task : task[k] # "new"})
=============================================================================
