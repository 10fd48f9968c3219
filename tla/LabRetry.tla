------------------------------ MODULE LabRetry ------------------------------
(***************************************************************************)
(* Retries of the layer 5 service: with_retries and RetryBudget of retry.py *)
(* as /chain uses them for a downstream hop and /cached for the database    *)
(* behind the cache of cache.py, one key.                                   *)
(*                                                                         *)
(* Tokens are counted in deposits: RETRY_BUDGET_PCT is 100 / PerRetry, so a *)
(* result pays in one and a retry costs PerRetry of them.                   *)
(***************************************************************************)
EXTENDS Naturals, FiniteSets

CONSTANTS
    Trip,        \* the requests
    Budgeted,    \* RETRY_BUDGET_PCT > 0: the settings that the run looks at
    PerRetry,    \* 100 / RETRY_BUDGET_PCT
    Bank,        \* capacity, in retries
    Attempts,    \* RETRY_ATTEMPTS
    MaxFlushes   \* bound: how often the key leaves the cache

ASSUME LabRetryAssumption ==
    /\ IsFiniteSet(Trip) /\ Budgeted \subseteq BOOLEAN
    /\ {PerRetry, Bank, Attempts, MaxFlushes} \subseteq Nat /\ Attempts > 0

VARIABLES
    budgeted,      \* RETRY_BUDGET_PCT > 0
    retryTokens,   \* budget.tokens
    inCache,       \* the key is in Redis
    flushes,       \* how often it was taken out
    path,          \* path[t]: "chain" or "cached"
    trip,          \* trip[t]: where the handler is
    tries,         \* tries[t]: attempts that it has begun
    answer,        \* answer[t]: "ok", "refused" (4xx), "failed" (5xx) or "hit"
    retriesSent    \* counters["retries"]

retryVars == <<budgeted, retryTokens, inCache, flushes, path, trip, tries, answer,
               retriesSent>>

RetryInit ==
    /\ budgeted \in Budgeted
    /\ retryTokens = 0 /\ inCache = FALSE /\ flushes = 0
    /\ path \in [Trip -> {"chain", "cached"}]
    /\ trip = [t \in Trip |-> "new"]
    /\ tries = [t \in Trip |-> 0]
    /\ answer = [t \in Trip |-> "none"]
    /\ retriesSent = 0

\* The first attempt.
begin(t) ==
    /\ trip' = [trip EXCEPT ![t] = "calling"]
    /\ tries' = [tries EXCEPT ![t] = 1]
    /\ UNCHANGED answer

\* /chain calls at once. /cached asks Redis first; an unreachable Redis is a miss.
arrive(t) ==
    /\ trip[t] = "new"
    /\ \/ begin(t)
       \/ /\ path[t] = "cached" /\ inCache
          /\ trip' = [trip EXCEPT ![t] = "answered"]
          /\ answer' = [answer EXCEPT ![t] = "hit"]
          /\ UNCHANGED tries
    /\ UNCHANGED <<budgeted, retryTokens, inCache, flushes, path, retriesSent>>

\* Mutant: every result pays in.
Deposits_Any(r) == budgeted

\* budget.deposit is reached, and the budget is on.
Deposits(r) == budgeted /\ r # "failed"

\* An attempt returns. A 5xx or a timeout of the last attempt, or one whose
\* backoff would outlast the deadline, is the answer; an earlier one is slept
\* over. Only a downstream hop can answer 4xx.
attemptReturns(t, r) ==
    /\ trip[t] = "calling"
    /\ r = "refused" => path[t] = "chain"
    /\ retryTokens' = IF Deposits(r) /\ retryTokens < Bank * PerRetry THEN retryTokens + 1
                      ELSE retryTokens
    /\ answer' = [answer EXCEPT ![t] = r]
    /\ trip' \in {[trip EXCEPT ![t] = w] :
                     w \in IF r # "failed"
                           THEN {IF path[t] = "cached" THEN "filling" ELSE "answered"}
                           ELSE {"answered"} \cup (IF tries[t] < Attempts THEN {"sleeping"} ELSE {})}
    /\ UNCHANGED <<budgeted, inCache, flushes, path, tries, retriesSent>>

\* After the backoff: budget.withdraw, and the next attempt.
again(t) ==
    /\ trip[t] = "sleeping" /\ (budgeted => retryTokens >= PerRetry)
    /\ retryTokens' = IF budgeted THEN retryTokens - PerRetry ELSE retryTokens
    /\ retriesSent' = retriesSent + 1
    /\ tries' = [tries EXCEPT ![t] = @ + 1]
    /\ trip' = [trip EXCEPT ![t] = "calling"]
    /\ UNCHANGED <<budgeted, inCache, flushes, path, answer>>

\* retry_denied: the last result is the answer.
denied(t) ==
    /\ trip[t] = "sleeping" /\ budgeted /\ retryTokens < PerRetry
    /\ trip' = [trip EXCEPT ![t] = "answered"]
    /\ UNCHANGED <<budgeted, retryTokens, inCache, flushes, path, tries, answer,
                   retriesSent>>

\* cache.setex, which may fail without anybody noticing.
fill(t) ==
    /\ trip[t] = "filling"
    /\ inCache' \in {inCache, TRUE}
    /\ trip' = [trip EXCEPT ![t] = "answered"]
    /\ UNCHANGED <<budgeted, retryTokens, flushes, path, tries, answer, retriesSent>>

\* CACHE_TTL_S is over, or FLUSHALL.
flushall ==
    /\ inCache /\ flushes < MaxFlushes
    /\ inCache' = FALSE /\ flushes' = flushes + 1
    /\ UNCHANGED <<budgeted, retryTokens, path, trip, tries, answer, retriesSent>>

RetryNext ==
    \/ \E t \in Trip : arrive(t)
    \/ \E t \in Trip, r \in {"ok", "refused", "failed"} : attemptReturns(t, r)
    \/ \E t \in Trip : again(t)
    \/ \E t \in Trip : denied(t)
    \/ \E t \in Trip : fill(t)
    \/ flushall

RetrySpec == RetryInit /\ [][RetryNext]_retryVars

-----------------------------------------------------------------------------
(* Properties. *)

\* "RETRY_BUDGET_PCT=10 means retries may add at most 10% to the load I am
\* already generating": with the budget on, however requests overlap, retries are
\* at most that part of the requests that got a result which is no failure, so
\* that "when everything is failing ... retries stop by themselves". Nor does
\* the cache hide a failure: a hit was filled by a request that succeeded.
RetriesArePaidFor ==
    /\ budgeted => PerRetry * retriesSent + retryTokens
                      <= Cardinality({t \in Trip : answer[t] \in {"ok", "refused"}})
    /\ \A t \in Trip : answer[t] = "hit" =>
          \E u \in Trip : path[u] = "cached" /\ answer[u] = "ok"
=============================================================================
