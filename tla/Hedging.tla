------------------------------ MODULE Hedging ------------------------------
(***************************************************************************)
(* GET /fanout of the layer 5 service: k calls to backends, each through    *)
(* hedged_call of fanout.py, which sends a second copy of a call that is    *)
(* slow, if the budget of hedges has a token for it.                        *)
(*                                                                         *)
(* Tokens are counted in deposits: HEDGE_BUDGET_PCT is 100 / PerHedge, so a *)
(* call pays in one and a hedge costs PerHedge of them.                     *)
(***************************************************************************)
EXTENDS Naturals, FiniteSets

CONSTANTS
    Leg,         \* the calls of hedged_call
    Hedge,       \* HEDGE: the settings that the run looks at
    PerHedge,    \* 100 / HEDGE_BUDGET_PCT
    Capacity,    \* capacity, in hedges
    MinSamples   \* so many observations before there is a p95

ASSUME HedgingAssumption ==
    /\ IsFiniteSet(Leg) /\ Hedge \subseteq BOOLEAN
    /\ {PerHedge, Capacity, MinSamples} \subseteq Nat

VARIABLES
    hedge,         \* HEDGE
    hedgeTokens,   \* hedge_budget.tokens
    samples,       \* len(_samples), as far as it matters
    leg,           \* leg[l]: where hedged_call is
    copy,          \* copy[l]: the tasks `first' and `second'
    hedges,        \* counters["hedges"]
    result         \* result[l]: what hedged_call returned

hedgingVars == <<hedge, hedgeTokens, samples, leg, copy, hedges, result>>

HedgingInit ==
    /\ hedge \in Hedge
    /\ hedgeTokens = 0 /\ samples = 0 /\ hedges = 0
    /\ leg = [l \in Leg |-> "new"]
    /\ copy = [l \in Leg |-> [first |-> "none", second |-> "none"]]
    /\ result = [l \in Leg |-> "none"]

Over == {"ok", "failed"}

\* hedge_budget.deposit
Deposit == hedgeTokens' = IF hedgeTokens < Capacity * PerHedge THEN hedgeTokens + 1
                          ELSE hedgeTokens

\* hedge_after_seconds has an answer: HEDGE_AFTER_MS is not set, so the p95.
Threshold == samples >= MinSamples

\* hedged_call begins. Without a threshold it just waits.
hedged_call(l) ==
    /\ leg[l] = "new"
    /\ copy' = [copy EXCEPT ![l].first = "running"]
    /\ leg' = [leg EXCEPT ![l] = IF hedge /\ Threshold THEN "timed" ELSE "waiting"]
    /\ UNCHANGED <<hedge, hedgeTokens, samples, hedges, result>>

\* call_next_hop comes back; an error or a timeout is an answer like any other.
backendAnswers(l, i) ==
    /\ copy[l][i] = "running"
    /\ \E r \in Over : copy' = [copy EXCEPT ![l][i] = r]
    /\ samples' = IF Threshold THEN samples ELSE samples + 1
    /\ UNCHANGED <<hedge, hedgeTokens, leg, hedges, result>>

Return(l, r) == leg' = [leg EXCEPT ![l] = "done"] /\ result' = [result EXCEPT ![l] = r]

\* return await first: nothing is paid in here.
awaitFirst(l) ==
    /\ leg[l] = "waiting" /\ copy[l].first \in Over
    /\ Return(l, copy[l].first)
    /\ UNCHANGED <<hedge, hedgeTokens, samples, copy, hedges>>

\* The first is done before the threshold.
inTime(l) ==
    /\ leg[l] = "timed" /\ copy[l].first \in Over
    /\ Deposit
    /\ Return(l, copy[l].first)
    /\ UNCHANGED <<hedge, samples, copy, hedges>>

\* The threshold passes and there is no token.
refuseHedge(l) ==
    /\ leg[l] = "timed" /\ copy[l].first = "running" /\ hedgeTokens < PerHedge
    /\ Deposit
    /\ leg' = [leg EXCEPT ![l] = "waiting"]
    /\ UNCHANGED <<hedge, samples, copy, hedges, result>>

\* The threshold passes: withdraw, and the second copy goes to the same address.
sendSecond(l) ==
    /\ leg[l] = "timed" /\ copy[l].first = "running" /\ hedgeTokens >= PerHedge
    /\ hedgeTokens' = hedgeTokens - PerHedge /\ hedges' = hedges + 1
    /\ copy' = [copy EXCEPT ![l].second = "running"]
    /\ leg' = [leg EXCEPT ![l] = "hedged"]
    /\ UNCHANGED <<hedge, samples, result>>

\* Mutant: the loser is left to run.
Cancelled_Not(c) == c

\* for task in pending: task.cancel()
Cancelled(c) ==
    [i \in DOMAIN c |-> IF c[i] = "running" THEN "cancelled" ELSE c[i]]

\* FIRST_COMPLETED: next(iter(done)) is any of those that are done.
takeWinner(l) ==
    /\ leg[l] = "hedged"
    /\ \E i \in {"first", "second"} : copy[l][i] \in Over /\ Return(l, copy[l][i])
    /\ copy' = [copy EXCEPT ![l] = Cancelled(copy[l])]
    /\ Deposit
    /\ UNCHANGED <<hedge, samples, hedges>>

HedgingNext ==
    \/ \E l \in Leg : hedged_call(l)
    \/ \E l \in Leg, i \in {"first", "second"} : backendAnswers(l, i)
    \/ \E l \in Leg : awaitFirst(l)
    \/ \E l \in Leg : inTime(l)
    \/ \E l \in Leg : refuseHedge(l)
    \/ \E l \in Leg : sendSecond(l)
    \/ \E l \in Leg : takeWinner(l)

HedgingSpec == HedgingInit /\ [][HedgingNext]_hedgingVars

-----------------------------------------------------------------------------
(* Properties. *)

\* "Hedging is not free and the point of capping it ... is to know exactly what
\* it cost": whatever the calls do at the same time, hedges are at most
\* HEDGE_BUDGET_PCT of the calls that were not hedged or are over, none is sent
\* with HEDGE off, and "an un-cancelled hedge is two requests' worth of work": when a
\* call has returned, neither of its copies goes on. What it returned is what
\* one of the copies answered.
HedgesAreCapped ==
    /\ PerHedge * hedges <= Cardinality({l \in Leg : leg[l] \in {"done", "waiting"}})
    /\ hedge \/ hedges = 0
    /\ \A l \in Leg : leg[l] = "done" =>
          /\ "running" \notin {copy[l].first, copy[l].second}
          /\ result[l] \in Over /\ result[l] \in {copy[l].first, copy[l].second}
=============================================================================
