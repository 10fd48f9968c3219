---------------------------- MODULE RetryStorm ----------------------------
(***************************************************************************)
(* The retry storm of layer 5, topic 3 (python/retry_storm.py): gateway ->  *)
(* service_b -> service_c -> database, where every hop runs with_retries.   *)
(*                                                                         *)
(* A request is one task: its wait_for timers nest, all with the same       *)
(* patience, so the gateway's is the first to run out and cancels whatever  *)
(* goes on below it. The way up from a failure is cut into one step per hop.*)
(***************************************************************************)
EXTENDS Integers, FiniteSets

CONSTANTS
    Client,      \* the requests
    Policy,      \* the variants that the run looks at
    ATTEMPTS,    \* attempts per hop
    Unit,        \* 1 / BUDGET_RATIO: so many successes earn one retry
    Floor        \* BUDGET_MIN_TOKENS, in retries

ASSUME StormAssumption ==
    /\ IsFiniteSet(Client)
    /\ Policy \subseteq {"naive", "budget", "edge"}
    /\ ATTEMPTS \in Nat \ {0} /\ Unit \in Nat \ {0} /\ Floor \in Nat

VARIABLES
    policy,          \* the variant: A and B are "naive", C "budget", D "edge"
    window,          \* the fault window: "ahead", "open" or "closed"
    place,           \* place[q]: where the task of q is
    tried,           \* tried[q][h]: the attempts of hop h in its current call
    calls,           \* calls[q]: the database calls made for q
    tokens,          \* tokens[h]: the bucket of hop h, in parts of 1 / Unit
    metrics          \* offered, leaf_received, ok, retries

stormVars == <<policy, window, place, tried, calls, tokens, metrics>>

Hop == {"gateway", "b", "c"}

StormInit ==
    /\ policy \in Policy
    /\ window = "ahead"
    /\ place = [q \in Client |-> "idle"]
    /\ tried = [q \in Client |-> [h \in Hop |-> 0]]
    /\ calls = [q \in Client |-> 0]
    /\ tokens = [h \in Hop |-> Floor * Unit]
    /\ metrics = [offered |-> 0, leaf_received |-> 0, ok |-> 0, retries |-> 0]

Place(q, p) == place' = [place EXCEPT ![q] = p]

\* Where a task is: in a hop that sleeps before its next attempt, or that has
\* caught Unavailable.
Backoff == [gateway |-> "gateway sleeps", b |-> "b sleeps", c |-> "c sleeps"]
Caught == [gateway |-> "gateway caught", b |-> "b caught", c |-> "c caught"]
Below == [gateway |-> {"b", "c"}, b |-> {"c"}, c |-> {}]

\* Mutant: the hop next to the database forgets to mark its error.
Above_Retryable(h) == CASE h = "c" -> Caught["b"]
                        [] h = "b" -> Caught["gateway"]
                        [] OTHER -> "failed"

\* Where the exception of hop h goes: NonRetryable passes every other hop.
Above(h) == CASE h = "c" /\ policy = "edge" -> "failed"
              [] h = "c" /\ policy # "edge" -> Caught["b"]
              [] h = "b" -> Caught["gateway"]
              [] OTHER -> "failed"

-----------------------------------------------------------------------------

\* An attempt of hop h. The loops below it start afresh, down to the database,
\* which counts the call and, inside the fault window, refuses it at once.
Descend(q, h) ==
    /\ tried' = [tried EXCEPT ![q] = [g \in Hop |->
          IF g = h THEN @[g] + 1 ELSE IF g \in Below[h] THEN 1 ELSE @[g]]]
    /\ calls' = [calls EXCEPT ![q] = @ + 1]
    /\ Place(q, IF window = "open" THEN Caught["c"] ELSE "leaf")
    /\ UNCHANGED <<policy, window, tokens>>

\* run_variant creates the task of q.
gateway(q) ==
    /\ place[q] = "idle"
    /\ Descend(q, "gateway")
    /\ metrics' = [metrics EXCEPT !.offered = @ + 1, !.leaf_received = @ + 1]

attempt(q, h) ==
    /\ place[q] = Backoff[h]
    /\ Descend(q, h)
    /\ metrics' = [metrics EXCEPT !.leaf_received = @ + 1]

\* The deadline of the request has passed: "raise last" instead of an attempt.
expired(q, h) ==
    /\ place[q] = Backoff[h]
    /\ Place(q, Above(h))
    /\ UNCHANGED <<policy, window, tried, calls, tokens, metrics>>

\* RetryBudget.deposit, at every hop on the way back.
Deposited == [h \in Hop |->
    IF tokens[h] + 1 > (Floor + 100) * Unit THEN (Floor + 100) * Unit ELSE tokens[h] + 1]

\* The database answers.
answered(q) ==
    /\ place[q] = "leaf"
    /\ Place(q, "ok")
    /\ metrics' = [metrics EXCEPT !.ok = @ + 1]
    /\ tokens' = IF policy = "budget" THEN Deposited ELSE tokens
    /\ UNCHANGED <<policy, window, tried, calls>>

\* The patience of the gateway's attempt runs out, and with it all below.
timeout(q) ==
    /\ place[q] \in {"leaf", Backoff["b"], Backoff["c"]}
    /\ Place(q, Caught["gateway"])
    /\ UNCHANGED <<policy, window, tried, calls, tokens, metrics>>

\* Mutant: the bucket is read and not drawn from.
Withdrawn_Free(h) == tokens

\* RetryBudget.withdraw.
Withdrawn(h) == [tokens EXCEPT ![h] = @ - Unit]

\* The next attempt of hop h is paid for and counted; then comes the sleep, or
\* the deadline leaves no room for it and the token is gone for nothing.
retry(q, h) ==
    /\ place[q] = Caught[h] /\ tried[q][h] < ATTEMPTS
    /\ IF policy = "budget"
       THEN tokens[h] >= Unit /\ tokens' = Withdrawn(h)
       ELSE UNCHANGED tokens
    /\ metrics' = [metrics EXCEPT !.retries = @ + 1]
    /\ \/ Place(q, Backoff[h])
       \/ Place(q, Above(h))
    /\ UNCHANGED <<policy, window, tried, calls>>

\* No attempt is left, or no token.
giveIn(q, h) ==
    /\ place[q] = Caught[h]
    /\ \/ tried[q][h] = ATTEMPTS
       \/ policy = "budget" /\ tokens[h] < Unit
    /\ Place(q, Above(h))
    /\ UNCHANGED <<policy, window, tried, calls, tokens, metrics>>

\* The fault window opens and closes once in a run.
turn ==
    /\ window # "closed"
    /\ window' = IF window = "ahead" THEN "open" ELSE "closed"
    /\ UNCHANGED <<policy, place, tried, calls, tokens, metrics>>

StormNext ==
    \/ \E q \in Client : gateway(q)
    \/ \E q \in Client, h \in Hop : attempt(q, h)
    \/ \E q \in Client, h \in Hop : expired(q, h)
    \/ \E q \in Client : answered(q)
    \/ \E q \in Client : timeout(q)
    \/ \E q \in Client, h \in Hop : retry(q, h)
    \/ \E q \in Client, h \in Hop : giveIn(q, h)
    \/ turn

StormSpec == StormInit /\ [][StormNext]_stormVars

-----------------------------------------------------------------------------
(* Properties. *)

\* "Backoff delays amplification. Only this bounds it": with the budget, all
\* the database calls of a run exceed the offered requests by no more than the
\* floors of the three buckets and a tenth of the successes per hop.
BudgetBoundsTheLoad ==
    policy = "budget" =>
        Unit * metrics.leaf_received
            <= Unit * metrics.offered + 3 * (Floor * Unit + metrics.ok)

\* "3 hops x 3 attempts = 27x" is the worst case of a request. Under edge only
\* the product that is left has two factors: the gateway retries what its own
\* timer cut off, short of the last call of service_c for all but one attempt.
AmplificationBound ==
    \A q \in Client :
        calls[q] <= IF policy = "edge" THEN ATTEMPTS * (ATTEMPTS - 1) + 1
                    ELSE ATTEMPTS * ATTEMPTS * ATTEMPTS

\* service_c: telling the truth upward "turns the worst case from 3**3 back
\* into 3".
EdgeOnlyMakesItThree ==
    policy = "edge" => \A q \in Client : calls[q] <= ATTEMPTS
=============================================================================
