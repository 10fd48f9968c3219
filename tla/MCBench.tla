------------------------------ MODULE MCBench ------------------------------
(***************************************************************************)
(* The programs that share nothing, one at a time: a behaviour runs the    *)
(* program that `bench' names, and the state of the others stays what it   *)
(* was.                                                                    *)
(***************************************************************************)
EXTENDS FencingDemo, LabService, RetryStorm, Charge, PayLedger, Sessions,
        HandPool, JobQueue, RetryWindow, Paging, Hedging, LabRetry

VARIABLE bench

\* What is on the bench; the other programs have one initial state each.
Chosen ==
    /\ bench \in {"demo", "lab", "storm", "charge", "pay", "sessions", "pool", "queue",
                  "window", "paging", "hedging", "retry"}
    /\ bench # "lab" => /\ mode = "none" /\ limit = 1
                        /\ flags = [bulkhead |-> FALSE, propagate |-> FALSE, explicit |-> FALSE]
    /\ bench # "storm" => policy = "naive"
    /\ bench # "charge" => impl = "naive" /\ body = [c \in Caller |-> "x"]
    /\ bench # "pay" => retryPolicy = "any"
    /\ bench # "sessions" => fix = "none"
    /\ bench # "pool" => poolPolicy = "Shed"
    /\ bench # "queue" => skip = TRUE
    /\ bench # "hedging" => hedge = FALSE
    /\ bench # "retry" => budgeted = FALSE /\ path = [t \in Trip |-> "chain"]
    /\ bench # "paging" => pager = "page" /\ listing = <<>> /\ pageLimit = 1

\* What nothing in the lab reads has one value: the limit in mode none, and an
\* explicit STATEMENT_TIMEOUT_MS without propagation. After connect nothing reads
\* the budget, so the explicit timeout is tried without BULKHEAD only.
Init ==
    /\ Chosen
    /\ LabInit
    /\ mode = "none" => limit = 1
    /\ flags.explicit => flags.propagate /\ ~flags.bulkhead
    /\ DemoInit /\ StormInit /\ ChargeInit /\ PayInit /\ SessionsInit
    /\ PoolInit /\ QueueInit /\ WindowInit /\ PagingInit /\ HedgingInit /\ RetryInit

Next ==
    \/ /\ bench = "demo" /\ DemoNext
       /\ UNCHANGED <<labVars, stormVars, chargeVars, payVars, sessionVars, poolVars, queueVars,
                      windowVars, pagingVars, hedgingVars, retryVars, bench>>
    \/ /\ bench = "lab" /\ LabNext
       /\ UNCHANGED <<demoVars, stormVars, chargeVars, payVars, sessionVars, poolVars,
                      queueVars, windowVars, pagingVars, hedgingVars, retryVars, bench>>
    \/ /\ bench = "storm" /\ StormNext
       /\ UNCHANGED <<demoVars, labVars, chargeVars, payVars, sessionVars, poolVars, queueVars,
                      windowVars, pagingVars, hedgingVars, retryVars, bench>>
    \/ /\ bench = "charge" /\ ChargeNext
       /\ UNCHANGED <<demoVars, labVars, stormVars, payVars, sessionVars, poolVars, queueVars,
                      windowVars, pagingVars, hedgingVars, retryVars, bench>>
    \/ /\ bench = "pay" /\ PayNext
       /\ UNCHANGED <<demoVars, labVars, stormVars, chargeVars, sessionVars, poolVars,
                      queueVars, windowVars, pagingVars, hedgingVars, retryVars, bench>>
    \/ /\ bench = "sessions" /\ SessionsNext
       /\ UNCHANGED <<demoVars, labVars, stormVars, chargeVars, payVars, poolVars, queueVars,
                      windowVars, pagingVars, hedgingVars, retryVars, bench>>
    \/ /\ bench = "pool" /\ PoolNext
       /\ UNCHANGED <<demoVars, labVars, stormVars, chargeVars, payVars, sessionVars, queueVars,
                      windowVars, pagingVars, hedgingVars, retryVars, bench>>
    \/ /\ bench = "queue" /\ QueueNext
       /\ UNCHANGED <<demoVars, labVars, stormVars, chargeVars, payVars, sessionVars, poolVars,
                      windowVars, pagingVars, hedgingVars, retryVars, bench>>
    \/ /\ bench = "window" /\ WindowNext
       /\ UNCHANGED <<demoVars, labVars, stormVars, chargeVars, payVars, sessionVars, poolVars,
                      queueVars, pagingVars, hedgingVars, retryVars, bench>>
    \/ /\ bench = "paging" /\ PagingNext
       /\ UNCHANGED <<demoVars, labVars, stormVars, chargeVars, payVars, sessionVars, poolVars,
                      queueVars, windowVars, hedgingVars, retryVars, bench>>
    \/ /\ bench = "hedging" /\ HedgingNext
       /\ UNCHANGED <<demoVars, labVars, stormVars, chargeVars, payVars, sessionVars, poolVars,
                      queueVars, windowVars, pagingVars, retryVars, bench>>
    \/ /\ bench = "retry" /\ RetryNext
       /\ UNCHANGED <<demoVars, labVars, stormVars, chargeVars, payVars, sessionVars, poolVars,
                      queueVars, windowVars, pagingVars, hedgingVars, bench>>

Spec ==
    Init /\ [][Next]_<<bench, demoVars, labVars, stormVars, chargeVars, payVars, sessionVars,
                       poolVars, queueVars, windowVars, pagingVars, hedgingVars, retryVars>>

\* The requests of the largest program are interchangeable.
Symmetry == Permutations(Request)
=============================================================================
