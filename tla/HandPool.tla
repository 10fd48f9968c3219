------------------------------ MODULE HandPool ------------------------------
(***************************************************************************)
(* The connection pool of hand_rolled_pool.cpp, under each of its four      *)
(* policies for a caller that finds it empty. What is done under mu_ is one *)
(* step; release lets go of mu_ before it notifies, and a waiter that is    *)
(* notified has to get mu_ back before it can look.                         *)
(***************************************************************************)
EXTENDS Naturals, Sequences, FiniteSets

CONSTANTS
    Thread,      \* the client threads, one acquire each
    PoolSize,    \* POOL_SIZE
    PoolPolicy   \* the policies that the run looks at

ASSUME HandPoolAssumption ==
    /\ IsFiniteSet(Thread) /\ PoolSize \in Nat \ {0}
    /\ PoolPolicy \subseteq {"Unbounded", "BlockForever", "Timeout", "Shed"}

VARIABLES
    poolPolicy,  \* policy_
    idle,        \* idle_, the connections that are in the pool
    created,     \* created_
    thread,      \* thread[t]: where t is
    conn         \* conn[t]: the connection that t has, 0 for none

poolVars == <<poolPolicy, idle, created, thread, conn>>

PoolInit ==
    /\ poolPolicy \in PoolPolicy
    /\ idle = [i \in 1..PoolSize |-> i] /\ created = PoolSize
    /\ thread = [t \in Thread |-> "start"]
    /\ conn = [t \in Thread |-> 0]

Blocks == poolPolicy \in {"BlockForever", "Timeout"}

Go(t, where) == thread' = [thread EXCEPT ![t] = where]

\* The connection that came back last goes out first.
TakeIdle(t) ==
    /\ idle # <<>>
    /\ conn' = [conn EXCEPT ![t] = idle[Len(idle)]]
    /\ idle' = SubSeq(idle, 1, Len(idle) - 1)
    /\ Go(t, "holding") /\ UNCHANGED created

takeConn(t) == thread[t] = "start" /\ TakeIdle(t) /\ UNCHANGED poolPolicy

overflowConn(t) ==
    /\ thread[t] = "start" /\ idle = <<>> /\ poolPolicy = "Unbounded"
    /\ created' = created + 1
    /\ conn' = [conn EXCEPT ![t] = created + 1]
    /\ Go(t, "holding") /\ UNCHANGED <<poolPolicy, idle>>

refuse(t) ==
    /\ thread[t] = "start" /\ idle = <<>> /\ poolPolicy = "Shed"
    /\ Go(t, "refused") /\ UNCHANGED <<poolPolicy, idle, created, conn>>

block(t) ==
    /\ thread[t] = "start" /\ idle = <<>> /\ Blocks
    /\ Go(t, "waiting") /\ UNCHANGED <<poolPolicy, idle, created, conn>>

\* The condition variable lets a waiter go that nobody notified.
spurious(t) ==
    /\ thread[t] = "waiting"
    /\ Go(t, "woken") /\ UNCHANGED <<poolPolicy, idle, created, conn>>

\* The waiter has mu_ again and looks: another thread may have been faster.
look(t) ==
    /\ thread[t] = "woken"
    /\ \/ TakeIdle(t)
       \/ idle = <<>> /\ Go(t, "waiting") /\ UNCHANGED <<idle, created, conn>>
    /\ UNCHANGED poolPolicy

\* wait_limit_ is over, before or after a notification: wait_for looks once more.
waitLimit(t) ==
    /\ poolPolicy = "Timeout" /\ thread[t] \in {"waiting", "woken"}
    /\ \/ TakeIdle(t)
       \/ idle = <<>> /\ Go(t, "timed out") /\ UNCHANGED <<idle, created, conn>>
    /\ UNCHANGED poolPolicy

\* The first half of release.
pushIdle(t) ==
    /\ thread[t] = "holding"
    /\ idle' = Append(idle, conn[t])
    /\ conn' = [conn EXCEPT ![t] = 0]
    /\ Go(t, "notifying") /\ UNCHANGED <<poolPolicy, created>>

Waiting == {t \in Thread : thread[t] = "waiting"}

\* Mutant: release returns the connection and tells nobody.
notifyOne_Never(t) ==
    /\ thread[t] = "notifying"
    /\ Go(t, "done") /\ UNCHANGED <<poolPolicy, idle, created, conn>>

\* The second half: some waiter, if there is one.
notifyOne(t) ==
    /\ thread[t] = "notifying"
    /\ \/ Waiting = {} /\ Go(t, "done")
       \/ \E u \in Waiting : thread' = [thread EXCEPT ![t] = "done", ![u] = "woken"]
    /\ UNCHANGED <<poolPolicy, idle, created, conn>>

PoolNext ==
    \/ \E t \in Thread : takeConn(t)
    \/ \E t \in Thread : overflowConn(t)
    \/ \E t \in Thread : refuse(t)
    \/ \E t \in Thread : block(t)
    \/ \E t \in Thread : spurious(t)
    \/ \E t \in Thread : look(t)
    \/ \E t \in Thread : waitLimit(t)
    \/ \E t \in Thread : pushIdle(t)
    \/ \E t \in Thread : notifyOne(t)

PoolSpec == PoolInit /\ [][PoolNext]_poolVars

-----------------------------------------------------------------------------
(* Properties. *)

InThePool == {idle[i] : i \in DOMAIN idle}
HandedOut == {conn[t] : t \in {u \in Thread : conn[u] # 0}}

\* Every connection that was made is in one place, in the pool or with one
\* thread; only the policy without a bound makes more than size_. And although
\* release notifies outside mu_, and threads that arrive in between, spurious
\* wake-ups and waiters that give up all take part, no waiter sleeps beside a
\* connection that it could have: as many have been woken or are about to be as
\* connections are idle, or all of them.
PoolHandsOn ==
    /\ InThePool \cap HandedOut = {} /\ InThePool \cup HandedOut = 1..created
    /\ Len(idle) + Cardinality({t \in Thread : conn[t] # 0}) = created
    /\ poolPolicy # "Unbounded" => created = PoolSize
    /\ LET coming == Cardinality({t \in Thread : thread[t] \in {"woken", "notifying"}})
       IN  coming >= Len(idle) \/ coming >= Cardinality(Waiting)
=============================================================================
