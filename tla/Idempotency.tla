---------------------------- MODULE Idempotency ----------------------------
(***************************************************************************)
(* The three idempotency handlers of layer 4, topic 2 (python/             *)
(* idempotency_race.py; docker/services/app/payments2.py serves the same   *)
(* three over HTTP).                                                       *)
(*                                                                         *)
(*   A  check-then-insert: three transactions, the charge before the key   *)
(*   B  INSERT ... ON CONFLICT DO NOTHING, the charge in its transaction   *)
(*   C  pg_advisory_xact_lock(hashtext(key)), then check and act           *)
(*                                                                         *)
(* Each action is one SQL statement of one request. Under READ COMMITTED a *)
(* statement sees what is committed; an INSERT of a key that another open  *)
(* transaction has inserted waits for that transaction. A request can be   *)
(* cut off at any statement, which rolls its transaction back, or have its *)
(* answer lost; its client then sends it again.                            *)
(***************************************************************************)
EXTENDS Naturals

CONSTANTS
    Request,     \* what clients send, possibly at once
    Key,         \* idempotency keys
    Body,        \* request bodies, told apart by their fingerprint
    Lock,        \* the values of hashtext
    None,        \* no row, nobody
    KeyOf, BodyOf,    \* KeyOf[r], BodyOf[r]: key and body of request r
    LockOf,           \* LockOf[k]: hashtext(k); two keys may collide
    MaxFailures  \* bound: requests cut off and answers lost

ASSUME IdempotencyAssumption ==
    /\ KeyOf \in [Request -> Key] /\ BodyOf \in [Request -> Body]
    /\ LockOf \in [Key -> Lock]
    /\ None \notin Request /\ None \notin [fp : Body, state : {"succeeded"}]
    /\ MaxFailures \in Nat

VARIABLES
    impl,       \* IMPL: the handler that is deployed, "A", "B" or "C"
    compare,    \* TRUE: it is payments2.py, whose C compares fingerprints
    row,        \* row[k]: fingerprint and state of the committed row of k, or None
    charges,    \* charges[k]: committed rows of charges for k
    claim,      \* claim[k]: whose open transaction has inserted k
    lock,       \* lock[h]: who holds advisory lock h
    pc,         \* pc[r]: the next statement of r
    answer,     \* answer[r]: the status of the last answer of r
    failures

deployed == <<impl, compare>>
vars == <<deployed, row, charges, claim, lock, pc, answer, failures>>

Init ==
    /\ impl \in {"A", "B", "C"} /\ compare \in BOOLEAN
    /\ row = [k \in Key |-> None]
    /\ charges = [k \in Key |-> 0]
    /\ claim = [k \in Key |-> None]
    /\ lock = [h \in Lock |-> None]
    /\ pc = [r \in Request |-> impl]
    /\ answer = [r \in Request |-> 0]
    /\ failures = 0

Goto(r, p) == pc' = [pc EXCEPT ![r] = p]

\* The row that r leaves behind.
Succeeded(r) == [fp |-> BodyOf[r], state |-> "succeeded"]

\* Mutant: a session lock, or a connection that goes back to the pool with its
\* transaction open.
EndTransaction_Leaks(r) == UNCHANGED <<claim, lock>>

\* The transaction of r ends, one way or the other: its locks are free again.
EndTransaction(r) ==
    /\ claim' = [k \in Key |-> IF claim[k] = r THEN None ELSE claim[k]]
    /\ lock' = [h \in Lock |-> IF lock[h] = r THEN None ELSE lock[h]]

Answer(r, status) ==
    /\ answer' = [answer EXCEPT ![r] = status]
    /\ Goto(r, "answered")

\* What committed is there, whether or not the client gets to know.
Commit(r, k) ==
    /\ row' = [row EXCEPT ![k] = Succeeded(r)]
    /\ charges' = [charges EXCEPT ![k] = @ + 1]
    /\ EndTransaction(r)
    /\ Answer(r, 201)
    /\ UNCHANGED <<deployed, failures>>

-----------------------------------------------------------------------------
(* A: every statement is a transaction. *)

selectA(r) ==
    /\ pc[r] = "A"
    /\ IF row[KeyOf[r]] = None
       THEN Goto(r, "chargeA") /\ UNCHANGED answer
       ELSE Answer(r, 200)
    /\ UNCHANGED <<deployed, row, charges, claim, lock, failures>>

chargeA(r) ==
    /\ pc[r] = "chargeA"
    /\ charges' = [charges EXCEPT ![KeyOf[r]] = @ + 1]
    /\ Goto(r, "recordA")
    /\ UNCHANGED <<deployed, row, claim, lock, answer, failures>>

\* The unique index speaks up after the charge.
recordA(r) ==
    LET k == KeyOf[r]
    IN  /\ pc[r] = "recordA"
        /\ row' = [row EXCEPT ![k] = IF @ = None THEN Succeeded(r) ELSE @]
        /\ Answer(r, IF row[k] = None THEN 201 ELSE 500)
        /\ UNCHANGED <<deployed, charges, claim, lock, failures>>

-----------------------------------------------------------------------------
(* B: one transaction. *)

\* Mutant: the insert does not wait for another transaction's key.
Waits_Never(r) == FALSE

\* r has to wait for the transaction that has inserted its key.
Waits(r) == claim[KeyOf[r]] # None

insertB(r) ==
    LET k == KeyOf[r]
    IN  /\ pc[r] = "B" /\ ~Waits(r)
        /\ IF row[k] = None
           THEN /\ claim' = [claim EXCEPT ![k] = r]
                /\ Goto(r, "commit")
           ELSE /\ Goto(r, "lookupB")
                /\ UNCHANGED claim
        /\ UNCHANGED <<deployed, row, charges, lock, answer, failures>>

\* Mutant: the fingerprint is not compared.
LookupStatus_AnyBody(r, found) == IF found.state = "succeeded" THEN 200 ELSE 409

LookupStatus(r, found) ==
    IF found.fp # BodyOf[r] THEN 422
    ELSE IF found.state = "succeeded" THEN 200
    ELSE 409

lookupB(r) ==
    /\ pc[r] = "lookupB"
    /\ EndTransaction(r)
    /\ Answer(r, LookupStatus(r, row[KeyOf[r]]))
    /\ UNCHANGED <<deployed, row, charges, failures>>

-----------------------------------------------------------------------------
(* C: one transaction under an advisory lock. *)

\* Mutant: a session lock that a pooled connection does not keep.
Free_Always(r) == TRUE

Free(r) == lock[LockOf[KeyOf[r]]] = None

lockC(r) ==
    /\ pc[r] = "C" /\ Free(r)
    /\ lock' = [lock EXCEPT ![LockOf[KeyOf[r]]] = r]
    /\ Goto(r, "selectC")
    /\ UNCHANGED <<deployed, row, charges, claim, answer, failures>>

\* What a key that is taken is answered with: only payments2.py looks at the body.
ReplayStatus(r, found) == IF compare /\ found.fp # BodyOf[r] THEN 422 ELSE 200

selectC(r) ==
    LET k == KeyOf[r]
    IN  /\ pc[r] = "selectC"
        /\ IF row[k] = None
           THEN Goto(r, "insertC") /\ UNCHANGED <<claim, lock, answer>>
           ELSE /\ EndTransaction(r)
                /\ Answer(r, ReplayStatus(r, row[k]))
        /\ UNCHANGED <<deployed, row, charges, failures>>

\* A plain INSERT: it waits like B's, and a committed row makes it raise.
insertC(r) ==
    LET k == KeyOf[r]
    IN  /\ pc[r] = "insertC" /\ ~Waits(r)
        /\ IF row[k] = None
           THEN /\ claim' = [claim EXCEPT ![k] = r]
                /\ Goto(r, "commit")
                /\ UNCHANGED <<lock, answer>>
           ELSE EndTransaction(r) /\ Answer(r, 500)
        /\ UNCHANGED <<deployed, row, charges, failures>>

-----------------------------------------------------------------------------
\* B and C: the charge, the new state of the key row and the COMMIT. Nobody else
\* sees the statements of an open transaction, so they are one step; being cut off
\* between them is being cut off before it.
commit(r) == pc[r] = "commit" /\ Commit(r, KeyOf[r])

\* The connection is lost, or the server dies: what is not committed is undone.
cut(r) ==
    /\ pc[r] # "answered" /\ failures < MaxFailures
    /\ failures' = failures + 1
    /\ EndTransaction(r)
    /\ Answer(r, 500)
    /\ UNCHANGED <<deployed, row, charges>>

\* The answer gets lost: to the client that is the same error.
loseAnswer(r) ==
    /\ pc[r] = "answered" /\ answer[r] # 500 /\ failures < MaxFailures
    /\ failures' = failures + 1
    /\ answer' = [answer EXCEPT ![r] = 500]
    /\ UNCHANGED <<deployed, row, charges, claim, lock, pc>>

\* The client of a failed request sends it again.
retry(r) ==
    /\ pc[r] = "answered" /\ answer[r] = 500
    /\ Goto(r, impl)
    /\ answer' = [answer EXCEPT ![r] = 0]
    /\ UNCHANGED <<deployed, row, charges, claim, lock, failures>>

stepA(r) == selectA(r) \/ chargeA(r) \/ recordA(r)
stepB(r) == insertB(r) \/ lookupB(r)
stepC(r) == lockC(r) \/ selectC(r) \/ insertC(r)
step(r)  == stepA(r) \/ stepB(r) \/ stepC(r) \/ commit(r) \/ retry(r)

Next == \E r \in Request : step(r) \/ cut(r) \/ loseAnswer(r)

Spec == Init /\ [][Next]_vars

\* Every request that does not wait for a lock goes on, and a waiting one gets
\* its turn when the lock is free (PostgreSQL queues the waiters).
Fairness ==
    \A r \in Request : WF_vars(step(r)) /\ SF_vars(insertB(r)) /\ SF_vars(lockC(r))

FairSpec == Spec /\ Fairness

-----------------------------------------------------------------------------
(* Properties. *)

TypeOK ==
    /\ impl \in {"A", "B", "C"} /\ compare \in BOOLEAN
    /\ row \in [Key -> {None} \cup [fp : Body, state : {"succeeded"}]]
    /\ charges \in [Key -> Nat]
    /\ claim \in [Key -> Request \cup {None}]
    /\ lock \in [Lock -> Request \cup {None}]
    /\ pc \in [Request -> {"A", "chargeA", "recordA", "B", "lookupB", "C", "selectC",
                           "insertC", "commit", "answered"}]
    /\ answer \in [Request -> {0, 200, 201, 422, 500}]
    /\ failures \in 0..MaxFailures

\* "Both directions of the structural rule: the key row and the effect commit in
\* the SAME transaction" (topic2_assert.sql, queries 1 and 4): B and C charge a key
\* once if it gets a row, and not at all otherwise, whatever was cut off, lost
\* and sent again.
KeyAndEffectTogether ==
    impl # "A" => \A k \in Key : charges[k] = IF row[k] = None THEN 0 ELSE 1

\* Who is past the check has the key to itself, by its claim or by its lock; and
\* a key that is claimed is about to be committed by who claimed it.
Alone ==
    /\ \A r \in Request :
        /\ pc[r] = "commit" => claim[KeyOf[r]] = r /\ row[KeyOf[r]] = None
        /\ pc[r] = "insertC" => claim[KeyOf[r]] = None /\ row[KeyOf[r]] = None
        /\ pc[r] \in {"selectC", "insertC"} \/ (pc[r] = "commit" /\ impl = "C") =>
               lock[LockOf[KeyOf[r]]] = r
    /\ \A k \in Key : claim[k] # None => pc[claim[k]] = "commit" /\ KeyOf[claim[k]] = k

\* A request that lost the race finds the row of the winner, which says that it
\* succeeded and will be there for ever ("Under implementation B that cannot
\* outlive the transaction"): handle_b's 409, "in flight, retry", is never given.
LosersFindTheWinner ==
    \A r \in Request : pc[r] = "lookupB" =>
        /\ row[KeyOf[r]] # None /\ row[KeyOf[r]].state = "succeeded"
        /\ charges[KeyOf[r]] = 1

\* 200 and 201 are true: the key was charged. And unless the handler cannot tell
\* (A, or C without compare), it was charged for the body of this very request, since
\* "replaying the stored response here would tell the caller their *new* request
\* succeeded".
AnswersAreTrue ==
    \A r \in Request : pc[r] = "answered" /\ answer[r] \in {200, 201} =>
        /\ charges[KeyOf[r]] > 0
        /\ impl = "B" \/ (impl = "C" /\ compare) => row[KeyOf[r]].fp = BodyOf[r]

\* Every request is answered for good in the end, and every key charged: no
\* wait for a key or a lock is for ever, and a client may retry after any error.
EveryoneIsServed ==
    \A r \in Request :
        <>[](pc[r] = "answered" /\ answer[r] # 500 /\ charges[KeyOf[r]] > 0)
=============================================================================
