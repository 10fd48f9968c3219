------------------------- MODULE IdempotencyProofs -------------------------
(***************************************************************************)
(* For any number of requests, keys and bodies, any collisions of the      *)
(* advisory locks and any number of failures: handlers B and C of          *)
(* idempotency_race.py and payments2.py charge a key exactly when they     *)
(* record it, and all three tell the truth about it.                       *)
(***************************************************************************)
EXTENDS Idempotency, TLAPS

\* Each request is at a statement of the handler that serves it.
AtHandler ==
    \A r \in Request :
        /\ pc[r] \in {"A", "chargeA", "recordA"} => impl = "A"
        /\ pc[r] \in {"B", "lookupB"} => impl = "B"
        /\ pc[r] \in {"C", "selectC", "insertC"} => impl = "C"
        /\ pc[r] = "commit" => impl \in {"B", "C"}

\* A key that is recorded, or about to be by A, has been charged.
RecordedIsCharged ==
    /\ \A k \in Key : row[k] # None => charges[k] > 0
    /\ \A r \in Request : pc[r] = "recordA" => charges[KeyOf[r]] > 0

IInv ==
    /\ TypeOK /\ AtHandler /\ Alone /\ RecordedIsCharged /\ KeyAndEffectTogether
    /\ LosersFindTheWinner /\ AnswersAreTrue

\* None is no row and no request, so a row that is written is there.
LEMMA RowIsThere ==
    ASSUME NEW r \in Request
    PROVE  /\ Succeeded(r) \in [fp : Body, state : {"succeeded"}]
           /\ Succeeded(r) # None /\ Succeeded(r).fp = BodyOf[r]
           /\ Succeeded(r).state = "succeeded"
           /\ KeyOf[r] \in Key /\ LockOf[KeyOf[r]] \in Lock /\ BodyOf[r] \in Body /\ r # None
BY IdempotencyAssumption DEF Succeeded

\* Before any request has come, nothing is recorded and nothing charged.
LEMMA InitIInv == Init => IInv
BY IdempotencyAssumption
   DEF Init, IInv, TypeOK, AtHandler, Alone, RecordedIsCharged,
       KeyAndEffectTogether, LosersFindTheWinner, AnswersAreTrue

\* A's check: a key with a row has been charged.
LEMMA selectAKeepsIInv ==
    ASSUME IInv, NEW r \in Request, selectA(r)
    PROVE  IInv'
<1> USE RowIsThere, IdempotencyAssumption DEF IInv, deployed
<1>1. /\ UNCHANGED <<impl, compare, row, charges, claim, lock, failures>>
      /\ pc[r] = "A"
      /\ \/ pc' = [pc EXCEPT ![r] = "chargeA"] /\ answer' = answer
         \/ /\ pc' = [pc EXCEPT ![r] = "answered"]
            /\ answer' = [answer EXCEPT ![r] = 200]
            /\ row[KeyOf[r]] # None
  BY DEF selectA, Answer, Goto
<1>2. TypeOK' /\ AtHandler'
  <2>1. CASE pc' = [pc EXCEPT ![r] = "chargeA"] /\ answer' = answer
    BY <1>1, <2>1 DEF TypeOK, AtHandler
  <2>2. CASE /\ pc' = [pc EXCEPT ![r] = "answered"]
             /\ answer' = [answer EXCEPT ![r] = 200]
    BY <1>1, <2>2 DEF TypeOK, AtHandler
  <2>3. QED BY <1>1, <2>1, <2>2
<1>3. Alone'
  BY <1>1 DEF TypeOK, AtHandler, Alone
<1>4. KeyAndEffectTogether' /\ LosersFindTheWinner' /\ RecordedIsCharged'
  BY <1>1 DEF TypeOK, AtHandler, KeyAndEffectTogether, LosersFindTheWinner, RecordedIsCharged
<1>5. AnswersAreTrue'
  BY <1>1 DEF TypeOK, AtHandler, RecordedIsCharged, AnswersAreTrue
<1>6. QED BY <1>2, <1>3, <1>4, <1>5

\* A's charge, a transaction of its own.
LEMMA chargeAKeepsIInv ==
    ASSUME IInv, NEW r \in Request, chargeA(r)
    PROVE  IInv'
<1> USE RowIsThere, IdempotencyAssumption DEF IInv, deployed
<1>1. TypeOK' /\ AtHandler'
  BY DEF TypeOK, AtHandler, chargeA, Goto
<1>2. Alone'
  BY DEF TypeOK, AtHandler, Alone, chargeA, Goto
<1>3. impl = "A" /\ impl' = "A"
  BY DEF AtHandler, chargeA
<1>4. KeyAndEffectTogether' /\ LosersFindTheWinner'
  BY <1>1, <1>3 DEF KeyAndEffectTogether, LosersFindTheWinner, AtHandler
<1>5. RecordedIsCharged'
  BY DEF TypeOK, RecordedIsCharged, chargeA, Goto
<1>6. AnswersAreTrue'
  BY <1>3 DEF TypeOK, AnswersAreTrue, chargeA, Goto
<1>7. QED BY <1>1, <1>2, <1>4, <1>5, <1>6

\* A's record of a key that is charged by now.
LEMMA recordAKeepsIInv ==
    ASSUME IInv, NEW r \in Request, recordA(r)
    PROVE  IInv'
<1> USE RowIsThere, IdempotencyAssumption DEF IInv, deployed
<1>1. impl = "A" /\ impl' = "A"
  BY DEF AtHandler, recordA
<1>2. TypeOK'
  BY DEF TypeOK, recordA, Answer, Goto
<1>3. AtHandler'
  BY DEF TypeOK, AtHandler, recordA, Answer, Goto
<1>4. \A q \in Request : pc[q] # "commit"
  BY <1>1 DEF AtHandler
<1>5. Alone'
  BY <1>1, <1>3, <1>4 DEF TypeOK, AtHandler, Alone, recordA, Answer, Goto
<1>6. KeyAndEffectTogether' /\ LosersFindTheWinner'
  BY <1>1, <1>3 DEF KeyAndEffectTogether, LosersFindTheWinner, AtHandler
<1>7. RecordedIsCharged'
  BY DEF TypeOK, RecordedIsCharged, recordA, Answer, Goto
<1>8. AnswersAreTrue'
  BY <1>1 DEF TypeOK, AnswersAreTrue, RecordedIsCharged, recordA, Answer, Goto
<1>9. QED BY <1>2, <1>3, <1>5, <1>6, <1>7, <1>8

\* B's INSERT waits for another's claim, so the claim it takes is its own.
LEMMA insertBKeepsIInv ==
    ASSUME IInv, NEW r \in Request, insertB(r)
    PROVE  IInv'
<1> USE RowIsThere, IdempotencyAssumption DEF IInv, deployed
<1>1. TypeOK'
  <2>1. claim' \in [Key -> Request \cup {None}]
    BY DEF TypeOK, insertB
  <2>2. pc' = [pc EXCEPT ![r] = "commit"] \/ pc' = [pc EXCEPT ![r] = "lookupB"]
    BY DEF insertB, Goto
  <2>3. UNCHANGED <<deployed, row, charges, lock, answer, failures>>
    BY DEF insertB
  <2>4. QED BY <2>1, <2>2, <2>3 DEF TypeOK
<1>2. AtHandler'
  BY DEF TypeOK, AtHandler, insertB, Waits, Goto
<1>3. Alone'
  BY DEF TypeOK, AtHandler, Alone, insertB, Waits, Goto
<1>4. KeyAndEffectTogether'
  BY DEF TypeOK, Alone, KeyAndEffectTogether, insertB, Waits, Goto
<1>5. LosersFindTheWinner'
  BY DEF TypeOK, AtHandler, Alone, KeyAndEffectTogether, LosersFindTheWinner,
         insertB, Waits, Goto
<1>6. AnswersAreTrue'
  BY DEF TypeOK, AtHandler, Alone, KeyAndEffectTogether, LosersFindTheWinner,
         RecordedIsCharged,
         AnswersAreTrue, insertB, Waits, Goto
<1>7. RecordedIsCharged'
  BY DEF TypeOK, AtHandler, RecordedIsCharged, insertB, Waits, Goto
<1>8. QED BY <1>1, <1>2, <1>3, <1>4, <1>5, <1>6, <1>7

\* B's answer to a request that lost.
LEMMA lookupBKeepsIInv ==
    ASSUME IInv, NEW r \in Request, lookupB(r)
    PROVE  IInv'
<1> USE RowIsThere, IdempotencyAssumption DEF IInv, deployed
<1>0. /\ LookupStatus(r, row[KeyOf[r]]) \in {200, 422}
      /\ LookupStatus(r, row[KeyOf[r]]) = 200 => row[KeyOf[r]].fp = BodyOf[r]
  BY DEF TypeOK, LosersFindTheWinner, LookupStatus, lookupB
<1>1. TypeOK'
  BY <1>0 DEF TypeOK, lookupB, EndTransaction, Answer, Goto
<1>2. AtHandler'
  BY DEF TypeOK, AtHandler, lookupB, LookupStatus, EndTransaction, Answer, Goto
<1>3. Alone'
  BY DEF TypeOK, AtHandler, Alone, lookupB, LookupStatus, EndTransaction, Answer, Goto
<1>4. KeyAndEffectTogether'
  BY DEF TypeOK, Alone, KeyAndEffectTogether, lookupB, LookupStatus, EndTransaction,
         Answer, Goto
<1>5. LosersFindTheWinner'
  BY DEF TypeOK, AtHandler, Alone, KeyAndEffectTogether, LosersFindTheWinner,
         lookupB, LookupStatus, EndTransaction, Answer, Goto
<1>6. AnswersAreTrue'
  BY <1>0 DEF TypeOK, AtHandler, LosersFindTheWinner, RecordedIsCharged,
         AnswersAreTrue, lookupB,
              EndTransaction,
              Answer, Goto
<1>7. RecordedIsCharged'
  BY DEF TypeOK, AtHandler, RecordedIsCharged, lookupB, LookupStatus,
         EndTransaction, Answer, Goto
<1>8. QED BY <1>1, <1>2, <1>3, <1>4, <1>5, <1>6, <1>7

\* C takes the lock only when it is free.
LEMMA lockCKeepsIInv ==
    ASSUME IInv, NEW r \in Request, lockC(r)
    PROVE  IInv'
<1> USE RowIsThere, IdempotencyAssumption DEF IInv, deployed
<1>1. TypeOK'
  BY DEF TypeOK, lockC, Free, Goto
<1>2. AtHandler'
  BY DEF TypeOK, AtHandler, lockC, Free, Goto
<1>3. Alone'
  BY DEF TypeOK, AtHandler, Alone, lockC, Free, Goto
<1>4. KeyAndEffectTogether'
  BY DEF TypeOK, Alone, KeyAndEffectTogether, lockC, Free, Goto
<1>5. LosersFindTheWinner'
  BY DEF TypeOK, AtHandler, Alone, KeyAndEffectTogether, LosersFindTheWinner, lockC,
         Free, Goto
<1>6. AnswersAreTrue'
  BY DEF TypeOK, AtHandler, Alone, KeyAndEffectTogether, LosersFindTheWinner,
         RecordedIsCharged,
         AnswersAreTrue, lockC, Free, Goto
<1>7. RecordedIsCharged'
  BY DEF TypeOK, AtHandler, RecordedIsCharged, lockC, Free, Goto
<1>8. QED BY <1>1, <1>2, <1>3, <1>4, <1>5, <1>6, <1>7

\* Under the lock, a key without a row stays without one.
LEMMA selectCKeepsIInv ==
    ASSUME IInv, NEW r \in Request, selectC(r)
    PROVE  IInv'
<1> USE RowIsThere, IdempotencyAssumption DEF IInv, deployed
<1>1. TypeOK'
  BY DEF TypeOK, selectC, ReplayStatus, EndTransaction, Answer, Goto
<1>2. AtHandler'
  BY DEF TypeOK, AtHandler, selectC, ReplayStatus, EndTransaction, Answer, Goto
<1>3. Alone'
  BY DEF TypeOK, AtHandler, Alone, selectC, ReplayStatus, EndTransaction, Answer, Goto
<1>4. KeyAndEffectTogether'
  BY DEF TypeOK, Alone, KeyAndEffectTogether, selectC, ReplayStatus, EndTransaction,
         Answer, Goto
<1>5. LosersFindTheWinner'
  BY DEF TypeOK, AtHandler, Alone, KeyAndEffectTogether, LosersFindTheWinner,
         selectC, ReplayStatus, EndTransaction, Answer, Goto
<1>6. AnswersAreTrue'
  BY DEF TypeOK, AtHandler, Alone, KeyAndEffectTogether, LosersFindTheWinner,
         RecordedIsCharged,
         AnswersAreTrue, selectC, ReplayStatus, EndTransaction, Answer, Goto
<1>7. RecordedIsCharged'
  BY DEF TypeOK, AtHandler, RecordedIsCharged, selectC, ReplayStatus,
         EndTransaction, Answer, Goto
<1>8. QED BY <1>1, <1>2, <1>3, <1>4, <1>5, <1>6, <1>7

\* C's INSERT.
LEMMA insertCKeepsIInv ==
    ASSUME IInv, NEW r \in Request, insertC(r)
    PROVE  IInv'
<1> USE RowIsThere, IdempotencyAssumption DEF IInv, deployed
<1>1. TypeOK'
  <2>1. /\ claim' \in [Key -> Request \cup {None}]
        /\ lock' \in [Lock -> Request \cup {None}]
    BY DEF TypeOK, insertC, EndTransaction
  <2>2. pc' = [pc EXCEPT ![r] = "commit"] \/ pc' = [pc EXCEPT ![r] = "answered"]
    BY DEF insertC, Answer, Goto
  <2>3. answer' \in [Request -> {0, 200, 201, 422, 500}]
    BY DEF TypeOK, insertC, Answer
  <2>4. QED BY <2>1, <2>2, <2>3 DEF TypeOK, insertC
<1>2. AtHandler'
  BY DEF TypeOK, AtHandler, insertC, Waits, EndTransaction, Answer, Goto
<1>3. Alone'
  BY DEF TypeOK, AtHandler, Alone, insertC, Waits, EndTransaction, Answer, Goto
<1>4. KeyAndEffectTogether'
  BY DEF TypeOK, Alone, KeyAndEffectTogether, insertC, Waits, EndTransaction, Answer, Goto
<1>5. LosersFindTheWinner'
  BY DEF TypeOK, AtHandler, Alone, KeyAndEffectTogether, LosersFindTheWinner,
         insertC, Waits, EndTransaction, Answer, Goto
<1>6. AnswersAreTrue'
  BY DEF TypeOK, AtHandler, Alone, KeyAndEffectTogether, LosersFindTheWinner,
         RecordedIsCharged,
         AnswersAreTrue, insertC, Waits, EndTransaction, Answer, Goto
<1>7. RecordedIsCharged'
  BY DEF TypeOK, AtHandler, RecordedIsCharged, insertC, Waits, EndTransaction, Answer, Goto
<1>8. QED BY <1>1, <1>2, <1>3, <1>4, <1>5, <1>6, <1>7

\* The commit records a key that nobody else has recorded, with its charge.
LEMMA commitKeepsIInv ==
    ASSUME IInv, NEW r \in Request, commit(r)
    PROVE  IInv'
<1> USE RowIsThere, IdempotencyAssumption DEF IInv, deployed
<1>1. TypeOK'
  BY DEF TypeOK, commit, Commit, EndTransaction, Answer, Goto
<1>2. AtHandler'
  BY DEF TypeOK, AtHandler, commit, Commit, EndTransaction, Answer, Goto
<1>3. Alone'
  BY DEF TypeOK, AtHandler, Alone, commit, Commit, EndTransaction, Answer, Goto
<1>4. KeyAndEffectTogether'
  BY DEF TypeOK, Alone, KeyAndEffectTogether, commit, Commit, EndTransaction, Answer, Goto
<1>5. LosersFindTheWinner'
  BY DEF TypeOK, AtHandler, Alone, KeyAndEffectTogether, LosersFindTheWinner, commit,
         Commit, EndTransaction, Answer, Goto
<1>6. AnswersAreTrue'
  BY DEF TypeOK, AtHandler, Alone, KeyAndEffectTogether, LosersFindTheWinner,
         RecordedIsCharged,
         AnswersAreTrue, commit, Commit, EndTransaction, Answer, Goto
<1>7. RecordedIsCharged'
  BY DEF TypeOK, AtHandler, RecordedIsCharged, commit, Commit, EndTransaction, Answer, Goto
<1>8. QED BY <1>1, <1>2, <1>3, <1>4, <1>5, <1>6, <1>7

\* A request that is cut off leaves nothing behind.
LEMMA cutKeepsIInv ==
    ASSUME IInv, NEW r \in Request, cut(r)
    PROVE  IInv'
<1> USE RowIsThere, IdempotencyAssumption DEF IInv, deployed
<1>1. TypeOK'
  BY DEF TypeOK, cut, EndTransaction, Answer, Goto
<1>2. AtHandler'
  BY DEF TypeOK, AtHandler, cut, EndTransaction, Answer, Goto
<1>3. Alone'
  BY DEF TypeOK, AtHandler, Alone, cut, EndTransaction, Answer, Goto
<1>4. KeyAndEffectTogether'
  BY DEF TypeOK, Alone, KeyAndEffectTogether, cut, EndTransaction, Answer, Goto
<1>5. LosersFindTheWinner'
  BY DEF TypeOK, AtHandler, Alone, KeyAndEffectTogether, LosersFindTheWinner, cut,
         EndTransaction, Answer, Goto
<1>6. AnswersAreTrue'
  BY DEF TypeOK, AtHandler, Alone, KeyAndEffectTogether, LosersFindTheWinner,
         RecordedIsCharged,
         AnswersAreTrue, cut, EndTransaction, Answer, Goto
<1>7. RecordedIsCharged'
  BY DEF TypeOK, AtHandler, RecordedIsCharged, cut, EndTransaction, Answer, Goto
<1>8. QED BY <1>1, <1>2, <1>3, <1>4, <1>5, <1>6, <1>7

\* A lost answer changes no table.
LEMMA loseAnswerKeepsIInv ==
    ASSUME IInv, NEW r \in Request, loseAnswer(r)
    PROVE  IInv'
<1> USE RowIsThere, IdempotencyAssumption DEF IInv, deployed
<1>1. TypeOK'
  BY DEF TypeOK, loseAnswer
<1>2. AtHandler'
  BY DEF TypeOK, AtHandler, loseAnswer
<1>3. Alone'
  BY DEF TypeOK, AtHandler, Alone, loseAnswer
<1>4. KeyAndEffectTogether'
  BY DEF TypeOK, Alone, KeyAndEffectTogether, loseAnswer
<1>5. LosersFindTheWinner'
  BY DEF TypeOK, AtHandler, Alone, KeyAndEffectTogether, LosersFindTheWinner, loseAnswer
<1>6. AnswersAreTrue'
  BY DEF TypeOK, AtHandler, Alone, KeyAndEffectTogether, LosersFindTheWinner,
         RecordedIsCharged,
         AnswersAreTrue, loseAnswer
<1>7. RecordedIsCharged'
  BY DEF TypeOK, AtHandler, RecordedIsCharged, loseAnswer
<1>8. QED BY <1>1, <1>2, <1>3, <1>4, <1>5, <1>6, <1>7

\* Nor does sending the request again.
LEMMA retryKeepsIInv ==
    ASSUME IInv, NEW r \in Request, retry(r)
    PROVE  IInv'
<1> USE RowIsThere, IdempotencyAssumption DEF IInv, deployed
<1>1. TypeOK'
  BY DEF TypeOK, retry, Goto
<1>2. AtHandler'
  BY DEF TypeOK, AtHandler, retry, Goto
<1>3. Alone'
  BY DEF TypeOK, AtHandler, Alone, retry, Goto
<1>4. KeyAndEffectTogether'
  BY DEF TypeOK, Alone, KeyAndEffectTogether, retry, Goto
<1>5. LosersFindTheWinner'
  BY DEF TypeOK, AtHandler, Alone, KeyAndEffectTogether, LosersFindTheWinner, retry, Goto
<1>6. AnswersAreTrue'
  BY DEF TypeOK, AtHandler, Alone, KeyAndEffectTogether, LosersFindTheWinner,
         RecordedIsCharged,
         AnswersAreTrue, retry, Goto
<1>7. RecordedIsCharged'
  BY DEF TypeOK, AtHandler, RecordedIsCharged, retry, Goto
<1>8. QED BY <1>1, <1>2, <1>3, <1>4, <1>5, <1>6, <1>7

\* A step that changes nothing.
LEMMA StutterKeepsIInv == IInv /\ UNCHANGED vars => IInv'
BY DEF vars, deployed, IInv, TypeOK, AtHandler, Alone, RecordedIsCharged,
       KeyAndEffectTogether, LosersFindTheWinner, AnswersAreTrue

\* In every state of every deployment: B and C have charged a key once if it is
\* recorded and not at all otherwise, whatever is cut off, lost and sent again; a
\* request that lost the race finds what the winner recorded; and no 200 or 201
\* is given for a key that was not charged, or (by a handler that compares bodies)
\* was charged for another body.
THEOREM ChargedOnce ==
    Spec => [](KeyAndEffectTogether /\ LosersFindTheWinner /\ AnswersAreTrue)
<1>1. ASSUME IInv, [Next]_vars PROVE IInv'
  <2>1. CASE UNCHANGED vars  BY <1>1, <2>1, StutterKeepsIInv
  <2>2. ASSUME NEW r \in Request, step(r) \/ cut(r) \/ loseAnswer(r) PROVE IInv'
    BY <1>1, <2>2, selectAKeepsIInv, chargeAKeepsIInv, recordAKeepsIInv,
       insertBKeepsIInv, lookupBKeepsIInv, lockCKeepsIInv, selectCKeepsIInv,
       insertCKeepsIInv, commitKeepsIInv, cutKeepsIInv, loseAnswerKeepsIInv, retryKeepsIInv
       DEF step, stepA, stepB, stepC
  <2>3. QED BY <1>1, <2>1, <2>2 DEF Next
<1>2. IInv => KeyAndEffectTogether /\ LosersFindTheWinner /\ AnswersAreTrue  BY DEF IInv
<1>3. QED BY <1>1, <1>2, InitIInv, PTL DEF Spec

\* What the client is told, on its own: under handlers A, B and C alike, however
\* the transactions interleave, are cut off and repeated, a 200 or a 201 stands
\* for a charge of this key, and of this body where the bodies are compared.
THEOREM AnswersTellTheTruth == Spec => []AnswersAreTrue
BY ChargedOnce, PTL
=============================================================================
