------------------------------- MODULE Charge -------------------------------
(***************************************************************************)
(* POST /charge of layer 5, topic 7: the two of the service (lab/app/       *)
(* idempotency.py) and the two correct ones of python/idempotency.py. One   *)
(* key: nothing that is done under a key looks at the row of another.       *)
(*                                                                         *)
(*   naive    look for a charge, work, insert it                            *)
(*   lab      claim the key, work; take over a claim that has expired       *)
(*   claim    the same, and take over for the same body only                *)
(*   single   claim and work in one transaction                             *)
(*                                                                         *)
(* and the two of the orders service of layer 8 (services/idempotency.py):  *)
(*                                                                         *)
(*   late     look for the key, charge, then record the key                 *)
(*   order    look for the key, then charge and record in one transaction   *)
(*                                                                         *)
(* A transaction is what its COMMIT makes visible: a step. Rows are never   *)
(* deleted, so the branches for a key row that is gone again do not occur.  *)
(***************************************************************************)
EXTENDS Naturals, FiniteSets

CONSTANTS
    Caller,      \* the requests that come with the key
    Body,        \* what they may ask for
    Impl         \* the implementations that the run looks at

ASSUME ChargeAssumption ==
    IsFiniteSet(Caller) /\ Impl \subseteq {"naive", "lab", "claim", "single", "late", "order"}

VARIABLES
    impl,        \* the implementation that is deployed
    stage,       \* stage[c]: where the handler of c is
    body,        \* body[c]: what c asked for
    told,        \* told[c]: whose charge the answer to c reports
    keyRow,      \* the row of idempotency_keys
    paid,        \* the requests whose charge is in the table charges
    robbed       \* how often a claim was taken over from a handler that lives

chargeVars == <<impl, stage, body, told, keyRow, paid, robbed>>

\* Nobody, and the row before it is there.
Nothing == "none"
NoRow == [fp |-> Nothing, state |-> "absent", holder |-> Nothing, expired |-> FALSE,
          response |-> Nothing]

ChargeInit ==
    /\ impl \in Impl
    /\ stage = [c \in Caller |-> "new"]
    /\ body \in [Caller -> Body]
    /\ told = [c \in Caller |-> Nothing]
    /\ keyRow = NoRow /\ paid = {} /\ robbed = 0

Stage(c, s) == stage' = [stage EXCEPT ![c] = s]

\* A 2xx answer: the charge of d.
Tell(c, d) == told' = [told EXCEPT ![c] = d] /\ Stage(c, "answered")

-----------------------------------------------------------------------------
(* naive *)

\* The SELECT: someone's charge, of whatever body, or none.
lookup(c) ==
    /\ impl = "naive" /\ stage[c] = "new"
    /\ \/ paid = {} /\ Stage(c, "working") /\ UNCHANGED told
       \/ \E d \in paid : Tell(c, d)
    /\ UNCHANGED <<impl, body, keyRow, paid, robbed>>

\* The INSERT commits.
insertCharge(c) ==
    /\ impl = "naive" /\ stage[c] = "working"
    /\ paid' = paid \cup {c}
    /\ Tell(c, c)
    /\ UNCHANGED <<impl, body, keyRow, robbed>>

-----------------------------------------------------------------------------
(* lab and claim: two transactions *)

Claimed(c) == [fp |-> body[c], state |-> "in_progress", holder |-> c, expired |-> FALSE,
               response |-> Nothing]

\* Mutant: whatever has expired can be had, an answer that is stored too.
Stealable_AnyState(c) == keyRow.expired

\* The WHERE clause of ON CONFLICT DO UPDATE.
Stealable(c) ==
    /\ keyRow.state = "in_progress" /\ keyRow.expired
    /\ impl = "claim" => keyRow.fp = body[c]

\* The claim, committed. Only lab changes the fingerprint of a row it takes over,
\* and there it is the one of c either way.
claim(c) ==
    /\ impl \in {"lab", "claim"} /\ stage[c] = "new"
    /\ \/ /\ keyRow = NoRow
          /\ keyRow' = Claimed(c) /\ Stage(c, "working") /\ UNCHANGED robbed
       \/ /\ keyRow # NoRow /\ Stealable(c)
          /\ robbed' = IF stage[keyRow.holder] = "working" THEN robbed + 1 ELSE robbed
          /\ keyRow' = Claimed(c) /\ Stage(c, "working")
       \/ /\ keyRow # NoRow /\ ~Stealable(c)
          /\ Stage(c, "replay") /\ UNCHANGED <<keyRow, robbed>>
    /\ UNCHANGED <<impl, body, told, paid>>

\* The charge and the stored response, committed together. Nothing asks whether
\* the claim is still this handler's.
work(c) ==
    /\ impl \in {"lab", "claim"} /\ stage[c] = "working"
    /\ paid' = paid \cup {c}
    /\ keyRow' = [keyRow EXCEPT !.state = "done", !.response = c]
    /\ Tell(c, c)
    /\ UNCHANGED <<impl, body, robbed>>

\* crash_after_claim, or a kill: the claim stays.
crash(c) ==
    /\ stage[c] \in {"working", "recording"}
    /\ Stage(c, "dead")
    /\ UNCHANGED <<impl, body, told, keyRow, paid, robbed>>

\* Mutant: whoever knows the key gets the answer.
SameBody_Unchecked(c) == TRUE

SameBody(c) == keyRow.fp = body[c]

\* _replay and _replay_or_conflict: 422, the stored response, or 409. A poll of
\* lab that finds the holder at work and has time left changes nothing.
replay(c) ==
    /\ stage[c] = "replay"
    /\ IF SameBody(c) /\ keyRow.state = "done"
       THEN Tell(c, keyRow.response)
       ELSE Stage(c, "refused") /\ UNCHANGED told
    /\ UNCHANGED <<impl, body, keyRow, paid, robbed>>

\* IDEMPOTENCY_TTL_S is over.
ttlOver ==
    /\ impl \notin {"late", "order"} /\ keyRow # NoRow /\ ~keyRow.expired
    /\ keyRow' = [keyRow EXCEPT !.expired = TRUE]
    /\ UNCHANGED <<impl, stage, body, told, paid, robbed>>

-----------------------------------------------------------------------------
(* single *)

\* The winner's transaction. A crash in it leaves nothing behind.
chargeSingle(c) ==
    /\ impl = "single" /\ stage[c] = "new" /\ keyRow = NoRow
    /\ paid' = paid \cup {c}
    /\ keyRow' = [Claimed(c) EXCEPT !.state = "done", !.response = c]
    /\ Tell(c, c)
    /\ UNCHANGED <<impl, body, robbed>>

\* The loser's INSERT has waited for the winner's COMMIT.
loseSingle(c) ==
    /\ impl = "single" /\ stage[c] = "new" /\ keyRow # NoRow
    /\ Stage(c, "replay")
    /\ UNCHANGED <<impl, body, told, keyRow, paid, robbed>>

-----------------------------------------------------------------------------
(* late and order *)

\* The SELECT of the key; the two never look at the body.
selectKey(c) ==
    /\ impl \in {"late", "order"} /\ stage[c] = "new"
    /\ IF keyRow = NoRow THEN Stage(c, "working") /\ UNCHANGED told
       ELSE Tell(c, keyRow.response)
    /\ UNCHANGED <<impl, body, keyRow, paid, robbed>>

\* Transaction 1 of late: order and charge.
orderAndCharge(c) ==
    /\ impl = "late" /\ stage[c] = "working"
    /\ paid' = paid \cup {c} /\ Stage(c, "recording")
    /\ UNCHANGED <<impl, body, told, keyRow, robbed>>

\* The transaction that inserts the key, with the charge in it (order) or after
\* it (late). The unique constraint lets the first in; the others raise, and
\* whatever else was in their transaction is undone.
commitKey(c) ==
    /\ \/ impl = "late" /\ stage[c] = "recording"
       \/ impl = "order" /\ stage[c] = "working"
    /\ IF keyRow = NoRow
       THEN /\ keyRow' = [Claimed(c) EXCEPT !.state = "done", !.response = c]
            /\ paid' = paid \cup {c}
            /\ Tell(c, c)
       ELSE Stage(c, "refused") /\ UNCHANGED <<told, keyRow, paid>>
    /\ UNCHANGED <<impl, body, robbed>>

ChargeNext ==
    \/ \E c \in Caller : lookup(c)
    \/ \E c \in Caller : insertCharge(c)
    \/ \E c \in Caller : claim(c)
    \/ \E c \in Caller : work(c)
    \/ \E c \in Caller : crash(c)
    \/ \E c \in Caller : replay(c)
    \/ ttlOver
    \/ \E c \in Caller : chargeSingle(c)
    \/ \E c \in Caller : loseSingle(c)
    \/ \E c \in Caller : selectKey(c)
    \/ \E c \in Caller : orderAndCharge(c)
    \/ \E c \in Caller : commitKey(c)

ChargeSpec == ChargeInit /\ [][ChargeNext]_chargeVars

-----------------------------------------------------------------------------
(* Properties. *)

\* "charge_rows = 1 in the correct mode, at every level of concurrency": a key
\* is charged once, and once more at most for every claim that was taken over
\* from a handler that was only slow. Handlers that died cost nothing, nor does
\* an expired row whose answer is stored; with one transaction nothing does.
OneChargePerClaim ==
    /\ impl \notin {"naive", "late"} => Cardinality(paid) <= 1 + robbed
    /\ impl \in {"single", "order"} => robbed = 0

\* "Same key, different money, is a bug in the caller and must not be silently
\* replayed": an answer reports a charge that is on the books, for what was
\* asked. In the lab's version, which lets another body take over a claim, that
\* is so as long as nobody is robbed.
AnswersMatchTheBody ==
    \A c \in Caller : stage[c] = "answered" =>
        /\ told[c] \in paid
        /\ impl \in {"claim", "single"} \/ (impl = "lab" /\ robbed = 0) =>
              body[told[c]] = body[c]
=============================================================================
