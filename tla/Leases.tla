------------------------------- MODULE Leases -------------------------------
(***************************************************************************)
(* The tables of layer 4, topic 7: the lease row that elects one worker    *)
(* and the payout rows that its writes are fenced by. Every statement is   *)
(* autocommitted, so each is atomic, and what a worker does between two    *)
(* statements touches nothing but its own memory: a pause of any length    *)
(* (SIGSTOP, a CFS throttle, a collection) is an interleaving.             *)
(*                                                                         *)
(* Time is whether expires_at has passed.                                  *)
(***************************************************************************)
EXTENDS Integers

CONSTANTS
    Worker,      \* the workers that contend for the lease
    Key,         \* the payout keys, in payout_key order
    None,        \* no holder, no epoch
    MaxEpoch,    \* bound: pauses beyond this epoch are shorter than the TTL
    FENCING      \* TRUE: the payout UPDATE is guarded by the epoch

ASSUME LeaseAssumption ==
    /\ None \notin Worker /\ None \notin Nat
    /\ MaxEpoch \in Nat /\ FENCING \in BOOLEAN

VARIABLES
    lease,       \* the row of t7_leases
    payouts,     \* the rows of t7_payouts
    attempted,   \* the highest epoch in t7_payout_attempts
    epoch        \* epoch[w]: the epoch that worker w believes it holds, or None

tables == <<lease, payouts, attempted>>

\* No row yet is a lease of epoch 0 that has expired: taking it makes epoch 1.
NoLease == [holder |-> None, epoch |-> 0, expired |-> TRUE]
Pending == [status |-> "pending", fence |-> 0, sent_by |-> None]

LeasesInit ==
    /\ epoch = [w \in Worker |-> None]
    /\ lease = NoLease
    /\ payouts = [k \in Key |-> Pending]
    /\ attempted = 0

\* Mutant: whoever takes an expired lease goes on in its epoch.
Acquired_NoNewEpoch(w) ==
    [holder |-> w, expired |-> FALSE,
     epoch |-> IF lease.epoch = 0 THEN 1 ELSE lease.epoch]

\* INSERT ... ON CONFLICT DO UPDATE ... WHERE expires_at < now(): the row after it.
Acquired(w) == [holder |-> w, epoch |-> lease.epoch + 1, expired |-> FALSE]

\* The whole statement: the row is taken if it has expired.
acquire(w) == lease' = IF lease.expired THEN Acquired(w) ELSE lease

\* The TTL of the lease runs out.
Expire ==
    /\ ~lease.expired
    /\ lease' = [lease EXCEPT !.expired = TRUE]
    /\ UNCHANGED <<payouts, attempted>>

\* The payout UPDATE of worker w for key k under epoch e.
Pay(w, k, e) ==
    payouts' = [payouts EXCEPT ![k] = [status |-> "sent", fence |-> e, sent_by |-> w]]

\* INSERT INTO t7_payout_attempts: the highest epoch on record.
Record(e) == attempted' = IF e > attempted THEN e ELSE attempted

-----------------------------------------------------------------------------
(* Properties of both programs. *)

\* The type of the tables and of the epochs.
LeasesOK ==
    /\ lease \in [holder : Worker \cup {None}, epoch : Nat, expired : BOOLEAN]
    /\ payouts \in [Key -> [status : {"pending", "sent"}, fence : Nat,
                            sent_by : Worker \cup {None}]]
    /\ attempted \in Nat
    /\ epoch \in [Worker -> Nat \cup {None}]

\* Two workers may both believe that they lead, but never in one epoch: "the
\* epoch increments on ACQUISITION, not on renewal, so it names a leadership
\* term", whatever replies are lost and however long a worker was paused.
OneHolderPerEpoch ==
    \A v, w \in Worker : epoch[v] # None /\ epoch[v] = epoch[w] => v = w

\* Why: what a worker believes is a past epoch or the lease row itself.
BeliefsArePast ==
    \A w \in Worker : epoch[w] # None =>
        /\ 0 < epoch[w] /\ epoch[w] <= lease.epoch
        /\ epoch[w] = lease.epoch => lease.holder = w

\* Every fence is an epoch that was handed out, and its row names the holder.
FencesArePast ==
    \A k \in Key :
        /\ payouts[k].fence <= lease.epoch
        /\ payouts[k].fence # 0 =>
              /\ \A w \in Worker : payouts[k].fence = epoch[w] => payouts[k].sent_by = w
              /\ payouts[k].fence = lease.epoch => payouts[k].sent_by = lease.holder

EpochInv == OneHolderPerEpoch /\ BeliefsArePast /\ FencesArePast

\* "The resource must reject writes from a STRICTLY OLDER epoch and accept the
\* current holder's own re-drives": once a key is paid under an epoch it is paid
\* again only by the same worker, or under a newer epoch. No duplicate payout
\* in the sense of topic7_duplicate_payouts.sql. (With the `<=' of relay7.py this
\* rests on the epochs; with the `<' of fencing_demo.py the guard alone gives it.)
PaidOncePerEpoch ==
    [][\A k \in Key :
           \/ payouts'[k] = payouts[k]
           \/ payouts'[k].fence > payouts[k].fence
           \/ /\ payouts'[k].fence = payouts[k].fence
              /\ payouts'[k].sent_by = payouts[k].sent_by]_payouts
=============================================================================
