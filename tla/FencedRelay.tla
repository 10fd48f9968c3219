---------------------------- MODULE FencedRelay ----------------------------
(***************************************************************************)
(* relay-a and relay-b of the compose experiment (docker/services/app/     *)
(* relay7.py): an elected singleton that acts on the lease it believes it  *)
(* holds and finds out on a timer whether it still does.                   *)
(*                                                                         *)
(* One pass of the loop: a batch of payouts (batch: the UPDATE, record:    *)
(* the INSERT of the attempt), then, if RENEW seconds have passed, renew,  *)
(* take (the acquisition inside acquire_or_renew(c, epoch)) and retake     *)
(* (acquire_or_renew(c, None)). A statement can raise (lock_timeout, a     *)
(* lost connection) before or after the database has executed it; the      *)
(* exception is swallowed and the loop starts over.                        *)
(***************************************************************************)
EXTENDS Leases

CONSTANTS
    KEYS,         \* PAYOUT_KEYS
    BATCH,        \* PAYOUT_BATCH
    MaxErrors     \* bound: statements that raise

ASSUME RelayAssumption ==
    /\ KEYS \in Nat \ {0} /\ BATCH \in Nat \ {0} /\ MaxErrors \in Nat
    /\ Key = 0..KEYS - 1

VARIABLES
    pc,        \* pc[w]: the next statement of w
    i,         \* i[w]: the cursor over the keys, modulo KEYS
    n,         \* n[w]: payouts of this batch so far
    stopped,   \* the workers that have been sent SIGSTOP for good
    errors     \* statements that raised

memory == <<pc, epoch, i, n>>
vars   == <<tables, memory, stopped, errors>>

Init ==
    /\ LeasesInit
    /\ pc = [w \in Worker |-> "timer"]
    /\ i = [w \in Worker |-> 0]
    /\ n = [w \in Worker |-> 0]
    /\ stopped = {}
    /\ errors = 0

\* w is at statement p.
At(w, p) == w \notin stopped /\ pc[w] = p

\* The end of the loop body: the next pass begins with the batch if w believes
\* that it holds epoch e.
NextPass(w, e) ==
    /\ pc' = [pc EXCEPT ![w] = IF e = None THEN "timer" ELSE "batch"]
    /\ n' = [n EXCEPT ![w] = 0]

\* The database has executed the statement, but w gets an exception.
Raises(w) ==
    /\ errors < MaxErrors /\ errors' = errors + 1
    /\ NextPass(w, epoch[w])
    /\ UNCHANGED <<epoch, i>>

-----------------------------------------------------------------------------
\* Mutants: the cursor runs past the last key; it is not advanced.
NextKey_Unwrapped(k) == k + 1
NextKey_Stuck(k) == k

NextKey(k) == (k + 1) % KEYS

\* Mutant: the guard is not part of the UPDATE.
Accepts_Always(k, e) == TRUE

\* The WHERE clause of the payout UPDATE.
Accepts(k, e) == FENCING => payouts[k].fence <= e

\* do_payout: the UPDATE. Zero rows or one, nobody looks at the count.
payout(w) ==
    /\ At(w, "batch")
    /\ IF Accepts(i[w], epoch[w]) THEN Pay(w, i[w], epoch[w]) ELSE UNCHANGED payouts
    /\ UNCHANGED <<lease, attempted, stopped>>
    /\ \/ /\ pc' = [pc EXCEPT ![w] = "record"]
          /\ UNCHANGED <<epoch, i, n, errors>>
       \/ Raises(w)

\* do_payout: the INSERT of the attempt, then on to the next key.
record(w) ==
    /\ At(w, "record")
    /\ Record(epoch[w])
    /\ UNCHANGED <<lease, payouts, stopped>>
    /\ \/ /\ i' = [i EXCEPT ![w] = NextKey(@)]
          /\ n' = [n EXCEPT ![w] = @ + 1]
          /\ pc' = [pc EXCEPT ![w] = IF n[w] + 1 < BATCH THEN "batch" ELSE "timer"]
          /\ UNCHANGED <<epoch, errors>>
       \/ Raises(w)

\* now - last_renew >= RENEW, or not yet.
timer(w) ==
    /\ At(w, "timer")
    /\ \/ /\ pc' = [pc EXCEPT ![w] = IF epoch[w] = None THEN "retake" ELSE "renew"]
          /\ UNCHANGED n
       \/ NextPass(w, epoch[w])
    /\ UNCHANGED <<tables, epoch, i, stopped, errors>>

\* The renewal UPDATE: still ours and still this epoch, expired or not.
renew(w) ==
    LET ours == lease.holder = w /\ lease.epoch = epoch[w]
    IN  /\ At(w, "renew")
        /\ lease' = [lease EXCEPT !.expired = IF ours THEN FALSE ELSE @]
        /\ UNCHANGED <<payouts, attempted, stopped>>
        /\ \/ /\ ours /\ NextPass(w, epoch[w])
              /\ UNCHANGED <<epoch, i, errors>>
           \/ /\ ~ours /\ pc' = [pc EXCEPT ![w] = "take"]
              /\ UNCHANGED <<epoch, i, n, errors>>
           \/ Raises(w)

\* The renewal failed, and acquire_or_renew goes on to acquire.
take(w) ==
    /\ At(w, "take")
    /\ acquire(w)
    /\ UNCHANGED <<payouts, attempted, stopped>>
    /\ \/ /\ lease.expired
          /\ epoch' = [epoch EXCEPT ![w] = lease'.epoch]
          /\ NextPass(w, lease'.epoch)
          /\ UNCHANGED <<i, errors>>
       \/ /\ ~lease.expired
          /\ epoch' = [epoch EXCEPT ![w] = None]
          /\ pc' = [pc EXCEPT ![w] = "retake"]
          /\ UNCHANGED <<i, n, errors>>
       \/ Raises(w)

\* acquire_or_renew(c, None).
retake(w) ==
    /\ At(w, "retake")
    /\ acquire(w)
    /\ UNCHANGED <<payouts, attempted, stopped>>
    /\ \/ /\ lease.expired
          /\ epoch' = [epoch EXCEPT ![w] = lease'.epoch]
          /\ NextPass(w, lease'.epoch)
          /\ UNCHANGED <<i, errors>>
       \/ /\ ~lease.expired
          /\ NextPass(w, None)
          /\ UNCHANGED <<epoch, i, errors>>
       \/ Raises(w)

\* A statement raises before the database has executed it.
fail(w) ==
    /\ w \notin stopped /\ pc[w] # "timer"
    /\ Raises(w)
    /\ UNCHANGED <<tables, stopped>>

\* SIGSTOP, never followed by SIGCONT. Not for the last worker that runs.
stop(w) ==
    /\ stopped = {} /\ stopped' = {w}
    /\ UNCHANGED <<tables, memory, errors>>

\* Nobody renews the lease: its holder is stopped, or never learnt that it got it.
Abandoned ==
    \/ lease.holder \in stopped
    \/ lease.holder \in Worker /\ epoch[lease.holder] # lease.epoch

expire ==
    /\ lease.epoch < MaxEpoch \/ Abandoned
    /\ Expire
    /\ UNCHANGED <<memory, stopped, errors>>

step(w) == payout(w) \/ record(w) \/ timer(w) \/ renew(w) \/ take(w) \/ retake(w)

Next ==
    \/ \E w \in Worker : payout(w)
    \/ \E w \in Worker : record(w)
    \/ \E w \in Worker : timer(w)
    \/ \E w \in Worker : renew(w)
    \/ \E w \in Worker : take(w)
    \/ \E w \in Worker : retake(w)
    \/ \E w \in Worker : fail(w)
    \/ \E w \in Worker : stop(w)
    \/ expire

Spec == Init /\ [][Next]_vars

\* A worker that is not stopped goes on; every RENEW seconds its timer is due; a
\* lease that nobody renews runs out.
Due(w) == timer(w) /\ pc'[w] \in {"renew", "retake"}
Fairness ==
    /\ \A w \in Worker : WF_vars(step(w)) /\ SF_vars(Due(w))
    /\ WF_vars(Abandoned /\ expire)

FairSpec == Spec /\ Fairness

-----------------------------------------------------------------------------
(* Properties. *)

\* The type of every variable.
TypeOK ==
    /\ LeasesOK
    /\ pc \in [Worker -> {"batch", "record", "timer", "renew", "take", "retake"}]
    /\ i \in [Worker -> Key]
    /\ n \in [Worker -> 0..BATCH]
    /\ stopped \in SUBSET Worker
    /\ errors \in 0..MaxErrors

\* A worker that is about to act or to renew has an epoch.
ActsOnAnEpoch ==
    \A w \in Worker : pc[w] \in {"batch", "record", "renew", "take"} => epoch[w] # None

\* A batch ends with its last payout.
BatchEnds ==
    \A w \in Worker : pc[w] \in {"batch", "record"} => n[w] < BATCH

\* The inductive invariant behind the fencing.
RelayInv == ActsOnAnEpoch /\ BatchEnds /\ EpochInv

\* Work goes on: even if one worker is stopped for good in the middle of
\* anything, every payout is sent.
EveryKeyIsPaid == \A k \in Key : <>(payouts[k].status = "sent")
=============================================================================
