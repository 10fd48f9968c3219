---------------------------- MODULE FencingDemo ----------------------------
(***************************************************************************)
(* The local experiment of layer 4, topic 7 (python/fencing_demo.py): two  *)
(* worker threads, of which one, Pauser, stops once for longer than the    *)
(* lease TTL and then replays the whole batch it believed it owned.        *)
(*                                                                         *)
(* A thread whose statement raises dies: nothing catches the exception.    *)
(* Left out: the stop event of main. It ends the loops earlier, and cuts   *)
(* short a pause that it falls into.                                       *)
(***************************************************************************)
EXTENDS Leases, FiniteSets, FiniteSetsExt

CONSTANTS Pauser

ASSUME DemoAssumption == Pauser \in Worker /\ Key \subseteq Nat /\ IsFiniteSet(Key)

VARIABLES
    pc,        \* pc[w]: where worker_loop of w is
    todo,      \* todo[w]: the keys that are left of its current batch
    rows,      \* rows[w]: the row count of its last payout UPDATE
    paused     \* Pauser has had its pause

demoVars == <<tables, epoch, pc, todo, rows, paused>>

DemoInit ==
    /\ LeasesInit
    /\ pc = [w \in Worker |-> "loop"]
    /\ todo = [w \in Worker |-> {}]
    /\ rows = [w \in Worker |-> 0]
    /\ paused = FALSE

Goto(w, p) == pc' = [pc EXCEPT ![w] = p]

\* The top of the loop: acquire first if there is no epoch.
loop(w) ==
    /\ pc[w] = "loop"
    /\ Goto(w, IF epoch[w] = None THEN "acquire" ELSE "renew")
    /\ UNCHANGED <<tables, epoch, todo, rows, paused>>

tryAcquire(w) ==
    /\ pc[w] = "acquire"
    /\ acquire(w)
    /\ epoch' = [epoch EXCEPT ![w] = IF lease.expired THEN lease'.epoch ELSE None]
    /\ Goto(w, IF lease.expired THEN "renew" ELSE "loop")
    /\ UNCHANGED <<payouts, attempted, todo, rows, paused>>

\* The WHERE clause of renew.
Renewable(w) == lease.holder = w /\ lease.epoch = epoch[w] /\ ~lease.expired

renew(w) ==
    /\ pc[w] = "renew"
    /\ epoch' = [epoch EXCEPT ![w] = IF Renewable(w) THEN @ ELSE None]
    /\ lease' = [lease EXCEPT !.expired = @ /\ ~Renewable(w)]
    /\ Goto(w, IF Renewable(w) THEN "select" ELSE "loop")
    /\ UNCHANGED <<payouts, attempted, todo, rows, paused>>

\* The two first payouts that are still pending.
select(w) ==
    LET pending == {k \in Key : payouts[k].status = "pending"}
    IN  /\ pc[w] = "select"
        /\ todo' = [todo EXCEPT ![w] =
              {k \in pending : Cardinality({j \in pending : j < k}) < 2}]
        /\ Goto(w, "send")
        /\ UNCHANGED <<tables, epoch, rows, paused>>

\* epoch or 0.
Token(w) == IF epoch[w] = None THEN 0 ELSE epoch[w]

\* The WHERE clause of send_payout.
Accepts(k, e) == FENCING => payouts[k].fence < e

\* send_payout, for the steady loop ("send") and for the replay: the UPDATE.
update(w, at, next) ==
    LET k == Min(todo[w])
    IN  /\ pc[w] = at /\ todo[w] # {}
        /\ IF Accepts(k, Token(w)) THEN Pay(w, k, Token(w)) ELSE UNCHANGED payouts
        /\ rows' = [rows EXCEPT ![w] = IF Accepts(k, Token(w)) THEN 1 ELSE 0]
        /\ todo' = [todo EXCEPT ![w] = @ \ {k}]
        /\ Goto(w, next)
        /\ UNCHANGED <<lease, attempted, epoch, paused>>

\* send_payout: the INSERT of the attempt. The steady loop ignores the row count.
recordSent(w) ==
    /\ pc[w] = "sent"
    /\ Record(Token(w))
    /\ Goto(w, "send")
    /\ UNCHANGED <<lease, payouts, epoch, todo, rows, paused>>

sleep(w) ==
    /\ pc[w] = "send" /\ todo[w] = {}
    /\ Goto(w, "loop")
    /\ UNCHANGED <<tables, epoch, todo, rows, paused>>

-----------------------------------------------------------------------------
(* The pause. *)

pause ==
    /\ pc[Pauser] = "loop" /\ ~paused
    /\ paused' = TRUE
    /\ Goto(Pauser, "paused")
    /\ UNCHANGED <<tables, epoch, todo, rows>>

\* main refuses a pause that is not longer than the TTL.
resume ==
    /\ pc[Pauser] = "paused"
    /\ lease.holder = Pauser => lease.expired
    /\ todo' = [todo EXCEPT ![Pauser] = Key]
    /\ Goto(Pauser, "replay")
    /\ UNCHANGED <<tables, epoch, rows, paused>>

\* After the INSERT: zero rows, "I am stale, exiting".
recordReplayed ==
    /\ pc[Pauser] = "replayed"
    /\ Record(Token(Pauser))
    /\ Goto(Pauser, IF rows[Pauser] = 0 THEN "stale"
                    ELSE IF todo[Pauser] = {} THEN "done" ELSE "replay")
    /\ UNCHANGED <<lease, payouts, epoch, todo, rows, paused>>

\* A statement raises.
die(w) ==
    /\ pc[w] \notin {"paused", "stale", "done"}
    /\ Goto(w, "done")
    /\ UNCHANGED <<tables, epoch, todo, rows, paused>>

expire ==
    /\ lease.epoch < MaxEpoch
    /\ Expire
    /\ UNCHANGED <<epoch, pc, todo, rows, paused>>

DemoNext ==
    \/ \E w \in Worker : loop(w)
    \/ \E w \in Worker : tryAcquire(w)
    \/ \E w \in Worker : renew(w)
    \/ \E w \in Worker : select(w)
    \/ \E w \in Worker : update(w, "send", "sent")
    \/ \E w \in Worker : recordSent(w)
    \/ \E w \in Worker : sleep(w)
    \/ pause
    \/ resume
    \/ update(Pauser, "replay", "replayed")
    \/ recordReplayed
    \/ \E w \in Worker : die(w)
    \/ expire

DemoSpec == DemoInit /\ [][DemoNext]_demoVars

-----------------------------------------------------------------------------
(* Property *)

\* The UPDATE of w has matched no row, and w still goes by the epoch it carried.
Refused(w) == pc[w] \in {"sent", "replayed", "stale"} /\ rows[w] = 0 /\ epoch[w] # None

\* "Zero rows updated means you are stale; the stale writer logs loudly and
\* exits": whoever is refused has lost its epoch to a newer one. The guard is `<',
\* so one exception remains: it is refused by its own payout of that epoch, which
\* it replays, and then nobody else has written under that epoch.
ZeroRowsMeanStale ==
    FENCING => \A w \in Worker : Refused(w) =>
        \/ lease.epoch > epoch[w]
        \/ /\ \E k \in Key : payouts[k].fence = epoch[w]
           /\ \A k \in Key : payouts[k].fence = epoch[w] => payouts[k].sent_by = w
=============================================================================
