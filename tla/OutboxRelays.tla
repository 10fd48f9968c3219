---------------------------- MODULE OutboxRelays ----------------------------
(***************************************************************************)
(* Layer 4, topic 6: writers that put a charge and its outbox row in one   *)
(* transaction, and the relays that move the rows on.                      *)
(*                                                                         *)
(*   python/hwm_skip.py      the writers; the relay with a high-water mark *)
(*                           (the bug); the SKIP LOCKED relays (the fix)   *)
(*   python/outbox_relay.py  two more SKIP LOCKED workers: one that polls, *)
(*                           and one that NOTIFY wakes                     *)
(*                                                                         *)
(* A sequence hands out an id when a row is inserted; the row is seen when *)
(* its transaction commits. Nothing catches an exception: a thread whose   *)
(* statement raises is gone, and its transaction with it.                  *)
(***************************************************************************)
EXTENDS Naturals, FiniteSets

CONSTANTS
    Writer, Poller, Listener,   \* the threads that do not keep a mark
    Hwm,                        \* the relay with the mark
    BATCH,                      \* --batch
    MaxId                       \* bound: ids the sequence hands out

Relay == Poller \cup Listener
Id    == 1..MaxId

ASSUME OutboxAssumption ==
    /\ BATCH \in Nat \ {0} /\ MaxId \in Nat
    /\ Writer \cap Relay = {} /\ Poller \cap Listener = {} /\ Hwm \notin Writer \cup Relay

VARIABLES
    seq,            \* the last id that the sequence has handed out
    writing,        \* writing[w]: the row of w's open transaction, or 0
    committed,      \* the rows of t6_outbox
    committed_at,   \* committed_at[o]: the column, 0 for NULL
    clock,          \* clock_timestamp()
    published,      \* the rows whose published_at is not NULL
    batch,          \* batch[r]: the rows that r has locked
    delivered,      \* delivered[o]: rows of t6_delivered from the SKIP LOCKED relays
    notes,          \* a NOTIFY waits on the listeners' connections
    last_seen,      \* the high-water mark
    todo,           \* the rows of its last SELECT that Hwm has not published yet
    hwmDelivered,   \* hwmDelivered[o]: rows of t6_delivered from Hwm
    dead            \* the threads that are gone

writers == <<seq, writing, committed, committed_at, clock>>
relays  == <<published, batch, delivered, notes>>
hwm     == <<last_seen, todo, hwmDelivered>>
vars    == <<writers, relays, hwm, dead>>

Init ==
    /\ seq = 0 /\ clock = 0
    /\ writing = [w \in Writer |-> 0]
    /\ committed = {} /\ published = {}
    /\ committed_at = [o \in Id |-> 0]
    /\ batch = [r \in Relay |-> {}]
    /\ delivered = [o \in Id |-> 0]
    /\ notes = [r \in Listener |-> FALSE]
    /\ last_seen = 0 /\ todo = {}
    /\ hwmDelivered = [o \in Id |-> 0]
    /\ dead = {}

\* Mutant: ORDER BY id DESC.
FirstOf_Descending(rows) == {o \in rows : Cardinality({p \in rows : p > o}) < BATCH}

\* ORDER BY id LIMIT BATCH.
FirstOf(rows) == {o \in rows : Cardinality({p \in rows : p < o}) < BATCH}

-----------------------------------------------------------------------------
(* The writers. *)

\* Both INSERTs: the sequence value is taken, nothing is visible.
insert(w) ==
    /\ w \notin dead /\ writing[w] = 0 /\ seq < MaxId
    /\ seq' = seq + 1
    /\ writing' = [writing EXCEPT ![w] = seq + 1]
    /\ UNCHANGED <<committed, committed_at, clock, relays, hwm, dead>>

\* UPDATE t6_outbox SET committed_at, after the hold.
stamp(w) ==
    /\ w \notin dead /\ writing[w] # 0 /\ committed_at[writing[w]] = 0
    /\ clock' = clock + 1
    /\ committed_at' = [committed_at EXCEPT ![writing[w]] = clock + 1]
    /\ UNCHANGED <<seq, writing, committed, relays, hwm, dead>>

\* COMMIT, which also sends the trigger's NOTIFY.
commit(w) ==
    /\ w \notin dead /\ writing[w] # 0 /\ committed_at[writing[w]] # 0
    /\ committed' = committed \cup {writing[w]}
    /\ writing' = [writing EXCEPT ![w] = 0]
    /\ notes' = [r \in Listener |-> r \notin dead]
    /\ UNCHANGED <<seq, committed_at, clock, published, batch, delivered, hwm, dead>>

-----------------------------------------------------------------------------
(* The relays without a mark. *)

\* Mutant: a plain SELECT, which does not see the other relays' locks.
Claimable_Unlocked == committed \ published

\* WHERE published_at IS NULL ... FOR UPDATE SKIP LOCKED.
Claimable == committed \ (published \cup UNION {batch[r] : r \in Relay})

claim(r) ==
    /\ r \notin dead /\ batch[r] = {} /\ Claimable # {}
    /\ batch' = [batch EXCEPT ![r] = FirstOf(Claimable)]

\* A poller looks every interval, whatever it is told.
poll(r) ==
    /\ r \in Poller
    /\ claim(r)
    /\ UNCHANGED <<published, delivered, notes, writers, hwm, dead>>

\* A listener looks when it was told, once.
wake(r) ==
    /\ r \in Listener /\ notes[r]
    /\ notes' = [notes EXCEPT ![r] = FALSE]
    /\ claim(r)
    /\ UNCHANGED <<published, delivered, writers, hwm, dead>>

\* The notification came for rows that somebody else has by now, or to nobody
\* (--drop-notifications).
miss(r) ==
    /\ r \in Listener \ dead /\ batch[r] = {} /\ notes[r]
    /\ notes' = [notes EXCEPT ![r] = FALSE]
    /\ UNCHANGED <<published, batch, delivered, writers, hwm, dead>>

\* Mutant: the row is marked in one transaction and delivered in another.
publish_MarkFirst(r) ==
    /\ r \notin dead /\ batch[r] # {}
    /\ IF batch[r] \subseteq published
       THEN /\ delivered' = [o \in Id |-> IF o \in batch[r] THEN delivered[o] + 1 ELSE delivered[o]]
            /\ batch' = [batch EXCEPT ![r] = {}]
            /\ UNCHANGED published
       ELSE /\ published' = published \cup batch[r]
            /\ UNCHANGED <<batch, delivered>>
    /\ UNCHANGED <<notes, writers, hwm, dead>>

\* The loop over the batch: deliver, mark. Visible when the transaction commits.
publish(r) ==
    /\ r \notin dead /\ batch[r] # {}
    /\ published' = published \cup batch[r]
    /\ delivered' = [o \in Id |-> IF o \in batch[r] THEN delivered[o] + 1 ELSE delivered[o]]
    /\ batch' = [batch EXCEPT ![r] = {}]
    /\ UNCHANGED <<notes, writers, hwm, dead>>

-----------------------------------------------------------------------------
(* The relay with the mark. *)

\* Mutant: id >= last_seen.
Beyond_OrAt(o) == o >= last_seen

\* WHERE id > last_seen.
Beyond(o) == o > last_seen

hwmSelect ==
    /\ Hwm \notin dead /\ todo = {}
    /\ todo' = FirstOf({o \in committed : Beyond(o)})
    /\ todo' # {}
    /\ UNCHANGED <<last_seen, hwmDelivered, writers, relays, dead>>

\* The INSERT of the next row, autocommitted, and the mark.
hwmPublish ==
    /\ Hwm \notin dead
    /\ \E o \in todo :
        /\ \A p \in todo : o <= p
        /\ hwmDelivered' = [hwmDelivered EXCEPT ![o] = @ + 1]
        /\ last_seen' = IF o > last_seen THEN o ELSE last_seen
        /\ todo' = todo \ {o}
    /\ UNCHANGED <<writers, relays, dead>>

-----------------------------------------------------------------------------
\* A statement of t raises: the thread ends, its transaction is rolled back.
die(t) ==
    /\ t \notin dead
    /\ dead' = dead \cup {t}
    /\ writing' = [w \in Writer |-> IF w = t THEN 0 ELSE writing[w]]
    /\ batch' = [r \in Relay |-> IF r = t THEN {} ELSE batch[r]]
    /\ UNCHANGED <<seq, committed, committed_at, clock, published, delivered, notes, hwm>>

Next ==
    \/ \E w \in Writer : insert(w)
    \/ \E w \in Writer : stamp(w)
    \/ \E w \in Writer : commit(w)
    \/ \E r \in Poller : poll(r)
    \/ \E r \in Listener : wake(r)
    \/ \E r \in Listener : miss(r)
    \/ \E r \in Relay : publish(r)
    \/ hwmSelect
    \/ hwmPublish
    \/ \E t \in Writer \cup Relay \cup {Hwm} : die(t)

Spec == Init /\ [][Next]_vars

\* Every thread that is alive goes on. A writer may hold its transaction open as
\* long as it likes; nothing makes it begin another.
Fairness ==
    /\ \A r \in Poller : WF_vars(poll(r))
    /\ \A r \in Relay : WF_vars(publish(r))
    /\ WF_vars(hwmSelect) /\ WF_vars(hwmPublish)

FairSpec == Spec /\ Fairness

-----------------------------------------------------------------------------
(* Properties. *)

\* The type of every variable.
TypeOK ==
    /\ seq \in 0..MaxId /\ clock \in Nat
    /\ writing \in [Writer -> 0..MaxId]
    /\ committed \in SUBSET Id /\ published \in SUBSET Id
    /\ committed_at \in [Id -> Nat]
    /\ batch \in [Relay -> SUBSET Id]
    /\ delivered \in [Id -> Nat]
    /\ notes \in [Listener -> BOOLEAN]
    /\ last_seen \in 0..MaxId /\ todo \in SUBSET Id
    /\ hwmDelivered \in [Id -> Nat]
    /\ dead \in SUBSET (Writer \cup Relay \cup {Hwm})

\* "Both make progress with no duplicates": however many SKIP LOCKED relays run
\* and wherever they die, a row is delivered once if it is marked and not at all
\* if it is not.
DeliveredOnce ==
    \A o \in Id : delivered[o] = IF o \in published THEN 1 ELSE 0

\* Why: two relays never hold the same row, nor one that is marked already, nor
\* one that its writer has not committed.
DisjointBatches ==
    /\ \A r \in Relay : batch[r] \cap published = {} /\ batch[r] \subseteq committed
    /\ \A r, s \in Relay : r # s => batch[r] \cap batch[s] = {}
    /\ published \subseteq committed

\* "WHERE id > last_seen can never return it again, however long you wait"
\* (topic6_reconcile.sql, query 3): what the mark has passed is never delivered
\* from then on, neither late nor twice.
NeverLooksBack ==
    [][\A o \in Id : o <= last_seen => hwmDelivered'[o] = hwmDelivered[o]]_vars

\* "Any mark is a claim that ids and commit order agree": a row that is there
\* and above the mark before Hwm looks is delivered, so the rows that Hwm misses are
\* those that were still open when a higher id was already there.
WhatItSeesItDelivers ==
    \A o \in Id :
        (o \in committed /\ o > last_seen /\ todo = {}) ~> (hwmDelivered[o] = 1 \/ Hwm \in dead)

\* "The poll loop must still deliver everything": a committed row is delivered in
\* the end, whatever notifications were missed and however its writer and the
\* other relays died, as long as one poller lives.
EveryRowIsDelivered ==
    \A o \in Id : o \in committed ~> (delivered[o] = 1 \/ Poller \subseteq dead)
=============================================================================
