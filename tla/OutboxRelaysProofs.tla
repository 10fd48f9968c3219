------------------------- MODULE OutboxRelaysProofs -------------------------
(***************************************************************************)
(* For any number of writers, relays and rows, and any batch size: the     *)
(* SKIP LOCKED relays deliver a row exactly when they mark it, and the     *)
(* relay with the high-water mark never goes back behind it.               *)
(***************************************************************************)
EXTENDS OutboxRelays, TLAPS

\* What Hwm has at hand is above its mark.
TodoIsAhead == \A o \in todo : o > last_seen

IInv == TypeOK /\ DisjointBatches /\ DeliveredOnce /\ TodoIsAhead

\* Nothing is committed, locked or delivered at first.
LEMMA InitIInv == Init => IInv
BY OutboxAssumption DEF Init, IInv, TypeOK, DisjointBatches, DeliveredOnce, TodoIsAhead, Id

\* The rows that a relay locks are nobody's, not marked, and committed.
LEMMA ClaimIsDisjoint ==
    ASSUME IInv, NEW r \in Relay, claim(r), UNCHANGED <<committed, published>>
    PROVE  DisjointBatches' /\ batch' \in [Relay -> SUBSET Id]
<1>1. /\ FirstOf(Claimable) \subseteq committed
      /\ FirstOf(Claimable) \cap published = {}
      /\ \A s \in Relay : FirstOf(Claimable) \cap batch[s] = {}
  BY DEF FirstOf, Claimable
<1>2. batch' = [batch EXCEPT ![r] = FirstOf(Claimable)]
  BY DEF claim
<1>3. batch' \in [Relay -> SUBSET Id]
  BY <1>1, <1>2 DEF IInv, TypeOK
<1>4. QED BY <1>1, <1>2, <1>3 DEF IInv, TypeOK, DisjointBatches

\* The writers touch neither batches nor marks, and only ever add rows.
LEMMA WritersKeepIInv ==
    ASSUME IInv, NEW w \in Writer, insert(w) \/ stamp(w) \/ commit(w)
    PROVE  IInv'
<1> USE DEF IInv
<1>1. UNCHANGED <<published, batch, delivered, last_seen, todo, hwmDelivered, dead>>
  BY DEF insert, stamp, commit, relays, hwm
<1>2. committed \subseteq committed'
  BY DEF insert, stamp, commit
<1>3. TypeOK'
  <2>1. CASE insert(w)
    <3>1. seq + 1 \in 0..MaxId  BY <2>1, OutboxAssumption DEF TypeOK, insert
    <3>2. QED BY <1>1, <2>1, <3>1 DEF TypeOK, insert, relays
  <2>2. CASE stamp(w)
    BY <2>2 DEF TypeOK, Id, stamp, relays, hwm
  <2>3. CASE commit(w)
    <3>1. notes' \in [Listener -> BOOLEAN]
      BY <2>3, Zenon DEF commit
    <3>2. committed' \in SUBSET Id
      <4>1. writing[w] \in 1..MaxId  BY <2>3, OutboxAssumption DEF TypeOK, commit
      <4>2. QED BY <2>3, <4>1 DEF TypeOK, Id, commit
    <3>3. writing' \in [Writer -> 0..MaxId]
      BY <2>3, OutboxAssumption DEF TypeOK, commit
    <3>4. QED BY <1>1, <2>3, <3>1, <3>2, <3>3 DEF TypeOK, commit
  <2>4. QED BY <2>1, <2>2, <2>3
<1>4. DisjointBatches'  BY <1>1, <1>2 DEF DisjointBatches
<1>5. DeliveredOnce'    BY <1>1 DEF DeliveredOnce
<1>6. TodoIsAhead'      BY <1>1 DEF TodoIsAhead
<1>7. QED BY <1>3, <1>4, <1>5, <1>6

\* A batch is delivered and marked together, and nobody else has its rows.
LEMMA PublishKeepsIInv ==
    ASSUME IInv, NEW r \in Relay, publish(r)
    PROVE  IInv'
<1> USE DEF IInv
<1>1. TypeOK'
  BY DEF TypeOK, publish, writers, hwm
<1>2. DisjointBatches'
  BY DEF TypeOK, DisjointBatches, publish, writers
<1>3. DeliveredOnce'
  BY DEF TypeOK, DisjointBatches, DeliveredOnce, publish
<1>4. TodoIsAhead'
  BY DEF TodoIsAhead, publish, hwm
<1>5. QED BY <1>1, <1>2, <1>3, <1>4

\* Looking for rows, on a tick or on a notification.
LEMMA LookKeepsIInv ==
    ASSUME IInv, NEW r \in Relay, poll(r) \/ wake(r) \/ miss(r)
    PROVE  IInv'
<1>1. CASE poll(r)
  BY <1>1, ClaimIsDisjoint
     DEF poll, writers, hwm, IInv, TypeOK, DeliveredOnce, TodoIsAhead
<1>2. CASE wake(r)
  BY <1>2, ClaimIsDisjoint
     DEF wake, writers, hwm, IInv, TypeOK, DeliveredOnce, TodoIsAhead
<1>3. CASE miss(r)
  BY <1>3 DEF miss, writers, hwm, IInv, TypeOK, DisjointBatches, DeliveredOnce, TodoIsAhead
<1>4. QED BY <1>1, <1>2, <1>3

\* Hwm takes rows above its mark, and publishes them from the lowest up.
LEMMA HwmKeepsIInv ==
    ASSUME IInv, hwmSelect \/ hwmPublish
    PROVE  IInv'
<1> USE DEF IInv, TypeOK, Id
<1>1. CASE hwmSelect
  BY <1>1 DEF hwmSelect, FirstOf, Beyond, writers, relays, DisjointBatches, DeliveredOnce,
              TodoIsAhead
<1>2. CASE hwmPublish
  BY <1>2 DEF hwmPublish, writers, relays, DisjointBatches, DeliveredOnce, TodoIsAhead
<1>3. QED BY <1>1, <1>2

\* Who dies leaves its locks and its open transaction, and nothing else.
LEMMA DieKeepsIInv ==
    ASSUME IInv, NEW t \in Writer \cup Relay \cup {Hwm}, die(t)
    PROVE  IInv'
<1> USE DEF IInv
<1>1. TypeOK'
  <2>1. writing' \in [Writer -> 0..MaxId]
    BY OutboxAssumption DEF TypeOK, die
  <2>2. batch' \in [Relay -> SUBSET Id]
    BY DEF TypeOK, die
  <2>3. QED BY <2>1, <2>2 DEF TypeOK, die, hwm
<1>2. DisjointBatches'  BY DEF TypeOK, DisjointBatches, die
<1>3. DeliveredOnce'    BY DEF DeliveredOnce, die
<1>4. TodoIsAhead'      BY DEF TodoIsAhead, die, hwm
<1>5. QED BY <1>1, <1>2, <1>3, <1>4

\* A step that changes nothing.
LEMMA StutterKeepsIInv == IInv /\ UNCHANGED vars => IInv'
BY DEF vars, writers, relays, hwm, IInv, TypeOK, DisjointBatches, DeliveredOnce, TodoIsAhead

\* The invariant is inductive.
LEMMA NextKeepsIInv == IInv /\ [Next]_vars => IInv'
BY WritersKeepIInv, PublishKeepsIInv, LookKeepsIInv, HwmKeepsIInv, DieKeepsIInv,
   StutterKeepsIInv DEF Next, Relay

\* However many relay_skip_locked, poller and listener threads run, and wherever
\* they die: no row is delivered twice, or delivered and not marked, or marked and
\* not delivered.
THEOREM NoDuplicates == Spec => [](DisjointBatches /\ DeliveredOnce)
<1>1. IInv => DisjointBatches /\ DeliveredOnce  BY DEF IInv
<1>2. QED BY <1>1, InitIInv, NextKeepsIInv, PTL DEF Spec

\* relay_high_water_mark never delivers what its mark has passed.
THEOREM NeverBack == Spec => NeverLooksBack
<1>1. ASSUME IInv, Next, NEW o \in Id, o <= last_seen
      PROVE  hwmDelivered'[o] = hwmDelivered[o]
  <2>1. CASE hwmPublish
    BY <1>1, <2>1 DEF hwmPublish, IInv, TypeOK, TodoIsAhead, Id
  <2>2. CASE ~hwmPublish
    BY <1>1, <2>2 DEF Next, insert, stamp, commit, poll, wake, miss, publish, hwmSelect, die, hwm
  <2>3. QED BY <2>1, <2>2
<1>2. IInv /\ [Next]_vars =>
        [\A o \in Id : o <= last_seen => hwmDelivered'[o] = hwmDelivered[o]]_vars
  BY <1>1
<1>3. QED BY <1>2, InitIInv, NextKeepsIInv, PTL DEF Spec, NeverLooksBack
=============================================================================
