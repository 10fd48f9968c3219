-------------------------- MODULE FencedRelayProofs --------------------------
(***************************************************************************)
(* Fencing in relay7.py, for any number of workers, keys and epochs.       *)
(***************************************************************************)
EXTENDS FencedRelay, LeasesProofs

PcType == {"batch", "record", "timer", "renew", "take", "retake"}

\* The cursor over the keys stays a key.
LEMMA NextKeyType == ASSUME NEW k \in Key PROVE NextKey(k) \in Key
<1> DEFINE m == k + 1
<1>1. m \in Int /\ KEYS \in Int /\ KEYS > 0
  BY RelayAssumption
<1>2. m % KEYS \in 0..KEYS - 1
  BY <1>1
<1> QED
  BY <1>2, RelayAssumption DEF NextKey

\* What a pass, an exception and an acquisition leave the local state as.
LEMMA NextPassType ==
    ASSUME TypeOK, NEW w \in Worker, NEW e, NextPass(w, e)
    PROVE  pc' \in [Worker -> PcType] /\ n' \in [Worker -> 0..BATCH]
<1>1. 0 \in 0..BATCH
  BY RelayAssumption
<1> QED
  BY <1>1 DEF NextPass, TypeOK, PcType

LEMMA RaisesType ==
    ASSUME TypeOK, NEW w \in Worker, Raises(w)
    PROVE  /\ pc' \in [Worker -> PcType] /\ n' \in [Worker -> 0..BATCH]
           /\ epoch' \in [Worker -> Nat \cup {None}] /\ i' \in [Worker -> Key]
           /\ errors' \in 0..MaxErrors
<1>1. NextPass(w, epoch[w])
  BY DEF Raises
<1>2. pc' \in [Worker -> PcType] /\ n' \in [Worker -> 0..BATCH]
  BY <1>1, NextPassType
<1>3. errors' \in 0..MaxErrors
  BY RelayAssumption DEF Raises, TypeOK
<1> QED
  BY <1>2, <1>3 DEF Raises, TypeOK, LeasesOK

LEMMA TypeInit == Init => TypeOK
BY RelayAssumption, LeaseAssumption
   DEF Init, LeasesInit, NoLease, Pending, TypeOK, LeasesOK

\* TypeOK by its parts, the way the steps establish it.
LEMMA TypeParts ==
    ASSUME lease' \in LeaseType, payouts' \in [Key -> PayoutType], attempted' \in Nat,
           epoch' \in [Worker -> Nat \cup {None}], pc' \in [Worker -> PcType],
           i' \in [Worker -> Key], n' \in [Worker -> 0..BATCH],
           stopped' \in SUBSET Worker, errors' \in 0..MaxErrors
    PROVE  TypeOK'
BY DEF TypeOK, LeasesOK, LeaseType, PayoutType, PcType

LEMMA TypeStep == TypeOK /\ ActsOnAnEpoch /\ BatchEnds /\ [Next]_vars => TypeOK'
<1> SUFFICES ASSUME TypeOK, ActsOnAnEpoch, BatchEnds, [Next]_vars PROVE TypeOK'
  OBVIOUS
<1>t. /\ lease \in LeaseType /\ payouts \in [Key -> PayoutType] /\ attempted \in Nat
      /\ epoch \in [Worker -> Nat \cup {None}] /\ pc \in [Worker -> PcType]
      /\ i \in [Worker -> Key] /\ n \in [Worker -> 0..BATCH]
      /\ stopped \in SUBSET Worker /\ errors \in 0..MaxErrors
  BY DEF TypeOK, LeasesOK, LeaseType, PayoutType, PcType
<1>1. CASE \E w \in Worker : payout(w)
  <2> PICK w \in Worker : payout(w)
    BY <1>1
  <2>1. i[w] \in Key /\ epoch[w] \in Nat
    BY <1>t DEF payout, At, ActsOnAnEpoch
  <2>2. payouts' \in [Key -> PayoutType]
    BY <1>t, <2>1 DEF payout, Pay, PayoutType
  <2>3. lease' = lease /\ attempted' = attempted /\ stopped' = stopped
    BY DEF payout
  <2>4. CASE Raises(w)
    BY <1>t, <2>2, <2>3, <2>4, RaisesType, TypeParts
  <2>5. CASE pc' = [pc EXCEPT ![w] = "record"] /\ UNCHANGED <<epoch, i, n, errors>>
    <3>1. pc' \in [Worker -> PcType]
      BY <1>t, <2>5 DEF PcType
    <3> QED
      BY <1>t, <2>2, <2>3, <2>5, <3>1, TypeParts
  <2> QED
    BY <2>4, <2>5 DEF payout
<1>2. CASE \E w \in Worker : record(w)
  <2> PICK w \in Worker : record(w)
    BY <1>2
  <2>1. epoch[w] \in Nat /\ n[w] \in 0..BATCH /\ n[w] < BATCH /\ i[w] \in Key
    BY <1>t DEF record, At, ActsOnAnEpoch, BatchEnds
  <2>2. attempted' \in Nat
    BY <1>t, <2>1 DEF record, Record
  <2>3. lease' = lease /\ payouts' = payouts /\ stopped' = stopped
    BY DEF record
  <2>4. CASE Raises(w)
    BY <1>t, <2>2, <2>3, <2>4, RaisesType, TypeParts
  <2>5. CASE /\ i' = [i EXCEPT ![w] = NextKey(@)]
             /\ n' = [n EXCEPT ![w] = @ + 1]
             /\ pc' = [pc EXCEPT ![w] = IF n[w] + 1 < BATCH THEN "batch" ELSE "timer"]
             /\ UNCHANGED <<epoch, errors>>
    <3>1. NextKey(i[w]) \in Key
      BY <2>1, NextKeyType
    <3>2. n[w] + 1 \in 0..BATCH
      BY <2>1, RelayAssumption
    <3>3. i' \in [Worker -> Key]
      BY <1>t, <2>5, <3>1
    <3>4. n' \in [Worker -> 0..BATCH]
      BY <1>t, <2>5, <3>2
    <3>5. pc' \in [Worker -> PcType]
      BY <1>t, <2>5 DEF PcType
    <3> QED
      BY <1>t, <2>2, <2>3, <2>5, <3>3, <3>4, <3>5, TypeParts
  <2> QED
    BY <2>4, <2>5 DEF record
<1>3. CASE \E w \in Worker : timer(w)
  <2> PICK w \in Worker : timer(w)
    BY <1>3
  <2>1. pc' \in [Worker -> PcType] /\ n' \in [Worker -> 0..BATCH]
    <3>1. CASE NextPass(w, epoch[w])
      BY <3>1, NextPassType
    <3>2. CASE /\ pc' = [pc EXCEPT ![w] = IF epoch[w] = None THEN "retake" ELSE "renew"]
               /\ UNCHANGED n
      BY <1>t, <3>2 DEF PcType
    <3> QED
      BY <3>1, <3>2 DEF timer
  <2> QED
    BY <1>t, <2>1, TypeParts DEF timer, tables
<1>4. CASE \E w \in Worker : renew(w)
  <2> PICK w \in Worker : renew(w)
    BY <1>4
  <2>1. lease' \in LeaseType
    BY <1>t DEF renew, LeaseType
  <2>2. payouts' = payouts /\ attempted' = attempted /\ stopped' = stopped
    BY DEF renew
  <2>3. CASE Raises(w)
    BY <1>t, <2>1, <2>2, <2>3, RaisesType, TypeParts
  <2>4. CASE NextPass(w, epoch[w]) /\ UNCHANGED <<epoch, i, errors>>
    BY <1>t, <2>1, <2>2, <2>4, NextPassType, TypeParts
  <2>5. CASE pc' = [pc EXCEPT ![w] = "take"] /\ UNCHANGED <<epoch, i, n, errors>>
    <3>1. pc' \in [Worker -> PcType]
      BY <1>t, <2>5 DEF PcType
    <3> QED
      BY <1>t, <2>1, <2>2, <2>5, <3>1, TypeParts
  <2> QED
    BY <2>3, <2>4, <2>5 DEF renew
<1>5. CASE \E w \in Worker : take(w)
  <2> PICK w \in Worker : take(w)
    BY <1>5
  <2>1. lease' \in LeaseType
    BY AcquireType DEF take, TypeOK
  <2>2. payouts' = payouts /\ attempted' = attempted /\ stopped' = stopped
    BY DEF take
  <2>3. CASE Raises(w)
    BY <1>t, <2>1, <2>2, <2>3, RaisesType, TypeParts
  <2>4. CASE /\ epoch' = [epoch EXCEPT ![w] = lease'.epoch]
             /\ NextPass(w, lease'.epoch) /\ UNCHANGED <<i, errors>>
    <3>1. epoch' \in [Worker -> Nat \cup {None}]
      BY <1>t, <2>1, <2>4 DEF LeaseType
    <3> QED
      BY <1>t, <2>1, <2>2, <2>4, <3>1, NextPassType, TypeParts
  <2>5. CASE /\ epoch' = [epoch EXCEPT ![w] = None]
             /\ pc' = [pc EXCEPT ![w] = "retake"] /\ UNCHANGED <<i, n, errors>>
    <3>1. epoch' \in [Worker -> Nat \cup {None}] /\ pc' \in [Worker -> PcType]
      BY <1>t, <2>5 DEF PcType
    <3> QED
      BY <1>t, <2>1, <2>2, <2>5, <3>1, TypeParts
  <2> QED
    BY <2>3, <2>4, <2>5 DEF take
<1>6. CASE \E w \in Worker : retake(w)
  <2> PICK w \in Worker : retake(w)
    BY <1>6
  <2>1. lease' \in LeaseType
    BY AcquireType DEF retake, TypeOK
  <2>2. payouts' = payouts /\ attempted' = attempted /\ stopped' = stopped
    BY DEF retake
  <2>3. CASE Raises(w)
    BY <1>t, <2>1, <2>2, <2>3, RaisesType, TypeParts
  <2>4. CASE /\ epoch' = [epoch EXCEPT ![w] = lease'.epoch]
             /\ NextPass(w, lease'.epoch) /\ UNCHANGED <<i, errors>>
    <3>1. epoch' \in [Worker -> Nat \cup {None}]
      BY <1>t, <2>1, <2>4 DEF LeaseType
    <3> QED
      BY <1>t, <2>1, <2>2, <2>4, <3>1, NextPassType, TypeParts
  <2>5. CASE NextPass(w, None) /\ UNCHANGED <<epoch, i, errors>>
    BY <1>t, <2>1, <2>2, <2>5, NextPassType, TypeParts
  <2> QED
    BY <2>3, <2>4, <2>5 DEF retake
<1>7. CASE \E w \in Worker : fail(w)
  BY <1>t, <1>7, RaisesType, TypeParts DEF fail, tables
<1>8. CASE \E w \in Worker : stop(w)
  BY <1>t, <1>8, TypeParts DEF stop, tables, memory
<1>9. CASE expire
  <2>1. lease' \in LeaseType
    BY <1>t, <1>9 DEF expire, Expire, LeaseType
  <2> QED
    BY <1>t, <1>9, <2>1, TypeParts DEF expire, Expire, memory
<1>10. CASE UNCHANGED vars
  BY <1>t, <1>10, TypeParts DEF vars, tables, memory
<1> QED
  BY <1>1, <1>2, <1>3, <1>4, <1>5, <1>6, <1>7, <1>8, <1>9, <1>10 DEF Next

-----------------------------------------------------------------------------
(* The control invariants: who acts has an epoch, and batches end. *)

LocalInv == ActsOnAnEpoch /\ BatchEnds

\* The end of a pass re-establishes both.
LEMMA NextPassLocal ==
    ASSUME TypeOK, LocalInv, NEW w \in Worker, NEW e, NextPass(w, e),
           epoch' = epoch \/ epoch' = [epoch EXCEPT ![w] = e],
           e # None => epoch'[w] # None
    PROVE  LocalInv'
BY RelayAssumption
   DEF TypeOK, LeasesOK, LocalInv, ActsOnAnEpoch, BatchEnds, NextPass

LEMMA RaisesLocal ==
    ASSUME TypeOK, LocalInv, NEW w \in Worker, Raises(w) PROVE LocalInv'
BY NextPassLocal DEF Raises

LEMMA LocalStep == TypeOK /\ LocalInv /\ [Next]_vars => LocalInv'
<1> SUFFICES ASSUME TypeOK, LocalInv, [Next]_vars PROVE LocalInv'
  OBVIOUS
<1> USE DEF LocalInv, ActsOnAnEpoch, BatchEnds
<1>t. /\ lease \in LeaseType /\ epoch \in [Worker -> Nat \cup {None}]
      /\ pc \in [Worker -> PcType] /\ n \in [Worker -> 0..BATCH]
  BY DEF TypeOK, LeasesOK, LeaseType, PcType
<1>1. ASSUME NEW w \in Worker, payout(w) PROVE LocalInv'
  <2>1. CASE pc' = [pc EXCEPT ![w] = "record"] /\ UNCHANGED <<epoch, i, n, errors>>
    BY <1>t, <1>1, <2>1 DEF payout, At
  <2> QED
    BY <1>1, <2>1, RaisesLocal DEF payout
<1>2. ASSUME NEW w \in Worker, record(w) PROVE LocalInv'
  <2>1. CASE /\ n' = [n EXCEPT ![w] = @ + 1]
             /\ pc' = [pc EXCEPT ![w] = IF n[w] + 1 < BATCH THEN "batch" ELSE "timer"]
             /\ UNCHANGED epoch
    BY <1>t, <1>2, <2>1 DEF record, At
  <2> QED
    BY <1>2, <2>1, RaisesLocal DEF record
<1>3. ASSUME NEW w \in Worker, timer(w) PROVE LocalInv'
  <2>1. CASE /\ pc' = [pc EXCEPT ![w] = IF epoch[w] = None THEN "retake" ELSE "renew"]
             /\ UNCHANGED n
    BY <1>t, <1>3, <2>1 DEF timer
  <2>2. CASE NextPass(w, epoch[w])
    BY <1>3, <2>2, NextPassLocal DEF timer
  <2> QED
    BY <1>3, <2>1, <2>2 DEF timer
<1>4. ASSUME NEW w \in Worker, renew(w) PROVE LocalInv'
  <2>1. CASE pc' = [pc EXCEPT ![w] = "take"] /\ UNCHANGED <<epoch, i, n, errors>>
    BY <1>t, <1>4, <2>1 DEF renew, At
  <2>2. CASE NextPass(w, epoch[w]) /\ UNCHANGED <<epoch, i, errors>>
    BY <2>2, NextPassLocal
  <2> QED
    BY <1>4, <2>1, <2>2, RaisesLocal DEF renew
<1>5. ASSUME NEW w \in Worker, acquire(w), lease.expired,
             epoch' = [epoch EXCEPT ![w] = lease'.epoch], NextPass(w, lease'.epoch)
      PROVE  LocalInv'
  <2>1. lease'.epoch \in Nat /\ epoch'[w] = lease'.epoch
    BY <1>t, <1>5 DEF acquire, Acquired, LeaseType
  <2>2. epoch'[w] # None
    BY <2>1, LeaseAssumption
  <2> QED
    BY <1>5, <2>2, NextPassLocal
<1>6. ASSUME NEW w \in Worker, take(w) PROVE LocalInv'
  <2>1. CASE /\ epoch' = [epoch EXCEPT ![w] = None]
             /\ pc' = [pc EXCEPT ![w] = "retake"] /\ UNCHANGED <<i, n, errors>>
    BY <1>t, <2>1
  <2> QED
    BY <1>5, <1>6, <2>1, RaisesLocal DEF take
<1>7. ASSUME NEW w \in Worker, retake(w) PROVE LocalInv'
  <2>1. CASE NextPass(w, None) /\ UNCHANGED <<epoch, i, errors>>
    BY <2>1, NextPassLocal
  <2> QED
    BY <1>5, <1>7, <2>1, RaisesLocal DEF retake
<1>8. ASSUME NEW w \in Worker, fail(w) PROVE LocalInv'
  BY <1>8, RaisesLocal DEF fail
<1>9. CASE UNCHANGED memory /\ UNCHANGED epoch
  BY <1>9 DEF memory
<1> QED
  BY <1>1, <1>2, <1>3, <1>4, <1>6, <1>7, <1>8, <1>9
     DEF Next, stop, expire, vars, memory

-----------------------------------------------------------------------------
(* The epochs. *)

\* A payout leaves the fence of its worker, whose epoch nobody shares.
LEMMA EpochPayout ==
    ASSUME TypeOK, LocalInv, EpochInv, NEW w \in Worker, payout(w)
    PROVE  EpochInv'
<1> DEFINE k == i[w]
<1>0. /\ lease.epoch \in Nat /\ epoch \in [Worker -> Nat \cup {None}]
      /\ k \in Key /\ epoch[w] # None /\ epoch[w] \in Nat
      /\ payouts \in [Key -> PayoutType]
  BY DEF TypeOK, LeasesOK, payout, At, LocalInv, ActsOnAnEpoch, PayoutType
<1>1. lease' = lease /\ epoch' = epoch
  BY DEF payout, Raises
<1>2. CASE payouts' = payouts
  BY <1>1, <1>2, EpochFrame DEF TypeOK
<1>3. CASE Pay(w, k, epoch[w])
  BY <1>0, <1>1, <1>3, EpochPaid DEF TypeOK
<1> QED
  BY <1>2, <1>3 DEF payout

LEMMA EpochStep == TypeOK /\ LocalInv /\ EpochInv /\ [Next]_vars => EpochInv'
<1> SUFFICES ASSUME TypeOK, LocalInv, EpochInv, [Next]_vars PROVE EpochInv'
  OBVIOUS
<1>o. LeasesOK
  BY DEF TypeOK
<1>t. lease \in LeaseType /\ epoch \in [Worker -> Nat \cup {None}]
  BY <1>o DEF LeasesOK, LeaseType
<1>1. ASSUME NEW w \in Worker, record(w) PROVE EpochInv'
  BY <1>o, <1>1, EpochFrame DEF record, Raises
<1>2. ASSUME NEW w \in Worker, renew(w) PROVE EpochInv'
  <2>1. lease'.holder = lease.holder /\ lease'.epoch = lease.epoch
    BY <1>t, <1>2 DEF renew, LeaseType
  <2> QED
    BY <1>o, <1>2, <2>1, EpochFrame DEF renew, Raises
<1>3. ASSUME NEW w \in Worker, take(w) PROVE EpochInv'
  BY <1>o, <1>3, EpochAcquire DEF take, Raises
<1>4. ASSUME NEW w \in Worker, retake(w) PROVE EpochInv'
  BY <1>o, <1>4, EpochAcquire DEF retake, Raises
<1>5. ASSUME NEW w \in Worker, fail(w) PROVE EpochInv'
  BY <1>o, <1>5, EpochFrame DEF fail, Raises, tables
<1>6. CASE expire
  <2>1. lease'.holder = lease.holder /\ lease'.epoch = lease.epoch
    BY <1>t, <1>6 DEF expire, Expire, LeaseType
  <2> QED
    BY <1>o, <1>6, <2>1, EpochFrame DEF expire, Expire, memory
<1>7. CASE UNCHANGED <<tables, epoch>>
  BY <1>o, <1>7, EpochFrame DEF tables
<1> QED
  BY <1>1, <1>2, <1>3, <1>4, <1>5, <1>6, <1>7, EpochPayout
     DEF Next, timer, stop, vars, memory

-----------------------------------------------------------------------------
LEMMA RelayInit == Init => RelayInv
BY LeaseAssumption
   DEF Init, LeasesInit, NoLease, Pending, RelayInv, ActsOnAnEpoch, BatchEnds,
       EpochInv, OneHolderPerEpoch, BeliefsArePast, FencesArePast

\* The relays, their exceptions and their pauses keep RelayInv: in particular no
\* two workers ever believe in the same epoch.
THEOREM RelayInvariant == Spec => [](TypeOK /\ RelayInv)
<1>1. Init => TypeOK /\ RelayInv
  BY TypeInit, RelayInit
<1>2. TypeOK /\ RelayInv /\ [Next]_vars => (TypeOK /\ RelayInv)'
  BY TypeStep, LocalStep, EpochStep DEF RelayInv, LocalInv
<1> QED
  BY <1>1, <1>2, PTL DEF Spec

\* With FENCING=1 the WHERE clause of do_payout refuses every duplicate payout:
\* a key that was paid under an epoch is paid again only by the holder of that
\* epoch or under a newer one.
THEOREM FencedPayouts == FENCING /\ Spec => PaidOncePerEpoch
<1> DEFINE Once == \A k \in Key :
              \/ payouts'[k] = payouts[k]
              \/ payouts'[k].fence > payouts[k].fence
              \/ /\ payouts'[k].fence = payouts[k].fence
                 /\ payouts'[k].sent_by = payouts[k].sent_by
<1>1. FENCING /\ TypeOK /\ RelayInv /\ [Next]_vars => [Once]_payouts
  <2> SUFFICES ASSUME FENCING, TypeOK, RelayInv, [Next]_vars, payouts' # payouts
               PROVE  Once
    OBVIOUS
  <2>1. PICK w \in Worker : payout(w)
    BY DEF Next, record, timer, renew, take, retake, fail, stop, expire, Expire,
           vars, tables
  <2>2. /\ i[w] \in Key /\ payouts \in [Key -> PayoutType]
        /\ epoch[w] # None /\ epoch[w] \in Nat
    BY <2>1 DEF TypeOK, LeasesOK, PayoutType, payout, At, RelayInv, ActsOnAnEpoch
  <2>3. Pay(w, i[w], epoch[w]) /\ payouts[i[w]].fence <= epoch[w]
    BY <2>1 DEF payout, Accepts
  <2>4. /\ payouts'[i[w]].fence = epoch[w] /\ payouts'[i[w]].sent_by = w
        /\ \A k \in Key \ {i[w]} : payouts'[k] = payouts[k]
    BY <2>2, <2>3 DEF Pay
  <2>5. payouts[i[w]].fence = epoch[w] => payouts[i[w]].sent_by = w
    <3>1. 0 < epoch[w]
      BY <2>2 DEF RelayInv, EpochInv, BeliefsArePast
    <3> QED
      BY <2>2, <3>1 DEF RelayInv, EpochInv, FencesArePast
  <2>6. payouts[i[w]].fence \in Nat
    BY <2>2 DEF PayoutType
  <2> QED
    BY <2>2, <2>3, <2>4, <2>5, <2>6
<1>2. FENCING /\ [](TypeOK /\ RelayInv) /\ [][Next]_vars => [][Once]_payouts
  <2>1. CASE FENCING
    <3>1. TypeOK /\ RelayInv /\ [Next]_vars => [Once]_payouts
      BY <1>1, <2>1
    <3> QED
      BY <3>1, PTL
  <2>2. CASE ~FENCING
    BY <2>2
  <2> QED
    BY <2>1, <2>2, LeaseAssumption
<1> QED
  BY <1>2, RelayInvariant DEF Spec, PaidOncePerEpoch
=============================================================================
