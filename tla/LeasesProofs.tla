---------------------------- MODULE LeasesProofs ----------------------------
(***************************************************************************)
(* What the statements on the lease and on the payouts keep, whichever     *)
(* program issues them and for any number of workers, keys and epochs: the *)
(* elected relay (FencedRelayProofs) and the demo (BenchProofs) use it.    *)
(***************************************************************************)
EXTENDS Leases, TLAPS

LeaseType  == [holder : Worker \cup {None}, epoch : Nat, expired : BOOLEAN]
PayoutType == [status : {"pending", "sent"}, fence : Nat, sent_by : Worker \cup {None}]

\* The row that an acquisition leaves.
LEMMA AcquireType ==
    ASSUME LeasesOK, NEW w \in Worker, acquire(w) PROVE lease' \in LeaseType
BY DEF LeasesOK, acquire, Acquired, LeaseType

\* Empty tables, and nobody holds an epoch.
LEMMA LeasesStart == LeasesInit => LeasesOK /\ EpochInv
BY LeaseAssumption
   DEF LeasesInit, NoLease, Pending, LeasesOK,
       EpochInv, OneHolderPerEpoch, BeliefsArePast, FencesArePast

\* Workers that only forget, and a lease that only expires or is renewed.
LEMMA EpochFrame ==
    ASSUME LeasesOK, EpochInv,
           lease'.holder = lease.holder, lease'.epoch = lease.epoch,
           payouts' = payouts,
           \A w \in Worker : epoch'[w] = epoch[w] \/ epoch'[w] = None
    PROVE  EpochInv'
<1> USE DEF EpochInv
<1>0. \A k \in Key : payouts[k].fence \in Nat
  BY DEF LeasesOK
<1>1. OneHolderPerEpoch' /\ BeliefsArePast'
  BY DEF OneHolderPerEpoch, BeliefsArePast
<1>2. FencesArePast'
  BY <1>0, LeaseAssumption DEF FencesArePast
<1> QED
  BY <1>1, <1>2

\* An acquisition makes an epoch that nobody has and no fence carries, whether
\* or not its worker learns of it.
LEMMA EpochTaken ==
    ASSUME LeasesOK, EpochInv, NEW w \in Worker, lease' = Acquired(w),
           payouts' = payouts,
           epoch' = epoch \/ epoch' = [epoch EXCEPT ![w] = lease'.epoch]
    PROVE  EpochInv'
<1>0. /\ lease.epoch \in Nat /\ epoch \in [Worker -> Nat \cup {None}]
      /\ \A k \in Key : payouts[k].fence \in Nat
  BY DEF LeasesOK
<1>1. lease'.epoch = lease.epoch + 1 /\ lease'.holder = w
  BY DEF Acquired
<1>2. \A v \in Worker : epoch[v] # None => 0 < epoch[v] /\ epoch[v] <= lease.epoch
  BY DEF EpochInv, BeliefsArePast
<1>3. OneHolderPerEpoch'
  BY <1>0, <1>1, <1>2, LeaseAssumption DEF EpochInv, OneHolderPerEpoch
<1>4. BeliefsArePast'
  BY <1>0, <1>1, <1>2, LeaseAssumption DEF BeliefsArePast
<1>5. FencesArePast'
  BY <1>0, <1>1, LeaseAssumption DEF EpochInv, FencesArePast
<1> QED
  BY <1>3, <1>4, <1>5 DEF EpochInv

\* The INSERT ... ON CONFLICT DO UPDATE, taken or not, learnt of or not.
LEMMA EpochAcquire ==
    ASSUME LeasesOK, EpochInv, NEW w \in Worker, acquire(w), payouts' = payouts,
           \/ epoch' = epoch
           \/ lease.expired /\ epoch' = [epoch EXCEPT ![w] = lease'.epoch]
           \/ ~lease.expired /\ epoch' = [epoch EXCEPT ![w] = None]
    PROVE  EpochInv'
<1>1. CASE lease.expired
  BY <1>1, EpochTaken DEF acquire
<1>2. CASE ~lease.expired
  BY <1>2, EpochFrame DEF acquire, LeasesOK
<1> QED
  BY <1>1, <1>2

\* A payout leaves the fence of its worker, whose epoch nobody shares, or the
\* fence 0 of a worker that holds none.
LEMMA EpochPaid ==
    ASSUME LeasesOK, EpochInv, NEW w \in Worker, NEW k \in Key, NEW e,
           (e = epoch[w] /\ epoch[w] # None) \/ e = 0,
           Pay(w, k, e), lease' = lease, epoch' = epoch
    PROVE  EpochInv'
<1>0. /\ lease.epoch \in Nat /\ epoch \in [Worker -> Nat \cup {None}]
      /\ payouts \in [Key -> PayoutType] /\ e \in Nat
  BY DEF LeasesOK, PayoutType
<1>1. payouts'[k].fence = e /\ payouts'[k].sent_by = w
  BY <1>0 DEF Pay
<1>2. \A j \in Key \ {k} : payouts'[j] = payouts[j]
  BY <1>0 DEF Pay
<1>3. OneHolderPerEpoch' /\ BeliefsArePast'
  BY DEF EpochInv, OneHolderPerEpoch, BeliefsArePast
<1>4. \A j \in Key \ {k} :
         /\ payouts'[j].fence <= lease'.epoch
         /\ payouts'[j].fence # 0 =>
               /\ \A v \in Worker : payouts'[j].fence = epoch'[v] => payouts'[j].sent_by = v
               /\ payouts'[j].fence = lease'.epoch => payouts'[j].sent_by = lease'.holder
  BY <1>2 DEF EpochInv, FencesArePast
<1>5. e <= lease.epoch
  BY <1>0 DEF EpochInv, BeliefsArePast
<1>6. e # 0 => (\A v \in Worker : e = epoch[v] => w = v) /\ (e = lease.epoch => w = lease.holder)
  BY <1>0 DEF EpochInv, OneHolderPerEpoch, BeliefsArePast
<1>7. FencesArePast'
  BY <1>1, <1>4, <1>5, <1>6 DEF FencesArePast
<1> QED
  BY <1>3, <1>7 DEF EpochInv
=============================================================================
