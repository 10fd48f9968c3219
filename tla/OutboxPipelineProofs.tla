------------------------ MODULE OutboxPipelineProofs ------------------------
(***************************************************************************)
(* For any number of requests, any batch size and however often the API,   *)
(* the broker, the relay and the consumer fail: what is marked published   *)
(* is in the topic, and an event takes effect at most once.                *)
(***************************************************************************)
EXTENDS OutboxPipeline, SequenceTheorems, FiniteSetTheorems, TLAPS

EventIds == {0} \cup Charge

TypeOK ==
    /\ mode \in {"v0", "v1"}
    /\ request \in [Charge -> {"new", "enqueued", "charged", "published", "event lost",
                               "no answer"}]
    /\ charged \in SUBSET Charge /\ outbox \in SUBSET Charge
    /\ published \in SUBSET Charge /\ batch \in SUBSET Charge /\ acked \in SUBSET Charge
    /\ relay \in {"select", "flush", "mark"}
    /\ topic \in Seq(Charge)
    /\ consumer \in {"poll", "deliver", "effect"}
    /\ delivered \in [EventIds -> Nat] /\ effects \in [EventIds -> Nat]

\* Whoever is going to publish has committed the charge first.
ChargedFirst ==
    /\ batch \subseteq outbox /\ outbox \subseteq charged
    /\ \A c \in Charge : request[c] = "charged" => c \in charged
    /\ Range(topic) \subseteq charged

\* A good report, and all that is built on one, is about a message in the topic.
ReportedIsInTheTopic ==
    /\ acked \subseteq Range(topic)
    /\ published \subseteq Range(topic)
    /\ \A c \in Charge : request[c] = "published" => c \in Range(topic)

\* The consumer has a message of the topic at hand when it works on one.
PositionIsInTheTopic ==
    /\ position \in 0..Len(topic) /\ offset \in 0..position
    /\ consumer # "poll" => position # 0

\* Every failure is counted.
FailuresAreCounted == failures \in 0..MaxFailures

\* The delivery is on record before the effect is tried.
EffectsFollowDeliveries ==
    /\ \A e \in EventIds : effects[e] <= 1 /\ effects[e] <= delivered[e]
    /\ consumer = "effect" => delivered[Event] > 0

PipelineInv ==
    /\ TypeOK
    /\ ChargedFirst
    /\ ReportedIsInTheTopic
    /\ PositionIsInTheTopic
    /\ EffectsFollowDeliveries
    /\ FailuresAreCounted

-----------------------------------------------------------------------------
(* The topic only grows. *)

\* u is the topic with the messages of S behind it.
Grown(u, S) ==
    /\ u \in Seq(Charge)
    /\ Len(topic) <= Len(u)
    /\ \A i \in 1..Len(topic) : u[i] = topic[i]
    /\ Range(u) = Range(topic) \cup S

\* What a sequence has behind another is added to its elements.
LEMMA ConcatGrows ==
    ASSUME topic \in Seq(Charge), NEW s \in Seq(Charge)
    PROVE  Grown(topic \o s, Range(s))
<1> DEFINE u == topic \o s
<1>1. /\ u \in Seq(Charge)
      /\ Len(u) = Len(topic) + Len(s)
      /\ \A i \in 1..Len(topic) + Len(s) :
            u[i] = IF i <= Len(topic) THEN topic[i] ELSE s[i - Len(topic)]
  BY ConcatProperties
<1> HIDE DEF u
<1>2. /\ Len(topic) \in Nat /\ DOMAIN topic = 1..Len(topic)
      /\ Len(s) \in Nat /\ DOMAIN s = 1..Len(s)
      /\ DOMAIN u = 1..Len(u)
  BY <1>1, LenProperties
<1>3. \A i \in 1..Len(topic) : u[i] = topic[i]
  BY <1>1, <1>2
<1>4. \A i \in 1..Len(s) : u[Len(topic) + i] = s[i]
  <2>1. TAKE i \in 1..Len(s)
  <2>2. /\ Len(topic) + i \in 1..Len(topic) + Len(s)
        /\ ~(Len(topic) + i <= Len(topic))
        /\ (Len(topic) + i) - Len(topic) = i
    BY <1>2
  <2>3. QED BY <1>1, <2>2
<1>5. Range(topic) \cup Range(s) \subseteq Range(u)
  <2>1. ASSUME NEW c \in Range(topic)  PROVE c \in Range(u)
    BY <1>1, <1>2, <1>3 DEF Range
  <2>2. ASSUME NEW c \in Range(s)  PROVE c \in Range(u)
    <3>1. PICK i \in 1..Len(s) : c = s[i]
      BY <1>2 DEF Range
    <3>2. Len(topic) + i \in DOMAIN u  BY <1>1, <1>2
    <3>3. QED BY <1>4, <3>1, <3>2 DEF Range
  <2>3. QED BY <2>1, <2>2
<1>6. Range(u) \subseteq Range(topic) \cup Range(s)
  <2>1. SUFFICES ASSUME NEW i \in DOMAIN u
                 PROVE  u[i] \in Range(topic) \cup Range(s)
    BY DEF Range
  <2>2. CASE i <= Len(topic)
    BY <1>1, <1>2, <2>2 DEF Range
  <2>3. CASE ~(i <= Len(topic))
    <3>1. i - Len(topic) \in DOMAIN s  BY <1>1, <1>2, <2>3
    <3>2. QED BY <1>1, <1>2, <2>3, <3>1 DEF Range
  <2>4. QED BY <2>2, <2>3
<1>7. QED BY <1>1, <1>2, <1>3, <1>5, <1>6 DEF Grown, u

\* A message at the end of the topic.
LEMMA AppendGrows ==
    ASSUME topic \in Seq(Charge), NEW c \in Charge
    PROVE  Grown(Append(topic, c), {c})
<1>1. <<c>> \in Seq(Charge) /\ Range(<<c>>) = {c}
  BY DEF Range
<1>2. Append(topic, c) = topic \o <<c>>
  BY AppendIsConcat
<1>3. QED BY <1>1, <1>2, ConcatGrows

\* The rows of a batch can be listed as a sequence of them.
LEMMA InOrderIsASequence ==
    ASSUME NEW S \in SUBSET Charge, NEW s \in InOrder(S)
    PROVE  s \in Seq(Charge) /\ Range(s) = S
<1>1. Cardinality(S) \in Nat
  <2>1. IsFiniteSet(Charge)
    BY PipelineAssumption, FS_Interval DEF Charge
  <2>2. QED BY <2>1, FS_Subset, FS_CardinalityType
<1>2. s \in [1..Cardinality(S) -> S] /\ Range(s) = S
  BY DEF InOrder
<1>3. QED BY <1>1, <1>2

-----------------------------------------------------------------------------
(* The invariant, action by action. *)

\* Nothing is charged, sent or consumed at first.
LEMMA InitPipeline == Init => PipelineInv
<1>1. SUFFICES ASSUME Init  PROVE PipelineInv
  OBVIOUS
<1>2. topic = << >> /\ Range(topic) = {} /\ Len(topic) = 0
  BY <1>1 DEF Init, Range
<1>3. TypeOK
  BY <1>1 DEF Init, TypeOK, EventIds
<1>4. QED
  BY <1>1, <1>2, <1>3 DEF Init, PipelineInv, ChargedFirst, ReportedIsInTheTopic,
     PositionIsInTheTopic, EffectsFollowDeliveries, FailuresAreCounted, EventIds

\* The bound on what goes wrong holds at every step.
LEMMA NextCountsFailures ==
    ASSUME FailuresAreCounted, Next
    PROVE  FailuresAreCounted'
<1>1. UNCHANGED failures \/ Fails
  <2>1. CASE flush
    BY <2>1, Zenon DEF flush
  <2>2. CASE ~flush
    BY <2>2, Zenon DEF Next, payOutbox, payDual, publishDual, killApi, select, mark, relayRaises,
       poll, deliver, effect, consumerRaises, autoCommit, kill
  <2>3. QED BY <2>1, <2>2
<1>2. QED BY <1>1, PipelineAssumption DEF FailuresAreCounted, Fails

\* The event at hand is one that the two tables have a count for, and it stays
\* the same while the topic grows.
LEMMA EventAtHand ==
    ASSUME PipelineInv, consumer # "poll"
    PROVE  position \in 1..Len(topic) /\ topic[position] \in Charge /\ Event \in EventIds
<1>1. position \in 1..Len(topic)
  <2>1. Len(topic) \in Nat  BY LenProperties DEF PipelineInv, TypeOK
  <2>2. QED BY <2>1 DEF PipelineInv, PositionIsInTheTopic
<1>2. topic[position] \in Charge
  BY <1>1, ElementOfSeq DEF PipelineInv, TypeOK
<1>3. QED BY <1>1, <1>2 DEF Event, EventId, EventIds

\* The consumer does not notice that the topic grows.
LEMMA GrowingIsUnnoticed ==
    ASSUME PipelineInv, NEW S, Grown(topic', S), UNCHANGED <<mode, consumer6>>
    PROVE  PositionIsInTheTopic' /\ EffectsFollowDeliveries'
<1> USE DEF PipelineInv
<1>1. UNCHANGED <<mode, position, offset, consumer, delivered, effects>>
  BY DEF consumer6
<1>2. Len(topic) \in Nat /\ Len(topic') \in Nat /\ Len(topic) <= Len(topic')
  BY LenProperties DEF TypeOK, Grown
<1>3. PositionIsInTheTopic'
  BY <1>1, <1>2 DEF PositionIsInTheTopic
<1>4. ASSUME consumer # "poll"  PROVE Event' = Event
  <2>1. position \in 1..Len(topic)  BY <1>4, EventAtHand
  <2>2. topic'[position] = topic[position]  BY <2>1 DEF Grown
  <2>3. QED BY <1>1, <2>2 DEF Event, EventId
<1>5. EffectsFollowDeliveries'
  BY <1>1, <1>4 DEF EffectsFollowDeliveries
<1>6. QED BY <1>3, <1>5

\* Neither do they notice an action that leaves the topic alone.
LEMMA ConsumerUntouched ==
    ASSUME PipelineInv, UNCHANGED <<mode, topic, consumer6>>
    PROVE  PositionIsInTheTopic' /\ EffectsFollowDeliveries'
BY DEF PipelineInv, consumer6, PositionIsInTheTopic, EffectsFollowDeliveries, Event, EventId

\* POST /payments: the charge is committed before anything is sent.
LEMMA ApiKeepsPipeline ==
    ASSUME PipelineInv, FailuresAreCounted', NEW c \in Charge,
           payOutbox(c) \/ payDual(c) \/ publishDual(c) \/ killApi(c)
    PROVE  PipelineInv'
<1> USE DEF PipelineInv, api, relay6, Answer, Report
<1>1. CASE payOutbox(c)
  <2>1. TypeOK'  BY <1>1 DEF TypeOK, payOutbox, consumer6
  <2>2. ChargedFirst'  BY <1>1 DEF TypeOK, ChargedFirst, payOutbox
  <2>3. ReportedIsInTheTopic'  BY <1>1 DEF TypeOK, ReportedIsInTheTopic, payOutbox
  <2>4. QED BY <1>1, <2>1, <2>2, <2>3, ConsumerUntouched DEF payOutbox
<1>2. CASE payDual(c)
  <2>1. TypeOK'  BY <1>2 DEF TypeOK, payDual, consumer6
  <2>2. ChargedFirst'  BY <1>2 DEF TypeOK, ChargedFirst, payDual
  <2>3. ReportedIsInTheTopic'  BY <1>2 DEF TypeOK, ReportedIsInTheTopic, payDual
  <2>4. QED BY <1>2, <2>1, <2>2, <2>3, ConsumerUntouched DEF payDual
<1>3. CASE killApi(c)
  <2>1. TypeOK'  BY <1>3 DEF TypeOK, killApi, consumer6
  <2>2. ChargedFirst'  BY <1>3 DEF TypeOK, ChargedFirst, killApi
  <2>3. ReportedIsInTheTopic'  BY <1>3 DEF TypeOK, ReportedIsInTheTopic, killApi
  <2>4. QED BY <1>3, <2>1, <2>2, <2>3, ConsumerUntouched DEF killApi
<1>4. CASE publishDual(c)
  <2>1. c \in charged
    BY <1>4 DEF publishDual, ChargedFirst
  <2>2. PICK S \in {{}, {c}} : Grown(topic', S) /\ (request'[c] = "published" => c \in S)
    <3>1. Grown(Append(topic, c), {c})
      BY AppendGrows DEF TypeOK
    <3>2. Grown(topic, {})
      <4>1. topic \in Seq(Charge)  BY DEF TypeOK
      <4>2. Len(topic) \in Nat  BY <4>1, LenProperties
      <4>3. QED BY <4>1, <4>2 DEF Grown
    <3>3. CASE topic' = Append(topic, c)
      BY <3>1, <3>3
    <3>4. CASE topic' = topic /\ Report(c, FALSE)
      BY <3>2, <3>4 DEF TypeOK
    <3>5. QED BY <1>4, <3>3, <3>4 DEF publishDual
  <2>3. TypeOK'
    BY <1>4, <2>2 DEF TypeOK, publishDual, consumer6, Grown
  <2>4. ChargedFirst'
    BY <1>4, <2>1, <2>2 DEF TypeOK, ChargedFirst, publishDual, Grown
  <2>5. ReportedIsInTheTopic'
    BY <1>4, <2>2 DEF TypeOK, ReportedIsInTheTopic, publishDual, Grown
  <2>6. QED BY <1>4, <2>2, <2>3, <2>4, <2>5, GrowingIsUnnoticed DEF publishDual
<1>5. QED BY <1>1, <1>2, <1>3, <1>4

\* relay_loop: only rows are sent, and only reported ones are marked.
LEMMA RelayKeepsPipeline ==
    ASSUME PipelineInv, FailuresAreCounted', select \/ flush \/ mark \/ relayRaises
    PROVE  PipelineInv'
<1> USE DEF PipelineInv, api, relay6
<1>1. CASE select
  <2>1. batch' \subseteq outbox
    BY <1>1 DEF select, Unpublished
  <2>2. TypeOK'  BY <1>1, <2>1 DEF TypeOK, select, consumer6
  <2>3. ChargedFirst'  BY <1>1, <2>1 DEF ChargedFirst, select
  <2>4. ReportedIsInTheTopic'  BY <1>1 DEF ReportedIsInTheTopic, select
  <2>5. QED BY <1>1, <2>2, <2>3, <2>4, ConsumerUntouched DEF select
<1>2. CASE flush
  <2>1. PICK reached \in SUBSET batch : \E sent \in InOrder(reached) :
            topic' = topic \o sent /\ acked' \in SUBSET reached
    BY <1>2 DEF flush
  <2>2. PICK sent \in InOrder(reached) : topic' = topic \o sent
    BY <2>1
  <2>3. sent \in Seq(Charge) /\ Range(sent) = reached
    BY InOrderIsASequence DEF TypeOK
  <2>4. Grown(topic', reached)
    BY <2>2, <2>3, ConcatGrows DEF TypeOK
  <2>5. TypeOK'  BY <1>2, <2>1, <2>4 DEF TypeOK, flush, consumer6, Grown
  <2>6. ChargedFirst'  BY <1>2, <2>4 DEF ChargedFirst, flush, Grown
  <2>7. ReportedIsInTheTopic'
    BY <1>2, <2>1, <2>4 DEF ReportedIsInTheTopic, flush, Grown
  <2>8. QED BY <1>2, <2>4, <2>5, <2>6, <2>7, GrowingIsUnnoticed DEF flush
<1>3. CASE mark
  <2>1. TypeOK'  BY <1>3 DEF TypeOK, mark, ToMark, consumer6
  <2>2. ChargedFirst'  BY <1>3 DEF ChargedFirst, mark
  <2>3. ReportedIsInTheTopic'  BY <1>3 DEF ReportedIsInTheTopic, mark, ToMark
  <2>4. QED BY <1>3, <2>1, <2>2, <2>3, ConsumerUntouched DEF mark
<1>4. CASE relayRaises
  <2>1. TypeOK'  BY <1>4 DEF TypeOK, relayRaises, consumer6
  <2>2. ChargedFirst'  BY <1>4 DEF ChargedFirst, relayRaises
  <2>3. ReportedIsInTheTopic'  BY <1>4 DEF ReportedIsInTheTopic, relayRaises
  <2>4. QED BY <1>4, <2>1, <2>2, <2>3, ConsumerUntouched DEF relayRaises
<1>5. QED BY <1>1, <1>2, <1>3, <1>4

\* consume_loop, and the kill that takes it with the relay: the INSERT of the
\* effect counts once, and the delivery was recorded before.
LEMMA ConsumerKeepsPipeline ==
    ASSUME PipelineInv, FailuresAreCounted',
           poll \/ deliver \/ effect \/ consumerRaises \/ autoCommit \/ kill
    PROVE  PipelineInv'
<1> USE DEF PipelineInv, api, relay6
<1>1. Len(topic) \in Nat
  BY LenProperties DEF TypeOK
<1>2. UNCHANGED <<mode, request, charged, outbox, published, topic>>
  BY DEF poll, deliver, effect, consumerRaises, autoCommit, kill
<1>3. batch' \subseteq batch /\ acked' \subseteq acked
  BY DEF poll, deliver, effect, consumerRaises, autoCommit, kill
<1>4. ChargedFirst' /\ ReportedIsInTheTopic'
  BY <1>2, <1>3 DEF ChargedFirst, ReportedIsInTheTopic
<1>5. CASE poll
  <2>1. TypeOK'  BY <1>2, <1>5 DEF TypeOK, poll
  <2>2. PositionIsInTheTopic'
    BY <1>1, <1>2, <1>5 DEF PositionIsInTheTopic, poll
  <2>3. EffectsFollowDeliveries'
    BY <1>5 DEF EffectsFollowDeliveries, poll
  <2>4. QED BY <1>4, <2>1, <2>2, <2>3
<1>6. CASE deliver
  <2>1. Event \in EventIds /\ Event' = Event
    BY <1>2, <1>6, EventAtHand DEF deliver, Event, EventId
  <2>2. delivered' = [delivered EXCEPT ![Event] = @ + 1]
    BY <1>6 DEF deliver
  <2>3. delivered' \in [EventIds -> Nat]
    <3>1. delivered \in [EventIds -> Nat] /\ delivered[Event] \in Nat
      BY <2>1 DEF TypeOK
    <3>2. delivered[Event] + 1 \in Nat
      BY <3>1
    <3>3. QED BY <2>1, <2>2, <3>1, <3>2
  <2>4. TypeOK'
    BY <1>2, <1>6, <2>3 DEF TypeOK, deliver
  <2>5. PositionIsInTheTopic'
    BY <1>2, <1>6 DEF PositionIsInTheTopic, deliver
  <2>6. /\ \A e \in EventIds :
              delivered'[e] = IF e = Event THEN delivered[e] + 1 ELSE delivered[e]
        /\ \A e \in EventIds : delivered[e] \in Nat /\ effects[e] \in Nat
    BY <2>1, <2>2 DEF TypeOK
  <2>7. EffectsFollowDeliveries'
    BY <1>6, <2>1, <2>6 DEF EffectsFollowDeliveries, deliver
  <2>8. QED BY <1>4, <2>4, <2>5, <2>7
<1>7. CASE effect
  <2>1. Event \in EventIds /\ Event' = Event
    BY <1>2, <1>7, EventAtHand DEF effect, Event, EventId
  <2>2. effects' = [effects EXCEPT ![Event] = IF Applies(Event) THEN @ + 1 ELSE @]
    BY <1>7 DEF effect
  <2>3. effects' \in [EventIds -> Nat]
    <3>1. effects \in [EventIds -> Nat] /\ effects[Event] \in Nat
      BY <2>1 DEF TypeOK
    <3>2. effects[Event] + 1 \in Nat
      BY <3>1
    <3>3. QED BY <2>1, <2>2, <3>1, <3>2
  <2>4. TypeOK'
    BY <1>2, <1>7, <2>3 DEF TypeOK, effect
  <2>5. PositionIsInTheTopic'
    BY <1>2, <1>7 DEF PositionIsInTheTopic, effect
  <2>6. /\ \A e \in EventIds : effects'[e] =
              IF e = Event /\ effects[e] = 0 THEN effects[e] + 1 ELSE effects[e]
        /\ \A e \in EventIds : delivered[e] \in Nat /\ effects[e] \in Nat
    BY <2>1, <2>2 DEF TypeOK, Applies
  <2>7. delivered[Event] > 0
    BY <1>7 DEF EffectsFollowDeliveries, effect
  <2>8. EffectsFollowDeliveries'
    BY <1>7, <2>1, <2>6, <2>7 DEF EffectsFollowDeliveries, effect
  <2>9. QED BY <1>4, <2>4, <2>5, <2>8
<1>8. CASE consumerRaises
  BY <1>2, <1>4, <1>8 DEF TypeOK, PositionIsInTheTopic, EffectsFollowDeliveries,
     consumerRaises
<1>9. CASE autoCommit
  <2>1. Event' = Event  BY <1>2, <1>9 DEF autoCommit, Event, EventId
  <2>2. TypeOK' /\ EffectsFollowDeliveries'
    BY <1>2, <1>9, <2>1 DEF TypeOK, EffectsFollowDeliveries, autoCommit
  <2>3. PositionIsInTheTopic'
    BY <1>1, <1>2, <1>9 DEF PositionIsInTheTopic, autoCommit
  <2>4. QED BY <1>4, <2>2, <2>3
<1>10. CASE kill
  <2>1. TypeOK' /\ EffectsFollowDeliveries'
    BY <1>2, <1>10 DEF TypeOK, EffectsFollowDeliveries, kill
  <2>2. PositionIsInTheTopic'
    BY <1>1, <1>2, <1>10 DEF PositionIsInTheTopic, kill
  <2>3. QED BY <1>4, <2>1, <2>2
<1>11. QED BY <1>5, <1>6, <1>7, <1>8, <1>9, <1>10

-----------------------------------------------------------------------------

\* The invariant holds, with and without fairness, in both modes.
THEOREM PipelineInvariant == Spec => []PipelineInv
<1>1. PipelineInv /\ [Next]_vars => PipelineInv'
  <2>1. SUFFICES ASSUME PipelineInv, [Next]_vars  PROVE PipelineInv'
    OBVIOUS
  <2>2. CASE Next
    <3>1. FailuresAreCounted'  BY <2>1, <2>2, NextCountsFailures DEF PipelineInv
    <3>2. ASSUME NEW c \in Charge,
                 payOutbox(c) \/ payDual(c) \/ publishDual(c) \/ killApi(c)
          PROVE  PipelineInv'
      BY <2>1, <3>1, <3>2, ApiKeepsPipeline
    <3>3. CASE select \/ flush \/ mark \/ relayRaises
      BY <2>1, <3>1, <3>3, RelayKeepsPipeline
    <3>4. CASE poll \/ deliver \/ effect \/ consumerRaises \/ autoCommit \/ kill
      BY <2>1, <3>1, <3>4, ConsumerKeepsPipeline
    <3>5. QED BY <2>2, <3>2, <3>3, <3>4 DEF Next
  <2>3. CASE UNCHANGED vars
    <3>1. UNCHANGED <<mode, topic, consumer6>>  BY <2>3 DEF vars, api
    <3>2. TypeOK' /\ ChargedFirst' /\ ReportedIsInTheTopic'
      BY <2>1, <2>3 DEF vars, api, relay6, consumer6, PipelineInv, TypeOK, ChargedFirst,
         ReportedIsInTheTopic
    <3>3. FailuresAreCounted'
      BY <2>1, <2>3 DEF vars, PipelineInv, FailuresAreCounted
    <3>4. QED BY <2>1, <3>1, <3>2, <3>3, ConsumerUntouched DEF PipelineInv
  <2>4. QED BY <2>1, <2>2, <2>3
<1>2. QED BY InitPipeline, <1>1, PTL DEF Spec

\* Neither the relay nor the API says of an event that it is published unless
\* the broker has it, whatever is lost, raised or killed on the way.
THEOREM PublishedEventsExist == Spec => []PublishedIsInTheTopic
<1>1. PipelineInv => PublishedIsInTheTopic
  BY DEF PipelineInv, TypeOK, ReportedIsInTheTopic, PublishedIsInTheTopic, InTopic
<1>2. QED BY <1>1, PipelineInvariant, PTL

\* However often an event is sent, delivered and consumed again, it takes effect
\* once, after its delivery was recorded and for a charge that was made.
THEOREM EffectsHappenOnce == Spec => []EffectsDoNotDuplicate
<1>1. PipelineInv => EffectsDoNotDuplicate
  BY DEF PipelineInv, TypeOK, ChargedFirst, EffectsFollowDeliveries, EffectsDoNotDuplicate
<1>2. QED BY <1>1, PipelineInvariant, PTL
=============================================================================
