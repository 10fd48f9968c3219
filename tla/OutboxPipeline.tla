--------------------------- MODULE OutboxPipeline ---------------------------
(***************************************************************************)
(* Layer 4, topic 6 in containers: the payments API (payments6.py), the    *)
(* outbox relay and the consumer, two threads of one process (relay6.py),  *)
(* and a broker between them that can be stopped (kafka.py).               *)
(*                                                                         *)
(*   mode v0  dual write: the charge is committed, then published          *)
(*   mode v1  the charge and its outbox row are one transaction            *)
(*                                                                         *)
(* The producer does not retry and gives a message up (message.timeout.ms) *)
(* before flush does, so when flush is over every message has its report:  *)
(* acknowledged, or an error, which says nothing about whether the broker  *)
(* has the message. The consumer's position moves on with every message it *)
(* is handed and is committed behind its back (enable.auto.commit).        *)
(***************************************************************************)
EXTENDS Naturals, Sequences, FiniteSets, Functions

CONSTANTS
    N,            \* bound: requests to POST /payments
    BATCH,        \* BATCH of the relay
    MaxFailures   \* bound: what goes wrong, of whatever kind

Charge == 1..N

ASSUME PipelineAssumption ==
    /\ N \in Nat /\ BATCH \in Nat \ {0} /\ MaxFailures \in Nat

VARIABLES
    mode,         \* MODE of the API that is deployed, "v0" or "v1"
    request,      \* request[c]: what has become of the request
    charged,      \* t6_charges
    outbox,       \* t6_outbox, by the charge of the row
    published,    \* the rows whose published_at is not NULL
    batch,        \* the rows that the relay has locked
    acked,        \* those with a good delivery report
    relay,        \* where relay_loop is
    topic,        \* the messages of the topic
    position,     \* messages that the consumer was handed
    offset,       \* the committed offset of its group
    consumer,     \* where consume_loop is
    delivered,    \* delivered[e]: rows of t6_delivered with outbox_id e
    effects,      \* effects[e]: rows of t6_consumer_effects with outbox_id e
    failures

api   == <<mode, request, charged, outbox>>
relay6 == <<published, batch, acked, relay>>
consumer6 == <<position, offset, consumer, delivered, effects>>
vars  == <<api, relay6, topic, consumer6, failures>>

\* The outbox_id that a message carries. The API's own messages carry none, and
\* d.get("outbox_id", 0) makes it 0.
EventId(c) == IF mode = "v0" THEN 0 ELSE c

Init ==
    /\ mode \in {"v0", "v1"}
    /\ request = [c \in Charge |-> "new"]
    /\ charged = {} /\ outbox = {} /\ published = {}
    /\ batch = {} /\ acked = {} /\ relay = "select"
    /\ topic = << >>
    /\ position = 0 /\ offset = 0 /\ consumer = "poll"
    /\ delivered = [e \in {0} \cup Charge |-> 0]
    /\ effects = [e \in {0} \cup Charge |-> 0]
    /\ failures = 0

\* Something goes wrong. Otherwise UNCHANGED failures.
Fails == failures < MaxFailures /\ failures' = failures + 1

Answer(c, what) == request' = [request EXCEPT ![c] = what]

-----------------------------------------------------------------------------
(* POST /payments. *)

\* v1: one transaction, or nothing.
payOutbox(c) ==
    /\ mode = "v1" /\ request[c] = "new"
    /\ charged' = charged \cup {c}
    /\ outbox' = outbox \cup {c}
    /\ Answer(c, "enqueued")
    /\ UNCHANGED <<mode, relay6, topic, consumer6, failures>>

\* v0: the charge, autocommitted.
payDual(c) ==
    /\ mode = "v0" /\ request[c] = "new"
    /\ charged' = charged \cup {c}
    /\ Answer(c, "charged")
    /\ UNCHANGED <<mode, outbox, relay6, topic, consumer6, failures>>

\* v0: what the client is told, from the delivery callback.
Report(c, ok) == Answer(c, IF ok THEN "published" ELSE "event lost")

\* v0: produce and flush. The event is acknowledged, or lost, or reported lost
\* although the broker has it.
publishDual(c) ==
    /\ request[c] = "charged"
    /\ \/ topic' = Append(topic, c) /\ Report(c, TRUE) /\ UNCHANGED failures
       \/ topic' \in {topic, Append(topic, c)} /\ Report(c, FALSE) /\ Fails
    /\ UNCHANGED <<mode, charged, outbox, relay6, consumer6>>

\* The API dies between the two writes.
killApi(c) ==
    /\ request[c] = "charged" /\ Fails
    /\ Answer(c, "no answer")
    /\ UNCHANGED <<mode, charged, outbox, relay6, topic, consumer6>>

-----------------------------------------------------------------------------
(* relay_loop. *)

Unpublished == outbox \ published

\* SELECT ... WHERE published_at IS NULL ORDER BY id FOR UPDATE SKIP LOCKED LIMIT.
select ==
    /\ relay = "select" /\ Unpublished # {}
    /\ batch' = {c \in Unpublished : Cardinality({d \in Unpublished : d < c}) < BATCH}
    /\ relay' = "flush"
    /\ UNCHANGED <<api, published, acked, topic, consumer6, failures>>

\* The rows of S as ORDER BY id lists them.
InOrder(S) ==
    {s \in [1..Cardinality(S) -> S] :
        Range(s) = S /\ \A i, j \in DOMAIN s : i < j => s[i] < s[j]}

\* produce for every row, then flush: some messages reach the broker, and some of
\* those are acknowledged.
flush ==
    /\ relay = "flush"
    /\ \E reached \in SUBSET batch : \E sent \in InOrder(reached) :
        /\ topic' = topic \o sent
        /\ acked' \in SUBSET reached
    /\ IF acked' = batch THEN UNCHANGED failures ELSE Fails
    /\ relay' = "mark"
    /\ UNCHANGED <<api, published, batch, consumer6>>

\* Mutant: every row that was sent is marked.
ToMark_Sent == batch

\* "Never mark an unacked row."
ToMark == acked

\* UPDATE ... WHERE id = ANY(published), COMMIT; a rollback if there are none.
mark ==
    /\ relay = "mark"
    /\ published' = published \cup ToMark
    /\ relay' = "select" /\ batch' = {} /\ acked' = {}
    /\ UNCHANGED <<api, topic, consumer6, failures>>

\* A statement raises; the transaction is rolled back and the loop goes on.
relayRaises ==
    /\ relay # "select" /\ Fails
    /\ relay' = "select" /\ batch' = {} /\ acked' = {}
    /\ UNCHANGED <<api, published, topic, consumer6>>

-----------------------------------------------------------------------------
(* consume_loop. *)

\* The event at hand.
Event == EventId(topic[position])

poll ==
    /\ consumer = "poll" /\ position < Len(topic)
    /\ position' = position + 1
    /\ consumer' = "deliver"
    /\ UNCHANGED <<api, relay6, topic, offset, delivered, effects, failures>>

deliver ==
    /\ consumer = "deliver"
    /\ delivered' = [delivered EXCEPT ![Event] = @ + 1]
    /\ consumer' = "effect"
    /\ UNCHANGED <<api, relay6, topic, position, offset, effects, failures>>

\* Mutant: the effect does not depend on the INSERT.
Applies_Always(e) == TRUE

\* INSERT ... ON CONFLICT DO NOTHING: n rows.
Applies(e) == effects[e] = 0

effect ==
    /\ consumer = "effect"
    /\ effects' = [effects EXCEPT ![Event] = IF Applies(Event) THEN @ + 1 ELSE @]
    /\ consumer' = "poll"
    /\ UNCHANGED <<api, relay6, topic, position, offset, delivered, failures>>

\* A statement raises: the exception is swallowed, the next poll moves on.
consumerRaises ==
    /\ consumer # "poll" /\ Fails
    /\ consumer' = "poll"
    /\ UNCHANGED <<api, relay6, topic, position, offset, delivered, effects>>

\* enable.auto.commit, on a timer of the library.
autoCommit ==
    /\ offset < position
    /\ offset' = position
    /\ UNCHANGED <<api, relay6, topic, position, consumer, delivered, effects, failures>>

\* docker kill of the relay, and its restart: both threads lose what they had.
kill ==
    /\ Fails
    /\ relay' = "select" /\ batch' = {} /\ acked' = {}
    /\ consumer' = "poll" /\ position' = offset
    /\ UNCHANGED <<api, published, topic, offset, delivered, effects>>

Next ==
    \/ \E c \in Charge : payOutbox(c) \/ payDual(c) \/ publishDual(c) \/ killApi(c)
    \/ select \/ flush \/ mark \/ relayRaises
    \/ poll \/ deliver \/ effect \/ consumerRaises \/ autoCommit
    \/ kill

Spec == Init /\ [][Next]_vars

\* Both threads go on, and the broker comes back (failures are bounded).
Fairness ==
    /\ WF_vars(select \/ flush \/ mark)
    /\ WF_vars(poll \/ deliver \/ effect)

FairSpec == Spec /\ Fairness

-----------------------------------------------------------------------------
(* Properties. *)

InTopic(c) == c \in Range(topic)

\* A row is marked, and a client told that its event is published, only if the
\* broker has it: "only the delivery callback knows".
PublishedIsInTheTopic ==
    /\ \A c \in published : InTopic(c)
    /\ \A c \in Charge : request[c] = "published" => InTopic(c)

\* "The only one that may not duplicate": whatever is sent, delivered and consumed
\* again, an event takes effect once; and none does without its delivery being on
\* record and its charge being there.
EffectsDoNotDuplicate ==
    /\ \A e \in DOMAIN effects : effects[e] <= 1 /\ effects[e] <= delivered[e]
    /\ \A c \in Range(topic) : c \in charged

\* "Every charge eventually has at least one event", and its row is marked then:
\* a broker that is down, a relay killed in the middle of a batch and a database
\* that restarts make a backlog, and the backlog is drained.
EveryChargeIsPublished ==
    \A c \in Charge : c \in outbox ~> (InTopic(c) /\ c \in published)

\* "... and that the consumer's effect count equals the charge count exactly":
\* every charge that has its outbox row takes effect in the end.
EveryChargeTakesEffect ==
    \A c \in Charge : c \in outbox ~> effects[c] = 1
=============================================================================
