--------------------------- MODULE RoutingProofs ---------------------------
(***************************************************************************)
(* Proofs about Routing and the Topology in it, for any bindings,          *)
(* configurations, topics and fields: what a receiver that consumes has at *)
(* the broker, the backoff between attempts, and what of an event reaches  *)
(* the subscriber.                                                         *)
(***************************************************************************)
EXTENDS MatchProofs

-----------------------------------------------------------------------------
(* The topology at the broker *)

LEMMA BindingsSequence ==
    Len(Bindings) \in Nat /\ DOMAIN Bindings = 1 .. Len(Bindings)
  BY BindingsAssumption DEF IsSeq

\* How far DeclareTopology has come in this attempt, and that what it declared
\* is there as long as the queue it declared is: one that goes in the middle of
\* an attempt takes its bindings along, even when another takes its place.
DeclaredInv ==
    /\ step = "declare" => next = 1
    /\ step = "bind" => next \in 1 .. Len(Bindings)
    /\ step = "start" => next = Len(Bindings) + 1
    /\ step \in {"bind", "start"} /\ kept => 1 .. next - 1 \subseteq bound
    /\ ConsumingMeansBound

\* The delay in force is the one of the last attempt that failed.
DelayInv ==
    /\ attempt = 0 => delay = 0
    /\ attempt > 0 => delay > 0 /\ delay = DefaultReconnectBackoff(attempt - 1)

TopologyInv == TopologyTypeOK /\ DeclaredInv /\ DelayInv

\* The recursion of DefaultReconnectBackoff has a solution, which doubles from
\* one second up to the cap.
LEMMA BackoffEquation ==
    \A n \in Nat : Backoff[n] =
        IF n = 0 THEN 1 ELSE IF 2 * Backoff[n - 1] > Cap THEN Cap ELSE 2 * Backoff[n - 1]
<1> DEFINE Body(f, n) ==
              IF n = 0 THEN 1 ELSE IF 2 * f[n - 1] > Cap THEN Cap ELSE 2 * f[n - 1]
           Table == [n \in Nat |-> IF n = 0 THEN 1 ELSE IF n = 1 THEN 2
                                   ELSE IF n = 2 THEN 4 ELSE IF n = 3 THEN 8
                                   ELSE IF n = 4 THEN 16 ELSE IF n = 5 THEN 32
                                   ELSE 60]
<1>1. \A n \in Nat : Table[n] = Body(Table, n)
  BY DEF Cap
<1>2. Table = [n \in Nat |-> Body(Table, n)]
  BY <1>1
<1>3. Backoff = CHOOSE f : f = [n \in Nat |-> Body(f, n)]
  BY DEF Backoff
<1>4. Backoff = [n \in Nat |-> Body(Backoff, n)]
  BY <1>2, <1>3
<1> QED
  BY <1>4

LEMMA TopologyStart ==
    ASSUME NEW declares, NEW limits, NEW budgets, declares \subseteq AllDeclares,
           limits \subseteq Nat, budgets \subseteq Nat,
           TopologyInit(declares, limits, budgets)
    PROVE  TopologyInv
<1>1. TopologyTypeOK
  <2>1. queue \in BOOLEAN
    <3>1. CASE declare = "passive"
      BY <3>1, Zenon DEF TopologyInit
    <3>2. CASE declare # "passive"
      <4>1. queue \in {FALSE}
        BY <3>2, Zenon DEF TopologyInit
      <4> QED
        BY <4>1, Zenon
    <3> QED
      BY <3>1, <3>2
  <2>2. repair \in BOOLEAN /\ kept \in BOOLEAN /\ initial \in BOOLEAN /\ armed \in BOOLEAN
    BY Zenon DEF TopologyInit
  <2>3. /\ declare \in AllDeclares /\ limit \in Nat /\ faults \in Nat /\ bound \subseteq DOMAIN Bindings
        /\ step \in Steps /\ next \in 1 .. Len(Bindings) + 1
        /\ attempt \in Nat /\ delay \in Nat
    BY BindingsSequence DEF TopologyInit, Steps
  <2> QED
    BY <2>1, <2>2, <2>3 DEF TopologyTypeOK
<1>2. DeclaredInv /\ DelayInv
  BY DEF TopologyInit, DeclaredInv, ConsumingMeansBound, DelayInv
<1> QED
  BY <1>1, <1>2 DEF TopologyInv

LEMMA KeepTypes ==
    ASSUME TopologyTypeOK, NEW k \in BOOLEAN, Keep(k)
    PROVE  queue' \in BOOLEAN /\ kept' \in BOOLEAN /\ bound' \subseteq DOMAIN Bindings
<1>1. queue' \in BOOLEAN /\ kept' \in BOOLEAN
  BY Zenon DEF Keep
<1>2. bound' \subseteq DOMAIN Bindings
  BY DEF Keep, TopologyTypeOK
<1> QED
  BY <1>1, <1>2

LEMMA TopologyKept ==
    ASSUME TopologyInv, TopologyNext
    PROVE  TopologyInv'
<1> USE BindingsSequence
    DEF TopologyInv, TopologyTypeOK, DeclaredInv, DelayInv, ConsumingMeansBound, Steps
<1>1. ASSUME Dial \/ Recover PROVE TopologyInv'
  <2>1. repair' \in BOOLEAN
    BY <1>1, Zenon DEF Dial, Recover
  <2>2. /\ step' = "declare" /\ next' = 1
        /\ UNCHANGED <<declare, limit, queue, kept, bound, initial, armed>>
        /\ UNCHANGED <<attempt, delay, faults>>
    BY <1>1 DEF Dial, Recover, setup, link, tries
  <2> QED
    BY <2>1, <2>2
<1>2. ASSUME DeclareQueue PROVE TopologyInv'
  <2>1. /\ queue' \in BOOLEAN /\ kept' \in BOOLEAN
        /\ step = "declare" /\ step' = AfterDeclare(1)
        /\ UNCHANGED <<declare, limit, bound, repair, next, initial, armed>>
        /\ UNCHANGED <<attempt, delay, faults>>
    BY <1>2, Zenon DEF DeclareQueue, setup, link, tries
  <2> QED
    BY <2>1 DEF AfterDeclare
<1>3. ASSUME Bind PROVE TopologyInv'
  <2>1. /\ step = "bind" /\ queue /\ next \in 1 .. Len(Bindings)
        /\ bound' = bound \cup {next} /\ next' = next + 1
        /\ step' = AfterDeclare(next + 1)
        /\ UNCHANGED <<declare, limit, queue, kept, repair, initial, armed>>
        /\ UNCHANGED <<attempt, delay, faults>>
    BY <1>3 DEF Bind, setup, link, tries
  <2>2. TopologyTypeOK'
    BY <2>1 DEF AfterDeclare
  <2>3. kept => 1 .. next' - 1 \subseteq bound'
    BY <2>1
  <2>4. DeclaredInv'
    BY <2>1, <2>3 DEF AfterDeclare
  <2> QED
    BY <2>1, <2>2, <2>4
<1>4. ASSUME StartConsumer PROVE TopologyInv'
  <2>1. /\ step = "start" /\ queue /\ step' = "consuming" /\ attempt' = 0 /\ delay' = 0
        /\ UNCHANGED <<declare, limit, queue, kept, bound, repair, next, armed, faults>>
    BY <1>4 DEF StartConsumer, setup
  <2>2. ASSUME kept PROVE bound = DOMAIN Bindings
    <3>1. next = Len(Bindings) + 1
      BY <2>1
    <3>2. 1 .. next - 1 \subseteq bound
      BY <2>1, <2>2, Zenon
    <3>3. next - 1 = Len(Bindings)
      BY <3>1
    <3>4. 1 .. Len(Bindings) \subseteq bound
      BY <3>2, <3>3
    <3>5. bound \subseteq DOMAIN Bindings
      OBVIOUS
    <3> QED
      BY <3>4, <3>5, Zenon
  <2>3. DeclaredInv' /\ DelayInv'
    BY <2>1, <2>2
  <2>4. initial' \in BOOLEAN
    BY <1>4, Zenon DEF StartConsumer
  <2> QED
    BY <2>1, <2>3, <2>4
<1>5. ASSUME AttemptFails PROVE TopologyInv'
  <2>1. /\ step' \in {"down", "deferred"} /\ faults' \in Nat
        /\ UNCHANGED <<declare, limit, queue, kept, bound, repair, next, initial, armed>>
    BY <1>5 DEF AttemptFails, setup, link
  <2>2. CASE UNCHANGED <<attempt, delay>>
    BY <2>1, <2>2
  <2>3. CASE attempt' = attempt + 1 /\ delay' = DefaultReconnectBackoff(attempt)
    <3>1. delay' \in Nat /\ delay' > 0
      <4>1. delay' = IF attempt = 0 THEN 1
                     ELSE IF 2 * Backoff[attempt - 1] > Cap THEN Cap
                     ELSE 2 * Backoff[attempt - 1]
        BY <2>3, BackoffEquation DEF DefaultReconnectBackoff
      <4>2. CASE attempt = 0
        BY <4>1, <4>2
      <4>3. CASE attempt # 0
        BY <4>1, <4>3 DEF DefaultReconnectBackoff, Cap
      <4> QED
        BY <4>2, <4>3
    <3> QED
      BY <2>1, <2>3, <3>1
  <2> QED
    BY <1>5, <2>2, <2>3 DEF AttemptFails, tries
<1>6. ASSUME ConnectionDrops PROVE TopologyInv'
  <2>1. PICK k \in BOOLEAN : Keep(k)
    <3>1. PICK restart \in BOOLEAN : Keep(Survives(restart))
      BY <1>6 DEF ConnectionDrops
    <3>2. Survives(restart) \in BOOLEAN
      BY DEF Survives
    <3> QED
      BY <3>1, <3>2, Zenon
  <2>2. repair' \in BOOLEAN /\ armed' \in BOOLEAN
    BY <1>6, Zenon DEF ConnectionDrops
  <2>3. queue' \in BOOLEAN /\ kept' \in BOOLEAN /\ bound' \subseteq DOMAIN Bindings
    BY <2>1, KeepTypes
  <2>4. /\ faults' \in Nat /\ step' \in {"down", "unnoticed"} /\ attempt' = 0 /\ delay' = 0
        /\ UNCHANGED <<declare, limit, next, initial>>
    BY <1>6 DEF ConnectionDrops, Fault, setup
  <2> QED
    BY <2>2, <2>3, <2>4
<1>7. ASSUME ChannelCloses PROVE TopologyInv'
  <2>1. Survives(FALSE) \in BOOLEAN
    BY DEF Survives
  <2>2. queue' \in BOOLEAN /\ kept' \in BOOLEAN /\ bound' \subseteq DOMAIN Bindings
    BY <1>7, <2>1, KeepTypes DEF ChannelCloses
  <2>3. /\ faults' \in Nat /\ step' = "closed"
        /\ UNCHANGED <<declare, limit, repair, next, initial, armed, attempt, delay>>
    BY <1>7 DEF ChannelCloses, Fault, setup, link, tries
  <2> QED
    BY <2>2, <2>3
<1>8. ASSUME QueueDeleted PROVE TopologyInv'
  <2>1. ~queue' /\ ~kept' /\ queue' \in BOOLEAN /\ kept' \in BOOLEAN
    BY <1>8, Zenon DEF QueueDeleted, Keep
  <2>2. /\ bound' = {} /\ faults' \in Nat
        /\ step' = IF step = "consuming" THEN "cancelled" ELSE step
        /\ UNCHANGED <<declare, limit, repair, next, initial, armed, attempt, delay>>
    BY <1>8 DEF QueueDeleted, Fault, Keep, setup, link, tries
  <2> QED
    BY <2>1, <2>2
<1>9. ASSUME QueueProvided PROVE TopologyInv'
  <2>1. queue' \in BOOLEAN /\ queue'
    BY <1>9, Zenon DEF QueueProvided
  <2>2. /\ UNCHANGED <<declare, limit, kept, bound, step, repair, next, initial, armed>>
        /\ UNCHANGED <<attempt, delay, faults>>
    BY <1>9 DEF QueueProvided, setup, link, tries
  <2> QED
    BY <2>1, <2>2
<1>10. ASSUME GiveUp \/ Arm PROVE TopologyInv'
  <2>1. armed' \in BOOLEAN
    BY <1>10, Zenon DEF GiveUp, Arm, link
  <2>2. /\ step' = "gaveUp" \/ UNCHANGED step
        /\ UNCHANGED <<declare, limit, queue, kept, bound, repair, next, initial>>
        /\ UNCHANGED <<attempt, delay, faults>>
    BY <1>10 DEF GiveUp, Arm, setup, link, tries
  <2> QED
    BY <2>1, <2>2
<1> QED
  BY <1>1, <1>2, <1>3, <1>4, <1>5, <1>6, <1>7, <1>8, <1>9, <1>10 DEF TopologyNext

\* The steps of the event leave the topology alone.
LEMMA EventOrTopology ==
    Next => \/ TopologyStep
            \/ /\ UNCHANGED topology
               /\ \/ OnEventMapped \/ OnEventDefault \/ BrokerRoutes
                  \/ HandleUnmatched \/ HandleUndecodable \/ HandleTopicFails
                  \/ HandleDispatch
  BY DEF Next, OnEventMapped, OnEventDefault, BrokerRoutes, HandleUnmatched,
         HandleUndecodable, HandleTopicFails, HandleDispatch, Settle

LEMMA TopologyAlways == Spec => []TopologyInv
<1>1. Init => TopologyInv
  <2> SUFFICES ASSUME Init PROVE TopologyInv
    OBVIOUS
  <2>1. PICK s \in Scenarios : TopologyInit(s.declares, s.limits, s.faults)
    BY DEF Init
  <2> QED
    BY <2>1, ScenariosAssumption, TopologyStart
<1>2. TopologyInv /\ [Next]_vars => TopologyInv'
  <2> SUFFICES ASSUME TopologyInv, [Next]_vars PROVE TopologyInv'
    OBVIOUS
  <2>1. CASE UNCHANGED topology
    BY <2>1 DEF topology, setup, link, tries, TopologyInv, TopologyTypeOK, DeclaredInv, DelayInv,
                ConsumingMeansBound
  <2>2. CASE TopologyStep
    BY <2>2, TopologyKept DEF TopologyStep
  <2> QED
    BY <2>1, <2>2, EventOrTopology DEF vars
<1> QED
  BY <1>1, <1>2, PTL DEF Spec

\* A receiver that consumes has its queue and, unless somebody put another queue in
\* its place while it declared, every binding at the broker, for any number of
\* bindings and through any faults.
THEOREM ConsumersAreBound == Spec => []ConsumingMeansBound
<1>1. TopologyInv => ConsumingMeansBound
  BY DEF TopologyInv, DeclaredInv
<1> QED
  BY <1>1, TopologyAlways, PTL

\* Attempt after attempt, connect doubles its delay from one second up to a
\* minute, and starts over after a connection that was made.
THEOREM BackoffDoubles == Spec => BackoffSchedule
<1> DEFINE Doubles == delay' # delay =>
              \/ delay' = 0
              \/ delay = 0 /\ delay' = 1
              \/ delay > 0 /\ delay' = IF 2 * delay < 60 THEN 2 * delay ELSE 60
<1>1. TopologyInv /\ [Next]_vars => [Doubles]_topology
  <2> SUFFICES ASSUME TopologyInv, [Next]_vars, ~UNCHANGED topology
               PROVE  Doubles
    BY DEF topology
  <2>1. TopologyNext
    BY EventOrTopology DEF vars, TopologyStep
  <2>2. CASE delay' = delay \/ delay' = 0
    BY <2>2
  <2>3. CASE delay' = DefaultReconnectBackoff(attempt)
    <3>1. attempt \in Nat /\ delay \in Nat
      BY DEF TopologyInv, TopologyTypeOK
    <3>2. CASE attempt = 0
      BY <2>3, <3>1, <3>2, BackoffEquation
      DEF TopologyInv, DelayInv, DefaultReconnectBackoff
    <3>3. CASE attempt > 0
      <4>1. delay > 0 /\ delay = Backoff[attempt - 1]
        BY <3>3 DEF TopologyInv, DelayInv, DefaultReconnectBackoff
      <4>2. delay' = IF 2 * delay > Cap THEN Cap ELSE 2 * delay
        BY <2>3, <3>1, <3>3, <4>1, BackoffEquation DEF DefaultReconnectBackoff
      <4> QED
        BY <3>1, <4>1, <4>2 DEF Cap
    <3> QED
      BY <3>1, <3>2, <3>3
  <2> QED
    BY <2>1, <2>2, <2>3
    DEF TopologyNext, Dial, GiveUp, Recover, DeclareQueue, Bind, StartConsumer, Arm,
        AttemptFails, ConnectionDrops, ChannelCloses, QueueDeleted, QueueProvided, tries
<1> QED
  BY <1>1, TopologyAlways, PTL DEF Spec, BackoffSchedule

-----------------------------------------------------------------------------
(* The event *)

\* The key is a text. The headers are those OnEvent built, and without a mapping
\* the key is what the default transform makes of the topic.
PubInv ==
    pub # Nothing =>
        /\ IsSeq(pub.key)
        /\ pub.headers = Headers
        /\ Mapped = {} /\ snd.xform = "slashToDot" => pub.key = slashToDot(topic)
        /\ Mapped = {} /\ snd.xform = "verbatim" => pub.key = topic

\* What handleDelivery made of the message is determined by the message.
SeenInv ==
    seen # Nothing =>
        /\ seen.fields = ReceivedFields /\ seen.trace = Extracted
        /\ Dispatched /\ TopicFunc = NoName => seen.topic = DefaultTopic

EventInv == TypeOK /\ PubInv /\ SeenInv

\* A record of what was published or seen is not Nothing.
LEMMA SomethingIsNotNothing ==
    /\ \A a, b, c, d : [exchange |-> a, key |-> b, headers |-> c, persistent |-> d] # Nothing
    /\ \A a, b, c, d : [why |-> a, topic |-> b, fields |-> c, trace |-> d] # Nothing
<1>1. DOMAIN Nothing = {"key"}
  BY DEF Nothing
<1>2. ASSUME NEW a, NEW b, NEW c, NEW d
      PROVE  [exchange |-> a, key |-> b, headers |-> c, persistent |-> d] # Nothing
  <2>1. "headers" \in DOMAIN [exchange |-> a, key |-> b, headers |-> c, persistent |-> d]
    OBVIOUS
  <2> QED
    BY <1>1, <2>1
<1>3. ASSUME NEW a, NEW b, NEW c, NEW d
      PROVE  [why |-> a, topic |-> b, fields |-> c, trace |-> d] # Nothing
  <2>1. "why" \in DOMAIN [why |-> a, topic |-> b, fields |-> c, trace |-> d]
    OBVIOUS
  <2> QED
    BY <1>1, <2>1
<1> QED
  BY <1>2, <1>3

\* What depends on the configuration and the message alone does not change.
LEMMA Determined ==
    ASSUME UNCHANGED <<rcv, pub>>
    PROVE  /\ UNCHANGED <<Subscribed, Captured, Extracted, headersToFields>>
           /\ UNCHANGED <<ReceivedFields, DefaultTopic, TopicFunc>>
<1>1. UNCHANGED Subscribed
  BY DEF Subscribed
<1>2. UNCHANGED Captured
  BY <1>1 DEF Captured
<1>3. UNCHANGED <<Extracted, headersToFields>>
  BY DEF Extracted, Readable, headersToFields
<1>4. UNCHANGED ReceivedFields
  BY <1>2, <1>3 DEF ReceivedFields
<1>5. UNCHANGED <<DefaultTopic, TopicFunc>>
  BY <1>1 DEF DefaultTopic, TopicFunc
<1> QED
  BY <1>1, <1>2, <1>3, <1>4, <1>5

LEMMA GivenDetermines ==
    ASSUME UNCHANGED <<snd, topic, fields>>
    PROVE  UNCHANGED <<Mapped, Headers>>
  BY DEF Mapped, Headers

LEMMA EventInit == Init => EventInv
<1> SUFFICES ASSUME Init PROVE EventInv
  OBVIOUS
<1>1. PICK s \in Scenarios :
         /\ TopologyInit(s.declares, s.limits, s.faults)
         /\ snd \in s.senders /\ rcv \in s.receivers
         /\ topic \in s.topics /\ fields \in s.fields
  BY DEF Init
<1>2. TopologyTypeOK
  BY <1>1, ScenariosAssumption, TopologyStart DEF TopologyInv
<1>3. stage = "new" /\ pub = Nothing /\ seen = Nothing
  BY DEF Init
<1>4. TypeOK
  BY <1>1, <1>2, <1>3 DEF TypeOK, Stages
<1> QED
  BY <1>3, <1>4 DEF EventInv, PubInv, SeenInv

\* The part of TypeOK that is about the event.
EventTypeOK ==
    /\ \E s \in Scenarios :
         snd \in s.senders /\ rcv \in s.receivers /\ topic \in s.topics /\ fields \in s.fields
    /\ stage \in Stages
    /\ pub # Nothing => DOMAIN pub = {"exchange", "key", "headers", "persistent"}
    /\ stage \in {"new", "failed", "dropped"} <=> pub = Nothing
    /\ stage \in {"acked", "nacked"} <=> seen # Nothing

LEMMA SwappedText ==
    ASSUME NEW t, IsSeq(t)
    PROVE  IsSeq(slashToDot(t))
<1>1. Len(t) \in Nat /\ DOMAIN t = 1 .. Len(t)
  BY SequenceLength
<1>2. PICK n \in Nat : DOMAIN t = 1 .. n
  BY <1>1
<1>3. slashToDot(t) = [i \in 1 .. n |-> slashToDot(t)[i]]
  BY <1>2 DEF slashToDot, Swap
<1>4. DOMAIN slashToDot(t) = 1 .. n
  BY <1>2 DEF slashToDot, Swap
<1> QED
  BY <1>3, <1>4, TableIsSequence

\* What OnEvent was given are texts, and so is every key resolveMapping returns.
LEMMA KeysAreTexts ==
    ASSUME TypeOK
    PROVE  /\ IsSeq(topic) /\ IsSeq(slashToDot(topic))
           /\ Mapped # {} => LET m == snd.mappings[First(Mapped)]
                             IN ~KeyFails(m) => IsSeq(MappedKey(m))
<1>1. PICK s \in Scenarios :
         snd \in s.senders /\ rcv \in s.receivers /\ topic \in s.topics /\ fields \in s.fields
  BY DEF TypeOK
<1>2. IsSeq(topic) /\ IsSeq(slashToDot(topic))
  BY <1>1, ScenariosAssumption, SwappedText
<1>3. ASSUME Mapped # {}, ~KeyFails(snd.mappings[First(Mapped)])
      PROVE  IsSeq(MappedKey(snd.mappings[First(Mapped)]))
  <2> DEFINE m == snd.mappings[First(Mapped)]
  <2>1. IsSeq(snd.mappings)
    BY <1>1, ScenariosAssumption
  <2>2. Mapped \subseteq Nat /\ Mapped \subseteq DOMAIN snd.mappings
    BY <2>1, SequenceLength DEF Mapped
  <2>3. First(Mapped) \in DOMAIN snd.mappings
    BY <1>3, <2>2, FirstIsLeast
  <2>4. \A n \in DOMAIN m.extracted : IsSeq(m.extracted[n])
    BY <1>1, <2>3, ScenariosAssumption
  <2>5. \A n \in DOMAIN fields : IsSeq(fields[n])
    BY <1>1, ScenariosAssumption
  <2> HIDE DEF m
  <2>6. \A n \in DOMAIN MergedFields(m) : IsSeq(MergedFields(m)[n])
    BY <2>4, <2>5 DEF MergedFields, Over
  <2> QED
    BY <1>2, <1>3, <2>6 DEF KeyFails, MappedKey, m
<1> QED
  BY <1>2, <1>3

\* OnEvent, once.
LEMMA PublishKept ==
    ASSUME EventInv, stage = "new", UNCHANGED <<snd, rcv, topic, fields, seen>>,
           \/ stage' \in {"failed", "dropped"} /\ UNCHANGED pub
           \/ \E exchange, key, persistent :
                 /\ Publish(exchange, key, persistent) /\ IsSeq(key)
                 /\ Mapped = {} /\ snd.xform = "slashToDot" => key = slashToDot(topic)
                 /\ Mapped = {} /\ snd.xform = "verbatim" => key = topic
    PROVE  EventTypeOK' /\ PubInv' /\ SeenInv'
<1>1. pub = Nothing /\ seen = Nothing /\ EventTypeOK
  BY DEF EventInv, TypeOK, EventTypeOK
<1>2. SeenInv'
  BY <1>1 DEF SeenInv, Nothing
<1>3. CASE stage' \in {"failed", "dropped"} /\ UNCHANGED pub
  BY <1>1, <1>2, <1>3 DEF EventTypeOK, Stages, PubInv, Nothing
<1>4. ASSUME NEW exchange, NEW key, NEW persistent,
             Publish(exchange, key, persistent), IsSeq(key),
             Mapped = {} /\ snd.xform = "slashToDot" => key = slashToDot(topic),
             Mapped = {} /\ snd.xform = "verbatim" => key = topic
      PROVE  EventTypeOK' /\ PubInv'
  <2>1. /\ stage' = "published"
        /\ pub' = [exchange |-> exchange, key |-> key, headers |-> Headers,
                   persistent |-> persistent]
    BY <1>4 DEF Publish
  <2>2. pub' # Nothing
    BY <2>1, SomethingIsNotNothing
  <2>3. /\ DOMAIN pub' = {"exchange", "key", "headers", "persistent"}
        /\ pub'.headers = Headers /\ pub'.key = key
    BY <2>1
  <2>4. Nothing' = Nothing
    BY DEF Nothing
  <2>5. EventTypeOK'
    BY <1>1, <2>1, <2>2, <2>3, <2>4 DEF EventTypeOK, Stages
  <2>6. PubInv'
    BY <1>4, <2>3, GivenDetermines DEF PubInv
  <2> QED
    BY <2>5, <2>6
<1> QED
  BY <1>2, <1>3, <1>4

\* A stage that only the broker moves, or nothing at all.
LEMMA BrokerKept ==
    ASSUME EventInv, UNCHANGED <<snd, rcv, topic, fields, pub, seen>>,
           \/ stage' = stage
           \/ /\ stage \in {"published", "queued"}
              /\ stage' \in {"queued", "unroutable", "lost"}
    PROVE  EventTypeOK' /\ PubInv' /\ SeenInv'
<1>1. Nothing' = Nothing
  BY DEF Nothing
<1>2. EventTypeOK'
  BY <1>1 DEF EventInv, TypeOK, EventTypeOK, Stages
<1>3. PubInv'
  BY <1>1, GivenDetermines DEF EventInv, PubInv
<1>4. SeenInv'
  BY <1>1, Determined DEF EventInv, SeenInv, Dispatched
<1> QED
  BY <1>2, <1>3, <1>4

\* handleDelivery settles with what the message determines.
LEMMA SettleKept ==
    ASSUME EventInv, stage = "queued",
           NEW st \in {"acked", "nacked"}, NEW why, NEW t, Settle(st, why, t),
           why \in {"", "subscriber"} /\ TopicFunc = NoName => t = DefaultTopic
    PROVE  EventTypeOK' /\ PubInv' /\ SeenInv'
<1>1. Nothing' = Nothing
  BY DEF Nothing
<1>2. /\ stage' = st /\ UNCHANGED <<snd, rcv, topic, fields, pub>>
      /\ seen' = [why |-> why, topic |-> t, fields |-> ReceivedFields, trace |-> Extracted]
  BY DEF Settle
<1>3. seen' # Nothing
  BY <1>2, SomethingIsNotNothing
<1>4. EventTypeOK'
  BY <1>1, <1>2, <1>3 DEF EventInv, TypeOK, EventTypeOK, Stages
<1>5. PubInv'
  BY <1>1, <1>2, GivenDetermines DEF EventInv, PubInv
<1>6. /\ seen'.why = why /\ seen'.topic = t
      /\ seen'.fields = ReceivedFields /\ seen'.trace = Extracted
  BY <1>2
<1>7. SeenInv'
  BY <1>2, <1>6, Determined DEF SeenInv, Dispatched
<1> QED
  BY <1>4, <1>5, <1>7

LEMMA EventStep ==
    ASSUME EventInv, TopologyTypeOK', [Next]_vars
    PROVE  EventInv'
<1>1. ASSUME EventTypeOK' /\ PubInv' /\ SeenInv' PROVE EventInv'
  BY <1>1 DEF EventTypeOK, EventInv, TypeOK
<1>7. TypeOK
  BY DEF EventInv
<1>2. ASSUME OnEventMapped PROVE EventInv'
  <2> DEFINE m == snd.mappings[First(Mapped)]
  <2>1. stage = "new" /\ Mapped # {} /\ UNCHANGED <<snd, rcv, topic, fields, seen>>
    BY <1>2 DEF OnEventMapped
  <2>2. \/ stage' = "failed" /\ UNCHANGED pub
        \/ /\ ~KeyFails(m)
           /\ \E exchange, persistent : Publish(exchange, MappedKey(m), persistent)
    BY <1>2 DEF OnEventMapped
  <2>3. ~KeyFails(m) => IsSeq(MappedKey(m))
    BY <1>7, <2>1, KeysAreTexts
  <2> HIDE DEF m
  <2> QED
    BY <1>1, <2>1, <2>2, <2>3, PublishKept
<1>3. ASSUME OnEventDefault PROVE EventInv'
  <2>1. stage = "new" /\ UNCHANGED <<snd, rcv, topic, fields, seen>>
    BY <1>3 DEF OnEventDefault
  <2>2. \/ stage' \in {"failed", "dropped"} /\ UNCHANGED pub
        \/ snd.xform = "verbatim" /\ Publish(snd.exchange, topic, snd.persistent)
        \/ /\ snd.xform = "slashToDot"
           /\ Publish(snd.exchange, slashToDot(topic), snd.persistent)
    BY <1>3 DEF OnEventDefault
  <2>3. IsSeq(topic) /\ IsSeq(slashToDot(topic))
    BY <1>7, KeysAreTexts
  <2> QED
    BY <1>1, <2>1, <2>2, <2>3, PublishKept
<1>4. ASSUME BrokerRoutes \/ TopologyStep \/ UNCHANGED vars PROVE EventInv'
  BY <1>1, <1>4, BrokerKept DEF BrokerRoutes, TopologyStep, vars, event
<1>5. ASSUME HandleUnmatched \/ HandleUndecodable \/ HandleTopicFails PROVE EventInv'
  <2>1. /\ stage = "queued"
        /\ \/ Settle("acked", "ignored", <<>>)
           \/ Settle("nacked", "no_subscription", <<>>)
           \/ Settle("nacked", "deserialize", <<>>)
           \/ Settle("nacked", "vinculum_topic", <<>>)
    BY <1>5 DEF HandleUnmatched, HandleUndecodable, HandleTopicFails, Delivered
  <2> QED
    BY <1>1, <2>1, SettleKept
<1>6. ASSUME HandleDispatch PROVE EventInv'
  <2>1. PICK t : /\ Settle("acked", "", t) \/ Settle("nacked", "subscriber", t)
                 /\ TopicFunc = NoName => t = DefaultTopic
    BY <1>6 DEF HandleDispatch
  <2>2. stage = "queued"
    BY <1>6 DEF HandleDispatch, Delivered
  <2> QED
    BY <1>1, <2>1, <2>2, SettleKept
<1> QED
  BY <1>2, <1>3, <1>4, <1>5, <1>6 DEF Next

LEMMA EventAlways == Spec => []EventInv
<1>1. Init => EventInv
  BY EventInit
<1>2. EventInv /\ TopologyInv' /\ [Next]_vars => EventInv'
  BY EventStep DEF TopologyInv
<1> QED
  BY <1>1, <1>2, TopologyAlways, PTL DEF Spec

\* Every variable keeps to its type: nothing is recorded as published before
\* OnEvent published it, and exactly the settled messages have been handled.
THEOREM RoutingTypes == Spec => []TypeOK
<1>1. EventInv => TypeOK
  BY DEF EventInv
<1> QED
  BY <1>1, EventAlways, PTL

\* A key made of dots, turned back, has a slash wherever the topic had either.
LEMMA ThereAndBack ==
    ASSUME NEW t
    PROVE  dotToSlash(slashToDot(t)) = dotToSlash(t)
<1>1. DOMAIN slashToDot(t) = DOMAIN t
  BY DEF slashToDot, Swap
<1>2. ASSUME NEW i \in DOMAIN t
      PROVE  (IF slashToDot(t)[i] = "." THEN "/" ELSE slashToDot(t)[i])
               = IF t[i] = "." THEN "/" ELSE t[i]
  BY DEF slashToDot, Swap
<1>3. dotToSlash(slashToDot(t))
        = [i \in DOMAIN t |-> IF slashToDot(t)[i] = "." THEN "/" ELSE slashToDot(t)[i]]
  BY <1>1 DEF dotToSlash, Swap
<1>4. dotToSlash(t) = [i \in DOMAIN t |-> IF t[i] = "." THEN "/" ELSE t[i]]
  BY DEF dotToSlash, Swap
<1> QED
  BY <1>2, <1>3, <1>4

\* The topic survives the way there and back, for every topic, configuration
\* and pattern.
THEOREM TopicSurvives == Spec => []TopicArrives
<1>1. EventInv => TopicArrives
  <2> SUFFICES ASSUME EventInv, Dispatched, Mapped = {}, TopicFunc = NoName
               PROVE  /\ snd.xform = "slashToDot"
                           /\ (Subscribed # {} \/ rcv.xform = "dotToSlash")
                           => seen.topic = dotToSlash(topic)
                      /\ snd.xform = "verbatim" /\ Subscribed = {}
                           /\ rcv.xform = "verbatim"
                           => seen.topic = topic
    BY DEF TopicArrives
  <2>1. pub # Nothing /\ seen # Nothing
    BY DEF EventInv, TypeOK, Dispatched
  <2>2. seen.topic = DefaultTopic
    BY <2>1 DEF EventInv, SeenInv
  <2>3. CASE snd.xform = "slashToDot" /\ (Subscribed # {} \/ rcv.xform = "dotToSlash")
    <3>1. pub.key = slashToDot(topic)
      BY <2>1, <2>3 DEF EventInv, PubInv
    <3>2. seen.topic = dotToSlash(pub.key)
      BY <2>2, <2>3 DEF DefaultTopic
    <3> QED
      BY <2>3, <3>1, <3>2, ThereAndBack
  <2>4. CASE snd.xform = "verbatim" /\ Subscribed = {} /\ rcv.xform = "verbatim"
    <3>1. pub.key = topic
      BY <2>1, <2>4 DEF EventInv, PubInv
    <3> QED
      BY <2>2, <2>4, <3>1 DEF DefaultTopic
  <2> QED
    BY <2>3, <2>4
<1> QED
  BY <1>1, EventAlways, PTL

\* What the receiver makes of the headers: the caller's fields, without the
\* propagator's headers.
LEMMA HeadersCarry ==
    ASSUME EventInv, pub # Nothing
    PROVE  /\ DOMAIN headersToFields = DOMAIN fields \ TraceNames
           /\ \A n \in DOMAIN fields \ TraceNames : headersToFields[n] = fields[n]
<1>1. pub.headers = [n \in DOMAIN snd.carries \cup DOMAIN fields |->
                       IF n \in DOMAIN snd.carries THEN snd.carries[n] ELSE fields[n]]
  BY DEF EventInv, PubInv, Headers, Over
<1>2. DOMAIN snd.carries \subseteq TraceNames
  BY ScenariosAssumption DEF EventInv, TypeOK, Carriable
<1>3. DOMAIN pub.headers \ TraceNames = DOMAIN fields \ TraceNames
  BY <1>1, <1>2
<1>4. \A n \in DOMAIN fields \ TraceNames : pub.headers[n] = fields[n]
  BY <1>1, <1>2
<1> QED
  BY <1>3, <1>4 DEF headersToFields

\* What the propagator makes of them: what the producer's carried, and for the
\* rest at most fields of the caller.
LEMMA TraceCarried ==
    ASSUME EventInv, pub # Nothing,
           NEW n \in DOMAIN Extracted \cup DOMAIN snd.carries
    PROVE  /\ n \in DOMAIN Extracted
           /\ \/ n \in DOMAIN snd.carries /\ Extracted[n] = snd.carries[n]
              \/ n \notin DOMAIN snd.carries /\ n \in DOMAIN fields /\ Extracted[n] = fields[n]
<1>1. pub.headers = [m \in DOMAIN snd.carries \cup DOMAIN fields |->
                       IF m \in DOMAIN snd.carries THEN snd.carries[m] ELSE fields[m]]
  BY DEF EventInv, PubInv, Headers, Over
<1>2. Carriable(snd.carries)
  BY ScenariosAssumption DEF EventInv, TypeOK
<1>3. DOMAIN snd.carries \subseteq Readable
  BY <1>1, <1>2 DEF Carriable, Readable
<1>4. Readable \subseteq DOMAIN snd.carries \cup DOMAIN fields
  BY <1>1 DEF Readable
<1>5. /\ DOMAIN Extracted = {m \in Readable : m = "tracestate" => "traceparent" \in Readable}
      /\ \A m \in DOMAIN Extracted : Extracted[m] = pub.headers[m]
  BY DEF Extracted
<1>6. DOMAIN snd.carries \subseteq DOMAIN Extracted
  <2>1. "tracestate" \in DOMAIN snd.carries => "traceparent" \in Readable
    BY <1>2, <1>3 DEF Carriable
  <2> QED
    BY <1>3, <1>5, <2>1
<1> QED
  BY <1>1, <1>4, <1>5, <1>6

\* Captures arrive, the publisher's other fields arrive as they were, and
\* nothing else does, for every pattern and every set of fields.
THEOREM FieldsSurvive == Spec => []FieldsArrive
<1>1. EventInv => FieldsArrive
  <2> SUFFICES ASSUME EventInv, Dispatched, NEW n \in DOMAIN seen.fields \cup DOMAIN fields
               PROVE  \/ n \in DOMAIN Captured /\ seen.fields[n] = Captured[n]
                      \/ /\ n \notin DOMAIN Captured /\ n \in TraceNames
                         /\ n \notin DOMAIN seen.fields
                      \/ /\ n \notin DOMAIN Captured /\ n \notin TraceNames
                         /\ n \in DOMAIN fields /\ n \in DOMAIN seen.fields
                         /\ seen.fields[n] = fields[n]
    BY DEF FieldsArrive
  <2>1. pub # Nothing /\ seen # Nothing
    BY DEF EventInv, TypeOK, Dispatched
  <2>2. seen.fields = [m \in DOMAIN Captured \cup DOMAIN headersToFields |->
                         IF m \in DOMAIN Captured THEN Captured[m] ELSE headersToFields[m]]
    BY <2>1 DEF EventInv, SeenInv, ReceivedFields, Over
  <2> QED
    BY <2>1, <2>2, HeadersCarry
<1> QED
  BY <1>1, EventAlways, PTL

\* The producer's trace context and baggage reach the consumer whatever fields the
\* event carries; what else the consumer extracts is a field of the event, under a
\* name the producer's propagator did not write.
THEOREM TraceSurvives == Spec => []TraceArrives
<1>1. EventInv => TraceArrives
  <2> SUFFICES ASSUME EventInv, seen # Nothing,
                      NEW n \in DOMAIN seen.trace \cup DOMAIN snd.carries
               PROVE  /\ n \in DOMAIN seen.trace
                      /\ \/ n \in DOMAIN snd.carries /\ seen.trace[n] = snd.carries[n]
                         \/ /\ n \notin DOMAIN snd.carries
                            /\ n \in DOMAIN fields /\ seen.trace[n] = fields[n]
    BY DEF TraceArrives
  <2>1. pub # Nothing
    BY DEF EventInv, TypeOK
  <2>2. seen.trace = Extracted
    BY DEF EventInv, SeenInv
  <2> QED
    BY <2>1, <2>2, TraceCarried
<1> QED
  BY <1>1, EventAlways, PTL

\* Patterns and published keys are well formed in every reachable state.
LEMMA SubscribedAgainstTexts ==
    ASSUME EventInv, pub # Nothing, NEW i \in DOMAIN rcv.subs
    PROVE  IsPattern(rcv.subs[i].pattern) /\ IsSeq(pub.key)
<1>1. PICK s \in Scenarios : rcv \in s.receivers
  BY DEF EventInv, TypeOK
<1>2. IsPattern(rcv.subs[i].pattern)
  BY <1>1, ScenariosAssumption
<1> QED
  BY <1>2 DEF EventInv, PubInv

\* The receiver and the broker agree on every key that is published, whatever
\* the subscriptions.
THEOREM SubscriptionsMatch == Spec => []MatchIsBrokers
<1>1. EventInv => MatchIsBrokers
  BY SubscribedAgainstTexts, MatcherIsBrokers DEF MatchIsBrokers
<1> QED
  BY <1>1, EventAlways, PTL

\* What a subscription captures from a published key is determined by the two.
THEOREM CapturesDetermined == Spec => []CapturesLeftmost
<1>1. EventInv => CapturesLeftmost
  BY SubscribedAgainstTexts, MatcherCapturesLeftmost DEF CapturesLeftmost
<1> QED
  BY <1>1, EventAlways, PTL

=============================================================================
