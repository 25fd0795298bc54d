------------------------------ MODULE Routing ------------------------------
(***************************************************************************)
(* The way of one event from a sender to the subscriber of a receiver:     *)
(* resolveMapping and the headers OnEvent builds (sender/sender.go,        *)
(* sender/topic.go, carrier/carrier.go), the topic exchange and the queue  *)
(* (external, through the bindings Topology keeps), and handleDelivery     *)
(* with its pattern matching (receiver/receiver.go,                        *)
(* receiver/subscription.go).                                              *)
(*                                                                         *)
(* A text (topic, routing key, word, captured value) is a sequence of      *)
(* pieces: words, and the separators "/" and "."; <<>> is the empty        *)
(* string. A pattern is the sequence of its dot-separated tokens, each a   *)
(* literal text, a "*" or a "#", the wildcards with or without a name.     *)
(***************************************************************************)
EXTENDS Topology, SequencesExt, TLC

CONSTANTS
    Scenarios,       \* what to consider: sets of topics, fields, configurations
    NoName,          \* the name of a wildcard without one, Go's nil
    WellFormed       \* the texts the trace propagator parses

VARIABLES
    snd, rcv,        \* the sender's and the receiver's configuration
    stage,           \* where the event is
    topic, fields,   \* what OnEvent was given
    pub,             \* what was published: exchange, key, headers, persistent
    seen             \* what handleDelivery made of it

event == <<snd, rcv, stage, topic, fields, pub, seen>>

vars == <<topology, event>>

Stages == {"new", "failed", "dropped",           \* OnEvent, nothing published
           "published", "unroutable", "queued", "lost",   \* at the broker
           "acked", "nacked"}                    \* settled by handleDelivery

\* Nothing published, nothing seen.
Nothing == [key |-> <<>>]

TypeOK ==
    /\ TopologyTypeOK
    /\ \E s \in Scenarios :
         snd \in s.senders /\ rcv \in s.receivers /\ topic \in s.topics /\ fields \in s.fields
    /\ stage \in Stages
    /\ pub # Nothing => DOMAIN pub = {"exchange", "key", "headers", "persistent"}
    /\ stage \in {"new", "failed", "dropped"} <=> pub = Nothing
    /\ stage \in {"acked", "nacked"} <=> seen # Nothing

-----------------------------------------------------------------------------
(* Texts *)

Swap(t, from, to) == [i \in DOMAIN t |-> IF t[i] = from THEN to ELSE t[i]]

slashToDot(t) == Swap(t, "/", ".")

dotToSlash(t) == Swap(t, ".", "/")

\* The empty text has no words, rather than one empty word.
splitDot(t) ==
    IF t = <<>> THEN <<>>
    ELSE LET cuts == {0, Len(t) + 1} \cup {i \in DOMAIN t : t[i] = "."}
             at == SetToSortSeq(cuts, <)
         IN [i \in 1 .. Cardinality(cuts) - 1 |-> SubSeq(t, at[i] + 1, at[i + 1] - 1)]

\* strings.Join with "."
Join(toks) ==
    IF toks = <<>> THEN <<>>
    ELSE FoldLeft(LAMBDA t, w : t \o <<".">> \o w, Head(toks), Tail(toks))

-----------------------------------------------------------------------------
(* Patterns *)

Lit(t) == [kind |-> "word", name |-> NoName, text |-> t]
Star(n) == [kind |-> "star", name |-> n, text |-> <<>>]
Hash(n) == [kind |-> "hash", name |-> n, text |-> <<>>]

stripFieldNames(p) == [i \in DOMAIN p |-> [p[i] EXCEPT !.name = NoName]]

\* One map copied over another: where both have a name, f's value stays.
Over(f, g) ==
    [n \in DOMAIN f \cup DOMAIN g |-> IF n \in DOMAIN f THEN f[n] ELSE g[n]]

\* fields[name] = value, when the wildcard has a name.
Capture(tok, v) == IF tok.name = NoName THEN <<>> ELSE [n \in {tok.name} |-> v]

\* Mutant of Tried: "#" is not tried on zero words.
TriedFromOne(j, k) == j + 1 .. Len(k) + 1

\* Where "#" may end that starts before word j of k, words counted from 1.
Tried(j, k) == j .. Len(k) + 1

\* Mutant of Taken: "#" takes as many words as it can.
TakenMost(ends) == {n \in ends : \A e \in ends : e <= n}

\* Zero words are tried first, then one, then two: the first end that leads to
\* a match is taken.
Taken(ends) == {n \in ends : \A e \in ends : n <= e}

\* Token p[i] against the words of k from j on, where rest[n] is what the tokens
\* after it make of the words from n on.
matchToken(p, k, i, j, rest) ==
    IF p[i].kind = "hash"
    THEN UNION {{Over(Capture(p[i], Join(SubSeq(k, j, n - 1))), f) : f \in rest[n]} :
                  n \in Taken({n \in Tried(j, k) : rest[n] # {}})}
    ELSE IF j > Len(k) \/ (p[i].kind = "word" /\ p[i].text # k[j]) THEN {}
    ELSE {Over(Capture(p[i], k[j]), f) : f \in rest[j + 1]}

\* The tokens from i on against the words from j on: no captures when they do
\* not match, one set of them when they do. A capture further left overwrites
\* one of the same name further right.
matchTokens(p, k) ==
    LET m[i \in 1 .. Len(p) + 1] ==
          [j \in 1 .. Len(k) + 1 |->
             IF i <= Len(p) THEN matchToken(p, k, i, j, m[i + 1])
             ELSE IF j > Len(k) THEN {<<>>} ELSE {}]
    IN m

match(p, key) == matchTokens(p, splitDot(key))[1][1]

-----------------------------------------------------------------------------
(* Builders *)

\* SenderBuilder.Build and ReceiverBuilder.Build refuse empty patterns; a topic
\* pattern is modelled by the topics it matches, its emptiness by a flag.
BuildSender(s) == \A i \in DOMAIN s.mappings : ~s.mappings[i].empty

BuildReceiver(r) == \A i \in DOMAIN r.subs : r.subs[i].pattern # <<>>

\* The headers of the W3C trace context and baggage.
TraceNames == {"traceparent", "tracestate", "baggage"}

\* What the propagator may write: tracestate only beside traceparent, baggage on
\* its own, and nothing that it could not read back.
Carriable(c) ==
    /\ DOMAIN c \subseteq TraceNames
    /\ "tracestate" \in DOMAIN c => "traceparent" \in DOMAIN c
    /\ \A n \in DOMAIN c : c[n] \in WellFormed

\* Each token is a word or a wildcard.
IsPattern(p) ==
    /\ IsSeq(p)
    /\ \A i \in DOMAIN p : p[i] \in {Lit(p[i].text), Star(p[i].name), Hash(p[i].name)}

ASSUME ScenariosAssumption ==
    \A s \in Scenarios :
      /\ s.declares \subseteq AllDeclares /\ s.limits \subseteq Nat /\ s.faults \subseteq Nat
      /\ \A t \in s.topics : IsSeq(t)
      /\ \A f \in s.fields : \A n \in DOMAIN f : IsSeq(f[n])
      /\ \A c \in s.senders :
           /\ IsSeq(c.mappings) /\ Carriable(c.carries)
           /\ \A i \in DOMAIN c.mappings :
                \A n \in DOMAIN c.mappings[i].extracted : IsSeq(c.mappings[i].extracted[n])
      /\ \A c \in s.receivers : \A i \in DOMAIN c.subs : IsPattern(c.subs[i].pattern)

Init ==
    /\ \E s \in Scenarios :
         /\ TopologyInit(s.declares, s.limits, s.faults)
         /\ snd \in {c \in s.senders : BuildSender(c)}
         /\ rcv \in {c \in s.receivers : BuildReceiver(c)}
         /\ topic \in s.topics /\ fields \in s.fields
    /\ stage = "new"
    /\ pub = Nothing /\ seen = Nothing

-----------------------------------------------------------------------------
(* The sender *)

First(S) == CHOOSE i \in S : \A j \in S : i <= j

\* The mappings whose pattern matches (topicmatch.Matches, external).
Mapped == {i \in DOMAIN snd.mappings : topic \in snd.mappings[i].topics}

\* Fields the pattern extracts take precedence over the caller's.
MergedFields(m) == Over(m.extracted, fields)

\* A RoutingKeyFunc is modelled by the field it returns the value of, an error
\* when there is no such field; NoName stands for no function at all.
KeyFails(m) == m.keyField # NoName /\ m.keyField \notin DOMAIN MergedFields(m)

MappedKey(m) ==
    IF m.keyField = NoName THEN slashToDot(topic) ELSE MergedFields(m)[m.keyField]

\* Mutant of Headers: the trace context is injected before the fields are copied.
HeadersTraceFirst == Over(fields, snd.carries)

\* fieldsToHeaders copies the caller's fields; the propagator then sets through
\* the carrier those of its headers it has a value for, over a field of that name.
\* A field with the name of a header it has no value for stays.
Headers == Over(snd.carries, fields)

Publish(exchange, key, persistent) ==
    /\ stage' = "published"
    /\ pub' = [exchange |-> exchange, key |-> key, headers |-> Headers,
               persistent |-> persistent]

\* resolveMapping found a mapping.
OnEventMapped ==
    /\ stage = "new" /\ Mapped # {}
    /\ LET m == snd.mappings[First(Mapped)] IN
         \/ /\ KeyFails(m)
            /\ stage' = "failed" /\ UNCHANGED pub
         \/ /\ ~KeyFails(m)
            /\ Publish(IF m.exchange # NoName THEN m.exchange ELSE snd.exchange,
                       MappedKey(m),
                       IF m.persistent # NoName THEN m.persistent ELSE snd.persistent)
    /\ UNCHANGED <<topology, snd, rcv, topic, fields, seen>>

\* Mutant of OnEventDefault: an ignored topic is published all the same.
OnEventNotDropped ==
    /\ stage = "new" /\ Mapped = {}
    /\ snd.xform = "ignore" /\ stage' = "dropped"
    /\ pub' = [exchange |-> snd.exchange, key |-> topic, headers |-> Headers,
               persistent |-> snd.persistent]
    /\ UNCHANGED <<topology, snd, rcv, topic, fields, seen>>

\* resolveMapping fell through to the default transform.
OnEventDefault ==
    /\ stage = "new" /\ Mapped = {}
    /\ \/ snd.xform = "ignore" /\ stage' = "dropped" /\ UNCHANGED pub
       \/ snd.xform = "error" /\ stage' = "failed" /\ UNCHANGED pub
       \/ snd.xform = "verbatim" /\ Publish(snd.exchange, topic, snd.persistent)
       \/ /\ snd.xform = "slashToDot"
          /\ Publish(snd.exchange, slashToDot(topic), snd.persistent)
    /\ UNCHANGED <<topology, snd, rcv, topic, fields, seen>>

-----------------------------------------------------------------------------
(* The broker (external) *)

\* A token takes the words of k from a up to b.
Takes(tok, k, a, b) ==
    \/ tok.kind = "hash" /\ a <= b
    \/ tok.kind = "star" /\ b = a + 1
    \/ tok.kind = "word" /\ b = a + 1 /\ k[a] = tok.text

\* The ways to lay the tokens of p over the words of k: where each begins.
Splits(p, k) ==
    {s \in [1 .. Len(p) + 1 -> 1 .. Len(k) + 1] :
       /\ s[1] = 1 /\ s[Len(p) + 1] = Len(k) + 1
       /\ \A i \in DOMAIN p : Takes(p[i], k, s[i], s[i + 1])}

\* A topic exchange knows bare wildcards only: a token such as "*name" is to it
\* a literal word, which no word of a routing key here equals.
TopicMatches(p, key) ==
    /\ \A i \in DOMAIN p : p[i].name = NoName
    /\ Splits(p, splitDot(key)) # {}

\* The queue receives what a binding it has at that moment matches.
BrokerRoutes ==
    /\ stage = "published"
    /\ stage' = IF \E i \in bound : /\ Bindings[i].exchange = pub.exchange
                                      /\ TopicMatches(Bindings[i].pattern, pub.key)
                THEN "queued" ELSE "unroutable"
    /\ UNCHANGED <<topology, snd, rcv, topic, fields, pub, seen>>

\* A step of Topology; a queue that goes takes the message along.
TopologyStep ==
    /\ TopologyNext
    /\ stage' = IF stage = "queued" /\ ~queue' THEN "lost" ELSE stage
    /\ UNCHANGED <<snd, rcv, topic, fields, pub, seen>>

-----------------------------------------------------------------------------
(* handleDelivery, in the default mode of a subscriber that handles in OnEvent *)

\* The subscriptions that match the routing key; the first one is used.
Subscribed == {i \in DOMAIN rcv.subs : match(rcv.subs[i].pattern, pub.key) # {}}

Captured ==
    IF Subscribed = {} THEN <<>>
    ELSE CHOOSE f \in match(rcv.subs[First(Subscribed)].pattern, pub.key) : TRUE

Readable == {n \in TraceNames \cap DOMAIN pub.headers : pub.headers[n] \in WellFormed}

\* The propagator reads its headers through the carrier before they are stripped,
\* whoever wrote them, and tracestate only when there is a traceparent.
Extracted ==
    [n \in {m \in Readable : m = "tracestate" => "traceparent" \in Readable} |-> pub.headers[n]]

headersToFields == [n \in DOMAIN pub.headers \ TraceNames |-> pub.headers[n]]

\* Mutant of ReceivedFields: headers overwrite captures.
ReceivedFieldsSwapped == Over(headersToFields, Captured)

ReceivedFields == Over(Captured, headersToFields)

\* Mutant of DefaultTopic: verbatim is forgotten.
DefaultTopicSlashed == dotToSlash(pub.key)

\* The topic when no function gives one: the default transform of an unmatched
\* key, dot_to_slash for a matched one.
DefaultTopic ==
    IF Subscribed = {} /\ rcv.xform = "verbatim" THEN pub.key ELSE dotToSlash(pub.key)

\* The queue has the message and a consumer to send it to.
Delivered == stage = "queued" /\ step = "consuming"

Settle(s, why, t) ==
    /\ stage' = s
    /\ seen' = [why |-> why, topic |-> t, fields |-> ReceivedFields, trace |-> Extracted]
    /\ UNCHANGED <<topology, snd, rcv, topic, fields, pub>>

\* No subscription matched, and the default transform is ignore or error.
HandleUnmatched ==
    /\ Delivered /\ Subscribed = {}
    /\ \/ rcv.xform = "ignore" /\ Settle("acked", "ignored", <<>>)
       \/ rcv.xform = "error" /\ Settle("nacked", "no_subscription", <<>>)

Dispatchable == Subscribed # {} \/ rcv.xform \in {"dotToSlash", "verbatim"}

\* The body does not satisfy the wire format.
HandleUndecodable ==
    Delivered /\ Dispatchable /\ Settle("nacked", "deserialize", <<>>)

\* A VinculumTopicFunc is modelled like a RoutingKeyFunc; it may also return "".
TopicFunc == IF Subscribed = {} THEN NoName ELSE rcv.subs[First(Subscribed)].topicField

HandleTopicFails ==
    /\ Delivered
    /\ TopicFunc # NoName /\ TopicFunc \notin DOMAIN ReceivedFields
    /\ Settle("nacked", "vinculum_topic", <<>>)

\* The event reaches the subscriber, which may fail.
HandleDispatch ==
    /\ Delivered /\ Dispatchable
    /\ TopicFunc = NoName \/ TopicFunc \in DOMAIN ReceivedFields
    /\ LET t == IF TopicFunc = NoName \/ ReceivedFields[TopicFunc] = <<>>
                THEN DefaultTopic ELSE ReceivedFields[TopicFunc]
       IN Settle("acked", "", t) \/ Settle("nacked", "subscriber", t)

-----------------------------------------------------------------------------
(* Specification *)

Next ==
    \/ OnEventMapped \/ OnEventDefault \/ BrokerRoutes \/ TopologyStep
    \/ HandleUnmatched \/ HandleUndecodable \/ HandleTopicFails \/ HandleDispatch

Spec == Init /\ [][Next]_vars

FairSpec == Spec /\ TopologyFairness

-----------------------------------------------------------------------------
(* Properties *)

\* The receiver's own matcher and the broker agree: a subscription matches a
\* routing key exactly when a queue bound with its pattern, names stripped,
\* would have received it. Neither "#" over zero words, nor empty words, nor
\* the empty key make a difference.
MatchIsBrokers ==
    pub # Nothing =>
      \A i \in DOMAIN rcv.subs :
        LET p == rcv.subs[i].pattern
        IN match(p, pub.key) # {} <=> TopicMatches(stripFieldNames(p), pub.key)

\* Of the ways a pattern can be laid over a key, the one where each "#" in turn
\* from the left is as short as it can be.
Leftmost(p, k) ==
    CHOOSE s \in Splits(p, k) :
      \A t \in Splits(p, k) :
        s = t \/ \E i \in DOMAIN s : s[i] < t[i] /\ \A j \in 1 .. i - 1 : s[j] = t[j]

\* What it assigns to the names of p: each the words its leftmost wildcard covers.
LeftmostCaptures(p, k) ==
    LET named == {j \in DOMAIN p : p[j].name # NoName}
        s == Leftmost(p, k)
    IN [n \in {p[j].name : j \in named} |->
          LET j == First({h \in named : p[h].name = n})
          IN Join(SubSeq(k, s[j], s[j + 1] - 1))]

\* What a matching subscription captures is determined by the pattern and the
\* key alone: each name has the words its leftmost wildcard covers in the
\* leftmost-shortest reading, whatever backtracking it took to get there.
CapturesLeftmost ==
    pub # Nothing =>
      \A i \in DOMAIN rcv.subs :
        LET p == rcv.subs[i].pattern
        IN match(p, pub.key) # {} =>
             match(p, pub.key) = {LeftmostCaptures(p, splitDot(pub.key))}

Dispatched == seen # Nothing /\ seen.why \in {"", "subscriber"}

\* End to end with the default transforms, or with verbatim on both sides, the
\* subscriber sees the topic the event was published under; dots in a topic
\* come out as slashes where the key was made of dots.
TopicArrives ==
    (Dispatched /\ Mapped = {} /\ TopicFunc = NoName) =>
      /\ snd.xform = "slashToDot" /\ (Subscribed # {} \/ rcv.xform = "dotToSlash")
           => seen.topic = dotToSlash(topic)
      /\ snd.xform = "verbatim" /\ Subscribed = {} /\ rcv.xform = "verbatim"
           => seen.topic = topic

\* A field the publisher set arrives as it was, unless a capture of the
\* subscription has its name or it is the propagator's; captures arrive, and
\* nothing else does.
FieldsArrive ==
    Dispatched =>
      \A n \in DOMAIN seen.fields \cup DOMAIN fields :
        \/ n \in DOMAIN Captured /\ seen.fields[n] = Captured[n]
        \/ n \notin DOMAIN Captured /\ n \in TraceNames /\ n \notin DOMAIN seen.fields
        \/ /\ n \notin DOMAIN Captured /\ n \notin TraceNames
           /\ n \in DOMAIN fields /\ n \in DOMAIN seen.fields
           /\ seen.fields[n] = fields[n]

\* The consumer gets the trace context and baggage of the producer, even when
\* business fields of the event have the names of the headers. What else it takes
\* for trace context is a business field, under a name the producer had no value
\* for: such a field is not kept out.
TraceArrives ==
    seen # Nothing =>
      \A n \in DOMAIN seen.trace \cup DOMAIN snd.carries :
        /\ n \in DOMAIN seen.trace
        /\ \/ n \in DOMAIN snd.carries /\ seen.trace[n] = snd.carries[n]
           \/ /\ n \notin DOMAIN snd.carries
              /\ n \in DOMAIN fields /\ seen.trace[n] = fields[n]

\* Documented: "the AMQP binding always uses the bare wildcard" (README), "field
\* names are stripped" (package receiver). So what the bare pattern of a binding
\* that was declared matches is routed to the queue.
BindingsBare ==
    [][(stage = "published" /\ stage' = "unroutable") =>
         \A i \in bound : Bindings[i].exchange = pub.exchange =>
           ~TopicMatches(stripFieldNames(Bindings[i].pattern), pub.key)]_vars

=============================================================================
