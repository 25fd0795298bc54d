------------------------------ MODULE Receiver ------------------------------
(***************************************************************************)
(* One RMQReceiver (receiver/receiver.go, receiver/settle.go): its         *)
(* Start / Drain / Stop life cycle, the delivery loop of every channel it  *)
(* was ever started on, and the settlers it hands out with deliveries.     *)
(*                                                                         *)
(* Concurrent parties:                                                     *)
(*   - Owners: goroutines of the client that call Start and Stop (the      *)
(*     connect loop, the channel watchers);                                *)
(*   - Drainers: goroutines that call Drain, once each;                    *)
(*   - one delivery loop per successful Start, named by its channel;       *)
(*   - downstream work that settles a delivery it was handed;              *)
(*   - the AMQP library and the broker (external).                         *)
(*                                                                         *)
(* A channel is used by one Start only, because the client opens a fresh   *)
(* one for every attempt; so a channel also names the contexts, the        *)
(* loopDone channel and the consumer of that start.                        *)
(***************************************************************************)
EXTENDS Integers, FiniteSets

CONSTANTS
    Owners,        \* goroutines that call Start and Stop
    Drainers,      \* goroutines that call Drain
    Channels,      \* AMQP channels, one per Start, numbered as opened
    Deliveries,    \* messages the broker may send, numbered as sent
    None,          \* Go's nil
    Prefetch,      \* basic.qos prefetch count, 0 for no limit
    AckModes,      \* the acknowledgement modes to consider
    Dispositions   \* the subscriber dispositions to consider

AllAckModes == {"AfterHandling", "Manual", "NoAck"}

AllDispositions == {"Handled", "Deferred", "Observed"}

ASSUME CallersAssumption == Owners \cap Drainers = {}

ASSUME NumbersAssumption == Channels \subseteq Nat /\ Deliveries \subseteq Nat

ASSUME NilAssumption == None \notin Channels /\ None \notin Deliveries

ASSUME DeliveriesAssumption == IsFiniteSet(Deliveries)

ASSUME PrefetchAssumption == Prefetch \in Nat

ASSUME ConfigAssumption ==
    AckModes \subseteq AllAckModes /\ Dispositions \subseteq AllDispositions

VARIABLES
    \* RMQReceiver, the fields under mu. stopWork stands for stopWork, loopDone
    \* and ch, which are set together and cleared together, and for activeTag,
    \* which is only read with ch.
    drained, stopRead, stopWork, stillDelivering,
    \* RMQReceiver, the atomic counters
    epoch, unsettled,
    \* channels whose read / work context was cancelled; the parent context
    readDone, workDone, ctxDone,
    \* AMQP side: state of each channel and of the consumer on it, the channel a
    \* delivery was sent on, deliveries sent and not yet taken by the loop
    chan, consumer, origin, buffered,
    \* delivery loops: where each is, and the delivery it has in hand
    loop, at,
    \* deliveries: handed to the subscriber, given a settler, the epoch stamped,
    \* released from the count, and the settler's claim
    handed, settlers, stamp, released, claim,
    \* callers: where each is, the channel it works on, what its last Stop or Drain
    \* answered (a Start clears it), and whose drain context has expired
    pc, cyc, res, expired,
    \* configuration, fixed by the builder
    ackMode, disposition,
    \* history: the Starts that were let through while another owner's Start or
    \* Stop was at work, by their channels. No action reads it.
    crossed

fields   == <<drained, stopRead, stopWork, stillDelivering>>
contexts == <<readDone, workDone, ctxDone>>
amqp     == <<chan, consumer, origin, buffered>>
loops    == <<loop, at>>
settling == <<handed, settlers, stamp, released, claim>>
callers  == <<pc, cyc, res, expired>>
config   == <<ackMode, disposition>>

vars == <<fields, epoch, unsettled, contexts, amqp, loops, settling, callers,
          config, crossed>>

Callers == Owners \cup Drainers

OwnerPcs == {"idle", "consume", "install", "stopWork", "stopCheck", "stopWait",
             "stopAnswer"}

DrainPcs == {"drainCancel", "drainCtx", "drainWait"}

TypeOK ==
    /\ drained \in BOOLEAN
    /\ stopRead \in Channels \cup {None}
    /\ stopWork \in Channels \cup {None}
    /\ stillDelivering \in Channels \cup {None}
    /\ epoch \in Nat
    /\ unsettled \in Nat
    /\ readDone \subseteq Channels
    /\ workDone \subseteq Channels
    /\ ctxDone \in BOOLEAN
    /\ chan \in [Channels -> {"unused", "open", "dead"}]
    /\ consumer \in [Channels -> {"none", "on", "cancelled"}]
    /\ origin \in [Deliveries -> Channels \cup {None}]
    /\ buffered \subseteq Deliveries
    /\ loop \in [Channels -> {"none", "select", "event", "answer", "settle", "done"}]
    /\ at \in [Channels -> Deliveries \cup {None}]
    /\ handed \subseteq Deliveries
    /\ settlers \subseteq Deliveries
    /\ stamp \in [Deliveries -> Nat]
    /\ released \subseteq Deliveries
    /\ claim \in [Deliveries -> {"free", "loop", "downstream", "settled"}]
    /\ pc \in [Callers -> OwnerPcs \cup DrainPcs \cup {"drainAnswer", "returned"}]
    /\ cyc \in [Callers -> Channels \cup {None}]
    /\ res \in [Callers -> {"none", "stopped", "running", "drained", "timeout"}]
    /\ expired \subseteq Drainers
    /\ ackMode \in AckModes
    /\ disposition \in Dispositions
    /\ crossed \subseteq Channels

Init ==
    /\ drained = FALSE
    /\ stopRead = None /\ stopWork = None /\ stillDelivering = None
    /\ epoch = 0 /\ unsettled = 0
    /\ readDone = {} /\ workDone = {} /\ ctxDone = FALSE
    /\ chan = [c \in Channels |-> "unused"]
    /\ consumer = [c \in Channels |-> "none"]
    /\ origin = [d \in Deliveries |-> None]
    /\ buffered = {}
    /\ loop = [c \in Channels |-> "none"]
    /\ at = [c \in Channels |-> None]
    /\ handed = {} /\ settlers = {} /\ released = {}
    /\ stamp = [d \in Deliveries |-> 0]
    /\ claim = [d \in Deliveries |-> "free"]
    /\ pc = [p \in Callers |-> "idle"]
    /\ cyc = [p \in Callers |-> None]
    /\ res = [p \in Callers |-> "none"]
    /\ expired = {}
    /\ ackMode \in AckModes
    /\ disposition \in Dispositions
    /\ crossed = {}

-----------------------------------------------------------------------------
(* Helpers *)

\* Channels and deliveries are used in the order of their numbers.
InOrder(x, f, unused) == \A y \in DOMAIN f : y < x => f[y] # unused

\* The loop of channel c has not finished: its loopDone is not closed.
Running(c) == loop[c] \in {"select", "event", "answer", "settle"}

\* Mutant of stillRunning: what the drain gave up on is not remembered.
stillRunningForgotten == FALSE

\* A delivery a drain was waiting for is running now.
stillRunning == stillDelivering # None /\ Running(stillDelivering)

\* readCtx.Done(): the read context derives from the work context, and that
\* one from the context Start was given.
ReadCancelled(c) == c \in readDone \/ c \in workDone \/ ctxDone

\* The library closes the delivery stream behind what it had already buffered.
StreamClosed(c) == consumer[c] = "cancelled" \/ chan[c] = "dead"

Backlog(c) == {d \in buffered : origin[d] = c}

\* Deliveries the broker holds against the prefetch window of channel c.
Unacked(c) == {d \in Deliveries : origin[d] = c /\ claim[d] # "settled"}

\* Owner o is inside Start past its check, or inside a Stop past its locked
\* section with something to stop.
Starting(o) == pc[o] \in {"consume", "install"}

Stopping(o) == pc[o] \in {"stopWork", "stopCheck", "stopWait"}

\* Caller p moves to l; its call returned r when l is where calls end.
Goto(p, l) == pc' = [pc EXCEPT ![p] = l]

Return(p, l, r) == Goto(p, l) /\ res' = [res EXCEPT ![p] = r]

\* Owner o's Start or Stop ends, Stop with the answer r.
Finish(o, r) == Return(o, "idle", r) /\ cyc' = [cyc EXCEPT ![o] = None]

-----------------------------------------------------------------------------
(* Start *)

\* First locked section of Start, on a channel opened for it.
StartCheck(o, c) ==
    /\ pc[o] = "idle" /\ ~drained /\ stopWork = None
    /\ chan[c] = "unused" /\ InOrder(c, chan, "unused")
    /\ chan' = [chan EXCEPT ![c] = "open"]
    /\ cyc' = [cyc EXCEPT ![o] = c]
    /\ Return(o, "consume", "none")
    /\ crossed' = IF \E q \in Owners : Starting(q) \/ Stopping(q)
                  THEN crossed \cup {c} ELSE crossed
    /\ UNCHANGED <<fields, epoch, unsettled, contexts, consumer, origin,
                   buffered, loops, settling, expired, config>>

\* Start is refused after a drain and while started; its channel is not used.
StartRefused(o) ==
    /\ pc[o] = "idle" /\ (drained \/ stopWork # None)
    /\ UNCHANGED vars

\* Qos and Consume, off the lock. The broker may start sending at once.
StartConsume(o) ==
    /\ pc[o] = "consume" /\ chan[cyc[o]] = "open"
    /\ consumer' = [consumer EXCEPT ![cyc[o]] = "on"]
    /\ Goto(o, "install")
    /\ UNCHANGED <<fields, epoch, unsettled, contexts, chan, origin, buffered,
                   loops, settling, cyc, res, expired, config, crossed>>

\* Qos or Consume fails. AMQP reports either by closing the channel.
StartFails(o) ==
    /\ pc[o] = "consume"
    /\ chan' = [chan EXCEPT ![cyc[o]] = "dead"]
    /\ Finish(o, "none")
    /\ UNCHANGED <<fields, epoch, unsettled, contexts, consumer, origin,
                   buffered, loops, settling, expired, config, crossed>>

\* Second locked section of Start, and the loop goroutine it spawns.
StartInstall(o) ==
    /\ pc[o] = "install"
    /\ stopWork' = cyc[o] /\ stopRead' = cyc[o]
    /\ loop' = [loop EXCEPT ![cyc[o]] = "select"]
    /\ Finish(o, "none")
    /\ UNCHANGED <<drained, stillDelivering, epoch, unsettled, contexts, amqp,
                   at, settling, expired, config, crossed>>

-----------------------------------------------------------------------------
(* Stop *)

\* The locked section of Stop.
StopTake(o) ==
    /\ pc[o] = "idle"
    /\ stopRead' = None /\ stopWork' = None
    /\ IF stopWork = None
          THEN Return(o, "stopAnswer", "none") /\ UNCHANGED cyc
          ELSE /\ Return(o, "stopWork", "none")
               /\ cyc' = [cyc EXCEPT ![o] = stopWork]
    /\ UNCHANGED <<drained, stillDelivering, epoch, unsettled, contexts, amqp,
                   loops, settling, expired, config, crossed>>

\* Mutant of StopAnswer: a repeated Stop always reports success.
StopAnswerForgetful(o) ==
    /\ pc[o] = "stopAnswer"
    /\ Finish(o, "stopped")
    /\ UNCHANGED <<fields, epoch, unsettled, contexts, amqp, loops, settling,
                   expired, config, crossed>>

\* With nothing started, stoppedWithDeliveryRunning gives the answer, after the
\* unlock.
StopAnswer(o) ==
    /\ pc[o] = "stopAnswer"
    /\ Finish(o, IF stillRunning THEN "running" ELSE "stopped")
    /\ UNCHANGED <<fields, epoch, unsettled, contexts, amqp, loops, settling,
                   expired, config, crossed>>

StopCancelWork(o) ==
    /\ pc[o] = "stopWork"
    /\ workDone' = workDone \cup {cyc[o]}
    /\ Goto(o, "stopCheck")
    /\ UNCHANGED <<fields, epoch, unsettled, readDone, ctxDone, amqp, loops,
                   settling, cyc, res, expired, config, crossed>>

\* Stop gives up on a delivery a drain already gave up on; the epoch moves.
StopGiveUp(o) ==
    /\ pc[o] = "stopCheck" /\ stillRunning
    /\ epoch' = epoch + 1
    /\ Finish(o, "running")
    /\ UNCHANGED <<fields, unsettled, contexts, amqp, loops, settling, expired,
                   config, crossed>>

StopGoWait(o) ==
    /\ pc[o] = "stopCheck" /\ ~stillRunning
    /\ Goto(o, "stopWait")
    /\ UNCHANGED <<fields, epoch, unsettled, contexts, amqp, loops, settling,
                   cyc, res, expired, config, crossed>>

\* Mutant of StopWait: the loop is not waited for.
StopWaitNot(o) ==
    /\ pc[o] = "stopWait"
    /\ epoch' = epoch + 1
    /\ Finish(o, "stopped")
    /\ UNCHANGED <<fields, unsettled, contexts, amqp, loops, settling, expired,
                   config, crossed>>

\* Mutant of StopWait: the epoch stays where it was.
StopWaitSameEpoch(o) ==
    /\ pc[o] = "stopWait" /\ ~Running(cyc[o])
    /\ Finish(o, "stopped")
    /\ UNCHANGED <<fields, epoch, unsettled, contexts, amqp, loops, settling,
                   expired, config, crossed>>

\* loopDone closed, and only then the epoch moves.
StopWait(o) ==
    /\ pc[o] = "stopWait" /\ ~Running(cyc[o])
    /\ epoch' = epoch + 1
    /\ Finish(o, "stopped")
    /\ UNCHANGED <<fields, unsettled, contexts, amqp, loops, settling, expired,
                   config, crossed>>

-----------------------------------------------------------------------------
(* Drain *)

\* Mutant of DrainTake: stillDelivering is not published.
DrainTakeUnpublished(p) ==
    /\ pc[p] = "idle"
    /\ drained' = TRUE
    /\ IF stopRead = None
          THEN Goto(p, "drainAnswer") /\ UNCHANGED <<stopRead, cyc, res>>
          ELSE /\ Return(p, "drainCancel", "none")
               /\ cyc' = [cyc EXCEPT ![p] = stopRead]
               /\ stopRead' = None
    /\ UNCHANGED <<stillDelivering, stopWork, epoch, unsettled, contexts, amqp,
                   loops, settling, expired, config, crossed>>

\* The locked section of Drain.
DrainTake(p) ==
    /\ pc[p] = "idle"
    /\ drained' = TRUE
    /\ IF stopRead = None
          THEN /\ Goto(p, "drainAnswer")
               /\ UNCHANGED <<stopRead, stillDelivering, cyc, res>>
          ELSE /\ Return(p, "drainCancel", "none")
               /\ cyc' = [cyc EXCEPT ![p] = stopRead]
               /\ stillDelivering' = stopRead
               /\ stopRead' = None
    /\ UNCHANGED <<stopWork, epoch, unsettled, contexts, amqp, loops, settling,
                   expired, config, crossed>>

\* With nothing to take, the answer is looked up after the lock was let go.
DrainAnswer(p) ==
    /\ pc[p] = "drainAnswer"
    /\ Return(p, "returned", IF stillRunning THEN "running" ELSE "drained")
    /\ UNCHANGED <<fields, epoch, unsettled, contexts, amqp, loops, settling,
                   cyc, expired, config, crossed>>

\* ch.Cancel returned without error.
DrainCancelled(p) ==
    /\ pc[p] = "drainCancel" /\ consumer[cyc[p]] = "cancelled"
    /\ Goto(p, "drainCtx")
    /\ UNCHANGED <<fields, epoch, unsettled, contexts, amqp, loops, settling,
                   cyc, res, expired, config, crossed>>

\* ch.Cancel failed on a dying channel, or outlived the context: the loop is
\* ended the other way.
DrainAbandon(p) ==
    /\ pc[p] = "drainCancel"
    /\ chan[cyc[p]] = "dead" \/ p \in expired
    /\ readDone' = readDone \cup {cyc[p]}
    /\ Goto(p, "drainCtx")
    /\ UNCHANGED <<fields, epoch, unsettled, workDone, ctxDone, amqp, loops,
                   settling, cyc, res, expired, config, crossed>>

\* Mutant of DrainCheckCtx: the context is only looked at in the final select.
DrainCheckCtxLate(p) ==
    /\ pc[p] = "drainCtx"
    /\ Goto(p, "drainWait")
    /\ UNCHANGED <<fields, epoch, unsettled, contexts, amqp, loops, settling,
                   cyc, res, expired, config, crossed>>

\* ctx.Err() is checked before the wait rather than raced against it.
DrainCheckCtx(p) ==
    /\ pc[p] = "drainCtx"
    /\ IF p \in expired THEN Return(p, "returned", "timeout")
                        ELSE Goto(p, "drainWait") /\ UNCHANGED res
    /\ UNCHANGED <<fields, epoch, unsettled, contexts, amqp, loops, settling,
                   cyc, expired, config, crossed>>

DrainDone(p) ==
    /\ pc[p] = "drainWait" /\ ~Running(cyc[p])
    /\ readDone' = readDone \cup {cyc[p]}
    /\ Return(p, "returned", "drained")
    /\ UNCHANGED <<fields, epoch, unsettled, workDone, ctxDone, amqp, loops,
                   settling, cyc, expired, config, crossed>>

\* Mutant of DrainTimeout: the final wait is not bounded by the context.
DrainTimeoutNever(p) == pc[p] = "drainWait" /\ FALSE /\ UNCHANGED vars

DrainTimeout(p) ==
    /\ pc[p] = "drainWait" /\ p \in expired
    /\ Return(p, "returned", "timeout")
    /\ UNCHANGED <<fields, epoch, unsettled, contexts, amqp, loops, settling,
                   cyc, expired, config, crossed>>

\* The deadline of the context p gave Drain passes.
Expire(p) ==
    /\ pc[p] \in DrainPcs /\ p \notin expired
    /\ expired' = expired \cup {p}
    /\ UNCHANGED <<fields, epoch, unsettled, contexts, amqp, loops, settling,
                   pc, cyc, res, config, crossed>>

\* The client cancels the context it gave Start.
CancelContext ==
    /\ ~ctxDone
    /\ ctxDone' = TRUE
    /\ UNCHANGED <<fields, epoch, unsettled, readDone, workDone, amqp, loops,
                   settling, callers, config, crossed>>

-----------------------------------------------------------------------------
(* Broker and AMQP library *)

\* A message reaches the buffer of the consumer on channel c. The order in
\* which the loop takes buffered messages is left open.
BrokerSend(c, d) ==
    /\ consumer[c] = "on" /\ chan[c] = "open" /\ origin[d] = None
    /\ InOrder(d, origin, None)
    /\ \/ Prefetch = 0 \/ ackMode = "NoAck"
       \/ Cardinality(Unacked(c)) < Prefetch
    /\ origin' = [origin EXCEPT ![d] = c]
    /\ buffered' = buffered \cup {d}
    /\ UNCHANGED <<fields, epoch, unsettled, contexts, chan, consumer, loops,
                   settling, callers, config, crossed>>

\* The consumer on c is withdrawn: basic.cancel-ok to a drain's basic.cancel
\* (which may land after the drain gave up), or the broker's own cancel.
ConsumerCancelled(c) ==
    /\ consumer[c] = "on" /\ chan[c] = "open"
    /\ consumer' = [consumer EXCEPT ![c] = "cancelled"]
    /\ UNCHANGED <<fields, epoch, unsettled, contexts, chan, origin, buffered,
                   loops, settling, callers, config, crossed>>

\* Channel or connection loss. Some of what was buffered is dropped.
ChannelDies(c) ==
    /\ chan[c] = "open"
    /\ chan' = [chan EXCEPT ![c] = "dead"]
    /\ \E dropped \in SUBSET Backlog(c) : buffered' = buffered \ dropped
    /\ UNCHANGED <<fields, epoch, unsettled, contexts, consumer, origin, loops,
                   settling, callers, config, crossed>>

-----------------------------------------------------------------------------
(* Settling one delivery *)

\* Mutant of release: no compare-and-swap.
releaseAgain(d) ==
    /\ released' = released \cup {d}
    /\ unsettled' = unsettled - 1

\* The release method of deliverySettleOps: counts the delivery out, once.
release(d) ==
    /\ released' = released \cup {d}
    /\ unsettled' = IF d \in released THEN unsettled ELSE unsettled - 1

Stale(d) == stamp[d] # epoch

\* Mutant of SettlerCall: Valid refuses a stale delivery and keeps counting it.
SettlerCallKeeps(d, who) ==
    \/ /\ claim[d] # "free" \/ Stale(d)
       /\ UNCHANGED <<claim, released, unsettled>>
    \/ /\ claim[d] = "free" /\ ~Stale(d)
       /\ claim' = [claim EXCEPT ![d] = who]
       /\ UNCHANGED <<released, unsettled>>

\* bus.Settler, as deliverySettleOps is used by it: one claim per delivery,
\* Valid asked first, and a stale delivery released and abandoned. The op
\* itself, when there is one to make, is SettleOp.
SettlerCall(d, who) ==
    \/ /\ claim[d] # "free"
       /\ UNCHANGED <<claim, released, unsettled>>
    \/ /\ claim[d] = "free" /\ Stale(d)
       /\ release(d)
       /\ UNCHANGED claim
    \/ /\ claim[d] = "free" /\ ~Stale(d)
       /\ claim' = [claim EXCEPT ![d] = who]
       /\ UNCHANGED <<released, unsettled>>

\* Ack or Nack of deliverySettleOps: it reaches the broker when the channel is
\* open; when it fails the claim is given back. The count is released anyway.
SettleOp(d) ==
    /\ claim[d] \in {"loop", "downstream"}
    /\ claim' = [claim EXCEPT ![d] = IF chan[origin[d]] = "open" THEN "settled"
                                                                ELSE "free"]
    /\ release(d)
    /\ IF claim[d] = "loop"
          THEN /\ loop' = [loop EXCEPT ![origin[d]] = "select"]
               /\ at' = [at EXCEPT ![origin[d]] = None]
          ELSE UNCHANGED loops
    /\ UNCHANGED <<fields, epoch, contexts, amqp, handed, settlers, stamp,
                   callers, config, crossed>>

\* Work downstream of the subscriber settles the delivery it was handed, or
\* extends it (Keepalive), which asks Valid as well.
DownstreamSettle(d) ==
    /\ d \in handed \cap settlers
    /\ claim[d] = "free"
    /\ SettlerCall(d, "downstream")
    /\ UNCHANGED <<fields, epoch, contexts, amqp, loops, handed, settlers,
                   stamp, callers, config, crossed>>

-----------------------------------------------------------------------------
(* Delivery loop *)

\* readCtx is done, or the delivery stream is closed and empty.
LoopExit(c) ==
    /\ loop[c] = "select"
    /\ ReadCancelled(c) \/ (StreamClosed(c) /\ Backlog(c) = {})
    /\ loop' = [loop EXCEPT ![c] = "done"]
    /\ UNCHANGED <<fields, epoch, unsettled, contexts, amqp, at, settling,
                   callers, config, crossed>>

\* Mutant of newSettler: counts before it looks at the mode.
newSettlerCountsFirst(d) ==
    /\ unsettled' = unsettled + 1
    /\ IF ackMode = "NoAck"
          THEN UNCHANGED <<settlers, stamp>>
          ELSE /\ settlers' = settlers \cup {d}
               /\ stamp' = [stamp EXCEPT ![d] = epoch]

\* newSettler: nothing under no-ack, else a settler stamped with the epoch.
newSettler(d) ==
    IF ackMode = "NoAck"
       THEN UNCHANGED <<settlers, stamp, unsettled>>
       ELSE /\ settlers' = settlers \cup {d}
            /\ stamp' = [stamp EXCEPT ![d] = epoch]
            /\ unsettled' = unsettled + 1

\* A delivery is ready: Go's select may pick it even when readCtx is done.
Take(c, d) ==
    /\ loop[c] = "select" /\ d \in Backlog(c)
    /\ buffered' = buffered \ {d}
    /\ newSettler(d)

\* handleDelivery up to OnEvent: routed, decoded and handed on.
LoopDispatch(c, d) ==
    /\ Take(c, d)
    /\ loop' = [loop EXCEPT ![c] = "event"]
    /\ at' = [at EXCEPT ![c] = d]
    /\ handed' = handed \cup {d}
    /\ UNCHANGED <<fields, epoch, contexts, chan, consumer, origin, released,
                   claim, callers, config, crossed>>

\* handleDelivery's early exits: no route, no decoding, no topic (nack), or
\* ignored (ack). There is nothing to answer under no-ack.
LoopRefuse(c, d) ==
    /\ Take(c, d)
    /\ IF ackMode = "NoAck"
          THEN UNCHANGED loops
          ELSE /\ loop' = [loop EXCEPT ![c] = "answer"]
               /\ at' = [at EXCEPT ![c] = d]
    /\ UNCHANGED <<fields, epoch, contexts, chan, consumer, origin, handed,
                   released, claim, callers, config, crossed>>

\* Whether bus.SettleOnReturn settles when OnEvent returned with / without an
\* error: a failure in every mode, success only where the framework settles and
\* the subscriber did the work; never for an observer or without a settler.
SettlesOnReturn(failed) ==
    /\ ackMode # "NoAck" /\ disposition # "Observed"
    /\ failed \/ (ackMode = "AfterHandling" /\ disposition = "Handled")

\* Mutant of ReleaseObserved: nobody releases it.
ReleaseObservedNot(d) == UNCHANGED <<released, unsettled>>

\* An observed delivery is released by hand after SettleOnReturn.
ReleaseObserved(d) ==
    IF disposition = "Observed" /\ ackMode # "NoAck"
       THEN release(d)
       ELSE UNCHANGED <<released, unsettled>>

\* OnEvent returns, with an error when failed.
EventReturns(c, failed) ==
    /\ loop[c] = "event"
    /\ ReleaseObserved(at[c])
    /\ IF SettlesOnReturn(failed)
          THEN /\ loop' = [loop EXCEPT ![c] = "answer"]
               /\ UNCHANGED at
          ELSE /\ loop' = [loop EXCEPT ![c] = "select"]
               /\ at' = [at EXCEPT ![c] = None]
    /\ UNCHANGED <<fields, epoch, contexts, amqp, handed, settlers, stamp,
                   claim, callers, config, crossed>>

\* The receiver settles the delivery in hand: its own ack or nack, or the one
\* of SettleOnReturn. It waits for the op only when it won the claim.
LoopAnswer(c) ==
    /\ loop[c] = "answer"
    /\ SettlerCall(at[c], "loop")
    /\ IF claim'[at[c]] = "loop"
          THEN /\ loop' = [loop EXCEPT ![c] = "settle"]
               /\ UNCHANGED at
          ELSE /\ loop' = [loop EXCEPT ![c] = "select"]
               /\ at' = [at EXCEPT ![c] = None]
    /\ UNCHANGED <<fields, epoch, contexts, amqp, handed, settlers, stamp,
                   callers, config, crossed>>

-----------------------------------------------------------------------------
(* Specification *)

OwnerStep(o) ==
    \/ StartConsume(o) \/ StartFails(o) \/ StartInstall(o)
    \/ StopAnswer(o) \/ StopCancelWork(o)
    \/ StopGiveUp(o) \/ StopGoWait(o) \/ StopWait(o)

DrainStep(p) ==
    \/ DrainAnswer(p) \/ DrainCancelled(p) \/ DrainAbandon(p)
    \/ DrainCheckCtx(p) \/ DrainDone(p) \/ DrainTimeout(p)

LoopStep(c) ==
    \/ LoopExit(c) \/ LoopAnswer(c)
    \/ \E d \in Deliveries : LoopDispatch(c, d) \/ LoopRefuse(c, d)

Next ==
    \/ \E o \in Owners :
          \/ \E c \in Channels : StartCheck(o, c)
          \/ StartRefused(o) \/ StopTake(o) \/ OwnerStep(o)
    \/ \E p \in Drainers : DrainTake(p) \/ DrainStep(p) \/ Expire(p)
    \/ \E c \in Channels :
          \/ LoopStep(c)
          \/ \E failed \in BOOLEAN : EventReturns(c, failed)
          \/ \E d \in Deliveries : BrokerSend(c, d)
          \/ ConsumerCancelled(c) \/ ChannelDies(c)
    \/ \E d \in Deliveries : SettleOp(d) \/ DownstreamSettle(d)
    \/ CancelContext

Spec == Init /\ [][Next]_vars

\* Goroutines that are runnable run, and deadlines pass. Nothing is promised
\* of the broker, of the subscriber, of downstream work, or of new calls.
Fairness ==
    /\ \A o \in Owners : WF_vars(OwnerStep(o))
    /\ \A p \in Drainers : WF_vars(DrainStep(p)) /\ WF_vars(Expire(p))
    /\ \A c \in Channels : WF_vars(LoopStep(c))
    /\ \A d \in Deliveries : WF_vars(SettleOp(d))

FairSpec == Spec /\ Fairness

\* Subscribers return and downstream work settles what it holds. No fairness
\* of the specification: the property that needs it says so.
WorkFinishes ==
    /\ \A c \in Channels : WF_vars(\E failed \in BOOLEAN : EventReturns(c, failed))
    /\ \A d \in Deliveries : WF_vars(DownstreamSettle(d))

-----------------------------------------------------------------------------
(* Properties *)

Quiet == \A c \in Channels : ~Running(c)

\* Unsettled() is the number of deliveries that were given a settler and have
\* not been released: never short by a double release, never above by a leak.
UnsettledExact == unsettled = Cardinality(settlers \ released)

\* Where the receiver itself answers for every delivery (AckAfterHandling with
\* a subscriber that handles or observes), a counted delivery is either in the
\* hands of a running loop or being settled by something downstream.
NoLeak ==
    (ackMode = "AfterHandling" /\ disposition # "Deferred") =>
        \A d \in settlers \ released :
            \/ at[origin[d]] = d /\ Running(origin[d])
            \/ claim[d] = "downstream"

LoopsCoexist == \E c1, c2 \in Channels : c1 # c2 /\ Running(c1) /\ Running(c2)

\* However many goroutines stop and start the receiver, and however their Stops
\* overlap, two delivery loops run at once only after a Start was let through
\* while another owner was inside Start or still waiting in Stop.
OneLoop == LoopsCoexist => crossed # {}

\* While the receiver is started, the settlers whose epoch is current are
\* exactly those of the channel it is started on: no tag of an earlier channel
\* reads as valid, no tag of the live one as stale; again for any owners, until
\* a Start crosses.
TagValidity ==
    stopWork # None /\ crossed = {} =>
        \A d \in settlers : ~Stale(d) <=> origin[d] = stopWork

\* A Stop of any owner that reports no error, at once, after a wait or after
\* drains that gave up, leaves no loop running but one that another Stop is
\* still waiting for or another owner has started since.
StopMeansQuiet ==
    [][\A o \in Owners :
          res[o] # "stopped" /\ res'[o] = "stopped" /\ crossed = {} =>
              \A c \in Channels : Running(c)' =>
                  c = stopWork \/ \E q \in Owners \ {o} : Stopping(q) /\ cyc[q] = c]_vars

\* A Drain that took the consumer away and returned nil handled the backlog:
\* nothing the broker had sent is left, unless the channel died or a Stop or
\* the client's context cut the loop short.
BacklogHandled ==
    \A p \in Drainers :
        LET c == cyc[p] IN
            (/\ res[p] = "drained" /\ c # None
             /\ chan[c] = "open" /\ c \notin workDone /\ ~ctxDone)
            => consumer[c] = "cancelled" /\ Backlog(c) = {}

\* A Drain that returns nil, with no consumer registered behind its back, leaves
\* no loop running but one that a Stop is still waiting for, even when it took
\* nothing because another drain or a Stop had, or because a Start had not yet
\* come to the point where there is something to take.
CleanDrain ==
    [][\A p \in Drainers :
          (res[p] # "drained" /\ res'[p] = "drained" /\ stopRead = None /\ crossed = {}) =>
              \A c \in Channels : Running(c)' =>
                  \E o \in Owners : Stopping(o) /\ cyc[o] = c]_vars

\* Documented: a Start that is let through meets no loop of an earlier one. "There
\* is no way to reach that state except through a Drain", which refuses the Start,
\* since "a Stop with no drain before it always waits" (Start).
StartMeetsNoLoop ==
    [][\A o \in Owners : pc[o] = "idle" /\ pc'[o] = "consume" => Quiet]_vars

\* A consumer is never registered once Drain has been called.
DrainIsTerminal ==
    [][\A c \in Channels :
          consumer[c] = "none" /\ consumer'[c] = "on" => ~drained]_vars

\* A Drain that returns nil, with no consumer left to take, means that no
\* delivery is still in the hands of a loop.
DrainedMeansHandled ==
    [][\A p \in Drainers :
          res[p] # "drained" /\ res'[p] = "drained" /\ stopRead = None =>
              \A c \in Channels : at'[c] = None]_vars

\* Once Stop has returned, every tag the receiver ever handed out is refused.
StoppedTagsRefused ==
    (\E o \in Owners : pc[o] = "idle" /\ res[o] \in {"stopped", "running"}) =>
        \A d \in settlers : Stale(d)

\* The epoch moves only between two channels, never under the one the receiver
\* is started on: moving it there turns tags of a live channel stale.
EpochMovesBetweenChannels == [][epoch' # epoch => stopWork = None]_vars

\* Stop declines to wait only for a delivery that a Drain gave up on.
GiveUpOnlyAfterTimeout ==
    (\E o \in Owners : res[o] = "running") =>
        \E p \in Drainers : res[p] = "timeout"

\* Drain always returns, whatever the subscriber and the broker do.
DrainReturns ==
    \A p \in Drainers :
        pc[p] \in DrainPcs \cup {"drainAnswer"} ~> pc[p] = "returned"

\* A Stop that finds a delivery some drain gave up on returns, even when that
\* delivery never finishes.
StopBounded ==
    \A o \in Owners :
        (/\ pc[o] = "stopWork"
         /\ \E p \in Drainers : cyc[p] = cyc[o] /\ res[p] = "timeout")
        ~> pc[o] = "idle"

\* When subscribers return and downstream work settles, the unsettled count
\* comes back to zero and stays: failed, stale and unwanted deliveries are all
\* let go of.
CountComesBack == WorkFinishes => <>[](unsettled = 0)

=============================================================================
