# Verification of vinculum-rabbitmq

TLA+ models of the RabbitMQ client of this repository: the connection
supervisor (`client/`), the receiver's life cycle and delivery loop and the
settling of deliveries (`receiver/`), publishing with confirms and returns
(`sender/`), and the way of an event from a sender's topic through the broker to
a receiver's subscriber, with the topology that carries it. TLC checks them on
small instances; TLAPS proves every invariant and every action property of the
passing runs, and the refinement, for every value of the constants. Paths below
are relative to `src/`.

Contents: [1 Inventory](#1-inventory) · [2 Modules](#2-modules-and-the-code) ·
[3 Runs](#3-runs) · [4 Disagreements](#4-where-the-code-and-its-documentation-disagree) ·
[5 Proofs](#5-proofs) · [6 Bounds, fairness, abstractions](#6-bounds-fairness-and-abstractions) ·
[7 Not modelled](#7-what-is-not-modelled) · [8 Plan](#8-plan) · [9 How to run](#9-how-to-run)

## 1 Inventory

| part | state it keeps | operations | who calls it |
|---|---|---|---|
| Client (`client/client.go`) | `started`, `stopping`, `drained`, `connected`, `conn`, the channel lists and `lifeCtx` under `mu`; one `connectAndWatch` goroutine; one watcher goroutine per channel | `Start`, `Stop`, `Drain`, `IsConnected`; `connect`, `setupChannels`, `watchConnAndReconnect`, `handleDisconnect`; `watch`/`recoverSenderChannel`, `watch`/`recoverReceiverChannel` | the host; the AMQP library through NotifyClose channels |
| Receiver (`receiver/receiver.go`) | `drained`, `stopRead`, `stopWork`, `loopDone`, `ch`, `activeTag`, `stillDelivering` under `mu`; atomic `epoch` and `unsettled`; one delivery loop per Start | `Start`, `Drain`, `Stop`, `Unsettled`; `handleDelivery` | the client's connect goroutine and channel watchers; `Client.Drain` |
| Settling (`receiver/settle.go`) | per delivery: the epoch stamped, `released`, and the claim kept by the `bus.Settler` | `newSettler`, `Valid`, `Ack`, `Nack`, `release` | the delivery loop; work downstream of the subscriber, at any later time |
| Sender (`sender/sender.go`) | `ch`, `returnsCh`, `returnStop` under `mu`; the `pending` map of mandatory publishes; `drainMu`; without confirms one `watchReturns` goroutine per channel | `SetChannel`, `OnEvent` (`drainReturns`, `handleReturn`) | the client; publishers, concurrently |
| Topic mapping and headers (`sender/topic.go`, `sender/sender.go`, `carrier/`) | none | `resolveMapping`, `slashToDot`, `fieldsToHeaders`, inject | `OnEvent` |
| Routing-key matching (`receiver/subscription.go`) | none | `match`, `matchTokens`, `stripFieldNames`, `resolveTopicPart1`, extract, `headersToFields` | the delivery loop |
| Topology (`receiver/receiver.go`) | at the broker: the queue and its bindings | `DeclareTopology` | the client, before every Start |
| Backoff (`client/config.go`) | none | `DefaultReconnectBackoff` | `connect` |
| Builders, carrier, metrics | none that anything reads back | validation, header access, counters | construction; everywhere |

How they interact. The client dials, opens one channel per sender and receiver,
hands each its channel (`SetChannel`, `Start`), publishes the connection, fires
`OnConnect` and only then arms NotifyClose. A connection drop makes it stop the
receivers, disconnect the senders, fire `OnDisconnect` and connect again; a
channel-level exception makes that channel's watcher reopen just the channel. A
receiver's loop takes deliveries off the library's stream, gives each a settler
stamped with the current epoch, hands it to the subscriber and settles it
according to acknowledgement mode and disposition. `Stop` moves the epoch, which
is how settlers of a replaced channel learn that their delivery tag is stale.

What is hard here, and what each part must guarantee:

* **Start, Drain and Stop of a receiver** each consist of several locked sections
  with waits and broker round trips between them, and run in different
  goroutines. Right means: one loop at a time, a success answer is never given
  with a delivery still running, a stuck subscriber or broker never blocks
  shutdown for ever.
* **Tags outlive channels.** Right means: the tags that read valid are those of the
  live channel, and the unsettled count, which a host waits on before it shuts
  down, is neither short (a double release) nor stuck (a leak).
* **Two recovery mechanisms**, connection-level and channel-level, act on the same
  senders and receivers without waiting for each other. Right means: nothing is
  left on a dead connection's channel, nothing is left detached on a live one.
* **Notifications are armed late.** A connection or channel may be dead by the time
  NotifyClose is called on it.
* **Returns and confirms are two streams.** The broker sends a return before the ack
  of the same publish; the sender relies on it to know, once the ack is there, that
  the return is in its buffer. Publishers share that buffer and drain it for each
  other, `SetChannel` replaces it under them, and it has 32 places. Right means:
  success is reported for routed messages only, and waiting publishers go on.
* **What was declared may be gone.** A restart loses a transient queue, an operator
  deletes one, an attempt fails between two bindings. Right means: a receiver that
  consumes is fully bound, and one that lost its place regains it.
* **Two matchers.** The broker routes by a binding's pattern, the receiver matches
  the key again with its own code. Right means: they agree, also on `#` over zero
  words and empty words, and captures do not depend on how the matcher backtracked.
* **Stop against everything else**: mid-dial, mid-setup, mid-recovery, repeated,
  before Start. Right means: it returns, nothing stays open, and the hooks are
  balanced.

`PROJECT.json` lists these hazards with the line each bites at and the property
that watches it.

## 2 Modules and the code

### Receiver

State: the fields under `mu` (`stopWork` stands for `stopWork`, `loopDone` and
`ch`, which are set together and cleared together); the two atomics; which
contexts are cancelled; the AMQP channels and consumers; where each loop is and
what it has in hand; per delivery the settler's stamp, release flag and claim;
the program counter and answer of each caller. A channel is used by one Start
only (the client opens a fresh one for each), so a channel also names the
contexts and the loop of that start. `crossed` is a history variable that no action
reads: the Starts that were let through while another owner was inside Start, or
inside a Stop that had something to stop.

| code | actions |
|---|---|
| `Start` | `StartCheck` or `StartRefused` (first locked section), `StartConsume` / `StartFails` (Qos and Consume, off the lock), `StartInstall` (second locked section, `go` of the loop) |
| `Stop` | `StopTake` (locked section), `StopAnswer` (nothing to stop: answer looked up after unlocking), `StopCancelWork`, `StopGiveUp` or `StopGoWait`, `StopWait` (loop done, then the epoch moves) |
| `Drain` | `DrainTake` (locked section), `DrainAnswer` (nothing to take: answer looked up after unlocking), `DrainCancelled` / `DrainAbandon` (basic.cancel), `DrainCheckCtx`, `DrainDone` / `DrainTimeout` |
| delivery loop, `handleDelivery` | `LoopExit`, `LoopDispatch`, `LoopRefuse`, `EventReturns`, `LoopAnswer` |
| `settle.go` | `newSettler`, `release`, `Stale` (`Valid`), `SettlerCall`, `SettleOp` (`Ack`, `Nack`), `DownstreamSettle` |
| external: broker, library, contexts, `bus` | `BrokerSend`, `ConsumerCancelled`, `ChannelDies`, `Expire`, `CancelContext`, the claim rules of `SettlerCall`, `SettlesOnReturn` |

### Client and Hooks

`Client` has the connect goroutine (`g` is its program counter), one watcher per
channel (`w`), the Stop callers (`s`), the drain, connections and channels, and
`slot[e]`: the channel a sender or receiver currently holds.

| code | actions |
|---|---|
| `Start`, `Drain` | `Start`, `HostCancels`, `DrainCall`, `DrainReceiver` |
| `connect` | `Attempt`, `DialCancelled`, `DialFails`, `DialSucceeds`, `Backoff`, `Publish`, `OnConnect` |
| `setupChannels` | `SetupSender`, `SetupAttach`, `SetupReceiver`, `SetupDecide`, `SetupStart`, `SetupFails`, `CleanupDetach`, `CleanupClose`, `SpawnWatchers` |
| `watchConnAndReconnect`, `handleDisconnect` | `Arm`, `WatchCancelled`, `Disconnected`, `TeardownDetach`, `OnDisconnect` |
| `watch*Channel`, `recover*Channel` | `WatcherArm`, `WatcherExit`, `WatcherNotified`, `RecoverRead`, `RecoverStop`, `RecoverOpen`, `RecoverOpenFails`, `RecoverCheck`, `RecoverInstall`, `RecoverCommit` |
| `Stop` | `StopCall`, `StopCancel`, `StopWait`, `StopDetach`, `StopOnDisconnect`, `StopClose` |
| external: network, broker | `ConnDies`, `ChanDies` |

`Hooks` is the abstract specification of what a host may rely on of `OnConnect`
and `OnDisconnect`: strict alternation, every announced connection taken back by
the time Stop returned, silence afterwards. `Client` implements it: its counters
are the same variables, `closed` is mapped to "the Stop that did the work has
returned" (`HookCycles`).

### Sender

State: the fields under `mu`, with `installing` for a `setChannel` that holds `mu`
while it waits for the answer to confirm.select; `drainMu`; the correlation map as
the set of MessageIds in it (`pending`) and of those that got their return
(`stored`); per publisher its place in `OnEvent`, the channel it read, the returns
channel it drains, the return it has in hand; per channel the frames on the wire
and the buffered returns. A publisher makes one call and is its own MessageId.

| code | actions |
|---|---|
| `setChannel` | `SetNil`, `SetWatched` (no confirms), `SetLock` then `SetInstall` or `SetFails` (confirms) |
| `OnEvent` | `PubRead` (locked read of `ch`), `PubRefused` (mapping or serialisation ends the call), `PubSendConfirmed`, `PubSend`, `PubConfirmed` / `PubTimeout` (`WaitContext`), `PubCheck` |
| `drainReturns`, `handleReturn` | `DrainRead` (locked read of `returnsCh`), `DrainLock`, `DrainTake`, `DrainHandle`, `DrainEmpty` |
| `watchReturns` | `WatchTake`, `WatchExit` |
| external: broker, library reader, deadlines | `BrokerReturn`, `BrokerConfirm`, `ReaderStep`, `ChannelDies`, `Expire` |

### Topology and Routing

`Topology` follows one receiver's place at the broker: which round trip its attempt
is at, whether the queue exists, which bindings it has and whether it is still the one
this attempt declared (`kept`), the attempt counter with its limit, the backoff in force,
and whether `NotifyClose` was called on the connection (`armed`): a connection that is
lost before that is lost `unnoticed`, as in `client_drop`. `Routing` extends it with one event that is mapped, published,
routed through the bindings that exist at that moment, delivered once the receiver
consumes, matched, decoded and settled. Texts are sequences of words and
separators; a pattern is the sequence of its tokens.

| code | definitions |
|---|---|
| `connect`, `recoverReceiverChannel` around the topology | `Dial`, `Limited`, `GiveUp`, `AttemptFails`, `Recover`, `StartConsumer`, `Arm`, `ConnectionDrops` |
| `DeclareTopology` | `DeclareQueue`, `Bind` |
| `DefaultReconnectBackoff` | `DefaultReconnectBackoff`, its loop as the recursive function `Backoff` |
| `resolveMapping`, publishing in `OnEvent` | `OnEventMapped`, `OnEventDefault`, `MergedFields`, `MappedKey`, `Headers` (the sender's `carries` are the trace headers its propagator has a value for) |
| `match`, `matchTokens`, `splitDot`, `stripFieldNames` | the operators of the same names; `matchToken` is one token of `matchTokens`, `Tried` and `Taken` its loop over `#` |
| `resolveTopicPart1`, `handleDelivery` | `Subscribed`, `Captured`, `Extracted`, `headersToFields`, `DefaultTopic`, `ReceivedFields`, `HandleUnmatched`, `HandleUndecodable`, `HandleTopicFails`, `HandleDispatch` |
| `Build` of both builders | `BuildSender`, `BuildReceiver` |
| external: topic exchange, broker, operator, propagators | `TopicMatches`, `BrokerRoutes`, `ChannelCloses`, `QueueDeleted`, `QueueProvided`, `Carriable`, `Readable` |

`TopicMatches` is a definition of its own: a pattern matches when some division of
the key's words among its tokens exists. The code's backtracking is compared with it.

### How the modules relate

`Client` sees a sender as the channel it holds and a receiver as started or not;
`Sender` and `Receiver` are what happens inside those steps. `Topology` is the same
recovery as in `Client`, with the interleavings collapsed to whole attempts and the
round trips to the broker opened up. `MCReceiver`, `MCClient`, `MCSender` and
`MCRouting` name the constants for TLC. The theorems are in `ReceiverProofs`,
`ClientProofs`, `SenderProofs` and `RoutingProofs` (which also has those about
`Topology`), the last resting on `MatchProofs`, about the matching operators alone.

## 3 Runs

| run | question | instance, distinct states |
|---|---|---|
| `receiver_lifecycle` | `OneLoop`, `TagValidity`, `StopMeansQuiet`, `CleanDrain`: can a success answer, or a valid tag, be wrong with several goroutines stopping and starting one receiver? `UnsettledExact`, `NoLeak`: is the count exact across epochs? | 2 owners, 2 drainers, 2 channels, 1 delivery, automatic and no acknowledgement, prefetch 1; symmetry of owners and of drainers; constraint `UpToCrossing`; 2.2 million |
| `receiver_settling` | `TypeOK`, `UnsettledExact`, `NoLeak`: is the count exact, with failed acks, retries, late settles and a second delivery behind the first? `BacklogHandled`: does a clean Drain finish what was sent? `DrainReturns`, `StopBounded` without any promise of subscriber or broker; `CountComesBack` where subscribers return and downstream work settles | 1 owner, 1 drainer, 1 channel, 2 deliveries, deferring and observing subscribers, no prefetch limit; fair; 387 thousand |
| `client_sender` | `TypeOK`, `OneConnection`, `StoppedClean`, `FirstConnectPersists`, `NoStaleSlot`, and `HookCycles`, the refinement of `Hooks` | 2 connections, 3 channels, 1 sender, 2 Stop calls; symmetry of the Stop calls; 418 thousand |
| `client_receiver` | `StoppedClean`, `NoStaleSlot` for a receiver, whose recovery and setup read `drained` at several points; `StopReturns`: Stop ends wherever the connect goroutine is | 2 connections, 3 channels, 1 receiver, 1 Stop call; fair; 446 thousand |
| `sender_publish` | `TypeOK`, `HonestOutcome`, `PendingExact`: does OnEvent report what the broker did? `PublishReturns`, `ReturnsFlow`, `WatchersEnd`: does everything that waits go on? | 2 publishers, 2 channels, a returns channel of 1, with and without confirms and mandatory; fair; 265 thousand |
| `routing_journey` | `TypeOK`, `MatchIsBrokers`, `CapturesLeftmost`, `TopicArrives`, `FieldsArrive`, `TraceArrives`: does the event arrive as documented? `ConsumingMeansBound`, `ComesBack`, `BackoffSchedule`: is the receiver there, and does it come back? | all patterns of up to 3 tokens over 6 token kinds, 18 topics; 4 x 4 transforms with mappings, subscriptions and colliding fields; every trace context against every set of fields with its names; 4 kinds of queue with up to 7 faults, no limit or one of 2 attempts; fair; 395 thousand |
| `receiver_twoowners`, `client_drop`, `client_reattach`, `sender_swap`, `sender_blocked`, `routing_cancelled` | counterexamples, section 4 | |

What the passing runs say, property by property:

* `OneLoop`: two loops run at once only after a Start crossed another owner's Start or
  Stop. Overlapping Stops, drains in the gaps of Start and a `Stop` that gives up on a
  loop do not do it: a receiver that was drained is never started again. That a Start
  can cross is the finding of `receiver_twoowners`.
* `TagValidity`: while started, and until a Start crosses, a settler reads valid exactly
  when it is of the current channel. It needs the epoch to move after the old loop ended
  and before the next channel is installed.
* `StopMeansQuiet`, `CleanDrain`: "no error" from Stop or from Drain means that no loop
  runs but one that another Stop is still waiting for (or, for Stop, one started since),
  also for the second Drain of two, a Drain inside a Start, a repeated Stop and one that
  found its fields taken. A Start that crossed ends what the two promise.
* `BacklogHandled`: a Drain that returns nil has had the consumer withdrawn and
  everything already sent handled; this is what the early `ctx.Err()` check in
  `Drain` is for.
* `UnsettledExact`, `NoLeak`, `CountComesBack`: the count is the number of settlers
  not released, every counted delivery is in somebody's hands, and the count
  comes back to zero.
* `StoppedClean`, `NoStaleSlot`: once recoveries in flight have noticed, nothing is
  open after Stop and nothing is attached to a channel of an earlier connection;
  this is what the rollback at the end of `recover*Channel` is for.
* `OneConnection`, `FirstConnectPersists`, `HookCycles`, `StopReturns`: as their names
  say.
* `HonestOutcome`: with confirms, success means acked, and returned only if
  `setChannel` replaced the channel before the drain looked; "returned" is said of
  returned messages only. That needs `drainMu`: without it a publisher finds the
  buffer empty while another has its return in hand and not yet stored.
* `PendingExact`: the correlation map is exactly the publishes in flight.
* `PublishReturns`, `ReturnsFlow`, `WatchersEnd`: a publish whose deadline passed
  returns although `SetChannel` may hold the mutex in a round trip and the reader may
  be stuck; without confirms returns are always read; watchers end.
* `MatchIsBrokers`, `CapturesLeftmost`: `matchTokens` accepts exactly what a topic
  exchange would have routed by the bare pattern, and captures the leftmost-shortest
  reading; a name used twice gets its leftmost wildcard.
* `TopicArrives`, `FieldsArrive`, `TraceArrives`: the transforms of the two sides undo
  each other (dots of a topic become slashes), fields arrive unless a capture or the
  propagator owns their name, and the producer's trace context and baggage survive fields
  of their names. The converse is not kept: a business field `tracestate` or `baggage`
  stays in the headers when the producer has no such value, and the consumer takes it for
  trace context; `TraceArrives` says that this is the only way anything foreign gets in.
* `ConsumingMeansBound`, `ComesBack`, `BackoffSchedule`: section 1, "what was declared
  may be gone", and 1, 2, 4, ... 32, 60, 60 seconds. A queue that is deleted and made
  anew by somebody else while the receiver declares is the one case in which it consumes
  half bound, and the property names it. `ComesBack` also says that connect gives up on
  a repair only, after exactly `MaxReconnectAttempts` attempts.

Each property has a mutant in `PROJECT.json`: a plausible bug in the mapped code
(a wait or an epoch bump forgotten, a check made too late, a rollback left out)
under which the same run violates it.

## 4 Where the code and its documentation disagree

Runs that are expected to be violated. Each states what a comment or document of
the repository says; `PROJECT.json` quotes the line.

* `receiver_twoowners` (`StartMeetsNoLoop`). The connect goroutine and the channel watchers
  stop and start the same receiver without waiting for each other. `Stop` clears the
  fields before it waits, so while `recoverReceiverChannel`'s Stop waits for a slow
  handler and the connection dies, `handleDisconnect`'s Stop finds nothing, returns nil,
  and the reconnect's Start is let through: two loops, without any Drain. The comment in
  `Start` rules that out. Two Starts may also overlap, both past the check before either
  installs; the loop whose fields are overwritten is then stopped by nobody.
* `client_drop` (`DropNoticed`). The connection dies after the channels were set up
  and before `NotifyClose` is armed. The library returns a closed notification
  channel, `watchConnAndReconnect` takes that for a graceful close and ends.
  Nothing reconnects and `IsConnected` stays true.
* `client_reattach` (`Reattached`). A sender's channel dies; its watcher opens and
  installs a new one; the connection dies; the reconnect installs a channel of
  the new connection; the watcher, at its last check, sees that the connection
  was replaced and rolls back with `SetChannel(nil)`, which removes the
  *reconnect's* channel. The sender stays disconnected on a live connection.
* `sender_swap` (`ReturnedIsReported`). A mandatory publish is returned and acked;
  before its `OnEvent` calls `drainReturns`, `SetChannel` replaces the channel
  (recovery, reconnect, Stop). The drain reads the *new* returns channel, or none, finds
  nothing and `OnEvent` returns nil for a message the broker sent back.
* `sender_blocked` (`ConfirmsArrive`). With confirms the returns channel is read only
  after an ack. More returned publishes in flight than it holds (33 in the code) block
  the library's reader on the returns channel, in front of the acks these publishes
  wait for. Only deadlines or the death of the channel end it; `PublishReturns` shows
  that deadlines do.
* `routing_cancelled` (`ConsumerRestored`). The queue is deleted, the broker cancels the
  consumer, the delivery loop exits and leaves recovery to the client. Channel and
  connection are still open, so neither of the client's watchers wakes.

Further questions of the same kind have a configuration, and TLC finds each of
them violated too.

* `Client_earlystop.cfg` (`StopEndsGoroutine`): Stop, Start, Stop: the first leaves
  `stopping` set, Start does not look at it, the last returns at its first test and
  the connect goroutine runs on.
  (`client/client.go:182`: "Safe to call before Start or repeatedly".)
* `Receiver_terminal.cfg` (`DrainIsTerminal`): Drain lands between Start's check of
  `drained` and its Consume: it finds nothing to take, returns nil, and the consumer
  is registered afterwards.
  (`receiver/receiver.go:119`: "Taking the decision and the registration under one
  lock is what closes that window".)
* `Receiver_epoch.cfg` (`EpochMovesBetweenChannels`): the race of `receiver_twoowners`
  continued. Once the old loop ends, the first Stop moves the epoch under the channel
  the second goroutine has installed, and the tags of a live channel read stale.
  (`receiver/receiver.go:104`: "a receiver's channel is only ever replaced across one".)
* `Receiver_abandoned.cfg` (`StoppedTagsRefused`): Stop gives up on a running delivery and
  moves the epoch. When that delivery returns, the loop's `select` may still pick a
  buffered delivery although its context is done; that one is stamped with the
  *new* epoch and reads valid after Stop has returned.
  (`receiver/receiver.go:424`: Stop "retires every delivery tag it handed out".)
* `Client_watched.cfg` (`ChannelsWatched`): the race of `client_drop` one level down. A
  channel dies before its watcher armed `NotifyClose`, and nobody reopens it.
* `Client_reattach_receiver.cfg` (`Reattached`): a watcher read the old connection; the
  reconnect restarts the receiver; the watcher's `r.Stop` stops it and the old
  connection refuses a channel.
* `Client_stoprace.cfg` (`ReceiversStopped`): a recovery past its last `isDrained` check
  starts the receiver again after `Client.Stop` stopped it. Its context is cancelled,
  so the loop ends at once, but the receiver stays started.
* `Client_drainsetup.cfg` (`DrainSparesConnection`): a Drain between `isDrained` and
  `receiver.Start` makes the setup fail and the connection be closed.
* `Receiver_drainstop.cfg` (`DrainedMeansHandled`): a Drain that arrives while a Stop is
  waiting for the loop returns nil with a delivery in hand.
* `Receiver_giveup.cfg` (`GiveUpOnlyAfterTimeout`): a Stop during a Drain that has not
  timed out declines to wait, as if it had.
* No configuration: `SetChannel` on a channel that just died leaves the sender without one
  when confirm mode cannot be enabled, and `recoverSenderChannel` counts that as a
  success. The model has the step (`RecoverInstall`); a sender without a channel is
  nothing `NoStaleSlot` objects to.
* `Routing_named.cfg` (`BindingsBare`): `DeclareTopology` binds `Binding.RoutingKey` as it
  is; `stripFieldNames` is called by tests only. A binding `a.*n` reaches the broker
  with its name, where `*n` is a literal word. (`README.md:72`: "the AMQP binding always
  uses the bare wildcard"; `receiver/doc.go:30`: "field names are stripped".)

Two sentences of `README.md` need no model to compare: line 79 says that on a
deserialize error the receiver "falls back to raw bytes" (`handleDelivery` nacks,
`HandleUndecodable`), and line 36 that "`Start` is synchronous: it blocks until the
first connection is established" (`Start` of `Client` only starts the goroutine).

## 5 Proofs

Every theorem has the form `Spec => []Inv` or `Spec => [][A]_v`, from an inductive
invariant that TLC checked first, as an invariant of the run's own instance.

`ReceiverProofs` (every number of owners, drainers, channels, deliveries, every
prefetch):

* `TypeCorrect`, `UnsettledIsExact`: `Spec => []TypeOK`, `Spec => []UnsettledExact`.
  Neither is inductive. That `release` never takes the count below zero needs to
  know that whatever is released has a settler; that `newSettler` adds one needs to
  know that a buffered delivery has none. `CountInv` adds `FreshInv` (what is
  buffered is untouched), `HandsInv` (what a loop has in hand, at which place),
  `ClaimInv` (who may hold a claim), `CallerInv` and `ChanInv`. Cardinalities come
  in through two lemmas, `ReleaseCount` and `NewSettlerCount`.
* `NothingLeaks`: `Spec => []NoLeak`. `LeakInv` adds `AnswerInv`: a loop
  that waits or has ended has nothing in hand, and a settle that reached the broker has
  released its delivery.
* `DrainHandlesBacklog`: `Spec => []BacklogHandled`, with any number of owners.
  `BacklogInv` follows a drain: a consumer is taken by one drain at most, and only that
  one cancels its read context (`TakenInv`), what the drain knows at each place
  (`DrainInv`), and why a loop that ended did so: cut short, its read context, or an
  empty stream after the cancel (`EndedInv`).
* `OneLoopAtATime`, `ValidTagsAreCurrent`, `StopSucceedsQuiet`, `DrainReturnsClean`, for any
  number of owners, without assuming that they take turns. What they conclude is
  conditional on `crossed`, since the code lets Starts cross (`receiver_twoowners`): until
  one does, or for `OneLoop`, unless one did. The invariant is `OrderInv`: while nothing
  has crossed, `LifeInv` and `TagInv` hold; `CrossedGrows` makes that inductive, because a
  crossing is never forgotten. `LifeInv` says who may run a loop: `ExclusiveInv`, that one
  owner at a time is past the check of Start or has something to stop, which no lock
  guarantees and which follows from the fields as long as no Start crosses; `FieldsInv`
  relates the fields to each other; `LoopInv`, that a running loop is the started one,
  the one a Stop is waiting for, or the one in `stillDelivering`, and that a Start under
  way sees none; `WaitInv`, that a Drain in progress is the one `stillDelivering` stands
  for. `TagInv` orders stamps by epoch.

`ClientProofs` (every set of endpoints, connections, channels and Stop calls):

* `ClientTypes`; `AtMostOneConnection`; `FirstConnectNeverGivesUp`;
* `HooksAlternate`: `Spec => HookCycles`. Initial states map to initial states,
  every step to a hook, the closing step or a stutter. The invariant `LinkInv` adds
  to the types `OrderInv` (at most one Stop gets past its first test, and it touches
  the link only once the connect goroutine has ended), `HookInv` (`connects -
  disconnects` as a function of `g`, `connected` and `was`), `ConnInv` (an open
  connection is the goroutine's own or the published one) and `FirstInv`.
* `StopLeavesNothingOpen` (`StoppedClean`), `SlotsAreCurrent` (`NoStaleSlot`). Both are
  about what the two recovery mechanisms leave behind. The core of the invariant
  `AttachInv` is `SlotInv`: what an endpoint holds is a channel of the connection the
  goroutine works on, or one that a teardown or the recovery that installed it is about
  to take away. `RecoverInv` says that a recovery works on a connection that was current
  when it began, with a channel of its own; `SetupInv` that a connection being set up
  has no watchers yet, hence no recoveries; `ChanInv` that an open channel is of an open
  connection; `CurrentInv` which connection is published; `StopInv` and `DetachInv` the
  same for Stop, which takes `connected` back before it detaches. There is one lemma per
  conjunct.

`SenderProofs` (every number of publishers and channels, every capacity of the
returns channel, with and without confirms and mandatory):

* `SenderTypes`, `PendingIsExact`, from `BaseInv`;
* `OutcomeIsHonest`: `Spec => []HonestOutcome`. It needs to know where the return of an
  acked publish is. `TrailInv`: on the wire in front of the ack, in the buffer, in the
  hand of the publisher that holds `drainMu`, or stored, unless the channel was
  replaced. `WireInv` says which frames of a publish can be on the wire,
  `RealInv` that what is buffered, in hand or stored was returned by the broker,
  `DrainInv` that a drain works under `drainMu` on the channel of its publish and has its
  return stored when it ends, `StageInv` relates a publisher's place to what the
  broker did with its message, `ChansInv` that channels are used in order.

`MatchProofs` (every pattern and every key, of any length):

* `MatcherIsBrokers`, `MatcherCapturesLeftmost`: `matchTokens` matches exactly when the
  tokens can be laid over the words, and captures what the leftmost such reading
  assigns. The lemma behind both, `MatchExact`, is for the tokens from `i` on and the
  words from `j` on; the step (`ExactStep`) puts one token in front (`AheadReads`,
  `AheadLeftmost`, `AssignedAhead`). Induction is a lemma about sets of naturals
  (`Induction`), from the library's theorem that `<` is well founded, and it also
  gives that the recursion in `matchTokens` has a solution (`MatchEquation`).

`RoutingProofs` (every list of bindings, every configuration, topic and field):

* `ConsumersAreBound` (`ConsumingMeansBound`), `BackoffDoubles` (`BackoffSchedule`), from
  `TopologyInv`: the bindings up to `next` are there as long as the queue this attempt
  declared is (`DeclaredInv`), and the delay in force is that of the last attempt (`DelayInv`).
* `RoutingTypes`, `SubscriptionsMatch` (`MatchIsBrokers`), `CapturesDetermined`
  (`CapturesLeftmost`), `TopicSurvives`, `FieldsSurvive`, `TraceSurvives`, from `EventInv`:
  what was published is what OnEvent was given made into a text and headers
  (`PubInv`), and what was seen is determined by the message (`SeenInv`). `TraceSurvives`
  rests on `Carriable`: what the propagator writes it can read back, and it writes
  tracestate only beside traceparent.

Assumptions are the named ASSUMEs of the modules: nil is no channel, callers are
disjoint, limits are naturals, deliveries finite, channels, deliveries and connections
numbered; bindings, mappings and texts are finite sequences, and a
token is a word or a wildcard (`BindingsAssumption`, `ScenariosAssumption`). TLC
evaluates them on every run.

Model-checked only: liveness (`DrainReturns`, `StopBounded`, `CountComesBack`,
`StopReturns`, `PublishReturns`, `ReturnsFlow`, `WatchersEnd`, `ComesBack`), since the
prover has no support for fairness and ENABLED. How `splitDot` finds the words of a text
rests on a sort the prover does not know: the proofs use only that its result is a
sequence, and that it is the right one is checked by the runs through `TopicArrives` and
the broker's own reading.

## 6 Bounds, fairness and abstractions

**Bounds.** Two channels give a receiver one restart, which is what tags of an
earlier channel need; two owners give the Stop that finds the fields taken and the
Start that crosses, two drainers the second drain that finds them taken. One delivery
is enough for a loop that is busy while others stop and start, and a prefetch of one
keeps the window in play; two deliveries, one in hand and one behind it, are in
`receiver_settling`, where one owner and one channel leave room for them and for
liveness. `UpToCrossing` keeps TLC from following a behaviour past a Start that crossed.
The state in which it crossed is still checked; after it, the properties of that run that
speak of owners promise nothing, so nothing is lost of them, and `UnsettledExact` and
`NoLeak` are proved without the constraint. Acknowledgement modes and
dispositions enter through `SettlesOnReturn`: manual acknowledgement of a handled delivery
and automatic acknowledgement of a deferred one take the same steps, and the second is
run. Two connections give the client one reconnect; three
channels give a first channel, the one a recovery opens and the one a reconnect
opens, the shape of every race between the two mechanisms. Two Stop calls give
the repeated and the early Stop. One broker per walk with `MaxReconnectAttempts = 1`
lets the limit be reached. Connections and channels are never reused, so their
number bounds a behaviour; once they are used up, dials and openings fail, which
the code also meets. The attempt counter stands still just past its limit. Connections, channels and deliveries are numbered and
used in order, which leaves out renamings of the same behaviour and nothing else.

In `Sender` two publishers give one that drains the other's return, two channels give
the swap under a publisher, and a returns channel of one place is full after one
return; what matters is that more publishes can be in flight than it holds. In
`Topology` the environment has a budget of faults, equal to `MaxAttempt`, so that the
backoff passes its cap (the seventh delay) and faults come to an end; attempts that fail
for want of the queue are bounded by `MaxAttempt` too. In `Routing` three tokens allow
two `#` around another token, the shortest pattern that makes the matcher backtrack
over a capture.

Deadlock is not checked: all parties may have
finished, and a stopped client is a legitimate end.

**Fairness.** `Receiver!FairSpec`: goroutines that are runnable run, and a deadline
passes. Nothing is promised of the broker, the subscriber or downstream work;
`CountComesBack` states in itself that those finish (`WorkFinishes`).
`Client!FairSpec`: the connect goroutine, each watcher and a Stop in progress run;
dials have a timeout, backoffs are timers, and hooks are taken to return. There is
no fairness for new calls, connection loss or channel loss.
`Sender!FairSpec`: a publisher in a call, a watcher and the library's reader run,
confirm.select comes back with an answer or an error, and the broker confirms what it
was sent; nothing makes a deadline pass, a message be returned or a channel die.
`Routing!FairSpec`: the client's goroutines run and the broker answers each round trip;
`NotifyClose` is called sooner or later on a connection that stays up. Nothing is
promised of faults or of an operator, so `ComesBack` is about queues the
receiver declares itself.

**Abstractions.**

* A delivery's content is gone. It is dispatched or refused, and its subscriber
  returns with or without an error, by choice.
* Buffered deliveries form a set: the loop may take them in any order, which
  includes the order they came in.
* In `Client`, a receiver's Start and Stop are one step each (what is inside them is
  `Receiver`), and a hook is one step with the locked section before it in
  `StopOnDisconnect`. Closing channels and connection is one step of Stop.
* `SetChannel` on a channel already dead may leave the sender detached, because
  confirm mode cannot be enabled on it.
* In `Sender` each channel has its own wire. In the library a reader stuck on one
  returns channel holds up every channel of the connection, which makes
  `sender_blocked` worse and the passing properties no weaker.
* A context is looked at in `WaitContext` only; the library's publish does not wait.
* In `Routing` a topic pattern is the set of topics it matches and the fields it
  extracts, a `RoutingKeyFunc` or `VinculumTopicFunc` returns the value of a field or
  fails when there is none, and a body decodes or not by choice. Both processes have the
  W3C trace context and baggage propagators installed; a value of a trace header is one
  they parse (`WellFormed`) or not. A sender's trace context is part of its configuration,
  since there is one event.
* In `Topology` an attempt is a sequence of steps nothing in the client interferes with
  (`Client` is about that). A queue that somebody else makes is of the kind the receiver
  would declare, so that declaring it again succeeds.
* A channel-level exception ("soft") and a loss with the connection ("gone") are
  told apart, because the watcher does.

## 7 What is not modelled

* Metrics: nothing reads them back. Span attributes, `failPublish`'s recording and
  `contentTypeFor` likewise.
* Typed header values: the carrier and `headersToFields` format what is not a string.
* `topicmatch` and `wire`: other repositories; their results are inputs here.
* `capConsumerTag`: a cut at 255 bytes on a rune boundary.
* `dialOne`'s TLS and SASL settings and `redactURL`.
* The builders' setters and defaults, and the checks for a queue and a subscriber.
* A handler that calls back into the client while a rollback holds the client's
  mutex (`client/client.go:803`): needs both components in one model, below.

## 8 Plan

1. Done: `Receiver`, `Client`, `Hooks`, their runs and first theorems.
2. Done: `Sender`; `Topology` and `Routing` with matching, transforms and backoff.
3. Done: proofs of the remaining invariants and action properties of all components.
4. `System`: `Client` with the locked sections of `Receiver` inside its steps: the
   two-owner race end to end, and the rollback that waits for a handler while it
   holds the mutex.
5. An abstract specification of settling (every delivery is settled at most once
   and counted out exactly once), with `Receiver` shown to implement it.

## 9 How to run

    tlc -workers 2 -config Receiver_lifecycle.cfg MCReceiver
    tlc -workers 2 -config Client_sender.cfg MCClient
    tlc -workers 2 -config Sender_publish.cfg MCSender
    tlc -workers 2 -config Routing_journey.cfg MCRouting
    tlapm ReceiverProofs.tla
    tlapm ClientProofs.tla
    tlapm SenderProofs.tla
    tlapm MatchProofs.tla
    tlapm RoutingProofs.tla

The longest run takes two to three minutes with two workers.
