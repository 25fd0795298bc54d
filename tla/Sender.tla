------------------------------- MODULE Sender -------------------------------
(***************************************************************************)
(* One RMQSender (sender/sender.go): SetChannel, concurrent OnEvent calls, *)
(* publisher confirms and the correlation of mandatory returns with the    *)
(* publish that caused them.                                               *)
(*                                                                         *)
(* Concurrent parties:                                                     *)
(*   - Publishers: goroutines in OnEvent, one call each; a publisher also  *)
(*     names the random MessageId of its publish;                          *)
(*   - one client goroutine in setChannel, which holds mu across the       *)
(*     confirm.select round trip;                                          *)
(*   - watchReturns, one goroutine per channel, without confirms only;     *)
(*   - the broker, and the library's reader goroutine (external): the      *)
(*     reader delivers the frames of a channel in order and blocks while   *)
(*     the returns channel it was given is full.                           *)
(*                                                                         *)
(* The client opens a fresh channel for every SetChannel, so a channel     *)
(* also names the returns channel and the stop channel made for it.        *)
(***************************************************************************)
EXTENDS Integers, Sequences

CONSTANTS
    Publishers,    \* goroutines that call OnEvent
    Chans,         \* AMQP channels, one per SetChannel, numbered as opened
    None,          \* Go's nil
    ReturnsCap,    \* capacity of the returns channel, 32 in the code
    ConfirmModes,  \* the values of confirmMode to consider
    Mandatories    \* the values of mandatory to consider

ASSUME ChansAssumption == Chans \subseteq Nat

ASSUME NilAssumption == None \notin Chans /\ None \notin Publishers

ASSUME CapAssumption == ReturnsCap \in Nat \ {0}

ASSUME ConfigAssumption ==
    ConfirmModes \subseteq BOOLEAN /\ Mandatories \subseteq BOOLEAN

VARIABLES
    \* RMQSender, the fields under mu; installing is the channel a setChannel
    \* that holds mu is putting into confirm mode
    ch, returnsCh, returnStop, installing,
    \* RMQSender, the lock of the drain and the correlation map: the MessageIds
    \* in it, and those whose entry holds a return
    drainMu, pending, stored,
    \* publishers: where each is, the channel it publishes on, the returns
    \* channel it drains, the return it has in hand, its result, and whose
    \* context has expired
    pc, pch, rch, hand, res, expired,
    \* AMQP side: state of each channel, frames the broker sent that the reader
    \* has not taken, returns buffered for the sender, what each publish's
    \* deferred confirmation holds, and what the broker did with it
    chState, wire, buf, conf, fate,
    \* watchReturns goroutines, and the stop channels that were closed
    watch, stopped,
    \* configuration, fixed by the builder
    confirmMode, mandatory

fields     == <<ch, returnsCh, returnStop, installing>>
returning  == <<drainMu, pending, stored>>
publishers == <<pc, pch, rch, hand, res, expired>>
amqp       == <<chState, wire, buf, conf, fate>>
watchers   == <<watch, stopped>>
config     == <<confirmMode, mandatory>>

vars == <<fields, returning, publishers, amqp, watchers, config>>

DrainPcs == {"drainLock", "drainLoop", "drainHandle"}

\* How OnEvent can end. "rejected" is every error before the broker can have
\* seen the message (not_connected, routing, serialize, publish); "dropped" is
\* the nil of DefaultTopicIgnore, which publishes nothing.
Results == {"none", "rejected", "dropped", "confirm", "nack", "returned", "ok"}

Frames == [kind : {"return", "ack", "nack"}, of : Publishers]

TypeOK ==
    /\ ch \in Chans \cup {None}
    /\ returnsCh \in Chans \cup {None}
    /\ returnStop \in Chans \cup {None}
    /\ installing \in Chans \cup {None}
    /\ drainMu \in Publishers \cup {None}
    /\ pending \subseteq Publishers
    /\ stored \subseteq Publishers
    /\ pc \in [Publishers -> {"idle", "send", "wait", "drain", "check", "done"}
                                 \cup DrainPcs]
    /\ pch \in [Publishers -> Chans \cup {None}]
    /\ rch \in [Publishers -> Chans \cup {None}]
    /\ hand \in [Publishers -> Publishers \cup {None}]
    /\ res \in [Publishers -> Results]
    /\ expired \subseteq Publishers
    /\ chState \in [Chans -> {"unused", "open", "dead"}]
    /\ wire \in [Chans -> Seq(Frames)]
    /\ buf \in [Chans -> Seq(Publishers)]
    /\ \A c \in Chans : Len(buf[c]) <= ReturnsCap
    /\ conf \in [Publishers -> {"none", "ack", "nack"}]
    /\ fate \in [Publishers -> {"unsent", "sent", "returned", "answered",
                                "returnedAnswered"}]
    /\ watch \in [Chans -> {"none", "on", "done"}]
    /\ stopped \subseteq Chans
    /\ confirmMode \in ConfirmModes
    /\ mandatory \in Mandatories

Init ==
    /\ ch = None /\ returnsCh = None /\ returnStop = None /\ installing = None
    /\ drainMu = None /\ pending = {} /\ stored = {}
    /\ pc = [p \in Publishers |-> "idle"]
    /\ pch = [p \in Publishers |-> None]
    /\ rch = [p \in Publishers |-> None]
    /\ hand = [p \in Publishers |-> None]
    /\ res = [p \in Publishers |-> "none"]
    /\ expired = {}
    /\ chState = [c \in Chans |-> "unused"]
    /\ wire = [c \in Chans |-> <<>>]
    /\ buf = [c \in Chans |-> <<>>]
    /\ conf = [p \in Publishers |-> "none"]
    /\ fate = [p \in Publishers |-> "unsent"]
    /\ watch = [c \in Chans |-> "none"]
    /\ stopped = {}
    /\ confirmMode \in ConfirmModes
    /\ mandatory \in Mandatories

-----------------------------------------------------------------------------
(* Helpers *)

\* No setChannel holds mu, so a reader of the fields may take it.
Unlocked == installing = None

\* The client opens channel c now, after all lower ones.
Fresh(c) ==
    /\ chState[c] = "unused"
    /\ \A d \in Chans : d < c => chState[d] # "unused"

Goto(p, l) == pc' = [pc EXCEPT ![p] = l]

\* OnEvent returns: the deferred Delete takes the publish out of the map.
Return(p, r) ==
    /\ Goto(p, "done")
    /\ res' = [res EXCEPT ![p] = r]
    /\ pending' = pending \ {p}

\* Mutant of StopWatcher: the stop channel is dropped without being closed.
StopWatcherForgotten == stopped' = stopped

\* Mutant of StopWatcher: a nil stop channel is closed too.
StopWatcherNil == stopped' = stopped \cup {returnStop}

\* Teardown at the head of setChannel: the old watcher is told to exit.
StopWatcher == stopped' = stopped \cup ({returnStop} \ {None})

\* handleReturn: a publish that waits on this MessageId learns of its return.
handleReturn(m) == stored' = IF m \in pending THEN stored \cup {m} ELSE stored

-----------------------------------------------------------------------------
(* setChannel *)

\* setChannel(nil), all of it under mu. On a sender that has no channel it
\* changes nothing.
SetNil ==
    /\ Unlocked /\ ch # None
    /\ StopWatcher
    /\ returnStop' = None /\ returnsCh' = None /\ ch' = None
    /\ UNCHANGED <<installing, returning, publishers, amqp, watch, config>>

\* Mutant of SetWatched: the watcher goroutine is not started.
SetUnwatched(c) ==
    /\ ~confirmMode /\ Unlocked /\ Fresh(c)
    /\ StopWatcher
    /\ ch' = c /\ returnStop' = c
    /\ chState' = [chState EXCEPT ![c] = "open"]
    /\ UNCHANGED <<returnsCh, installing, returning, publishers, wire, buf, conf,
                   fate, watch, config>>

\* setChannel without confirms: subscribes to returns and starts a watcher.
SetWatched(c) ==
    /\ ~confirmMode /\ Unlocked /\ Fresh(c)
    /\ StopWatcher
    /\ ch' = c /\ returnStop' = c
    /\ chState' = [chState EXCEPT ![c] = "open"]
    /\ watch' = [watch EXCEPT ![c] = "on"]
    /\ UNCHANGED <<returnsCh, installing, returning, publishers, wire, buf, conf,
                   fate, config>>

\* setChannel with confirms takes mu, drops the returns channel, and calls
\* enableConfirms without letting go of mu.
SetLock(c) ==
    /\ confirmMode /\ Unlocked /\ Fresh(c)
    /\ returnsCh' = None /\ installing' = c
    /\ chState' = [chState EXCEPT ![c] = "open"]
    /\ UNCHANGED <<ch, returnStop, returning, publishers, wire, buf, conf, fate,
                   watchers, config>>

\* The broker confirmed confirm.select: the channel is installed.
SetInstall ==
    /\ installing # None /\ chState[installing] = "open"
    /\ ch' = installing /\ returnsCh' = installing /\ installing' = None
    /\ UNCHANGED <<returnStop, returning, publishers, amqp, watchers, config>>

\* enableConfirms failed: the sender stays disconnected.
SetFails ==
    /\ installing # None
    /\ ch' = None /\ installing' = None
    /\ UNCHANGED <<returnsCh, returnStop, returning, publishers, amqp, watchers,
                   config>>

-----------------------------------------------------------------------------
(* OnEvent *)

\* Reads ch under mu.
PubRead(p) ==
    /\ pc[p] = "idle" /\ Unlocked
    /\ \/ /\ ch = None
          /\ Return(p, "rejected")
          /\ UNCHANGED pch
       \/ /\ ch # None
          /\ Goto(p, "send")
          /\ pch' = [pch EXCEPT ![p] = ch]
          /\ UNCHANGED <<res, pending>>
    /\ UNCHANGED <<fields, drainMu, stored, rch, hand, expired, amqp, watchers, config>>

\* resolveMapping (detailed in Routing) or Serialize ends the call.
PubRefused(p) ==
    /\ pc[p] = "send"
    /\ \E r \in {"rejected", "dropped"} : Return(p, r)
    /\ UNCHANGED <<fields, drainMu, stored, pch, rch, hand, expired, amqp, watchers,
                   config>>

\* publishConfirmed, after the pending entry of a mandatory publish is stored.
PubSendConfirmed(p) ==
    /\ confirmMode /\ pc[p] = "send"
    /\ \/ /\ chState[pch[p]] = "dead"
          /\ Return(p, "rejected")
          /\ UNCHANGED fate
       \/ /\ chState[pch[p]] = "open"
          /\ Goto(p, "wait")
          /\ pending' = IF mandatory THEN pending \cup {p} ELSE pending
          /\ fate' = [fate EXCEPT ![p] = "sent"]
          /\ UNCHANGED res
    /\ UNCHANGED <<fields, drainMu, stored, pch, rch, hand, expired, chState, wire,
                   buf, conf, watchers, config>>

\* PublishWithContext: without confirms nothing is waited for.
PubSend(p) ==
    /\ ~confirmMode /\ pc[p] = "send"
    /\ \/ /\ chState[pch[p]] = "dead"
          /\ Return(p, "rejected")
          /\ UNCHANGED fate
       \/ /\ chState[pch[p]] = "open"
          /\ Return(p, "ok")
          /\ fate' = [fate EXCEPT ![p] = "sent"]
    /\ UNCHANGED <<fields, drainMu, stored, pch, rch, hand, expired, chState, wire,
                   buf, conf, watchers, config>>

\* Mutant of PubConfirmed: the error path of a nack keeps the pending entry.
PubConfirmedLeaks(p) ==
    /\ pc[p] = "wait"
    /\ \/ conf[p] = "ack" /\ Goto(p, "drain") /\ UNCHANGED res
       \/ conf[p] = "nack" /\ Goto(p, "done") /\ res' = [res EXCEPT ![p] = "nack"]
    /\ UNCHANGED <<fields, returning, pch, rch, hand, expired, amqp, watchers, config>>

\* WaitContext found the confirmation.
PubConfirmed(p) ==
    /\ pc[p] = "wait"
    /\ \/ /\ conf[p] = "ack"
          /\ Goto(p, "drain")
          /\ UNCHANGED <<res, pending>>
       \/ /\ conf[p] = "nack"
          /\ Return(p, "nack")
    /\ UNCHANGED <<fields, drainMu, stored, pch, rch, hand, expired, amqp, watchers,
                   config>>

\* Mutant of PubTimeout: WaitContext is given a context without the deadline.
PubTimeoutIgnored(p) == FALSE /\ UNCHANGED vars

\* WaitContext found the context expired. Nothing is drained on this path.
PubTimeout(p) ==
    /\ pc[p] = "wait" /\ p \in expired
    /\ Return(p, "confirm")
    /\ UNCHANGED <<fields, drainMu, stored, pch, rch, hand, expired, amqp, watchers,
                   config>>

\* drainReturns reads returnsCh under mu: the current one, which need not be
\* the one of the channel this publish went out on.
DrainRead(p) ==
    /\ pc[p] = "drain" /\ Unlocked
    /\ rch' = [rch EXCEPT ![p] = returnsCh]
    /\ Goto(p, IF returnsCh = None THEN "check" ELSE "drainLock")
    /\ UNCHANGED <<fields, returning, pch, hand, res, expired, amqp, watchers, config>>

\* Mutant of DrainLock: concurrent drains do not exclude each other.
DrainUnlocked(p) ==
    /\ pc[p] = "drainLock"
    /\ Goto(p, "drainLoop")
    /\ UNCHANGED <<fields, returning, pch, rch, hand, res, expired, amqp, watchers,
                   config>>

DrainLock(p) ==
    /\ pc[p] = "drainLock" /\ drainMu = None
    /\ drainMu' = p
    /\ Goto(p, "drainLoop")
    /\ UNCHANGED <<fields, pending, stored, pch, rch, hand, res, expired, amqp,
                   watchers, config>>

\* One buffered return is received.
DrainTake(p) ==
    /\ pc[p] = "drainLoop" /\ buf[rch[p]] # <<>>
    /\ hand' = [hand EXCEPT ![p] = Head(buf[rch[p]])]
    /\ buf' = [buf EXCEPT ![rch[p]] = Tail(@)]
    /\ Goto(p, "drainHandle")
    /\ UNCHANGED <<fields, returning, pch, rch, res, expired, chState, wire, conf,
                   fate, watchers, config>>

DrainHandle(p) ==
    /\ pc[p] = "drainHandle"
    /\ handleReturn(hand[p])
    /\ hand' = [hand EXCEPT ![p] = None]
    /\ Goto(p, "drainLoop")
    /\ UNCHANGED <<fields, drainMu, pending, pch, rch, res, expired, amqp, watchers,
                   config>>

\* The returns channel is empty, or empty and closed.
DrainEmpty(p) ==
    /\ pc[p] = "drainLoop" /\ buf[rch[p]] = <<>>
    /\ drainMu' = None
    /\ rch' = [rch EXCEPT ![p] = None]
    /\ Goto(p, "check")
    /\ UNCHANGED <<fields, pending, stored, pch, hand, res, expired, amqp,
                   watchers, config>>

\* The pending entry decides between success and "returned".
PubCheck(p) ==
    /\ pc[p] = "check"
    /\ Return(p, IF p \in stored THEN "returned" ELSE "ok")
    /\ UNCHANGED <<fields, drainMu, stored, pch, rch, hand, expired, amqp, watchers,
                   config>>

\* The context OnEvent was given expires. It is only looked at in WaitContext,
\* so an earlier expiry is no different from one on arrival there.
Expire(p) ==
    /\ pc[p] = "wait" /\ p \notin expired
    /\ expired' = expired \cup {p}
    /\ UNCHANGED <<fields, returning, pc, pch, rch, hand, res, amqp, watchers, config>>

-----------------------------------------------------------------------------
(* watchReturns *)

\* A return is received and handled; no publish waits on it in this mode.
WatchTake(c) ==
    /\ watch[c] = "on" /\ buf[c] # <<>>
    /\ handleReturn(Head(buf[c]))
    /\ buf' = [buf EXCEPT ![c] = Tail(@)]
    /\ UNCHANGED <<fields, drainMu, pending, publishers, chState, wire, conf, fate,
                   watchers, config>>

\* The stop channel is closed, or the returns channel is closed and empty.
WatchExit(c) ==
    /\ watch[c] = "on"
    /\ c \in stopped \/ (chState[c] = "dead" /\ buf[c] = <<>>)
    /\ watch' = [watch EXCEPT ![c] = "done"]
    /\ UNCHANGED <<fields, returning, publishers, amqp, stopped, config>>

-----------------------------------------------------------------------------
(* The broker and the AMQP library (external) *)

Send(c, k, p) == wire' = [wire EXCEPT ![c] = Append(@, [kind |-> k, of |-> p])]

\* A mandatory message no queue is bound for is sent back.
BrokerReturn(p) ==
    /\ mandatory /\ fate[p] = "sent" /\ chState[pch[p]] = "open"
    /\ fate' = [fate EXCEPT ![p] = "returned"]
    /\ Send(pch[p], "return", p)
    /\ UNCHANGED <<fields, returning, publishers, chState, buf, conf, watchers, config>>

\* The confirm of a publish, after its return if there was one. A message that
\* was returned is not nacked.
BrokerConfirm(p) ==
    /\ confirmMode /\ fate[p] # "unsent" /\ chState[pch[p]] = "open"
    /\ \/ /\ fate[p] = "sent"
          /\ fate' = [fate EXCEPT ![p] = "answered"]
          /\ \E k \in {"ack", "nack"} : Send(pch[p], k, p)
       \/ /\ fate[p] = "returned"
          /\ fate' = [fate EXCEPT ![p] = "returnedAnswered"]
          /\ Send(pch[p], "ack", p)
    /\ UNCHANGED <<fields, returning, publishers, chState, buf, conf, watchers, config>>

\* The reader hands the next frame of a channel on; a return waits for room.
ReaderStep(c) ==
    /\ wire[c] # <<>>
    /\ LET f == Head(wire[c]) IN
         \/ /\ f.kind = "return" /\ Len(buf[c]) < ReturnsCap
            /\ buf' = [buf EXCEPT ![c] = Append(@, f.of)]
            /\ UNCHANGED conf
         \/ /\ f.kind # "return"
            /\ conf' = [conf EXCEPT ![f.of] = f.kind]
            /\ UNCHANGED buf
    /\ wire' = [wire EXCEPT ![c] = Tail(@)]
    /\ UNCHANGED <<fields, returning, publishers, chState, fate, watchers, config>>

\* The channel closes: unread frames are lost, confirmations still open are
\* resolved as nacks, and the returns channel closes behind what it holds.
ChannelDies(c) ==
    /\ chState[c] = "open"
    /\ chState' = [chState EXCEPT ![c] = "dead"]
    /\ wire' = [wire EXCEPT ![c] = <<>>]
    /\ conf' = [p \in Publishers |->
                  IF pch[p] = c /\ fate[p] # "unsent" /\ conf[p] = "none"
                  THEN "nack" ELSE conf[p]]
    /\ UNCHANGED <<fields, returning, publishers, buf, fate, watchers, config>>

-----------------------------------------------------------------------------
(* Specification *)

\* A publish that was begun goes on.
Publish(p) ==
    \/ PubRefused(p) \/ PubSendConfirmed(p) \/ PubSend(p)
    \/ PubConfirmed(p) \/ PubTimeout(p)
    \/ DrainRead(p) \/ DrainLock(p) \/ DrainTake(p) \/ DrainHandle(p)
    \/ DrainEmpty(p) \/ PubCheck(p)

Next ==
    \/ SetNil \/ SetInstall \/ SetFails
    \/ \E p \in Publishers :
         \/ PubRead(p) \/ Publish(p) \/ Expire(p)
         \/ BrokerReturn(p) \/ BrokerConfirm(p)
    \/ \E c \in Chans :
         \/ SetWatched(c) \/ SetLock(c)
         \/ WatchTake(c) \/ WatchExit(c)
         \/ ReaderStep(c) \/ ChannelDies(c)

Spec == Init /\ [][Next]_vars

\* Goroutines that are in a call keep running, enableConfirms comes back (with
\* an answer, or with the error of a connection that missed its heartbeats),
\* the reader reads, and the broker confirms what it was sent. Calls, returns,
\* deadlines and the death of a channel may or may not happen.
Fairness ==
    /\ \A p \in Publishers : WF_vars(Publish(p))
    /\ \A p \in Publishers : WF_vars(BrokerConfirm(p))
    /\ WF_vars(SetInstall \/ SetFails)
    /\ \A c \in Chans : WF_vars(WatchTake(c) \/ WatchExit(c)) /\ WF_vars(ReaderStep(c))

FairSpec == Spec /\ Fairness

-----------------------------------------------------------------------------
(* Properties *)

Returned(p) == fate[p] \in {"returned", "returnedAnswered"}

\* setChannel has let go of channel c, or is about to.
Replaced(c) == ch # c \/ installing # None

\* With confirms, OnEvent returns nil only for a publish the broker acked. If
\* the broker had returned the message all the same, then setChannel replaced
\* the channel before drainReturns looked. OnEvent says "returned" only of a
\* message the broker did return. However the drains of concurrent publishes
\* interleave, each returned publish hears of it.
HonestOutcome ==
    confirmMode =>
      \A p \in Publishers :
        /\ res[p] = "ok" => conf[p] = "ack" /\ (Returned(p) => Replaced(pch[p]))
        /\ res[p] = "returned" => conf[p] = "ack" /\ Returned(p)

\* The correlation map holds exactly the mandatory publishes that wait for a
\* confirm or drain after it: no path out of OnEvent leaves an entry behind,
\* and none takes it away while a concurrent drain may still need it.
PendingExact ==
    pending = {p \in Publishers :
                 /\ confirmMode /\ mandatory
                 /\ pc[p] \in {"wait", "drain", "check"} \cup DrainPcs}

\* The watcher of a channel that setChannel replaced does not outlive it for
\* good, even when that channel never closes.
WatchersEnd == \A c \in Chans : (watch[c] = "on" /\ ch # c) ~> watch[c] = "done"

\* An OnEvent whose context expired returns, whatever the broker, the reader
\* and a concurrent SetChannel do.
PublishReturns == \A p \in Publishers : p \in expired ~> pc[p] = "done"

\* Without confirms a channel in use always gets its returns read: the frames
\* the broker sent are taken until the channel dies or is replaced.
ReturnsFlow ==
    \A c \in Chans :
      (~confirmMode /\ wire[c] # <<>>)
        ~> (wire[c] = <<>> \/ c \in stopped \/ chState[c] = "dead")

\* Documented: a mandatory publish the broker returned is reported as an error
\* (README, "Mandatory-return error surfacing"; SenderBuilder.WithMandatory).
ReturnedIsReported ==
    confirmMode => \A p \in Publishers : res[p] = "ok" => ~Returned(p)

\* Documented: OnEvent blocks until the broker acks or nacks the publish
\* (SenderBuilder.WithConfirmMode). So an answer the broker sent arrives, unless
\* the channel dies or the caller's deadline passes first.
ConfirmsArrive ==
    \A p \in Publishers :
      (fate[p] \in {"answered", "returnedAnswered"})
        ~> \/ pc[p] = "done" \/ p \in expired
           \/ \E c \in Chans : pch[p] = c /\ chState[c] = "dead"

=============================================================================
