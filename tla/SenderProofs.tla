---------------------------- MODULE SenderProofs ----------------------------
(***************************************************************************)
(* Proofs about Sender, for any number of publishers and channels and any  *)
(* capacity of the returns channel: the correlation map holds exactly the  *)
(* publishes that wait, and OnEvent's result is an honest one.             *)
(***************************************************************************)
EXTENDS Sender, TLAPS

-----------------------------------------------------------------------------
(* Types, and the correlation map *)

Waiting == {"wait", "drain", "check"} \cup DrainPcs

\* A publish that got past the first step has a channel, one that drains has a
\* returns channel to drain, and one about to handle a return has the return.
CallInv ==
    \A p \in Publishers :
        /\ pc[p] \notin {"idle", "done"} \/ fate[p] # "unsent" => pch[p] \in Chans
        /\ pc[p] \in DrainPcs => rch[p] \in Chans
        /\ pc[p] = "drainHandle" <=> hand[p] # None

BaseInv == TypeOK /\ PendingExact /\ CallInv

\* Taking the first element of a sequence shifts the others.
LEMMA TailSeq ==
    ASSUME NEW S, NEW s \in Seq(S), s # <<>>
    PROVE  /\ Head(s) \in S /\ Head(s) = s[1] /\ Len(s) \in Nat \ {0}
           /\ Tail(s) \in Seq(S) /\ Len(Tail(s)) = Len(s) - 1
           /\ \A i \in 1..Len(Tail(s)) : Tail(s)[i] = s[i + 1]
OBVIOUS

\* Appending to a sequence keeps the elements it has where they are.
LEMMA AppendSeq ==
    ASSUME NEW S, NEW s \in Seq(S), NEW x \in S
    PROVE  /\ Append(s, x) \in Seq(S) /\ Len(s) \in Nat
           /\ Len(Append(s, x)) = Len(s) + 1 /\ Append(s, x)[Len(s) + 1] = x
           /\ \A i \in 1..Len(s) : Append(s, x)[i] = s[i]
OBVIOUS

LEMMA BaseInit == Init => BaseInv
<1> SUFFICES ASSUME Init PROVE BaseInv
  OBVIOUS
<1>1. TypeOK
  BY CapAssumption DEF Init, TypeOK, Results
<1>2. PendingExact
  BY DEF Init, PendingExact, DrainPcs
<1>3. CallInv
  BY DEF Init, CallInv, DrainPcs
<1> QED
  BY <1>1, <1>2, <1>3 DEF BaseInv

\* What setChannel does leaves the publishes and the map alone.
LEMMA BaseSetChannel ==
    ASSUME BaseInv,
           \/ SetNil \/ SetInstall \/ SetFails
           \/ \E c \in Chans : SetWatched(c) \/ SetLock(c)
    PROVE  BaseInv'
<1> USE DEF BaseInv, fields, returning, publishers, amqp, watchers, config
<1>1. TypeOK'
  <2>1. CASE SetNil BY <2>1 DEF TypeOK, SetNil, StopWatcher
  <2>2. CASE SetInstall BY <2>2 DEF TypeOK, SetInstall
  <2>3. CASE SetFails BY <2>3 DEF TypeOK, SetFails
  <2>4. ASSUME NEW c \in Chans, SetWatched(c) PROVE TypeOK'
    BY <2>4 DEF TypeOK, SetWatched, StopWatcher
  <2>5. ASSUME NEW c \in Chans, SetLock(c) PROVE TypeOK'
    BY <2>5 DEF TypeOK, SetLock
  <2> QED BY <2>1, <2>2, <2>3, <2>4, <2>5
<1>2. UNCHANGED <<pending, publishers, fate, config>>
  BY DEF SetNil, SetInstall, SetFails, SetWatched, SetLock
<1>3. PendingExact' /\ CallInv'
  BY <1>2 DEF PendingExact, CallInv
<1> QED BY <1>1, <1>3

\* Every way out of OnEvent takes the entry out of the map.
LEMMA BaseReturn ==
    ASSUME BaseInv, NEW p \in Publishers, NEW r \in Results, Return(p, r),
           pc[p] # "drainHandle",
           \/ UNCHANGED fate
           \/ pch[p] \in Chans /\ fate' = [fate EXCEPT ![p] = "sent"],
           UNCHANGED <<fields, drainMu, stored, pch, rch, hand, expired, chState,
                       wire, buf, conf, watchers, config>>
    PROVE  BaseInv'
<1> USE DEF fields, watchers, config, Return, Goto, DrainPcs
<1>1. TypeOK'
  <2>1. TypeOK BY DEF BaseInv
  <2>2. fate' \in [Publishers -> {"unsent", "sent", "returned", "answered",
                                 "returnedAnswered"}]
    BY <2>1 DEF TypeOK
  <2> QED BY <2>1, <2>2 DEF TypeOK
<1>2. PendingExact'
  BY DEF BaseInv, TypeOK, PendingExact
<1>3. CallInv'
  BY DEF BaseInv, TypeOK, CallInv
<1> QED BY <1>1, <1>2, <1>3 DEF BaseInv

\* The steps of OnEvent: the entry is put in when the publish is sent.
LEMMA BasePublish ==
    ASSUME NEW p \in Publishers
    PROVE  BaseInv /\ (PubRead(p) \/ Publish(p) \/ Expire(p)) => BaseInv'
<1> USE NilAssumption
        DEF BaseInv, fields, returning, publishers, amqp, watchers, config,
            Goto, DrainPcs
<1>1. ASSUME BaseInv, PubRead(p) PROVE BaseInv'
  <2>1. CASE ch = None
    BY <1>1, <2>1, BaseReturn DEF PubRead, Results
  <2>2. CASE ch # None
    <3>1. /\ pc' = [pc EXCEPT ![p] = "send"] /\ pch' = [pch EXCEPT ![p] = ch]
          /\ UNCHANGED <<fields, returning, rch, hand, res, expired, amqp, watchers,
                         config>>
      BY <1>1, <2>2 DEF PubRead
    <3>2. TypeOK' BY <1>1, <3>1 DEF TypeOK
    <3>3. PendingExact' BY <1>1, <3>1 DEF TypeOK, PendingExact, PubRead
    <3>4. CallInv' BY <1>1, <2>2, <3>1 DEF TypeOK, CallInv, PubRead
    <3> QED BY <3>2, <3>3, <3>4
  <2> QED BY <2>1, <2>2
<1>2. ASSUME BaseInv, PubRefused(p) PROVE BaseInv'
  BY <1>2, BaseReturn DEF PubRefused, Results
<1>3. ASSUME BaseInv, PubSendConfirmed(p) PROVE BaseInv'
  <2>1. CASE chState[pch[p]] = "dead"
    BY <1>3, <2>1, BaseReturn DEF PubSendConfirmed, Results
  <2>2. CASE chState[pch[p]] = "open"
    <3>1. /\ pc' = [pc EXCEPT ![p] = "wait"] /\ fate' = [fate EXCEPT ![p] = "sent"]
          /\ pending' = IF mandatory THEN pending \cup {p} ELSE pending
          /\ UNCHANGED <<fields, drainMu, stored, pch, rch, hand, res, expired,
                         chState, wire, buf, conf, watchers, config>>
      BY <1>3, <2>2 DEF PubSendConfirmed
    <3>2. TypeOK' BY <1>3, <3>1 DEF TypeOK
    <3>3. PendingExact'
      <4>1. confirmMode /\ pc[p] = "send" BY <1>3 DEF PubSendConfirmed
      <4> QED BY <1>3, <3>1, <4>1 DEF TypeOK, PendingExact
    <3>4. CallInv' BY <1>3, <3>1 DEF TypeOK, CallInv, PubSendConfirmed
    <3> QED BY <3>2, <3>3, <3>4
  <2> QED BY <1>3, <2>1, <2>2 DEF PubSendConfirmed
<1>4. ASSUME BaseInv, PubSend(p) PROVE BaseInv'
  BY <1>4, BaseReturn DEF PubSend, Results, CallInv
<1>5. ASSUME BaseInv, PubConfirmed(p) PROVE BaseInv'
  <2>1. CASE conf[p] = "ack"
    <3>1. /\ pc' = [pc EXCEPT ![p] = "drain"]
          /\ UNCHANGED <<fields, returning, pch, rch, hand, res, expired, amqp,
                         watchers, config>>
      BY <1>5, <2>1 DEF PubConfirmed
    <3>2. TypeOK' BY <1>5, <3>1 DEF TypeOK
    <3>3. PendingExact' BY <1>5, <3>1 DEF TypeOK, PendingExact, PubConfirmed
    <3>4. CallInv' BY <1>5, <3>1 DEF TypeOK, CallInv, PubConfirmed
    <3> QED BY <3>2, <3>3, <3>4
  <2>2. CASE conf[p] = "nack"
    BY <1>5, <2>2, BaseReturn DEF PubConfirmed, Results
  <2> QED BY <1>5, <2>1, <2>2 DEF PubConfirmed
<1>6. ASSUME BaseInv, PubTimeout(p) PROVE BaseInv'
  BY <1>6, BaseReturn DEF PubTimeout, Results
<1>7. ASSUME BaseInv, DrainRead(p) PROVE BaseInv'
  <2>1. TypeOK' BY <1>7 DEF TypeOK, DrainRead
  <2>2. PendingExact' BY <1>7 DEF TypeOK, PendingExact, DrainRead
  <2>3. CallInv' BY <1>7 DEF TypeOK, CallInv, DrainRead
  <2> QED BY <2>1, <2>2, <2>3
<1>8. ASSUME BaseInv, DrainLock(p) PROVE BaseInv'
  <2>1. TypeOK' BY <1>8 DEF TypeOK, DrainLock
  <2>2. PendingExact' BY <1>8 DEF TypeOK, PendingExact, DrainLock
  <2>3. CallInv' BY <1>8 DEF TypeOK, CallInv, DrainLock
  <2> QED BY <2>1, <2>2, <2>3
<1>9. ASSUME BaseInv, DrainTake(p) PROVE BaseInv'
  <2> DEFINE b == buf[rch[p]]
  <2>4. /\ rch[p] \in Chans /\ Head(b) \in Publishers
        /\ Tail(b) \in Seq(Publishers) /\ Len(Tail(b)) <= ReturnsCap
    BY <1>9, TailSeq, CapAssumption DEF TypeOK, CallInv, DrainTake
  <2>1. TypeOK' BY <1>9, <2>4 DEF TypeOK, DrainTake
  <2>2. PendingExact' BY <1>9 DEF TypeOK, PendingExact, DrainTake
  <2>3. CallInv' BY <1>9, <2>4 DEF TypeOK, CallInv, DrainTake
  <2> QED BY <2>1, <2>2, <2>3
<1>10. ASSUME BaseInv, DrainHandle(p) PROVE BaseInv'
  <2>1. stored' \subseteq Publishers BY <1>10 DEF TypeOK, DrainHandle, handleReturn
  <2>4. TypeOK' BY <1>10, <2>1 DEF TypeOK, DrainHandle
  <2>2. PendingExact' BY <1>10 DEF TypeOK, PendingExact, DrainHandle
  <2>3. CallInv' BY <1>10 DEF TypeOK, CallInv, DrainHandle
  <2> QED BY <2>2, <2>3, <2>4
<1>11. ASSUME BaseInv, DrainEmpty(p) PROVE BaseInv'
  <2>1. TypeOK' BY <1>11 DEF TypeOK, DrainEmpty
  <2>2. PendingExact' BY <1>11 DEF TypeOK, PendingExact, DrainEmpty
  <2>3. CallInv' BY <1>11 DEF TypeOK, CallInv, DrainEmpty
  <2> QED BY <2>1, <2>2, <2>3
<1>12. ASSUME BaseInv, PubCheck(p) PROVE BaseInv'
  BY <1>12, BaseReturn DEF PubCheck, Results
<1>13. ASSUME BaseInv, Expire(p) PROVE BaseInv'
  <2>1. TypeOK' BY <1>13 DEF TypeOK, Expire
  <2>2. PendingExact' BY <1>13 DEF PendingExact, Expire
  <2>3. CallInv' BY <1>13 DEF CallInv, Expire
  <2> QED BY <2>1, <2>2, <2>3
<1> QED
  BY <1>1, <1>2, <1>3, <1>4, <1>5, <1>6, <1>7, <1>8, <1>9, <1>10, <1>11, <1>12,
     <1>13 DEF Publish

\* What the broker puts on the wire is a frame.
LEMMA SendTypes ==
    ASSUME TypeOK, NEW c \in Chans, NEW k \in {"return", "ack", "nack"}, NEW p \in Publishers,
           Send(c, k, p)
    PROVE  wire' \in [Chans -> Seq(Frames)]
<1>1. [kind |-> k, of |-> p] \in Frames
  BY DEF Frames
<1>2. Append(wire[c], [kind |-> k, of |-> p]) \in Seq(Frames)
  BY <1>1 DEF TypeOK
<1> QED BY <1>2 DEF TypeOK, Send

\* The broker, the reader and the watchers move frames and returns, and leave
\* the publishers' own state alone.
LEMMA BaseAmqp ==
    BaseInv /\ (\/ \E p \in Publishers : BrokerReturn(p) \/ BrokerConfirm(p)
                \/ \E c \in Chans : \/ WatchTake(c) \/ WatchExit(c)
                                   \/ ReaderStep(c) \/ ChannelDies(c))
    => BaseInv'
<1> USE DEF fields, returning, publishers, amqp, watchers, config
<1>1. ASSUME TypeOK, CallInv, NEW p \in Publishers, BrokerReturn(p)
      PROVE  TypeOK' /\ CallInv'
  <2>1. wire' \in [Chans -> Seq(Frames)]
    BY <1>1, SendTypes DEF CallInv, BrokerReturn
  <2>2. fate' \in [Publishers -> {"unsent", "sent", "returned", "answered",
                                   "returnedAnswered"}]
    BY <1>1 DEF TypeOK, BrokerReturn
  <2>3. TypeOK' BY <1>1, <2>1, <2>2 DEF TypeOK, BrokerReturn
  <2>4. CallInv' BY <1>1 DEF TypeOK, CallInv, BrokerReturn
  <2> QED BY <2>3, <2>4
<1>2. ASSUME TypeOK, CallInv, NEW p \in Publishers, BrokerConfirm(p)
      PROVE  TypeOK' /\ CallInv'
  <2>1. wire' \in [Chans -> Seq(Frames)]
    BY <1>2, SendTypes DEF CallInv, BrokerConfirm
  <2>2. fate' \in [Publishers -> {"unsent", "sent", "returned", "answered",
                                   "returnedAnswered"}]
    <3>1. \E f \in {"answered", "returnedAnswered"} : fate' = [fate EXCEPT ![p] = f]
      BY <1>2 DEF BrokerConfirm
    <3> QED BY <1>2, <3>1 DEF TypeOK
  <2>3. TypeOK' BY <1>2, <2>1, <2>2 DEF TypeOK, BrokerConfirm
  <2>4. CallInv' BY <1>2 DEF TypeOK, CallInv, BrokerConfirm
  <2> QED BY <2>3, <2>4
<1>3. ASSUME TypeOK, NEW c \in Chans, WatchTake(c) PROVE TypeOK'
  <2>1. stored' \subseteq Publishers
    BY <1>3 DEF TypeOK, WatchTake, handleReturn
  <2>2. Tail(buf[c]) \in Seq(Publishers) /\ Len(Tail(buf[c])) <= ReturnsCap
    BY <1>3, TailSeq, CapAssumption DEF TypeOK, WatchTake
  <2>3. /\ buf' \in [Chans -> Seq(Publishers)]
        /\ \A d \in Chans : Len(buf'[d]) <= ReturnsCap
    BY <1>3, <2>2 DEF TypeOK, WatchTake
  <2> QED BY <1>3, <2>1, <2>3 DEF TypeOK, WatchTake
<1>4. ASSUME TypeOK, NEW c \in Chans, WatchExit(c) PROVE TypeOK'
  BY <1>4 DEF TypeOK, WatchExit
<1>5. ASSUME TypeOK, NEW c \in Chans, ReaderStep(c) PROVE TypeOK'
  <2> DEFINE f == Head(wire[c])
  <2>1. f \in Frames /\ Tail(wire[c]) \in Seq(Frames)
    BY <1>5 DEF TypeOK, ReaderStep
  <2>2. f.of \in Publishers /\ f.kind \in {"return", "ack", "nack"}
    BY <2>1 DEF Frames
  <2> HIDE DEF f
  <2>3. wire' \in [Chans -> Seq(Frames)]
    BY <1>5, <2>1 DEF TypeOK, ReaderStep
  <2>4. CASE f.kind = "return"
    <3>3. Len(buf[c]) < ReturnsCap /\ buf' = [buf EXCEPT ![c] = Append(@, f.of)]
      BY <1>5, <2>4 DEF ReaderStep, f
    <3>4. /\ Append(buf[c], f.of) \in Seq(Publishers)
          /\ Len(Append(buf[c], f.of)) <= ReturnsCap
      BY <1>5, <2>2, <3>3, AppendSeq, CapAssumption DEF TypeOK
    <3>1. /\ buf' \in [Chans -> Seq(Publishers)]
          /\ \A d \in Chans : Len(buf'[d]) <= ReturnsCap
      BY <1>5, <3>3, <3>4 DEF TypeOK
    <3>2. conf' = conf
      BY <1>5, <2>4 DEF ReaderStep, f
    <3> QED BY <1>5, <2>3, <3>1, <3>2 DEF TypeOK, ReaderStep
  <2>5. CASE f.kind # "return"
    <3>1. buf' = buf /\ conf' = [conf EXCEPT ![f.of] = f.kind]
      BY <1>5, <2>5 DEF ReaderStep, f
    <3> QED BY <1>5, <2>2, <2>3, <2>5, <3>1 DEF TypeOK, ReaderStep
  <2> QED BY <2>4, <2>5
<1>6. ASSUME TypeOK, NEW c \in Chans, ChannelDies(c) PROVE TypeOK'
  BY <1>6 DEF TypeOK, ChannelDies
<1>7. ASSUME CallInv, UNCHANGED <<publishers, fate>> PROVE CallInv'
  BY <1>7 DEF CallInv
<1>8. ASSUME NEW c \in Chans,
             WatchTake(c) \/ WatchExit(c) \/ ReaderStep(c) \/ ChannelDies(c)
      PROVE  UNCHANGED <<publishers, fate>>
  BY <1>8 DEF WatchTake, WatchExit, ReaderStep, ChannelDies
<1>9. ASSUME PendingExact, UNCHANGED <<pending, pc, config>> PROVE PendingExact'
  BY <1>9 DEF PendingExact
<1>10. ASSUME \/ \E p \in Publishers : BrokerReturn(p) \/ BrokerConfirm(p)
              \/ \E c \in Chans : \/ WatchTake(c) \/ WatchExit(c)
                                 \/ ReaderStep(c) \/ ChannelDies(c)
       PROVE  UNCHANGED <<pending, pc, config>>
  BY <1>10 DEF BrokerReturn, BrokerConfirm, WatchTake, WatchExit, ReaderStep, ChannelDies
<1> QED
  BY <1>1, <1>2, <1>3, <1>4, <1>5, <1>6, <1>7, <1>8, <1>9, <1>10 DEF BaseInv

LEMMA BaseStep == BaseInv /\ [Next]_vars => BaseInv'
<1> SUFFICES ASSUME BaseInv, [Next]_vars PROVE BaseInv'
  OBVIOUS
<1>1. CASE Next
  BY <1>1, BaseSetChannel, BasePublish, BaseAmqp DEF Next
<1>2. CASE UNCHANGED vars
  BY <1>2 DEF vars, fields, returning, publishers, amqp, watchers, config,
              BaseInv, TypeOK, PendingExact, CallInv
<1> QED BY <1>1, <1>2

\* Every variable keeps its type; in particular the returns channel never holds
\* more than its capacity, and the drain never reads from a nil channel.
THEOREM SenderTypes == Spec => []TypeOK
<1>1. Spec => []BaseInv
  BY BaseInit, BaseStep, PTL DEF Spec
<1>2. BaseInv => TypeOK
  BY DEF BaseInv
<1> QED BY <1>1, <1>2, PTL

\* The correlation map holds exactly the mandatory publishes that wait for a
\* confirm or drain after it, whatever the number of concurrent publishes.
THEOREM PendingIsExact == Spec => []PendingExact
<1>1. Spec => []BaseInv
  BY BaseInit, BaseStep, PTL DEF Spec
<1>2. BaseInv => PendingExact
  BY DEF BaseInv
<1> QED BY <1>1, <1>2, PTL

-----------------------------------------------------------------------------
(* The outcome of a publish *)

Answered(p) == fate[p] \in {"answered", "returnedAnswered"}

\* Channels are used in the order they were opened: what a field or a publish
\* holds was opened before, and the one being installed is held by nobody else.
\* Whoever may take mu finds the returns channel of the current channel.
ChansInv ==
    /\ ch # None => chState[ch] # "unused"
    /\ installing # None =>
          chState[installing] # "unused" /\ ch # installing /\ returnsCh = None
    /\ confirmMode /\ Unlocked => returnsCh = ch
    /\ \A p \in Publishers :
          pch[p] # None => chState[pch[p]] # "unused" /\ pch[p] # installing
    /\ \A c \in Chans : chState[c] # "open" => wire[c] = <<>>

\* How far a publish has come agrees with what the broker did with it and with
\* what its confirmation holds.
Stage(p) ==
    /\ pc[p] \in {"idle", "send"} => fate[p] = "unsent"
    /\ pc[p] # "done" => res[p] = "none"
    /\ pc[p] \in Waiting \ {"wait"} => conf[p] = "ack"
    /\ confirmMode /\ res[p] \in {"ok", "returned"} => conf[p] = "ack"
    /\ conf[p] = "ack" => Answered(p)
    /\ fate[p] = "unsent" => conf[p] = "none"
    /\ conf[p] = "nack" => Answered(p) \/ chState[pch[p]] = "dead"
    /\ Returned(p) => mandatory

StageInv == \A p \in Publishers : Stage(p)

\* A frame on the wire of c is about a publish on that channel. An answer is
\* the only one of its publish, and not yet known to it.
FrameOf(c, i) ==
    LET p == wire[c][i].of IN
    /\ pch[p] = c
    /\ wire[c][i].kind = "return" => Returned(p)
    /\ wire[c][i].kind # "return" =>
          /\ Answered(p) /\ conf[p] = "none"
          /\ \A j \in 1..Len(wire[c]) :
                wire[c][j].kind # "return" /\ wire[c][j].of = p => i = j

WireInv == \A c \in Chans : \A i \in 1..Len(wire[c]) : FrameOf(c, i)

\* What was taken off the wire as a return was returned by the broker.
RealBuf(c) == \A i \in 1..Len(buf[c]) : Returned(buf[c][i])

RealInv ==
    /\ \A c \in Chans : RealBuf(c)
    /\ \A q \in Publishers : hand[q] # None => Returned(hand[q])
    /\ \A p \in stored : Returned(p)

\* The return of p is buffered on the channel p published on, in the hand of
\* a drain, or in p's entry of the map.
Collected(p) ==
    \/ \E i \in 1..Len(buf[pch[p]]) : buf[pch[p]][i] = p
    \/ \E q \in Publishers : hand[q] = p
    \/ p \in stored

\* The return of p is on the wire, ahead of any answer to p.
OnWire(p) ==
    LET w == wire[pch[p]] IN
    \E i \in 1..Len(w) :
        /\ w[i] = [kind |-> "return", of |-> p]
        /\ \A j \in 1..i : w[j].of = p => w[j].kind = "return"

\* The return of a publish that still waits is not lost while its
\* confirmation may be an ack.
Traced(p) ==
    pc[p] \in Waiting /\ Returned(p) =>
       \/ Collected(p)
       \/ conf[p] = "none" /\ OnWire(p)
       \/ conf[p] = "nack" /\ chState[pch[p]] = "dead"

TrailInv == confirmMode => \A p \in Publishers : Traced(p)

\* Drains exclude each other, and a drain looks where its publish's return
\* would be, unless the channel was replaced.
Drains(p) ==
    /\ pc[p] \in {"drainLoop", "drainHandle"} => drainMu = p
    /\ pc[p] \in DrainPcs => rch[p] = pch[p] \/ Replaced(pch[p])
    /\ pc[p] = "check" /\ Returned(p) => p \in stored \/ Replaced(pch[p])

DrainInv == confirmMode => \A p \in Publishers : Drains(p)

OutcomeInv ==
    /\ BaseInv /\ HonestOutcome
    /\ ChansInv /\ StageInv /\ WireInv /\ RealInv /\ TrailInv /\ DrainInv

LEMMA OutcomeInit == Init => OutcomeInv
<1> SUFFICES ASSUME Init PROVE OutcomeInv
  OBVIOUS
<1>1. BaseInv
  BY BaseInit
<1>2. HonestOutcome /\ ChansInv /\ StageInv /\ TrailInv /\ DrainInv
  BY DEF Init, HonestOutcome, ChansInv, StageInv, Stage, TrailInv, Traced, DrainInv,
         Drains, Returned, Answered, Unlocked, Waiting, DrainPcs
<1>3. WireInv /\ RealInv
  BY DEF Init, WireInv, FrameOf, RealInv, RealBuf
<1> QED BY <1>1, <1>2, <1>3 DEF OutcomeInv

\* Which channels are open, current or being installed.
LEMMA ChansStep == BaseInv /\ ChansInv /\ Next => ChansInv'
<1> USE NilAssumption
        DEF fields, returning, publishers, amqp, watchers, config, Unlocked
<1>1. ASSUME BaseInv, ChansInv, SetNil PROVE ChansInv'
  BY <1>1 DEF BaseInv, TypeOK, ChansInv, SetNil
<1>2. ASSUME BaseInv, ChansInv, SetInstall PROVE ChansInv'
  BY <1>2 DEF BaseInv, TypeOK, ChansInv, SetInstall
<1>3. ASSUME BaseInv, ChansInv, SetFails PROVE ChansInv'
  BY <1>3 DEF BaseInv, TypeOK, ChansInv, SetFails
<1>4. ASSUME BaseInv, ChansInv, NEW c \in Chans, SetWatched(c) PROVE ChansInv'
  BY <1>4 DEF BaseInv, TypeOK, ChansInv, SetWatched, Fresh
<1>5. ASSUME BaseInv, ChansInv, NEW c \in Chans, SetLock(c) PROVE ChansInv'
  BY <1>5 DEF BaseInv, TypeOK, ChansInv, SetLock, Fresh
<1>6. ASSUME BaseInv, ChansInv, NEW p \in Publishers, PubRead(p) PROVE ChansInv'
  BY <1>6 DEF BaseInv, TypeOK, ChansInv, PubRead
<1>7. ASSUME BaseInv, ChansInv, NEW p \in Publishers, BrokerReturn(p) \/ BrokerConfirm(p)
      PROVE  ChansInv'
  <2>1. /\ chState[pch[p]] = "open" /\ UNCHANGED <<fields, publishers, chState, config>>
        /\ \E f : wire' = [wire EXCEPT ![pch[p]] = f]
    BY <1>7 DEF BrokerReturn, BrokerConfirm, Send
  <2> QED BY <1>7, <2>1 DEF BaseInv, TypeOK, ChansInv
<1>8. ASSUME BaseInv, ChansInv, NEW c \in Chans, ReaderStep(c) PROVE ChansInv'
  <2>1. chState[c] = "open"
    BY <1>8 DEF BaseInv, TypeOK, ChansInv, ReaderStep
  <2>2. /\ UNCHANGED <<fields, publishers, chState, config>>
        /\ wire' = [wire EXCEPT ![c] = Tail(@)]
    BY <1>8 DEF ReaderStep
  <2> QED BY <1>8, <2>1, <2>2 DEF BaseInv, TypeOK, ChansInv
<1>9. ASSUME BaseInv, ChansInv, NEW c \in Chans, ChannelDies(c) PROVE ChansInv'
  BY <1>9 DEF BaseInv, TypeOK, ChansInv, ChannelDies
<1>10. ASSUME ChansInv, UNCHANGED <<fields, pch, chState, wire, config>> PROVE ChansInv'
  BY <1>10 DEF ChansInv
<1>11. ASSUME NEW p \in Publishers, Publish(p) \/ Expire(p)
       PROVE  UNCHANGED <<fields, pch, chState, wire, config>>
  BY <1>11 DEF Publish, PubRefused, PubSendConfirmed, PubSend, PubConfirmed, PubTimeout,
               DrainRead, DrainLock, DrainTake, DrainHandle, DrainEmpty, PubCheck, Expire
<1>12. ASSUME NEW c \in Chans, WatchTake(c) \/ WatchExit(c)
       PROVE  UNCHANGED <<fields, pch, chState, wire, config>>
  BY <1>12 DEF WatchTake, WatchExit
<1> QED
  BY <1>1, <1>2, <1>3, <1>4, <1>5, <1>6, <1>7, <1>8, <1>9, <1>10, <1>11, <1>12 DEF Next

\* A channel that setChannel let go of is not the current one again.
LEMMA ReplacedStable ==
    ASSUME BaseInv, ChansInv, Next, NEW p \in Publishers, pch[p] \in Chans,
           pc[p] # "idle", Replaced(pch[p])
    PROVE  Replaced(pch[p])' /\ pch'[p] = pch[p]
<1> USE DEF fields, returning, publishers, amqp, watchers, config
<1>1. pch'[p] = pch[p]
  <2>1. ASSUME NEW q \in Publishers, PubRead(q) PROVE pch'[p] = pch[p]
    BY <2>1 DEF BaseInv, TypeOK, PubRead
  <2>2. ASSUME NEW q \in Publishers,
               Publish(q) \/ Expire(q) \/ BrokerReturn(q) \/ BrokerConfirm(q)
        PROVE  pch' = pch
    BY <2>2 DEF Publish, PubRefused, PubSendConfirmed, PubSend, PubConfirmed, PubTimeout,
                DrainRead, DrainLock, DrainTake, DrainHandle, DrainEmpty, PubCheck,
                Expire, BrokerReturn, BrokerConfirm
  <2>3. ASSUME NEW c \in Chans,
               \/ SetWatched(c) \/ SetLock(c) \/ WatchTake(c) \/ WatchExit(c)
               \/ ReaderStep(c) \/ ChannelDies(c)
        PROVE  pch' = pch
    BY <2>3 DEF SetWatched, SetLock, WatchTake, WatchExit, ReaderStep, ChannelDies
  <2>4. ASSUME SetNil \/ SetInstall \/ SetFails PROVE pch' = pch
    BY <2>4 DEF SetNil, SetInstall, SetFails
  <2> QED BY <2>1, <2>2, <2>3, <2>4 DEF Next
<1>2. Replaced(pch[p])'
  <2>1. CASE SetNil \/ SetInstall \/ SetFails
    BY <1>1, <2>1, NilAssumption
       DEF BaseInv, TypeOK, ChansInv, Replaced, SetNil, SetInstall, SetFails
  <2>2. ASSUME NEW c \in Chans, SetWatched(c) PROVE Replaced(pch[p])'
    <3>1. chState[pch[p]] # "unused" /\ chState[c] = "unused" /\ ch' = c
      BY <2>2, NilAssumption DEF ChansInv, SetWatched, Fresh
    <3> QED BY <1>1, <3>1 DEF Replaced
  <2>3. ASSUME NEW c \in Chans, SetLock(c) PROVE Replaced(pch[p])'
    BY <2>3, NilAssumption DEF Replaced, SetLock
  <2>4. ASSUME NEW q \in Publishers,
               \/ PubRead(q) \/ Publish(q) \/ Expire(q)
               \/ BrokerReturn(q) \/ BrokerConfirm(q)
        PROVE  UNCHANGED <<ch, installing>>
    BY <2>4 DEF PubRead, Publish, PubRefused, PubSendConfirmed, PubSend, PubConfirmed,
                PubTimeout, DrainRead, DrainLock, DrainTake, DrainHandle, DrainEmpty,
                PubCheck, Expire, BrokerReturn, BrokerConfirm
  <2>5. ASSUME NEW c \in Chans,
               WatchTake(c) \/ WatchExit(c) \/ ReaderStep(c) \/ ChannelDies(c)
        PROVE  UNCHANGED <<ch, installing>>
    BY <2>5 DEF WatchTake, WatchExit, ReaderStep, ChannelDies
  <2>6. ASSUME UNCHANGED <<ch, installing>> PROVE Replaced(pch[p])'
    BY <1>1, <2>6 DEF Replaced
  <2> QED BY <2>1, <2>2, <2>3, <2>4, <2>5, <2>6 DEF Next
<1> QED BY <1>1, <1>2

\* What the broker did with a publish is not undone, and once it has answered
\* it does nothing more.
LEMMA FateStep ==
    ASSUME BaseInv, StageInv, Next, NEW p \in Publishers
    PROVE  /\ Returned(p) => Returned(p)'
           /\ Answered(p) => fate'[p] = fate[p]
           /\ fate[p] # "unsent" => fate'[p] # "unsent"
           /\ Returned(p)' => Returned(p) \/ BrokerReturn(p)
<1> USE DEF fields, returning, publishers, amqp, watchers, config, Returned, Answered
<1>1. ASSUME NEW q \in Publishers, PubSendConfirmed(q) \/ PubSend(q)
      PROVE  \/ fate' = fate
             \/ fate[q] = "unsent" /\ fate' = [fate EXCEPT ![q] = "sent"]
  BY <1>1 DEF StageInv, Stage, PubSendConfirmed, PubSend
<1>2. ASSUME NEW q \in Publishers, BrokerReturn(q)
      PROVE  fate[q] = "sent" /\ fate' = [fate EXCEPT ![q] = "returned"]
  BY <1>2 DEF BrokerReturn
<1>3. ASSUME NEW q \in Publishers, BrokerConfirm(q)
      PROVE  \/ fate[q] = "sent" /\ fate' = [fate EXCEPT ![q] = "answered"]
             \/ fate[q] = "returned" /\ fate' = [fate EXCEPT ![q] = "returnedAnswered"]
  BY <1>3 DEF BrokerConfirm
<1>4. \/ fate' = fate
      \/ \E q \in Publishers : \/ PubSendConfirmed(q) \/ PubSend(q)
                              \/ BrokerReturn(q) \/ BrokerConfirm(q)
  BY DEF Next, Publish, SetNil, SetInstall, SetFails, PubRead, Expire, PubRefused,
         PubConfirmed, PubTimeout, DrainRead, DrainLock, DrainTake, DrainHandle,
         DrainEmpty, PubCheck, SetWatched, SetLock, WatchTake, WatchExit, ReaderStep,
         ChannelDies
<1>5. fate \in [Publishers -> {"unsent", "sent", "returned", "answered",
                              "returnedAnswered"}]
  BY DEF BaseInv, TypeOK
<1> QED BY <1>1, <1>2, <1>3, <1>4, <1>5

\* The stages of a publish: the reader resolves a confirmation only with an
\* answer the broker gave, and once.
LEMMA StageStep == BaseInv /\ ChansInv /\ StageInv /\ WireInv /\ Next => StageInv'
<1> USE DEF fields, returning, publishers, amqp, watchers, config, Returned, Answered,
            Waiting, DrainPcs, Goto, Return
<1> SUFFICES ASSUME BaseInv, ChansInv, StageInv, WireInv, Next PROVE StageInv'
  OBVIOUS
<1>1. ASSUME NEW p \in Publishers, PubRead(p) PROVE StageInv'
  BY <1>1 DEF BaseInv, TypeOK, CallInv, ChansInv, StageInv, Stage, PubRead
<1>2. ASSUME NEW p \in Publishers, PubRefused(p) PROVE StageInv'
  BY <1>2 DEF BaseInv, TypeOK, CallInv, ChansInv, StageInv, Stage, PubRefused
<1>3. ASSUME NEW p \in Publishers, PubSendConfirmed(p) PROVE StageInv'
  BY <1>3 DEF BaseInv, TypeOK, CallInv, ChansInv, StageInv, Stage, PubSendConfirmed
<1>4. ASSUME NEW p \in Publishers, PubSend(p) PROVE StageInv'
  BY <1>4 DEF BaseInv, TypeOK, CallInv, ChansInv, StageInv, Stage, PubSend
<1>5. ASSUME NEW p \in Publishers, PubConfirmed(p) PROVE StageInv'
  BY <1>5 DEF BaseInv, TypeOK, CallInv, ChansInv, StageInv, Stage, PubConfirmed
<1>6. ASSUME NEW p \in Publishers, PubTimeout(p) PROVE StageInv'
  BY <1>6 DEF BaseInv, TypeOK, CallInv, ChansInv, StageInv, Stage, PubTimeout
<1>7. ASSUME NEW p \in Publishers, DrainRead(p) PROVE StageInv'
  BY <1>7 DEF BaseInv, TypeOK, CallInv, ChansInv, StageInv, Stage, DrainRead
<1>8. ASSUME NEW p \in Publishers, DrainLock(p) PROVE StageInv'
  BY <1>8 DEF BaseInv, TypeOK, CallInv, ChansInv, StageInv, Stage, DrainLock
<1>9. ASSUME NEW p \in Publishers, DrainTake(p) PROVE StageInv'
  BY <1>9 DEF BaseInv, TypeOK, CallInv, ChansInv, StageInv, Stage, DrainTake
<1>10. ASSUME NEW p \in Publishers, DrainHandle(p) PROVE StageInv'
  BY <1>10 DEF BaseInv, TypeOK, CallInv, ChansInv, StageInv, Stage, DrainHandle
<1>11. ASSUME NEW p \in Publishers, DrainEmpty(p) PROVE StageInv'
  BY <1>11 DEF BaseInv, TypeOK, CallInv, ChansInv, StageInv, Stage, DrainEmpty
<1>12. ASSUME NEW p \in Publishers, PubCheck(p) PROVE StageInv'
  BY <1>12 DEF BaseInv, TypeOK, CallInv, ChansInv, StageInv, Stage, PubCheck
<1>13. ASSUME NEW p \in Publishers, Expire(p) PROVE StageInv'
  BY <1>13 DEF BaseInv, TypeOK, CallInv, ChansInv, StageInv, Stage, Expire
<1>14. ASSUME NEW p \in Publishers, BrokerReturn(p) PROVE StageInv'
  BY <1>14 DEF BaseInv, TypeOK, StageInv, Stage, BrokerReturn
<1>15. ASSUME NEW p \in Publishers, BrokerConfirm(p) PROVE StageInv'
  <2>1. /\ UNCHANGED <<publishers, chState, conf, config>>
        /\ \/ fate[p] = "sent" /\ fate' = [fate EXCEPT ![p] = "answered"]
           \/ fate[p] = "returned" /\ fate' = [fate EXCEPT ![p] = "returnedAnswered"]
    BY <1>15 DEF BrokerConfirm
  <2> SUFFICES ASSUME NEW q \in Publishers PROVE Stage(q)'
    BY DEF StageInv
  <2>2. Stage(q) /\ Stage(p)
    BY DEF StageInv
  <2> QED BY <2>1, <2>2 DEF BaseInv, TypeOK, Stage
<1>16. ASSUME NEW c \in Chans, ReaderStep(c) PROVE StageInv'
  <2> DEFINE f == Head(wire[c])
  <2>1. f \in Frames /\ f = wire[c][1] /\ 1 \in 1..Len(wire[c])
    BY <1>16, TailSeq DEF BaseInv, TypeOK, ReaderStep
  <2>2. f.kind # "return" => Answered(f.of) /\ conf[f.of] = "none"
    BY <2>1 DEF WireInv, FrameOf
  <2>3. f.of \in Publishers /\ f.kind \in {"return", "ack", "nack"}
    BY <2>1 DEF Frames
  <2>4. \/ conf' = conf
        \/ f.kind # "return" /\ conf' = [conf EXCEPT ![f.of] = f.kind]
    BY <1>16 DEF ReaderStep
  <2>5. UNCHANGED <<publishers, chState, fate, config>>
    BY <1>16 DEF ReaderStep
  <2> HIDE DEF f
  <2> QED BY <2>2, <2>3, <2>4, <2>5 DEF BaseInv, TypeOK, StageInv, Stage
<1>17. ASSUME NEW c \in Chans, ChannelDies(c) PROVE StageInv'
  BY <1>17 DEF BaseInv, TypeOK, CallInv, StageInv, Stage, ChannelDies
<1>18. ASSUME NEW c \in Chans, SetWatched(c) \/ SetLock(c) PROVE StageInv'
  <2>1. /\ UNCHANGED <<publishers, conf, fate, config>>
        /\ chState[c] = "unused" /\ chState' = [chState EXCEPT ![c] = "open"]
    BY <1>18 DEF SetWatched, SetLock, Fresh
  <2> QED BY <2>1 DEF BaseInv, TypeOK, CallInv, StageInv, Stage
<1>19. ASSUME \/ SetNil \/ SetInstall \/ SetFails
              \/ \E c \in Chans : WatchTake(c) \/ WatchExit(c)
       PROVE  StageInv'
  <2>1. UNCHANGED <<publishers, chState, conf, fate, config>>
    BY <1>19 DEF SetNil, SetInstall, SetFails, WatchTake, WatchExit
  <2> QED BY <2>1 DEF StageInv, Stage
<1> QED
  BY <1>1, <1>2, <1>3, <1>4, <1>5, <1>6, <1>7, <1>8, <1>9, <1>10, <1>11, <1>12, <1>13,
     <1>14, <1>15, <1>16, <1>17, <1>18, <1>19 DEF Next, Publish

\* The broker puts a frame behind those that are on the wire.
LEMMA SendWire ==
    ASSUME wire \in [Chans -> Seq(Frames)], NEW c \in Chans,
           NEW k \in {"return", "ack", "nack"}, NEW p \in Publishers, Send(c, k, p)
    PROVE  /\ Len(wire'[c]) = Len(wire[c]) + 1 /\ Len(wire[c]) \in Nat
           /\ wire'[c][Len(wire[c]) + 1] = [kind |-> k, of |-> p]
           /\ \A i \in 1..Len(wire[c]) : wire'[c][i] = wire[c][i]
           /\ \A d \in Chans \ {c} : wire'[d] = wire[d]
<1> DEFINE x == [kind |-> k, of |-> p]
<1>1. x \in Frames
  BY DEF Frames
<1>2. wire[c] \in Seq(Frames)
  OBVIOUS
<1>3. wire'[c] = Append(wire[c], x) /\ \A d \in Chans \ {c} : wire'[d] = wire[d]
  BY DEF Send
<1> HIDE DEF x
<1>4. /\ Len(wire[c]) \in Nat
      /\ Len(Append(wire[c], x)) = Len(wire[c]) + 1
      /\ Append(wire[c], x)[Len(wire[c]) + 1] = x
      /\ \A i \in 1..Len(wire[c]) : Append(wire[c], x)[i] = wire[c][i]
  BY <1>1, <1>2, AppendSeq
<1> QED BY <1>3, <1>4 DEF x

\* Frames: each is put on the wire of its publish's channel, and a publish is
\* answered once.
LEMMA WireStep == BaseInv /\ ChansInv /\ StageInv /\ WireInv /\ Next => WireInv'
<1> USE DEF fields, returning, publishers, amqp, watchers, config, Returned, Answered
<1> SUFFICES ASSUME BaseInv, ChansInv, StageInv, WireInv, Next PROVE WireInv'
  OBVIOUS
<1>0. wire \in [Chans -> Seq(Frames)]
  BY DEF BaseInv, TypeOK
<1>1. \A c \in Chans : \A i \in 1..Len(wire[c]) :
         wire[c][i] \in Frames /\ wire[c][i].of \in Publishers
  <2> SUFFICES ASSUME NEW c \in Chans, NEW i \in 1..Len(wire[c])
               PROVE  wire[c][i] \in Frames /\ wire[c][i].of \in Publishers
    OBVIOUS
  <2>1. wire[c] \in Seq(Frames)
    BY <1>0
  <2>2. wire[c][i] \in Frames
    BY <2>1
  <2> QED BY <2>2 DEF Frames
\* A step that leaves the wire alone.
<1>2. ASSUME wire' = wire, conf' = conf, fate' = fate,
             \A p \in Publishers : fate[p] # "unsent" => pch'[p] = pch[p]
      PROVE  WireInv'
  <2> SUFFICES ASSUME NEW c \in Chans, NEW i \in 1..Len(wire[c]) PROVE FrameOf(c, i)'
    BY <1>2 DEF WireInv
  <2>1. FrameOf(c, i) /\ wire[c][i].of \in Publishers
    BY <1>1 DEF WireInv
  <2>2. wire[c][i].kind # "return" \/ wire[c][i].kind = "return"
    OBVIOUS
  <2> QED BY <1>2, <2>1, <2>2 DEF FrameOf
<1>3. ASSUME NEW p \in Publishers, PubRead(p) PROVE WireInv'
  <2>1. /\ UNCHANGED <<wire, conf, fate>> /\ pc[p] = "idle"
        /\ pch' = pch \/ pch' = [pch EXCEPT ![p] = ch]
    BY <1>3 DEF PubRead
  <2> QED BY <1>2, <2>1 DEF BaseInv, TypeOK, StageInv, Stage
<1>4. ASSUME NEW p \in Publishers, PubSendConfirmed(p) \/ PubSend(p) PROVE WireInv'
  <2>1. /\ UNCHANGED <<wire, conf, pch>> /\ fate[p] = "unsent"
        /\ fate' = fate \/ fate' = [fate EXCEPT ![p] = "sent"]
    BY <1>4 DEF StageInv, Stage, PubSendConfirmed, PubSend
  <2> SUFFICES ASSUME NEW c \in Chans, NEW i \in 1..Len(wire[c]) PROVE FrameOf(c, i)'
    BY <2>1 DEF WireInv
  <2>2. FrameOf(c, i) /\ wire[c][i].of \in Publishers /\ wire[c][i] \in Frames
    BY <1>1 DEF WireInv
  <2>3. wire[c][i].of # p
    BY <2>1, <2>2 DEF FrameOf
  <2> QED BY <2>1, <2>2, <2>3 DEF BaseInv, TypeOK, FrameOf
<1>5. ASSUME NEW p \in Publishers, BrokerReturn(p) PROVE WireInv'
  <2>1. PICK c \in Chans : c = pch[p]
    BY <1>5 DEF BaseInv, CallInv, BrokerReturn
  <2>2. /\ fate[p] = "sent" /\ fate' = [fate EXCEPT ![p] = "returned"]
        /\ UNCHANGED <<pch, conf>> /\ Send(c, "return", p)
    BY <1>5, <2>1 DEF BrokerReturn
  <2>3. /\ Len(wire'[c]) = Len(wire[c]) + 1 /\ Len(wire[c]) \in Nat
        /\ wire'[c][Len(wire[c]) + 1] = [kind |-> "return", of |-> p]
        /\ \A i \in 1..Len(wire[c]) : wire'[c][i] = wire[c][i]
        /\ \A d \in Chans \ {c} : wire'[d] = wire[d]
    BY <1>0, <2>2, SendWire
  <2> SUFFICES ASSUME NEW d \in Chans, NEW i \in 1..Len(wire'[d]) PROVE FrameOf(d, i)'
    BY DEF WireInv
  <2>4. CASE d = c /\ i = Len(wire[c]) + 1
    BY <2>1, <2>2, <2>3, <2>4 DEF BaseInv, TypeOK, FrameOf
  <2>5. CASE i \in 1..Len(wire[d])
    <3>1. FrameOf(d, i) /\ wire[d][i].of \in Publishers /\ wire'[d][i] = wire[d][i]
      BY <1>1, <2>3, <2>5 DEF WireInv
    <3>2. \A j \in 1..Len(wire'[d]) :
             wire'[d][j].kind # "return" => j \in 1..Len(wire[d]) /\ wire'[d][j] = wire[d][j]
      BY <2>3
    <3>3. \A q \in Publishers :
             (Returned(q) => Returned(q)') /\ (Answered(q) => Answered(q)')
      BY <2>2 DEF BaseInv, TypeOK
    <3>4. UNCHANGED <<pch, conf>>
      BY <2>2
    <3> HIDE DEF Returned, Answered
    <3> QED BY <3>1, <3>2, <3>3, <3>4 DEF FrameOf
  <2> QED BY <2>3, <2>4, <2>5
<1>6. ASSUME NEW p \in Publishers, BrokerConfirm(p) PROVE WireInv'
  <2>1. PICK c \in Chans : c = pch[p]
    BY <1>6 DEF BaseInv, CallInv, BrokerConfirm
  <2>2. PICK k \in {"ack", "nack"} :
          /\ \/ fate[p] = "sent" /\ fate' = [fate EXCEPT ![p] = "answered"]
             \/ fate[p] = "returned" /\ fate' = [fate EXCEPT ![p] = "returnedAnswered"]
          /\ UNCHANGED <<pch, conf>> /\ Send(c, k, p) /\ chState[pch[p]] = "open"
    BY <1>6, <2>1 DEF BrokerConfirm
  <2>3. /\ Len(wire'[c]) = Len(wire[c]) + 1 /\ Len(wire[c]) \in Nat
        /\ wire'[c][Len(wire[c]) + 1] = [kind |-> k, of |-> p]
        /\ \A i \in 1..Len(wire[c]) : wire'[c][i] = wire[c][i]
        /\ \A d \in Chans \ {c} : wire'[d] = wire[d]
    BY <1>0, <2>2, SendWire
  <2>4. conf[p] = "none"
    BY <2>2 DEF BaseInv, TypeOK, StageInv, Stage
  <2>5. \A d \in Chans : \A i \in 1..Len(wire[d]) :
           wire[d][i].of = p => wire[d][i].kind = "return"
    BY <2>2 DEF WireInv, FrameOf
  <2> SUFFICES ASSUME NEW d \in Chans, NEW i \in 1..Len(wire'[d]) PROVE FrameOf(d, i)'
    BY DEF WireInv
  <2>6. CASE d = c /\ i = Len(wire[c]) + 1
    <3>1. \A j \in 1..Len(wire'[d]) :
             wire'[d][j].kind # "return" /\ wire'[d][j].of = p => i = j
      BY <2>3, <2>5, <2>6
    <3> QED BY <2>1, <2>2, <2>3, <2>4, <2>6, <3>1 DEF BaseInv, TypeOK, FrameOf
  <2>7. CASE i \in 1..Len(wire[d])
    <3>1. FrameOf(d, i) /\ wire[d][i].of \in Publishers /\ wire'[d][i] = wire[d][i]
      BY <1>1, <2>3, <2>7 DEF WireInv
    <3>2. wire[d][i].of = p => wire[d][i].kind = "return"
      BY <2>5, <2>7
    <3>3. \A j \in 1..Len(wire'[d]) :
             wire'[d][j].of # p => j \in 1..Len(wire[d]) /\ wire'[d][j] = wire[d][j]
      BY <2>3
    <3>4. \A q \in Publishers :
             (Returned(q) => Returned(q)') /\ (Answered(q) => Answered(q)')
      BY <2>2 DEF BaseInv, TypeOK
    <3>5. UNCHANGED <<pch, conf>>
      BY <2>2
    <3> HIDE DEF Returned, Answered
    <3> QED BY <3>1, <3>2, <3>3, <3>4, <3>5 DEF FrameOf
  <2> QED BY <2>3, <2>6, <2>7
<1>7. ASSUME NEW c \in Chans, ReaderStep(c) PROVE WireInv'
  <2> DEFINE f == Head(wire[c])
  <2>1. /\ wire[c] # <<>> /\ UNCHANGED <<pch, fate>>
        /\ wire' = [wire EXCEPT ![c] = Tail(@)]
        /\ \/ conf' = conf
           \/ f.kind # "return" /\ conf' = [conf EXCEPT ![f.of] = f.kind]
    BY <1>7 DEF ReaderStep
  <2>2. /\ f = wire[c][1] /\ Len(wire[c]) \in Nat \ {0}
        /\ Len(wire'[c]) = Len(wire[c]) - 1
        /\ \A i \in 1..Len(wire'[c]) : wire'[c][i] = wire[c][i + 1]
    BY <1>0, <2>1, TailSeq
  <2>3. \A d \in Chans : d # c => wire'[d] = wire[d]
    BY <1>0, <2>1
  <2>4. pch[f.of] = c
    BY <2>2 DEF WireInv, FrameOf
  <2> HIDE DEF f
  <2>5. ASSUME NEW d \in Chans, d # c, NEW i \in 1..Len(wire'[d]) PROVE FrameOf(d, i)'
    <3>1. FrameOf(d, i) /\ wire[d][i].of \in Publishers /\ wire'[d] = wire[d]
      BY <1>1, <2>3, <2>5 DEF WireInv
    <3>2. conf'[wire[d][i].of] = conf[wire[d][i].of]
      BY <2>1, <2>4, <2>5, <3>1 DEF BaseInv, TypeOK, FrameOf
    <3> QED BY <2>1, <3>1, <3>2 DEF FrameOf
  <2>6. ASSUME NEW i \in 1..Len(wire'[c]) PROVE FrameOf(c, i)'
    <3>1. /\ i + 1 \in 1..Len(wire[c]) /\ i + 1 # 1 /\ 1 \in 1..Len(wire[c])
          /\ wire'[c][i] = wire[c][i + 1]
      BY <2>2
    <3>2. FrameOf(c, i + 1) /\ FrameOf(c, 1) /\ wire[c][i + 1].of \in Publishers
      BY <1>1, <3>1 DEF WireInv
    <3>3. wire[c][i + 1].kind # "return" /\ f.kind # "return" => f.of # wire[c][i + 1].of
      BY <2>2, <3>1, <3>2 DEF FrameOf
    <3>4. wire[c][i + 1].kind # "return" => conf'[wire[c][i + 1].of] = "none"
      BY <2>1, <3>2, <3>3 DEF BaseInv, TypeOK, FrameOf
    <3>5. \A j \in 1..Len(wire'[c]) :
             j + 1 \in 1..Len(wire[c]) /\ wire'[c][j] = wire[c][j + 1]
      BY <2>2
    <3> QED BY <2>1, <2>2, <3>1, <3>2, <3>4, <3>5 DEF FrameOf
  <2> QED BY <2>5, <2>6 DEF WireInv
<1>8. ASSUME NEW c \in Chans, ChannelDies(c) PROVE WireInv'
  <2>1. /\ UNCHANGED <<pch, fate>> /\ wire' = [wire EXCEPT ![c] = <<>>]
        /\ \A p \in Publishers : pch[p] # c => conf'[p] = conf[p]
    BY <1>8 DEF BaseInv, TypeOK, ChannelDies
  <2> QED BY <1>0, <1>1, <2>1 DEF WireInv, FrameOf
<1>9. ASSUME NEW p \in Publishers,
             \/ PubRefused(p) \/ PubConfirmed(p) \/ PubTimeout(p) \/ DrainRead(p)
             \/ DrainLock(p) \/ DrainTake(p) \/ DrainHandle(p) \/ DrainEmpty(p)
             \/ PubCheck(p) \/ Expire(p)
      PROVE  UNCHANGED <<wire, conf, fate, pch>>
  BY <1>9 DEF PubRefused, PubConfirmed, PubTimeout, DrainRead, DrainLock, DrainTake,
              DrainHandle, DrainEmpty, PubCheck, Expire
<1>10. ASSUME \/ SetNil \/ SetInstall \/ SetFails
              \/ \E c \in Chans : \/ SetWatched(c) \/ SetLock(c)
                                 \/ WatchTake(c) \/ WatchExit(c)
       PROVE  UNCHANGED <<wire, conf, fate, pch>>
  BY <1>10 DEF SetNil, SetInstall, SetFails, SetWatched, SetLock, WatchTake, WatchExit
<1> QED
  BY <1>2, <1>3, <1>4, <1>5, <1>6, <1>7, <1>8, <1>9, <1>10 DEF Next, Publish

\* Only what the reader took off the wire as a return is buffered, handled and
\* stored.
LEMMA RealStep ==
    BaseInv /\ StageInv /\ WireInv /\ RealInv /\ Next => RealInv'
<1> USE DEF fields, returning, publishers, amqp, watchers, config
<1> SUFFICES ASSUME BaseInv, StageInv, WireInv, RealInv, Next PROVE RealInv'
  OBVIOUS
<1>1. \A p \in Publishers : Returned(p) => Returned(p)'
  BY FateStep
<1>2. /\ buf \in [Chans -> Seq(Publishers)] /\ stored \subseteq Publishers
      /\ \A c \in Chans : \A i \in 1..Len(buf[c]) : buf[c][i] \in Publishers
      /\ hand \in [Publishers -> Publishers \cup {None}]
  <2>1. buf \in [Chans -> Seq(Publishers)]
    BY DEF BaseInv, TypeOK
  <2>2. ASSUME NEW c \in Chans, NEW i \in 1..Len(buf[c]) PROVE buf[c][i] \in Publishers
    <3>1. buf[c] \in Seq(Publishers) BY <2>1
    <3> QED BY <3>1
  <2> QED BY <2>1, <2>2 DEF BaseInv, TypeOK
<1>3. ASSUME NEW d \in Chans, buf'[d] = buf[d] PROVE RealBuf(d)'
  <2> SUFFICES ASSUME NEW i \in 1..Len(buf[d]) PROVE Returned(buf[d][i])'
    BY <1>3 DEF RealBuf
  <2>1. PICK p \in Publishers : p = buf[d][i] /\ Returned(p)
    BY <1>2 DEF RealInv, RealBuf
  <2> QED BY <1>1, <1>3, <2>1 DEF Returned
\* A return is taken from a buffer.
<1>4. ASSUME NEW c \in Chans, buf[c] # <<>>, buf' = [buf EXCEPT ![c] = Tail(@)]
      PROVE  /\ \A d \in Chans : RealBuf(d)'
             /\ \E p \in Publishers : p = Head(buf[c]) /\ Returned(p) /\ Returned(p)'
  <2>1. buf[c] \in Seq(Publishers) /\ buf'[c] = Tail(buf[c])
    BY <1>2, <1>4
  <2>2. /\ Head(buf[c]) = buf[c][1] /\ Len(buf[c]) \in Nat \ {0}
        /\ Len(buf'[c]) = Len(buf[c]) - 1
        /\ \A i \in 1..Len(buf'[c]) : buf'[c][i] = buf[c][i + 1]
    BY <1>4, <2>1, TailSeq
  <2>3. PICK p \in Publishers : p = Head(buf[c]) /\ Returned(p)
    BY <1>2, <2>2 DEF RealInv, RealBuf
  <2>4. ASSUME NEW i \in 1..Len(buf'[c]) PROVE Returned(buf[c][i])'
    <3>1. i + 1 \in 1..Len(buf[c]) /\ buf'[c][i] = buf[c][i + 1]
      BY <2>2
    <3>2. PICK q \in Publishers : q = buf[c][i + 1] /\ Returned(q)
      BY <1>2, <3>1 DEF RealInv, RealBuf
    <3> QED BY <1>1, <3>1, <3>2 DEF Returned
  <2>5. \A d \in Chans : d # c => RealBuf(d)'
    BY <1>2, <1>3, <1>4
  <2> QED BY <1>1, <2>3, <2>4, <2>5 DEF RealBuf
\* A return is handled.
<1>5. ASSUME NEW p \in Publishers, Returned(p)', handleReturn(p)
      PROVE  \A q \in stored' : Returned(q)'
  BY <1>1, <1>2, <1>5 DEF RealInv, handleReturn
<1>6. ASSUME NEW p \in Publishers, DrainTake(p) PROVE RealInv'
  <2>1. PICK c \in Chans : c = rch[p] /\ buf[c] # <<>> /\ buf' = [buf EXCEPT ![c] = Tail(@)]
    BY <1>6 DEF BaseInv, CallInv, DrainTake, DrainPcs
  <2>2. PICK m \in Publishers : m = Head(buf[c]) /\ Returned(m)'
    BY <1>4, <2>1
  <2>3. hand' = [hand EXCEPT ![p] = m] /\ stored' = stored
    BY <1>6, <2>1, <2>2 DEF DrainTake
  <2>4. ASSUME NEW q \in Publishers, hand'[q] # None PROVE Returned(hand[q])'
    <3>1. CASE q = p BY <1>2, <2>2, <2>3, <3>1 DEF Returned
    <3>2. CASE q # p
      <4>1. PICK r \in Publishers : r = hand[q] /\ hand'[q] = r /\ Returned(r)
        BY <1>2, <2>3, <2>4, <3>2 DEF RealInv
      <4> QED BY <1>1, <4>1 DEF Returned
    <3> QED BY <3>1, <3>2
  <2> QED BY <1>1, <1>2, <1>4, <2>1, <2>3, <2>4 DEF RealInv
<1>7. ASSUME UNCHANGED hand, NEW q \in Publishers, hand[q] # None PROVE Returned(hand[q])'
  <2>1. PICK r \in Publishers : r = hand[q] /\ Returned(r)
    BY <1>2, <1>7 DEF RealInv
  <2> QED BY <1>1, <1>7, <2>1 DEF Returned
<1>8. ASSUME NEW p \in Publishers, DrainHandle(p) PROVE RealInv'
  <2>1. hand' = [hand EXCEPT ![p] = None] /\ buf' = buf /\ handleReturn(hand[p])
    BY <1>8 DEF DrainHandle
  <2>2. PICK m \in Publishers : m = hand[p] /\ Returned(m)
    BY <1>2, <1>8 DEF BaseInv, CallInv, RealInv, DrainHandle
  <2>3. ASSUME NEW q \in Publishers, hand'[q] # None PROVE Returned(hand[q])'
    <3>1. PICK r \in Publishers : r = hand[q] /\ hand'[q] = r /\ Returned(r)
      BY <1>2, <2>1, <2>3 DEF RealInv
    <3> QED BY <1>1, <3>1 DEF Returned
  <2> QED BY <1>1, <1>3, <1>5, <2>1, <2>2, <2>3 DEF RealInv
<1>9. ASSUME NEW c \in Chans, WatchTake(c) PROVE RealInv'
  <2>1. /\ buf[c] # <<>> /\ buf' = [buf EXCEPT ![c] = Tail(@)] /\ hand' = hand
        /\ handleReturn(Head(buf[c]))
    BY <1>9 DEF WatchTake
  <2> QED BY <1>4, <1>5, <1>7, <2>1 DEF RealInv
<1>10. ASSUME NEW c \in Chans, ReaderStep(c) PROVE RealInv'
  <2>1. hand' = hand /\ stored' = stored /\ wire[c] # <<>>
    BY <1>10 DEF ReaderStep
  <2>2. \A d \in Chans : RealBuf(d)'
    <3>1. PICK f \in Frames : f = Head(wire[c]) /\ (f.kind = "return" => Returned(f.of))
      <4>1. wire[c] \in Seq(Frames)
        BY DEF BaseInv, TypeOK
      <4>2. Head(wire[c]) \in Frames /\ Head(wire[c]) = wire[c][1] /\ 1 \in 1..Len(wire[c])
        BY <2>1, <4>1, TailSeq
      <4> QED BY <4>2 DEF WireInv, FrameOf
    <3>2. PICK m \in Publishers : m = f.of
      BY <3>1 DEF Frames
    <3>3. CASE f.kind # "return"
      BY <1>3, <1>10, <3>1, <3>3 DEF ReaderStep
    <3>4. CASE f.kind = "return"
      <4>1. buf' = [buf EXCEPT ![c] = Append(@, m)] /\ Returned(m)'
        BY <1>1, <1>10, <3>1, <3>2, <3>4 DEF ReaderStep
      <4>2. buf[c] \in Seq(Publishers) /\ buf'[c] = Append(buf[c], m)
        BY <1>2, <4>1
      <4>3. /\ Len(buf'[c]) = Len(buf[c]) + 1 /\ Len(buf[c]) \in Nat
            /\ buf'[c][Len(buf[c]) + 1] = m
            /\ \A i \in 1..Len(buf[c]) : buf'[c][i] = buf[c][i]
        BY <4>2, AppendSeq
      <4>4. ASSUME NEW i \in 1..Len(buf'[c]) PROVE Returned(buf[c][i])'
        <5>1. CASE i = Len(buf[c]) + 1
          BY <4>1, <4>3, <5>1 DEF Returned
        <5>2. CASE i \in 1..Len(buf[c])
          <6>1. PICK q \in Publishers : q = buf[c][i] /\ buf'[c][i] = q /\ Returned(q)
            BY <1>2, <4>3, <5>2 DEF RealInv, RealBuf
          <6> QED BY <1>1, <6>1 DEF Returned
        <5> QED BY <4>3, <5>1, <5>2
      <4>5. \A d \in Chans : d # c => RealBuf(d)'
        BY <1>2, <1>3, <4>1
      <4> QED BY <4>4, <4>5 DEF RealBuf
    <3> QED BY <3>3, <3>4
  <2> QED BY <1>1, <1>2, <1>7, <2>1, <2>2 DEF RealInv
<1>11. ASSUME UNCHANGED <<buf, hand, stored>> PROVE RealInv'
  BY <1>1, <1>2, <1>3, <1>7, <1>11 DEF RealInv
<1>12. ASSUME NEW p \in Publishers,
              \/ PubRead(p) \/ PubRefused(p) \/ PubSendConfirmed(p) \/ PubSend(p)
              \/ PubConfirmed(p) \/ PubTimeout(p) \/ DrainRead(p) \/ DrainLock(p)
              \/ DrainEmpty(p) \/ PubCheck(p) \/ Expire(p)
              \/ BrokerReturn(p) \/ BrokerConfirm(p)
       PROVE  UNCHANGED <<buf, hand, stored>>
  BY <1>12 DEF PubRead, PubRefused, PubSendConfirmed, PubSend, PubConfirmed, PubTimeout,
               DrainRead, DrainLock, DrainEmpty, PubCheck, Expire, BrokerReturn,
               BrokerConfirm
<1>13. ASSUME \/ SetNil \/ SetInstall \/ SetFails
              \/ \E c \in Chans : \/ SetWatched(c) \/ SetLock(c)
                                 \/ WatchExit(c) \/ ChannelDies(c)
       PROVE  UNCHANGED <<buf, hand, stored>>
  BY <1>13 DEF SetNil, SetInstall, SetFails, SetWatched, SetLock, WatchExit, ChannelDies
<1> QED
  BY <1>6, <1>8, <1>9, <1>10, <1>11, <1>12, <1>13 DEF Next, Publish

LEMMA ConfigSame == Next => UNCHANGED config
<1> USE DEF config
<1>1. ASSUME NEW p \in Publishers,
             \/ PubRead(p) \/ Publish(p) \/ Expire(p)
             \/ BrokerReturn(p) \/ BrokerConfirm(p)
      PROVE  UNCHANGED config
  BY <1>1 DEF PubRead, Publish, PubRefused, PubSendConfirmed, PubSend, PubConfirmed,
              PubTimeout, DrainRead, DrainLock, DrainTake, DrainHandle, DrainEmpty,
              PubCheck, Expire, BrokerReturn, BrokerConfirm
<1>2. ASSUME \/ SetNil \/ SetInstall \/ SetFails
             \/ \E c \in Chans : \/ SetWatched(c) \/ SetLock(c) \/ WatchTake(c)
                                \/ WatchExit(c) \/ ReaderStep(c) \/ ChannelDies(c)
      PROVE  UNCHANGED config
  BY <1>2 DEF SetNil, SetInstall, SetFails, SetWatched, SetLock, WatchTake, WatchExit,
              ReaderStep, ChannelDies
<1> QED BY <1>1, <1>2 DEF Next

\* Taking the head of a buffer loses no return if it is kept in a hand or
\* handled.
LEMMA TakeCollected ==
    ASSUME BaseInv, NEW c \in Chans, buf[c] # <<>>, buf' = [buf EXCEPT ![c] = Tail(@)],
           NEW p \in Publishers, pch[p] \in Chans, pch' = pch
    PROVE  (\E i \in 1..Len(buf[pch[p]]) : buf[pch[p]][i] = p) =>
              \/ \E i \in 1..Len(buf'[pch[p]]) : buf'[pch[p]][i] = p
              \/ p = Head(buf[c])
<1> SUFFICES ASSUME NEW i \in 1..Len(buf[pch[p]]), buf[pch[p]][i] = p
             PROVE  \/ \E j \in 1..Len(buf'[pch[p]]) : buf'[pch[p]][j] = p
                    \/ p = Head(buf[c])
  OBVIOUS
<1>1. buf \in [Chans -> Seq(Publishers)]
  BY DEF BaseInv, TypeOK
<1>2. CASE pch[p] # c
  BY <1>1, <1>2
<1>3. CASE pch[p] = c
  <2>1. buf[c] \in Seq(Publishers) /\ buf'[c] = Tail(buf[c])
    BY <1>1
  <2>5. /\ Head(buf[c]) = buf[c][1] /\ Len(buf[c]) \in Nat \ {0}
        /\ Len(Tail(buf[c])) = Len(buf[c]) - 1
        /\ \A j \in 1..Len(Tail(buf[c])) : Tail(buf[c])[j] = buf[c][j + 1]
    BY <2>1, TailSeq
  <2>2. /\ Head(buf[c]) = buf[c][1] /\ Len(buf[c]) \in Nat \ {0}
        /\ Len(buf'[c]) = Len(buf[c]) - 1
        /\ \A j \in 1..Len(buf'[c]) : buf'[c][j] = buf[c][j + 1]
    BY <2>1, <2>5
  <2>3. CASE i = 1
    BY <1>3, <2>2, <2>3
  <2>4. CASE i # 1
    <3>1. i - 1 \in 1..Len(buf'[c]) /\ buf'[c][i - 1] = buf[c][i]
      BY <1>3, <2>2, <2>4
    <3> QED BY <1>3, <3>1
  <2> QED BY <2>3, <2>4
<1> QED BY <1>2, <1>3

\* A return reaches its publish: from the wire to the buffer before the ack is
\* seen, from there to a hand, and from the hand to the entry, which is there as
\* long as the publish waits.
LEMMA TrailStep ==
    BaseInv /\ ChansInv /\ StageInv /\ WireInv /\ RealInv /\ TrailInv /\ Next => TrailInv'
<1> USE DEF fields, returning, publishers, amqp, watchers, config
<1> SUFFICES ASSUME BaseInv, ChansInv, StageInv, WireInv, RealInv, TrailInv, Next
             PROVE  TrailInv'
  OBVIOUS
<1> SUFFICES ASSUME confirmMode, NEW p \in Publishers, pc'[p] \in Waiting, Returned(p)'
             PROVE  Traced(p)'
  BY ConfigSame DEF TrailInv, Traced
<1>0. /\ Traced(p) /\ Stage(p) /\ ~(None \in Publishers)
      /\ pc[p] \in Waiting => pch[p] \in Chans
  BY NilAssumption DEF TrailInv, StageInv, BaseInv, CallInv, Waiting, DrainPcs
\* A step that moves no return and no answer.
<1>1. ASSUME pc[p] \in Waiting, Returned(p), pch'[p] = pch[p], conf'[p] = conf[p],
             UNCHANGED <<buf, hand, stored, wire>>,
             chState[pch[p]] = "dead" => chState'[pch[p]] = "dead"
      PROVE  Traced(p)'
  <2>1. Collected(p) => Collected(p)'
    BY <1>1 DEF Collected
  <2>2. OnWire(p) => OnWire(p)'
    BY <1>1 DEF OnWire
  <2> QED BY <1>0, <1>1, <2>1, <2>2 DEF Traced
<1>2. ASSUME NEW q \in Publishers,
             \/ PubRead(q) \/ PubRefused(q) \/ PubSendConfirmed(q) \/ PubSend(q)
             \/ PubConfirmed(q) \/ PubTimeout(q) \/ DrainRead(q) \/ DrainLock(q)
             \/ DrainEmpty(q) \/ PubCheck(q) \/ Expire(q)
      PROVE  Traced(p)'
  <2> USE DEF Goto, Return, Waiting, DrainPcs
  <2>1. UNCHANGED <<buf, hand, stored, wire, conf, chState>>
    BY <1>2 DEF PubRead, PubRefused, PubSendConfirmed, PubSend, PubConfirmed, PubTimeout,
                DrainRead, DrainLock, DrainEmpty, PubCheck, Expire
  <2>2. CASE PubSendConfirmed(q) \/ PubSend(q)
    <3>1. /\ pc[q] = "send" /\ fate[q] = "unsent" /\ pch' = pch
          /\ \E l : pc' = [pc EXCEPT ![q] = l]
          /\ fate' = fate \/ fate' = [fate EXCEPT ![q] = "sent"]
      BY <2>2 DEF PubSendConfirmed, PubSend, StageInv, Stage
    <3>2. q # p
      BY <3>1 DEF BaseInv, TypeOK, Returned
    <3>3. pc[p] \in Waiting /\ Returned(p)
      BY <3>1, <3>2 DEF BaseInv, TypeOK, Returned
    <3> QED BY <1>1, <2>1, <3>1, <3>3
  <2>3. CASE PubRead(q)
    <3>1. /\ fate' = fate /\ \E l \in {"send", "done"} : pc' = [pc EXCEPT ![q] = l]
          /\ pch' = pch \/ pch' = [pch EXCEPT ![q] = ch]
      BY <2>3 DEF PubRead
    <3>2. q # p
      BY <3>1 DEF BaseInv, TypeOK
    <3>3. pc[p] \in Waiting /\ Returned(p) /\ pch'[p] = pch[p]
      BY <3>1, <3>2 DEF BaseInv, TypeOK, Returned
    <3> QED BY <1>1, <2>1, <3>3
  <2>4. CASE \/ PubRefused(q) \/ PubConfirmed(q) \/ PubTimeout(q) \/ DrainRead(q)
             \/ DrainLock(q) \/ DrainEmpty(q) \/ PubCheck(q) \/ Expire(q)
    <3>1. /\ fate' = fate /\ pch' = pch
          /\ \/ pc' = pc
             \/ pc' = [pc EXCEPT ![q] = "done"]
             \/ pc[q] \in Waiting /\ \E l : pc' = [pc EXCEPT ![q] = l]
      BY <2>4 DEF PubRefused, PubConfirmed, PubTimeout, DrainRead, DrainLock, DrainEmpty,
                  PubCheck, Expire
    <3>2. pc[p] \in Waiting /\ Returned(p)
      BY <3>1 DEF BaseInv, TypeOK, Returned
    <3> QED BY <1>1, <2>1, <3>1, <3>2
  <2> QED BY <1>2, <2>2, <2>3, <2>4
<1>3. ASSUME NEW q \in Publishers, DrainTake(q) PROVE Traced(p)'
  <2>1. PICK c \in Chans : c = rch[q] /\ buf[c] # <<>> /\ buf' = [buf EXCEPT ![c] = Tail(@)]
    BY <1>3 DEF BaseInv, CallInv, DrainTake, DrainPcs
  <2>2. /\ UNCHANGED <<fate, pch, conf, wire, chState, stored>>
        /\ pc[q] = "drainLoop" /\ pc' = [pc EXCEPT ![q] = "drainHandle"]
        /\ hand' = [hand EXCEPT ![q] = Head(buf[c])] /\ hand[q] = None
    BY <1>3, <2>1 DEF DrainTake, Goto, BaseInv, CallInv
  <2>3. pc[p] \in Waiting /\ Returned(p)
    BY <2>2 DEF BaseInv, TypeOK, Returned, Waiting, DrainPcs
  <2>4. Collected(p) => Collected(p)'
    <3>1. hand \in [Publishers -> Publishers \cup {None}]
      BY DEF BaseInv, TypeOK
    <3>2. CASE \E i \in 1..Len(buf[pch[p]]) : buf[pch[p]][i] = p
      BY <1>0, <2>1, <2>2, <2>3, <3>1, <3>2, TakeCollected DEF Collected
    <3>3. CASE \E r \in Publishers : hand[r] = p
      BY <1>0, <2>2, <3>1, <3>3 DEF Collected
    <3>4. CASE p \in stored
      BY <2>2, <3>4 DEF Collected
    <3> QED BY <3>2, <3>3, <3>4 DEF Collected
  <2>5. OnWire(p) => OnWire(p)'
    BY <2>2 DEF OnWire
  <2> QED BY <1>0, <2>2, <2>3, <2>4, <2>5 DEF Traced
\* A publish that waits and was returned is in the map.
<1>4. pc[p] \in Waiting /\ Returned(p) => p \in pending
  BY <1>0 DEF Stage, BaseInv, PendingExact, Waiting
<1>5. ASSUME NEW q \in Publishers, DrainHandle(q) PROVE Traced(p)'
  <2>1. /\ UNCHANGED <<fate, pch, conf, wire, chState, buf>>
        /\ pc[q] = "drainHandle" /\ pc' = [pc EXCEPT ![q] = "drainLoop"]
        /\ hand' = [hand EXCEPT ![q] = None] /\ handleReturn(hand[q])
    BY <1>5 DEF DrainHandle, Goto
  <2>2. pc[p] \in Waiting /\ Returned(p)
    BY <2>1 DEF BaseInv, TypeOK, Returned, Waiting, DrainPcs
  <2>3. Collected(p) => Collected(p)'
    <3>1. hand \in [Publishers -> Publishers \cup {None}]
      BY DEF BaseInv, TypeOK
    <3>2. hand[q] = p => p \in stored'
      BY <1>4, <2>1, <2>2 DEF handleReturn
    <3>3. ASSUME NEW r \in Publishers, hand[r] = p PROVE Collected(p)'
      BY <2>1, <3>1, <3>2, <3>3 DEF Collected
    <3>4. p \in stored => p \in stored'
      BY <2>1 DEF handleReturn
    <3> QED BY <2>1, <3>3, <3>4 DEF Collected
  <2>4. OnWire(p) => OnWire(p)'
    BY <2>1 DEF OnWire
  <2> QED BY <1>0, <2>1, <2>2, <2>3, <2>4 DEF Traced
<1>6. ASSUME NEW c \in Chans, WatchTake(c) PROVE Traced(p)'
  <2>1. /\ UNCHANGED <<fate, pch, pc, conf, wire, chState, hand>>
        /\ buf[c] # <<>> /\ buf' = [buf EXCEPT ![c] = Tail(@)]
        /\ handleReturn(Head(buf[c]))
    BY <1>6 DEF WatchTake
  <2>2. pc[p] \in Waiting /\ Returned(p)
    BY <2>1 DEF Returned
  <2>3. Collected(p) => Collected(p)'
    <3>1. (\E i \in 1..Len(buf[pch[p]]) : buf[pch[p]][i] = p) => Collected(p)'
      BY <1>0, <1>4, <2>1, <2>2, TakeCollected DEF Collected, handleReturn
    <3>2. p \in stored => p \in stored'
      BY <2>1 DEF handleReturn
    <3> QED BY <2>1, <3>1, <3>2 DEF Collected
  <2>4. OnWire(p) => OnWire(p)'
    BY <2>1 DEF OnWire
  <2> QED BY <1>0, <2>1, <2>2, <2>3, <2>4 DEF Traced
<1>7. wire \in [Chans -> Seq(Frames)] /\ buf \in [Chans -> Seq(Publishers)]
  BY DEF BaseInv, TypeOK
\* The frame that is put on the wire of c goes behind the return of p.
<1>8. ASSUME NEW c \in Chans, NEW k \in {"return", "ack", "nack"},
             NEW q \in Publishers, Send(c, k, q), pch' = pch, pch[p] \in Chans, OnWire(p)
      PROVE  OnWire(p)'
  <2>1. PICK d \in Chans : d = pch[p] /\ d = pch'[p]
    BY <1>8
  <2>2. PICK i \in 1..Len(wire[d]) :
          /\ wire[d][i] = [kind |-> "return", of |-> p]
          /\ \A j \in 1..i : wire[d][j].of = p => wire[d][j].kind = "return"
    BY <1>8, <2>1 DEF OnWire
  <2>3. /\ Len(wire'[c]) = Len(wire[c]) + 1 /\ Len(wire[c]) \in Nat
        /\ \A j \in 1..Len(wire[c]) : wire'[c][j] = wire[c][j]
        /\ \A e \in Chans \ {c} : wire'[e] = wire[e]
    BY <1>7, <1>8, SendWire
  <2>4. i \in 1..Len(wire'[d]) /\ \A j \in 1..i : wire'[d][j] = wire[d][j]
    BY <2>2, <2>3
  <2>5. i \in 1..i
    BY <2>2
  <2> QED BY <2>1, <2>2, <2>4, <2>5 DEF OnWire
<1>9. ASSUME NEW q \in Publishers, BrokerReturn(q) PROVE Traced(p)'
  <2>1. PICK c \in Chans : c = pch[q]
    BY <1>9 DEF BaseInv, CallInv, BrokerReturn
  <2>2. /\ fate[q] = "sent" /\ fate' = [fate EXCEPT ![q] = "returned"]
        /\ UNCHANGED <<pc, pch, conf, buf, hand, stored, chState>>
        /\ Send(c, "return", q) /\ chState[c] = "open"
    BY <1>9, <2>1 DEF BrokerReturn
  <2>3. pc[p] \in Waiting /\ pch[p] \in Chans
    BY <1>0, <2>2
  <2>4. CASE p = q
    <3>1. conf[p] = "none"
      BY <1>0, <2>1, <2>2, <2>4 DEF Stage, Answered, BaseInv, TypeOK
    <3>2. /\ Len(wire'[c]) = Len(wire[c]) + 1 /\ Len(wire[c]) \in Nat
          /\ wire'[c][Len(wire[c]) + 1] = [kind |-> "return", of |-> p]
          /\ \A j \in 1..Len(wire[c]) : wire'[c][j] = wire[c][j]
      BY <1>7, <2>2, <2>4, SendWire
    <3>3. \A j \in 1..Len(wire[c]) : wire[c][j].of = p => wire[c][j].kind = "return"
      BY <2>2, <2>4 DEF WireInv, FrameOf, Answered
    <3>4. OnWire(p)'
      <4>0. Len(wire[c]) + 1 \in 1..Len(wire'[c])
        BY <3>2
      <4>1. PICK i \in 1..Len(wire'[c]) : i = Len(wire[c]) + 1
        BY <4>0
      <4>2. /\ wire'[c][i] = [kind |-> "return", of |-> p]
            /\ \A j \in 1..i : wire'[c][j].of = p => wire'[c][j].kind = "return"
        BY <3>2, <3>3, <4>1
      <4> QED BY <2>1, <2>2, <2>4, <4>1, <4>2 DEF OnWire
    <3> QED BY <2>2, <3>1, <3>4 DEF Traced
  <2>5. CASE p # q
    <3>1. Returned(p)
      BY <2>2, <2>5 DEF Returned, BaseInv, TypeOK
    <3>2. Collected(p) => Collected(p)'
      BY <2>2 DEF Collected
    <3> QED BY <1>0, <1>8, <2>2, <2>3, <3>1, <3>2 DEF Traced
  <2> QED BY <2>4, <2>5
<1>10. ASSUME NEW q \in Publishers, BrokerConfirm(q) PROVE Traced(p)'
  <2>1. PICK c \in Chans : c = pch[q]
    BY <1>10 DEF BaseInv, CallInv, BrokerConfirm
  <2>2. /\ UNCHANGED <<pc, pch, conf, buf, hand, stored, chState>>
        /\ \E k \in {"ack", "nack"} : Send(c, k, q)
    BY <1>10, <2>1 DEF BrokerConfirm
  <2>3. Returned(p)
    <3>1. \/ fate[q] = "sent" /\ fate' = [fate EXCEPT ![q] = "answered"]
          \/ fate[q] = "returned" /\ fate' = [fate EXCEPT ![q] = "returnedAnswered"]
      BY <1>10 DEF BrokerConfirm
    <3> QED BY <3>1 DEF Returned, BaseInv, TypeOK
  <2>4. Collected(p) => Collected(p)'
    BY <2>2 DEF Collected
  <2> QED BY <1>0, <1>8, <2>2, <2>3, <2>4 DEF Traced
<1>11. ASSUME NEW c \in Chans, ReaderStep(c) PROVE Traced(p)'
  <2>1. /\ UNCHANGED <<pc, pch, fate, hand, stored, chState>>
        /\ wire[c] # <<>> /\ wire' = [wire EXCEPT ![c] = Tail(@)]
    BY <1>11 DEF ReaderStep
  <2>2. pc[p] \in Waiting /\ Returned(p) /\ pch[p] \in Chans
    BY <1>0, <2>1 DEF Returned
  <2>3. PICK f \in Frames : f = Head(wire[c]) /\ f = wire[c][1]
    <3>1. wire[c] \in Seq(Frames)
      BY <1>7
    <3> QED BY <2>1, <3>1, TailSeq
  <2>4. PICK m \in Publishers : m = f.of
    BY <2>3 DEF Frames
  <2>5. \/ /\ f.kind = "return" /\ conf' = conf
           /\ buf' = [buf EXCEPT ![c] = Append(@, m)]
        \/ /\ f.kind # "return" /\ buf' = buf
           /\ conf' = [conf EXCEPT ![m] = f.kind]
    BY <1>11, <2>3, <2>4 DEF ReaderStep
  <2>6. /\ Len(wire[c]) \in Nat \ {0} /\ Len(wire'[c]) = Len(wire[c]) - 1
        /\ \A i \in 1..Len(wire'[c]) : wire'[c][i] = wire[c][i + 1]
        /\ \A d \in Chans \ {c} : wire'[d] = wire[d]
    <3>1. wire[c] \in Seq(Frames) /\ wire'[c] = Tail(wire[c])
      BY <1>7, <2>1
    <3>2. /\ Len(wire[c]) \in Nat \ {0} /\ Len(Tail(wire[c])) = Len(wire[c]) - 1
          /\ \A i \in 1..Len(Tail(wire[c])) : Tail(wire[c])[i] = wire[c][i + 1]
      BY <2>1, <3>1, TailSeq
    <3> QED BY <1>7, <2>1, <3>1, <3>2
  <2>7. Collected(p) => Collected(p)'
    <3>1. ASSUME NEW i \in 1..Len(buf[pch[p]]), buf[pch[p]][i] = p PROVE Collected(p)'
      <4>1. PICK d \in Chans : d = pch[p] /\ d = pch'[p]
        BY <2>1, <2>2
      <4>2. buf[d] \in Seq(Publishers) /\ (buf'[d] = buf[d] \/ buf'[d] = Append(buf[d], m))
        BY <1>7, <2>5
      <4>3. i \in 1..Len(buf'[d]) /\ buf'[d][i] = buf[d][i]
        BY <3>1, <4>1, <4>2, AppendSeq
      <4> QED BY <3>1, <4>1, <4>3 DEF Collected
    <3> QED BY <2>1, <3>1 DEF Collected
  <2>8. ASSUME OnWire(p), conf[p] = "none"
        PROVE  Collected(p)' \/ (conf'[p] = "none" /\ OnWire(p)')
    <3>1. PICK d \in Chans : d = pch[p] /\ d = pch'[p]
      BY <2>1, <2>2
    <3>2. PICK i \in 1..Len(wire[d]) :
            /\ wire[d][i] = [kind |-> "return", of |-> p]
            /\ \A j \in 1..i : wire[d][j].of = p => wire[d][j].kind = "return"
      BY <2>8, <3>1 DEF OnWire
    <3>3. CASE d # c
      <4>1. m # p
        <5>1. FrameOf(c, 1)
          BY <2>6 DEF WireInv
        <5> QED BY <2>3, <2>4, <3>1, <3>3, <5>1 DEF FrameOf
      <4>2. conf'[p] = "none"
        BY <2>5, <2>8, <4>1 DEF BaseInv, TypeOK
      <4> QED BY <2>6, <3>1, <3>2, <3>3, <4>2 DEF OnWire
    <3>4. CASE d = c /\ i = 1
      <4>1. f.kind = "return" /\ m = p
        BY <2>3, <2>4, <3>2, <3>4
      <4>2. buf[c] \in Seq(Publishers) /\ buf'[c] = Append(buf[c], p)
        BY <1>7, <2>5, <4>1
      <4>3. /\ Len(buf[c]) \in Nat /\ Len(buf'[c]) = Len(buf[c]) + 1
            /\ buf'[c][Len(buf[c]) + 1] = p
        BY <4>2, AppendSeq
      <4>4. PICK j \in 1..Len(buf'[c]) : buf'[c][j] = p
        BY <4>3
      <4> QED BY <3>1, <3>4, <4>4 DEF Collected
    <3>5. CASE d = c /\ i # 1
      <4>0. i - 1 \in 1..Len(wire'[c]) /\ (i - 1) + 1 = i
        BY <2>6, <3>2, <3>5
      <4>1. PICK n \in 1..Len(wire'[c]) : n + 1 = i
        BY <4>0
      <4>2. wire'[c][n] = [kind |-> "return", of |-> p]
        BY <2>6, <3>2, <3>5, <4>1
      <4>3. \A j \in 1..n : wire'[c][j].of = p => wire'[c][j].kind = "return"
        <5> SUFFICES ASSUME NEW j \in 1..n
                     PROVE  wire'[c][j].of = p => wire'[c][j].kind = "return"
          OBVIOUS
        <5>1. wire'[c][j] = wire[c][j + 1] /\ j + 1 \in 1..i
          BY <2>6, <4>1
        <5> QED BY <3>2, <3>5, <5>1
      <4>4. conf'[p] = "none"
        <5>1. m = p => f.kind = "return"
          BY <2>3, <2>4, <3>2, <3>5
        <5> QED BY <2>5, <2>8, <5>1 DEF BaseInv, TypeOK
      <4> QED BY <3>1, <3>5, <4>1, <4>2, <4>3, <4>4 DEF OnWire
    <3> QED BY <3>3, <3>4, <3>5
  <2>9. ASSUME conf[p] = "nack", chState[pch[p]] = "dead" PROVE conf'[p] = "nack"
    <3>1. chState[c] = "open"
      BY <2>1 DEF ChansInv
    <3>2. pch[m] = c
      BY <2>3, <2>4, <2>6 DEF WireInv, FrameOf
    <3> QED BY <2>5, <2>9, <3>1, <3>2 DEF BaseInv, TypeOK
  <2> QED BY <1>0, <2>1, <2>2, <2>7, <2>8, <2>9 DEF Traced
<1>12. ASSUME NEW c \in Chans, ChannelDies(c) PROVE Traced(p)'
  <2>1. /\ UNCHANGED <<pc, pch, fate, hand, stored, buf>>
        /\ chState' = [chState EXCEPT ![c] = "dead"]
        /\ wire' = [wire EXCEPT ![c] = <<>>]
        /\ conf' = [q \in Publishers |->
                      IF pch[q] = c /\ fate[q] # "unsent" /\ conf[q] = "none"
                      THEN "nack" ELSE conf[q]]
    BY <1>12 DEF ChannelDies
  <2>2. pc[p] \in Waiting /\ Returned(p) /\ pch[p] \in Chans /\ fate[p] # "unsent"
    BY <1>0, <2>1 DEF Returned
  <2>3. Collected(p) => Collected(p)'
    BY <2>1 DEF Collected
  <2>4. CASE pch[p] = c
    BY <1>0, <2>1, <2>2, <2>3, <2>4 DEF Traced, BaseInv, TypeOK
  <2>5. CASE pch[p] # c
    <3>1. OnWire(p) => OnWire(p)'
      BY <1>7, <2>1, <2>2, <2>5 DEF OnWire
    <3> QED BY <1>0, <2>1, <2>2, <2>3, <2>5, <3>1 DEF Traced, BaseInv, TypeOK
  <2> QED BY <2>4, <2>5
<1>13. ASSUME \/ SetNil \/ SetInstall \/ SetFails
              \/ \E c \in Chans : SetWatched(c) \/ SetLock(c) \/ WatchExit(c)
       PROVE  Traced(p)'
  <2>1. /\ UNCHANGED <<pc, pch, fate, conf, hand, stored, buf, wire>>
        /\ \/ chState' = chState
           \/ \E c \in Chans :
                 chState[c] = "unused" /\ chState' = [chState EXCEPT ![c] = "open"]
    BY <1>13 DEF SetNil, SetInstall, SetFails, SetWatched, SetLock, WatchExit, Fresh
  <2>2. pc[p] \in Waiting /\ Returned(p)
    BY <2>1 DEF Returned
  <2>3. chState[pch[p]] = "dead" => chState'[pch[p]] = "dead"
    BY <1>0, <2>1, <2>2 DEF BaseInv, TypeOK
  <2> QED BY <1>1, <2>1, <2>2, <2>3
<1> QED
  BY <1>2, <1>3, <1>5, <1>6, <1>9, <1>10, <1>11, <1>12, <1>13 DEF Next, Publish

\* A drain that finds its returns channel empty leaves no return of its own
\* publish anywhere else: nobody else is in the middle of handling one.
LEMMA DrainStep ==
    BaseInv /\ ChansInv /\ StageInv /\ TrailInv /\ DrainInv /\ Next => DrainInv'
<1> USE DEF fields, returning, publishers, amqp, watchers, config
<1> SUFFICES ASSUME BaseInv, ChansInv, StageInv, TrailInv, DrainInv, Next PROVE DrainInv'
  OBVIOUS
<1> SUFFICES ASSUME confirmMode, NEW p \in Publishers PROVE Drains(p)'
  BY ConfigSame DEF DrainInv
<1>0. /\ Drains(p) /\ Stage(p) /\ ~(None \in Publishers)
      /\ pc[p] \in Waiting => pch[p] \in Chans /\ pc[p] # "idle"
  BY NilAssumption DEF DrainInv, StageInv, BaseInv, CallInv, Waiting, DrainPcs
<1>1. pc[p] \in Waiting /\ Replaced(pch[p]) => Replaced(pch[p])'
  BY <1>0, ReplacedStable
<1>2. pc[p] = "check" /\ Returned(p)' => Returned(p)
  <2>1. pc[p] = "check" => Answered(p)
    BY <1>0 DEF Stage, Waiting
  <2> QED BY <2>1, FateStep DEF Returned
\* A step in which p does not move.
<1>3. ASSUME pc'[p] = pc[p], rch'[p] = rch[p], pch'[p] = pch[p],
             pc[p] \in {"drainLoop", "drainHandle"} => drainMu' = drainMu,
             p \in stored => p \in stored'
      PROVE  Drains(p)'
  BY <1>0, <1>1, <1>2, <1>3 DEF Drains, Waiting, DrainPcs
<1>4. ASSUME NEW q \in Publishers,
             \/ PubRead(q) \/ PubRefused(q) \/ PubSendConfirmed(q) \/ PubSend(q)
             \/ PubConfirmed(q) \/ PubTimeout(q) \/ PubCheck(q) \/ Expire(q)
      PROVE  Drains(p)'
  <2>1. /\ UNCHANGED <<rch, drainMu, stored>>
        /\ pch' = pch \/ pch' = [pch EXCEPT ![q] = ch]
        /\ \/ pc' = pc /\ pch' = pch
           \/ \E l \in {"send", "wait", "drain", "done"} : pc' = [pc EXCEPT ![q] = l]
    BY <1>4 DEF PubRead, PubRefused, PubSendConfirmed, PubSend, PubConfirmed, PubTimeout,
                PubCheck, Expire, Goto, Return
  <2>2. CASE p # q \/ (pc' = pc /\ pch' = pch)
    BY <1>3, <2>1, <2>2 DEF BaseInv, TypeOK
  <2>3. CASE p = q /\ pc'[p] \in {"send", "wait", "drain", "done"}
    BY <2>3 DEF Drains, DrainPcs
  <2> QED BY <2>1, <2>2, <2>3 DEF BaseInv, TypeOK
<1>5. ASSUME NEW q \in Publishers, DrainRead(q) PROVE Drains(p)'
  <2>1. /\ pc[q] = "drain" /\ installing = None /\ UNCHANGED <<fields, returning, pch>>
        /\ rch' = [rch EXCEPT ![q] = returnsCh]
        /\ pc' = [pc EXCEPT ![q] = IF returnsCh = None THEN "check" ELSE "drainLock"]
    BY <1>5 DEF DrainRead, Unlocked, Goto
  <2>2. CASE p # q
    BY <1>3, <2>1, <2>2 DEF BaseInv, TypeOK
  <2>3. CASE p = q
    <3>1. returnsCh = ch /\ pch[p] \in Chans
      BY <1>0, <2>1, <2>3 DEF ChansInv, Unlocked, Waiting
    <3>2. rch'[p] = ch /\ pch'[p] = pch[p] /\ ch' = ch
      BY <2>1, <2>3, <3>1 DEF BaseInv, TypeOK
    <3>3. pc'[p] = IF ch = None THEN "check" ELSE "drainLock"
      BY <2>1, <2>3, <3>1 DEF BaseInv, TypeOK
    <3>4. ch # pch[p] => Replaced(pch[p])'
      BY <3>2 DEF Replaced
    <3> QED BY <3>1, <3>2, <3>3, <3>4, NilAssumption DEF Drains, DrainPcs
  <2> QED BY <2>2, <2>3
<1>6. ASSUME NEW q \in Publishers, DrainLock(q) PROVE Drains(p)'
  <2>1. /\ pc[q] = "drainLock" /\ drainMu = None /\ drainMu' = q
        /\ pc' = [pc EXCEPT ![q] = "drainLoop"] /\ UNCHANGED <<rch, pch, stored>>
    BY <1>6 DEF DrainLock, Goto
  <2>2. CASE p # q
    <3>1. pc[p] \notin {"drainLoop", "drainHandle"}
      BY <1>0, <2>1 DEF Drains
    <3> QED BY <1>3, <2>1, <2>2, <3>1 DEF BaseInv, TypeOK
  <2>3. CASE p = q
    <3>1. rch[p] = pch[p] \/ Replaced(pch[p])'
      BY <1>0, <1>1, <2>1, <2>3 DEF Drains, Waiting, DrainPcs
    <3>2. pc'[p] = "drainLoop"
      BY <2>1, <2>3 DEF BaseInv, TypeOK
    <3> QED BY <2>1, <2>3, <3>1, <3>2 DEF Drains, Replaced
  <2> QED BY <2>2, <2>3
<1>7. ASSUME NEW q \in Publishers, DrainTake(q) \/ DrainHandle(q) PROVE Drains(p)'
  <2>1. /\ pc[q] \in {"drainLoop", "drainHandle"} /\ UNCHANGED <<drainMu, rch, pch>>
        /\ \E l \in {"drainLoop", "drainHandle"} : pc' = [pc EXCEPT ![q] = l]
        /\ p \in stored => p \in stored'
    BY <1>7 DEF DrainTake, DrainHandle, handleReturn, Goto
  <2>2. CASE p # q
    BY <1>3, <2>1, <2>2 DEF BaseInv, TypeOK
  <2>3. CASE p = q
    <3>1. rch[p] = pch[p] \/ Replaced(pch[p])'
      BY <1>0, <1>1, <2>1, <2>3 DEF Drains, Waiting, DrainPcs
    <3>2. pc'[p] \in {"drainLoop", "drainHandle"} /\ drainMu' = p
      BY <1>0, <2>1, <2>3 DEF BaseInv, TypeOK, Drains
    <3> QED BY <2>1, <3>1, <3>2 DEF Drains, Replaced
  <2> QED BY <2>2, <2>3
<1>8. ASSUME NEW q \in Publishers, DrainEmpty(q) PROVE Drains(p)'
  <2>1. /\ pc[q] = "drainLoop" /\ buf[rch[q]] = <<>> /\ drainMu' = None
        /\ rch' = [rch EXCEPT ![q] = None] /\ pc' = [pc EXCEPT ![q] = "check"]
        /\ UNCHANGED <<pch, stored, fate>>
    BY <1>8 DEF DrainEmpty, Goto
  <2>2. drainMu = q
    BY <2>1 DEF DrainInv, Drains
  <2>3. CASE p # q
    <3>1. pc[p] \notin {"drainLoop", "drainHandle"}
      BY <1>0, <2>2, <2>3 DEF Drains
    <3> QED BY <1>3, <2>1, <2>3, <3>1 DEF BaseInv, TypeOK
  <2>4. CASE p = q
    <3>1. pc[p] \in Waiting /\ conf[p] = "ack"
      BY <1>0, <2>1, <2>4 DEF Stage, Waiting, DrainPcs
    <3>2. ASSUME Returned(p), rch[p] = pch[p] PROVE p \in stored
      <4>1. Collected(p)
        BY <3>1, <3>2 DEF TrailInv, Traced
      <4>2. ~(\E i \in 1..Len(buf[pch[p]]) : buf[pch[p]][i] = p)
        BY <2>1, <2>4, <3>2
      <4>3. ~(\E r \in Publishers : hand[r] = p)
        BY <1>0, <2>1, <2>2, <2>4 DEF BaseInv, CallInv, DrainInv, Drains
      <4> QED BY <4>1, <4>2, <4>3 DEF Collected
    <3>3. rch[p] = pch[p] \/ Replaced(pch[p])'
      BY <1>0, <1>1, <2>1, <2>4, <3>1 DEF Drains, DrainPcs
    <3>4. pc'[p] = "check" /\ (Returned(p)' => Returned(p))
      BY <2>1, <2>4 DEF BaseInv, TypeOK, Returned
    <3> QED BY <2>1, <3>2, <3>3, <3>4 DEF Drains, Replaced, DrainPcs
  <2> QED BY <2>3, <2>4
<1>9. ASSUME NEW q \in Publishers, BrokerReturn(q) \/ BrokerConfirm(q) PROVE Drains(p)'
  BY <1>3, <1>9 DEF BrokerReturn, BrokerConfirm
<1>10. ASSUME \/ SetNil \/ SetInstall \/ SetFails
              \/ \E c \in Chans : \/ SetWatched(c) \/ SetLock(c) \/ WatchTake(c)
                                 \/ WatchExit(c) \/ ReaderStep(c) \/ ChannelDies(c)
       PROVE  Drains(p)'
  BY <1>3, <1>10 DEF SetNil, SetInstall, SetFails, SetWatched, SetLock, WatchTake,
                     WatchExit, ReaderStep, ChannelDies, handleReturn
<1> QED
  BY <1>4, <1>5, <1>6, <1>7, <1>8, <1>9, <1>10 DEF Next, Publish

\* The result is given by the check of the entry, and nothing changes it later.
LEMMA HonestStep ==
    /\ BaseInv /\ ChansInv /\ StageInv /\ RealInv /\ DrainInv /\ HonestOutcome /\ StageInv'
    /\ Next
    => HonestOutcome'
<1> USE DEF fields, returning, publishers, amqp, watchers, config
<1> SUFFICES ASSUME BaseInv, ChansInv, StageInv, RealInv, DrainInv, HonestOutcome,
                    StageInv', Next
             PROVE  HonestOutcome'
  OBVIOUS
<1> DEFINE Honest(p) ==
        /\ res[p] = "ok" => conf[p] = "ack" /\ (Returned(p) => Replaced(pch[p]))
        /\ res[p] = "returned" => conf[p] = "ack" /\ Returned(p)
<1> SUFFICES ASSUME confirmMode, confirmMode', NEW p \in Publishers PROVE Honest(p)'
  BY ConfigSame DEF HonestOutcome
<1>0. /\ Honest(p) /\ Stage(p) /\ Stage(p)'
      /\ Answered(p) => pch[p] \in Chans /\ pc[p] # "idle"
  BY DEF HonestOutcome, StageInv, Stage, BaseInv, CallInv, Answered
<1>1. res'[p] \in {"ok", "returned"} => conf'[p] = "ack"
  BY <1>0 DEF Stage
\* A step that gives p no result.
<1>2. ASSUME res'[p] \notin {"ok", "returned"} \/ res'[p] = res[p] PROVE Honest(p)'
  <2>1. CASE res[p] = "ok" /\ res'[p] = res[p]
    <3>1. Answered(p)
      BY <1>0, <2>1 DEF Stage
    <3>2. Returned(p)' => Returned(p)
      BY <3>1, FateStep DEF Returned
    <3>3. Replaced(pch[p]) => Replaced(pch[p])'
      BY <1>0, <3>1, ReplacedStable
    <3> QED BY <1>0, <1>1, <2>1, <3>2, <3>3
  <2>2. CASE res[p] = "returned" /\ res'[p] = res[p]
    <3>1. Returned(p) => Returned(p)'
      BY FateStep
    <3> QED BY <1>0, <1>1, <2>2, <3>1
  <2>3. CASE res'[p] \notin {"ok", "returned"}
    BY <2>3
  <2> QED BY <1>2, <2>1, <2>2, <2>3
<1>3. ASSUME PubCheck(p) PROVE Honest(p)'
  <2>1. /\ pc[p] = "check" /\ UNCHANGED <<fields, pch, fate, stored>>
        /\ res'[p] = IF p \in stored THEN "returned" ELSE "ok"
    BY <1>3 DEF PubCheck, Return, BaseInv, TypeOK
  <2>2. p \in stored => Returned(p)
    BY DEF RealInv
  <2>3. Returned(p) => p \in stored \/ Replaced(pch[p])
    BY <2>1 DEF DrainInv, Drains
  <2>4. /\ Returned(p)' <=> Returned(p)
        /\ Replaced(pch[p])' <=> Replaced(pch[p])
    BY <2>1 DEF Returned, Replaced
  <2> QED BY <1>1, <2>1, <2>2, <2>3, <2>4
<1>4. ASSUME NEW q \in Publishers, PubRead(q) \/ Publish(q) \/ Expire(q),
             ~(p = q /\ PubCheck(p))
      PROVE  res'[p] \notin {"ok", "returned"} \/ res'[p] = res[p]
  <2>1. PubSend(q) => FALSE
    BY DEF PubSend
  <2>2. ASSUME PubCheck(q) PROVE res'[p] = res[p]
    BY <1>4, <2>2 DEF PubCheck, Return, BaseInv, TypeOK
  <2>3. ASSUME PubRead(q) \/ PubRefused(q) \/ PubSendConfirmed(q) \/ PubConfirmed(q)
               \/ PubTimeout(q)
        PROVE  res' = res \/ \E r \in {"rejected", "dropped", "confirm", "nack"} :
                               res' = [res EXCEPT ![q] = r]
    BY <2>3 DEF PubRead, PubRefused, PubSendConfirmed, PubConfirmed, PubTimeout, Return
  <2>4. ASSUME \/ DrainRead(q) \/ DrainLock(q) \/ DrainTake(q) \/ DrainHandle(q)
               \/ DrainEmpty(q) \/ Expire(q)
        PROVE  res' = res
    BY <2>4 DEF DrainRead, DrainLock, DrainTake, DrainHandle, DrainEmpty, Expire
  <2> QED BY <1>4, <2>1, <2>2, <2>3, <2>4 DEF Publish, BaseInv, TypeOK
<1>5. ASSUME \/ SetNil \/ SetInstall \/ SetFails
             \/ \E q \in Publishers : BrokerReturn(q) \/ BrokerConfirm(q)
             \/ \E c \in Chans : \/ SetWatched(c) \/ SetLock(c) \/ WatchTake(c)
                                \/ WatchExit(c) \/ ReaderStep(c) \/ ChannelDies(c)
      PROVE  res' = res
  BY <1>5 DEF SetNil, SetInstall, SetFails, SetWatched, SetLock, WatchTake, WatchExit,
              ReaderStep, ChannelDies, BrokerReturn, BrokerConfirm
<1> HIDE DEF Honest
<1> QED
  BY <1>2, <1>3, <1>4, <1>5 DEF Next

LEMMA OutcomeStep == OutcomeInv /\ [Next]_vars => OutcomeInv'
<1> SUFFICES ASSUME OutcomeInv, [Next]_vars PROVE OutcomeInv'
  OBVIOUS
<1>1. CASE Next
  <2>1. BaseInv' BY <1>1, BaseStep DEF OutcomeInv
  <2>2. ChansInv' BY <1>1, ChansStep DEF OutcomeInv
  <2>3. StageInv' BY <1>1, StageStep DEF OutcomeInv
  <2>4. WireInv' BY <1>1, WireStep DEF OutcomeInv
  <2>5. RealInv' BY <1>1, RealStep DEF OutcomeInv
  <2>6. TrailInv' BY <1>1, TrailStep DEF OutcomeInv
  <2>7. DrainInv' BY <1>1, DrainStep DEF OutcomeInv
  <2>8. HonestOutcome' BY <1>1, <2>3, HonestStep DEF OutcomeInv
  <2> QED BY <2>1, <2>2, <2>3, <2>4, <2>5, <2>6, <2>7, <2>8 DEF OutcomeInv
<1>2. CASE UNCHANGED vars
  <2> USE <1>2 DEF vars, fields, returning, publishers, amqp, watchers, config
  <2>1. BaseInv' /\ ChansInv' /\ StageInv' /\ HonestOutcome'
    BY DEF OutcomeInv, BaseInv, TypeOK, PendingExact, CallInv, ChansInv, Unlocked,
           StageInv, Stage, Answered, Returned, HonestOutcome, Replaced
  <2>2. WireInv' /\ RealInv'
    BY DEF OutcomeInv, WireInv, FrameOf, RealInv, RealBuf, Answered, Returned
  <2>3. TrailInv' /\ DrainInv'
    BY DEF OutcomeInv, TrailInv, Traced, Collected, OnWire, DrainInv, Drains, Replaced,
           Returned
  <2> QED BY <2>1, <2>2, <2>3 DEF OutcomeInv
<1> QED BY <1>1, <1>2

\* With confirms, OnEvent says nil only of a publish the broker acked and, if it
\* was returned, only when setChannel replaced the channel under it; it says
\* "returned" only of a message the broker returned. For any number of
\* concurrent publishes, channels and buffered returns.
THEOREM OutcomeIsHonest == Spec => []HonestOutcome
<1>1. Spec => []OutcomeInv
  BY OutcomeInit, OutcomeStep, PTL DEF Spec
<1>2. OutcomeInv => HonestOutcome
  BY DEF OutcomeInv
<1> QED BY <1>1, <1>2, PTL

=============================================================================
