--------------------------- MODULE ReceiverProofs ---------------------------
(***************************************************************************)
(* Proofs about Receiver, for any number of callers, channels and          *)
(* deliveries: the unsettled count and who answers for what it counts,     *)
(* what a drain leaves behind, and what holds, with any number of owners,  *)
(* until a Start crosses another Start or Stop.                            *)
(***************************************************************************)
EXTENDS Receiver, FiniteSetTheorems, TLAPS

-----------------------------------------------------------------------------
(* The count *)

\* A delivery has a settler only after the loop took it, and is released only
\* if it has one.
FreshInv ==
    /\ buffered \cap settlers = {}
    /\ released \subseteq settlers
    /\ \A d \in settlers \cup buffered : origin[d] \in Channels

\* The delivery a loop has in hand came in on its channel and, unless nothing
\* is acknowledged, has a settler.
HandsInv ==
    \A c \in Channels :
        /\ loop[c] \in {"event", "answer", "settle"} =>
              at[c] \in Deliveries /\ origin[at[c]] = c
        /\ loop[c] \in {"answer", "settle"} => at[c] \in settlers
        /\ loop[c] = "event" /\ ackMode # "NoAck" => at[c] \in settlers

\* A settle in flight is for a delivery with a settler; the loop's own is for
\* the delivery it has in hand.
ClaimInv ==
    \A d \in Deliveries :
        /\ claim[d] \in {"loop", "downstream"} => d \in settlers
        /\ claim[d] = "loop" =>
              loop[origin[d]] = "settle" /\ at[origin[d]] = d

\* A caller inside Start, Stop or the waiting part of Drain has a channel.
CallerInv ==
    \A p \in Callers :
        pc[p] \notin {"idle", "stopAnswer", "drainAnswer", "returned"} =>
            cyc[p] \in Channels

\* No loop runs on a channel before the one Start that uses it installs it.
ChanInv ==
    /\ \A c \in Channels : chan[c] = "unused" => loop[c] = "none"
    /\ \A o \in Owners :
          Starting(o) => chan[cyc[o]] # "unused" /\ loop[cyc[o]] = "none"
    /\ \A o, q \in Owners :
          Starting(o) /\ Starting(q) /\ cyc[o] = cyc[q] => o = q

CountInv ==
    /\ TypeOK /\ UnsettledExact
    /\ FreshInv /\ HandsInv /\ ClaimInv /\ CallerInv /\ ChanInv

\* Releasing a delivery that has a settler keeps the count exact.
LEMMA ReleaseCount ==
    ASSUME TypeOK, UnsettledExact, released \subseteq settlers,
           NEW d \in settlers, release(d)
    PROVE  /\ unsettled' = Cardinality(settlers \ released')
           /\ unsettled' \in Nat
           /\ released' \subseteq settlers
<1> DEFINE S == settlers \ released
<1>1. IsFiniteSet(S) /\ Cardinality(S) \in Nat
  BY DeliveriesAssumption, FS_Subset, FS_CardinalityType, S \subseteq Deliveries DEF TypeOK
<1>2. released' \subseteq settlers
  BY DEF release
<1>3. CASE d \in released
  BY <1>1, <1>2, <1>3, released' = released DEF release, UnsettledExact
<1>4. CASE d \notin released
  <2>1. d \in S /\ settlers \ released' = S \ {d}
    BY <1>4 DEF release
  <2>2. Cardinality(S \ {d}) = Cardinality(S) - 1 /\ IsFiniteSet(S \ {d})
    BY <1>1, <2>1, FS_RemoveElement
  <2>3. Cardinality(S \ {d}) \in Nat
    BY <2>2, FS_CardinalityType
  <2> QED
    BY <1>2, <1>4, <2>1, <2>2, <2>3 DEF release, UnsettledExact
<1> QED
  BY <1>3, <1>4

\* Building a settler for a delivery that has none keeps the count exact.
LEMMA NewSettlerCount ==
    ASSUME TypeOK, UnsettledExact, released \subseteq settlers,
           NEW d \in Deliveries, d \notin settlers, newSettler(d)
    PROVE  /\ unsettled' = Cardinality(settlers' \ released)
           /\ unsettled' \in Nat
<1> DEFINE S == settlers \ released
<1>1. IsFiniteSet(S) /\ Cardinality(S) \in Nat
  BY DeliveriesAssumption, FS_Subset, FS_CardinalityType, S \subseteq Deliveries DEF TypeOK
<1>2. CASE ackMode = "NoAck"
  BY <1>1, <1>2 DEF newSettler, UnsettledExact
<1>3. CASE ackMode # "NoAck"
  <2>1. settlers' \ released = S \cup {d} /\ d \notin S
    BY <1>3 DEF newSettler
  <2>2. Cardinality(S \cup {d}) = Cardinality(S) + 1
    BY <1>1, <2>1, FS_AddElement
  <2>3. unsettled' = Cardinality(S) + 1
    BY <1>3 DEF newSettler, UnsettledExact
  <2>4. Cardinality(settlers' \ released) = Cardinality(S \cup {d})
    BY <2>1, Zenon
  <2> QED
    BY <1>1, <2>2, <2>3, <2>4
<1> QED
  BY <1>2, <1>3

LEMMA CountInit == Init => CountInv
<1> SUFFICES ASSUME Init PROVE CountInv
  OBVIOUS
<1>1. TypeOK
  BY ConfigAssumption DEF Init, TypeOK, OwnerPcs
<1>2. UnsettledExact
  BY FS_EmptySet, settlers \ released = {} DEF Init, UnsettledExact
<1>3. FreshInv /\ HandsInv /\ ClaimInv /\ CallerInv /\ ChanInv
  BY DEF Init, FreshInv, HandsInv, ClaimInv, CallerInv, ChanInv, Callers, Starting
<1> QED
  BY <1>1, <1>2, <1>3 DEF CountInv

\* What the callers and the context do leaves deliveries and their settlers
\* alone.
LEMMA CallerSteps ==
    ASSUME CountInv,
           \/ \E o \in Owners :
                 \/ \E c \in Channels : StartCheck(o, c)
                 \/ StopTake(o) \/ OwnerStep(o)
           \/ \E p \in Drainers : DrainTake(p) \/ DrainStep(p) \/ Expire(p)
           \/ CancelContext
    PROVE  CountInv'
<1> USE DEF CountInv, fields, contexts, amqp, loops, settling, callers, config,
            Callers, OwnerPcs, DrainPcs, Goto, Return, Finish,
            Starting
<1>1. ASSUME NEW o \in Owners, NEW c \in Channels, StartCheck(o, c) PROVE CountInv'
  <2>1. TypeOK' BY <1>1 DEF TypeOK, CallerInv, StartCheck
  <2>2. UnsettledExact' BY <1>1 DEF UnsettledExact, StartCheck
  <2>3. FreshInv' /\ HandsInv' /\ ClaimInv'
    BY <1>1 DEF TypeOK, FreshInv, HandsInv, ClaimInv, CallerInv, ChanInv, StartCheck
  <2>4. CallerInv' BY <1>1 DEF TypeOK, CallerInv, StartCheck
  <2>5. ChanInv' BY <1>1, CallersAssumption DEF TypeOK, CallerInv, ChanInv, StartCheck
  <2> QED BY <2>1, <2>2, <2>3, <2>4, <2>5
<1>2. ASSUME NEW o \in Owners, StartConsume(o) PROVE CountInv'
  <2>1. TypeOK' BY <1>2 DEF TypeOK, CallerInv, StartConsume
  <2>2. UnsettledExact' BY <1>2 DEF UnsettledExact, StartConsume
  <2>3. FreshInv' /\ HandsInv' /\ ClaimInv'
    BY <1>2 DEF TypeOK, FreshInv, HandsInv, ClaimInv, CallerInv, ChanInv, StartConsume
  <2>4. CallerInv' BY <1>2 DEF TypeOK, CallerInv, StartConsume
  <2>5. ChanInv' BY <1>2, CallersAssumption DEF TypeOK, CallerInv, ChanInv, StartConsume
  <2> QED BY <2>1, <2>2, <2>3, <2>4, <2>5
<1>3. ASSUME NEW o \in Owners, StartFails(o) PROVE CountInv'
  <2>1. TypeOK' BY <1>3 DEF TypeOK, CallerInv, StartFails
  <2>2. UnsettledExact' BY <1>3 DEF UnsettledExact, StartFails
  <2>3. FreshInv' /\ HandsInv' /\ ClaimInv'
    BY <1>3 DEF TypeOK, FreshInv, HandsInv, ClaimInv, CallerInv, ChanInv, StartFails
  <2>4. CallerInv' BY <1>3 DEF TypeOK, CallerInv, StartFails
  <2>5. ChanInv' BY <1>3, CallersAssumption DEF TypeOK, CallerInv, ChanInv, StartFails
  <2> QED BY <2>1, <2>2, <2>3, <2>4, <2>5
<1>4. ASSUME NEW o \in Owners, StartInstall(o) PROVE CountInv'
  <2>1. TypeOK' BY <1>4 DEF TypeOK, CallerInv, StartInstall
  <2>2. UnsettledExact' BY <1>4 DEF UnsettledExact, StartInstall
  <2>3. FreshInv' /\ HandsInv' /\ ClaimInv'
    BY <1>4 DEF TypeOK, FreshInv, HandsInv, ClaimInv, CallerInv, ChanInv, StartInstall
  <2>4. CallerInv' BY <1>4 DEF TypeOK, CallerInv, StartInstall
  <2>5. ChanInv' BY <1>4, CallersAssumption DEF TypeOK, CallerInv, ChanInv, StartInstall
  <2> QED BY <2>1, <2>2, <2>3, <2>4, <2>5
<1>5. ASSUME NEW o \in Owners, StopTake(o) PROVE CountInv'
  <2>1. TypeOK' BY <1>5 DEF TypeOK, CallerInv, StopTake
  <2>2. UnsettledExact' BY <1>5 DEF UnsettledExact, StopTake
  <2>3. FreshInv' /\ HandsInv' /\ ClaimInv'
    BY <1>5 DEF TypeOK, FreshInv, HandsInv, ClaimInv, CallerInv, ChanInv, StopTake
  <2>4. CallerInv' BY <1>5 DEF TypeOK, CallerInv, StopTake
  <2>5. ChanInv' BY <1>5, CallersAssumption DEF TypeOK, CallerInv, ChanInv, StopTake
  <2> QED BY <2>1, <2>2, <2>3, <2>4, <2>5
<1>6. ASSUME NEW o \in Owners, StopCancelWork(o) PROVE CountInv'
  <2>1. TypeOK' BY <1>6 DEF TypeOK, CallerInv, StopCancelWork
  <2>2. UnsettledExact' BY <1>6 DEF UnsettledExact, StopCancelWork
  <2>3. FreshInv' /\ HandsInv' /\ ClaimInv'
    BY <1>6 DEF TypeOK, FreshInv, HandsInv, ClaimInv, CallerInv, ChanInv, StopCancelWork
  <2>4. CallerInv' BY <1>6 DEF TypeOK, CallerInv, StopCancelWork
  <2>5. ChanInv' BY <1>6, CallersAssumption DEF TypeOK, CallerInv, ChanInv, StopCancelWork
  <2> QED BY <2>1, <2>2, <2>3, <2>4, <2>5
<1>7. ASSUME NEW o \in Owners, StopGiveUp(o) PROVE CountInv'
  <2>1. TypeOK' BY <1>7 DEF TypeOK, CallerInv, StopGiveUp
  <2>2. UnsettledExact' BY <1>7 DEF UnsettledExact, StopGiveUp
  <2>3. FreshInv' /\ HandsInv' /\ ClaimInv'
    BY <1>7 DEF TypeOK, FreshInv, HandsInv, ClaimInv, CallerInv, ChanInv, StopGiveUp
  <2>4. CallerInv' BY <1>7 DEF TypeOK, CallerInv, StopGiveUp
  <2>5. ChanInv' BY <1>7, CallersAssumption DEF TypeOK, CallerInv, ChanInv, StopGiveUp
  <2> QED BY <2>1, <2>2, <2>3, <2>4, <2>5
<1>8. ASSUME NEW o \in Owners, StopGoWait(o) PROVE CountInv'
  <2>1. TypeOK' BY <1>8 DEF TypeOK, CallerInv, StopGoWait
  <2>2. UnsettledExact' BY <1>8 DEF UnsettledExact, StopGoWait
  <2>3. FreshInv' /\ HandsInv' /\ ClaimInv'
    BY <1>8 DEF TypeOK, FreshInv, HandsInv, ClaimInv, CallerInv, ChanInv, StopGoWait
  <2>4. CallerInv' BY <1>8 DEF TypeOK, CallerInv, StopGoWait
  <2>5. ChanInv' BY <1>8, CallersAssumption DEF TypeOK, CallerInv, ChanInv, StopGoWait
  <2> QED BY <2>1, <2>2, <2>3, <2>4, <2>5
<1>9. ASSUME NEW o \in Owners, StopWait(o) PROVE CountInv'
  <2>1. TypeOK' BY <1>9 DEF TypeOK, CallerInv, StopWait
  <2>2. UnsettledExact' BY <1>9 DEF UnsettledExact, StopWait
  <2>3. FreshInv' /\ HandsInv' /\ ClaimInv'
    BY <1>9 DEF TypeOK, FreshInv, HandsInv, ClaimInv, CallerInv, ChanInv, StopWait
  <2>4. CallerInv' BY <1>9 DEF TypeOK, CallerInv, StopWait
  <2>5. ChanInv' BY <1>9, CallersAssumption DEF TypeOK, CallerInv, ChanInv, StopWait
  <2> QED BY <2>1, <2>2, <2>3, <2>4, <2>5
<1>10. ASSUME NEW p \in Drainers, DrainTake(p) PROVE CountInv'
  <2>1. TypeOK' BY <1>10 DEF TypeOK, CallerInv, DrainTake
  <2>2. UnsettledExact' BY <1>10 DEF UnsettledExact, DrainTake
  <2>3. FreshInv' /\ HandsInv' /\ ClaimInv'
    BY <1>10 DEF TypeOK, FreshInv, HandsInv, ClaimInv, CallerInv, ChanInv, DrainTake
  <2>4. CallerInv' BY <1>10 DEF TypeOK, CallerInv, DrainTake
  <2>5. ChanInv' BY <1>10, CallersAssumption DEF TypeOK, CallerInv, ChanInv, DrainTake
  <2> QED BY <2>1, <2>2, <2>3, <2>4, <2>5
<1>11. ASSUME NEW p \in Drainers, DrainCancelled(p) PROVE CountInv'
  <2>1. TypeOK' BY <1>11 DEF TypeOK, CallerInv, DrainCancelled
  <2>2. UnsettledExact' BY <1>11 DEF UnsettledExact, DrainCancelled
  <2>3. FreshInv' /\ HandsInv' /\ ClaimInv'
    BY <1>11 DEF TypeOK, FreshInv, HandsInv, ClaimInv, CallerInv, ChanInv, DrainCancelled
  <2>4. CallerInv' BY <1>11 DEF TypeOK, CallerInv, DrainCancelled
  <2>5. ChanInv' BY <1>11, CallersAssumption DEF TypeOK, CallerInv, ChanInv, DrainCancelled
  <2> QED BY <2>1, <2>2, <2>3, <2>4, <2>5
<1>12. ASSUME NEW p \in Drainers, DrainAbandon(p) PROVE CountInv'
  <2>1. TypeOK' BY <1>12 DEF TypeOK, CallerInv, DrainAbandon
  <2>2. UnsettledExact' BY <1>12 DEF UnsettledExact, DrainAbandon
  <2>3. FreshInv' /\ HandsInv' /\ ClaimInv'
    BY <1>12 DEF TypeOK, FreshInv, HandsInv, ClaimInv, CallerInv, ChanInv, DrainAbandon
  <2>4. CallerInv' BY <1>12 DEF TypeOK, CallerInv, DrainAbandon
  <2>5. ChanInv' BY <1>12, CallersAssumption DEF TypeOK, CallerInv, ChanInv, DrainAbandon
  <2> QED BY <2>1, <2>2, <2>3, <2>4, <2>5
<1>13. ASSUME NEW p \in Drainers, DrainCheckCtx(p) PROVE CountInv'
  <2>1. TypeOK' BY <1>13 DEF TypeOK, CallerInv, DrainCheckCtx
  <2>2. UnsettledExact' BY <1>13 DEF UnsettledExact, DrainCheckCtx
  <2>3. FreshInv' /\ HandsInv' /\ ClaimInv'
    BY <1>13 DEF TypeOK, FreshInv, HandsInv, ClaimInv, CallerInv, ChanInv, DrainCheckCtx
  <2>4. CallerInv' BY <1>13 DEF TypeOK, CallerInv, DrainCheckCtx
  <2>5. ChanInv' BY <1>13, CallersAssumption DEF TypeOK, CallerInv, ChanInv, DrainCheckCtx
  <2> QED BY <2>1, <2>2, <2>3, <2>4, <2>5
<1>14. ASSUME NEW p \in Drainers, DrainDone(p) PROVE CountInv'
  <2>1. TypeOK' BY <1>14 DEF TypeOK, CallerInv, DrainDone
  <2>2. UnsettledExact' BY <1>14 DEF UnsettledExact, DrainDone
  <2>3. FreshInv' /\ HandsInv' /\ ClaimInv'
    BY <1>14 DEF TypeOK, FreshInv, HandsInv, ClaimInv, CallerInv, ChanInv, DrainDone
  <2>4. CallerInv' BY <1>14 DEF TypeOK, CallerInv, DrainDone
  <2>5. ChanInv' BY <1>14, CallersAssumption DEF TypeOK, CallerInv, ChanInv, DrainDone
  <2> QED BY <2>1, <2>2, <2>3, <2>4, <2>5
<1>15. ASSUME NEW p \in Drainers, DrainTimeout(p) PROVE CountInv'
  <2>1. TypeOK' BY <1>15 DEF TypeOK, CallerInv, DrainTimeout
  <2>2. UnsettledExact' BY <1>15 DEF UnsettledExact, DrainTimeout
  <2>3. FreshInv' /\ HandsInv' /\ ClaimInv'
    BY <1>15 DEF TypeOK, FreshInv, HandsInv, ClaimInv, CallerInv, ChanInv, DrainTimeout
  <2>4. CallerInv' BY <1>15 DEF TypeOK, CallerInv, DrainTimeout
  <2>5. ChanInv' BY <1>15, CallersAssumption DEF TypeOK, CallerInv, ChanInv, DrainTimeout
  <2> QED BY <2>1, <2>2, <2>3, <2>4, <2>5
<1>16. ASSUME NEW p \in Drainers, Expire(p) PROVE CountInv'
  <2>1. TypeOK' BY <1>16 DEF TypeOK, CallerInv, Expire
  <2>2. UnsettledExact' BY <1>16 DEF UnsettledExact, Expire
  <2>3. FreshInv' /\ HandsInv' /\ ClaimInv'
    BY <1>16 DEF TypeOK, FreshInv, HandsInv, ClaimInv, CallerInv, ChanInv, Expire
  <2>4. CallerInv' BY <1>16 DEF TypeOK, CallerInv, Expire
  <2>5. ChanInv' BY <1>16, CallersAssumption DEF TypeOK, CallerInv, ChanInv, Expire
  <2> QED BY <2>1, <2>2, <2>3, <2>4, <2>5
<1>17. ASSUME CancelContext PROVE CountInv'
  BY <1>17 DEF TypeOK, UnsettledExact, FreshInv, HandsInv, ClaimInv, CallerInv,
    ChanInv, CancelContext
<1>18. ASSUME NEW p \in Drainers, DrainAnswer(p) PROVE CountInv'
  <2>1. TypeOK' BY <1>18 DEF TypeOK, CallerInv, DrainAnswer
  <2>2. UnsettledExact' BY <1>18 DEF UnsettledExact, DrainAnswer
  <2>3. FreshInv' /\ HandsInv' /\ ClaimInv'
    BY <1>18 DEF TypeOK, FreshInv, HandsInv, ClaimInv, CallerInv, ChanInv, DrainAnswer
  <2>4. CallerInv' BY <1>18 DEF TypeOK, CallerInv, DrainAnswer
  <2>5. ChanInv' BY <1>18, CallersAssumption DEF TypeOK, CallerInv, ChanInv, DrainAnswer
  <2> QED BY <2>1, <2>2, <2>3, <2>4, <2>5
<1>19. ASSUME NEW o \in Owners, StopAnswer(o) PROVE CountInv'
  <2>1. TypeOK' BY <1>19 DEF TypeOK, CallerInv, StopAnswer
  <2>2. UnsettledExact' BY <1>19 DEF UnsettledExact, StopAnswer
  <2>3. FreshInv' /\ HandsInv' /\ ClaimInv'
    BY <1>19 DEF TypeOK, FreshInv, HandsInv, ClaimInv, CallerInv, ChanInv, StopAnswer
  <2>4. CallerInv' BY <1>19 DEF TypeOK, CallerInv, StopAnswer
  <2>5. ChanInv' BY <1>19, CallersAssumption DEF TypeOK, CallerInv, ChanInv, StopAnswer
  <2> QED BY <2>1, <2>2, <2>3, <2>4, <2>5
<1> QED
  BY <1>1, <1>2, <1>3, <1>4, <1>5, <1>6, <1>7, <1>8, <1>9, <1>10, <1>11, <1>12, <1>13, <1>14,
     <1>15, <1>16, <1>17, <1>18, <1>19
  DEF OwnerStep, DrainStep

\* A settler call on a delivery that has a settler keeps the count exact.
LEMMA SettlerCallCount ==
    ASSUME TypeOK, UnsettledExact, released \subseteq settlers,
           NEW d \in settlers, NEW who \in {"loop", "downstream"},
           SettlerCall(d, who), UNCHANGED settlers
    PROVE  /\ UnsettledExact' /\ unsettled' \in Nat
           /\ released' \subseteq settlers
<1>1. CASE release(d)
  BY <1>1, ReleaseCount DEF UnsettledExact
<1>2. CASE UNCHANGED <<released, unsettled>>
  BY <1>2 DEF TypeOK, UnsettledExact
<1> QED
  BY <1>1, <1>2 DEF SettlerCall

\* What the broker, the library, the loops and downstream work do.
LEMMA DeliverySteps ==
    ASSUME CountInv,
           \/ \E c \in Channels :
                 \/ LoopStep(c)
                 \/ \E failed \in BOOLEAN : EventReturns(c, failed)
                 \/ \E d \in Deliveries : BrokerSend(c, d)
                 \/ ConsumerCancelled(c) \/ ChannelDies(c)
           \/ \E d \in Deliveries : SettleOp(d) \/ DownstreamSettle(d)
    PROVE  CountInv'
<1> USE NilAssumption DEF CountInv, fields, contexts, amqp, loops, settling, callers,
            config, Callers, Starting
<1>1. ASSUME NEW c \in Channels, NEW d \in Deliveries, BrokerSend(c, d) PROVE CountInv'
  <2>1. TypeOK' BY <1>1 DEF TypeOK, BrokerSend
  <2>2. UnsettledExact' BY <1>1 DEF UnsettledExact, BrokerSend
  <2>8. FreshInv' /\ HandsInv' /\ ClaimInv'
    BY <1>1 DEF TypeOK, FreshInv, HandsInv, ClaimInv, BrokerSend
  <2>9. CallerInv' /\ ChanInv'
    BY <1>1 DEF TypeOK, HandsInv, ClaimInv, CallerInv, ChanInv, BrokerSend
  <2> QED BY <2>1, <2>2, <2>8, <2>9
<1>2. ASSUME NEW c \in Channels, ConsumerCancelled(c) PROVE CountInv'
  <2>1. TypeOK' BY <1>2 DEF TypeOK, ConsumerCancelled
  <2>2. UnsettledExact' BY <1>2 DEF UnsettledExact, ConsumerCancelled
  <2>8. FreshInv' /\ HandsInv' /\ ClaimInv'
    BY <1>2 DEF TypeOK, FreshInv, HandsInv, ClaimInv, ConsumerCancelled
  <2>9. CallerInv' /\ ChanInv'
    BY <1>2 DEF TypeOK, HandsInv, ClaimInv, CallerInv, ChanInv, ConsumerCancelled
  <2> QED BY <2>1, <2>2, <2>8, <2>9
<1>3. ASSUME NEW c \in Channels, ChannelDies(c) PROVE CountInv'
  <2>1. TypeOK' BY <1>3 DEF TypeOK, ChannelDies
  <2>2. UnsettledExact' BY <1>3 DEF UnsettledExact, ChannelDies
  <2>8. FreshInv' /\ HandsInv' /\ ClaimInv'
    BY <1>3 DEF TypeOK, FreshInv, HandsInv, ClaimInv, ChannelDies
  <2>9. CallerInv' /\ ChanInv'
    BY <1>3 DEF TypeOK, HandsInv, ClaimInv, CallerInv, ChanInv, ChannelDies
  <2> QED BY <2>1, <2>2, <2>8, <2>9
<1>4. ASSUME NEW c \in Channels, LoopExit(c) PROVE CountInv'
  <2>1. TypeOK' BY <1>4 DEF TypeOK, LoopExit
  <2>2. UnsettledExact' BY <1>4 DEF UnsettledExact, LoopExit
  <2>8. FreshInv' /\ HandsInv' /\ ClaimInv'
    BY <1>4 DEF TypeOK, FreshInv, HandsInv, ClaimInv, LoopExit
  <2>9. CallerInv' /\ ChanInv'
    BY <1>4 DEF TypeOK, HandsInv, ClaimInv, CallerInv, ChanInv, LoopExit
  <2> QED BY <2>1, <2>2, <2>8, <2>9
<1>5. ASSUME NEW c \in Channels, NEW d \in Deliveries, LoopDispatch(c, d) PROVE CountInv'
  <2>1. d \in buffered /\ d \notin settlers /\ origin[d] = c /\ newSettler(d)
    BY <1>5 DEF LoopDispatch, Take, Backlog, FreshInv
  <2>2. unsettled' = Cardinality(settlers' \ released) /\ unsettled' \in Nat
    BY <2>1, NewSettlerCount DEF FreshInv
  <2>3. UnsettledExact' BY <1>5, <2>2 DEF UnsettledExact, LoopDispatch
  <2>4. TypeOK' BY <1>5, <2>1, <2>2 DEF TypeOK, LoopDispatch, Take, newSettler
  <2>8. FreshInv' /\ HandsInv' /\ ClaimInv'
    BY <1>5, <2>1 DEF TypeOK, FreshInv, HandsInv, ClaimInv, LoopDispatch, Take, newSettler
  <2>9. CallerInv' /\ ChanInv'
    BY <1>5, <2>1 DEF TypeOK, HandsInv, ClaimInv, CallerInv, ChanInv, LoopDispatch, Take, newSettler
  <2> QED BY <2>3, <2>4, <2>8, <2>9
<1>6. ASSUME NEW c \in Channels, NEW d \in Deliveries, LoopRefuse(c, d) PROVE CountInv'
  <2>1. d \in buffered /\ d \notin settlers /\ origin[d] = c /\ newSettler(d)
    BY <1>6 DEF LoopRefuse, Take, Backlog, FreshInv
  <2>2. unsettled' = Cardinality(settlers' \ released) /\ unsettled' \in Nat
    BY <2>1, NewSettlerCount DEF FreshInv
  <2>3. UnsettledExact' BY <1>6, <2>2 DEF UnsettledExact, LoopRefuse
  <2>4. TypeOK' BY <1>6, <2>1, <2>2 DEF TypeOK, LoopRefuse, Take, newSettler
  <2>8. FreshInv' /\ HandsInv' /\ ClaimInv'
    BY <1>6, <2>1 DEF TypeOK, FreshInv, HandsInv, ClaimInv, LoopRefuse, Take, newSettler
  <2>9. CallerInv' /\ ChanInv'
    BY <1>6, <2>1 DEF TypeOK, HandsInv, ClaimInv, CallerInv, ChanInv, LoopRefuse, Take, newSettler
  <2> QED BY <2>3, <2>4, <2>8, <2>9
<1>7. ASSUME NEW c \in Channels, NEW failed \in BOOLEAN, EventReturns(c, failed)
      PROVE CountInv'
  <2>1. at[c] \in Deliveries /\ (ackMode # "NoAck" => at[c] \in settlers)
    BY <1>7 DEF EventReturns, HandsInv
  <2>2. UnsettledExact' /\ unsettled' \in Nat /\ released' \subseteq settlers
    <3>1. CASE disposition = "Observed" /\ ackMode # "NoAck"
      BY <1>7, <2>1, <3>1, ReleaseCount DEF EventReturns, ReleaseObserved, UnsettledExact, FreshInv
    <3>2. CASE ~(disposition = "Observed" /\ ackMode # "NoAck")
      BY <1>7, <3>2 DEF EventReturns, ReleaseObserved, UnsettledExact, FreshInv, TypeOK
    <3> QED BY <3>1, <3>2
  <2>3. TypeOK' BY <1>7, <2>1, <2>2 DEF TypeOK, EventReturns
  <2>8. FreshInv' /\ HandsInv' /\ ClaimInv'
    BY <1>7, <2>1, <2>2 DEF TypeOK, FreshInv, HandsInv, ClaimInv, EventReturns, SettlesOnReturn
  <2>9. CallerInv' /\ ChanInv'
    BY <1>7, <2>1, <2>2 DEF TypeOK, HandsInv, ClaimInv, CallerInv, ChanInv, EventReturns, SettlesOnReturn
  <2> QED BY <2>2, <2>3, <2>8, <2>9
<1>8. ASSUME NEW c \in Channels, LoopAnswer(c) PROVE CountInv'
  <2>1. at[c] \in settlers /\ origin[at[c]] = c /\ at[c] \in Deliveries
    BY <1>8 DEF LoopAnswer, HandsInv
  <2>2. UnsettledExact' /\ unsettled' \in Nat /\ released' \subseteq settlers
    BY <1>8, <2>1, SettlerCallCount DEF LoopAnswer, FreshInv
  <2>3. TypeOK' BY <1>8, <2>1, <2>2 DEF TypeOK, LoopAnswer, SettlerCall
  <2>8. FreshInv' /\ HandsInv' /\ ClaimInv'
    BY <1>8, <2>1, <2>2 DEF TypeOK, FreshInv, HandsInv, ClaimInv, LoopAnswer, SettlerCall
  <2>9. CallerInv' /\ ChanInv'
    BY <1>8, <2>1, <2>2 DEF TypeOK, HandsInv, ClaimInv, CallerInv, ChanInv, LoopAnswer, SettlerCall
  <2> QED BY <2>2, <2>3, <2>8, <2>9
<1>9. ASSUME NEW d \in Deliveries, SettleOp(d) PROVE CountInv'
  <2>1. d \in settlers /\ origin[d] \in Channels
    BY <1>9 DEF SettleOp, ClaimInv, FreshInv
  <2>2. UnsettledExact' /\ unsettled' \in Nat /\ released' \subseteq settlers
    BY <1>9, <2>1, ReleaseCount DEF SettleOp, UnsettledExact, FreshInv
  <2>3. TypeOK' BY <1>9, <2>1, <2>2 DEF TypeOK, SettleOp
  <2>8. FreshInv' /\ HandsInv' /\ ClaimInv'
    BY <1>9, <2>1, <2>2 DEF TypeOK, FreshInv, HandsInv, ClaimInv, SettleOp
  <2>9. CallerInv' /\ ChanInv'
    BY <1>9, <2>1, <2>2 DEF TypeOK, HandsInv, ClaimInv, CallerInv, ChanInv, SettleOp
  <2> QED BY <2>2, <2>3, <2>8, <2>9
<1>10. ASSUME NEW d \in Deliveries, DownstreamSettle(d) PROVE CountInv'
  <2>1. d \in settlers
    BY <1>10 DEF DownstreamSettle
  <2>2. UnsettledExact' /\ unsettled' \in Nat /\ released' \subseteq settlers
    BY <1>10, <2>1, SettlerCallCount DEF DownstreamSettle, FreshInv
  <2>3. TypeOK' BY <1>10, <2>1, <2>2 DEF TypeOK, DownstreamSettle, SettlerCall
  <2>8. FreshInv' /\ HandsInv' /\ ClaimInv'
    BY <1>10, <2>1, <2>2 DEF TypeOK, FreshInv, HandsInv, ClaimInv, DownstreamSettle, SettlerCall
  <2>9. CallerInv' /\ ChanInv'
    BY <1>10, <2>1, <2>2 DEF TypeOK, HandsInv, ClaimInv, CallerInv, ChanInv, DownstreamSettle, SettlerCall
  <2> QED BY <2>2, <2>3, <2>8, <2>9
<1> QED
  BY <1>1, <1>2, <1>3, <1>4, <1>5, <1>6, <1>7, <1>8, <1>9, <1>10 DEF LoopStep

LEMMA CountStep == CountInv /\ [Next]_vars => CountInv'
<1> SUFFICES ASSUME CountInv, [Next]_vars PROVE CountInv'
  OBVIOUS
<1>1. CASE UNCHANGED vars
  BY <1>1 DEF vars, fields, contexts, amqp, loops, settling, callers, config,
              CountInv, TypeOK, UnsettledExact, FreshInv, HandsInv, ClaimInv,
              CallerInv, ChanInv, Starting
<1>2. CASE Next
  BY <1>1, <1>2, CallerSteps, DeliverySteps DEF Next, StartRefused
<1> QED
  BY <1>1, <1>2

LEMMA CountAlways == Spec => []CountInv
  BY CountInit, CountStep, PTL DEF Spec

\* The receiver's state stays well typed; in particular the unsettled count is
\* never negative, however settles, retries and stale refusals interleave.
THEOREM TypeCorrect == Spec => []TypeOK
  BY CountAlways, PTL DEF CountInv

\* Unsettled() is exactly the number of deliveries handed out and not released,
\* for any number of callers, channels and deliveries.
THEOREM UnsettledIsExact == Spec => []UnsettledExact
  BY CountAlways, PTL DEF CountInv

-----------------------------------------------------------------------------
(* Who answers for a counted delivery *)

\* A loop has a delivery in hand only while it handles one, and a settle that
\* reached the broker has released its delivery.
AnswerInv ==
    /\ \A c \in Channels : loop[c] \in {"none", "select", "done"} => at[c] = None
    /\ \A d \in Deliveries : claim[d] = "settled" => d \in released

LeakInv == AnswerInv /\ NoLeak

\* What the steps that concern no delivery in hand leave alone.
HandsOff == UNCHANGED <<loop, at, origin, settlers, released, claim, config>>

LEMMA HandsOffSteps ==
    \/ \E o \in Owners :
          \/ \E c \in Channels : StartCheck(o, c)
          \/ StartConsume(o) \/ StartFails(o) \/ StopTake(o) \/ StopAnswer(o)
          \/ StopCancelWork(o) \/ StopGiveUp(o) \/ StopGoWait(o) \/ StopWait(o)
    \/ \E p \in Drainers : DrainTake(p) \/ DrainStep(p) \/ Expire(p)
    \/ \E c \in Channels : ConsumerCancelled(c) \/ ChannelDies(c)
    \/ CancelContext
    \/ UNCHANGED vars
    => HandsOff
<1> USE DEF HandsOff, loops, amqp, settling, config
<1>1. ASSUME NEW o \in Owners, NEW c \in Channels, StartCheck(o, c) PROVE HandsOff
  BY <1>1 DEF StartCheck
<1>2. ASSUME NEW o \in Owners,
             \/ StartConsume(o) \/ StartFails(o) \/ StopTake(o) \/ StopAnswer(o)
             \/ StopCancelWork(o) \/ StopGiveUp(o) \/ StopGoWait(o) \/ StopWait(o)
      PROVE  HandsOff
  BY <1>2 DEF StartConsume, StartFails, StopTake, StopAnswer, StopCancelWork,
              StopGiveUp, StopGoWait, StopWait
<1>3. ASSUME NEW p \in Drainers, DrainTake(p) \/ DrainStep(p) \/ Expire(p)
      PROVE  HandsOff
  BY <1>3 DEF DrainStep, DrainTake, DrainAnswer, DrainCancelled, DrainAbandon,
              DrainCheckCtx, DrainDone, DrainTimeout, Expire
<1>4. ASSUME NEW c \in Channels, ConsumerCancelled(c) \/ ChannelDies(c)
      PROVE  HandsOff
  BY <1>4 DEF ConsumerCancelled, ChannelDies
<1>5. ASSUME CancelContext \/ UNCHANGED vars PROVE HandsOff
  BY <1>5 DEF CancelContext, vars
<1> QED
  BY <1>1, <1>2, <1>3, <1>4, <1>5

LEMMA LeakStep == CountInv /\ LeakInv /\ [Next]_vars => LeakInv'
<1> SUFFICES ASSUME CountInv, LeakInv, [Next]_vars PROVE LeakInv'
  OBVIOUS
<1> USE NilAssumption
    DEF CountInv, TypeOK, LeakInv, AnswerInv, NoLeak, Running, loops, amqp, config
<1>1. ASSUME HandsOff PROVE LeakInv'
  BY <1>1 DEF HandsOff
<1>2. ASSUME NEW o \in Owners, StartInstall(o) PROVE LeakInv'
  <2>1. /\ cyc[o] \in Channels /\ loop[cyc[o]] = "none"
        /\ loop' = [loop EXCEPT ![cyc[o]] = "select"]
        /\ UNCHANGED <<at, origin, settlers, released, claim, config>>
    BY <1>2 DEF StartInstall, CallerInv, ChanInv, Callers, Starting, settling
  <2> QED
    BY <2>1
<1>3. ASSUME NEW c \in Channels, LoopExit(c) PROVE LeakInv'
  <2>1. /\ loop[c] = "select" /\ loop' = [loop EXCEPT ![c] = "done"]
        /\ UNCHANGED <<at, origin, settlers, released, claim, config>>
    BY <1>3 DEF LoopExit, settling
  <2> QED
    BY <2>1 DEF FreshInv
<1>4. ASSUME NEW c \in Channels, NEW d \in Deliveries, BrokerSend(c, d) PROVE LeakInv'
  <2>1. /\ origin[d] = None /\ origin' = [origin EXCEPT ![d] = c]
        /\ UNCHANGED <<loop, at, settlers, released, claim, config>>
    BY <1>4 DEF BrokerSend, settling
  <2>2. \A x \in settlers : x # d
    BY <2>1 DEF FreshInv
  <2> QED
    BY <2>1, <2>2
<1>5. ASSUME NEW c \in Channels, NEW d \in Deliveries,
             LoopDispatch(c, d) \/ LoopRefuse(c, d)
      PROVE  LeakInv'
  <2>1. /\ d \in Deliveries /\ origin[d] = c /\ loop[c] = "select"
        /\ UNCHANGED <<origin, released, claim, config>>
    BY <1>5 DEF LoopDispatch, LoopRefuse, Take, Backlog
  <2>2. AnswerInv'
    BY <1>5, <2>1 DEF LoopDispatch, LoopRefuse
  <2>3. ASSUME ackMode # "NoAck" PROVE NoLeak'
    <3>1. /\ settlers' = settlers \cup {d} /\ at' = [at EXCEPT ![c] = d]
          /\ loop' \in {[loop EXCEPT ![c] = "event"], [loop EXCEPT ![c] = "answer"]}
      BY <1>5, <2>3 DEF LoopDispatch, LoopRefuse, Take, newSettler
    <3> QED
      BY <2>1, <3>1 DEF FreshInv
  <2> QED
    BY <2>1, <2>2, <2>3
<1>6. ASSUME NEW c \in Channels, NEW failed \in BOOLEAN, EventReturns(c, failed)
      PROVE  LeakInv'
  <2>1. /\ at[c] \in Deliveries /\ origin[at[c]] = c /\ loop[c] = "event"
        /\ UNCHANGED <<origin, settlers, claim, config>>
        /\ released \subseteq released'
    BY <1>6 DEF EventReturns, HandsInv, ReleaseObserved, release
  <2>2. CASE SettlesOnReturn(failed)
    <3>1. loop' = [loop EXCEPT ![c] = "answer"] /\ UNCHANGED at
      BY <1>6, <2>2 DEF EventReturns
    <3> QED
      BY <2>1, <3>1
  <2>3. CASE ~SettlesOnReturn(failed)
    <3>1. loop' = [loop EXCEPT ![c] = "select"] /\ at' = [at EXCEPT ![c] = None]
      BY <1>6, <2>3 DEF EventReturns
    <3>2. ackMode = "AfterHandling" /\ disposition # "Deferred" => at[c] \in released'
      BY <1>6, <2>3, ConfigAssumption
      DEF EventReturns, SettlesOnReturn, ReleaseObserved, release, AllDispositions
    <3> QED
      BY <2>1, <3>1, <3>2 DEF FreshInv
  <2> QED
    BY <2>2, <2>3
<1>7. ASSUME NEW c \in Channels, LoopAnswer(c) PROVE LeakInv'
  <2> DEFINE d == at[c]
  <2>1. /\ d \in settlers /\ d \in Deliveries /\ origin[d] = c /\ loop[c] = "answer"
        /\ claim[d] # "loop"
        /\ UNCHANGED <<origin, settlers, config>>
        /\ released \subseteq released'
    BY <1>7 DEF LoopAnswer, HandsInv, ClaimInv, SettlerCall, release
  <2>2. CASE claim[d] = "free" /\ ~Stale(d)
    <3>1. /\ claim' = [claim EXCEPT ![d] = "loop"] /\ UNCHANGED <<released, at>>
          /\ loop' = [loop EXCEPT ![c] = "settle"]
      BY <1>7, <2>1, <2>2 DEF LoopAnswer, SettlerCall
    <3> QED
      BY <2>1, <3>1
  <2>3. CASE claim[d] # "free" \/ Stale(d)
    <3>1. /\ UNCHANGED claim
          /\ loop' = [loop EXCEPT ![c] = "select"] /\ at' = [at EXCEPT ![c] = None]
      BY <1>7, <2>1, <2>3 DEF LoopAnswer, SettlerCall
    <3>2. d \in released' \/ claim[d] = "downstream"
      BY <1>7, <2>1, <2>3 DEF LoopAnswer, SettlerCall, release
    <3> QED
      BY <2>1, <3>1, <3>2 DEF FreshInv
  <2> QED
    BY <2>2, <2>3
<1>8. ASSUME NEW d \in Deliveries, SettleOp(d) PROVE LeakInv'
  <2>1. /\ d \in settlers /\ origin[d] \in Channels
        /\ released' = released \cup {d}
        /\ \A x \in Deliveries : x # d => claim'[x] = claim[x]
        /\ UNCHANGED <<origin, settlers, config>>
    BY <1>8 DEF SettleOp, ClaimInv, FreshInv, release
  <2>2. CASE claim[d] = "loop"
    <3>1. /\ loop' = [loop EXCEPT ![origin[d]] = "select"]
          /\ at' = [at EXCEPT ![origin[d]] = None]
          /\ at[origin[d]] = d
      BY <1>8, <2>2 DEF SettleOp, ClaimInv
    <3> QED
      BY <2>1, <3>1 DEF FreshInv
  <2>3. CASE claim[d] # "loop"
    BY <1>8, <2>1, <2>3 DEF SettleOp
  <2> QED
    BY <2>2, <2>3
<1>9. ASSUME NEW d \in Deliveries, DownstreamSettle(d) PROVE LeakInv'
  <2>1. /\ UNCHANGED <<loop, at, origin, settlers, config>>
        /\ released \subseteq released'
        /\ \/ UNCHANGED claim
           \/ claim' = [claim EXCEPT ![d] = "downstream"]
    BY <1>9 DEF DownstreamSettle, SettlerCall, release
  <2> QED
    BY <2>1
<1> QED
  BY <1>1, <1>2, <1>3, <1>4, <1>5, <1>6, <1>7, <1>8, <1>9, HandsOffSteps
  DEF Next, OwnerStep, LoopStep, StartRefused

\* Where the receiver answers for every delivery, none is counted without a
\* running loop or a downstream settle that will release it, for any number of
\* owners, drains, channels and deliveries.
THEOREM NothingLeaks == Spec => []NoLeak
<1>1. Init => LeakInv
  BY DEF Init, LeakInv, AnswerInv, NoLeak
<1>2. LeakInv => NoLeak
  BY DEF LeakInv
<1> QED
  BY <1>1, <1>2, CountAlways, LeakStep, PTL DEF Spec

-----------------------------------------------------------------------------
(* What a finished drain left behind *)

\* The loop of channel c may end with messages unread.
CutShort(c) == chan[c] = "dead" \/ c \in workDone \/ ctxDone

Emptied(c) == consumer[c] = "cancelled" /\ Backlog(c) = {}

\* A consumer is taken by one drain at most, and only that of a start that was
\* installed; a read context is cancelled by the drain that took its consumer.
TakenInv ==
    /\ stopRead # None =>
          loop[stopRead] # "none" /\ \A p \in Drainers : cyc[p] # stopRead
    /\ \A p \in Drainers : cyc[p] # None => loop[cyc[p]] # "none"
    /\ \A p, q \in Drainers : cyc[p] = cyc[q] /\ cyc[p] # None => p = q
    /\ \A c \in readDone : \E p \in Drainers : cyc[p] = c

\* Where drain p is with the consumer it took: it cuts the loop short before its
\* last wait only on a dead channel, or with a context that will not let it wait.
DrainAt(p) ==
    /\ pc[p] \in {"idle", "drainAnswer"} => cyc[p] = None /\ res[p] = "none"
    /\ pc[p] = "drainCancel" => cyc[p] \notin readDone
    /\ pc[p] = "drainCtx" /\ cyc[p] \in readDone =>
          chan[cyc[p]] = "dead" \/ p \in expired
    /\ pc[p] = "drainWait" /\ cyc[p] \in readDone => chan[cyc[p]] = "dead"
    /\ res[p] = "drained" /\ cyc[p] # None =>
          CutShort(cyc[p]) \/ Emptied(cyc[p])

DrainInv == \A p \in Drainers : DrainAt(p)

\* A loop that ended did so for a reason.
EndedInv ==
    \A c \in Channels :
        loop[c] = "done" => CutShort(c) \/ Emptied(c) \/ c \in readDone

BacklogInv == TakenInv /\ DrainInv /\ EndedInv

\* Steps inside a loop, and of the settlers, only take messages away.
LEMMA BacklogQuiet ==
    ASSUME CountInv, BacklogInv, buffered' \subseteq buffered,
           UNCHANGED <<stopRead, pc, cyc, res, expired, contexts, chan, consumer, origin>>,
           \A c \in Channels : /\ loop'[c] = "done" => loop[c] = "done"
                               /\ loop'[c] = "none" => loop[c] = "none"
    PROVE  BacklogInv'
<1> USE DEF CountInv, TypeOK, BacklogInv, contexts
<1>1. \A c \in Channels : /\ CutShort(c) => CutShort(c)'
                          /\ Emptied(c) => Emptied(c)'
  BY DEF CutShort, Emptied, Backlog
<1>2. TakenInv'
  BY DEF TakenInv, Callers
<1>3. DrainInv'
  BY <1>1 DEF DrainInv, DrainAt, Callers
<1>4. EndedInv'
  BY <1>1 DEF EndedInv
<1> QED
  BY <1>2, <1>3, <1>4

LEMMA BacklogInside ==
    CountInv /\ BacklogInv
    /\ (\/ \E c \in Channels :
              \/ LoopAnswer(c)
              \/ \E failed \in BOOLEAN : EventReturns(c, failed)
              \/ \E d \in Deliveries : LoopDispatch(c, d) \/ LoopRefuse(c, d)
        \/ \E d \in Deliveries : SettleOp(d) \/ DownstreamSettle(d)
        \/ UNCHANGED vars)
    => BacklogInv'
<1> SUFFICES ASSUME CountInv, BacklogInv PROVE
       (\/ \E c \in Channels :
              \/ LoopAnswer(c)
              \/ \E failed \in BOOLEAN : EventReturns(c, failed)
              \/ \E d \in Deliveries : LoopDispatch(c, d) \/ LoopRefuse(c, d)
        \/ \E d \in Deliveries : SettleOp(d) \/ DownstreamSettle(d)
        \/ UNCHANGED vars)
       => BacklogInv'
  OBVIOUS
<1> DEFINE Same == UNCHANGED <<stopRead, pc, cyc, res, expired, contexts, chan,
                               consumer, origin>>
           Ends == \A c \in Channels : /\ loop'[c] = "done" => loop[c] = "done"
                                       /\ loop'[c] = "none" => loop[c] = "none"
<1> USE DEF CountInv, TypeOK, fields, contexts, amqp, loops, callers
<1>1. ASSUME NEW c \in Channels, LoopAnswer(c) PROVE BacklogInv'
  <2>1. Same /\ Ends /\ buffered' \subseteq buffered
    BY <1>1 DEF LoopAnswer
  <2> QED BY <2>1, BacklogQuiet
<1>2. ASSUME NEW c \in Channels, NEW failed \in BOOLEAN, EventReturns(c, failed)
      PROVE  BacklogInv'
  <2>1. Same /\ Ends /\ buffered' \subseteq buffered
    BY <1>2 DEF EventReturns
  <2> QED BY <2>1, BacklogQuiet
<1>3. ASSUME NEW c \in Channels, NEW d \in Deliveries,
             LoopDispatch(c, d) \/ LoopRefuse(c, d)
      PROVE  BacklogInv'
  <2>1. Same /\ Ends /\ buffered' \subseteq buffered
    BY <1>3 DEF LoopDispatch, LoopRefuse, Take
  <2> QED BY <2>1, BacklogQuiet
<1>4. ASSUME NEW d \in Deliveries, SettleOp(d) PROVE BacklogInv'
  <2>1. Same /\ Ends /\ buffered' \subseteq buffered
    BY <1>4 DEF SettleOp, ClaimInv, FreshInv
  <2> QED BY <2>1, BacklogQuiet
<1>5. ASSUME NEW d \in Deliveries, DownstreamSettle(d) PROVE BacklogInv'
  <2>1. Same /\ Ends /\ buffered' \subseteq buffered
    BY <1>5 DEF DownstreamSettle
  <2> QED BY <2>1, BacklogQuiet
<1>6. ASSUME UNCHANGED vars PROVE BacklogInv'
  <2>1. Same /\ Ends /\ buffered' \subseteq buffered
    BY <1>6 DEF vars
  <2> QED BY <2>1, BacklogQuiet
<1> QED
  BY <1>1, <1>2, <1>3, <1>4, <1>5, <1>6

LEMMA BacklogStep == CountInv /\ BacklogInv /\ [Next]_vars => BacklogInv'
<1> SUFFICES ASSUME CountInv, BacklogInv PROVE [Next]_vars => BacklogInv'
  OBVIOUS
<1> USE NilAssumption, CallersAssumption
    DEF CountInv, TypeOK, CallerInv, ChanInv, Starting, BacklogInv, TakenInv,
        DrainInv, DrainAt, EndedInv, CutShort, Emptied, Backlog, Callers, fields,
        contexts, amqp, loops, callers, Goto, Return, Finish
<1>1. ASSUME NEW o \in Owners, NEW c \in Channels, StartCheck(o, c) PROVE BacklogInv'
  <2>1. TakenInv' BY <1>1 DEF StartCheck
  <2>2. DrainInv' BY <1>1 DEF StartCheck
  <2>3. EndedInv' BY <1>1 DEF StartCheck
  <2> QED BY <2>1, <2>2, <2>3
<1>2. ASSUME NEW o \in Owners, StartConsume(o) PROVE BacklogInv'
  <2>1. TakenInv' BY <1>2 DEF StartConsume
  <2>2. DrainInv' BY <1>2 DEF StartConsume
  <2>3. EndedInv' BY <1>2 DEF StartConsume
  <2> QED BY <2>1, <2>2, <2>3
<1>3. ASSUME NEW o \in Owners, StartFails(o) PROVE BacklogInv'
  <2>1. TakenInv' BY <1>3 DEF StartFails
  <2>2. DrainInv' BY <1>3 DEF StartFails
  <2>3. EndedInv' BY <1>3 DEF StartFails
  <2> QED BY <2>1, <2>2, <2>3
<1>4. ASSUME NEW o \in Owners, StartInstall(o) PROVE BacklogInv'
  <2>1. TakenInv' BY <1>4 DEF StartInstall
  <2>2. DrainInv' BY <1>4 DEF StartInstall
  <2>3. EndedInv' BY <1>4 DEF StartInstall
  <2> QED BY <2>1, <2>2, <2>3
<1>5. ASSUME NEW o \in Owners, StopTake(o) PROVE BacklogInv'
  <2>1. TakenInv' BY <1>5 DEF StopTake, stillRunning
  <2>2. DrainInv' BY <1>5 DEF StopTake, stillRunning
  <2>3. EndedInv' BY <1>5 DEF StopTake, stillRunning
  <2> QED BY <2>1, <2>2, <2>3
<1>6. ASSUME NEW o \in Owners, StopCancelWork(o) PROVE BacklogInv'
  <2>1. TakenInv' BY <1>6 DEF StopCancelWork
  <2>2. DrainInv' BY <1>6 DEF StopCancelWork
  <2>3. EndedInv' BY <1>6 DEF StopCancelWork
  <2> QED BY <2>1, <2>2, <2>3
<1>7. ASSUME NEW o \in Owners, StopGiveUp(o) PROVE BacklogInv'
  <2>1. TakenInv' BY <1>7 DEF StopGiveUp, stillRunning
  <2>2. DrainInv' BY <1>7 DEF StopGiveUp, stillRunning
  <2>3. EndedInv' BY <1>7 DEF StopGiveUp, stillRunning
  <2> QED BY <2>1, <2>2, <2>3
<1>8. ASSUME NEW o \in Owners, StopGoWait(o) PROVE BacklogInv'
  <2>1. TakenInv' BY <1>8 DEF StopGoWait
  <2>2. DrainInv' BY <1>8 DEF StopGoWait
  <2>3. EndedInv' BY <1>8 DEF StopGoWait
  <2> QED BY <2>1, <2>2, <2>3
<1>9. ASSUME NEW o \in Owners, StopWait(o) PROVE BacklogInv'
  <2>1. TakenInv' BY <1>9 DEF StopWait
  <2>2. DrainInv' BY <1>9 DEF StopWait
  <2>3. EndedInv' BY <1>9 DEF StopWait
  <2> QED BY <2>1, <2>2, <2>3
<1>10. ASSUME NEW p \in Drainers, DrainTake(p) PROVE BacklogInv'
  <2>1. TakenInv' BY <1>10 DEF DrainTake
  <2>2. DrainInv' BY <1>10 DEF DrainTake
  <2>3. EndedInv' BY <1>10 DEF DrainTake
  <2> QED BY <2>1, <2>2, <2>3
<1>11. ASSUME NEW p \in Drainers, DrainAnswer(p) PROVE BacklogInv'
  <2>1. TakenInv' BY <1>11 DEF DrainAnswer
  <2>2. DrainInv' BY <1>11 DEF DrainAnswer
  <2>3. EndedInv' BY <1>11 DEF DrainAnswer
  <2> QED BY <2>1, <2>2, <2>3
<1>12. ASSUME NEW p \in Drainers, DrainCancelled(p) PROVE BacklogInv'
  <2>1. TakenInv' BY <1>12 DEF DrainCancelled
  <2>2. DrainInv' BY <1>12 DEF DrainCancelled
  <2>3. EndedInv' BY <1>12 DEF DrainCancelled
  <2> QED BY <2>1, <2>2, <2>3
<1>13. ASSUME NEW p \in Drainers, DrainAbandon(p) PROVE BacklogInv'
  <2>1. TakenInv' BY <1>13 DEF DrainAbandon
  <2>2. DrainInv' BY <1>13 DEF DrainAbandon
  <2>3. EndedInv' BY <1>13 DEF DrainAbandon
  <2> QED BY <2>1, <2>2, <2>3
<1>14. ASSUME NEW p \in Drainers, DrainCheckCtx(p) PROVE BacklogInv'
  <2>1. TakenInv' BY <1>14 DEF DrainCheckCtx
  <2>2. DrainInv' BY <1>14 DEF DrainCheckCtx
  <2>3. EndedInv' BY <1>14 DEF DrainCheckCtx
  <2> QED BY <2>1, <2>2, <2>3
<1>15. ASSUME NEW p \in Drainers, DrainDone(p) PROVE BacklogInv'
  <2>1. TakenInv' BY <1>15 DEF DrainDone, Running
  <2>2. DrainInv' BY <1>15 DEF DrainDone, Running
  <2>3. EndedInv' BY <1>15 DEF DrainDone, Running
  <2> QED BY <2>1, <2>2, <2>3
<1>16. ASSUME NEW p \in Drainers, DrainTimeout(p) PROVE BacklogInv'
  <2>1. TakenInv' BY <1>16 DEF DrainTimeout
  <2>2. DrainInv' BY <1>16 DEF DrainTimeout
  <2>3. EndedInv' BY <1>16 DEF DrainTimeout
  <2> QED BY <2>1, <2>2, <2>3
<1>17. ASSUME NEW p \in Drainers, Expire(p) PROVE BacklogInv'
  <2>1. TakenInv' BY <1>17 DEF Expire, DrainPcs
  <2>2. DrainInv' BY <1>17 DEF Expire, DrainPcs
  <2>3. EndedInv' BY <1>17 DEF Expire, DrainPcs
  <2> QED BY <2>1, <2>2, <2>3
<1>18. ASSUME NEW c \in Channels, LoopExit(c) PROVE BacklogInv'
  <2>1. TakenInv' BY <1>18 DEF LoopExit, ReadCancelled, StreamClosed
  <2>2. DrainInv' BY <1>18 DEF LoopExit, ReadCancelled, StreamClosed
  <2>3. EndedInv' BY <1>18 DEF LoopExit, ReadCancelled, StreamClosed
  <2> QED BY <2>1, <2>2, <2>3
<1>19. ASSUME NEW c \in Channels, NEW d \in Deliveries, BrokerSend(c, d) PROVE BacklogInv'
  <2>1. TakenInv' BY <1>19 DEF BrokerSend
  <2>2. DrainInv' BY <1>19 DEF BrokerSend
  <2>3. EndedInv' BY <1>19 DEF BrokerSend
  <2> QED BY <2>1, <2>2, <2>3
<1>20. ASSUME NEW c \in Channels, ConsumerCancelled(c) PROVE BacklogInv'
  <2>1. TakenInv' BY <1>20 DEF ConsumerCancelled
  <2>2. DrainInv' BY <1>20 DEF ConsumerCancelled
  <2>3. EndedInv' BY <1>20 DEF ConsumerCancelled
  <2> QED BY <2>1, <2>2, <2>3
<1>21. ASSUME NEW c \in Channels, ChannelDies(c) PROVE BacklogInv'
  <2>1. TakenInv' BY <1>21 DEF ChannelDies
  <2>2. DrainInv' BY <1>21 DEF ChannelDies
  <2>3. EndedInv' BY <1>21 DEF ChannelDies
  <2> QED BY <2>1, <2>2, <2>3
<1>22. ASSUME CancelContext PROVE BacklogInv'
  <2>1. TakenInv' BY <1>22 DEF CancelContext
  <2>2. DrainInv' BY <1>22 DEF CancelContext
  <2>3. EndedInv' BY <1>22 DEF CancelContext
  <2> QED BY <2>1, <2>2, <2>3
<1>23. ASSUME NEW o \in Owners, StopAnswer(o) PROVE BacklogInv'
  <2>1. TakenInv' BY <1>23 DEF StopAnswer
  <2>2. DrainInv' BY <1>23 DEF StopAnswer
  <2>3. EndedInv' BY <1>23 DEF StopAnswer
  <2> QED BY <2>1, <2>2, <2>3
<1> QED
  BY <1>1, <1>2, <1>3, <1>4, <1>5, <1>6, <1>7, <1>8, <1>9, <1>10, <1>11, <1>12, <1>13, <1>14,
     <1>15, <1>16, <1>17, <1>18, <1>19, <1>20, <1>21, <1>22, <1>23, BacklogInside
  DEF Next, OwnerStep, DrainStep, LoopStep, StartRefused

\* A Drain that took the consumer away and returned nil left nothing the broker
\* had sent unhandled, unless the channel died or a Stop or the context cut the
\* loop short; for any number of owners, drains, channels and deliveries.
THEOREM DrainHandlesBacklog == Spec => []BacklogHandled
<1>1. Init => BacklogInv
  BY DEF Init, BacklogInv, TakenInv, DrainInv, DrainAt, EndedInv, Callers
<1>2. CountInv /\ BacklogInv => BacklogHandled
  BY DEF CountInv, BacklogInv, DrainInv, DrainAt, BacklogHandled, CutShort, Emptied
<1> QED
  BY <1>1, <1>2, CountAlways, BacklogStep, PTL DEF Spec

-----------------------------------------------------------------------------
(* Until a Start crosses *)

NoneBusy == \A o \in Owners : ~Starting(o) /\ ~Stopping(o)

SomeStarting == \E o \in Owners : Starting(o)

\* One owner at a time is past the check of Start or past the locked section of
\* Stop with something to stop; the others find nothing to do.
ExclusiveInv ==
    \A o, q \in Owners :
        (Starting(o) \/ Stopping(o)) /\ (Starting(q) \/ Stopping(q)) => o = q

\* stopRead is the current start's or gone, and gone only into a drain.
FieldsInv ==
    /\ stopRead # None => stopRead = stopWork
    /\ stopWork # None => NoneBusy
    /\ stopWork # None /\ stopRead = None => stillDelivering = stopWork
    /\ stillDelivering # None => drained /\ stopRead = None

\* Who answers for a running loop: the receiver's fields, the Stop that took
\* them, or, once that Stop gave up, stillDelivering.
LoopInv ==
    /\ SomeStarting => Quiet /\ stillDelivering = None
    /\ \A c \in Channels : Running(c) =>
          \/ c = stopWork
          \/ \E o \in Owners : Stopping(o) /\ cyc[o] = c
          \/ stopWork = None /\ NoneBusy /\ stillDelivering = c

\* A Drain in progress is the one stillDelivering stands for.
WaitInv == \A p \in Drainers : pc[p] \in DrainPcs => stillDelivering = cyc[p]

LifeInv == ExclusiveInv /\ FieldsInv /\ LoopInv /\ WaitInv

\* Deliveries, loops, the broker and the context only ever end loops.
LEMMA LoopsOnlyEnd ==
    ASSUME CountInv,
           \/ \E c \in Channels :
                 \/ LoopStep(c)
                 \/ \E failed \in BOOLEAN : EventReturns(c, failed)
                 \/ \E d \in Deliveries : BrokerSend(c, d)
                 \/ ConsumerCancelled(c) \/ ChannelDies(c)
           \/ \E d \in Deliveries : SettleOp(d) \/ DownstreamSettle(d)
           \/ CancelContext
    PROVE  /\ \A c \in Channels : Running(c)' => Running(c)
           /\ UNCHANGED <<fields, callers>>
<1> USE DEF CountInv, TypeOK, Running, loops, amqp
<1>1. ASSUME NEW c \in Channels, LoopStep(c)
      PROVE  \A x \in Channels : Running(x)' => Running(x)
  BY <1>1 DEF LoopStep, LoopExit, LoopAnswer, LoopDispatch, LoopRefuse, Take
<1>2. ASSUME NEW c \in Channels, NEW failed \in BOOLEAN, EventReturns(c, failed)
      PROVE  \A x \in Channels : Running(x)' => Running(x)
  BY <1>2 DEF EventReturns
<1>3. ASSUME NEW d \in Deliveries, SettleOp(d)
      PROVE  \A x \in Channels : Running(x)' => Running(x)
  BY <1>3 DEF SettleOp, ClaimInv, FreshInv
<1>4. ASSUME \/ \E c \in Channels :
                   \/ \E d \in Deliveries : BrokerSend(c, d)
                   \/ ConsumerCancelled(c) \/ ChannelDies(c)
             \/ \E d \in Deliveries : DownstreamSettle(d)
             \/ CancelContext
      PROVE  \A x \in Channels : Running(x)' => Running(x)
  BY <1>4 DEF BrokerSend, ConsumerCancelled, ChannelDies, DownstreamSettle,
              CancelContext
<1>5. UNCHANGED <<fields, callers>>
  BY DEF LoopStep, LoopExit, LoopAnswer, LoopDispatch, LoopRefuse, EventReturns,
         SettleOp, BrokerSend, ConsumerCancelled, ChannelDies, DownstreamSettle,
         CancelContext
<1> QED
  BY <1>1, <1>2, <1>3, <1>4, <1>5

LEMMA LifeInit == Init => LifeInv
  BY DEF Init, LifeInv, ExclusiveInv, FieldsInv, LoopInv, WaitInv, Quiet, Running,
         NoneBusy, Callers, DrainPcs, SomeStarting, Starting, Stopping

\* A crossing is never forgotten.
LEMMA CrossedGrows == [Next]_vars => crossed \subseteq crossed'
  BY DEF Next, vars, OwnerStep, DrainStep, LoopStep, StartCheck, StartRefused,
         StartConsume, StartFails, StartInstall, StopTake, StopAnswer,
         StopCancelWork, StopGiveUp, StopGoWait, StopWait, DrainTake, DrainAnswer,
         DrainCancelled, DrainAbandon, DrainCheckCtx, DrainDone, DrainTimeout,
         Expire, CancelContext, BrokerSend, ConsumerCancelled, ChannelDies,
         SettleOp, DownstreamSettle, LoopExit, LoopAnswer, LoopDispatch,
         LoopRefuse, EventReturns

LEMMA LifeStep ==
    ASSUME CountInv, LifeInv, crossed' = {}, [Next]_vars
    PROVE  LifeInv'
<1> USE NilAssumption, CallersAssumption
    DEF CountInv, TypeOK, CallerInv, ChanInv, LifeInv, ExclusiveInv, FieldsInv,
        LoopInv, WaitInv, Quiet, Running, NoneBusy, SomeStarting, Starting,
        Stopping, Callers, DrainPcs, fields, contexts, amqp, loops, settling,
        callers, config, Goto, Return, Finish
<1>1. ASSUME NEW o \in Owners, NEW c \in Channels, StartCheck(o, c) PROVE LifeInv'
  <2>5. NoneBusy
    BY <1>1 DEF StartCheck
  <2>6. stillDelivering = None /\ Quiet
    BY <1>1, <2>5 DEF StartCheck
  <2>1. ExclusiveInv' BY <1>1, <2>5 DEF StartCheck
  <2>2. FieldsInv' BY <1>1 DEF StartCheck
  <2>3. LoopInv' BY <1>1, <2>6 DEF StartCheck
  <2>4. WaitInv' BY <1>1 DEF StartCheck
  <2> QED BY <2>1, <2>2, <2>3, <2>4
<1>2. ASSUME NEW o \in Owners, StartConsume(o) PROVE LifeInv'
  <2>1. ExclusiveInv' BY <1>2 DEF StartConsume
  <2>2. FieldsInv' BY <1>2 DEF StartConsume
  <2>3. LoopInv' BY <1>2 DEF StartConsume
  <2>4. WaitInv' BY <1>2 DEF StartConsume
  <2> QED BY <2>1, <2>2, <2>3, <2>4
<1>3. ASSUME NEW o \in Owners, StartFails(o) PROVE LifeInv'
  <2>1. ExclusiveInv' BY <1>3 DEF StartFails
  <2>2. FieldsInv' BY <1>3 DEF StartFails
  <2>3. LoopInv' BY <1>3 DEF StartFails
  <2>4. WaitInv' BY <1>3 DEF StartFails
  <2> QED BY <2>1, <2>2, <2>3, <2>4
<1>4. ASSUME NEW o \in Owners, StartInstall(o) PROVE LifeInv'
  <2>1. ExclusiveInv' BY <1>4 DEF StartInstall
  <2>2. FieldsInv' BY <1>4 DEF StartInstall
  <2>3. LoopInv' BY <1>4 DEF StartInstall
  <2>4. WaitInv' BY <1>4 DEF StartInstall
  <2> QED BY <2>1, <2>2, <2>3, <2>4
<1>5. ASSUME NEW o \in Owners, StopTake(o) PROVE LifeInv'
  <2>1. ExclusiveInv' BY <1>5 DEF StopTake
  <2>2. FieldsInv' BY <1>5 DEF StopTake
  <2>3. LoopInv' BY <1>5 DEF StopTake
  <2>4. WaitInv' BY <1>5 DEF StopTake
  <2> QED BY <2>1, <2>2, <2>3, <2>4
<1>6. ASSUME NEW o \in Owners, StopAnswer(o) PROVE LifeInv'
  <2>1. ExclusiveInv' BY <1>6 DEF StopAnswer
  <2>2. FieldsInv' BY <1>6 DEF StopAnswer
  <2>3. LoopInv' BY <1>6 DEF StopAnswer
  <2>4. WaitInv' BY <1>6 DEF StopAnswer
  <2> QED BY <2>1, <2>2, <2>3, <2>4
<1>7. ASSUME NEW o \in Owners, StopCancelWork(o) PROVE LifeInv'
  <2>1. ExclusiveInv' BY <1>7 DEF StopCancelWork
  <2>2. FieldsInv' BY <1>7 DEF StopCancelWork
  <2>3. LoopInv' BY <1>7 DEF StopCancelWork
  <2>4. WaitInv' BY <1>7 DEF StopCancelWork
  <2> QED BY <2>1, <2>2, <2>3, <2>4
<1>8. ASSUME NEW o \in Owners, StopGiveUp(o) PROVE LifeInv'
  <2>1. ExclusiveInv' BY <1>8 DEF StopGiveUp, stillRunning
  <2>2. FieldsInv' BY <1>8 DEF StopGiveUp, stillRunning
  <2>3. LoopInv' BY <1>8 DEF StopGiveUp, stillRunning
  <2>4. WaitInv' BY <1>8 DEF StopGiveUp, stillRunning
  <2> QED BY <2>1, <2>2, <2>3, <2>4
<1>9. ASSUME NEW o \in Owners, StopGoWait(o) PROVE LifeInv'
  <2>1. ExclusiveInv' BY <1>9 DEF StopGoWait
  <2>2. FieldsInv' BY <1>9 DEF StopGoWait
  <2>3. LoopInv' BY <1>9 DEF StopGoWait
  <2>4. WaitInv' BY <1>9 DEF StopGoWait
  <2> QED BY <2>1, <2>2, <2>3, <2>4
<1>10. ASSUME NEW o \in Owners, StopWait(o) PROVE LifeInv'
  <2>1. ExclusiveInv' BY <1>10 DEF StopWait
  <2>2. FieldsInv' BY <1>10 DEF StopWait
  <2>3. LoopInv' BY <1>10 DEF StopWait
  <2>4. WaitInv' BY <1>10 DEF StopWait
  <2> QED BY <2>1, <2>2, <2>3, <2>4
<1>11. ASSUME NEW p \in Drainers, DrainTake(p) PROVE LifeInv'
  <2>1. ExclusiveInv' BY <1>11 DEF DrainTake
  <2>2. FieldsInv' BY <1>11 DEF DrainTake
  <2>3. LoopInv' BY <1>11 DEF DrainTake
  <2>4. WaitInv' BY <1>11 DEF DrainTake
  <2> QED BY <2>1, <2>2, <2>3, <2>4
<1>12. ASSUME NEW p \in Drainers, DrainAnswer(p) PROVE LifeInv'
  <2>1. ExclusiveInv' BY <1>12 DEF DrainAnswer
  <2>2. FieldsInv' BY <1>12 DEF DrainAnswer
  <2>3. LoopInv' BY <1>12 DEF DrainAnswer
  <2>4. WaitInv' BY <1>12 DEF DrainAnswer
  <2> QED BY <2>1, <2>2, <2>3, <2>4
<1>13. ASSUME NEW p \in Drainers, DrainCancelled(p) PROVE LifeInv'
  <2>1. ExclusiveInv' BY <1>13 DEF DrainCancelled
  <2>2. FieldsInv' BY <1>13 DEF DrainCancelled
  <2>3. LoopInv' BY <1>13 DEF DrainCancelled
  <2>4. WaitInv' BY <1>13 DEF DrainCancelled
  <2> QED BY <2>1, <2>2, <2>3, <2>4
<1>14. ASSUME NEW p \in Drainers, DrainAbandon(p) PROVE LifeInv'
  <2>1. ExclusiveInv' BY <1>14 DEF DrainAbandon
  <2>2. FieldsInv' BY <1>14 DEF DrainAbandon
  <2>3. LoopInv' BY <1>14 DEF DrainAbandon
  <2>4. WaitInv' BY <1>14 DEF DrainAbandon
  <2> QED BY <2>1, <2>2, <2>3, <2>4
<1>15. ASSUME NEW p \in Drainers, DrainCheckCtx(p) PROVE LifeInv'
  <2>1. ExclusiveInv' BY <1>15 DEF DrainCheckCtx
  <2>2. FieldsInv' BY <1>15 DEF DrainCheckCtx
  <2>3. LoopInv' BY <1>15 DEF DrainCheckCtx
  <2>4. WaitInv' BY <1>15 DEF DrainCheckCtx
  <2> QED BY <2>1, <2>2, <2>3, <2>4
<1>16. ASSUME NEW p \in Drainers, DrainDone(p) PROVE LifeInv'
  <2>1. ExclusiveInv' BY <1>16 DEF DrainDone
  <2>2. FieldsInv' BY <1>16 DEF DrainDone
  <2>3. LoopInv' BY <1>16 DEF DrainDone
  <2>4. WaitInv' BY <1>16 DEF DrainDone
  <2> QED BY <2>1, <2>2, <2>3, <2>4
<1>17. ASSUME NEW p \in Drainers, DrainTimeout(p) PROVE LifeInv'
  <2>1. ExclusiveInv' BY <1>17 DEF DrainTimeout
  <2>2. FieldsInv' BY <1>17 DEF DrainTimeout
  <2>3. LoopInv' BY <1>17 DEF DrainTimeout
  <2>4. WaitInv' BY <1>17 DEF DrainTimeout
  <2> QED BY <2>1, <2>2, <2>3, <2>4
<1>18. ASSUME NEW p \in Drainers, Expire(p) PROVE LifeInv'
  <2>1. ExclusiveInv' BY <1>18 DEF Expire
  <2>2. FieldsInv' BY <1>18 DEF Expire
  <2>3. LoopInv' BY <1>18 DEF Expire
  <2>4. WaitInv' BY <1>18 DEF Expire
  <2> QED BY <2>1, <2>2, <2>3, <2>4
<1>19. ASSUME \A c \in Channels : Running(c)' => Running(c),
              UNCHANGED <<fields, callers>>
       PROVE  LifeInv'
  BY <1>19
<1>20. CASE UNCHANGED vars
  BY <1>19, <1>20 DEF vars
<1> QED
  BY <1>1, <1>2, <1>3, <1>4, <1>5, <1>6, <1>7, <1>8, <1>9, <1>10,
     <1>11, <1>12, <1>13, <1>14, <1>15, <1>16, <1>17, <1>18, <1>19, <1>20, LoopsOnlyEnd
  DEF Next, OwnerStep, DrainStep, StartRefused

\* Every tag was stamped with an epoch no later than the current one, on a
\* channel a loop ran on. While a Start is under way, and whenever the receiver
\* is stopped and was not drained, every tag handed out is stale.
TagInv ==
    /\ \A d \in settlers : stamp[d] \leq epoch /\ loop[origin[d]] # "none"
    /\ TagValidity
    /\ SomeStarting \/ (~drained /\ stopWork = None /\ NoneBusy) =>
          \A d \in settlers : stamp[d] < epoch

LEMMA TagStep ==
    ASSUME CountInv, LifeInv, TagInv, crossed = {}, crossed' = {}, [Next]_vars
    PROVE  TagInv'
<1> USE NilAssumption, CallersAssumption
    DEF CountInv, TypeOK, TagInv, TagValidity, Stale, NoneBusy, SomeStarting,
        Starting, Stopping, Callers, fields, contexts, amqp, loops,
        settling, callers, config, Goto, Return, Finish
<1>1. ASSUME NEW o \in Owners, NEW c \in Channels, StartCheck(o, c) PROVE TagInv'
  BY <1>1 DEF ChanInv, StartCheck
<1>2. ASSUME NEW o \in Owners, StartConsume(o) PROVE TagInv'
  BY <1>2 DEF StartConsume
<1>3. ASSUME NEW o \in Owners, StartFails(o) PROVE TagInv'
  BY <1>3 DEF StartFails
<1>4. ASSUME NEW o \in Owners, StartInstall(o) PROVE TagInv'
  BY <1>4 DEF ChanInv, CallerInv, FreshInv, StartInstall
<1>5. ASSUME NEW o \in Owners, StopTake(o) PROVE TagInv'
  BY <1>5 DEF LifeInv, FieldsInv, StopTake
<1>6. ASSUME NEW o \in Owners, StopCancelWork(o) PROVE TagInv'
  BY <1>6 DEF StopCancelWork
<1>7. ASSUME NEW o \in Owners, StopGiveUp(o) PROVE TagInv'
  BY <1>7 DEF LifeInv, FieldsInv, stillRunning, StopGiveUp
<1>8. ASSUME NEW o \in Owners, StopGoWait(o) PROVE TagInv'
  BY <1>8 DEF StopGoWait
<1>9. ASSUME NEW o \in Owners, StopWait(o) PROVE TagInv'
  BY <1>9 DEF LifeInv, FieldsInv, StopWait
<1>10. ASSUME NEW p \in Drainers, DrainTake(p) PROVE TagInv'
  BY <1>10 DEF DrainTake
<1>11. ASSUME NEW p \in Drainers, DrainStep(p) PROVE TagInv'
  BY <1>11 DEF DrainAnswer, DrainCancelled, DrainAbandon, DrainCheckCtx,
               DrainDone, DrainTimeout, DrainStep
<1>12. ASSUME NEW p \in Drainers, Expire(p) PROVE TagInv'
  BY <1>12 DEF Expire
<1>13. ASSUME NEW c \in Channels, NEW d \in Deliveries, BrokerSend(c, d) PROVE TagInv'
  BY <1>13 DEF FreshInv, BrokerSend
<1>14. ASSUME NEW c \in Channels, ConsumerCancelled(c) PROVE TagInv'
  BY <1>14 DEF ConsumerCancelled
<1>15. ASSUME NEW c \in Channels, ChannelDies(c) PROVE TagInv'
  BY <1>15 DEF ChannelDies
<1>16. ASSUME CancelContext PROVE TagInv'
  BY <1>16 DEF CancelContext
<1>17. ASSUME NEW d \in Deliveries, SettleOp(d) PROVE TagInv'
  BY <1>17 DEF SettleOp, FreshInv
<1>18. ASSUME NEW d \in Deliveries, DownstreamSettle(d) PROVE TagInv'
  BY <1>18 DEF DownstreamSettle
<1>19. ASSUME NEW c \in Channels, LoopExit(c) PROVE TagInv'
  BY <1>19 DEF LoopExit
<1>20. ASSUME NEW c \in Channels, LoopAnswer(c) PROVE TagInv'
  BY <1>20 DEF LoopAnswer, FreshInv
<1>21. ASSUME NEW c \in Channels, NEW failed \in BOOLEAN, EventReturns(c, failed)
       PROVE TagInv'
  BY <1>21 DEF EventReturns, FreshInv
<1>22. ASSUME NEW c \in Channels, NEW d \in Deliveries,
             LoopDispatch(c, d) \/ LoopRefuse(c, d)
      PROVE  TagInv'
  <2>1. Take(c, d) /\ UNCHANGED <<fields, callers, epoch, origin>>
    BY <1>22 DEF LoopDispatch, LoopRefuse
  <2>2. /\ origin[d] = c /\ Running(c)
        /\ \A x \in settlers' : x \in settlers \/ x = d
        /\ \A x \in settlers' : x # d => stamp'[x] = stamp[x]
        /\ d \in settlers' => stamp'[d] = epoch
    BY <2>1 DEF Take, Backlog, newSettler, FreshInv, Running
  <2>3. stopWork # None => c = stopWork
    BY <2>2 DEF LifeInv, FieldsInv, LoopInv
  <2>4. ~SomeStarting /\ ~(~drained /\ stopWork = None /\ NoneBusy)
    BY <2>2 DEF LifeInv, FieldsInv, LoopInv, Quiet
  <2>5. \A x \in settlers' : loop'[origin[x]] # "none"
    BY <1>22, <2>1, <2>2 DEF LoopDispatch, LoopRefuse, Take, FreshInv
  <2> QED
    BY <2>1, <2>2, <2>3, <2>4, <2>5
<1>23. CASE UNCHANGED vars
  BY <1>23 DEF vars
<1>24. ASSUME NEW o \in Owners, StopAnswer(o) PROVE TagInv'
  BY <1>24 DEF StopAnswer
<1> QED
  BY <1>1, <1>2, <1>3, <1>4, <1>5, <1>6, <1>7, <1>8, <1>9, <1>10, <1>11, <1>12, <1>13, <1>14,
     <1>15, <1>16, <1>17, <1>18, <1>19, <1>20, <1>21, <1>22, <1>23, <1>24
  DEF Next, OwnerStep, LoopStep, StartRefused

\* The order holds until a Start crosses.
OrderInv == crossed = {} => LifeInv /\ TagInv

LEMMA OrderAlways == Spec => [](CountInv /\ OrderInv)
<1>1. Init => CountInv /\ OrderInv
  <2>1. Init => TagInv
    BY DEF Init, TagInv, TagValidity, SomeStarting, Starting, Callers
  <2> QED BY <2>1, CountInit, LifeInit DEF OrderInv
<1>2. CountInv /\ OrderInv /\ [Next]_vars => (CountInv /\ OrderInv)'
  <2> SUFFICES ASSUME CountInv, OrderInv, [Next]_vars PROVE CountInv' /\ OrderInv'
    OBVIOUS
  <2>1. ASSUME crossed' = {} PROVE LifeInv' /\ TagInv'
    <3>1. crossed = {} /\ LifeInv /\ TagInv
      BY <2>1, CrossedGrows DEF OrderInv
    <3> QED BY <2>1, <3>1, LifeStep, TagStep
  <2> QED BY <2>1, CountStep DEF OrderInv
<1> QED
  BY <1>1, <1>2, PTL DEF Spec

\* For any number of owners, drains, channels and deliveries, two delivery loops
\* run at once only after a Start was let through while another owner was inside
\* Start or waiting in Stop: never by a restart, a drain or a Stop that gave up.
THEOREM OneLoopAtATime == Spec => []OneLoop
<1>1. OrderInv => OneLoop
  BY NilAssumption
  DEF OrderInv, LifeInv, ExclusiveInv, FieldsInv, LoopInv, OneLoop, LoopsCoexist, NoneBusy
<1> QED
  BY <1>1, OrderAlways, PTL

\* With any owners, until a Start crosses, the settlers that read as valid while
\* the receiver is started are exactly those of the channel it is started on.
THEOREM ValidTagsAreCurrent == Spec => []TagValidity
<1>1. OrderInv => TagValidity
  BY DEF OrderInv, TagInv, TagValidity
<1> QED
  BY <1>1, OrderAlways, PTL

\* A Stop of any owner that reports success, at once or after a wait, leaves no
\* loop running but the one of another owner's Stop or later Start.
THEOREM StopSucceedsQuiet == Spec => StopMeansQuiet
<1> DEFINE Left(o) == \A c \in Channels : Running(c)' =>
                c = stopWork \/ \E q \in Owners \ {o} : Stopping(q) /\ cyc[q] = c
           Quietly == \A o \in Owners :
                res[o] # "stopped" /\ res'[o] = "stopped" /\ crossed = {} => Left(o)
<1>1. CountInv /\ OrderInv /\ [Next]_vars => [Quietly]_vars
  <2> SUFFICES ASSUME CountInv, LifeInv, Next, NEW o \in Owners,
                      res[o] # "stopped", res'[o] = "stopped"
               PROVE  Left(o)
    BY DEF OrderInv
  <2> USE CallersAssumption, NilAssumption
      DEF CountInv, TypeOK, LifeInv, FieldsInv, LoopInv, Running, NoneBusy, Stopping,
          Callers, loops, callers, Goto, Return, Finish
  <2>1. StopAnswer(o) \/ StopWait(o)
    BY LoopsOnlyEnd DEF Next, vars, OwnerStep, DrainStep, StartCheck, StartRefused,
       StartConsume, StartFails, StartInstall, StopTake, StopAnswer, StopCancelWork,
       StopGiveUp, StopGoWait, StopWait, DrainTake, DrainAnswer, DrainCancelled,
       DrainAbandon, DrainCheckCtx, DrainDone, DrainTimeout, Expire
  <2>2. CASE StopAnswer(o)
    BY <2>2 DEF StopAnswer, stillRunning
  <2>3. CASE StopWait(o)
    BY <2>3 DEF StopWait
  <2> QED BY <2>1, <2>2, <2>3
<1> QED
  BY <1>1, OrderAlways, PTL DEF Spec, StopMeansQuiet

\* A Drain that returns nil, with no consumer registered behind its back, leaves no
\* loop running but one that a Stop is waiting for, for any number of drains and
\* owners, whatever Start or Stop is under way.
THEOREM DrainReturnsClean == Spec => CleanDrain
<1> DEFINE Left == \A c \in Channels : Running(c)' =>
                \E o \in Owners : Stopping(o) /\ cyc[o] = c
           Clean == \A p \in Drainers :
                (res[p] # "drained" /\ res'[p] = "drained" /\ stopRead = None /\ crossed = {}) =>
                    Left
<1>1. CountInv /\ OrderInv /\ [Next]_vars => [Clean]_vars
  <2> SUFFICES ASSUME CountInv, LifeInv, Next, NEW p \in Drainers,
                      res[p] # "drained", res'[p] = "drained", stopRead = None
               PROVE  Left
    BY DEF OrderInv
  <2> USE CallersAssumption, NilAssumption
      DEF CountInv, TypeOK, CallerInv, LifeInv, FieldsInv, LoopInv, WaitInv,
          Running, NoneBusy, Stopping, Callers, DrainPcs, loops, callers,
          Goto, Return, Finish
  <2>1. DrainAnswer(p) \/ DrainDone(p)
    BY LoopsOnlyEnd DEF Next, vars, OwnerStep, DrainStep, StartCheck, StartRefused,
       StartConsume, StartFails, StartInstall, StopTake, StopAnswer, StopCancelWork,
       StopGiveUp, StopGoWait, StopWait, DrainTake, DrainAnswer, DrainCancelled,
       DrainAbandon, DrainCheckCtx, DrainDone, DrainTimeout, Expire
  <2>2. CASE DrainAnswer(p)
    BY <2>2 DEF DrainAnswer, stillRunning
  <2>3. CASE DrainDone(p)
    BY <2>3 DEF DrainDone
  <2> QED BY <2>1, <2>2, <2>3
<1> QED
  BY <1>1, OrderAlways, PTL DEF Spec, CleanDrain

=============================================================================
