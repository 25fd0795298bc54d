---------------------------- MODULE ClientProofs ----------------------------
(***************************************************************************)
(* Proofs about Client, for any number of connections, channels, senders,  *)
(* receivers and Stop calls.                                               *)
(***************************************************************************)
EXTENDS Client, TLAPS

LEMMA TypeInit == Init => TypeOK
<1> SUFFICES ASSUME Init PROVE TypeOK
  OBVIOUS
<1>1. /\ slot \in [Endpoints -> Chans \cup {None}]
      /\ conState \in [Conns -> {"unused", "open", "dead"}]
      /\ chState \in [Chans -> {"unused", "open", "soft", "gone"}]
      /\ s \in [Stoppers -> SPcs]
  BY DEF Init, SPcs
<1>2. /\ chConn \in [Chans -> Conns \cup {None}]
      /\ chEnd \in [Chans -> Endpoints \cup {None}]
      /\ w \in [Chans -> WPcs]
      /\ wconn \in [Chans -> Conns \cup {None}]
      /\ wnew \in [Chans -> Chans \cup {None}]
  BY DEF Init, WPcs
<1>3. brokers \in 0..NumBrokers /\ attempt \in Nat /\ connects \in Nat
      /\ disconnects \in Nat
  BY LimitsAssumption DEF Init
<1>4. /\ conn \in Conns \cup {None} /\ gconn \in Conns \cup {None}
      /\ gch \in Chans \cup {None} /\ g \in GPcs
      /\ todo \subseteq Endpoints /\ stodo \subseteq Endpoints
      /\ rdrained \subseteq Receivers /\ life \in {"none", "live", "done"}
  BY DEF Init, GPcs
<1>5. /\ started \in BOOLEAN /\ stopping \in BOOLEAN /\ drained \in BOOLEAN
      /\ connected \in BOOLEAN /\ initial \in BOOLEAN /\ was \in BOOLEAN
      /\ draining \in BOOLEAN
  BY DEF Init
<1> QED
  BY <1>1, <1>2, <1>3, <1>4, <1>5 DEF TypeOK

\* The connect goroutine's steps keep the types.
LEMMA TypeConnect ==
    ASSUME TypeOK, ConnectStep
    PROVE  TypeOK'
<1> USE LimitsAssumption
    DEF TypeOK, Endpoints, GPcs, flags, link, ends, amqp, wvars, svars, hooks,
        OpenChannel, KillConn, CloseChan, Detach, Attach
<1>1. ASSUME Attempt PROVE TypeOK'
  BY <1>1 DEF Attempt
<1>2. ASSUME DialCancelled PROVE TypeOK'
  BY <1>2 DEF DialCancelled
<1>3. ASSUME DialFails PROVE TypeOK'
  BY <1>3 DEF DialFails
<1>4. ASSUME Backoff PROVE TypeOK'
  BY <1>4 DEF Backoff
<1>5. ASSUME NEW k \in Conns, DialSucceeds(k) PROVE TypeOK'
  BY <1>5 DEF DialSucceeds
<1>6. ASSUME NEW e \in Endpoints, CleanupDetach(e) PROVE TypeOK'
  BY <1>6 DEF CleanupDetach
<1>7. ASSUME NEW e \in Endpoints, TeardownDetach(e) PROVE TypeOK'
  BY <1>7 DEF TeardownDetach
<1>8. ASSUME NEW e \in Endpoints, NEW ch \in Chans, SetupSender(e, ch) PROVE TypeOK'
  BY <1>8 DEF SetupSender
<1>9. ASSUME NEW e \in Endpoints, NEW ch \in Chans, SetupReceiver(e, ch) PROVE TypeOK'
  BY <1>9 DEF SetupReceiver
<1>10. ASSUME SetupDecide PROVE TypeOK'
  BY <1>10 DEF SetupDecide
<1>11. ASSUME SetupStart PROVE TypeOK'
  <2>1. slot' \in [Endpoints -> Chans \cup {None}]
    BY <1>11 DEF SetupStart
  <2>2. todo' \subseteq Endpoints /\ g' \in GPcs
    BY <1>11 DEF SetupStart
  <2> QED
    BY <1>11, <2>1, <2>2 DEF SetupStart
<1>12. ASSUME SetupFails PROVE TypeOK'
  BY <1>12 DEF SetupFails
<1>13. ASSUME CleanupClose PROVE TypeOK'
  <2>1. chState' \in [Chans -> {"unused", "open", "soft", "gone"}]
    BY <1>13 DEF CleanupClose
  <2>2. conState' \in [Conns -> {"unused", "open", "dead"}]
    BY <1>13 DEF CleanupClose
  <2> QED
    BY <1>13, <2>1, <2>2 DEF CleanupClose
<1>14. ASSUME SpawnWatchers PROVE TypeOK'
  BY <1>14 DEF SpawnWatchers, WPcs
<1>15. ASSUME Publish PROVE TypeOK'
  BY <1>15 DEF Publish
<1>16. ASSUME OnConnect PROVE TypeOK'
  BY <1>16 DEF OnConnect
<1>17. ASSUME Arm PROVE TypeOK'
  BY <1>17 DEF Arm
<1>18. ASSUME WatchCancelled PROVE TypeOK'
  BY <1>18 DEF WatchCancelled
<1>19. ASSUME Disconnected PROVE TypeOK'
  BY <1>19 DEF Disconnected
<1>20. ASSUME OnDisconnect PROVE TypeOK'
  <2>1. disconnects' \in Nat
    BY <1>20 DEF OnDisconnect
  <2> QED
    BY <1>20, <2>1 DEF OnDisconnect
<1>21. ASSUME SetupAttach PROVE TypeOK'
  <2>1. slot' \in [Endpoints -> Chans \cup {None}]
    BY <1>21 DEF SetupAttach, SetChannel
  <2>2. todo' \subseteq Endpoints /\ g' \in GPcs
    BY <1>21 DEF SetupAttach
  <2> QED
    BY <1>21, <2>1, <2>2 DEF SetupAttach
<1> QED
  BY <1>1, <1>2, <1>3, <1>4, <1>5, <1>6, <1>7, <1>8, <1>9, <1>10, <1>11, <1>12,
     <1>13, <1>14, <1>15, <1>16, <1>17, <1>18, <1>19, <1>20, <1>21
  DEF ConnectStep

\* So do the watchers, the Stop calls, the host and the network.
LEMMA TypeOthers ==
    ASSUME TypeOK,
           \/ Start \/ HostCancels \/ DrainCall
           \/ \E r \in Receivers : DrainReceiver(r)
           \/ \E ch \in Chans : WatcherStep(ch) \/ ChanDies(ch)
           \/ \E p \in Stoppers : StopCall(p) \/ StopStep(p)
           \/ \E k \in Conns : ConnDies(k)
    PROVE  TypeOK'
<1> USE DEF TypeOK, Endpoints, GPcs, WPcs, SPcs, flags, link, gvars, ends, amqp,
            wvars, svars, hooks, OpenChannel, KillConn, CloseChan, Detach, Attach
<1>1. ASSUME Start PROVE TypeOK'
  BY <1>1 DEF Start
<1>2. ASSUME HostCancels PROVE TypeOK'
  BY <1>2 DEF HostCancels
<1>3. ASSUME DrainCall PROVE TypeOK'
  BY <1>3 DEF DrainCall
<1>4. ASSUME NEW r \in Receivers, DrainReceiver(r) PROVE TypeOK'
  BY <1>4 DEF DrainReceiver
<1>5. ASSUME NEW ch \in Chans, WatcherArm(ch) PROVE TypeOK'
  BY <1>5 DEF WatcherArm
<1>6. ASSUME NEW ch \in Chans, WatcherExit(ch) PROVE TypeOK'
  BY <1>6 DEF WatcherExit
<1>7. ASSUME NEW ch \in Chans, WatcherNotified(ch) PROVE TypeOK'
  BY <1>7 DEF WatcherNotified
<1>8. ASSUME NEW ch \in Chans, RecoverRead(ch) PROVE TypeOK'
  BY <1>8 DEF RecoverRead
<1>9. ASSUME NEW ch \in Chans, RecoverStop(ch) PROVE TypeOK'
  <2>1. slot' \in [Endpoints -> Chans \cup {None}]
    BY <1>9 DEF RecoverStop
  <2>2. w' \in [Chans -> WPcs]
    BY <1>9 DEF RecoverStop
  <2> QED
    BY <1>9, <2>1, <2>2 DEF RecoverStop
<1>10. ASSUME NEW ch \in Chans, NEW n \in Chans, RecoverOpen(ch, n) PROVE TypeOK'
  BY <1>10 DEF RecoverOpen
<1>11. ASSUME NEW ch \in Chans, RecoverOpenFails(ch) PROVE TypeOK'
  BY <1>11 DEF RecoverOpenFails
<1>12. ASSUME NEW ch \in Chans, RecoverCheck(ch) PROVE TypeOK'
  BY <1>12 DEF RecoverCheck
<1>13. ASSUME NEW ch \in Chans, RecoverInstall(ch) PROVE TypeOK'
  <2>1. slot' \in [Endpoints -> Chans \cup {None}]
    BY <1>13 DEF RecoverInstall, SetChannel
  <2>2. w' \in [Chans -> WPcs]
    BY <1>13 DEF RecoverInstall
  <2>3. chState' \in [Chans -> {"unused", "open", "soft", "gone"}]
    BY <1>13 DEF RecoverInstall
  <2> QED
    BY <1>13, <2>1, <2>2, <2>3 DEF RecoverInstall
<1>14. ASSUME NEW ch \in Chans, RecoverCommit(ch) PROVE TypeOK'
  BY <1>14 DEF RecoverCommit
<1>15. ASSUME NEW ch \in Chans, ChanDies(ch) PROVE TypeOK'
  BY <1>15 DEF ChanDies
<1>16. ASSUME NEW p \in Stoppers, StopCall(p) PROVE TypeOK'
  BY <1>16 DEF StopCall
<1>17. ASSUME NEW p \in Stoppers, StopCancel(p) PROVE TypeOK'
  BY <1>17 DEF StopCancel
<1>18. ASSUME NEW p \in Stoppers, StopWait(p) PROVE TypeOK'
  BY <1>18 DEF StopWait
<1>19. ASSUME NEW p \in Stoppers, NEW e \in Endpoints, StopDetach(p, e) PROVE TypeOK'
  BY <1>19 DEF StopDetach
<1>20. ASSUME NEW p \in Stoppers, StopOnDisconnect(p) PROVE TypeOK'
  <2>1. disconnects' \in Nat
    BY <1>20 DEF StopOnDisconnect
  <2>2. s' \in [Stoppers -> SPcs]
    BY <1>20 DEF StopOnDisconnect
  <2>3. connected' \in BOOLEAN
    BY <1>20 DEF StopOnDisconnect
  <2>4. UNCHANGED <<flags, conn, life, gvars, ends, amqp, wvars, stodo, connects>>
    BY <1>20 DEF StopOnDisconnect
  <2> QED
    BY <2>1, <2>2, <2>3, <2>4
<1>21. ASSUME NEW p \in Stoppers, StopClose(p) PROVE TypeOK'
  BY <1>21 DEF StopClose
<1>22. ASSUME NEW k \in Conns, ConnDies(k) PROVE TypeOK'
  BY <1>22 DEF ConnDies
<1> QED
  BY <1>1, <1>2, <1>3, <1>4, <1>5, <1>6, <1>7, <1>8, <1>9, <1>10, <1>11, <1>12, <1>13, <1>14, <1>15, <1>16, <1>17, <1>18, <1>19, <1>20, <1>21, <1>22
  DEF WatcherStep, StopStep

LEMMA TypeStep == TypeOK /\ [Next]_vars => TypeOK'
<1> SUFFICES ASSUME TypeOK, [Next]_vars PROVE TypeOK'
  OBVIOUS
<1>1. CASE UNCHANGED vars
  BY <1>1 DEF vars, flags, link, gvars, ends, amqp, wvars, svars, hooks, TypeOK
<1>2. CASE Next
  BY <1>2, TypeConnect, TypeOthers DEF Next
<1> QED
  BY <1>1, <1>2

\* The client's state stays well typed: in particular the walk over the brokers
\* list never runs past its end.
THEOREM ClientTypes == Spec => []TypeOK
  BY TypeInit, TypeStep, PTL DEF Spec

-----------------------------------------------------------------------------
(* Connections, hooks and the first connection *)

\* Where the connect goroutine stands while it has no connection to show.
Unlinked == {"none", "attempt", "dial", "setup", "attach", "decide", "start", "cleanup",
             "publish"}

\* The goroutine and the Stop calls: nothing runs before Start, a Stop goes on
\* only after the goroutine ended, and takes connected back for good.
OrderInv ==
    /\ ~started => g = "none"
    /\ g \in Unlinked \cup {"teardown"} => ~connected
    /\ g = "onconnect" => connected
    /\ \A p \in Stoppers :
          /\ s[p] \in {"receivers", "senders", "done"} => g = "ended"
          /\ s[p] \in {"senders", "done"} => ~connected

\* The hooks are even or OnConnect is one ahead, and connected (or was, in the
\* middle of handleDisconnect) says which, except between setting connected and
\* calling OnConnect.
HookInv ==
    /\ g = "onconnect" => connects = disconnects
    /\ g = "teardown" /\ was => connects = disconnects + 1
    /\ g = "teardown" /\ ~was => connects = disconnects
    /\ g \notin {"onconnect", "teardown"} /\ connected => connects = disconnects + 1
    /\ g \notin {"onconnect", "teardown"} /\ ~connected => connects = disconnects

\* The only connection that can be open is the one the goroutine works on, and
\* it holds none when it dials.
ConnInv ==
    \A k \in Conns :
        conState[k] = "open" =>
            k = gconn /\ g \notin {"none", "attempt", "dial", "teardown"}

\* A connection was announced before anything could count as a repair.
FirstInv ==
    /\ g \in {"arm", "watch", "teardown"} => connects > 0
    /\ ~initial => connects > 0
    /\ g = "ended" => connects > 0 \/ life = "done"

LinkInv == TypeOK /\ OrderInv /\ HookInv /\ ConnInv /\ FirstInv

LEMMA LinkInit == Init => LinkInv /\ Cycle!Init
<1> SUFFICES ASSUME Init PROVE LinkInv /\ Cycle!Init
  OBVIOUS
<1>1. TypeOK
  BY TypeInit
<1>2. OrderInv /\ HookInv /\ ConnInv /\ FirstInv
  BY DEF Init, OrderInv, HookInv, ConnInv, FirstInv, Unlinked
<1>3. Cycle!Init
  BY DEF Init, Cycle!Init
<1> QED
  BY <1>1, <1>2, <1>3 DEF LinkInv

\* What the steps that concern none of this leave alone.
Untouched == UNCHANGED <<started, g, gconn, initial, was, connected, s, life,
                         connects, disconnects>>

LEMMA QuietSteps ==
    ASSUME LinkInv, Untouched,
           \A k \in Conns : conState'[k] = "open" => conState[k] = "open"
    PROVE  OrderInv' /\ HookInv' /\ ConnInv' /\ FirstInv' /\ UNCHANGED Cycle!vars
<1>1. UNCHANGED Cycle!vars
  BY DEF Untouched, Cycle!vars
<1>2. OrderInv' /\ HookInv'
  BY DEF LinkInv, Untouched, OrderInv, HookInv, Unlinked
<1>3. ConnInv' /\ FirstInv'
  BY DEF LinkInv, Untouched, ConnInv, FirstInv
<1> QED
  BY <1>1, <1>2, <1>3

LEMMA QuietActions ==
    ASSUME LinkInv,
           \/ DrainCall
           \/ \E r \in Receivers : DrainReceiver(r)
           \/ \E e \in Endpoints :
                 \/ CleanupDetach(e) \/ TeardownDetach(e)
                 \/ \E p \in Stoppers : StopDetach(p, e)
           \/ DialFails
           \/ \E ch \in Chans : WatcherStep(ch) \/ ChanDies(ch)
           \/ \E k \in Conns : ConnDies(k)
           \/ UNCHANGED vars
    PROVE  /\ Untouched
           /\ \A k \in Conns : conState'[k] = "open" => conState[k] = "open"
<1> USE DEF Untouched, flags, link, gvars, ends, amqp, wvars, svars, hooks
<1>1. ASSUME DrainCall \/ DialFails \/ UNCHANGED vars
      PROVE Untouched /\ UNCHANGED conState
  BY <1>1 DEF DrainCall, DialFails, vars
<1>2. ASSUME NEW r \in Receivers, DrainReceiver(r)
      PROVE Untouched /\ UNCHANGED conState
  BY <1>2 DEF DrainReceiver
<1>3. ASSUME NEW e \in Endpoints,
             \/ CleanupDetach(e) \/ TeardownDetach(e)
             \/ \E p \in Stoppers : StopDetach(p, e)
      PROVE Untouched /\ UNCHANGED conState
  BY <1>3 DEF CleanupDetach, TeardownDetach, StopDetach
<1>4. ASSUME NEW ch \in Chans, WatcherStep(ch) \/ ChanDies(ch)
      PROVE Untouched /\ UNCHANGED conState
  BY <1>4 DEF WatcherStep, WatcherArm, WatcherExit, WatcherNotified, RecoverRead,
              RecoverStop, RecoverOpen, RecoverOpenFails, RecoverCheck,
              RecoverInstall, RecoverCommit, ChanDies
<1>5. ASSUME NEW k \in Conns, ConnDies(k)
      PROVE  /\ Untouched
             /\ \A j \in Conns : conState'[j] = "open" => conState[j] = "open"
  BY <1>5 DEF ConnDies, KillConn, LinkInv, TypeOK
<1> QED
  BY <1>1, <1>2, <1>3, <1>4, <1>5

\* A step of the client keeps the invariant and is a step of Hooks, or none.
LEMMA LinkStep ==
    ASSUME LinkInv, [Next]_vars
    PROVE  /\ OrderInv' /\ HookInv' /\ ConnInv' /\ FirstInv'
           /\ [Cycle!Next]_(Cycle!vars)
<1> DEFINE Good == /\ OrderInv' /\ HookInv' /\ ConnInv' /\ FirstInv'
                   /\ [Cycle!Next]_(Cycle!vars)
<1> USE DEF LinkInv, TypeOK, OrderInv, HookInv, ConnInv, FirstInv, Unlinked, Cycle!vars,
            flags, link, gvars, ends, amqp, wvars, svars, hooks
<1>1. ASSUME Start PROVE Good
  <2>1. OrderInv' /\ HookInv'
    BY <1>1 DEF Start
  <2>2. ConnInv' /\ FirstInv'
    BY <1>1 DEF Start
  <2>3. UNCHANGED Cycle!vars
    BY <1>1 DEF Start
  <2> QED
    BY <2>1, <2>2, <2>3
<1>2. ASSUME HostCancels PROVE Good
  <2>1. OrderInv' /\ HookInv'
    BY <1>2 DEF HostCancels
  <2>2. ConnInv' /\ FirstInv'
    BY <1>2 DEF HostCancels
  <2>3. UNCHANGED Cycle!vars
    BY <1>2 DEF HostCancels
  <2> QED
    BY <2>1, <2>2, <2>3
<1>3. ASSUME Attempt PROVE Good
  <2>1. OrderInv' /\ HookInv'
    BY <1>3 DEF Attempt
  <2>2. ConnInv' /\ FirstInv'
    BY <1>3 DEF Attempt
  <2>3. UNCHANGED Cycle!vars
    BY <1>3 DEF Attempt
  <2> QED
    BY <2>1, <2>2, <2>3
<1>4. ASSUME DialCancelled PROVE Good
  <2>1. OrderInv' /\ HookInv'
    BY <1>4 DEF DialCancelled
  <2>2. ConnInv' /\ FirstInv'
    BY <1>4 DEF DialCancelled
  <2>3. UNCHANGED Cycle!vars
    BY <1>4 DEF DialCancelled
  <2> QED
    BY <2>1, <2>2, <2>3
<1>5. ASSUME Backoff PROVE Good
  <2>1. OrderInv' /\ HookInv'
    BY <1>5 DEF Backoff
  <2>2. ConnInv' /\ FirstInv'
    BY <1>5 DEF Backoff
  <2>3. UNCHANGED Cycle!vars
    BY <1>5 DEF Backoff
  <2> QED
    BY <2>1, <2>2, <2>3
<1>6. ASSUME NEW k \in Conns, DialSucceeds(k) PROVE Good
  <2>1. OrderInv' /\ HookInv'
    BY <1>6 DEF DialSucceeds
  <2>2. ConnInv' /\ FirstInv'
    BY <1>6 DEF DialSucceeds
  <2>3. UNCHANGED Cycle!vars
    BY <1>6 DEF DialSucceeds
  <2> QED
    BY <2>1, <2>2, <2>3
<1>7. ASSUME NEW e \in Endpoints, NEW ch \in Chans, SetupReceiver(e, ch) PROVE Good
  <2>1. OrderInv' /\ HookInv'
    BY <1>7 DEF SetupReceiver, OpenChannel
  <2>2. ConnInv' /\ FirstInv'
    BY <1>7 DEF SetupReceiver, OpenChannel
  <2>3. UNCHANGED Cycle!vars
    BY <1>7 DEF SetupReceiver
  <2> QED
    BY <2>1, <2>2, <2>3
<1>8. ASSUME SetupDecide PROVE Good
  <2>1. OrderInv' /\ HookInv'
    BY <1>8 DEF SetupDecide
  <2>2. ConnInv' /\ FirstInv'
    BY <1>8 DEF SetupDecide
  <2>3. UNCHANGED Cycle!vars
    BY <1>8 DEF SetupDecide
  <2> QED
    BY <2>1, <2>2, <2>3
<1>9. ASSUME SetupStart PROVE Good
  <2>1. OrderInv' /\ HookInv'
    BY <1>9 DEF SetupStart
  <2>2. ConnInv' /\ FirstInv'
    BY <1>9 DEF SetupStart
  <2>3. UNCHANGED Cycle!vars
    BY <1>9 DEF SetupStart
  <2> QED
    BY <2>1, <2>2, <2>3
<1>10. ASSUME SetupFails PROVE Good
  <2>1. OrderInv' /\ HookInv'
    BY <1>10 DEF SetupFails
  <2>2. ConnInv' /\ FirstInv'
    BY <1>10 DEF SetupFails
  <2>3. UNCHANGED Cycle!vars
    BY <1>10 DEF SetupFails
  <2> QED
    BY <2>1, <2>2, <2>3
<1>11. ASSUME CleanupClose PROVE Good
  <2>1. OrderInv' /\ HookInv'
    BY <1>11 DEF CleanupClose, KillConn
  <2>2. ConnInv' /\ FirstInv'
    BY <1>11 DEF CleanupClose, KillConn
  <2>3. UNCHANGED Cycle!vars
    BY <1>11 DEF CleanupClose
  <2> QED
    BY <2>1, <2>2, <2>3
<1>12. ASSUME SpawnWatchers PROVE Good
  <2>1. OrderInv' /\ HookInv'
    BY <1>12 DEF SpawnWatchers
  <2>2. ConnInv' /\ FirstInv'
    BY <1>12 DEF SpawnWatchers
  <2>3. UNCHANGED Cycle!vars
    BY <1>12 DEF SpawnWatchers
  <2> QED
    BY <2>1, <2>2, <2>3
<1>13. ASSUME Publish PROVE Good
  <2>1. OrderInv' /\ HookInv'
    BY <1>13 DEF Publish
  <2>2. ConnInv' /\ FirstInv'
    BY <1>13 DEF Publish
  <2>3. UNCHANGED Cycle!vars
    BY <1>13 DEF Publish
  <2> QED
    BY <2>1, <2>2, <2>3
<1>14. ASSUME OnConnect PROVE Good
  <2>1. OrderInv' /\ HookInv'
    BY <1>14 DEF OnConnect
  <2>2. ConnInv' /\ FirstInv'
    BY <1>14 DEF OnConnect
  <2>3. [Cycle!Next]_(Cycle!vars)
    BY <1>14 DEF OnConnect, Cycle!Next, Cycle!OnConnect
  <2> QED
    BY <2>1, <2>2, <2>3
<1>15. ASSUME Arm PROVE Good
  <2>1. OrderInv' /\ HookInv'
    BY <1>15 DEF Arm
  <2>2. ConnInv' /\ FirstInv'
    BY <1>15 DEF Arm
  <2>3. UNCHANGED Cycle!vars
    BY <1>15 DEF Arm
  <2> QED
    BY <2>1, <2>2, <2>3
<1>16. ASSUME WatchCancelled PROVE Good
  <2>1. OrderInv' /\ HookInv'
    BY <1>16 DEF WatchCancelled
  <2>2. ConnInv' /\ FirstInv'
    BY <1>16 DEF WatchCancelled
  <2>3. UNCHANGED Cycle!vars
    BY <1>16 DEF WatchCancelled
  <2> QED
    BY <2>1, <2>2, <2>3
<1>17. ASSUME Disconnected PROVE Good
  <2>1. OrderInv' /\ HookInv'
    BY <1>17 DEF Disconnected
  <2>2. ConnInv' /\ FirstInv'
    BY <1>17 DEF Disconnected
  <2>3. UNCHANGED Cycle!vars
    BY <1>17 DEF Disconnected
  <2> QED
    BY <2>1, <2>2, <2>3
<1>18. ASSUME OnDisconnect PROVE Good
  <2>1. OrderInv' /\ HookInv'
    BY <1>18 DEF OnDisconnect
  <2>2. ConnInv' /\ FirstInv'
    BY <1>18 DEF OnDisconnect
  <2>3. [Cycle!Next]_(Cycle!vars)
    BY <1>18 DEF OnDisconnect, Cycle!Next, Cycle!OnDisconnect
  <2> QED
    BY <2>1, <2>2, <2>3
<1>19. ASSUME NEW p \in Stoppers, StopCall(p) PROVE Good
  <2>1. OrderInv' /\ HookInv'
    BY <1>19 DEF StopCall
  <2>2. ConnInv' /\ FirstInv'
    BY <1>19 DEF StopCall
  <2>3. UNCHANGED Cycle!vars
    BY <1>19 DEF StopCall
  <2> QED
    BY <2>1, <2>2, <2>3
<1>20. ASSUME NEW p \in Stoppers, StopCancel(p) PROVE Good
  <2>1. OrderInv' /\ HookInv'
    BY <1>20 DEF StopCancel
  <2>2. ConnInv' /\ FirstInv'
    BY <1>20 DEF StopCancel
  <2>3. UNCHANGED Cycle!vars
    BY <1>20 DEF StopCancel
  <2> QED
    BY <2>1, <2>2, <2>3
<1>21. ASSUME NEW p \in Stoppers, StopWait(p) PROVE Good
  <2>1. OrderInv' /\ HookInv'
    BY <1>21 DEF StopWait
  <2>2. ConnInv' /\ FirstInv'
    BY <1>21 DEF StopWait
  <2>3. UNCHANGED Cycle!vars
    BY <1>21 DEF StopWait
  <2> QED
    BY <2>1, <2>2, <2>3
<1>22. ASSUME NEW p \in Stoppers, StopOnDisconnect(p) PROVE Good
  <2>1. OrderInv' /\ HookInv'
    BY <1>22 DEF StopOnDisconnect
  <2>2. ConnInv' /\ FirstInv'
    BY <1>22 DEF StopOnDisconnect
  <2>3. [Cycle!Next]_(Cycle!vars)
    BY <1>22 DEF StopOnDisconnect, Cycle!Next, Cycle!OnDisconnect
  <2> QED
    BY <2>1, <2>2, <2>3
<1>23. ASSUME NEW p \in Stoppers, StopClose(p) PROVE Good
  <2>1. OrderInv' /\ HookInv'
    BY <1>23 DEF StopClose, KillConn
  <2>2. ConnInv' /\ FirstInv'
    BY <1>23 DEF StopClose, KillConn
  <2>3. [Cycle!Next]_(Cycle!vars)
    BY <1>23 DEF StopClose, KillConn, Cycle!Next, Cycle!Close
  <2> QED
    BY <2>1, <2>2, <2>3
<1>24. ASSUME Untouched,
              \A k \in Conns : conState'[k] = "open" => conState[k] = "open"
       PROVE  Good
  BY <1>24, QuietSteps
<1>25. ASSUME NEW e \in Endpoints, NEW ch \in Chans, SetupSender(e, ch) PROVE Good
  <2>1. OrderInv' /\ HookInv'
    BY <1>25 DEF SetupSender, OpenChannel
  <2>2. ConnInv' /\ FirstInv'
    BY <1>25 DEF SetupSender, OpenChannel
  <2>3. UNCHANGED Cycle!vars
    BY <1>25 DEF SetupSender
  <2> QED
    BY <2>1, <2>2, <2>3
<1>26. ASSUME SetupAttach PROVE Good
  <2>1. OrderInv' /\ HookInv'
    BY <1>26 DEF SetupAttach
  <2>2. ConnInv' /\ FirstInv'
    BY <1>26 DEF SetupAttach
  <2>3. UNCHANGED Cycle!vars
    BY <1>26 DEF SetupAttach
  <2> QED
    BY <2>1, <2>2, <2>3
<1> QED
  BY <1>1, <1>2, <1>3, <1>4, <1>5, <1>6, <1>7, <1>8, <1>9, <1>10, <1>11, <1>12, <1>13, <1>14, <1>15, <1>16, <1>17, <1>18, <1>19, <1>20, <1>21, <1>22, <1>23, <1>24, <1>25, <1>26,
     QuietActions
  DEF Next, ConnectStep, StopStep

LEMMA LinkAlways == Spec => []LinkInv
<1>1. Init => LinkInv
  BY LinkInit
<1>2. LinkInv /\ [Next]_vars => LinkInv'
  BY LinkStep, TypeStep DEF LinkInv
<1> QED
  BY <1>1, <1>2, PTL DEF Spec

\* The OnConnect and OnDisconnect calls of the connect goroutine,
\* handleDisconnect and Stop implement Hooks: strict alternation, balanced when
\* Stop returns, silent afterwards, through any drops, failures and races.
THEOREM HooksAlternate == Spec => HookCycles
<1>1. Init => Cycle!Init
  BY LinkInit
<1>2. LinkInv /\ [Next]_vars => [Cycle!Next]_(Cycle!vars)
  BY LinkStep
<1> QED
  BY <1>1, <1>2, LinkAlways, PTL DEF Spec, HookCycles, Cycle!Spec

\* connect and setupChannels never leave two connections open.
THEOREM AtMostOneConnection == Spec => []OneConnection
<1>1. LinkInv => OneConnection
  BY DEF LinkInv, ConnInv, OneConnection
<1> QED
  BY <1>1, LinkAlways, PTL

\* MaxReconnectAttempts never ends the first connect; only the context does.
THEOREM FirstConnectNeverGivesUp == Spec => []FirstConnectPersists
<1>1. LinkInv => FirstConnectPersists
  BY DEF LinkInv, TypeOK, FirstInv, FirstConnectPersists
<1> QED
  BY <1>1, LinkAlways, PTL

-----------------------------------------------------------------------------
(* Channels, watchers and what Stop leaves behind *)

\* Where the goroutine stands between a dial and the announcement.
SetupPcs == {"setup", "attach", "decide", "start", "cleanup", "publish"}

Active == {"cancel", "wait", "receivers", "senders", "done"}

\* One Stop call does the work; once it returned, nothing is open.
StopInv ==
    /\ \A p \in Stoppers : s[p] \in Active => stopping
    /\ \A p, q \in Stoppers : s[p] \in Active /\ s[q] \in Active => p = q
    /\ \A p \in Stoppers : s[p] = "receivers" => Senders \subseteq stodo
    /\ \A p \in Stoppers : s[p] = "done" =>
          stodo = {} /\ \A k \in Conns : conState[k] # "open"

\* The connection the client publishes is the one the goroutine works on.
CurrentInv ==
    /\ g \in SetupPcs \cup {"onconnect", "arm", "watch", "teardown"} =>
          gconn \in Conns /\ conState[gconn] # "unused"
    /\ g \in {"onconnect", "arm", "watch", "teardown"} => conn = gconn
    /\ connected => conn = gconn /\ conn \in Conns
    /\ conn \in Conns => conState[conn] # "unused"
    /\ g = "ended" => \A k \in Conns : conState[k] = "open" => k = conn

\* A channel belongs to a connection, is open only while that is, and has no
\* watcher before it was opened.
ChanInv ==
    /\ \A ch \in Chans :
          /\ chState[ch] = "unused" => chConn[ch] = None /\ w[ch] = "none"
          /\ chState[ch] # "unused" =>
                chConn[ch] \in Conns /\ conState[chConn[ch]] # "unused"
          /\ chState[ch] = "open" => conState[chConn[ch]] = "open"
    /\ \A e \in Endpoints : slot[e] # None => chState[slot[e]] # "unused"

\* The channels of a connection that is being set up have no watcher yet.
SetupInv ==
    /\ g \in {"attach", "decide", "start"} =>
          gch \in Chans /\ chConn[gch] = gconn /\ chState[gch] # "unused"
    /\ g \in {"setup", "attach", "decide", "start"} =>
          \A ch \in Chans : chConn[ch] = gconn => w[ch] = "none"

\* A recovery works on a connection that was current when it began, never on
\* one that is still being set up.
RecoverOn(ch) ==
    w[ch] \in {"stop", "decline", "open", "check", "install", "commit"} =>
        /\ wconn[ch] \in Conns /\ conState[wconn[ch]] # "unused"
        /\ g \in SetupPcs => wconn[ch] # gconn

Reopened(ch) == w[ch] \in {"check", "install", "commit"}

\* The channel a recovery opened is its own, and has no watcher before the
\* recovery commits.
RecoverInv ==
    /\ \A ch \in Chans : RecoverOn(ch)
    /\ \A ch \in Chans : Reopened(ch) =>
          /\ wnew[ch] \in Chans /\ chState[wnew[ch]] # "unused"
          /\ chConn[wnew[ch]] = wconn[ch] /\ w[wnew[ch]] = "none"
    /\ \A x, y \in Chans : Reopened(x) /\ Reopened(y) /\ wnew[x] = wnew[y] => x = y

\* A recovery of e that is about to find its connection replaced, and to take
\* the channel away again.
Undoing(e, k) ==
    \E ch \in Chans : /\ w[ch] = "commit" /\ chEnd[ch] = e /\ wconn[ch] = k
                      /\ ~(connected /\ conn = k)

\* An endpoint holds a channel of the connection in use, or one that a teardown
\* or the recovery that installed it is about to take away.
SlotInv ==
    \A e \in Endpoints : slot[e] # None =>
        \/ /\ g \notin {"none", "attempt", "dial"}
           /\ chConn[slot[e]] = gconn
           /\ g \in {"cleanup", "teardown"} => e \in todo
        \/ Undoing(e, chConn[slot[e]])

\* Once Stop has taken connected back, a sender it detached gets a channel only
\* from a recovery that will notice.
DetachInv ==
    (\E p \in Stoppers : s[p] \in {"senders", "done"}) =>
        \A e \in Senders : slot[e] # None =>
            e \in stodo \/ \E ch \in Chans : w[ch] = "commit" /\ chEnd[ch] = e

AttachInv ==
    /\ StopInv /\ CurrentInv /\ ChanInv /\ SetupInv /\ RecoverInv
    /\ SlotInv /\ DetachInv

\* One Stop at work, and nothing open behind it.
LEMMA StopKept == LinkInv /\ AttachInv /\ [Next]_vars => StopInv'
<1> SUFFICES ASSUME LinkInv, AttachInv PROVE [Next]_vars => StopInv'
  OBVIOUS
<1> DEFINE Same == UNCHANGED <<s, stopping, stodo, conState>>
<1> USE EndpointsAssumption DEF LinkInv, TypeOK, OrderInv, ConnInv, AttachInv,
    CurrentInv, StopInv, Active, Endpoints, flags, link, gvars, ends, amqp, wvars,
    svars, hooks
<1>1. ASSUME CleanupClose PROVE StopInv'
  BY <1>1 DEF CleanupClose, KillConn
<1>2. ASSUME NEW k \in Conns, DialSucceeds(k) PROVE StopInv'
  BY <1>2 DEF DialSucceeds
<1>3. ASSUME NEW k \in Conns, ConnDies(k) PROVE StopInv'
  BY <1>3 DEF ConnDies, KillConn
<1>4. ASSUME NEW p \in Stoppers, StopCall(p) PROVE StopInv'
  BY <1>4 DEF StopCall
<1>5. ASSUME NEW p \in Stoppers, StopCancel(p) PROVE StopInv'
  BY <1>5 DEF StopCancel
<1>6. ASSUME NEW p \in Stoppers, StopWait(p) PROVE StopInv'
  BY <1>6 DEF StopWait
<1>7. ASSUME NEW p \in Stoppers, StopOnDisconnect(p) PROVE StopInv'
  BY <1>7 DEF StopOnDisconnect
<1>8. ASSUME NEW p \in Stoppers, StopClose(p) PROVE StopInv'
  <2>1. /\ s[p] = "senders" /\ stodo = {} /\ UNCHANGED <<stopping, stodo>>
        /\ s' = [s EXCEPT ![p] = "done"] /\ g = "ended"
    BY <1>8 DEF StopClose
  <2>2. \A k \in Conns : conState'[k] # "open"
    <3>1. CASE conn = None
      BY <1>8, <2>1, <3>1, NilAssumption DEF StopClose
    <3>2. CASE conn # None
      BY <1>8, <2>1, <3>2 DEF StopClose, KillConn
    <3> QED BY <3>1, <3>2
  <2> QED
    BY <2>1, <2>2
<1>9. ASSUME NEW p \in Stoppers, NEW e \in Endpoints, StopDetach(p, e) PROVE StopInv'
  BY <1>9 DEF StopDetach, Detach
<1>10. ASSUME Same PROVE StopInv'
  BY <1>10
<1>11. ASSUME \/ Start \/ HostCancels \/ DrainCall \/ Attempt \/ DialCancelled
              \/ DialFails \/ Backoff \/ SetupAttach \/ SetupDecide \/ SetupStart
              \/ SetupFails \/ SpawnWatchers \/ Publish \/ OnConnect \/ Arm
              \/ WatchCancelled \/ Disconnected \/ OnDisconnect \/ UNCHANGED vars
       PROVE  StopInv'
  BY <1>11, <1>10 DEF Start, HostCancels, DrainCall, Attempt, DialCancelled,
       DialFails, Backoff, SetupAttach, SetupDecide, SetupStart, SetupFails,
       SpawnWatchers, Publish, OnConnect, Arm, WatchCancelled, Disconnected,
       OnDisconnect, vars
<1>12. ASSUME NEW r \in Receivers,
              DrainReceiver(r)
       PROVE  StopInv'
  BY <1>12, <1>10 DEF DrainReceiver
<1>13. ASSUME NEW e \in Endpoints,
              \/ CleanupDetach(e) \/ TeardownDetach(e)
       PROVE  StopInv'
  BY <1>13, <1>10 DEF CleanupDetach, TeardownDetach
<1>14. ASSUME NEW e \in Endpoints, NEW ch \in Chans,
              \/ SetupSender(e, ch) \/ SetupReceiver(e, ch)
       PROVE  StopInv'
  BY <1>14, <1>10 DEF SetupSender, SetupReceiver
<1>15. ASSUME NEW ch \in Chans,
              \/ WatcherArm(ch) \/ WatcherExit(ch) \/ WatcherNotified(ch)
              \/ RecoverRead(ch) \/ RecoverStop(ch) \/ RecoverOpenFails(ch)
              \/ RecoverCheck(ch) \/ RecoverInstall(ch) \/ RecoverCommit(ch)
              \/ ChanDies(ch)
       PROVE  StopInv'
  BY <1>15, <1>10 DEF WatcherArm, WatcherExit, WatcherNotified, RecoverRead,
       RecoverStop, RecoverOpenFails, RecoverCheck, RecoverInstall, RecoverCommit,
       ChanDies
<1>16. ASSUME NEW ch \in Chans, NEW n \in Chans,
              RecoverOpen(ch, n)
       PROVE  StopInv'
  BY <1>16, <1>10 DEF RecoverOpen
<1> QED
  BY <1>1, <1>2, <1>3, <1>4, <1>5, <1>6, <1>7, <1>8, <1>9, <1>10, <1>11, <1>12,
  <1>13, <1>14, <1>15, <1>16
  DEF Next, ConnectStep, WatcherStep, StopStep

\* The published connection follows the goroutine's.
LEMMA CurrentKept == LinkInv /\ AttachInv /\ [Next]_vars => CurrentInv'
<1> SUFFICES ASSUME LinkInv, AttachInv PROVE [Next]_vars => CurrentInv'
  OBVIOUS
<1> DEFINE Same == UNCHANGED <<g, gconn, conn, connected, conState>>
<1> USE NilAssumption DEF LinkInv, TypeOK, OrderInv, ConnInv, AttachInv,
    CurrentInv, SetupPcs, Unlinked, flags, link, gvars, ends, amqp, wvars, svars,
    hooks
<1>1. ASSUME Start PROVE CurrentInv'
  BY <1>1 DEF Start
<1>2. ASSUME Attempt PROVE CurrentInv'
  BY <1>2 DEF Attempt
<1>3. ASSUME DialCancelled PROVE CurrentInv'
  BY <1>3 DEF DialCancelled
<1>4. ASSUME Backoff PROVE CurrentInv'
  BY <1>4 DEF Backoff
<1>5. ASSUME SetupAttach PROVE CurrentInv'
  BY <1>5 DEF SetupAttach, SetChannel, Attach, Detach
<1>6. ASSUME SetupDecide PROVE CurrentInv'
  BY <1>6 DEF SetupDecide
<1>7. ASSUME SetupStart PROVE CurrentInv'
  BY <1>7 DEF SetupStart, Attach
<1>8. ASSUME SetupFails PROVE CurrentInv'
  BY <1>8 DEF SetupFails
<1>9. ASSUME CleanupClose PROVE CurrentInv'
  BY <1>9 DEF CleanupClose, KillConn
<1>10. ASSUME SpawnWatchers PROVE CurrentInv'
  BY <1>10 DEF SpawnWatchers
<1>11. ASSUME Publish PROVE CurrentInv'
  BY <1>11 DEF Publish
<1>12. ASSUME OnConnect PROVE CurrentInv'
  BY <1>12 DEF OnConnect
<1>13. ASSUME Arm PROVE CurrentInv'
  BY <1>13 DEF Arm
<1>14. ASSUME WatchCancelled PROVE CurrentInv'
  BY <1>14 DEF WatchCancelled
<1>15. ASSUME Disconnected PROVE CurrentInv'
  BY <1>15 DEF Disconnected
<1>16. ASSUME OnDisconnect PROVE CurrentInv'
  BY <1>16 DEF OnDisconnect
<1>17. ASSUME NEW k \in Conns, DialSucceeds(k) PROVE CurrentInv'
  BY <1>17 DEF DialSucceeds
<1>18. ASSUME NEW k \in Conns, ConnDies(k) PROVE CurrentInv'
  BY <1>18 DEF ConnDies, KillConn
<1>19. ASSUME NEW e \in Endpoints, NEW ch \in Chans, SetupSender(e, ch) PROVE CurrentInv'
  BY <1>19 DEF SetupSender, OpenChannel
<1>20. ASSUME NEW e \in Endpoints, NEW ch \in Chans, SetupReceiver(e, ch) PROVE CurrentInv'
  BY <1>20 DEF SetupReceiver, OpenChannel
<1>21. ASSUME NEW p \in Stoppers, StopOnDisconnect(p) PROVE CurrentInv'
  BY <1>21 DEF StopOnDisconnect
<1>22. ASSUME NEW p \in Stoppers, StopClose(p) PROVE CurrentInv'
  BY <1>22 DEF StopClose, KillConn
<1>23. ASSUME Same PROVE CurrentInv'
  BY <1>23
<1>24. ASSUME \/ HostCancels \/ DrainCall \/ DialFails \/ UNCHANGED vars
       PROVE  CurrentInv'
  BY <1>24, <1>23 DEF HostCancels, DrainCall, DialFails, vars
<1>25. ASSUME NEW r \in Receivers,
              DrainReceiver(r)
       PROVE  CurrentInv'
  BY <1>25, <1>23 DEF DrainReceiver
<1>26. ASSUME NEW e \in Endpoints,
              \/ CleanupDetach(e) \/ TeardownDetach(e)
       PROVE  CurrentInv'
  BY <1>26, <1>23 DEF CleanupDetach, TeardownDetach
<1>27. ASSUME NEW ch \in Chans,
              \/ WatcherArm(ch) \/ WatcherExit(ch) \/ WatcherNotified(ch)
              \/ RecoverRead(ch) \/ RecoverStop(ch) \/ RecoverOpenFails(ch)
              \/ RecoverCheck(ch) \/ RecoverInstall(ch) \/ RecoverCommit(ch)
              \/ ChanDies(ch)
       PROVE  CurrentInv'
  BY <1>27, <1>23 DEF WatcherArm, WatcherExit, WatcherNotified, RecoverRead,
       RecoverStop, RecoverOpenFails, RecoverCheck, RecoverInstall, RecoverCommit,
       ChanDies
<1>28. ASSUME NEW ch \in Chans, NEW n \in Chans,
              RecoverOpen(ch, n)
       PROVE  CurrentInv'
  BY <1>28, <1>23 DEF RecoverOpen
<1>29. ASSUME NEW p \in Stoppers,
              \/ StopCall(p) \/ StopCancel(p) \/ StopWait(p)
       PROVE  CurrentInv'
  BY <1>29, <1>23 DEF StopCall, StopCancel, StopWait
<1>30. ASSUME NEW p \in Stoppers, NEW e \in Endpoints,
              StopDetach(p, e)
       PROVE  CurrentInv'
  BY <1>30, <1>23 DEF StopDetach
<1> QED
  BY <1>1, <1>2, <1>3, <1>4, <1>5, <1>6, <1>7, <1>8, <1>9, <1>10, <1>11, <1>12,
  <1>13, <1>14, <1>15, <1>16, <1>17, <1>18, <1>19, <1>20, <1>21, <1>22, <1>23,
  <1>24, <1>25, <1>26, <1>27, <1>28, <1>29, <1>30
  DEF Next, ConnectStep, WatcherStep, StopStep

\* Channels live and die with their connection.
LEMMA ChanKept == LinkInv /\ AttachInv /\ [Next]_vars => ChanInv'
<1> SUFFICES ASSUME LinkInv, AttachInv PROVE [Next]_vars => ChanInv'
  OBVIOUS
<1> DEFINE Same == UNCHANGED <<chState, chConn, w, conState, slot>>
<1> USE NilAssumption DEF LinkInv, TypeOK, AttachInv, CurrentInv, ChanInv,
    SetupInv, RecoverInv, RecoverOn, Reopened, SetupPcs, flags, link, gvars, ends,
    amqp, wvars, svars, hooks
<1>1. ASSUME SetupAttach PROVE ChanInv'
  BY <1>1 DEF SetupAttach, SetChannel, Attach, Detach
<1>2. ASSUME SetupStart PROVE ChanInv'
  BY <1>2 DEF SetupStart, Attach
<1>3. ASSUME CleanupClose PROVE ChanInv'
  BY <1>3 DEF CleanupClose, KillConn
<1>4. ASSUME SpawnWatchers PROVE ChanInv'
  BY <1>4 DEF SpawnWatchers
<1>5. ASSUME NEW k \in Conns, DialSucceeds(k) PROVE ChanInv'
  BY <1>5 DEF DialSucceeds
<1>6. ASSUME NEW k \in Conns, ConnDies(k) PROVE ChanInv'
  BY <1>6 DEF ConnDies, KillConn
<1>7. ASSUME NEW e \in Endpoints, CleanupDetach(e) PROVE ChanInv'
  BY <1>7 DEF CleanupDetach, Detach
<1>8. ASSUME NEW e \in Endpoints, TeardownDetach(e) PROVE ChanInv'
  BY <1>8 DEF TeardownDetach, Detach
<1>9. ASSUME NEW e \in Endpoints, NEW ch \in Chans, SetupSender(e, ch) PROVE ChanInv'
  BY <1>9 DEF SetupSender, OpenChannel
<1>10. ASSUME NEW e \in Endpoints, NEW ch \in Chans, SetupReceiver(e, ch) PROVE ChanInv'
  BY <1>10 DEF SetupReceiver, OpenChannel
<1>11. ASSUME NEW ch \in Chans, WatcherArm(ch) PROVE ChanInv'
  BY <1>11 DEF WatcherArm
<1>12. ASSUME NEW ch \in Chans, WatcherExit(ch) PROVE ChanInv'
  BY <1>12 DEF WatcherExit
<1>13. ASSUME NEW ch \in Chans, WatcherNotified(ch) PROVE ChanInv'
  BY <1>13 DEF WatcherNotified
<1>14. ASSUME NEW ch \in Chans, RecoverRead(ch) PROVE ChanInv'
  BY <1>14 DEF RecoverRead
<1>15. ASSUME NEW ch \in Chans, RecoverStop(ch) PROVE ChanInv'
  BY <1>15 DEF RecoverStop, Detach
<1>16. ASSUME NEW ch \in Chans, RecoverOpenFails(ch) PROVE ChanInv'
  BY <1>16 DEF RecoverOpenFails
<1>17. ASSUME NEW ch \in Chans, RecoverCheck(ch) PROVE ChanInv'
  BY <1>17 DEF RecoverCheck, CloseChan
<1>18. ASSUME NEW ch \in Chans, RecoverInstall(ch) PROVE ChanInv'
  BY <1>18 DEF RecoverInstall, SetChannel, Attach, Detach, CloseChan
<1>19. ASSUME NEW ch \in Chans, RecoverCommit(ch) PROVE ChanInv'
  BY <1>19 DEF RecoverCommit, Detach, CloseChan
<1>20. ASSUME NEW ch \in Chans, ChanDies(ch) PROVE ChanInv'
  BY <1>20 DEF ChanDies
<1>21. ASSUME NEW ch \in Chans, NEW n \in Chans, RecoverOpen(ch, n) PROVE ChanInv'
  BY <1>21 DEF RecoverOpen, OpenChannel
<1>22. ASSUME NEW p \in Stoppers, StopClose(p) PROVE ChanInv'
  BY <1>22 DEF StopClose, KillConn
<1>23. ASSUME NEW p \in Stoppers, NEW e \in Endpoints, StopDetach(p, e) PROVE ChanInv'
  BY <1>23 DEF StopDetach, Detach
<1>24. ASSUME Same PROVE ChanInv'
  BY <1>24
<1>25. ASSUME \/ Start \/ HostCancels \/ DrainCall \/ Attempt \/ DialCancelled
              \/ DialFails \/ Backoff \/ SetupDecide \/ SetupFails \/ Publish
              \/ OnConnect \/ Arm \/ WatchCancelled \/ Disconnected
              \/ OnDisconnect \/ UNCHANGED vars
       PROVE  ChanInv'
  BY <1>25, <1>24 DEF Start, HostCancels, DrainCall, Attempt, DialCancelled,
       DialFails, Backoff, SetupDecide, SetupFails, Publish, OnConnect, Arm,
       WatchCancelled, Disconnected, OnDisconnect, vars
<1>26. ASSUME NEW r \in Receivers,
              DrainReceiver(r)
       PROVE  ChanInv'
  BY <1>26, <1>24 DEF DrainReceiver
<1>27. ASSUME NEW p \in Stoppers,
              \/ StopCall(p) \/ StopCancel(p) \/ StopWait(p)
              \/ StopOnDisconnect(p)
       PROVE  ChanInv'
  BY <1>27, <1>24 DEF StopCall, StopCancel, StopWait, StopOnDisconnect
<1> QED
  BY <1>1, <1>2, <1>3, <1>4, <1>5, <1>6, <1>7, <1>8, <1>9, <1>10, <1>11, <1>12,
  <1>13, <1>14, <1>15, <1>16, <1>17, <1>18, <1>19, <1>20, <1>21, <1>22, <1>23,
  <1>24, <1>25, <1>26, <1>27
  DEF Next, ConnectStep, WatcherStep, StopStep

\* A connection under construction has no watchers.
LEMMA SetupKept == LinkInv /\ AttachInv /\ [Next]_vars => SetupInv'
<1> SUFFICES ASSUME LinkInv, AttachInv PROVE [Next]_vars => SetupInv'
  OBVIOUS
<1> DEFINE Same == UNCHANGED <<g, gconn, gch, chConn, chState, w>>
<1> USE NilAssumption DEF LinkInv, TypeOK, OrderInv, AttachInv, CurrentInv,
    ChanInv, SetupInv, RecoverInv, RecoverOn, Reopened, SetupPcs, Unlinked, flags,
    link, gvars, ends, amqp, wvars, svars, hooks
<1>1. ASSUME Start PROVE SetupInv'
  BY <1>1 DEF Start
<1>2. ASSUME Attempt PROVE SetupInv'
  BY <1>2 DEF Attempt
<1>3. ASSUME DialCancelled PROVE SetupInv'
  BY <1>3 DEF DialCancelled
<1>4. ASSUME Backoff PROVE SetupInv'
  BY <1>4 DEF Backoff
<1>5. ASSUME SetupAttach PROVE SetupInv'
  BY <1>5 DEF SetupAttach, SetChannel, Attach, Detach
<1>6. ASSUME SetupDecide PROVE SetupInv'
  BY <1>6 DEF SetupDecide
<1>7. ASSUME SetupStart PROVE SetupInv'
  BY <1>7 DEF SetupStart, Attach
<1>8. ASSUME SetupFails PROVE SetupInv'
  BY <1>8 DEF SetupFails
<1>9. ASSUME CleanupClose PROVE SetupInv'
  BY <1>9 DEF CleanupClose, KillConn
<1>10. ASSUME SpawnWatchers PROVE SetupInv'
  BY <1>10 DEF SpawnWatchers
<1>11. ASSUME Publish PROVE SetupInv'
  BY <1>11 DEF Publish
<1>12. ASSUME OnConnect PROVE SetupInv'
  BY <1>12 DEF OnConnect
<1>13. ASSUME Arm PROVE SetupInv'
  BY <1>13 DEF Arm
<1>14. ASSUME WatchCancelled PROVE SetupInv'
  BY <1>14 DEF WatchCancelled
<1>15. ASSUME Disconnected PROVE SetupInv'
  BY <1>15 DEF Disconnected
<1>16. ASSUME OnDisconnect PROVE SetupInv'
  BY <1>16 DEF OnDisconnect
<1>17. ASSUME NEW k \in Conns, DialSucceeds(k) PROVE SetupInv'
  BY <1>17 DEF DialSucceeds
<1>18. ASSUME NEW k \in Conns, ConnDies(k) PROVE SetupInv'
  BY <1>18 DEF ConnDies, KillConn
<1>19. ASSUME NEW e \in Endpoints, NEW ch \in Chans, SetupSender(e, ch) PROVE SetupInv'
  BY <1>19 DEF SetupSender, OpenChannel
<1>20. ASSUME NEW e \in Endpoints, NEW ch \in Chans, SetupReceiver(e, ch) PROVE SetupInv'
  BY <1>20 DEF SetupReceiver, OpenChannel
<1>21. ASSUME NEW ch \in Chans, WatcherArm(ch) PROVE SetupInv'
  BY <1>21 DEF WatcherArm
<1>22. ASSUME NEW ch \in Chans, WatcherExit(ch) PROVE SetupInv'
  BY <1>22 DEF WatcherExit
<1>23. ASSUME NEW ch \in Chans, WatcherNotified(ch) PROVE SetupInv'
  BY <1>23 DEF WatcherNotified
<1>24. ASSUME NEW ch \in Chans, RecoverRead(ch) PROVE SetupInv'
  BY <1>24 DEF RecoverRead
<1>25. ASSUME NEW ch \in Chans, RecoverStop(ch) PROVE SetupInv'
  BY <1>25 DEF RecoverStop, Detach
<1>26. ASSUME NEW ch \in Chans, RecoverOpenFails(ch) PROVE SetupInv'
  BY <1>26 DEF RecoverOpenFails
<1>27. ASSUME NEW ch \in Chans, RecoverCheck(ch) PROVE SetupInv'
  BY <1>27 DEF RecoverCheck, CloseChan
<1>28. ASSUME NEW ch \in Chans, RecoverInstall(ch) PROVE SetupInv'
  BY <1>28 DEF RecoverInstall, SetChannel, Attach, Detach, CloseChan
<1>29. ASSUME NEW ch \in Chans, RecoverCommit(ch) PROVE SetupInv'
  BY <1>29 DEF RecoverCommit, Detach, CloseChan
<1>30. ASSUME NEW ch \in Chans, ChanDies(ch) PROVE SetupInv'
  BY <1>30 DEF ChanDies
<1>31. ASSUME NEW ch \in Chans, NEW n \in Chans, RecoverOpen(ch, n) PROVE SetupInv'
  BY <1>31 DEF RecoverOpen, OpenChannel
<1>32. ASSUME NEW p \in Stoppers, StopClose(p) PROVE SetupInv'
  BY <1>32 DEF StopClose, KillConn
<1>33. ASSUME Same PROVE SetupInv'
  BY <1>33
<1>34. ASSUME \/ HostCancels \/ DrainCall \/ DialFails \/ UNCHANGED vars
       PROVE  SetupInv'
  BY <1>34, <1>33 DEF HostCancels, DrainCall, DialFails, vars
<1>35. ASSUME NEW r \in Receivers,
              DrainReceiver(r)
       PROVE  SetupInv'
  BY <1>35, <1>33 DEF DrainReceiver
<1>36. ASSUME NEW e \in Endpoints,
              \/ CleanupDetach(e) \/ TeardownDetach(e)
       PROVE  SetupInv'
  BY <1>36, <1>33 DEF CleanupDetach, TeardownDetach
<1>37. ASSUME NEW p \in Stoppers,
              \/ StopCall(p) \/ StopCancel(p) \/ StopWait(p)
              \/ StopOnDisconnect(p)
       PROVE  SetupInv'
  BY <1>37, <1>33 DEF StopCall, StopCancel, StopWait, StopOnDisconnect
<1>38. ASSUME NEW p \in Stoppers, NEW e \in Endpoints,
              StopDetach(p, e)
       PROVE  SetupInv'
  BY <1>38, <1>33 DEF StopDetach
<1> QED
  BY <1>1, <1>2, <1>3, <1>4, <1>5, <1>6, <1>7, <1>8, <1>9, <1>10, <1>11, <1>12,
  <1>13, <1>14, <1>15, <1>16, <1>17, <1>18, <1>19, <1>20, <1>21, <1>22, <1>23,
  <1>24, <1>25, <1>26, <1>27, <1>28, <1>29, <1>30, <1>31, <1>32, <1>33, <1>34,
  <1>35, <1>36, <1>37, <1>38
  DEF Next, ConnectStep, WatcherStep, StopStep

\* Recoveries keep to the connection they read and the channel they opened.
LEMMA RecoverKept == LinkInv /\ AttachInv /\ [Next]_vars => RecoverInv'
<1> SUFFICES ASSUME LinkInv, AttachInv PROVE [Next]_vars => RecoverInv'
  OBVIOUS
<1> DEFINE Same == UNCHANGED <<g, gconn, conState, chConn, chState, w, wconn, wnew>>
<1> USE NilAssumption DEF LinkInv, TypeOK, OrderInv, AttachInv, CurrentInv,
    ChanInv, SetupInv, RecoverInv, RecoverOn, Reopened, SetupPcs, Unlinked, flags,
    link, gvars, ends, amqp, wvars, svars, hooks
<1>1. ASSUME Start PROVE RecoverInv'
  BY <1>1 DEF Start
<1>2. ASSUME Attempt PROVE RecoverInv'
  BY <1>2 DEF Attempt
<1>3. ASSUME DialCancelled PROVE RecoverInv'
  BY <1>3 DEF DialCancelled
<1>4. ASSUME Backoff PROVE RecoverInv'
  BY <1>4 DEF Backoff
<1>5. ASSUME SetupAttach PROVE RecoverInv'
  BY <1>5 DEF SetupAttach, SetChannel, Attach, Detach
<1>6. ASSUME SetupDecide PROVE RecoverInv'
  BY <1>6 DEF SetupDecide
<1>7. ASSUME SetupStart PROVE RecoverInv'
  BY <1>7 DEF SetupStart, Attach
<1>8. ASSUME SetupFails PROVE RecoverInv'
  BY <1>8 DEF SetupFails
<1>9. ASSUME CleanupClose PROVE RecoverInv'
  BY <1>9 DEF CleanupClose, KillConn
<1>10. ASSUME SpawnWatchers PROVE RecoverInv'
  BY <1>10 DEF SpawnWatchers
<1>11. ASSUME Publish PROVE RecoverInv'
  BY <1>11 DEF Publish
<1>12. ASSUME OnConnect PROVE RecoverInv'
  BY <1>12 DEF OnConnect
<1>13. ASSUME Arm PROVE RecoverInv'
  BY <1>13 DEF Arm
<1>14. ASSUME WatchCancelled PROVE RecoverInv'
  BY <1>14 DEF WatchCancelled
<1>15. ASSUME Disconnected PROVE RecoverInv'
  BY <1>15 DEF Disconnected
<1>16. ASSUME OnDisconnect PROVE RecoverInv'
  BY <1>16 DEF OnDisconnect
<1>17. ASSUME NEW k \in Conns, DialSucceeds(k) PROVE RecoverInv'
  BY <1>17 DEF DialSucceeds
<1>18. ASSUME NEW k \in Conns, ConnDies(k) PROVE RecoverInv'
  BY <1>18 DEF ConnDies, KillConn
<1>19. ASSUME NEW e \in Endpoints, NEW ch \in Chans, SetupSender(e, ch) PROVE RecoverInv'
  BY <1>19 DEF SetupSender, OpenChannel
<1>20. ASSUME NEW e \in Endpoints, NEW ch \in Chans, SetupReceiver(e, ch) PROVE RecoverInv'
  BY <1>20 DEF SetupReceiver, OpenChannel
<1>21. ASSUME NEW ch \in Chans, WatcherArm(ch) PROVE RecoverInv'
  BY <1>21 DEF WatcherArm
<1>22. ASSUME NEW ch \in Chans, WatcherExit(ch) PROVE RecoverInv'
  BY <1>22 DEF WatcherExit
<1>23. ASSUME NEW ch \in Chans, WatcherNotified(ch) PROVE RecoverInv'
  BY <1>23 DEF WatcherNotified
<1>24. ASSUME NEW ch \in Chans, RecoverRead(ch) PROVE RecoverInv'
  BY <1>24 DEF RecoverRead
<1>25. ASSUME NEW ch \in Chans, RecoverStop(ch) PROVE RecoverInv'
  BY <1>25 DEF RecoverStop, Detach
<1>26. ASSUME NEW ch \in Chans, RecoverOpenFails(ch) PROVE RecoverInv'
  BY <1>26 DEF RecoverOpenFails
<1>27. ASSUME NEW ch \in Chans, RecoverCheck(ch) PROVE RecoverInv'
  BY <1>27 DEF RecoverCheck, CloseChan
<1>28. ASSUME NEW ch \in Chans, RecoverInstall(ch) PROVE RecoverInv'
  BY <1>28 DEF RecoverInstall, SetChannel, Attach, Detach, CloseChan
<1>29. ASSUME NEW ch \in Chans, RecoverCommit(ch) PROVE RecoverInv'
  BY <1>29 DEF RecoverCommit, Detach, CloseChan
<1>30. ASSUME NEW ch \in Chans, ChanDies(ch) PROVE RecoverInv'
  BY <1>30 DEF ChanDies
<1>31. ASSUME NEW ch \in Chans, NEW n \in Chans, RecoverOpen(ch, n) PROVE RecoverInv'
  BY <1>31 DEF RecoverOpen, OpenChannel
<1>32. ASSUME NEW p \in Stoppers, StopClose(p) PROVE RecoverInv'
  BY <1>32 DEF StopClose, KillConn
<1>33. ASSUME Same PROVE RecoverInv'
  BY <1>33
<1>34. ASSUME \/ HostCancels \/ DrainCall \/ DialFails \/ UNCHANGED vars
       PROVE  RecoverInv'
  BY <1>34, <1>33 DEF HostCancels, DrainCall, DialFails, vars
<1>35. ASSUME NEW r \in Receivers,
              DrainReceiver(r)
       PROVE  RecoverInv'
  BY <1>35, <1>33 DEF DrainReceiver
<1>36. ASSUME NEW e \in Endpoints,
              \/ CleanupDetach(e) \/ TeardownDetach(e)
       PROVE  RecoverInv'
  BY <1>36, <1>33 DEF CleanupDetach, TeardownDetach
<1>37. ASSUME NEW p \in Stoppers,
              \/ StopCall(p) \/ StopCancel(p) \/ StopWait(p)
              \/ StopOnDisconnect(p)
       PROVE  RecoverInv'
  BY <1>37, <1>33 DEF StopCall, StopCancel, StopWait, StopOnDisconnect
<1>38. ASSUME NEW p \in Stoppers, NEW e \in Endpoints,
              StopDetach(p, e)
       PROVE  RecoverInv'
  BY <1>38, <1>33 DEF StopDetach
<1> QED
  BY <1>1, <1>2, <1>3, <1>4, <1>5, <1>6, <1>7, <1>8, <1>9, <1>10, <1>11, <1>12,
  <1>13, <1>14, <1>15, <1>16, <1>17, <1>18, <1>19, <1>20, <1>21, <1>22, <1>23,
  <1>24, <1>25, <1>26, <1>27, <1>28, <1>29, <1>30, <1>31, <1>32, <1>33, <1>34,
  <1>35, <1>36, <1>37, <1>38
  DEF Next, ConnectStep, WatcherStep, StopStep

\* No endpoint keeps a channel of an earlier connection for good.
LEMMA SlotKept == LinkInv /\ AttachInv /\ [Next]_vars => SlotInv'
<1> SUFFICES ASSUME LinkInv, AttachInv PROVE [Next]_vars => SlotInv'
  OBVIOUS
<1> DEFINE Same == UNCHANGED <<slot, g, gconn, todo, chConn, chEnd, w, wconn, connected, conn>>
<1> USE NilAssumption DEF LinkInv, TypeOK, OrderInv, AttachInv, CurrentInv,
    ChanInv, SetupInv, RecoverInv, RecoverOn, Reopened, SlotInv, Undoing, SetupPcs,
    Unlinked, flags, link, gvars, ends, amqp, wvars, svars, hooks
<1>1. ASSUME Start PROVE SlotInv'
  BY <1>1 DEF Start
<1>2. ASSUME Attempt PROVE SlotInv'
  BY <1>2 DEF Attempt
<1>3. ASSUME DialCancelled PROVE SlotInv'
  BY <1>3 DEF DialCancelled
<1>4. ASSUME Backoff PROVE SlotInv'
  BY <1>4 DEF Backoff
<1>5. ASSUME SetupAttach PROVE SlotInv'
  BY <1>5 DEF SetupAttach, SetChannel, Attach, Detach
<1>6. ASSUME SetupDecide PROVE SlotInv'
  BY <1>6 DEF SetupDecide
<1>7. ASSUME SetupStart PROVE SlotInv'
  BY <1>7 DEF SetupStart, Attach
<1>8. ASSUME SetupFails PROVE SlotInv'
  BY <1>8 DEF SetupFails
<1>9. ASSUME CleanupClose PROVE SlotInv'
  BY <1>9 DEF CleanupClose, KillConn
<1>10. ASSUME SpawnWatchers PROVE SlotInv'
  BY <1>10 DEF SpawnWatchers
<1>11. ASSUME Publish PROVE SlotInv'
  BY <1>11 DEF Publish
<1>12. ASSUME OnConnect PROVE SlotInv'
  BY <1>12 DEF OnConnect
<1>13. ASSUME Arm PROVE SlotInv'
  BY <1>13 DEF Arm
<1>14. ASSUME WatchCancelled PROVE SlotInv'
  BY <1>14 DEF WatchCancelled
<1>15. ASSUME Disconnected PROVE SlotInv'
  BY <1>15 DEF Disconnected
<1>16. ASSUME OnDisconnect PROVE SlotInv'
  BY <1>16 DEF OnDisconnect
<1>17. ASSUME NEW k \in Conns, DialSucceeds(k) PROVE SlotInv'
  BY <1>17 DEF DialSucceeds
<1>18. ASSUME NEW e \in Endpoints, CleanupDetach(e) PROVE SlotInv'
  BY <1>18 DEF CleanupDetach, Detach
<1>19. ASSUME NEW e \in Endpoints, TeardownDetach(e) PROVE SlotInv'
  BY <1>19 DEF TeardownDetach, Detach
<1>20. ASSUME NEW e \in Endpoints, NEW ch \in Chans, SetupSender(e, ch) PROVE SlotInv'
  BY <1>20 DEF SetupSender, OpenChannel
<1>21. ASSUME NEW e \in Endpoints, NEW ch \in Chans, SetupReceiver(e, ch) PROVE SlotInv'
  BY <1>21 DEF SetupReceiver, OpenChannel
<1>22. ASSUME NEW ch \in Chans, WatcherArm(ch) PROVE SlotInv'
  BY <1>22 DEF WatcherArm
<1>23. ASSUME NEW ch \in Chans, WatcherExit(ch) PROVE SlotInv'
  BY <1>23 DEF WatcherExit
<1>24. ASSUME NEW ch \in Chans, WatcherNotified(ch) PROVE SlotInv'
  BY <1>24 DEF WatcherNotified
<1>25. ASSUME NEW ch \in Chans, RecoverRead(ch) PROVE SlotInv'
  BY <1>25 DEF RecoverRead
<1>26. ASSUME NEW ch \in Chans, RecoverStop(ch) PROVE SlotInv'
  BY <1>26 DEF RecoverStop, Detach
<1>27. ASSUME NEW ch \in Chans, RecoverOpenFails(ch) PROVE SlotInv'
  BY <1>27 DEF RecoverOpenFails
<1>28. ASSUME NEW ch \in Chans, RecoverCheck(ch) PROVE SlotInv'
  BY <1>28 DEF RecoverCheck, CloseChan
<1>29. ASSUME NEW ch \in Chans, RecoverInstall(ch) PROVE SlotInv'
  BY <1>29 DEF RecoverInstall, SetChannel, Attach, Detach, CloseChan
<1>30. ASSUME NEW ch \in Chans, RecoverCommit(ch) PROVE SlotInv'
  BY <1>30 DEF RecoverCommit, Detach, CloseChan
<1>31. ASSUME NEW ch \in Chans, NEW n \in Chans, RecoverOpen(ch, n) PROVE SlotInv'
  BY <1>31 DEF RecoverOpen, OpenChannel
<1>32. ASSUME NEW p \in Stoppers, StopOnDisconnect(p) PROVE SlotInv'
  BY <1>32 DEF StopOnDisconnect
<1>33. ASSUME NEW p \in Stoppers, StopClose(p) PROVE SlotInv'
  BY <1>33 DEF StopClose, KillConn
<1>34. ASSUME NEW p \in Stoppers, NEW e \in Endpoints, StopDetach(p, e) PROVE SlotInv'
  BY <1>34 DEF StopDetach, Detach
<1>35. ASSUME Same PROVE SlotInv'
  BY <1>35
<1>36. ASSUME \/ HostCancels \/ DrainCall \/ DialFails \/ UNCHANGED vars
       PROVE  SlotInv'
  BY <1>36, <1>35 DEF HostCancels, DrainCall, DialFails, vars
<1>37. ASSUME NEW r \in Receivers,
              DrainReceiver(r)
       PROVE  SlotInv'
  BY <1>37, <1>35 DEF DrainReceiver
<1>38. ASSUME NEW k \in Conns,
              ConnDies(k)
       PROVE  SlotInv'
  BY <1>38, <1>35 DEF ConnDies
<1>39. ASSUME NEW ch \in Chans,
              ChanDies(ch)
       PROVE  SlotInv'
  BY <1>39, <1>35 DEF ChanDies
<1>40. ASSUME NEW p \in Stoppers,
              \/ StopCall(p) \/ StopCancel(p) \/ StopWait(p)
       PROVE  SlotInv'
  BY <1>40, <1>35 DEF StopCall, StopCancel, StopWait
<1> QED
  BY <1>1, <1>2, <1>3, <1>4, <1>5, <1>6, <1>7, <1>8, <1>9, <1>10, <1>11, <1>12,
  <1>13, <1>14, <1>15, <1>16, <1>17, <1>18, <1>19, <1>20, <1>21, <1>22, <1>23,
  <1>24, <1>25, <1>26, <1>27, <1>28, <1>29, <1>30, <1>31, <1>32, <1>33, <1>34,
  <1>35, <1>36, <1>37, <1>38, <1>39, <1>40
  DEF Next, ConnectStep, WatcherStep, StopStep

\* No sender Stop detached keeps a channel for good.
LEMMA DetachKept == LinkInv /\ AttachInv /\ [Next]_vars => DetachInv'
<1> SUFFICES ASSUME LinkInv, AttachInv PROVE [Next]_vars => DetachInv'
  OBVIOUS
<1> DEFINE Same == UNCHANGED <<s, slot, stodo, w, chEnd>>
<1> USE NilAssumption, EndpointsAssumption DEF LinkInv, TypeOK, OrderInv,
    AttachInv, ChanInv, StopInv, Active, DetachInv, Endpoints, flags, link, gvars,
    ends, amqp, wvars, svars, hooks
<1>1. ASSUME SetupAttach PROVE DetachInv'
  BY <1>1 DEF SetupAttach, SetChannel, Attach, Detach
<1>2. ASSUME SetupStart PROVE DetachInv'
  BY <1>2 DEF SetupStart, Attach
<1>3. ASSUME SpawnWatchers PROVE DetachInv'
  BY <1>3 DEF SpawnWatchers
<1>4. ASSUME NEW e \in Endpoints, CleanupDetach(e) PROVE DetachInv'
  BY <1>4 DEF CleanupDetach, Detach
<1>5. ASSUME NEW e \in Endpoints, TeardownDetach(e) PROVE DetachInv'
  BY <1>5 DEF TeardownDetach, Detach
<1>6. ASSUME NEW e \in Endpoints, NEW ch \in Chans, SetupSender(e, ch) PROVE DetachInv'
  BY <1>6 DEF SetupSender, OpenChannel
<1>7. ASSUME NEW e \in Endpoints, NEW ch \in Chans, SetupReceiver(e, ch) PROVE DetachInv'
  BY <1>7 DEF SetupReceiver, OpenChannel
<1>8. ASSUME NEW ch \in Chans, WatcherArm(ch) PROVE DetachInv'
  BY <1>8 DEF WatcherArm
<1>9. ASSUME NEW ch \in Chans, WatcherExit(ch) PROVE DetachInv'
  BY <1>9 DEF WatcherExit
<1>10. ASSUME NEW ch \in Chans, WatcherNotified(ch) PROVE DetachInv'
  BY <1>10 DEF WatcherNotified
<1>11. ASSUME NEW ch \in Chans, RecoverRead(ch) PROVE DetachInv'
  BY <1>11 DEF RecoverRead
<1>12. ASSUME NEW ch \in Chans, RecoverStop(ch) PROVE DetachInv'
  BY <1>12 DEF RecoverStop, Detach
<1>13. ASSUME NEW ch \in Chans, RecoverOpenFails(ch) PROVE DetachInv'
  BY <1>13 DEF RecoverOpenFails
<1>14. ASSUME NEW ch \in Chans, RecoverCheck(ch) PROVE DetachInv'
  BY <1>14 DEF RecoverCheck, CloseChan
<1>15. ASSUME NEW ch \in Chans, RecoverInstall(ch) PROVE DetachInv'
  BY <1>15 DEF RecoverInstall, SetChannel, Attach, Detach, CloseChan
<1>16. ASSUME NEW ch \in Chans, RecoverCommit(ch) PROVE DetachInv'
  BY <1>16 DEF RecoverCommit, Detach, CloseChan
<1>17. ASSUME NEW ch \in Chans, NEW n \in Chans, RecoverOpen(ch, n) PROVE DetachInv'
  BY <1>17 DEF RecoverOpen, OpenChannel
<1>18. ASSUME NEW p \in Stoppers, StopCall(p) PROVE DetachInv'
  BY <1>18 DEF StopCall
<1>19. ASSUME NEW p \in Stoppers, StopCancel(p) PROVE DetachInv'
  BY <1>19 DEF StopCancel
<1>20. ASSUME NEW p \in Stoppers, StopWait(p) PROVE DetachInv'
  BY <1>20 DEF StopWait
<1>21. ASSUME NEW p \in Stoppers, StopOnDisconnect(p) PROVE DetachInv'
  BY <1>21 DEF StopOnDisconnect
<1>22. ASSUME NEW p \in Stoppers, StopClose(p) PROVE DetachInv'
  BY <1>22 DEF StopClose, KillConn
<1>23. ASSUME NEW p \in Stoppers, NEW e \in Endpoints, StopDetach(p, e) PROVE DetachInv'
  BY <1>23 DEF StopDetach, Detach
<1>24. ASSUME Same PROVE DetachInv'
  BY <1>24
<1>25. ASSUME \/ Start \/ HostCancels \/ DrainCall \/ Attempt \/ DialCancelled
              \/ DialFails \/ Backoff \/ SetupDecide \/ SetupFails \/ CleanupClose
              \/ Publish \/ OnConnect \/ Arm \/ WatchCancelled \/ Disconnected
              \/ OnDisconnect \/ UNCHANGED vars
       PROVE  DetachInv'
  BY <1>25, <1>24 DEF Start, HostCancels, DrainCall, Attempt, DialCancelled,
       DialFails, Backoff, SetupDecide, SetupFails, CleanupClose, Publish, OnConnect,
       Arm, WatchCancelled, Disconnected, OnDisconnect, vars
<1>26. ASSUME NEW r \in Receivers,
              DrainReceiver(r)
       PROVE  DetachInv'
  BY <1>26, <1>24 DEF DrainReceiver
<1>27. ASSUME NEW k \in Conns,
              \/ DialSucceeds(k) \/ ConnDies(k)
       PROVE  DetachInv'
  BY <1>27, <1>24 DEF DialSucceeds, ConnDies
<1>28. ASSUME NEW ch \in Chans,
              ChanDies(ch)
       PROVE  DetachInv'
  BY <1>28, <1>24 DEF ChanDies
<1> QED
  BY <1>1, <1>2, <1>3, <1>4, <1>5, <1>6, <1>7, <1>8, <1>9, <1>10, <1>11, <1>12,
  <1>13, <1>14, <1>15, <1>16, <1>17, <1>18, <1>19, <1>20, <1>21, <1>22, <1>23,
  <1>24, <1>25, <1>26, <1>27, <1>28
  DEF Next, ConnectStep, WatcherStep, StopStep

LEMMA AttachAlways == Spec => []AttachInv
<1>1. Init => AttachInv
  <2> SUFFICES ASSUME Init PROVE AttachInv
    OBVIOUS
  <2>1. StopInv /\ DetachInv
    BY DEF Init, StopInv, Active, DetachInv
  <2>2. CurrentInv /\ SetupInv
    BY NilAssumption DEF Init, CurrentInv, SetupInv, SetupPcs
  <2>3. ChanInv /\ RecoverInv /\ SlotInv
    BY DEF Init, ChanInv, RecoverInv, RecoverOn, Reopened, SlotInv
  <2> QED
    BY <2>1, <2>2, <2>3 DEF AttachInv
<1>2. LinkInv /\ AttachInv /\ [Next]_vars => AttachInv'
  BY StopKept, CurrentKept, ChanKept, SetupKept, RecoverKept, SlotKept, DetachKept
  DEF AttachInv
<1> QED
  BY <1>1, <1>2, LinkAlways, PTL DEF Spec

\* After the Stop that did the work, and once recoveries caught by it have
\* noticed, no sender has a channel and nothing is open: no rollback is missed,
\* however many watchers were in a recovery.
THEOREM StopLeavesNothingOpen == Spec => []StoppedClean
<1>1. LinkInv /\ AttachInv => StoppedClean
  <2> SUFFICES ASSUME LinkInv, AttachInv, Stopped PROVE
          /\ \A e \in Senders : slot[e] = None
          /\ \A k \in Conns : conState[k] # "open"
          /\ \A ch \in Chans : chState[ch] # "open"
          /\ ~connected
    BY DEF StoppedClean
  <2>1. PICK p \in Stoppers : s[p] = "done"
    BY DEF Stopped
  <2>2. ~connected /\ stodo = {} /\ \A k \in Conns : conState[k] # "open"
    BY <2>1 DEF LinkInv, OrderInv, AttachInv, StopInv
  <2>3. \A ch \in Chans : chState[ch] # "open"
    BY <2>2 DEF AttachInv, ChanInv
  <2>4. \A e \in Senders : slot[e] = None
    BY <2>1, <2>2 DEF AttachInv, DetachInv, Stopped, Recovering
  <2> QED
    BY <2>2, <2>3, <2>4
<1> QED
  BY <1>1, LinkAlways, AttachAlways, PTL

\* A watcher that outlived its connection never leaves an endpoint on a dead
\* connection's channel: every such install is undone by the same recovery.
THEOREM SlotsAreCurrent == Spec => []NoStaleSlot
<1>1. AttachInv => NoStaleSlot
  BY DEF AttachInv, CurrentInv, SlotInv, Undoing, NoStaleSlot, Recovering
<1> QED
  BY <1>1, AttachAlways, PTL

=============================================================================
