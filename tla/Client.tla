------------------------------- MODULE Client -------------------------------
(***************************************************************************)
(* client.Client (client/client.go): the connectAndWatch goroutine that    *)
(* dials, sets channels up, watches the connection and repairs it; one     *)
(* watcher goroutine per channel that reopens just that channel; and the   *)
(* Start, Stop and Drain calls of the host.                                *)
(*                                                                         *)
(* Senders and receivers are seen from the client only: slot[e] is the     *)
(* channel a sender publishes on (SetChannel) or a receiver is started on  *)
(* (Start / Stop). What a receiver does inside is module Receiver; here    *)
(* its Start and Stop are one step each, and Stop returns.                 *)
(***************************************************************************)
EXTENDS Integers, FiniteSets

CONSTANTS
    Conns,                 \* connections, one per dial, numbered as dialled
    Chans,                 \* AMQP channels, one per conn.Channel() call, likewise
    Senders, Receivers,    \* registered with AddSender and AddReceiver
    Stoppers,              \* host goroutines that call Stop, once each
    None,                  \* Go's nil
    NumBrokers,            \* length of Config.Brokers
    MaxReconnectAttempts   \* Config.MaxReconnectAttempts, 0 for no limit

Endpoints == Senders \cup Receivers

ASSUME EndpointsAssumption == Senders \cap Receivers = {}

ASSUME NumbersAssumption == Conns \subseteq Nat /\ Chans \subseteq Nat

ASSUME NilAssumption == None \notin Conns \cup Chans \cup Endpoints

ASSUME LimitsAssumption ==
    NumBrokers \in Nat \ {0} /\ MaxReconnectAttempts \in Nat

VARIABLES
    \* Client fields under mu; life is the state of lifeCtx
    started, stopping, drained, connected, conn, life,
    \* connectAndWatch: where it is, the connection it works on, whether this is
    \* the first connection, attempts made, brokers left in this walk, endpoints
    \* left to set up or tear down, the channel just opened, and
    \* wasConnected of handleDisconnect
    g, gconn, initial, attempt, brokers, todo, gch, was,
    \* what the senders and receivers hold, and the receivers drained
    slot, rdrained, draining,
    \* AMQP: connections, channels, the connection and endpoint of a channel
    conState, chState, chConn, chEnd,
    \* the watcher of each channel: where it is, the connection it read, the
    \* channel it opened
    w, wconn, wnew,
    \* Stop callers: where each is, and the endpoints the effective one still
    \* has to detach
    s, stodo,
    \* how often the hooks OnConnect and OnDisconnect have fired
    connects, disconnects

flags  == <<started, stopping, drained>>
link   == <<connected, conn>>
gvars  == <<g, gconn, initial, attempt, brokers, todo, gch, was>>
amqp   == <<conState, chState, chConn, chEnd>>
ends   == <<slot, rdrained, draining>>
wvars  == <<w, wconn, wnew>>
svars  == <<s, stodo>>
hooks  == <<connects, disconnects>>

vars == <<flags, link, life, gvars, ends, amqp, wvars, svars, hooks>>

GPcs == {"none", "attempt", "dial", "setup", "attach", "decide", "start", "cleanup",
         "publish", "onconnect", "arm", "watch", "teardown", "ended"}

WPcs == {"none", "arm", "watch", "recover", "decline", "stop", "open", "check",
         "install", "commit", "ended"}

SPcs == {"idle", "noop", "cancel", "wait", "receivers", "senders", "done"}

TypeOK ==
    /\ started \in BOOLEAN /\ stopping \in BOOLEAN /\ drained \in BOOLEAN
    /\ connected \in BOOLEAN /\ initial \in BOOLEAN /\ was \in BOOLEAN
    /\ draining \in BOOLEAN
    /\ life \in {"none", "live", "done"}
    /\ conn \in Conns \cup {None}
    /\ g \in GPcs
    /\ gconn \in Conns \cup {None}
    /\ attempt \in Nat /\ brokers \in 0..NumBrokers
    /\ todo \subseteq Endpoints /\ stodo \subseteq Endpoints
    /\ gch \in Chans \cup {None}
    /\ slot \in [Endpoints -> Chans \cup {None}]
    /\ rdrained \subseteq Receivers
    /\ conState \in [Conns -> {"unused", "open", "dead"}]
    /\ chState \in [Chans -> {"unused", "open", "soft", "gone"}]
    /\ chConn \in [Chans -> Conns \cup {None}]
    /\ chEnd \in [Chans -> Endpoints \cup {None}]
    /\ w \in [Chans -> WPcs]
    /\ wconn \in [Chans -> Conns \cup {None}]
    /\ wnew \in [Chans -> Chans \cup {None}]
    /\ s \in [Stoppers -> SPcs]
    /\ connects \in Nat /\ disconnects \in Nat

Init ==
    /\ started = FALSE /\ stopping = FALSE /\ drained = FALSE
    /\ connected = FALSE /\ conn = None /\ life = "none"
    /\ g = "none" /\ gconn = None /\ initial = TRUE /\ attempt = 0
    /\ brokers = 0 /\ todo = {} /\ gch = None /\ was = FALSE
    /\ slot = [e \in Endpoints |-> None] /\ rdrained = {} /\ draining = FALSE
    /\ conState = [k \in Conns |-> "unused"]
    /\ chState = [ch \in Chans |-> "unused"]
    /\ chConn = [ch \in Chans |-> None]
    /\ chEnd = [ch \in Chans |-> None]
    /\ w = [ch \in Chans |-> "none"]
    /\ wconn = [ch \in Chans |-> None]
    /\ wnew = [ch \in Chans |-> None]
    /\ s = [p \in Stoppers |-> "idle"] /\ stodo = {}
    /\ connects = 0 /\ disconnects = 0

-----------------------------------------------------------------------------
(* Helpers *)

\* Connections and channels are used in the order of their numbers.
InOrder(x, state) == \A y \in DOMAIN state : y < x => state[y] # "unused"

\* conn.Channel() for endpoint e on connection k gave ch.
OpenChannel(k, e, ch) ==
    /\ conState[k] = "open" /\ chState[ch] = "unused" /\ InOrder(ch, chState)
    /\ chState' = [chState EXCEPT ![ch] = "open"]
    /\ chConn' = [chConn EXCEPT ![ch] = k]
    /\ chEnd' = [chEnd EXCEPT ![ch] = e]

\* Every channel of a connection goes with it.
KillConn(k) ==
    /\ conState' = [conState EXCEPT ![k] = "dead"]
    /\ chState' = [ch \in Chans |->
          IF chConn[ch] = k /\ chState[ch] = "open" THEN "gone" ELSE chState[ch]]

CloseChan(ch) == chState' = [chState EXCEPT ![ch] = "gone"]

\* sender.SetChannel(nil), receiver.Stop
Detach(e) == slot' = [slot EXCEPT ![e] = None]

Attach(e, ch) == slot' = [slot EXCEPT ![e] = ch]

\* sender.SetChannel(ch). On a channel that is dead by then, a sender in confirm
\* mode cannot enable confirms, says so in the log and stays disconnected.
SetChannel(e, ch) ==
    \/ Attach(e, ch)
    \/ chState[ch] \in {"soft", "gone"} /\ Detach(e)

\* receiver.Start succeeds: not drained, not started, channel alive.
CanStart(r, ch) == r \notin rdrained /\ slot[r] = None /\ chState[ch] = "open"

-----------------------------------------------------------------------------
(* Start, Drain and the life context *)

Start ==
    /\ ~started
    /\ started' = TRUE
    /\ life' = "live"
    /\ g' = "attempt"
    /\ UNCHANGED <<stopping, drained, link, gconn, initial, attempt, brokers, todo,
                   gch, was, ends, amqp, wvars, svars, hooks>>

\* The context the host gave Start ends.
HostCancels ==
    /\ life = "live"
    /\ life' = "done"
    /\ UNCHANGED <<flags, link, gvars, ends, amqp, wvars, svars, hooks>>

DrainCall ==
    /\ ~draining
    /\ draining' = TRUE /\ drained' = TRUE
    /\ UNCHANGED <<started, stopping, link, life, gvars, slot, rdrained, amqp,
                   wvars, svars, hooks>>

\* One of Drain's goroutines reaches its receiver, which refuses Start from now.
DrainReceiver(r) ==
    /\ draining /\ r \notin rdrained
    /\ rdrained' = rdrained \cup {r}
    /\ UNCHANGED <<flags, link, life, gvars, slot, draining, amqp, wvars, svars,
                   hooks>>

-----------------------------------------------------------------------------
(* connect *)

\* Mutant of Attempt: the limit applies to the first connection too.
AttemptAlwaysLimited ==
    /\ g = "attempt"
    /\ IF life = "done" \/ (MaxReconnectAttempts > 0 /\ attempt >= MaxReconnectAttempts)
          THEN g' = "ended" /\ UNCHANGED brokers
          ELSE g' = "dial" /\ brokers' = NumBrokers
    /\ UNCHANGED <<flags, link, life, gconn, initial, attempt, todo, gch, was, ends,
                   amqp, wvars, svars, hooks>>

\* Top of the attempt loop. The limit applies to a repair only.
Attempt ==
    /\ g = "attempt"
    /\ \/ /\ \/ life = "done"
             \/ ~initial /\ MaxReconnectAttempts > 0 /\ attempt >= MaxReconnectAttempts
          /\ g' = "ended"
          /\ UNCHANGED brokers
       \/ /\ life # "done"
          /\ initial \/ MaxReconnectAttempts = 0 \/ attempt < MaxReconnectAttempts
          /\ g' = "dial"
          /\ brokers' = NumBrokers
    /\ UNCHANGED <<flags, link, life, gconn, initial, attempt, todo, gch, was, ends,
                   amqp, wvars, svars, hooks>>

\* ctx.Err() is looked at before each broker and during the backoff.
DialCancelled ==
    /\ g = "dial" /\ life = "done"
    /\ g' = "ended"
    /\ UNCHANGED <<flags, link, life, gconn, initial, attempt, brokers, todo, gch,
                   was, ends, amqp, wvars, svars, hooks>>

\* Mutant of DialFails: the walk does not stop at the end of the list.
DialFailsAgain ==
    /\ g = "dial" /\ life # "done"
    /\ brokers' = brokers - 1
    /\ UNCHANGED <<flags, link, life, g, gconn, initial, attempt, todo, gch, was,
                   ends, amqp, wvars, svars, hooks>>

DialFails ==
    /\ g = "dial" /\ life # "done" /\ brokers > 0
    /\ brokers' = brokers - 1
    /\ UNCHANGED <<flags, link, life, g, gconn, initial, attempt, todo, gch, was,
                   ends, amqp, wvars, svars, hooks>>

DialSucceeds(k) ==
    /\ g = "dial" /\ life # "done" /\ brokers > 0
    /\ conState[k] = "unused" /\ InOrder(k, conState)
    /\ conState' = [conState EXCEPT ![k] = "open"]
    /\ brokers' = brokers - 1
    /\ gconn' = k
    /\ todo' = Endpoints
    /\ g' = "setup"
    /\ UNCHANGED <<flags, link, life, initial, attempt, gch, was, ends, chState,
                   chConn, chEnd, wvars, svars, hooks>>

\* Every broker failed: wait, then the next attempt. The count stands still just
\* past the limit, beyond which nothing tells its values apart.
Backoff ==
    /\ g = "dial" /\ brokers = 0
    /\ attempt' = IF attempt > MaxReconnectAttempts THEN attempt ELSE attempt + 1
    /\ g' = "attempt"
    /\ UNCHANGED <<flags, link, life, gconn, initial, brokers, todo, gch, was, ends,
                   amqp, wvars, svars, hooks>>

-----------------------------------------------------------------------------
(* setupChannels *)

\* Open the channel of a sender.
SetupSender(e, ch) ==
    /\ g = "setup" /\ e \in todo \cap Senders
    /\ OpenChannel(gconn, e, ch)
    /\ gch' = ch
    /\ g' = "attach"
    /\ UNCHANGED <<flags, link, life, gconn, initial, attempt, brokers, todo, was,
                   ends, conState, wvars, svars, hooks>>

\* Give it to the sender.
SetupAttach ==
    /\ g = "attach"
    /\ SetChannel(chEnd[gch], gch)
    /\ todo' = todo \ {chEnd[gch]}
    /\ g' = "setup"
    /\ UNCHANGED <<flags, link, life, gconn, initial, attempt, brokers, gch, was,
                   rdrained, draining, amqp, wvars, svars, hooks>>

\* Open the channel and declare the topology of a receiver.
SetupReceiver(e, ch) ==
    /\ g = "setup" /\ todo \cap Senders = {} /\ e \in todo
    /\ OpenChannel(gconn, e, ch)
    /\ gch' = ch
    /\ g' = "decide"
    /\ UNCHANGED <<flags, link, life, gconn, initial, attempt, brokers, todo, was,
                   ends, conState, wvars, svars, hooks>>

\* isDrained is read before Start, not with it.
SetupDecide ==
    /\ g = "decide"
    /\ IF drained
          THEN g' = "setup" /\ todo' = todo \ {chEnd[gch]}
          ELSE g' = "start" /\ UNCHANGED todo
    /\ UNCHANGED <<flags, link, life, gconn, initial, attempt, brokers, gch, was,
                   ends, amqp, wvars, svars, hooks>>

SetupStart ==
    /\ g = "start" /\ CanStart(chEnd[gch], gch)
    /\ Attach(chEnd[gch], gch)
    /\ todo' = todo \ {chEnd[gch]}
    /\ g' = "setup"
    /\ UNCHANGED <<flags, link, life, gconn, initial, attempt, brokers, gch, was,
                   rdrained, draining, amqp, wvars, svars, hooks>>

\* Opening a channel, declaring topology or starting a receiver failed.
SetupFails ==
    /\ \/ g = "setup" /\ todo # {}
       \/ g = "start" /\ ~CanStart(chEnd[gch], gch)
    /\ g' = "cleanup"
    /\ todo' = Endpoints
    /\ UNCHANGED <<flags, link, life, gconn, initial, attempt, brokers, gch, was,
                   ends, amqp, wvars, svars, hooks>>

\* The cleanup closure: receivers are stopped, then senders disconnected.
CleanupDetach(e) ==
    /\ g = "cleanup" /\ e \in todo
    /\ e \in Senders => todo \cap Receivers = {}
    /\ Detach(e)
    /\ todo' = todo \ {e}
    /\ UNCHANGED <<flags, link, life, g, gconn, initial, attempt, brokers, gch, was,
                   rdrained, draining, amqp, wvars, svars, hooks>>

\* Mutant of CleanupClose: the connection is left open.
CleanupCloseForgets ==
    /\ g = "cleanup" /\ todo = {}
    /\ g' = "dial"
    /\ UNCHANGED <<flags, link, life, gconn, initial, attempt, brokers, todo, gch,
                   was, ends, amqp, wvars, svars, hooks>>

\* The channels and the unusable connection are closed; on to the next broker.
CleanupClose ==
    /\ g = "cleanup" /\ todo = {}
    /\ KillConn(gconn)
    /\ g' = "dial"
    /\ UNCHANGED <<flags, link, life, gconn, initial, attempt, brokers, todo, gch,
                   was, ends, chConn, chEnd, wvars, svars, hooks>>

\* Every channel is set up: their watchers are spawned.
SpawnWatchers ==
    /\ g = "setup" /\ todo = {}
    /\ w' = [ch \in Chans |-> IF chConn[ch] = gconn THEN "arm" ELSE w[ch]]
    /\ g' = "publish"
    /\ UNCHANGED <<flags, link, life, gconn, initial, attempt, brokers, todo, gch,
                   was, ends, amqp, wconn, wnew, svars, hooks>>

Publish ==
    /\ g = "publish"
    /\ conn' = gconn /\ connected' = TRUE
    /\ g' = "onconnect"
    /\ UNCHANGED <<flags, life, gconn, initial, attempt, brokers, todo, gch, was,
                   ends, amqp, wvars, svars, hooks>>

OnConnect ==
    /\ g = "onconnect"
    /\ connects' = connects + 1
    /\ g' = "arm"
    /\ UNCHANGED <<flags, link, life, gconn, initial, attempt, brokers, todo, gch,
                   was, ends, amqp, wvars, svars, disconnects>>

-----------------------------------------------------------------------------
(* watchConnAndReconnect *)

\* NotifyClose. On a connection that is already gone the library hands back a
\* closed notification channel, which the loop takes for a graceful close.
Arm ==
    /\ g = "arm"
    /\ g' = IF conState[gconn] = "open" THEN "watch" ELSE "ended"
    /\ UNCHANGED <<flags, link, life, gconn, initial, attempt, brokers, todo, gch,
                   was, ends, amqp, wvars, svars, hooks>>

\* Mutant of WatchCancelled: the loop only waits for the connection to close.
WatchCancelledNever == g = "watch" /\ FALSE /\ UNCHANGED vars

WatchCancelled ==
    /\ g = "watch" /\ life = "done"
    /\ g' = "ended"
    /\ UNCHANGED <<flags, link, life, gconn, initial, attempt, brokers, todo, gch,
                   was, ends, amqp, wvars, svars, hooks>>

\* The connection is lost: handleDisconnect begins.
Disconnected ==
    /\ g = "watch" /\ life # "done" /\ conState[gconn] = "dead"
    /\ was' = connected /\ connected' = FALSE
    /\ todo' = Endpoints
    /\ g' = "teardown"
    /\ UNCHANGED <<flags, conn, life, gconn, initial, attempt, brokers, gch, ends,
                   amqp, wvars, svars, hooks>>

\* Mutant of TeardownDetach: receivers are left started.
TeardownDetachSenders(e) ==
    /\ g = "teardown" /\ e \in todo
    /\ IF e \in Senders THEN Detach(e) ELSE UNCHANGED slot
    /\ todo' = todo \ {e}
    /\ UNCHANGED <<flags, link, life, g, gconn, initial, attempt, brokers, gch, was,
                   rdrained, draining, amqp, wvars, svars, hooks>>

TeardownDetach(e) ==
    /\ g = "teardown" /\ e \in todo
    /\ e \in Senders => todo \cap Receivers = {}
    /\ Detach(e)
    /\ todo' = todo \ {e}
    /\ UNCHANGED <<flags, link, life, g, gconn, initial, attempt, brokers, gch, was,
                   rdrained, draining, amqp, wvars, svars, hooks>>

\* The end of handleDisconnect, OnDisconnect included; then connect again.
OnDisconnect ==
    /\ g = "teardown" /\ todo = {}
    /\ disconnects' = IF was THEN disconnects + 1 ELSE disconnects
    /\ was' = FALSE
    /\ initial' = FALSE /\ attempt' = 0
    /\ g' = "attempt"
    /\ UNCHANGED <<flags, link, life, gconn, brokers, todo, gch, ends, amqp, wvars,
                   svars, connects>>

-----------------------------------------------------------------------------
(* Channel watchers *)

\* NotifyClose, in the watcher's own goroutine, and again for every new channel.
WatcherArm(ch) ==
    /\ w[ch] = "arm"
    /\ w' = [w EXCEPT ![ch] = IF chState[ch] = "open" THEN "watch" ELSE "ended"]
    /\ UNCHANGED <<flags, link, life, gvars, ends, amqp, wconn, wnew, svars, hooks>>

\* Cancelled, closed, or closed by a connection-level error: nothing to recover.
WatcherExit(ch) ==
    /\ w[ch] = "watch" /\ (life = "done" \/ chState[ch] = "gone")
    /\ w' = [w EXCEPT ![ch] = "ended"]
    /\ UNCHANGED <<flags, link, life, gvars, ends, amqp, wconn, wnew, svars, hooks>>

\* A channel-level error.
WatcherNotified(ch) ==
    /\ w[ch] = "watch" /\ life # "done" /\ chState[ch] = "soft"
    /\ w' = [w EXCEPT ![ch] = "recover"]
    /\ UNCHANGED <<flags, link, life, gvars, ends, amqp, wconn, wnew, svars, hooks>>

\* First locked section of recoverSenderChannel and recoverReceiverChannel.
RecoverRead(ch) ==
    /\ w[ch] = "recover"
    /\ wconn' = [wconn EXCEPT ![ch] = conn]
    /\ w' = [w EXCEPT ![ch] = IF ~connected \/ conn = None THEN "ended"
                              ELSE IF chEnd[ch] \in Senders THEN "open"
                              ELSE IF drained THEN "decline" ELSE "stop"]
    /\ UNCHANGED <<flags, link, life, gvars, ends, amqp, wnew, svars, hooks>>

\* r.Stop, before the new channel or on the way out of a drained client.
RecoverStop(ch) ==
    /\ w[ch] \in {"stop", "decline"}
    /\ Detach(chEnd[ch])
    /\ w' = [w EXCEPT ![ch] = IF w[ch] = "stop" THEN "open" ELSE "ended"]
    /\ UNCHANGED <<flags, link, life, gvars, rdrained, draining, amqp, wconn, wnew,
                   svars, hooks>>

RecoverOpen(ch, n) ==
    /\ w[ch] = "open"
    /\ OpenChannel(wconn[ch], chEnd[ch], n)
    /\ wnew' = [wnew EXCEPT ![ch] = n]
    /\ w' = [w EXCEPT ![ch] = IF chEnd[ch] \in Senders THEN "install" ELSE "check"]
    /\ UNCHANGED <<flags, link, life, gvars, ends, conState, wconn, svars, hooks>>

\* conn.Channel() failed, or for a receiver the declare did; the connection may be
\* as good as ever.
RecoverOpenFails(ch) ==
    /\ w[ch] = "open"
    /\ w' = [w EXCEPT ![ch] = "ended"]
    /\ UNCHANGED <<flags, link, life, gvars, ends, amqp, wconn, wnew, svars, hooks>>

\* isDrained again, for a receiver.
RecoverCheck(ch) ==
    /\ w[ch] = "check"
    /\ IF drained
          THEN CloseChan(wnew[ch]) /\ w' = [w EXCEPT ![ch] = "ended"]
          ELSE UNCHANGED chState /\ w' = [w EXCEPT ![ch] = "install"]
    /\ UNCHANGED <<flags, link, life, gvars, ends, conState, chConn, chEnd, wconn,
                   wnew, svars, hooks>>

\* SetChannel, which reports nothing, or receiver.Start, which may refuse.
RecoverInstall(ch) ==
    /\ w[ch] = "install"
    /\ \/ /\ \/ chEnd[ch] \in Senders /\ SetChannel(chEnd[ch], wnew[ch])
             \/ /\ chEnd[ch] \in Receivers /\ CanStart(chEnd[ch], wnew[ch])
                /\ Attach(chEnd[ch], wnew[ch])
          /\ w' = [w EXCEPT ![ch] = "commit"]
          /\ UNCHANGED chState
       \/ /\ chEnd[ch] \in Receivers /\ ~CanStart(chEnd[ch], wnew[ch])
          /\ CloseChan(wnew[ch])
          /\ w' = [w EXCEPT ![ch] = "ended"]
          /\ UNCHANGED slot
    /\ UNCHANGED <<flags, link, life, gvars, rdrained, draining, conState, chConn,
                   chEnd, wconn, wnew, svars, hooks>>

\* Mutant of RecoverCommit: no rollback.
RecoverCommitAlways(ch) ==
    /\ w[ch] = "commit"
    /\ w' = [w EXCEPT ![ch] = "ended", ![wnew[ch]] = "arm"]
    /\ UNCHANGED <<flags, link, life, gvars, ends, amqp, wconn, wnew, svars, hooks>>

\* Mutant of RecoverCommit: asks whether there is a connection, not which.
RecoverCommitAnyConn(ch) ==
    /\ w[ch] = "commit"
    /\ IF ~connected
          THEN /\ Detach(chEnd[ch])
               /\ CloseChan(wnew[ch])
               /\ w' = [w EXCEPT ![ch] = "ended"]
          ELSE /\ w' = [w EXCEPT ![ch] = "ended", ![wnew[ch]] = "arm"]
               /\ UNCHANGED <<slot, chState>>
    /\ UNCHANGED <<flags, link, life, gvars, rdrained, draining, conState, chConn,
                   chEnd, wconn, wnew, svars, hooks>>

\* Last locked section: roll back when the connection was replaced meanwhile,
\* otherwise the watcher goes on with the new channel.
RecoverCommit(ch) ==
    /\ w[ch] = "commit"
    /\ IF conn # wconn[ch] \/ ~connected
          THEN /\ Detach(chEnd[ch])
               /\ CloseChan(wnew[ch])
               /\ w' = [w EXCEPT ![ch] = "ended"]
          ELSE /\ w' = [w EXCEPT ![ch] = "ended", ![wnew[ch]] = "arm"]
               /\ UNCHANGED <<slot, chState>>
    /\ UNCHANGED <<flags, link, life, gvars, rdrained, draining, conState, chConn,
                   chEnd, wconn, wnew, svars, hooks>>

-----------------------------------------------------------------------------
(* Stop *)

StopCall(p) ==
    /\ s[p] = "idle"
    /\ drained' = TRUE /\ stopping' = TRUE
    /\ s' = [s EXCEPT ![p] = IF stopping \/ ~started THEN "noop" ELSE "cancel"]
    /\ UNCHANGED <<started, link, life, gvars, ends, amqp, wvars, stodo, hooks>>

StopCancel(p) ==
    /\ s[p] = "cancel"
    /\ life' = "done"
    /\ s' = [s EXCEPT ![p] = "wait"]
    /\ UNCHANGED <<flags, link, gvars, ends, amqp, wvars, stodo, hooks>>

\* reconnectDone is closed.
StopWait(p) ==
    /\ s[p] = "wait" /\ g = "ended"
    /\ s' = [s EXCEPT ![p] = "receivers"]
    /\ stodo' = Endpoints
    /\ UNCHANGED <<flags, link, life, gvars, ends, amqp, wvars, hooks>>

\* Receivers are stopped before OnDisconnect, senders disconnected after it.
StopDetach(p, e) ==
    /\ \/ s[p] = "receivers" /\ e \in stodo \cap Receivers
       \/ s[p] = "senders" /\ e \in stodo
    /\ Detach(e)
    /\ stodo' = stodo \ {e}
    /\ UNCHANGED <<flags, link, life, gvars, rdrained, draining, amqp, wvars, s,
                   hooks>>

\* Mutant of StopOnDisconnect: fires whether or not a drop was announced.
StopOnDisconnectAlways(p) ==
    /\ s[p] = "receivers" /\ stodo \cap Receivers = {}
    /\ connected' = FALSE
    /\ disconnects' = disconnects + 1
    /\ s' = [s EXCEPT ![p] = "senders"]
    /\ UNCHANGED <<flags, conn, life, gvars, ends, amqp, wvars, stodo, connects>>

StopOnDisconnect(p) ==
    /\ s[p] = "receivers" /\ stodo \cap Receivers = {}
    /\ connected' = FALSE
    /\ disconnects' = IF connected THEN disconnects + 1 ELSE disconnects
    /\ s' = [s EXCEPT ![p] = "senders"]
    /\ UNCHANGED <<flags, conn, life, gvars, ends, amqp, wvars, stodo, connects>>

\* Mutant of StopClose: the connection is dropped without being closed.
StopCloseForgets(p) ==
    /\ s[p] = "senders" /\ stodo = {}
    /\ conn' = None
    /\ s' = [s EXCEPT ![p] = "done"]
    /\ UNCHANGED <<flags, connected, life, gvars, ends, amqp, wvars, stodo, hooks>>

\* The channels and the connection are closed, and Stop returns.
StopClose(p) ==
    /\ s[p] = "senders" /\ stodo = {}
    /\ conn' = None
    /\ IF conn = None THEN UNCHANGED <<conState, chState>> ELSE KillConn(conn)
    /\ s' = [s EXCEPT ![p] = "done"]
    /\ UNCHANGED <<flags, connected, life, gvars, ends, chConn, chEnd, wvars, stodo,
                   hooks>>

-----------------------------------------------------------------------------
(* Broker and network *)

ConnDies(k) ==
    /\ conState[k] = "open"
    /\ KillConn(k)
    /\ UNCHANGED <<flags, link, life, gvars, ends, chConn, chEnd, wvars, svars,
                   hooks>>

\* A channel-level exception closes one channel and leaves the connection.
ChanDies(ch) ==
    /\ chState[ch] = "open"
    /\ chState' = [chState EXCEPT ![ch] = "soft"]
    /\ UNCHANGED <<flags, link, life, gvars, ends, conState, chConn, chEnd, wvars,
                   svars, hooks>>

-----------------------------------------------------------------------------
(* Specification *)

ConnectStep ==
    \/ Attempt \/ DialCancelled \/ DialFails \/ Backoff
    \/ \E k \in Conns : DialSucceeds(k)
    \/ \E e \in Endpoints :
          \/ CleanupDetach(e) \/ TeardownDetach(e)
          \/ \E ch \in Chans : SetupSender(e, ch) \/ SetupReceiver(e, ch)
    \/ SetupAttach \/ SetupDecide \/ SetupStart \/ SetupFails \/ CleanupClose
    \/ SpawnWatchers \/ Publish \/ OnConnect
    \/ Arm \/ WatchCancelled \/ Disconnected \/ OnDisconnect

WatcherStep(ch) ==
    \/ WatcherArm(ch) \/ WatcherExit(ch) \/ WatcherNotified(ch)
    \/ RecoverRead(ch) \/ RecoverStop(ch) \/ RecoverOpenFails(ch)
    \/ \E n \in Chans : RecoverOpen(ch, n)
    \/ RecoverCheck(ch) \/ RecoverInstall(ch) \/ RecoverCommit(ch)

StopStep(p) ==
    \/ StopCancel(p) \/ StopWait(p) \/ StopOnDisconnect(p) \/ StopClose(p)
    \/ \E e \in Endpoints : StopDetach(p, e)

Next ==
    \/ Start \/ HostCancels \/ DrainCall
    \/ \E r \in Receivers : DrainReceiver(r)
    \/ ConnectStep
    \/ \E ch \in Chans : WatcherStep(ch) \/ ChanDies(ch)
    \/ \E p \in Stoppers : StopCall(p) \/ StopStep(p)
    \/ \E k \in Conns : ConnDies(k)

Spec == Init /\ [][Next]_vars

\* The goroutines that are runnable run: dials and hooks return, backoffs end.
Fairness ==
    /\ WF_vars(ConnectStep)
    /\ \A ch \in Chans : WF_vars(WatcherStep(ch))
    /\ \A p \in Stoppers : WF_vars(StopStep(p))

FairSpec == Spec /\ Fairness

-----------------------------------------------------------------------------
(* Properties *)

Recovering(ch) == w[ch] \notin {"none", "arm", "watch", "ended"}

\* A client never holds two live connections: one it cannot use, or one a later
\* connect replaced, has been closed or lost.
OneConnection ==
    \A k1, k2 \in Conns : conState[k1] = "open" /\ conState[k2] = "open" => k1 = k2

Stopped == (\E p \in Stoppers : s[p] = "done") /\ \A ch \in Chans : ~Recovering(ch)

\* After the Stop that did the work has returned, and once watchers caught in a
\* recovery have noticed, no sender has a channel and nothing is open.
StoppedClean ==
    Stopped => /\ \A e \in Senders : slot[e] = None
               /\ \A k \in Conns : conState[k] # "open"
               /\ \A ch \in Chans : chState[ch] # "open"
               /\ ~connected

\* ... and no receiver is left started.
ReceiversStopped == Stopped => \A r \in Receivers : slot[r] = None

\* Only a cancelled client gives up on its first connection: the limit on
\* attempts is for repairs.
FirstConnectPersists == g = "ended" /\ connects = 0 => life = "done"

\* A watcher that outlived its connection never leaves a receiver or a sender
\* on a dead connection's channel while the client is connected to another.
NoStaleSlot ==
    \A e \in Endpoints :
        (/\ g = "watch" /\ slot[e] # None
         /\ \A ch \in Chans : ~Recovering(ch))
        => chConn[slot[e]] = conn

\* A channel that died alone, on a connection the client is watching, still has
\* a watcher to reopen it.
ChannelsWatched ==
    (g = "watch" /\ conState[conn] = "open" /\ life = "live" /\ ~drained) =>
        \A e \in Endpoints :
            slot[e] # None /\ chState[slot[e]] = "soft" => w[slot[e]] # "ended"

\* A connection that is up, and none of whose channels died, has a channel
\* attached to every sender, and to every receiver unless the client is drained,
\* once no recovery is under way.
Reattached ==
    (/\ g = "watch" /\ conState[conn] = "open" /\ life = "live"
     /\ \A ch \in Chans : ~Recovering(ch)
     /\ \A ch \in Chans : chConn[ch] = conn => chState[ch] # "soft")
    => \A e \in Endpoints : slot[e] # None \/ (e \in Receivers /\ drained)

\* A drain that lands while a connection is being set up does not make the
\* client throw that connection away.
DrainSparesConnection ==
    [][g = "start" /\ g' = "cleanup" =>
          chState[gch] # "open" \/ slot[chEnd[gch]] # None]_vars

\* A Stop that returns on a started client leaves the connect goroutine ended,
\* unless another Stop is still waiting for it.
StopEndsGoroutine ==
    [][\A p \in Stoppers :
          (/\ s[p] = "idle" /\ s'[p] = "noop" /\ started
           /\ \A q \in Stoppers : s[q] \in {"idle", "noop", "done"})
          => g = "ended"]_vars

\* OnConnect and OnDisconnect alternate and end balanced: see Hooks.
Cycle == INSTANCE Hooks WITH closed <- \E p \in Stoppers : s[p] = "done"

HookCycles == Cycle!Spec

\* Stop returns: the connect goroutine ends wherever it was, mid-dial and
\* mid-setup included.
StopReturns ==
    \A p \in Stoppers : s[p] = "cancel" ~> s[p] = "done"

\* A lost connection stops being reported as connected.
DropNoticed ==
    (connected /\ conn # None /\ conState[conn] = "dead")
        ~> (~connected \/ life = "done")

=============================================================================
