------------------------------ MODULE Topology ------------------------------
(***************************************************************************)
(* How one receiver gets, keeps and regains its place at the broker: the   *)
(* queue and bindings DeclareTopology (receiver/receiver.go) puts there,   *)
(* the consumer Start registers, and the two ways the client comes back    *)
(* after a failure: connect with its backoff (client/client.go,            *)
(* client/config.go) for a lost connection, recoverReceiverChannel for a   *)
(* lost channel. The interleavings inside the client and the receiver are  *)
(* the subject of Client and Receiver; here one attempt is one sequence of *)
(* round trips, and the broker may lose or delete what was declared        *)
(* between any two of them. A repair gives up at MaxReconnectAttempts, and  *)
(* a connection lost before NotifyClose was called on it is repaired by    *)
(* nobody.                                                                 *)
(***************************************************************************)
EXTENDS Integers, FiniteSets, Sequences

CONSTANTS
    Bindings,      \* the WithBinding declarations, a sequence
    MaxAttempt     \* bound on the failed attempts of one series

\* No WithDeclare at all; or WithDeclare with neither flag, with Durable, or
\* with AutoDelete.
AllDeclares == {"passive", "transient", "durable", "autoDelete"}

ASSUME MaxAttemptAssumption == MaxAttempt \in Nat

\* A list, or a text: finitely many entries, in order.
IsSeq(s) == s \in Seq({s[i] : i \in DOMAIN s})

ASSUME BindingsAssumption == IsSeq(Bindings)

VARIABLES
    declare,       \* how the queue is declared, fixed by the builder
    limit,         \* MaxReconnectAttempts, 0 for none
    queue,         \* the queue exists at the broker
    kept,          \* it has not gone since this attempt declared it
    bound,         \* indices of the bindings the broker holds for it
    step,          \* where the receiver's attachment stands
    repair,        \* this attempt is recoverReceiverChannel, not connect
    next,          \* the binding DeclareTopology declares next
    initial,       \* the first connection has not been made yet
    armed,         \* NotifyClose was called on the connection
    attempt,       \* the attempt counter of connect
    delay,         \* the backoff in force, in seconds
    faults         \* faults the environment may still cause

setup == <<declare, limit>>
link  == <<initial, armed>>
tries == <<attempt, delay>>

topology == <<setup, queue, kept, bound, step, repair, next, link, tries, faults>>

Steps == {"down", "declare", "bind", "start",    \* on the way
          "consuming",                           \* registered
          "cancelled",                           \* the broker took the consumer away
          "closed",                              \* the channel closed
          "deferred",                            \* recovery failed
          "gaveUp",                              \* connect reached its limit
          "unnoticed"}                           \* the loss was notified to nobody

TopologyTypeOK ==
    /\ declare \in AllDeclares
    /\ limit \in Nat
    /\ queue \in BOOLEAN /\ kept \in BOOLEAN
    /\ bound \subseteq DOMAIN Bindings
    /\ step \in Steps
    /\ repair \in BOOLEAN
    /\ next \in 1 .. Len(Bindings) + 1
    /\ initial \in BOOLEAN /\ armed \in BOOLEAN
    /\ attempt \in Nat
    /\ delay \in Nat
    /\ faults \in Nat

\* A passive declare expects the queue to be there; it may or may not be. The
\* environment is given a number of faults to cause.
TopologyInit(declares, limits, budgets) ==
    /\ declare \in declares /\ limit \in limits
    /\ queue \in IF declare = "passive" THEN BOOLEAN ELSE {FALSE}
    /\ kept = FALSE /\ bound = {}
    /\ step = "down" /\ repair = FALSE /\ next = 1
    /\ initial = TRUE /\ armed = FALSE
    /\ attempt = 0 /\ delay = 0
    /\ faults \in budgets

-----------------------------------------------------------------------------
(* DefaultReconnectBackoff *)

Cap == 60

\* Mutant of DefaultReconnectBackoff: the cap is tested before the doubling.
BackoffCapLate(n) ==
    LET d[i \in 0 .. n] ==
          IF i = 0 THEN 1 ELSE IF d[i - 1] > Cap THEN Cap ELSE 2 * d[i - 1]
    IN d[n]

\* One second, doubled once per earlier attempt; past the cap the loop returns
\* the cap.
Backoff[n \in Nat] ==
    IF n = 0 THEN 1 ELSE IF 2 * Backoff[n - 1] > Cap THEN Cap ELSE 2 * Backoff[n - 1]

DefaultReconnectBackoff(n) == Backoff[n]

-----------------------------------------------------------------------------
(* The client and the receiver *)

\* Mutant of Limited: the limit holds for the first connection too.
LimitedAlways == limit > 0 /\ attempt >= limit

\* MaxReconnectAttempts bounds a repair, never the first connection.
Limited == ~initial /\ limit > 0 /\ attempt >= limit

\* connect dials again, after its backoff: no backoff before the first attempt.
Dial ==
    /\ step = "down" /\ ~Limited
    /\ step' = "declare" /\ repair' = FALSE /\ next' = 1
    /\ UNCHANGED <<setup, queue, kept, bound, link, tries, faults>>

\* connect returns false, and the goroutine that owns the connection ends.
GiveUp ==
    /\ step = "down" /\ Limited
    /\ step' = "gaveUp"
    /\ UNCHANGED <<setup, queue, kept, bound, repair, next, link, tries, faults>>

\* The watcher saw the channel close and opens another on the same connection.
Recover ==
    /\ step = "closed"
    /\ step' = "declare" /\ repair' = TRUE /\ next' = 1
    /\ UNCHANGED <<setup, queue, kept, bound, link, tries, faults>>

AfterDeclare(n) == IF n > Len(Bindings) THEN "start" ELSE "bind"

\* QueueDeclare creates the queue unless it is there; QueueDeclarePassive only
\* succeeds when it is.
DeclareQueue ==
    /\ step = "declare"
    /\ declare # "passive" \/ queue
    /\ queue' = TRUE /\ kept' = TRUE
    /\ step' = AfterDeclare(1)
    /\ UNCHANGED <<setup, bound, repair, next, link, tries, faults>>

\* Mutant of Bind: only the first binding is declared.
BindFirst ==
    /\ step = "bind" /\ queue
    /\ bound' = bound \cup {next}
    /\ next' = next + 1
    /\ step' = "start"
    /\ UNCHANGED <<setup, queue, kept, repair, link, tries, faults>>

\* QueueBind of the next binding, idempotent at the broker.
Bind ==
    /\ step = "bind" /\ queue
    /\ bound' = bound \cup {next}
    /\ next' = next + 1
    /\ step' = AfterDeclare(next + 1)
    /\ UNCHANGED <<setup, queue, kept, repair, link, tries, faults>>

\* Start registers the consumer. When connect got here it has a connection and
\* returns it; the next series of attempts counts afresh.
StartConsumer ==
    /\ step = "start" /\ queue
    /\ step' = "consuming"
    /\ initial' = FALSE
    /\ attempt' = 0 /\ delay' = 0
    /\ UNCHANGED <<setup, queue, kept, bound, repair, next, armed, faults>>

\* There is an open connection that connect has returned: a recovery is under
\* way on it, or nothing is.
Established == repair \/ step \in {"consuming", "cancelled", "closed", "deferred"}

\* NotifyClose on the connection connect returned, by the goroutine that owns it.
Arm ==
    /\ Established /\ ~armed
    /\ armed' = TRUE
    /\ UNCHANGED <<setup, queue, kept, bound, step, repair, next, initial, tries, faults>>

\* A round trip of the attempt failed, because the queue is not there or at a
\* fault. connect closes the connection and backs off; a recovery gives up and
\* defers to a reconnect.
AttemptFails ==
    /\ step \in {"declare", "bind", "start"}
    /\ \/ (step # "declare" \/ declare = "passive") /\ ~queue
          /\ UNCHANGED faults
       \/ faults > 0 /\ faults' = faults - 1
    /\ \/ /\ ~repair /\ attempt < MaxAttempt
          /\ step' = "down"
          /\ delay' = DefaultReconnectBackoff(attempt)
          /\ attempt' = attempt + 1
       \/ /\ repair
          /\ step' = "deferred"
          /\ UNCHANGED tries
    /\ UNCHANGED <<setup, queue, kept, bound, repair, next, link>>

-----------------------------------------------------------------------------
(* The broker and its operators (external) *)

Fault == faults > 0 /\ faults' = faults - 1

\* What of the queue outlives its consumer and its broker.
Survives(restart) ==
    CASE declare = "autoDelete" -> ~restart /\ step # "consuming"
      [] declare = "transient" -> ~restart
      [] OTHER -> TRUE

Keep(k) ==
    /\ queue' = (queue /\ k) /\ kept' = (kept /\ k)
    /\ bound' = IF k THEN bound ELSE {}

\* An established connection drops, alone or with a restart of the broker. When
\* NotifyClose was armed, connect begins a new series of attempts; when it is
\* only called now, it returns a closed channel and the goroutine ends. A
\* connection that drops before it is established is a failed attempt.
ConnectionDrops ==
    /\ Established /\ Fault
    /\ \E restart \in BOOLEAN : Keep(Survives(restart))
    /\ step' = IF armed THEN "down" ELSE "unnoticed"
    /\ repair' = FALSE /\ armed' = FALSE /\ attempt' = 0 /\ delay' = 0
    /\ UNCHANGED <<setup, next, initial>>

\* A channel error closes the channel and leaves the connection.
ChannelCloses ==
    /\ step \in {"consuming", "cancelled"} /\ Fault
    /\ Keep(Survives(FALSE))
    /\ step' = "closed"
    /\ UNCHANGED <<setup, repair, next, link, tries>>

\* The queue is deleted: the broker cancels the consumer, the library closes
\* the deliveries, and runLoop returns. The channel stays open.
QueueDeleted ==
    /\ queue /\ Fault
    /\ Keep(FALSE)
    /\ step' = IF step = "consuming" THEN "cancelled" ELSE step
    /\ UNCHANGED <<setup, repair, next, link, tries>>

\* Somebody else makes the queue, of the same kind and without bindings, at any
\* point of an attempt: an operator, for a passive declare, or another client.
QueueProvided ==
    /\ ~queue
    /\ queue' = TRUE
    /\ UNCHANGED <<setup, kept, bound, step, repair, next, link, tries, faults>>

TopologyNext ==
    \/ Dial \/ GiveUp \/ Recover \/ DeclareQueue \/ Bind \/ StartConsumer
    \/ Arm \/ AttemptFails
    \/ ConnectionDrops \/ ChannelCloses \/ QueueDeleted \/ QueueProvided

\* The client's goroutines keep running and the broker answers them.
TopologyFairness ==
    /\ WF_topology(Dial \/ GiveUp) /\ WF_topology(Recover) /\ WF_topology(Arm)
    /\ WF_topology(DeclareQueue \/ Bind \/ StartConsumer \/ AttemptFails)

-----------------------------------------------------------------------------
(* Properties *)

\* A receiver that consumes has its queue at the broker, and with it every one of
\* its bindings unless the queue was made anew by somebody else while it was being
\* declared, however often connection, channel or queue was lost on the way:
\* DeclareTopology is replayed whole before every Start.
ConsumingMeansBound ==
    step = "consuming" => queue /\ (kept => bound = DOMAIN Bindings)

\* Attempt after attempt that fails, connect waits one second first, then twice
\* as long as before, and never longer than a minute; a connection that was
\* made starts the schedule over.
BackoffSchedule ==
    [][delay' # delay =>
         \/ delay' = 0
         \/ delay = 0 /\ delay' = 1
         \/ delay > 0 /\ delay' = IF 2 * delay < 60 THEN 2 * delay ELSE 60]_topology

\* A client without a connection gets its receiver back to consuming, through
\* failed attempts, restarts that lost the queue and half-declared topology, as
\* long as the queue is its to declare and the faults come to an end. It gives up
\* only on a repair, after exactly as many attempts as its limit.
ComesBack ==
    (step = "down" /\ declare # "passive") ~>
        \/ step = "consuming"
        \/ step = "gaveUp" /\ ~initial /\ limit > 0 /\ attempt = limit

\* Documented: when the broker cancels the consumer, "the client owns recovery"
\* (runLoop), so a receiver whose queue is its to declare is attached again.
ConsumerRestored ==
    (step = "cancelled" /\ declare # "passive") ~> step # "cancelled"

=============================================================================
