-------------------------------- MODULE Hooks --------------------------------
(***************************************************************************)
(* What a host may rely on of OnConnect and OnDisconnect                   *)
(* (client/config.go, client/client.go): the two fire in strict            *)
(* alternation, OnConnect first, every connection that was announced is    *)
(* taken back exactly once by the time Stop has returned, and neither      *)
(* fires afterwards.                                                       *)
(***************************************************************************)
EXTENDS Naturals

VARIABLES
    connects,      \* how often OnConnect has fired
    disconnects,   \* how often OnDisconnect has fired
    closed         \* the Stop that did the work has returned

vars == <<connects, disconnects, closed>>

Init == connects = 0 /\ disconnects = 0 /\ closed = FALSE

OnConnect ==
    /\ ~closed /\ connects = disconnects
    /\ connects' = connects + 1
    /\ UNCHANGED <<disconnects, closed>>

OnDisconnect ==
    /\ ~closed /\ connects = disconnects + 1
    /\ disconnects' = disconnects + 1
    /\ UNCHANGED <<connects, closed>>

Close ==
    /\ ~closed /\ connects = disconnects
    /\ closed' = TRUE
    /\ UNCHANGED <<connects, disconnects>>

Next == OnConnect \/ OnDisconnect \/ Close

Spec == Init /\ [][Next]_vars

=============================================================================
