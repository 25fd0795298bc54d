------------------------------ MODULE MCSender ------------------------------
(* Instances of Sender for TLC. *)
EXTENDS Sender, TLC

CONSTANTS p1, p2, p3

TwoPublishers == {p1, p2}
ThreePublishers == {p1, p2, p3}

=============================================================================
