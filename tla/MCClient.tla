------------------------------ MODULE MCClient ------------------------------
(* Instances of Client for TLC. *)
EXTENDS Client, TLC

CONSTANTS s1, r1, p1, p2, nil

OneSender == {s1}
OneReceiver == {r1}
OneStopper == {p1}
TwoStoppers == {p1, p2}

StopSymmetry == Permutations(TwoStoppers)

=============================================================================
