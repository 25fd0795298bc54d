----------------------------- MODULE MCReceiver -----------------------------
(* Instances of Receiver for TLC. *)
EXTENDS Receiver, TLC

CONSTANTS o1, o2, p1, p2, nil

OneOwner == {o1}
TwoOwners == {o1, o2}
OneDrainer == {p1}
TwoDrainers == {p1, p2}

CallerSymmetry == Permutations(TwoOwners) \cup Permutations(TwoDrainers)

\* A Start that crossed is seen and not followed further: what is checked under
\* this constraint says nothing of what comes after one.
UpToCrossing == crossed = {}

=============================================================================
