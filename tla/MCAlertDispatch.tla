---------------------------- MODULE MCAlertDispatch ----------------------------
(* Instances of AlertDispatch for TLC. *)
EXTENDS AlertDispatch, TLC

CONSTANTS x1, x2, b1, b2, b3

OneRecipient  == {x1}
TwoRecipients == {x1, x2}
TwoBatches    == {b1, b2}
ThreeBatches  == {b1, b2, b3}

\* Recipients and batches are interchangeable.
AlertSymmetry == Permutations(Recipient) \cup Permutations(Batch)

=============================================================================
