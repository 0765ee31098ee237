--------------------------- MODULE MCFinalSubmission ---------------------------
(* Instances of FinalSubmission for TLC. *)
EXTENDS FinalSubmission

CONSTANTS s1, s2, t1, f1, f2, r1, r2

OneStudent  == {s1}
TwoStudents == {s1, s2}
OneTopic    == {t1}
OneFile     == {f1}
TwoFiles    == {f1, f2}
OneRequest  == {r1}
TwoRequests == {r1, r2}

AllOnOneTopic == [s \in Student |-> t1]

=============================================================================
