------------------------------ MODULE Transcripts ------------------------------
(***************************************************************************)
(* What teachers, staff and the student are shown of a grade.  Each view is *)
(* a handler of its own that computes readiness and total anew from the     *)
(* sheets and the scoring_results row: the list of transcripts, the review  *)
(* of one before it is finalised, and the transcript itself, which is also  *)
(* what is stored when it is published.  The first two round the mean of    *)
(* the internal marks before they weigh it and the third does not.          *)
(***************************************************************************)
EXTENDS Scoring

-----------------------------------------------------------------------------
(* getTranscripts and getTranscriptReview *)

Published == result # NoResult /\ result.is_published

GvhdFailed == Graded("GVHD") /\ ~Passing(sheet["GVHD"].score)

MissingItems == {role \in Role : ~Graded(role)}

\* Mutant: the list takes a finalised grade for one that is ready.
ReadinessStatus_Finalized ==
    CASE FinalStatusNow = "REJECTED_GVHD" \/ GvhdFailed -> "BLOCKED_GVHD"
      [] OTHER -> IF IsFinalized THEN IF Published THEN "PUBLISHED" ELSE "READY"
                  ELSE IF MissingItems # {} THEN "IN_PROGRESS" ELSE "AWAITING_FINALIZATION"

ReadinessStatus ==
    CASE FinalStatusNow = "REJECTED_GVHD" \/ GvhdFailed -> "BLOCKED_GVHD"
      [] OTHER -> IF MissingItems # {} THEN "IN_PROGRESS"
                  ELSE IF ~IsFinalized THEN "AWAITING_FINALIZATION"
                  ELSE IF Published THEN "PUBLISHED" ELSE "READY"

BonusNow == IF result = NoResult THEN 0 ELSE result.bonus_score

\* round2 of the mean of n marks.
Mean2(sum, n) == (2 * sum + n) \div (2 * n)

\* The total of both views, from a mean that is rounded already.
TotalOfMean(mean) ==
    Capped(Round2(6 * sheet["GVHD"].score + 3 * sheet["EXTERNAL_REVIEWER"].score + 6 * mean)
             + Hundredth * BonusNow)

CompleteForTotal == ReadinessStatus \in {"READY", "PUBLISHED"}

\* The list shows a total only of what is ready.
ListTotal == IF CompleteForTotal THEN TotalOfMean(Mean2(InternalSum(Marks), 3)) ELSE NoMark

\* The review takes the mean of the internal sheets there are, a missing mark as 0.
ReviewTotal ==
    LET sheets == {role \in Internal : sheet[role] # NoSheet}
        mark   == [role \in Internal |-> IF role \notin sheets \/ sheet[role].score = NoMark THEN 0
                                         ELSE sheet[role].score]
    IN  IF /\ \A role \in {"GVHD", "EXTERNAL_REVIEWER"} :
                  sheet[role] # NoSheet /\ sheet[role].score # NoMark
           /\ sheets # {}
        THEN TotalOfMean(Mean2(InternalSum(mark), Cardinality(sheets)))
        ELSE NoMark

-----------------------------------------------------------------------------
(* getMyScores, getMyTranscript *)

\* isLocked of a teacher's own sheet.
IsLocked(role) ==
    \/ role \in Committee /\ FinalStatusNow = "REJECTED_GVHD"
    \/ ~StageUnlocked(role, sheet[role].status)

\* What the student sees: buildTranscript, once it is published.
MyTranscript == IF Published /\ TranscriptBuilds THEN Total(result.bonus_score) ELSE NoMark

-----------------------------------------------------------------------------
(* Properties *)

\* With requests one after the other that end, and as long as updateScore has not decided
\* the supervisor's sheet, all who look at a grade see the same: the list calls ready or
\* published what the transcript can be built for, list and review show one total, which
\* the order of rounding keeps within a hundredth of the transcript's, the total the student
\* reads is the stored one that he is ranked by, and no teacher is shown a sheet of a ready
\* grade as one that he may still mark.
ViewsAgree ==
    ~byHand =>
        /\ CompleteForTotal <=> TranscriptBuilds
        /\ CompleteForTotal =>
              /\ ListTotal = ReviewTotal
              /\ ListTotal - Total(result.bonus_score) \in -Hundredth .. Hundredth
              /\ \A role \in Role : IsLocked(role) \/ sheet[role].status = "SUBMITTED"
        /\ MyTranscript # NoMark => MyTranscript = result.final_score

=============================================================================
