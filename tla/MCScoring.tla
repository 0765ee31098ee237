------------------------------- MODULE MCScoring -------------------------------
(* Instances of Scoring, Transcripts and PostDefense for TLC. *)
EXTENDS PostDefense, TLC

CONSTANTS r1, o1, o2, mine

OneRequest == {r1}

\* The three internal members are treated alike.
ScoringSymmetry == Permutations(Internal)

\* One project has the score of `mine` when nobody gives a bonus.
Scores == o1 :> 800 * Hundredth @@ o2 :> 900 * Hundredth

\* The grading from the first sheet to the publication. No guard tells IN_PROGRESS
\* from PENDING, so updateScore sends it for the two sheets outside the meeting only.
Grading == [ops |-> {"issue", "create", "assign", "delete", "update", "submit", "finalize", "bonus",
                     "publish"},
            requests |-> {r1}, graded |-> FALSE,
            sent |-> [role \in Role |-> IF role \in Internal THEN {} ELSE {"IN_PROGRESS"}]]

\* The meeting, the publication and what follows, from five sheets handed in.
Ranking == [ops |-> {"finalize", "bonus", "publish", "rank", "place", "window", "revise"},
            requests |-> {r1}, graded |-> TRUE, sent |-> [role \in Role |-> {}]]

\* Teachers who set the status of a sheet themselves, with a mark or without one.
Deciding == [ops |-> {"issue", "update", "submit", "finalize", "bonus", "publish"},
             requests |-> {r1}, graded |-> FALSE,
             sent |-> [role \in Role |-> IF role = "EXTERNAL_REVIEWER" THEN {"SUBMITTED", "FAILED"} ELSE {"PASSED"}]]

ThreeScopes == {Grading, Ranking, Deciding}

=============================================================================
