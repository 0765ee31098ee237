------------------------------ MODULE PostDefense ------------------------------
(***************************************************************************)
(* After the defense: the ranking of the projects that passed and were      *)
(* published, and the revisions students hand in.  One project is graded    *)
(* by Scoring, the others of the year were published before; the ranking    *)
(* reads final_score, final_status and is_published of all of them.         *)
(*                                                                          *)
(* computeRankings reads the results, then updates all of them in one       *)
(* transaction; updateRank and submitRevision read, then write.             *)
(***************************************************************************)
EXTENDS Transcripts, SequencesExt

CONSTANTS
    Mine,           \* the project that is graded
    OtherScore,     \* final scores of the other projects
    MaxPlace,       \* places the secretary sets in the instance
    MaxRevisions,   \* revisions handed in in the instance
    NoPlace

ASSUME PostDefenseAssumption ==
    /\ IsFiniteSet(DOMAIN OtherScore) /\ Mine \notin DOMAIN OtherScore
    /\ \A p \in DOMAIN OtherScore : OtherScore[p] \in Score
    /\ MaxPlace \in Nat \ {0} /\ MaxRevisions \in Nat /\ NoPlace \notin Nat

Other   == DOMAIN OtherScore
Project == Other \cup {Mine}
Place   == [rank : Nat \cup {NoPlace}, rank_override : (1 .. MaxPlace) \cup {NoPlace}]

VARIABLES
    place,          \* rank and rank_override of each result
    late,           \* the revision deadline of the graded project has passed
    revisions,      \* its thesis_revisions
    desk            \* what each request of this module has read

post == <<place, late, revisions, desk>>

allVars == <<vars, post>>

Listed == {p \in Project : p = Mine => Published /\ result.final_status = "PASSED"}

FinalScore(p) == IF p = Mine THEN result.final_score ELSE OtherScore[p]

-----------------------------------------------------------------------------
(* Requests *)

NoDesk == [op |-> "none"]

Free(r, op) ==
    /\ op \in scope.ops /\ r \in scope.requests
    /\ desk[r] = NoDesk /\ pc[r] = "idle"

Take(r, a) == desk' = [desk EXCEPT ![r] = a]

Leave(r) == desk' = [desk EXCEPT ![r] = NoDesk]

\* A request breaks off before its one write.
BreakOff(r) == desk[r] # NoDesk /\ Leave(r) /\ UNCHANGED <<place, late, revisions>>

-----------------------------------------------------------------------------
(* computeRankings, updateRank *)

ComputeRead(r) ==
    /\ Free(r, "rank")
    /\ Take(r, [op |-> "rank",
                rows |-> [p \in Listed |-> [score |-> FinalScore(p),
                                            rank_override |-> place[p].rank_override]]])
    /\ UNCHANGED <<place, late, revisions>>

\* Mutant: by rising score.
AutoRanked_Rising(rows) ==
    {order \in SetToSeqs({p \in DOMAIN rows : rows[p].rank_override = NoPlace}) :
        \A i, j \in DOMAIN order : i < j => rows[order[i]].score <= rows[order[j]].score}

\* Projects by falling score; the sort leaves those of one score in any order.
AutoRanked(rows) ==
    {order \in SetToSeqs({p \in DOMAIN rows : rows[p].rank_override = NoPlace}) :
        \A i, j \in DOMAIN order : i < j => rows[order[i]].score >= rows[order[j]].score}

TakenSlots(rows) == {rows[p].rank_override : p \in DOMAIN rows} \ {NoPlace}

\* The first n slots that are free: the cursor stops at the i-th when it has passed i - 1.
Cursor(taken, n) ==
    [i \in 1 .. n |-> CHOOSE k \in 1 .. (n + Cardinality(taken)) :
                         k \notin taken /\ Cardinality((1 .. k) \ taken) = i]

RankByProject(rows, order) ==
    LET slots == Cursor(TakenSlots(rows), Len(order))
    IN  [p \in DOMAIN rows |-> IF rows[p].rank_override # NoPlace THEN rows[p].rank_override
                               ELSE slots[CHOOSE i \in DOMAIN order : order[i] = p]]

ComputeRankings(r) ==
    /\ desk[r].op = "rank"
    /\ LET rows == desk[r].rows
       IN  \E order \in AutoRanked(rows) :
              place' = [p \in Project |-> IF p \in DOMAIN rows
                                          THEN [place[p] EXCEPT !.rank = RankByProject(rows, order)[p]]
                                          ELSE place[p]]
    /\ Leave(r)
    /\ UNCHANGED <<late, revisions>>

\* Any result may be given a place, listed or not.
RankRead(r, p, n) ==
    /\ Free(r, "place")
    /\ p = Mine => result # NoResult
    /\ Take(r, [op |-> "place", project |-> p, n |-> n])
    /\ UNCHANGED <<place, late, revisions>>

UpdateRank(r) ==
    /\ desk[r].op = "place"
    /\ place' = [place EXCEPT ![desk[r].project] = [rank |-> desk[r].n, rank_override |-> desk[r].n]]
    /\ Leave(r)
    /\ UNCHANGED <<late, revisions>>

-----------------------------------------------------------------------------
(* setRevisionWindow, submitRevision *)

\* A deadline in the past is taken as well.
SetRevisionWindow(r, passed) ==
    /\ Free(r, "window")
    /\ result # NoResult
    /\ late' = passed
    /\ UNCHANGED <<place, revisions, desk>>

\* Fourteen days after the publication, or what setRevisionWindow gave.
DeadlinePasses ==
    /\ "window" \in scope.ops
    /\ Published /\ ~late /\ late' = TRUE
    /\ UNCHANGED <<place, revisions, desk>>

MayRevise == Published /\ ~late

RevisionRead(r) ==
    /\ Free(r, "revise")
    /\ MayRevise
    /\ Take(r, [op |-> "revise"])
    /\ UNCHANGED <<place, late, revisions>>

SubmitRevision(r) ==
    /\ desk[r].op = "revise"
    /\ revisions < MaxRevisions
    /\ revisions' = revisions + 1
    /\ Leave(r)
    /\ UNCHANGED <<place, late>>

-----------------------------------------------------------------------------
(* The specification *)

PostInit ==
    /\ Init
    /\ place = [p \in Project |-> [rank |-> NoPlace, rank_override |-> NoPlace]]
    /\ late = FALSE
    /\ revisions = 0
    /\ desk = [r \in Request |-> NoDesk]

PostArrive(r) ==
    \/ ComputeRead(r)
    \/ \E p \in Project, n \in 1 .. MaxPlace : RankRead(r, p, n)
    \/ \E passed \in BOOLEAN : SetRevisionWindow(r, passed)
    \/ RevisionRead(r)

PostProceed(r) == ComputeRankings(r) \/ UpdateRank(r) \/ SubmitRevision(r) \/ BreakOff(r)

\* A request is of one module at a time.
PostNext ==
    \/ /\ Next /\ Noted
       /\ \A r \in Request : pc'[r] # "idle" => desk[r] = NoDesk
       /\ UNCHANGED <<scope, post>>
    \/ /\ DeadlinePasses \/ \E r \in Request : PostArrive(r) \/ PostProceed(r)
       /\ UNCHANGED vars

PostSpec == PostInit /\ [][PostNext]_allVars

-----------------------------------------------------------------------------
(* Properties *)

\* Type invariant: that of Scoring, the types of the history and of this module's variables; what has a
\* place by hand is ranked, and what was revised had been published.
PostTypeOK ==
    /\ TypeOK
    /\ place \in [Project -> Place]
    /\ late \in BOOLEAN /\ revisions \in 0 .. MaxRevisions /\ byHand \in BOOLEAN
    /\ \A p \in Project : place[p].rank_override # NoPlace => place[p].rank # NoPlace
    /\ revisions > 0 => Published

OneByOne == Cardinality(scope.requests) = 1

\* With requests one after the other, and as long as updateScore has not decided the
\* supervisor's sheet, those who have no place of the secretary's are ranked by score, nobody shares a place among them, and whoever of them is ranked by a run stays
\* where the scores put him against the others, whatever is set by hand, published or ranked
\* again meanwhile.
RanksFollowScores ==
    OneByOne /\ ~byHand =>
        \A p, q \in {x \in Listed : place[x].rank_override = NoPlace /\ place[x].rank # NoPlace} :
            /\ FinalScore(p) > FinalScore(q) => place[p].rank < place[q].rank
            /\ place[p].rank = place[q].rank => p = q

\* With requests one after the other, a run of the ranking leaves every place of the
\* secretary's as it is and gives the others the first places that nobody holds, so that
\* no two share one unless the secretary made them.
RankingFillsFreePlaces ==
    \A r \in Request :
        OneByOne /\ desk[r].op = "rank" /\ desk'[r] = NoDesk /\ place' # place =>
           LET fixed == {p \in Listed : place[p].rank_override # NoPlace}
               held  == {place[p].rank_override : p \in fixed}
               given == {place'[p].rank : p \in Listed \ fixed}
           IN  /\ \A p \in fixed : place'[p] = [place[p] EXCEPT !.rank = place[p].rank_override]
               /\ given \cap held = {}
               /\ \A n \in given : \A k \in 1 .. n : k \in given \cup held

\* Every step leaves the ranking such: the scores order it and its places are filled.
RankingSound == [][RanksFollowScores' /\ RankingFillsFreePlaces]_allVars

=============================================================================
