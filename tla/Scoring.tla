-------------------------------- MODULE Scoring --------------------------------
(***************************************************************************)
(* The grade of one project: five score sheets (the supervisor's, the       *)
(* external reviewer's and three of the committee), the scoring_results row *)
(* that is computed from them, and the transcript that is published.        *)
(*                                                                          *)
(* No handler but finalizeMeeting and issueScoreSheets opens a transaction, *)
(* and those read before it: what a handler read may be out of date when it *)
(* writes.  A handler arrives with its first read and takes a step for each *)
(* later group of statements.                                               *)
(*                                                                          *)
(* Marks and bonuses are in hundredths.  Weighted scores are in units of a  *)
(* fifteenth of a hundredth, in which the weights 40 %, 20 % and 40 % over  *)
(* three sheets are whole numbers; the error of the code's floating point   *)
(* numbers is left out.                                                     *)
(***************************************************************************)
EXTENDS Integers, FiniteSets

CONSTANTS
    Mark,           \* marks the teachers give in the instance, in hundredths
    Bonus,          \* bonus marks the secretary gives in the instance, in hundredths
    CHAIRMAN, SECRETARY, INTERNAL_REVIEWER,     \* roles in the committee
    Request,        \* handlers that can be in flight at the same time
    Scopes,         \* behaviours to explore: see scope below
    Faults,         \* TRUE: a handler may die between two of its writes
    NoMark, NoSheet, NoResult

Internal == {CHAIRMAN, SECRETARY, INTERNAL_REVIEWER}

Committee == Internal \cup {"EXTERNAL_REVIEWER"}
Role      == Committee \cup {"GVHD"}

ScoringStatus == {"PENDING", "IN_PROGRESS", "SUBMITTED", "FAILED", "PASSED"}
Completed     == {"SUBMITTED", "PASSED", "FAILED"}
FinalStatus   == {"NONE", "REJECTED_GVHD", "PASSED", "REJECTED_DEFENSE"}

ASSUME ScoringAssumption ==
    /\ Mark \subseteq 0 .. 1000 /\ Bonus \subseteq 0 .. 300
    /\ Internal \cap {"EXTERNAL_REVIEWER", "GVHD"} = {} /\ Cardinality(Internal) = 3
    /\ IsFiniteSet(Request)
    /\ \A x \in Scopes :
          /\ x.requests \subseteq Request /\ x.graded \in BOOLEAN
          /\ x.sent \in [Role -> SUBSET ScoringStatus]
    /\ Faults \in BOOLEAN
    /\ NoMark \notin Int

Hundredth == 15             \* units of a weighted score
Score     == 0 .. 1000 * Hundredth

Sheet  == [status : ScoringStatus, score : Mark \cup {NoMark}]
Result == [is_gvhd_passed : BOOLEAN, final_status : FinalStatus,
           final_score : Score \cup {NoMark}, is_final_passed : BOOLEAN,
           bonus_score : Bonus \cup {0}, is_published : BOOLEAN]

ASSUME AbsenceAssumption == NoSheet \notin Sheet /\ NoResult \notin Result

NewSheet  == [status |-> "PENDING", score |-> NoMark]
NewResult == [is_gvhd_passed |-> FALSE, final_status |-> "NONE", final_score |-> NoMark,
              is_final_passed |-> FALSE, bonus_score |-> 0, is_published |-> FALSE]

VARIABLES
    scope,      \* what this behaviour explores: handlers (ops), requests that may be in
                \* flight together (requests), whether all sheets are handed in (graded)
                \* and the statuses sent with updateScore for each role (sent)
    sheet,      \* independent_scores rows, one for each role
    result,     \* the scoring_results row
    pc,         \* where each handler is
    arg,        \* its input and the values it read
    byHand      \* history: updateScore has decided the supervisor's sheet

vars == <<scope, sheet, result, pc, arg, byHand>>

-----------------------------------------------------------------------------
(* What the rows say *)

Passing(mark) == mark >= 400

Graded(role) ==
    sheet[role] # NoSheet /\ sheet[role].status \in Completed /\ sheet[role].score # NoMark

AllGraded == \A role \in Role : Graded(role)

FinalStatusNow == IF result = NoResult THEN "NONE" ELSE result.final_status

\* Mutant: a meeting that ended with a failure does not count as finalised.
IsFinalized_PassedOnly == FinalStatusNow = "PASSED"

IsFinalized == FinalStatusNow \in {"PASSED", "REJECTED_DEFENSE"}

InternalSum(mark) == mark[CHAIRMAN] + mark[SECRETARY] + mark[INTERNAL_REVIEWER]

\* 40 % supervisor, 20 % external reviewer, 40 % mean of the other three.
Weighted(mark) == 6 * mark["GVHD"] + 3 * mark["EXTERNAL_REVIEWER"] + 2 * InternalSum(mark)

\* Math.round(n * 100) / 100.
Round2(n) == ((n + 7) \div Hundredth) * Hundredth

\* Mutant: the bonus may lift the score above ten.
Capped_Not(n) == n

\* Math.min(10, ...).
Capped(n) == IF n > 1000 * Hundredth THEN 1000 * Hundredth ELSE n

Marks == [role \in Role |-> sheet[role].score]

\* getScoreStageLockReason finds no reason: `seen` is the status of the sheet that
\* was read before.
StageUnlocked(role, seen) ==
    \/ role = "GVHD"
    \/ /\ FinalStatusNow # "REJECTED_GVHD" /\ ~IsFinalized
       /\ \/ seen \in {"SUBMITTED", "PASSED"}
          \/ /\ Graded("GVHD") /\ Passing(sheet["GVHD"].score)
             /\ role = "EXTERNAL_REVIEWER" \/ Graded("EXTERNAL_REVIEWER")

-----------------------------------------------------------------------------
(* Steps every handler is made of *)

NoArg == [op |-> "none", ids |-> {}]

\* `ids` are the roles whose sheet the handler holds by an id that still exists.
Begin(r, op, step, a) ==
    /\ op \in scope.ops /\ r \in scope.requests
    /\ pc[r] = "idle"
    /\ pc'  = [pc EXCEPT ![r] = step]
    /\ arg' = [arg EXCEPT ![r] = a]

At(r, op, step) == pc[r] = step /\ arg[r].op = op

Go(r, step) == pc' = [pc EXCEPT ![r] = step] /\ UNCHANGED arg

Finish(r) ==
    /\ pc'  = [pc EXCEPT ![r] = "idle"]
    /\ arg' = [arg EXCEPT ![r] = NoArg]

\* An assertion throws, an update by id finds no row, a unique index refuses one.
\* What the handler has written before stays.
Fail(r) ==
    /\ pc[r] # "idle"
    /\ pc[r] \in {"result", "create", "collect", "save"} =>
          Faults \/ (pc[r] = "create" /\ result # NoResult)
    /\ Finish(r)
    /\ UNCHANGED <<sheet, result>>

-----------------------------------------------------------------------------
(* issueScoreSheets, createScore, assignScoresToCommittee, deleteScore *)

\* The roles without a sheet; a project is a candidate once its submission is
\* approved and its committee complete, which is taken for granted here.
IssueRead(r) ==
    /\ Begin(r, "issue", "store",
             [op |-> "issue", ids |-> {}, roles |-> {role \in Role : sheet[role] = NoSheet}])
    /\ UNCHANGED <<sheet, result>>

CreateRead(r, role) ==
    /\ sheet[role] = NoSheet
    /\ Begin(r, "create", "store", [op |-> "create", ids |-> {}, roles |-> {role}])
    /\ UNCHANGED <<sheet, result>>

\* (project, teacher, type) is unique: the insert fails when the sheet has appeared.
SheetsWrite(r) ==
    /\ At(r, "issue", "store") \/ At(r, "create", "store")
    /\ \A role \in arg[r].roles : sheet[role] = NoSheet
    /\ sheet' = [role \in Role |-> IF role \in arg[r].roles THEN NewSheet ELSE sheet[role]]
    /\ Finish(r)
    /\ UNCHANGED result

\* One insert for the whole committee that skips duplicates.
AssignScoresToCommittee ==
    /\ "assign" \in scope.ops
    /\ \E role \in Committee : sheet[role] = NoSheet
    /\ sheet' = [role \in Role |-> IF role \in Committee /\ sheet[role] = NoSheet
                                   THEN NewSheet ELSE sheet[role]]
    /\ UNCHANGED <<result, pc, arg>>

DeleteRead(r, role) ==
    /\ sheet[role] # NoSheet /\ sheet[role].status # "SUBMITTED"
    /\ Begin(r, "delete", "store", [op |-> "delete", ids |-> {role}, role |-> role])
    /\ UNCHANGED <<sheet, result>>

\* Every other handler that holds the sheet's id will not find it any more.
DeleteWrite(r) ==
    /\ At(r, "delete", "store") /\ arg[r].role \in arg[r].ids
    /\ sheet' = [sheet EXCEPT ![arg[r].role] = NoSheet]
    /\ pc'  = [pc EXCEPT ![r] = "idle"]
    /\ arg' = [q \in Request |-> IF q = r THEN NoArg
                                 ELSE [arg[q] EXCEPT !.ids = @ \ {arg[r].role}]]
    /\ UNCHANGED result

-----------------------------------------------------------------------------
(* updateScore *)

\* The score or the status may be left out of the request; the teacher owns the
\* sheet.
UpdateRead(r, role, mark, status) ==
    /\ sheet[role] # NoSheet
    /\ Begin(r, "update", "check",
             [op |-> "update", ids |-> {role}, role |-> role, mark |-> mark,
              status |-> status, seen |-> sheet[role].status])
    /\ UNCHANGED <<sheet, result>>

UpdateCheck(r) ==
    /\ At(r, "update", "check")
    /\ StageUnlocked(arg[r].role, arg[r].seen)
    /\ arg[r].seen # "SUBMITTED"
    /\ Go(r, "store")
    /\ UNCHANGED <<sheet, result>>

UpdateWrite(r) ==
    /\ At(r, "update", "store") /\ arg[r].role \in arg[r].ids
    /\ LET a == arg[r]
       IN  sheet' = [sheet EXCEPT ![a.role] =
                       [status |-> IF a.status = "KEEP" THEN @.status ELSE a.status,
                        score  |-> IF a.mark = NoMark THEN @.score ELSE a.mark]]
    /\ Finish(r)
    /\ UNCHANGED result

-----------------------------------------------------------------------------
(* submitScore and updateScoringResult *)

SubmitRead(r, role, mark) ==
    /\ sheet[role] # NoSheet
    /\ Begin(r, "submit", "check",
             [op |-> "submit", ids |-> {role}, role |-> role, mark |-> mark,
              seen |-> sheet[role].status, preview |-> NoMark])
    /\ UNCHANGED <<sheet, result>>

MaySubmit(role, seen) ==
    /\ StageUnlocked(role, seen)
    /\ role \in Committee => FinalStatusNow # "REJECTED_GVHD"
    /\ seen # "SUBMITTED"

SubmitCheck(r) ==
    /\ At(r, "submit", "check")
    /\ MaySubmit(arg[r].role, arg[r].seen)
    /\ Go(r, "store")
    /\ UNCHANGED <<sheet, result>>

SubmitWrite(r) ==
    /\ At(r, "submit", "store") /\ arg[r].role \in arg[r].ids
    /\ sheet' = [sheet EXCEPT ![arg[r].role] =
                   [status |-> IF Passing(arg[r].mark) THEN "SUBMITTED" ELSE "FAILED",
                    score  |-> arg[r].mark]]
    /\ Go(r, "result")
    /\ UNCHANGED result

FindResult(r) ==
    /\ At(r, "submit", "result")
    /\ Go(r, IF result = NoResult THEN "create" ELSE "collect")
    /\ UNCHANGED <<sheet, result>>

\* project_id is unique: the insert fails when the row has appeared.
CreateResult(r) ==
    /\ At(r, "submit", "create") /\ result = NoResult
    /\ result' = NewResult
    /\ Go(r, "collect")
    /\ UNCHANGED sheet

\* The preview of the final score is computed when all five sheets are graded.
CollectScores(r) ==
    /\ At(r, "submit", "collect")
    /\ arg' = [arg EXCEPT ![r].preview = IF AllGraded THEN Capped(Round2(Weighted(Marks))) ELSE NoMark]
    /\ pc'  = [pc EXCEPT ![r] = "save"]
    /\ UNCHANGED <<sheet, result>>

SaveResult(r) ==
    /\ At(r, "submit", "save")
    /\ LET a == arg[r]
       IN  result' = [result EXCEPT
             !.is_gvhd_passed = IF a.role = "GVHD" THEN Passing(a.mark) ELSE @,
             !.final_status   = IF a.role = "GVHD" /\ ~Passing(a.mark) THEN "REJECTED_GVHD" ELSE @,
             !.final_score    = IF a.preview # NoMark THEN a.preview ELSE @]
    /\ Finish(r)
    /\ UNCHANGED sheet

-----------------------------------------------------------------------------
(* finalizeMeeting *)

FinalizeRead(r) ==
    /\ ~IsFinalized /\ FinalStatusNow # "REJECTED_GVHD"
    /\ result # NoResult => result.is_gvhd_passed
    /\ Begin(r, "finalize", "gvhd", [op |-> "finalize", ids |-> {}])
    /\ UNCHANGED <<sheet, result>>

FinalizeGvhd(r) ==
    /\ At(r, "finalize", "gvhd")
    /\ Graded("GVHD") /\ Passing(sheet["GVHD"].score)
    /\ arg' = [arg EXCEPT ![r] = [op |-> "finalize", ids |-> {}, gvhd |-> sheet["GVHD"].score]]
    /\ pc'  = [pc EXCEPT ![r] = "committee"]
    /\ UNCHANGED <<sheet, result>>

FinalizeCommittee(r) ==
    /\ At(r, "finalize", "committee")
    /\ \A role \in Committee : Graded(role)
    /\ arg' = [arg EXCEPT ![r] =
                 [op |-> "finalize", ids |-> Committee,
                  marks |-> [role \in Role |-> IF role = "GVHD" THEN arg[r].gvhd
                                               ELSE sheet[role].score]]]
    /\ pc'  = [pc EXCEPT ![r] = "store"]
    /\ UNCHANGED <<sheet, result>>

\* Mutant: the mean decides, a failing member does not.
Passed_ByMean(marks) == Weighted(marks) >= 400 * Hundredth

Passed(marks) == \A role \in Committee : Passing(marks[role])

\* One transaction; the bonus is not part of the score that is stored here, nor is the
\* score rounded.
FinalizeWrite(r) ==
    /\ At(r, "finalize", "store") /\ Committee \subseteq arg[r].ids
    /\ LET marks == arg[r].marks
       IN  /\ sheet' = [role \in Role |->
                 IF role = "GVHD" THEN sheet[role]
                 ELSE [sheet[role] EXCEPT !.status = IF Passing(marks[role]) THEN "PASSED" ELSE "FAILED"]]
           /\ result' =
                 [(IF result = NoResult THEN [NewResult EXCEPT !.is_gvhd_passed = TRUE] ELSE result)
                    EXCEPT !.final_score     = Capped(Weighted(marks)),
                           !.is_final_passed = Passed(marks),
                           !.final_status    = IF Passed(marks) THEN "PASSED" ELSE "REJECTED_DEFENSE"]
    /\ Finish(r)

-----------------------------------------------------------------------------
(* updateBonusScore, publishTranscript *)

\* buildTranscript does not throw.
TranscriptBuilds == IsFinalized /\ AllGraded

Total(bonus) == Capped(Round2(Weighted(Marks)) + Hundredth * bonus)

BonusRead(r, bonus) ==
    /\ TranscriptBuilds /\ ~result.is_published
    /\ Begin(r, "bonus", "store",
             [op |-> "bonus", ids |-> {}, bonus |-> bonus, final |-> Total(bonus),
              status |-> result.final_status])
    /\ UNCHANGED <<sheet, result>>

PublishRead(r) ==
    /\ TranscriptBuilds /\ ~result.is_published
    /\ Begin(r, "publish", "store",
             [op |-> "publish", ids |-> {}, final |-> Total(result.bonus_score),
              status |-> result.final_status])
    /\ UNCHANGED <<sheet, result>>

PassesWith(a) == a.status = "PASSED" /\ a.final >= 400 * Hundredth

BonusWrite(r) ==
    /\ At(r, "bonus", "store")
    /\ result' = [result EXCEPT !.bonus_score = arg[r].bonus, !.final_score = arg[r].final,
                                !.is_final_passed = PassesWith(arg[r])]
    /\ Finish(r)
    /\ UNCHANGED sheet

PublishWrite(r) ==
    /\ At(r, "publish", "store")
    /\ result' = [result EXCEPT !.final_score = arg[r].final, !.is_published = TRUE,
                                !.is_final_passed = PassesWith(arg[r])]
    /\ Finish(r)
    /\ UNCHANGED sheet

-----------------------------------------------------------------------------
Init ==
    /\ scope \in Scopes
    /\ IF scope.graded
       THEN sheet \in [Role -> [status : {"SUBMITTED"}, score : {mark \in Mark : Passing(mark)}]]
       ELSE sheet = [role \in Role |-> NoSheet]
    /\ result = IF scope.graded THEN [NewResult EXCEPT !.is_gvhd_passed = TRUE,
                                                      !.final_score = Capped(Round2(Weighted(Marks)))]
                ELSE NoResult
    /\ pc     = [r \in Request |-> "idle"]
    /\ arg    = [r \in Request |-> NoArg]
    /\ byHand = FALSE

Arrive(r) ==
    \/ IssueRead(r) \/ FinalizeRead(r) \/ PublishRead(r)
    \/ \E bonus \in Bonus : BonusRead(r, bonus)
    \/ \E role \in Role :
          \/ CreateRead(r, role) \/ DeleteRead(r, role)
          \/ \E mark \in Mark : SubmitRead(r, role, mark)
          \/ \E mark \in Mark \cup {NoMark}, status \in scope.sent[role] \cup {"KEEP"} :
                UpdateRead(r, role, mark, status)

Proceed(r) ==
    \/ SheetsWrite(r) \/ DeleteWrite(r)
    \/ UpdateCheck(r) \/ UpdateWrite(r)
    \/ SubmitCheck(r) \/ SubmitWrite(r) \/ FindResult(r) \/ CreateResult(r) \/ CollectScores(r) \/ SaveResult(r)
    \/ FinalizeGvhd(r) \/ FinalizeCommittee(r) \/ FinalizeWrite(r)
    \/ BonusWrite(r) \/ PublishWrite(r)

Next == (\E r \in scope.requests : Arrive(r) \/ Proceed(r) \/ Fail(r)) \/ AssignScoresToCommittee

\* The history notes that updateScore writes PASSED or FAILED on the supervisor's sheet,
\* which submitScore does not lock as it locks what was handed in.
Noted ==
    byHand' = \/ byHand
              \/ \E r \in Request : /\ UpdateWrite(r)
                                   /\ arg[r].role = "GVHD" /\ arg[r].status \in {"PASSED", "FAILED"}

Spec == Init /\ [][Next /\ Noted /\ UNCHANGED scope]_vars

-----------------------------------------------------------------------------
(* Properties *)

Arg ==
    LET Ids == SUBSET Role
        Status == ScoringStatus \cup {"KEEP"}
    IN  [op : {"none", "finalize"}, ids : Ids]
          \cup [op : {"issue", "create"}, ids : Ids, roles : SUBSET Role]
          \cup [op : {"delete"}, ids : Ids, role : Role]
          \cup [op : {"update"}, ids : Ids, role : Role, mark : Mark \cup {NoMark},
                status : Status, seen : ScoringStatus]
          \cup [op : {"submit"}, ids : Ids, role : Role, mark : Mark, seen : ScoringStatus,
                preview : Score \cup {NoMark}]
          \cup [op : {"finalize"}, ids : Ids, gvhd : Mark]
          \cup [op : {"finalize"}, ids : Ids, marks : [Role -> Mark]]
          \cup [op : {"bonus"}, ids : Ids, bonus : Bonus, final : Score, status : FinalStatus]
          \cup [op : {"publish"}, ids : Ids, final : Score, status : FinalStatus]

\* Type invariant; the final score stays between 0 and 10 marks.
TypeOK ==
    /\ sheet \in [Role -> Sheet \cup {NoSheet}]
    /\ result \in Result \cup {NoResult}
    /\ pc \in [Request -> {"idle", "check", "store", "result", "create", "collect", "save",
                           "gvhd", "committee"}]
    /\ arg \in [Request -> Arg]

\* With requests one after the other that end, and as long as updateScore has not decided
\* the supervisor's sheet: a finalised grade is the one the sheets give, with the bonus, to
\* the hundredth, and it passes only if every mark passes.  (finalizeMeeting,
\* updateBonusScore, publishTranscript and the locks that keep the sheets as they were.)
GradeFollowsSheets ==
    ~byHand /\ TranscriptBuilds =>
        /\ Round2(result.final_score) = Total(result.bonus_score)
        /\ result.is_final_passed <=> \A role \in Role : Passing(sheet[role].score)

DecisionStands ==
    ~byHand' /\ result # NoResult =>
        /\ FinalStatusNow # "NONE" => result'.final_status = result.final_status
        /\ result.is_published => result' = result

\* Under the same conditions what is decided stays decided: a project the supervisor
\* rejected is never graded, a finalised status never changes, and a published grade is
\* not touched.
DecisionsStand == [][DecisionStands]_vars

=============================================================================
