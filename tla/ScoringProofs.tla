---------------------------- MODULE ScoringProofs ----------------------------
(***************************************************************************)
(* Theorems of Scoring, Transcripts and PostDefense, for any marks, number  *)
(* of projects and number of requests in flight; about the grade and the    *)
(* ranking with requests one after the other that end (Undisturbed).        *)
(***************************************************************************)
EXTENDS PostDefense, FiniteSetTheorems, TLAPS

\* Requests come one by one and none dies between its writes.
Undisturbed ==
    /\ \A x \in Scopes : Cardinality(x.requests) = 1
    /\ ~Faults

-----------------------------------------------------------------------------
(* With any overlap *)

Step == {"idle", "check", "store", "result", "create", "collect", "save", "gvhd", "committee"}

\* The steps of a submission that has written its sheet and not yet the result.
Settling == {"result", "create", "collect", "save"}

Present == {role \in Role : sheet[role] # NoSheet}

\* A handler has the sheets it holds by an id; one that writes to the result has that.
Held(q) ==
    /\ pc[q] # "idle" => q \in scope.requests
    /\ arg[q].ids \subseteq Present
    /\ pc[q] = "committee" => arg[q] \in [op : {"finalize"}, ids : SUBSET Role, gvhd : Mark]
    /\ pc[q] = "store" /\ arg[q].op = "finalize" =>
          arg[q] \in [op : {"finalize"}, ids : SUBSET Role, marks : [Role -> Mark]]
    /\ pc[q] \in {"collect", "save"} \/ (pc[q] = "store" /\ arg[q].op \in {"bonus", "publish"})
          => result # NoResult

Inv == scope \in Scopes /\ TypeOK /\ \A q \in Request : Held(q)

DeskHeld(q) ==
    /\ desk[q].op = "rank" =>
          /\ DOMAIN desk[q].rows \subseteq Project
          /\ \A p \in DOMAIN desk[q].rows : desk[q].rows[p].rank_override \in 1 .. MaxPlace \cup {NoPlace}
    /\ desk[q].op = "place" => desk[q].project \in Project /\ desk[q].n \in 1 .. MaxPlace
    /\ desk[q].op = "revise" => Published

PostInv ==
    /\ Inv /\ PostTypeOK
    /\ desk = [q \in Request |-> desk[q]]
    /\ \A q \in Request : DeskHeld(q)

-----------------------------------------------------------------------------
(* With requests one by one *)

\* A finalised project has a supervisor's sheet that is handed in and passes; a sheet that
\* failed has the project rejected, or is about to.
SupervisorHolds ==
    /\ sheet["GVHD"] # NoSheet => sheet["GVHD"].status # "PASSED"
    /\ IsFinalized => Graded("GVHD") /\ sheet["GVHD"].status = "SUBMITTED" /\ Passing(sheet["GVHD"].score)
    /\ sheet["GVHD"] # NoSheet /\ sheet["GVHD"].status = "FAILED" =>
          \/ FinalStatusNow = "REJECTED_GVHD"
          \/ \E q \in Request : pc[q] \in Settling /\ arg[q].role = "GVHD" /\ ~Passing(arg[q].mark)

\* A finalised grade is what the meeting stored or what bonus and publication made of it.
GradeHolds ==
    TranscriptBuilds =>
        /\ \/ result.final_score = Total(result.bonus_score)
           \/ /\ result.final_score = Capped(Weighted(Marks))
              /\ result.bonus_score = 0 /\ ~result.is_published
        /\ result.is_final_passed <=> \A role \in Role : Passing(sheet[role].score)
        /\ result.final_status = "PASSED" <=> \A role \in Committee : Passing(sheet[role].score)

Undecided == result # NoResult /\ ~IsFinalized => result.bonus_score = 0 /\ ~result.is_published

\* What a handler has read and checked is so until it has written.
Current(q) ==
    /\ pc[q] = "check" /\ arg[q].role \in arg[q].ids => sheet[arg[q].role].status = arg[q].seen
    /\ pc[q] = "store" /\ arg[q].op = "delete" /\ arg[q].role \in arg[q].ids =>
          sheet[arg[q].role].status # "SUBMITTED"
    /\ pc[q] = "store" /\ arg[q].op \in {"update", "submit"} /\ arg[q].role \in arg[q].ids => ~IsFinalized
    /\ pc[q] \in Settling => ~IsFinalized
    /\ pc[q] = "create" => result = NoResult
    /\ pc[q] \in {"gvhd", "committee"} \/ (pc[q] = "store" /\ arg[q].op = "finalize") => FinalStatusNow = "NONE"
    /\ pc[q] = "committee" => Graded("GVHD") /\ Passing(arg[q].gvhd) /\ sheet["GVHD"].score = arg[q].gvhd
    /\ pc[q] = "store" /\ arg[q].op = "finalize" =>
          /\ Passing(arg[q].marks["GVHD"])
          /\ \A role \in Role : Graded(role) /\ sheet[role].score = arg[q].marks[role]
    /\ pc[q] = "store" /\ arg[q].op \in {"bonus", "publish"} =>
          /\ TranscriptBuilds /\ ~result.is_published /\ arg[q].status = result.final_status
          /\ arg[q].final = Total(IF arg[q].op = "bonus" THEN arg[q].bonus ELSE result.bonus_score)

GradeInv == SupervisorHolds /\ GradeHolds /\ Undecided /\ \A q \in Request : Current(q)

\* It holds as long as updateScore has not decided the supervisor's sheet.
GradeKept == ~byHand => GradeInv

\* A request that has something on the desk is in no handler of the grading.
DeskAlone == \A q \in Request : desk[q] # NoDesk => q \in scope.requests /\ pc[q] = "idle"

Scored == IsFinalized => result.final_score \in Score

\* The graded project has a place of the ranking's only once it is listed.
MineRanked == ~byHand /\ place[Mine].rank # NoPlace /\ place[Mine].rank_override = NoPlace => Mine \in Listed

Rows == [p \in Listed |-> [score |-> FinalScore(p), rank_override |-> place[p].rank_override]]

\* The desk shows what is listed.
DeskCurrent == \A q \in Request : desk[q].op = "rank" => desk[q].rows = Rows

RankInv == DeskAlone /\ Scored /\ MineRanked /\ DeskCurrent /\ RanksFollowScores

-----------------------------------------------------------------------------
(* Marks and scores *)

LEMMA RoundIs ==
    ASSUME NEW n \in Nat
    PROVE  \E k \in Nat : Round2(n) = 15 * k /\ 15 * k <= n + 7 /\ n + 7 < 15 * k + 15
<1>1. \E k \in Nat : (n + 7) \div 15 = k /\ 15 * k <= n + 7 /\ n + 7 < 15 * k + 15
  OBVIOUS
<1> QED
  BY <1>1 DEF Round2, Hundredth

LEMMA RoundNat ==
    ASSUME NEW n \in Nat
    PROVE  Round2(n) \in Nat
<1>1. PICK k \in Nat : Round2(n) = 15 * k
  BY RoundIs
<1> QED
  BY <1>1

LEMMA CappedIs ==
    ASSUME NEW n \in Nat
    PROVE  Capped(n) \in Score /\ Capped(n) \in Nat
BY DEF Capped, Score, Hundredth

LEMMA MarkNat == Mark \subseteq Nat /\ NoMark \notin Mark /\ NoMark \notin Score /\ NoMark \notin Nat /\ (Bonus \cup {0}) \subseteq Nat
<1>1. Mark \subseteq 0 .. 1000 /\ Bonus \subseteq 0 .. 300 /\ NoMark \notin Int
  BY ScoringAssumption
<1>2. Score \subseteq Int
  BY DEF Score, Hundredth
<1>3. Mark \subseteq Nat /\ (Bonus \cup {0}) \subseteq Nat
  BY <1>1
<1>4. Mark \subseteq Int /\ Nat \subseteq Int
  BY <1>3
<1>5. \A S : S \subseteq Int => NoMark \notin S
  BY <1>1
<1> QED
  BY <1>2, <1>3, <1>4, <1>5

LEMMA WeightedIs ==
    ASSUME NEW marks \in [Role -> Mark]
    PROVE  Weighted(marks) \in Nat
<1>1. /\ marks[CHAIRMAN] \in Nat /\ marks[SECRETARY] \in Nat /\ marks[INTERNAL_REVIEWER] \in Nat
      /\ marks["GVHD"] \in Nat /\ marks["EXTERNAL_REVIEWER"] \in Nat
  BY MarkNat DEF Role, Committee, Internal
<1> QED
  BY <1>1 DEF Weighted, InternalSum

LEMMA GradedMark ==
    ASSUME TypeOK, NEW role \in Role, Graded(role)
    PROVE  sheet[role] \in Sheet /\ sheet[role].score \in Mark
<1>1. sheet[role] \in Sheet
  BY DEF TypeOK, Graded
<1> QED
  BY <1>1 DEF Sheet, Graded

LEMMA MarksIs ==
    ASSUME TypeOK, AllGraded
    PROVE  Marks \in [Role -> Mark] /\ \A role \in Role : Marks[role] = sheet[role].score
BY GradedMark DEF AllGraded, Marks

LEMMA TotalIs ==
    ASSUME TypeOK, AllGraded, NEW bonus \in Bonus \cup {0}
    PROVE  Total(bonus) \in Score /\ Capped(Round2(Weighted(Marks))) \in Score
<1>1. PICK n \in Nat : n = Round2(Weighted(Marks))
  BY MarksIs, WeightedIs, RoundNat
<1>2. n + Hundredth * bonus \in Nat
  BY MarkNat DEF Hundredth
<1> QED
  BY <1>1, <1>2, CappedIs DEF Total

-----------------------------------------------------------------------------
(* Steps *)

OnlyAt(r) ==
    /\ pc'  = [pc EXCEPT ![r] = pc'[r]]
    /\ arg' = [arg EXCEPT ![r] = arg'[r]]

LEMMA Begun ==
    ASSUME Inv, NEW r \in Request, NEW op, NEW step, NEW a, Begin(r, op, step, a)
    PROVE  OnlyAt(r) /\ pc[r] = "idle" /\ pc'[r] = step /\ arg'[r] = a /\ r \in scope.requests
BY DEF Begin, OnlyAt, Inv, TypeOK

LEMMA Gone ==
    ASSUME Inv, NEW r \in Request, NEW step, Go(r, step)
    PROVE  OnlyAt(r) /\ pc'[r] = step /\ arg'[r] = arg[r] /\ arg' = arg
BY DEF Go, OnlyAt, Inv, TypeOK

LEMMA Finished ==
    ASSUME Inv, NEW r \in Request, Finish(r)
    PROVE  OnlyAt(r) /\ pc'[r] = "idle" /\ arg'[r] = NoArg
BY DEF Finish, OnlyAt, Inv, TypeOK

LEMMA HeldIdle ==
    ASSUME NEW r \in Request, pc'[r] = "idle", arg'[r] = NoArg
    PROVE  Held(r)' /\ arg'[r] \in Arg
<1>1. NoArg.ids = {} /\ NoArg.op = "none"
  BY DEF NoArg
<1>2. NoArg \in [op : {"none", "finalize"}, ids : SUBSET Role]
  BY DEF NoArg
<1> QED
  BY <1>1, <1>2 DEF Held, Arg

\* A handler steps; sheets and result, where there were any, are still there.
LEMMA SteppedInv ==
    ASSUME Inv, NEW r \in Request, OnlyAt(r), scope' = scope,
           sheet' \in [Role -> Sheet \cup {NoSheet}], Present \subseteq Present',
           result' \in Result \cup {NoResult}, result # NoResult => result' # NoResult,
           pc'[r] \in Step, arg'[r] \in Arg, Held(r)'
    PROVE  Inv'
<1>1. pc' \in [Request -> Step] /\ arg' \in [Request -> Arg]
  BY DEF Inv, TypeOK, OnlyAt, Step
<1>2. ASSUME NEW q \in Request, q # r PROVE Held(q)'
  <2>1. pc'[q] = pc[q] /\ arg'[q] = arg[q] /\ Held(q)
    BY <1>2 DEF Inv, TypeOK, OnlyAt
  <2> QED
    BY <2>1 DEF Held
<1>3. \A q \in Request : Held(q)'
  BY <1>2
<1> QED
  BY <1>1, <1>3 DEF Inv, TypeOK, Step

LEMMA ArrivedInv ==
    ASSUME Inv, NEW r \in Request, scope' = scope, sheet' = sheet, result' = result,
           NEW op, NEW step, NEW a, Begin(r, op, step, a),
           step \in {"store", "check", "gvhd"}, a \in Arg, a.ids \subseteq Present,
           step = "store" => a.op # "finalize" /\ (a.op \in {"bonus", "publish"} => result # NoResult)
    PROVE  Inv'
<1>1. OnlyAt(r) /\ pc'[r] = step /\ arg'[r] = a /\ r \in scope.requests
  BY Begun
<1>2. Present' = Present
  BY DEF Present
<1>3. Held(r)'
  BY <1>1, <1>2 DEF Held
<1> QED
  BY <1>1, <1>2, <1>3, SteppedInv DEF Inv, TypeOK, Step

LEMMA IssueReadInv ==
    ASSUME Inv, NEW r \in Request, scope' = scope, IssueRead(r)
    PROVE  Inv'
<1> DEFINE a == [op |-> "issue", ids |-> {}, roles |-> {role \in Role : sheet[role] = NoSheet}]
<1>1. Begin(r, "issue", "store", a) /\ sheet' = sheet /\ result' = result
  BY DEF IssueRead
<1>2. a \in Arg /\ a.ids = {} /\ a.op = "issue"
  BY DEF Arg
<1> HIDE DEF a
<1> QED
  BY <1>1, <1>2, ArrivedInv

LEMMA CreateReadInv ==
    ASSUME Inv, NEW r \in Request, NEW role \in Role, scope' = scope, CreateRead(r, role)
    PROVE  Inv'
<1> DEFINE a == [op |-> "create", ids |-> {}, roles |-> {role}]
<1>1. Begin(r, "create", "store", a) /\ sheet' = sheet /\ result' = result
  BY DEF CreateRead
<1>2. a \in Arg /\ a.ids = {} /\ a.op = "create"
  BY DEF Arg
<1> HIDE DEF a
<1> QED
  BY <1>1, <1>2, ArrivedInv

LEMMA DeleteReadInv ==
    ASSUME Inv, NEW r \in Request, NEW role \in Role, scope' = scope, DeleteRead(r, role)
    PROVE  Inv'
<1> DEFINE a == [op |-> "delete", ids |-> {role}, role |-> role]
<1>1. Begin(r, "delete", "store", a) /\ sheet' = sheet /\ result' = result /\ sheet[role] # NoSheet
  BY DEF DeleteRead
<1>2. a \in Arg /\ a.ids = {role} /\ a.op = "delete"
  BY DEF Arg
<1>3. a.ids \subseteq Present
  BY <1>1, <1>2 DEF Present
<1> HIDE DEF a
<1> QED
  BY <1>1, <1>2, <1>3, ArrivedInv

LEMMA UpdateReadInv ==
    ASSUME Inv, NEW r \in Request, NEW role \in Role, NEW mark \in Mark \cup {NoMark},
           NEW status \in ScoringStatus \cup {"KEEP"}, scope' = scope, UpdateRead(r, role, mark, status)
    PROVE  Inv'
<1> DEFINE a == [op |-> "update", ids |-> {role}, role |-> role, mark |-> mark,
                 status |-> status, seen |-> sheet[role].status]
<1>1. Begin(r, "update", "check", a) /\ sheet' = sheet /\ result' = result /\ sheet[role] # NoSheet
  BY DEF UpdateRead
<1>2. sheet[role].status \in ScoringStatus
  BY <1>1 DEF Inv, TypeOK, Sheet
<1>3. a \in Arg /\ a.ids = {role} /\ a.op = "update"
  BY <1>2 DEF Arg
<1>4. a.ids \subseteq Present
  BY <1>1, <1>3 DEF Present
<1> HIDE DEF a
<1> QED
  BY <1>1, <1>3, <1>4, ArrivedInv

LEMMA SubmitReadInv ==
    ASSUME Inv, NEW r \in Request, NEW role \in Role, NEW mark \in Mark, scope' = scope, SubmitRead(r, role, mark)
    PROVE  Inv'
<1> DEFINE a == [op |-> "submit", ids |-> {role}, role |-> role, mark |-> mark,
                 seen |-> sheet[role].status, preview |-> NoMark]
<1>1. Begin(r, "submit", "check", a) /\ sheet' = sheet /\ result' = result /\ sheet[role] # NoSheet
  BY DEF SubmitRead
<1>2. sheet[role].status \in ScoringStatus
  BY <1>1 DEF Inv, TypeOK, Sheet
<1>3. a \in Arg /\ a.ids = {role} /\ a.op = "submit"
  BY <1>2 DEF Arg
<1>4. a.ids \subseteq Present
  BY <1>1, <1>3 DEF Present
<1> HIDE DEF a
<1> QED
  BY <1>1, <1>3, <1>4, ArrivedInv

LEMMA FinalizeReadInv ==
    ASSUME Inv, NEW r \in Request, scope' = scope, FinalizeRead(r)
    PROVE  Inv'
<1> DEFINE a == [op |-> "finalize", ids |-> {}]
<1>1. Begin(r, "finalize", "gvhd", a) /\ sheet' = sheet /\ result' = result
  BY DEF FinalizeRead
<1>2. a \in Arg /\ a.ids = {} /\ a.op = "finalize"
  BY DEF Arg
<1> HIDE DEF a
<1> QED
  BY <1>1, <1>2, ArrivedInv

LEMMA BuildsIs ==
    ASSUME Inv, TranscriptBuilds
    PROVE  result # NoResult /\ result \in Result /\ AllGraded /\ result.bonus_score \in Bonus \cup {0}
           /\ result.final_status \in FinalStatus
<1>1. result # NoResult /\ AllGraded
  BY DEF TranscriptBuilds, IsFinalized, FinalStatusNow
<1>2. result \in Result
  BY <1>1 DEF Inv, TypeOK
<1> QED
  BY <1>1, <1>2 DEF Result

LEMMA BonusReadInv ==
    ASSUME Inv, NEW r \in Request, NEW bonus \in Bonus, scope' = scope, BonusRead(r, bonus)
    PROVE  Inv'
<1> DEFINE a == [op |-> "bonus", ids |-> {}, bonus |-> bonus, final |-> Total(bonus),
                 status |-> result.final_status]
<1>1. Begin(r, "bonus", "store", a) /\ sheet' = sheet /\ result' = result /\ TranscriptBuilds
  BY DEF BonusRead
<1>2. Total(bonus) \in Score /\ result.final_status \in FinalStatus /\ result # NoResult
  BY <1>1, BuildsIs, TotalIs DEF Inv
<1>3. a \in Arg /\ a.ids = {} /\ a.op = "bonus"
  BY <1>2 DEF Arg
<1> HIDE DEF a
<1> QED
  BY <1>1, <1>2, <1>3, ArrivedInv

LEMMA PublishReadInv ==
    ASSUME Inv, NEW r \in Request, scope' = scope, PublishRead(r)
    PROVE  Inv'
<1> DEFINE a == [op |-> "publish", ids |-> {}, final |-> Total(result.bonus_score),
                 status |-> result.final_status]
<1>1. Begin(r, "publish", "store", a) /\ sheet' = sheet /\ result' = result /\ TranscriptBuilds
  BY DEF PublishRead
<1>2. Total(result.bonus_score) \in Score /\ result.final_status \in FinalStatus /\ result # NoResult
  BY <1>1, BuildsIs, TotalIs DEF Inv
<1>3. a \in Arg /\ a.ids = {} /\ a.op = "publish"
  BY <1>2 DEF Arg
<1> HIDE DEF a
<1> QED
  BY <1>1, <1>2, <1>3, ArrivedInv

\* A sheet is written that is there.
LEMMA SheetWritten ==
    ASSUME Inv, NEW role \in Role, NEW row \in Sheet, sheet' = [sheet EXCEPT ![role] = row]
    PROVE  /\ sheet' \in [Role -> Sheet \cup {NoSheet}] /\ Present \subseteq Present'
           /\ sheet'[role] = row /\ \A other \in Role \ {role} : sheet'[other] = sheet[other]
<1>1. /\ sheet' \in [Role -> Sheet \cup {NoSheet}]
      /\ sheet'[role] = row /\ \A other \in Role \ {role} : sheet'[other] = sheet[other]
  BY DEF Inv, TypeOK
<1>2. row # NoSheet
  BY AbsenceAssumption
<1> QED
  BY <1>1, <1>2 DEF Present

LEMMA NewSheetIs == NewSheet \in Sheet /\ NewSheet # NoSheet /\ NewSheet.status = "PENDING" /\ NewSheet.score = NoMark
<1>1. NewSheet \in Sheet /\ NewSheet.status = "PENDING" /\ NewSheet.score = NoMark
  BY DEF NewSheet, Sheet, ScoringStatus
<1> QED
  BY <1>1, AbsenceAssumption

LEMMA SheetsMade ==
    ASSUME Inv, NEW roles, \A role \in Role \cap roles : sheet[role] = NoSheet,
           sheet' = [role \in Role |-> IF role \in roles THEN NewSheet ELSE sheet[role]]
    PROVE  /\ sheet' \in [Role -> Sheet \cup {NoSheet}] /\ Present \subseteq Present'
           /\ \A role \in Role : sheet'[role] = sheet[role] \/ (sheet[role] = NoSheet /\ sheet'[role] = NewSheet)
BY NewSheetIs DEF Inv, TypeOK, Present

LEMMA SheetsWriteInv ==
    ASSUME Inv, NEW r \in Request, scope' = scope, SheetsWrite(r)
    PROVE  Inv'
<1>1. /\ \A role \in arg[r].roles : sheet[role] = NoSheet
      /\ sheet' = [role \in Role |-> IF role \in arg[r].roles THEN NewSheet ELSE sheet[role]]
      /\ Finish(r) /\ result' = result
  BY DEF SheetsWrite
<1>2. sheet' \in [Role -> Sheet \cup {NoSheet}] /\ Present \subseteq Present'
  BY <1>1, SheetsMade
<1>3. OnlyAt(r) /\ pc'[r] = "idle" /\ Held(r)' /\ arg'[r] \in Arg
  BY <1>1, Finished, HeldIdle
<1> QED
  BY <1>1, <1>2, <1>3, SteppedInv DEF Inv, TypeOK, Step

LEMMA AssignInv ==
    ASSUME Inv, scope' = scope, AssignScoresToCommittee
    PROVE  Inv'
<1> DEFINE roles == {role \in Committee : sheet[role] = NoSheet}
<1>1. /\ sheet' = [role \in Role |-> IF role \in roles THEN NewSheet ELSE sheet[role]]
      /\ UNCHANGED <<result, pc, arg>>
  BY DEF AssignScoresToCommittee
<1>2. \A role \in Role \cap roles : sheet[role] = NoSheet
  OBVIOUS
<1>3. sheet' \in [Role -> Sheet \cup {NoSheet}] /\ Present \subseteq Present'
  <2> HIDE DEF roles
  <2> QED
    BY <1>1, <1>2, SheetsMade
<1>4. \A q \in Request : Held(q)'
  BY <1>1, <1>3 DEF Held, Inv
<1> QED
  BY <1>1, <1>3, <1>4 DEF Inv, TypeOK

LEMMA DeleteRole ==
    ASSUME Inv, NEW r \in Request, At(r, "delete", "store")
    PROVE  arg[r].role \in Role
BY DEF Inv, TypeOK, At, Arg

\* Who held the sheet by its id holds it no more, and nothing else of anybody changes.
LEMMA Forgotten ==
    ASSUME NEW a \in Arg, NEW role
    PROVE  LET b == [a EXCEPT !.ids = @ \ {role}]
           IN  /\ b \in Arg /\ b.ids = a.ids \ {role} /\ b.op = a.op
               /\ \A Marked : a \in [op : {"finalize"}, ids : SUBSET Role, gvhd : Marked]
                     => b \in [op : {"finalize"}, ids : SUBSET Role, gvhd : Marked]
               /\ \A Marked : a \in [op : {"finalize"}, ids : SUBSET Role, marks : Marked]
                     => b \in [op : {"finalize"}, ids : SUBSET Role, marks : Marked]
<1> DEFINE b == [a EXCEPT !.ids = @ \ {role}]
<1>1. a.ids \in SUBSET Role
  BY DEF Arg
<1>2. b.ids = a.ids \ {role} /\ b.op = a.op
  BY DEF Arg
<1>3. a.ids \ {role} \in SUBSET Role
  BY <1>1
<1>4. \A Marked : a \in [op : {"finalize"}, ids : SUBSET Role, gvhd : Marked]
                     => b \in [op : {"finalize"}, ids : SUBSET Role, gvhd : Marked]
  BY <1>3
<1>5. \A Marked : a \in [op : {"finalize"}, ids : SUBSET Role, marks : Marked]
                     => b \in [op : {"finalize"}, ids : SUBSET Role, marks : Marked]
  BY <1>3
<1>6. b \in Arg
  BY <1>3 DEF Arg
<1> QED
  BY <1>2, <1>4, <1>5, <1>6

LEMMA DeleteWriteInv ==
    ASSUME Inv, NEW r \in Request, scope' = scope, DeleteWrite(r)
    PROVE  Inv'
<1> DEFINE role == arg[r].role
<1>1. /\ sheet' = [sheet EXCEPT ![role] = NoSheet] /\ result' = result
      /\ pc'  = [pc EXCEPT ![r] = "idle"]
      /\ arg' = [q \in Request |-> IF q = r THEN NoArg ELSE [arg[q] EXCEPT !.ids = @ \ {role}]]
      /\ role \in Role
  BY DeleteRole DEF DeleteWrite
<1> HIDE DEF role
<1>2. sheet' \in [Role -> Sheet \cup {NoSheet}] /\ Present' = Present \ {role}
  BY <1>1 DEF Inv, TypeOK, Present
<1>3. pc'[r] = "idle" /\ arg'[r] = NoArg
  BY <1>1 DEF Inv, TypeOK
<1>4. Held(r)' /\ arg'[r] \in Arg
  BY <1>3, HeldIdle
<1>5. ASSUME NEW q \in Request, q # r PROVE Held(q)' /\ arg'[q] \in Arg
  <2>1. arg'[q] = [arg[q] EXCEPT !.ids = @ \ {role}] /\ pc'[q] = pc[q] /\ arg[q] \in Arg /\ Held(q)
    BY <1>1, <1>5 DEF Inv, TypeOK
  <2>2. /\ arg'[q] \in Arg /\ arg'[q].ids = arg[q].ids \ {role} /\ arg'[q].op = arg[q].op
        /\ \A Marked : arg[q] \in [op : {"finalize"}, ids : SUBSET Role, gvhd : Marked]
                     => arg'[q] \in [op : {"finalize"}, ids : SUBSET Role, gvhd : Marked]
        /\ \A Marked : arg[q] \in [op : {"finalize"}, ids : SUBSET Role, marks : Marked]
                     => arg'[q] \in [op : {"finalize"}, ids : SUBSET Role, marks : Marked]
    BY <2>1, Forgotten
  <2> QED
    BY <1>1, <1>2, <2>1, <2>2 DEF Held
<1>6. pc' \in [Request -> Step] /\ arg' \in [Request -> Arg]
  <2>1. pc' \in [Request -> Step]
    BY <1>1 DEF Inv, TypeOK, Step
  <2> QED
    BY <1>1, <1>4, <1>5, <2>1
<1> QED
  BY <1>1, <1>2, <1>4, <1>5, <1>6 DEF Inv, TypeOK, Step

-----------------------------------------------------------------------------
(* The row of the result *)

LEMMA ResultFields ==
    ASSUME NEW x \in Result
    PROVE  /\ x.is_gvhd_passed \in BOOLEAN /\ x.final_status \in FinalStatus
           /\ x.final_score \in Score \cup {NoMark} /\ x.is_final_passed \in BOOLEAN
           /\ x.bonus_score \in Bonus \cup {0} /\ x.is_published \in BOOLEAN
BY DEF Result

LEMMA NewResultIs ==
    /\ NewResult \in Result /\ NewResult # NoResult /\ NewResult.final_status = "NONE"
    /\ NewResult.bonus_score = 0 /\ ~NewResult.is_published /\ NewResult.final_score = NoMark
<1>1. NewResult \in Result
  BY Zenon DEF NewResult, Result, FinalStatus
<1>2. NewResult.final_status = "NONE" /\ NewResult.bonus_score = 0 /\ NewResult.final_score = NoMark
  BY DEF NewResult
<1>3. NewResult.is_published = FALSE
  BY Zenon DEF NewResult
<1> QED
  BY <1>1, <1>2, <1>3, AbsenceAssumption

\* A row made by finalizeMeeting.
LEMMA GivenResult ==
    LET x == [NewResult EXCEPT !.is_gvhd_passed = TRUE]
    IN  /\ x \in Result /\ x.final_status = "NONE" /\ x.bonus_score = 0 /\ ~x.is_published
<1> DEFINE x == [NewResult EXCEPT !.is_gvhd_passed = TRUE]
<1>1. x \in Result
  BY NewResultIs, Zenon DEF Result
<1>2. x.final_status = "NONE" /\ x.bonus_score = 0
  BY DEF NewResult
<1>3. x.is_published = FALSE
  BY Zenon DEF NewResult
<1> QED
  BY <1>1, <1>2, <1>3

-----------------------------------------------------------------------------
(* What each writing step does *)

LEMMA UpdateEffect ==
    ASSUME Inv, NEW r \in Request, UpdateWrite(r)
    PROVE  /\ pc[r] = "store" /\ arg[r].op = "update" /\ arg[r].role \in Role /\ arg[r].role \in arg[r].ids
           /\ sheet[arg[r].role] \in Sheet
           /\ \E row \in Sheet :
                 /\ sheet' = [sheet EXCEPT ![arg[r].role] = row]
                 /\ row.status = IF arg[r].status = "KEEP" THEN sheet[arg[r].role].status ELSE arg[r].status
                 /\ row.score = IF arg[r].mark = NoMark THEN sheet[arg[r].role].score ELSE arg[r].mark
           /\ arg[r].status \in ScoringStatus \cup {"KEEP"}
           /\ result' = result /\ OnlyAt(r) /\ pc'[r] = "idle" /\ arg'[r] = NoArg
<1> DEFINE a == arg[r]
           old == sheet[a.role]
           row == [status |-> IF a.status = "KEEP" THEN old.status ELSE a.status,
                   score  |-> IF a.mark = NoMark THEN old.score ELSE a.mark]
<1>1. pc[r] = "store" /\ a.op = "update" /\ a.role \in a.ids /\ result' = result /\ Finish(r)
  BY DEF UpdateWrite, At
<1>2. /\ a.role \in Role /\ a.mark \in Mark \cup {NoMark} /\ a.status \in ScoringStatus \cup {"KEEP"}
  BY <1>1 DEF Inv, TypeOK, Arg
<1>3. old \in Sheet
  BY <1>1, <1>2 DEF Inv, TypeOK, Held, Present
<1>4. row \in Sheet
  <2>1. old.status \in ScoringStatus /\ old.score \in Mark \cup {NoMark}
    BY <1>3 DEF Sheet
  <2>2. (IF a.status = "KEEP" THEN old.status ELSE a.status) \in ScoringStatus
    BY <1>2, <2>1
  <2>3. (IF a.mark = NoMark THEN old.score ELSE a.mark) \in Mark \cup {NoMark}
    BY <1>2, <2>1
  <2> QED
    BY <2>2, <2>3 DEF Sheet
<1>5. sheet' = [sheet EXCEPT ![a.role] = row]
  BY <1>2, Zenon DEF UpdateWrite, Inv, TypeOK
<1>6. row.status = (IF a.status = "KEEP" THEN old.status ELSE a.status)
      /\ row.score = (IF a.mark = NoMark THEN old.score ELSE a.mark)
  OBVIOUS
<1> QED
  BY <1>1, <1>2, <1>3, <1>4, <1>5, <1>6, Finished

LEMMA SubmitEffect ==
    ASSUME Inv, NEW r \in Request, SubmitWrite(r)
    PROVE  /\ pc[r] = "store" /\ arg[r].op = "submit" /\ arg[r].role \in Role /\ arg[r].role \in arg[r].ids
           /\ sheet[arg[r].role] \in Sheet /\ arg[r].mark \in Mark
           /\ \E row \in Sheet :
                 /\ sheet' = [sheet EXCEPT ![arg[r].role] = row]
                 /\ row.status = IF Passing(arg[r].mark) THEN "SUBMITTED" ELSE "FAILED"
                 /\ row.score = arg[r].mark
           /\ result' = result /\ OnlyAt(r) /\ pc'[r] = "result" /\ arg'[r] = arg[r]
<1> DEFINE a == arg[r]
           row == [status |-> IF Passing(a.mark) THEN "SUBMITTED" ELSE "FAILED", score |-> a.mark]
<1>1. pc[r] = "store" /\ a.op = "submit" /\ a.role \in a.ids /\ result' = result /\ Go(r, "result")
  BY DEF SubmitWrite, At
<1>2. a.role \in Role /\ a.mark \in Mark
  BY <1>1 DEF Inv, TypeOK, Arg
<1>3. sheet[a.role] \in Sheet
  BY <1>1, <1>2 DEF Inv, TypeOK, Held, Present
<1>4. row \in Sheet
  BY <1>2 DEF Sheet, ScoringStatus
<1>5. sheet' = [sheet EXCEPT ![a.role] = row]
  BY DEF SubmitWrite
<1>6. row.status = (IF Passing(a.mark) THEN "SUBMITTED" ELSE "FAILED") /\ row.score = a.mark
  OBVIOUS
<1> QED
  BY <1>1, <1>2, <1>3, <1>4, <1>5, <1>6, Gone

LEMMA SaveEffect ==
    ASSUME Inv, NEW r \in Request, SaveResult(r)
    PROVE  /\ pc[r] = "save" /\ arg[r].op = "submit" /\ result \in Result /\ result # NoResult
           /\ result' \in Result /\ result' # NoResult
           /\ result'.final_status = IF arg[r].role = "GVHD" /\ ~Passing(arg[r].mark) THEN "REJECTED_GVHD"
                                     ELSE result.final_status
           /\ result'.final_score \in Score \cup {result.final_score}
           /\ result'.bonus_score = result.bonus_score /\ (result'.is_published <=> result.is_published)
           /\ sheet' = sheet /\ OnlyAt(r) /\ pc'[r] = "idle" /\ arg'[r] = NoArg
<1> DEFINE a == arg[r]
           g == IF a.role = "GVHD" THEN Passing(a.mark) ELSE result.is_gvhd_passed
           st == IF a.role = "GVHD" /\ ~Passing(a.mark) THEN "REJECTED_GVHD" ELSE result.final_status
           fs == IF a.preview # NoMark THEN a.preview ELSE result.final_score
<1>1. pc[r] = "save" /\ a.op = "submit" /\ sheet' = sheet /\ Finish(r)
  BY DEF SaveResult, At
<1>2. a.preview \in Score \cup {NoMark}
  BY <1>1 DEF Inv, TypeOK, Arg
<1>3. result # NoResult /\ result \in Result
  BY <1>1 DEF Inv, TypeOK, Held
<1>4. g \in BOOLEAN
  <2>1. result.is_gvhd_passed \in BOOLEAN
    BY <1>3, ResultFields
  <2>2. Passing(a.mark) \in BOOLEAN
    BY DEF Passing
  <2> QED
    BY <2>1, <2>2, Zenon
<1>5. st \in FinalStatus /\ fs \in Score \cup {NoMark} /\ fs \in Score \cup {result.final_score}
  BY <1>2, <1>3, ResultFields DEF FinalStatus
<1>6. result' = [result EXCEPT !.is_gvhd_passed = g, !.final_status = st, !.final_score = fs]
  BY <1>3, Zenon DEF SaveResult, Result
<1>7. st = IF a.role = "GVHD" /\ ~Passing(a.mark) THEN "REJECTED_GVHD" ELSE result.final_status
  OBVIOUS
<1> HIDE DEF g, st, fs
<1>8. /\ result' \in Result /\ result' # NoResult /\ result'.final_status = st /\ result'.final_score = fs
      /\ result'.bonus_score = result.bonus_score /\ (result'.is_published <=> result.is_published)
  <2>1. result' \in Result
    BY <1>3, <1>4, <1>5, <1>6, Zenon DEF Result
  <2>2. result'.final_status = st /\ result'.bonus_score = result.bonus_score /\ result'.final_score = fs
    BY <1>3, <1>6, Zenon DEF Result
  <2>3. result'.is_published = result.is_published
    BY <1>3, <1>6, Zenon DEF Result
  <2> QED
    BY <2>1, <2>2, <2>3, AbsenceAssumption
<1> QED
  BY <1>1, <1>3, <1>5, <1>7, <1>8, Finished

LEMMA BonusEffect ==
    ASSUME Inv, NEW r \in Request, BonusWrite(r)
    PROVE  /\ pc[r] = "store" /\ arg[r].op = "bonus" /\ result \in Result /\ result # NoResult
           /\ result' \in Result /\ result' # NoResult
           /\ result'.final_status = result.final_status /\ result'.final_score = arg[r].final
           /\ result'.bonus_score = arg[r].bonus /\ (result'.is_published <=> result.is_published)
           /\ (result'.is_final_passed <=> PassesWith(arg[r])) /\ arg[r].bonus \in Bonus
           /\ sheet' = sheet /\ OnlyAt(r) /\ pc'[r] = "idle" /\ arg'[r] = NoArg
<1>1. pc[r] = "store" /\ arg[r].op = "bonus" /\ sheet' = sheet /\ Finish(r)
  BY DEF BonusWrite, At
<1>2. arg[r].bonus \in Bonus /\ arg[r].final \in Score
  BY <1>1 DEF Inv, TypeOK, Arg
<1>3. result # NoResult /\ result \in Result
  BY <1>1 DEF Inv, TypeOK, Held
<1>4. PassesWith(arg[r]) \in BOOLEAN
  BY DEF PassesWith
<1>5. result' = [result EXCEPT !.bonus_score = arg[r].bonus, !.final_score = arg[r].final,
                               !.is_final_passed = PassesWith(arg[r])]
  BY DEF BonusWrite
<1>6. /\ result' \in Result /\ result' # NoResult
      /\ result'.final_status = result.final_status /\ result'.final_score = arg[r].final
      /\ result'.bonus_score = arg[r].bonus /\ (result'.is_published <=> result.is_published)
      /\ (result'.is_final_passed <=> PassesWith(arg[r]))
  <2>1. result' \in Result
    BY <1>2, <1>3, <1>4, <1>5, Zenon DEF Result
  <2>2. /\ result'.final_status = result.final_status /\ result'.final_score = arg[r].final
        /\ result'.bonus_score = arg[r].bonus
    BY <1>3, <1>5, Zenon DEF Result
  <2>3. result'.is_published = result.is_published /\ result'.is_final_passed = PassesWith(arg[r])
    BY <1>3, <1>5, Zenon DEF Result
  <2> QED
    BY <2>1, <2>2, <2>3, AbsenceAssumption
<1> QED
  BY <1>1, <1>2, <1>3, <1>6, Finished

LEMMA PublishEffect ==
    ASSUME Inv, NEW r \in Request, PublishWrite(r)
    PROVE  /\ pc[r] = "store" /\ arg[r].op = "publish" /\ result \in Result /\ result # NoResult
           /\ result' \in Result /\ result' # NoResult
           /\ result'.final_status = result.final_status /\ result'.final_score = arg[r].final
           /\ result'.bonus_score = result.bonus_score /\ result'.is_published
           /\ (result'.is_final_passed <=> PassesWith(arg[r]))
           /\ sheet' = sheet /\ OnlyAt(r) /\ pc'[r] = "idle" /\ arg'[r] = NoArg
<1>1. pc[r] = "store" /\ arg[r].op = "publish" /\ sheet' = sheet /\ Finish(r)
  BY DEF PublishWrite, At
<1>2. arg[r].final \in Score
  BY <1>1 DEF Inv, TypeOK, Arg
<1>3. result # NoResult /\ result \in Result
  BY <1>1 DEF Inv, TypeOK, Held
<1>4. PassesWith(arg[r]) \in BOOLEAN
  BY DEF PassesWith
<1>5. result' = [result EXCEPT !.final_score = arg[r].final, !.is_published = TRUE,
                               !.is_final_passed = PassesWith(arg[r])]
  BY DEF PublishWrite
<1>6. /\ result' \in Result /\ result' # NoResult
      /\ result'.final_status = result.final_status /\ result'.final_score = arg[r].final
      /\ result'.bonus_score = result.bonus_score /\ result'.is_published
      /\ (result'.is_final_passed <=> PassesWith(arg[r]))
  <2>1. result' \in Result
    BY <1>2, <1>3, <1>4, <1>5, Zenon DEF Result
  <2>2. /\ result'.final_status = result.final_status /\ result'.final_score = arg[r].final
        /\ result'.bonus_score = result.bonus_score
    BY <1>3, <1>5, Zenon DEF Result
  <2>3. result'.is_published = TRUE /\ result'.is_final_passed = PassesWith(arg[r])
    BY <1>3, <1>5, Zenon DEF Result
  <2> QED
    BY <2>1, <2>2, <2>3, AbsenceAssumption
<1> QED
  BY <1>1, <1>3, <1>6, Finished

LEMMA FinalizeEffect ==
    ASSUME Inv, NEW r \in Request, FinalizeWrite(r)
    PROVE  /\ pc[r] = "store" /\ arg[r].op = "finalize" /\ arg[r].marks \in [Role -> Mark]
           /\ sheet' \in [Role -> Sheet \cup {NoSheet}] /\ Present' = Present
           /\ sheet'["GVHD"] = sheet["GVHD"]
           /\ \A role \in Committee : sheet[role] \in Sheet /\ sheet'[role] \in Sheet /\ sheet'[role].score = sheet[role].score
           /\ result' \in Result /\ result' # NoResult
           /\ result'.final_score = Capped(Weighted(arg[r].marks))
           /\ result'.final_status = IF Passed(arg[r].marks) THEN "PASSED" ELSE "REJECTED_DEFENSE"
           /\ (result'.is_final_passed <=> Passed(arg[r].marks))
           /\ result'.bonus_score = IF result = NoResult THEN 0 ELSE result.bonus_score
           /\ (result'.is_published <=> Published)
           /\ OnlyAt(r) /\ pc'[r] = "idle" /\ arg'[r] = NoArg
<1> DEFINE marks == arg[r].marks
           x == IF result = NoResult THEN [NewResult EXCEPT !.is_gvhd_passed = TRUE] ELSE result
           st == IF Passed(marks) THEN "PASSED" ELSE "REJECTED_DEFENSE"
           row(role) == [sheet[role] EXCEPT !.status = IF Passing(marks[role]) THEN "PASSED" ELSE "FAILED"]
<1>1. /\ pc[r] = "store" /\ arg[r].op = "finalize" /\ Committee \subseteq arg[r].ids /\ Finish(r)
      /\ sheet' = [role \in Role |-> IF role = "GVHD" THEN sheet[role] ELSE row(role)]
      /\ result' = [x EXCEPT !.final_score = Capped(Weighted(marks)), !.is_final_passed = Passed(marks),
                             !.final_status = st]
  BY Zenon DEF FinalizeWrite, At
<1>2. arg[r] \in [op : {"finalize"}, ids : SUBSET Role, marks : [Role -> Mark]]
  BY <1>1 DEF Inv, Held
<1>3. marks \in [Role -> Mark]
  BY <1>2
<1>4. \A role \in Committee : role \in Role /\ role # "GVHD" /\ sheet[role] # NoSheet
  BY <1>1, ScoringAssumption DEF Inv, Held, Present, Committee, Role
<1>5. ASSUME NEW role \in Committee PROVE sheet[role] \in Sheet /\ row(role) \in Sheet /\ row(role).score = sheet[role].score
  <2>1. sheet[role] \in Sheet
    BY <1>4 DEF Inv, TypeOK
  <2> QED
    BY <2>1 DEF Sheet, ScoringStatus
<1>6. sheet'["GVHD"] = sheet["GVHD"] /\ \A role \in Committee : sheet'[role] = row(role)
  BY <1>1, <1>4 DEF Role
<1>7. \A role \in Role : role = "GVHD" \/ role \in Committee
  BY DEF Role
<1>8. sheet["GVHD"] \in Sheet \cup {NoSheet}
  BY DEF Inv, TypeOK, Role
<1> HIDE DEF row
<1>9. sheet' \in [Role -> Sheet \cup {NoSheet}]
  <2>1. \A role \in Role : (IF role = "GVHD" THEN sheet[role] ELSE row(role)) \in Sheet \cup {NoSheet}
    BY <1>5, <1>7, <1>8
  <2> QED
    BY <1>1, <2>1
<1>10. Present' = Present
  <2>1. \A role \in Committee : sheet'[role] # NoSheet
    BY <1>5, <1>6, AbsenceAssumption
  <2> QED
    BY <1>4, <1>6, <1>7, <2>1 DEF Present
<1>11. \A role \in Committee : sheet[role] \in Sheet /\ sheet'[role] \in Sheet /\ sheet'[role].score = sheet[role].score
  BY <1>5, <1>6
<1>12. x \in Result /\ x.bonus_score = (IF result = NoResult THEN 0 ELSE result.bonus_score)
  BY GivenResult DEF Inv, TypeOK
<1>13. x.is_published <=> Published
  BY GivenResult DEF Published
<1>14. Passed(marks) \in BOOLEAN /\ st \in FinalStatus /\ Capped(Weighted(marks)) \in Score
  BY <1>3, WeightedIs, CappedIs DEF Passed, FinalStatus
<1>15. st = IF Passed(marks) THEN "PASSED" ELSE "REJECTED_DEFENSE"
  OBVIOUS
<1> HIDE DEF x, st
<1>16. /\ result' \in Result /\ result' # NoResult /\ result'.final_status = st
       /\ result'.final_score = Capped(Weighted(marks)) /\ result'.bonus_score = x.bonus_score
       /\ (result'.is_published <=> x.is_published) /\ (result'.is_final_passed <=> Passed(marks))
  <2>1. result' \in Result
    BY <1>1, <1>12, <1>14, Zenon DEF Result
  <2>2. result'.final_status = st /\ result'.final_score = Capped(Weighted(marks)) /\ result'.bonus_score = x.bonus_score
    BY <1>1, <1>12, Zenon DEF Result
  <2>3. result'.is_published = x.is_published /\ result'.is_final_passed = Passed(marks)
    BY <1>1, <1>12, Zenon DEF Result
  <2> QED
    BY <2>1, <2>2, <2>3, AbsenceAssumption
<1> QED
  BY <1>1, <1>3, <1>6, <1>9, <1>10, <1>11, <1>12, <1>13, <1>15, <1>16, Finished

-----------------------------------------------------------------------------
(* The invariant of any overlap *)

\* A step that changes nothing but where the handler is.
LEMMA MovedInv ==
    ASSUME Inv, NEW r \in Request, scope' = scope, sheet' = sheet, NEW step \in Step, Go(r, step),
           pc[r] # "idle", arg[r].op \notin {"finalize", "bonus", "publish"}, step # "committee",
           result' \in Result \cup {NoResult}, result # NoResult => result' # NoResult,
           step \in {"collect", "save"} => result' # NoResult
    PROVE  Inv'
<1>1. OnlyAt(r) /\ pc'[r] = step /\ arg'[r] = arg[r]
  BY Gone
<1>2. Present' = Present /\ arg[r] \in Arg /\ Held(r)
  BY DEF Present, Inv, TypeOK
<1>3. Held(r)'
  BY <1>1, <1>2 DEF Held
<1>4. sheet' \in [Role -> Sheet \cup {NoSheet}]
  BY DEF Inv, TypeOK
<1> QED
  BY <1>1, <1>2, <1>3, <1>4, SteppedInv

LEMMA UpdateCheckInv ==
    ASSUME Inv, NEW r \in Request, scope' = scope, UpdateCheck(r)
    PROVE  Inv'
BY MovedInv DEF UpdateCheck, At, Step, Inv, TypeOK

LEMMA SubmitCheckInv ==
    ASSUME Inv, NEW r \in Request, scope' = scope, SubmitCheck(r)
    PROVE  Inv'
BY MovedInv DEF SubmitCheck, At, Step, Inv, TypeOK

LEMMA FindResultInv ==
    ASSUME Inv, NEW r \in Request, scope' = scope, FindResult(r)
    PROVE  Inv'
<1> DEFINE step == IF result = NoResult THEN "create" ELSE "collect"
<1>1. /\ pc[r] = "result" /\ arg[r].op = "submit" /\ Go(r, step) /\ sheet' = sheet /\ result' = result
      /\ step \in Step /\ step # "committee" /\ (step \in {"collect", "save"} => result # NoResult)
  BY DEF FindResult, At, Step
<1> HIDE DEF step
<1> QED
  BY <1>1, MovedInv DEF Inv, TypeOK

LEMMA CreateResultInv ==
    ASSUME Inv, NEW r \in Request, scope' = scope, CreateResult(r)
    PROVE  Inv'
<1>1. pc[r] = "create" /\ arg[r].op = "submit" /\ Go(r, "collect") /\ sheet' = sheet /\ result' = NewResult
  BY DEF CreateResult, At
<1>2. result' \in Result /\ result' # NoResult
  BY <1>1, NewResultIs
<1> QED
  BY <1>1, <1>2, MovedInv DEF Step

LEMMA CollectScoresInv ==
    ASSUME Inv, NEW r \in Request, scope' = scope, CollectScores(r)
    PROVE  Inv'
<1> DEFINE preview == IF AllGraded THEN Capped(Round2(Weighted(Marks))) ELSE NoMark
<1>1. /\ pc[r] = "collect" /\ arg[r].op = "submit" /\ sheet' = sheet /\ result' = result
      /\ arg' = [arg EXCEPT ![r].preview = preview] /\ pc' = [pc EXCEPT ![r] = "save"]
  BY DEF CollectScores, At
<1>2. preview \in Score \cup {NoMark}
  BY TotalIs DEF Inv
<1> HIDE DEF preview
<1>3. pc'[r] = "save" /\ OnlyAt(r) /\ arg'[r] = [arg[r] EXCEPT !.preview = preview]
  BY <1>1 DEF OnlyAt, Inv, TypeOK
<1>4. arg[r] \in Arg /\ Held(r)
  BY DEF Inv, TypeOK
<1>5. arg'[r] \in Arg /\ arg'[r].ids = arg[r].ids /\ arg'[r].op = "submit"
  BY <1>1, <1>2, <1>3, <1>4 DEF Arg
<1>6. Held(r)'
  BY <1>1, <1>3, <1>4, <1>5 DEF Held, Present
<1> QED
  BY <1>1, <1>3, <1>5, <1>6, SteppedInv DEF Inv, TypeOK, Step, Present

LEMMA FinalizeGvhdInv ==
    ASSUME Inv, NEW r \in Request, scope' = scope, FinalizeGvhd(r)
    PROVE  Inv'
<1> DEFINE a == [op |-> "finalize", ids |-> {}, gvhd |-> sheet["GVHD"].score]
<1>1. /\ pc[r] = "gvhd" /\ sheet' = sheet /\ result' = result /\ Graded("GVHD")
      /\ arg' = [arg EXCEPT ![r] = a] /\ pc' = [pc EXCEPT ![r] = "committee"]
  BY DEF FinalizeGvhd, At
<1>2. sheet["GVHD"].score \in Mark
  BY <1>1, GradedMark DEF Inv, Role
<1>3. a \in [op : {"finalize"}, ids : SUBSET Role, gvhd : Mark] /\ a.ids = {} /\ a.op = "finalize"
  BY <1>2
<1> HIDE DEF a
<1>4. pc'[r] = "committee" /\ OnlyAt(r) /\ arg'[r] = a
  BY <1>1 DEF OnlyAt, Inv, TypeOK
<1>5. Held(r)' /\ arg'[r] \in Arg
  BY <1>1, <1>3, <1>4 DEF Held, Inv, Arg
<1> QED
  BY <1>1, <1>4, <1>5, SteppedInv DEF Inv, TypeOK, Step, Present

LEMMA FinalizeCommitteeEffect ==
    ASSUME Inv, NEW r \in Request, FinalizeCommittee(r)
    PROVE  /\ pc[r] = "committee" /\ \A role \in Committee : Graded(role)
           /\ arg'[r].marks \in [Role -> Mark] /\ arg'[r].marks["GVHD"] = arg[r].gvhd
           /\ \A role \in Committee : arg'[r].marks[role] = sheet[role].score
           /\ arg'[r] \in [op : {"finalize"}, ids : SUBSET Role, marks : [Role -> Mark]]
           /\ arg'[r].ids = Committee /\ arg'[r].op = "finalize"
           /\ OnlyAt(r) /\ pc'[r] = "store" /\ sheet' = sheet /\ result' = result
<1> DEFINE m == [role \in Role |-> IF role = "GVHD" THEN arg[r].gvhd ELSE sheet[role].score]
           a == [op |-> "finalize", ids |-> Committee, marks |-> m]
<1>1. /\ pc[r] = "committee" /\ sheet' = sheet /\ result' = result /\ \A role \in Committee : Graded(role)
      /\ arg' = [arg EXCEPT ![r] = a] /\ pc' = [pc EXCEPT ![r] = "store"]
  BY DEF FinalizeCommittee, At
<1>2. arg[r].gvhd \in Mark
  BY <1>1 DEF Inv, Held
<1>3. \A role \in Role : role = "GVHD" \/ role \in Committee
  BY DEF Role
<1>4. Committee \in SUBSET Role /\ "GVHD" \notin Committee /\ "GVHD" \in Role
  BY ScoringAssumption DEF Committee, Role
<1>5. \A role \in Committee : sheet[role].score \in Mark
  BY <1>1, <1>4, GradedMark DEF Inv
<1>6. m \in [Role -> Mark] /\ m["GVHD"] = arg[r].gvhd /\ \A role \in Committee : m[role] = sheet[role].score
  BY <1>2, <1>3, <1>4, <1>5
<1> HIDE DEF m
<1>7. a \in [op : {"finalize"}, ids : SUBSET Role, marks : [Role -> Mark]] /\ a.ids = Committee /\ a.op = "finalize" /\ a.marks = m
  BY <1>4, <1>6
<1> HIDE DEF a
<1>8. OnlyAt(r) /\ pc'[r] = "store" /\ arg'[r] = a
  BY <1>1 DEF OnlyAt, Inv, TypeOK
<1> QED
  BY <1>1, <1>6, <1>7, <1>8

LEMMA FinalizeCommitteeInv ==
    ASSUME Inv, NEW r \in Request, scope' = scope, FinalizeCommittee(r)
    PROVE  Inv'
<1>1. /\ pc[r] = "committee" /\ \A role \in Committee : Graded(role)
      /\ arg'[r] \in [op : {"finalize"}, ids : SUBSET Role, marks : [Role -> Mark]]
      /\ arg'[r].ids = Committee /\ arg'[r].op = "finalize"
      /\ OnlyAt(r) /\ pc'[r] = "store" /\ sheet' = sheet /\ result' = result
  BY FinalizeCommitteeEffect
<1>2. Committee \subseteq Present
  BY <1>1 DEF Graded, Present, Role
<1>3. Held(r)' /\ arg'[r] \in Arg
  BY <1>1, <1>2 DEF Held, Inv, Arg, Present
<1> QED
  BY <1>1, <1>3, SteppedInv DEF Inv, TypeOK, Step, Present

LEMMA FailInv ==
    ASSUME Inv, NEW r \in Request, scope' = scope, Fail(r)
    PROVE  Inv'
<1>1. OnlyAt(r) /\ pc'[r] = "idle" /\ arg'[r] = NoArg /\ sheet' = sheet /\ result' = result
  BY Finished DEF Fail
<1> QED
  BY <1>1, HeldIdle, SteppedInv DEF Inv, TypeOK, Step, Present

\* A step that ends the handler.
LEMMA EndedInv ==
    ASSUME Inv, NEW r \in Request, scope' = scope, OnlyAt(r), pc'[r] = "idle", arg'[r] = NoArg,
           sheet' \in [Role -> Sheet \cup {NoSheet}], Present \subseteq Present',
           result' \in Result \cup {NoResult}, result # NoResult => result' # NoResult
    PROVE  Inv'
BY HeldIdle, SteppedInv DEF Step

LEMMA WritesInv ==
    ASSUME Inv, NEW r \in Request, scope' = scope,
           UpdateWrite(r) \/ SaveResult(r) \/ FinalizeWrite(r) \/ BonusWrite(r) \/ PublishWrite(r)
    PROVE  Inv'
<1>1. CASE UpdateWrite(r)
  <2>1. PICK row \in Sheet : sheet' = [sheet EXCEPT ![arg[r].role] = row]
    BY <1>1, UpdateEffect
  <2>2. arg[r].role \in Role /\ result' = result /\ OnlyAt(r) /\ pc'[r] = "idle" /\ arg'[r] = NoArg
    BY <1>1, UpdateEffect
  <2>3. sheet' \in [Role -> Sheet \cup {NoSheet}] /\ Present \subseteq Present'
    BY <2>1, <2>2, SheetWritten
  <2> QED
    BY <2>2, <2>3, EndedInv DEF Inv, TypeOK
<1>2. CASE FinalizeWrite(r)
  BY <1>2, FinalizeEffect, EndedInv
<1>3. CASE SaveResult(r)
  BY <1>3, SaveEffect, EndedInv DEF Inv, TypeOK, Present
<1>4. CASE BonusWrite(r)
  BY <1>4, BonusEffect, EndedInv DEF Inv, TypeOK, Present
<1>5. CASE PublishWrite(r)
  BY <1>5, PublishEffect, EndedInv DEF Inv, TypeOK, Present
<1> QED
  BY <1>1, <1>2, <1>3, <1>4, <1>5

LEMMA SubmitWriteInv ==
    ASSUME Inv, NEW r \in Request, scope' = scope, SubmitWrite(r)
    PROVE  Inv'
<1>1. PICK row \in Sheet : sheet' = [sheet EXCEPT ![arg[r].role] = row]
  BY SubmitEffect
<1>2. /\ arg[r].role \in Role /\ result' = result /\ OnlyAt(r) /\ pc'[r] = "result" /\ arg'[r] = arg[r]
      /\ pc[r] = "store" /\ arg[r].op = "submit"
  BY SubmitEffect
<1>3. sheet' \in [Role -> Sheet \cup {NoSheet}] /\ Present \subseteq Present'
  BY <1>1, <1>2, SheetWritten
<1>4. Held(r)' /\ arg'[r] \in Arg
  BY <1>2, <1>3 DEF Held, Inv, TypeOK
<1> QED
  BY <1>2, <1>3, <1>4, SteppedInv DEF Inv, TypeOK, Step

LEMMA InvNext ==
    ASSUME Inv, Next, scope' = scope
    PROVE  Inv'
<1>1. ASSUME NEW r \in scope.requests, Arrive(r) \/ Proceed(r) \/ Fail(r) PROVE Inv'
  <2>1. r \in Request
    BY ScoringAssumption DEF Inv
  <2>2. CASE Arrive(r)
    <3>1. \A role \in Role : scope.sent[role] \subseteq ScoringStatus
      BY ScoringAssumption DEF Inv
    <3> QED
      BY <2>1, <2>2, <3>1, IssueReadInv, FinalizeReadInv, PublishReadInv, BonusReadInv, CreateReadInv, DeleteReadInv,
       SubmitReadInv, UpdateReadInv DEF Arrive
  <2>3. CASE Proceed(r)
    BY <2>1, <2>3, SheetsWriteInv, DeleteWriteInv, UpdateCheckInv, SubmitCheckInv, SubmitWriteInv, FindResultInv,
       CreateResultInv, CollectScoresInv, FinalizeGvhdInv, FinalizeCommitteeInv, WritesInv DEF Proceed
  <2> QED
    BY <1>1, <2>1, <2>2, <2>3, FailInv
<1> QED
  BY <1>1, AssignInv DEF Next

LEMMA InvInit ==
    ASSUME Init
    PROVE  Inv
<1>1. scope \in Scopes /\ pc = [r \in Request |-> "idle"] /\ arg = [r \in Request |-> NoArg]
  BY DEF Init
<1>2. pc \in [Request -> Step]
  BY <1>1 DEF Step
<1>3. arg \in [Request -> Arg] /\ \A q \in Request : arg[q].ids = {} /\ arg[q].op = "none"
  <2>1. NoArg.ids = {} /\ NoArg.op = "none"
    BY DEF NoArg
  <2>2. NoArg \in [op : {"none", "finalize"}, ids : SUBSET Role]
    BY DEF NoArg
  <2>3. NoArg \in Arg
    BY <2>2 DEF Arg
  <2> QED
    BY <1>1, <2>1, <2>3
<1>4. sheet \in [Role -> Sheet \cup {NoSheet}] /\ result \in Result \cup {NoResult}
  <2>1. CASE scope.graded
    <3>1. sheet \in [Role -> [status : {"SUBMITTED"}, score : {mark \in Mark : Passing(mark)}]]
      BY <2>1 DEF Init
    <3>2. \A role \in Role : sheet[role] \in Sheet /\ sheet[role].status = "SUBMITTED" /\ sheet[role].score \in Mark
      BY <3>1 DEF Sheet, ScoringStatus
    <3>3. sheet \in [Role -> Sheet \cup {NoSheet}]
      BY <3>1, <3>2
    <3>4. Marks \in [Role -> Mark]
      BY <3>2 DEF Marks
    <3>5. Capped(Round2(Weighted(Marks))) \in Score
      BY <3>4, WeightedIs, RoundNat, CappedIs
    <3>6. result = [NewResult EXCEPT !.is_gvhd_passed = TRUE, !.final_score = Capped(Round2(Weighted(Marks)))]
      BY <2>1 DEF Init
    <3>7. result \in Result
      BY <3>5, <3>6, NewResultIs, Zenon DEF Result
    <3> QED
      BY <3>3, <3>7
  <2>2. CASE ~scope.graded
    BY <2>2 DEF Init
  <2> QED
    BY <2>1, <2>2
<1>5. \A q \in Request : Held(q)
  BY <1>1, <1>3 DEF Held
<1> QED
  BY <1>1, <1>2, <1>3, <1>4, <1>5 DEF Inv, TypeOK, Step

-----------------------------------------------------------------------------
(* Ranking and revisions, with any overlap *)

LEMMA PublishedStays ==
    ASSUME Inv, Next, scope' = scope, Published
    PROVE  Published'
<1>1. ASSUME NEW r \in scope.requests, Arrive(r) \/ Proceed(r) \/ Fail(r) PROVE Published'
  <2>1. r \in Request
    BY ScoringAssumption DEF Inv
  <2>2. CASE result' = result
    BY <2>2 DEF Published
  <2>3. CASE SaveResult(r)
    BY <2>1, <2>3, SaveEffect DEF Published
  <2>4. CASE FinalizeWrite(r)
    BY <2>1, <2>4, FinalizeEffect DEF Published
  <2>5. CASE BonusWrite(r)
    BY <2>1, <2>5, BonusEffect DEF Published
  <2>6. CASE PublishWrite(r)
    BY <2>1, <2>6, PublishEffect DEF Published
  <2>7. CASE CreateResult(r)
    BY <2>7 DEF Published, CreateResult
  <2>8. CASE Arrive(r)
    BY <2>2, <2>8 DEF Arrive, IssueRead, CreateRead, DeleteRead, UpdateRead, SubmitRead, FinalizeRead, BonusRead, PublishRead
  <2>9. CASE Proceed(r)
    BY <2>2, <2>3, <2>4, <2>5, <2>6, <2>7, <2>9 DEF Proceed, SheetsWrite, DeleteWrite, UpdateCheck, UpdateWrite,
       SubmitCheck, SubmitWrite, FindResult, CollectScores, FinalizeGvhd, FinalizeCommittee
  <2>10. CASE Fail(r)
    BY <2>2, <2>10 DEF Fail
  <2> QED
    BY <1>1, <2>8, <2>9, <2>10
<1>2. CASE AssignScoresToCommittee
  BY <1>2 DEF AssignScoresToCommittee, Published
<1> QED
  BY <1>1, <1>2 DEF Next

LEMMA ProjectFinite == IsFiniteSet(Project) /\ Mine \in Project /\ Other \subseteq Project
<1>1. IsFiniteSet(Other) /\ IsFiniteSet({Mine})
  BY PostDefenseAssumption, FS_Singleton DEF Other
<1> QED
  BY <1>1, FS_Union DEF Project

LEMMA MinOf ==
    ASSUME NEW S \in SUBSET Nat, S # {}
    PROVE  \E n \in S : \A m \in S : n <= m
<1> DEFINE T == {1 .. n : n \in S}
<1>1. T \subseteq FiniteSubsetsOf(Nat)
  <2> SUFFICES ASSUME NEW n \in S PROVE 1 .. n \in FiniteSubsetsOf(Nat)
    OBVIOUS
  <2>1. n \in Nat /\ IsFiniteSet(1 .. n)
    BY FS_Interval
  <2> QED
    BY <2>1 DEF FiniteSubsetsOf
<1>2. T # {}
  OBVIOUS
<1>3. PICK x \in T : \A y \in T : ~(<<y, x>> \in StrictSubsetOrdering(Nat))
  <2> HIDE DEF T
  <2> QED
    BY <1>1, <1>2, FS_StrictSubsetOrderingWellFounded, WFMin
<1>4. PICK n \in S : x = 1 .. n
  OBVIOUS
<1>5. ASSUME NEW m \in S PROVE n <= m
  <2>1. SUFFICES ASSUME m < n PROVE FALSE
    OBVIOUS
  <2>2. 1 .. m \in T
    OBVIOUS
  <2>3. 1 .. m \subseteq 1 .. n /\ n \in 1 .. n /\ n \notin 1 .. m
    BY <2>1
  <2>4. 1 .. m \in SUBSET Nat /\ 1 .. n \in SUBSET Nat
    OBVIOUS
  <2>5. <<1 .. m, 1 .. n>> \in StrictSubsetOrdering(Nat)
    BY <2>3, <2>4 DEF StrictSubsetOrdering
  <2> QED
    BY <1>3, <1>4, <2>2, <2>5
<1> QED
  BY <1>5

-----------------------------------------------------------------------------
(* Places *)

\* How many places up to a number are free.
FreeUpTo(taken, k) == Cardinality((1 .. k) \ taken)

LEMMA FreeCount ==
    ASSUME NEW taken, IsFiniteSet(taken), NEW k \in Nat
    PROVE  /\ FreeUpTo(taken, k) \in Nat /\ IsFiniteSet((1 .. k) \ taken)
           /\ FreeUpTo(taken, 0) = 0
           /\ k <= FreeUpTo(taken, k) + Cardinality(taken) /\ Cardinality(taken) \in Nat
           /\ FreeUpTo(taken, k + 1) <= FreeUpTo(taken, k) + 1
           /\ k + 1 \in taken => FreeUpTo(taken, k + 1) = FreeUpTo(taken, k)
<1>1. IsFiniteSet(1 .. k) /\ Cardinality(1 .. k) = k
  BY FS_Interval
<1>2. IsFiniteSet((1 .. k) \ taken) /\ Cardinality((1 .. k) \ taken) = k - Cardinality((1 .. k) \cap taken)
  BY <1>1, FS_Difference
<1>3. Cardinality((1 .. k) \cap taken) <= Cardinality(taken) /\ IsFiniteSet((1 .. k) \cap taken)
  BY FS_Subset
<1>4. /\ Cardinality((1 .. k) \cap taken) \in Nat /\ Cardinality(taken) \in Nat
      /\ Cardinality((1 .. k) \ taken) \in Nat
  BY <1>2, <1>3, FS_CardinalityType
<1>5. (1 .. 0) \ taken = {}
  OBVIOUS
<1>6. FreeUpTo(taken, 0) = 0
  BY <1>5, FS_EmptySet DEF FreeUpTo
<1>7. k + 1 \in taken => (1 .. (k + 1)) \ taken = (1 .. k) \ taken
  OBVIOUS
<1>8. k + 1 \notin taken => (1 .. (k + 1)) \ taken = ((1 .. k) \ taken) \cup {k + 1}
  OBVIOUS
<1>9. Cardinality(((1 .. k) \ taken) \cup {k + 1}) <= Cardinality((1 .. k) \ taken) + 1
  BY <1>2, <1>4, FS_AddElement
<1>10. k <= FreeUpTo(taken, k) + Cardinality(taken)
  <2>1. PICK a \in Nat, b \in Nat, c \in Nat :
           a = Cardinality((1 .. k) \cap taken) /\ b = Cardinality(taken) /\ c = Cardinality((1 .. k) \ taken)
    BY <1>4
  <2> QED
    BY <1>2, <1>3, <2>1 DEF FreeUpTo
<1>11. k + 1 \in taken => FreeUpTo(taken, k + 1) = FreeUpTo(taken, k)
  BY <1>7, Zenon DEF FreeUpTo
<1>12. FreeUpTo(taken, k + 1) <= FreeUpTo(taken, k) + 1
  <2>1. PICK c \in Nat : c = Cardinality((1 .. k) \ taken)
    BY <1>4
  <2>2. CASE k + 1 \in taken
    <3>1. FreeUpTo(taken, k + 1) = c
      BY <1>7, <2>1, <2>2 DEF FreeUpTo
    <3> QED
      BY <2>1, <3>1 DEF FreeUpTo
  <2>3. CASE k + 1 \notin taken
    <3>1. FreeUpTo(taken, k + 1) = Cardinality(((1 .. k) \ taken) \cup {k + 1})
      BY <1>8, <2>3, Zenon DEF FreeUpTo
    <3> QED
      BY <1>9, <3>1 DEF FreeUpTo
  <2> QED
    BY <2>2, <2>3
<1> QED
  BY <1>2, <1>4, <1>6, <1>10, <1>11, <1>12 DEF FreeUpTo

LEMMA FreeRises ==
    ASSUME NEW taken, IsFiniteSet(taken), NEW j \in Nat, NEW k \in Nat, j <= k
    PROVE  /\ FreeUpTo(taken, j) <= FreeUpTo(taken, k)
           /\ j < k /\ k \notin taken => FreeUpTo(taken, j) < FreeUpTo(taken, k)
<1>1. IsFiniteSet((1 .. k) \ taken) /\ (1 .. j) \ taken \in SUBSET ((1 .. k) \ taken)
  BY FreeCount
<1>2. Cardinality((1 .. j) \ taken) <= Cardinality((1 .. k) \ taken)
  BY <1>1, FS_Subset
<1>3. ASSUME j < k, k \notin taken PROVE Cardinality((1 .. j) \ taken) # Cardinality((1 .. k) \ taken)
  <2>1. k \in (1 .. k) \ taken /\ k \notin (1 .. j) \ taken
    BY <1>3
  <2> QED
    BY <1>1, <2>1, FS_Subset
<1>4. Cardinality((1 .. j) \ taken) \in Nat /\ Cardinality((1 .. k) \ taken) \in Nat
  BY FreeCount DEF FreeUpTo
<1> QED
  BY <1>2, <1>3, <1>4 DEF FreeUpTo

\* The cursor gives the i-th place that is free.
LEMMA CursorIs ==
    ASSUME NEW taken, IsFiniteSet(taken), NEW n \in Nat, NEW i \in 1 .. n
    PROVE  LET k == Cursor(taken, n)[i] IN k \in Nat /\ k >= 1 /\ k \notin taken /\ FreeUpTo(taken, k) = i
<1> DEFINE c == Cardinality(taken)
           S == {k \in Nat : i <= FreeUpTo(taken, k)}
           k0 == Cursor(taken, n)[i]
<1>a. \A k \in Nat : FreeUpTo(taken, k) \in Nat /\ FreeUpTo(taken, k + 1) <= FreeUpTo(taken, k) + 1
  BY FreeCount
<1>b. \A k \in Nat : k + 1 \in taken => FreeUpTo(taken, k + 1) = FreeUpTo(taken, k)
  BY FreeCount
<1>c. FreeUpTo(taken, 0) = 0
  BY FreeCount
<1>1. c \in Nat /\ i \in Nat /\ i + c \in Nat
  BY FS_CardinalityType
<1>2. i + c <= FreeUpTo(taken, i + c) + c /\ FreeUpTo(taken, i + c) \in Nat
  BY <1>1, FreeCount
<1>3. i + c \in S
  BY <1>1, <1>2
<1>4. PICK k \in S : \A m \in S : k <= m
  BY <1>3, MinOf
<1>5. k # 0
  BY <1>4, <1>c
<1>6. PICK j \in Nat : k = j + 1
  BY <1>4, <1>5
<1>7. ~(i <= FreeUpTo(taken, j)) /\ FreeUpTo(taken, j) \in Nat
  BY <1>4, <1>6, <1>a
<1>8. k \notin taken /\ FreeUpTo(taken, k) = i
  <2>1. FreeUpTo(taken, j + 1) <= FreeUpTo(taken, j) + 1 /\ FreeUpTo(taken, j + 1) \in Nat
        /\ (j + 1 \in taken => FreeUpTo(taken, j + 1) = FreeUpTo(taken, j))
    BY <1>a, <1>b
  <2>2. i <= FreeUpTo(taken, j + 1)
    BY <1>4, <1>6
  <2> QED
    BY <1>6, <1>7, <2>1, <2>2
<1>9. k \in 1 .. (n + c)
  <2>1. k <= i + c /\ i <= n /\ k >= 1
    BY <1>3, <1>4, <1>6
  <2> QED
    BY <1>1, <1>4, <2>1
<1>10. k0 = CHOOSE x \in 1 .. (n + c) : x \notin taken /\ FreeUpTo(taken, x) = i
  BY DEF Cursor, FreeUpTo
<1> HIDE DEF k0, S
<1>11. k0 \in 1 .. (n + c) /\ k0 \notin taken /\ FreeUpTo(taken, k0) = i
  BY <1>8, <1>9, <1>10
<1>12. k0 \in Nat /\ k0 >= 1
  BY <1>1, <1>11
<1> QED
  BY <1>11, <1>12 DEF k0

LEMMA CursorRises ==
    ASSUME NEW taken, IsFiniteSet(taken), NEW n \in Nat, NEW i \in 1 .. n, NEW j \in 1 .. n, i < j
    PROVE  Cursor(taken, n)[i] < Cursor(taken, n)[j]
<1>1. PICK k \in Nat : k = Cursor(taken, n)[i] /\ FreeUpTo(taken, k) = i
  BY CursorIs
<1>2. PICK m \in Nat : m = Cursor(taken, n)[j] /\ FreeUpTo(taken, m) = j
  BY CursorIs
<1>3. ~(m <= k)
  BY <1>1, <1>2, FreeRises
<1> QED
  BY <1>1, <1>2, <1>3

\* It leaves no place free below one it gives.
LEMMA CursorFills ==
    ASSUME NEW taken, IsFiniteSet(taken), NEW n \in Nat, NEW i \in 1 .. n,
           NEW k \in 1 .. Cursor(taken, n)[i], k \notin taken
    PROVE  \E j \in 1 .. n : Cursor(taken, n)[j] = k
<1>1. PICK m \in Nat : m = Cursor(taken, n)[i] /\ FreeUpTo(taken, m) = i
  BY CursorIs
<1>2. k \in Nat /\ 1 <= k /\ k <= m /\ 0 \in Nat
  BY <1>1
<1>3. PICK j \in Nat : j = FreeUpTo(taken, k)
  BY <1>2, FreeCount
<1>4. j <= i /\ 0 < j
  <2>1. FreeUpTo(taken, 0) = 0
    BY FreeCount
  <2>2. FreeUpTo(taken, 0) < FreeUpTo(taken, k)
    BY <1>2, FreeRises
  <2>3. FreeUpTo(taken, k) <= FreeUpTo(taken, m)
    BY <1>2, FreeRises
  <2> QED
    BY <1>1, <1>3, <2>1, <2>2, <2>3
<1>5. j \in 1 .. n
  BY <1>4
<1>6. PICK x \in Nat : x = Cursor(taken, n)[j] /\ x \notin taken /\ FreeUpTo(taken, x) = j
  BY <1>5, CursorIs
<1>7. ~(x < k) /\ ~(k < x)
  BY <1>2, <1>3, <1>6, FreeRises
<1> QED
  BY <1>2, <1>5, <1>6, <1>7

\* A list that names every element of a set once.
LEMMA ListOf ==
    ASSUME NEW S, IsFiniteSet(S), NEW q \in SetToSeqs(S)
    PROVE  /\ Len(q) \in Nat /\ DOMAIN q = 1 .. Len(q) /\ \A i \in 1 .. Len(q) : q[i] \in S
           /\ \A i, j \in 1 .. Len(q) : i # j => q[i] # q[j]
           /\ \A p \in S : \E i \in 1 .. Len(q) : q[i] = p
<1> DEFINE n == Cardinality(S)
<1>1. n \in Nat
  BY FS_CardinalityType
<1>2. q \in [1 .. n -> S] /\ \A i, j \in 1 .. n : i # j => q[i] # q[j]
  BY DEF SetToSeqs
<1>3. Len(q) = n /\ DOMAIN q = 1 .. n
  BY <1>1, <1>2
<1>4. q \in Injection(1 .. n, S) /\ Cardinality(1 .. n) = n
  <2>1. Cardinality(1 .. n) = n
    BY <1>1, FS_Interval
  <2> HIDE DEF n
  <2>2. q \in Injection(1 .. n, S)
    BY <1>2 DEF Injection, IsInjective
  <2> QED
    BY <2>1, <2>2
<1>5. q \in Surjection(1 .. n, S)
  BY <1>4, FS_Injection
<1>6. \A p \in S : \E i \in 1 .. n : q[i] = p
  BY <1>5 DEF Surjection
<1> QED
  BY <1>1, <1>2, <1>3, <1>6

Unplaced(rows) == {p \in DOMAIN rows : rows[p].rank_override = NoPlace}

\* Places by hand are kept; the others get what is free, one each, by falling score.
LEMMA RanksGiven ==
    ASSUME NEW rows, IsFiniteSet(DOMAIN rows), NEW order \in AutoRanked(rows)
    PROVE  LET rank == RankByProject(rows, order)
           IN  /\ \A p \in DOMAIN rows \ Unplaced(rows) : rank[p] = rows[p].rank_override
               /\ \A p \in Unplaced(rows) : rank[p] \in Nat /\ rank[p] >= 1 /\ rank[p] \notin TakenSlots(rows)
               /\ \A p, q \in Unplaced(rows) : p # q => rank[p] # rank[q]
               /\ \A p, q \in Unplaced(rows) :
                     rows[p].score \in Nat /\ rows[q].score \in Nat /\ rows[p].score > rows[q].score => rank[p] < rank[q]
               /\ \A p \in Unplaced(rows) : \A k \in 1 .. rank[p] :
                     k \in TakenSlots(rows) \/ \E q \in Unplaced(rows) : rank[q] = k
<1> DEFINE free == Unplaced(rows)
           taken == TakenSlots(rows)
           n == Len(order)
           slots == Cursor(taken, n)
           at(p) == CHOOSE i \in 1 .. n : order[i] = p
           rank == RankByProject(rows, order)
<1>1. IsFiniteSet(free)
  BY FS_Subset DEF Unplaced
<1>2. IsFiniteSet(taken)
  <2> DEFINE f == [p \in DOMAIN rows |-> rows[p].rank_override]
             T == {rows[p].rank_override : p \in DOMAIN rows}
  <2>1. f \in Surjection(DOMAIN rows, T)
    BY DEF Surjection
  <2>2. IsFiniteSet(T)
    BY <2>1, FS_Surjection
  <2>3. taken \in SUBSET T
    BY DEF TakenSlots
  <2> HIDE DEF T
  <2> QED
    BY <2>2, <2>3, FS_Subset
<1>3. order \in SetToSeqs(free) /\ \A i, j \in DOMAIN order : i < j => rows[order[i]].score >= rows[order[j]].score
  BY DEF AutoRanked, Unplaced
<1>4. /\ n \in Nat /\ DOMAIN order = 1 .. n /\ \A i \in 1 .. n : order[i] \in free
      /\ \A i, j \in 1 .. n : i # j => order[i] # order[j]
      /\ \A p \in free : \E i \in 1 .. n : order[i] = p
  <2> HIDE DEF free
  <2> QED
    BY <1>1, <1>3, ListOf
<1>5. \A p \in DOMAIN rows : rank[p] = IF rows[p].rank_override # NoPlace THEN rows[p].rank_override ELSE slots[at(p)]
  BY <1>4 DEF RankByProject
<1>6. \A p \in free : rank[p] = slots[at(p)] /\ at(p) \in 1 .. n /\ order[at(p)] = p
  <2>1. \A p \in free : at(p) \in 1 .. n /\ order[at(p)] = p
    BY <1>4
  <2>2. \A p \in free : rank[p] = slots[at(p)]
    BY <1>5 DEF Unplaced
  <2> QED
    BY <2>1, <2>2
<1>7. \A i \in 1 .. n : slots[i] \in Nat /\ slots[i] >= 1 /\ slots[i] \notin taken
  BY <1>2, <1>4, CursorIs
<1>8. \A i, j \in 1 .. n : i < j => slots[i] < slots[j]
  BY <1>2, <1>4, CursorRises
<1>9. \A p \in DOMAIN rows \ free : rank[p] = rows[p].rank_override
  BY <1>5 DEF Unplaced
<1>10. \A i \in 1 .. n : \A k \in 1 .. slots[i] : k \notin taken => \E j \in 1 .. n : slots[j] = k
  BY <1>2, <1>4, CursorFills
<1>11. \A i \in 1 .. n : at(order[i]) = i
  BY <1>4
<1> HIDE DEF free, taken, slots, rank, at, n
<1>12. ASSUME NEW p \in free, NEW q \in free, p # q PROVE rank[p] # rank[q]
  <2>1. PICK i \in 1 .. n, j \in 1 .. n : i = at(p) /\ j = at(q) /\ i # j
    BY <1>6, <1>12
  <2>2. i < j \/ j < i
    BY <1>4, <2>1
  <2> QED
    BY <1>6, <1>7, <1>8, <2>1, <2>2
<1>13. ASSUME NEW p \in free, NEW q \in free, rows[p].score \in Nat, rows[q].score \in Nat, rows[p].score > rows[q].score
       PROVE  rank[p] < rank[q]
  <2>1. PICK i \in 1 .. n, j \in 1 .. n : i = at(p) /\ j = at(q) /\ order[i] = p /\ order[j] = q
    BY <1>6
  <2>2. ~(j < i) /\ i # j
    BY <1>3, <1>4, <1>13, <2>1
  <2>3. i < j
    BY <1>4, <2>2
  <2> QED
    BY <1>6, <1>8, <2>1, <2>3
<1>14. ASSUME NEW p \in free, NEW k \in 1 .. rank[p], k \notin taken PROVE \E q \in free : rank[q] = k
  <2>1. PICK j \in 1 .. n : slots[j] = k
    BY <1>6, <1>10, <1>14
  <2>2. order[j] \in free /\ rank[order[j]] = slots[j]
    BY <1>4, <1>6, <1>11
  <2> QED
    BY <2>1, <2>2
<1>15. \A p \in free : rank[p] \in Nat /\ rank[p] >= 1 /\ rank[p] \notin taken
  BY <1>6, <1>7
<1> QED
  BY <1>9, <1>12, <1>13, <1>14, <1>15 DEF free, taken, rank

-----------------------------------------------------------------------------
(* Type correctness *)

LEMMA DeskStep ==
    ASSUME PostInv, UNCHANGED vars, NEW r \in Request, NEW x, desk' = [desk EXCEPT ![r] = x], DeskHeld(r)',
           place' \in [Project -> Place],
           \A p \in Project : place'[p].rank_override # NoPlace => place'[p].rank # NoPlace,
           late' \in BOOLEAN, revisions' \in 0 .. MaxRevisions, revisions' > 0 => Published
    PROVE  PostInv'
<1>1. Inv' /\ (Published' <=> Published) /\ byHand' = byHand
  BY DEF vars, PostInv, Inv, TypeOK, Held, Present, Published
<1>2. desk' = [q \in Request |-> desk'[q]]
  BY DEF PostInv
<1>3. ASSUME NEW q \in Request, q # r PROVE DeskHeld(q)'
  <2>1. desk'[q] = desk[q] /\ DeskHeld(q)
    BY <1>3 DEF PostInv
  <2> QED
    BY <1>1, <2>1 DEF DeskHeld
<1>4. \A q \in Request : DeskHeld(q)'
  BY <1>3
<1> QED
  BY <1>1, <1>2, <1>4 DEF PostInv, PostTypeOK, Inv

LEMMA NoDeskHeld ==
    ASSUME NEW r \in Request, desk'[r] = NoDesk
    PROVE  DeskHeld(r)'
BY DEF DeskHeld, NoDesk

LEMMA DeskIs ==
    ASSUME PostInv, NEW r \in Request, NEW x, desk' = [desk EXCEPT ![r] = x]
    PROVE  desk'[r] = x
BY DEF PostInv

LEMMA ListedIs == Listed \subseteq Project /\ IsFiniteSet(Listed)
BY ProjectFinite, FS_Subset DEF Listed

LEMMA PlaceIs ==
    ASSUME PostInv, NEW p \in Project
    PROVE  place[p] \in Place /\ place[p].rank_override \in 1 .. MaxPlace \cup {NoPlace}
           /\ place[p].rank \in Nat \cup {NoPlace}
BY DEF PostInv, PostTypeOK, Place

\* What a run of the ranking writes.
LEMMA ComputeEffect ==
    ASSUME PostInv, NEW r \in Request, ComputeRankings(r)
    PROVE  /\ desk' = [desk EXCEPT ![r] = NoDesk] /\ late' = late /\ revisions' = revisions
           /\ desk[r].op = "rank" /\ DOMAIN desk[r].rows \subseteq Project
           /\ \E order \in AutoRanked(desk[r].rows) :
                 \A p \in Project :
                    place'[p] = IF p \in DOMAIN desk[r].rows
                                THEN [place[p] EXCEPT !.rank = RankByProject(desk[r].rows, order)[p]]
                                ELSE place[p]
           /\ place' \in [Project -> Place]
           /\ \A p \in Project : /\ place'[p].rank_override = place[p].rank_override
                                 /\ p \notin DOMAIN desk[r].rows => place'[p] = place[p]
                                 /\ p \in DOMAIN desk[r].rows => place'[p].rank \in Nat
<1> DEFINE rows == desk[r].rows
<1>1. /\ desk[r].op = "rank" /\ desk' = [desk EXCEPT ![r] = NoDesk] /\ late' = late /\ revisions' = revisions
  BY DEF ComputeRankings, Leave
<1>2. /\ DOMAIN rows \subseteq Project
      /\ \A p \in DOMAIN rows : rows[p].rank_override \in 1 .. MaxPlace \cup {NoPlace}
  BY <1>1 DEF PostInv, DeskHeld
<1>3. PICK order \in AutoRanked(rows) :
         place' = [p \in Project |-> IF p \in DOMAIN rows
                                     THEN [place[p] EXCEPT !.rank = RankByProject(rows, order)[p]] ELSE place[p]]
  BY DEF ComputeRankings
<1> HIDE DEF rows
<1>4. IsFiniteSet(DOMAIN rows)
  BY <1>2, ProjectFinite, FS_Subset
<1>5. \A p \in DOMAIN rows : RankByProject(rows, order)[p] \in Nat
  <2>1. /\ \A p \in DOMAIN rows \ Unplaced(rows) : RankByProject(rows, order)[p] = rows[p].rank_override
        /\ \A p \in Unplaced(rows) : RankByProject(rows, order)[p] \in Nat
    BY <1>4, RanksGiven
  <2>2. \A p \in DOMAIN rows \ Unplaced(rows) : rows[p].rank_override \in Nat
    BY <1>2 DEF Unplaced
  <2> QED
    BY <2>1, <2>2
<1>6. ASSUME NEW p \in Project
      PROVE  /\ place'[p] \in Place /\ place'[p].rank_override = place[p].rank_override
             /\ p \notin DOMAIN rows => place'[p] = place[p]
             /\ p \in DOMAIN rows => place'[p].rank \in Nat
  <2>1. place[p] \in Place
    BY PlaceIs
  <2>2. CASE p \in DOMAIN rows
    <3>1. PICK n \in Nat : n = RankByProject(rows, order)[p]
      BY <1>5, <2>2
    <3>2. place'[p] = [place[p] EXCEPT !.rank = n]
      BY <1>3, <2>2, <3>1
    <3> QED
      BY <2>1, <2>2, <3>2 DEF Place
  <2>3. CASE p \notin DOMAIN rows
    BY <1>3, <2>1, <2>3
  <2> QED
    BY <2>2, <2>3
<1>7. place' \in [Project -> Place]
  BY <1>3, <1>6
<1> QED
  BY <1>1, <1>2, <1>3, <1>6, <1>7 DEF rows

LEMMA DeskSteps ==
    ASSUME PostInv, UNCHANGED vars, NEW r \in Request, PostArrive(r) \/ PostProceed(r)
    PROVE  PostInv'
<1>1. /\ place \in [Project -> Place] /\ late \in BOOLEAN /\ revisions \in 0 .. MaxRevisions
      /\ \A p \in Project : place[p].rank_override # NoPlace => place[p].rank # NoPlace
      /\ revisions > 0 => Published
  BY DEF PostInv, PostTypeOK
<1>2. Published' <=> Published
  BY DEF vars, Published
<1>3. CASE ComputeRead(r)
  <2> DEFINE rows == [p \in Listed |-> [score |-> FinalScore(p), rank_override |-> place[p].rank_override]]
             x == [op |-> "rank", rows |-> rows]
  <2>1. desk' = [desk EXCEPT ![r] = x] /\ UNCHANGED <<place, late, revisions>>
    BY <1>3 DEF ComputeRead, Take
  <2>2. /\ DOMAIN rows = Listed
        /\ \A p \in Listed : rows[p].rank_override = place[p].rank_override
    OBVIOUS
  <2> HIDE DEF rows
  <2>3. x.op = "rank" /\ x.rows = rows
    OBVIOUS
  <2> HIDE DEF x
  <2>4. desk'[r] = x
    BY <2>1, DeskIs
  <2>5. DeskHeld(r)'
    BY <2>2, <2>3, <2>4, ListedIs, PlaceIs DEF DeskHeld
  <2> QED
    BY <1>1, <2>1, <2>5, DeskStep
<1>4. ASSUME NEW p \in Project, NEW n \in 1 .. MaxPlace, RankRead(r, p, n) PROVE PostInv'
  <2> DEFINE x == [op |-> "place", project |-> p, n |-> n]
  <2>1. desk' = [desk EXCEPT ![r] = x] /\ UNCHANGED <<place, late, revisions>>
    BY <1>4 DEF RankRead, Take
  <2>2. x.op = "place" /\ x.project = p /\ x.n = n
    OBVIOUS
  <2> HIDE DEF x
  <2>3. desk'[r] = x
    BY <2>1, DeskIs
  <2>4. DeskHeld(r)'
    BY <2>2, <2>3 DEF DeskHeld
  <2> QED
    BY <1>1, <2>1, <2>4, DeskStep
<1>5. ASSUME NEW passed \in BOOLEAN, SetRevisionWindow(r, passed) PROVE PostInv'
  <2>1. late' = passed /\ UNCHANGED <<place, revisions, desk>>
    BY <1>5 DEF SetRevisionWindow
  <2>2. desk' = [desk EXCEPT ![r] = desk[r]]
    BY <2>1 DEF PostInv
  <2>3. DeskHeld(r)'
    BY <1>2, <2>1 DEF PostInv, DeskHeld
  <2> QED
    BY <1>1, <2>1, <2>2, <2>3, DeskStep
<1>6. CASE RevisionRead(r)
  <2> DEFINE x == [op |-> "revise"]
  <2>1. desk' = [desk EXCEPT ![r] = x] /\ UNCHANGED <<place, late, revisions>> /\ Published
    BY <1>6 DEF RevisionRead, Take, MayRevise
  <2>2. desk'[r] = x
    BY <2>1, DeskIs
  <2>3. DeskHeld(r)'
    BY <1>2, <2>1, <2>2 DEF DeskHeld
  <2> QED
    BY <1>1, <2>1, <2>3, DeskStep
<1>7. CASE ComputeRankings(r)
  <2>1. /\ desk' = [desk EXCEPT ![r] = NoDesk] /\ late' = late /\ revisions' = revisions
        /\ place' \in [Project -> Place]
        /\ \A p \in Project : /\ place'[p].rank_override = place[p].rank_override
                              /\ p \notin DOMAIN desk[r].rows => place'[p] = place[p]
                              /\ p \in DOMAIN desk[r].rows => place'[p].rank \in Nat
    BY <1>7, ComputeEffect
  <2>2. NoPlace \notin Nat
    BY PostDefenseAssumption
  <2>3. \A p \in Project : place'[p].rank_override # NoPlace => place'[p].rank # NoPlace
    BY <1>1, <2>1, <2>2
  <2> QED
    BY <1>1, <2>1, <2>3, DeskIs, NoDeskHeld, DeskStep
<1>8. CASE UpdateRank(r)
  <2> DEFINE x == [rank |-> desk[r].n, rank_override |-> desk[r].n]
  <2>1. /\ desk[r].op = "place" /\ place' = [place EXCEPT ![desk[r].project] = x]
        /\ desk' = [desk EXCEPT ![r] = NoDesk] /\ UNCHANGED <<late, revisions>>
    BY <1>8 DEF UpdateRank, Leave
  <2>2. desk[r].project \in Project /\ desk[r].n \in 1 .. MaxPlace
    BY <2>1 DEF PostInv, DeskHeld
  <2>3. x \in Place /\ x.rank = x.rank_override
    BY <2>2 DEF Place
  <2> HIDE DEF x
  <2>4. /\ place' \in [Project -> Place]
        /\ \A p \in Project : place'[p].rank_override # NoPlace => place'[p].rank # NoPlace
    BY <1>1, <2>1, <2>2, <2>3
  <2> QED
    BY <1>1, <2>1, <2>4, DeskIs, NoDeskHeld, DeskStep
<1>9. CASE SubmitRevision(r)
  <2>1. /\ desk[r].op = "revise" /\ revisions < MaxRevisions /\ revisions' = revisions + 1
        /\ desk' = [desk EXCEPT ![r] = NoDesk] /\ UNCHANGED <<place, late>>
    BY <1>9 DEF SubmitRevision, Leave
  <2>2. Published
    BY <2>1 DEF PostInv, DeskHeld
  <2>3. revisions' \in 0 .. MaxRevisions
    BY <1>1, <2>1, PostDefenseAssumption
  <2> QED
    BY <1>1, <2>1, <2>2, <2>3, DeskIs, NoDeskHeld, DeskStep
<1>10. CASE BreakOff(r)
  <2>1. desk' = [desk EXCEPT ![r] = NoDesk] /\ UNCHANGED <<place, late, revisions>>
    BY <1>10 DEF BreakOff, Leave
  <2> QED
    BY <1>1, <2>1, DeskIs, NoDeskHeld, DeskStep
<1> QED
  BY <1>3, <1>4, <1>5, <1>6, <1>7, <1>8, <1>9, <1>10 DEF PostArrive, PostProceed

LEMMA PostInvNext ==
    ASSUME PostInv, [PostNext]_allVars
    PROVE  PostInv'
<1>1. CASE UNCHANGED allVars
  BY <1>1 DEF allVars, vars, post, PostInv, PostTypeOK, Inv, TypeOK, Held, Present, DeskHeld, Published
<1>2. CASE Next /\ Noted /\ UNCHANGED <<scope, post>>
  <2>1. Inv' /\ (Published => Published')
    BY <1>2, InvNext, PublishedStays DEF PostInv
  <2>2. UNCHANGED <<place, late, revisions, desk>>
    BY <1>2 DEF post
  <2>3. \A q \in Request : DeskHeld(q)'
    BY <2>1, <2>2 DEF PostInv, DeskHeld
  <2>4. byHand' \in BOOLEAN
    BY <1>2 DEF Noted, PostInv, PostTypeOK
  <2> QED
    BY <2>1, <2>2, <2>3, <2>4 DEF PostInv, PostTypeOK, Inv
<1>3. CASE DeadlinePasses /\ UNCHANGED vars
  BY <1>3 DEF DeadlinePasses, vars, PostInv, PostTypeOK, Inv, TypeOK, Held, Present, DeskHeld, Published
<1>4. CASE UNCHANGED vars /\ \E r \in Request : PostArrive(r) \/ PostProceed(r)
  BY <1>4, DeskSteps
<1> QED
  BY <1>1, <1>2, <1>3, <1>4 DEF PostNext

LEMMA PostInvInit ==
    ASSUME PostInit
    PROVE  PostInv
<1>1. Inv
  BY InvInit DEF PostInit
<1>2. \A r \in Request : desk[r] = NoDesk /\ DeskHeld(r)
  BY DEF PostInit, DeskHeld, NoDesk
<1>3. \A p \in Project : place[p] \in Place /\ place[p].rank_override = NoPlace
  BY DEF PostInit, Place
<1>4. place \in [Project -> Place] /\ desk = [q \in Request |-> desk[q]]
  BY <1>3 DEF PostInit
<1>5. late \in BOOLEAN /\ revisions \in 0 .. MaxRevisions /\ ~(revisions > 0) /\ byHand \in BOOLEAN
  <2>1. MaxRevisions \in Nat
    BY PostDefenseAssumption
  <2>2. late = FALSE /\ revisions = 0 /\ byHand = FALSE
    BY DEF PostInit, Init
  <2>3. revisions \in 0 .. MaxRevisions /\ ~(revisions > 0)
    BY <2>1, <2>2
  <2> QED
    BY <2>2, <2>3, Zenon
<1> QED
  BY <1>1, <1>2, <1>3, <1>4, <1>5 DEF PostInv, PostTypeOK, Inv

\* The grade, the sheets, the places, the revisions and what is read of them stay well formed
\* however requests overlap and wherever they die: a score within 0 and 10 marks, a place
\* for who was given one by hand, a revision of what was published only.
THEOREM PostTypeCorrect == PostSpec => []PostTypeOK
<1>1. PostInv => PostTypeOK
  BY DEF PostInv
<1> QED
  BY <1>1, PostInvInit, PostInvNext, PTL DEF PostSpec

-----------------------------------------------------------------------------
(* The grade, with requests one by one *)

LEMMA Alone ==
    ASSUME Undisturbed, Inv, NEW r \in scope.requests, NEW q \in Request, q # r
    PROVE  r \in Request /\ pc[q] = "idle"
<1>1. scope.requests \subseteq Request /\ IsFiniteSet(scope.requests) /\ Cardinality(scope.requests) = 1
  BY ScoringAssumption, FS_Subset DEF Inv, Undisturbed
<1>2. PICK x : scope.requests = {x}
  BY <1>1, FS_Singleton
<1> QED
  BY <1>1, <1>2 DEF Inv, Held

LEMMA CurrentIdle ==
    ASSUME NEW q \in Request, pc[q] = "idle"
    PROVE  Current(q)
BY DEF Current, Settling

LEMMA CurrentIdleNext ==
    ASSUME NEW q \in Request, pc'[q] = "idle"
    PROVE  Current(q)'
BY DEF Current, Settling

\* The rows say the same if they are the same.
LEMMA SameRows ==
    ASSUME sheet' = sheet, result' = result
    PROVE  /\ FinalStatusNow' = FinalStatusNow /\ (IsFinalized' <=> IsFinalized)
           /\ (AllGraded' <=> AllGraded) /\ \A role : Graded(role)' <=> Graded(role)
           /\ (TranscriptBuilds' <=> TranscriptBuilds) /\ (Published' <=> Published)
           /\ Marks' = Marks /\ \A bonus : Total(bonus)' = Total(bonus)
<1>1. FinalStatusNow' = FinalStatusNow /\ (IsFinalized' <=> IsFinalized)
  BY DEF FinalStatusNow, IsFinalized
<1>2. \A role : Graded(role)' <=> Graded(role)
  BY DEF Graded
<1>3. AllGraded' <=> AllGraded
  BY <1>2 DEF AllGraded
<1>4. Marks' = Marks
  BY DEF Marks
<1>5. \A bonus : Total(bonus)' = Total(bonus)
  BY <1>4 DEF Total
<1>6. Published' <=> Published
  BY DEF Published
<1> QED
  BY <1>1, <1>2, <1>3, <1>4, <1>5, <1>6 DEF TranscriptBuilds

LEMMA SameGrade ==
    ASSUME sheet' = sheet, result' = result, GradeHolds, Undecided
    PROVE  GradeHolds' /\ Undecided'
<1>1. /\ (TranscriptBuilds' <=> TranscriptBuilds) /\ (IsFinalized' <=> IsFinalized)
      /\ Total(result.bonus_score)' = Total(result.bonus_score) /\ Marks' = Marks
  <2>1. \A bonus : Total(bonus)' = Total(bonus)
    BY SameRows
  <2>2. Total(result.bonus_score)' = Total(result.bonus_score)
    BY SameRows DEF Total
  <2> QED
    BY <2>2, SameRows
<1>2. Undecided'
  BY <1>1 DEF Undecided
<1>3. Capped(Weighted(Marks))' = Capped(Weighted(Marks))
  BY <1>1
<1>4. GradeHolds'
  BY <1>1, <1>3 DEF GradeHolds
<1> QED
  BY <1>2, <1>4

\* A grade that is complete after a step that locks graded sheets was so before.
LEMMA LockedGrade ==
    ASSUME TypeOK, TypeOK', result' = result, GradeHolds, Undecided,
           \A role \in Role : sheet'[role] = sheet[role] \/ ~Graded(role)'
    PROVE  GradeHolds' /\ Undecided'
<1>1. Undecided'
  BY DEF Undecided, IsFinalized, FinalStatusNow
<1>2. CASE TranscriptBuilds'
  <2>1. \A role \in Role : sheet'[role] = sheet[role]
    BY <1>2 DEF TranscriptBuilds, AllGraded
  <2>2. sheet' = sheet
    BY <2>1 DEF TypeOK
  <2> QED
    BY <2>2, SameGrade
<1>3. CASE ~TranscriptBuilds'
  BY <1>1, <1>3 DEF GradeHolds
<1> QED
  BY <1>2, <1>3

\* Nobody but the handler that steps has anything in hand.
LEMMA GradeStep ==
    ASSUME Undisturbed, Inv, NEW r \in scope.requests, \A q \in Request \ {r} : pc'[q] = pc[q],
           SupervisorHolds', GradeHolds', Undecided', Current(r)'
    PROVE  GradeInv'
<1>1. ASSUME NEW q \in Request PROVE Current(q)'
  <2>1. CASE q = r
    BY <2>1
  <2>2. CASE q # r
    BY <2>2, Alone, CurrentIdleNext
  <2> QED
    BY <2>1, <2>2
<1> QED
  BY <1>1 DEF GradeInv

\* A step that changes no row, of a handler that has no failed mark to settle or keeps it.
LEMMA QuietStep ==
    ASSUME Undisturbed, Inv, GradeInv, NEW r \in scope.requests, OnlyAt(r), sheet' = sheet, result' = result,
           pc[r] \in Settling => pc'[r] \in Settling /\ arg'[r].role = arg[r].role /\ arg'[r].mark = arg[r].mark,
           Current(r)'
    PROVE  GradeInv'
<1>1. r \in Request /\ \A q \in Request \ {r} : pc'[q] = pc[q] /\ pc[q] = "idle"
  <2>1. r \in Request
    BY ScoringAssumption DEF Inv
  <2> QED
    BY <2>1, Alone DEF OnlyAt, Inv, TypeOK
<1>2. SupervisorHolds'
  <2>1. (IsFinalized' <=> IsFinalized) /\ FinalStatusNow' = FinalStatusNow /\ (Graded("GVHD")' <=> Graded("GVHD"))
    BY SameRows
  <2>2. ASSUME NEW q \in Request, pc[q] \in Settling, arg[q].role = "GVHD", ~Passing(arg[q].mark)
        PROVE  pc'[q] \in Settling /\ arg'[q].role = "GVHD" /\ ~Passing(arg'[q].mark)
    <3>1. q = r
      BY <1>1, <2>2 DEF Settling
    <3> QED
      BY <2>2, <3>1
  <2> QED
    BY <2>1, <2>2 DEF GradeInv, SupervisorHolds
<1> QED
  BY <1>1, <1>2, SameGrade, GradeStep DEF GradeInv

LEMMA ArrivedGrade ==
    ASSUME Undisturbed, Inv, GradeInv, NEW r \in scope.requests, sheet' = sheet, result' = result,
           NEW op, NEW step, NEW a, Begin(r, op, step, a),
           pc'[r] = step /\ arg'[r] = a => Current(r)'
    PROVE  GradeInv'
<1>1. r \in Request
  BY ScoringAssumption DEF Inv
<1>2. OnlyAt(r) /\ pc[r] = "idle" /\ pc'[r] = step /\ arg'[r] = a
  BY <1>1, Begun
<1> QED
  BY <1>2, QuietStep DEF Settling

LEMMA ArriveGrade ==
    ASSUME Undisturbed, Inv, GradeInv, NEW r \in scope.requests, Arrive(r)
    PROVE  GradeInv'
<1>1. CASE IssueRead(r)
  <2> DEFINE a == [op |-> "issue", ids |-> {}, roles |-> {role \in Role : sheet[role] = NoSheet}]
  <2>1. Begin(r, "issue", "store", a) /\ sheet' = sheet /\ result' = result /\ a.op = "issue"
    BY <1>1 DEF IssueRead
  <2> HIDE DEF a
  <2>2. pc'[r] = "store" /\ arg'[r] = a => Current(r)'
    BY <2>1 DEF Current, Settling
  <2> QED
    BY <2>1, <2>2, ArrivedGrade
<1>2. ASSUME NEW role \in Role, CreateRead(r, role) PROVE GradeInv'
  <2> DEFINE a == [op |-> "create", ids |-> {}, roles |-> {role}]
  <2>1. Begin(r, "create", "store", a) /\ sheet' = sheet /\ result' = result /\ a.op = "create"
    BY <1>2 DEF CreateRead
  <2> HIDE DEF a
  <2>2. pc'[r] = "store" /\ arg'[r] = a => Current(r)'
    BY <2>1 DEF Current, Settling
  <2> QED
    BY <2>1, <2>2, ArrivedGrade
<1>3. ASSUME NEW role \in Role, DeleteRead(r, role) PROVE GradeInv'
  <2> DEFINE a == [op |-> "delete", ids |-> {role}, role |-> role]
  <2>1. /\ Begin(r, "delete", "store", a) /\ sheet' = sheet /\ result' = result /\ a.op = "delete" /\ a.role = role
        /\ sheet[role].status # "SUBMITTED"
    BY <1>3 DEF DeleteRead
  <2> HIDE DEF a
  <2>2. pc'[r] = "store" /\ arg'[r] = a => Current(r)'
    BY <2>1 DEF Current, Settling
  <2> QED
    BY <2>1, <2>2, ArrivedGrade
<1>4. ASSUME NEW role \in Role, NEW mark, NEW status, UpdateRead(r, role, mark, status) PROVE GradeInv'
  <2> DEFINE a == [op |-> "update", ids |-> {role}, role |-> role, mark |-> mark,
                   status |-> status, seen |-> sheet[role].status]
  <2>1. /\ Begin(r, "update", "check", a) /\ sheet' = sheet /\ result' = result
        /\ a.role = role /\ a.seen = sheet[role].status
    BY <1>4 DEF UpdateRead
  <2> HIDE DEF a
  <2>2. pc'[r] = "check" /\ arg'[r] = a => Current(r)'
    BY <2>1 DEF Current, Settling
  <2> QED
    BY <2>1, <2>2, ArrivedGrade
<1>5. ASSUME NEW role \in Role, NEW mark, SubmitRead(r, role, mark) PROVE GradeInv'
  <2> DEFINE a == [op |-> "submit", ids |-> {role}, role |-> role, mark |-> mark,
                   seen |-> sheet[role].status, preview |-> NoMark]
  <2>1. /\ Begin(r, "submit", "check", a) /\ sheet' = sheet /\ result' = result
        /\ a.role = role /\ a.seen = sheet[role].status
    BY <1>5 DEF SubmitRead
  <2> HIDE DEF a
  <2>2. pc'[r] = "check" /\ arg'[r] = a => Current(r)'
    BY <2>1 DEF Current, Settling
  <2> QED
    BY <2>1, <2>2, ArrivedGrade
<1>6. CASE FinalizeRead(r)
  <2> DEFINE a == [op |-> "finalize", ids |-> {}]
  <2>1. Begin(r, "finalize", "gvhd", a) /\ sheet' = sheet /\ result' = result
    BY <1>6 DEF FinalizeRead
  <2>2. FinalStatusNow = "NONE"
    <3>1. result # NoResult => result.final_status \in FinalStatus
      BY ResultFields DEF Inv, TypeOK
    <3> QED
      BY <1>6, <3>1 DEF FinalizeRead, IsFinalized, FinalStatusNow, FinalStatus
  <2> HIDE DEF a
  <2>3. pc'[r] = "gvhd" /\ arg'[r] = a => Current(r)'
    BY <2>1, <2>2, SameRows DEF Current, Settling
  <2> QED
    BY <2>1, <2>3, ArrivedGrade
<1>7. ASSUME NEW bonus \in Bonus, BonusRead(r, bonus) PROVE GradeInv'
  <2> DEFINE a == [op |-> "bonus", ids |-> {}, bonus |-> bonus, final |-> Total(bonus),
                   status |-> result.final_status]
  <2>1. /\ Begin(r, "bonus", "store", a) /\ sheet' = sheet /\ result' = result /\ TranscriptBuilds /\ ~result.is_published
    BY <1>7 DEF BonusRead
  <2>2. a.op = "bonus" /\ a.bonus = bonus /\ a.final = Total(bonus) /\ a.status = result.final_status
    OBVIOUS
  <2> HIDE DEF a
  <2>3. Total(bonus)' = Total(bonus) /\ TranscriptBuilds'
    BY <2>1, SameRows
  <2>4. ASSUME pc'[r] = "store", arg'[r] = a PROVE Current(r)'
    <3>1. Total(arg[r].bonus)' = Total(bonus)
      BY <2>2, <2>3, <2>4 DEF Total
    <3> QED
      BY <2>1, <2>2, <2>3, <2>4, <3>1 DEF Current, Settling
  <2> QED
    BY <2>1, <2>4, ArrivedGrade
<1>8. CASE PublishRead(r)
  <2> DEFINE a == [op |-> "publish", ids |-> {}, final |-> Total(result.bonus_score),
                   status |-> result.final_status]
  <2>1. /\ Begin(r, "publish", "store", a) /\ sheet' = sheet /\ result' = result /\ TranscriptBuilds /\ ~result.is_published
    BY <1>8 DEF PublishRead
  <2>2. a.op = "publish" /\ a.final = Total(result.bonus_score) /\ a.status = result.final_status
    OBVIOUS
  <2> HIDE DEF a
  <2>3. Total(result.bonus_score)' = Total(result.bonus_score) /\ TranscriptBuilds'
    <3>1. TranscriptBuilds' /\ Marks' = Marks
      BY <2>1, SameRows
    <3> QED
      BY <2>1, <3>1 DEF Total
  <2>4. ASSUME pc'[r] = "store", arg'[r] = a PROVE Current(r)'
    BY <2>1, <2>2, <2>3, <2>4 DEF Current, Settling
  <2> QED
    BY <2>1, <2>4, ArrivedGrade
<1> QED
  BY <1>1, <1>2, <1>3, <1>4, <1>5, <1>6, <1>7, <1>8 DEF Arrive

LEMMA CheckGrade ==
    ASSUME Undisturbed, Inv, GradeInv, NEW r \in scope.requests, UpdateCheck(r) \/ SubmitCheck(r)
    PROVE  GradeInv'
<1>1. /\ pc[r] = "check" /\ arg[r].op \in {"update", "submit"} /\ Go(r, "store") /\ sheet' = sheet /\ result' = result
      /\ StageUnlocked(arg[r].role, arg[r].seen) /\ arg[r].seen # "SUBMITTED"
  BY DEF UpdateCheck, SubmitCheck, MaySubmit, At
<1>2. r \in Request /\ Current(r)
  BY ScoringAssumption DEF Inv, GradeInv
<1>3. OnlyAt(r) /\ pc'[r] = "store" /\ arg'[r] = arg[r]
  BY <1>1, <1>2, Gone
<1>4. arg[r].role \in arg[r].ids => ~IsFinalized
  <2>1. CASE arg[r].role = "GVHD"
    BY <1>1, <1>2, <2>1 DEF Current, GradeInv, SupervisorHolds
  <2>2. CASE arg[r].role # "GVHD"
    BY <1>1, <2>2 DEF StageUnlocked
  <2> QED
    BY <2>1, <2>2
<1>5. Current(r)'
  BY <1>1, <1>3, <1>4, SameRows DEF Current, Settling
<1> QED
  BY <1>1, <1>3, <1>5, QuietStep DEF Settling

LEMMA SettleGrade ==
    ASSUME Undisturbed, Inv, GradeInv, NEW r \in scope.requests, FindResult(r) \/ CollectScores(r)
    PROVE  GradeInv'
<1>1. r \in Request /\ Current(r)
  BY ScoringAssumption DEF Inv, GradeInv
<1>2. CASE FindResult(r)
  <2> DEFINE step == IF result = NoResult THEN "create" ELSE "collect"
  <2>1. /\ pc[r] = "result" /\ arg[r].op = "submit" /\ Go(r, step) /\ sheet' = sheet /\ result' = result
        /\ step \in {"create", "collect"} /\ (step = "create" => result = NoResult)
    BY <1>2 DEF FindResult, At
  <2> HIDE DEF step
  <2>2. OnlyAt(r) /\ pc'[r] = step /\ arg'[r] = arg[r]
    BY <1>1, <2>1, Gone
  <2>3. Current(r)'
    BY <1>1, <2>1, <2>2, SameRows DEF Current, Settling
  <2> QED
    BY <2>1, <2>2, <2>3, QuietStep DEF Settling
<1>3. CASE CollectScores(r)
  <2> DEFINE preview == IF AllGraded THEN Capped(Round2(Weighted(Marks))) ELSE NoMark
  <2>1. /\ pc[r] = "collect" /\ arg[r].op = "submit" /\ sheet' = sheet /\ result' = result
        /\ arg' = [arg EXCEPT ![r].preview = preview] /\ pc' = [pc EXCEPT ![r] = "save"]
    BY <1>3 DEF CollectScores, At
  <2> HIDE DEF preview
  <2>2. pc'[r] = "save" /\ OnlyAt(r) /\ arg'[r] = [arg[r] EXCEPT !.preview = preview] /\ arg[r] \in Arg
    BY <1>1, <2>1 DEF OnlyAt, Inv, TypeOK
  <2>3. arg'[r].role = arg[r].role /\ arg'[r].mark = arg[r].mark
    BY <2>1, <2>2 DEF Arg
  <2>4. Current(r)'
    BY <1>1, <2>1, <2>2, SameRows DEF Current, Settling
  <2> QED
    BY <2>1, <2>2, <2>3, <2>4, QuietStep DEF Settling
<1> QED
  BY <1>2, <1>3

LEMMA MeetingGrade ==
    ASSUME Undisturbed, Inv, GradeInv, NEW r \in scope.requests, FinalizeGvhd(r) \/ FinalizeCommittee(r)
    PROVE  GradeInv'
<1>1. r \in Request /\ Current(r)
  BY ScoringAssumption DEF Inv, GradeInv
<1>2. CASE FinalizeGvhd(r)
  <2> DEFINE a == [op |-> "finalize", ids |-> {}, gvhd |-> sheet["GVHD"].score]
  <2>1. /\ pc[r] = "gvhd" /\ sheet' = sheet /\ result' = result /\ Graded("GVHD") /\ Passing(sheet["GVHD"].score)
        /\ arg' = [arg EXCEPT ![r] = a] /\ pc' = [pc EXCEPT ![r] = "committee"] /\ a.gvhd = sheet["GVHD"].score
    BY <1>2 DEF FinalizeGvhd, At
  <2> HIDE DEF a
  <2>2. pc'[r] = "committee" /\ OnlyAt(r) /\ arg'[r] = a
    BY <1>1, <2>1 DEF OnlyAt, Inv, TypeOK
  <2>3. Current(r)'
    BY <1>1, <2>1, <2>2, SameRows DEF Current, Settling
  <2> QED
    BY <2>1, <2>2, <2>3, QuietStep DEF Settling
<1>3. CASE FinalizeCommittee(r)
  <2>1. /\ pc[r] = "committee" /\ \A role \in Committee : Graded(role)
        /\ arg'[r].marks["GVHD"] = arg[r].gvhd /\ \A role \in Committee : arg'[r].marks[role] = sheet[role].score
        /\ arg'[r].op = "finalize" /\ OnlyAt(r) /\ pc'[r] = "store" /\ sheet' = sheet /\ result' = result
    BY <1>1, <1>3, FinalizeCommitteeEffect
  <2>2. FinalStatusNow = "NONE" /\ Graded("GVHD") /\ Passing(arg[r].gvhd) /\ sheet["GVHD"].score = arg[r].gvhd
    BY <1>1, <2>1 DEF Current
  <2>3. \A role \in Role : Graded(role)' /\ sheet'[role].score = arg'[r].marks[role]
    BY <2>1, <2>2, SameRows DEF Role
  <2>4. Current(r)'
    BY <2>1, <2>2, <2>3, SameRows DEF Current, Settling
  <2> QED
    BY <2>1, <2>4, QuietStep DEF Settling
<1> QED
  BY <1>2, <1>3

\* Requests that fail have nothing to settle, for none dies there.
LEMMA FailGrade ==
    ASSUME Undisturbed, Inv, GradeInv, NEW r \in scope.requests, Fail(r)
    PROVE  GradeInv'
<1>1. r \in Request /\ Current(r)
  BY ScoringAssumption DEF Inv, GradeInv
<1>2. OnlyAt(r) /\ pc'[r] = "idle" /\ sheet' = sheet /\ result' = result
  BY <1>1, Finished DEF Fail
<1>3. pc[r] \notin Settling
  BY <1>1 DEF Fail, Settling, Current, Undisturbed
<1> QED
  BY <1>1, <1>2, <1>3, CurrentIdleNext, QuietStep

\* New sheets are not graded.
SheetsAdded ==
    \A role \in Role : sheet'[role] = sheet[role] \/ (sheet[role] = NoSheet /\ sheet'[role] = NewSheet)

LEMMA AddedGrade ==
    ASSUME Inv, Inv', SheetsAdded, result' = result, GradeHolds, Undecided
    PROVE  /\ GradeHolds' /\ Undecided' /\ FinalStatusNow' = FinalStatusNow /\ (IsFinalized' <=> IsFinalized)
           /\ \A role \in Role : Graded(role) => Graded(role)' /\ sheet'[role] = sheet[role]
           /\ sheet'["GVHD"] = sheet["GVHD"] \/ (sheet["GVHD"] = NoSheet /\ sheet'["GVHD"].status = "PENDING")
<1>1. \A role \in Role : sheet'[role] = sheet[role] \/ ~Graded(role)'
  BY NewSheetIs DEF SheetsAdded, Graded
<1>2. GradeHolds' /\ Undecided'
  BY <1>1, LockedGrade DEF Inv
<1>3. FinalStatusNow' = FinalStatusNow /\ (IsFinalized' <=> IsFinalized)
  BY DEF FinalStatusNow, IsFinalized
<1>4. \A role \in Role : Graded(role) => Graded(role)' /\ sheet'[role] = sheet[role]
  BY DEF SheetsAdded, Graded
<1>5. sheet'["GVHD"] = sheet["GVHD"] \/ (sheet["GVHD"] = NoSheet /\ sheet'["GVHD"].status = "PENDING")
  BY NewSheetIs DEF SheetsAdded, Role
<1> QED
  BY <1>2, <1>3, <1>4, <1>5

LEMMA SheetsWriteGrade ==
    ASSUME Undisturbed, Inv, Inv', GradeInv, NEW r \in scope.requests, SheetsWrite(r)
    PROVE  GradeInv'
<1>1. r \in Request
  BY ScoringAssumption DEF Inv
<1>2. /\ \A role \in arg[r].roles : sheet[role] = NoSheet
      /\ sheet' = [role \in Role |-> IF role \in arg[r].roles THEN NewSheet ELSE sheet[role]]
      /\ Finish(r) /\ result' = result /\ pc[r] = "store"
  BY DEF SheetsWrite, At
<1>3. SheetsAdded
  BY <1>2, SheetsMade DEF SheetsAdded
<1>4. OnlyAt(r) /\ pc'[r] = "idle"
  BY <1>1, <1>2, Finished
<1>5. \A q \in Request \ {r} : pc'[q] = pc[q] /\ pc[q] = "idle"
  BY <1>4, Alone DEF OnlyAt, Inv, TypeOK
<1>6. sheet["GVHD"] # NoSheet /\ sheet["GVHD"].status = "FAILED" => FinalStatusNow = "REJECTED_GVHD"
  BY <1>2, <1>5 DEF GradeInv, SupervisorHolds, Settling
<1>7. SupervisorHolds'
  BY <1>2, <1>3, <1>6, AddedGrade DEF GradeInv, SupervisorHolds, Role, Graded
<1> QED
  BY <1>1, <1>2, <1>3, <1>4, <1>5, <1>7, AddedGrade, CurrentIdleNext, GradeStep DEF GradeInv

LEMMA AssignGrade ==
    ASSUME Inv, Inv', GradeInv, AssignScoresToCommittee
    PROVE  GradeInv'
<1> DEFINE roles == {role \in Committee : sheet[role] = NoSheet}
<1>1. /\ sheet' = [role \in Role |-> IF role \in roles THEN NewSheet ELSE sheet[role]]
      /\ UNCHANGED <<result, pc, arg>>
  BY DEF AssignScoresToCommittee
<1>2. \A role \in Role \cap roles : sheet[role] = NoSheet
  OBVIOUS
<1>3. SheetsAdded
  <2> HIDE DEF roles
  <2> QED
    BY <1>1, <1>2, SheetsMade DEF SheetsAdded
<1>4. /\ GradeHolds' /\ Undecided' /\ FinalStatusNow' = FinalStatusNow /\ (IsFinalized' <=> IsFinalized)
      /\ \A role \in Role : Graded(role) => Graded(role)' /\ sheet'[role] = sheet[role]
      /\ sheet'["GVHD"] = sheet["GVHD"] \/ (sheet["GVHD"] = NoSheet /\ sheet'["GVHD"].status = "PENDING")
  BY <1>1, <1>3, AddedGrade DEF GradeInv
<1>5. SupervisorHolds'
  BY <1>1, <1>4 DEF GradeInv, SupervisorHolds, Role, Graded
<1>6. \A role \in Present : sheet'[role] = sheet[role]
  BY <1>3 DEF SheetsAdded, Present
<1>7. TranscriptBuilds => sheet' = sheet
  <2>1. TranscriptBuilds => \A role \in Role : sheet'[role] = sheet[role]
    BY <1>4 DEF TranscriptBuilds, AllGraded
  <2> QED
    BY <2>1 DEF Inv, TypeOK
<1>8. ASSUME NEW q \in Request PROVE Current(q)'
  <2>1. pc'[q] = pc[q] /\ arg'[q] = arg[q] /\ result' = result /\ Held(q) /\ Current(q)
    BY <1>1 DEF Inv, GradeInv
  <2>2. arg[q].role \in arg[q].ids => sheet'[arg[q].role] = sheet[arg[q].role]
    BY <1>6, <2>1 DEF Held
  <2>3. pc[q] = "store" /\ arg[q].op \in {"bonus", "publish"} =>
          /\ TranscriptBuilds' /\ ~result'.is_published /\ arg'[q].status = result'.final_status
          /\ arg'[q].final = Total(IF arg[q].op = "bonus" THEN arg[q].bonus ELSE result.bonus_score)'
    <3>1. SUFFICES ASSUME pc[q] = "store", arg[q].op \in {"bonus", "publish"}
                   PROVE  /\ TranscriptBuilds' /\ ~result'.is_published /\ arg'[q].status = result'.final_status
                          /\ arg'[q].final = Total(IF arg[q].op = "bonus" THEN arg[q].bonus ELSE result.bonus_score)'
      OBVIOUS
    <3>2. /\ TranscriptBuilds /\ ~result.is_published /\ arg[q].status = result.final_status
          /\ arg[q].final = Total(IF arg[q].op = "bonus" THEN arg[q].bonus ELSE result.bonus_score)
      BY <2>1, <3>1 DEF Current
    <3>3. TranscriptBuilds' /\ Marks' = Marks
      BY <1>7, <2>1, <3>2, SameRows
    <3> QED
      BY <2>1, <3>2, <3>3 DEF Total
  <2>4. pc[q] = "committee" => Graded("GVHD")' /\ Passing(arg'[q].gvhd) /\ sheet'["GVHD"].score = arg'[q].gvhd
    BY <1>4, <2>1 DEF Current, Role
  <2>5. pc[q] = "store" /\ arg[q].op = "finalize" =>
          /\ Passing(arg'[q].marks["GVHD"])
          /\ \A role \in Role : Graded(role)' /\ sheet'[role].score = arg'[q].marks[role]
    BY <1>4, <2>1 DEF Current
  <2> QED
    BY <1>4, <2>1, <2>2, <2>3, <2>4, <2>5 DEF Current
<1> QED
  BY <1>4, <1>5, <1>8 DEF GradeInv

LEMMA DeleteGrade ==
    ASSUME Undisturbed, Inv, Inv', GradeInv, NEW r \in scope.requests, DeleteWrite(r)
    PROVE  GradeInv'
<1>1. r \in Request /\ Current(r)
  BY ScoringAssumption DEF Inv, GradeInv
<1> DEFINE role == arg[r].role
<1>2. /\ sheet' = [sheet EXCEPT ![role] = NoSheet] /\ result' = result /\ role \in arg[r].ids
      /\ pc'  = [pc EXCEPT ![r] = "idle"] /\ pc[r] = "store" /\ arg[r].op = "delete" /\ role \in Role
  BY <1>1, DeleteRole DEF DeleteWrite, At
<1> HIDE DEF role
<1>3. sheet[role].status # "SUBMITTED"
  BY <1>1, <1>2 DEF Current, role
<1>4. pc'[r] = "idle" /\ \A q \in Request \ {r} : pc'[q] = pc[q] /\ pc[q] = "idle"
  BY <1>1, <1>2, Alone DEF Inv, TypeOK
<1>5. \A other \in Role : sheet'[other] = sheet[other] \/ (other = role /\ sheet'[other] = NoSheet)
  BY <1>2 DEF Inv, TypeOK
<1>6. GradeHolds' /\ Undecided'
  <2>1. \A other \in Role : sheet'[other] = sheet[other] \/ ~Graded(other)'
    BY <1>5 DEF Graded
  <2> QED
    BY <1>2, <2>1, LockedGrade DEF Inv, GradeInv
<1>7. sheet["GVHD"] # NoSheet /\ sheet["GVHD"].status = "FAILED" => FinalStatusNow = "REJECTED_GVHD"
  BY <1>2, <1>4 DEF GradeInv, SupervisorHolds, Settling
<1>8. FinalStatusNow' = FinalStatusNow /\ (IsFinalized' <=> IsFinalized)
  BY <1>2 DEF FinalStatusNow, IsFinalized
<1>9. IsFinalized => role # "GVHD"
  BY <1>3 DEF GradeInv, SupervisorHolds
<1>10. SupervisorHolds'
  BY <1>5, <1>7, <1>8, <1>9 DEF GradeInv, SupervisorHolds, Role, Graded
<1> QED
  BY <1>1, <1>4, <1>6, <1>10, CurrentIdleNext, GradeStep

LEMMA NotedIs ==
    ASSUME Noted, ~byHand'
    PROVE  /\ ~byHand
           /\ \A r \in Request : UpdateWrite(r) /\ arg[r].role = "GVHD" =>
                 arg[r].status \notin {"PASSED", "FAILED"}
BY DEF Noted

LEMMA SheetWriteGrade ==
    ASSUME Undisturbed, Inv, Inv', GradeInv, Noted, ~byHand', NEW r \in scope.requests, UpdateWrite(r) \/ SubmitWrite(r)
    PROVE  GradeInv'
<1>1. r \in Request /\ Current(r)
  BY ScoringAssumption DEF Inv, GradeInv
<1> DEFINE role == arg[r].role
<1>2. /\ pc[r] = "store" /\ arg[r].op \in {"update", "submit"} /\ role \in Role /\ role \in arg[r].ids
      /\ result' = result /\ OnlyAt(r)
  BY <1>1, UpdateEffect, SubmitEffect
<1>3. PICK row \in Sheet :
         /\ sheet' = [sheet EXCEPT ![role] = row]
         /\ role = "GVHD" /\ row.status = "PASSED" => sheet[role] # NoSheet /\ sheet[role].status = "PASSED"
         /\ role = "GVHD" /\ row.status = "FAILED" =>
               \/ sheet[role] # NoSheet /\ sheet[role].status = "FAILED"
               \/ pc'[r] \in Settling /\ arg'[r] = arg[r] /\ ~Passing(arg[r].mark)
  <2>1. CASE UpdateWrite(r)
    <3>1. PICK row \in Sheet :
             /\ sheet' = [sheet EXCEPT ![role] = row]
             /\ row.status = IF arg[r].status = "KEEP" THEN sheet[role].status ELSE arg[r].status
      BY <1>1, <2>1, UpdateEffect
    <3>2. arg[r].status \in ScoringStatus \cup {"KEEP"} /\ sheet[role] # NoSheet
      BY <1>1, <2>1, UpdateEffect, AbsenceAssumption
    <3>3. role = "GVHD" => arg[r].status \notin {"PASSED", "FAILED"}
      BY <1>1, <2>1, NotedIs
    <3> QED
      BY <3>1, <3>2, <3>3
  <2>2. CASE SubmitWrite(r)
    <3>1. PICK row \in Sheet :
             /\ sheet' = [sheet EXCEPT ![role] = row]
             /\ row.status = IF Passing(arg[r].mark) THEN "SUBMITTED" ELSE "FAILED"
      BY <1>1, <2>2, SubmitEffect
    <3>2. pc'[r] = "result" /\ arg'[r] = arg[r]
      BY <1>1, <2>2, SubmitEffect
    <3> QED
      BY <3>1, <3>2 DEF Settling
  <2> QED
    BY <2>1, <2>2
<1>4. ~IsFinalized
  BY <1>1, <1>2 DEF Current
<1>5. ~IsFinalized' /\ FinalStatusNow' = FinalStatusNow
  BY <1>2, <1>4 DEF IsFinalized, FinalStatusNow
<1>6. GradeHolds' /\ Undecided'
  BY <1>2, <1>4, <1>5 DEF GradeHolds, TranscriptBuilds, Undecided, GradeInv
<1>7. \A q \in Request \ {r} : pc'[q] = pc[q] /\ pc[q] = "idle"
  BY <1>1, <1>2, Alone DEF OnlyAt, Inv, TypeOK
<1>8. sheet["GVHD"] # NoSheet /\ sheet["GVHD"].status = "FAILED" => FinalStatusNow = "REJECTED_GVHD"
  BY <1>2, <1>7 DEF GradeInv, SupervisorHolds, Settling
<1>9. SupervisorHolds'
  <2>1. CASE role = "GVHD"
    <3>1. sheet'["GVHD"] = row
      BY <1>2, <1>3, <2>1 DEF Inv, TypeOK
    <3>2. row.status # "PASSED"
      BY <1>3, <2>1 DEF GradeInv, SupervisorHolds
    <3>3. row.status = "FAILED" => \/ FinalStatusNow = "REJECTED_GVHD"
                                   \/ pc'[r] \in Settling /\ arg'[r] = arg[r] /\ ~Passing(arg[r].mark)
      BY <1>3, <1>8, <2>1
    <3>4. row.status = "FAILED" => \/ FinalStatusNow' = "REJECTED_GVHD"
                                   \/ pc'[r] \in Settling /\ arg'[r].role = "GVHD" /\ ~Passing(arg'[r].mark)
      BY <1>5, <2>1, <3>3
    <3> QED
      BY <1>1, <1>5, <3>1, <3>2, <3>4 DEF SupervisorHolds
  <2>2. CASE role # "GVHD"
    <3>1. sheet'["GVHD"] = sheet["GVHD"]
      BY <1>2, <1>3, <2>2 DEF Inv, TypeOK, Role
    <3> QED
      BY <1>5, <1>8, <3>1 DEF GradeInv, SupervisorHolds
  <2> QED
    BY <2>1, <2>2
<1>10. Current(r)'
  <2>1. pc'[r] = "idle" \/ pc'[r] = "result"
    BY <1>1, UpdateEffect, SubmitEffect
  <2> QED
    BY <1>5, <2>1 DEF Current, Settling
<1> QED
  BY <1>6, <1>7, <1>9, <1>10, GradeStep

LEMMA CreateResultGrade ==
    ASSUME Undisturbed, Inv, Inv', GradeInv, NEW r \in scope.requests, CreateResult(r)
    PROVE  GradeInv'
<1>1. r \in Request /\ Current(r)
  BY ScoringAssumption DEF Inv, GradeInv
<1>2. pc[r] = "create" /\ result = NoResult /\ Go(r, "collect") /\ sheet' = sheet /\ result' = NewResult
  BY DEF CreateResult, At
<1>3. OnlyAt(r) /\ pc'[r] = "collect" /\ arg'[r] = arg[r]
  BY <1>1, <1>2, Gone
<1>4. FinalStatusNow = "NONE" /\ FinalStatusNow' = "NONE" /\ ~IsFinalized'
  BY <1>2, NewResultIs DEF FinalStatusNow, IsFinalized
<1>5. GradeHolds' /\ Undecided'
  BY <1>2, <1>4, NewResultIs DEF GradeHolds, TranscriptBuilds, Undecided
<1>6. \A q \in Request \ {r} : pc'[q] = pc[q] /\ pc[q] = "idle"
  BY <1>1, <1>3, Alone DEF OnlyAt, Inv, TypeOK
<1>7. SupervisorHolds'
  <2>1. ASSUME NEW q \in Request, pc[q] \in Settling, arg[q].role = "GVHD", ~Passing(arg[q].mark)
        PROVE  pc'[q] \in Settling /\ arg'[q].role = "GVHD" /\ ~Passing(arg'[q].mark)
    <3>1. q = r
      BY <1>6, <2>1 DEF Settling
    <3> QED
      BY <1>3, <2>1, <3>1 DEF Settling
  <2> QED
    BY <1>2, <1>4, <2>1 DEF GradeInv, SupervisorHolds, Graded
<1>8. Current(r)'
  BY <1>3, <1>4 DEF Current, Settling
<1> QED
  BY <1>5, <1>6, <1>7, <1>8, GradeStep

LEMMA SaveGrade ==
    ASSUME Undisturbed, Inv, Inv', GradeInv, NEW r \in scope.requests, SaveResult(r)
    PROVE  GradeInv'
<1>1. r \in Request /\ Current(r)
  BY ScoringAssumption DEF Inv, GradeInv
<1>2. /\ pc[r] = "save" /\ result # NoResult /\ result' # NoResult /\ sheet' = sheet /\ OnlyAt(r) /\ pc'[r] = "idle"
      /\ result'.final_status = IF arg[r].role = "GVHD" /\ ~Passing(arg[r].mark) THEN "REJECTED_GVHD"
                                ELSE result.final_status
      /\ result'.bonus_score = result.bonus_score /\ (result'.is_published <=> result.is_published)
  BY <1>1, SaveEffect
<1>3. ~IsFinalized
  BY <1>1, <1>2 DEF Current, Settling
<1>4. ~IsFinalized' /\ (FinalStatusNow = "REJECTED_GVHD" => FinalStatusNow' = "REJECTED_GVHD")
  BY <1>2, <1>3 DEF IsFinalized, FinalStatusNow
<1>5. GradeHolds' /\ Undecided'
  BY <1>2, <1>3, <1>4 DEF GradeHolds, TranscriptBuilds, Undecided, GradeInv
<1>6. \A q \in Request \ {r} : pc'[q] = pc[q] /\ pc[q] = "idle"
  BY <1>1, <1>2, Alone DEF OnlyAt, Inv, TypeOK
<1>7. sheet["GVHD"] # NoSheet /\ sheet["GVHD"].status = "FAILED" => FinalStatusNow' = "REJECTED_GVHD"
  <2>1. SUFFICES ASSUME sheet["GVHD"] # NoSheet, sheet["GVHD"].status = "FAILED", FinalStatusNow # "REJECTED_GVHD"
                 PROVE  FinalStatusNow' = "REJECTED_GVHD"
    BY <1>4
  <2>2. PICK q \in Request : pc[q] \in Settling /\ arg[q].role = "GVHD" /\ ~Passing(arg[q].mark)
    BY <2>1 DEF GradeInv, SupervisorHolds
  <2>3. q = r
    BY <1>6, <2>2 DEF Settling
  <2> QED
    BY <1>2, <2>2, <2>3 DEF FinalStatusNow
<1>8. SupervisorHolds'
  BY <1>2, <1>4, <1>7 DEF GradeInv, SupervisorHolds
<1> QED
  BY <1>1, <1>2, <1>5, <1>6, <1>8, CurrentIdleNext, GradeStep

LEMMA FinalizeGrade ==
    ASSUME Undisturbed, Inv, Inv', GradeInv, NEW r \in scope.requests, FinalizeWrite(r)
    PROVE  GradeInv'
<1>1. r \in Request /\ Current(r)
  BY ScoringAssumption DEF Inv, GradeInv
<1> DEFINE marks == arg[r].marks
<1>2. /\ pc[r] = "store" /\ arg[r].op = "finalize" /\ marks \in [Role -> Mark]
      /\ sheet' \in [Role -> Sheet \cup {NoSheet}] /\ sheet'["GVHD"] = sheet["GVHD"]
      /\ \A role \in Committee : sheet'[role].score = sheet[role].score
      /\ result' # NoResult /\ result'.final_score = Capped(Weighted(marks))
      /\ result'.final_status = IF Passed(marks) THEN "PASSED" ELSE "REJECTED_DEFENSE"
      /\ (result'.is_final_passed <=> Passed(marks))
      /\ result'.bonus_score = (IF result = NoResult THEN 0 ELSE result.bonus_score)
      /\ (result'.is_published <=> Published)
      /\ OnlyAt(r) /\ pc'[r] = "idle"
  BY <1>1, FinalizeEffect
<1>3. /\ FinalStatusNow = "NONE" /\ Passing(marks["GVHD"])
      /\ \A role \in Role : Graded(role) /\ sheet[role].score = marks[role]
  BY <1>1, <1>2 DEF Current
<1> HIDE DEF marks
<1>4. ~IsFinalized
  BY <1>3 DEF IsFinalized
<1>5. result'.bonus_score = 0 /\ ~result'.is_published
  BY <1>2, <1>4 DEF GradeInv, Undecided, Published
<1>6. \A q \in Request \ {r} : pc'[q] = pc[q] /\ pc[q] = "idle"
  BY <1>1, <1>2, Alone DEF OnlyAt, Inv, TypeOK
<1>7. sheet["GVHD"].status = "SUBMITTED" /\ Passing(sheet["GVHD"].score) /\ Graded("GVHD")
  BY <1>2, <1>3, <1>6 DEF GradeInv, SupervisorHolds, Settling, Graded, Completed, Role
<1>8. IsFinalized' /\ FinalStatusNow' # "NONE"
  BY <1>2 DEF IsFinalized, FinalStatusNow
<1>9. SupervisorHolds'
  BY <1>2, <1>7 DEF SupervisorHolds, Graded
<1>10. \A role \in Role : sheet'[role].score = marks[role]
  BY <1>2, <1>3 DEF Role
<1>11. Marks' = marks
  BY <1>2, <1>10 DEF Marks
<1>12. Capped(Weighted(Marks))' = Capped(Weighted(marks))
  BY <1>11 DEF Capped, Weighted, InternalSum
<1>13. Passed(marks) <=> \A role \in Committee : Passing(sheet'[role].score)
  BY <1>10 DEF Passed, Role
<1>14. Passed(marks) <=> \A role \in Role : Passing(sheet'[role].score)
  BY <1>2, <1>7, <1>13 DEF Role
<1>15. (result'.final_status = "PASSED") <=> Passed(marks)
  BY <1>2
<1>16. GradeHolds'
  BY <1>2, <1>5, <1>12, <1>13, <1>14, <1>15 DEF GradeHolds
<1>17. Undecided'
  BY <1>8 DEF Undecided
<1> QED
  BY <1>1, <1>2, <1>6, <1>9, <1>16, <1>17, CurrentIdleNext, GradeStep

\* Five passing marks pass together, with or without a bonus.
LEMMA PassingTotal ==
    ASSUME TypeOK, AllGraded, NEW bonus \in Bonus \cup {0}, \A role \in Role : Passing(sheet[role].score)
    PROVE  Total(bonus) >= 400 * Hundredth
<1>1. /\ Marks \in [Role -> Mark] /\ \A role \in Role : Marks[role] \in Nat /\ Marks[role] >= 400
  BY MarksIs, MarkNat DEF Passing
<1>2. PICK w \in Nat : w = Weighted(Marks) /\ w >= 6000
  <2>1. /\ Marks[CHAIRMAN] \in Nat /\ Marks[SECRETARY] \in Nat /\ Marks[INTERNAL_REVIEWER] \in Nat
        /\ Marks["GVHD"] \in Nat /\ Marks["EXTERNAL_REVIEWER"] \in Nat
        /\ Marks[CHAIRMAN] >= 400 /\ Marks[SECRETARY] >= 400 /\ Marks[INTERNAL_REVIEWER] >= 400
        /\ Marks["GVHD"] >= 400 /\ Marks["EXTERNAL_REVIEWER"] >= 400
    BY <1>1 DEF Role, Committee, Internal
  <2>2. Weighted(Marks) \in Nat /\ Weighted(Marks) >= 6000
    BY <2>1 DEF Weighted, InternalSum
  <2> QED
    BY <2>2
<1>3. PICK k \in Nat : Round2(w) = 15 * k /\ w + 7 < 15 * k + 15
  BY RoundIs
<1>4. 15 * k >= 6000 /\ bonus \in Nat
  BY <1>2, <1>3, MarkNat
<1>5. Total(bonus) = Capped(15 * k + 15 * bonus)
  BY <1>2, <1>3 DEF Total, Hundredth
<1> QED
  BY <1>4, <1>5 DEF Capped, Hundredth

\* What a bonus and a publication store as passed.
LEMMA PassesIs ==
    ASSUME TypeOK, TypeOK', TranscriptBuilds, SupervisorHolds, GradeHolds, NEW a, NEW bonus \in Bonus \cup {0},
           a.status = result.final_status, a.final = Total(bonus)
    PROVE  PassesWith(a) <=> \A role \in Role : Passing(sheet[role].score)
<1>1. AllGraded /\ Passing(sheet["GVHD"].score)
  BY DEF TranscriptBuilds, SupervisorHolds
<1>2. (a.status = "PASSED") <=> \A role \in Role : Passing(sheet[role].score)
  BY <1>1 DEF GradeHolds, Role
<1>3. (\A role \in Role : Passing(sheet[role].score)) => a.final >= 400 * Hundredth
  BY <1>1, PassingTotal
<1> QED
  BY <1>2, <1>3 DEF PassesWith

LEMMA StoreGrade ==
    ASSUME Undisturbed, Inv, Inv', GradeInv, NEW r \in scope.requests, BonusWrite(r) \/ PublishWrite(r)
    PROVE  GradeInv'
<1>1. r \in Request /\ Current(r)
  BY ScoringAssumption DEF Inv, GradeInv
<1> DEFINE bonus == IF arg[r].op = "bonus" THEN arg[r].bonus ELSE result.bonus_score
<1>2. /\ pc[r] = "store" /\ arg[r].op \in {"bonus", "publish"} /\ result \in Result /\ result # NoResult
      /\ result' # NoResult /\ result'.final_status = result.final_status /\ result'.final_score = arg[r].final
      /\ result'.bonus_score = bonus /\ (result'.is_final_passed <=> PassesWith(arg[r]))
      /\ bonus \in Bonus \cup {0} /\ sheet' = sheet /\ OnlyAt(r) /\ pc'[r] = "idle"
  <2>1. CASE BonusWrite(r)
    BY <1>1, <2>1, BonusEffect
  <2>2. CASE PublishWrite(r)
    BY <1>1, <2>2, PublishEffect, ResultFields
  <2> QED
    BY <2>1, <2>2
<1>3. TranscriptBuilds /\ arg[r].status = result.final_status /\ arg[r].final = Total(bonus)
  BY <1>1, <1>2 DEF Current
<1> HIDE DEF bonus
<1>4. FinalStatusNow' = FinalStatusNow /\ IsFinalized /\ IsFinalized'
  BY <1>2, <1>3 DEF TranscriptBuilds, IsFinalized, FinalStatusNow
<1>5. \A q \in Request \ {r} : pc'[q] = pc[q] /\ pc[q] = "idle"
  BY <1>1, <1>2, Alone DEF OnlyAt, Inv, TypeOK
<1>6. sheet["GVHD"].status = "SUBMITTED" /\ Passing(sheet["GVHD"].score) /\ Graded("GVHD")
  BY <1>4 DEF GradeInv, SupervisorHolds
<1>7. SupervisorHolds'
  BY <1>2, <1>6 DEF SupervisorHolds, Graded
<1>8. Undecided'
  BY <1>4 DEF Undecided
<1>9. PassesWith(arg[r]) <=> \A role \in Role : Passing(sheet[role].score)
  BY <1>2, <1>3, PassesIs DEF Inv, GradeInv
<1>10. (result.final_status = "PASSED") <=> \A role \in Committee : Passing(sheet[role].score)
  BY <1>3 DEF GradeInv, GradeHolds
<1>11. Total(result.bonus_score)' = Total(bonus)
  BY <1>2 DEF Total, Marks
<1>12. GradeHolds'
  BY <1>2, <1>3, <1>9, <1>10, <1>11 DEF GradeHolds
<1> QED
  BY <1>1, <1>2, <1>5, <1>7, <1>8, <1>12, CurrentIdleNext, GradeStep

LEMMA ProceedGrade ==
    ASSUME Undisturbed, Inv, Inv', GradeInv, Noted, ~byHand', NEW r \in scope.requests, Proceed(r)
    PROVE  GradeInv'
BY SheetsWriteGrade, DeleteGrade, CheckGrade, SheetWriteGrade, SettleGrade, CreateResultGrade, SaveGrade,
   MeetingGrade, FinalizeGrade, StoreGrade DEF Proceed

LEMMA GradeNext ==
    ASSUME Undisturbed, Inv, GradeInv, Next, Noted, ~byHand', scope' = scope
    PROVE  GradeInv'
<1>1. Inv'
  BY InvNext
<1>2. ASSUME NEW r \in scope.requests, Arrive(r) \/ Proceed(r) \/ Fail(r) PROVE GradeInv'
  BY <1>1, <1>2, ArriveGrade, ProceedGrade, FailGrade
<1> QED
  BY <1>1, <1>2, AssignGrade DEF Next

LEMMA GradeInit ==
    ASSUME Init
    PROVE  GradeInv
<1>1. \A q \in Request : pc[q] = "idle" /\ Current(q)
  BY CurrentIdle DEF Init
<1>2. FinalStatusNow = "NONE" /\ (result # NoResult => result.bonus_score = 0 /\ ~result.is_published)
  <2>1. CASE scope.graded
    <3> DEFINE score == Capped(Round2(Weighted(Marks)))
    <3>1. result = [NewResult EXCEPT !.is_gvhd_passed = TRUE, !.final_score = score]
      BY <2>1 DEF Init
    <3> HIDE DEF score
    <3>2. result.final_status = "NONE" /\ result.bonus_score = 0
      BY <3>1 DEF NewResult
    <3>3. result.is_published = FALSE
      BY <3>1, Zenon DEF NewResult
    <3> QED
      BY <3>2, <3>3 DEF FinalStatusNow
  <2>2. CASE ~scope.graded
    BY <2>2 DEF Init, FinalStatusNow
  <2> QED
    BY <2>1, <2>2
<1>3. ~IsFinalized
  BY <1>2 DEF IsFinalized
<1>4. sheet["GVHD"] = NoSheet \/ sheet["GVHD"].status = "SUBMITTED"
  <2>1. "GVHD" \in Role
    BY DEF Role
  <2>2. CASE scope.graded
    <3>1. sheet \in [Role -> [status : {"SUBMITTED"}, score : {mark \in Mark : Passing(mark)}]]
      BY <2>2 DEF Init
    <3> QED
      BY <2>1, <3>1
  <2>3. CASE ~scope.graded
    BY <2>1, <2>3 DEF Init
  <2> QED
    BY <2>2, <2>3
<1>5. SupervisorHolds
  BY <1>3, <1>4 DEF SupervisorHolds
<1> QED
  BY <1>1, <1>2, <1>3, <1>5 DEF GradeInv, GradeHolds, TranscriptBuilds, Undecided

\* Both invariants, in the module of the ranking.
LEMMA GradeInvPost ==
    ASSUME Undisturbed, PostInv, GradeKept, [PostNext]_allVars
    PROVE  GradeKept'
<1> SUFFICES ASSUME ~byHand' PROVE GradeInv'
  BY DEF GradeKept
<1>1. Inv
  BY DEF PostInv
<1>2. CASE Next /\ Noted /\ UNCHANGED <<scope, post>>
  BY <1>1, <1>2, NotedIs, GradeNext DEF GradeKept
<1>3. CASE UNCHANGED vars
  <2>1. sheet' = sheet /\ result' = result /\ pc' = pc /\ arg' = arg /\ GradeInv
    BY <1>3 DEF vars, GradeKept
  <2>2. GradeHolds' /\ Undecided'
    BY <2>1, SameGrade DEF GradeInv
  <2>3. SupervisorHolds'
    BY <2>1, SameRows DEF GradeInv, SupervisorHolds
  <2>4. ASSUME NEW q \in Request PROVE Current(q)'
    <3>1. pc[q] = "store" /\ arg[q].op \in {"bonus", "publish"} =>
             arg[q].final = Total(IF arg[q].op = "bonus" THEN arg[q].bonus ELSE result.bonus_score)'
      BY <2>1 DEF Total, Marks, GradeInv, Current
    <3> QED
      BY <2>1, <3>1, SameRows DEF GradeInv, Current
  <2> QED
    BY <2>2, <2>3, <2>4 DEF GradeInv
<1> QED
  BY <1>2, <1>3 DEF PostNext, allVars

LEMMA GradeAlways == ASSUME Undisturbed PROVE PostSpec => [](PostInv /\ GradeKept)
<1>1. PostInit => PostInv /\ GradeKept
  BY PostInvInit, GradeInit DEF PostInit, GradeKept
<1>2. PostInv /\ GradeKept /\ [PostNext]_allVars => PostInv' /\ GradeKept'
  BY PostInvNext, GradeInvPost
<1> QED
  BY <1>1, <1>2, PTL DEF PostSpec

-----------------------------------------------------------------------------
(* What the grade shows *)

LEMMA RoundOnce ==
    ASSUME NEW k \in Nat
    PROVE  Round2(15 * k) = 15 * k
<1>1. PICK m \in Nat : Round2(15 * k) = 15 * m /\ 15 * m <= 15 * k + 7 /\ 15 * k + 7 < 15 * m + 15
  BY RoundIs
<1> QED
  BY <1>1

LEMMA RoundCapped ==
    ASSUME NEW n \in Nat
    PROVE  Round2(Capped(n)) = Capped(Round2(n))
<1>1. PICK k \in Nat : Round2(n) = 15 * k /\ 15 * k <= n + 7 /\ n + 7 < 15 * k + 15
  BY RoundIs
<1>2. CASE n > 1000 * Hundredth
  <2>1. Capped(n) = 15 * 1000 /\ k >= 1000
    BY <1>1, <1>2 DEF Capped, Hundredth
  <2> QED
    BY <1>1, <2>1, RoundOnce DEF Capped, Hundredth
<1>3. CASE ~(n > 1000 * Hundredth)
  BY <1>1, <1>3 DEF Capped, Hundredth
<1> QED
  BY <1>2, <1>3

LEMMA RoundTotal ==
    ASSUME TypeOK, AllGraded, NEW bonus \in Bonus \cup {0}
    PROVE  Round2(Total(bonus)) = Total(bonus)
<1>1. PICK n \in Nat : n = Weighted(Marks)
  BY MarksIs, WeightedIs
<1>2. PICK k \in Nat : Round2(n) = 15 * k
  BY RoundIs
<1>3. bonus \in Nat
  BY MarkNat
<1>4. PICK m \in Nat : m = k + bonus
  BY <1>3
<1>5. Total(bonus) = Capped(15 * m)
  BY <1>1, <1>2, <1>3, <1>4 DEF Total, Hundredth
<1> QED
  BY <1>5, RoundOnce, RoundCapped

LEMMA GradeFollows ==
    ASSUME Inv, GradeKept
    PROVE  GradeFollowsSheets
<1> SUFFICES ASSUME GradeInv, TranscriptBuilds
             PROVE  /\ Round2(result.final_score) = Total(result.bonus_score)
                    /\ result.is_final_passed <=> \A role \in Role : Passing(sheet[role].score)
  BY DEF GradeFollowsSheets, GradeKept
<1>1. TypeOK /\ AllGraded /\ result.bonus_score \in Bonus \cup {0}
  BY BuildsIs DEF Inv
<1>2. result.is_final_passed <=> \A role \in Role : Passing(sheet[role].score)
  BY DEF GradeInv, GradeHolds
<1>3. CASE result.final_score = Total(result.bonus_score)
  <2>1. \A bonus \in Bonus \cup {0} : Round2(Total(bonus)) = Total(bonus)
    BY <1>1, RoundTotal
  <2>2. Round2(Total(result.bonus_score)) = Total(result.bonus_score)
    BY <1>1, <2>1
  <2> QED
    BY <1>2, <1>3, <2>2
<1>4. CASE result.final_score = Capped(Weighted(Marks)) /\ result.bonus_score = 0
  <2>1. PICK n \in Nat : n = Weighted(Marks)
    BY <1>1, MarksIs, WeightedIs
  <2>2. Round2(n) \in Nat
    BY RoundNat
  <2>3. Total(0) = Capped(Round2(n))
    BY <2>1, <2>2 DEF Total, Hundredth
  <2> QED
    BY <1>2, <1>4, <2>1, <2>3, RoundCapped
<1> QED
  BY <1>2, <1>3, <1>4 DEF GradeInv, GradeHolds

\* With requests one by one that end, and until updateScore sets the supervisor's sheet to
\* PASSED or FAILED, a finalised grade is to the hundredth what its sheets
\* and the bonus give, and is passed exactly when every one of its marks passes.
THEOREM GradeSound == ASSUME Undisturbed PROVE PostSpec => []GradeFollowsSheets
<1>1. PostInv /\ GradeKept => GradeFollowsSheets
  BY GradeFollows DEF PostInv
<1> QED
  BY <1>1, GradeAlways, PTL

-----------------------------------------------------------------------------
(* What the views show *)

\* Two weighted scores that are close together are shown within a hundredth.
LEMMA Close ==
    ASSUME NEW x \in Nat, NEW y \in Nat, x - y \in -3 .. 3, NEW b \in Nat
    PROVE  Capped(Round2(x) + Hundredth * b) - Capped(Round2(y) + Hundredth * b) \in -Hundredth .. Hundredth
<1>1. PICK k \in Nat : Round2(x) = 15 * k /\ 15 * k <= x + 7 /\ x + 7 < 15 * k + 15
  BY RoundIs
<1>2. PICK m \in Nat : Round2(y) = 15 * m /\ 15 * m <= y + 7 /\ y + 7 < 15 * m + 15
  BY RoundIs
<1>3. k - m \in -1 .. 1
  BY <1>1, <1>2
<1> QED
  BY <1>1, <1>2, <1>3 DEF Capped, Hundredth

LEMMA MeanIs ==
    ASSUME NEW sum \in Nat
    PROVE  Mean2(sum, 3) \in Nat /\ 6 * Mean2(sum, 3) - 2 * sum \in -3 .. 3
<1>1. PICK m \in Nat : m = (2 * sum + 3) \div 6 /\ 6 * m <= 2 * sum + 3 /\ 2 * sum + 3 < 6 * m + 6
  BY SMTT(30)
<1>2. Mean2(sum, 3) = m
  BY <1>1 DEF Mean2
<1> QED
  BY <1>1, <1>2

LEMMA MarksNat ==
    ASSUME TypeOK, AllGraded
    PROVE  /\ Marks["GVHD"] \in Nat /\ Marks["EXTERNAL_REVIEWER"] \in Nat /\ InternalSum(Marks) \in Nat
           /\ Marks["GVHD"] = sheet["GVHD"].score /\ Marks["EXTERNAL_REVIEWER"] = sheet["EXTERNAL_REVIEWER"].score
           /\ \A role \in Internal : Marks[role] = sheet[role].score
<1>1. \A role \in Role : Marks[role] \in Nat /\ Marks[role] = sheet[role].score
  BY MarksIs, MarkNat
<1>2. Marks[CHAIRMAN] \in Nat /\ Marks[SECRETARY] \in Nat /\ Marks[INTERNAL_REVIEWER] \in Nat
  BY <1>1 DEF Role, Committee, Internal
<1> QED
  BY <1>1, <1>2 DEF InternalSum, Role, Committee

LEMMA ListTotalClose ==
    ASSUME TypeOK, AllGraded, result # NoResult, result.bonus_score \in Bonus \cup {0}
    PROVE  TotalOfMean(Mean2(InternalSum(Marks), 3)) - Total(result.bonus_score) \in -Hundredth .. Hundredth
<1>1. PICK sum \in Nat : sum = InternalSum(Marks)
  BY MarksNat
<1>2. PICK g \in Nat : g = Marks["GVHD"] /\ g = sheet["GVHD"].score
  BY MarksNat
<1>3. PICK e \in Nat : e = Marks["EXTERNAL_REVIEWER"] /\ e = sheet["EXTERNAL_REVIEWER"].score
  BY MarksNat
<1>4. PICK m \in Nat : m = Mean2(sum, 3) /\ 6 * m - 2 * sum \in -3 .. 3
  BY MeanIs
<1>5. PICK b \in Nat : b = result.bonus_score
  BY MarkNat
<1>6. PICK x \in Nat : x = 6 * g + 3 * e + 6 * m
  OBVIOUS
<1>7. PICK y \in Nat : y = 6 * g + 3 * e + 2 * sum
  OBVIOUS
<1>8. x - y \in -3 .. 3
  BY <1>4, <1>6, <1>7
<1>9. TotalOfMean(Mean2(InternalSum(Marks), 3)) = Capped(Round2(x) + Hundredth * b)
  BY <1>1, <1>2, <1>3, <1>4, <1>5, <1>6 DEF TotalOfMean, BonusNow
<1>10. Total(result.bonus_score) = Capped(Round2(y) + Hundredth * b)
  BY <1>1, <1>2, <1>3, <1>5, <1>7 DEF Total, Weighted
<1> QED
  BY <1>8, <1>9, <1>10, Close

LEMMA ReviewIsList ==
    ASSUME TypeOK, AllGraded
    PROVE  ReviewTotal = TotalOfMean(Mean2(InternalSum(Marks), 3))
<1> DEFINE sheets == {role \in Internal : sheet[role] # NoSheet}
           mark == [role \in Internal |-> IF role \notin sheets \/ sheet[role].score = NoMark THEN 0
                                          ELSE sheet[role].score]
<1>1. Internal \subseteq Role /\ \A role \in Role : sheet[role] # NoSheet /\ sheet[role].score # NoMark
  BY DEF AllGraded, Graded, Role, Committee
<1>2. sheets = Internal /\ Cardinality(sheets) = 3 /\ sheets # {}
  <2>1. sheets = Internal
    BY <1>1
  <2>2. CHAIRMAN \in Internal
    BY DEF Internal
  <2> QED
    BY <2>1, <2>2, ScoringAssumption
<1>3. \A role \in Internal : mark[role] = sheet[role].score
  BY <1>1, <1>2
<1>4. InternalSum(mark) = InternalSum(Marks)
  <2> HIDE DEF mark
  <2> QED
    BY <1>3, MarksNat DEF InternalSum, Internal
<1>5. \A role \in {"GVHD", "EXTERNAL_REVIEWER"} : sheet[role] # NoSheet /\ sheet[role].score # NoMark
  BY <1>1 DEF Role, Committee
<1>6. ReviewTotal = IF /\ \A role \in {"GVHD", "EXTERNAL_REVIEWER"} : sheet[role] # NoSheet /\ sheet[role].score # NoMark
                       /\ sheets # {}
                    THEN TotalOfMean(Mean2(InternalSum(mark), Cardinality(sheets))) ELSE NoMark
  BY DEF ReviewTotal
<1> HIDE DEF sheets, mark
<1> QED
  BY <1>2, <1>4, <1>5, <1>6

LEMMA CompleteIs ==
    ASSUME GradeInv
    PROVE  CompleteForTotal <=> TranscriptBuilds
<1>1. IsFinalized => FinalStatusNow # "REJECTED_GVHD" /\ ~GvhdFailed
  BY DEF GradeInv, SupervisorHolds, IsFinalized, GvhdFailed
<1>2. MissingItems = {} <=> AllGraded
  BY DEF MissingItems, AllGraded
<1>3. CASE FinalStatusNow = "REJECTED_GVHD" \/ GvhdFailed
  BY <1>1, <1>3 DEF CompleteForTotal, ReadinessStatus, TranscriptBuilds
<1>4. CASE ~(FinalStatusNow = "REJECTED_GVHD" \/ GvhdFailed)
  <2>1. ReadinessStatus = IF MissingItems # {} THEN "IN_PROGRESS"
                          ELSE IF ~IsFinalized THEN "AWAITING_FINALIZATION"
                          ELSE IF Published THEN "PUBLISHED" ELSE "READY"
    BY <1>4 DEF ReadinessStatus
  <2> QED
    BY <1>2, <2>1 DEF CompleteForTotal, TranscriptBuilds
<1> QED
  BY <1>3, <1>4

\* After the meeting the supervisor's sheet is handed in and all others are locked.
LEMMA NothingOpen ==
    ASSUME GradeInv, TranscriptBuilds, NEW role \in Role
    PROVE  IsLocked(role) \/ sheet[role].status = "SUBMITTED"
<1>1. CASE role = "GVHD"
  BY <1>1 DEF GradeInv, SupervisorHolds, TranscriptBuilds
<1>2. CASE role # "GVHD"
  BY <1>2 DEF TranscriptBuilds, IsLocked, StageUnlocked
<1> QED
  BY <1>1, <1>2

LEMMA ViewsFollow ==
    ASSUME Inv, GradeKept
    PROVE  ViewsAgree
<1> SUFFICES ASSUME GradeInv, ~byHand PROVE ViewsAgree
  BY DEF GradeKept, ViewsAgree
<1>1. CompleteForTotal <=> TranscriptBuilds
  BY CompleteIs
<1>2. ASSUME CompleteForTotal
      PROVE  ListTotal = ReviewTotal /\ ListTotal - Total(result.bonus_score) \in -Hundredth .. Hundredth
  <2>1. TypeOK /\ AllGraded /\ result # NoResult /\ result.bonus_score \in Bonus \cup {0}
    BY <1>1, <1>2, BuildsIs DEF Inv
  <2>2. ListTotal = TotalOfMean(Mean2(InternalSum(Marks), 3))
    BY <1>2 DEF ListTotal
  <2> QED
    BY <2>1, <2>2, ListTotalClose, ReviewIsList
<1>3. MyTranscript # NoMark => MyTranscript = result.final_score
  BY DEF MyTranscript, GradeInv, GradeHolds, Published
<1>4. CompleteForTotal => \A role \in Role : IsLocked(role) \/ sheet[role].status = "SUBMITTED"
  BY <1>1, NothingOpen
<1> QED
  BY <1>1, <1>2, <1>3, <1>4 DEF ViewsAgree

\* With requests one by one that end, and until updateScore sets the supervisor's sheet to
\* PASSED or FAILED, whoever looks at a grade sees the same: the list, the review, the
\* transcript, and sheets that nobody may mark any more.
THEOREM ViewsSound == ASSUME Undisturbed PROVE PostSpec => []ViewsAgree
<1>1. PostInv /\ GradeKept => ViewsAgree
  BY ViewsFollow DEF PostInv
<1> QED
  BY <1>1, GradeAlways, PTL

-----------------------------------------------------------------------------
(* What is decided *)

LEMMA DecisionNext ==
    ASSUME Undisturbed, Inv, GradeKept, Next, Noted, scope' = scope
    PROVE  DecisionStands
<1> SUFFICES ASSUME GradeInv, ~byHand' PROVE DecisionStands
  BY NotedIs DEF GradeKept, DecisionStands
<1>1. CASE result' = result
  BY <1>1 DEF DecisionStands
<1>2. ASSUME NEW r \in scope.requests, Proceed(r), result' # result PROVE DecisionStands
  <2>1. r \in Request /\ Current(r)
    BY ScoringAssumption DEF Inv, GradeInv
  <2>2. CASE CreateResult(r)
    BY <2>2 DEF CreateResult, DecisionStands
  <2>3. CASE SaveResult(r)
    <3>1. /\ pc[r] = "save" /\ result # NoResult /\ result \in Result
          /\ result'.final_status = IF arg[r].role = "GVHD" /\ ~Passing(arg[r].mark) THEN "REJECTED_GVHD"
                                    ELSE result.final_status
      BY <2>1, <2>3, SaveEffect
    <3>2. ~IsFinalized /\ result.final_status \in FinalStatus
      BY <2>1, <3>1, ResultFields DEF Current, Settling
    <3>3. ~result.is_published
      BY <3>1, <3>2 DEF GradeInv, Undecided
    <3> QED
      BY <3>1, <3>2, <3>3 DEF DecisionStands, IsFinalized, FinalStatusNow, FinalStatus
  <2>4. CASE FinalizeWrite(r)
    <3>1. FinalStatusNow = "NONE"
      BY <2>1, <2>4, FinalizeEffect DEF Current
    <3>2. result # NoResult => ~result.is_published
      BY <3>1 DEF GradeInv, Undecided, IsFinalized
    <3> QED
      BY <3>1, <3>2 DEF DecisionStands
  <2>5. CASE BonusWrite(r) \/ PublishWrite(r)
    <3>1. result'.final_status = result.final_status /\ ~result.is_published
      BY <2>1, <2>5, BonusEffect, PublishEffect DEF Current
    <3> QED
      BY <3>1 DEF DecisionStands
  <2> QED
    BY <1>2, <2>2, <2>3, <2>4, <2>5 DEF Proceed, SheetsWrite, DeleteWrite, UpdateCheck, UpdateWrite,
       SubmitCheck, SubmitWrite, FindResult, CollectScores, FinalizeGvhd, FinalizeCommittee
<1>3. ASSUME NEW r \in scope.requests, Arrive(r) \/ Fail(r) PROVE result' = result
  BY <1>3 DEF Fail, Arrive, IssueRead, CreateRead, DeleteRead, UpdateRead, SubmitRead, FinalizeRead, BonusRead, PublishRead
<1>4. CASE AssignScoresToCommittee
  BY <1>1, <1>4 DEF AssignScoresToCommittee
<1> QED
  BY <1>1, <1>2, <1>3, <1>4 DEF Next

\* With requests one by one that end, and until updateScore sets the supervisor's sheet to
\* PASSED or FAILED, no later request takes back a rejection, a decision of
\* the meeting or a publication.
THEOREM DecisionsKept == ASSUME Undisturbed PROVE PostSpec => DecisionsStand
<1>1. PostInv /\ GradeKept /\ [PostNext]_allVars => [DecisionStands]_vars
  BY DecisionNext DEF PostNext, allVars, PostInv
<1> QED
  BY <1>1, GradeAlways, PTL DEF PostSpec, DecisionsStand

-----------------------------------------------------------------------------
(* The ranking, with requests one by one *)

LEMMA OnlyRequest ==
    ASSUME Undisturbed, Inv
    PROVE  OneByOne /\ \A q, r \in scope.requests : q = r
<1>1. scope.requests \subseteq Request /\ IsFiniteSet(scope.requests) /\ Cardinality(scope.requests) = 1
  BY ScoringAssumption, FS_Subset DEF Inv, Undisturbed
<1>2. PICK x : scope.requests = {x}
  BY <1>1, FS_Singleton
<1> QED
  BY <1>1, <1>2 DEF OneByOne

LEMMA IdleRests ==
    ASSUME Inv, NEW r \in Request
    PROVE  /\ Proceed(r) \/ Fail(r) => pc[r] # "idle"
           /\ Arrive(r) => pc'[r] # "idle"
<1>1. Proceed(r) \/ Fail(r) => pc[r] # "idle"
  BY DEF Proceed, Fail, SheetsWrite, DeleteWrite, UpdateCheck, UpdateWrite, SubmitCheck, SubmitWrite, FindResult,
     CreateResult, CollectScores, SaveResult, FinalizeGvhd, FinalizeCommittee, FinalizeWrite, BonusWrite, PublishWrite, At
<1>2. ASSUME NEW op, NEW step, NEW a, Begin(r, op, step, a) PROVE pc'[r] = step
  BY <1>2, Begun
<1>3. Arrive(r) => pc'[r] # "idle"
  BY <1>2 DEF Arrive, IssueRead, CreateRead, DeleteRead, UpdateRead, SubmitRead, FinalizeRead, BonusRead, PublishRead
<1> QED
  BY <1>1, <1>3

\* While somebody has something on the desk nobody grades.
LEMMA DeskRests ==
    ASSUME Undisturbed, Inv, DeskAlone, Next, \A r \in Request : pc'[r] # "idle" => desk[r] = NoDesk,
           NEW q \in Request, desk[q] # NoDesk
    PROVE  result' = result
<1>1. q \in scope.requests /\ pc[q] = "idle" /\ scope.requests \subseteq Request
  BY ScoringAssumption DEF DeskAlone, Inv
<1>2. ASSUME NEW r \in scope.requests, Arrive(r) \/ Proceed(r) \/ Fail(r) PROVE FALSE
  <2>1. r = q
    BY <1>1, OnlyRequest
  <2> QED
    BY <1>1, <1>2, <2>1, IdleRests
<1> QED
  BY <1>2 DEF Next, AssignScoresToCommittee

LEMMA ScoredNext ==
    ASSUME Inv, Scored, Next
    PROVE  Scored'
<1>1. CASE result' = result
  BY <1>1 DEF Scored, IsFinalized, FinalStatusNow
<1>2. ASSUME NEW r \in scope.requests, Proceed(r), result' # result PROVE Scored'
  <2>1. r \in Request
    BY ScoringAssumption DEF Inv
  <2>2. CASE CreateResult(r)
    BY <2>2, NewResultIs DEF CreateResult, Scored, IsFinalized, FinalStatusNow
  <2>3. CASE SaveResult(r)
    <3>1. /\ pc[r] = "save" /\ result # NoResult /\ result' # NoResult
          /\ result'.final_status = IF arg[r].role = "GVHD" /\ ~Passing(arg[r].mark) THEN "REJECTED_GVHD"
                                    ELSE result.final_status
      BY <2>1, <2>3, SaveEffect
    <3>2. result'.final_score \in Score \cup {result.final_score}
      BY <2>1, <2>3, SaveEffect
    <3>3. IsFinalized' => IsFinalized
      BY <3>1 DEF IsFinalized, FinalStatusNow
    <3> QED
      BY <3>2, <3>3 DEF Scored
  <2>4. CASE FinalizeWrite(r)
    <3>1. result'.final_score = Capped(Weighted(arg[r].marks)) /\ arg[r].marks \in [Role -> Mark]
      BY <2>1, <2>4, FinalizeEffect
    <3> QED
      BY <3>1, WeightedIs, CappedIs DEF Scored
  <2>5. CASE BonusWrite(r) \/ PublishWrite(r)
    <3>1. pc[r] = "store" /\ arg[r].op \in {"bonus", "publish"} /\ result'.final_score = arg[r].final
      BY <2>1, <2>5, BonusEffect, PublishEffect
    <3>2. arg[r].final \in Score
      BY <2>1, <3>1 DEF Inv, TypeOK, Arg
    <3> QED
      BY <3>1, <3>2 DEF Scored
  <2> QED
    BY <1>2, <2>2, <2>3, <2>4, <2>5 DEF Proceed, SheetsWrite, DeleteWrite, UpdateCheck, UpdateWrite,
       SubmitCheck, SubmitWrite, FindResult, CollectScores, FinalizeGvhd, FinalizeCommittee
<1>3. ASSUME NEW r \in scope.requests, Arrive(r) \/ Fail(r) PROVE result' = result
  BY <1>3 DEF Fail, Arrive, IssueRead, CreateRead, DeleteRead, UpdateRead, SubmitRead, FinalizeRead, BonusRead, PublishRead
<1>4. CASE AssignScoresToCommittee
  BY <1>1, <1>4 DEF AssignScoresToCommittee
<1> QED
  BY <1>1, <1>2, <1>3, <1>4 DEF Next

\* A step of the grading leaves the ranking alone.
LEMMA RankGrading ==
    ASSUME Undisturbed, PostInv, GradeKept, RankInv, Next, Noted, UNCHANGED <<scope, post>>,
           \A r \in Request : pc'[r] # "idle" => desk[r] = NoDesk
    PROVE  RankInv' /\ RankingFillsFreePlaces
<1>1. Inv /\ place' = place /\ desk' = desk /\ scope' = scope
  BY DEF PostInv, post
<1>2. Scored'
  BY <1>1, ScoredNext DEF RankInv
<1>3. DecisionStands
  BY <1>1, DecisionNext
<1>4. ~byHand' => ~byHand /\ (Mine \in Listed => Mine \in Listed' /\ result' = result)
  BY <1>3, NotedIs DEF Listed, Published, DecisionStands
<1>5. \A p : p # Mine => FinalScore(p)' = FinalScore(p) /\ (p \in Listed <=> p \in Listed')
  BY DEF FinalScore, Listed
<1>6. MineRanked'
  BY <1>1, <1>4 DEF RankInv, MineRanked
<1>7. DeskAlone'
  BY <1>1 DEF RankInv, DeskAlone
<1>8. DeskCurrent'
  <2> SUFFICES ASSUME NEW q \in Request, desk[q].op = "rank" PROVE desk'[q].rows = Rows'
    BY <1>1 DEF DeskCurrent
  <2>1. desk[q] # NoDesk
    BY DEF NoDesk
  <2>2. result' = result
    BY <1>1, <2>1, DeskRests DEF RankInv
  <2>3. Rows' = Rows
    BY <1>1, <2>2 DEF Rows, Listed, Published, FinalScore
  <2> QED
    BY <1>1, <2>3 DEF RankInv, DeskCurrent
<1>9. RanksFollowScores'
  <2> SUFFICES ASSUME ~byHand', NEW p \in Listed', NEW q \in Listed', place[p].rank_override = NoPlace, place[p].rank # NoPlace,
                      place[q].rank_override = NoPlace, place[q].rank # NoPlace
               PROVE  /\ FinalScore(p)' > FinalScore(q)' => place[p].rank < place[q].rank
                      /\ place[p].rank = place[q].rank => p = q
    BY <1>1 DEF RanksFollowScores, OneByOne
  <2>1. \A x \in Listed' : place[x].rank_override = NoPlace /\ place[x].rank # NoPlace =>
           x \in Listed /\ FinalScore(x)' = FinalScore(x)
    BY <1>4, <1>5 DEF RankInv, MineRanked, FinalScore
  <2>2. OneByOne /\ ~byHand
    BY <1>1, <1>4, OnlyRequest
  <2> QED
    BY <2>1, <2>2 DEF RankInv, RanksFollowScores
<1>10. RankingFillsFreePlaces
  BY <1>1 DEF RankingFillsFreePlaces
<1> QED
  BY <1>2, <1>6, <1>7, <1>8, <1>9, <1>10 DEF RankInv

LEMMA ListedScore ==
    ASSUME PostInv, Scored, NEW p \in Listed
    PROVE  FinalScore(p) \in Nat
<1>1. Score \subseteq Nat
  BY DEF Score, Hundredth
<1>2. CASE p = Mine
  BY <1>1, <1>2 DEF Listed, Published, Scored, IsFinalized, FinalStatusNow, FinalScore
<1>3. CASE p # Mine
  BY <1>1, <1>3, PostDefenseAssumption DEF Listed, Project, Other, FinalScore
<1> QED
  BY <1>2, <1>3

\* A run of the ranking that has current rows.
LEMMA RankRun ==
    ASSUME PostInv, RankInv, NEW r \in Request, ComputeRankings(r)
    PROVE  /\ \A p \in Project : place'[p].rank_override = place[p].rank_override
           /\ \A p \in Project \ Listed : place'[p] = place[p]
           /\ \A p, q \in {x \in Listed : place[x].rank_override = NoPlace} :
                 /\ FinalScore(p) > FinalScore(q) => place'[p].rank < place'[q].rank
                 /\ place'[p].rank = place'[q].rank => p = q
           /\ LET fixed == {p \in Listed : place[p].rank_override # NoPlace}
                  held  == {place[p].rank_override : p \in fixed}
                  given == {place'[p].rank : p \in Listed \ fixed}
              IN  /\ \A p \in fixed : place'[p] = [place[p] EXCEPT !.rank = place[p].rank_override]
                  /\ given \cap held = {}
                  /\ \A n \in given : \A k \in 1 .. n : k \in given \cup held
<1>1. desk[r].rows = Rows
  BY ComputeEffect DEF RankInv, DeskCurrent
<1>2. /\ \A p \in Project : place'[p].rank_override = place[p].rank_override
      /\ \A p \in Project : p \notin DOMAIN Rows => place'[p] = place[p]
  BY <1>1, ComputeEffect
<1>3. PICK order \in AutoRanked(Rows) :
         \A p \in Project : place'[p] = IF p \in DOMAIN Rows
                                        THEN [place[p] EXCEPT !.rank = RankByProject(Rows, order)[p]] ELSE place[p]
  <2>1. \E order \in AutoRanked(desk[r].rows) :
           \A p \in Project : place'[p] = IF p \in DOMAIN desk[r].rows
                                          THEN [place[p] EXCEPT !.rank = RankByProject(desk[r].rows, order)[p]]
                                          ELSE place[p]
    BY ComputeEffect
  <2> QED
    BY <1>1, <2>1, Zenon
<1>4. /\ DOMAIN Rows = Listed /\ \A p \in Listed : Rows[p].rank_override = place[p].rank_override
      /\ \A p \in Listed : Rows[p].score = FinalScore(p)
  BY DEF Rows
<1>5. IsFiniteSet(DOMAIN Rows) /\ Listed \subseteq Project
  BY <1>4, ListedIs
<1> DEFINE rank == RankByProject(Rows, order)
           free == Unplaced(Rows)
           taken == TakenSlots(Rows)
<1>6. /\ \A p \in DOMAIN Rows \ free : rank[p] = Rows[p].rank_override
      /\ \A p \in free : rank[p] \in Nat /\ rank[p] >= 1 /\ rank[p] \notin taken
      /\ \A p, q \in free : p # q => rank[p] # rank[q]
      /\ \A p, q \in free :
            Rows[p].score \in Nat /\ Rows[q].score \in Nat /\ Rows[p].score > Rows[q].score => rank[p] < rank[q]
      /\ \A p \in free : \A k \in 1 .. rank[p] : k \in taken \/ \E q \in free : rank[q] = k
  BY <1>5, RanksGiven
<1>7. free = {p \in Listed : place[p].rank_override = NoPlace}
  BY <1>4 DEF Unplaced
<1>8. taken = {place[p].rank_override : p \in {x \in Listed : place[x].rank_override # NoPlace}}
  BY <1>4 DEF TakenSlots
<1>9. \A p \in Listed : place'[p] = [place[p] EXCEPT !.rank = rank[p]] /\ place'[p].rank = rank[p]
  <2> HIDE DEF rank
  <2>1. ASSUME NEW p \in Listed PROVE place'[p] = [place[p] EXCEPT !.rank = rank[p]] /\ place'[p].rank = rank[p]
    <3>1. place[p] \in Place
      BY <1>5, PlaceIs
    <3>2. place'[p] = [place[p] EXCEPT !.rank = rank[p]]
      BY <1>3, <1>4, <1>5 DEF rank
    <3> QED
      BY <3>1, <3>2 DEF Place
  <2> QED
    BY <2>1
<1>10. \A p \in Listed : FinalScore(p) \in Nat
  BY ListedScore DEF RankInv
<1> HIDE DEF rank, free, taken
<1> DEFINE fixed == {p \in Listed : place[p].rank_override # NoPlace}
           held  == {place[p].rank_override : p \in fixed}
           given == {place'[p].rank : p \in Listed \ fixed}
<1>11. Listed \ fixed = free /\ held = taken /\ DOMAIN Rows \ free = fixed
  BY <1>4, <1>7, <1>8
<1>12. given = {rank[p] : p \in free}
  <2>1. \A p \in free : place'[p].rank = rank[p]
    BY <1>7, <1>9
  <2>2. given = {place'[p].rank : p \in free}
    BY <1>11
  <2> QED
    BY <2>1, <2>2
<1>13. \A p \in fixed : place'[p] = [place[p] EXCEPT !.rank = place[p].rank_override]
  BY <1>4, <1>6, <1>9, <1>11
<1> HIDE DEF given, held, fixed
<1>14. given \cap held = {}
  <2>1. \A n \in given : n \notin taken
    BY <1>6, <1>12
  <2> QED
    BY <1>11, <2>1
<1>15. \A n \in given : \A k \in 1 .. n : k \in given \cup held
  <2> SUFFICES ASSUME NEW n \in given, NEW k \in 1 .. n PROVE k \in given \cup held
    OBVIOUS
  <2>1. PICK p \in free : n = rank[p]
    BY <1>12
  <2>2. k \in taken \/ \E q \in free : rank[q] = k
    BY <1>6, <2>1
  <2> QED
    BY <1>11, <1>12, <2>2
<1>16. \A p, q \in free : /\ FinalScore(p) > FinalScore(q) => place'[p].rank < place'[q].rank
                          /\ place'[p].rank = place'[q].rank => p = q
  <2> SUFFICES ASSUME NEW p \in free, NEW q \in free
               PROVE  /\ FinalScore(p) > FinalScore(q) => place'[p].rank < place'[q].rank
                      /\ place'[p].rank = place'[q].rank => p = q
    OBVIOUS
  <2>1. p \in Listed /\ q \in Listed /\ place'[p].rank = rank[p] /\ place'[q].rank = rank[q]
    BY <1>7, <1>9
  <2>2. /\ Rows[p].score = FinalScore(p) /\ Rows[q].score = FinalScore(q)
        /\ FinalScore(p) \in Nat /\ FinalScore(q) \in Nat
    BY <1>4, <1>10, <2>1
  <2>3. p # q => rank[p] # rank[q]
    BY <1>6
  <2>4. Rows[p].score \in Nat /\ Rows[q].score \in Nat /\ Rows[p].score > Rows[q].score => rank[p] < rank[q]
    BY <1>6
  <2> QED
    BY <2>1, <2>2, <2>3, <2>4
<1>17. \A p \in Project \ Listed : place'[p] = place[p]
  BY <1>2, <1>4
<1> QED
  BY <1>2, <1>7, <1>13, <1>14, <1>15, <1>16, <1>17 DEF fixed, held, given

LEMMA SameGrading ==
    ASSUME UNCHANGED vars
    PROVE  /\ Listed' = Listed /\ (\A p : FinalScore(p)' = FinalScore(p)) /\ (Scored' <=> Scored)
           /\ scope' = scope /\ pc' = pc /\ byHand' = byHand
<1>1. result' = result /\ scope' = scope /\ pc' = pc /\ byHand' = byHand
  BY DEF vars
<1>2. FinalStatusNow' = FinalStatusNow
  BY <1>1 DEF FinalStatusNow
<1> QED
  BY <1>1, <1>2 DEF Listed, Published, FinalScore, Scored, IsFinalized

\* The one request is the only one with something on the desk.
LEMMA DeskOnly ==
    ASSUME Undisturbed, PostInv, DeskAlone, UNCHANGED vars, NEW r \in Request, PostArrive(r) \/ PostProceed(r)
    PROVE  /\ \A q \in Request \ {r} : desk[q] = NoDesk /\ desk'[q] = NoDesk
           /\ DeskAlone'
<1>1. desk[r] # NoDesk \/ (r \in scope.requests /\ pc[r] = "idle")
  <2>1. NoDesk.op = "none"
    BY DEF NoDesk
  <2>2. CASE PostArrive(r)
    BY <2>2 DEF PostArrive, ComputeRead, RankRead, SetRevisionWindow, RevisionRead, Free
  <2>3. CASE PostProceed(r)
    BY <2>1, <2>3 DEF PostProceed, ComputeRankings, UpdateRank, SubmitRevision, BreakOff
  <2> QED
    BY <2>2, <2>3
<1>2. r \in scope.requests /\ pc[r] = "idle"
  BY <1>1 DEF DeskAlone
<1>3. desk' = [desk EXCEPT ![r] = desk'[r]]
  BY DEF PostInv, PostArrive, PostProceed, ComputeRead, RankRead, SetRevisionWindow, RevisionRead, Take, Leave,
     ComputeRankings, UpdateRank, SubmitRevision, BreakOff
<1>4. ASSUME NEW q \in Request \ {r} PROVE desk[q] = NoDesk /\ desk'[q] = NoDesk
  <2>1. desk[q] = NoDesk
    BY <1>2, OnlyRequest DEF DeskAlone, PostInv
  <2>2. desk'[q] = desk[q]
    BY <1>3 DEF PostInv
  <2> QED
    BY <2>1, <2>2
<1>5. DeskAlone'
  BY <1>2, <1>4, SameGrading DEF DeskAlone
<1> QED
  BY <1>4, <1>5

\* Steps that leave the places and put current rows on the desk, if any.
LEMMA RankKept ==
    ASSUME Undisturbed, PostInv, RankInv, UNCHANGED vars, place' = place, DeskAlone',
           NEW r \in Request, \A q \in Request \ {r} : desk'[q] = NoDesk, desk'[r].op = "rank" => desk'[r].rows = Rows
    PROVE  RankInv' /\ RankingFillsFreePlaces
<1>1. /\ Listed' = Listed /\ (\A p : FinalScore(p)' = FinalScore(p)) /\ Scored' /\ scope' = scope /\ byHand' = byHand
  BY SameGrading DEF RankInv
<1>2. Rows' = Rows
  BY <1>1 DEF Rows
<1>3. DeskCurrent'
  BY <1>2 DEF DeskCurrent, NoDesk
<1>4. MineRanked' /\ RanksFollowScores'
  BY <1>1 DEF RankInv, MineRanked, RanksFollowScores, OneByOne
<1>5. RankingFillsFreePlaces
  BY DEF RankingFillsFreePlaces
<1> QED
  BY <1>1, <1>3, <1>4, <1>5 DEF RankInv

LEMMA RankComputed ==
    ASSUME Undisturbed, PostInv, RankInv, UNCHANGED vars, NEW r \in Request, ComputeRankings(r)
    PROVE  RankInv' /\ RankingFillsFreePlaces
<1>1. /\ Listed' = Listed /\ (\A p : FinalScore(p)' = FinalScore(p)) /\ Scored' /\ scope' = scope /\ byHand' = byHand
  BY SameGrading DEF RankInv
<1>2. DeskAlone' /\ \A q \in Request \ {r} : desk[q] = NoDesk /\ desk'[q] = NoDesk
  BY DeskOnly DEF RankInv, PostProceed
<1>3. desk'[r] = NoDesk
  BY ComputeEffect, DeskIs
<1>4. DeskCurrent'
  BY <1>2, <1>3 DEF DeskCurrent, NoDesk
<1>5. /\ \A p \in Project : place'[p].rank_override = place[p].rank_override
      /\ \A p \in Project \ Listed : place'[p] = place[p]
      /\ \A p, q \in {x \in Listed : place[x].rank_override = NoPlace} :
            /\ FinalScore(p) > FinalScore(q) => place'[p].rank < place'[q].rank
            /\ place'[p].rank = place'[q].rank => p = q
  BY RankRun
<1>6. MineRanked'
  BY <1>1, <1>5, ProjectFinite DEF RankInv, MineRanked
<1>7. RanksFollowScores'
  <2> SUFFICES ASSUME NEW p \in Listed', NEW q \in Listed', place'[p].rank_override = NoPlace, place'[q].rank_override = NoPlace
               PROVE  /\ FinalScore(p)' > FinalScore(q)' => place'[p].rank < place'[q].rank
                      /\ place'[p].rank = place'[q].rank => p = q
    BY DEF RanksFollowScores
  <2>1. p \in Listed /\ q \in Listed /\ place[p].rank_override = NoPlace /\ place[q].rank_override = NoPlace
    BY <1>1, <1>5, ListedIs
  <2> QED
    BY <1>1, <1>5, <2>1
<1>8. RankingFillsFreePlaces
  <2> SUFFICES ASSUME NEW q \in Request, desk[q].op = "rank"
               PROVE LET fixed == {p \in Listed : place[p].rank_override # NoPlace}
                         held  == {place[p].rank_override : p \in fixed}
                         given == {place'[p].rank : p \in Listed \ fixed}
                     IN  /\ \A p \in fixed : place'[p] = [place[p] EXCEPT !.rank = place[p].rank_override]
                         /\ given \cap held = {}
                         /\ \A n \in given : \A k \in 1 .. n : k \in given \cup held
    BY DEF RankingFillsFreePlaces
  <2> QED
    BY RankRun
<1> QED
  BY <1>1, <1>2, <1>4, <1>6, <1>7, <1>8 DEF RankInv

LEMMA RankUpdated ==
    ASSUME Undisturbed, PostInv, RankInv, UNCHANGED vars, NEW r \in Request, UpdateRank(r)
    PROVE  RankInv' /\ RankingFillsFreePlaces
<1>1. /\ Listed' = Listed /\ (\A p : FinalScore(p)' = FinalScore(p)) /\ Scored' /\ scope' = scope /\ byHand' = byHand
  BY SameGrading DEF RankInv
<1>2. DeskAlone' /\ \A q \in Request \ {r} : desk[q] = NoDesk /\ desk'[q] = NoDesk
  BY DeskOnly DEF RankInv, PostProceed
<1>3. desk[r].op = "place" /\ desk' = [desk EXCEPT ![r] = NoDesk]
      /\ place' = [place EXCEPT ![desk[r].project] = [rank |-> desk[r].n, rank_override |-> desk[r].n]]
  BY DEF UpdateRank, Leave
<1>4. desk[r].project \in Project /\ desk[r].n # NoPlace
  BY <1>3, PostDefenseAssumption DEF PostInv, DeskHeld
<1>5. desk'[r] = NoDesk
  BY <1>3, DeskIs
<1>6. DeskCurrent'
  BY <1>2, <1>5 DEF DeskCurrent, NoDesk
<1>7. \A p \in Project : place'[p] = place[p] \/ place'[p].rank_override # NoPlace
  BY <1>3, <1>4 DEF PostInv, PostTypeOK
<1>8. MineRanked'
  BY <1>1, <1>7, ProjectFinite DEF RankInv, MineRanked
<1>9. RanksFollowScores'
  BY <1>1, <1>7, ListedIs DEF RankInv, RanksFollowScores, OneByOne
<1>10. RankingFillsFreePlaces
  BY <1>2, <1>3 DEF RankingFillsFreePlaces, NoDesk
<1> QED
  BY <1>1, <1>2, <1>6, <1>8, <1>9, <1>10 DEF RankInv

LEMMA RankDesk ==
    ASSUME Undisturbed, PostInv, RankInv, UNCHANGED vars, NEW r \in Request, PostArrive(r) \/ PostProceed(r)
    PROVE  RankInv' /\ RankingFillsFreePlaces
<1>1. DeskAlone' /\ \A q \in Request \ {r} : desk'[q] = NoDesk
  BY DeskOnly DEF RankInv
<1>2. ASSUME place' = place, desk'[r].op = "rank" => desk'[r].rows = Rows PROVE RankInv' /\ RankingFillsFreePlaces
  BY <1>1, <1>2, RankKept
<1>3. CASE ComputeRead(r)
  <2> DEFINE x == [op |-> "rank", rows |-> Rows]
  <2>1. desk' = [desk EXCEPT ![r] = x] /\ place' = place /\ x.rows = Rows
    BY <1>3 DEF ComputeRead, Take, Rows
  <2> HIDE DEF x
  <2> QED
    BY <1>2, <2>1, DeskIs
<1>4. ASSUME NEW p \in Project, NEW n \in 1 .. MaxPlace, RankRead(r, p, n) PROVE RankInv' /\ RankingFillsFreePlaces
  <2> DEFINE x == [op |-> "place", project |-> p, n |-> n]
  <2>1. desk' = [desk EXCEPT ![r] = x] /\ place' = place /\ x.op = "place"
    BY <1>4 DEF RankRead, Take
  <2> HIDE DEF x
  <2> QED
    BY <1>2, <2>1, DeskIs
<1>5. CASE \E passed \in BOOLEAN : SetRevisionWindow(r, passed)
  BY <1>2, <1>5 DEF SetRevisionWindow, RankInv, DeskCurrent
<1>6. CASE RevisionRead(r)
  <2> DEFINE x == [op |-> "revise"]
  <2>1. desk' = [desk EXCEPT ![r] = x] /\ place' = place /\ x.op = "revise"
    BY <1>6 DEF RevisionRead, Take
  <2> HIDE DEF x
  <2> QED
    BY <1>2, <2>1, DeskIs
<1>7. CASE SubmitRevision(r) \/ BreakOff(r)
  <2>1. desk' = [desk EXCEPT ![r] = NoDesk] /\ place' = place /\ NoDesk.op = "none"
    BY <1>7 DEF SubmitRevision, BreakOff, Leave, NoDesk
  <2> QED
    BY <1>2, <2>1, DeskIs
<1> QED
  BY <1>3, <1>4, <1>5, <1>6, <1>7, RankComputed, RankUpdated DEF PostArrive, PostProceed

LEMMA RankNext ==
    ASSUME Undisturbed, PostInv, GradeKept, RankInv, PostNext
    PROVE  RankInv' /\ RankingFillsFreePlaces
<1>1. CASE Next /\ Noted /\ UNCHANGED <<scope, post>> /\ \A r \in Request : pc'[r] # "idle" => desk[r] = NoDesk
  BY <1>1, RankGrading
<1>2. CASE DeadlinePasses /\ UNCHANGED vars
  <2>1. place' = place /\ desk' = desk
    BY <1>2 DEF DeadlinePasses
  <2>2. Listed' = Listed /\ (\A p : FinalScore(p)' = FinalScore(p)) /\ Scored' /\ scope' = scope /\ pc' = pc /\ byHand' = byHand
    BY <1>2, SameGrading DEF RankInv
  <2>3. Rows' = Rows
    BY <2>1, <2>2 DEF Rows
  <2> QED
    BY <2>1, <2>2, <2>3 DEF RankInv, DeskAlone, MineRanked, DeskCurrent, RanksFollowScores, OneByOne, RankingFillsFreePlaces
<1>3. CASE UNCHANGED vars /\ \E r \in Request : PostArrive(r) \/ PostProceed(r)
  BY <1>3, RankDesk
<1> QED
  BY <1>1, <1>2, <1>3 DEF PostNext

LEMMA RankStutters ==
    ASSUME RankInv, UNCHANGED allVars
    PROVE  RankInv'
<1>1. UNCHANGED vars /\ place' = place /\ desk' = desk
  BY DEF allVars, post
<1>2. Listed' = Listed /\ (\A p : FinalScore(p)' = FinalScore(p)) /\ Scored' /\ scope' = scope /\ pc' = pc /\ byHand' = byHand
  BY <1>1, SameGrading DEF RankInv
<1>3. Rows' = Rows
  BY <1>1, <1>2 DEF Rows
<1> QED
  BY <1>1, <1>2, <1>3 DEF RankInv, DeskAlone, MineRanked, DeskCurrent, RanksFollowScores, OneByOne

LEMMA RankInit ==
    ASSUME PostInit, GradeInv
    PROVE  RankInv
<1>1. /\ \A r \in Request : desk[r] = NoDesk
      /\ \A p \in Project : place[p].rank = NoPlace
  BY DEF PostInit
<1>2. ~IsFinalized
  <2>1. result = NoResult \/ result.final_status = "NONE"
    BY DEF PostInit, Init, NewResult
  <2> QED
    BY <2>1 DEF IsFinalized, FinalStatusNow
<1> QED
  BY <1>1, <1>2, ProjectFinite, ListedIs DEF RankInv, DeskAlone, Scored, MineRanked, DeskCurrent, RanksFollowScores, NoDesk

\* With requests one by one that end: until updateScore sets the supervisor's sheet to PASSED
\* or FAILED, those without a place of the secretary's are ranked by score and share no
\* place; and always a run of the ranking keeps the secretary's places and gives
\* the first free ones, for any number of projects.
THEOREM RankingCorrect == ASSUME Undisturbed PROVE PostSpec => RankingSound
<1>1. PostInit => PostInv /\ GradeKept /\ RankInv
  BY PostInvInit, GradeInit, RankInit DEF PostInit, GradeKept
<1>2. PostInv /\ GradeKept /\ RankInv /\ [PostNext]_allVars => PostInv' /\ GradeKept' /\ RankInv'
  BY PostInvNext, GradeInvPost, RankNext, RankStutters
<1>3. PostInv /\ GradeKept /\ RankInv /\ [PostNext]_allVars => [RanksFollowScores' /\ RankingFillsFreePlaces]_allVars
  BY RankNext DEF RankInv
<1> QED
  BY <1>1, <1>2, <1>3, PTL DEF PostSpec, RankingSound
=============================================================================
