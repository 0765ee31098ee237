------------------------- MODULE ProgressReportsProofs -------------------------
(* Theorems of ProgressReports and ReportBoards, for any number of students,    *)
(* milestones, reports and overlapping handlers, with the hourly job and the    *)
(* clock at any moment.                                                         *)
EXTENDS ReportBoards, FiniteSetTheorems, TLAPS

-----------------------------------------------------------------------------
(* The rows of a table of reports *)

RowsIn(rep)       == {i \in ReportId : rep[i] # NoReport}
RowsOfIn(rep, s)  == {i \in RowsIn(rep) : rep[i].student = s}

\* Rows are numbered without gaps.
Compact(rep) == \E n \in 0 .. MaxReports : RowsIn(rep) = 1 .. n

\* A student has one report of a milestone at most.
OneEach(rep) ==
    \A i, j \in RowsIn(rep) :
        /\ rep[i].student = rep[j].student /\ rep[i].deadline = rep[j].deadline
        /\ rep[i].deadline # NoMilestone
        => i = j

Table(rep) ==
    /\ rep \in [ReportId -> Report \cup {NoReport}]
    /\ Compact(rep) /\ OneEach(rep)

\* No row of the table is lost, and each stays with its student.
Grows(rep, new) ==
    \A i \in RowsIn(rep) : i \in RowsIn(new) /\ new[i].student = rep[i].student

LEMMA RowsAreReports == Reports = RowsIn(report) /\ \A s : RowsOf(s) = RowsOfIn(report, s)
BY DEF Reports, RowsIn, RowsOf, RowsOfIn

LEMMA RowsFinite ==
    ASSUME NEW S \in SUBSET ReportId
    PROVE  IsFiniteSet(S) /\ Cardinality(S) \in Nat
<1>1. IsFiniteSet(ReportId)
  BY FS_Interval, ReportAssumption DEF ReportId
<1>2. IsFiniteSet(S)
  BY <1>1, FS_Subset
<1> QED
  BY <1>2, FS_CardinalityType

LEMMA RowsOfGrow ==
    ASSUME NEW rep, NEW new, Grows(rep, new), NEW s
    PROVE  /\ Cardinality(RowsOfIn(rep, s)) \in Nat /\ Cardinality(RowsOfIn(new, s)) \in Nat
           /\ Cardinality(RowsOfIn(rep, s)) <= Cardinality(RowsOfIn(new, s))
<1>1. RowsOfIn(rep, s) \in SUBSET RowsOfIn(new, s) /\ RowsOfIn(new, s) \in SUBSET ReportId
  BY DEF Grows, RowsOfIn, RowsIn
<1>2. RowsOfIn(rep, s) \in SUBSET ReportId
  BY <1>1
<1> QED
  BY <1>1, <1>2, RowsFinite, FS_Subset

LEMMA RowsCounted ==
    ASSUME NEW n \in 0 .. MaxReports, Reports = 1 .. n
    PROVE  Cardinality(Reports) = n
BY FS_Interval, ReportAssumption

\* Ids that are dealt out belong to no row.
LEMMA FreshAreFree ==
    ASSUME scope \in Scopes, Compact(report), NEW k, NEW i \in Fresh(k)
    PROVE  i \in ReportId /\ i \notin Reports
<1>1. PICK n \in 0 .. MaxReports : Reports = 1 .. n
  BY RowsAreReports DEF Compact
<1>2. Cardinality(Reports) = n
  BY <1>1, RowsCounted
<1> QED
  BY <1>1, <1>2, ReportAssumption DEF Fresh, ReportId

\* One row more is the next one.
LEMMA OneMoreCompact ==
    ASSUME scope \in Scopes, Compact(report), NEW i \in Fresh(1), NEW rep, RowsIn(rep) = Reports \cup {i}
    PROVE  Compact(rep)
<1>1. PICK n \in 0 .. MaxReports : Reports = 1 .. n
  BY RowsAreReports DEF Compact
<1>2. Cardinality(Reports) = n
  BY <1>1, RowsCounted
<1>3. i = n + 1 /\ n + 1 \in 0 .. MaxReports
  BY <1>2, ReportAssumption DEF Fresh, ReportId
<1>4. RowsIn(rep) = 1 .. (n + 1)
  BY <1>1, <1>3
<1> QED
  BY <1>3, <1>4 DEF Compact

\* A row for each of a set of students takes the next ids, without a gap.
LEMMA ManyMoreCompact ==
    ASSUME scope \in Scopes, Compact(report), NEW who, NEW f \in [who -> Fresh(Cardinality(who))],
           \A s, t \in who : f[s] = f[t] => s = t,
           NEW rep, RowsIn(rep) = Reports \cup {f[s] : s \in who}
    PROVE  Compact(rep)
<1> DEFINE k == Cardinality(who)
           ids == Fresh(k)
<1>1. PICK n \in 0 .. MaxReports : Reports = 1 .. n
  BY RowsAreReports DEF Compact
<1>2. Cardinality(Reports) = n
  BY <1>1, RowsCounted
<1>3. ids \in SUBSET ReportId /\ IsFiniteSet(ids)
  <2>1. ids \in SUBSET ReportId
    BY ReportAssumption DEF Fresh, ReportId
  <2> QED
    BY <2>1, RowsFinite
<1>4. f \in Injection(who, ids)
  BY DEF Injection, IsInjective
<1>5. /\ IsFiniteSet(who) /\ Cardinality(who) <= Cardinality(ids)
      /\ Cardinality(who) = Cardinality(ids) <=> f \in Surjection(who, ids)
  <2> HIDE DEF ids, k
  <2> QED
    BY <1>3, <1>4, FS_Injection
<1>6. k \in Nat
  BY <1>5, FS_CardinalityType
<1>7. ids \in SUBSET ((n + 1) .. (n + k))
  BY <1>2, <1>6, ReportAssumption DEF Fresh, ReportId
<1> DEFINE lo == n + 1
           hi == n + k
           next == lo .. hi
<1>8. IsFiniteSet(next) /\ Cardinality(next) = k
  <2>1. lo \in Int /\ hi \in Int /\ k = IF lo > hi THEN 0 ELSE hi - lo + 1
    BY <1>6, ReportAssumption
  <2> HIDE DEF lo, hi, k
  <2> QED
    BY <2>1, FS_Interval
<1>9. Cardinality(ids) = k /\ ids = (n + 1) .. (n + k)
  <2>1. Cardinality(ids) <= k /\ (Cardinality(ids) = k => ids = next)
    <3>1. ids \in SUBSET next
      BY <1>7
    <3> HIDE DEF ids, k, next
    <3> QED
      BY <1>8, <3>1, FS_Subset
  <2>2. Cardinality(ids) \in Nat
    BY <1>3, RowsFinite
  <2> QED
    BY <1>5, <1>6, <2>1, <2>2
<1>10. {f[s] : s \in who} = ids
  <2>1. f \in Surjection(who, ids)
    BY <1>5, <1>9
  <2> QED
    BY <2>1 DEF Surjection
<1>11. n + k \in 0 .. MaxReports
  <2>1. CASE k = 0
    BY <1>6, <2>1, ReportAssumption
  <2>2. CASE k # 0
    <3>1. n + k \in ids
      BY <1>6, <1>9, <2>2, ReportAssumption
    <3> QED
      BY <1>3, <3>1, ReportAssumption DEF ReportId
  <2> QED
    BY <2>1, <2>2
<1>12. RowsIn(rep) = 1 .. (n + k)
  <2>1. RowsIn(rep) = (1 .. n) \cup ((n + 1) .. (n + k))
    BY <1>1, <1>9, <1>10
  <2> HIDE DEF k
  <2>2. n \in Nat
    BY ReportAssumption
  <2> QED
    BY <1>6, <2>1, <2>2
<1> QED
  BY <1>11, <1>12 DEF Compact

\* A row that is inserted for a milestone the student had no row of.
LEMMA InsertTable ==
    ASSUME scope \in Scopes, Table(report), NEW i \in Fresh(1), NEW row \in Report,
           row.deadline # NoMilestone => ~HasRow(row.student, row.deadline),
           NEW rep, rep = [report EXCEPT ![i] = row]
    PROVE  Table(rep) /\ Grows(report, rep)
<1>1. i \in ReportId /\ i \notin Reports
  BY FreshAreFree DEF Table
<1>2. rep \in [ReportId -> Report \cup {NoReport}]
  BY <1>1 DEF Table
<1>3. rep[i] = row /\ row # NoReport /\ \A j \in ReportId \ {i} : rep[j] = report[j]
  BY <1>1, ReportAbsence DEF Table
<1>4. RowsIn(rep) = Reports \cup {i}
  BY <1>1, <1>3 DEF RowsIn, Reports
<1>5. Compact(rep)
  BY <1>4, OneMoreCompact DEF Table
<1>6. OneEach(rep)
  BY <1>1, <1>3, <1>4, RowsAreReports DEF Table, OneEach, HasRow
<1>7. Grows(report, rep)
  BY <1>1, <1>3, <1>4, RowsAreReports DEF Grows, Reports
<1> QED
  BY <1>2, <1>5, <1>6, <1>7 DEF Table

MissingRow(s, u, m) == NewRow(s, u, m, "MISSING")

LEMMA MissingRowType ==
    ASSUME NEW s \in Student, NEW u \in Teacher, NEW m \in Milestone
    PROVE  /\ MissingRow(s, u, m) \in Report /\ MissingRow(s, u, m) # NoReport
           /\ MissingRow(s, u, m).student = s /\ MissingRow(s, u, m).deadline = m
BY ReportAssumption, ReportAbsence DEF MissingRow, NewRow, Report, ReportStatus

\* The rows of the job, one for each student who had none.
LEMMA MarksTable ==
    ASSUME scope \in Scopes, Table(report), NEW m \in Milestone, NEW who \in SUBSET Student,
           NEW u \in [who -> Teacher],
           \A s \in who : ~HasRow(s, m),
           NEW f \in [who -> Fresh(Cardinality(who))],
           \A s, t \in who : f[s] = f[t] => s = t,
           NEW rep, DOMAIN rep = ReportId, rep = [k \in ReportId |-> rep[k]],
           \A s \in who : rep[f[s]] = MissingRow(s, u[s], m),
           \A k \in ReportId : (\A s \in who : f[s] # k) => rep[k] = report[k]
    PROVE  Table(rep) /\ Grows(report, rep)
<1> DEFINE ids == {f[s] : s \in who}
<1>1. ASSUME NEW s \in who
      PROVE  f[s] \in ReportId /\ f[s] \notin Reports /\ rep[f[s]] = MissingRow(s, u[s], m)
  <2>1. f[s] \in Fresh(Cardinality(who))
    OBVIOUS
  <2> QED
    BY <2>1, FreshAreFree DEF Table
<1>2. \A k \in ReportId \ ids : rep[k] = report[k]
  OBVIOUS
<1>3. ASSUME NEW s \in who
      PROVE  rep[f[s]] \in Report /\ rep[f[s]] # NoReport /\ rep[f[s]].student = s /\ rep[f[s]].deadline = m
  <2>1. s \in Student /\ u[s] \in Teacher
    OBVIOUS
  <2> DEFINE row == MissingRow(s, u[s], m)
  <2>2. row \in Report /\ row # NoReport /\ row.student = s /\ row.deadline = m
    BY <2>1, MissingRowType
  <2>3. rep[f[s]] = row
    BY <1>1
  <2> HIDE DEF row
  <2> QED
    BY <2>2, <2>3
<1>5. rep \in [ReportId -> Report \cup {NoReport}]
  <2>1. ASSUME NEW k \in ReportId PROVE rep[k] \in Report \cup {NoReport}
    BY <1>2, <1>3 DEF Table
  <2> QED
    BY <2>1
<1>6. RowsIn(rep) = Reports \cup ids
  BY <1>1, <1>2, <1>3 DEF RowsIn, Reports
<1>7. Compact(rep)
  BY <1>6, ManyMoreCompact DEF Table
<1>8. OneEach(rep)
  <2> SUFFICES ASSUME NEW i \in RowsIn(rep), NEW j \in RowsIn(rep),
                      rep[i].student = rep[j].student, rep[i].deadline = rep[j].deadline,
                      rep[i].deadline # NoMilestone
               PROVE  i = j
    BY DEF OneEach
  <2>1. \A k \in Reports : rep[k] = report[k] /\ k \notin ids
    BY <1>1, <1>2 DEF Reports
  <2>a. ASSUME NEW k \in ids
        PROVE  \E s \in who : k = f[s] /\ rep[k].student = s /\ rep[k].deadline = m
    <3>1. PICK s \in who : k = f[s]
      OBVIOUS
    <3>2. rep[f[s]].student = s /\ rep[f[s]].deadline = m
      BY <1>3
    <3> QED
      BY <3>1, <3>2
  <2> HIDE DEF ids
  <2>2. CASE i \in ids /\ j \in ids
    BY <2>2, <2>a
  <2>3. CASE i \in ids /\ j \in Reports
    BY <2>1, <2>3, <2>a DEF HasRow
  <2>4. CASE i \in Reports /\ j \in ids
    BY <2>1, <2>4, <2>a DEF HasRow
  <2>5. CASE i \in Reports /\ j \in Reports
    BY <2>1, <2>5, RowsAreReports DEF Table, OneEach
  <2> QED
    BY <1>6, <2>2, <2>3, <2>4, <2>5
<1>9. Grows(report, rep)
  BY <1>1, <1>2, <1>6, RowsAreReports DEF Grows, Reports
<1> QED
  BY <1>5, <1>7, <1>8, <1>9 DEF Table

\* Rows whose columns change: the student stays, the milestone stays or goes.
LEMMA EditTable ==
    ASSUME Table(report), NEW rep, DOMAIN rep = ReportId, rep = [i \in ReportId |-> rep[i]],
           \A i \in ReportId :
               \/ rep[i] = report[i]
               \/ /\ i \in Reports /\ rep[i] \in Report
                  /\ rep[i].student = report[i].student
                  /\ rep[i].deadline \in {report[i].deadline, NoMilestone}
    PROVE  Table(rep) /\ Grows(report, rep)
<1>1. rep \in [ReportId -> Report \cup {NoReport}]
  BY DEF Table
<1>2. RowsIn(rep) = RowsIn(report)
  BY ReportAbsence DEF RowsIn, Reports
<1>3. \A i \in RowsIn(report) : /\ rep[i].student = report[i].student
                               /\ rep[i].deadline \in {report[i].deadline, NoMilestone}
  BY DEF RowsIn
<1>4. Compact(rep)
  BY <1>2 DEF Table, Compact
<1>5. OneEach(rep)
  BY <1>2, <1>3 DEF Table, OneEach
<1>6. Grows(report, rep)
  BY <1>2, <1>3 DEF Grows
<1> QED
  BY <1>1, <1>4, <1>5, <1>6 DEF Table

LEMMA SameTable ==
    ASSUME Table(report), report' = report
    PROVE  Table(report)' /\ Grows(report, report')
BY DEF Table, Compact, OneEach, RowsIn, Grows

-----------------------------------------------------------------------------
(* The inductive invariant *)

CreateArg == [op : {"create"}, student : Student, teacher : Teacher, deadline : Milestone \cup {NoMilestone}]
UpdateArg == [op : {"update"}, id : ReportId, student : Student, status : ReportStatus]
CountArg  == [op : {"count"}, student : Student, count : Nat]
ReviewArg == [op : {"review", "archive"}, id : ReportId, status : ReportStatus]

Steps == {"idle", "exists", "insert", "count", "store", "update", "look", "decide"}

\* What a handler at each of its places holds: rows it has read stay, and a count it has
\* taken can only have become too small.
Placed(step, a, rep) ==
    /\ step \in {"exists", "insert"} => a \in CreateArg
    /\ step = "count"                => a.student \in Student
    /\ step = "store"                => a \in CountArg /\ a.count <= Cardinality(RowsOfIn(rep, a.student))
    /\ step = "update"               => a \in UpdateArg /\ a.id \in RowsIn(rep)
    /\ step \in {"look", "decide"}   => a \in ReviewArg /\ a.id \in RowsIn(rep)

Handlers ==
    /\ scope \in Scopes
    /\ pc \in [Request -> Steps]
    /\ DOMAIN arg = Request /\ arg = [r \in Request |-> arg[r]]
    /\ \A r \in Request : Placed(pc[r], arg[r], report)

OtherRows ==
    /\ project \in [Student -> Project \cup {NoRow}]
    /\ milestone \in [Milestone -> Deadline \cup {NoMilestone, Gone}]
    /\ submitted \in [Student -> Nat \cup {NoRow}]
    /\ job \subseteq Milestone
    /\ \E who \in SUBSET Student :
          marks \in [milestone : Milestone \cup {NoMilestone}, teacher : [who -> Teacher]]

Inv == Table(report) /\ OtherRows /\ CountNeverAhead /\ Handlers

LEMMA InvMeansType == Inv => TypeOK
BY RowsAreReports DEF Inv, Table, OneEach, OtherRows, TypeOK

LEMMA NoMarksType ==
    \E who \in SUBSET Student :
        NoMarks \in [milestone : Milestone \cup {NoMilestone}, teacher : [who -> Teacher]]
<1> DEFINE who == {}
           none == [s \in {} |-> NoRow]
<1>1. who \in SUBSET Student /\ none \in [who -> Teacher]
  OBVIOUS
<1>2. NoMarks = [milestone |-> NoMilestone, teacher |-> none]
  BY DEF NoMarks
<1> HIDE DEF who, none
<1>3. NoMarks \in [milestone : Milestone \cup {NoMilestone}, teacher : [who -> Teacher]]
  BY <1>1, <1>2
<1> QED
  BY <1>1, <1>3

LEMMA InvInit == Init => Inv
<1> SUFFICES ASSUME Init PROVE Inv
  OBVIOUS
<1>1. RowsIn(report) = {}
  BY DEF Init, RowsIn
<1>2. Table(report)
  <2>1. RowsIn(report) = 1 .. 0 /\ 0 \in 0 .. MaxReports
    BY <1>1, ReportAssumption
  <2>2. report \in [ReportId -> Report \cup {NoReport}]
    BY DEF Init
  <2> QED
    BY <1>1, <2>1, <2>2 DEF Table, Compact, OneEach
<1>3. OtherRows
  <2>1. project \in [Student -> Project \cup {NoRow}]
    BY DEF Init, InScope
  <2> QED
    BY <2>1, NoMarksType DEF Init, OtherRows
<1>4. CountNeverAhead
  <2>1. \A s : RowsOf(s) = {}
    BY <1>1, RowsAreReports DEF RowsOfIn
  <2> QED
    BY <2>1, FS_EmptySet DEF Init, CountNeverAhead
<1>5. Handlers
  BY DEF Init, Handlers, Placed, Steps
<1> QED
  BY <1>2, <1>3, <1>4, <1>5 DEF Inv

LEMMA PlacedStays ==
    ASSUME NEW step, NEW a, NEW rep, NEW new, Placed(step, a, rep), Grows(rep, new)
    PROVE  Placed(step, a, new)
<1>1. step = "store" => a.count <= Cardinality(RowsOfIn(new, a.student))
  <2>1. Cardinality(RowsOfIn(rep, a.student)) <= Cardinality(RowsOfIn(new, a.student))
    BY RowsOfGrow
  <2>2. Cardinality(RowsOfIn(rep, a.student)) \in Nat /\ Cardinality(RowsOfIn(new, a.student)) \in Nat
    BY RowsOfGrow
  <2> QED
    BY <2>1, <2>2 DEF Placed, CountArg
<1> QED
  BY <1>1 DEF Placed, Grows

\* A handler that moves on leaves the others where they are.
LEMMA HandlersMove ==
    ASSUME Handlers, scope' = scope, Grows(report, report'), NEW r \in Request, NEW step \in Steps,
           NEW a, Placed(step, a, report'),
           pc' = [pc EXCEPT ![r] = step], arg' = [arg EXCEPT ![r] = a]
    PROVE  Handlers'
<1>1. ASSUME NEW q \in Request PROVE Placed(pc'[q], arg'[q], report')
  <2>1. CASE q = r
    BY <2>1 DEF Handlers
  <2>2. CASE q # r
    <3>1. pc'[q] = pc[q] /\ arg'[q] = arg[q] /\ Placed(pc[q], arg[q], report)
      BY <2>2 DEF Handlers
    <3> QED
      BY <3>1, PlacedStays
  <2> QED
    BY <2>1, <2>2
<1> QED
  BY <1>1 DEF Handlers

LEMMA HandlersEnd ==
    ASSUME Handlers, scope' = scope, Grows(report, report'), NEW r \in Request, Finish(r)
    PROVE  Handlers'
<1>1. Placed("idle", NoArg, report') /\ "idle" \in Steps
  BY DEF Placed, Steps
<1> QED
  BY <1>1, HandlersMove DEF Finish, Go

LEMMA HandlersStay ==
    ASSUME Handlers, scope' = scope, Grows(report, report'), UNCHANGED <<pc, arg>>
    PROVE  Handlers'
<1>1. ASSUME NEW q \in Request PROVE Placed(pc'[q], arg'[q], report')
  BY <1>1, PlacedStays DEF Handlers
<1> QED
  BY <1>1 DEF Handlers

LEMMA CountsStay ==
    ASSUME OtherRows, CountNeverAhead, Grows(report, report'), submitted' = submitted
    PROVE  CountNeverAhead'
<1> SUFFICES ASSUME NEW s \in Student, submitted[s] # NoRow
             PROVE  submitted[s] <= Cardinality(RowsOf(s))'
  BY DEF CountNeverAhead
<1> DEFINE new == report'
<1>1. Cardinality(RowsOf(s))' = Cardinality(RowsOfIn(new, s))
  BY DEF RowsOf, Reports, RowsOfIn, RowsIn
<1>2. Cardinality(RowsOf(s)) = Cardinality(RowsOfIn(report, s))
  BY RowsAreReports
<1>3. submitted[s] <= Cardinality(RowsOf(s)) /\ submitted[s] \in Nat
  BY DEF CountNeverAhead, OtherRows
<1> HIDE DEF new
<1>4. Grows(report, new)
  BY DEF new
<1>5. /\ Cardinality(RowsOfIn(report, s)) \in Nat /\ Cardinality(RowsOfIn(new, s)) \in Nat
      /\ Cardinality(RowsOfIn(report, s)) <= Cardinality(RowsOfIn(new, s))
  BY <1>4, RowsOfGrow
<1> QED
  BY <1>1, <1>2, <1>3, <1>5

\* Steps that leave the stored counts alone.
LEMMA InvKept ==
    ASSUME Inv, Table(report)', Grows(report, report'), OtherRows', submitted' = submitted, Handlers'
    PROVE  Inv'
BY CountsStay DEF Inv

-----------------------------------------------------------------------------
(* Handlers *)

LEMMA OtherRowsStay ==
    ASSUME OtherRows, UNCHANGED <<project, milestone, submitted, job, marks>>
    PROVE  OtherRows'
BY DEF OtherRows

LEMMA InvBegin ==
    ASSUME Inv, scope' = scope, NEW r \in Request, NEW op, NEW step \in Steps, NEW a,
           Placed(step, a, report), Begin(r, op, step, a)
    PROVE  Inv'
<1>1. Table(report)' /\ Grows(report, report')
  BY SameTable DEF Begin, Inv
<1>2. Placed(step, a, report')
  BY <1>1, PlacedStays
<1>3. Handlers'
  BY <1>1, <1>2, HandlersMove DEF Begin, Inv
<1>4. OtherRows'
  BY OtherRowsStay DEF Begin, Inv
<1> QED
  BY <1>1, <1>3, <1>4, InvKept DEF Begin

LEMMA StoredRow ==
    ASSUME Inv, NEW i \in Reports
    PROVE  /\ i \in ReportId /\ i \in RowsIn(report) /\ report[i] \in Report
           /\ report[i].student \in Student /\ report[i].teacher \in Teacher
           /\ report[i].status \in ReportStatus
           /\ report[i].deadline \in Milestone \cup {NoMilestone} /\ report[i].text \in 0 .. MaxEdits
BY RowsAreReports DEF Inv, Table, Reports, Report

LEMMA InvArrive ==
    ASSUME Inv, scope' = scope, NEW r \in Request, Arrive(r)
    PROVE  Inv'
<1>1. ASSUME NEW s \in Student, NEW m \in Milestone \cup {NoMilestone}, CreateCheck(r, s, m)
      PROVE  Inv'
  <2> DEFINE a == [op |-> "create", student |-> s, teacher |-> project[s].teacher, deadline |-> m]
  <2>0. project[s].teacher \in Teacher
    BY <1>1 DEF CreateCheck, Inv, OtherRows, Project
  <2>1. Placed("exists", a, report) /\ "exists" \in Steps
    BY <2>0 DEF Placed, CreateArg, Steps
  <2> QED
    BY <1>1, <2>1, InvBegin DEF CreateCheck
<1>2. ASSUME NEW i \in Reports, UpdateRead(r, i)
      PROVE  Inv'
  <2> DEFINE a == [op |-> "update", id |-> i, student |-> report[i].student,
                   status |-> report[i].status]
  <2>1. Placed("update", a, report) /\ "update" \in Steps
    BY StoredRow DEF Placed, UpdateArg, Steps
  <2> QED
    BY <1>2, <2>1, InvBegin DEF UpdateRead
<1>3. ASSUME NEW i \in Reports, ArchiveRead(r, i)
      PROVE  Inv'
  <2> DEFINE a == [op |-> "archive", id |-> i, status |-> "ARCHIVED"]
  <2>1. Placed("decide", a, report) /\ "decide" \in Steps
    BY StoredRow DEF Placed, ReviewArg, Steps, ReportStatus
  <2> QED
    BY <1>3, <2>1, InvBegin DEF ArchiveRead
<1>4. ASSUME NEW i \in Reports, NEW role \in {"TEACHER", "SECRETARY"},
             NEW sent \in Sent, ReviewCheck(r, i, role, sent)
      PROVE  Inv'
  <2> DEFINE step   == IF sent = "none" THEN "look" ELSE "decide"
             status == IF sent = "none" THEN report[i].status ELSE Verdict(role, sent)
  <2>1. status \in ReportStatus
    BY StoredRow DEF Verdict, Sent, ReportStatus
  <2>2. step \in {"look", "decide"}
    OBVIOUS
  <2>3. Begin(r, "review", step, [op |-> "review", id |-> i, status |-> status])
    BY <1>4 DEF ReviewCheck
  <2> HIDE DEF step, status
  <2> DEFINE a == [op |-> "review", id |-> i, status |-> status]
  <2>4. Placed(step, a, report) /\ step \in Steps
    BY <2>1, <2>2, StoredRow DEF Placed, ReviewArg, Steps
  <2> QED
    BY <2>3, <2>4, InvBegin
<1> QED
  BY <1>1, <1>2, <1>3, <1>4 DEF Arrive

LEMMA InvProceed ==
    ASSUME Inv, scope' = scope, NEW r \in Request, Proceed(r)
    PROVE  Inv'
<1>p. Table(report) /\ OtherRows /\ Handlers /\ Placed(pc[r], arg[r], report) /\ r \in DOMAIN arg
  BY DEF Inv, Handlers
<1>1. CASE CreateLook(r)
  <2>1. Table(report)' /\ Grows(report, report')
    BY <1>p, <1>1, SameTable DEF CreateLook
  <2>2. OtherRows'
    BY <1>p, <1>1, OtherRowsStay DEF CreateLook
  <2>3. Placed("insert", arg[r], report') /\ "insert" \in Steps
    BY <1>p, <1>1 DEF CreateLook, Placed, Steps
  <2>4. arg' = [arg EXCEPT ![r] = arg[r]]
    BY <1>p, <1>1 DEF CreateLook, Handlers
  <2>5. Handlers'
    BY <1>p, <1>1, <2>1, <2>3, <2>4, HandlersMove DEF CreateLook, Go
  <2> QED
    BY <1>1, <2>1, <2>2, <2>5, InvKept DEF CreateLook
<1>2. CASE Insert(r)
  <2> DEFINE a   == arg[r]
             row == NewRow(a.student, a.teacher, a.deadline, "PENDING")
  <2>1. a \in CreateArg
    BY <1>p, <1>2 DEF Insert, Placed
  <2>2. row \in Report /\ row.student = a.student /\ row.deadline = a.deadline
    BY <2>1, ReportAssumption DEF CreateArg, NewRow, Report, ReportStatus
  <2>3. PICK i \in Fresh(1) : report' = [report EXCEPT ![i] = row]
    BY <1>2 DEF Insert
  <2>4. row.deadline # NoMilestone => ~HasRow(row.student, row.deadline)
    BY <1>2, <2>2 DEF Insert
  <2> HIDE DEF row
  <2>5. Table(report') /\ Grows(report, report')
    BY <1>p, <2>2, <2>3, <2>4, InsertTable DEF Handlers
  <2>6. Table(report)'
    BY <2>5 DEF Table, Compact, OneEach, RowsIn
  <2>7. OtherRows'
    BY <1>p, <1>2, OtherRowsStay DEF Insert
  <2>8. Placed("count", a, report') /\ "count" \in Steps
    BY <2>1 DEF Placed, Steps, CreateArg
  <2>9. arg' = [arg EXCEPT ![r] = a]
    BY <1>p, <1>2 DEF Insert, Handlers
  <2>10. Handlers'
    BY <1>p, <1>2, <2>5, <2>8, <2>9, HandlersMove DEF Insert, Go
  <2> QED
    BY <1>2, <2>5, <2>6, <2>7, <2>10, InvKept DEF Insert
<1>3. CASE Count(r)
  <2> DEFINE s == arg[r].student
             n == CountRows(s)
             a == [op |-> "count", student |-> s, count |-> n]
  <2>1. Table(report)' /\ Grows(report, report')
    BY <1>p, <1>3, SameTable DEF Count
  <2>2. OtherRows'
    BY <1>p, <1>3, OtherRowsStay DEF Count
  <2>3. s \in Student
    BY <1>p, <1>3 DEF Count, Placed
  <2>4. n = Cardinality(RowsOfIn(report, s)) /\ n \in Nat
    <3>1. RowsOfIn(report, s) \in SUBSET ReportId
      BY DEF RowsOfIn, RowsIn
    <3> QED
      BY <3>1, RowsFinite, RowsAreReports DEF CountRows
  <2>5. arg' = [arg EXCEPT ![r] = a]
    BY <1>3 DEF Count
  <2> HIDE DEF n
  <2>6. Placed("store", a, report) /\ "store" \in Steps
    BY <2>3, <2>4 DEF Placed, Steps, CountArg
  <2>7. Placed("store", a, report')
    BY <2>1, <2>6, PlacedStays
  <2>8. Handlers'
    BY <1>p, <1>3, <2>1, <2>5, <2>6, <2>7, HandlersMove DEF Count, Go
  <2> QED
    BY <1>3, <2>1, <2>2, <2>8, InvKept DEF Count
<1>4. CASE StoreCount(r)
  <2> DEFINE s == arg[r].student
             n == arg[r].count
  <2>1. s \in Student /\ n \in Nat /\ n <= Cardinality(RowsOf(s))
    BY <1>p, <1>4, RowsAreReports DEF StoreCount, Placed, CountArg
  <2>2. submitted' = [submitted EXCEPT ![s] = IF @ = NoRow THEN NoRow ELSE n] /\ report' = report
    BY <1>4 DEF StoreCount
  <2>3. Table(report)' /\ Grows(report, report')
    BY <1>p, <2>2, SameTable
  <2>4. Handlers'
    BY <1>p, <1>4, <2>3, HandlersEnd DEF StoreCount
  <2> HIDE DEF s, n
  <2>5. OtherRows'
    <3>1. submitted' \in [Student -> Nat \cup {NoRow}]
      BY <1>p, <2>1, <2>2 DEF OtherRows
    <3>2. UNCHANGED <<project, milestone, job, marks>>
      BY <1>4 DEF StoreCount
    <3> QED
      BY <1>p, <3>1, <3>2 DEF OtherRows
  <2>6. CountNeverAhead'
    <3>1. \A t : RowsOf(t)' = RowsOf(t)
      BY <2>2 DEF RowsOf, Reports
    <3>2. \A t \in Student : submitted'[t] = IF t # s THEN submitted[t]
                                            ELSE IF submitted[t] = NoRow THEN NoRow ELSE n
      BY <1>p, <2>1, <2>2 DEF OtherRows
    <3>3. CountNeverAhead
      BY DEF Inv
    <3> QED
      BY <2>1, <3>1, <3>2, <3>3 DEF CountNeverAhead
  <2> QED
    BY <2>3, <2>4, <2>5, <2>6 DEF Inv
<1>5. CASE UpdateWrite(r)
  <2> DEFINE a   == arg[r]
             new == [report EXCEPT ![a.id].text = IF @ < MaxEdits THEN @ + 1 ELSE @,
                                   ![a.id].status = IF a.status = "REVISION_REQUESTED"
                                                    THEN "PENDING_TEACHER" ELSE @]
  <2>1. a \in UpdateArg /\ a.id \in Reports
    BY <1>p, <1>5, RowsAreReports DEF UpdateWrite, Placed
  <2>2. report' = new
    BY <1>5 DEF UpdateWrite
  <2>3. a.id \in ReportId /\ report[a.id] \in Report
    BY <2>1, StoredRow
  <2>4. /\ new[a.id] \in Report
        /\ new[a.id].student = report[a.id].student /\ new[a.id].deadline = report[a.id].deadline
    <3> DEFINE row    == report[a.id]
               text   == IF row.text < MaxEdits THEN row.text + 1 ELSE row.text
               status == IF a.status = "REVISION_REQUESTED" THEN "PENDING_TEACHER" ELSE row.status
    <3>1. text \in 0 .. MaxEdits /\ status \in ReportStatus
      BY <2>3, ReportAssumption DEF Report, ReportStatus
    <3>2. new[a.id] = [row EXCEPT !.text = text, !.status = status]
      BY <1>p, <2>3 DEF Table
    <3> HIDE DEF text, status, new
    <3> QED
      BY <2>3, <3>1, <3>2 DEF Report
  <2>5. \A i \in ReportId \ {a.id} : new[i] = report[i]
    BY <1>p DEF Table
  <2>6. DOMAIN new = ReportId /\ new = [i \in ReportId |-> new[i]]
    BY <1>p DEF Table
  <2> HIDE DEF new
  <2>7. Table(new) /\ Grows(report, new)
    BY <1>p, <2>1, <2>3, <2>4, <2>5, <2>6, EditTable
  <2>8. Table(report)' /\ Grows(report, report')
    BY <2>2, <2>7 DEF Table, Compact, OneEach, RowsIn
  <2>9. OtherRows'
    BY <1>p, <1>5, OtherRowsStay DEF UpdateWrite
  <2>10. Placed("count", a, report') /\ "count" \in Steps
    BY <2>1 DEF Placed, Steps, UpdateArg
  <2>11. arg' = [arg EXCEPT ![r] = a]
    BY <1>p, <1>5 DEF UpdateWrite, Handlers
  <2>12. Handlers'
    BY <1>p, <1>5, <2>8, <2>10, <2>11, HandlersMove DEF UpdateWrite, Go
  <2> QED
    BY <1>5, <2>8, <2>9, <2>12, InvKept DEF UpdateWrite
<1>6. CASE ReviewLook(r)
  <2> DEFINE a == [arg[r] EXCEPT !.status = report[arg[r].id].status]
  <2>1. Table(report)' /\ Grows(report, report')
    BY <1>p, <1>6, SameTable DEF ReviewLook
  <2>2. OtherRows'
    BY <1>p, <1>6, OtherRowsStay DEF ReviewLook
  <2>3. arg[r] \in ReviewArg /\ arg[r].id \in Reports
    BY <1>p, <1>6, RowsAreReports DEF ReviewLook, Placed
  <2>4. report[arg[r].id].status \in ReportStatus
    BY <2>3, StoredRow
  <2>5. a \in ReviewArg /\ a.id = arg[r].id
    BY <2>3, <2>4 DEF ReviewArg
  <2>6. arg' = [arg EXCEPT ![r] = a]
    BY <1>p, <1>6 DEF ReviewLook
  <2> HIDE DEF a
  <2>7. Placed("decide", a, report) /\ "decide" \in Steps
    BY <2>3, <2>5, RowsAreReports DEF Placed, Steps
  <2>8. Placed("decide", a, report')
    BY <2>1, <2>7, PlacedStays
  <2>9. Handlers'
    BY <1>p, <1>6, <2>1, <2>6, <2>7, <2>8, HandlersMove DEF ReviewLook, Go
  <2> QED
    BY <1>6, <2>1, <2>2, <2>9, InvKept DEF ReviewLook
<1>7. CASE Decide(r)
  <2> DEFINE a   == arg[r]
             new == [report EXCEPT ![a.id].status = a.status]
  <2>1. a \in ReviewArg /\ a.id \in Reports
    BY <1>p, <1>7, RowsAreReports DEF Decide, Placed
  <2>2. report' = new
    BY <1>7 DEF Decide
  <2>3. a.id \in ReportId /\ report[a.id] \in Report
    BY <2>1, StoredRow
  <2>4. /\ new[a.id] \in Report
        /\ new[a.id].student = report[a.id].student /\ new[a.id].deadline = report[a.id].deadline
    BY <1>p, <2>1, <2>3 DEF Table, Report, ReviewArg
  <2>5. \A i \in ReportId \ {a.id} : new[i] = report[i]
    BY <1>p DEF Table
  <2>6. DOMAIN new = ReportId /\ new = [i \in ReportId |-> new[i]]
    BY <1>p DEF Table
  <2> HIDE DEF new
  <2>7. Table(new) /\ Grows(report, new)
    BY <1>p, <2>1, <2>3, <2>4, <2>5, <2>6, EditTable
  <2>8. Table(report)' /\ Grows(report, report')
    BY <2>2, <2>7 DEF Table, Compact, OneEach, RowsIn
  <2>9. OtherRows'
    BY <1>p, <1>7, OtherRowsStay DEF Decide
  <2>10. Handlers'
    BY <1>p, <1>7, <2>8, HandlersEnd DEF Decide
  <2> QED
    BY <1>7, <2>8, <2>9, <2>10, InvKept DEF Decide
<1> QED
  BY <1>1, <1>2, <1>3, <1>4, <1>5, <1>6, <1>7 DEF Proceed

-----------------------------------------------------------------------------
(* The job, the clock, milestones and projects *)

\* Rows keep their status and their text.
RowsStand ==
    \A i \in Reports : report'[i].status = report[i].status /\ report'[i].text = report[i].text

\* Steps that are no handler's.
Elsewhere ==
    \/ Job
    \/ \E m \in Milestone :
          \/ Tick(m)
          \/ AddMilestone(m)
          \/ RemoveMilestones(m)
          \/ \E enabled, passed \in BOOLEAN : MoveMilestone(m, enabled, passed)
    \/ \E s \in scope.who, row \in InScope \cup {NoRow} : ProjectChanges(s, row)

LEMMA InvElsewhere ==
    ASSUME Inv, scope' = scope, Elsewhere
    PROVE  Inv' /\ RowsStand
<1>t. Table(report) /\ OtherRows /\ Handlers
  BY DEF Inv
<1>p. ASSUME Table(report)', Grows(report, report'), OtherRows', UNCHANGED <<submitted, pc, arg>>
      PROVE  Inv'
  BY <1>t, <1>p, HandlersStay, InvKept
<1>s. ASSUME report' = report
      PROVE  Table(report)' /\ Grows(report, report') /\ RowsStand
  BY <1>t, <1>s, SameTable DEF RowsStand
<1>1. CASE JobLists
  <2>1. OtherRows' /\ UNCHANGED <<report, submitted, pc, arg>>
    BY <1>t, <1>1 DEF JobLists, OtherRows, Passed, Live
  <2> QED
    BY <1>p, <1>s, <2>1
<1>2. ASSUME NEW m \in Milestone, JobReads(m)
      PROVE  Inv' /\ RowsStand
  <2> DEFINE who     == Lacking(m)
             teacher == [s \in who |-> project[s].teacher]
  <2>1. who \subseteq Student /\ teacher \in [who -> Teacher]
    <3>1. ASSUME NEW s \in who PROVE s \in Student /\ project[s].teacher \in Teacher
      BY <1>t DEF OtherRows, Lacking, Accepted, Project
    <3> QED
      BY <3>1
  <2>2. marks' = [milestone |-> m, teacher |-> teacher]
    BY <1>2 DEF JobReads, Marks
  <2> HIDE DEF who, teacher
  <2>3. marks' \in [milestone : Milestone \cup {NoMilestone}, teacher : [who -> Teacher]]
    BY <2>1, <2>2
  <2>4. OtherRows' /\ UNCHANGED <<report, submitted, pc, arg>>
    BY <1>t, <1>2, <2>1, <2>3 DEF JobReads, OtherRows
  <2> QED
    BY <1>p, <1>s, <2>4
<1>3. CASE JobMarks
  <2> DEFINE m   == marks.milestone
             who == {s \in DOMAIN marks.teacher : ~HasRow(s, m)}
             u   == [s \in who |-> marks.teacher[s]]
  <2>0. PICK all \in SUBSET Student :
            marks \in [milestone : Milestone \cup {NoMilestone}, teacher : [all -> Teacher]]
    BY <1>t DEF OtherRows
  <2>1. m \in Milestone /\ who \in SUBSET Student /\ u \in [who -> Teacher]
    <3>1. m \in Milestone
      BY <1>3 DEF JobMarks, Live
    <3>2. DOMAIN marks.teacher = all /\ \A s \in all : marks.teacher[s] \in Teacher
      BY <2>0
    <3> QED
      BY <3>1, <3>2
  <2>2. PICK f \in [who -> Fresh(Cardinality(who))] :
            /\ \A s, t \in who : f[s] = f[t] => s = t
            /\ report' = [k \in ReportId |->
                  IF \E s \in who : f[s] = k
                  THEN NewRow(CHOOSE s \in who : f[s] = k,
                              marks.teacher[CHOOSE s \in who : f[s] = k], m, "MISSING")
                  ELSE report[k]]
    BY <1>3 DEF JobMarks
  <2>3. \A s \in who : ~HasRow(s, m)
    OBVIOUS
  <2> HIDE DEF who
  <2> DEFINE new == report'
  <2>4. \A s \in who : f[s] \in ReportId
    BY <1>t, FreshAreFree DEF Table, Handlers
  <2>5. ASSUME NEW s \in who
        PROVE  new[f[s]] = MissingRow(s, u[s], m)
    <3>1. (CHOOSE t \in who : f[t] = f[s]) = s
      BY <2>2
    <3>2. new[f[s]] = NewRow(CHOOSE t \in who : f[t] = f[s],
                             marks.teacher[CHOOSE t \in who : f[t] = f[s]], m, "MISSING")
      BY <2>2, <2>4
    <3> QED
      BY <3>1, <3>2 DEF MissingRow
  <2>6. \A k \in ReportId : (\A s \in who : f[s] # k) => new[k] = report[k]
    BY <2>2
  <2>7. DOMAIN new = ReportId /\ new = [k \in ReportId |-> new[k]]
    BY <2>2
  <2>8. Table(new) /\ Grows(report, new)
    <3>1. \A s, t \in who : f[s] = f[t] => s = t
      BY <2>2
    <3>2. scope \in Scopes
      BY <1>t DEF Handlers
    <3> HIDE DEF new, m, u
    <3> QED
      BY <1>t, <2>1, <2>3, <2>5, <2>6, <2>7, <3>1, <3>2, MarksTable
  <2>9. Table(report)' /\ Grows(report, report')
    BY <2>8 DEF Table, Compact, OneEach, RowsIn
  <2>10. OtherRows' /\ UNCHANGED <<submitted, pc, arg>>
    BY <1>t, <1>3, NoMarksType DEF JobMarks, OtherRows
  <2>11. RowsStand
    <3>1. ASSUME NEW i \in Reports PROVE new[i] = report[i]
      <4>1. \A s \in who : f[s] \notin Reports
        BY <1>t, FreshAreFree DEF Table, Handlers
      <4> QED
        BY <2>6, <4>1 DEF Reports
    <3> QED
      BY <3>1 DEF RowsStand
  <2> QED
    BY <1>p, <2>9, <2>10, <2>11
<1>4. CASE JobAborts
  <2>1. OtherRows' /\ UNCHANGED <<report, submitted, pc, arg>>
    BY <1>t, <1>4, NoMarksType DEF JobAborts, OtherRows
  <2> QED
    BY <1>p, <1>s, <2>1
<1>5. ASSUME NEW m \in Milestone, Tick(m)
      PROVE  Inv' /\ RowsStand
  <2>1. UNCHANGED <<report, submitted, pc, arg, project, job, marks>>
    BY <1>5 DEF Tick, SetMilestones
  <2>2. milestone' \in [Milestone -> Deadline \cup {NoMilestone, Gone}]
    BY <1>t, <1>5 DEF Tick, SetMilestones, Live, OtherRows, Deadline
  <2>3. OtherRows'
    BY <1>t, <2>1, <2>2 DEF OtherRows
  <2> QED
    BY <1>p, <1>s, <2>1, <2>3
<1>6. ASSUME NEW m \in Milestone, AddMilestone(m)
      PROVE  Inv' /\ RowsStand
  <2>1. UNCHANGED <<report, submitted, pc, arg, project, job, marks>>
    BY <1>6 DEF AddMilestone, SetMilestones
  <2>2. milestone' \in [Milestone -> Deadline \cup {NoMilestone, Gone}]
    BY <1>t, <1>6 DEF AddMilestone, SetMilestones, OtherRows, Deadline
  <2>3. OtherRows'
    BY <1>t, <2>1, <2>2 DEF OtherRows
  <2> QED
    BY <1>p, <1>s, <2>1, <2>3
<1>7. ASSUME NEW m \in Milestone, NEW enabled \in BOOLEAN, NEW passed \in BOOLEAN,
             MoveMilestone(m, enabled, passed)
      PROVE  Inv' /\ RowsStand
  <2>1. UNCHANGED <<report, submitted, pc, arg, project, job, marks>>
    BY <1>7 DEF MoveMilestone, SetMilestones
  <2>2. milestone' \in [Milestone -> Deadline \cup {NoMilestone, Gone}]
    <3>1. [enabled |-> enabled, passed |-> passed] \in Deadline
      BY DEF Deadline
    <3>2. milestone' = [milestone EXCEPT ![m] = [enabled |-> enabled, passed |-> passed]]
      BY <1>7 DEF MoveMilestone, SetMilestones
    <3> DEFINE row == [enabled |-> enabled, passed |-> passed]
    <3> HIDE DEF row
    <3>3. row \in Deadline /\ milestone' = [milestone EXCEPT ![m] = row]
      BY <3>1, <3>2 DEF row
    <3> QED
      BY <1>t, <3>3 DEF OtherRows
  <2>3. OtherRows'
    BY <1>t, <2>1, <2>2 DEF OtherRows
  <2> QED
    BY <1>p, <1>s, <2>1, <2>3
<1>8. ASSUME NEW m \in Milestone, RemoveMilestones(m)
      PROVE  Inv' /\ RowsStand
  <2> DEFINE new == report'
  <2>1. UNCHANGED <<submitted, pc, arg, project, job, marks>>
    BY <1>8 DEF RemoveMilestones, SetMilestones
  <2>2. milestone' \in [Milestone -> Deadline \cup {NoMilestone, Gone}]
    BY <1>t, <1>8 DEF RemoveMilestones, SetMilestones, OtherRows
  <2>3. OtherRows'
    BY <1>t, <2>1, <2>2 DEF OtherRows
  <2>4. new = [i \in ReportId |->
                 IF i \in Reports /\ report[i].deadline # NoMilestone /\ report[i].deadline >= m
                 THEN [report[i] EXCEPT !.deadline = NoMilestone] ELSE report[i]]
    BY <1>8 DEF RemoveMilestones
  <2>5. DOMAIN new = ReportId /\ new = [i \in ReportId |-> new[i]]
    BY <2>4
  <2>6. ASSUME NEW i \in ReportId
        PROVE  \/ new[i] = report[i]
               \/ /\ i \in Reports /\ new[i] \in Report
                  /\ new[i].student = report[i].student
                  /\ new[i].deadline \in {report[i].deadline, NoMilestone}
                  /\ new[i].status = report[i].status /\ new[i].text = report[i].text
    <3>1. CASE i \in Reports
      <4> DEFINE row == report[i]
      <4>1. row \in Report
        BY <3>1, StoredRow
      <4>2. new[i] = row \/ new[i] = [row EXCEPT !.deadline = NoMilestone]
        BY <2>4
      <4> HIDE DEF new, row
      <4>3. new[i] = row \/ /\ new[i] \in Report
                            /\ new[i].student = row.student
                            /\ new[i].deadline \in {row.deadline, NoMilestone}
                            /\ new[i].status = row.status /\ new[i].text = row.text
        BY <4>1, <4>2 DEF Report
      <4> QED
        BY <3>1, <4>3 DEF row
    <3>2. CASE i \notin Reports
      BY <2>4, <3>2
    <3> QED
      BY <3>1, <3>2
  <2>7. RowsStand
    BY <2>6 DEF RowsStand, Reports
  <2>8. Table(new) /\ Grows(report, new)
    <3> HIDE DEF new
    <3> QED
      BY <1>t, <2>5, <2>6, EditTable
  <2>9. Table(report)' /\ Grows(report, report')
    BY <2>8 DEF Table, Compact, OneEach, RowsIn
  <2> QED
    BY <1>p, <2>1, <2>3, <2>7, <2>9
<1>9. ASSUME NEW s \in scope.who, NEW row \in InScope \cup {NoRow}, ProjectChanges(s, row)
      PROVE  Inv' /\ RowsStand
  <2>1. OtherRows' /\ UNCHANGED <<report, submitted, pc, arg>>
    BY <1>t, <1>9 DEF ProjectChanges, OtherRows, InScope
  <2> QED
    BY <1>p, <1>s, <2>1
<1> QED
  BY <1>1, <1>2, <1>3, <1>4, <1>5, <1>6, <1>7, <1>8, <1>9 DEF Elsewhere, Job

LEMMA InvFail ==
    ASSUME Inv, scope' = scope, NEW r \in Request, Fail(r)
    PROVE  Inv'
<1>1. Table(report)' /\ Grows(report, report')
  BY SameTable DEF Fail, Inv
<1>2. Handlers'
  BY <1>1, HandlersEnd DEF Fail, Inv
<1>3. OtherRows'
  BY OtherRowsStay DEF Fail, Inv
<1> QED
  BY <1>1, <1>2, <1>3, InvKept DEF Fail

LEMMA InvNext == Inv /\ [Next /\ UNCHANGED scope]_vars => Inv'
<1> SUFFICES ASSUME Inv, [Next /\ UNCHANGED scope]_vars PROVE Inv'
  OBVIOUS
<1>1. CASE UNCHANGED vars
  <2>1. Table(report)' /\ Grows(report, report')
    BY <1>1, SameTable DEF vars, Inv
  <2>2. Handlers' /\ OtherRows'
    BY <1>1, <2>1, HandlersStay, OtherRowsStay DEF vars, Inv
  <2> QED
    BY <1>1, <2>1, <2>2, InvKept DEF vars
<1>2. CASE Next /\ UNCHANGED scope
  <2>1. ASSUME NEW r \in Request, Arrive(r) \/ Proceed(r) \/ Fail(r)
        PROVE  Inv'
    BY <1>2, <2>1, InvArrive, InvProceed, InvFail
  <2>2. CASE Elsewhere
    BY <1>2, <2>2, InvElsewhere
  <2> QED
    BY <1>2, <2>1, <2>2 DEF Next, Elsewhere
<1> QED
  BY <1>1, <1>2

\* Whatever overlaps: rows and handlers keep their types and no student gets two reports of
\* one milestone, from the job or from himself (createReport, markMissingReports).
THEOREM TypeCorrect == Spec => []TypeOK
<1>1. Init => Inv
  BY InvInit
<1>2. Inv /\ [Next /\ UNCHANGED scope]_vars => Inv'
  BY InvNext
<1>3. Inv => TypeOK
  BY InvMeansType
<1> QED
  BY <1>1, <1>2, <1>3, PTL DEF Spec

\* Whatever overlaps: a recount that comes late writes a count that is too small and never
\* one that is too large (updateStudentReportCount).
THEOREM CountsNeverAhead == Spec => []CountNeverAhead
<1>1. Init => Inv
  BY InvInit
<1>2. Inv /\ [Next /\ UNCHANGED scope]_vars => Inv'
  BY InvNext
<1>3. Inv => CountNeverAhead
  BY DEF Inv
<1> QED
  BY <1>1, <1>2, <1>3, PTL DEF Spec

-----------------------------------------------------------------------------
(* What the lists and boards show *)

\* A sum of counts, none of which exceeds the size of a set of its own, is no more than
\* these sets have together: the k-th pair of an owner goes to the k-th element of what
\* he has.
LEMMA AddedBound ==
    ASSUME NEW owners, NEW n, NEW has, NEW all, IsFiniteSet(all),
           \A q \in owners : /\ n[q] \in Nat /\ n[q] <= Cardinality(has[q])
                             /\ has[q] \subseteq all,
           \A p, q \in owners : p # q => has[p] \cap has[q] = {}
    PROVE  Added(n, owners) <= Cardinality(all)
<1> DEFINE pairs  == UNION {{q} \X (1 .. n[q]) : q \in owners}
           number == [q \in owners |-> CHOOSE f : f \in Bijection(1 .. Cardinality(has[q]), has[q])]
           nth    == [p \in pairs |-> number[p[1]][p[2]]]
<1>1. ASSUME NEW q \in owners
      PROVE  /\ \A i \in 1 .. n[q] : number[q][i] \in has[q]
             /\ \A i, j \in 1 .. n[q] : number[q][i] = number[q][j] => i = j
  <2>1. IsFiniteSet(has[q])
    BY FS_Subset
  <2>2. ExistsBijection(1 .. Cardinality(has[q]), has[q]) /\ Cardinality(has[q]) \in Nat
    BY <2>1, FS_CardinalityType
  <2>3. number[q] \in Bijection(1 .. Cardinality(has[q]), has[q])
    BY <2>2 DEF ExistsBijection
  <2>4. 1 .. n[q] \subseteq 1 .. Cardinality(has[q])
    BY <2>2
  <2>5. /\ number[q] \in [1 .. Cardinality(has[q]) -> has[q]]
        /\ \A i, j \in 1 .. Cardinality(has[q]) : number[q][i] = number[q][j] => i = j
    BY <2>3 DEF Bijection, Injection, IsInjective
  <2> QED
    BY <2>4, <2>5
<1> HIDE DEF number
<1>2. \A p \in pairs : p[1] \in owners /\ p[2] \in 1 .. n[p[1]] /\ p = <<p[1], p[2]>>
  OBVIOUS
<1>3. nth \in [pairs -> all]
  BY <1>1, <1>2
<1>4. ASSUME NEW p \in pairs, NEW r \in pairs, nth[p] = nth[r]
      PROVE  p = r
  <2>1. nth[p] = number[p[1]][p[2]] /\ nth[r] = number[r[1]][r[2]]
    OBVIOUS
  <2>2. nth[p] \in has[p[1]] /\ nth[r] \in has[r[1]]
    BY <1>1, <1>2, <2>1
  <2>3. p[1] = r[1]
    BY <1>2, <1>4, <2>2
  <2> QED
    BY <1>1, <1>2, <1>4, <2>1, <2>3
<1> HIDE DEF nth
<1>5. nth \in Injection(pairs, all)
  BY <1>3, <1>4 DEF Injection, IsInjective
<1>6. Cardinality(pairs) <= Cardinality(all)
  BY <1>5, FS_Injection
<1> QED
  BY <1>6 DEF Added

\* A sum of the sizes of sets that share nothing is the size of their union: the k-th
\* pair of an owner goes to the k-th element of what he has.
LEMMA AddedUp ==
    ASSUME NEW owners, NEW n, NEW has, NEW all, IsFiniteSet(all),
           all = UNION {has[q] : q \in owners},
           \A q \in owners : n[q] = Cardinality(has[q]),
           \A p, q \in owners : p # q => has[p] \cap has[q] = {}
    PROVE  Added(n, owners) = Cardinality(all)
<1> DEFINE pairs  == UNION {{q} \X (1 .. n[q]) : q \in owners}
           number == [q \in owners |-> CHOOSE f : f \in Bijection(1 .. n[q], has[q])]
           nth    == [p \in pairs |-> number[p[1]][p[2]]]
<1>1. \A q \in owners : has[q] \subseteq all
  OBVIOUS
<1>2. ASSUME NEW q \in owners
      PROVE  /\ \A i \in 1 .. n[q] : number[q][i] \in has[q]
             /\ \A i, j \in 1 .. n[q] : number[q][i] = number[q][j] => i = j
             /\ \A x \in has[q] : \E i \in 1 .. n[q] : number[q][i] = x
  <2>1. IsFiniteSet(has[q])
    BY <1>1, FS_Subset
  <2>2. ExistsBijection(1 .. n[q], has[q])
    BY <2>1, FS_CardinalityType
  <2>3. number[q] \in Bijection(1 .. n[q], has[q])
    BY <2>2 DEF ExistsBijection
  <2> QED
    BY <2>3 DEF Bijection, Injection, IsInjective, Surjection
<1> HIDE DEF number
<1>3. \A p \in pairs : p[1] \in owners /\ p[2] \in 1 .. n[p[1]] /\ p = <<p[1], p[2]>>
  OBVIOUS
<1>4. nth \in [pairs -> all]
  <2>1. \A p \in pairs : number[p[1]][p[2]] \in all
    BY <1>1, <1>2, <1>3
  <2> QED
    BY <2>1
<1>5. ASSUME NEW p \in pairs, NEW r \in pairs, nth[p] = nth[r]
      PROVE  p = r
  <2>1. nth[p] = number[p[1]][p[2]] /\ nth[r] = number[r[1]][r[2]]
    OBVIOUS
  <2>2. nth[p] \in has[p[1]] /\ nth[r] \in has[r[1]]
    BY <1>2, <1>3, <2>1
  <2>3. p[1] = r[1]
    BY <1>3, <1>5, <2>2
  <2> QED
    BY <1>2, <1>3, <1>5, <2>1, <2>3
<1>6. ASSUME NEW x \in all
      PROVE  \E p \in pairs : nth[p] = x
  <2>1. PICK q \in owners : x \in has[q]
    OBVIOUS
  <2>2. PICK i \in 1 .. n[q] : number[q][i] = x
    BY <1>2, <2>1
  <2>3. <<q, i>> \in pairs
    BY <2>2
  <2> QED
    BY <2>2, <2>3
<1> HIDE DEF nth
<1>7. nth \in Injection(pairs, all) /\ nth \in Surjection(pairs, all)
  BY <1>4, <1>5, <1>6 DEF Injection, IsInjective, Surjection
<1>8. Cardinality(pairs) = Cardinality(all)
  BY <1>7, FS_Injection
<1> QED
  BY <1>8 DEF Added

\* A board counts the reports of a set of teachers with some statuses.
LEMMA CountedFinite ==
    ASSUME NEW F, NEW X
    PROVE  IsFiniteSet(Of(F, X)) /\ Counted(F, X) \in Nat
<1>1. Of(F, X) \in SUBSET ReportId
  BY DEF Of, Reports
<1> QED
  BY <1>1, RowsFinite DEF Counted

LEMMA CountedApart ==
    ASSUME NEW S, IsFiniteSet(S), NEW T, IsFiniteSet(T), S \cap T = {}
    PROVE  Cardinality(S \cup T) = Cardinality(S) + Cardinality(T)
<1>1. Cardinality(S) \in Nat /\ Cardinality(T) \in Nat /\ Cardinality(S \cap T) = 0
  BY FS_CardinalityType, FS_EmptySet
<1>2. Cardinality(S \cup T) = Cardinality(S) + Cardinality(T) - Cardinality(S \cap T)
  BY FS_Union
<1> QED
  BY <1>1, <1>2

LEMMA CountedByStatus ==
    ASSUME NEW F, NEW X, NEW Y, X \cap Y = {}
    PROVE  Counted(F, X \cup Y) = Counted(F, X) + Counted(F, Y)
<1> DEFINE S == Of(F, X)
           T == Of(F, Y)
<1>1. Of(F, X \cup Y) = S \cup T /\ S \cap T = {}
  BY DEF Of
<1>2. IsFiniteSet(S) /\ IsFiniteSet(T)
  BY CountedFinite
<1>3. /\ Counted(F, X) = Cardinality(S) /\ Counted(F, Y) = Cardinality(T)
      /\ Counted(F, X \cup Y) = Cardinality(S \cup T)
  BY <1>1 DEF Counted
<1> HIDE DEF S, T
<1>4. Cardinality(S \cup T) = Cardinality(S) + Cardinality(T)
  BY <1>1, <1>2, CountedApart
<1> QED
  BY <1>3, <1>4

\* Reports that belong to one of several owners or to none of them: the sum of the owners'
\* counts and the rest are all of them.
LEMMA SharedOut ==
    ASSUME NEW owners, NEW n, NEW has, NEW out, NEW all, IsFiniteSet(all),
           \A i \in all : i \in out \/ \E q \in owners : i \in has[q],
           out \subseteq all,
           \A q \in owners :
              n[q] = Cardinality(has[q]) /\ has[q] \cap out = {} /\ has[q] \subseteq all,
           \A p, q \in owners : p # q => has[p] \cap has[q] = {}
    PROVE  Added(n, owners) + Cardinality(out) = Cardinality(all)
<1> DEFINE owned == UNION {has[q] : q \in owners}
<1>1. all \subseteq owned \cup out
  OBVIOUS
<1>2. owned \subseteq all
  OBVIOUS
<1>3. owned \cap out = {}
  <2>1. ASSUME NEW i \in owned, i \in out
        PROVE  FALSE
    <3>1. PICK q \in owners : i \in has[q]
      OBVIOUS
    <3>2. has[q] \cap out = {}
      OBVIOUS
    <3> QED
      BY <2>1, <3>1, <3>2
  <2> QED
    BY <2>1
<1>4. IsFiniteSet(owned) /\ IsFiniteSet(out)
  <2>1. owned \in SUBSET all /\ out \in SUBSET all
    BY <1>2
  <2> QED
    BY <2>1, FS_Subset
<1>5. \A q \in owners : n[q] = Cardinality(has[q])
  OBVIOUS
<1>6. Added(n, owners) = Cardinality(owned)
  BY <1>4, <1>5, AddedUp
<1> HIDE DEF owned
<1>7. Cardinality(owned \cup out) = Cardinality(owned) + Cardinality(out)
  BY <1>3, <1>4, CountedApart
<1>8. all = owned \cup out
  BY <1>1, <1>2
<1> QED
  BY <1>6, <1>7, <1>8

\* The teachers on the boards of the faculties, and those on none.
LEMMA StaffShared ==
    ASSUME NEW roster \in Rosters(Teacher)
    PROVE  /\ \A f, g \in Faculty : f # g => Staff(roster, f) \cap Staff(roster, g) = {}
           /\ \A f \in Faculty : Staff(roster, f) \cap Outside(roster) = {}
           /\ Outside(roster) \subseteq Teacher
           /\ \A f \in Faculty : Staff(roster, f) \subseteq Teacher
<1>1. \A f, g \in Faculty : f # g => Staff(roster, f) \cap Staff(roster, g) = {}
  BY DEF Staff, TeachersOf
<1>2. \A f \in Faculty : Staff(roster, f) \cap Outside(roster) = {}
  BY DEF Outside
<1>3. DOMAIN roster.faculty = Teacher
  BY DEF Rosters
<1>4. Outside(roster) \subseteq Teacher /\ \A f \in Faculty : Staff(roster, f) \subseteq Teacher
  BY <1>3 DEF Outside, Staff, TeachersOf
<1> QED
  BY <1>1, <1>2, <1>4

LEMMA StaffCover ==
    ASSUME NEW roster \in Rosters(Teacher), NEW u \in Teacher, u \notin Outside(roster)
    PROVE  \E f \in Faculty : u \in Staff(roster, f)
  BY DEF Outside, Rosters

LEMMA CountedByFaculty ==
    ASSUME TypeOK, NEW roster \in Rosters(Teacher), NEW X, NEW n,
           \A f \in Faculty : n[f] = Counted(Staff(roster, f), X)
    PROVE  Added(n, Faculty) + Counted(Outside(roster), X) = Counted(Teacher, X)
<1> DEFINE has == [f \in Faculty |-> Of(Staff(roster, f), X)]
           out == Of(Outside(roster), X)
           all == Of(Teacher, X)
<1>1. /\ \A f \in Faculty : n[f] = Cardinality(has[f])
      /\ Counted(Outside(roster), X) = Cardinality(out) /\ Counted(Teacher, X) = Cardinality(all)
  BY DEF Counted
<1>2. IsFiniteSet(all)
  BY CountedFinite
<1>3. /\ \A f \in Faculty : has[f] \cap out = {}
      /\ \A f, g \in Faculty : f # g => has[f] \cap has[g] = {}
  BY StaffShared DEF Of
<1>4. out \subseteq all /\ \A f \in Faculty : has[f] \subseteq all
  BY StaffShared DEF Of
<1>5. ASSUME NEW i \in all
      PROVE  i \in out \/ \E f \in Faculty : i \in has[f]
  <2>1. report[i].teacher \in Teacher
    BY DEF Of
  <2>2. CASE report[i].teacher \in Outside(roster)
    BY <2>2 DEF Of
  <2>3. CASE report[i].teacher \notin Outside(roster)
    <3>1. PICK f \in Faculty : report[i].teacher \in Staff(roster, f)
      BY <2>1, <2>3, StaffCover
    <3> QED
      BY <3>1 DEF Of
  <2> QED
    BY <2>2, <2>3
<1> HIDE DEF has, out, all
<1>6. Added(n, Faculty) + Cardinality(out) = Cardinality(all)
  BY <1>1, <1>2, <1>3, <1>4, <1>5, SharedOut
<1> QED
  BY <1>1, <1>6

\* The reports of students.
LEMMA StudentsFinite ==
    ASSUME NEW S, NEW X
    PROVE  IsFiniteSet(OfStudents(S, X))
<1>1. OfStudents(S, X) \in SUBSET ReportId
  BY DEF OfStudents, Reports
<1> QED
  BY <1>1, RowsFinite

LEMMA AllReports == ASSUME TypeOK, NEW X PROVE OfStudents(Student, X) = Of(Teacher, X)
  BY DEF TypeOK, Report, OfStudents, Of, Reports

LEMMA StudentsByFaculty ==
    ASSUME TypeOK, NEW roster \in Rosters(Teacher), NEW X, NEW n, NEW none,
           none = {s \in Student : \A f \in Faculty : s \notin FacultyStudents(roster, f)},
           \A f \in Faculty : n[f] = Cardinality(OfStudents(FacultyStudents(roster, f), X))
    PROVE  Added(n, Faculty) + Cardinality(OfStudents(none, X)) = Counted(Teacher, X)
<1> DEFINE has == [f \in Faculty |-> OfStudents(FacultyStudents(roster, f), X)]
           out == OfStudents(none, X)
           all == OfStudents(Student, X)
<1>1. \A f \in Faculty : n[f] = Cardinality(has[f])
  OBVIOUS
<1>2. IsFiniteSet(all) /\ Counted(Teacher, X) = Cardinality(all)
  BY StudentsFinite, AllReports DEF Counted
<1>3. \A f, g \in Faculty : f # g => FacultyStudents(roster, f) \cap FacultyStudents(roster, g) = {}
  BY DEF FacultyStudents, TeachersOf
<1>4. /\ \A f \in Faculty : has[f] \cap out = {}
      /\ \A f, g \in Faculty : f # g => has[f] \cap has[g] = {}
  BY <1>3 DEF OfStudents
<1>5. none \subseteq Student /\ \A f \in Faculty : FacultyStudents(roster, f) \subseteq Student
  BY DEF FacultyStudents
<1>6. out \subseteq all /\ \A f \in Faculty : has[f] \subseteq all
  BY <1>5 DEF OfStudents
<1>7. ASSUME NEW i \in all
      PROVE  i \in out \/ \E f \in Faculty : i \in has[f]
  <2>1. report[i].student \in Student
    BY DEF OfStudents
  <2>2. CASE report[i].student \in none
    BY <2>2 DEF OfStudents
  <2>3. CASE report[i].student \notin none
    <3>1. PICK f \in Faculty : report[i].student \in FacultyStudents(roster, f)
      BY <2>1, <2>3
    <3> QED
      BY <3>1 DEF OfStudents
  <2> QED
    BY <2>2, <2>3
<1> HIDE DEF has, out, all
<1>8. Added(n, Faculty) + Cardinality(out) = Cardinality(all)
  BY <1>1, <1>2, <1>4, <1>6, <1>7, SharedOut
<1> QED
  BY <1>2, <1>8 DEF out

\* The boards that add up three statuses.
LEMMA ThreeCounted ==
    ASSUME NEW F
    PROVE  /\ SumOfThree(F) = Counted(F, Three)
           /\ \A x \in Three : ThreeReports(F)[x] = Counted(F, {x})
<1> DEFINE P == {"PENDING"}
           A == {"APPROVED"}
           R == {"REJECTED"}
<1>1. P \cap A = {} /\ (P \cup A) \cap R = {} /\ (P \cup A) \cup R = Three
  BY DEF Three
<1>2. SumOfThree(F) = Counted(F, P) + Counted(F, A) + Counted(F, R)
  BY DEF SumOfThree, ThreeReports, Three
<1>3. \A x \in Three : ThreeReports(F)[x] = Counted(F, {x})
  BY DEF ThreeReports
<1> HIDE DEF P, A, R
<1>4. Counted(F, P \cup A) = Counted(F, P) + Counted(F, A)
  BY <1>1, CountedByStatus
<1>5. Counted(F, (P \cup A) \cup R) = Counted(F, P \cup A) + Counted(F, R)
  BY <1>1, CountedByStatus
<1> QED
  BY <1>1, <1>2, <1>3, <1>4, <1>5

LEMMA ListsMatch == TypeOK => ListsMatchReviews
<1> SUFFICES ASSUME TypeOK
             PROVE  ListsMatchReviews
  OBVIOUS
<1>1. Level("TEACHER") \subseteq ReportStatus /\ Level("SECRETARY") = {"APPROVED_BY_TEACHER"}
  BY DEF Level, ReportStatus
<1>2. /\ \A F : ReportList("TEACHER", F, ReportStatus) = Of(F, ReportStatus)
      /\ \A F, X : ReportList("SECRETARY", F, X) = Of(F, {"APPROVED_BY_TEACHER"})
  BY DEF ReportList
<1>3. \A u \in Teacher : Of({u}, Level("TEACHER")) \subseteq ReportList("TEACHER", {u}, ReportStatus)
  BY <1>1, <1>2 DEF Of
<1>4. ReportList("SECRETARY", Teacher, {"PENDING"}) = Of(Teacher, Level("SECRETARY"))
  BY <1>1, <1>2
<1>5. ASSUME NEW roster \in Rosters(Teacher), NEW f \in Faculty
      PROVE  LET list == ReportList("SECRETARY", TeachersOf(roster, f), ReportStatus)
             IN  /\ Of(Staff(roster, f), Level("SECRETARY")) \subseteq list
                 /\ \A i \in list \ Of(Staff(roster, f), Level("SECRETARY")) :
                       report[i].teacher \in roster.removed
  BY <1>1, <1>2 DEF Of, Staff
<1> QED
  BY <1>3, <1>4, <1>5 DEF ListsMatchReviews

LEMMA FacultiesMatch == TypeOK => FacultyReportsAddUp
<1> SUFFICES ASSUME TypeOK, NEW roster \in Rosters(Teacher)
             PROVE
        LET none == {s \in Student : \A f \in Faculty : s \notin FacultyStudents(roster, f)}
        IN  /\ Added([f \in Faculty |-> SecretaryReports(Staff(roster, f)).total], Faculty)
                  + Counted(Outside(roster), Three) = AdminReports.total
            /\ \A x \in Three :
                  Added([f \in Faculty |-> Stats(FacultyStudents(roster, f)).three[x]], Faculty)
                     + Stats(none).three[x] = AdminReports.three[x]
  BY DEF FacultyReportsAddUp
<1> DEFINE none  == {s \in Student : \A f \in Faculty : s \notin FacultyStudents(roster, f)}
           total == [f \in Faculty |-> SecretaryReports(Staff(roster, f)).total]
<1>1. \A f \in Faculty : total[f] = Counted(Staff(roster, f), Three)
  BY ThreeCounted DEF SecretaryReports
<1>2. AdminReports.total = Counted(Teacher, Three) /\ AdminReports.three = ThreeReports(Teacher)
  BY ThreeCounted DEF AdminReports
<1> HIDE DEF total
<1>3. Added(total, Faculty) + Counted(Outside(roster), Three) = AdminReports.total
  BY <1>1, <1>2, CountedByFaculty
<1>4. ASSUME NEW x \in Three
      PROVE  Added([f \in Faculty |-> Stats(FacultyStudents(roster, f)).three[x]], Faculty)
               + Stats(none).three[x] = AdminReports.three[x]
  <2> DEFINE n == [f \in Faculty |-> Stats(FacultyStudents(roster, f)).three[x]]
  <2>1. \A S : Stats(S).three[x] = Cardinality(OfStudents(S, {x}))
    BY DEF Stats
  <2>2. \A f \in Faculty : n[f] = Cardinality(OfStudents(FacultyStudents(roster, f), {x}))
    BY <2>1
  <2> HIDE DEF n, none
  <2>3. Added(n, Faculty) + Cardinality(OfStudents(none, {x})) = Counted(Teacher, {x})
    BY <2>2, StudentsByFaculty DEF none
  <2>4. AdminReports.three[x] = Counted(Teacher, {x})
    BY <1>2, ThreeCounted
  <2> QED
    BY <2>1, <2>3, <2>4 DEF n
<1> QED
  BY <1>3, <1>4 DEF total

\* A teacher's reports that wait for him, teacher by teacher.
LEMMA ByTeacher ==
    ASSUME NEW F, NEW X, NEW n, \A u \in F : n[u] = Cardinality(Of({u}, X))
    PROVE  Added(n, F) = Counted(F, X)
<1> DEFINE has == [u \in F |-> Of({u}, X)]
           all == Of(F, X)
<1>1. IsFiniteSet(all) /\ Counted(F, X) = Cardinality(all)
  BY CountedFinite DEF Counted
<1>2. all = UNION {has[u] : u \in F}
  BY DEF Of
<1>3. \A u \in F : n[u] = Cardinality(has[u])
  OBVIOUS
<1>4. \A u, v \in F : u # v => has[u] \cap has[v] = {}
  BY DEF Of
<1> HIDE DEF has, all
<1>5. Added(n, F) = Cardinality(all)
  BY <1>1, <1>2, <1>3, <1>4, AddedUp
<1> QED
  BY <1>1, <1>5

LEMMA OneFacultyMatches == TypeOK => OneFacultyAgrees
<1> SUFFICES ASSUME TypeOK PROVE OneFacultyAgrees
  OBVIOUS
<1>1. ASSUME NEW F \in SUBSET Teacher
      PROVE  OverdueReports(F)
               = Added([u \in F |-> Cardinality(ReportList("TEACHER", {u}, Level("TEACHER")))], F)
  <2> DEFINE n == [u \in F |-> Cardinality(ReportList("TEACHER", {u}, Level("TEACHER")))]
  <2>1. \A u \in F : n[u] = Cardinality(Of({u}, {"PENDING"}))
    BY DEF ReportList, Level
  <2> HIDE DEF n
  <2>2. Added(n, F) = Counted(F, {"PENDING"})
    BY <2>1, ByTeacher
  <2> QED
    BY <2>2 DEF n, OverdueReports
<1>2. ASSUME NEW F \in SUBSET Teacher
      PROVE  FacultySummary(F).total - SecretaryReports(F).total
               = Counted(F, {"REVISION_REQUESTED", "PENDING_TEACHER", "APPROVED_BY_TEACHER",
                             "ARCHIVED", "MISSING"})
  <2> DEFINE other == {"REVISION_REQUESTED", "PENDING_TEACHER", "APPROVED_BY_TEACHER",
                       "ARCHIVED", "MISSING"}
  <2>1. SecretaryReports(F).total = Counted(F, Three)
    BY ThreeCounted DEF SecretaryReports
  <2>2. FacultySummary(F).total = Counted(F, ReportStatus)
    BY DEF FacultySummary, Counted
  <2>3. Three \cup other = ReportStatus /\ Three \cap other = {}
    BY DEF ReportStatus, Three
  <2> HIDE DEF other
  <2>4. Counted(F, ReportStatus) = Counted(F, Three) + Counted(F, other)
    BY <2>3, CountedByStatus
  <2>5. Counted(F, ReportStatus) - Counted(F, Three) = Counted(F, other)
    <3>1. \A a, b, c : b \in Nat /\ c \in Nat /\ a = b + c => a - b = c
      OBVIOUS
    <3> QED
      BY <2>4, <3>1, CountedFinite
  <2> QED
    BY <2>1, <2>2, <2>5 DEF other
<1>3. ASSUME NEW roster \in Rosters(Teacher), NEW f \in Faculty, Strayed = {}, roster.removed = {}
      PROVE  DetailReports(Staff(roster, f)).pendingApprovals
               = Stats(FacultyStudents(roster, f)).three["PENDING"]
  <2> DEFINE F == TeachersOf(roster, f)
  <2>1. Staff(roster, f) = F
    BY <1>3 DEF Staff
  <2>2. \A i \in Reports : /\ project[report[i].student] # NoRow
                          /\ project[report[i].student].teacher = report[i].teacher
                          /\ report[i].student \in Student
    BY <1>3 DEF Strayed, TypeOK, Report, Reports
  <2>3. Of(F, {"PENDING"}) = OfStudents(FacultyStudents(roster, f), {"PENDING"})
    BY <2>2 DEF Of, OfStudents, FacultyStudents
  <2>4. DetailReports(Staff(roster, f)).pendingApprovals = Cardinality(Of(F, {"PENDING"}))
    BY <2>1 DEF DetailReports, Counted
  <2>5. Stats(FacultyStudents(roster, f)).three["PENDING"]
          = Cardinality(OfStudents(FacultyStudents(roster, f), {"PENDING"}))
    BY DEF Stats, Three
  <2> QED
    BY <2>3, <2>4, <2>5
<1> QED
  BY <1>1, <1>2, <1>3 DEF OneFacultyAgrees

\* The counts of several students, added up, and their reports.
LEMMA StudentsBound ==
    ASSUME TypeOK, CountNeverAhead, NEW S \in SUBSET Student, NEW counted,
           counted = {s \in S : submitted[s] # NoRow}
    PROVE  Added(submitted, counted) <= Cardinality(OfStudents(S, ReportStatus))
<1> DEFINE has == [s \in counted |-> RowsOf(s)]
           all == OfStudents(S, ReportStatus)
<1>1. IsFiniteSet(all)
  BY StudentsFinite
<1>2. ASSUME NEW s \in counted
      PROVE  /\ submitted[s] \in Nat /\ submitted[s] <= Cardinality(has[s])
             /\ has[s] \subseteq all
  <2>1. submitted[s] \in Nat
    BY DEF TypeOK
  <2>2. submitted[s] <= Cardinality(RowsOf(s))
    BY DEF CountNeverAhead
  <2>3. RowsOf(s) \subseteq all
    BY DEF RowsOf, OfStudents, Reports, TypeOK, Report
  <2> QED
    BY <2>1, <2>2, <2>3
<1>3. \A s, u \in counted : s # u => has[s] \cap has[u] = {}
  BY DEF RowsOf
<1> HIDE DEF has, all
<1>4. Added(submitted, counted) <= Cardinality(all)
  BY <1>1, <1>2, <1>3, AddedBound
<1> QED
  BY <1>4 DEF all

LEMMA BoundsHold == TypeOK /\ CountNeverAhead => BoardsBoundCounts
<1> SUFFICES ASSUME TypeOK, CountNeverAhead
             PROVE  BoardsBoundCounts
  OBVIOUS
<1> DEFINE counted(S) == {s \in S : submitted[s] # NoRow}
<1>1. \A S \in SUBSET Student :
         Added(submitted, counted(S)) <= Cardinality(OfStudents(S, ReportStatus))
  BY StudentsBound
<1>2. ASSUME NEW roster \in Rosters(Teacher)
      PROVE  Added(submitted, counted(Student))
               <= Added([f \in Faculty |-> UnitReports(Staff(roster, f))], Faculty)
                     + Counted(Outside(roster), ReportStatus)
  <2> DEFINE n == [f \in Faculty |-> UnitReports(Staff(roster, f))]
             all == counted(Student)
  <2>1. \A f \in Faculty : n[f] = Counted(Staff(roster, f), ReportStatus)
    BY DEF UnitReports
  <2>2. Added(submitted, all) <= Cardinality(OfStudents(Student, ReportStatus))
    BY <1>1
  <2>3. Cardinality(OfStudents(Student, ReportStatus)) = Counted(Teacher, ReportStatus)
    BY AllReports DEF Counted
  <2> HIDE DEF n, all
  <2>4. Added(n, Faculty) + Counted(Outside(roster), ReportStatus) = Counted(Teacher, ReportStatus)
    BY <2>1, CountedByFaculty
  <2>5. Added(submitted, all) <= Added(n, Faculty) + Counted(Outside(roster), ReportStatus)
    BY <2>2, <2>3, <2>4
  <2> QED
    BY <2>5 DEF n, all
<1> QED
  BY <1>1, <1>2 DEF BoardsBoundCounts

\* However handlers, the job and the clock interleave, the counts of the progress rows of
\* any set of students never exceed their reports, a reviewer's list holds what he may
\* decide, and whatever faculty each teacher belongs to, if any, and whoever of them is
\* deleted, the boards of the faculties agree with each other and, together with the reports
\* that went to teachers on none of them, with the administrator's (getReports, getStats and
\* the dashboards).
THEOREM ReportBoardsAddUp == Spec => []ReportsAddUp
<1>1. Init => Inv
  BY InvInit
<1>2. Inv /\ [Next /\ UNCHANGED scope]_vars => Inv'
  BY InvNext
<1>3. Inv => ReportsAddUp
  <2>1. Inv => TypeOK /\ CountNeverAhead
    BY InvMeansType DEF Inv
  <2> QED
    BY <2>1, ListsMatch, FacultiesMatch, OneFacultyMatches, BoundsHold DEF ReportsAddUp
<1> QED
  BY <1>1, <1>2, <1>3, PTL DEF Spec

-----------------------------------------------------------------------------
(* One handler at a time *)

\* Handlers do not overlap; the job and the clock move between their steps all the same.
Serial == \A q, r \in Request : q = r

\* A report that is about to be edited may still be, and one that is about to be decided
\* waits for a review of one of the two levels.
StepsHold ==
    \A r \in Request :
        /\ pc[r] = "update" => Editable(report[arg[r].id].status)
        /\ pc[r] \in {"look", "decide"} => report[arg[r].id].status \in {"PENDING", "APPROVED_BY_TEACHER"}

\* Rows that are left alone, or whose status was open to the change.
LEMMA OneRowMoves ==
    ASSUME NEW i, \A j \in ReportId \ {i} : report'[j] = report[j],
           \/ i \notin Reports
           \/ Editable(report[i].status)
           \/ /\ report[i].status \in {"PENDING", "APPROVED_BY_TEACHER"}
              /\ report'[i].text = report[i].text
    PROVE  TextKept
BY DEF TextKept, Editable, Reports

LEMMA SerialNext ==
    ASSUME Serial
    PROVE  Inv /\ StepsHold /\ [Next /\ UNCHANGED scope]_vars => StepsHold' /\ [TextKept]_vars
<1> SUFFICES ASSUME Inv, StepsHold, [Next /\ UNCHANGED scope]_vars
             PROVE  StepsHold' /\ (TextKept \/ UNCHANGED vars)
  OBVIOUS
<1>p. Table(report) /\ Handlers
  BY DEF Inv
<1>1. CASE UNCHANGED vars
  BY <1>1 DEF vars, StepsHold
<1>2. ASSUME NEW r \in Request, Arrive(r)
      PROVE  StepsHold' /\ TextKept
  <2>1. report' = report
    BY <1>2 DEF Arrive, Begin, CreateCheck, UpdateRead, ArchiveRead, ReviewCheck
  <2>2. TextKept
    BY <2>1 DEF TextKept
  <2>3. ASSUME NEW i \in Reports, UpdateRead(r, i)
        PROVE  StepsHold'
    <3>1. arg'[r].id = i /\ Editable(report[i].status) /\ pc'[r] = "update"
      BY <1>p, <2>3 DEF UpdateRead, Begin, Handlers
    <3> QED
      BY <2>1, <3>1 DEF StepsHold, Serial
  <2>4. ASSUME NEW i \in Reports, ArchiveRead(r, i)
        PROVE  StepsHold'
    <3>1. arg'[r].id = i /\ report[i].status = "APPROVED_BY_TEACHER" /\ pc'[r] = "decide"
      BY <1>p, <2>4 DEF ArchiveRead, Begin, Handlers
    <3> QED
      BY <2>1, <3>1 DEF StepsHold, Serial
  <2>5. ASSUME NEW i \in Reports, NEW role \in {"TEACHER", "SECRETARY"}, NEW sent \in Sent,
               ReviewCheck(r, i, role, sent)
        PROVE  StepsHold'
    <3>1. arg'[r].id = i /\ pc'[r] \in {"look", "decide"}
      BY <1>p, <2>5 DEF ReviewCheck, Begin, Handlers
    <3>2. report[i].status \in {"PENDING", "APPROVED_BY_TEACHER"}
      BY <2>5 DEF ReviewCheck, Level
    <3> QED
      BY <2>1, <3>1, <3>2 DEF StepsHold, Serial
  <2>6. ASSUME NEW s \in Student, NEW m \in Milestone \cup {NoMilestone}, CreateCheck(r, s, m)
        PROVE  StepsHold'
    <3>1. pc'[r] = "exists"
      BY <1>p, <2>6 DEF CreateCheck, Begin, Handlers
    <3> QED
      BY <3>1 DEF StepsHold, Serial
  <2> QED
    BY <1>2, <2>2, <2>3, <2>4, <2>5, <2>6 DEF Arrive
<1>3. ASSUME NEW r \in Request, Proceed(r) \/ Fail(r)
      PROVE  StepsHold' /\ TextKept
  <2>1. CASE ReviewLook(r)
    <3>1. pc'[r] = "decide" /\ pc[r] = "look" /\ report' = report /\ arg'[r].id = arg[r].id
      <4>1. arg[r] \in ReviewArg
        BY <1>p, <2>1 DEF ReviewLook, Handlers, Placed
      <4>2. arg'[r] = [arg[r] EXCEPT !.status = report[arg[r].id].status]
        BY <1>p, <2>1 DEF ReviewLook, Handlers
      <4>3. arg'[r].id = arg[r].id
        BY <4>1, <4>2 DEF ReviewArg
      <4> QED
        BY <1>p, <2>1, <4>3 DEF ReviewLook, Go, Handlers
    <3> QED
      BY <3>1 DEF StepsHold, Serial, TextKept
  <2>2. ASSUME ~ReviewLook(r)
        PROVE  StepsHold'
    <3>1. pc'[r] \notin {"update", "look", "decide"}
      BY <1>p, <1>3, <2>2 DEF Proceed, Fail, Finish, Go, CreateLook, Insert, Count, StoreCount,
                              UpdateWrite, Decide, Handlers
    <3> QED
      BY <3>1 DEF StepsHold, Serial
  <2>3. CASE UpdateWrite(r)
    <3> DEFINE a == arg[r]
    <3>1. a.id \in Reports /\ Editable(report[a.id].status)
      BY <1>p, <2>3, RowsAreReports DEF UpdateWrite, Handlers, Placed, StepsHold
    <3>2. \A i \in ReportId \ {a.id} : report'[i] = report[i]
      BY <1>p, <2>3 DEF UpdateWrite, Table
    <3>3. TextKept
      BY <3>1, <3>2, OneRowMoves
    <3> QED
      BY <2>2, <2>3, <3>3 DEF UpdateWrite, ReviewLook
  <2>4. CASE Decide(r)
    <3> DEFINE a == arg[r]
    <3>1. a.id \in Reports /\ report' = [report EXCEPT ![a.id].status = a.status]
      BY <1>p, <2>4, RowsAreReports DEF Decide, Handlers, Placed
    <3>2. \A i \in ReportId \ {a.id} : report'[i] = report[i]
      BY <1>p, <3>1 DEF Table
    <3>3. report[a.id] \in Report /\ report'[a.id] = [report[a.id] EXCEPT !.status = a.status]
      BY <1>p, <3>1, StoredRow DEF Table
    <3>4. report'[a.id].text = report[a.id].text
      BY <3>3 DEF Report
    <3>5. report[a.id].status \in {"PENDING", "APPROVED_BY_TEACHER"}
      BY <2>4 DEF Decide, StepsHold
    <3> HIDE DEF a
    <3>6. TextKept
      BY <3>2, <3>4, <3>5, OneRowMoves
    <3> QED
      BY <2>2, <2>4, <3>6 DEF Decide, ReviewLook
  <2>5. CASE Insert(r)
    <3> DEFINE row == NewRow(arg[r].student, arg[r].teacher, arg[r].deadline, "PENDING")
    <3>1. PICK i \in Fresh(1) : report' = [report EXCEPT ![i] = row]
      BY <2>5 DEF Insert
    <3>2. i \in ReportId /\ i \notin Reports
      BY <1>p, FreshAreFree DEF Table, Handlers
    <3>3. \A j \in ReportId \ {i} : report'[j] = report[j]
      BY <1>p, <3>1 DEF Table
    <3>4. TextKept
      BY <3>2, <3>3, OneRowMoves
    <3> QED
      BY <2>2, <2>5, <3>4 DEF Insert, ReviewLook
  <2>6. CASE ~UpdateWrite(r) /\ ~Decide(r) /\ ~Insert(r)
    <3>1. report' = report
      BY <1>3, <2>6 DEF Proceed, Fail, CreateLook, Count, StoreCount, ReviewLook
    <3>2. TextKept
      BY <3>1 DEF TextKept
    <3> QED
      BY <2>1, <2>2, <3>2
  <2> QED
    BY <2>3, <2>4, <2>5, <2>6
<1>4. CASE Elsewhere /\ scope' = scope
  <2>1. RowsStand
    BY <1>4, InvElsewhere
  <2>2. UNCHANGED <<pc, arg>>
    BY <1>4 DEF Elsewhere, Job, JobLists, JobReads, JobMarks, JobAborts, Tick, AddMilestone,
                RemoveMilestones, MoveMilestone, SetMilestones, ProjectChanges
  <2>3. ASSUME NEW r \in Request, pc[r] \in {"update", "look", "decide"} PROVE arg[r].id \in Reports
    BY <1>p, <2>3, RowsAreReports DEF Handlers, Placed
  <2> QED
    BY <2>1, <2>2, <2>3 DEF RowsStand, TextKept, StepsHold
<1> QED
  BY <1>1, <1>2, <1>3, <1>4 DEF Next, Elsewhere

\* With one handler at a time, whatever status a review sends and whatever the job and the
\* clock do between a look at the report and the write: the text a teacher has approved is
\* edited no more while it stands as approved, and a report that the second level has
\* approved or archived stays so (updateReportForActor, reviewReportForActor, archiveReport).
THEOREM SerialTextStands ==
    ASSUME Serial
    PROVE  Spec => ApprovedTextStands
<1>1. Init => Inv /\ StepsHold
  BY InvInit DEF Init, StepsHold
<1>2. Inv /\ [Next /\ UNCHANGED scope]_vars => Inv'
  BY InvNext
<1>3. Inv /\ StepsHold /\ [Next /\ UNCHANGED scope]_vars => StepsHold' /\ [TextKept]_vars
  BY SerialNext
<1> QED
  BY <1>1, <1>2, <1>3, PTL DEF Spec, ApprovedTextStands

=============================================================================
