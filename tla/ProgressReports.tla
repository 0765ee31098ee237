---------------------------- MODULE ProgressReports ----------------------------
(***************************************************************************)
(* The periodic reports of students: the milestones of a period, the        *)
(* reports handed in for them, their review by the teacher and then by the  *)
(* secretary, the count kept in the student's progress row, and the hourly  *)
(* job that records a report as MISSING when its milestone has passed.      *)
(*                                                                          *)
(* No handler opens a transaction: every read and every write of it is a    *)
(* step, and so is every statement of the job.  Other handlers, the job and *)
(* the clock move in between.                                               *)
(***************************************************************************)
EXTENDS FiniteSets, Naturals

CONSTANTS
    Student, Teacher,
    MaxMilestones,  \* bound on the PERIODIC_REPORT deadlines ever created
    MaxReports,     \* bound on the reports ever created
    MaxEdits,       \* bound on the edits of one report
    Request,        \* handlers that can be in flight at the same time
    Scopes,         \* what the instance exercises, one scope in each behaviour
    NoMilestone, Gone, NoReport, NoRow

ASSUME ReportAssumption ==
    /\ MaxMilestones \in Nat /\ MaxReports \in Nat /\ MaxEdits \in Nat
    /\ NoMilestone \notin Nat
    /\ \A x \in Scopes :
          /\ x.ops \subseteq {"create", "update", "review", "archive"}
          /\ x.requests \subseteq Request /\ x.who \subseteq Student /\ x.teachers \subseteq Teacher
          /\ x.milestones \in 0 .. MaxMilestones /\ x.reports \in 0 .. MaxReports
          /\ x.moves \subseteq {"date", "disabled", "removed", "project"}

Milestone == 1 .. MaxMilestones
ReportId  == 1 .. MaxReports

ReportStatus == {"PENDING_TEACHER", "REVISION_REQUESTED", "APPROVED_BY_TEACHER", "ARCHIVED",
                 "PENDING", "APPROVED", "REJECTED", "MISSING"}

\* A deadline row, and whether its date has come.  Rows are numbered as created,
\* which is the order of their seq and of their dates.
Deadline == [enabled : BOOLEAN, passed : BOOLEAN]

\* A report keeps the teacher its student's project had when it was stored.
Report == [student : Student, teacher : Teacher, deadline : Milestone \cup {NoMilestone},
           status : ReportStatus, text : 0 .. MaxEdits]

\* A project is accepted when it is APPROVED or ASSIGNED.
Project == [status : {"open", "accepted"}, teacher : Teacher]

ASSUME ReportAbsence ==
    /\ NoReport \notin Report /\ {NoMilestone, Gone} \cap Deadline = {}
    /\ NoRow \notin Nat /\ NoRow \notin Project

VARIABLES
    scope,      \* the scope of this behaviour, a bound on it
    project,    \* the projects row of each student
    milestone,  \* period_deadlines rows
    report,     \* progress_reports rows
    submitted,  \* total_reports_submitted of each student_progress row
    job,        \* milestones the job has listed and not looked at yet
    marks,      \* the MISSING rows the job is about to create
    pc,         \* where each handler is
    arg         \* its input and the values it read

vars == <<project, milestone, report, submitted, job, marks, pc, arg, scope>>

NoArg   == [op |-> "none"]
NoMarks == [milestone |-> NoMilestone, teacher |-> [s \in {} |-> NoRow]]

-----------------------------------------------------------------------------
(* What the rows say *)

Live    == {m \in Milestone : milestone[m] \in Deadline}
Reports == {i \in ReportId : report[i] # NoReport}

\* Enabled milestones whose date has come, or has not.
Passed == {m \in Live : milestone[m].enabled /\ milestone[m].passed}
Ahead  == {m \in Live : milestone[m].enabled /\ ~milestone[m].passed}

HasRow(s, m) == \E i \in Reports : report[i].student = s /\ report[i].deadline = m

\* getTimeline: the enabled milestones, each with the student's report of it.
Timeline(s) ==
    [m \in {n \in Live : milestone[n].enabled} |->
        {i \in Reports : report[i].student = s /\ report[i].deadline = m}]

RowsOf(s) == {i \in Reports : report[i].student = s}

NewRow(s, u, m, status) ==
    [student |-> s, teacher |-> u, deadline |-> m, status |-> status, text |-> 0]

Accepted == {s \in Student : project[s] # NoRow /\ project[s].status = "accepted"}

\* assertReportOpen: the first milestone ahead; none configured closes nothing, and
\* when all have passed there is no answer.
OpenMilestones ==
    IF Ahead # {} THEN {CHOOSE m \in Ahead : \A n \in Ahead : m <= n}
    ELSE IF Passed = {} THEN {NoMilestone} ELSE {}

\* The next n ids.
Fresh(n) == {i \in 1 .. scope.reports : i > Cardinality(Reports) /\ i <= Cardinality(Reports) + n}

-----------------------------------------------------------------------------
(* Steps every handler is made of *)

Begin(r, op, step, a) ==
    /\ op \in scope.ops /\ r \in scope.requests
    /\ pc[r] = "idle"
    /\ pc'  = [pc EXCEPT ![r] = step]
    /\ arg' = [arg EXCEPT ![r] = a]
    /\ UNCHANGED <<project, milestone, report, submitted, job, marks>>

Go(r, step) == pc' = [pc EXCEPT ![r] = step]

Finish(r) ==
    /\ Go(r, "idle")
    /\ arg' = [arg EXCEPT ![r] = NoArg]

\* A statement fails: an assertion throws or a unique index refuses the row.
Fail(r) ==
    /\ pc[r] # "idle"
    /\ Finish(r)
    /\ UNCHANGED <<project, milestone, report, submitted, job, marks>>

-----------------------------------------------------------------------------
(* createReport *)

\* A milestone the student names only has to be enabled; otherwise the open one is
\* taken.  A project of any status will do.
CreateCheck(r, s, m) ==
    /\ project[s] # NoRow
    /\ m \in {n \in Live : milestone[n].enabled} \cup OpenMilestones
    /\ Begin(r, "create", "exists", [op |-> "create", student |-> s, teacher |-> project[s].teacher,
                                     deadline |-> m])

\* The look for a report of the same milestone.
CreateLook(r) ==
    /\ pc[r] = "exists"
    /\ ~HasRow(arg[r].student, arg[r].deadline) \/ arg[r].deadline = NoMilestone
    /\ Go(r, "insert")
    /\ UNCHANGED <<project, milestone, report, submitted, job, marks, arg>>

\* The index on student and deadline refuses a second row of a milestone, the foreign
\* key a milestone that has gone.
Insert(r) ==
    /\ pc[r] = "insert"
    /\ LET a == arg[r]
       IN  /\ a.deadline # NoMilestone => a.deadline \in Live /\ ~HasRow(a.student, a.deadline)
           /\ \E i \in Fresh(1) :
                 report' = [report EXCEPT ![i] = NewRow(a.student, a.teacher, a.deadline, "PENDING")]
    /\ Go(r, "count")
    /\ UNCHANGED <<project, milestone, submitted, job, marks, arg>>

-----------------------------------------------------------------------------
(* updateStudentReportCount: every row of the student counts, MISSING ones too *)

\* Mutant: the caller's new report is counted and then added.
CountRows_PlusOne(s) == Cardinality(RowsOf(s)) + 1

CountRows(s) == Cardinality(RowsOf(s))

Count(r) ==
    /\ pc[r] = "count"
    /\ arg' = [arg EXCEPT ![r] = [op |-> "count", student |-> arg[r].student,
                                  count |-> CountRows(arg[r].student)]]
    /\ Go(r, "store")
    /\ UNCHANGED <<project, milestone, report, submitted, job, marks>>

\* A student without a progress row is passed over.
StoreCount(r) ==
    /\ pc[r] = "store"
    /\ submitted' = [submitted EXCEPT ![arg[r].student] =
                        IF @ = NoRow THEN NoRow ELSE arg[r].count]
    /\ Finish(r)
    /\ UNCHANGED <<project, milestone, report, job, marks>>

-----------------------------------------------------------------------------
(* updateReportForActor *)

\* Mutant: only the last level of the review freezes a report.
Editable_UntilSecretary(status) == status \notin {"APPROVED", "ARCHIVED"}

Editable(status) == status \notin {"APPROVED_BY_TEACHER", "APPROVED", "ARCHIVED"}

UpdateRead(r, i) ==
    /\ Editable(report[i].status)
    /\ report[i].text < MaxEdits
    /\ Begin(r, "update", "update", [op |-> "update", id |-> i, student |-> report[i].student,
                                     status |-> report[i].status])

\* A report sent back for revision waits for the teacher under another name.
UpdateWrite(r) ==
    /\ pc[r] = "update"
    /\ report' = [report EXCEPT ![arg[r].id].text = IF @ < MaxEdits THEN @ + 1 ELSE @,
                                ![arg[r].id].status = IF arg[r].status = "REVISION_REQUESTED"
                                                      THEN "PENDING_TEACHER" ELSE @]
    /\ Go(r, "count")
    /\ UNCHANGED <<project, milestone, submitted, job, marks, arg>>

-----------------------------------------------------------------------------
(* reviewReportForActor and reviewReport, archiveReport *)

\* The status each level reviews; at the first it is the report's own teacher who does.
Level(role) == IF role = "TEACHER" THEN {"PENDING"} ELSE {"APPROVED_BY_TEACHER"}

\* What the request sends: a status, or none with feedback alone.  The actions APPROVE and
\* REJECT act as the statuses APPROVED and REJECTED do.
Sent == ReportStatus \cup {"none"}

\* The level's own status for a decision; any other status is stored as it was sent.
Verdict(role, sent) ==
    CASE sent = "APPROVED" -> IF role = "TEACHER" THEN "APPROVED_BY_TEACHER" ELSE "APPROVED"
      [] sent = "REJECTED" -> IF role = "TEACHER" THEN "REVISION_REQUESTED" ELSE "REJECTED"
      [] OTHER -> sent

ReviewCheck(r, i, role, sent) ==
    /\ report[i].status \in Level(role)
    /\ Begin(r, "review", IF sent = "none" THEN "look" ELSE "decide",
             [op |-> "review", id |-> i,
              status |-> IF sent = "none" THEN report[i].status ELSE Verdict(role, sent)])

\* Feedback without a status: reviewReport reads the status again and keeps it.
ReviewLook(r) ==
    /\ pc[r] = "look"
    /\ arg' = [arg EXCEPT ![r].status = report[arg[r].id].status]
    /\ Go(r, "decide")
    /\ UNCHANGED <<project, milestone, report, submitted, job, marks>>

ArchiveRead(r, i) ==
    /\ report[i].status = "APPROVED_BY_TEACHER"
    /\ Begin(r, "archive", "decide", [op |-> "archive", id |-> i, status |-> "ARCHIVED"])

Decide(r) ==
    /\ pc[r] = "decide"
    /\ report' = [report EXCEPT ![arg[r].id].status = arg[r].status]
    /\ Finish(r)
    /\ UNCHANGED <<project, milestone, submitted, job, marks>>

-----------------------------------------------------------------------------
(* The hourly job markMissingReports *)

Lacking(m) == {s \in Accepted : ~HasRow(s, m)}

\* The rows it is going to create: each with the teacher the project has now.
Marks(m, students) == [milestone |-> m, teacher |-> [s \in students |-> project[s].teacher]]

\* There is something for the job to do, or to finish.
JobLists ==
    /\ job = {} /\ marks = NoMarks
    /\ \E m \in Passed : Lacking(m) # {}
    /\ job' = Passed
    /\ UNCHANGED <<project, milestone, report, submitted, marks, pc, arg>>

\* Mutant: who has handed in any report at all is passed over.
JobReads_AnyReport(m) ==
    /\ m \in job /\ marks = NoMarks
    /\ job' = job \ {m}
    /\ marks' = Marks(m, {s \in Lacking(m) : RowsOf(s) = {}})
    /\ UNCHANGED <<project, milestone, report, submitted, pc, arg>>

\* The accepted projects of the period and the rows of the milestone.
JobReads(m) ==
    /\ m \in job /\ marks = NoMarks
    /\ job' = job \ {m}
    /\ marks' = Marks(m, Lacking(m))
    /\ UNCHANGED <<project, milestone, report, submitted, pc, arg>>

\* Mutant: rows that came in since the look are not skipped.
JobMarks_NoSkip ==
    /\ marks # NoMarks /\ marks.milestone \in Live
    /\ LET who == DOMAIN marks.teacher
           row(s) == NewRow(s, marks.teacher[s], marks.milestone, "MISSING")
       IN  \E i \in [who -> Fresh(Cardinality(who))] :
              /\ \A s, t \in who : i[s] = i[t] => s = t
              /\ report' = [k \in ReportId |->
                    IF \E s \in who : i[s] = k THEN row(CHOOSE s \in who : i[s] = k) ELSE report[k]]
    /\ marks' = NoMarks
    /\ UNCHANGED <<project, milestone, submitted, job, pc, arg>>

\* createMany skips the rows that exist by now.
JobMarks ==
    /\ marks # NoMarks /\ marks.milestone \in Live
    /\ LET who == {s \in DOMAIN marks.teacher : ~HasRow(s, marks.milestone)}
           row(s) == NewRow(s, marks.teacher[s], marks.milestone, "MISSING")
       IN  \E i \in [who -> Fresh(Cardinality(who))] :
              /\ \A s, t \in who : i[s] = i[t] => s = t
              /\ report' = [k \in ReportId |->
                    IF \E s \in who : i[s] = k THEN row(CHOOSE s \in who : i[s] = k) ELSE report[k]]
    /\ marks' = NoMarks
    /\ UNCHANGED <<project, milestone, submitted, job, pc, arg>>

\* The milestone has gone and the foreign key ends this pass of the job.
JobAborts ==
    /\ marks # NoMarks /\ marks.milestone \notin Live
    /\ job' = {} /\ marks' = NoMarks
    /\ UNCHANGED <<project, milestone, report, submitted, pc, arg>>

-----------------------------------------------------------------------------
(* Milestones and projects: the clock, updateConfig, the registration *)

\* Dates are in the order of the rows.
InOrder(ms) ==
    \A m, n \in Milestone :
        m < n /\ ms[m] \in Deadline /\ ms[n] \in Deadline /\ ms[n].passed => ms[m].passed

SetMilestones(ms) ==
    /\ milestone' = ms
    /\ InOrder(ms)
    /\ UNCHANGED <<project, submitted, job, marks, pc, arg>>

Tick(m) ==
    /\ m \in Live /\ ~milestone[m].passed
    /\ SetMilestones([milestone EXCEPT ![m].passed = TRUE])
    /\ UNCHANGED report

\* A milestone is added after the others, or moved, enabled or disabled.
AddMilestone(m) ==
    /\ m <= scope.milestones
    /\ \A n \in Milestone : milestone[n] = NoMilestone <=> n >= m
    /\ SetMilestones([milestone EXCEPT ![m] = [enabled |-> TRUE, passed |-> FALSE]])
    /\ UNCHANGED report

MoveMilestone(m, enabled, passed) ==
    /\ m \in Live
    /\ ~enabled => "disabled" \in scope.moves
    /\ passed # milestone[m].passed => "date" \in scope.moves
    /\ SetMilestones([milestone EXCEPT ![m] = [enabled |-> enabled, passed |-> passed]])
    /\ UNCHANGED report

\* The last milestones are left out of the new configuration; the first one has to
\* stay.  Reports lose their reference.
RemoveMilestones(m) ==
    /\ "removed" \in scope.moves
    /\ m \in Live /\ \E n \in Live : n < m
    /\ SetMilestones([n \in Milestone |-> IF n \in Live /\ n >= m THEN Gone ELSE milestone[n]])
    /\ report' = [i \in ReportId |->
                    IF i \in Reports /\ report[i].deadline # NoMilestone /\ report[i].deadline >= m
                    THEN [report[i] EXCEPT !.deadline = NoMilestone] ELSE report[i]]

\* The registration on the student's project, which may go to another teacher, or go.
ProjectChanges(s, row) ==
    /\ "project" \in scope.moves
    /\ project' = [project EXCEPT ![s] = row]
    /\ UNCHANGED <<milestone, report, submitted, job, marks, pc, arg>>

-----------------------------------------------------------------------------
(* The specification *)

InScope == {row \in Project : row.teacher \in scope.teachers}

Init ==
    /\ scope \in Scopes
    /\ project \in [Student -> InScope \cup {NoRow}]
    /\ \A s \in Student : project[s] = NoRow <=> s \notin scope.who
    /\ milestone = [m \in Milestone |-> NoMilestone]
    /\ report = [i \in ReportId |-> NoReport]
    /\ submitted \in [Student -> {0, NoRow}]
    /\ \A s \in Student \ scope.who : submitted[s] = NoRow
    /\ job = {} /\ marks = NoMarks
    /\ pc = [r \in Request |-> "idle"] /\ arg = [r \in Request |-> NoArg]

Arrive(r) ==
    \/ \E s \in Student, m \in Milestone \cup {NoMilestone} : CreateCheck(r, s, m)
    \/ \E i \in Reports :
          \/ UpdateRead(r, i)
          \/ ArchiveRead(r, i)
          \/ \E role \in {"TEACHER", "SECRETARY"}, sent \in Sent : ReviewCheck(r, i, role, sent)

Proceed(r) ==
    \/ CreateLook(r)
    \/ Insert(r)
    \/ Count(r)
    \/ StoreCount(r)
    \/ UpdateWrite(r)
    \/ ReviewLook(r)
    \/ Decide(r)

Job == JobLists \/ (\E m \in Milestone : JobReads(m)) \/ JobMarks \/ JobAborts

Next ==
    \/ \E r \in Request : Arrive(r) \/ Proceed(r) \/ Fail(r)
    \/ Job
    \/ \E m \in Milestone :
          \/ Tick(m)
          \/ AddMilestone(m)
          \/ RemoveMilestones(m)
          \/ \E enabled, passed \in BOOLEAN : MoveMilestone(m, enabled, passed)
    \/ \E s \in scope.who, row \in InScope \cup {NoRow} : ProjectChanges(s, row)

Spec == Init /\ [][Next /\ UNCHANGED scope]_vars

\* The job runs every hour and goes on to its end.
FairSpec == Spec /\ WF_vars(Job /\ UNCHANGED scope)

-----------------------------------------------------------------------------
(* Properties *)

\* The variables have their types; a student has one report of a milestone at most.
TypeOK ==
    /\ project \in [Student -> Project \cup {NoRow}]
    /\ milestone \in [Milestone -> Deadline \cup {NoMilestone, Gone}]
    /\ report \in [ReportId -> Report \cup {NoReport}]
    /\ submitted \in [Student -> Nat \cup {NoRow}]
    /\ job \subseteq Milestone
    /\ \E who \in SUBSET Student :
          marks \in [milestone : Milestone \cup {NoMilestone}, teacher : [who -> Teacher]]
    /\ \A i, j \in Reports :
          /\ report[i].student = report[j].student /\ report[i].deadline = report[j].deadline
          /\ report[i].deadline # NoMilestone
          => i = j

\* However recounts overlap, with each other and with the job, the count in a progress
\* row never runs ahead of the student's reports (updateStudentReportCount).
CountNeverAhead ==
    \A s \in Student : submitted[s] # NoRow => submitted[s] <= Cardinality(RowsOf(s))

TextKept ==
    \A i \in Reports :
        LET row == report[i]
            new == report'[i]
        IN  /\ row.status \in {"APPROVED_BY_TEACHER", "APPROVED", "ARCHIVED"} => new.text = row.text
            /\ row.status \in {"APPROVED", "ARCHIVED"} => new.status = row.status

\* With requests one after the other the text a teacher has approved is not edited while it
\* stands as approved, and what the second level has approved or archived stands for good:
\* no review, whatever status it sends, and no edit reopens it.  Until then a review of the
\* second level may send the report back, or to any other status (reviewReportForActor,
\* updateReportForActor).
ApprovedTextStands == [][TextKept]_vars

\* The bound on reports leaves room for a row of every student.
RoomForAll == Cardinality(Reports) + Cardinality(scope.who) <= scope.reports

\* A milestone that has passed for good shows in the timeline of every accepted student with
\* one row: his own report or a MISSING one, whatever the job met in its earlier passes.
EveryMilestoneAnswered ==
    \A s \in Student, m \in Milestone :
        <>[](m \in Passed /\ s \in Accepted /\ RoomForAll)
        => <>[](m \in DOMAIN Timeline(s) /\ Cardinality(Timeline(s)[m]) = 1)

=============================================================================
