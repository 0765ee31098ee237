----------------------------- MODULE ReportBoards -----------------------------
(***************************************************************************)
(* What the lists and boards show of the periodic reports: the reviewers'   *)
(* lists, the counts of the progress page, and the report columns of the    *)
(* dashboards, each computed by a query of its own.  None of them writes.   *)
(*                                                                          *)
(* The dashboards find a report by the teacher stored in it, the progress   *)
(* page by its student.  Of F, a set of teachers, the dashboards of a       *)
(* faculty take Staff(roster, f) and the reviewers' lists TeachersOf(roster, *)
(* f), for whatever roster the tables of teachers hold.  Texts, months,     *)
(* names and pages are left out.                                            *)
(***************************************************************************)
EXTENDS ProgressReports, Sums, Faculties

-----------------------------------------------------------------------------
(* The lists of the reviewers *)

Of(F, statuses) == {i \in Reports : report[i].teacher \in F /\ report[i].status \in statuses}

\* getReports: a teacher gets his own, F = {u}; secretaries and administrators get what the
\* teacher has approved, whatever status they ask for, of a faculty or of all teachers.
ReportList(role, F, wanted) ==
    Of(F, IF role = "TEACHER" THEN wanted ELSE {"APPROVED_BY_TEACHER"})

-----------------------------------------------------------------------------
(* The counts *)

Three == {"PENDING", "APPROVED", "REJECTED"}

Counted(F, statuses) == Cardinality(Of(F, statuses))

ThreeReports(F) == [x \in Three |-> Counted(F, {x})]

SumOfThree(F) ==
    LET three == ThreeReports(F)
    IN  three["PENDING"] + three["APPROVED"] + three["REJECTED"]

\* getAdminDashboard and getSecretaryDashboard: the total is that of three statuses.
AdminReports        == [three |-> ThreeReports(Teacher), total |-> SumOfThree(Teacher)]
SecretaryReports(F) == [three |-> ThreeReports(F), total |-> SumOfThree(F)]

\* getSecretaryFacultyOverview and getFacultyProgressReportsScoped: the total is that of
\* all reports.
OverviewReports(F) == [three |-> ThreeReports(F), total |-> Counted(F, ReportStatus)]
FacultySummary(F)  == [three |-> ThreeReports(F), total |-> Cardinality(Of(F, ReportStatus))]

\* getFacultySecretaryDetail, and the reports of a faculty in getFacultyUnitStats.
DetailReports(F) ==
    [total |-> Counted(F, ReportStatus), pendingApprovals |-> Counted(F, {"PENDING"})]
UnitReports(F) == Counted(F, ReportStatus)

\* getSecretaryFacultyActions: the reports the secretary should remind teachers of.
OverdueReports(F) == Counted(F, {"PENDING"})

\* getFacultyStudentIds: the students whose project is now with a teacher of the faculty,
\* deleted or not.
FacultyStudents(roster, f) ==
    {s \in Student : project[s] # NoRow /\ project[s].teacher \in TeachersOf(roster, f)}

OfStudents(S, statuses) ==
    {i \in Reports : report[i].student \in S /\ report[i].status \in statuses}

\* getStats of the students S: those of a faculty, those of a teacher, or all.
Stats(S) ==
    [students |-> Cardinality({s \in S : submitted[s] # NoRow}),
     three |-> [x \in Three |-> Cardinality(OfStudents(S, {x}))]]

-----------------------------------------------------------------------------
(* Properties *)

\* Whoever may decide a report finds it in his list, and a secretary who asks for all
\* faculties finds nothing in hers that she may not decide; what the list of one faculty
\* has beyond the reports of its teachers went to teachers who are deleted (getReports
\* against reviewReportForActor).
ListsMatchReviews ==
    /\ \A u \in Teacher : Of({u}, Level("TEACHER")) \subseteq ReportList("TEACHER", {u}, ReportStatus)
    /\ ReportList("SECRETARY", Teacher, {"PENDING"}) = Of(Teacher, Level("SECRETARY"))
    /\ \A roster \in Rosters(Teacher), f \in Faculty :
          LET list == ReportList("SECRETARY", TeachersOf(roster, f), ReportStatus)
          IN  /\ Of(Staff(roster, f), Level("SECRETARY")) \subseteq list
              /\ \A i \in list \ Of(Staff(roster, f), Level("SECRETARY")) :
                    report[i].teacher \in roster.removed

\* The dashboards of the faculties add up to the administrator's but for the reports that
\* went to teachers on no faculty's board, and so do the counts of the progress page but for
\* the students whose project is with no teacher of a faculty.
FacultyReportsAddUp ==
    \A roster \in Rosters(Teacher) :
        LET none == {s \in Student : \A f \in Faculty : s \notin FacultyStudents(roster, f)}
        IN  /\ Added([f \in Faculty |-> SecretaryReports(Staff(roster, f)).total], Faculty)
                  + Counted(Outside(roster), Three) = AdminReports.total
            /\ \A x \in Three :
                  Added([f \in Faculty |-> Stats(FacultyStudents(roster, f)).three[x]], Faculty)
                     + Stats(none).three[x] = AdminReports.three[x]

\* Reports of a student who has no project any more, or one with another teacher.
Strayed ==
    {i \in Reports : LET row == project[report[i].student]
                     IN  row = NoRow \/ row.teacher # report[i].teacher}

\* The boards of one faculty: its reminders are what its teachers may still decide, what only
\* the boards with a full total show is on its way between the two reviewers or was marked,
\* and the progress page differs from the dashboards by strayed reports and deleted teachers.
OneFacultyAgrees ==
    /\ \A F \in SUBSET Teacher :
          /\ OverdueReports(F)
                = Added([u \in F |-> Cardinality(ReportList("TEACHER", {u}, Level("TEACHER")))], F)
          /\ FacultySummary(F).total - SecretaryReports(F).total
                = Counted(F, {"REVISION_REQUESTED", "PENDING_TEACHER", "APPROVED_BY_TEACHER",
                              "ARCHIVED", "MISSING"})
    /\ \A roster \in Rosters(Teacher), f \in Faculty :
          Strayed = {} /\ roster.removed = {} =>
             DetailReports(Staff(roster, f)).pendingApprovals
                = Stats(FacultyStudents(roster, f)).three["PENDING"]

\* The counts of the progress rows, added up, never run ahead of the reports of the same
\* students, nor all of them ahead of what the boards of the faculties show in total and
\* what went to teachers on none of them.
BoardsBoundCounts ==
    LET counted(S) == {s \in S : submitted[s] # NoRow}
    IN  /\ \A S \in SUBSET Student :
              Added(submitted, counted(S)) <= Cardinality(OfStudents(S, ReportStatus))
        /\ \A roster \in Rosters(Teacher) :
              Added(submitted, counted(Student))
                 <= Added([f \in Faculty |-> UnitReports(Staff(roster, f))], Faculty)
                       + Counted(Outside(roster), ReportStatus)

\* However handlers, the job and the clock interleave: no count in a progress row runs ahead
\* of the student's reports, for one student or a whole faculty, the reviewers' lists hold
\* what they may decide, and the boards agree with each other.
ReportsAddUp ==
    /\ CountNeverAhead /\ ListsMatchReviews
    /\ FacultyReportsAddUp /\ OneFacultyAgrees /\ BoardsBoundCounts

=============================================================================
