------------------------------ MODULE TopicBoards ------------------------------
(***************************************************************************)
(* What the lists and boards show of the registration: the topics a student *)
(* may choose from, a teacher's topics with what waits for him, the         *)
(* secretary's lists of topics and of students without one, the dashboards  *)
(* of the administrator and of a faculty, and the productivity report.      *)
(* Each is computed by a query of its own; none of them writes.             *)
(*                                                                          *)
(* F stands for the teacherIds that the query of a faculty's board finds:    *)
(* Staff(roster, f) for whatever roster the tables of teachers hold.  Names, *)
(* texts, pages and search words are left out, and so are the columns of    *)
(* the boards that come from other tables (reports, sessions, deadlines).   *)
(***************************************************************************)
EXTENDS TopicRegistration, Sums, Faculties

-----------------------------------------------------------------------------
(* The row of a topic, as every list of topics maps it *)

\* summarizeRegistrations: the registrations of a topic by their status.
Summary(t) == [x \in ProjectStatus |-> Cardinality(WithStatus(project, t, {x}))]

Total(summary) == Added(summary, DOMAIN summary)

\* registrationHeadline: which of the counts stands in the list, and the count.
Headline(summary) ==
    LET accepted == summary["APPROVED"] + summary["ASSIGNED"]
        shown(x)  == <<x, summary[x]>>
    IN  IF Total(summary) = 0                 THEN <<"nobody", 0>>
        ELSE IF summary["PENDING"] > 0        THEN shown("PENDING")
        ELSE IF summary["WAITING_SECRETARY"] > 0 THEN shown("WAITING_SECRETARY")
        ELSE IF accepted = 0                  THEN shown("REJECTED")
        ELSE <<"accepted", accepted>>

\* mapManagedRow: two counts of the students, one stored and one computed.
ManagedRow(t) ==
    LET occupied == Cardinality(Occupied(project, t))
        max      == topic[t].max_students
    IN  [max |-> max, registered |-> topic[t].registered_students, occupied |-> occupied,
         remaining |-> IF occupied < max THEN max - occupied ELSE 0,
         summary |-> Summary(t), headline |-> Headline(Summary(t)),
         status |-> topic[t].status, locked |-> topic[t].locked]

\* mapTeacherTopic: what the teacher may do with the topic.  A topic with a code
\* cannot be deleted either; codes are not in this module.
TeacherRow(t) ==
    LET row == ManagedRow(t)
    IN  [registration |-> IF row.locked THEN "LOCKED" ELSE IF row.remaining = 0 THEN "FULL" ELSE "OPEN",
         canDelete |-> row.status = "PENDING" /\ ~row.locked /\ Total(row.summary) = 0,
         canChangeLeader |-> row.summary["APPROVED"] > 0,
         pendingApprovals |-> row.summary["PENDING"] + row.summary["WAITING_SECRETARY"]]

-----------------------------------------------------------------------------
(* The lists of topics and of students *)

\* Mutant: the list goes by the stored counter, which leaves out who waits for the secretary.
Available_ByCounter ==
    {t \in Topic : /\ topic[t].status = "APPROVED" /\ ~topic[t].locked
                   /\ ManagedRow(t).registered < ManagedRow(t).max}

\* listAvailableTopics: the topics a student can still choose.
Available ==
    {t \in Topic : /\ topic[t].status = "APPROVED" /\ ~topic[t].locked
                   /\ ManagedRow(t).occupied < ManagedRow(t).max}

\* getMyRegistration: the student's own row.
Answer == [status : ProjectStatus, topic : Topic, isLeader : BOOLEAN, locked : BOOLEAN]

ASSUME AnswerAssumption == NoRow \notin Answer

MyRegistration(s) ==
    IF project[s] = NoRow THEN NoRow
    ELSE [status |-> project[s].status, topic |-> project[s].topic,
          isLeader |-> project[s].is_leader, locked |-> topic[project[s].topic].locked]

\* listStudentsWithoutTopic
WithoutTopic == {s \in Student : project[s] = NoRow \/ project[s].status = "REJECTED"}

\* buildManageWhere: the topics of a teacher, with a status, and with a registration
\* in a given status.
Managed(teachers, statuses, registrations) ==
    {t \in Topic : /\ topic[t].teacher \in teachers /\ topic[t].status \in statuses
                   /\ registrations = ProjectStatus \/ WithStatus(project, t, registrations) # {}}

\* listManaged: how many topics of the period have each status.
Facets == [x \in TopicStatus |-> Cardinality({t \in Topic : topic[t].status = x})]

\* listMyTopics: the requests that wait for the teacher.
MyPending(u) ==
    Added([t \in Topic |-> Summary(t)["PENDING"]], {t \in Topic : topic[t].teacher = u})

-----------------------------------------------------------------------------
(* The dashboards and the report on teachers *)

\* Projects are found by their own teacher_id, topics by theirs.
ProjectsOf(teachers, statuses) ==
    Cardinality({s \in Student : /\ project[s] # NoRow /\ project[s].teacher \in teachers
                                 /\ project[s].status \in statuses})

TopicsOf(teachers, statuses) == Cardinality(Managed(teachers, statuses, ProjectStatus))

ThreeCounts(teachers) ==
    [pending  |-> ProjectsOf(teachers, {"PENDING"}),
     approved |-> ProjectsOf(teachers, {"APPROVED"}),
     rejected |-> ProjectsOf(teachers, {"REJECTED"})]

\* getAdminDashboard: the overview has all projects, the total of its statistics only
\* those of the three statuses.
AdminDashboard ==
    LET three == ThreeCounts(Teacher)
    IN  [projects |-> ProjectsOf(Teacher, ProjectStatus), topics |-> Cardinality(Topic),
         three |-> three, total |-> three.pending + three.approved + three.rejected]

\* getSecretaryDashboard: the total is that of all projects of the faculty.
SecretaryDashboard(F) ==
    [students |-> ProjectsOf(F, ProjectStatus), total |-> ProjectsOf(F, ProjectStatus),
     topics |-> TopicsOf(F, TopicStatus), three |-> ThreeCounts(F)]

\* getFacultyUnitStats, of which getFacultyStats and getFacultyDetail are the rows of
\* one faculty.
UnitStats(F) ==
    [total |-> ProjectsOf(F, ProjectStatus), topics |-> TopicsOf(F, TopicStatus),
     three |-> ThreeCounts(F)]

\* getFacultyStatsWithProjectCounts
CountedStats(F) ==
    LET three == ThreeCounts(F)
    IN  [total |-> three.pending + three.approved + three.rejected, three |-> three]

\* getFacultyDetailScoped
DetailScoped(F) == CountedStats(F)

\* getSecretaryFacultyDetails: the same counts teacher by teacher.
ByTeacher(F) ==
    [u \in F |-> [total |-> ProjectsOf({u}, ProjectStatus), three |-> ThreeCounts({u})]]

Distribution(F) ==
    [completed |-> TopicsOf(F, {"APPROVED"}), pending |-> TopicsOf(F, {"PENDING"}),
     failed |-> TopicsOf(F, {"REJECTED"})]

\* getSecretaryFacultyOverview
FacultyOverview(F) ==
    LET d == Distribution(F)
    IN  [projects |-> ProjectsOf(F, ProjectStatus), topics |-> d,
         total |-> d.completed + d.pending + d.failed]

\* getFacultySecretaryDetail
SecretaryDetail(F) == [topics |-> Distribution(F), total |-> FacultyOverview(F).total]

\* getSecretaryFacultyTopics: the topics and how far each has come.
FacultyTopics(F) ==
    [t \in Managed(F, TopicStatus, ProjectStatus) |->
        CASE topic[t].status = "APPROVED" -> 100
          [] topic[t].status = "PENDING"  -> 50
          [] topic[t].status = "REJECTED" -> 0]

\* getSecretaryFacultyActions: what the secretary has to do.
FacultyActions(F) ==
    [waiting  |-> ProjectsOf(F, {"WAITING_SECRETARY"}),
     unlocked |-> Cardinality({t \in Managed(F, TopicStatus, ProjectStatus) : ~topic[t].locked})]

\* getTeacherProductivity: topics proposed, and students, whatever became of them.
Productivity(u) ==
    [topics |-> TopicsOf({u}, TopicStatus), students |-> ProjectsOf({u}, ProjectStatus)]

\* getTeacherStudentScope and getStudentProgress: the students whose progress a teacher sees.
ProgressScope(u) ==
    {s \in Student : /\ project[s] # NoRow /\ project[s].teacher = u
                     /\ project[s].status = "APPROVED"}

-----------------------------------------------------------------------------
(* Properties *)

SumTopics(n, F) == Added(n, {t \in Topic : topic[t].teacher \in F})

\* The stored count and the computed one stand side by side in every list: they differ by
\* the registrations that wait for the secretary, and the headline is never one of nobody.
CountsAgree ==
    \A t \in Topic :
        LET row == ManagedRow(t)
        IN  /\ row.registered = row.summary["APPROVED"] + row.summary["ASSIGNED"]
            /\ row.occupied = row.registered + row.summary["WAITING_SECRETARY"]
            /\ row.headline[2] = 0 <=> Total(row.summary) = 0
            /\ TeacherRow(t).canDelete => row.registered = 0

\* A student without a place gets on a topic if and only if the list offers it, as far as
\* the tests of registerTopic go, and whoever the secretary sees without a topic can be
\* assigned to the offered ones.
OffersStand ==
    \A t \in Topic, s \in Student :
        /\ MyRegistration(s) # NoRow => MyRegistration(s).status \notin SlotOccupying
        => /\ t \in Available <=>
                 /\ topic[t].status = "APPROVED" /\ ~topic[t].locked
                 /\ HasCapacity(project, t, topic[t].max_students, 1, {s})
           /\ t \in Available /\ s \in WithoutTopic =>
                 HasCapacity(project, t, topic[t].max_students, 1, {})

\* A request that is open shows up with the teacher who can answer it, and on the boards of
\* any teachers F exactly when he is one of them: the boards find it by its own teacher, the
\* topics by theirs.  Of the members of his topics a teacher sees the progress of all but
\* those assigned to them.
RequestsShowOnce ==
    /\ \A F \in SUBSET Teacher :
          /\ FacultyActions(F).waiting + SecretaryDashboard(F).three.pending
                = SumTopics([t \in Topic |-> TeacherRow(t).pendingApprovals], F)
          /\ SecretaryDashboard(F).three.pending = Added([u \in F |-> MyPending(u)], F)
    /\ SumTopics([t \in Topic |-> Total(ManagedRow(t).summary)], Teacher)
          = AdminDashboard.projects
    /\ \A u \in Teacher :
          LET members == SumTopics([t \in Topic |-> ManagedRow(t).registered], {u})
          IN  /\ Productivity(u).students >= members
              /\ Cardinality(ProgressScope(u)) + ProjectsOf({u}, {"ASSIGNED"}) = members

\* The boards of the faculties add up to the administrator's but for what belongs to teachers
\* who are on no faculty's board, those of no faculty and those deleted: no project and no
\* topic is on the boards of two faculties.
BoardsAddUp ==
    \A roster \in Rosters(Teacher) :
        LET out == Outside(roster)
        IN  /\ Added([f \in Faculty |-> UnitStats(Staff(roster, f)).total], Faculty)
                  + ProjectsOf(out, ProjectStatus) = AdminDashboard.projects
            /\ Added([f \in Faculty |-> CountedStats(Staff(roster, f)).total], Faculty)
                  + ProjectsOf(out, {"PENDING", "APPROVED", "REJECTED"}) = AdminDashboard.total
            /\ Added([f \in Faculty |-> FacultyOverview(Staff(roster, f)).total], Faculty)
                  + TopicsOf(out, TopicStatus) = AdminDashboard.topics

\* Two boards of one faculty differ by the statuses that one of them leaves out.
BoardsOfOneAgree ==
    \A F \in SUBSET Teacher :
        /\ UnitStats(F).total - CountedStats(F).total
              = ProjectsOf(F, {"WAITING_SECRETARY", "ASSIGNED"})
        /\ Cardinality(DOMAIN FacultyTopics(F)) = SecretaryDetail(F).total
        /\ Added([u \in F |-> ByTeacher(F)[u].total], F) = UnitStats(F).total
        /\ DetailScoped(F).total <= SecretaryDashboard(F).total

\* The boards of the faculties agree with each other and with the administrator's.
FacultiesAddUp == BoardsAddUp /\ BoardsOfOneAgree

\* With requests one after the other, what the lists offer can be taken, what waits is seen
\* by whoever can answer it, and lists and boards count alike.
BoardsAgree ==
    (\A r \in Request : pc[r] = "idle") =>
        CountsAgree /\ OffersStand /\ RequestsShowOnce /\ FacultiesAddUp

=============================================================================
