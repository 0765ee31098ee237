--------------------------- MODULE TopicRegistration ---------------------------
(***************************************************************************)
(* How students get onto thesis topics.  The model follows the handlers of *)
(* TopicService that write a student's `project` row or the columns of a    *)
(* `topics` row that decide whether a student may join, and the hourly      *)
(* escalation job.                                                          *)
(*                                                                          *)
(* A handler is an HTTP request that runs concurrently with every other     *)
(* one.  It takes up to four steps:                                         *)
(*    read    statements issued before the transaction is opened;           *)
(*    check   reads and assertions inside the transaction;                  *)
(*    write   the updates, which lock the rows they touch, and the counts   *)
(*            taken after them;                                             *)
(*    commit  the update of topics.registered_students and the COMMIT.      *)
(* PostgreSQL runs every transaction at READ COMMITTED (no isolation level  *)
(* is requested anywhere): each statement sees what is committed when it    *)
(* starts plus the transaction's own writes, and an update waits until no   *)
(* other open transaction has written the row.  `dirtyRow` and `dirtyTopic` *)
(* hold the uncommitted writes.                                             *)
(***************************************************************************)
EXTENDS Integers, FiniteSets

CONSTANTS
    Student,        \* students
    Topic,          \* topics of one registration period
    Teacher,        \* supervising teachers
    Request,        \* handlers that can be in flight at the same time
    RowId,          \* project.id, told apart per student
    MaxTopicLimit,  \* largest max_students the governance policy admits
    MaxBatch,       \* largest number of students in one manualAssign
    Ops,            \* handlers the instance exercises
    Moving,         \* deadlines that pass or are moved in the instance
    NoRow,          \* the student has no project row
    NoId,           \* the handler holds no row id
    Clean           \* not written by this transaction

Handlers == {"register", "cancel", "approve", "reject", "assign", "update",
             "force", "bulk", "lock", "leader"}

\* The governance deadlines that gate these handlers.
Gate == {"TOPIC_CREATION", "STUDENT_REGISTRATION", "TEACHER_APPROVAL"}

ASSUME TopicRegistrationAssumption ==
    /\ IsFiniteSet(Student) /\ IsFiniteSet(Topic)
    /\ MaxTopicLimit \in Nat /\ MaxBatch \in Nat
    /\ Ops \subseteq Handlers /\ Moving \subseteq Gate

\* Ids come from a sequence and are never reused, so a new row's id is none of
\* the ids that a handler still holds.
ASSUME RowIdAssumption ==
    /\ NoId \notin RowId
    /\ \A held \in [Request -> RowId \cup {NoId}] :
          \E i \in RowId : \A q \in Request : held[q] # i

ProjectStatus == {"PENDING", "APPROVED", "REJECTED", "WAITING_SECRETARY", "ASSIGNED"}
TopicStatus   == {"PENDING", "APPROVED", "REJECTED"}
\* Mutant: the ASSIGNED rows are forgotten.
SlotOccupying_NotAssigned == {"APPROVED", "WAITING_SECRETARY"}

SlotOccupying == {"APPROVED", "WAITING_SECRETARY", "ASSIGNED"}
Counted       == {"APPROVED", "ASSIGNED"}

Row == [id : RowId, topic : Topic, teacher : Teacher, status : ProjectStatus,
        is_leader : BOOLEAN]

TopicRow == [status : TopicStatus, locked : BOOLEAN, max_students : 0 .. MaxTopicLimit,
             registered_students : 0 .. Cardinality(Student), teacher : Teacher]

ASSUME MarkersAssumption ==
    /\ NoRow \notin Row /\ Clean \notin Row /\ Clean # NoRow
    /\ Clean \notin TopicRow

\* One changed column of a topic.
Edit == [field : {"max_students"}, to : 1 .. MaxTopicLimit]
          \cup [field : {"teacher"}, to : Teacher]
          \cup [field : {"status"}, to : TopicStatus]
          \cup [field : {"locked"}, to : BOOLEAN]

NoEdit == [field |-> "none", to |-> 0]

Edited(t, e) ==
    [status       |-> IF e.field = "status" THEN e.to ELSE t.status,
     locked       |-> IF e.field = "locked" THEN e.to ELSE t.locked,
     max_students |-> IF e.field = "max_students" THEN e.to ELSE t.max_students,
     registered_students |-> t.registered_students,
     teacher      |-> IF e.field = "teacher" THEN e.to ELSE t.teacher]

VARIABLES
    open,       \* gates whose deadline is disabled or still ahead
    topic,      \* committed topics rows
    project,    \* committed project rows: student_id is unique, one row each
    pc,         \* where each handler is
    arg,        \* its input and the values it read earlier
    dirtyRow,   \* project rows it has written and not committed
    dirtyTopic  \* topics rows it has written and not committed

vars == <<open, topic, project, pc, arg, dirtyRow, dirtyTopic>>

-----------------------------------------------------------------------------
(* Queries *)

WithStatus(rows, t, statuses) ==
    {s \in Student : rows[s] # NoRow /\ rows[s].topic = t /\ rows[s].status \in statuses}

Occupied(rows, t) == WithStatus(rows, t, SlotOccupying)
Members(rows, t)  == WithStatus(rows, t, Counted)

\* Mutant: the students to add are not counted.
HasCapacity_OffByOne(rows, t, max, additional, exclude) ==
    Cardinality(Occupied(rows, t) \ exclude) <= max

\* assertCapacity: true when the count does not make it throw.
HasCapacity(rows, t, max, additional, exclude) ==
    Cardinality(Occupied(rows, t) \ exclude) + additional <= max

\* Mutant: the last free slot is taken for a free one.
Fills_OffByOne(rows, t, max) == Cardinality(Occupied(rows, t)) > max

\* The test of decideRegistration for a topic that an approval fills.
Fills(rows, t, max) == Cardinality(Occupied(rows, t)) >= max

View(rows, written) == [s \in Student |-> IF written[s] = Clean THEN rows[s] ELSE written[s]]

NoWrites      == [s \in Student |-> Clean]
NoTopicWrites == [t \in Topic |-> Clean]
NoIds         == [s \in Student |-> NoId]
NoArg         == [op |-> "none"]

Ids(who) == [s \in Student |-> IF s \in who /\ project[s] # NoRow THEN project[s].id ELSE NoId]

Seen(t) == [max_students |-> topic[t].max_students, teacher |-> topic[t].teacher]

\* The row a handler means is still there.
Holds(r, s) == project[s] # NoRow /\ project[s].id = arg[r].ids[s]

RowFree(r, s)   == \A q \in Request \ {r} : dirtyRow[q][s] = Clean
TopicFree(r, t) == \A q \in Request \ {r} : dirtyTopic[q][t] = Clean

Running(q, op) == pc[q] # "idle" /\ arg[q].op = op

FreshId(s) == CHOOSE i \in RowId : \A q \in Request : pc[q] # "idle" => arg[q].ids[s] # i

-----------------------------------------------------------------------------
(* Steps every handler is made of *)

\* A request arrives; `step` is the first step left for it to take.
Begin(r, op, step, t, who, ids, e, lead, batch) ==
    /\ op \in Ops
    /\ pc[r] = "idle"
    /\ pc'  = [pc EXCEPT ![r] = step]
    /\ arg' = [arg EXCEPT ![r] =
                 [op |-> op, topic |-> t, who |-> who, ids |-> ids, seen |-> Seen(t),
                  edit |-> e, lead |-> lead, batch |-> batch, count |-> 0]]
    /\ UNCHANGED <<open, topic, project, dirtyRow, dirtyTopic>>

\* The updates of a transaction: `rows` and `topics` map what is not written to
\* Clean.  Every row written is locked from here on, and the transaction counts
\* the members of its topic, its own writes included.
Write(r, rows, topics) ==
    /\ pc[r] = "write"
    /\ \A s \in Student : rows[s] # Clean => RowFree(r, s)
    /\ \A t \in Topic : topics[t] # Clean => TopicFree(r, t)
    /\ dirtyRow'   = [dirtyRow EXCEPT ![r] = rows]
    /\ dirtyTopic' = [dirtyTopic EXCEPT ![r] = topics]
    /\ pc'  = [pc EXCEPT ![r] = "commit"]
    /\ arg' = [arg EXCEPT ![r].count = Cardinality(Members(View(project, rows), arg[r].topic))]
    /\ UNCHANGED <<open, topic, project>>

\* Mutant: manualAssign forgets to recompute the counter.
Recounting_NotAssign == {"register", "cancel", "approve", "reject", "force"}

\* Handlers that end with recomputeRegisteredStudents.
Recounting == {"register", "cancel", "approve", "reject", "assign", "force"}

\* Mutant: cancelRegistration takes the student off the counter, though it never counted him.
Stored_CancelSubtracts(r, t) ==
    LET base == IF dirtyTopic[r][t] = Clean THEN topic[t] ELSE dirtyTopic[r][t]
    IN  IF arg[r].op = "cancel" /\ t = arg[r].topic
        THEN [base EXCEPT !.registered_students = @ - Cardinality(arg[r].who)]
        ELSE IF arg[r].op \in Recounting /\ t = arg[r].topic
        THEN [base EXCEPT !.registered_students = arg[r].count]
        ELSE base

Stored(r, t) ==
    LET base == IF dirtyTopic[r][t] = Clean THEN topic[t] ELSE dirtyTopic[r][t]
    IN  IF arg[r].op \in Recounting /\ t = arg[r].topic
        THEN [base EXCEPT !.registered_students = arg[r].count]
        ELSE base

\* The transaction ends: its locks are released and the request is answered.
Finish(r) ==
    /\ pc'  = [pc EXCEPT ![r] = "idle"]
    /\ arg' = [arg EXCEPT ![r] = NoArg]
    /\ dirtyRow'   = [dirtyRow EXCEPT ![r] = NoWrites]
    /\ dirtyTopic' = [dirtyTopic EXCEPT ![r] = NoTopicWrites]

\* The counter is stored from the count taken before; the transaction commits.
Commit(r) ==
    /\ pc[r] = "commit"
    /\ arg[r].op \in Recounting => TopicFree(r, arg[r].topic)
    /\ topic'   = [t \in Topic |-> Stored(r, t)]
    /\ project' = View(project, dirtyRow[r])
    /\ Finish(r)
    /\ UNCHANGED open

\* An assertion throws, an update by id finds no row or a unique index refuses
\* it, PostgreSQL breaks a deadlock, or the 5 s transaction timeout strikes.
Rollback(r) ==
    /\ pc[r] # "idle"
    /\ Finish(r)
    /\ UNCHANGED <<open, topic, project>>

-----------------------------------------------------------------------------
(* registerTopic, cancelRegistration *)

RegisterRead(r, s, t) ==
    /\ topic[t].status = "APPROVED" /\ ~topic[t].locked
    /\ "STUDENT_REGISTRATION" \in open
    /\ Begin(r, "register", "check", t, {s}, NoIds, NoEdit, {}, {})

\* max_students is the one read before the transaction.
RegisterCheck(r) ==
    /\ pc[r] = "check" /\ arg[r].op = "register"
    /\ \A s \in arg[r].who : project[s] # NoRow => project[s].status \notin SlotOccupying
    /\ HasCapacity(project, arg[r].topic, arg[r].seen.max_students, 1, arg[r].who)
    /\ arg' = [arg EXCEPT ![r].ids = Ids(arg[r].who)]
    /\ pc'  = [pc EXCEPT ![r] = "write"]
    /\ UNCHANGED <<open, topic, project, dirtyRow, dirtyTopic>>

\* The row a registration or an assignment leaves: the student's old row, moved
\* to the topic with its is_leader kept, or a new one.
PlacedRow(r, s, status) ==
    [id        |-> IF arg[r].ids[s] = NoId THEN FreshId(s) ELSE arg[r].ids[s],
     topic     |-> arg[r].topic,
     teacher   |-> arg[r].seen.teacher,
     status    |-> status,
     is_leader |-> IF arg[r].ids[s] = NoId THEN FALSE ELSE project[s].is_leader]

Place(r, status) ==
    /\ \A s \in arg[r].who : IF arg[r].ids[s] = NoId THEN project[s] = NoRow ELSE Holds(r, s)
    /\ Write(r, [s \in Student |-> IF s \in arg[r].who THEN PlacedRow(r, s, status) ELSE Clean],
             NoTopicWrites)

RegisterWrite(r) == Running(r, "register") /\ Place(r, "PENDING")

CancelRead(r, s, t) ==
    /\ project[s] # NoRow /\ project[s].topic = t /\ project[s].status = "PENDING"
    /\ Begin(r, "cancel", "write", t, {s}, Ids({s}), NoEdit, {}, {})

\* DELETE by id: the status read before is not looked at again.
CancelWrite(r) ==
    /\ Running(r, "cancel")
    /\ \A s \in arg[r].who : Holds(r, s)
    /\ Write(r, [s \in Student |-> IF s \in arg[r].who THEN NoRow ELSE Clean], NoTopicWrites)

-----------------------------------------------------------------------------
(* decideRegistration *)

DecideRead(r, s, t, op, step) ==
    /\ project[s] # NoRow /\ project[s].topic = t
    /\ project[s].teacher = topic[t].teacher
    /\ project[s].status \in {"PENDING", "WAITING_SECRETARY"}
    /\ "TEACHER_APPROVAL" \in open
    /\ Begin(r, op, step, t, {s}, Ids({s}), NoEdit, {}, {})

ApproveRead(r, s, t) == DecideRead(r, s, t, "approve", "check")
RejectRead(r, s, t)  == DecideRead(r, s, t, "reject", "write")

ApproveCheck(r) ==
    /\ pc[r] = "check" /\ arg[r].op = "approve"
    /\ LET t == arg[r].topic
       IN  /\ HasCapacity(project, t, topic[t].max_students, 1,
                          {s \in arg[r].who : Holds(r, s)})
           /\ arg' = [arg EXCEPT ![r].seen = Seen(t)]
    /\ pc' = [pc EXCEPT ![r] = "write"]
    /\ UNCHANGED <<open, topic, project, dirtyRow, dirtyTopic>>

Decided(r, status) ==
    [s \in Student |-> IF s \in arg[r].who THEN [project[s] EXCEPT !.status = status] ELSE Clean]

\* The approval, and the automatic rejection of whoever still waits on a topic
\* that it fills.  Both updates are by id or by topic: neither looks at the
\* status or the topic that the handler read before.
ApproveWrite(r) ==
    /\ Running(r, "approve")
    /\ \A s \in arg[r].who : Holds(r, s)
    /\ LET t     == arg[r].topic
           after == View(project, Decided(r, "APPROVED"))
           turned == IF Fills(after, t, arg[r].seen.max_students) THEN WithStatus(after, t, {"PENDING"}) ELSE {}
       IN  Write(r, [s \in Student |-> IF s \in turned
                                       THEN [project[s] EXCEPT !.status = "REJECTED"]
                                       ELSE Decided(r, "APPROVED")[s]],
                 NoTopicWrites)

RejectWrite(r) ==
    /\ Running(r, "reject")
    /\ \A s \in arg[r].who : Holds(r, s)
    /\ Write(r, Decided(r, "REJECTED"), NoTopicWrites)

-----------------------------------------------------------------------------
(* manualAssign *)

AssignCheck(r, who, t) ==
    /\ topic[t].status = "APPROVED" /\ ~topic[t].locked
    /\ Cardinality(who) \in 1 .. MaxBatch
    /\ \A s \in who : project[s] # NoRow => project[s].status \notin SlotOccupying
    /\ HasCapacity(project, t, topic[t].max_students, Cardinality(who), {})
    /\ Begin(r, "assign", "write", t, who, Ids(who), NoEdit, {}, {})

AssignWrite(r) == Running(r, "assign") /\ Place(r, "ASSIGNED")

-----------------------------------------------------------------------------
(* updateTopic, forceUpdate, bulkModeration *)

TopicEdits(batch, e) == [t \in Topic |-> IF t \in batch THEN Edited(topic[t], e) ELSE Clean]

\* The teacher edits the topic.  The limit is checked against the occupied slots
\* only when the topic is APPROVED; saving the text of an APPROVED topic sends it
\* back to PENDING.
UpdateRead(r, t, e) ==
    /\ ~topic[t].locked
    /\ "TOPIC_CREATION" \in open
    /\ \/ /\ e.field = "max_students"
          /\ topic[t].status = "APPROVED" => Cardinality(Occupied(project, t)) <= e.to
       \/ e = [field |-> "status", to |-> "PENDING"] /\ topic[t].status = "APPROVED"
    /\ Begin(r, "update", "write", t, {}, NoIds, e, {}, {t})

\* Mutant: the supervisor can be replaced while students are on the topic.
ForceCheck_AnyTeacher(r, t, e) ==
    /\ e.field = "max_students" => Cardinality(Occupied(project, t)) <= e.to
    /\ Begin(r, "force", "write", t, {}, NoIds, e, {}, {t})

\* The secretary edits a column; each column has its own test, on its own.
ForceCheck(r, t, e) ==
    /\ e.field = "max_students" => Cardinality(Occupied(project, t)) <= e.to
    /\ e.field = "teacher" /\ e.to # topic[t].teacher
          => WithStatus(project, t, ProjectStatus \ {"REJECTED"}) = {}
    /\ Begin(r, "force", "write", t, {}, NoIds, e, {}, {t})

EditWrite(r) ==
    /\ Running(r, "update") \/ Running(r, "force")
    /\ Write(r, NoWrites, TopicEdits(arg[r].batch, arg[r].edit))

BulkCheck(r, batch, t, verdict) ==
    /\ t \in batch
    /\ Begin(r, "bulk", "write", t, {}, NoIds, [field |-> "status", to |-> verdict], {}, batch)

\* Mutant: an approval of the topics takes the PENDING requests along as well.
BulkWrite_AnyVerdict(r) ==
    /\ Running(r, "bulk")
    /\ LET turned == UNION {WithStatus(project, t, {"PENDING"}) : t \in arg[r].batch}
       IN  Write(r, [s \in Student |-> IF s \in turned
                                       THEN [project[s] EXCEPT !.status = "REJECTED"]
                                       ELSE Clean],
                 TopicEdits(arg[r].batch, arg[r].edit))

\* Whatever the topics' state is; a rejection takes the PENDING requests along.
BulkWrite(r) ==
    /\ Running(r, "bulk")
    /\ LET turned == IF arg[r].edit.to = "REJECTED"
                     THEN UNION {WithStatus(project, t, {"PENDING"}) : t \in arg[r].batch}
                     ELSE {}
       IN  Write(r, [s \in Student |-> IF s \in turned
                                       THEN [project[s] EXCEPT !.status = "REJECTED"]
                                       ELSE Clean],
                 TopicEdits(arg[r].batch, arg[r].edit))

-----------------------------------------------------------------------------
(* lockWithAssignments, changeLeader *)

\* The list of assignments names any rows and any number of leaders among them,
\* as long as the APPROVED rows of the topic, if there are some, are all in it and
\* then exactly one row is marked.
LockRead(r, t, who, lead) ==
    /\ topic[t].status = "APPROVED" /\ ~topic[t].locked
    /\ WithStatus(project, t, {"APPROVED"}) \subseteq who
    /\ WithStatus(project, t, {"APPROVED"}) # {} => Cardinality(lead) = 1
    /\ Begin(r, "lock", "write", t, who, Ids(who), [field |-> "locked", to |-> TRUE], lead, {t})

LockWrite(r) ==
    /\ Running(r, "lock")
    /\ \A s \in arg[r].who : Holds(r, s)
    /\ Write(r, [s \in Student |-> IF s \in arg[r].who
                                   THEN [project[s] EXCEPT !.is_leader = (s \in arg[r].lead)]
                                   ELSE Clean],
             TopicEdits(arg[r].batch, arg[r].edit))

LeaderRead(r, s, t) ==
    /\ project[s] # NoRow /\ project[s].topic = t
    /\ project[s].teacher = topic[t].teacher
    /\ project[s].status \in SlotOccupying
    /\ Begin(r, "leader", "check", t, {s}, Ids({s}), NoEdit, {s}, {})

Leaders(rows, t) == {s \in WithStatus(rows, t, ProjectStatus) : rows[s].is_leader}

\* Mutant: nobody is demoted.
Demoted_None(r) == {}

\* The rows that updateMany demotes.  It picks them when it starts, waits for
\* their locks, and skips those that do not match any more.
Demoted(r) == (arg[r].who \ arg[r].lead) \cap Leaders(project, arg[r].topic)

LeaderCheck(r) ==
    /\ pc[r] = "check" /\ arg[r].op = "leader"
    /\ arg' = [arg EXCEPT ![r].who = @ \cup Leaders(project, arg[r].topic)]
    /\ pc'  = [pc EXCEPT ![r] = "write"]
    /\ UNCHANGED <<open, topic, project, dirtyRow, dirtyTopic>>

LeaderWrite(r) ==
    /\ Running(r, "leader")
    /\ \A s \in arg[r].lead : Holds(r, s)
    /\ Write(r, [s \in Student |-> IF s \in Demoted(r) \cup arg[r].lead
                                   THEN [project[s] EXCEPT !.is_leader = (s \in arg[r].lead)]
                                   ELSE Clean],
             NoTopicWrites)

-----------------------------------------------------------------------------
(* The clock, the administrator who moves deadlines, and the hourly job *)

Expire ==
    /\ \E g \in open \cap Moving : open' = open \ {g}
    /\ UNCHANGED <<topic, project, pc, arg, dirtyRow, dirtyTopic>>

\* updateConfig moves a deadline into the future, or disables it.
Extend ==
    /\ \E g \in Moving \ open : open' = open \cup {g}
    /\ UNCHANGED <<topic, project, pc, arg, dirtyRow, dirtyTopic>>

\* Mutant: the job also waits for the end of the registration.
ApprovalOver_AfterRegistration ==
    "TEACHER_APPROVAL" \notin open /\ "STUDENT_REGISTRATION" \notin open

\* The period has an enabled TEACHER_APPROVAL deadline that has passed.
ApprovalOver == "TEACHER_APPROVAL" \notin open

Late == {s \in Student : project[s] # NoRow /\ project[s].status = "PENDING"}

\* escalatePendingRegistrations: one UPDATE of every PENDING row.  It waits for the
\* locks of the rows; the step is its commit, when no other transaction has one.
Escalate ==
    /\ ApprovalOver
    /\ Late # {}
    /\ \A s \in Late, q \in Request : dirtyRow[q][s] = Clean
    /\ project' = [s \in Student |-> IF s \in Late
                                    THEN [project[s] EXCEPT !.status = "WAITING_SECRETARY"]
                                    ELSE project[s]]
    /\ UNCHANGED <<open, topic, pc, arg, dirtyRow, dirtyTopic>>

-----------------------------------------------------------------------------
Init ==
    /\ open = Gate
    /\ topic \in [Topic -> [status : {"APPROVED"}, locked : {FALSE},
                            max_students : 1 .. MaxTopicLimit, registered_students : {0},
                            teacher : Teacher]]
    /\ project    = [s \in Student |-> NoRow]
    /\ pc         = [r \in Request |-> "idle"]
    /\ arg        = [r \in Request |-> NoArg]
    /\ dirtyRow   = [r \in Request |-> NoWrites]
    /\ dirtyTopic = [r \in Request |-> NoTopicWrites]

\* A request arrives and reads.
Arrive(r) ==
    \/ \E s \in Student, t \in Topic : \/ RegisterRead(r, s, t)
                                       \/ CancelRead(r, s, t)
                                       \/ ApproveRead(r, s, t)
                                       \/ RejectRead(r, s, t)
                                       \/ LeaderRead(r, s, t)
    \/ \E who \in SUBSET Student, t \in Topic : AssignCheck(r, who, t)
    \/ \E t \in Topic, e \in Edit : UpdateRead(r, t, e) \/ ForceCheck(r, t, e)
    \/ \E batch \in SUBSET Topic, t \in Topic, verdict \in {"APPROVED", "REJECTED"} :
          BulkCheck(r, batch, t, verdict)
    \/ \E t \in Topic :
          \E who \in SUBSET {s \in Student : project[s] # NoRow} :
             \E lead \in SUBSET who : LockRead(r, t, who, lead)

\* A request in flight goes on.
Proceed(r) ==
    \/ RegisterCheck(r) \/ RegisterWrite(r)
    \/ CancelWrite(r)
    \/ ApproveCheck(r) \/ ApproveWrite(r) \/ RejectWrite(r)
    \/ AssignWrite(r)
    \/ EditWrite(r) \/ BulkWrite(r)
    \/ LockWrite(r) \/ LeaderCheck(r) \/ LeaderWrite(r)
    \/ Commit(r)

Environment == Expire \/ Extend \/ Escalate

Next == (\E r \in Request : Arrive(r) \/ Proceed(r) \/ Rollback(r)) \/ Environment

Spec == Init /\ [][Next]_vars

\* Node runs every handler to its end, and a waiting UPDATE is granted the row
\* locks in turn, so the hourly job is not starved.
FairSpec ==
    /\ Spec
    /\ \A r \in Request : WF_vars(Proceed(r) \/ Rollback(r))
    /\ SF_vars(Escalate)

-----------------------------------------------------------------------------
(* Types *)

RowWrite   == Row \cup {NoRow, Clean}
TopicWrite == TopicRow \cup {Clean}

Arg == [op : Handlers, topic : Topic, who : SUBSET Student,
        ids : [Student -> RowId \cup {NoId}],
        seen : [max_students : 0 .. MaxTopicLimit, teacher : Teacher],
        edit : Edit \cup {NoEdit}, lead : SUBSET Student,
        batch : SUBSET Topic, count : 0 .. Cardinality(Student)]

\* The rows have the columns of the schema and the counter counts students, from none to all
\* of them; a handler at rest holds nothing, and one that has not written yet has written
\* nothing (the steps of TopicService).
TypeOK ==
    /\ open \subseteq Gate
    /\ topic \in [Topic -> TopicRow]
    /\ project \in [Student -> Row \cup {NoRow}]
    /\ pc \in [Request -> {"idle", "check", "write", "commit"}]
    /\ arg \in [Request -> Arg \cup {NoArg}]
    /\ dirtyRow \in [Request -> [Student -> RowWrite]]
    /\ dirtyTopic \in [Request -> [Topic -> TopicWrite]]
    /\ \A r \in Request :
          /\ pc[r] = "idle" <=> arg[r] = NoArg
          /\ pc[r] # "commit" => dirtyRow[r] = NoWrites /\ dirtyTopic[r] = NoTopicWrites

-----------------------------------------------------------------------------
(* What the handlers promise when requests do not overlap *)

MemberCount(t) == Cardinality(Members(project, t))

\* A step that adds a member to a topic leaves the topic within its max_students
\* (assertCapacity, in decideRegistration and manualAssign).
AdmissionWithinMax ==
    \A t \in Topic : ~(Members(project', t) \subseteq Members(project, t))
                        => Cardinality(Members(project', t)) <= topic'[t].max_students

\* Every step is such a step: no handler admits beyond max_students.
AdmissionsWithinMax == [][AdmissionWithinMax]_vars

\* registered_students is the number of APPROVED and ASSIGNED rows of the topic
\* (recomputeRegisteredStudents, called by every handler that moves a row).
CounterExact == \A t \in Topic : topic[t].registered_students = MemberCount(t)

\* No handler of the registration takes a student off a topic that accepted him:
\* a row that is APPROVED or ASSIGNED keeps its topic and stays counted
\* (the SLOT_OCCUPYING tests of registerTopic and manualAssign, the PENDING
\* filters of cancelRegistration, bulkModeration and the escalation).
MembershipKept == \A t \in Topic : Members(project, t) \subseteq Members(project', t)

\* Every step is such a step: accepted students stay accepted on their topic.
MembershipsKept == [][MembershipKept]_vars

\* An open request is addressed to the teacher who owns the topic: otherwise
\* decideRegistration refuses both teachers and nobody can answer it
\* (teacher_id copied by registerTopic, the guard of forceUpdate).
RequestHasItsTeacher ==
    \A s \in Student : project[s] # NoRow /\ project[s].status # "REJECTED"
                          => project[s].teacher = topic[project[s].topic].teacher

\* The approval that fills a topic answers everybody who waits for it: no request
\* on a topic without a free slot is PENDING once that approval has committed.
FillingApprovalAnswersAll ==
    \A r \in Request :
        /\ Running(r, "approve") /\ pc[r] = "commit" /\ pc'[r] = "idle"
        /\ project' # project
        /\ Cardinality(Occupied(project', arg[r].topic)) >= topic[arg[r].topic].max_students
        => WithStatus(project', arg[r].topic, {"PENDING"}) = {}

\* Every approval is such an approval: nobody is left waiting on a full topic.
FillingApprovalsAnswer == [][FillingApprovalAnswersAll]_vars

\* changeLeader leaves the chosen student as the only leader on the topic, whoever
\* led it before and in whatever state their rows are.
LeaderChangeLeavesOne ==
    \A r \in Request :
        /\ Running(r, "leader") /\ pc[r] = "commit" /\ pc'[r] = "idle"
        /\ project' # project
        => Leaders(project', arg[r].topic) = arg[r].lead

\* Every change of leader is such a change: never two leaders, never none.
LeaderChangesLeaveOne == [][LeaderChangeLeavesOne]_vars

-----------------------------------------------------------------------------
(* What a reader of the tables sees of it: the registry they implement *)

\* Open requests: who asks for the topic, whoever is to answer.
Asking(rows, t) == WithStatus(rows, t, {"PENDING", "WAITING_SECRETARY"})

\* The tests of registerTopic and manualAssign on the topic.
Offered(topics) == {t \in Topic : topics[t].status = "APPROVED" /\ ~topics[t].locked}

Shown(rows, topics) ==
    [asking  |-> [t \in Topic |-> Asking(rows, t)],
     members |-> [t \in Topic |-> Members(rows, t)],
     limit   |-> [t \in Topic |-> topics[t].max_students],
     offered |-> Offered(topics)]

Registry == INSTANCE TopicRegistry WITH
    registry <- Shown(project, topic),
    count    <- [t \in Topic |-> topic[t].registered_students]

\* Requests that do not overlap turn the tables from one state of the registry to the
\* next by its moves only, however their steps and the hourly job interleave: nobody is
\* moved off a topic, nobody gets on one that is full or not offered, a request ends for
\* a reason its student can be told, and the counter follows (all handlers above).
KeepsRegistry == Registry!RegistrySpec

-----------------------------------------------------------------------------
(* Why they hold: the inductive invariant of the serialised handlers *)

MovesRow  == {"register", "cancel", "approve", "reject", "assign"}
FromTopic == {"cancel", "approve", "reject"}
Admits    == {"approve", "assign"}

\* What a handler has found out is still true when it writes: the rows it means
\* are not accepted anywhere, and there is room for those it admits.
FoundStillHolds(r) ==
    LET a == arg[r]
    IN  /\ a.op \in MovesRow /\ ~(a.op = "register" /\ pc[r] = "check") =>
              \A s \in a.who : project[s] # NoRow => project[s].status \notin Counted
        /\ a.op \in FromTopic =>
              \E s \in Student : /\ a.who = {s}
                                 /\ project[s] # NoRow => project[s].topic = a.topic
        /\ a.op \in Admits /\ pc[r] = "write" =>
              MemberCount(a.topic) + Cardinality(a.who) <= topic[a.topic].max_students

\* What a transaction is about to commit loses no member, adds members to its own
\* topic only and within the limit, and was counted.
WrittenIsSound(r) ==
    LET a == arg[r]
        after(t) == Members(View(project, dirtyRow[r]), t)
    IN  \A t \in Topic :
          /\ Members(project, t) \subseteq after(t)
          /\ after(t) # Members(project, t) =>
                /\ t = a.topic /\ a.op \in Recounting
                /\ dirtyTopic[r][t] = Clean
                /\ Cardinality(after(t)) <= topic[t].max_students
          /\ a.op \in Recounting /\ t = a.topic => a.count = Cardinality(after(t))
          /\ dirtyTopic[r][t] # Clean =>
                dirtyTopic[r][t].registered_students = topic[t].registered_students

\* The inductive invariant behind CounterExact, MembershipsKept and
\* AdmissionsWithinMax when at most one handler is in flight.
SerialInv ==
    /\ TypeOK
    /\ CounterExact
    /\ \A r \in Request :
          /\ pc[r] \in {"check", "write"} => FoundStillHolds(r)
          /\ pc[r] = "commit" => WrittenIsSound(r)

-----------------------------------------------------------------------------
(* What is left of the promises when requests overlap *)

\* Overlapping admissions overbook a topic by no more than what the other requests
\* in flight can add: each passed assertCapacity before any of them committed.
OverbookingBounded ==
    \A t \in Topic :
        MemberCount(t) <= topic[t].max_students + (Cardinality(Request) - 1) * MaxBatch

\* Once TEACHER_APPROVAL has passed for good no request stays PENDING: the hourly
\* job hands it to the secretary.
NoRequestWaitsForever ==
    <>[]("TEACHER_APPROVAL" \notin open)
        => \A s \in Student : []<>(project[s] = NoRow \/ project[s].status # "PENDING")

=============================================================================
