------------------------ MODULE TopicRegistrationProofs ------------------------
(* Theorems of TopicRegistration and TopicBoards, for any number of students,  *)
(* topics, teachers and deadlines that move.  With any number of concurrent     *)
(* requests: the types, by how much a topic can be overbooked, what the lists   *)
(* offer and the boards of the faculties.  With at most one in flight (Serial), *)
(* the deadlines and the hourly job interleaving freely: the counter,           *)
(* admissions, membership, requests that can be answered and are answered, the  *)
(* leader of a topic, that the tables implement TopicRegistry, and all lists    *)
(* and boards.                                                                  *)
EXTENDS TopicBoards, FiniteSetTheorems, TLAPS

-----------------------------------------------------------------------------
(* Operators *)

\* A query on rows finds students, finitely many of them.
LEMMA WithStatusFinite ==
    ASSUME NEW rows, NEW t, NEW statuses
    PROVE  /\ WithStatus(rows, t, statuses) \in SUBSET Student
           /\ IsFiniteSet(WithStatus(rows, t, statuses))
           /\ Cardinality(WithStatus(rows, t, statuses)) \in 0 .. Cardinality(Student)
<1>1. WithStatus(rows, t, statuses) \in SUBSET Student
  BY DEF WithStatus
<1>2. IsFiniteSet(Student)
  BY TopicRegistrationAssumption
<1>3. /\ IsFiniteSet(WithStatus(rows, t, statuses))
      /\ Cardinality(WithStatus(rows, t, statuses)) <= Cardinality(Student)
  BY <1>1, <1>2, FS_Subset
<1>4. Cardinality(Student) \in Nat /\ Cardinality(WithStatus(rows, t, statuses)) \in Nat
  BY <1>2, <1>3, FS_CardinalityType
<1> QED
  BY <1>1, <1>3, <1>4

\* The id of a new row exists (a sequence never runs out).
LEMMA FreshIdType ==
    ASSUME TypeOK, NEW s \in Student
    PROVE  FreshId(s) \in RowId
<1> DEFINE held == [q \in Request |-> IF pc[q] # "idle" THEN arg[q].ids[s] ELSE NoId]
<1>1. held \in [Request -> RowId \cup {NoId}]
  <2>1. ASSUME NEW q \in Request, pc[q] # "idle"
        PROVE  arg[q].ids[s] \in RowId \cup {NoId}
    BY <2>1 DEF TypeOK, Arg
  <2> QED
    BY <2>1
<1>2. PICK i \in RowId : \A q \in Request : held[q] # i
  BY <1>1, RowIdAssumption
<1>3. \E j \in RowId : \A q \in Request : pc[q] # "idle" => arg[q].ids[s] # j
  BY <1>2
<1> QED
  BY <1>3 DEF FreshId

\* Changing a column keeps a topics row well formed.
LEMMA EditedType ==
    ASSUME NEW t \in TopicRow, NEW e \in Edit \cup {NoEdit}
    PROVE  Edited(t, e) \in TopicRow
BY TopicRegistrationAssumption DEF Edited, TopicRow, Edit, NoEdit

\* A transaction sees a row or no row for every student.
LEMMA ViewType ==
    ASSUME NEW rows \in [Student -> Row \cup {NoRow}], NEW written \in [Student -> RowWrite]
    PROVE  View(rows, written) \in [Student -> Row \cup {NoRow}]
BY DEF View, RowWrite

-----------------------------------------------------------------------------
(* Types *)

LEMMA NoWritesType ==
    /\ NoWrites \in [Student -> RowWrite]
    /\ NoTopicWrites \in [Topic -> TopicWrite]
    /\ NoIds \in [Student -> RowId \cup {NoId}]
    /\ NoArg \notin Arg
BY DEF NoWrites, NoTopicWrites, NoIds, NoArg, Arg, Handlers, RowWrite, TopicWrite

LEMMA TypeInit == Init => TypeOK
<1> SUFFICES ASSUME Init PROVE TypeOK
  OBVIOUS
<1>1. 0 \in 0 .. Cardinality(Student) /\ 1 .. MaxTopicLimit \subseteq 0 .. MaxTopicLimit
  BY TopicRegistrationAssumption, FS_CardinalityType
<1>2. topic \in [Topic -> TopicRow]
  BY <1>1 DEF Init, TopicRow, TopicStatus
<1> QED
  BY <1>2, NoWritesType DEF Init, TypeOK

\* A request that arrives brings well-formed input.
LEMMA TypeBegin ==
    ASSUME TypeOK, NEW r \in Request, NEW op, NEW step \in {"check", "write"},
           NEW t \in Topic, NEW who \in SUBSET Student,
           NEW ids \in [Student -> RowId \cup {NoId}], NEW e \in Edit \cup {NoEdit},
           NEW lead \in SUBSET Student, NEW batch \in SUBSET Topic,
           Begin(r, op, step, t, who, ids, e, lead, batch)
    PROVE  TypeOK'
<1> DEFINE a == [op |-> op, topic |-> t, who |-> who, ids |-> ids, seen |-> Seen(t),
                 edit |-> e, lead |-> lead, batch |-> batch, count |-> 0]
<1>1. op \in Handlers
  BY TopicRegistrationAssumption DEF Begin
<1>2. 0 \in 0 .. Cardinality(Student)
  BY TopicRegistrationAssumption, FS_CardinalityType
<1>3. Seen(t) \in [max_students : 0 .. MaxTopicLimit, teacher : Teacher]
  BY DEF Seen, TypeOK, TopicRow
<1>4. a \in Arg
  BY <1>1, <1>2, <1>3 DEF Arg
<1>5. a # NoArg
  BY <1>4, NoWritesType
<1>6. /\ pc' = [pc EXCEPT ![r] = step] /\ arg' = [arg EXCEPT ![r] = a] /\ pc[r] = "idle"
      /\ UNCHANGED <<open, topic, project, dirtyRow, dirtyTopic>>
  BY DEF Begin
<1> HIDE DEF a
<1> QED
  BY <1>4, <1>5, <1>6 DEF TypeOK

\* Writing well-formed rows keeps the types.
LEMMA TypeWrite ==
    ASSUME TypeOK, NEW r \in Request,
           NEW rows \in [Student -> RowWrite], NEW topics \in [Topic -> TopicWrite],
           Write(r, rows, topics)
    PROVE  TypeOK'
<1> DEFINE n == Cardinality(Members(View(project, rows), arg[r].topic))
<1>1. n \in 0 .. Cardinality(Student)
  BY WithStatusFinite DEF Members
<1>2. arg[r] \in Arg /\ arg[r] # NoArg
  BY DEF Write, TypeOK
<1>3. [arg[r] EXCEPT !.count = n] \in Arg
  BY <1>1, <1>2 DEF Arg
<1>4. [arg[r] EXCEPT !.count = n] # NoArg
  BY <1>3, NoWritesType
<1>5. /\ pc' = [pc EXCEPT ![r] = "commit"]
      /\ arg' = [arg EXCEPT ![r] = [arg[r] EXCEPT !.count = n]]
      /\ dirtyRow' = [dirtyRow EXCEPT ![r] = rows]
      /\ dirtyTopic' = [dirtyTopic EXCEPT ![r] = topics]
      /\ UNCHANGED <<open, topic, project>>
  BY DEF Write, TypeOK
<1> HIDE DEF n
<1> QED
  BY <1>3, <1>4, <1>5 DEF TypeOK

\* Going on to the next step with refined input keeps the types.
LEMMA TypeStep ==
    ASSUME TypeOK, NEW r \in Request, NEW a \in Arg,
           pc[r] = "check", pc' = [pc EXCEPT ![r] = "write"], arg' = [arg EXCEPT ![r] = a],
           UNCHANGED <<open, topic, project, dirtyRow, dirtyTopic>>
    PROVE  TypeOK'
BY NoWritesType DEF TypeOK

LEMMA TypeFinish ==
    ASSUME TypeOK, NEW r \in Request, Finish(r),
           open' = open, topic' \in [Topic -> TopicRow],
           project' \in [Student -> Row \cup {NoRow}]
    PROVE  TypeOK'
BY NoWritesType DEF TypeOK, Finish

\* The ids a handler reads are ids.
LEMMA IdsType ==
    ASSUME TypeOK, NEW who
    PROVE  Ids(who) \in [Student -> RowId \cup {NoId}]
<1>1. ASSUME NEW s \in Student, project[s] # NoRow
      PROVE  project[s].id \in RowId
  BY <1>1 DEF TypeOK, Row
<1> QED
  BY <1>1 DEF Ids

LEMMA TypeArrive ==
    ASSUME TypeOK, NEW r \in Request, Arrive(r)
    PROVE  TypeOK'
<1> USE NoWritesType, IdsType
<1>1. ASSUME NEW s \in Student, NEW t \in Topic, RegisterRead(r, s, t)
      PROVE  TypeOK'
  BY <1>1, TypeBegin DEF RegisterRead
<1>2. ASSUME NEW s \in Student, NEW t \in Topic, CancelRead(r, s, t)
      PROVE  TypeOK'
  BY <1>2, TypeBegin DEF CancelRead
<1>3. ASSUME NEW s \in Student, NEW t \in Topic, ApproveRead(r, s, t)
      PROVE  TypeOK'
  BY <1>3, TypeBegin DEF ApproveRead, DecideRead
<1>4. ASSUME NEW s \in Student, NEW t \in Topic, RejectRead(r, s, t)
      PROVE  TypeOK'
  BY <1>4, TypeBegin DEF RejectRead, DecideRead
<1>5. ASSUME NEW s \in Student, NEW t \in Topic, LeaderRead(r, s, t)
      PROVE  TypeOK'
  BY <1>5, TypeBegin DEF LeaderRead
<1>6. ASSUME NEW who \in SUBSET Student, NEW t \in Topic, AssignCheck(r, who, t)
      PROVE  TypeOK'
  BY <1>6, TypeBegin DEF AssignCheck
<1>7. ASSUME NEW t \in Topic, NEW e \in Edit, UpdateRead(r, t, e) \/ ForceCheck(r, t, e)
      PROVE  TypeOK'
  BY <1>7, TypeBegin DEF UpdateRead, ForceCheck
<1>8. ASSUME NEW batch \in SUBSET Topic, NEW t \in Topic, NEW verdict \in {"APPROVED", "REJECTED"},
             BulkCheck(r, batch, t, verdict)
      PROVE  TypeOK'
  <2>1. [field |-> "status", to |-> verdict] \in Edit
    BY DEF Edit, TopicStatus
  <2> QED
    BY <1>8, <2>1, TypeBegin DEF BulkCheck
<1>9. ASSUME NEW t \in Topic, NEW who \in SUBSET {s \in Student : project[s] # NoRow},
             NEW lead \in SUBSET who, LockRead(r, t, who, lead)
      PROVE  TypeOK'
  <2>1. [field |-> "locked", to |-> TRUE] \in Edit
    BY DEF Edit
  <2>2. who \in SUBSET Student /\ lead \in SUBSET Student
    BY DEF WithStatus
  <2> QED
    BY <1>9, <2>1, <2>2, TypeBegin DEF LockRead
<1> QED
  BY <1>1, <1>2, <1>3, <1>4, <1>5, <1>6, <1>7, <1>8, <1>9 DEF Arrive

\* A handler in flight has well-formed input; a row it holds exists.
LEMMA InFlight ==
    ASSUME TypeOK, NEW r \in Request, pc[r] # "idle"
    PROVE  /\ arg[r] \in Arg
           /\ arg[r].who \subseteq Student
           /\ \A s \in Student : arg[r].ids[s] \in RowId \cup {NoId}
           /\ \A s \in Student : Holds(r, s) => project[s] \in Row
BY DEF TypeOK, Arg, Holds

\* A row with another status or another leader flag is a row.
LEMMA RowUpdates ==
    ASSUME NEW row \in Row
    PROVE  /\ \A status \in ProjectStatus : [row EXCEPT !.status = status] \in Row
           /\ \A b \in BOOLEAN : [row EXCEPT !.is_leader = b] \in Row
BY DEF Row

LEMMA TypePlace ==
    ASSUME TypeOK, NEW r \in Request, NEW status \in ProjectStatus, Place(r, status)
    PROVE  TypeOK'
<1> DEFINE rows == [s \in Student |-> IF s \in arg[r].who THEN PlacedRow(r, s, status) ELSE Clean]
<1>1. pc[r] # "idle" /\ Write(r, rows, NoTopicWrites)
  BY DEF Place, Write
<1>2. ASSUME NEW s \in Student, s \in arg[r].who
      PROVE  PlacedRow(r, s, status) \in Row
  <2>1. arg[r] \in Arg /\ arg[r].ids[s] \in RowId \cup {NoId}
    BY <1>1, InFlight
  <2>2. arg[r].topic \in Topic /\ arg[r].seen.teacher \in Teacher
    BY <2>1 DEF Arg
  <2>3. FreshId(s) \in RowId
    BY FreshIdType
  <2>4. arg[r].ids[s] # NoId => project[s] \in Row
    BY <1>1, <1>2, InFlight DEF Place
  <2> QED
    BY <2>1, <2>2, <2>3, <2>4 DEF PlacedRow, Row
<1>3. rows \in [Student -> RowWrite]
  BY <1>2 DEF RowWrite
<1> HIDE DEF rows
<1> QED
  BY <1>1, <1>3, NoWritesType, TypeWrite

LEMMA TypeDecided ==
    ASSUME TypeOK, NEW r \in Request, pc[r] # "idle", NEW status \in ProjectStatus,
           \A s \in arg[r].who : Holds(r, s)
    PROVE  Decided(r, status) \in [Student -> RowWrite]
<1>1. ASSUME NEW s \in Student, s \in arg[r].who
      PROVE  [project[s] EXCEPT !.status = status] \in Row
  BY <1>1, InFlight, RowUpdates
<1> QED
  BY <1>1 DEF Decided, RowWrite

LEMMA TypeApproveWrite ==
    ASSUME TypeOK, NEW r \in Request, ApproveWrite(r)
    PROVE  TypeOK'
<1> DEFINE t == arg[r].topic
           after == View(project, Decided(r, "APPROVED"))
           turned == IF Fills(after, t, arg[r].seen.max_students)
                     THEN WithStatus(after, t, {"PENDING"}) ELSE {}
           rows == [s \in Student |-> IF s \in turned
                                      THEN [project[s] EXCEPT !.status = "REJECTED"]
                                      ELSE Decided(r, "APPROVED")[s]]
<1>1. pc[r] # "idle" /\ Write(r, rows, NoTopicWrites) /\ \A s \in arg[r].who : Holds(r, s)
  BY DEF ApproveWrite, Write
<1>2. Decided(r, "APPROVED") \in [Student -> RowWrite]
  BY <1>1, TypeDecided DEF ProjectStatus
<1>3. ASSUME NEW s \in Student, s \in turned
      PROVE  [project[s] EXCEPT !.status = "REJECTED"] \in Row
  <2>1. after[s] # NoRow /\ after[s].status = "PENDING"
    BY <1>3 DEF WithStatus
  <2>2. CASE s \in arg[r].who
    <3>1. project[s] \in Row
      BY <1>1, <2>2, InFlight
    <3> QED
      BY <3>1, RowUpdates DEF ProjectStatus
  <2>3. CASE s \notin arg[r].who
    <3>1. after[s] = project[s]
      BY <2>3 DEF View, Decided
    <3>2. project[s] \in Row
      BY <2>1, <3>1 DEF TypeOK
    <3> QED
      BY <3>2, RowUpdates DEF ProjectStatus
  <2> QED
    BY <2>2, <2>3
<1> HIDE DEF turned
<1>4. rows \in [Student -> RowWrite]
  BY <1>2, <1>3 DEF RowWrite
<1> HIDE DEF rows
<1> QED
  BY <1>1, <1>4, NoWritesType, TypeWrite

LEMMA TypeTopicEdits ==
    ASSUME TypeOK, NEW r \in Request, pc[r] # "idle"
    PROVE  TopicEdits(arg[r].batch, arg[r].edit) \in [Topic -> TopicWrite]
<1>1. arg[r].edit \in Edit \cup {NoEdit}
  BY InFlight DEF Arg
<1>2. \A t \in Topic : Edited(topic[t], arg[r].edit) \in TopicRow
  BY <1>1, EditedType DEF TypeOK
<1> QED
  BY <1>2 DEF TopicEdits, TopicWrite

LEMMA TypeBulkWrite ==
    ASSUME TypeOK, NEW r \in Request, BulkWrite(r)
    PROVE  TypeOK'
<1> DEFINE turned == IF arg[r].edit.to = "REJECTED"
                     THEN UNION {WithStatus(project, t, {"PENDING"}) : t \in arg[r].batch}
                     ELSE {}
           rows == [s \in Student |-> IF s \in turned
                                      THEN [project[s] EXCEPT !.status = "REJECTED"]
                                      ELSE Clean]
<1>1. pc[r] # "idle" /\ Write(r, rows, TopicEdits(arg[r].batch, arg[r].edit))
  BY DEF BulkWrite, Write
<1>2. ASSUME NEW s \in Student, s \in turned
      PROVE  [project[s] EXCEPT !.status = "REJECTED"] \in Row
  <2>1. project[s] # NoRow
    BY <1>2 DEF WithStatus
  <2>2. project[s] \in Row
    BY <2>1 DEF TypeOK
  <2> QED
    BY <2>2, RowUpdates DEF ProjectStatus
<1> HIDE DEF turned
<1>3. rows \in [Student -> RowWrite]
  BY <1>2 DEF RowWrite
<1> HIDE DEF rows
<1> QED
  BY <1>1, <1>3, TypeTopicEdits, TypeWrite

\* Whether a row is in the list of leaders is a Boolean to write.
LEMMA FlagIsBoolean ==
    ASSUME NEW row, NEW s, NEW lead
    PROVE  \E b \in BOOLEAN : [row EXCEPT !.is_leader = (s \in lead)] = [row EXCEPT !.is_leader = b]
<1>1. CASE s \in lead
  <2>1. (s \in lead) = TRUE
    BY <1>1
  <2>2. [row EXCEPT !.is_leader = (s \in lead)] = [row EXCEPT !.is_leader = TRUE]
    BY <2>1, Zenon
  <2> QED
    BY <2>2
<1>2. CASE s \notin lead
  <2>1. (s \in lead) = FALSE
    BY <1>2
  <2>2. [row EXCEPT !.is_leader = (s \in lead)] = [row EXCEPT !.is_leader = FALSE]
    BY <2>1, Zenon
  <2> QED
    BY <2>2
<1> QED
  BY <1>1, <1>2

\* Setting leader flags on rows that exist.
LEMMA TypeLeaderFlags ==
    ASSUME TypeOK, NEW who \in SUBSET Student, NEW lead, \A s \in who : project[s] # NoRow
    PROVE  [s \in Student |-> IF s \in who THEN [project[s] EXCEPT !.is_leader = (s \in lead)]
                              ELSE Clean] \in [Student -> RowWrite]
<1>1. ASSUME NEW s \in Student, s \in who
      PROVE  [project[s] EXCEPT !.is_leader = (s \in lead)] \in Row
  <2>1. project[s] \in Row
    BY <1>1 DEF TypeOK
  <2>2. PICK b \in BOOLEAN :
           [project[s] EXCEPT !.is_leader = (s \in lead)] = [project[s] EXCEPT !.is_leader = b]
    BY FlagIsBoolean, Zenon
  <2>3. [project[s] EXCEPT !.is_leader = b] \in Row
    BY <2>1, RowUpdates
  <2> QED
    BY <2>2, <2>3, Zenon
<1> QED
  BY <1>1 DEF RowWrite

LEMMA TypeCommit ==
    ASSUME TypeOK, NEW r \in Request, Commit(r)
    PROVE  TypeOK'
<1>1. pc[r] # "idle"
  BY DEF Commit
<1>2. arg[r].count \in 0 .. Cardinality(Student)
  BY <1>1, InFlight DEF Arg
<1>3. ASSUME NEW t \in Topic
      PROVE  Stored(r, t) \in TopicRow
  <2> DEFINE base == IF dirtyTopic[r][t] = Clean THEN topic[t] ELSE dirtyTopic[r][t]
  <2>1. base \in TopicRow
    BY DEF TypeOK, TopicWrite
  <2>2. [base EXCEPT !.registered_students = arg[r].count] \in TopicRow
    BY <1>2, <2>1 DEF TopicRow
  <2> QED
    BY <2>1, <2>2 DEF Stored
<1>4. View(project, dirtyRow[r]) \in [Student -> Row \cup {NoRow}]
  BY ViewType DEF TypeOK
<1> QED
  BY <1>3, <1>4, TypeFinish DEF Commit

LEMMA TypeProceed ==
    ASSUME TypeOK, NEW r \in Request, Proceed(r)
    PROVE  TypeOK'
<1>1. CASE RegisterCheck(r)
  <2>1. arg[r] \in Arg /\ Ids(arg[r].who) \in [Student -> RowId \cup {NoId}]
    BY <1>1, InFlight, IdsType DEF RegisterCheck
  <2>2. [arg[r] EXCEPT !.ids = Ids(arg[r].who)] \in Arg
    BY <2>1 DEF Arg
  <2>3. arg' = [arg EXCEPT ![r] = [arg[r] EXCEPT !.ids = Ids(arg[r].who)]]
    BY <1>1 DEF RegisterCheck, TypeOK
  <2> QED
    BY <1>1, <2>2, <2>3, TypeStep DEF RegisterCheck
<1>2. CASE RegisterWrite(r)
  BY <1>2, TypePlace DEF RegisterWrite, ProjectStatus
<1>3. CASE CancelWrite(r)
  <2>1. [s \in Student |-> IF s \in arg[r].who THEN NoRow ELSE Clean] \in [Student -> RowWrite]
    BY DEF RowWrite
  <2> QED
    BY <1>3, <2>1, NoWritesType, TypeWrite DEF CancelWrite
<1>4. CASE ApproveCheck(r)
  <2>1. arg[r] \in Arg
    BY <1>4, InFlight DEF ApproveCheck
  <2>2. Seen(arg[r].topic) \in [max_students : 0 .. MaxTopicLimit, teacher : Teacher]
    BY <2>1 DEF Seen, Arg, TypeOK, TopicRow
  <2>3. [arg[r] EXCEPT !.seen = Seen(arg[r].topic)] \in Arg
    BY <2>1, <2>2 DEF Arg
  <2>4. arg' = [arg EXCEPT ![r] = [arg[r] EXCEPT !.seen = Seen(arg[r].topic)]]
    BY <1>4 DEF ApproveCheck, TypeOK
  <2> QED
    BY <1>4, <2>3, <2>4, TypeStep DEF ApproveCheck
<1>5. CASE ApproveWrite(r)
  BY <1>5, TypeApproveWrite
<1>6. CASE RejectWrite(r)
  <2>1. pc[r] # "idle"
    BY <1>6 DEF RejectWrite, Write
  <2>2. Decided(r, "REJECTED") \in [Student -> RowWrite]
    BY <1>6, <2>1, TypeDecided DEF RejectWrite, ProjectStatus
  <2> QED
    BY <1>6, <2>2, NoWritesType, TypeWrite DEF RejectWrite
<1>7. CASE AssignWrite(r)
  BY <1>7, TypePlace DEF AssignWrite, ProjectStatus
<1>8. CASE EditWrite(r)
  <2>1. pc[r] # "idle"
    BY <1>8 DEF EditWrite, Write
  <2> QED
    BY <1>8, <2>1, TypeTopicEdits, NoWritesType, TypeWrite DEF EditWrite
<1>9. CASE BulkWrite(r)
  BY <1>9, TypeBulkWrite
<1>10. CASE LockWrite(r)
  <2>1. pc[r] # "idle" /\ \A s \in arg[r].who : Holds(r, s)
    BY <1>10 DEF LockWrite, Write
  <2>2. arg[r].who \in SUBSET Student /\ \A s \in arg[r].who : project[s] # NoRow
    BY <2>1, InFlight DEF Holds
  <2> QED
    BY <1>10, <2>1, <2>2, TypeLeaderFlags, TypeTopicEdits, TypeWrite DEF LockWrite
<1>11. CASE LeaderCheck(r)
  <2>1. arg[r] \in Arg
    BY <1>11, InFlight DEF LeaderCheck
  <2>2. Leaders(project, arg[r].topic) \subseteq Student
    BY DEF Leaders, WithStatus
  <2>3. [arg[r] EXCEPT !.who = @ \cup Leaders(project, arg[r].topic)] \in Arg
    BY <2>1, <2>2 DEF Arg
  <2>4. arg' = [arg EXCEPT ![r] = [arg[r] EXCEPT !.who = @ \cup Leaders(project, arg[r].topic)]]
    BY <1>11 DEF LeaderCheck, TypeOK
  <2> QED
    BY <1>11, <2>3, <2>4, TypeStep DEF LeaderCheck
<1>12. CASE LeaderWrite(r)
  <2>1. pc[r] # "idle" /\ (\A s \in arg[r].lead : project[s] # NoRow)
    BY <1>12 DEF LeaderWrite, Write, Holds
  <2> DEFINE who == (Demoted(r) \cup arg[r].lead) \cap Student
             rows == [s \in Student |-> IF s \in Demoted(r) \cup arg[r].lead
                                        THEN [project[s] EXCEPT !.is_leader = (s \in arg[r].lead)]
                                        ELSE Clean]
  <2>2. who \in SUBSET Student /\ \A s \in who : project[s] # NoRow
    BY <2>1 DEF Demoted, Leaders, WithStatus
  <2>3. rows = [s \in Student |-> IF s \in who
                                  THEN [project[s] EXCEPT !.is_leader = (s \in arg[r].lead)]
                                  ELSE Clean]
    OBVIOUS
  <2>4. Write(r, rows, NoTopicWrites)
    BY <1>12 DEF LeaderWrite
  <2> HIDE DEF who, rows
  <2>5. rows \in [Student -> RowWrite]
    BY <2>2, <2>3, TypeLeaderFlags
  <2> QED
    BY <2>4, <2>5, NoWritesType, TypeWrite
<1>13. CASE Commit(r)
  BY <1>13, TypeCommit
<1> QED
  BY <1>1, <1>2, <1>3, <1>4, <1>5, <1>6, <1>7, <1>8, <1>9, <1>10, <1>11, <1>12, <1>13
     DEF Proceed

LEMMA TypeEnvironment ==
    ASSUME TypeOK, Environment
    PROVE  TypeOK'
<1>1. CASE Expire
  BY <1>1 DEF Expire, TypeOK
<1>2. CASE Extend
  BY <1>2, TopicRegistrationAssumption DEF Extend, TypeOK
<1>3. CASE Escalate
  <2>2. ASSUME NEW s \in Late
        PROVE  [project[s] EXCEPT !.status = "WAITING_SECRETARY"] \in Row
    <3>1. project[s] \in Row
      BY DEF Late, TypeOK
    <3> QED
      BY <3>1, RowUpdates DEF ProjectStatus
  <2>3. project' \in [Student -> Row \cup {NoRow}]
    BY <1>3, <2>2 DEF Escalate, TypeOK
  <2> QED
    BY <1>3, <2>3 DEF Escalate, TypeOK
<1> QED
  BY <1>1, <1>2, <1>3 DEF Environment

LEMMA TypeNext == TypeOK /\ [Next]_vars => TypeOK'
<1> SUFFICES ASSUME TypeOK, [Next]_vars PROVE TypeOK'
  OBVIOUS
<1>1. ASSUME NEW r \in Request, Arrive(r)
      PROVE  TypeOK'
  BY <1>1, TypeArrive
<1>2. ASSUME NEW r \in Request, Proceed(r)
      PROVE  TypeOK'
  BY <1>2, TypeProceed
<1>3. ASSUME NEW r \in Request, Rollback(r)
      PROVE  TypeOK'
  BY <1>3, TypeFinish DEF Rollback, TypeOK
<1>4. CASE Environment
  BY <1>4, TypeEnvironment
<1>5. CASE UNCHANGED vars
  BY <1>5 DEF vars, TypeOK
<1> QED
  BY <1>1, <1>2, <1>3, <1>4, <1>5 DEF Next

\* Every reachable state of the handlers and the hourly job is well typed: a row
\* that a handler changes exists, a count fits, and only a transaction that has
\* written holds locks.
THEOREM TypeCorrect == Spec => []TypeOK
<1>1. Init => TypeOK
  BY TypeInit
<1>2. TypeOK /\ [Next]_vars => TypeOK'
  BY TypeNext
<1> QED
  BY <1>1, <1>2, PTL DEF Spec

-----------------------------------------------------------------------------
(* Serialised handlers: at most one request is in flight *)

Serial == \A p, q \in Request : p = q

LEMMA Statuses ==
    /\ Counted \subseteq SlotOccupying
    /\ "PENDING" \notin SlotOccupying /\ "REJECTED" \notin SlotOccupying
    /\ "WAITING_SECRETARY" \notin Counted
    /\ "APPROVED" \in Counted /\ "ASSIGNED" \in Counted
BY DEF Counted, SlotOccupying

\* Membership after a transaction's writes, student by student.
LEMMA MembersOfView ==
    ASSUME NEW rows, NEW written, NEW t, NEW s \in Student
    PROVE  s \in Members(View(rows, written), t) <=>
              IF written[s] = Clean THEN s \in Members(rows, t)
              ELSE written[s] # NoRow /\ written[s].topic = t /\ written[s].status \in Counted
BY DEF Members, WithStatus, View

\* Writes that leave every student where he counts leave the members alone.
LEMMA SameMembers ==
    ASSUME NEW rows, NEW written, NEW t,
           \A s \in Student : written[s] # Clean =>
              (s \in Members(rows, t) <=>
                 written[s] # NoRow /\ written[s].topic = t /\ written[s].status \in Counted)
    PROVE  Members(View(rows, written), t) = Members(rows, t)
<1>1. \A s \in Student : s \in Members(View(rows, written), t) <=> s \in Members(rows, t)
  BY MembersOfView
<1>2. Members(View(rows, written), t) \subseteq Student /\ Members(rows, t) \subseteq Student
  BY WithStatusFinite DEF Members
<1> QED
  BY <1>1, <1>2

\* A request arrives having found what it needs.
LEMMA SerialBegin ==
    ASSUME Serial, SerialInv, NEW r \in Request, NEW op, NEW step \in {"check", "write"},
           NEW t, NEW who, NEW ids, NEW e, NEW lead, NEW batch,
           Begin(r, op, step, t, who, ids, e, lead, batch), TypeOK',
           op \in MovesRow /\ ~(op = "register" /\ step = "check") =>
              \A s \in who : project[s] # NoRow => project[s].status \notin Counted,
           op \in FromTopic =>
              \E s \in Student : who = {s} /\ (project[s] # NoRow => project[s].topic = t),
           op \in Admits /\ step = "write" =>
              MemberCount(t) + Cardinality(who) <= topic[t].max_students
    PROVE  SerialInv'
<1>1. CounterExact'
  BY DEF SerialInv, CounterExact, MemberCount, Begin
<1>2. pc'[r] = step /\ pc'[r] # "commit"
  BY DEF Begin, SerialInv, TypeOK
<1>3. arg'[r] = [op |-> op, topic |-> t, who |-> who, ids |-> ids, seen |-> Seen(t),
                 edit |-> e, lead |-> lead, batch |-> batch, count |-> 0]
  BY DEF Begin, SerialInv, TypeOK
<1>4. arg'[r].op = op /\ arg'[r].topic = t /\ arg'[r].who = who
  BY <1>3
<1>5. UNCHANGED <<topic, project>>
  BY DEF Begin
<1>6. FoundStillHolds(r)'
  BY <1>2, <1>4, <1>5 DEF FoundStillHolds, MemberCount
<1> QED
  BY <1>1, <1>2, <1>6 DEF SerialInv, Serial

LEMMA SerialArrive ==
    ASSUME Serial, SerialInv, NEW r \in Request, Arrive(r), TypeOK'
    PROVE  SerialInv'
<1> USE DEF MovesRow, FromTopic, Admits
<1>1. ASSUME NEW s \in Student, NEW t \in Topic, RegisterRead(r, s, t)
      PROVE  SerialInv'
  BY <1>1, SerialBegin DEF RegisterRead
<1>2. ASSUME NEW s \in Student, NEW t \in Topic, CancelRead(r, s, t)
      PROVE  SerialInv'
  BY <1>2, SerialBegin, Statuses DEF CancelRead
<1>3. ASSUME NEW s \in Student, NEW t \in Topic, ApproveRead(r, s, t)
      PROVE  SerialInv'
  BY <1>3, SerialBegin, Statuses DEF ApproveRead, DecideRead
<1>4. ASSUME NEW s \in Student, NEW t \in Topic, RejectRead(r, s, t)
      PROVE  SerialInv'
  BY <1>4, SerialBegin, Statuses DEF RejectRead, DecideRead
<1>5. ASSUME NEW s \in Student, NEW t \in Topic, LeaderRead(r, s, t)
      PROVE  SerialInv'
  BY <1>5, SerialBegin DEF LeaderRead
<1>6. ASSUME NEW who \in SUBSET Student, NEW t \in Topic, AssignCheck(r, who, t)
      PROVE  SerialInv'
  <2>1. Occupied(project, t) \ {} = Occupied(project, t)
    OBVIOUS
  <2>2. Cardinality(Occupied(project, t)) + Cardinality(who) <= topic[t].max_students
    BY <1>6, <2>1 DEF AssignCheck, HasCapacity
  <2>3. Members(project, t) \subseteq Occupied(project, t)
    BY Statuses DEF Members, Occupied, WithStatus
  <2>4. MemberCount(t) <= Cardinality(Occupied(project, t))
    BY <2>3, WithStatusFinite, FS_Subset DEF Occupied, MemberCount
  <2>5. /\ MemberCount(t) \in Nat /\ Cardinality(Occupied(project, t)) \in Nat
        /\ Cardinality(who) \in Nat /\ topic[t].max_students \in Nat
    BY WithStatusFinite, FS_CardinalityType, FS_Subset, TopicRegistrationAssumption
       DEF Occupied, Members, MemberCount, SerialInv, TypeOK, TopicRow
  <2>6. MemberCount(t) + Cardinality(who) <= topic[t].max_students
    BY <2>2, <2>4, <2>5
  <2> QED
    BY <1>6, <2>6, SerialBegin, Statuses DEF AssignCheck
<1>7. ASSUME NEW t \in Topic, NEW e \in Edit, UpdateRead(r, t, e) \/ ForceCheck(r, t, e)
      PROVE  SerialInv'
  BY <1>7, SerialBegin DEF UpdateRead, ForceCheck
<1>8. ASSUME NEW batch \in SUBSET Topic, NEW t \in Topic, NEW verdict \in {"APPROVED", "REJECTED"},
             BulkCheck(r, batch, t, verdict)
      PROVE  SerialInv'
  BY <1>8, SerialBegin DEF BulkCheck
<1>9. ASSUME NEW t \in Topic, NEW who \in SUBSET {s \in Student : project[s] # NoRow},
             NEW lead \in SUBSET who, LockRead(r, t, who, lead)
      PROVE  SerialInv'
  BY <1>9, SerialBegin DEF LockRead
<1> QED
  BY <1>1, <1>2, <1>3, <1>4, <1>5, <1>6, <1>7, <1>8, <1>9 DEF Arrive

\* The transaction writes what keeps its promises.
LEMMA SerialWrite ==
    ASSUME Serial, SerialInv, NEW r \in Request, NEW rows, NEW topics,
           Write(r, rows, topics), TypeOK',
           \A t \in Topic :
              /\ Members(project, t) \subseteq Members(View(project, rows), t)
              /\ Members(View(project, rows), t) # Members(project, t) =>
                    /\ t = arg[r].topic /\ arg[r].op \in Recounting /\ topics[t] = Clean
                    /\ Cardinality(Members(View(project, rows), t)) <= topic[t].max_students
              /\ topics[t] # Clean =>
                    topics[t].registered_students = topic[t].registered_students
    PROVE  SerialInv'
<1>1. CounterExact'
  BY DEF SerialInv, CounterExact, MemberCount, Write
<1>2. /\ pc'[r] = "commit" /\ dirtyRow'[r] = rows /\ dirtyTopic'[r] = topics
      /\ UNCHANGED <<topic, project>>
  BY DEF Write, SerialInv, TypeOK
<1>3. arg[r] \in Arg
  BY InFlight DEF SerialInv, Write
<1>4. arg'[r] = [arg[r] EXCEPT !.count = Cardinality(Members(View(project, rows), arg[r].topic))]
  BY DEF Write, SerialInv, TypeOK
<1>5. /\ arg'[r].op = arg[r].op /\ arg'[r].topic = arg[r].topic
      /\ arg'[r].count = Cardinality(Members(View(project, rows), arg[r].topic))
  BY <1>3, <1>4 DEF Arg
<1>6. WrittenIsSound(r)'
  BY <1>2, <1>5 DEF WrittenIsSound
<1> QED
  BY <1>1, <1>2, <1>6 DEF SerialInv, Serial

\* A transaction whose row updates move nobody in or out.
LEMMA SerialWriteSame ==
    ASSUME Serial, SerialInv, NEW r \in Request, NEW rows, NEW topics,
           Write(r, rows, topics), TypeOK',
           \A t \in Topic, s \in Student : rows[s] # Clean =>
              (s \in Members(project, t) <=>
                 rows[s] # NoRow /\ rows[s].topic = t /\ rows[s].status \in Counted),
           \A t \in Topic : topics[t] # Clean =>
              topics[t].registered_students = topic[t].registered_students
    PROVE  SerialInv'
<1>1. ASSUME NEW t \in Topic
      PROVE  Members(View(project, rows), t) = Members(project, t)
  BY SameMembers
<1> QED
  BY <1>1, SerialWrite

\* A transaction that admits the students it was asked to admit.
LEMMA SerialWriteAdmits ==
    ASSUME Serial, SerialInv, NEW r \in Request, NEW rows,
           Write(r, rows, NoTopicWrites), TypeOK', arg[r].op \in Admits,
           \A s \in arg[r].who : /\ rows[s] # Clean /\ rows[s] # NoRow
                                 /\ rows[s].topic = arg[r].topic /\ rows[s].status \in Counted,
           \A t \in Topic, s \in Student \ arg[r].who : rows[s] # Clean =>
              (s \in Members(project, t) <=>
                 rows[s] # NoRow /\ rows[s].topic = t /\ rows[s].status \in Counted)
    PROVE  SerialInv'
<1> DEFINE who == arg[r].who
           after(t) == Members(View(project, rows), t)
<1>1. /\ FoundStillHolds(r) /\ pc[r] = "write" /\ arg[r] \in Arg /\ who \subseteq Student
  BY InFlight DEF SerialInv, Write
<1>2. \A s \in who : project[s] # NoRow => project[s].status \notin Counted
  BY <1>1 DEF FoundStillHolds, Admits, MovesRow
<1>3. ASSUME NEW t \in Topic
      PROVE  /\ t = arg[r].topic => after(t) = Members(project, t) \cup who
             /\ t # arg[r].topic => after(t) = Members(project, t)
  <2>1. ASSUME NEW s \in Student, s \in who
        PROVE  s \notin Members(project, t) /\ (s \in after(t) <=> t = arg[r].topic)
    <3>1. s \notin Members(project, t)
      BY <1>2, <2>1 DEF Members, WithStatus
    <3> QED
      BY <2>1, <3>1, MembersOfView
  <2>2. ASSUME NEW s \in Student, s \notin who
        PROVE  s \in after(t) <=> s \in Members(project, t)
    BY <2>2, MembersOfView
  <2>3. after(t) \subseteq Student /\ Members(project, t) \subseteq Student
    BY WithStatusFinite DEF Members
  <2> HIDE DEF after
  <2>4. t = arg[r].topic => after(t) = Members(project, t) \cup who
    BY <1>1, <2>1, <2>2, <2>3
  <2>5. t # arg[r].topic => after(t) = Members(project, t)
    BY <1>1, <2>1, <2>2, <2>3
  <2> QED
    BY <2>4, <2>5
<1>4. Cardinality(after(arg[r].topic)) <= topic[arg[r].topic].max_students
  <2> DEFINE m == Members(project, arg[r].topic)
  <2>1. arg[r].topic \in Topic
    BY <1>1 DEF Arg
  <2>2. IsFiniteSet(m) /\ IsFiniteSet(who)
    BY <1>1, WithStatusFinite, TopicRegistrationAssumption, FS_Subset DEF Members
  <2>3. IsFiniteSet(m \cap who)
    BY <2>2, FS_Subset
  <2>4. Cardinality(m \cup who) = Cardinality(m) + Cardinality(who) - Cardinality(m \cap who)
    BY <2>2, FS_Union
  <2>5. /\ Cardinality(m) \in Nat /\ Cardinality(who) \in Nat /\ Cardinality(m \cap who) \in Nat
        /\ topic[arg[r].topic].max_students \in Nat
    BY <2>1, <2>2, <2>3, FS_CardinalityType, TopicRegistrationAssumption
       DEF SerialInv, TypeOK, TopicRow
  <2>6. Cardinality(m) + Cardinality(who) <= topic[arg[r].topic].max_students
    BY <1>1 DEF FoundStillHolds, MemberCount
  <2>7. after(arg[r].topic) = m \cup who
    BY <1>3, <2>1
  <2> QED
    BY <2>4, <2>5, <2>6, <2>7
<1>5. arg[r].op \in Recounting /\ \A t \in Topic : NoTopicWrites[t] = Clean
  BY DEF Admits, Recounting, NoTopicWrites
<1>6. ASSUME NEW t \in Topic
      PROVE  /\ Members(project, t) \subseteq after(t)
             /\ after(t) # Members(project, t) =>
                   t = arg[r].topic /\ Cardinality(after(t)) <= topic[t].max_students
  <2>1. CASE t = arg[r].topic
    <3>1. Members(project, t) \subseteq after(t)
      BY <1>3, <2>1
    <3> HIDE DEF after
    <3> QED
      BY <1>4, <2>1, <3>1
  <2>2. CASE t # arg[r].topic
    <3>1. after(t) = Members(project, t)
      BY <1>3, <2>2
    <3> HIDE DEF after
    <3> QED
      BY <3>1
  <2> QED
    BY <2>1, <2>2
<1> QED
  BY <1>5, <1>6, SerialWrite

\* The rows a moving handler means are no members yet.
LEMMA NotMembers ==
    ASSUME SerialInv, NEW r \in Request, pc[r] = "write", arg[r].op \in MovesRow,
           NEW s \in arg[r].who, NEW t
    PROVE  s \notin Members(project, t)
<1>1. FoundStillHolds(r)
  BY DEF SerialInv
<1>2. project[s] # NoRow => project[s].status \notin Counted
  BY <1>1 DEF FoundStillHolds
<1> QED
  BY <1>2 DEF Members, WithStatus

LEMMA NotCounted ==
    ASSUME NEW s \in Student, project[s] = NoRow \/ project[s].status \notin Counted, NEW t
    PROVE  s \notin Members(project, t)
BY DEF Members, WithStatus

LEMMA SerialRegisterWrite ==
    ASSUME Serial, SerialInv, NEW r \in Request, RegisterWrite(r), TypeOK'
    PROVE  SerialInv'
<1> DEFINE rows == [s \in Student |-> IF s \in arg[r].who THEN PlacedRow(r, s, "PENDING") ELSE Clean]
<1>1. Write(r, rows, NoTopicWrites) /\ pc[r] = "write" /\ arg[r].op = "register"
  BY DEF RegisterWrite, Place, Running, Write
<1>2. ASSUME NEW t \in Topic, NEW s \in Student, rows[s] # Clean
      PROVE  s \notin Members(project, t) /\ rows[s].status \notin Counted
  <2>1. s \in arg[r].who
    BY <1>2
  <2>2. rows[s].status = "PENDING"
    BY <2>1 DEF PlacedRow
  <2> QED
    BY <1>1, <2>1, <2>2, NotMembers, Statuses DEF MovesRow
<1>3. \A t \in Topic : NoTopicWrites[t] = Clean
  BY DEF NoTopicWrites
<1> HIDE DEF rows
<1> QED
  BY <1>1, <1>2, <1>3, SerialWriteSame

LEMMA SerialAssignWrite ==
    ASSUME Serial, SerialInv, NEW r \in Request, AssignWrite(r), TypeOK'
    PROVE  SerialInv'
<1> DEFINE rows == [s \in Student |-> IF s \in arg[r].who THEN PlacedRow(r, s, "ASSIGNED") ELSE Clean]
<1>1. Write(r, rows, NoTopicWrites) /\ pc[r] = "write" /\ arg[r].op = "assign"
  BY DEF AssignWrite, Place, Running, Write
<1>2. arg[r].who \subseteq Student
  BY <1>1, InFlight DEF SerialInv
<1>3. ASSUME NEW s \in arg[r].who
      PROVE  /\ rows[s].topic = arg[r].topic /\ rows[s].status \in Counted
             /\ rows[s] # Clean /\ rows[s] # NoRow
  <2>1. rows[s] = PlacedRow(r, s, "ASSIGNED")
    BY <1>2
  <2>2. dirtyRow'[r] = rows
    BY <1>1 DEF Write, SerialInv, TypeOK
  <2>3. PlacedRow(r, s, "ASSIGNED") \in Row
    <3>1. /\ arg[r] \in Arg /\ arg[r].ids[s] \in RowId \cup {NoId}
          /\ arg[r].ids[s] # NoId => project[s] \in Row
      BY <1>1, <1>2, InFlight DEF SerialInv, AssignWrite, Place
    <3>2. FreshId(s) \in RowId
      BY <1>2, FreshIdType DEF SerialInv
    <3> QED
      BY <3>1, <3>2 DEF PlacedRow, Row, Arg, ProjectStatus
  <2>4. rows[s] # Clean /\ rows[s] # NoRow
    BY <2>1, <2>3, MarkersAssumption
  <2>5. rows[s].topic = arg[r].topic /\ rows[s].status = "ASSIGNED"
    BY <2>1 DEF PlacedRow
  <2> QED
    BY <2>4, <2>5, Statuses
<1>4. \A s \in Student \ arg[r].who : rows[s] = Clean
  OBVIOUS
<1> HIDE DEF rows
<1> QED
  BY <1>1, <1>3, <1>4, SerialWriteAdmits DEF Admits

LEMMA SerialCancelWrite ==
    ASSUME Serial, SerialInv, NEW r \in Request, CancelWrite(r), TypeOK'
    PROVE  SerialInv'
<1> DEFINE rows == [s \in Student |-> IF s \in arg[r].who THEN NoRow ELSE Clean]
<1>1. Write(r, rows, NoTopicWrites) /\ pc[r] = "write" /\ arg[r].op = "cancel"
  BY DEF CancelWrite, Running, Write
<1>2. ASSUME NEW t \in Topic, NEW s \in Student, rows[s] # Clean
      PROVE  s \notin Members(project, t) /\ rows[s] = NoRow
  <2>1. s \in arg[r].who
    BY <1>2
  <2> QED
    BY <1>1, <2>1, NotMembers DEF MovesRow
<1>3. \A t \in Topic : NoTopicWrites[t] = Clean
  BY DEF NoTopicWrites
<1> HIDE DEF rows
<1> QED
  BY <1>1, <1>2, <1>3, SerialWriteSame

LEMMA SerialRejectWrite ==
    ASSUME Serial, SerialInv, NEW r \in Request, RejectWrite(r), TypeOK'
    PROVE  SerialInv'
<1> DEFINE rows == Decided(r, "REJECTED")
<1>1. /\ Write(r, rows, NoTopicWrites) /\ pc[r] = "write" /\ arg[r].op = "reject"
      /\ \A s \in arg[r].who : Holds(r, s)
  BY DEF RejectWrite, Running, Write
<1>2. ASSUME NEW t \in Topic, NEW s \in Student, rows[s] # Clean
      PROVE  s \notin Members(project, t) /\ rows[s].status \notin Counted
  <2>1. s \in arg[r].who /\ rows[s] = [project[s] EXCEPT !.status = "REJECTED"]
    BY <1>2 DEF Decided
  <2>2. project[s] \in Row
    BY <1>1, <2>1, InFlight DEF SerialInv
  <2>3. rows[s].status = "REJECTED"
    BY <2>1, <2>2 DEF Row
  <2> QED
    BY <1>1, <2>1, <2>3, NotMembers, Statuses DEF MovesRow
<1>3. \A t \in Topic : NoTopicWrites[t] = Clean
  BY DEF NoTopicWrites
<1> HIDE DEF rows
<1> QED
  BY <1>1, <1>2, <1>3, SerialWriteSame

LEMMA SerialApproveWrite ==
    ASSUME Serial, SerialInv, NEW r \in Request, ApproveWrite(r), TypeOK'
    PROVE  SerialInv'
<1> DEFINE t0 == arg[r].topic
           after == View(project, Decided(r, "APPROVED"))
           turned == IF Fills(after, t0, arg[r].seen.max_students)
                     THEN WithStatus(after, t0, {"PENDING"}) ELSE {}
           rows == [s \in Student |-> IF s \in turned
                                      THEN [project[s] EXCEPT !.status = "REJECTED"]
                                      ELSE Decided(r, "APPROVED")[s]]
<1>1. /\ Write(r, rows, NoTopicWrites) /\ pc[r] = "write" /\ arg[r].op = "approve"
      /\ \A s \in arg[r].who : Holds(r, s)
  BY DEF ApproveWrite, Running, Write
<1>2. arg[r].who \subseteq Student /\ FoundStillHolds(r)
  BY <1>1, InFlight DEF SerialInv
<1>3. ASSUME NEW s \in arg[r].who
      PROVE  /\ rows[s] # Clean /\ rows[s] # NoRow
             /\ rows[s].topic = arg[r].topic /\ rows[s].status \in Counted
  <2>1. project[s] \in Row /\ project[s] # NoRow
    BY <1>1, <1>2, InFlight, MarkersAssumption DEF SerialInv, Holds
  <2>2. Decided(r, "APPROVED")[s] = [project[s] EXCEPT !.status = "APPROVED"]
    BY <1>2 DEF Decided
  <2>3. [project[s] EXCEPT !.status = "APPROVED"] \in Row
    BY <2>1, RowUpdates DEF ProjectStatus
  <2>4. after[s] = [project[s] EXCEPT !.status = "APPROVED"]
    BY <1>2, <2>2, <2>3, MarkersAssumption DEF View
  <2>5. after[s].status = "APPROVED"
    BY <2>1, <2>4 DEF Row
  <2>6. s \notin turned
    BY <2>5 DEF WithStatus
  <2>7. rows[s] = [project[s] EXCEPT !.status = "APPROVED"]
    BY <1>2, <2>2, <2>6
  <2>8. project[s].topic = arg[r].topic
    BY <1>1, <1>2, <2>1 DEF FoundStillHolds, FromTopic
  <2> QED
    <3>1. rows[s] # Clean /\ rows[s] # NoRow
      BY <2>3, <2>7, MarkersAssumption
    <3>2. rows[s].topic = project[s].topic /\ rows[s].status = "APPROVED"
      BY <2>1, <2>7 DEF Row
    <3> QED
      BY <2>8, <3>1, <3>2, Statuses
<1>4. ASSUME NEW t \in Topic, NEW s \in Student \ arg[r].who, rows[s] # Clean
      PROVE  s \notin Members(project, t) /\ rows[s].status \notin Counted
  <2>1. Decided(r, "APPROVED")[s] = Clean
    BY DEF Decided
  <2>2. s \in turned /\ rows[s] = [project[s] EXCEPT !.status = "REJECTED"]
    BY <1>4, <2>1
  <2>3. after[s] = project[s]
    BY <2>1 DEF View
  <2>4. project[s] # NoRow /\ project[s].status = "PENDING"
    BY <2>2, <2>3 DEF WithStatus
  <2>5. project[s] \in Row
    BY <2>4 DEF SerialInv, TypeOK
  <2>6. rows[s].status = "REJECTED"
    BY <2>2, <2>5 DEF Row
  <2> QED
    BY <2>4, <2>6, NotCounted, Statuses
<1> HIDE DEF rows
<1> QED
  BY <1>1, <1>3, <1>4, SerialWriteAdmits DEF Admits

\* Topic edits copy the counter.
LEMMA EditsKeepCounter ==
    ASSUME NEW batch, NEW e
    PROVE  \A t \in Topic : TopicEdits(batch, e)[t] # Clean =>
              TopicEdits(batch, e)[t].registered_students = topic[t].registered_students
BY DEF TopicEdits, Edited

LEMMA SerialBulkWrite ==
    ASSUME Serial, SerialInv, NEW r \in Request, BulkWrite(r), TypeOK'
    PROVE  SerialInv'
<1> DEFINE turned == IF arg[r].edit.to = "REJECTED"
                     THEN UNION {WithStatus(project, t, {"PENDING"}) : t \in arg[r].batch}
                     ELSE {}
           rows == [s \in Student |-> IF s \in turned
                                      THEN [project[s] EXCEPT !.status = "REJECTED"]
                                      ELSE Clean]
<1>1. Write(r, rows, TopicEdits(arg[r].batch, arg[r].edit))
  BY DEF BulkWrite
<1>2. ASSUME NEW t \in Topic, NEW s \in Student, rows[s] # Clean
      PROVE  s \notin Members(project, t) /\ rows[s].status \notin Counted
  <2>1. s \in turned /\ rows[s] = [project[s] EXCEPT !.status = "REJECTED"]
    BY <1>2
  <2>2. project[s] # NoRow /\ project[s].status = "PENDING"
    BY <2>1 DEF WithStatus
  <2>3. project[s] \in Row
    BY <2>2 DEF SerialInv, TypeOK
  <2>4. rows[s].status = "REJECTED"
    BY <2>1, <2>3 DEF Row
  <2> QED
    BY <2>2, <2>4, NotCounted, Statuses
<1> HIDE DEF rows
<1> QED
  BY <1>1, <1>2, EditsKeepCounter, SerialWriteSame

\* Moving leader flags moves no member.
LEMMA FlagsKeepMembers ==
    ASSUME TypeOK, NEW rows,
           \A s \in Student : rows[s] # Clean =>
              /\ project[s] # NoRow
              /\ \E b \in BOOLEAN : rows[s] = [project[s] EXCEPT !.is_leader = b]
    PROVE  \A t \in Topic, s \in Student : rows[s] # Clean =>
              (s \in Members(project, t) <=>
                 rows[s] # NoRow /\ rows[s].topic = t /\ rows[s].status \in Counted)
<1> SUFFICES ASSUME NEW t \in Topic, NEW s \in Student, rows[s] # Clean
             PROVE  s \in Members(project, t) <=>
                       rows[s] # NoRow /\ rows[s].topic = t /\ rows[s].status \in Counted
  OBVIOUS
<1>1. PICK b \in BOOLEAN : rows[s] = [project[s] EXCEPT !.is_leader = b]
  OBVIOUS
<1>2. project[s] \in Row /\ project[s] # NoRow
  BY DEF TypeOK
<1>3. rows[s] \in Row
  BY <1>1, <1>2, RowUpdates
<1>4. rows[s] # NoRow /\ rows[s].topic = project[s].topic /\ rows[s].status = project[s].status
  <2>1. rows[s] # NoRow
    BY <1>3, MarkersAssumption
  <2> QED
    BY <1>1, <1>2, <2>1 DEF Row
<1> QED
  BY <1>2, <1>4 DEF Members, WithStatus

LEMMA SerialCommit ==
    ASSUME Serial, SerialInv, NEW r \in Request, Commit(r), TypeOK'
    PROVE  /\ SerialInv'
           /\ MembershipKept
           /\ AdmissionWithinMax
<1> DEFINE after(t) == Members(View(project, dirtyRow[r]), t)
<1>1. WrittenIsSound(r) /\ project' = View(project, dirtyRow[r]) /\ pc'[r] = "idle"
  BY DEF SerialInv, TypeOK, Commit, Finish
<1>2. ASSUME NEW t \in Topic
      PROVE  /\ Members(project', t) = after(t) /\ Members(project, t) \subseteq after(t)
             /\ after(t) # Members(project, t) =>
                   Cardinality(after(t)) <= topic'[t].max_students
             /\ topic'[t].registered_students = Cardinality(after(t))
  <2>1. topic'[t] = Stored(r, t)
    BY DEF Commit
  <2> DEFINE base == IF dirtyTopic[r][t] = Clean THEN topic[t] ELSE dirtyTopic[r][t]
             recounted == arg[r].op \in Recounting /\ t = arg[r].topic
  <2>2. base \in TopicRow
    BY DEF SerialInv, TypeOK, TopicWrite
  <2>3. base.registered_students = topic[t].registered_students
    BY <1>1 DEF WrittenIsSound
  <2>4. topic[t].registered_students = Cardinality(Members(project, t))
    BY DEF SerialInv, CounterExact, MemberCount
  <2>5. /\ Members(project, t) \subseteq after(t)
        /\ after(t) # Members(project, t) =>
              /\ recounted /\ dirtyTopic[r][t] = Clean
              /\ Cardinality(after(t)) <= topic[t].max_students
        /\ recounted => arg[r].count = Cardinality(after(t))
    BY <1>1 DEF WrittenIsSound
  <2>6. topic'[t] = IF recounted THEN [base EXCEPT !.registered_students = arg[r].count] ELSE base
    BY <2>1 DEF Stored
  <2>7. /\ topic'[t].max_students = base.max_students
        /\ topic'[t].registered_students =
              IF recounted THEN arg[r].count ELSE topic[t].registered_students
    BY <2>2, <2>3, <2>6 DEF TopicRow
  <2>8. Members(project', t) = after(t)
    BY <1>1
  <2> HIDE DEF after, recounted
  <2>9. topic'[t].registered_students = Cardinality(after(t))
    BY <2>4, <2>5, <2>7
  <2>10. after(t) # Members(project, t) => Cardinality(after(t)) <= topic'[t].max_students
    BY <2>5, <2>7
  <2> QED
    BY <2>5, <2>8, <2>9, <2>10
<1> HIDE DEF after
<1>3. CounterExact'
  BY <1>2 DEF CounterExact, MemberCount
<1>4. SerialInv'
  BY <1>1, <1>3 DEF SerialInv, Serial
<1>5. MembershipKept
  BY <1>2 DEF MembershipKept
<1>6. AdmissionWithinMax
  BY <1>2 DEF AdmissionWithinMax
<1> QED
  BY <1>4, <1>5, <1>6

\* The hourly job moves a request between two states that are not counted.
LEMMA SerialEscalate ==
    ASSUME SerialInv, Escalate, TypeOK'
    PROVE  SerialInv' /\ \A t \in Topic : Members(project', t) = Members(project, t)
<1>1. /\ \A s \in Late : project[s] # NoRow /\ project[s].status = "PENDING"
      /\ \A s \in Late, q \in Request : dirtyRow[q][s] = Clean
      /\ project' = [s \in Student |-> IF s \in Late
                                       THEN [project[s] EXCEPT !.status = "WAITING_SECRETARY"]
                                       ELSE project[s]]
      /\ UNCHANGED <<open, topic, pc, arg, dirtyRow, dirtyTopic>>
  BY DEF Escalate, Late, SerialInv, TypeOK
<1>2. ASSUME NEW s \in Late
      PROVE  /\ s \in Student
             /\ project[s] \in Row /\ project[s] # NoRow /\ project[s].status = "PENDING"
             /\ project'[s] \in Row /\ project'[s] # NoRow
             /\ project'[s].status = "WAITING_SECRETARY"
             /\ project'[s].topic = project[s].topic
  <2>1. s \in Student /\ project[s] # NoRow /\ project[s].status = "PENDING"
    BY DEF Late
  <2>2. project[s] \in Row
    BY <2>1 DEF SerialInv, TypeOK
  <2>3. project'[s] = [project[s] EXCEPT !.status = "WAITING_SECRETARY"]
    BY <1>1, <2>1
  <2>4. project'[s] \in Row
    BY <2>2, <2>3, RowUpdates DEF ProjectStatus
  <2>5. project'[s].status = "WAITING_SECRETARY" /\ project'[s].topic = project[s].topic
    BY <2>2, <2>3 DEF Row
  <2> QED
    BY <2>1, <2>2, <2>4, <2>5, MarkersAssumption
<1>3. \A s \in Student \ Late : project'[s] = project[s]
  BY <1>1
<1> HIDE DEF Late
<1>4. \A s \in Student : /\ project[s] # NoRow <=> project'[s] # NoRow
                         /\ project'[s] # NoRow => project'[s].topic = project[s].topic
                         /\ project'[s] # NoRow =>
                              (project'[s].status \in Counted <=> project[s].status \in Counted)
  BY <1>2, <1>3, Statuses
<1>5. ASSUME NEW t
      PROVE  Members(project', t) = Members(project, t)
  BY <1>4 DEF Members, WithStatus
<1>6. ASSUME NEW r \in Request, NEW t
      PROVE  Members(View(project', dirtyRow[r]), t) = Members(View(project, dirtyRow[r]), t)
  <2>1. \A s \in Student : s \in Members(project', t) <=> s \in Members(project, t)
    BY <1>5
  <2>2. \A s \in Student : s \in Members(View(project', dirtyRow[r]), t)
                             <=> s \in Members(View(project, dirtyRow[r]), t)
    BY <2>1, MembersOfView
  <2>3. /\ Members(View(project', dirtyRow[r]), t) \subseteq Student
        /\ Members(View(project, dirtyRow[r]), t) \subseteq Student
    BY WithStatusFinite DEF Members
  <2> QED
    BY <2>2, <2>3
<1>7. CounterExact'
  BY <1>1, <1>5 DEF SerialInv, CounterExact, MemberCount
<1>8. ASSUME NEW r \in Request, pc'[r] \in {"check", "write"}
      PROVE  FoundStillHolds(r)'
  <2>1. pc[r] \in {"check", "write"} /\ FoundStillHolds(r) /\ arg[r].who \subseteq Student
    BY <1>1, <1>8, InFlight DEF SerialInv
  <2>2. arg' = arg /\ pc' = pc /\ topic' = topic
    BY <1>1
  <2>3. Cardinality(Members(project', arg[r].topic)) = Cardinality(Members(project, arg[r].topic))
    BY <1>5
  <2> QED
    BY <1>4, <2>1, <2>2, <2>3 DEF FoundStillHolds, MemberCount
<1>9. ASSUME NEW r \in Request, pc'[r] = "commit"
      PROVE  WrittenIsSound(r)'
  BY <1>1, <1>5, <1>6, <1>9 DEF SerialInv, WrittenIsSound
<1> QED
  BY <1>5, <1>7, <1>8, <1>9 DEF SerialInv

\* The capacity that decideRegistration checks is the capacity it needs.
LEMMA SerialApproveCheck ==
    ASSUME Serial, SerialInv, NEW r \in Request, ApproveCheck(r), TypeOK'
    PROVE  SerialInv'
<1> DEFINE t == arg[r].topic
           x == {s \in arg[r].who : Holds(r, s)}
<1>1. /\ pc[r] = "check" /\ arg[r].op = "approve" /\ pc'[r] = "write"
      /\ HasCapacity(project, t, topic[t].max_students, 1, x)
      /\ arg' = [arg EXCEPT ![r].seen = Seen(t)]
      /\ UNCHANGED <<topic, project>>
  BY DEF ApproveCheck, SerialInv, TypeOK
<1>2. arg[r] \in Arg /\ arg[r].who \subseteq Student /\ FoundStillHolds(r)
  BY <1>1, InFlight DEF SerialInv
<1>3. arg'[r] = [arg[r] EXCEPT !.seen = Seen(t)]
  BY <1>1 DEF SerialInv, TypeOK
<1>4. arg'[r].op = arg[r].op /\ arg'[r].topic = t /\ arg'[r].who = arg[r].who
  BY <1>2, <1>3 DEF Arg
<1>5. \A s \in arg[r].who : project[s] # NoRow => project[s].status \notin Counted
  BY <1>1, <1>2 DEF FoundStillHolds, MovesRow
<1>6. PICK s0 \in Student : arg[r].who = {s0} /\ (project[s0] # NoRow => project[s0].topic = t)
  BY <1>1, <1>2 DEF FoundStillHolds, FromTopic
<1>7. Members(project, t) \subseteq Occupied(project, t) \ x
  BY <1>5, Statuses DEF Members, Occupied, WithStatus
<1>8. /\ IsFiniteSet(Occupied(project, t) \ x)
      /\ MemberCount(t) <= Cardinality(Occupied(project, t) \ x)
  BY <1>7, WithStatusFinite, FS_Subset DEF Occupied, MemberCount
<1>9. /\ MemberCount(t) \in Nat /\ Cardinality(Occupied(project, t) \ x) \in Nat
      /\ topic[t].max_students \in Nat
  BY <1>2, <1>8, WithStatusFinite, FS_CardinalityType, TopicRegistrationAssumption
     DEF Members, MemberCount, SerialInv, TypeOK, TopicRow, Arg
<1>10. Cardinality(arg[r].who) = 1
  BY <1>6, FS_Singleton
<1>11. MemberCount(t) + Cardinality(arg[r].who) <= topic[t].max_students
  BY <1>1, <1>8, <1>9, <1>10 DEF HasCapacity
<1>12. FoundStillHolds(r)'
  BY <1>1, <1>4, <1>5, <1>6, <1>11 DEF FoundStillHolds, MemberCount
<1>13. CounterExact'
  BY <1>1 DEF SerialInv, CounterExact, MemberCount
<1> QED
  BY <1>1, <1>12, <1>13 DEF SerialInv, Serial

LEMMA SerialProceed ==
    ASSUME Serial, SerialInv, NEW r \in Request, Proceed(r), ~Commit(r), TypeOK'
    PROVE  SerialInv'
<1>0. TypeOK
  BY DEF SerialInv
<1>1. CASE RegisterCheck(r)
  <2>1. /\ pc[r] = "check" /\ arg[r].op = "register" /\ pc'[r] = "write"
        /\ arg' = [arg EXCEPT ![r].ids = Ids(arg[r].who)]
        /\ UNCHANGED <<topic, project>>
        /\ \A s \in arg[r].who : project[s] # NoRow => project[s].status \notin SlotOccupying
    BY <1>1 DEF RegisterCheck, SerialInv, TypeOK
  <2>2. arg[r] \in Arg /\ arg'[r] = [arg[r] EXCEPT !.ids = Ids(arg[r].who)]
    BY <2>1, InFlight DEF SerialInv, TypeOK
  <2>3. arg'[r].op = "register" /\ arg'[r].topic = arg[r].topic /\ arg'[r].who = arg[r].who
    BY <2>1, <2>2 DEF Arg
  <2>4. FoundStillHolds(r)'
    BY <2>1, <2>3, Statuses DEF FoundStillHolds, FromTopic, Admits
  <2>5. CounterExact'
    BY <2>1 DEF SerialInv, CounterExact, MemberCount
  <2> QED
    BY <2>1, <2>4, <2>5 DEF SerialInv, Serial
<1>2. CASE RegisterWrite(r)
  BY <1>2, SerialRegisterWrite
<1>3. CASE CancelWrite(r)
  BY <1>3, SerialCancelWrite
<1>4. CASE ApproveCheck(r)
  BY <1>4, SerialApproveCheck
<1>5. CASE ApproveWrite(r)
  BY <1>5, SerialApproveWrite
<1>6. CASE RejectWrite(r)
  BY <1>6, SerialRejectWrite
<1>7. CASE AssignWrite(r)
  BY <1>7, SerialAssignWrite
<1>8. CASE EditWrite(r)
  <2>1. Write(r, NoWrites, TopicEdits(arg[r].batch, arg[r].edit))
    BY <1>8 DEF EditWrite
  <2>2. \A s \in Student : NoWrites[s] = Clean
    BY DEF NoWrites
  <2> QED
    BY <2>1, <2>2, EditsKeepCounter, SerialWriteSame
<1>9. CASE BulkWrite(r)
  BY <1>9, SerialBulkWrite
<1>10. CASE LockWrite(r)
  <2> DEFINE rows == [s \in Student |-> IF s \in arg[r].who
                                        THEN [project[s] EXCEPT !.is_leader = (s \in arg[r].lead)]
                                        ELSE Clean]
  <2>1. /\ pc[r] # "idle" /\ \A s \in arg[r].who : Holds(r, s)
        /\ Write(r, rows, TopicEdits(arg[r].batch, arg[r].edit))
    BY <1>10 DEF LockWrite, Write
  <2>2. arg[r].who \in SUBSET Student /\ \A s \in arg[r].who : project[s] # NoRow
    BY <1>0, <2>1, InFlight DEF Holds
  <2>3. \A t \in Topic, s \in Student : rows[s] # Clean =>
           (s \in Members(project, t) <=>
              rows[s] # NoRow /\ rows[s].topic = t /\ rows[s].status \in Counted)
    <3>1. \A s \in Student : rows[s] # Clean =>
             project[s] # NoRow /\ \E b \in BOOLEAN : rows[s] = [project[s] EXCEPT !.is_leader = b]
      <4> SUFFICES ASSUME NEW s \in Student, rows[s] # Clean
                   PROVE  project[s] # NoRow
                          /\ \E b \in BOOLEAN : rows[s] = [project[s] EXCEPT !.is_leader = b]
        OBVIOUS
      <4>1. /\ rows[s] = [project[s] EXCEPT !.is_leader = (s \in arg[r].lead)]
            /\ project[s] # NoRow
        BY <2>2
      <4>2. PICK b \in BOOLEAN : [project[s] EXCEPT !.is_leader = (s \in arg[r].lead)]
                                    = [project[s] EXCEPT !.is_leader = b]
        BY FlagIsBoolean, Zenon
      <4> HIDE DEF rows
      <4>3. rows[s] = [project[s] EXCEPT !.is_leader = b]
        BY <4>1, <4>2, Zenon
      <4> QED
        BY <4>1, <4>3
    <3> HIDE DEF rows
    <3> QED
      BY <1>0, <3>1, FlagsKeepMembers
  <2> HIDE DEF rows
  <2> QED
    BY <2>1, <2>3, EditsKeepCounter, SerialWriteSame
<1>11. CASE LeaderCheck(r)
  <2>1. /\ pc[r] = "check" /\ arg[r].op = "leader" /\ pc'[r] = "write"
        /\ arg' = [arg EXCEPT ![r].who = @ \cup Leaders(project, arg[r].topic)]
        /\ UNCHANGED <<topic, project>>
    BY <1>11 DEF LeaderCheck, SerialInv, TypeOK
  <2>2. /\ arg[r] \in Arg
        /\ arg'[r] = [arg[r] EXCEPT !.who = @ \cup Leaders(project, arg[r].topic)]
    BY <1>0, <2>1, InFlight DEF TypeOK
  <2>3. arg'[r].op = "leader"
    BY <2>1, <2>2 DEF Arg
  <2>4. FoundStillHolds(r)'
    BY <2>3 DEF FoundStillHolds, MovesRow, FromTopic, Admits
  <2>5. CounterExact'
    BY <2>1 DEF SerialInv, CounterExact, MemberCount
  <2> QED
    BY <2>1, <2>4, <2>5 DEF SerialInv, Serial
<1>12. CASE LeaderWrite(r)
  <2> DEFINE rows == [s \in Student |-> IF s \in Demoted(r) \cup arg[r].lead
                                        THEN [project[s] EXCEPT !.is_leader = (s \in arg[r].lead)]
                                        ELSE Clean]
  <2>1. (\A s \in arg[r].lead : project[s] # NoRow) /\ Write(r, rows, NoTopicWrites)
    BY <1>12 DEF LeaderWrite, Holds
  <2>2. \A s \in Demoted(r) \cup arg[r].lead : project[s] # NoRow
    BY <2>1 DEF Demoted, Leaders, WithStatus
  <2>3. \A s \in Student : rows[s] # Clean =>
           project[s] # NoRow /\ \E b \in BOOLEAN : rows[s] = [project[s] EXCEPT !.is_leader = b]
    <3> SUFFICES ASSUME NEW s \in Student, rows[s] # Clean
                 PROVE  project[s] # NoRow
                        /\ \E b \in BOOLEAN : rows[s] = [project[s] EXCEPT !.is_leader = b]
      OBVIOUS
    <3>1. /\ rows[s] = [project[s] EXCEPT !.is_leader = (s \in arg[r].lead)]
          /\ project[s] # NoRow
      BY <2>2
    <3>2. PICK b \in BOOLEAN : [project[s] EXCEPT !.is_leader = (s \in arg[r].lead)]
                                  = [project[s] EXCEPT !.is_leader = b]
      BY FlagIsBoolean, Zenon
    <3> HIDE DEF rows
    <3>3. rows[s] = [project[s] EXCEPT !.is_leader = b]
      BY <3>1, <3>2, Zenon
    <3> QED
      BY <3>1, <3>3
  <2> HIDE DEF rows
  <2>4. \A t \in Topic, s \in Student : rows[s] # Clean =>
           (s \in Members(project, t) <=>
              rows[s] # NoRow /\ rows[s].topic = t /\ rows[s].status \in Counted)
    BY <1>0, <2>3, FlagsKeepMembers
  <2>5. \A t \in Topic : NoTopicWrites[t] = Clean
    BY DEF NoTopicWrites
  <2> QED
    BY <2>1, <2>4, <2>5, SerialWriteSame
<1> QED
  BY <1>1, <1>2, <1>3, <1>4, <1>5, <1>6, <1>7, <1>8, <1>9, <1>10, <1>11, <1>12
     DEF Proceed

LEMMA SerialInit == Init => SerialInv
<1> SUFFICES ASSUME Init PROVE SerialInv
  OBVIOUS
<1>1. \A t \in Topic : Members(project, t) = {}
  BY DEF Init, Members, WithStatus
<1>2. CounterExact
  BY <1>1, FS_EmptySet DEF Init, CounterExact, MemberCount
<1> QED
  BY <1>2, TypeInit DEF Init, SerialInv

\* Steps that leave the committed rows alone keep the promises about them.
LEMMA Untouched ==
    ASSUME project' = project
    PROVE  MembershipKept /\ AdmissionWithinMax
BY DEF MembershipKept, AdmissionWithinMax

LEMMA SerialNext ==
    ASSUME Serial, SerialInv, [Next]_vars
    PROVE  SerialInv' /\ MembershipKept /\ AdmissionWithinMax
<1>0. TypeOK'
  BY TypeNext DEF SerialInv
<1>1. ASSUME NEW r \in Request, Arrive(r)
      PROVE  SerialInv' /\ MembershipKept /\ AdmissionWithinMax
  <2>1. project' = project
    BY <1>1 DEF Arrive, RegisterRead, CancelRead, ApproveRead, RejectRead, DecideRead,
                LeaderRead, AssignCheck, UpdateRead, ForceCheck, BulkCheck, LockRead, Begin
  <2> QED
    BY <1>0, <1>1, <2>1, SerialArrive, Untouched
<1>2. ASSUME NEW r \in Request, Proceed(r), ~Commit(r)
      PROVE  SerialInv' /\ MembershipKept /\ AdmissionWithinMax
  <2>1. project' = project
    BY <1>2 DEF Proceed, RegisterCheck, RegisterWrite, CancelWrite, ApproveCheck, ApproveWrite,
                RejectWrite, AssignWrite, EditWrite, BulkWrite, LockWrite, LeaderCheck,
                LeaderWrite, Place, Write
  <2> QED
    BY <1>0, <1>2, <2>1, SerialProceed, Untouched
<1>3. ASSUME NEW r \in Request, Commit(r)
      PROVE  SerialInv' /\ MembershipKept /\ AdmissionWithinMax
  BY <1>0, <1>3, SerialCommit
<1>4. ASSUME NEW r \in Request, Rollback(r)
      PROVE  SerialInv' /\ MembershipKept /\ AdmissionWithinMax
  <2>1. pc'[r] = "idle" /\ UNCHANGED <<topic, project>>
    BY <1>4 DEF Rollback, Finish, SerialInv, TypeOK
  <2>2. CounterExact'
    BY <2>1 DEF SerialInv, CounterExact, MemberCount
  <2> QED
    BY <1>0, <2>1, <2>2, Untouched DEF SerialInv, Serial
<1>5. CASE Expire \/ Extend
  <2>1. UNCHANGED <<topic, project, pc, arg, dirtyRow, dirtyTopic>>
    BY <1>5 DEF Expire, Extend
  <2>2. SerialInv'
    BY <1>0, <2>1 DEF SerialInv, CounterExact, MemberCount, FoundStillHolds, WrittenIsSound
  <2> QED
    BY <2>1, <2>2, Untouched
<1>6. CASE Escalate
  <2>1. SerialInv' /\ \A t \in Topic : Members(project', t) = Members(project, t)
    BY <1>0, <1>6, SerialEscalate
  <2> QED
    BY <2>1 DEF MembershipKept, AdmissionWithinMax
<1>7. CASE UNCHANGED vars
  <2>1. UNCHANGED <<topic, project, pc, arg, dirtyRow, dirtyTopic>>
    BY <1>7 DEF vars
  <2>2. SerialInv'
    BY <1>0, <2>1 DEF SerialInv, CounterExact, MemberCount, FoundStillHolds, WrittenIsSound
  <2> QED
    BY <2>1, <2>2, Untouched
<1> QED
  BY <1>1, <1>2, <1>3, <1>4, <1>5, <1>6, <1>7 DEF Next, Environment

\* With one request in flight at a time registered_students is exact in every
\* state, the hourly job running in between (recomputeRegisteredStudents).
THEOREM SerialCounter ==
    ASSUME Serial
    PROVE  Spec => []CounterExact
<1>1. Init => SerialInv
  BY SerialInit
<1>2. SerialInv /\ [Next]_vars => SerialInv'
  BY SerialNext
<1>3. SerialInv => CounterExact
  BY DEF SerialInv
<1> QED
  BY <1>1, <1>2, <1>3, PTL DEF Spec

\* With one request in flight at a time nobody is admitted over max_students
\* (assertCapacity in decideRegistration and manualAssign).
THEOREM SerialAdmission ==
    ASSUME Serial
    PROVE  Spec => AdmissionsWithinMax
<1>1. Init => SerialInv
  BY SerialInit
<1>2. SerialInv /\ [Next]_vars => SerialInv' /\ [AdmissionWithinMax]_vars
  BY SerialNext
<1> QED
  BY <1>1, <1>2, PTL DEF Spec, AdmissionsWithinMax

\* With one request in flight at a time no student is taken off a topic that
\* accepted him, by himself, a teacher, the secretary or the hourly job.
THEOREM SerialMembership ==
    ASSUME Serial
    PROVE  Spec => MembershipsKept
<1>1. Init => SerialInv
  BY SerialInit
<1>2. SerialInv /\ [Next]_vars => SerialInv' /\ [MembershipKept]_vars
  BY SerialNext
<1> QED
  BY <1>1, <1>2, PTL DEF Spec, MembershipsKept

-----------------------------------------------------------------------------
(* Rows *)

\* Setting the flag of a row changes nothing else of it.
LEMMA FlagSet ==
    ASSUME NEW row \in Row, NEW s, NEW lead, NEW new,
           new = [row EXCEPT !.is_leader = (s \in lead)]
    PROVE  /\ new \in Row /\ new # NoRow /\ new # Clean
           /\ new.topic = row.topic /\ new.teacher = row.teacher /\ new.status = row.status
           /\ new.is_leader <=> s \in lead
<1>1. ASSUME NEW b \in BOOLEAN, new = [row EXCEPT !.is_leader = b]
      PROVE  /\ new \in Row
             /\ new.topic = row.topic /\ new.teacher = row.teacher /\ new.status = row.status
             /\ new.is_leader = b
  BY <1>1 DEF Row
<1>2. CASE s \in lead
  <2>1. (s \in lead) = TRUE
    BY <1>2
  <2>2. new = [row EXCEPT !.is_leader = TRUE]
    BY <2>1, Zenon
  <2> QED
    BY <1>1, <1>2, <2>2, MarkersAssumption
<1>3. CASE s \notin lead
  <2>1. (s \in lead) = FALSE
    BY <1>3
  <2>2. new = [row EXCEPT !.is_leader = FALSE]
    BY <2>1, Zenon
  <2> QED
    BY <1>1, <1>3, <2>2, MarkersAssumption
<1> QED
  BY <1>2, <1>3

\* A transaction has written the rows of some students and changed their flags only.
FlagsOnly(rows, who, lead) ==
    \A s \in Student :
        /\ s \notin who => rows[s] = Clean
        /\ s \in who => rows[s] # Clean
        /\ rows[s] # Clean =>
              /\ project[s] # NoRow /\ project[s] \in Row /\ rows[s] # NoRow
              /\ rows[s].topic = project[s].topic /\ rows[s].teacher = project[s].teacher
              /\ rows[s].status = project[s].status
              /\ rows[s].is_leader <=> s \in lead

LEMMA FlagRows ==
    ASSUME TypeOK, NEW who, NEW lead, \A s \in who : project[s] # NoRow, NEW rows,
           rows = [s \in Student |-> IF s \in who
                                     THEN [project[s] EXCEPT !.is_leader = (s \in lead)]
                                     ELSE Clean]
    PROVE  FlagsOnly(rows, who, lead)
<1> SUFFICES ASSUME NEW s \in Student
             PROVE  /\ s \notin who => rows[s] = Clean
                    /\ s \in who =>
                         /\ rows[s] # Clean
                         /\ project[s] # NoRow /\ project[s] \in Row /\ rows[s] # NoRow
                         /\ rows[s].topic = project[s].topic
                         /\ rows[s].teacher = project[s].teacher
                         /\ rows[s].status = project[s].status
                         /\ rows[s].is_leader <=> s \in lead
  BY DEF FlagsOnly
<1>1. CASE s \in who
  <2>1. rows[s] = [project[s] EXCEPT !.is_leader = (s \in lead)] /\ project[s] # NoRow
    BY <1>1
  <2>2. project[s] \in Row
    BY <2>1 DEF TypeOK
  <2>3. /\ rows[s] # NoRow /\ rows[s] # Clean
        /\ rows[s].topic = project[s].topic /\ rows[s].teacher = project[s].teacher
        /\ rows[s].status = project[s].status
        /\ rows[s].is_leader <=> s \in lead
    BY <2>1, <2>2, FlagSet
  <2> QED
    BY <1>1, <2>1, <2>2, <2>3
<1>2. CASE s \notin who
  BY <1>2
<1> QED
  BY <1>1, <1>2

\* A decided row differs in its status only.
LEMMA StatusSet ==
    ASSUME NEW row \in Row, NEW status \in ProjectStatus, NEW new,
           new = [row EXCEPT !.status = status]
    PROVE  /\ new \in Row /\ new # NoRow /\ new # Clean
           /\ new.topic = row.topic /\ new.teacher = row.teacher /\ new.status = status
           /\ new.is_leader <=> row.is_leader
BY MarkersAssumption DEF Row

\* What the hourly job leaves of every row.
LEMMA EscalatedRows ==
    ASSUME TypeOK, Escalate
    PROVE  /\ UNCHANGED <<open, topic, pc, arg, dirtyRow, dirtyTopic>>
           /\ \A s \in Student :
                 /\ project[s] = NoRow <=> project'[s] = NoRow
                 /\ project[s] # NoRow =>
                       /\ project'[s].topic = project[s].topic
                       /\ project'[s].teacher = project[s].teacher
                       /\ project'[s].is_leader <=> project[s].is_leader
                       /\ project'[s].status # "PENDING"
                       /\ project'[s].status \in ProjectStatus
                       /\ project[s].status \in ProjectStatus
                       /\ project'[s].status = "REJECTED" <=> project[s].status = "REJECTED"
<1>1. UNCHANGED <<open, topic, pc, arg, dirtyRow, dirtyTopic>>
  BY DEF Escalate
<1>2. ASSUME NEW s \in Student, s \in Late
      PROVE  /\ project[s] # NoRow /\ project'[s] # NoRow
             /\ project'[s].topic = project[s].topic
             /\ project'[s].teacher = project[s].teacher
             /\ project'[s].is_leader <=> project[s].is_leader
             /\ project'[s].status = "WAITING_SECRETARY" /\ project[s].status = "PENDING"
  <2>1. project[s] # NoRow /\ project[s].status = "PENDING"
    BY <1>2 DEF Late
  <2>2. project[s] \in Row
    BY <2>1 DEF TypeOK
  <2>3. project'[s] = [project[s] EXCEPT !.status = "WAITING_SECRETARY"]
    BY <1>2 DEF Escalate
  <2>4. "WAITING_SECRETARY" \in ProjectStatus
    BY DEF ProjectStatus
  <2> QED
    BY <2>1, <2>2, <2>3, <2>4, StatusSet
<1>3. ASSUME NEW s \in Student, s \notin Late
      PROVE  /\ project'[s] = project[s]
             /\ project[s] # NoRow => /\ project[s].status # "PENDING"
                                      /\ project[s].status \in ProjectStatus
  <2>1. project'[s] = project[s]
    BY <1>3 DEF Escalate
  <2>2. project[s] # NoRow => project[s].status # "PENDING"
    BY <1>3 DEF Late
  <2>3. project[s] # NoRow => project[s].status \in ProjectStatus
    BY DEF TypeOK, Row
  <2> QED
    BY <2>1, <2>2, <2>3
<1>4. "WAITING_SECRETARY" \in ProjectStatus /\ "PENDING" \in ProjectStatus
  BY DEF ProjectStatus
<1> QED
  BY <1>1, <1>2, <1>3, <1>4

\* What a transaction sees of one student.
LEMMA ViewOf ==
    ASSUME NEW rows, NEW written, NEW s \in Student
    PROVE  View(rows, written)[s] = IF written[s] = Clean THEN rows[s] ELSE written[s]
BY DEF View

\* Steps that only move the deadlines.
LEMMA DeadlineSteps ==
    ASSUME Expire \/ Extend
    PROVE  UNCHANGED <<topic, project, pc, arg, dirtyRow, dirtyTopic>>
BY DEF Expire, Extend

\* A request that arrives or goes on without committing leaves the committed rows.
LEMMA RowsCommittedOnly ==
    ASSUME NEW r \in Request, Arrive(r) \/ (Proceed(r) /\ ~Commit(r)) \/ Rollback(r)
    PROVE  project' = project /\ topic' = topic
<1>1. CASE Arrive(r)
  BY <1>1 DEF Arrive, RegisterRead, CancelRead, ApproveRead, RejectRead, DecideRead,
              LeaderRead, AssignCheck, UpdateRead, ForceCheck, BulkCheck, LockRead, Begin
<1>2. CASE Proceed(r) /\ ~Commit(r)
  BY <1>2 DEF Proceed, RegisterCheck, RegisterWrite, CancelWrite, ApproveCheck, ApproveWrite,
              RejectWrite, AssignWrite, EditWrite, BulkWrite, LockWrite, LeaderCheck,
              LeaderWrite, Place, Write
<1>3. CASE Rollback(r)
  BY <1>3 DEF Rollback
<1> QED
  BY <1>1, <1>2, <1>3

\* What a request brings when it arrives.
LEMMA Begun ==
    ASSUME TypeOK, NEW r \in Request, NEW op, NEW step, NEW t, NEW who, NEW ids, NEW e,
           NEW lead, NEW batch, Begin(r, op, step, t, who, ids, e, lead, batch)
    PROVE  /\ pc'[r] = step
           /\ arg'[r].op = op /\ arg'[r].topic = t /\ arg'[r].who = who
           /\ arg'[r].seen = Seen(t) /\ arg'[r].edit = e /\ arg'[r].lead = lead
           /\ arg'[r].batch = batch
           /\ UNCHANGED <<topic, project>>
<1>1. arg'[r] = [op |-> op, topic |-> t, who |-> who, ids |-> ids, seen |-> Seen(t),
                 edit |-> e, lead |-> lead, batch |-> batch, count |-> 0]
  BY DEF Begin, TypeOK
<1> QED
  BY <1>1 DEF Begin, TypeOK

\* How far a request is when it has arrived, and whom a change of leader names.
ArrivedWell(r) ==
    /\ pc'[r] \in {"check", "write"}
    /\ pc'[r] = "write" => arg'[r].op \notin {"approve", "leader"}
    /\ arg'[r].op = "leader" =>
          \A s \in arg'[r].lead : project[s] # NoRow => project[s].topic = arg'[r].topic

LEMMA Arrived ==
    ASSUME TypeOK, NEW r \in Request, Arrive(r)
    PROVE  ArrivedWell(r)
<1>1. ASSUME NEW s \in Student, NEW t \in Topic, RegisterRead(r, s, t)
      PROVE  ArrivedWell(r)
  <2>1. Begin(r, "register", "check", t, {s}, NoIds, NoEdit, {}, {})
    BY <1>1 DEF RegisterRead
  <2> QED
    BY <2>1, Begun DEF ArrivedWell
<1>2. ASSUME NEW s \in Student, NEW t \in Topic, CancelRead(r, s, t)
      PROVE  ArrivedWell(r)
  <2>1. Begin(r, "cancel", "write", t, {s}, Ids({s}), NoEdit, {}, {})
    BY <1>2 DEF CancelRead
  <2> QED
    BY <2>1, Begun DEF ArrivedWell
<1>3. ASSUME NEW s \in Student, NEW t \in Topic, ApproveRead(r, s, t)
      PROVE  ArrivedWell(r)
  <2>1. Begin(r, "approve", "check", t, {s}, Ids({s}), NoEdit, {}, {})
    BY <1>3 DEF ApproveRead, DecideRead
  <2> QED
    BY <2>1, Begun DEF ArrivedWell
<1>4. ASSUME NEW s \in Student, NEW t \in Topic, RejectRead(r, s, t)
      PROVE  ArrivedWell(r)
  <2>1. Begin(r, "reject", "write", t, {s}, Ids({s}), NoEdit, {}, {})
    BY <1>4 DEF RejectRead, DecideRead
  <2> QED
    BY <2>1, Begun DEF ArrivedWell
<1>5. ASSUME NEW s \in Student, NEW t \in Topic, LeaderRead(r, s, t)
      PROVE  ArrivedWell(r)
  <2>1. Begin(r, "leader", "check", t, {s}, Ids({s}), NoEdit, {s}, {})
    BY <1>5 DEF LeaderRead
  <2>2. project[s] # NoRow /\ project[s].topic = t
    BY <1>5 DEF LeaderRead
  <2> QED
    BY <2>1, <2>2, Begun DEF ArrivedWell
<1>6. ASSUME NEW who \in SUBSET Student, NEW t \in Topic, AssignCheck(r, who, t)
      PROVE  ArrivedWell(r)
  <2>1. Begin(r, "assign", "write", t, who, Ids(who), NoEdit, {}, {})
    BY <1>6 DEF AssignCheck
  <2> QED
    BY <2>1, Begun DEF ArrivedWell
<1>7. ASSUME NEW t \in Topic, NEW e \in Edit, UpdateRead(r, t, e)
      PROVE  ArrivedWell(r)
  <2>1. Begin(r, "update", "write", t, {}, NoIds, e, {}, {t})
    BY <1>7 DEF UpdateRead
  <2> QED
    BY <2>1, Begun DEF ArrivedWell
<1>8. ASSUME NEW t \in Topic, NEW e \in Edit, ForceCheck(r, t, e)
      PROVE  ArrivedWell(r)
  <2>1. Begin(r, "force", "write", t, {}, NoIds, e, {}, {t})
    BY <1>8 DEF ForceCheck
  <2> QED
    BY <2>1, Begun DEF ArrivedWell
<1>9. ASSUME NEW batch \in SUBSET Topic, NEW t \in Topic, NEW verdict \in {"APPROVED", "REJECTED"}, BulkCheck(r, batch, t, verdict)
      PROVE  ArrivedWell(r)
  <2>1. Begin(r, "bulk", "write", t, {}, NoIds, [field |-> "status", to |-> verdict], {}, batch)
    BY <1>9 DEF BulkCheck
  <2> QED
    BY <2>1, Begun DEF ArrivedWell
<1>10. ASSUME NEW t \in Topic, NEW who \in SUBSET {s \in Student : project[s] # NoRow},
             NEW lead \in SUBSET who, LockRead(r, t, who, lead)
      PROVE  ArrivedWell(r)
  <2>1. Begin(r, "lock", "write", t, who, Ids(who), [field |-> "locked", to |-> TRUE], lead, {t})
    BY <1>10 DEF LockRead
  <2> QED
    BY <2>1, Begun DEF ArrivedWell
<1> QED
  BY <1>1, <1>2, <1>3, <1>4, <1>5, <1>6, <1>7, <1>8, <1>9, <1>10 DEF Arrive

\* What a request holds once it has written.
LEMMA Written ==
    ASSUME TypeOK, NEW r \in Request, NEW rows, NEW topics, Write(r, rows, topics)
    PROVE  /\ pc[r] = "write" /\ pc'[r] = "commit"
           /\ arg[r] \in Arg
           /\ arg'[r].op = arg[r].op /\ arg'[r].topic = arg[r].topic
           /\ arg'[r].lead = arg[r].lead
           /\ dirtyRow'[r] = rows /\ dirtyTopic'[r] = topics
           /\ UNCHANGED <<topic, project>>
<1>1. arg[r] \in Arg
  BY InFlight DEF Write
<1>2. arg'[r] = [arg[r] EXCEPT !.count = Cardinality(Members(View(project, rows), arg[r].topic))]
  BY DEF Write, TypeOK
<1>3. arg'[r].op = arg[r].op /\ arg'[r].topic = arg[r].topic /\ arg'[r].lead = arg[r].lead
  BY <1>1, <1>2 DEF Arg
<1> QED
  BY <1>1, <1>3 DEF Write, TypeOK

-----------------------------------------------------------------------------
(* Every open request is addressed to the owner of its topic *)

\* The edit replaces no teacher whom a student of the topic asks.
EditKeepsOwners(e, batch) ==
    e.field = "teacher" =>
        \A t \in batch :
           \/ e.to = topic[t].teacher
           \/ \A s \in Student : project[s] # NoRow /\ project[s].topic = t
                                    => project[s].status = "REJECTED"

\* An approval is of a request that is open.
FindsOpen(op, who) ==
    op = "approve" => \A s \in who : project[s] # NoRow => project[s].status # "REJECTED"

\* Until it writes, a request that places a row knows the owner, one that approves
\* finds a request that is open, and one that replaces the teacher finds nobody.
KnowsOwner(r) ==
    LET a == arg[r]
    IN  /\ a.op \in {"register", "assign"} => a.seen.teacher = topic[a.topic].teacher
        /\ FindsOpen(a.op, a.who)
        /\ EditKeepsOwners(a.edit, a.batch)
        /\ a.op \in {"bulk", "lock"} => a.edit.field # "teacher"

OwnerAfter(r, t) == IF dirtyTopic[r][t] = Clean THEN topic[t].teacher ELSE dirtyTopic[r][t].teacher

\* What a transaction is about to commit gives every open request its teacher.
LeavesOwners(r) ==
    \A s \in Student :
        LET row == View(project, dirtyRow[r])[s]
        IN  row # NoRow /\ row.status # "REJECTED" => row.teacher = OwnerAfter(r, row.topic)

\* The inductive invariant behind RequestHasItsTeacher.
OwnerInv ==
    /\ TypeOK
    /\ RequestHasItsTeacher
    /\ \A r \in Request :
          /\ pc[r] \in {"check", "write"} => KnowsOwner(r)
          /\ pc[r] = "commit" => LeavesOwners(r)

LEMMA OwnerBegin ==
    ASSUME Serial, OwnerInv, NEW r \in Request, NEW op, NEW step \in {"check", "write"},
           NEW t, NEW who, NEW ids, NEW e, NEW lead, NEW batch,
           Begin(r, op, step, t, who, ids, e, lead, batch), TypeOK',
           FindsOpen(op, who),
           EditKeepsOwners(e, batch), op \in {"bulk", "lock"} => e.field # "teacher"
    PROVE  OwnerInv'
<1>1. /\ pc'[r] = step
      /\ arg'[r].op = op /\ arg'[r].topic = t /\ arg'[r].who = who
      /\ arg'[r].seen = Seen(t) /\ arg'[r].edit = e /\ arg'[r].batch = batch
      /\ UNCHANGED <<topic, project>>
  BY Begun DEF OwnerInv
<1>2. Seen(t).teacher = topic[t].teacher
  BY DEF Seen
<1>3. KnowsOwner(r)'
  BY <1>1, <1>2 DEF KnowsOwner, EditKeepsOwners, FindsOpen
<1>4. RequestHasItsTeacher'
  BY <1>1 DEF OwnerInv, RequestHasItsTeacher
<1> QED
  BY <1>1, <1>3, <1>4 DEF OwnerInv, Serial

LEMMA OwnerArrive ==
    ASSUME Serial, OwnerInv, NEW r \in Request, Arrive(r), TypeOK'
    PROVE  OwnerInv'
<1>0. ASSUME NEW e, NEW batch, e.field # "teacher"
      PROVE  EditKeepsOwners(e, batch)
  BY <1>0 DEF EditKeepsOwners
<1>1. ASSUME NEW b PROVE EditKeepsOwners(NoEdit, b)
  BY <1>0 DEF NoEdit
<1>2. ASSUME NEW op, NEW who, op # "approve"
      PROVE  FindsOpen(op, who)
  BY <1>2 DEF FindsOpen
<1>3. ASSUME NEW s \in Student, NEW t \in Topic,
             RegisterRead(r, s, t) \/ CancelRead(r, s, t) \/ RejectRead(r, s, t)
                \/ LeaderRead(r, s, t)
      PROVE  OwnerInv'
  <2>1. CASE RegisterRead(r, s, t)
    <3>1. Begin(r, "register", "check", t, {s}, NoIds, NoEdit, {}, {})
      BY <2>1 DEF RegisterRead
    <3> QED
      BY <1>1, <1>2, <3>1, OwnerBegin
  <2>2. CASE CancelRead(r, s, t)
    <3>1. Begin(r, "cancel", "write", t, {s}, Ids({s}), NoEdit, {}, {})
      BY <2>2 DEF CancelRead
    <3> QED
      BY <1>1, <1>2, <3>1, OwnerBegin
  <2>3. CASE RejectRead(r, s, t)
    <3>1. Begin(r, "reject", "write", t, {s}, Ids({s}), NoEdit, {}, {})
      BY <2>3 DEF RejectRead, DecideRead
    <3> QED
      BY <1>1, <1>2, <3>1, OwnerBegin
  <2>4. CASE LeaderRead(r, s, t)
    <3>1. Begin(r, "leader", "check", t, {s}, Ids({s}), NoEdit, {s}, {})
      BY <2>4 DEF LeaderRead
    <3> QED
      BY <1>1, <1>2, <3>1, OwnerBegin
  <2> QED
    BY <1>3, <2>1, <2>2, <2>3, <2>4
<1>4. ASSUME NEW s \in Student, NEW t \in Topic, ApproveRead(r, s, t)
      PROVE  OwnerInv'
  <2>1. /\ Begin(r, "approve", "check", t, {s}, Ids({s}), NoEdit, {}, {})
        /\ FindsOpen("approve", {s})
    BY <1>4 DEF ApproveRead, DecideRead, FindsOpen
  <2> QED
    BY <1>1, <1>2, <2>1, OwnerBegin
<1>5. ASSUME NEW who \in SUBSET Student, NEW t \in Topic, AssignCheck(r, who, t)
      PROVE  OwnerInv'
  <2>1. Begin(r, "assign", "write", t, who, Ids(who), NoEdit, {}, {})
    BY <1>5 DEF AssignCheck
  <2> QED
    BY <1>1, <1>2, <2>1, OwnerBegin
<1>6. ASSUME NEW t \in Topic, NEW e \in Edit, UpdateRead(r, t, e)
      PROVE  OwnerInv'
  <2>1. e.field # "teacher" /\ Begin(r, "update", "write", t, {}, NoIds, e, {}, {t})
    BY <1>6 DEF UpdateRead
  <2>2. EditKeepsOwners(e, {t})
    BY <1>0, <2>1
  <2> QED
    BY <2>1, <2>2, <1>2, OwnerBegin
<1>7. ASSUME NEW t \in Topic, NEW e \in Edit, ForceCheck(r, t, e)
      PROVE  OwnerInv'
  <2>1. ASSUME e.field = "teacher", e.to # topic[t].teacher, NEW s \in Student,
               project[s] # NoRow, project[s].topic = t
        PROVE  project[s].status = "REJECTED"
    <3>1. s \notin WithStatus(project, t, ProjectStatus \ {"REJECTED"})
      BY <1>7, <2>1 DEF ForceCheck
    <3>2. project[s].status \in ProjectStatus
      BY <2>1 DEF OwnerInv, TypeOK, Row
    <3> QED
      BY <2>1, <3>1, <3>2 DEF WithStatus
  <2>2. Begin(r, "force", "write", t, {}, NoIds, e, {}, {t})
    BY <1>7 DEF ForceCheck
  <2>3. EditKeepsOwners(e, {t})
    BY <2>1 DEF EditKeepsOwners
  <2> QED
    BY <2>2, <2>3, <1>2, OwnerBegin
<1>8. ASSUME NEW batch \in SUBSET Topic, NEW t \in Topic, NEW verdict \in {"APPROVED", "REJECTED"},
             BulkCheck(r, batch, t, verdict)
      PROVE  OwnerInv'
  <2> DEFINE e == [field |-> "status", to |-> verdict]
  <2>1. e.field # "teacher" /\ Begin(r, "bulk", "write", t, {}, NoIds, e, {}, batch)
    BY <1>8 DEF BulkCheck
  <2> HIDE DEF e
  <2>2. EditKeepsOwners(e, batch)
    BY <1>0, <2>1
  <2> QED
    BY <2>1, <2>2, <1>2, OwnerBegin
<1>9. ASSUME NEW t \in Topic, NEW who \in SUBSET {s \in Student : project[s] # NoRow},
             NEW lead \in SUBSET who, LockRead(r, t, who, lead)
      PROVE  OwnerInv'
  <2> DEFINE e == [field |-> "locked", to |-> TRUE]
  <2>1. e.field # "teacher" /\ Begin(r, "lock", "write", t, who, Ids(who), e, lead, {t})
    BY <1>9 DEF LockRead
  <2> HIDE DEF e
  <2>2. EditKeepsOwners(e, {t})
    BY <1>0, <2>1
  <2> QED
    BY <2>1, <2>2, <1>2, OwnerBegin
<1> QED
  BY <1>3, <1>4, <1>5, <1>6, <1>7, <1>8, <1>9 DEF Arrive

\* A transaction whose rows are rejected or addressed to the owner, and whose edits
\* replace no teacher who is asked.
LEMMA OwnerWrite ==
    ASSUME Serial, OwnerInv, NEW r \in Request, NEW rows, NEW topics,
           Write(r, rows, topics), TypeOK',
           \A s \in Student : rows[s] # Clean =>
              \/ rows[s] = NoRow
              \/ rows[s].status = "REJECTED"
              \/ rows[s].teacher = topic[rows[s].topic].teacher,
           \A t \in Topic : topics[t] # Clean =>
              \/ topics[t].teacher = topic[t].teacher
              \/ \A s \in Student : View(project, rows)[s] # NoRow /\ View(project, rows)[s].topic = t
                                       => View(project, rows)[s].status = "REJECTED"
    PROVE  OwnerInv'
<1>1. /\ pc'[r] = "commit" /\ dirtyRow'[r] = rows /\ dirtyTopic'[r] = topics
      /\ UNCHANGED <<topic, project>>
  BY Written DEF OwnerInv
<1>2. ASSUME NEW s \in Student, View(project, rows)[s] # NoRow,
             View(project, rows)[s].status # "REJECTED"
      PROVE  View(project, rows)[s].teacher =
                IF topics[View(project, rows)[s].topic] = Clean
                THEN topic[View(project, rows)[s].topic].teacher
                ELSE topics[View(project, rows)[s].topic].teacher
  <2> DEFINE row == View(project, rows)[s]
  <2>1. rows \in [Student -> RowWrite]
    BY <1>1 DEF TypeOK
  <2>2. row \in Row /\ row.topic \in Topic
    <3>1. View(project, rows) \in [Student -> Row \cup {NoRow}]
      BY <2>1, ViewType DEF OwnerInv, TypeOK
    <3>2. row \in Row
      BY <1>2, <3>1
    <3> HIDE DEF row
    <3> QED
      BY <3>2 DEF Row
  <2>3. row = IF rows[s] = Clean THEN project[s] ELSE rows[s]
    BY ViewOf
  <2>4. row.teacher = topic[row.topic].teacher
    <3>1. row # NoRow /\ row.status # "REJECTED"
      BY <1>2
    <3> HIDE DEF row
    <3> QED
      BY <2>3, <3>1 DEF OwnerInv, RequestHasItsTeacher
  <2>5. topics[row.topic] # Clean => topics[row.topic].teacher = topic[row.topic].teacher
    BY <1>2, <2>2
  <2> HIDE DEF row
  <2>6. row.teacher = IF topics[row.topic] = Clean THEN topic[row.topic].teacher
                      ELSE topics[row.topic].teacher
    BY <2>4, <2>5
  <2> QED
    BY <2>6 DEF row
<1>3. LeavesOwners(r)'
  BY <1>1, <1>2 DEF LeavesOwners, OwnerAfter
<1>4. RequestHasItsTeacher'
  BY <1>1 DEF OwnerInv, RequestHasItsTeacher
<1> QED
  BY <1>1, <1>3, <1>4 DEF OwnerInv, Serial

\* Rows that keep topic and teacher, and are rejected or were open before.
LEMMA OwnerKept ==
    ASSUME OwnerInv, NEW s \in Student, NEW new, project[s] # NoRow,
           new.topic = project[s].topic, new.teacher = project[s].teacher,
           new.status = "REJECTED" \/ project[s].status # "REJECTED"
    PROVE  new.status = "REJECTED" \/ new.teacher = topic[new.topic].teacher
BY DEF OwnerInv, RequestHasItsTeacher

LEMMA OwnerPlace ==
    ASSUME Serial, OwnerInv, NEW r \in Request, NEW status, Place(r, status),
           arg[r].op \in {"register", "assign"}, TypeOK'
    PROVE  OwnerInv'
<1> DEFINE rows == [s \in Student |-> IF s \in arg[r].who THEN PlacedRow(r, s, status) ELSE Clean]
<1>1. Write(r, rows, NoTopicWrites) /\ pc[r] = "write"
  BY DEF Place, Write
<1>2. arg[r].seen.teacher = topic[arg[r].topic].teacher
  BY <1>1 DEF OwnerInv, KnowsOwner
<1>3. \A s \in Student : rows[s] # Clean => rows[s].teacher = topic[rows[s].topic].teacher
  BY <1>2 DEF PlacedRow
<1>4. \A t \in Topic : NoTopicWrites[t] = Clean
  BY DEF NoTopicWrites
<1> HIDE DEF rows
<1> QED
  BY <1>1, <1>3, <1>4, OwnerWrite

LEMMA OwnerApproveWrite ==
    ASSUME Serial, OwnerInv, NEW r \in Request, ApproveWrite(r), TypeOK'
    PROVE  OwnerInv'
<1> DEFINE t0 == arg[r].topic
           after == View(project, Decided(r, "APPROVED"))
           turned == IF Fills(after, t0, arg[r].seen.max_students)
                     THEN WithStatus(after, t0, {"PENDING"}) ELSE {}
           rows == [s \in Student |-> IF s \in turned
                                      THEN [project[s] EXCEPT !.status = "REJECTED"]
                                      ELSE Decided(r, "APPROVED")[s]]
<1>1. /\ Write(r, rows, NoTopicWrites) /\ pc[r] = "write" /\ arg[r].op = "approve"
      /\ \A s \in arg[r].who : Holds(r, s)
  BY DEF ApproveWrite, Running, Write
<1>2. \A s \in arg[r].who : project[s] # NoRow => project[s].status # "REJECTED"
  BY <1>1 DEF OwnerInv, KnowsOwner, FindsOpen
<1>3. ASSUME NEW s \in Student, rows[s] # Clean
      PROVE  rows[s].status = "REJECTED" \/ rows[s].teacher = topic[rows[s].topic].teacher
  <2>1. CASE s \in arg[r].who
    <3>1. project[s] \in Row /\ project[s] # NoRow /\ project[s].status # "REJECTED"
      BY <1>1, <1>2, <2>1, InFlight DEF OwnerInv, Holds
    <3>2. Decided(r, "APPROVED")[s] = [project[s] EXCEPT !.status = "APPROVED"]
      BY <2>1 DEF Decided
    <3>3. /\ rows[s].topic = project[s].topic /\ rows[s].teacher = project[s].teacher
      <4>1. CASE s \in turned
        <5>1. rows[s] = [project[s] EXCEPT !.status = "REJECTED"]
          BY <4>1
        <5> QED
          BY <3>1, <5>1, StatusSet DEF ProjectStatus
      <4>2. CASE s \notin turned
        <5>1. rows[s] = [project[s] EXCEPT !.status = "APPROVED"]
          BY <3>2, <4>2
        <5> QED
          BY <3>1, <5>1, StatusSet DEF ProjectStatus
      <4> QED
        BY <4>1, <4>2
    <3> HIDE DEF rows
    <3> QED
      BY <3>1, <3>3, OwnerKept
  <2>2. CASE s \notin arg[r].who
    <3>1. Decided(r, "APPROVED")[s] = Clean
      BY <2>2 DEF Decided
    <3>2. s \in turned /\ rows[s] = [project[s] EXCEPT !.status = "REJECTED"]
      BY <1>3, <3>1
    <3>3. after[s] = project[s]
      BY <3>1 DEF View
    <3>4. project[s] # NoRow
      BY <3>2, <3>3 DEF WithStatus
    <3>5. project[s] \in Row
      BY <3>4 DEF OwnerInv, TypeOK
    <3>6. rows[s].status = "REJECTED"
      BY <3>2, <3>5 DEF Row
    <3> QED
      BY <3>6
  <2> QED
    BY <2>1, <2>2
<1>4. \A t \in Topic : NoTopicWrites[t] = Clean
  BY DEF NoTopicWrites
<1> HIDE DEF rows
<1> QED
  BY <1>1, <1>3, <1>4, OwnerWrite

LEMMA OwnerRejectWrite ==
    ASSUME Serial, OwnerInv, NEW r \in Request, RejectWrite(r), TypeOK'
    PROVE  OwnerInv'
<1> DEFINE rows == Decided(r, "REJECTED")
<1>1. /\ Write(r, rows, NoTopicWrites) /\ pc[r] = "write" /\ \A s \in arg[r].who : Holds(r, s)
  BY DEF RejectWrite, Write
<1>2. ASSUME NEW s \in Student, rows[s] # Clean
      PROVE  rows[s].status = "REJECTED"
  <2>1. s \in arg[r].who /\ rows[s] = [project[s] EXCEPT !.status = "REJECTED"]
    BY <1>2 DEF Decided
  <2>2. project[s] \in Row
    BY <1>1, <2>1, InFlight DEF OwnerInv
  <2> QED
    BY <2>1, <2>2 DEF Row
<1>3. \A t \in Topic : NoTopicWrites[t] = Clean
  BY DEF NoTopicWrites
<1> HIDE DEF rows
<1> QED
  BY <1>1, <1>2, <1>3, OwnerWrite

\* Rows that keep topic, teacher and status, with edits that keep the teacher.
LEMMA OwnerWriteSame ==
    ASSUME Serial, OwnerInv, NEW r \in Request, NEW rows, NEW topics,
           Write(r, rows, topics), TypeOK',
           \A s \in Student : rows[s] # Clean =>
              /\ project[s] # NoRow
              /\ rows[s].topic = project[s].topic /\ rows[s].teacher = project[s].teacher
              /\ rows[s].status = project[s].status,
           \A t \in Topic : topics[t] # Clean => topics[t].teacher = topic[t].teacher
    PROVE  OwnerInv'
<1>1. \A s \in Student : rows[s] # Clean =>
         rows[s].status = "REJECTED" \/ rows[s].teacher = topic[rows[s].topic].teacher
  BY OwnerKept
<1> QED
  BY <1>1, OwnerWrite

\* An edit of another column keeps the teacher.
LEMMA EditKeepsTeacher ==
    ASSUME NEW batch, NEW e, e.field # "teacher", NEW t \in Topic, TopicEdits(batch, e)[t] # Clean
    PROVE  TopicEdits(batch, e)[t].teacher = topic[t].teacher
BY DEF TopicEdits, Edited

LEMMA OwnerEditWrite ==
    ASSUME Serial, OwnerInv, NEW r \in Request, EditWrite(r), TypeOK'
    PROVE  OwnerInv'
<1> DEFINE e == arg[r].edit
           topics == TopicEdits(arg[r].batch, e)
<1>1. Write(r, NoWrites, topics) /\ pc[r] = "write"
  BY DEF EditWrite, Write
<1>2. EditKeepsOwners(e, arg[r].batch)
  BY <1>1 DEF OwnerInv, KnowsOwner
<1>3. \A s \in Student : NoWrites[s] = Clean /\ View(project, NoWrites)[s] = project[s]
  BY ViewOf DEF NoWrites
<1>4. ASSUME NEW t \in Topic, topics[t] # Clean
      PROVE  \/ topics[t].teacher = topic[t].teacher
             \/ \A s \in Student : project[s] # NoRow /\ project[s].topic = t
                                      => project[s].status = "REJECTED"
  <2>1. t \in arg[r].batch /\ topics[t] = Edited(topic[t], e)
    BY <1>4 DEF TopicEdits
  <2>2. topics[t].teacher = IF e.field = "teacher" THEN e.to ELSE topic[t].teacher
    BY <2>1 DEF Edited
  <2> HIDE DEF topics, e
  <2> QED
    BY <1>2, <2>1, <2>2 DEF EditKeepsOwners
<1>5. ASSUME NEW t \in Topic, topics[t] # Clean
      PROVE  \/ topics[t].teacher = topic[t].teacher
             \/ \A s \in Student : View(project, NoWrites)[s] # NoRow
                                    /\ View(project, NoWrites)[s].topic = t
                                      => View(project, NoWrites)[s].status = "REJECTED"
  BY <1>3, <1>4, <1>5
<1> HIDE DEF topics
<1> QED
  BY <1>1, <1>3, <1>5, OwnerWrite

LEMMA OwnerBulkWrite ==
    ASSUME Serial, OwnerInv, NEW r \in Request, BulkWrite(r), TypeOK'
    PROVE  OwnerInv'
<1> DEFINE turned == IF arg[r].edit.to = "REJECTED"
                     THEN UNION {WithStatus(project, t, {"PENDING"}) : t \in arg[r].batch}
                     ELSE {}
           rows == [s \in Student |-> IF s \in turned
                                      THEN [project[s] EXCEPT !.status = "REJECTED"]
                                      ELSE Clean]
           topics == TopicEdits(arg[r].batch, arg[r].edit)
<1>1. Write(r, rows, topics) /\ pc[r] = "write" /\ arg[r].op = "bulk"
  BY DEF BulkWrite, Running, Write
<1>2. arg[r].edit.field # "teacher"
  BY <1>1 DEF OwnerInv, KnowsOwner
<1>3. ASSUME NEW s \in Student, rows[s] # Clean
      PROVE  rows[s].status = "REJECTED"
  <2>1. s \in turned /\ rows[s] = [project[s] EXCEPT !.status = "REJECTED"]
    BY <1>3
  <2>2. project[s] # NoRow
    BY <2>1 DEF WithStatus
  <2>3. project[s] \in Row
    BY <2>2 DEF OwnerInv, TypeOK
  <2> QED
    BY <2>1, <2>3 DEF Row
<1>4. \A t \in Topic : topics[t] # Clean => topics[t].teacher = topic[t].teacher
  BY <1>2, EditKeepsTeacher
<1> HIDE DEF rows, topics
<1> QED
  BY <1>1, <1>3, <1>4, OwnerWrite

LEMMA OwnerProceed ==
    ASSUME Serial, OwnerInv, NEW r \in Request, Proceed(r), ~Commit(r), TypeOK'
    PROVE  OwnerInv'
<1>0. TypeOK
  BY DEF OwnerInv
<1>1. ASSUME pc[r] = "check", pc'[r] = "write", UNCHANGED <<topic, project>>,
             arg'[r].op = arg[r].op, arg'[r].topic = arg[r].topic,
             arg[r].op \in {"register", "assign"} => arg'[r].seen = arg[r].seen,
             arg[r].op = "approve" => arg'[r].who = arg[r].who,
             arg'[r].edit = arg[r].edit, arg'[r].batch = arg[r].batch
      PROVE  OwnerInv'
  <2>1. KnowsOwner(r)
    BY <1>1 DEF OwnerInv
  <2>2. EditKeepsOwners(arg[r].edit, arg[r].batch)' /\ FindsOpen(arg[r].op, arg[r].who)'
    BY <1>1, <2>1 DEF KnowsOwner, EditKeepsOwners, FindsOpen
  <2>3. KnowsOwner(r)'
    BY <1>1, <2>1, <2>2 DEF KnowsOwner
  <2>4. RequestHasItsTeacher'
    BY <1>1 DEF OwnerInv, RequestHasItsTeacher
  <2> QED
    BY <1>1, <2>3, <2>4 DEF OwnerInv, Serial
<1>2. CASE RegisterCheck(r)
  <2>1. /\ pc[r] = "check" /\ arg[r].op = "register" /\ pc'[r] = "write"
        /\ arg'[r] = [arg[r] EXCEPT !.ids = Ids(arg[r].who)]
        /\ UNCHANGED <<topic, project>>
    BY <1>0, <1>2 DEF RegisterCheck, TypeOK
  <2>2. arg[r] \in Arg
    BY <1>0, <2>1, InFlight
  <2>3. /\ arg'[r].op = arg[r].op /\ arg'[r].topic = arg[r].topic /\ arg'[r].seen = arg[r].seen
        /\ arg'[r].edit = arg[r].edit /\ arg'[r].batch = arg[r].batch
    BY <2>1, <2>2 DEF Arg
  <2> QED
    BY <1>1, <2>1, <2>3
<1>3. CASE ApproveCheck(r)
  <2>1. /\ pc[r] = "check" /\ arg[r].op = "approve" /\ pc'[r] = "write"
        /\ arg'[r] = [arg[r] EXCEPT !.seen = Seen(arg[r].topic)]
        /\ UNCHANGED <<topic, project>>
    BY <1>0, <1>3 DEF ApproveCheck, TypeOK
  <2>2. arg[r] \in Arg
    BY <1>0, <2>1, InFlight
  <2>3. /\ arg'[r].op = arg[r].op /\ arg'[r].topic = arg[r].topic /\ arg'[r].who = arg[r].who
        /\ arg'[r].edit = arg[r].edit /\ arg'[r].batch = arg[r].batch
    BY <2>1, <2>2 DEF Arg
  <2> QED
    BY <1>1, <2>1, <2>3
<1>4. CASE LeaderCheck(r)
  <2>1. /\ pc[r] = "check" /\ arg[r].op = "leader" /\ pc'[r] = "write"
        /\ arg'[r] = [arg[r] EXCEPT !.who = arg[r].who \cup Leaders(project, arg[r].topic)]
        /\ UNCHANGED <<topic, project>>
    BY <1>0, <1>4 DEF LeaderCheck, TypeOK
  <2>2. arg[r] \in Arg
    BY <1>0, <2>1, InFlight
  <2>3. /\ arg'[r].op = arg[r].op /\ arg'[r].topic = arg[r].topic /\ arg'[r].seen = arg[r].seen
        /\ arg'[r].edit = arg[r].edit /\ arg'[r].batch = arg[r].batch
    BY <2>1, <2>2 DEF Arg
  <2> QED
    BY <1>1, <2>1, <2>3
<1>5. CASE RegisterWrite(r)
  BY <1>5, OwnerPlace DEF RegisterWrite, Running
<1>6. CASE AssignWrite(r)
  BY <1>6, OwnerPlace DEF AssignWrite, Running
<1>7. CASE CancelWrite(r)
  <2> DEFINE rows == [s \in Student |-> IF s \in arg[r].who THEN NoRow ELSE Clean]
  <2>1. Write(r, rows, NoTopicWrites)
    BY <1>7 DEF CancelWrite
  <2>2. \A s \in Student : rows[s] # Clean => rows[s] = NoRow
    OBVIOUS
  <2>3. \A t \in Topic : NoTopicWrites[t] = Clean
    BY DEF NoTopicWrites
  <2> HIDE DEF rows
  <2> QED
    BY <2>1, <2>2, <2>3, OwnerWrite
<1>8. CASE LockWrite(r)
  <2> DEFINE rows == [s \in Student |-> IF s \in arg[r].who
                                        THEN [project[s] EXCEPT !.is_leader = (s \in arg[r].lead)]
                                        ELSE Clean]
             topics == TopicEdits(arg[r].batch, arg[r].edit)
  <2>1. /\ pc[r] = "write" /\ arg[r].op = "lock"
        /\ (\A s \in arg[r].who : project[s] # NoRow) /\ Write(r, rows, topics)
    BY <1>8 DEF LockWrite, Running, Write, Holds
  <2>2. arg[r].edit.field # "teacher"
    BY <2>1 DEF OwnerInv, KnowsOwner
  <2>3. \A t \in Topic : topics[t] # Clean => topics[t].teacher = topic[t].teacher
    BY <2>2, EditKeepsTeacher
  <2>4. \A s \in Student : rows[s] # Clean =>
           /\ project[s] # NoRow
           /\ rows[s].topic = project[s].topic /\ rows[s].teacher = project[s].teacher
           /\ rows[s].status = project[s].status
    BY <1>0, <2>1, FlagRows DEF FlagsOnly
  <2> HIDE DEF rows, topics
  <2> QED
    BY <2>1, <2>3, <2>4, OwnerWriteSame
<1>9. CASE LeaderWrite(r)
  <2> DEFINE who == Demoted(r) \cup arg[r].lead
             rows == [s \in Student |-> IF s \in who
                                        THEN [project[s] EXCEPT !.is_leader = (s \in arg[r].lead)]
                                        ELSE Clean]
  <2>1. (\A s \in who : project[s] # NoRow) /\ Write(r, rows, NoTopicWrites)
    BY <1>9 DEF LeaderWrite, Holds, Demoted, Leaders, WithStatus
  <2>2. \A t \in Topic : NoTopicWrites[t] = Clean
    BY DEF NoTopicWrites
  <2> HIDE DEF who
  <2>3. \A s \in Student : rows[s] # Clean =>
           /\ project[s] # NoRow
           /\ rows[s].topic = project[s].topic /\ rows[s].teacher = project[s].teacher
           /\ rows[s].status = project[s].status
    BY <1>0, <2>1, FlagRows DEF FlagsOnly
  <2> HIDE DEF rows
  <2> QED
    BY <2>1, <2>2, <2>3, OwnerWriteSame
<1> QED
  BY <1>2, <1>3, <1>4, <1>5, <1>6, <1>7, <1>8, <1>9,
     OwnerApproveWrite, OwnerRejectWrite, OwnerEditWrite, OwnerBulkWrite DEF Proceed

\* The commit stores the teachers that the transaction took for its rows.
LEMMA OwnerCommit ==
    ASSUME Serial, OwnerInv, NEW r \in Request, Commit(r), TypeOK'
    PROVE  OwnerInv'
<1>1. LeavesOwners(r) /\ project' = View(project, dirtyRow[r]) /\ pc'[r] = "idle"
  BY DEF OwnerInv, TypeOK, Commit, Finish
<1>2. ASSUME NEW t \in Topic
      PROVE  topic'[t].teacher = OwnerAfter(r, t)
  <2> DEFINE base == IF dirtyTopic[r][t] = Clean THEN topic[t] ELSE dirtyTopic[r][t]
  <2>1. topic'[t] = base \/ topic'[t] = [base EXCEPT !.registered_students = arg[r].count]
    BY DEF Commit, Stored
  <2>2. base \in TopicRow
    BY DEF OwnerInv, TypeOK, TopicWrite
  <2>3. base.teacher = OwnerAfter(r, t)
    BY DEF OwnerAfter
  <2> HIDE DEF base
  <2> QED
    BY <2>1, <2>2, <2>3 DEF TopicRow
<1>3. ASSUME NEW s \in Student, project'[s] # NoRow, project'[s].status # "REJECTED"
      PROVE  project'[s].teacher = topic'[project'[s].topic].teacher
  <2>1. project'[s].topic \in Topic
    BY <1>3 DEF TypeOK, Row
  <2>2. project'[s].teacher = OwnerAfter(r, project'[s].topic)
    BY <1>1, <1>3 DEF LeavesOwners
  <2> QED
    BY <1>2, <2>1, <2>2
<1>4. RequestHasItsTeacher'
  BY <1>3 DEF RequestHasItsTeacher
<1> QED
  BY <1>1, <1>4 DEF OwnerInv, Serial

\* The hourly job leaves topic, teacher and rejections alone.
LEMMA OwnerEscalate ==
    ASSUME OwnerInv, Escalate, TypeOK'
    PROVE  OwnerInv'
<1>1. /\ UNCHANGED <<open, topic, pc, arg, dirtyRow, dirtyTopic>>
      /\ \A s \in Student :
            /\ project[s] = NoRow <=> project'[s] = NoRow
            /\ project[s] # NoRow =>
                  /\ project'[s].topic = project[s].topic
                  /\ project'[s].teacher = project[s].teacher
                  /\ project'[s].status = "REJECTED" <=> project[s].status = "REJECTED"
  BY EscalatedRows DEF OwnerInv
<1>2. RequestHasItsTeacher'
  BY <1>1 DEF OwnerInv, RequestHasItsTeacher
<1>3. ASSUME NEW r \in Request, pc'[r] \in {"check", "write"}
      PROVE  KnowsOwner(r)'
  <2>1. KnowsOwner(r) /\ arg[r].who \subseteq Student
    BY <1>1, <1>3, InFlight DEF OwnerInv
  <2>2. EditKeepsOwners(arg[r].edit, arg[r].batch)'
    BY <1>1, <2>1 DEF KnowsOwner, EditKeepsOwners
  <2>3. FindsOpen(arg[r].op, arg[r].who)'
    BY <1>1, <2>1 DEF KnowsOwner, FindsOpen
  <2> QED
    BY <1>1, <2>1, <2>2, <2>3 DEF KnowsOwner
<1>4. ASSUME NEW r \in Request, pc'[r] = "commit"
      PROVE  LeavesOwners(r)'
  <2>1. LeavesOwners(r)
    BY <1>1, <1>4 DEF OwnerInv
  <2> SUFFICES ASSUME NEW s \in Student,
                      View(project', dirtyRow[r])[s] # NoRow,
                      View(project', dirtyRow[r])[s].status # "REJECTED"
               PROVE  View(project', dirtyRow[r])[s].teacher =
                         OwnerAfter(r, View(project', dirtyRow[r])[s].topic)
    BY <1>1 DEF LeavesOwners, OwnerAfter
  <2>2. CASE dirtyRow[r][s] = Clean
    <3>1. View(project, dirtyRow[r])[s] = project[s] /\ View(project', dirtyRow[r])[s] = project'[s]
      BY <2>2, ViewOf
    <3> QED
      BY <1>1, <2>1, <3>1 DEF LeavesOwners
  <2>3. CASE dirtyRow[r][s] # Clean
    <3>1. View(project, dirtyRow[r])[s] = View(project', dirtyRow[r])[s]
      BY <2>3, ViewOf
    <3> QED
      BY <2>1, <3>1 DEF LeavesOwners
  <2> QED
    BY <2>2, <2>3
<1> QED
  BY <1>2, <1>3, <1>4 DEF OwnerInv

LEMMA OwnerStutter ==
    ASSUME OwnerInv, UNCHANGED <<topic, project, pc, arg, dirtyRow, dirtyTopic>>, TypeOK'
    PROVE  OwnerInv'
BY DEF OwnerInv, RequestHasItsTeacher, KnowsOwner, FindsOpen, EditKeepsOwners, LeavesOwners,
       OwnerAfter

LEMMA OwnerNext ==
    ASSUME Serial, OwnerInv, [Next]_vars
    PROVE  OwnerInv'
<1>0. TypeOK'
  BY TypeNext DEF OwnerInv
<1>1. ASSUME NEW r \in Request, Arrive(r) \/ Proceed(r)
      PROVE  OwnerInv'
  BY <1>0, <1>1, OwnerArrive, OwnerProceed, OwnerCommit
<1>2. ASSUME NEW r \in Request, Rollback(r)
      PROVE  OwnerInv'
  <2>1. pc'[r] = "idle" /\ UNCHANGED <<topic, project>>
    BY <1>2 DEF Rollback, Finish, OwnerInv, TypeOK
  <2>2. RequestHasItsTeacher'
    BY <2>1 DEF OwnerInv, RequestHasItsTeacher
  <2> QED
    BY <1>0, <2>1, <2>2 DEF OwnerInv, Serial
<1>3. CASE Expire \/ Extend
  BY <1>0, <1>3, DeadlineSteps, OwnerStutter
<1>4. CASE Escalate
  BY <1>0, <1>4, OwnerEscalate
<1>5. CASE UNCHANGED vars
  BY <1>0, <1>5, OwnerStutter DEF vars
<1> QED
  BY <1>1, <1>2, <1>3, <1>4, <1>5 DEF Next, Environment

\* With one request in flight at a time every open request is addressed to the
\* teacher who owns its topic, so decideRegistration lets somebody answer it:
\* forceUpdate replaces no teacher whom a student asks, and no approval reopens a
\* request that was rejected while another teacher had the topic.
THEOREM SerialRequestsHaveTheirTeacher ==
    ASSUME Serial
    PROVE  Spec => []RequestHasItsTeacher
<1>1. Init => OwnerInv
  <2> SUFFICES ASSUME Init PROVE OwnerInv
    OBVIOUS
  <2> QED
    BY TypeInit DEF Init, OwnerInv, RequestHasItsTeacher
<1>2. OwnerInv /\ [Next]_vars => OwnerInv'
  BY OwnerNext
<1>3. OwnerInv => RequestHasItsTeacher
  BY DEF OwnerInv
<1> QED
  BY <1>1, <1>2, <1>3, PTL DEF Spec

-----------------------------------------------------------------------------
(* The approval that fills a topic answers everybody who waits for it *)

\* An approval that has checked knows the limit; one that has written turned down
\* whoever still waits, if the topic is full with its own row.
KnowsLimit(r)  == arg[r].seen.max_students = topic[arg[r].topic].max_students

LeavesNobodyWaiting(r) ==
    LET after == View(project, dirtyRow[r])
        t == arg[r].topic
    IN  /\ \A s \in Student : dirtyRow[r][s] # Clean =>
              dirtyRow[r][s] = NoRow \/ dirtyRow[r][s].status # "PENDING"
        /\ Cardinality(Occupied(after, t)) >= topic[t].max_students
              => WithStatus(after, t, {"PENDING"}) = {}

\* The inductive invariant behind FillingApprovalsAnswer.
ApprovalInv ==
    /\ TypeOK
    /\ \A r \in Request :
          pc[r] # "idle" /\ arg[r].op = "approve" =>
             /\ pc[r] = "write" => KnowsLimit(r)
             /\ pc[r] = "commit" => LeavesNobodyWaiting(r)

LEMMA ApprovalWrite ==
    ASSUME Serial, ApprovalInv, NEW r \in Request, ApproveWrite(r), TypeOK'
    PROVE  ApprovalInv'
<1> DEFINE t0 == arg[r].topic
           max == arg[r].seen.max_students
           after == View(project, Decided(r, "APPROVED"))
           turned == IF Fills(after, t0, max) THEN WithStatus(after, t0, {"PENDING"}) ELSE {}
           rows == [s \in Student |-> IF s \in turned
                                      THEN [project[s] EXCEPT !.status = "REJECTED"]
                                      ELSE Decided(r, "APPROVED")[s]]
           new == View(project, rows)
<1>0. TypeOK
  BY DEF ApprovalInv
<1>1. /\ Write(r, rows, NoTopicWrites) /\ pc[r] = "write" /\ arg[r].op = "approve"
      /\ \A s \in arg[r].who : Holds(r, s)
  BY DEF ApproveWrite, Running, Write
<1>2. /\ pc'[r] = "commit" /\ arg'[r].op = "approve" /\ arg'[r].topic = t0
      /\ dirtyRow'[r] = rows /\ UNCHANGED <<topic, project>>
  BY <1>0, <1>1, Written
<1>3. max = topic[t0].max_students
  BY <1>1 DEF ApprovalInv, KnowsLimit
<1>4. \A s \in Student : /\ s \in turned => after[s] # NoRow /\ after[s].status = "PENDING"
                         /\ after[s] = IF Decided(r, "APPROVED")[s] = Clean THEN project[s]
                                       ELSE Decided(r, "APPROVED")[s]
                         /\ new[s] = IF rows[s] = Clean THEN project[s] ELSE rows[s]
  BY ViewOf DEF WithStatus
<1>5. ASSUME NEW s \in Student, s \in arg[r].who
      PROVE  /\ Decided(r, "APPROVED")[s] # Clean /\ Decided(r, "APPROVED")[s] # NoRow
             /\ Decided(r, "APPROVED")[s].status = "APPROVED"
  <2>1. project[s] \in Row
    BY <1>0, <1>1, <1>5, InFlight
  <2>2. Decided(r, "APPROVED")[s] = [project[s] EXCEPT !.status = "APPROVED"]
    BY <1>5 DEF Decided
  <2> QED
    BY <2>1, <2>2, StatusSet DEF ProjectStatus
<1>6. \A s \in Student : s \notin arg[r].who => Decided(r, "APPROVED")[s] = Clean
  BY DEF Decided
<1>7. ASSUME NEW s \in Student, s \in turned
      PROVE  /\ rows[s] # Clean /\ rows[s] # NoRow /\ rows[s].status = "REJECTED"
             /\ s \notin arg[r].who
  <2>1. after[s] # NoRow /\ after[s].status = "PENDING"
    BY <1>4, <1>7
  <2>2. s \notin arg[r].who
    BY <1>4, <1>5, <2>1
  <2>3. after[s] = project[s]
    BY <1>4, <1>6, <2>2
  <2>4. project[s] \in Row
    BY <1>0, <2>1, <2>3 DEF TypeOK
  <2>5. rows[s] = [project[s] EXCEPT !.status = "REJECTED"]
    BY <1>7
  <2> QED
    BY <2>2, <2>4, <2>5, StatusSet DEF ProjectStatus
<1>8. \A s \in Student : s \notin turned => rows[s] = Decided(r, "APPROVED")[s] /\ new[s] = after[s]
  BY <1>4
<1>9. turned = IF Cardinality(Occupied(after, t0)) >= max THEN WithStatus(after, t0, {"PENDING"})
               ELSE {}
  BY DEF Fills
<1>10. \A s \in Student : rows[s] # Clean => rows[s] = NoRow \/ rows[s].status # "PENDING"
  <2> HIDE DEF rows, turned
  <2> QED
    BY <1>5, <1>6, <1>7, <1>8
<1>11. \A s \in Student : s \in turned => new[s] # NoRow /\ new[s].status = "REJECTED"
  <2> HIDE DEF rows, turned, new
  <2> QED
    BY <1>4, <1>7
<1>12. Occupied(new, t0) = Occupied(after, t0)
  <2> HIDE DEF rows, turned, new, after
  <2>1. ASSUME NEW s \in Student
        PROVE  s \in Occupied(new, t0) <=> s \in Occupied(after, t0)
    <3>1. CASE s \in turned
      BY <1>4, <1>11, <3>1, Statuses DEF Occupied, WithStatus
    <3>2. CASE s \notin turned
      BY <1>8, <3>2 DEF Occupied, WithStatus
    <3> QED
      BY <3>1, <3>2
  <2>2. Occupied(new, t0) \subseteq Student /\ Occupied(after, t0) \subseteq Student
    BY WithStatusFinite DEF Occupied
  <2> QED
    BY <2>1, <2>2
<1>13. Cardinality(Occupied(new, t0)) >= topic[t0].max_students
          => WithStatus(new, t0, {"PENDING"}) = {}
  <2> HIDE DEF rows, new, after, t0, max
  <2> SUFFICES ASSUME Cardinality(Occupied(new, t0)) >= topic[t0].max_students,
                      NEW s \in WithStatus(new, t0, {"PENDING"})
               PROVE  FALSE
    OBVIOUS
  <2>1. turned = WithStatus(after, t0, {"PENDING"})
    BY <1>3, <1>9, <1>12
  <2>2. s \in Student /\ new[s] # NoRow /\ new[s].topic = t0 /\ new[s].status = "PENDING"
    BY DEF WithStatus
  <2> HIDE DEF turned
  <2>3. s \notin turned
    BY <1>11, <2>2
  <2>4. s \in WithStatus(after, t0, {"PENDING"})
    BY <1>8, <2>2, <2>3 DEF WithStatus
  <2> QED
    BY <2>1, <2>3, <2>4
<1>14. LeavesNobodyWaiting(r)'
  <2> HIDE DEF rows
  <2> QED
    BY <1>2, <1>10, <1>13 DEF LeavesNobodyWaiting
<1> QED
  BY <1>2, <1>14 DEF ApprovalInv, Serial

\* A request of another kind stays one.
LEMMA OtherOps ==
    ASSUME Serial, TypeOK, NEW r \in Request, NEW op, Proceed(r), ~Commit(r),
           arg[r].op # op
    PROVE  arg'[r].op # op
<1>1. ASSUME NEW rows, NEW topics, Write(r, rows, topics)
      PROVE  arg'[r].op = arg[r].op
  BY <1>1, Written
<1>2. CASE RegisterCheck(r) \/ ApproveCheck(r) \/ LeaderCheck(r)
  <2>1. pc[r] # "idle"
    BY <1>2 DEF RegisterCheck, ApproveCheck, LeaderCheck
  <2>2. arg[r] \in Arg
    BY <2>1, InFlight
  <2>3. \/ arg'[r] = [arg[r] EXCEPT !.ids = Ids(arg[r].who)]
        \/ arg'[r] = [arg[r] EXCEPT !.seen = Seen(arg[r].topic)]
        \/ arg'[r] = [arg[r] EXCEPT !.who = arg[r].who \cup Leaders(project, arg[r].topic)]
    BY <1>2 DEF RegisterCheck, ApproveCheck, LeaderCheck, TypeOK
  <2>4. arg'[r].op = arg[r].op
    BY <2>2, <2>3 DEF Arg
  <2> QED
    BY <2>4
<1>3. CASE \E rows, topics : Write(r, rows, topics)
  BY <1>1, <1>3
<1>4. \/ RegisterCheck(r) \/ ApproveCheck(r) \/ LeaderCheck(r)
      \/ \E rows, topics : Write(r, rows, topics)
  BY DEF Proceed, RegisterWrite, AssignWrite, Place, CancelWrite, ApproveWrite, RejectWrite,
         EditWrite, BulkWrite, LockWrite, LeaderWrite
<1> QED
  BY <1>2, <1>3, <1>4

LEMMA ApprovalProceed ==
    ASSUME Serial, ApprovalInv, NEW r \in Request, Proceed(r), ~Commit(r), TypeOK'
    PROVE  ApprovalInv'
<1>0. TypeOK
  BY DEF ApprovalInv
<1>1. CASE ApproveCheck(r)
  <2>1. /\ pc[r] = "check" /\ pc'[r] = "write"
        /\ arg'[r] = [arg[r] EXCEPT !.seen = Seen(arg[r].topic)]
        /\ UNCHANGED <<topic, project>>
    BY <1>0, <1>1 DEF ApproveCheck, TypeOK
  <2>2. arg[r] \in Arg
    BY <1>0, <2>1, InFlight
  <2>3. arg'[r].topic = arg[r].topic /\ arg'[r].seen = Seen(arg[r].topic)
    BY <2>1, <2>2 DEF Arg
  <2>4. KnowsLimit(r)'
    BY <2>1, <2>3 DEF KnowsLimit, Seen
  <2> QED
    BY <2>1, <2>4 DEF ApprovalInv, Serial
<1>2. CASE ApproveWrite(r)
  BY <1>2, ApprovalWrite
<1>3. CASE arg[r].op # "approve"
  <2>1. arg'[r].op # "approve"
    BY <1>0, <1>3, OtherOps
  <2> QED
    BY <2>1 DEF ApprovalInv, Serial
<1>4. arg[r].op = "approve" => ApproveCheck(r) \/ ApproveWrite(r)
  BY DEF Proceed, RegisterCheck, RegisterWrite, CancelWrite, ApproveCheck, RejectWrite,
         AssignWrite, EditWrite, BulkWrite, LockWrite, LeaderCheck, LeaderWrite, Running
<1> QED
  BY <1>1, <1>2, <1>3, <1>4

\* After the hourly job no clean row is PENDING.
LEMMA ApprovalEscalate ==
    ASSUME ApprovalInv, Escalate, TypeOK'
    PROVE  ApprovalInv'
<1>1. /\ UNCHANGED <<open, topic, pc, arg, dirtyRow, dirtyTopic>>
      /\ \A s \in Student : project[s] = NoRow <=> project'[s] = NoRow
      /\ \A s \in Student : project[s] # NoRow => project'[s].status # "PENDING"
  BY EscalatedRows DEF ApprovalInv
<1>2. ASSUME NEW r \in Request, pc[r] = "commit", arg[r].op = "approve"
      PROVE  LeavesNobodyWaiting(r)'
  <2>1. \A s \in Student : dirtyRow[r][s] # Clean =>
              dirtyRow[r][s] = NoRow \/ dirtyRow[r][s].status # "PENDING"
    BY <1>2 DEF ApprovalInv, LeavesNobodyWaiting
  <2>2. \A s \in Student : \/ View(project', dirtyRow[r])[s] = NoRow
                           \/ View(project', dirtyRow[r])[s].status # "PENDING"
    BY <1>1, <2>1, ViewOf
  <2>3. WithStatus(View(project', dirtyRow[r]), arg[r].topic, {"PENDING"}) = {}
    BY <2>2 DEF WithStatus
  <2> QED
    BY <1>1, <2>1, <2>3 DEF LeavesNobodyWaiting
<1>3. ASSUME NEW r \in Request, pc[r] = "write", arg[r].op = "approve"
      PROVE  KnowsLimit(r)'
  BY <1>1, <1>3 DEF ApprovalInv, KnowsLimit
<1> QED
  BY <1>1, <1>2, <1>3 DEF ApprovalInv

LEMMA ApprovalNext ==
    ASSUME Serial, ApprovalInv, [Next]_vars
    PROVE  ApprovalInv' /\ FillingApprovalAnswersAll
<1>0. TypeOK /\ TypeOK'
  BY TypeNext DEF ApprovalInv
<1>1. ASSUME NEW r \in Request, Arrive(r)
      PROVE  ApprovalInv' /\ FillingApprovalAnswersAll
  <2>1. project' = project
    BY <1>1, RowsCommittedOnly
  <2>2. pc'[r] \in {"check", "write"} /\ (pc'[r] = "write" => arg'[r].op # "approve")
    BY <1>0, <1>1, Arrived DEF ArrivedWell
  <2>3. ApprovalInv'
    BY <1>0, <2>2 DEF ApprovalInv, Serial
  <2> QED
    BY <2>1, <2>3 DEF FillingApprovalAnswersAll
<1>2. ASSUME NEW r \in Request, Proceed(r), ~Commit(r)
      PROVE  ApprovalInv' /\ FillingApprovalAnswersAll
  <2>1. project' = project
    BY <1>2, RowsCommittedOnly
  <2> QED
    BY <1>0, <1>2, <2>1, ApprovalProceed DEF FillingApprovalAnswersAll
<1>3. ASSUME NEW r \in Request, Commit(r)
      PROVE  ApprovalInv' /\ FillingApprovalAnswersAll
  <2>1. /\ pc[r] = "commit" /\ pc'[r] = "idle" /\ project' = View(project, dirtyRow[r])
    BY <1>0, <1>3 DEF Commit, Finish, TypeOK
  <2>2. ApprovalInv'
    BY <1>0, <2>1 DEF ApprovalInv, Serial
  <2>3. arg[r].op = "approve" => LeavesNobodyWaiting(r)
    BY <2>1 DEF ApprovalInv
  <2>4. FillingApprovalAnswersAll
    BY <2>1, <2>3 DEF FillingApprovalAnswersAll, LeavesNobodyWaiting, Running, Serial
  <2> QED
    BY <2>2, <2>4
<1>4. ASSUME NEW r \in Request, Rollback(r)
      PROVE  ApprovalInv' /\ FillingApprovalAnswersAll
  <2>1. pc'[r] = "idle" /\ project' = project
    BY <1>0, <1>4 DEF Rollback, Finish, TypeOK
  <2> QED
    BY <1>0, <2>1 DEF ApprovalInv, FillingApprovalAnswersAll, Serial
<1>5. CASE Expire \/ Extend \/ UNCHANGED vars
  <2>1. UNCHANGED <<topic, project, pc, arg, dirtyRow, dirtyTopic>>
    BY <1>5, DeadlineSteps DEF vars
  <2>2. ApprovalInv'
    BY <1>0, <2>1 DEF ApprovalInv, KnowsLimit, LeavesNobodyWaiting
  <2> QED
    BY <2>1, <2>2 DEF FillingApprovalAnswersAll
<1>6. CASE Escalate
  <2>1. pc' = pc
    BY <1>6 DEF Escalate
  <2> QED
    BY <1>0, <1>6, <2>1, ApprovalEscalate DEF FillingApprovalAnswersAll
<1> QED
  BY <1>1, <1>2, <1>3, <1>4, <1>5, <1>6 DEF Next, Environment

\* With one request in flight at a time an approval that fills a topic leaves no
\* request on it PENDING, the hourly job running between its steps
\* (the automatic rejection of decideRegistration).
THEOREM SerialApprovalsAnswer ==
    ASSUME Serial
    PROVE  Spec => FillingApprovalsAnswer
<1>1. Init => ApprovalInv
  <2> SUFFICES ASSUME Init PROVE ApprovalInv
    OBVIOUS
  <2> QED
    BY TypeInit DEF Init, ApprovalInv
<1>2. ApprovalInv /\ [Next]_vars => ApprovalInv' /\ [FillingApprovalAnswersAll]_vars
  BY ApprovalNext
<1> QED
  BY <1>1, <1>2, PTL DEF Spec, FillingApprovalsAnswer

-----------------------------------------------------------------------------
(* A change of leader leaves one leader *)

\* Until it commits, a change of leader names a student of its topic; before the
\* write it knows every leader there, and what it has written leaves the one named.
LeaderKnown(r) ==
    LET a == arg[r]
    IN  /\ pc[r] \in {"check", "write"} =>
              \A s \in a.lead : project[s] # NoRow => project[s].topic = a.topic
        /\ pc[r] = "write" => Leaders(project, a.topic) \subseteq a.who
        /\ pc[r] = "commit" => Leaders(View(project, dirtyRow[r]), a.topic) = a.lead

\* The inductive invariant behind LeaderChangesLeaveOne.
LeaderInv ==
    /\ TypeOK
    /\ \A r \in Request : pc[r] # "idle" /\ arg[r].op = "leader" => LeaderKnown(r)

\* Who leads is a matter of topic and flag.
LEMMA LeadersAre ==
    ASSUME NEW rows \in [Student -> Row \cup {NoRow}], NEW t
    PROVE  /\ Leaders(rows, t) \subseteq Student
           /\ \A s \in Student : s \in Leaders(rows, t) <=>
                 rows[s] # NoRow /\ rows[s].topic = t /\ rows[s].is_leader
<1>1. \A s \in Student : rows[s] # NoRow => rows[s].status \in ProjectStatus
  BY DEF Row
<1> QED
  BY <1>1 DEF Leaders, WithStatus

LEMMA LeaderWrites ==
    ASSUME Serial, LeaderInv, NEW r \in Request, LeaderWrite(r), TypeOK'
    PROVE  LeaderInv'
<1> DEFINE t0 == arg[r].topic
           lead == arg[r].lead
           who == Demoted(r) \cup lead
           rows == [s \in Student |-> IF s \in who
                                      THEN [project[s] EXCEPT !.is_leader = (s \in lead)]
                                      ELSE Clean]
           new == View(project, rows)
<1>0. TypeOK
  BY DEF LeaderInv
<1>1. /\ Write(r, rows, NoTopicWrites) /\ pc[r] = "write" /\ arg[r].op = "leader"
      /\ \A s \in lead : Holds(r, s)
  BY DEF LeaderWrite, Running, Write
<1>2. /\ pc'[r] = "commit" /\ arg'[r].op = "leader" /\ arg'[r].topic = t0 /\ arg'[r].lead = lead
      /\ dirtyRow'[r] = rows /\ project' = project /\ lead \subseteq Student
  <2>1. arg[r] \in Arg
    BY <1>0, <1>1, InFlight
  <2>2. lead \subseteq Student
    BY <2>1 DEF Arg
  <2> HIDE DEF rows
  <2> QED
    BY <1>0, <1>1, <2>2, Written
<1>3. /\ \A s \in lead : project[s] # NoRow /\ project[s].topic = t0
      /\ Leaders(project, t0) \subseteq arg[r].who
  BY <1>1 DEF LeaderInv, LeaderKnown, Holds
<1>4. \A s \in who : project[s] # NoRow
  BY <1>3 DEF Demoted, Leaders, WithStatus
<1>5. Demoted(r) = (arg[r].who \ lead) \cap Leaders(project, t0)
  BY DEF Demoted
<1> HIDE DEF lead
<1>6. \A s \in Student :
         /\ s \notin who => rows[s] = Clean
         /\ s \in who => rows[s] # Clean
         /\ rows[s] # Clean => /\ rows[s] # NoRow
                               /\ rows[s].topic = project[s].topic
                               /\ rows[s].is_leader <=> s \in lead
  <2> HIDE DEF who
  <2>1. rows = [s \in Student |-> IF s \in who
                                  THEN [project[s] EXCEPT !.is_leader = (s \in lead)]
                                  ELSE Clean]
    OBVIOUS
  <2> HIDE DEF rows
  <2>2. FlagsOnly(rows, who, lead)
    BY <1>0, <1>4, <2>1, FlagRows, Zenon
  <2> QED
    BY <2>2 DEF FlagsOnly
<1>7. \A s \in Student : new[s] = IF rows[s] = Clean THEN project[s] ELSE rows[s]
  BY ViewOf
<1>8. project \in [Student -> Row \cup {NoRow}] /\ new \in [Student -> Row \cup {NoRow}]
  <2> HIDE DEF rows
  <2>1. rows \in [Student -> RowWrite]
    BY <1>2 DEF TypeOK
  <2> QED
    BY <1>0, <2>1, ViewType DEF TypeOK
<1> HIDE DEF rows, new, t0
<1>9. ASSUME NEW s \in Student
      PROVE  s \in Leaders(new, t0) <=> s \in lead
  <2>1. CASE s \in lead
    <3>1. new[s] = rows[s] /\ new[s] # NoRow /\ new[s].topic = t0 /\ new[s].is_leader
      BY <1>3, <1>6, <1>7, <2>1
    <3> QED
      BY <1>8, <2>1, <3>1, LeadersAre
  <2>2. CASE s \in Demoted(r) /\ s \notin lead
    <3>1. new[s] = rows[s] /\ ~new[s].is_leader
      BY <1>6, <1>7, <2>2
    <3> QED
      BY <1>8, <2>2, <3>1, LeadersAre
  <2>3. CASE s \notin Demoted(r) /\ s \notin lead
    <3>1. new[s] = project[s] /\ s \notin Leaders(project, t0)
      BY <1>3, <1>5, <1>6, <1>7, <2>3
    <3> QED
      BY <1>8, <2>3, <3>1, LeadersAre
  <2> QED
    BY <2>1, <2>2, <2>3
<1>10. Leaders(new, t0) = lead
  <2>1. Leaders(new, t0) \subseteq Student
    BY <1>8, LeadersAre
  <2> QED
    BY <1>2, <1>9, <2>1
<1>11. LeaderKnown(r)'
  BY <1>2, <1>10 DEF LeaderKnown, new
<1> QED
  BY <1>2, <1>11 DEF LeaderInv, Serial

LEMMA LeaderProceed ==
    ASSUME Serial, LeaderInv, NEW r \in Request, Proceed(r), ~Commit(r), TypeOK'
    PROVE  LeaderInv'
<1>0. TypeOK
  BY DEF LeaderInv
<1>1. CASE LeaderCheck(r)
  <2>1. /\ pc[r] = "check" /\ arg[r].op = "leader" /\ pc'[r] = "write"
        /\ arg'[r] = [arg[r] EXCEPT !.who = arg[r].who \cup Leaders(project, arg[r].topic)]
        /\ project' = project
    BY <1>0, <1>1 DEF LeaderCheck, TypeOK
  <2>2. arg[r] \in Arg
    BY <1>0, <2>1, InFlight
  <2>3. /\ arg'[r].topic = arg[r].topic /\ arg'[r].lead = arg[r].lead
        /\ arg'[r].who = arg[r].who \cup Leaders(project, arg[r].topic)
    BY <2>1, <2>2 DEF Arg
  <2>4. \A s \in arg[r].lead : project[s] # NoRow => project[s].topic = arg[r].topic
    BY <2>1 DEF LeaderInv, LeaderKnown
  <2>5. LeaderKnown(r)'
    BY <2>1, <2>3, <2>4 DEF LeaderKnown
  <2> QED
    BY <2>1, <2>5 DEF LeaderInv, Serial
<1>2. CASE LeaderWrite(r)
  BY <1>2, LeaderWrites
<1>3. CASE arg[r].op # "leader"
  <2>1. arg'[r].op # "leader"
    BY <1>0, <1>3, OtherOps
  <2> QED
    BY <2>1 DEF LeaderInv, Serial
<1>4. arg[r].op = "leader" => LeaderCheck(r) \/ LeaderWrite(r)
  BY DEF Proceed, RegisterCheck, RegisterWrite, CancelWrite, ApproveCheck, ApproveWrite,
         RejectWrite, AssignWrite, EditWrite, BulkWrite, LockWrite, LeaderCheck, Running
<1> QED
  BY <1>1, <1>2, <1>3, <1>4

\* The hourly job moves no leader.
LEMMA LeaderEscalate ==
    ASSUME LeaderInv, Escalate, TypeOK'
    PROVE  LeaderInv'
<1>1. /\ UNCHANGED <<open, topic, pc, arg, dirtyRow, dirtyTopic>>
      /\ \A s \in Student :
            /\ project[s] = NoRow <=> project'[s] = NoRow
            /\ project[s] # NoRow =>
                  /\ project'[s].topic = project[s].topic
                  /\ project'[s].is_leader <=> project[s].is_leader
  BY EscalatedRows DEF LeaderInv
<1>2. project \in [Student -> Row \cup {NoRow}] /\ project' \in [Student -> Row \cup {NoRow}]
  BY DEF LeaderInv, TypeOK
<1>3. ASSUME NEW t
      PROVE  Leaders(project', t) = Leaders(project, t)
  <2>1. \A s \in Student : s \in Leaders(project', t) <=> s \in Leaders(project, t)
    BY <1>1, <1>2, LeadersAre
  <2>2. Leaders(project', t) \subseteq Student /\ Leaders(project, t) \subseteq Student
    BY <1>2, LeadersAre
  <2> QED
    BY <2>1, <2>2
<1>4. ASSUME NEW r \in Request, NEW t
      PROVE  Leaders(View(project', dirtyRow[r]), t) = Leaders(View(project, dirtyRow[r]), t)
  <2> DEFINE old == View(project, dirtyRow[r])
             new == View(project', dirtyRow[r])
  <2>1. old \in [Student -> Row \cup {NoRow}] /\ new \in [Student -> Row \cup {NoRow}]
    BY <1>2, ViewType DEF LeaderInv, TypeOK
  <2>2. \A s \in Student : /\ old[s] = IF dirtyRow[r][s] = Clean THEN project[s] ELSE dirtyRow[r][s]
                           /\ new[s] = IF dirtyRow[r][s] = Clean THEN project'[s] ELSE dirtyRow[r][s]
    BY ViewOf
  <2> HIDE DEF old, new
  <2>3. \A s \in Student : s \in Leaders(new, t) <=> s \in Leaders(old, t)
    BY <1>1, <2>1, <2>2, LeadersAre
  <2>4. Leaders(new, t) \subseteq Student /\ Leaders(old, t) \subseteq Student
    BY <2>1, LeadersAre
  <2>5. Leaders(new, t) = Leaders(old, t)
    BY <2>3, <2>4
  <2> QED
    BY <2>5 DEF old, new
<1>5. ASSUME NEW r \in Request, pc[r] # "idle", arg[r].op = "leader"
      PROVE  LeaderKnown(r)'
  <2>1. LeaderKnown(r) /\ arg[r] \in Arg
    BY <1>5, InFlight DEF LeaderInv
  <2>2. arg[r].lead \subseteq Student
    BY <2>1 DEF Arg
  <2> QED
    BY <1>1, <1>3, <1>4, <2>1, <2>2 DEF LeaderKnown
<1> QED
  BY <1>1, <1>5 DEF LeaderInv

LEMMA LeaderNext ==
    ASSUME Serial, LeaderInv, [Next]_vars
    PROVE  LeaderInv' /\ LeaderChangeLeavesOne
<1>0. TypeOK /\ TypeOK'
  BY TypeNext DEF LeaderInv
<1>1. ASSUME NEW r \in Request, Arrive(r)
      PROVE  LeaderInv' /\ LeaderChangeLeavesOne
  <2>1. project' = project
    BY <1>1, RowsCommittedOnly
  <2>2. arg'[r].op = "leader" => LeaderKnown(r)'
    BY <1>0, <1>1, <2>1, Arrived DEF ArrivedWell, LeaderKnown
  <2> QED
    BY <1>0, <2>1, <2>2 DEF LeaderInv, LeaderChangeLeavesOne, Serial
<1>2. ASSUME NEW r \in Request, Proceed(r), ~Commit(r)
      PROVE  LeaderInv' /\ LeaderChangeLeavesOne
  <2>1. project' = project
    BY <1>2, RowsCommittedOnly
  <2> QED
    BY <1>0, <1>2, <2>1, LeaderProceed DEF LeaderChangeLeavesOne
<1>3. ASSUME NEW r \in Request, Commit(r)
      PROVE  LeaderInv' /\ LeaderChangeLeavesOne
  <2>1. /\ pc[r] = "commit" /\ pc'[r] = "idle" /\ project' = View(project, dirtyRow[r])
    BY <1>0, <1>3 DEF Commit, Finish, TypeOK
  <2>2. LeaderInv'
    BY <1>0, <2>1 DEF LeaderInv, Serial
  <2>3. arg[r].op = "leader" => LeaderKnown(r)
    BY <2>1 DEF LeaderInv
  <2>4. LeaderChangeLeavesOne
    BY <2>1, <2>3 DEF LeaderChangeLeavesOne, LeaderKnown, Running, Serial
  <2> QED
    BY <2>2, <2>4
<1>4. ASSUME NEW r \in Request, Rollback(r)
      PROVE  LeaderInv' /\ LeaderChangeLeavesOne
  <2>1. pc'[r] = "idle" /\ project' = project
    BY <1>0, <1>4 DEF Rollback, Finish, TypeOK
  <2> QED
    BY <1>0, <2>1 DEF LeaderInv, LeaderChangeLeavesOne, Serial
<1>5. CASE Expire \/ Extend \/ UNCHANGED vars
  <2>1. UNCHANGED <<topic, project, pc, arg, dirtyRow, dirtyTopic>>
    BY <1>5, DeadlineSteps DEF vars
  <2>2. LeaderInv'
    BY <1>0, <2>1 DEF LeaderInv, LeaderKnown
  <2> QED
    BY <2>1, <2>2 DEF LeaderChangeLeavesOne
<1>6. CASE Escalate
  <2>1. pc' = pc
    BY <1>6 DEF Escalate
  <2> QED
    BY <1>0, <1>6, <2>1, LeaderEscalate DEF LeaderChangeLeavesOne
<1> QED
  BY <1>1, <1>2, <1>3, <1>4, <1>5, <1>6 DEF Next, Environment

\* With one request in flight at a time a change of leader leaves the chosen student
\* as the only leader of the topic (the updateMany of changeLeader finds every
\* other one, rejected rows included).
THEOREM SerialLeaderChanges ==
    ASSUME Serial
    PROVE  Spec => LeaderChangesLeaveOne
<1>1. Init => LeaderInv
  <2> SUFFICES ASSUME Init PROVE LeaderInv
    OBVIOUS
  <2> QED
    BY TypeInit DEF Init, LeaderInv
<1>2. LeaderInv /\ [Next]_vars => LeaderInv' /\ [LeaderChangeLeavesOne]_vars
  BY LeaderNext
<1> QED
  BY <1>1, <1>2, PTL DEF Spec, LeaderChangesLeaveOne

-----------------------------------------------------------------------------
(* The tables implement the registry *)

\* The topics as a transaction that wrote `topics` sees them.
Overlaid(topics) == [t \in Topic |-> IF topics[t] = Clean THEN topic[t] ELSE topics[t]]

\* Writing that, a transaction is about to make a move or to change nothing that shows.
Lawful(rows, topics) ==
    LET new == Shown(View(project, rows), Overlaid(topics))
    IN  new = Shown(project, topic) \/ Registry!Move(Shown(project, topic), new)

\* Until it writes, a request knows what its move asks for.
KnowsMove(r) ==
    LET a == arg[r]
    IN  /\ a.op \in {"register", "assign"} => a.topic \in Offered(topic)
        /\ a.op = "register" =>
              /\ a.seen.max_students = topic[a.topic].max_students
              /\ \E s \in Student : a.who = {s}
              /\ pc[r] = "write" => MemberCount(a.topic) < topic[a.topic].max_students
        /\ a.op \in {"update", "force"} =>
              /\ a.batch = {a.topic}
              /\ a.edit.field = "max_students" /\ a.topic \in Offered(topic)
                    => MemberCount(a.topic) <= a.edit.to
        /\ a.op = "bulk" => a.edit.field = "status"
        /\ a.op = "lock" => a.edit.field = "locked"

\* The inductive invariant behind KeepsRegistry.
RegistryInv ==
    /\ SerialInv /\ OwnerInv /\ ApprovalInv
    /\ \A r \in Request :
          /\ pc[r] \in {"check", "write"} => KnowsMove(r)
          /\ pc[r] = "commit" => Lawful(dirtyRow[r], dirtyTopic[r])

\* The registry counts as the tables do.
LEMMA SameSize == \A S : Registry!Cardinality(S) = Cardinality(S)
BY DEF Registry!Cardinality, Cardinality

LEMMA ShownParts ==
    ASSUME NEW rows, NEW topics
    PROVE  /\ Shown(rows, topics).asking = [t \in Topic |-> Asking(rows, t)]
           /\ Shown(rows, topics).members = [t \in Topic |-> Members(rows, t)]
           /\ Shown(rows, topics).limit = [t \in Topic |-> topics[t].max_students]
           /\ Shown(rows, topics).offered = Offered(topics)
BY DEF Shown

\* Asking after a transaction's writes, student by student.
LEMMA AskingOfView ==
    ASSUME NEW rows, NEW written, NEW t, NEW s \in Student
    PROVE  s \in Asking(View(rows, written), t) <=>
              IF written[s] = Clean THEN s \in Asking(rows, t)
              ELSE /\ written[s] # NoRow /\ written[s].topic = t
                   /\ written[s].status \in {"PENDING", "WAITING_SECRETARY"}
BY DEF Asking, WithStatus, View

LEMMA AskingStudents ==
    ASSUME NEW rows, NEW t
    PROVE  Asking(rows, t) \subseteq Student /\ Members(rows, t) \subseteq Student
BY WithStatusFinite DEF Asking, Members

\* A student has one row: he is on one topic, or asks for one.
LEMMA OneRow ==
    ASSUME NEW rows, NEW s \in Student, NEW t, NEW u
    PROVE  /\ s \in Asking(rows, t) => s \notin Members(rows, u)
           /\ s \in Asking(rows, t) /\ s \in Asking(rows, u) => t = u
BY DEF Asking, Members, WithStatus, Counted

\* Rows that leave the committed topics alone.
LEMMA NoTopicsWritten ==
    /\ Overlaid(NoTopicWrites) = [t \in Topic |-> topic[t]]
    /\ TypeOK => Overlaid(NoTopicWrites) = topic
BY DEF Overlaid, NoTopicWrites, TypeOK

\* A move of a transaction that writes rows only.
LEMMA RowsOnly ==
    ASSUME TypeOK, NEW rows
    PROVE  /\ Registry!KeepsOffer(Shown(project, topic),
                                  Shown(View(project, rows), Overlaid(NoTopicWrites)))
           /\ Shown(View(project, rows), Overlaid(NoTopicWrites)).members =
                 [t \in Topic |-> Members(View(project, rows), t)]
           /\ Shown(View(project, rows), Overlaid(NoTopicWrites)).asking =
                 [t \in Topic |-> Asking(View(project, rows), t)]
<1> DEFINE new == Shown(View(project, rows), Overlaid(NoTopicWrites))
<1>1. Overlaid(NoTopicWrites) = topic
  BY NoTopicsWritten
<1>2. new = Shown(View(project, rows), topic)
  BY <1>1
<1>3. /\ new.limit = [t \in Topic |-> topic[t].max_students] /\ new.offered = Offered(topic)
      /\ new.asking = [t \in Topic |-> Asking(View(project, rows), t)]
      /\ new.members = [t \in Topic |-> Members(View(project, rows), t)]
  BY <1>2, ShownParts
<1>4. /\ Shown(project, topic).limit = [t \in Topic |-> topic[t].max_students]
      /\ Shown(project, topic).offered = Offered(topic)
  BY DEF Shown
<1> HIDE DEF new
<1>5. Registry!KeepsOffer(Shown(project, topic), new)
  BY <1>3, <1>4 DEF Registry!KeepsOffer
<1> QED
  BY <1>3, <1>5 DEF new

\* The rows that a registration or an assignment places.
LEMMA PlacedRows ==
    ASSUME TypeOK, NEW r \in Request, NEW status \in ProjectStatus, Place(r, status),
           NEW s \in arg[r].who
    PROVE  /\ PlacedRow(r, s, status) # NoRow /\ PlacedRow(r, s, status) # Clean
           /\ PlacedRow(r, s, status).topic = arg[r].topic
           /\ PlacedRow(r, s, status).status = status
<1>1. pc[r] # "idle"
  BY DEF Place, Write
<1>2. arg[r] \in Arg /\ arg[r].who \subseteq Student /\ arg[r].ids[s] \in RowId \cup {NoId}
  BY <1>1, InFlight
<1>3. arg[r].topic \in Topic /\ arg[r].seen.teacher \in Teacher
  BY <1>2 DEF Arg
<1>4. FreshId(s) \in RowId
  BY <1>2, FreshIdType
<1>5. arg[r].ids[s] # NoId => project[s] \in Row
  BY <1>1, InFlight DEF Place
<1>6. PlacedRow(r, s, status) \in Row
  BY <1>2, <1>3, <1>4, <1>5 DEF PlacedRow, Row
<1> QED
  BY <1>6, MarkersAssumption DEF PlacedRow

LEMMA LawfulRegister ==
    ASSUME RegistryInv, NEW r \in Request, RegisterWrite(r), NEW rows,
           rows = [s \in Student |-> IF s \in arg[r].who THEN PlacedRow(r, s, "PENDING") ELSE Clean]
    PROVE  Lawful(rows, NoTopicWrites)
<1> DEFINE t0 == arg[r].topic
           g == Shown(project, topic)
           h == Shown(View(project, rows), Overlaid(NoTopicWrites))
<1>0. TypeOK
  BY DEF RegistryInv, SerialInv
<1>1. pc[r] = "write" /\ arg[r].op = "register" /\ Place(r, "PENDING") /\ arg[r] \in Arg
  BY <1>0, InFlight DEF RegisterWrite, Place, Running, Write
<1>2. /\ t0 \in Offered(topic) /\ MemberCount(t0) < topic[t0].max_students
      /\ \E s \in Student : arg[r].who = {s}
  BY <1>1 DEF RegistryInv, KnowsMove
<1>3. PICK s0 \in Student : arg[r].who = {s0}
  BY <1>2
<1>4. /\ rows[s0] # NoRow /\ rows[s0] # Clean /\ rows[s0].topic = t0
      /\ rows[s0].status = "PENDING"
  BY <1>0, <1>1, <1>3, PlacedRows DEF ProjectStatus
<1>5. \A s \in Student : s # s0 => rows[s] = Clean
  BY <1>3
<1>6. t0 \in Topic
  BY <1>1 DEF Arg
<1>7. \A u : s0 \notin Members(project, u)
  BY <1>1, <1>3, NotMembers DEF RegistryInv, MovesRow
<1>8. ASSUME NEW u \in Topic
      PROVE  /\ Members(View(project, rows), u) = Members(project, u)
             /\ Asking(View(project, rows), u) =
                   IF u = t0 THEN Asking(project, u) \cup {s0} ELSE Asking(project, u) \ {s0}
  <2>1. Members(View(project, rows), u) = Members(project, u)
    BY <1>4, <1>5, <1>7, SameMembers, Statuses DEF Counted
  <2>2. \A s \in Student : s \in Asking(View(project, rows), u) <=>
           IF u = t0 THEN s \in Asking(project, u) \cup {s0} ELSE s \in Asking(project, u) \ {s0}
    BY <1>4, <1>5, AskingOfView
  <2>3. Asking(View(project, rows), u) \subseteq Student /\ Asking(project, u) \subseteq Student
    BY AskingStudents
  <2> QED
    BY <2>1, <2>2, <2>3
<1>9. /\ g.asking = [u \in Topic |-> Asking(project, u)]
      /\ g.members = [u \in Topic |-> Members(project, u)]
      /\ g.limit = [u \in Topic |-> topic[u].max_students]
      /\ g.offered = Offered(topic)
      /\ h.asking = [u \in Topic |-> Asking(View(project, rows), u)]
      /\ h.members = [u \in Topic |-> Members(View(project, rows), u)]
      /\ Registry!KeepsOffer(g, h)
  BY <1>0, RowsOnly, ShownParts
<1> HIDE DEF g, h, t0
<1>10. h.asking = [u \in Topic |-> IF u = t0 THEN g.asking[u] \cup {s0} ELSE g.asking[u] \ {s0}]
  <2>1. \A u \in Topic : g.asking[u] = Asking(project, u)
    BY <1>9
  <2>2. \A u \in Topic : Asking(View(project, rows), u) =
           IF u = t0 THEN g.asking[u] \cup {s0} ELSE g.asking[u] \ {s0}
    BY <1>8, <2>1
  <2>3. h.asking = [u \in Topic |-> Asking(View(project, rows), u)]
    BY <1>9
  <2> QED
    BY <2>2, <2>3, Zenon
<1>11. Registry!KeepsMembers(g, h)
  BY <1>8, <1>9 DEF Registry!KeepsMembers
<1>12. Registry!Free(g, {s0})
  BY <1>7, <1>9 DEF Registry!Free
<1>13. t0 \in g.offered /\ Cardinality(g.members[t0]) < g.limit[t0]
  BY <1>2, <1>6, <1>9 DEF MemberCount
<1>14. Registry!Asks(g, h, s0, t0)
  BY <1>9, <1>10, <1>11, <1>12, <1>13, SameSize DEF Registry!Asks
<1>15. Registry!Move(g, h)
  BY <1>6, <1>14 DEF Registry!Move
<1> QED
  BY <1>15 DEF Lawful, g, h

\* Rows of one student who is on no topic, after which he asks for none.
LEMMA LawfulLeave ==
    ASSUME RegistryInv, NEW s0 \in Student, NEW rows,
           rows[s0] # Clean,
           rows[s0] = NoRow \/ rows[s0].status = "REJECTED",
           \A s \in Student : s # s0 => rows[s] = Clean,
           \A t \in Topic : s0 \notin Members(project, t)
    PROVE  Lawful(rows, NoTopicWrites)
<1> DEFINE g == Shown(project, topic)
           h == Shown(View(project, rows), Overlaid(NoTopicWrites))
<1>0. TypeOK
  BY DEF RegistryInv, SerialInv
<1>1. ASSUME NEW u \in Topic
      PROVE  /\ Members(View(project, rows), u) = Members(project, u)
             /\ Asking(View(project, rows), u) = Asking(project, u) \ {s0}
  <2>1. Members(View(project, rows), u) = Members(project, u)
    BY SameMembers, Statuses DEF Counted
  <2>2. \A s \in Student : s \in Asking(View(project, rows), u) <=> s \in Asking(project, u) \ {s0}
    BY AskingOfView
  <2>3. Asking(View(project, rows), u) \subseteq Student /\ Asking(project, u) \subseteq Student
    BY AskingStudents
  <2> QED
    BY <2>1, <2>2, <2>3
<1>2. /\ g.asking = [u \in Topic |-> Asking(project, u)]
      /\ g.members = [u \in Topic |-> Members(project, u)]
      /\ h.asking = [u \in Topic |-> Asking(View(project, rows), u)]
      /\ h.members = [u \in Topic |-> Members(View(project, rows), u)]
      /\ Registry!KeepsOffer(g, h)
  BY <1>0, RowsOnly, ShownParts
<1> HIDE DEF g, h
<1>3. Registry!Leaves(g, h, s0)
  BY <1>1, <1>2 DEF Registry!Leaves, Registry!KeepsMembers
<1>4. Registry!Move(g, h)
  BY <1>3 DEF Registry!Move
<1> QED
  BY <1>4 DEF Lawful, g, h

LEMMA LawfulCancel ==
    ASSUME RegistryInv, NEW r \in Request, CancelWrite(r), NEW rows,
           rows = [s \in Student |-> IF s \in arg[r].who THEN NoRow ELSE Clean]
    PROVE  Lawful(rows, NoTopicWrites)
<1>1. pc[r] = "write" /\ arg[r].op = "cancel"
  BY DEF CancelWrite, Running, Write
<1>2. FoundStillHolds(r)
  BY <1>1 DEF RegistryInv, SerialInv
<1>3. PICK s0 \in Student : arg[r].who = {s0}
  BY <1>1, <1>2 DEF FoundStillHolds, FromTopic
<1>4. \A t : s0 \notin Members(project, t)
  BY <1>1, <1>3, NotMembers DEF RegistryInv, MovesRow
<1>5. rows[s0] = NoRow /\ \A s \in Student : s # s0 => rows[s] = Clean
  BY <1>3
<1> QED
  BY <1>4, <1>5, LawfulLeave, MarkersAssumption

LEMMA LawfulReject ==
    ASSUME RegistryInv, NEW r \in Request, RejectWrite(r)
    PROVE  Lawful(Decided(r, "REJECTED"), NoTopicWrites)
<1>1. pc[r] = "write" /\ arg[r].op = "reject" /\ TypeOK
  BY DEF RejectWrite, Running, Write, RegistryInv, SerialInv
<1>2. FoundStillHolds(r)
  BY <1>1 DEF RegistryInv, SerialInv
<1>3. PICK s0 \in Student : arg[r].who = {s0}
  BY <1>1, <1>2 DEF FoundStillHolds, FromTopic
<1>4. \A t : s0 \notin Members(project, t)
  BY <1>1, <1>3, NotMembers DEF RegistryInv, MovesRow
<1>5. project[s0] \in Row
  BY <1>1, <1>3, InFlight DEF RejectWrite
<1>6. /\ Decided(r, "REJECTED")[s0] = [project[s0] EXCEPT !.status = "REJECTED"]
      /\ \A s \in Student : s # s0 => Decided(r, "REJECTED")[s] = Clean
  BY <1>3 DEF Decided
<1>7. Decided(r, "REJECTED")[s0] # Clean /\ Decided(r, "REJECTED")[s0].status = "REJECTED"
  BY <1>5, <1>6, StatusSet DEF ProjectStatus
<1> QED
  BY <1>4, <1>6, <1>7, LawfulLeave

\* Whom a request admits fits the topic.
LEMMA AdmittedFit ==
    ASSUME SerialInv, NEW r \in Request, pc[r] = "write", arg[r].op \in Admits
    PROVE  Cardinality(Members(project, arg[r].topic) \cup arg[r].who)
              <= topic[arg[r].topic].max_students
<1> DEFINE m   == Members(project, arg[r].topic)
           who == arg[r].who
<1>1. arg[r] \in Arg /\ FoundStillHolds(r) /\ arg[r].topic \in Topic /\ who \subseteq Student
  BY InFlight DEF SerialInv, Arg
<1>2. IsFiniteSet(m) /\ IsFiniteSet(who)
  BY <1>1, WithStatusFinite, TopicRegistrationAssumption, FS_Subset DEF Members
<1>3. IsFiniteSet(m \cap who)
  BY <1>2, FS_Subset
<1>4. Cardinality(m \cup who) = Cardinality(m) + Cardinality(who) - Cardinality(m \cap who)
  BY <1>2, FS_Union
<1>5. /\ Cardinality(m) \in Nat /\ Cardinality(who) \in Nat /\ Cardinality(m \cap who) \in Nat
      /\ topic[arg[r].topic].max_students \in Nat
  BY <1>1, <1>2, <1>3, FS_CardinalityType, TopicRegistrationAssumption
     DEF SerialInv, TypeOK, TopicRow
<1>6. Cardinality(m) + Cardinality(who) <= topic[arg[r].topic].max_students
  BY <1>1 DEF FoundStillHolds, MemberCount
<1> QED
  BY <1>4, <1>5, <1>6

LEMMA LawfulAssign ==
    ASSUME RegistryInv, NEW r \in Request, AssignWrite(r), NEW rows,
           rows = [s \in Student |-> IF s \in arg[r].who THEN PlacedRow(r, s, "ASSIGNED") ELSE Clean]
    PROVE  Lawful(rows, NoTopicWrites)
<1> DEFINE t0 == arg[r].topic
           who == arg[r].who
           g == Shown(project, topic)
           h == Shown(View(project, rows), Overlaid(NoTopicWrites))
<1>0. TypeOK
  BY DEF RegistryInv, SerialInv
<1>1. pc[r] = "write" /\ arg[r].op = "assign" /\ Place(r, "ASSIGNED") /\ arg[r] \in Arg
  BY <1>0, InFlight DEF AssignWrite, Place, Running, Write
<1>2. t0 \in Offered(topic) /\ t0 \in Topic /\ who \subseteq Student
  BY <1>1 DEF RegistryInv, KnowsMove, Arg
<1>3. Cardinality(Members(project, t0) \cup who) <= topic[t0].max_students
  BY <1>1, AdmittedFit DEF RegistryInv, Admits
<1>4. \A s \in who : /\ rows[s] # NoRow /\ rows[s] # Clean /\ rows[s].topic = t0
                     /\ rows[s].status = "ASSIGNED"
  BY <1>0, <1>1, <1>2, PlacedRows DEF ProjectStatus
<1>5. \A s \in Student : s \notin who => rows[s] = Clean
  OBVIOUS
<1>6. \A u : who \cap Members(project, u) = {}
  BY <1>1, NotMembers DEF RegistryInv, MovesRow
<1>7. ASSUME NEW u \in Topic
      PROVE  /\ Members(View(project, rows), u) =
                   IF u = t0 THEN Members(project, u) \cup who ELSE Members(project, u)
             /\ Asking(View(project, rows), u) = Asking(project, u) \ who
  <2>1. \A s \in Student : s \in Members(View(project, rows), u) <=>
           IF u = t0 THEN s \in Members(project, u) \cup who ELSE s \in Members(project, u)
    BY <1>4, <1>5, <1>6, MembersOfView, Statuses
  <2>2. \A s \in Student : s \in Asking(View(project, rows), u) <=> s \in Asking(project, u) \ who
    BY <1>4, <1>5, AskingOfView
  <2>3. /\ Asking(View(project, rows), u) \subseteq Student /\ Asking(project, u) \subseteq Student
        /\ Members(View(project, rows), u) \subseteq Student /\ Members(project, u) \subseteq Student
    BY AskingStudents
  <2> HIDE DEF who
  <2> QED
    BY <1>2, <2>1, <2>2, <2>3
<1>8. /\ g.asking = [u \in Topic |-> Asking(project, u)]
      /\ g.members = [u \in Topic |-> Members(project, u)]
      /\ g.limit = [u \in Topic |-> topic[u].max_students]
      /\ g.offered = Offered(topic)
      /\ h.asking = [u \in Topic |-> Asking(View(project, rows), u)]
      /\ h.members = [u \in Topic |-> Members(View(project, rows), u)]
      /\ Registry!KeepsOffer(g, h)
  BY <1>0, RowsOnly, ShownParts
<1> HIDE DEF g, h, t0, who
<1>9. h.asking = [u \in Topic |-> g.asking[u] \ who]
  <2>1. \A u \in Topic : Asking(View(project, rows), u) = g.asking[u] \ who
    BY <1>7, <1>8
  <2>2. h.asking = [u \in Topic |-> Asking(View(project, rows), u)]
    BY <1>8
  <2> QED
    BY <2>1, <2>2, Zenon
<1>10. Registry!Joins(g, h, t0, who)
  <2>1. \A u \in Topic : Members(View(project, rows), u) =
           IF u = t0 THEN g.members[u] \cup who ELSE g.members[u]
    BY <1>7, <1>8
  <2>2. h.members = [u \in Topic |-> Members(View(project, rows), u)]
    BY <1>8
  <2>3. h.members = [u \in Topic |-> IF u = t0 THEN g.members[u] \cup who ELSE g.members[u]]
    BY <2>1, <2>2, Zenon
  <2> QED
    BY <2>3 DEF Registry!Joins
<1>11. Registry!Free(g, who)
  BY <1>6, <1>8 DEF Registry!Free
<1>12. Cardinality(h.members[t0]) <= h.limit[t0] /\ t0 \in g.offered
  <2>1. h.members[t0] = Members(project, t0) \cup who
    BY <1>2, <1>7, <1>8
  <2>2. h.limit[t0] = topic[t0].max_students
    BY <1>2, <1>8 DEF Registry!KeepsOffer
  <2> QED
    BY <1>2, <1>3, <1>8, <2>1, <2>2
<1>13. Registry!Assigns(g, h, t0, who)
  BY <1>8, <1>9, <1>10, <1>11, <1>12, SameSize DEF Registry!Assigns
<1>14. Registry!Move(g, h)
  BY <1>2, <1>13 DEF Registry!Move
<1> QED
  BY <1>14 DEF Lawful, g, h

\* Requests end on topics that are not offered then, and limits and members stay.
LEMMA LawfulOffers ==
    ASSUME NEW rows, NEW topics, NEW others \in SUBSET Student,
           \A u \in Topic : Overlaid(topics)[u].max_students = topic[u].max_students,
           \A u \in Topic :
              /\ Members(View(project, rows), u) = Members(project, u)
              /\ u \in Offered(Overlaid(topics))
                    => Asking(View(project, rows), u) = Asking(project, u)
              /\ u \notin Offered(Overlaid(topics))
                    => Asking(View(project, rows), u) = Asking(project, u) \ others
    PROVE  Lawful(rows, topics)
<1> DEFINE g == Shown(project, topic)
           h == Shown(View(project, rows), Overlaid(topics))
           now == Offered(Overlaid(topics))
<1>1. /\ g.asking = [u \in Topic |-> Asking(project, u)]
      /\ g.members = [u \in Topic |-> Members(project, u)]
      /\ g.limit = [u \in Topic |-> topic[u].max_students]
  BY DEF Shown
<1>2. /\ h.asking = [u \in Topic |-> Asking(View(project, rows), u)]
      /\ h.members = [u \in Topic |-> Members(View(project, rows), u)]
      /\ h.limit = [u \in Topic |-> Overlaid(topics)[u].max_students]
      /\ h.offered = now
  BY DEF Shown
<1> HIDE DEF g, h, now
<1>3. h.asking = [u \in Topic |-> IF u \in h.offered THEN g.asking[u] ELSE g.asking[u] \ others]
  <2>1. \A u \in Topic : Asking(View(project, rows), u) =
           IF u \in h.offered THEN g.asking[u] ELSE g.asking[u] \ others
    BY <1>1, <1>2 DEF now
  <2>2. h.asking = [u \in Topic |-> Asking(View(project, rows), u)]
    BY <1>2
  <2> QED
    BY <2>1, <2>2, Zenon
<1>4. h.limit = g.limit /\ Registry!KeepsMembers(g, h)
  BY <1>1, <1>2 DEF Registry!KeepsMembers
<1>5. Registry!Offers(g, h, others)
  BY <1>3, <1>4 DEF Registry!Offers
<1>6. Registry!Move(g, h)
  BY <1>5 DEF Registry!Move
<1> QED
  BY <1>6 DEF Lawful, g, h

LEMMA LawfulApprove ==
    ASSUME RegistryInv, ApprovalInv', NEW r \in Request, ApproveWrite(r)
    PROVE  Lawful(dirtyRow'[r], dirtyTopic'[r])
<1> DEFINE t0 == arg[r].topic
           max == arg[r].seen.max_students
           after == View(project, Decided(r, "APPROVED"))
           turned == IF Fills(after, t0, max) THEN WithStatus(after, t0, {"PENDING"}) ELSE {}
           rows == [s \in Student |-> IF s \in turned
                                      THEN [project[s] EXCEPT !.status = "REJECTED"]
                                      ELSE Decided(r, "APPROVED")[s]]
           new == View(project, rows)
           g == Shown(project, topic)
           h == Shown(new, Overlaid(NoTopicWrites))
<1>0. TypeOK
  BY DEF RegistryInv, SerialInv
<1>1. /\ Write(r, rows, NoTopicWrites) /\ pc[r] = "write" /\ arg[r].op = "approve"
      /\ \A s \in arg[r].who : Holds(r, s)
  BY DEF ApproveWrite, Running, Write
<1>2. /\ pc'[r] = "commit" /\ arg'[r].op = "approve" /\ arg'[r].topic = t0
      /\ dirtyRow'[r] = rows /\ dirtyTopic'[r] = NoTopicWrites
      /\ UNCHANGED <<topic, project>> /\ t0 \in Topic
  BY <1>0, <1>1, Written DEF Arg
<1>3. max = topic[t0].max_students
  BY <1>1 DEF RegistryInv, ApprovalInv, KnowsLimit
<1>4. PICK s0 \in Student : arg[r].who = {s0} /\ (project[s0] # NoRow => project[s0].topic = t0)
  BY <1>1 DEF RegistryInv, SerialInv, FoundStillHolds, FromTopic
<1>5. /\ project[s0] \in Row /\ project[s0] # NoRow /\ project[s0].topic = t0
      /\ project[s0].status \in {"PENDING", "WAITING_SECRETARY"}
  <2>1. project[s0] \in Row /\ project[s0] # NoRow /\ project[s0].topic = t0
    BY <1>0, <1>1, <1>4, InFlight DEF Holds
  <2>2. project[s0].status \notin Counted
    BY <1>1, <1>4, <2>1 DEF RegistryInv, SerialInv, FoundStillHolds, MovesRow
  <2>3. project[s0].status # "REJECTED"
    BY <1>1, <1>4, <2>1 DEF RegistryInv, OwnerInv, KnowsOwner, FindsOpen
  <2>4. project[s0].status \in ProjectStatus
    BY <2>1 DEF Row
  <2> QED
    BY <2>1, <2>2, <2>3, <2>4 DEF Counted, ProjectStatus
<1>6. /\ Decided(r, "APPROVED")[s0] # Clean /\ Decided(r, "APPROVED")[s0] # NoRow
      /\ Decided(r, "APPROVED")[s0].status = "APPROVED"
      /\ Decided(r, "APPROVED")[s0].topic = t0
      /\ \A s \in Student : s # s0 => Decided(r, "APPROVED")[s] = Clean
  <2>1. /\ Decided(r, "APPROVED")[s0] = [project[s0] EXCEPT !.status = "APPROVED"]
        /\ \A s \in Student : s # s0 => Decided(r, "APPROVED")[s] = Clean
    BY <1>4 DEF Decided
  <2> QED
    BY <1>5, <2>1, StatusSet DEF ProjectStatus
<1>7. \A s \in Student : /\ s # s0 => after[s] = project[s]
                         /\ s = s0 => after[s] = Decided(r, "APPROVED")[s]
  BY <1>6, ViewOf
<1>8. /\ s0 \notin turned /\ turned \subseteq Student
      /\ \A s \in Student : s \in turned =>
            /\ project[s] # NoRow /\ project[s].topic = t0 /\ project[s].status = "PENDING"
            /\ project[s] \in Row
  <2>1. \A s \in Student : s \in turned =>
           after[s] # NoRow /\ after[s].topic = t0 /\ after[s].status = "PENDING"
    BY DEF WithStatus
  <2>2. turned \subseteq Student
    BY DEF WithStatus
  <2> HIDE DEF turned, after
  <2>3. s0 \notin turned
    BY <1>6, <1>7, <2>1
  <2> QED
    BY <1>0, <1>7, <2>1, <2>2, <2>3 DEF TypeOK
<1>9. \A s \in Student : s \in turned => /\ rows[s] # Clean /\ rows[s] # NoRow
                                         /\ rows[s].topic = t0 /\ rows[s].status = "REJECTED"
  <2> SUFFICES ASSUME NEW s \in Student, s \in turned
               PROVE  /\ rows[s] # Clean /\ rows[s] # NoRow
                      /\ rows[s].topic = t0 /\ rows[s].status = "REJECTED"
    OBVIOUS
  <2>1. rows[s] = [project[s] EXCEPT !.status = "REJECTED"]
    OBVIOUS
  <2>2. project[s] \in Row /\ project[s].topic = t0
    BY <1>8
  <2> HIDE DEF rows, turned
  <2> QED
    BY <2>1, <2>2, StatusSet DEF ProjectStatus
<1>10. /\ rows[s0] # Clean /\ rows[s0] # NoRow /\ rows[s0].topic = t0
       /\ rows[s0].status = "APPROVED"
       /\ \A s \in Student : s \notin turned /\ s # s0 => rows[s] = Clean
  BY <1>6, <1>8
<1>11. turned # {} => Cardinality(Occupied(after, t0)) >= max
  BY DEF Fills
<1> HIDE DEF turned, after, rows
<1>12. \A s \in Student : /\ rows[s] = Clean => new[s] = project[s]
                          /\ rows[s] # Clean => new[s] = rows[s]
  BY ViewOf
<1>13. ASSUME NEW u \in Topic
       PROVE  /\ Members(new, u) = IF u = t0 THEN Members(project, u) \cup {s0}
                                   ELSE Members(project, u)
              /\ Asking(new, u) = IF u = t0 THEN Asking(project, u) \ ({s0} \cup turned)
                                  ELSE Asking(project, u)
  <2>1. \A s \in Student : s \in Members(new, u) <=>
           IF u = t0 THEN s \in Members(project, u) \cup {s0} ELSE s \in Members(project, u)
    <3> SUFFICES ASSUME NEW s \in Student
                 PROVE  s \in Members(new, u) <=>
                           IF u = t0 THEN s \in Members(project, u) \cup {s0}
                           ELSE s \in Members(project, u)
      OBVIOUS
    <3>1. CASE s = s0
      <4>1. s0 \notin Members(project, u)
        BY <1>5 DEF Members, WithStatus, Counted
      <4> QED
        BY <1>10, <3>1, <4>1, MembersOfView, Statuses
    <3>2. CASE s # s0 /\ s \in turned
      <4>1. s \notin Members(project, u)
        BY <1>8, <3>2 DEF Members, WithStatus, Counted
      <4> QED
        BY <1>9, <3>2, <4>1, MembersOfView, Statuses DEF Counted
    <3>3. CASE s # s0 /\ s \notin turned
      BY <1>10, <3>3, MembersOfView
    <3> QED
      BY <3>1, <3>2, <3>3
  <2>2. \A s \in Student : s \in Asking(new, u) <=>
           IF u = t0 THEN s \in Asking(project, u) \ ({s0} \cup turned) ELSE s \in Asking(project, u)
    <3> SUFFICES ASSUME NEW s \in Student
                 PROVE  s \in Asking(new, u) <=>
                           IF u = t0 THEN s \in Asking(project, u) \ ({s0} \cup turned)
                           ELSE s \in Asking(project, u)
      OBVIOUS
    <3>1. CASE s = s0 \/ s \in turned
      <4>1. s \notin Asking(new, u)
        BY <1>9, <1>10, <3>1, AskingOfView
      <4>2. u # t0 => s \notin Asking(project, u)
        BY <1>5, <1>8, <3>1 DEF Asking, WithStatus
      <4> QED
        BY <3>1, <4>1, <4>2
    <3>2. CASE s # s0 /\ s \notin turned
      BY <1>10, <3>2, AskingOfView
    <3> QED
      BY <3>1, <3>2
  <2>3. /\ Asking(new, u) \subseteq Student /\ Asking(project, u) \subseteq Student
        /\ Members(new, u) \subseteq Student /\ Members(project, u) \subseteq Student
    BY AskingStudents
  <2>4. Members(new, u) = IF u = t0 THEN Members(project, u) \cup {s0} ELSE Members(project, u)
    BY <2>1, <2>3
  <2>5. Asking(new, u) = IF u = t0 THEN Asking(project, u) \ ({s0} \cup turned)
                         ELSE Asking(project, u)
    BY <2>2, <2>3
  <2> QED
    BY <2>4, <2>5
<1>14. Cardinality(Members(new, t0)) <= topic[t0].max_students
  BY <1>1, <1>2, <1>4, <1>13, AdmittedFit DEF RegistryInv, Admits
<1>15. ASSUME turned # {}
       PROVE  Cardinality(Members(new, t0) \cup Asking(new, t0)) >= topic[t0].max_students
  <2>1. Occupied(new, t0) = Occupied(after, t0)
    <3>1. ASSUME NEW s \in Student
          PROVE  s \in Occupied(new, t0) <=> s \in Occupied(after, t0)
      <4>1. CASE s = s0
        <5>1. s0 \in Occupied(new, t0)
          BY <1>10, <1>12, Statuses DEF Occupied, WithStatus
        <5>2. s0 \in Occupied(after, t0)
          BY <1>6, <1>7, Statuses DEF Occupied, WithStatus
        <5> QED
          BY <4>1, <5>1, <5>2
      <4>2. CASE s # s0 /\ s \in turned
        <5>1. s \notin Occupied(new, t0)
          BY <1>9, <1>12, <4>2, Statuses DEF Occupied, WithStatus
        <5>2. s \notin Occupied(after, t0)
          BY <1>7, <1>8, <4>2, Statuses DEF Occupied, WithStatus
        <5> QED
          BY <5>1, <5>2
      <4>3. CASE s # s0 /\ s \notin turned
        <5>1. new[s] = after[s]
          BY <1>7, <1>10, <1>12, <4>3
        <5> QED
          BY <5>1 DEF Occupied, WithStatus
      <4> QED
        BY <4>1, <4>2, <4>3
    <3>2. Occupied(new, t0) \subseteq Student /\ Occupied(after, t0) \subseteq Student
      BY WithStatusFinite DEF Occupied
    <3> QED
      BY <3>1, <3>2
  <2>2. Cardinality(Occupied(new, t0)) >= topic[t0].max_students
    BY <1>3, <1>11, <1>15, <2>1
  <2>3. LeavesNobodyWaiting(r)'
    BY <1>2 DEF ApprovalInv
  <2>4. WithStatus(new, t0, {"PENDING"}) = {}
    BY <1>2, <2>2, <2>3 DEF LeavesNobodyWaiting
  <2>5. Members(new, t0) \cup Asking(new, t0) = Occupied(new, t0)
    <3> HIDE DEF new
    <3>1. \A s \in Student : ~(new[s] # NoRow /\ new[s].topic = t0 /\ new[s].status = "PENDING")
      BY <2>4 DEF WithStatus
    <3> QED
      BY <3>1 DEF Members, Asking, Occupied, WithStatus, Counted, SlotOccupying
  <2> QED
    BY <2>2, <2>5
<1>16. s0 \in Asking(project, t0)
  BY <1>5 DEF Asking, WithStatus
<1>17. /\ g.asking = [u \in Topic |-> Asking(project, u)]
       /\ g.members = [u \in Topic |-> Members(project, u)]
       /\ g.limit = [u \in Topic |-> topic[u].max_students]
       /\ h.asking = [u \in Topic |-> Asking(new, u)]
       /\ h.members = [u \in Topic |-> Members(new, u)]
       /\ Registry!KeepsOffer(g, h)
  BY <1>0, RowsOnly, ShownParts
<1> HIDE DEF g, h, t0, new
<1>18. h.asking = [u \in Topic |-> IF u = t0 THEN g.asking[u] \ ({s0} \cup turned) ELSE g.asking[u]]
  <2>1. \A u \in Topic : Asking(new, u) =
           IF u = t0 THEN g.asking[u] \ ({s0} \cup turned) ELSE g.asking[u]
    BY <1>13, <1>17
  <2>2. h.asking = [u \in Topic |-> Asking(new, u)]
    BY <1>17
  <2> QED
    BY <2>1, <2>2, Zenon
<1>19. Registry!Joins(g, h, t0, {s0})
  <2>1. \A u \in Topic : Members(new, u) =
           IF u = t0 THEN g.members[u] \cup {s0} ELSE g.members[u]
    BY <1>13, <1>17
  <2>2. h.members = [u \in Topic |-> Members(new, u)]
    BY <1>17
  <2>3. h.members = [u \in Topic |-> IF u = t0 THEN g.members[u] \cup {s0} ELSE g.members[u]]
    BY <2>1, <2>2, Zenon
  <2> QED
    BY <2>3 DEF Registry!Joins
<1>20. /\ h.limit[t0] = topic[t0].max_students /\ h.members[t0] = Members(new, t0)
       /\ h.asking[t0] = Asking(new, t0) /\ g.asking[t0] = Asking(project, t0)
  BY <1>2, <1>17 DEF Registry!KeepsOffer
<1>21. /\ s0 \in g.asking[t0] /\ s0 \notin turned
       /\ Cardinality(h.members[t0]) <= h.limit[t0]
       /\ turned # {} => Cardinality(h.members[t0] \cup h.asking[t0]) >= h.limit[t0]
  BY <1>8, <1>14, <1>15, <1>16, <1>20
<1>22. Registry!Accepts(g, h, s0, t0, turned)
  BY <1>17, <1>18, <1>19, <1>21, SameSize DEF Registry!Accepts
<1>23. Registry!Move(g, h)
  BY <1>2, <1>8, <1>22 DEF Registry!Move
<1> QED
  BY <1>2, <1>23 DEF Lawful, g, h, new

\* A topic after an edit, column by column.
LEMMA EditedTopics ==
    ASSUME TypeOK, NEW r \in Request, pc[r] # "idle", NEW u \in Topic
    PROVE  LET e   == arg[r].edit
               new == Overlaid(TopicEdits(arg[r].batch, e))[u]
           IN  /\ u \notin arg[r].batch => new = topic[u]
               /\ u \in arg[r].batch =>
                    /\ new.status = IF e.field = "status" THEN e.to ELSE topic[u].status
                    /\ new.max_students =
                          IF e.field = "max_students" THEN e.to ELSE topic[u].max_students
                    /\ e.field = "max_students" => new.locked = topic[u].locked
<1> DEFINE e == arg[r].edit
<1>1. e \in Edit \cup {NoEdit} /\ topic[u] \in TopicRow
  BY InFlight DEF Arg, TypeOK
<1>2. Edited(topic[u], e) # Clean
  BY <1>1, EditedType, MarkersAssumption
<1>3. Overlaid(TopicEdits(arg[r].batch, e))[u] =
         IF u \in arg[r].batch THEN Edited(topic[u], e) ELSE topic[u]
  BY <1>2 DEF Overlaid, TopicEdits
<1> HIDE DEF e
<1> QED
  BY <1>3 DEF Edited, e

\* An edit of another column than the limit leaves the limits.
LEMMA OtherEdits ==
    ASSUME TypeOK, NEW r \in Request, pc[r] # "idle", arg[r].edit.field # "max_students"
    PROVE  \A u \in Topic :
              Overlaid(TopicEdits(arg[r].batch, arg[r].edit))[u].max_students
                 = topic[u].max_students
BY EditedTopics

LEMMA LawfulEdit ==
    ASSUME RegistryInv, NEW r \in Request, EditWrite(r)
    PROVE  Lawful(NoWrites, TopicEdits(arg[r].batch, arg[r].edit))
<1> DEFINE e == arg[r].edit
           t0 == arg[r].topic
           topics == TopicEdits(arg[r].batch, e)
           g == Shown(project, topic)
           h == Shown(View(project, NoWrites), Overlaid(topics))
<1>0. TypeOK
  BY DEF RegistryInv, SerialInv
<1>1. pc[r] = "write" /\ arg[r].op \in {"update", "force"} /\ arg[r] \in Arg /\ t0 \in Topic
  BY <1>0, InFlight DEF EditWrite, Running, Write, Arg
<1>2. /\ arg[r].batch = {t0}
      /\ e.field = "max_students" /\ t0 \in Offered(topic) => MemberCount(t0) <= e.to
  BY <1>1 DEF RegistryInv, KnowsMove
<1>3. ASSUME NEW u \in Topic
      PROVE  /\ Members(View(project, NoWrites), u) = Members(project, u)
             /\ Asking(View(project, NoWrites), u) = Asking(project, u)
  BY ViewOf DEF NoWrites, Members, Asking, WithStatus
<1>4. CASE e.field # "max_students"
  <2>1. \A u \in Topic : Asking(project, u) \ {} = Asking(project, u)
    OBVIOUS
  <2> DEFINE none == {}
  <2>2. none \in SUBSET Student /\ \A u \in Topic : Asking(project, u) \ none = Asking(project, u)
    BY <2>1
  <2>3. \A u \in Topic : Overlaid(topics)[u].max_students = topic[u].max_students
    BY <1>0, <1>1, <1>4, OtherEdits
  <2>4. \A u \in Topic : /\ Members(View(project, NoWrites), u) = Members(project, u)
                         /\ Asking(View(project, NoWrites), u) = Asking(project, u)
    BY <1>3
  <2> HIDE DEF none, topics
  <2>5. Lawful(NoWrites, topics)
    BY <2>2, <2>3, <2>4, LawfulOffers
  <2> QED
    BY <2>5 DEF topics, e
<1>5. CASE e.field = "max_students"
  <2>1. \A u \in Topic : u # t0 => Overlaid(topics)[u] = topic[u]
    BY <1>0, <1>1, <1>2, EditedTopics
  <2>2. /\ Overlaid(topics)[t0].max_students = e.to
        /\ Overlaid(topics)[t0].status = topic[t0].status
        /\ Overlaid(topics)[t0].locked = topic[t0].locked
    BY <1>0, <1>1, <1>2, <1>5, EditedTopics
  <2> HIDE DEF topics, e, t0
  <2>3. Offered(Overlaid(topics)) = Offered(topic)
    <3>1. \A u \in Topic : /\ Overlaid(topics)[u].status = topic[u].status
                           /\ Overlaid(topics)[u].locked = topic[u].locked
      BY <2>1, <2>2
    <3> QED
      BY <3>1 DEF Offered
  <2>4. /\ g.asking = [u \in Topic |-> Asking(project, u)]
        /\ g.members = [u \in Topic |-> Members(project, u)]
        /\ g.limit = [u \in Topic |-> topic[u].max_students]
        /\ g.offered = Offered(topic)
    BY DEF Shown
  <2>5. /\ h.asking = [u \in Topic |-> Asking(View(project, NoWrites), u)]
        /\ h.members = [u \in Topic |-> Members(View(project, NoWrites), u)]
        /\ h.limit = [u \in Topic |-> Overlaid(topics)[u].max_students]
        /\ h.offered = Offered(Overlaid(topics))
    BY DEF Shown
  <2> HIDE DEF g, h
  <2>6. Registry!KeepsAsking(g, h) /\ Registry!KeepsMembers(g, h)
    BY <1>3, <2>4, <2>5 DEF Registry!KeepsAsking, Registry!KeepsMembers
  <2>7. \A u \in Topic \ {t0} : h.limit[u] = g.limit[u]
    BY <2>1, <2>4, <2>5
  <2>8. t0 \in g.offered => Cardinality(g.members[t0]) <= h.limit[t0]
    BY <1>1, <1>2, <1>5, <2>2, <2>4, <2>5 DEF MemberCount
  <2>9. Registry!Limits(g, h, t0)
    BY <2>3, <2>4, <2>5, <2>6, <2>7, <2>8, SameSize DEF Registry!Limits
  <2>10. Registry!Move(g, h)
    BY <1>1, <2>9 DEF Registry!Move
  <2> QED
    BY <2>10 DEF Lawful, g, h, topics, e
<1> QED
  BY <1>4, <1>5

LEMMA LawfulBulk ==
    ASSUME RegistryInv, NEW r \in Request, BulkWrite(r)
    PROVE  Lawful(dirtyRow'[r], dirtyTopic'[r])
<1> DEFINE e == arg[r].edit
           turned == IF e.to = "REJECTED"
                     THEN UNION {WithStatus(project, t, {"PENDING"}) : t \in arg[r].batch}
                     ELSE {}
           rows == [s \in Student |-> IF s \in turned
                                      THEN [project[s] EXCEPT !.status = "REJECTED"]
                                      ELSE Clean]
           topics == TopicEdits(arg[r].batch, e)
<1>0. TypeOK
  BY DEF RegistryInv, SerialInv
<1>1. Write(r, rows, topics) /\ pc[r] = "write" /\ arg[r].op = "bulk"
  BY DEF BulkWrite, Running, Write
<1>2. dirtyRow'[r] = rows /\ dirtyTopic'[r] = topics
  BY <1>0, <1>1, Written
<1>3. e.field = "status"
  BY <1>1 DEF RegistryInv, KnowsMove
<1>4. ASSUME NEW s \in Student, s \in turned
      PROVE  /\ e.to = "REJECTED" /\ project[s] # NoRow /\ project[s] \in Row
             /\ project[s].status = "PENDING" /\ project[s].topic \in arg[r].batch
             /\ rows[s] # Clean /\ rows[s].status = "REJECTED"
  <2>1. /\ e.to = "REJECTED" /\ project[s] # NoRow /\ project[s].status = "PENDING"
        /\ project[s].topic \in arg[r].batch
    BY <1>4 DEF WithStatus
  <2>2. project[s] \in Row
    BY <1>0, <2>1 DEF TypeOK
  <2>3. rows[s] = [project[s] EXCEPT !.status = "REJECTED"]
    BY <1>4
  <2> HIDE DEF rows, turned
  <2> QED
    BY <2>1, <2>2, <2>3, StatusSet DEF ProjectStatus
<1>5. /\ \A s \in Student : s \notin turned => rows[s] = Clean
      /\ turned \in SUBSET Student
  BY DEF WithStatus
<1>6. \A u \in Topic : Overlaid(topics)[u].max_students = topic[u].max_students
  BY <1>0, <1>1, <1>3, OtherEdits
<1>7. \A u \in Topic : u \in arg[r].batch => Overlaid(topics)[u].status = e.to
  BY <1>0, <1>1, <1>3, EditedTopics
<1> HIDE DEF rows, turned, topics, e
<1>8. ASSUME NEW u \in Topic
      PROVE  /\ Members(View(project, rows), u) = Members(project, u)
             /\ u \in Offered(Overlaid(topics))
                   => Asking(View(project, rows), u) = Asking(project, u)
             /\ u \notin Offered(Overlaid(topics))
                   => Asking(View(project, rows), u) = Asking(project, u) \ turned
  <2>1. Members(View(project, rows), u) = Members(project, u)
    <3>1. \A s \in Student : s \in turned => s \notin Members(project, u)
      BY <1>4 DEF Members, WithStatus, Counted
    <3> QED
      BY <1>4, <1>5, <3>1, SameMembers DEF Counted
  <2>2. \A s \in Student : s \in Asking(View(project, rows), u) <=> s \in Asking(project, u) \ turned
    BY <1>4, <1>5, AskingOfView
  <2>3. Asking(View(project, rows), u) \subseteq Student /\ Asking(project, u) \subseteq Student
    BY AskingStudents
  <2>4. Asking(View(project, rows), u) = Asking(project, u) \ turned
    BY <2>2, <2>3
  <2>5. u \in Offered(Overlaid(topics)) => Asking(project, u) \cap turned = {}
    <3> SUFFICES ASSUME u \in Offered(Overlaid(topics)), NEW s \in Asking(project, u), s \in turned
                 PROVE  FALSE
      OBVIOUS
    <3>1. s \in Student /\ project[s].topic = u
      BY DEF Asking, WithStatus
    <3>2. u \in arg[r].batch /\ e.to = "REJECTED"
      BY <1>4, <3>1
    <3>3. Overlaid(topics)[u].status = "REJECTED"
      BY <1>7, <3>2
    <3> QED
      BY <3>3 DEF Offered
  <2> QED
    BY <2>1, <2>4, <2>5
<1> QED
  BY <1>2, <1>5, <1>6, <1>8, LawfulOffers

\* A transaction that sets flags only, with an edit that leaves the limits.
LEMMA LawfulFlags ==
    ASSUME TypeOK, NEW rows, NEW who, NEW lead, FlagsOnly(rows, who, lead), NEW topics,
           \A u \in Topic : Overlaid(topics)[u].max_students = topic[u].max_students
    PROVE  Lawful(rows, topics)
<1> DEFINE none == {}
<1>1. ASSUME NEW u \in Topic
      PROVE  /\ Members(View(project, rows), u) = Members(project, u)
             /\ Asking(View(project, rows), u) = Asking(project, u)
  <2>0. ASSUME NEW s \in Student
        PROVE  /\ s \in Members(View(project, rows), u) <=> s \in Members(project, u)
               /\ s \in Asking(View(project, rows), u) <=> s \in Asking(project, u)
    <3>1. CASE rows[s] = Clean
      BY <3>1, MembersOfView, AskingOfView
    <3>2. CASE rows[s] # Clean
      <4>1. /\ project[s] # NoRow /\ rows[s] # NoRow
            /\ rows[s].topic = project[s].topic /\ rows[s].status = project[s].status
        BY <3>2 DEF FlagsOnly
      <4>2. s \in Members(project, u) <=>
               project[s].topic = u /\ project[s].status \in Counted
        BY <4>1 DEF Members, WithStatus
      <4>3. s \in Asking(project, u) <=>
               project[s].topic = u /\ project[s].status \in {"PENDING", "WAITING_SECRETARY"}
        BY <4>1 DEF Asking, WithStatus
      <4> QED
        BY <3>2, <4>1, <4>2, <4>3, MembersOfView, AskingOfView
    <3> QED
      BY <3>1, <3>2
  <2>1. \A s \in Student : s \in Members(View(project, rows), u) <=> s \in Members(project, u)
    BY <2>0
  <2>2. \A s \in Student : s \in Asking(View(project, rows), u) <=> s \in Asking(project, u)
    BY <2>0
  <2>3. /\ Asking(View(project, rows), u) \subseteq Student /\ Asking(project, u) \subseteq Student
        /\ Members(View(project, rows), u) \subseteq Student /\ Members(project, u) \subseteq Student
    BY AskingStudents
  <2> QED
    BY <2>1, <2>2, <2>3
<1>2. none \in SUBSET Student /\ \A u \in Topic : Asking(project, u) \ none = Asking(project, u)
  OBVIOUS
<1> HIDE DEF none
<1> QED
  BY <1>1, <1>2, LawfulOffers

LEMMA LawfulLock ==
    ASSUME RegistryInv, NEW r \in Request, LockWrite(r)
    PROVE  Lawful(dirtyRow'[r], dirtyTopic'[r])
<1> DEFINE rows == [s \in Student |-> IF s \in arg[r].who
                                      THEN [project[s] EXCEPT !.is_leader = (s \in arg[r].lead)]
                                      ELSE Clean]
           topics == TopicEdits(arg[r].batch, arg[r].edit)
<1>0. TypeOK
  BY DEF RegistryInv, SerialInv
<1>1. /\ pc[r] = "write" /\ arg[r].op = "lock"
      /\ (\A s \in arg[r].who : project[s] # NoRow) /\ Write(r, rows, topics)
  BY DEF LockWrite, Running, Write, Holds
<1>2. dirtyRow'[r] = rows /\ dirtyTopic'[r] = topics
  BY <1>0, <1>1, Written
<1>3. arg[r].edit.field = "locked"
  BY <1>1 DEF RegistryInv, KnowsMove
<1>4. \A u \in Topic : Overlaid(topics)[u].max_students = topic[u].max_students
  BY <1>0, <1>1, <1>3, OtherEdits
<1>5. FlagsOnly(rows, arg[r].who, arg[r].lead)
  BY <1>0, <1>1, FlagRows
<1> HIDE DEF rows, topics
<1> QED
  BY <1>0, <1>2, <1>4, <1>5, LawfulFlags

LEMMA LawfulLeader ==
    ASSUME RegistryInv, NEW r \in Request, LeaderWrite(r)
    PROVE  Lawful(dirtyRow'[r], dirtyTopic'[r])
<1> DEFINE who == Demoted(r) \cup arg[r].lead
           rows == [s \in Student |-> IF s \in who
                                      THEN [project[s] EXCEPT !.is_leader = (s \in arg[r].lead)]
                                      ELSE Clean]
<1>0. TypeOK
  BY DEF RegistryInv, SerialInv
<1>1. (\A s \in who : project[s] # NoRow) /\ Write(r, rows, NoTopicWrites)
  BY DEF LeaderWrite, Holds, Demoted, Leaders, WithStatus
<1>2. dirtyRow'[r] = rows /\ dirtyTopic'[r] = NoTopicWrites
  BY <1>0, <1>1, Written
<1> HIDE DEF who
<1>3. FlagsOnly(rows, who, arg[r].lead)
  BY <1>0, <1>1, FlagRows
<1>4. \A u \in Topic : Overlaid(NoTopicWrites)[u].max_students = topic[u].max_students
  BY NoTopicsWritten
<1> HIDE DEF rows
<1> QED
  BY <1>0, <1>2, <1>3, <1>4, LawfulFlags

-----------------------------------------------------------------------------
(* The steps of the registration as steps of the registry *)

\* The table of the topics says nothing else to a reader.
LEMMA ShownTopics ==
    ASSUME NEW rows, NEW before, NEW after,
           \A t \in Topic : /\ after[t].status = before[t].status
                            /\ after[t].locked <=> before[t].locked
                            /\ after[t].max_students = before[t].max_students
    PROVE  Shown(rows, after) = Shown(rows, before)
<1>1. Offered(after) = Offered(before)
  BY DEF Offered
<1>2. [t \in Topic |-> after[t].max_students] = [t \in Topic |-> before[t].max_students]
  OBVIOUS
<1> QED
  BY <1>1, <1>2, Zenon DEF Shown

\* A request that arrives brings what its move asks for.
LEMMA RegistryBegin ==
    ASSUME Serial, RegistryInv, SerialInv', OwnerInv', ApprovalInv',
           NEW r \in Request, NEW op, NEW step \in {"check", "write"},
           NEW t \in Topic, NEW who, NEW ids, NEW e, NEW lead, NEW batch,
           Begin(r, op, step, t, who, ids, e, lead, batch),
           op \in {"register", "assign"} => t \in Offered(topic),
           op = "register" => step = "check" /\ \E s \in Student : who = {s},
           op \in {"update", "force"} =>
              /\ batch = {t}
              /\ e.field = "max_students" /\ t \in Offered(topic) => MemberCount(t) <= e.to,
           op = "bulk" => e.field = "status",
           op = "lock" => e.field = "locked"
    PROVE  RegistryInv'
<1>1. /\ pc'[r] = step
      /\ arg'[r].op = op /\ arg'[r].topic = t /\ arg'[r].who = who
      /\ arg'[r].seen = Seen(t) /\ arg'[r].edit = e /\ arg'[r].batch = batch
      /\ UNCHANGED <<topic, project>>
  BY Begun DEF RegistryInv, SerialInv
<1>2. Seen(t).max_students = topic[t].max_students
  BY DEF Seen
<1>3. KnowsMove(r)'
  BY <1>1, <1>2 DEF KnowsMove, MemberCount, Offered
<1> QED
  BY <1>1, <1>3 DEF RegistryInv, Serial

\* The occupied slots are counted against the limit, and the members are among them.
LEMMA MembersOccupy ==
    ASSUME TypeOK, NEW t \in Topic, NEW n, Cardinality(Occupied(project, t)) <= n, n \in Nat
    PROVE  MemberCount(t) <= n
<1>1. Members(project, t) \subseteq Occupied(project, t)
  BY Statuses DEF Members, Occupied, WithStatus
<1>2. MemberCount(t) <= Cardinality(Occupied(project, t))
  BY <1>1, WithStatusFinite, FS_Subset DEF Occupied, MemberCount
<1>3. MemberCount(t) \in Nat /\ Cardinality(Occupied(project, t)) \in Nat
  BY WithStatusFinite, FS_CardinalityType DEF Occupied, Members, MemberCount
<1> QED
  BY <1>2, <1>3

LEMMA RegistryArrive ==
    ASSUME Serial, RegistryInv, SerialInv', OwnerInv', ApprovalInv',
           NEW r \in Request, Arrive(r)
    PROVE  RegistryInv'
<1>0. TypeOK
  BY DEF RegistryInv, SerialInv
<1>1. ASSUME NEW s \in Student, NEW t \in Topic, RegisterRead(r, s, t)
      PROVE  RegistryInv'
  <2>1. Begin(r, "register", "check", t, {s}, NoIds, NoEdit, {}, {}) /\ t \in Offered(topic)
    BY <1>1 DEF RegisterRead, Offered
  <2> QED
    BY <2>1, RegistryBegin
<1>2. ASSUME NEW s \in Student, NEW t \in Topic, CancelRead(r, s, t)
      PROVE  RegistryInv'
  <2>1. Begin(r, "cancel", "write", t, {s}, Ids({s}), NoEdit, {}, {})
    BY <1>2 DEF CancelRead
  <2> QED
    BY <2>1, RegistryBegin
<1>3. ASSUME NEW s \in Student, NEW t \in Topic, ApproveRead(r, s, t)
      PROVE  RegistryInv'
  <2>1. Begin(r, "approve", "check", t, {s}, Ids({s}), NoEdit, {}, {})
    BY <1>3 DEF ApproveRead, DecideRead
  <2> QED
    BY <2>1, RegistryBegin
<1>4. ASSUME NEW s \in Student, NEW t \in Topic, RejectRead(r, s, t)
      PROVE  RegistryInv'
  <2>1. Begin(r, "reject", "write", t, {s}, Ids({s}), NoEdit, {}, {})
    BY <1>4 DEF RejectRead, DecideRead
  <2> QED
    BY <2>1, RegistryBegin
<1>5. ASSUME NEW s \in Student, NEW t \in Topic, LeaderRead(r, s, t)
      PROVE  RegistryInv'
  <2>1. Begin(r, "leader", "check", t, {s}, Ids({s}), NoEdit, {s}, {})
    BY <1>5 DEF LeaderRead
  <2> QED
    BY <2>1, RegistryBegin
<1>6. ASSUME NEW who \in SUBSET Student, NEW t \in Topic, AssignCheck(r, who, t)
      PROVE  RegistryInv'
  <2>1. Begin(r, "assign", "write", t, who, Ids(who), NoEdit, {}, {}) /\ t \in Offered(topic)
    BY <1>6 DEF AssignCheck, Offered
  <2> QED
    BY <2>1, RegistryBegin
<1>7. ASSUME NEW t \in Topic, NEW e \in Edit, UpdateRead(r, t, e) \/ ForceCheck(r, t, e)
      PROVE  RegistryInv'
  <2>1. \/ Begin(r, "update", "write", t, {}, NoIds, e, {}, {t})
        \/ Begin(r, "force", "write", t, {}, NoIds, e, {}, {t})
    BY <1>7 DEF UpdateRead, ForceCheck
  <2>2. ASSUME e.field = "max_students", t \in Offered(topic)
        PROVE  MemberCount(t) <= e.to
    <3>1. topic[t].status = "APPROVED"
      BY <2>2 DEF Offered
    <3>2. e # [field |-> "status", to |-> "PENDING"]
      BY <2>2
    <3>3. Cardinality(Occupied(project, t)) <= e.to
      BY <1>7, <2>2, <3>1, <3>2 DEF UpdateRead, ForceCheck
    <3>4. e.to \in Nat
      BY <2>2 DEF Edit
    <3> QED
      BY <1>0, <3>3, <3>4, MembersOccupy
  <2> DEFINE batch == {t}
  <2>3. \/ Begin(r, "update", "write", t, {}, NoIds, e, {}, batch)
        \/ Begin(r, "force", "write", t, {}, NoIds, e, {}, batch)
    BY <2>1
  <2>4. batch = {t}
    OBVIOUS
  <2> HIDE DEF batch
  <2> QED
    BY <2>2, <2>3, <2>4, RegistryBegin
<1>8. ASSUME NEW batch \in SUBSET Topic, NEW t \in Topic, NEW verdict \in {"APPROVED", "REJECTED"},
             BulkCheck(r, batch, t, verdict)
      PROVE  RegistryInv'
  <2> DEFINE e == [field |-> "status", to |-> verdict]
  <2>1. Begin(r, "bulk", "write", t, {}, NoIds, e, {}, batch) /\ e.field = "status"
    BY <1>8 DEF BulkCheck
  <2> HIDE DEF e
  <2> QED
    BY <2>1, RegistryBegin
<1>9. ASSUME NEW t \in Topic, NEW who \in SUBSET {s \in Student : project[s] # NoRow},
             NEW lead \in SUBSET who, LockRead(r, t, who, lead)
      PROVE  RegistryInv'
  <2> DEFINE e == [field |-> "locked", to |-> TRUE]
  <2>1. Begin(r, "lock", "write", t, who, Ids(who), e, lead, {t}) /\ e.field = "locked"
    BY <1>9 DEF LockRead
  <2> HIDE DEF e
  <2> QED
    BY <2>1, RegistryBegin
<1> QED
  BY <1>1, <1>2, <1>3, <1>4, <1>5, <1>6, <1>7, <1>8, <1>9 DEF Arrive

\* The capacity that registerTopic checks is a free place.
LEMMA RegistryRegisterCheck ==
    ASSUME Serial, RegistryInv, SerialInv', OwnerInv', ApprovalInv',
           NEW r \in Request, RegisterCheck(r)
    PROVE  RegistryInv'
<1> DEFINE t0 == arg[r].topic
           who == arg[r].who
           x == Occupied(project, t0) \ who
<1>0. TypeOK
  BY DEF RegistryInv, SerialInv
<1>1. /\ pc[r] = "check" /\ arg[r].op = "register" /\ pc'[r] = "write"
      /\ arg' = [arg EXCEPT ![r].ids = Ids(who)]
      /\ UNCHANGED <<topic, project>>
      /\ HasCapacity(project, t0, arg[r].seen.max_students, 1, who)
      /\ \A s \in who : project[s] # NoRow => project[s].status \notin SlotOccupying
  BY <1>0 DEF RegisterCheck, TypeOK
<1>2. arg[r] \in Arg /\ who \subseteq Student /\ t0 \in Topic
  BY <1>0, <1>1, InFlight DEF Arg
<1>3. /\ t0 \in Offered(topic) /\ arg[r].seen.max_students = topic[t0].max_students
      /\ \E s \in Student : who = {s}
  BY <1>1 DEF RegistryInv, KnowsMove
<1>4. arg'[r] = [arg[r] EXCEPT !.ids = Ids(who)]
  BY <1>0, <1>1 DEF TypeOK
<1>5. /\ arg'[r].op = "register" /\ arg'[r].topic = t0 /\ arg'[r].who = who
      /\ arg'[r].seen = arg[r].seen
  BY <1>1, <1>2, <1>4 DEF Arg
<1>6. Members(project, t0) \subseteq x
  BY <1>1, Statuses DEF Members, Occupied, WithStatus
<1>7. IsFiniteSet(x) /\ MemberCount(t0) <= Cardinality(x)
  BY <1>6, WithStatusFinite, FS_Subset DEF Occupied, MemberCount
<1>8. /\ MemberCount(t0) \in Nat /\ Cardinality(x) \in Nat /\ topic[t0].max_students \in Nat
  BY <1>0, <1>2, <1>7, WithStatusFinite, FS_CardinalityType
     DEF Members, MemberCount, TypeOK, TopicRow
<1>9. Cardinality(x) + 1 <= topic[t0].max_students
  BY <1>1, <1>3 DEF HasCapacity
<1> HIDE DEF x
<1>10. MemberCount(t0) < topic[t0].max_students
  BY <1>7, <1>8, <1>9
<1>11. KnowsMove(r)'
  BY <1>1, <1>3, <1>5, <1>10 DEF KnowsMove, MemberCount, Offered
<1> QED
  BY <1>1, <1>11 DEF RegistryInv, Serial

\* What an approval or a change of leader checks is of no other request's concern.
LEMMA RegistryOtherChecks ==
    ASSUME Serial, RegistryInv, SerialInv', OwnerInv', ApprovalInv',
           NEW r \in Request, ApproveCheck(r) \/ LeaderCheck(r)
    PROVE  RegistryInv'
<1>0. TypeOK
  BY DEF RegistryInv, SerialInv
<1>1. /\ pc[r] = "check" /\ arg[r].op \in {"approve", "leader"} /\ pc'[r] = "write"
      /\ \/ arg' = [arg EXCEPT ![r].seen = Seen(arg[r].topic)]
         \/ arg' = [arg EXCEPT ![r].who = @ \cup Leaders(project, arg[r].topic)]
  BY <1>0 DEF ApproveCheck, LeaderCheck, TypeOK
<1>2. arg[r] \in Arg
  BY <1>0, <1>1, InFlight
<1>3. \/ arg'[r] = [arg[r] EXCEPT !.seen = Seen(arg[r].topic)]
      \/ arg'[r] = [arg[r] EXCEPT !.who = @ \cup Leaders(project, arg[r].topic)]
  BY <1>0, <1>1 DEF TypeOK
<1>4. arg'[r].op = arg[r].op
  BY <1>2, <1>3 DEF Arg
<1>5. KnowsMove(r)'
  BY <1>1, <1>4 DEF KnowsMove
<1> QED
  BY <1>1, <1>5 DEF RegistryInv, Serial

\* A transaction that writes its move is about to make it.
LEMMA RegistryWritten ==
    ASSUME Serial, RegistryInv, SerialInv', OwnerInv', ApprovalInv',
           NEW r \in Request, pc'[r] = "commit", UNCHANGED <<topic, project>>,
           Lawful(dirtyRow'[r], dirtyTopic'[r])
    PROVE  RegistryInv'
<1>1. Lawful(dirtyRow[r], dirtyTopic[r])'
  BY DEF Lawful, Overlaid
<1> QED
  BY <1>1 DEF RegistryInv, Serial

\* Writes with a name of their own.
LEMMA RegistryWrites ==
    ASSUME RegistryInv, NEW r \in Request, NEW rows, NEW topics,
           Write(r, rows, topics), Lawful(rows, topics)
    PROVE  Lawful(dirtyRow'[r], dirtyTopic'[r])
<1>1. dirtyRow'[r] = rows /\ dirtyTopic'[r] = topics
  BY Written DEF RegistryInv, SerialInv
<1> QED
  BY <1>1

LEMMA RegistryWrite ==
    ASSUME RegistryInv, ApprovalInv', NEW r \in Request,
           Proceed(r), ~RegisterCheck(r), ~ApproveCheck(r), ~LeaderCheck(r), ~Commit(r)
    PROVE  Lawful(dirtyRow'[r], dirtyTopic'[r])
<1>1. CASE RegisterWrite(r)
  <2> DEFINE rows == [s \in Student |-> IF s \in arg[r].who THEN PlacedRow(r, s, "PENDING") ELSE Clean]
  <2>1. Write(r, rows, NoTopicWrites)
    BY <1>1 DEF RegisterWrite, Place
  <2>2. Lawful(rows, NoTopicWrites)
    BY <1>1, LawfulRegister
  <2> HIDE DEF rows
  <2> QED
    BY <2>1, <2>2, RegistryWrites
<1>2. CASE AssignWrite(r)
  <2> DEFINE rows == [s \in Student |-> IF s \in arg[r].who THEN PlacedRow(r, s, "ASSIGNED") ELSE Clean]
  <2>1. Write(r, rows, NoTopicWrites)
    BY <1>2 DEF AssignWrite, Place
  <2>2. Lawful(rows, NoTopicWrites)
    BY <1>2, LawfulAssign
  <2> HIDE DEF rows
  <2> QED
    BY <2>1, <2>2, RegistryWrites
<1>3. CASE CancelWrite(r)
  <2> DEFINE rows == [s \in Student |-> IF s \in arg[r].who THEN NoRow ELSE Clean]
  <2>1. Write(r, rows, NoTopicWrites)
    BY <1>3 DEF CancelWrite
  <2>2. Lawful(rows, NoTopicWrites)
    BY <1>3, LawfulCancel
  <2> HIDE DEF rows
  <2> QED
    BY <2>1, <2>2, RegistryWrites
<1>4. CASE RejectWrite(r)
  <2>1. Write(r, Decided(r, "REJECTED"), NoTopicWrites)
    BY <1>4 DEF RejectWrite
  <2> QED
    BY <1>4, <2>1, LawfulReject, RegistryWrites
<1>5. CASE EditWrite(r)
  <2>1. Write(r, NoWrites, TopicEdits(arg[r].batch, arg[r].edit))
    BY <1>5 DEF EditWrite
  <2> QED
    BY <1>5, <2>1, LawfulEdit, RegistryWrites
<1> QED
  BY <1>1, <1>2, <1>3, <1>4, <1>5, LawfulApprove, LawfulBulk, LawfulLock, LawfulLeader DEF Proceed

\* What is stored with the counter shows as what was written.
LEMMA StoredShows ==
    ASSUME TypeOK, TypeOK', NEW r \in Request, Commit(r)
    PROVE  Shown(project', topic') = Shown(View(project, dirtyRow[r]), Overlaid(dirtyTopic[r]))
<1>1. /\ project' = View(project, dirtyRow[r])
      /\ topic' = [t \in Topic |-> Stored(r, t)]
  BY DEF Commit
<1>2. ASSUME NEW t \in Topic
      PROVE  /\ topic'[t].status = Overlaid(dirtyTopic[r])[t].status
             /\ topic'[t].locked <=> Overlaid(dirtyTopic[r])[t].locked
             /\ topic'[t].max_students = Overlaid(dirtyTopic[r])[t].max_students
  <2> DEFINE base == IF dirtyTopic[r][t] = Clean THEN topic[t] ELSE dirtyTopic[r][t]
  <2>1. base \in TopicRow
    BY DEF TypeOK, TopicWrite
  <2>2. Overlaid(dirtyTopic[r])[t] = base
    BY DEF Overlaid
  <2>3. topic'[t] = base \/ topic'[t] = [base EXCEPT !.registered_students = arg[r].count]
    BY <1>1 DEF Stored
  <2> HIDE DEF base
  <2> QED
    BY <2>1, <2>2, <2>3 DEF TopicRow
<1> QED
  BY <1>1, <1>2, ShownTopics

\* A commit is a move, and stores the count of the members it leaves.
LEMMA RegistryCommit ==
    ASSUME Serial, RegistryInv, SerialInv', OwnerInv', ApprovalInv', NEW r \in Request, Commit(r)
    PROVE  /\ RegistryInv'
           /\ \/ Shown(project', topic') = Shown(project, topic)
              \/ Registry!Move(Shown(project, topic), Shown(project', topic'))
<1>0. TypeOK /\ TypeOK'
  BY DEF RegistryInv, SerialInv
<1>1. pc[r] = "commit" /\ pc'[r] = "idle"
  BY <1>0 DEF Commit, Finish, TypeOK
<1>2. Lawful(dirtyRow[r], dirtyTopic[r])
  BY <1>1 DEF RegistryInv
<1>3. Shown(project', topic') = Shown(View(project, dirtyRow[r]), Overlaid(dirtyTopic[r]))
  BY <1>0, StoredShows
<1>4. RegistryInv'
  BY <1>1 DEF RegistryInv, Serial
<1> QED
  BY <1>2, <1>3, <1>4 DEF Lawful

\* The hourly job hands a request over; it stays open.
LEMMA EscalatedAsking ==
    ASSUME TypeOK, Escalate
    PROVE  \A s \in Student :
              /\ project[s] = NoRow <=> project'[s] = NoRow
              /\ project[s] # NoRow =>
                    /\ project'[s].topic = project[s].topic
                    /\ project'[s].status \in Counted <=> project[s].status \in Counted
                    /\ project'[s].status \in {"PENDING", "WAITING_SECRETARY"}
                          <=> project[s].status \in {"PENDING", "WAITING_SECRETARY"}
<1>1. ASSUME NEW s \in Student, s \in Late
      PROVE  /\ project[s] # NoRow /\ project'[s] # NoRow
             /\ project'[s].topic = project[s].topic
             /\ project[s].status = "PENDING" /\ project'[s].status = "WAITING_SECRETARY"
  <2>1. project[s] # NoRow /\ project[s].status = "PENDING"
    BY <1>1 DEF Late
  <2>2. project[s] \in Row
    BY <2>1 DEF TypeOK
  <2>3. project'[s] = [project[s] EXCEPT !.status = "WAITING_SECRETARY"]
    BY <1>1 DEF Escalate
  <2>4. "WAITING_SECRETARY" \in ProjectStatus
    BY DEF ProjectStatus
  <2> QED
    BY <2>1, <2>2, <2>3, <2>4, StatusSet
<1>2. \A s \in Student : s \notin Late => project'[s] = project[s]
  BY DEF Escalate
<1> QED
  BY <1>1, <1>2, Statuses

\* So it changes nothing that shows, committed or about to be.
LEMMA EscalationShowsNothing ==
    ASSUME TypeOK, Escalate, NEW written, NEW topics
    PROVE  /\ Shown(project', topics) = Shown(project, topics)
           /\ Shown(View(project', written), topics) = Shown(View(project, written), topics)
<1>1. ASSUME NEW s \in Student, NEW t
      PROVE  /\ s \in Members(project', t) <=> s \in Members(project, t)
             /\ s \in Asking(project', t) <=> s \in Asking(project, t)
  BY EscalatedAsking DEF Members, Asking, WithStatus
<1>2. ASSUME NEW t
      PROVE  /\ Members(project', t) = Members(project, t)
             /\ Asking(project', t) = Asking(project, t)
  <2>1. /\ Members(project', t) \subseteq Student /\ Members(project, t) \subseteq Student
        /\ Asking(project', t) \subseteq Student /\ Asking(project, t) \subseteq Student
    BY AskingStudents
  <2> QED
    BY <1>1, <2>1
<1>3. ASSUME NEW t
      PROVE  /\ Members(View(project', written), t) = Members(View(project, written), t)
             /\ Asking(View(project', written), t) = Asking(View(project, written), t)
  <2>1. \A s \in Student :
           /\ s \in Members(View(project', written), t) <=> s \in Members(View(project, written), t)
           /\ s \in Asking(View(project', written), t) <=> s \in Asking(View(project, written), t)
    BY <1>1, MembersOfView, AskingOfView
  <2>2. /\ Members(View(project', written), t) \subseteq Student
        /\ Members(View(project, written), t) \subseteq Student
        /\ Asking(View(project', written), t) \subseteq Student
        /\ Asking(View(project, written), t) \subseteq Student
    BY AskingStudents
  <2> QED
    BY <2>1, <2>2
<1> QED
  BY <1>2, <1>3 DEF Shown

LEMMA RegistryEscalate ==
    ASSUME RegistryInv, Escalate, SerialInv', OwnerInv', ApprovalInv'
    PROVE  RegistryInv' /\ Shown(project', topic') = Shown(project, topic)
<1>0. TypeOK
  BY DEF RegistryInv, SerialInv
<1>1. UNCHANGED <<topic, pc, arg, dirtyRow, dirtyTopic>>
  BY DEF Escalate
<1>2. \A t \in Topic : Cardinality(Members(project', t)) = Cardinality(Members(project, t))
  <2>1. \A t \in Topic : Members(project', t) = Members(project, t)
    BY SerialEscalate DEF RegistryInv, SerialInv
  <2> QED
    BY <2>1
<1>3. ASSUME NEW r \in Request, pc[r] \in {"check", "write"}
      PROVE  KnowsMove(r)'
  <2>1. KnowsMove(r) /\ arg[r].topic \in Topic
    BY <1>0, <1>3, InFlight DEF RegistryInv, Arg
  <2> QED
    BY <1>1, <1>2, <2>1 DEF KnowsMove, MemberCount, Offered
<1>4. ASSUME NEW r \in Request, pc[r] = "commit"
      PROVE  Lawful(dirtyRow[r], dirtyTopic[r])'
  <2>1. Lawful(dirtyRow[r], dirtyTopic[r])
    BY <1>4 DEF RegistryInv
  <2>2. /\ Shown(project', topic) = Shown(project, topic)
        /\ Shown(View(project', dirtyRow[r]), Overlaid(dirtyTopic[r]))
              = Shown(View(project, dirtyRow[r]), Overlaid(dirtyTopic[r]))
    BY <1>0, EscalationShowsNothing
  <2>3. Overlaid(dirtyTopic[r])' = Overlaid(dirtyTopic[r])
    BY <1>1 DEF Overlaid
  <2> QED
    BY <1>1, <2>1, <2>2, <2>3 DEF Lawful
<1>5. Shown(project', topic') = Shown(project, topic)
  BY <1>0, <1>1, EscalationShowsNothing
<1> QED
  BY <1>1, <1>3, <1>4, <1>5 DEF RegistryInv

\* The registry and the counters, as the tables show them.
Counters == [t \in Topic |-> topic[t].registered_students]

\* Every step makes at most one move, and the counters follow it.
LEMMA RegistryNext ==
    ASSUME Serial, RegistryInv, [Next]_vars
    PROVE  /\ RegistryInv'
           /\ [Registry!RegistryNext]_<<Shown(project, topic), Counters>>
<1>0. SerialInv' /\ OwnerInv' /\ ApprovalInv'
  BY SerialNext, OwnerNext, ApprovalNext DEF RegistryInv
<1>1. /\ TypeOK /\ TypeOK'
      /\ \A t \in Topic : topic[t].registered_students = Cardinality(Members(project, t))
      /\ \A t \in Topic : topic'[t].registered_students = Cardinality(Members(project', t))
  BY <1>0 DEF RegistryInv, SerialInv, CounterExact, MemberCount
<1>2. ASSUME UNCHANGED <<project, topic>>
      PROVE  UNCHANGED <<Shown(project, topic), Counters>>
  BY <1>2 DEF Counters
<1>3. ASSUME Shown(project', topic') = Shown(project, topic)
      PROVE  UNCHANGED <<Shown(project, topic), Counters>>
  <2>1. /\ Shown(project', topic').members = [t \in Topic |-> Members(project', t)]
        /\ Shown(project, topic).members = [t \in Topic |-> Members(project, t)]
    BY DEF Shown
  <2>2. \A t \in Topic : Members(project', t) = Members(project, t)
    BY <1>3, <2>1
  <2>3. \A t \in Topic : topic'[t].registered_students = topic[t].registered_students
    BY <1>1, <2>2
  <2> QED
    BY <1>3, <2>3 DEF Counters
<1>4. ASSUME Registry!Move(Shown(project, topic), Shown(project', topic'))
      PROVE  Registry!RegistryNext
  <2>1. Shown(project', topic').members = [t \in Topic |-> Members(project', t)]
    BY DEF Shown
  <2>2. \A t \in Topic : topic'[t].registered_students
                            = Registry!Cardinality(Shown(project', topic').members[t])
    BY <1>1, <2>1, SameSize
  <2> QED
    BY <1>4, <2>2 DEF Registry!RegistryNext
<1>5. ASSUME NEW r \in Request, Arrive(r)
      PROVE  RegistryInv' /\ UNCHANGED <<project, topic>>
  BY <1>0, <1>5, RegistryArrive, RowsCommittedOnly
<1>6. ASSUME NEW r \in Request, Proceed(r), ~Commit(r)
      PROVE  RegistryInv' /\ UNCHANGED <<project, topic>>
  <2>1. UNCHANGED <<project, topic>>
    BY <1>6, RowsCommittedOnly
  <2>2. CASE RegisterCheck(r)
    BY <1>0, <2>1, <2>2, RegistryRegisterCheck
  <2>3. CASE ApproveCheck(r) \/ LeaderCheck(r)
    BY <1>0, <2>1, <2>3, RegistryOtherChecks
  <2>4. CASE ~RegisterCheck(r) /\ ~ApproveCheck(r) /\ ~LeaderCheck(r)
    <3>1. Lawful(dirtyRow'[r], dirtyTopic'[r])
      BY <1>0, <1>6, <2>4, RegistryWrite
    <3>2. \E rows, topics : Write(r, rows, topics)
      BY <1>6, <2>4 DEF Proceed, RegisterWrite, AssignWrite, Place, CancelWrite, ApproveWrite,
                        RejectWrite, EditWrite, BulkWrite, LockWrite, LeaderWrite
    <3>3. pc'[r] = "commit"
      BY <1>1, <3>2, Written
    <3> QED
      BY <1>0, <2>1, <3>1, <3>3, RegistryWritten
  <2> QED
    BY <2>2, <2>3, <2>4
<1>7. ASSUME NEW r \in Request, Commit(r)
      PROVE  /\ RegistryInv'
             /\ \/ Registry!RegistryNext
                \/ UNCHANGED <<Shown(project, topic), Counters>>
  BY <1>0, <1>3, <1>4, <1>7, RegistryCommit
<1>8. ASSUME NEW r \in Request, Rollback(r)
      PROVE  RegistryInv' /\ UNCHANGED <<project, topic>>
  <2>1. pc'[r] = "idle" /\ UNCHANGED <<topic, project>>
    BY <1>1, <1>8 DEF Rollback, Finish, TypeOK
  <2> QED
    BY <1>0, <2>1 DEF RegistryInv, Serial
<1>9. CASE Expire \/ Extend \/ UNCHANGED vars
  <2>1. UNCHANGED <<topic, project, pc, arg, dirtyRow, dirtyTopic>>
    BY <1>9, DeadlineSteps DEF vars
  <2>2. RegistryInv'
    BY <1>0, <2>1 DEF RegistryInv, KnowsMove, MemberCount, Lawful, Overlaid, Offered
  <2> QED
    BY <1>2, <2>1, <2>2
<1>10. CASE Escalate
  BY <1>0, <1>3, <1>10, RegistryEscalate
<1> QED
  BY <1>2, <1>5, <1>6, <1>7, <1>8, <1>9, <1>10 DEF Next, Environment

LEMMA RegistryStart == Init => RegistryInv /\ Registry!RegistryInit
<1> SUFFICES ASSUME Init PROVE RegistryInv /\ Registry!RegistryInit
  OBVIOUS
<1>1. SerialInv /\ TypeOK
  BY SerialInit DEF SerialInv
<1>2. OwnerInv /\ ApprovalInv
  BY <1>1 DEF Init, OwnerInv, ApprovalInv, RequestHasItsTeacher
<1>3. RegistryInv
  BY <1>1, <1>2 DEF Init, RegistryInv
<1>4. /\ [t \in Topic |-> Asking(project, t)] = [t \in Topic |-> {}]
      /\ [t \in Topic |-> Members(project, t)] = [t \in Topic |-> {}]
  BY DEF Init, Asking, Members, WithStatus
<1>5. /\ Offered(topic) = Topic
      /\ [t \in Topic |-> topic[t].max_students] \in [Topic -> 1 .. MaxTopicLimit]
      /\ [t \in Topic |-> topic[t].registered_students] = [t \in Topic |-> 0]
  BY DEF Init, Offered
<1>6. Registry!RegistryInit
  BY <1>4, <1>5 DEF Shown, Registry!RegistryInit, Registry!NobodyOn
<1> QED
  BY <1>3, <1>6

\* With one request in flight at a time the tables implement the registry: a student
\* comes to a topic, or a request ends, by one of its six moves only, each commit is one
\* move, and the counter follows it, however a handler's reads, checks and writes
\* interleave with the hourly job and the deadlines (all handlers of TopicService).
THEOREM SerialImplementsRegistry ==
    ASSUME Serial
    PROVE  Spec => KeepsRegistry
<1>1. Init => RegistryInv /\ Registry!RegistryInit
  BY RegistryStart
<1>2. RegistryInv /\ [Next]_vars
         => RegistryInv' /\ [Registry!RegistryNext]_<<Shown(project, topic), Counters>>
  BY RegistryNext
<1> QED
  BY <1>1, <1>2, PTL DEF Spec, KeepsRegistry, Registry!RegistrySpec, Counters

-----------------------------------------------------------------------------
(* Overlapping handlers: by how much a topic can be overbooked *)

\* Sets of at most m elements, one for each of finitely many owners, have together
\* at most m elements per owner: pair each element with an owner and with its
\* number among what that owner has.
LEMMA UnionBound ==
    ASSUME NEW owners, IsFiniteSet(owners), NEW m \in Nat, NEW has,
           \A q \in owners : IsFiniteSet(has[q]) /\ Cardinality(has[q]) <= m
    PROVE  LET all == UNION {has[q] : q \in owners}
           IN  IsFiniteSet(all) /\ Cardinality(all) <= Cardinality(owners) * m
<1> DEFINE all == UNION {has[q] : q \in owners}
           slots == owners \X (1 .. m)
           number == [q \in owners |->
                        CHOOSE f \in [has[q] -> 1 .. m] : \A x, y \in has[q] : f[x] = f[y] => x = y]
           owner == [x \in all |-> CHOOSE q \in owners : x \in has[q]]
           slot == [x \in all |-> <<owner[x], number[owner[x]][x]>>]
<1>1. ASSUME NEW q \in owners
      PROVE  \E f \in [has[q] -> 1 .. m] : \A x, y \in has[q] : f[x] = f[y] => x = y
  <2>1. /\ Cardinality(has[q]) \in Nat /\ Cardinality(has[q]) <= m
        /\ ExistsBijection(1 .. Cardinality(has[q]), has[q])
    BY FS_CardinalityType
  <2> DEFINE n == Cardinality(has[q])
  <2>2. PICK g \in [1 .. n -> has[q]] : \A x \in has[q] : \E i \in 1 .. n : g[i] = x
    BY <2>1 DEF ExistsBijection, Bijection, Surjection
  <2> DEFINE f == [x \in has[q] |-> CHOOSE i \in 1 .. n : g[i] = x]
  <2>3. \A x \in has[q] : f[x] \in 1 .. n /\ g[f[x]] = x
    BY <2>2
  <2>4. 1 .. n \subseteq 1 .. m
    BY <2>1
  <2>5. f \in [has[q] -> 1 .. m]
    BY <2>3, <2>4
  <2>6. \A x, y \in has[q] : f[x] = f[y] => x = y
    BY <2>3
  <2> HIDE DEF f
  <2> QED
    BY <2>5, <2>6
<1>2. \A q \in owners : /\ number[q] \in [has[q] -> 1 .. m]
                        /\ \A x, y \in has[q] : number[q][x] = number[q][y] => x = y
  BY <1>1
<1>3. \A x \in all : owner[x] \in owners /\ x \in has[owner[x]]
  OBVIOUS
<1> HIDE DEF number, owner
<1>4. slot \in [all -> slots]
  BY <1>2, <1>3
<1>5. ASSUME NEW x \in all, NEW y \in all, slot[x] = slot[y]
      PROVE  x = y
  <2>1. owner[x] = owner[y] /\ number[owner[x]][x] = number[owner[y]][y]
    BY <1>5
  <2> QED
    BY <2>1, <1>2, <1>3
<1>6. slot \in Injection(all, slots)
  BY <1>4, <1>5 DEF Injection, IsInjective
<1>7. /\ IsFiniteSet(1 .. m) /\ Cardinality(1 .. m) = m
  BY FS_Interval
<1>8. IsFiniteSet(slots) /\ Cardinality(slots) = Cardinality(owners) * m
  BY <1>7, FS_Product
<1> HIDE DEF all, slots, slot
<1> QED
  BY <1>6, <1>8, FS_Injection DEF all

\* Whoever is within the limit, and what the requests other than r claim.
LEMMA OthersBound ==
    ASSUME IsFiniteSet(Request), NEW r \in Request, NEW has,
           NEW within, IsFiniteSet(within), NEW max \in Nat, Cardinality(within) <= max,
           \A q \in Request : IsFiniteSet(has[q]) /\ Cardinality(has[q]) <= MaxBatch
    PROVE  LET all == within \cup UNION {has[q] : q \in Request \ {r}}
           IN  /\ IsFiniteSet(all)
               /\ Cardinality(all) <= max + (Cardinality(Request) - 1) * MaxBatch
<1> DEFINE others == UNION {has[q] : q \in Request \ {r}}
           n == Cardinality(Request) - 1
<1>1. /\ IsFiniteSet(Request \ {r}) /\ Cardinality(Request \ {r}) = n
      /\ Cardinality(Request \ {r}) \in Nat
  BY FS_RemoveElement, FS_CardinalityType
<1>2. IsFiniteSet(others) /\ Cardinality(others) <= n * MaxBatch
  BY <1>1, UnionBound, TopicRegistrationAssumption
<1>3. /\ IsFiniteSet(within \cup others)
      /\ Cardinality(within \cup others)
            = Cardinality(within) + Cardinality(others) - Cardinality(within \cap others)
  BY <1>2, FS_Union
<1>4. /\ Cardinality(within) \in Nat /\ Cardinality(others) \in Nat
      /\ Cardinality(within \cap others) \in Nat /\ Cardinality(within \cup others) \in Nat
  BY <1>2, <1>3, FS_CardinalityType, FS_Intersection
<1>5. n * MaxBatch \in Int
  BY <1>1, TopicRegistrationAssumption
<1> DEFINE k == n * MaxBatch
<1> HIDE DEF others, k
<1>6. Cardinality(within \cup others) <= max + k
  <2>1. k \in Int /\ Cardinality(others) <= k
    BY <1>2, <1>5 DEF k
  <2> QED
    BY <2>1, <1>3, <1>4
<1> QED
  BY <1>3, <1>6 DEF others, k

\* Request r can still make student s a member of topic t without looking at the
\* limit of t again: a registration or an assignment that has passed assertCapacity
\* for t, or an approval, which follows the row to whatever topic it is on by then.
Claims(r, s, t) ==
    /\ pc[r] # "idle" /\ s \in arg[r].who
    /\ \/ arg[r].op \in {"register", "assign"} /\ pc[r] # "check" /\ t = arg[r].topic
       \/ /\ arg[r].op = "approve" /\ Holds(r, s) /\ project[s].topic = t
          /\ pc[r] = "check" => t # arg[r].topic

Claimed(r, t) == {s \in Student : Claims(r, s, t)}

Engaged(t) == Members(project, t) \cup UNION {Claimed(r, t) : r \in Request}

\* A written row deletes the row, is on the topic of a registration or an
\* assignment, or stays where it was and counts only if it did or is approved.
Fits(r, s, row) ==
    \/ row = NoRow
    \/ arg[r].op \in {"register", "assign"} /\ s \in arg[r].who /\ row.topic = arg[r].topic
    \/ /\ project[s] # NoRow /\ row.id = project[s].id /\ row.topic = project[s].topic
       /\ row.status \in Counted => \/ project[s].status \in Counted
                                    \/ arg[r].op = "approve" /\ s \in arg[r].who /\ Holds(r, s)

\* A request speaks for one student, an assignment for a batch of them; the limit
\* that a registration has read is not above the topic's.
Input(r) ==
    pc[r] # "idle" =>
        /\ arg[r].op \in {"register", "approve"} => Cardinality(arg[r].who) = 1
        /\ arg[r].op = "assign" => pc[r] # "check" /\ Cardinality(arg[r].who) <= MaxBatch
        /\ arg[r].op = "register" => arg[r].seen.max_students <= topic[arg[r].topic].max_students

\* Nobody else writes what r has written, and it fits.
WrittenFits(r, s) ==
    dirtyRow[r][s] # Clean => RowFree(r, s) /\ Fits(r, s, dirtyRow[r][s])

Room(t) ==
    Cardinality(Engaged(t)) <= topic[t].max_students + (Cardinality(Request) - 1) * MaxBatch

\* The inductive invariant behind OverbookingBounded.
OverlapInv ==
    /\ TypeOK
    /\ \A r \in Request : Input(r)
    /\ \A r \in Request, s \in Student : WrittenFits(r, s)
    /\ \A t \in Topic : Room(t)

\* No topic's limit is lowered in this step.
LimitKept == \A t \in Topic : topic'[t].max_students >= topic[t].max_students

\* There are requests, finitely many in flight, and an assignment names a student.
SomeRequests == IsFiniteSet(Request) /\ Request # {} /\ MaxBatch # 0

LEMMA EngagedFinite ==
    ASSUME NEW t
    PROVE  /\ Engaged(t) \in SUBSET Student /\ IsFiniteSet(Engaged(t))
           /\ Cardinality(Engaged(t)) \in Nat
<1>1. Engaged(t) \in SUBSET Student
  BY WithStatusFinite DEF Engaged, Members, Claimed
<1> QED
  BY <1>1, TopicRegistrationAssumption, FS_Subset, FS_CardinalityType

\* What a request claims is at most a batch.
LEMMA ClaimedBound ==
    ASSUME TypeOK, SomeRequests, NEW r \in Request, Input(r), NEW t
    PROVE  IsFiniteSet(Claimed(r, t)) /\ Cardinality(Claimed(r, t)) <= MaxBatch
<1>1. CASE pc[r] = "idle" \/ arg[r].op \notin {"register", "approve", "assign"}
  <2>1. Claimed(r, t) = {}
    BY <1>1 DEF Claimed, Claims
  <2> QED
    BY <2>1, FS_EmptySet, TopicRegistrationAssumption
<1>2. CASE pc[r] # "idle" /\ arg[r].op \in {"register", "approve", "assign"}
  <2>1. arg[r].who \subseteq Student /\ IsFiniteSet(arg[r].who)
    BY <1>2, InFlight, TopicRegistrationAssumption, FS_Subset
  <2>2. Cardinality(arg[r].who) <= MaxBatch
    BY <1>2, TopicRegistrationAssumption DEF Input, SomeRequests
  <2>3. Claimed(r, t) \subseteq arg[r].who
    BY DEF Claimed, Claims
  <2>4. /\ IsFiniteSet(Claimed(r, t)) /\ Cardinality(Claimed(r, t)) <= Cardinality(arg[r].who)
        /\ Cardinality(Claimed(r, t)) \in Nat /\ Cardinality(arg[r].who) \in Nat
    BY <2>1, <2>3, FS_Subset, FS_CardinalityType
  <2> QED
    BY <2>2, <2>4, TopicRegistrationAssumption
<1> QED
  BY <1>1, <1>2

\* Nobody new is engaged and no limit is lowered: there is room as before.
LEMMA RoomKept ==
    ASSUME TypeOK, TypeOK', LimitKept, SomeRequests, NEW t \in Topic, Room(t),
           Engaged(t)' \subseteq Engaged(t)
    PROVE  Room(t)'
<1>1. /\ Cardinality(Engaged(t)') <= Cardinality(Engaged(t))
      /\ Cardinality(Engaged(t)') \in Nat /\ Cardinality(Engaged(t)) \in Nat
  BY EngagedFinite, FS_Subset, FS_CardinalityType
<1>2. topic[t].max_students \in Nat /\ topic'[t].max_students \in Nat
  BY DEF TypeOK, TopicRow
<1>3. Cardinality(Request) \in Nat /\ MaxBatch \in Nat
  BY TopicRegistrationAssumption, FS_CardinalityType DEF SomeRequests
<1> DEFINE k == (Cardinality(Request) - 1) * MaxBatch
<1>4. k \in Int
  BY <1>3
<1> HIDE DEF k
<1>5. Cardinality(Engaged(t)) <= topic[t].max_students + k
  BY DEF Room, k
<1>6. Cardinality(Engaged(t)') <= topic'[t].max_students + k
  BY <1>1, <1>2, <1>4, <1>5 DEF LimitKept
<1> QED
  BY <1>6 DEF Room, k

\* A request that has seen room for the students it claims leaves room: with them
\* the members are within the limit, and the others claim a batch each.
LEMMA RoomChecked ==
    ASSUME TypeOK, SomeRequests, \A q \in Request : Input(q), LimitKept, TypeOK',
           NEW r \in Request, NEW t \in Topic, NEW own \in SUBSET Student,
           Cardinality(Members(project, t) \cup own) <= topic[t].max_students,
           Engaged(t)' \subseteq Members(project, t) \cup own
                                    \cup UNION {Claimed(q, t) : q \in Request \ {r}}
    PROVE  Room(t)'
<1> DEFINE has == [q \in Request |-> Claimed(q, t)]
           within == Members(project, t) \cup own
           all == within \cup UNION {has[q] : q \in Request \ {r}}
           k == (Cardinality(Request) - 1) * MaxBatch
<1>1. \A q \in Request : IsFiniteSet(has[q]) /\ Cardinality(has[q]) <= MaxBatch
  BY ClaimedBound
<1>2. within \in SUBSET Student /\ IsFiniteSet(within)
  BY WithStatusFinite, TopicRegistrationAssumption, FS_Subset DEF Members
<1>3. topic[t].max_students \in Nat /\ topic'[t].max_students \in Nat
  BY DEF TypeOK, TopicRow
<1>4. Engaged(t)' \subseteq all
  OBVIOUS
<1> HIDE DEF has, within
<1>5. IsFiniteSet(Request) /\ Cardinality(within) <= topic[t].max_students
  BY DEF SomeRequests, within
<1>6. IsFiniteSet(all) /\ Cardinality(all) <= topic[t].max_students + k
  BY <1>1, <1>2, <1>3, <1>5, OthersBound
<1>7. k \in Int
  BY <1>5, TopicRegistrationAssumption, FS_CardinalityType
<1> HIDE DEF all, k
<1>8. /\ Cardinality(Engaged(t)') <= Cardinality(all)
      /\ Cardinality(Engaged(t)') \in Nat /\ Cardinality(all) \in Nat
  BY <1>4, <1>6, FS_Subset, FS_CardinalityType
<1>9. Cardinality(Engaged(t)') <= topic'[t].max_students + k
  BY <1>3, <1>6, <1>7, <1>8 DEF LimitKept
<1> QED
  BY <1>9 DEF Room, k

\* Another request's claims stay when its own state and the rows do.
LEMMA SameClaims ==
    ASSUME NEW q \in Request, NEW t, pc'[q] = pc[q], arg'[q] = arg[q], project' = project
    PROVE  Claimed(q, t)' = Claimed(q, t)
BY DEF Claimed, Claims, Holds

\* A step of r that writes no row: its own input must stay sound and its claims
\* must be old ones or be room that it has just checked.
LEMMA OverlapQuiet ==
    ASSUME OverlapInv, TypeOK', LimitKept, SomeRequests, NEW r \in Request,
           \A q \in Request \ {r} : pc'[q] = pc[q] /\ arg'[q] = arg[q],
           UNCHANGED <<project, topic, dirtyRow>>, pc[r] # "commit", pc'[r] # "commit",
           Input(r)',
           \A t \in Topic :
              \/ Claimed(r, t)' \subseteq Claimed(r, t)
              \/ Cardinality(Members(project, t) \cup Claimed(r, t)') <= topic[t].max_students
    PROVE  OverlapInv'
<1>1. \A q \in Request : Input(q)'
  <2>1. ASSUME NEW q \in Request \ {r}
        PROVE  Input(q)'
    BY DEF Input, OverlapInv
  <2> QED
    BY <2>1
<1>2. ASSUME NEW q \in Request, NEW s \in Student
      PROVE  WrittenFits(q, s)'
  <2>1. CASE q = r
    BY <2>1 DEF WrittenFits, OverlapInv, TypeOK, NoWrites
  <2>2. CASE q # r
    BY <2>2 DEF WrittenFits, RowFree, Fits, Holds, OverlapInv
  <2> QED
    BY <2>1, <2>2
<1>3. ASSUME NEW t \in Topic
      PROVE  Room(t)'
  <2>1. \A q \in Request \ {r} : Claimed(q, t)' = Claimed(q, t)
    BY SameClaims
  <2>2. Members(project, t)' = Members(project, t)
    BY DEF Members, WithStatus
  <2>3. CASE Claimed(r, t)' \subseteq Claimed(r, t)
    <3>1. Engaged(t)' \subseteq Engaged(t)
      BY <2>1, <2>2, <2>3 DEF Engaged
    <3> QED
      BY <3>1, RoomKept DEF OverlapInv
  <2>4. CASE Cardinality(Members(project, t) \cup Claimed(r, t)') <= topic[t].max_students
    <3>1. Claimed(r, t)' \in SUBSET Student
      BY DEF Claimed
    <3>2. Engaged(t)' \subseteq Members(project, t) \cup Claimed(r, t)'
                                  \cup UNION {Claimed(q, t) : q \in Request \ {r}}
      BY <2>1, <2>2 DEF Engaged
    <3> QED
      BY <2>4, <3>1, <3>2, RoomChecked DEF OverlapInv
  <2> QED
    BY <2>3, <2>4
<1> QED
  BY <1>1, <1>2, <1>3 DEF OverlapInv

\* What a request that arrives leaves behind.
LEMMA BeginEffect ==
    ASSUME TypeOK, NEW r \in Request, NEW op, NEW step \in {"check", "write"},
           NEW t \in Topic, NEW who \in SUBSET Student,
           NEW ids, NEW e, NEW lead, NEW batch,
           Begin(r, op, step, t, who, ids, e, lead, batch)
    PROVE  /\ pc[r] = "idle" /\ pc'[r] = step
           /\ arg'[r].op = op /\ arg'[r].topic = t /\ arg'[r].who = who
           /\ arg'[r].seen.max_students = topic[t].max_students
           /\ \A q \in Request \ {r} : pc'[q] = pc[q] /\ arg'[q] = arg[q]
           /\ UNCHANGED <<topic, project, dirtyRow, dirtyTopic>>
           /\ topic[t].max_students <= topic[t].max_students
<1>1. arg'[r] = [op |-> op, topic |-> t, who |-> who, ids |-> ids, seen |-> Seen(t),
                 edit |-> e, lead |-> lead, batch |-> batch, count |-> 0]
  BY DEF Begin, TypeOK
<1>2. /\ arg'[r].op = op /\ arg'[r].topic = t /\ arg'[r].who = who
      /\ arg'[r].seen.max_students = topic[t].max_students
  BY <1>1 DEF Seen
<1>3. topic[t].max_students \in Nat
  BY DEF TypeOK, TopicRow
<1> QED
  BY <1>2, <1>3 DEF Begin, TypeOK

\* A request that admits nobody arrives.
LEMMA OverlapBegin ==
    ASSUME OverlapInv, TypeOK', LimitKept, SomeRequests, NEW r \in Request,
           NEW op, NEW step \in {"check", "write"}, NEW t \in Topic, NEW who \in SUBSET Student,
           NEW ids, NEW e, NEW lead, NEW batch,
           Begin(r, op, step, t, who, ids, e, lead, batch),
           op # "register", op # "approve", op # "assign"
    PROVE  OverlapInv'
<1>1. TypeOK
  BY DEF OverlapInv
<1> DEFINE a == [op |-> op, topic |-> t, who |-> who, ids |-> ids, seen |-> Seen(t),
                 edit |-> e, lead |-> lead, batch |-> batch, count |-> 0]
<1>2. /\ pc[r] = "idle" /\ pc'[r] = step /\ arg'[r].op = op
      /\ \A q \in Request \ {r} : pc'[q] = pc[q] /\ arg'[q] = arg[q]
      /\ UNCHANGED <<topic, project, dirtyRow, dirtyTopic>>
  <2>1. arg'[r] = a
    BY <1>1 DEF Begin, TypeOK
  <2>2. arg'[r].op = op
    BY <2>1
  <2> QED
    BY <1>1, <2>2 DEF Begin, TypeOK
<1>3. Input(r)'
  BY <1>2 DEF Input
<1>4. \A u \in Topic : Claimed(r, u)' = {}
  BY <1>2 DEF Claimed, Claims
<1> QED
  BY <1>2, <1>3, <1>4, OverlapQuiet

\* A registration or an approval arrives: it has not looked at the limit yet.
LEMMA OverlapBeginOne ==
    ASSUME OverlapInv, TypeOK', LimitKept, SomeRequests, NEW r \in Request,
           NEW op \in {"register", "approve"}, NEW t \in Topic, NEW s \in Student, NEW ids,
           Begin(r, op, "check", t, {s}, ids, NoEdit, {}, {}),
           op = "approve" => project[s].topic = t
    PROVE  OverlapInv'
<1>1. TypeOK /\ {s} \in SUBSET Student /\ Cardinality({s}) = 1
  BY FS_Singleton DEF OverlapInv
<1>2. /\ pc[r] = "idle" /\ pc'[r] = "check"
      /\ arg'[r].op = op /\ arg'[r].topic = t /\ arg'[r].who = {s}
      /\ arg'[r].seen.max_students = topic[t].max_students
      /\ \A q \in Request \ {r} : pc'[q] = pc[q] /\ arg'[q] = arg[q]
      /\ UNCHANGED <<topic, project, dirtyRow, dirtyTopic>>
      /\ topic[t].max_students <= topic[t].max_students
  BY <1>1, BeginEffect
<1>3. Input(r)'
  BY <1>1, <1>2 DEF Input
<1>4. \A u \in Topic : Claimed(r, u)' = {}
  BY <1>2 DEF Claimed, Claims
<1> QED
  BY <1>2, <1>3, <1>4, OverlapQuiet

\* An assignment arrives and checks the capacity at once.
LEMMA OverlapAssign ==
    ASSUME OverlapInv, TypeOK', LimitKept, SomeRequests, NEW r \in Request,
           NEW t \in Topic, NEW who \in SUBSET Student,
           NEW ids, NEW e, NEW lead, NEW batch,
           Begin(r, "assign", "write", t, who, ids, e, lead, batch),
           Cardinality(who) <= MaxBatch,
           Cardinality(Members(project, t) \cup who) <= topic[t].max_students
    PROVE  OverlapInv'
<1>1. TypeOK
  BY DEF OverlapInv
<1>2. /\ pc[r] = "idle" /\ pc'[r] = "write"
      /\ arg'[r].op = "assign" /\ arg'[r].topic = t /\ arg'[r].who = who
      /\ \A q \in Request \ {r} : pc'[q] = pc[q] /\ arg'[q] = arg[q]
      /\ UNCHANGED <<topic, project, dirtyRow, dirtyTopic>>
  BY <1>1, BeginEffect
<1>3. Input(r)'
  BY <1>2 DEF Input
<1>4. \A u \in Topic : u # t => Claimed(r, u)' = {}
  BY <1>2 DEF Claimed, Claims
<1>5. Claimed(r, t)' = who
  BY <1>2 DEF Claimed, Claims
<1> QED
  BY <1>2, <1>3, <1>4, <1>5, OverlapQuiet

\* The occupied slots, without rows that are left out, and the students to admit
\* bound the members and those students together.
LEMMA CapacityBounds ==
    ASSUME NEW rows, NEW t, NEW max \in Nat, NEW n \in Nat, NEW own \in SUBSET Student,
           NEW exclude, NEW new \in SUBSET Student, exclude \subseteq new, own \subseteq new,
           Cardinality(new) <= n, HasCapacity(rows, t, max, n, exclude)
    PROVE  Cardinality(Members(rows, t) \cup own) <= max
<1> DEFINE left == Occupied(rows, t) \ exclude
<1>1. Members(rows, t) \subseteq Occupied(rows, t)
  BY Statuses DEF Members, Occupied, WithStatus
<1>2. left \in SUBSET Student /\ new \in SUBSET Student
  BY WithStatusFinite DEF Occupied
<1>3. IsFiniteSet(left) /\ IsFiniteSet(new)
  BY <1>2, TopicRegistrationAssumption, FS_Subset
<1>4. Members(rows, t) \cup own \in SUBSET (left \cup new)
  BY <1>1
<1>5. Cardinality(left) + n <= max
  BY DEF HasCapacity
<1>6. Cardinality(new) <= n
  OBVIOUS
<1> HIDE DEF left
<1>7. /\ IsFiniteSet(left \cup new)
      /\ Cardinality(left \cup new) = Cardinality(left) + Cardinality(new) - Cardinality(left \cap new)
  BY <1>3, FS_Union
<1>8. /\ Cardinality(left) \in Nat /\ Cardinality(new) \in Nat /\ Cardinality(left \cap new) \in Nat
  BY <1>3, FS_CardinalityType, FS_Intersection
<1>9. /\ Cardinality(Members(rows, t) \cup own) <= Cardinality(left \cup new)
      /\ Cardinality(Members(rows, t) \cup own) \in Nat
  BY <1>4, <1>7, FS_Subset, FS_CardinalityType
<1> QED
  BY <1>5, <1>6, <1>7, <1>8, <1>9

LEMMA OverlapArrive ==
    ASSUME OverlapInv, TypeOK', LimitKept, SomeRequests, NEW r \in Request, Arrive(r)
    PROVE  OverlapInv'
<1>1. ASSUME NEW s \in Student, NEW t \in Topic, RegisterRead(r, s, t)
      PROVE  OverlapInv'
  <2>1. Begin(r, "register", "check", t, {s}, NoIds, NoEdit, {}, {})
    BY <1>1 DEF RegisterRead
  <2> QED
    BY <2>1, OverlapBeginOne
<1>2. ASSUME NEW s \in Student, NEW t \in Topic, CancelRead(r, s, t)
      PROVE  OverlapInv'
  BY <1>2, OverlapBegin DEF CancelRead
<1>3. ASSUME NEW s \in Student, NEW t \in Topic, ApproveRead(r, s, t)
      PROVE  OverlapInv'
  <2>1. Begin(r, "approve", "check", t, {s}, Ids({s}), NoEdit, {}, {}) /\ project[s].topic = t
    BY <1>3 DEF ApproveRead, DecideRead
  <2> QED
    BY <2>1, OverlapBeginOne
<1>4. ASSUME NEW s \in Student, NEW t \in Topic, RejectRead(r, s, t)
      PROVE  OverlapInv'
  BY <1>4, OverlapBegin DEF RejectRead, DecideRead
<1>5. ASSUME NEW s \in Student, NEW t \in Topic, LeaderRead(r, s, t)
      PROVE  OverlapInv'
  BY <1>5, OverlapBegin DEF LeaderRead
<1>6. ASSUME NEW who \in SUBSET Student, NEW t \in Topic, AssignCheck(r, who, t)
      PROVE  OverlapInv'
  <2> DEFINE none == {}
             max == topic[t].max_students
  <2>1. /\ Cardinality(who) <= MaxBatch /\ Cardinality(who) \in Nat
        /\ max \in Nat
        /\ HasCapacity(project, t, max, Cardinality(who), none)
    BY <1>6, TopicRegistrationAssumption, FS_Subset, FS_CardinalityType
       DEF AssignCheck, OverlapInv, TypeOK, TopicRow
  <2>2. none \subseteq who /\ who \subseteq who /\ Cardinality(who) <= Cardinality(who)
    BY <2>1
  <2> HIDE DEF none, max
  <2>3. Cardinality(Members(project, t) \cup who) <= max
    BY <2>1, <2>2, CapacityBounds
  <2> QED
    BY <1>6, <2>1, <2>3, OverlapAssign DEF AssignCheck, max
<1>7. ASSUME NEW t \in Topic, NEW e \in Edit, UpdateRead(r, t, e) \/ ForceCheck(r, t, e)
      PROVE  OverlapInv'
  BY <1>7, OverlapBegin DEF UpdateRead, ForceCheck
<1>8. ASSUME NEW batch \in SUBSET Topic, NEW t \in Topic, NEW verdict \in {"APPROVED", "REJECTED"},
             BulkCheck(r, batch, t, verdict)
      PROVE  OverlapInv'
  BY <1>8, OverlapBegin DEF BulkCheck
<1>9. ASSUME NEW t \in Topic, NEW who \in SUBSET {s \in Student : project[s] # NoRow},
             NEW lead \in SUBSET who, LockRead(r, t, who, lead)
      PROVE  OverlapInv'
  <2>1. who \in SUBSET Student
    OBVIOUS
  <2> QED
    BY <1>9, <2>1, OverlapBegin DEF LockRead
<1> QED
  BY <1>1, <1>2, <1>3, <1>4, <1>5, <1>6, <1>7, <1>8, <1>9 DEF Arrive

\* A registration passes assertCapacity: it claims the place that it has seen.
LEMMA OverlapRegisterCheck ==
    ASSUME OverlapInv, TypeOK', LimitKept, SomeRequests, NEW r \in Request, RegisterCheck(r)
    PROVE  OverlapInv'
<1> DEFINE a == arg[r]
           who == arg[r].who
           max == arg[r].seen.max_students
           one == 1
<1>1. /\ TypeOK /\ pc[r] = "check" /\ a.op = "register" /\ pc'[r] = "write"
      /\ \A q \in Request \ {r} : pc'[q] = pc[q] /\ arg'[q] = arg[q]
      /\ UNCHANGED <<project, topic, dirtyRow>>
  BY DEF RegisterCheck, OverlapInv, TypeOK
<1>2. a \in Arg /\ who \in SUBSET Student
  BY <1>1, InFlight
<1>3. arg'[r] = [a EXCEPT !.ids = Ids(who)]
  BY <1>1 DEF RegisterCheck, TypeOK
<1>4. /\ arg'[r].op = "register" /\ arg'[r].topic = a.topic /\ arg'[r].who = who
      /\ arg'[r].seen = a.seen
  BY <1>1, <1>2, <1>3 DEF Arg
<1>5. /\ Cardinality(who) = one /\ max <= topic[a.topic].max_students
      /\ a.topic \in Topic /\ max \in Nat /\ topic[a.topic].max_students \in Nat
  <2>1. Input(r)
    BY DEF OverlapInv
  <2>2. Cardinality(who) = one /\ max <= topic[a.topic].max_students
    BY <1>1, <2>1 DEF Input
  <2>3. a.topic \in Topic /\ max \in Nat
    BY <1>2 DEF Arg
  <2>4. topic[a.topic].max_students \in Nat
    BY <1>1, <2>3 DEF TypeOK, TopicRow
  <2> QED
    BY <2>2, <2>3, <2>4
<1>6. HasCapacity(project, a.topic, max, one, who) /\ one \in Nat
  BY DEF RegisterCheck
<1>7. who \subseteq who /\ Cardinality(who) <= one
  BY <1>5
<1>8. Input(r)'
  BY <1>1, <1>4, <1>5 DEF Input
<1>9. \A u \in Topic : u # a.topic => Claimed(r, u)' = {}
  BY <1>1, <1>4 DEF Claimed, Claims
<1>10. \A u \in Topic : u = a.topic => Claimed(r, u)' = who
  BY <1>1, <1>2, <1>4 DEF Claimed, Claims
<1> HIDE DEF who, max, one
<1>11. Cardinality(Members(project, a.topic) \cup who) <= max
  BY <1>2, <1>5, <1>6, <1>7, CapacityBounds
<1>12. Cardinality(Members(project, a.topic) \cup who) \in Nat
  <2>1. Members(project, a.topic) \cup who \in SUBSET Student
    BY <1>2, WithStatusFinite DEF Members
  <2> QED
    BY <2>1, TopicRegistrationAssumption, FS_Subset, FS_CardinalityType
<1>13. Cardinality(Members(project, a.topic) \cup who) <= topic[a.topic].max_students
  BY <1>5, <1>11, <1>12
<1> HIDE DEF a
<1>14. pc[r] # "commit" /\ pc'[r] # "commit"
  BY <1>1
<1>15. ASSUME NEW u \in Topic
       PROVE  \/ Claimed(r, u)' \subseteq Claimed(r, u)
              \/ Cardinality(Members(project, u) \cup Claimed(r, u)') <= topic[u].max_students
  <2>1. CASE u = a.topic
    BY <2>1, <1>10, <1>13
  <2>2. CASE u # a.topic
    <3>1. Claimed(r, u)' = {}
      BY <2>2, <1>9
    <3> QED
      BY <3>1
  <2> QED
    BY <2>1, <2>2
<1> QED
  BY <1>1, <1>8, <1>14, <1>15, OverlapQuiet

\* An approval passes assertCapacity for the topic that it read.
LEMMA OverlapApproveCheck ==
    ASSUME OverlapInv, TypeOK', LimitKept, SomeRequests, NEW r \in Request, ApproveCheck(r)
    PROVE  OverlapInv'
<1> DEFINE a == arg[r]
           who == arg[r].who
           held == {s \in who : Holds(r, s)}
           one == 1
<1>1. /\ TypeOK /\ pc[r] = "check" /\ a.op = "approve" /\ pc'[r] = "write"
      /\ \A q \in Request \ {r} : pc'[q] = pc[q] /\ arg'[q] = arg[q]
      /\ UNCHANGED <<project, topic, dirtyRow>>
  BY DEF ApproveCheck, OverlapInv, TypeOK
<1>2. a \in Arg /\ who \in SUBSET Student
  BY <1>1, InFlight
<1> PICK t \in Topic : t = arg[r].topic
  BY <1>2 DEF Arg
<1> DEFINE max == topic[t].max_students
           own == Claimed(r, t)'
<1>3. arg'[r] = [a EXCEPT !.seen = Seen(t)]
  BY <1>1 DEF ApproveCheck, TypeOK
<1>4. /\ arg'[r].op = "approve" /\ arg'[r].topic = t /\ arg'[r].who = who
      /\ arg'[r].ids = a.ids
  BY <1>1, <1>2, <1>3 DEF Arg
<1>5. Input(r) /\ Cardinality(who) = one /\ max \in Nat
  <2>1. Input(r)
    BY DEF OverlapInv
  <2>2. Cardinality(who) = one
    BY <1>1, <2>1 DEF Input
  <2> QED
    BY <1>1, <2>1, <2>2 DEF TypeOK, TopicRow
<1>6. HasCapacity(project, t, max, one, held) /\ one \in Nat
  BY DEF ApproveCheck
<1>7. held \subseteq who /\ Cardinality(who) <= one
  BY <1>5
<1>8. Input(r)'
  BY <1>1, <1>4, <1>5 DEF Input
<1>9. \A s \in Student : Holds(r, s)' <=> Holds(r, s)
  BY <1>1, <1>4 DEF Holds
<1>10. \A u \in Topic : u # t => Claimed(r, u)' \subseteq Claimed(r, u)
  BY <1>1, <1>4, <1>9 DEF Claimed, Claims
<1>11. own \subseteq who /\ own \in SUBSET Student
  BY <1>4 DEF Claimed, Claims
<1> HIDE DEF who, max, one, held, own
<1>12. Cardinality(Members(project, t) \cup own) <= max
  BY <1>2, <1>5, <1>6, <1>7, <1>11, CapacityBounds
<1> HIDE DEF a
<1>13. pc[r] # "commit" /\ pc'[r] # "commit"
  BY <1>1
<1>14. ASSUME NEW u \in Topic
       PROVE  \/ Claimed(r, u)' \subseteq Claimed(r, u)
              \/ Cardinality(Members(project, u) \cup Claimed(r, u)') <= topic[u].max_students
  <2>1. CASE u = t
    BY <2>1, <1>12 DEF own, max
  <2>2. CASE u # t
    BY <2>2, <1>10
  <2> QED
    BY <2>1, <2>2
<1> QED
  BY <1>1, <1>8, <1>13, <1>14, OverlapQuiet

\* The written rows fit: the transaction has its locks, and claims what it claimed.
LEMMA OverlapWrite ==
    ASSUME OverlapInv, TypeOK', LimitKept, SomeRequests, NEW r \in Request,
           NEW rows, NEW topics, Write(r, rows, topics),
           \A s \in Student : rows[s] # Clean => Fits(r, s, rows[s])
    PROVE  OverlapInv'
<1>1. /\ TypeOK /\ pc[r] = "write" /\ pc'[r] = "commit" /\ dirtyRow'[r] = rows
      /\ \A q \in Request \ {r} : pc'[q] = pc[q] /\ arg'[q] = arg[q] /\ dirtyRow'[q] = dirtyRow[q]
      /\ UNCHANGED <<project, topic>>
      /\ \A s \in Student : rows[s] # Clean => RowFree(r, s)
  BY DEF Write, OverlapInv, TypeOK
<1>2. arg[r] \in Arg
  BY <1>1, InFlight
<1>3. arg'[r] = [arg[r] EXCEPT !.count = Cardinality(Members(View(project, rows), arg[r].topic))]
  BY <1>1 DEF Write, TypeOK
<1>4. /\ arg'[r].op = arg[r].op /\ arg'[r].topic = arg[r].topic /\ arg'[r].who = arg[r].who
      /\ arg'[r].ids = arg[r].ids /\ arg'[r].seen = arg[r].seen
  BY <1>2, <1>3 DEF Arg
<1>5. \A q \in Request : Input(q)'
  <2>1. ASSUME NEW q \in Request \ {r}
        PROVE  Input(q)'
    BY <1>1 DEF Input, OverlapInv
  <2>2. Input(r)'
    BY <1>1, <1>4 DEF Input, OverlapInv
  <2> QED
    BY <2>1, <2>2
<1>6. \A s \in Student : Holds(r, s)' <=> Holds(r, s)
  BY <1>1, <1>4 DEF Holds
<1>7. ASSUME NEW q \in Request, NEW s \in Student
      PROVE  WrittenFits(q, s)'
  <2>1. CASE q = r
    <3>1. ASSUME rows[s] # Clean
          PROVE  RowFree(r, s)' /\ Fits(r, s, rows[s])'
      <4>1. RowFree(r, s)'
        BY <1>1, <3>1 DEF RowFree
      <4>2. Fits(r, s, rows[s]) => Fits(r, s, dirtyRow[r][s])'
        BY <1>1, <1>4, <1>6 DEF Fits
      <4> QED
        BY <1>1, <3>1, <4>1, <4>2
    <3> QED
      BY <1>1, <2>1, <3>1 DEF WrittenFits
  <2>2. CASE q # r
    <3>1. dirtyRow[q][s] # Clean => rows[s] = Clean
      BY <1>1, <2>2 DEF RowFree
    <3>2. dirtyRow[q][s] # Clean => RowFree(q, s) /\ Fits(q, s, dirtyRow[q][s])
      BY DEF OverlapInv, WrittenFits
    <3>3. RowFree(q, s) /\ rows[s] = Clean => RowFree(q, s)'
      BY <1>1 DEF RowFree
    <3>4. Fits(q, s, dirtyRow[q][s]) => Fits(q, s, dirtyRow[q][s])'
      BY <1>1, <2>2 DEF Fits, Holds
    <3> QED
      BY <1>1, <2>2, <3>1, <3>2, <3>3, <3>4 DEF WrittenFits
  <2> QED
    BY <2>1, <2>2
<1>8. ASSUME NEW t \in Topic
      PROVE  Room(t)'
  <2>1. \A q \in Request \ {r} : Claimed(q, t)' = Claimed(q, t)
    BY <1>1, SameClaims
  <2>2. Claimed(r, t)' = Claimed(r, t)
    BY <1>1, <1>4, <1>6 DEF Claimed, Claims
  <2>3. Members(project, t)' = Members(project, t)
    BY <1>1 DEF Members, WithStatus
  <2>4. Engaged(t)' \subseteq Engaged(t)
    BY <2>1, <2>2, <2>3 DEF Engaged
  <2> QED
    BY <1>1, <2>4, RoomKept DEF OverlapInv
<1> QED
  BY <1>5, <1>7, <1>8 DEF OverlapInv

\* A decision fits when it does not count or is the approval's own.
LEMMA FitsDecision ==
    ASSUME TypeOK, NEW r \in Request, NEW s \in Student, project[s] # NoRow, NEW status,
           status \in Counted => arg[r].op = "approve" /\ s \in arg[r].who /\ Holds(r, s)
    PROVE  Fits(r, s, [project[s] EXCEPT !.status = status])
<1>1. project[s] \in Row
  BY DEF TypeOK
<1>2. /\ [project[s] EXCEPT !.status = status].id = project[s].id
      /\ [project[s] EXCEPT !.status = status].topic = project[s].topic
      /\ [project[s] EXCEPT !.status = status].status = status
  BY <1>1 DEF Row
<1> QED
  BY <1>2 DEF Fits

\* Another leader flag fits.
LEMMA FitsFlag ==
    ASSUME TypeOK, NEW r \in Request, NEW s \in Student, project[s] # NoRow, NEW flag
    PROVE  Fits(r, s, [project[s] EXCEPT !.is_leader = flag])
<1>1. project[s] \in Row
  BY DEF TypeOK
<1>2. /\ [project[s] EXCEPT !.is_leader = flag].id = project[s].id
      /\ [project[s] EXCEPT !.is_leader = flag].topic = project[s].topic
      /\ [project[s] EXCEPT !.is_leader = flag].status = project[s].status
  BY <1>1 DEF Row
<1> QED
  BY <1>2 DEF Fits

LEMMA OverlapPlace ==
    ASSUME OverlapInv, TypeOK', LimitKept, SomeRequests, NEW r \in Request,
           arg[r].op \in {"register", "assign"}, NEW status, Place(r, status)
    PROVE  OverlapInv'
<1> DEFINE rows == [s \in Student |-> IF s \in arg[r].who THEN PlacedRow(r, s, status) ELSE Clean]
<1>1. Write(r, rows, NoTopicWrites)
  BY DEF Place
<1>2. ASSUME NEW s \in Student, rows[s] # Clean
      PROVE  Fits(r, s, rows[s])
  <2>1. s \in arg[r].who /\ rows[s] = PlacedRow(r, s, status)
    BY <1>2
  <2>2. PlacedRow(r, s, status).topic = arg[r].topic
    BY DEF PlacedRow
  <2> QED
    BY <2>1, <2>2 DEF Fits
<1> HIDE DEF rows
<1> QED
  BY <1>1, <1>2, OverlapWrite

LEMMA OverlapApproveWrite ==
    ASSUME OverlapInv, TypeOK', LimitKept, SomeRequests, NEW r \in Request, ApproveWrite(r)
    PROVE  OverlapInv'
<1> DEFINE t == arg[r].topic
           after == View(project, Decided(r, "APPROVED"))
           turned == IF Fills(after, t, arg[r].seen.max_students)
                     THEN WithStatus(after, t, {"PENDING"}) ELSE {}
           rows == [s \in Student |-> IF s \in turned
                                      THEN [project[s] EXCEPT !.status = "REJECTED"]
                                      ELSE Decided(r, "APPROVED")[s]]
<1>1. /\ TypeOK /\ Write(r, rows, NoTopicWrites) /\ arg[r].op = "approve"
      /\ \A s \in arg[r].who : Holds(r, s)
  BY DEF ApproveWrite, Running, OverlapInv
<1>2. ASSUME NEW s \in Student, rows[s] # Clean
      PROVE  Fits(r, s, rows[s])
  <2>1. CASE s \in turned
    <3>1. after[s] # NoRow
      BY <2>1 DEF WithStatus
    <3>2. project[s] # NoRow
      <4>1. CASE s \in arg[r].who
        BY <1>1, <4>1 DEF Holds
      <4>2. CASE s \notin arg[r].who
        BY <3>1, <4>2 DEF View, Decided
      <4> QED
        BY <4>1, <4>2
    <3>3. rows[s] = [project[s] EXCEPT !.status = "REJECTED"]
      BY <2>1
    <3>4. "REJECTED" \notin Counted
      BY DEF Counted
    <3> QED
      BY <1>1, <3>2, <3>3, <3>4, FitsDecision
  <2>2. CASE s \notin turned
    <3>1. rows[s] = Decided(r, "APPROVED")[s]
      BY <2>2
    <3>2. s \in arg[r].who /\ rows[s] = [project[s] EXCEPT !.status = "APPROVED"]
      BY <1>2, <3>1 DEF Decided
    <3>3. Holds(r, s) /\ project[s] # NoRow
      BY <1>1, <3>2 DEF Holds
    <3> QED
      BY <1>1, <3>2, <3>3, FitsDecision
  <2> QED
    BY <2>1, <2>2
<1> HIDE DEF rows
<1> QED
  BY <1>1, <1>2, OverlapWrite

LEMMA OverlapRejectWrite ==
    ASSUME OverlapInv, TypeOK', LimitKept, SomeRequests, NEW r \in Request, RejectWrite(r)
    PROVE  OverlapInv'
<1> DEFINE rows == Decided(r, "REJECTED")
<1>1. /\ TypeOK /\ Write(r, rows, NoTopicWrites)
      /\ \A s \in arg[r].who : Holds(r, s)
  BY DEF RejectWrite, OverlapInv
<1>2. ASSUME NEW s \in Student, rows[s] # Clean
      PROVE  Fits(r, s, rows[s])
  <2>1. s \in arg[r].who /\ rows[s] = [project[s] EXCEPT !.status = "REJECTED"]
    BY <1>2 DEF Decided
  <2>2. project[s] # NoRow /\ "REJECTED" \notin Counted
    BY <1>1, <2>1 DEF Holds, Counted
  <2> QED
    BY <1>1, <2>1, <2>2, FitsDecision
<1> HIDE DEF rows
<1> QED
  BY <1>1, <1>2, OverlapWrite

LEMMA OverlapBulkWrite ==
    ASSUME OverlapInv, TypeOK', LimitKept, SomeRequests, NEW r \in Request, BulkWrite(r)
    PROVE  OverlapInv'
<1> DEFINE turned == IF arg[r].edit.to = "REJECTED"
                     THEN UNION {WithStatus(project, t, {"PENDING"}) : t \in arg[r].batch}
                     ELSE {}
           rows == [s \in Student |-> IF s \in turned
                                      THEN [project[s] EXCEPT !.status = "REJECTED"]
                                      ELSE Clean]
<1>1. TypeOK /\ Write(r, rows, TopicEdits(arg[r].batch, arg[r].edit))
  BY DEF BulkWrite, OverlapInv
<1>2. ASSUME NEW s \in Student, rows[s] # Clean
      PROVE  Fits(r, s, rows[s])
  <2>1. s \in turned /\ rows[s] = [project[s] EXCEPT !.status = "REJECTED"]
    BY <1>2
  <2>2. project[s] # NoRow /\ "REJECTED" \notin Counted
    BY <2>1 DEF WithStatus, Counted
  <2> QED
    BY <1>1, <2>1, <2>2, FitsDecision
<1> HIDE DEF rows
<1> QED
  BY <1>1, <1>2, OverlapWrite

\* Handlers that write no row, delete rows or set leader flags.
LEMMA OverlapOtherWrite ==
    ASSUME OverlapInv, TypeOK', LimitKept, SomeRequests, NEW r \in Request,
           CancelWrite(r) \/ EditWrite(r) \/ LockWrite(r) \/ LeaderWrite(r)
    PROVE  OverlapInv'
<1>0. TypeOK
  BY DEF OverlapInv
<1>1. CASE CancelWrite(r)
  <2> DEFINE rows == [s \in Student |-> IF s \in arg[r].who THEN NoRow ELSE Clean]
  <2>1. Write(r, rows, NoTopicWrites)
    BY <1>1 DEF CancelWrite
  <2>2. \A s \in Student : rows[s] # Clean => Fits(r, s, rows[s])
    BY DEF Fits
  <2> HIDE DEF rows
  <2> QED
    BY <2>1, <2>2, OverlapWrite
<1>2. CASE EditWrite(r)
  <2>1. Write(r, NoWrites, TopicEdits(arg[r].batch, arg[r].edit))
    BY <1>2 DEF EditWrite
  <2>2. \A s \in Student : NoWrites[s] = Clean
    BY DEF NoWrites
  <2> QED
    BY <2>1, <2>2, OverlapWrite
<1>3. CASE LockWrite(r)
  <2> DEFINE rows == [s \in Student |-> IF s \in arg[r].who
                                        THEN [project[s] EXCEPT !.is_leader = (s \in arg[r].lead)]
                                        ELSE Clean]
  <2>1. Write(r, rows, TopicEdits(arg[r].batch, arg[r].edit)) /\ \A s \in arg[r].who : Holds(r, s)
    BY <1>3 DEF LockWrite
  <2>2. ASSUME NEW s \in Student, rows[s] # Clean
        PROVE  Fits(r, s, rows[s])
    <3>1. s \in arg[r].who /\ rows[s] = [project[s] EXCEPT !.is_leader = (s \in arg[r].lead)]
      BY <2>2
    <3>2. project[s] # NoRow
      BY <2>1, <3>1 DEF Holds
    <3>3. Fits(r, s, [project[s] EXCEPT !.is_leader = (s \in arg[r].lead)])
      BY <1>0, <3>2, FitsFlag
    <3> QED
      BY <3>1, <3>3
  <2> HIDE DEF rows
  <2> QED
    BY <2>1, <2>2, OverlapWrite
<1>4. CASE LeaderWrite(r)
  <2> DEFINE rows == [s \in Student |-> IF s \in Demoted(r) \cup arg[r].lead
                                        THEN [project[s] EXCEPT !.is_leader = (s \in arg[r].lead)]
                                        ELSE Clean]
  <2>1. Write(r, rows, NoTopicWrites) /\ \A s \in arg[r].lead : Holds(r, s)
    BY <1>4 DEF LeaderWrite
  <2>2. ASSUME NEW s \in Student, rows[s] # Clean
        PROVE  Fits(r, s, rows[s])
    <3>1. /\ s \in Demoted(r) \cup arg[r].lead
          /\ rows[s] = [project[s] EXCEPT !.is_leader = (s \in arg[r].lead)]
      BY <2>2
    <3>2. project[s] # NoRow
      BY <2>1, <3>1 DEF Holds, Demoted, Leaders, WithStatus
    <3>3. Fits(r, s, [project[s] EXCEPT !.is_leader = (s \in arg[r].lead)])
      BY <1>0, <3>2, FitsFlag
    <3> QED
      BY <3>1, <3>3
  <2> HIDE DEF rows
  <2> QED
    BY <2>1, <2>2, OverlapWrite
<1> QED
  BY <1>1, <1>2, <1>3, <1>4

\* What a transaction commits, student by student: he is not new on the topic, or
\* the transaction claimed him, and nobody else's claim on him is new.
LEMMA OverlapCommitEngages ==
    ASSUME OverlapInv, NEW r \in Request, Commit(r), NEW t \in Topic
    PROVE  Engaged(t)' \subseteq Engaged(t)
<1>1. /\ TypeOK /\ pc[r] = "commit" /\ pc'[r] = "idle"
      /\ \A q \in Request \ {r} : pc'[q] = pc[q] /\ arg'[q] = arg[q]
      /\ \A s \in Student : project'[s] = IF dirtyRow[r][s] = Clean THEN project[s] ELSE dirtyRow[r][s]
  BY DEF Commit, Finish, View, OverlapInv, TypeOK
<1>2. ASSUME NEW s \in Student, dirtyRow[r][s] # Clean
      PROVE  Fits(r, s, project'[s])
  BY <1>1, <1>2 DEF OverlapInv, WrittenFits
<1>3. ASSUME NEW s \in Student, s \in Members(project, t)'
      PROVE  s \in Engaged(t)
  <2>1. project'[s] # NoRow /\ project'[s].topic = t /\ project'[s].status \in Counted
    BY <1>3 DEF Members, WithStatus
  <2>2. CASE dirtyRow[r][s] = Clean
    BY <1>1, <2>1, <2>2 DEF Engaged, Members, WithStatus
  <2>3. CASE dirtyRow[r][s] # Clean
    <3>1. Fits(r, s, project'[s])
      BY <1>2, <2>3
    <3>2. s \in Members(project, t) \/ Claims(r, s, t)
      BY <1>1, <2>1, <3>1 DEF Fits, Claims, Members, WithStatus
    <3> QED
      BY <3>2 DEF Engaged, Claimed
  <2> QED
    BY <2>2, <2>3
<1>4. ASSUME NEW q \in Request, NEW s \in Student, Claims(q, s, t)'
      PROVE  s \in Engaged(t)
  <2>1. q # r
    BY <1>1, <1>4 DEF Claims
  <2>2. /\ pc[q] # "idle" /\ pc'[q] = pc[q] /\ arg'[q] = arg[q] /\ s \in arg[q].who
    BY <1>1, <1>4, <2>1 DEF Claims
  <2>3. CASE arg[q].op \in {"register", "assign"} /\ pc[q] # "check" /\ t = arg[q].topic
    BY <2>2, <2>3 DEF Engaged, Claimed, Claims
  <2>4. CASE /\ arg[q].op = "approve" /\ project'[s] # NoRow /\ project'[s].id = arg[q].ids[s]
             /\ project'[s].topic = t /\ (pc[q] = "check" => t # arg[q].topic)
    <3>1. CASE dirtyRow[r][s] = Clean
      <4>1. Claims(q, s, t)
        BY <1>1, <2>2, <2>4, <3>1 DEF Claims, Holds
      <4> QED
        BY <4>1 DEF Engaged, Claimed
    <3>2. CASE dirtyRow[r][s] # Clean
      <4>1. Fits(r, s, project'[s])
        BY <1>2, <3>2
      <4>2. CASE /\ arg[r].op \in {"register", "assign"} /\ s \in arg[r].who
                 /\ project'[s].topic = arg[r].topic
        <5>1. Claims(r, s, t)
          BY <1>1, <2>4, <4>2 DEF Claims
        <5> QED
          BY <5>1 DEF Engaged, Claimed
      <4>3. CASE /\ project[s] # NoRow /\ project'[s].id = project[s].id
                 /\ project'[s].topic = project[s].topic
        <5>1. Claims(q, s, t)
          BY <2>2, <2>4, <4>3 DEF Claims, Holds
        <5> QED
          BY <5>1 DEF Engaged, Claimed
      <4> QED
        BY <2>4, <4>1, <4>2, <4>3 DEF Fits
    <3> QED
      BY <3>1, <3>2
  <2> QED
    BY <1>4, <2>2, <2>3, <2>4 DEF Claims, Holds
<1>5. Members(project, t)' \subseteq Student
  BY DEF Members, WithStatus
<1> QED
  BY <1>3, <1>4, <1>5 DEF Engaged, Claimed

\* A transaction's writes still fit after another one has ended: they share no row.
LEMMA OverlapFinish ==
    ASSUME OverlapInv, NEW r \in Request, Finish(r), TypeOK',
           \A s \in Student : dirtyRow[r][s] = Clean => project'[s] = project[s],
           LimitKept
    PROVE  /\ \A q \in Request : Input(q)'
           /\ \A q \in Request, s \in Student : WrittenFits(q, s)'
<1>1. /\ TypeOK /\ pc'[r] = "idle" /\ dirtyRow'[r] = NoWrites
      /\ \A q \in Request \ {r} : pc'[q] = pc[q] /\ arg'[q] = arg[q] /\ dirtyRow'[q] = dirtyRow[q]
  BY DEF Finish, OverlapInv, TypeOK
<1>2. ASSUME NEW q \in Request
      PROVE  Input(q)'
  <2>1. CASE q = r
    BY <1>1, <2>1 DEF Input
  <2>2. CASE q # r /\ pc[q] # "idle"
    <3>1. /\ pc'[q] = pc[q] /\ arg'[q] = arg[q] /\ Input(q) /\ arg[q] \in Arg
      BY <1>1, <2>2, InFlight DEF OverlapInv
    <3>2. /\ arg[q].seen.max_students \in Nat /\ topic[arg[q].topic].max_students \in Nat
          /\ topic'[arg[q].topic].max_students \in Nat
          /\ topic'[arg[q].topic].max_students >= topic[arg[q].topic].max_students
      BY <1>1, <3>1 DEF LimitKept, TypeOK, TopicRow, Arg
    <3> QED
      BY <3>1, <3>2 DEF Input
  <2>3. CASE q # r /\ pc[q] = "idle"
    BY <1>1, <2>3 DEF Input
  <2> QED
    BY <2>1, <2>2, <2>3
<1>3. ASSUME NEW q \in Request, NEW s \in Student, dirtyRow'[q][s] # Clean
      PROVE  RowFree(q, s)' /\ Fits(q, s, dirtyRow[q][s])'
  <2>1. q # r /\ dirtyRow'[q] = dirtyRow[q]
    BY <1>1, <1>3 DEF NoWrites
  <2>2. RowFree(q, s) /\ Fits(q, s, dirtyRow[q][s])
    BY <1>3, <2>1 DEF OverlapInv, WrittenFits
  <2>3. dirtyRow[r][s] = Clean /\ project'[s] = project[s] /\ arg'[q] = arg[q]
    BY <1>1, <2>1, <2>2 DEF RowFree
  <2>4. RowFree(q, s)'
    BY <1>1, <2>2 DEF RowFree, NoWrites
  <2>5. Fits(q, s, dirtyRow[q][s])'
    BY <2>1, <2>2, <2>3 DEF Fits, Holds
  <2> QED
    BY <2>4, <2>5
<1> QED
  BY <1>2, <1>3 DEF WrittenFits

LEMMA OverlapCommit ==
    ASSUME OverlapInv, TypeOK', LimitKept, SomeRequests, NEW r \in Request, Commit(r)
    PROVE  OverlapInv'
<1>1. /\ TypeOK /\ Finish(r)
      /\ \A s \in Student : dirtyRow[r][s] = Clean => project'[s] = project[s]
  BY DEF Commit, View, OverlapInv
<1>2. \A t \in Topic : Engaged(t)' \subseteq Engaged(t)
  BY OverlapCommitEngages
<1>3. \A t \in Topic : Room(t)'
  BY <1>1, <1>2, RoomKept DEF OverlapInv
<1> QED
  BY <1>1, <1>3, OverlapFinish DEF OverlapInv

LEMMA OverlapRollback ==
    ASSUME OverlapInv, TypeOK', LimitKept, SomeRequests, NEW r \in Request, Rollback(r)
    PROVE  OverlapInv'
<1>1. /\ TypeOK /\ Finish(r) /\ project' = project /\ pc'[r] = "idle"
      /\ \A q \in Request \ {r} : pc'[q] = pc[q] /\ arg'[q] = arg[q]
  BY DEF Rollback, Finish, OverlapInv, TypeOK
<1>2. ASSUME NEW t \in Topic
      PROVE  Engaged(t)' \subseteq Engaged(t)
  <2>1. \A q \in Request \ {r} : Claimed(q, t)' = Claimed(q, t)
    BY <1>1, SameClaims
  <2>2. Claimed(r, t)' = {}
    BY <1>1 DEF Claimed, Claims
  <2>3. Members(project, t)' = Members(project, t)
    BY <1>1 DEF Members, WithStatus
  <2> QED
    BY <2>1, <2>2, <2>3 DEF Engaged
<1>3. \A t \in Topic : Room(t)'
  BY <1>1, <1>2, RoomKept DEF OverlapInv
<1> QED
  BY <1>1, <1>3, OverlapFinish DEF OverlapInv

\* The hourly job hands requests to the secretary: nobody counts who did not.
LEMMA OverlapEscalate ==
    ASSUME OverlapInv, TypeOK', LimitKept, SomeRequests, Escalate
    PROVE  OverlapInv'
<1>1. /\ TypeOK /\ UNCHANGED <<open, topic, pc, arg, dirtyRow, dirtyTopic>>
      /\ \A s \in Late, q \in Request : dirtyRow[q][s] = Clean
  BY DEF Escalate, OverlapInv
<1>2. ASSUME NEW s \in Student
      PROVE  /\ project'[s] = NoRow <=> project[s] = NoRow
             /\ project[s] # NoRow => /\ project'[s].id = project[s].id
                                      /\ project'[s].topic = project[s].topic
             /\ project[s] # NoRow /\ project'[s].status \in Counted => project[s].status \in Counted
             /\ s \notin Late => project'[s] = project[s]
  <2>1. CASE s \in Late
    <3>1. project[s] # NoRow /\ project[s] \in Row
      BY <1>1, <2>1 DEF Late, TypeOK
    <3>2. project'[s] = [project[s] EXCEPT !.status = "WAITING_SECRETARY"]
      BY <2>1 DEF Escalate
    <3>3. /\ project'[s] \in Row /\ project'[s].id = project[s].id
          /\ project'[s].topic = project[s].topic /\ project'[s].status = "WAITING_SECRETARY"
      BY <3>1, <3>2 DEF Row, ProjectStatus
    <3>4. project'[s] # NoRow /\ "WAITING_SECRETARY" \notin Counted
      BY <3>3, MarkersAssumption, Statuses
    <3> QED
      BY <2>1, <3>1, <3>3, <3>4
  <2>2. CASE s \notin Late
    BY <2>2 DEF Escalate
  <2> QED
    BY <2>1, <2>2
<1>3. \A q \in Request : Input(q)'
  BY <1>1 DEF Input, OverlapInv
<1>4. ASSUME NEW q \in Request, NEW s \in Student, dirtyRow[q][s] # Clean
      PROVE  RowFree(q, s)' /\ Fits(q, s, dirtyRow[q][s])'
  <2>1. RowFree(q, s) /\ Fits(q, s, dirtyRow[q][s])
    BY <1>4 DEF OverlapInv, WrittenFits
  <2>2. project'[s] = project[s]
    BY <1>1, <1>2, <1>4
  <2> QED
    BY <1>1, <2>1, <2>2 DEF RowFree, Fits, Holds
<1>5. ASSUME NEW t \in Topic
      PROVE  Room(t)'
  <2>1. Members(project, t)' \subseteq Members(project, t)
    BY <1>2 DEF Members, WithStatus
  <2>2. \A q \in Request, s \in Student : Claims(q, s, t)' => Claims(q, s, t)
    BY <1>1, <1>2 DEF Claims, Holds
  <2>3. Engaged(t)' \subseteq Engaged(t)
    BY <2>1, <2>2 DEF Engaged, Claimed
  <2> QED
    BY <1>1, <2>3, RoomKept DEF OverlapInv
<1> QED
  BY <1>1, <1>3, <1>4, <1>5 DEF OverlapInv, WrittenFits

LEMMA OverlapLeaderCheck ==
    ASSUME OverlapInv, TypeOK', LimitKept, SomeRequests, NEW r \in Request, LeaderCheck(r)
    PROVE  OverlapInv'
<1>1. /\ TypeOK /\ pc[r] = "check" /\ arg[r].op = "leader" /\ pc'[r] = "write"
      /\ \A q \in Request \ {r} : pc'[q] = pc[q] /\ arg'[q] = arg[q]
      /\ UNCHANGED <<project, topic, dirtyRow>>
  BY DEF LeaderCheck, OverlapInv, TypeOK
<1>2. arg[r] \in Arg
  BY <1>1, InFlight
<1>3. arg'[r] = [arg[r] EXCEPT !.who = @ \cup Leaders(project, arg[r].topic)]
  BY <1>1 DEF LeaderCheck, TypeOK
<1>4. arg'[r].op = "leader"
  BY <1>1, <1>2, <1>3 DEF Arg
<1>5. Input(r)' /\ \A t \in Topic : Claimed(r, t)' = {}
  BY <1>1, <1>4 DEF Input, Claimed, Claims
<1> QED
  BY <1>1, <1>5, OverlapQuiet

LEMMA OverlapProceed ==
    ASSUME OverlapInv, TypeOK', LimitKept, SomeRequests, NEW r \in Request, Proceed(r)
    PROVE  OverlapInv'
<1>1. CASE RegisterWrite(r)
  BY <1>1, OverlapPlace DEF RegisterWrite, Running
<1>2. CASE AssignWrite(r)
  BY <1>2, OverlapPlace DEF AssignWrite, Running
<1> QED
  BY <1>1, <1>2, OverlapRegisterCheck, OverlapApproveCheck, OverlapApproveWrite,
     OverlapRejectWrite, OverlapBulkWrite, OverlapOtherWrite, OverlapLeaderCheck, OverlapCommit
     DEF Proceed

LEMMA OverlapInit == SomeRequests /\ Init => OverlapInv
<1> SUFFICES ASSUME SomeRequests, Init PROVE OverlapInv
  OBVIOUS
<1>1. TypeOK
  BY TypeInit
<1>2. /\ \A r \in Request : Input(r)
      /\ \A r \in Request, s \in Student : WrittenFits(r, s)
  BY DEF Init, Input, WrittenFits, NoWrites
<1>3. ASSUME NEW t \in Topic
      PROVE  Room(t)
  <2>1. Engaged(t) = {}
    BY DEF Engaged, Claimed, Claims, Members, WithStatus, Init
  <2>2. Cardinality(Engaged(t)) = 0
    BY <2>1, FS_EmptySet
  <2>3. Cardinality(Request) \in Nat /\ Cardinality(Request) # 0 /\ MaxBatch \in Nat
    BY FS_CardinalityType, FS_EmptySet, TopicRegistrationAssumption DEF SomeRequests
  <2>4. topic[t].max_students \in Nat
    BY <1>1 DEF TypeOK, TopicRow
  <2>5. (Cardinality(Request) - 1) * MaxBatch \in Nat
    <3>1. Cardinality(Request) - 1 \in Nat
      BY <2>3
    <3> QED
      BY <2>3, <3>1
  <2> QED
    BY <2>2, <2>4, <2>5 DEF Room
<1> QED
  BY <1>1, <1>2, <1>3 DEF OverlapInv

LEMMA OverlapNext ==
    SomeRequests /\ OverlapInv /\ [Next]_vars /\ [LimitKept]_vars => OverlapInv'
<1> SUFFICES ASSUME SomeRequests, OverlapInv, [Next]_vars, [LimitKept]_vars PROVE OverlapInv'
  OBVIOUS
<1>1. CASE UNCHANGED vars
  <2>1. UNCHANGED <<open, topic, project, pc, arg, dirtyRow, dirtyTopic>>
    BY <1>1 DEF vars
  <2> QED
    BY <2>1 DEF OverlapInv, TypeOK, Input, WrittenFits, RowFree, Fits, Room, Engaged, Claimed,
                Claims, Members, WithStatus, Holds
<1>2. CASE Next /\ LimitKept
  <2>1. TypeOK /\ TypeOK'
    BY <1>2, TypeNext DEF OverlapInv
  <2>2. ASSUME NEW r \in Request, Arrive(r) PROVE OverlapInv'
    BY <1>2, <2>1, <2>2, OverlapArrive
  <2>3. ASSUME NEW r \in Request, Proceed(r) PROVE OverlapInv'
    BY <1>2, <2>1, <2>3, OverlapProceed
  <2>4. ASSUME NEW r \in Request, Rollback(r) PROVE OverlapInv'
    BY <1>2, <2>1, <2>4, OverlapRollback
  <2>5. CASE Expire \/ Extend
    <3>1. UNCHANGED <<topic, project, pc, arg, dirtyRow, dirtyTopic>>
      BY <2>5 DEF Expire, Extend
    <3> QED
      BY <2>1, <3>1 DEF OverlapInv, Input, WrittenFits, RowFree, Fits, Room, Engaged, Claimed,
                        Claims, Members, WithStatus, Holds
  <2>6. CASE Escalate
    BY <1>2, <2>1, <2>6, OverlapEscalate
  <2> QED
    BY <1>2, <2>2, <2>3, <2>4, <2>5, <2>6 DEF Next, Environment
<1> QED
  BY <1>1, <1>2

\* However many registrations, approvals and assignments overlap, and whatever the
\* other handlers do in between, a topic whose limit is not lowered meanwhile is
\* overbooked by at most a batch for every other request in flight: each of them may
\* have passed assertCapacity before the others committed.
THEOREM OverlapOverbooks ==
    ASSUME SomeRequests
    PROVE  Spec /\ [][LimitKept]_vars => []OverbookingBounded
<1>1. Init => OverlapInv
  BY OverlapInit
<1>2. OverlapInv /\ [Next]_vars /\ [LimitKept]_vars => OverlapInv'
  BY OverlapNext
<1>3. OverlapInv => OverbookingBounded
  <2> SUFFICES ASSUME OverlapInv, NEW t \in Topic
               PROVE  MemberCount(t)
                        <= topic[t].max_students + (Cardinality(Request) - 1) * MaxBatch
    BY DEF OverbookingBounded
  <2>1. /\ MemberCount(t) <= Cardinality(Engaged(t))
        /\ MemberCount(t) \in Nat /\ Cardinality(Engaged(t)) \in Nat
    BY EngagedFinite, FS_Subset, WithStatusFinite, FS_CardinalityType
       DEF MemberCount, Engaged, Members
  <2>2. topic[t].max_students \in Nat /\ Cardinality(Request) \in Nat /\ MaxBatch \in Nat
    BY TopicRegistrationAssumption, FS_CardinalityType
       DEF OverlapInv, TypeOK, TopicRow, SomeRequests
  <2> DEFINE k == (Cardinality(Request) - 1) * MaxBatch
  <2>3. k \in Int
    BY <2>2
  <2> HIDE DEF k
  <2>4. Cardinality(Engaged(t)) <= topic[t].max_students + k
    BY DEF OverlapInv, Room, k
  <2>5. MemberCount(t) <= topic[t].max_students + k
    BY <2>1, <2>2, <2>3, <2>4
  <2> QED
    BY <2>5 DEF k
<1> QED
  BY <1>1, <1>2, <1>3, PTL DEF Spec

\* No handler that edits the limit is in use, and what the others edit is not it.
LimitInv ==
    /\ TypeOK
    /\ \A r \in Request :
          pc[r] # "idle" => /\ arg[r].op \notin {"update", "force"}
                            /\ arg[r].op \in {"bulk", "lock"} => arg[r].edit.field # "max_students"
    /\ \A r \in Request, t \in Topic :
          dirtyTopic[r][t] # Clean => dirtyTopic[r][t].max_students = topic[t].max_students

\* Every topic has the limit that it had.
LimitSame == \A t \in Topic : topic'[t].max_students = topic[t].max_students

LEMMA LimitBegin ==
    ASSUME LimitInv, TypeOK', NEW r \in Request, NEW op, NEW step, NEW t, NEW who, NEW ids, NEW e,
           NEW lead, NEW batch, Begin(r, op, step, t, who, ids, e, lead, batch),
           op \notin {"update", "force"},
           op \in {"bulk", "lock"} => e.field # "max_students"
    PROVE  LimitInv' /\ LimitSame
<1> DEFINE a == [op |-> op, topic |-> t, who |-> who, ids |-> ids, seen |-> Seen(t),
                 edit |-> e, lead |-> lead, batch |-> batch, count |-> 0]
<1>1. /\ arg'[r] = a /\ UNCHANGED <<topic, dirtyTopic>>
      /\ \A q \in Request \ {r} : pc'[q] = pc[q] /\ arg'[q] = arg[q]
  BY DEF Begin, LimitInv, TypeOK
<1>2. arg'[r].op = op /\ arg'[r].edit = e
  BY <1>1
<1> HIDE DEF a
<1> QED
  BY <1>1, <1>2 DEF LimitInv, LimitSame

LEMMA LimitArrive ==
    ASSUME LimitInv, TypeOK', Ops \cap {"update", "force"} = {}, NEW r \in Request, Arrive(r)
    PROVE  LimitInv' /\ LimitSame
<1>1. ASSUME NEW s \in Student, NEW t \in Topic, RegisterRead(r, s, t)
      PROVE  LimitInv' /\ LimitSame
  BY <1>1, LimitBegin DEF RegisterRead
<1>2. ASSUME NEW s \in Student, NEW t \in Topic, CancelRead(r, s, t)
      PROVE  LimitInv' /\ LimitSame
  BY <1>2, LimitBegin DEF CancelRead
<1>3. ASSUME NEW s \in Student, NEW t \in Topic, ApproveRead(r, s, t)
      PROVE  LimitInv' /\ LimitSame
  BY <1>3, LimitBegin DEF ApproveRead, DecideRead
<1>4. ASSUME NEW s \in Student, NEW t \in Topic, RejectRead(r, s, t)
      PROVE  LimitInv' /\ LimitSame
  BY <1>4, LimitBegin DEF RejectRead, DecideRead
<1>5. ASSUME NEW s \in Student, NEW t \in Topic, LeaderRead(r, s, t)
      PROVE  LimitInv' /\ LimitSame
  BY <1>5, LimitBegin DEF LeaderRead
<1>6. ASSUME NEW who \in SUBSET Student, NEW t \in Topic, AssignCheck(r, who, t)
      PROVE  LimitInv' /\ LimitSame
  BY <1>6, LimitBegin DEF AssignCheck
<1>7. ASSUME NEW t \in Topic, NEW e \in Edit
      PROVE  ~UpdateRead(r, t, e) /\ ~ForceCheck(r, t, e)
  BY DEF UpdateRead, ForceCheck, Begin
<1>8. ASSUME NEW batch \in SUBSET Topic, NEW t \in Topic, NEW verdict \in {"APPROVED", "REJECTED"},
             BulkCheck(r, batch, t, verdict)
      PROVE  LimitInv' /\ LimitSame
  BY <1>8, LimitBegin DEF BulkCheck
<1>9. ASSUME NEW t \in Topic, NEW who \in SUBSET {s \in Student : project[s] # NoRow},
             NEW lead \in SUBSET who, LockRead(r, t, who, lead)
      PROVE  LimitInv' /\ LimitSame
  BY <1>9, LimitBegin DEF LockRead
<1> QED
  BY <1>1, <1>2, <1>3, <1>4, <1>5, <1>6, <1>7, <1>8, <1>9 DEF Arrive

\* Topics written without a new limit.
LEMMA LimitWrite ==
    ASSUME LimitInv, TypeOK', NEW r \in Request, NEW rows, NEW topics, Write(r, rows, topics),
           \A t \in Topic : topics[t] # Clean => topics[t].max_students = topic[t].max_students
    PROVE  LimitInv' /\ LimitSame
<1>1. /\ TypeOK /\ pc[r] = "write" /\ dirtyTopic'[r] = topics /\ topic' = topic
      /\ \A q \in Request \ {r} :
            pc'[q] = pc[q] /\ arg'[q] = arg[q] /\ dirtyTopic'[q] = dirtyTopic[q]
      /\ arg'[r] = [arg[r] EXCEPT !.count = Cardinality(Members(View(project, rows), arg[r].topic))]
  BY DEF Write, LimitInv, TypeOK
<1>2. arg[r] \in Arg
  BY <1>1, InFlight
<1>3. arg'[r].op = arg[r].op /\ arg'[r].edit = arg[r].edit
  BY <1>1, <1>2 DEF Arg
<1>4. ASSUME NEW q \in Request, NEW t \in Topic, dirtyTopic'[q][t] # Clean
      PROVE  dirtyTopic'[q][t].max_students = topic'[t].max_students
  BY <1>1, <1>4 DEF LimitInv
<1>5. ASSUME NEW q \in Request, pc'[q] # "idle"
      PROVE  /\ arg'[q].op \notin {"update", "force"}
             /\ arg'[q].op \in {"bulk", "lock"} => arg'[q].edit.field # "max_students"
  <2>1. pc[q] # "idle" /\ arg'[q].op = arg[q].op /\ arg'[q].edit = arg[q].edit
    BY <1>1, <1>3, <1>5
  <2> QED
    BY <2>1 DEF LimitInv
<1> QED
  BY <1>1, <1>4, <1>5 DEF LimitInv, LimitSame

\* Edits of another column leave the limit alone.
LEMMA LimitEdits ==
    ASSUME NEW batch, NEW e, e.field # "max_students", NEW t \in Topic,
           TopicEdits(batch, e)[t] # Clean
    PROVE  TopicEdits(batch, e)[t].max_students = topic[t].max_students
BY DEF TopicEdits, Edited

LEMMA LimitProceed ==
    ASSUME LimitInv, TypeOK', NEW r \in Request, Proceed(r)
    PROVE  LimitInv' /\ LimitSame
<1>0. TypeOK
  BY DEF LimitInv
<1>1. ASSUME NEW rows, Write(r, rows, NoTopicWrites)
      PROVE  LimitInv' /\ LimitSame
  BY <1>1, LimitWrite DEF NoTopicWrites
<1>2. CASE \/ RegisterWrite(r) \/ CancelWrite(r) \/ ApproveWrite(r) \/ RejectWrite(r)
           \/ AssignWrite(r) \/ LeaderWrite(r)
  BY <1>1, <1>2 DEF RegisterWrite, CancelWrite, ApproveWrite, RejectWrite, AssignWrite,
                    LeaderWrite, Place
<1>3. CASE EditWrite(r)
  <2>1. pc[r] # "idle" /\ arg[r].op \in {"update", "force"}
    BY <1>3 DEF EditWrite, Running
  <2> QED
    BY <2>1 DEF LimitInv
<1>4. CASE BulkWrite(r) \/ LockWrite(r)
  <2>1. pc[r] # "idle" /\ arg[r].op \in {"bulk", "lock"}
    BY <1>4 DEF BulkWrite, LockWrite, Running
  <2>2. arg[r].edit.field # "max_students"
    BY <2>1 DEF LimitInv
  <2>3. \E rows : Write(r, rows, TopicEdits(arg[r].batch, arg[r].edit))
    BY <1>4 DEF BulkWrite, LockWrite
  <2> QED
    BY <2>2, <2>3, LimitWrite, LimitEdits
<1>5. CASE RegisterCheck(r) \/ ApproveCheck(r) \/ LeaderCheck(r)
  <2>1. /\ pc[r] = "check" /\ UNCHANGED <<topic, dirtyTopic>>
        /\ \A q \in Request \ {r} : pc'[q] = pc[q] /\ arg'[q] = arg[q]
    BY <1>0, <1>5 DEF RegisterCheck, ApproveCheck, LeaderCheck, TypeOK
  <2>2. arg[r] \in Arg
    BY <1>0, <2>1, InFlight
  <2>3. arg'[r].op = arg[r].op /\ arg'[r].edit = arg[r].edit
    BY <1>0, <1>5, <2>2 DEF RegisterCheck, ApproveCheck, LeaderCheck, Arg, TypeOK
  <2>4. ASSUME NEW q \in Request, pc'[q] # "idle"
        PROVE  pc[q] # "idle" /\ arg'[q].op = arg[q].op /\ arg'[q].edit = arg[q].edit
    BY <2>1, <2>3, <2>4
  <2> QED
    BY <2>1, <2>4 DEF LimitInv, LimitSame
<1>6. CASE Commit(r)
  <2>1. /\ topic' = [t \in Topic |-> Stored(r, t)] /\ pc'[r] = "idle"
        /\ dirtyTopic'[r] = NoTopicWrites
        /\ \A q \in Request \ {r} :
              pc'[q] = pc[q] /\ arg'[q] = arg[q] /\ dirtyTopic'[q] = dirtyTopic[q]
    BY <1>0, <1>6 DEF Commit, Finish, TypeOK
  <2>2. ASSUME NEW t \in Topic
        PROVE  topic'[t].max_students = topic[t].max_students
    <3> DEFINE base == IF dirtyTopic[r][t] = Clean THEN topic[t] ELSE dirtyTopic[r][t]
    <3>1. base \in TopicRow /\ base.max_students = topic[t].max_students
      BY <1>0 DEF LimitInv, TypeOK, TopicWrite
    <3>2. topic'[t] = IF arg[r].op \in Recounting /\ t = arg[r].topic
                      THEN [base EXCEPT !.registered_students = arg[r].count] ELSE base
      BY <2>1 DEF Stored
    <3> HIDE DEF base
    <3>3. [base EXCEPT !.registered_students = arg[r].count].max_students = base.max_students
      BY <3>1 DEF TopicRow
    <3> QED
      BY <3>1, <3>2, <3>3
  <2>3. ASSUME NEW q \in Request, NEW t \in Topic, dirtyTopic'[q][t] # Clean
        PROVE  dirtyTopic'[q][t].max_students = topic'[t].max_students
    BY <2>1, <2>2, <2>3 DEF LimitInv, NoTopicWrites
  <2>4. ASSUME NEW q \in Request, pc'[q] # "idle"
        PROVE  q # r /\ pc[q] # "idle" /\ arg'[q] = arg[q]
    BY <2>1, <2>4
  <2> QED
    BY <2>2, <2>3, <2>4 DEF LimitInv, LimitSame
<1> QED
  BY <1>2, <1>3, <1>4, <1>5, <1>6 DEF Proceed

LEMMA LimitNext ==
    ASSUME Ops \cap {"update", "force"} = {}
    PROVE  LimitInv /\ [Next]_vars => LimitInv' /\ [LimitKept]_vars
<1> SUFFICES ASSUME LimitInv, [Next]_vars PROVE LimitInv' /\ LimitSame
  <2>1. ASSUME LimitInv, LimitInv', LimitSame
        PROVE  LimitKept
    <3>1. ASSUME NEW t \in Topic
          PROVE  topic'[t].max_students >= topic[t].max_students
      <4>1. topic[t].max_students \in Nat
        BY <2>1 DEF LimitInv, TypeOK, TopicRow
      <4> QED
        BY <2>1, <4>1 DEF LimitSame
    <3> QED
      BY <3>1 DEF LimitKept
  <2> QED
    BY <2>1
<1>0. TypeOK /\ TypeOK'
  BY TypeNext DEF LimitInv
<1>1. ASSUME NEW r \in Request, Arrive(r) PROVE LimitInv' /\ LimitSame
  BY <1>0, <1>1, LimitArrive
<1>2. ASSUME NEW r \in Request, Proceed(r) PROVE LimitInv' /\ LimitSame
  BY <1>0, <1>2, LimitProceed
<1>3. ASSUME NEW r \in Request, Rollback(r) PROVE LimitInv' /\ LimitSame
  <2>1. /\ topic' = topic /\ pc'[r] = "idle" /\ dirtyTopic'[r] = NoTopicWrites
        /\ \A q \in Request \ {r} :
              pc'[q] = pc[q] /\ arg'[q] = arg[q] /\ dirtyTopic'[q] = dirtyTopic[q]
    BY <1>0, <1>3 DEF Rollback, Finish, TypeOK
  <2> QED
    BY <1>0, <2>1 DEF LimitInv, LimitSame, NoTopicWrites
<1>4. CASE Environment \/ UNCHANGED vars
  <2>1. UNCHANGED <<topic, pc, arg, dirtyTopic>>
    BY <1>4 DEF Environment, Expire, Extend, Escalate, vars
  <2> QED
    BY <1>0, <2>1 DEF LimitInv, LimitSame
<1> QED
  BY <1>1, <1>2, <1>3, <1>4 DEF Next

\* Where nobody edits limits (updateTopic and forceUpdate are not used) the bound
\* on overbooking holds in every state.
THEOREM FixedLimitsOverbook ==
    ASSUME SomeRequests, Ops \cap {"update", "force"} = {}
    PROVE  Spec => []OverbookingBounded
<1>1. Init => LimitInv
  <2> SUFFICES ASSUME Init PROVE LimitInv
    OBVIOUS
  <2>1. \A r \in Request : pc[r] = "idle" /\ \A t \in Topic : dirtyTopic[r][t] = Clean
    BY DEF Init, NoTopicWrites
  <2> QED
    BY <2>1, TypeInit DEF LimitInv
<1>2. LimitInv /\ [Next]_vars => LimitInv' /\ [LimitKept]_vars
  BY LimitNext
<1>3. Spec => [][LimitKept]_vars
  BY <1>1, <1>2, PTL DEF Spec
<1>4. Spec /\ [][LimitKept]_vars => []OverbookingBounded
  BY OverlapOverbooks
<1> QED
  BY <1>3, <1>4

-----------------------------------------------------------------------------
(* What the lists and boards show *)

\* A sum of the sizes of sets that share nothing is the size of their union: the k-th
\* pair of an owner goes to the k-th element of what he has.
LEMMA AddedUp ==
    ASSUME NEW owners, NEW n, NEW has, NEW all, IsFiniteSet(all),
           all = UNION {has[q] : q \in owners},
           \A q \in owners : n[q] = Cardinality(has[q]),
           \A p, q \in owners : p # q => has[p] \cap has[q] = {}
    PROVE  Added(n, owners) = Cardinality(all)
<1> DEFINE pairs  == UNION {{q} \X (1 .. n[q]) : q \in owners}
           number == [q \in owners |-> CHOOSE f : f \in Bijection(1 .. n[q], has[q])]
           nth    == [p \in pairs |-> number[p[1]][p[2]]]
<1>1. \A q \in owners : has[q] \subseteq all
  OBVIOUS
<1>2. ASSUME NEW q \in owners
      PROVE  /\ \A i \in 1 .. n[q] : number[q][i] \in has[q]
             /\ \A i, j \in 1 .. n[q] : number[q][i] = number[q][j] => i = j
             /\ \A x \in has[q] : \E i \in 1 .. n[q] : number[q][i] = x
  <2>1. IsFiniteSet(has[q])
    BY <1>1, FS_Subset
  <2>2. ExistsBijection(1 .. n[q], has[q])
    BY <2>1, FS_CardinalityType
  <2>3. number[q] \in Bijection(1 .. n[q], has[q])
    BY <2>2 DEF ExistsBijection
  <2> QED
    BY <2>3 DEF Bijection, Injection, IsInjective, Surjection
<1> HIDE DEF number
<1>3. \A p \in pairs : p[1] \in owners /\ p[2] \in 1 .. n[p[1]] /\ p = <<p[1], p[2]>>
  OBVIOUS
<1>4. nth \in [pairs -> all]
  <2>1. \A p \in pairs : number[p[1]][p[2]] \in all
    BY <1>1, <1>2, <1>3
  <2> QED
    BY <2>1
<1>5. ASSUME NEW p \in pairs, NEW r \in pairs, nth[p] = nth[r]
      PROVE  p = r
  <2>1. nth[p] = number[p[1]][p[2]] /\ nth[r] = number[r[1]][r[2]]
    OBVIOUS
  <2>2. nth[p] \in has[p[1]] /\ nth[r] \in has[r[1]]
    BY <1>2, <1>3, <2>1
  <2>3. p[1] = r[1]
    BY <1>3, <1>5, <2>2
  <2> QED
    BY <1>2, <1>3, <1>5, <2>1, <2>3
<1>6. ASSUME NEW x \in all
      PROVE  \E p \in pairs : nth[p] = x
  <2>1. PICK q \in owners : x \in has[q]
    OBVIOUS
  <2>2. PICK i \in 1 .. n[q] : number[q][i] = x
    BY <1>2, <2>1
  <2>3. <<q, i>> \in pairs
    BY <2>2
  <2> QED
    BY <2>2, <2>3
<1> HIDE DEF nth
<1>7. nth \in Injection(pairs, all) /\ nth \in Surjection(pairs, all)
  BY <1>4, <1>5, <1>6 DEF Injection, IsInjective, Surjection
<1>8. Cardinality(pairs) = Cardinality(all)
  BY <1>7, FS_Injection
<1> QED
  BY <1>8 DEF Added

\* What two sets without a common element count together.
LEMMA CountedApart ==
    ASSUME NEW S, IsFiniteSet(S), NEW T, IsFiniteSet(T), S \cap T = {}
    PROVE  /\ IsFiniteSet(S \cup T)
           /\ Cardinality(S \cup T) = Cardinality(S) + Cardinality(T)
           /\ Cardinality(S) \in Nat /\ Cardinality(T) \in Nat
<1>1. Cardinality(S) \in Nat /\ Cardinality(T) \in Nat
  BY FS_CardinalityType
<1>2. Cardinality(S \cap T) = 0
  BY FS_EmptySet
<1>3. /\ IsFiniteSet(S \cup T)
      /\ Cardinality(S \cup T) = Cardinality(S) + Cardinality(T) - Cardinality(S \cap T)
  BY FS_Union
<1> QED
  BY <1>1, <1>2, <1>3

\* The rows of a topic, counted by two kinds of status.
LEMMA StatusesAddUp ==
    ASSUME NEW t, NEW X, NEW Y, X \cap Y = {}
    PROVE  Cardinality(WithStatus(project, t, X \cup Y))
             = Cardinality(WithStatus(project, t, X)) + Cardinality(WithStatus(project, t, Y))
<1> DEFINE S == WithStatus(project, t, X)
           T == WithStatus(project, t, Y)
<1>1. WithStatus(project, t, X \cup Y) = S \cup T /\ S \cap T = {}
  BY DEF WithStatus
<1>2. IsFiniteSet(S) /\ IsFiniteSet(T)
  BY WithStatusFinite
<1> HIDE DEF S, T
<1>3. Cardinality(S \cup T) = Cardinality(S) + Cardinality(T)
  BY <1>1, <1>2, CountedApart
<1> QED
  BY <1>1, <1>3 DEF S, T

\* The counts of a row of the lists, and their total.
LEMMA SummaryCounts ==
    ASSUME NEW t
    PROVE  LET n == Summary(t)
           IN  /\ \A x \in ProjectStatus : n[x] \in Nat
               /\ Cardinality(Members(project, t)) = n["APPROVED"] + n["ASSIGNED"]
               /\ Cardinality(Occupied(project, t))
                     = n["APPROVED"] + n["ASSIGNED"] + n["WAITING_SECRETARY"]
               /\ Cardinality(WithStatus(project, t, {"PENDING", "WAITING_SECRETARY"}))
                     = n["PENDING"] + n["WAITING_SECRETARY"]
               /\ Total(n) = Cardinality(WithStatus(project, t, ProjectStatus))
               /\ Total(n) = n["APPROVED"] + n["ASSIGNED"] + n["WAITING_SECRETARY"]
                               + n["PENDING"] + n["REJECTED"]
<1> DEFINE n == Summary(t)
           has == [x \in ProjectStatus |-> WithStatus(project, t, {x})]
           with(X) == Cardinality(WithStatus(project, t, X))
<1>1. /\ DOMAIN n = ProjectStatus
      /\ \A x \in ProjectStatus : n[x] = with({x}) /\ n[x] = Cardinality(has[x])
  BY DEF Summary
<1>2. \A X : with(X) \in Nat
  <2>1. IsFiniteSet(Student)
    BY TopicRegistrationAssumption
  <2>2. Cardinality(Student) \in Nat
    BY <2>1, FS_CardinalityType
  <2> QED
    BY <2>2, WithStatusFinite
<1>3. /\ with({"APPROVED"} \cup {"ASSIGNED"}) = with({"APPROVED"}) + with({"ASSIGNED"})
      /\ with({"APPROVED", "ASSIGNED"} \cup {"WAITING_SECRETARY"})
            = with({"APPROVED", "ASSIGNED"}) + with({"WAITING_SECRETARY"})
      /\ with({"PENDING"} \cup {"WAITING_SECRETARY"})
            = with({"PENDING"}) + with({"WAITING_SECRETARY"})
      /\ with({"APPROVED", "ASSIGNED", "WAITING_SECRETARY"} \cup {"PENDING"})
            = with({"APPROVED", "ASSIGNED", "WAITING_SECRETARY"}) + with({"PENDING"})
      /\ with({"APPROVED", "ASSIGNED", "WAITING_SECRETARY", "PENDING"} \cup {"REJECTED"})
            = with({"APPROVED", "ASSIGNED", "WAITING_SECRETARY", "PENDING"}) + with({"REJECTED"})
  <2> HIDE DEF n, has
  <2>1. {"APPROVED"} \cap {"ASSIGNED"} = {}
        /\ {"APPROVED", "ASSIGNED"} \cap {"WAITING_SECRETARY"} = {}
        /\ {"PENDING"} \cap {"WAITING_SECRETARY"} = {}
    OBVIOUS
  <2>2. {"APPROVED", "ASSIGNED", "WAITING_SECRETARY"} \cap {"PENDING"} = {}
        /\ {"APPROVED", "ASSIGNED", "WAITING_SECRETARY", "PENDING"} \cap {"REJECTED"} = {}
    OBVIOUS
  <2> QED
    BY <2>1, <2>2, StatusesAddUp
<1>4. /\ {"APPROVED"} \cup {"ASSIGNED"} = Counted
      /\ {"APPROVED"} \cup {"ASSIGNED"} = {"APPROVED", "ASSIGNED"}
      /\ {"APPROVED", "ASSIGNED"} \cup {"WAITING_SECRETARY"} = SlotOccupying
      /\ {"PENDING"} \cup {"WAITING_SECRETARY"} = {"PENDING", "WAITING_SECRETARY"}
      /\ {"APPROVED", "ASSIGNED"} \cup {"WAITING_SECRETARY"}
            = {"APPROVED", "ASSIGNED", "WAITING_SECRETARY"}
      /\ {"APPROVED", "ASSIGNED", "WAITING_SECRETARY"} \cup {"PENDING"}
            = {"APPROVED", "ASSIGNED", "WAITING_SECRETARY", "PENDING"}
      /\ {"APPROVED", "ASSIGNED", "WAITING_SECRETARY", "PENDING"} \cup {"REJECTED"} = ProjectStatus
  BY DEF Counted, SlotOccupying, ProjectStatus
<1>5. Total(n) = with(ProjectStatus)
  <2> DEFINE all == WithStatus(project, t, ProjectStatus)
  <2>1. IsFiniteSet(all)
    BY WithStatusFinite
  <2>2. all = UNION {has[x] : x \in ProjectStatus}
    BY DEF WithStatus
  <2>3. \A x, y \in ProjectStatus : x # y => has[x] \cap has[y] = {}
    BY DEF WithStatus
  <2>a. \A x \in ProjectStatus : n[x] = Cardinality(has[x])
    BY <1>1
  <2> HIDE DEF n, has, all
  <2>4. Added(n, ProjectStatus) = Cardinality(all)
    BY <2>1, <2>2, <2>3, <2>a, AddedUp
  <2> QED
    BY <1>1, <2>4 DEF Total, all
<1>6. /\ Cardinality(Members(project, t)) = with(Counted)
      /\ Cardinality(Occupied(project, t)) = with(SlotOccupying)
  BY DEF Members, Occupied
<1>7. /\ "APPROVED" \in ProjectStatus /\ "ASSIGNED" \in ProjectStatus
      /\ "WAITING_SECRETARY" \in ProjectStatus /\ "PENDING" \in ProjectStatus
      /\ "REJECTED" \in ProjectStatus
  BY DEF ProjectStatus
<1> HIDE DEF n, has, with
<1>8. \A x \in ProjectStatus : n[x] \in Nat
  BY <1>1, <1>2
<1>9. /\ Cardinality(Members(project, t)) = n["APPROVED"] + n["ASSIGNED"]
      /\ Cardinality(Occupied(project, t))
            = n["APPROVED"] + n["ASSIGNED"] + n["WAITING_SECRETARY"]
      /\ with({"PENDING", "WAITING_SECRETARY"}) = n["PENDING"] + n["WAITING_SECRETARY"]
  BY <1>1, <1>3, <1>4, <1>6, <1>7
<1>10. Total(n) = n["APPROVED"] + n["ASSIGNED"] + n["WAITING_SECRETARY"]
                    + n["PENDING"] + n["REJECTED"]
  BY <1>1, <1>3, <1>4, <1>5, <1>7
<1> QED
  BY <1>5, <1>8, <1>9, <1>10 DEF n, with

\* Lists, once the counter is exact.
LEMMA CountsAgreeNow == TypeOK /\ CounterExact => CountsAgree
<1> SUFFICES ASSUME TypeOK, CounterExact, NEW t \in Topic
             PROVE  LET row == ManagedRow(t)
                    IN  /\ row.registered = row.summary["APPROVED"] + row.summary["ASSIGNED"]
                        /\ row.occupied = row.registered + row.summary["WAITING_SECRETARY"]
                        /\ row.headline[2] = 0 <=> Total(row.summary) = 0
                        /\ TeacherRow(t).canDelete => row.registered = 0
  BY DEF CountsAgree
<1> DEFINE n == Summary(t)
<1>1. /\ n["APPROVED"] \in Nat /\ n["ASSIGNED"] \in Nat /\ n["WAITING_SECRETARY"] \in Nat
      /\ n["PENDING"] \in Nat /\ n["REJECTED"] \in Nat
      /\ Cardinality(Members(project, t)) = n["APPROVED"] + n["ASSIGNED"]
      /\ Cardinality(Occupied(project, t))
            = n["APPROVED"] + n["ASSIGNED"] + n["WAITING_SECRETARY"]
      /\ Total(n) = n["APPROVED"] + n["ASSIGNED"] + n["WAITING_SECRETARY"]
                      + n["PENDING"] + n["REJECTED"]
  BY SummaryCounts DEF ProjectStatus
<1>2. topic[t].registered_students = Cardinality(Members(project, t))
  BY DEF CounterExact, MemberCount
<1>3. /\ ManagedRow(t).registered = topic[t].registered_students
      /\ ManagedRow(t).occupied = Cardinality(Occupied(project, t))
      /\ ManagedRow(t).summary = n /\ ManagedRow(t).headline = Headline(n)
  BY DEF ManagedRow
<1>4. TeacherRow(t).canDelete => Total(n) = 0
  BY <1>3 DEF TeacherRow
<1> HIDE DEF n
<1>5. Headline(n)[2] = 0 <=> Total(n) = 0
  <2>1. CASE Total(n) = 0
    BY <2>1 DEF Headline
  <2>2. CASE Total(n) # 0 /\ n["PENDING"] > 0
    BY <1>1, <2>2 DEF Headline
  <2>3. CASE Total(n) # 0 /\ ~(n["PENDING"] > 0) /\ n["WAITING_SECRETARY"] > 0
    BY <1>1, <2>3 DEF Headline
  <2>4. CASE /\ Total(n) # 0 /\ ~(n["PENDING"] > 0) /\ ~(n["WAITING_SECRETARY"] > 0)
             /\ n["APPROVED"] + n["ASSIGNED"] = 0
    BY <1>1, <2>4 DEF Headline
  <2>5. CASE /\ Total(n) # 0 /\ ~(n["PENDING"] > 0) /\ ~(n["WAITING_SECRETARY"] > 0)
             /\ n["APPROVED"] + n["ASSIGNED"] # 0
    BY <1>1, <2>5 DEF Headline
  <2> QED
    BY <2>1, <2>2, <2>3, <2>4, <2>5
<1>6. ManagedRow(t).registered = n["APPROVED"] + n["ASSIGNED"]
  BY <1>1, <1>2, <1>3
<1>7. ManagedRow(t).occupied = ManagedRow(t).registered + n["WAITING_SECRETARY"]
  BY <1>1, <1>3, <1>6
<1>8. TeacherRow(t).canDelete => ManagedRow(t).registered = 0
  <2> DEFINE a == n["APPROVED"]
             b == n["ASSIGNED"]
             c == n["WAITING_SECRETARY"]
             d == n["PENDING"]
             e == n["REJECTED"]
  <2>1. a \in Nat /\ b \in Nat /\ c \in Nat /\ d \in Nat /\ e \in Nat
    BY <1>1
  <2>2. Total(n) = a + b + c + d + e
    BY <1>1
  <2> HIDE DEF a, b, c, d, e
  <2>4. Total(n) = 0 => a + b = 0
    BY <2>1, <2>2
  <2>3. Total(n) = 0 => n["APPROVED"] + n["ASSIGNED"] = 0
    BY <2>4 DEF a, b
  <2> QED
    BY <1>4, <1>6, <2>3
<1> QED
  BY <1>3, <1>5, <1>6, <1>7, <1>8

\* What the lists offer can be taken.
LEMMA OffersStandNow == TypeOK => OffersStand
<1> SUFFICES ASSUME TypeOK, NEW t \in Topic, NEW s \in Student,
                    MyRegistration(s) # NoRow => MyRegistration(s).status \notin SlotOccupying
             PROVE  /\ t \in Available <=>
                          /\ topic[t].status = "APPROVED" /\ ~topic[t].locked
                          /\ HasCapacity(project, t, topic[t].max_students, 1, {s})
                    /\ t \in Available /\ s \in WithoutTopic =>
                          HasCapacity(project, t, topic[t].max_students, 1, {})
  BY DEF OffersStand
<1> DEFINE occupied == Occupied(project, t)
           max      == topic[t].max_students
<1>1. s \notin occupied
  <2>1. CASE project[s] = NoRow
    BY <2>1 DEF Occupied, WithStatus
  <2>2. CASE project[s] # NoRow
    <3>1. /\ MyRegistration(s) = [status |-> project[s].status, topic |-> project[s].topic,
                                  isLeader |-> project[s].is_leader,
                                  locked |-> topic[project[s].topic].locked]
      BY <2>2 DEF MyRegistration
    <3>2. MyRegistration(s).status = project[s].status
      BY <3>1
    <3>3. MyRegistration(s) \in Answer
      BY <2>2, <3>1 DEF TypeOK, Row, TopicRow, Answer
    <3>4. MyRegistration(s) # NoRow
      BY <3>3, AnswerAssumption
    <3> QED
      BY <3>2, <3>4 DEF Occupied, WithStatus
  <2> QED
    BY <2>1, <2>2
<1>2. occupied \ {s} = occupied /\ occupied \ {} = occupied
  BY <1>1
<1>3. Cardinality(occupied) \in Nat
  BY WithStatusFinite, FS_CardinalityType DEF Occupied
<1>4. max \in Nat
  BY TopicRegistrationAssumption DEF TypeOK, TopicRow
<1>5. t \in Available <=>
         topic[t].status = "APPROVED" /\ ~topic[t].locked /\ Cardinality(occupied) < max
  BY DEF Available, ManagedRow
<1> HIDE DEF occupied, max
<1>6. /\ HasCapacity(project, t, max, 1, {s}) <=> Cardinality(occupied) + 1 <= max
      /\ HasCapacity(project, t, max, 1, {}) <=> Cardinality(occupied) + 1 <= max
  BY <1>2 DEF HasCapacity, occupied
<1> QED
  BY <1>3, <1>4, <1>5, <1>6 DEF max

\* The rows with one of some statuses whose teacher, or whose topic's teacher, is one of F.
AskedOf(F, X) ==
    {s \in Student : project[s] # NoRow /\ project[s].teacher \in F /\ project[s].status \in X}

OnTopicsOf(F, X) ==
    {s \in Student : /\ project[s] # NoRow /\ project[s].status \in X
                     /\ topic[project[s].topic].teacher \in F}

LEMMA AskedFinite ==
    ASSUME NEW F, NEW X
    PROVE  /\ IsFiniteSet(AskedOf(F, X)) /\ IsFiniteSet(OnTopicsOf(F, X))
           /\ ProjectsOf(F, X) = Cardinality(AskedOf(F, X))
           /\ ProjectsOf(F, X) \in Nat
<1>1. AskedOf(F, X) \in SUBSET Student /\ OnTopicsOf(F, X) \in SUBSET Student
  BY DEF AskedOf, OnTopicsOf
<1>2. IsFiniteSet(AskedOf(F, X)) /\ IsFiniteSet(OnTopicsOf(F, X))
  BY <1>1, FS_Subset, TopicRegistrationAssumption
<1>3. ProjectsOf(F, X) = Cardinality(AskedOf(F, X))
  BY DEF ProjectsOf, AskedOf
<1> QED
  BY <1>2, <1>3, FS_CardinalityType

\* An open request stands with the teacher of its topic.
LEMMA AskedOnTopics ==
    ASSUME RequestHasItsTeacher, NEW F, NEW X, "REJECTED" \notin X
    PROVE  OnTopicsOf(F, X) = AskedOf(F, X)
<1>1. \A s \in Student : project[s] # NoRow /\ project[s].status \in X
                           => project[s].teacher = topic[project[s].topic].teacher
  BY DEF RequestHasItsTeacher
<1> QED
  BY <1>1 DEF OnTopicsOf, AskedOf

\* What the boards of the faculties add up to: by statuses, by faculties, by topics and
\* by teachers.
LEMMA AskedByStatus ==
    ASSUME NEW F, NEW X, NEW Y, X \cap Y = {}
    PROVE  ProjectsOf(F, X \cup Y) = ProjectsOf(F, X) + ProjectsOf(F, Y)
<1> DEFINE S == AskedOf(F, X)
           T == AskedOf(F, Y)
<1>1. AskedOf(F, X \cup Y) = S \cup T /\ S \cap T = {}
  BY DEF AskedOf
<1>2. IsFiniteSet(S) /\ IsFiniteSet(T)
  BY AskedFinite
<1>3. /\ ProjectsOf(F, X) = Cardinality(S) /\ ProjectsOf(F, Y) = Cardinality(T)
      /\ ProjectsOf(F, X \cup Y) = Cardinality(S \cup T)
  BY <1>1, AskedFinite
<1> HIDE DEF S, T
<1>4. Cardinality(S \cup T) = Cardinality(S) + Cardinality(T)
  BY <1>1, <1>2, CountedApart
<1> QED
  BY <1>3, <1>4

\* No teacher is on the boards of two faculties, and whoever is on none is outside.
LEMMA StaffApart ==
    ASSUME NEW roster \in Rosters(Teacher)
    PROVE  /\ \A f, g \in Faculty : f # g => Staff(roster, f) \cap Staff(roster, g) = {}
           /\ \A f \in Faculty : Staff(roster, f) \cap Outside(roster) = {}
  BY DEF Staff, TeachersOf, Outside

LEMMA StaffCover ==
    ASSUME NEW roster \in Rosters(Teacher), NEW u \in Teacher, u \notin Outside(roster)
    PROVE  \E f \in Faculty : u \in Staff(roster, f)
  BY DEF Outside, Rosters

LEMMA AskedByFaculty ==
    ASSUME NEW roster \in Rosters(Teacher), NEW X, NEW n,
           \A f \in Faculty : n[f] = ProjectsOf(Staff(roster, f), X)
    PROVE  Added(n, Faculty) + ProjectsOf(Outside(roster), X) = ProjectsOf(Teacher, X)
<1> DEFINE has   == [f \in Faculty |-> AskedOf(Staff(roster, f), X)]
           out   == AskedOf(Outside(roster), X)
           whole == AskedOf(Teacher, X)
           all   == UNION {has[f] : f \in Faculty}
<1>1. /\ \A f \in Faculty : n[f] = Cardinality(has[f])
      /\ ProjectsOf(Outside(roster), X) = Cardinality(out)
      /\ ProjectsOf(Teacher, X) = Cardinality(whole)
      /\ IsFiniteSet(whole) /\ IsFiniteSet(out)
  BY AskedFinite
<1>2. \A f, g \in Faculty : f # g => has[f] \cap has[g] = {}
  BY StaffApart DEF AskedOf
<1>3. all \cap out = {}
  BY StaffApart DEF AskedOf
<1>4. all \cup out = whole
  <2>1. ASSUME NEW s \in whole
        PROVE  s \in all \cup out
    <3>1. project[s].teacher \in Teacher
      BY DEF AskedOf
    <3>2. CASE project[s].teacher \in Outside(roster)
      BY <3>2 DEF AskedOf
    <3>3. CASE project[s].teacher \notin Outside(roster)
      <4>1. PICK f \in Faculty : project[s].teacher \in Staff(roster, f)
        BY <3>1, <3>3, StaffCover
      <4>2. s \in has[f]
        BY <4>1 DEF AskedOf
      <4> QED
        BY <4>2
    <3> QED
      BY <3>2, <3>3
  <2>2. Outside(roster) \subseteq Teacher /\ \A f \in Faculty : Staff(roster, f) \subseteq Teacher
    BY DEF Outside, Staff, TeachersOf, Rosters
  <2>3. all \subseteq whole /\ out \subseteq whole
    BY <2>2 DEF AskedOf
  <2> QED
    BY <2>1, <2>3
<1>5. IsFiniteSet(all)
  <2>1. all \in SUBSET whole
    BY <1>4
  <2> QED
    BY <1>1, <2>1, FS_Subset
<1> HIDE DEF has, out, whole
<1>6. Added(n, Faculty) = Cardinality(all)
  BY <1>1, <1>2, <1>5, AddedUp
<1>7. Cardinality(all \cup out) = Cardinality(all) + Cardinality(out)
  BY <1>1, <1>3, <1>5, CountedApart
<1> QED
  BY <1>1, <1>4, <1>6, <1>7

LEMMA AskedByTopic ==
    ASSUME TypeOK, NEW F, NEW X, NEW n,
           \A t \in Topic : n[t] = Cardinality(WithStatus(project, t, X))
    PROVE  SumTopics(n, F) = Cardinality(OnTopicsOf(F, X))
<1> DEFINE owners == {t \in Topic : topic[t].teacher \in F}
           has    == [t \in owners |-> WithStatus(project, t, X)]
           all    == OnTopicsOf(F, X)
<1>1. IsFiniteSet(all)
  BY AskedFinite
<1>2. all = UNION {has[t] : t \in owners}
  <2>1. ASSUME NEW s \in all
        PROVE  \E t \in owners : s \in has[t]
    <3>1. s \in Student /\ project[s] # NoRow /\ project[s].status \in X
          /\ topic[project[s].topic].teacher \in F
      BY DEF OnTopicsOf
    <3>2. project[s].topic \in owners
      BY <3>1 DEF TypeOK, Row
    <3>3. s \in has[project[s].topic]
      BY <3>1, <3>2 DEF WithStatus
    <3> QED
      BY <3>2, <3>3
  <2>2. ASSUME NEW t \in owners, NEW s \in has[t]
        PROVE  s \in all
    BY DEF WithStatus, OnTopicsOf
  <2> QED
    BY <2>1, <2>2
<1>3. \A t \in owners : n[t] = Cardinality(has[t])
  OBVIOUS
<1>4. \A t, u \in owners : t # u => has[t] \cap has[u] = {}
  BY DEF WithStatus
<1>5. SumTopics(n, F) = Added(n, owners)
  BY DEF SumTopics
<1> HIDE DEF owners, has, all
<1>6. Added(n, owners) = Cardinality(all)
  BY <1>1, <1>2, <1>3, <1>4, AddedUp
<1> QED
  BY <1>5, <1>6 DEF all

LEMMA AskedByTeacher ==
    ASSUME NEW F, NEW X, NEW n, \A u \in F : n[u] = ProjectsOf({u}, X)
    PROVE  Added(n, F) = ProjectsOf(F, X)
<1> DEFINE has == [u \in F |-> AskedOf({u}, X)]
           all == AskedOf(F, X)
<1>1. IsFiniteSet(all) /\ ProjectsOf(F, X) = Cardinality(all)
  BY AskedFinite
<1>2. all = UNION {has[u] : u \in F}
  BY DEF AskedOf
<1>3. \A u \in F : n[u] = Cardinality(has[u])
  BY AskedFinite
<1>4. \A u, v \in F : u # v => has[u] \cap has[v] = {}
  BY DEF AskedOf
<1> HIDE DEF has, all
<1>5. Added(n, F) = Cardinality(all)
  BY <1>1, <1>2, <1>3, <1>4, AddedUp
<1> QED
  BY <1>1, <1>5

LEMMA FewerAsked ==
    ASSUME NEW F, NEW X, NEW Y, X \subseteq Y
    PROVE  ProjectsOf(F, X) <= ProjectsOf(F, Y)
<1> DEFINE S == AskedOf(F, X)
           T == AskedOf(F, Y)
<1>1. S \in SUBSET T
  BY DEF AskedOf
<1>2. IsFiniteSet(T) /\ ProjectsOf(F, X) = Cardinality(S) /\ ProjectsOf(F, Y) = Cardinality(T)
  BY AskedFinite
<1> HIDE DEF S, T
<1> QED
  BY <1>1, <1>2, FS_Subset

\* Requests, when each stands with the teacher of its topic.
LEMMA RequestsShowOnceNow == TypeOK /\ CounterExact /\ RequestHasItsTeacher => RequestsShowOnce
<1> SUFFICES ASSUME TypeOK, CounterExact, RequestHasItsTeacher
             PROVE  RequestsShowOnce
  OBVIOUS
<1>1. /\ \A F : /\ FacultyActions(F).waiting = ProjectsOf(F, {"WAITING_SECRETARY"})
               /\ SecretaryDashboard(F).three.pending = ProjectsOf(F, {"PENDING"})
      /\ AdminDashboard.projects = ProjectsOf(Teacher, ProjectStatus)
  BY DEF FacultyActions, SecretaryDashboard, ThreeCounts, AdminDashboard
<1>2. ASSUME NEW F \in SUBSET Teacher
      PROVE  FacultyActions(F).waiting + SecretaryDashboard(F).three.pending
               = SumTopics([t \in Topic |-> TeacherRow(t).pendingApprovals], F)
  <2> DEFINE n == [t \in Topic |-> TeacherRow(t).pendingApprovals]
             X == {"WAITING_SECRETARY"}
             Y == {"PENDING"}
  <2>1. \A t \in Topic : n[t] = Cardinality(WithStatus(project, t, X \cup Y))
    <3>1. X \cup Y = {"PENDING", "WAITING_SECRETARY"}
      OBVIOUS
    <3> SUFFICES ASSUME NEW t \in Topic
                 PROVE  n[t] = Cardinality(WithStatus(project, t, {"PENDING", "WAITING_SECRETARY"}))
      BY <3>1
    <3>2. n[t] = Summary(t)["PENDING"] + Summary(t)["WAITING_SECRETARY"]
      BY DEF TeacherRow, ManagedRow
    <3> QED
      BY <3>2, SummaryCounts
  <2>2. "REJECTED" \notin X \cup Y /\ X \cap Y = {}
    OBVIOUS
  <2> HIDE DEF n, X, Y
  <2>3. SumTopics(n, F) = Cardinality(OnTopicsOf(F, X \cup Y))
    BY <2>1, AskedByTopic
  <2>4. SumTopics(n, F) = ProjectsOf(F, X \cup Y)
    BY <2>2, <2>3, AskedOnTopics, AskedFinite
  <2>5. SumTopics(n, F) = ProjectsOf(F, X) + ProjectsOf(F, Y)
    BY <2>2, <2>4, AskedByStatus
  <2> QED
    BY <1>1, <2>5 DEF n, X, Y
<1>3. ASSUME NEW F \in SUBSET Teacher
      PROVE  SecretaryDashboard(F).three.pending = Added([u \in F |-> MyPending(u)], F)
  <2> DEFINE n == [t \in Topic |-> Summary(t)["PENDING"]]
             m == [u \in F |-> MyPending(u)]
             X == {"PENDING"}
  <2>1. \A t \in Topic : n[t] = Cardinality(WithStatus(project, t, X))
    BY DEF Summary, ProjectStatus
  <2>2. ASSUME NEW u \in F
        PROVE  m[u] = SumTopics(n, {u})
    BY DEF MyPending, SumTopics
  <2>3. "REJECTED" \notin X
    OBVIOUS
  <2> HIDE DEF n, m, X
  <2>4. ASSUME NEW u \in F
        PROVE  m[u] = ProjectsOf({u}, X)
    <3>1. SumTopics(n, {u}) = Cardinality(OnTopicsOf({u}, X))
      BY <2>1, AskedByTopic
    <3> QED
      BY <2>2, <2>3, <3>1, AskedOnTopics, AskedFinite
  <2>5. Added(m, F) = ProjectsOf(F, X)
    BY <2>4, AskedByTeacher
  <2> QED
    BY <1>1, <2>5 DEF m, X
<1>4. SumTopics([t \in Topic |-> Total(ManagedRow(t).summary)], Teacher) = AdminDashboard.projects
  <2> DEFINE n == [t \in Topic |-> Total(ManagedRow(t).summary)]
  <2>1. \A t \in Topic : n[t] = Cardinality(WithStatus(project, t, ProjectStatus))
    <3> SUFFICES ASSUME NEW t \in Topic
                 PROVE  n[t] = Cardinality(WithStatus(project, t, ProjectStatus))
      OBVIOUS
    <3>1. n[t] = Total(Summary(t))
      BY DEF ManagedRow
    <3> QED
      BY <3>1, SummaryCounts
  <2>2. OnTopicsOf(Teacher, ProjectStatus) = AskedOf(Teacher, ProjectStatus)
    BY DEF OnTopicsOf, AskedOf, TypeOK, Row, TopicRow
  <2> HIDE DEF n
  <2>3. SumTopics(n, Teacher) = Cardinality(OnTopicsOf(Teacher, ProjectStatus))
    BY <2>1, AskedByTopic
  <2> QED
    BY <1>1, <2>2, <2>3, AskedFinite DEF n
<1>5. ASSUME NEW u \in Teacher
      PROVE  LET members == SumTopics([t \in Topic |-> ManagedRow(t).registered], {u})
             IN  /\ Productivity(u).students >= members
                 /\ Cardinality(ProgressScope(u)) + ProjectsOf({u}, {"ASSIGNED"}) = members
  <2> DEFINE n == [t \in Topic |-> ManagedRow(t).registered]
             X == {"APPROVED"}
             Y == {"ASSIGNED"}
  <2>1. \A t \in Topic : n[t] = Cardinality(WithStatus(project, t, X \cup Y))
    <3>1. X \cup Y = Counted
      BY DEF Counted
    <3>2. \A t \in Topic : n[t] = Cardinality(WithStatus(project, t, Counted))
      BY DEF ManagedRow, CounterExact, MemberCount, Members
    <3> QED
      BY <3>1, <3>2
  <2>2. "REJECTED" \notin X \cup Y /\ X \cap Y = {} /\ X \cup Y \subseteq ProjectStatus
    BY DEF ProjectStatus
  <2>3. Productivity(u).students = ProjectsOf({u}, ProjectStatus)
    BY DEF Productivity
  <2>4. ProgressScope(u) = AskedOf({u}, X)
    BY DEF ProgressScope, AskedOf
  <2> HIDE DEF n, X, Y
  <2>5. SumTopics(n, {u}) = Cardinality(OnTopicsOf({u}, X \cup Y))
    BY <2>1, AskedByTopic
  <2>6. SumTopics(n, {u}) = ProjectsOf({u}, X \cup Y)
    BY <2>2, <2>5, AskedOnTopics, AskedFinite
  <2>7. SumTopics(n, {u}) <= ProjectsOf({u}, ProjectStatus)
    BY <2>2, <2>6, FewerAsked
  <2>8. Cardinality(ProgressScope(u)) + ProjectsOf({u}, Y) = SumTopics(n, {u})
    BY <2>2, <2>4, <2>6, AskedByStatus, AskedFinite
  <2>9. Productivity(u).students >= SumTopics(n, {u})
    BY <2>3, <2>6, <2>7, AskedFinite
  <2> QED
    BY <2>8, <2>9 DEF n, Y
<1> QED
  BY <1>2, <1>3, <1>4, <1>5 DEF RequestsShowOnce

\* The topics of a faculty, by status.
LEMMA TopicsByStatus ==
    ASSUME NEW F, NEW X, NEW Y, X \cap Y = {}
    PROVE  /\ TopicsOf(F, X \cup Y) = TopicsOf(F, X) + TopicsOf(F, Y)
           /\ TopicsOf(F, X) \in Nat
<1> DEFINE S == Managed(F, X, ProjectStatus)
           T == Managed(F, Y, ProjectStatus)
<1>1. Managed(F, X \cup Y, ProjectStatus) = S \cup T /\ S \cap T = {}
  BY DEF Managed
<1>2. IsFiniteSet(S) /\ IsFiniteSet(T)
  <2>1. S \in SUBSET Topic /\ T \in SUBSET Topic
    BY DEF Managed
  <2> QED
    BY <2>1, FS_Subset, TopicRegistrationAssumption
<1>3. /\ TopicsOf(F, X) = Cardinality(S) /\ TopicsOf(F, Y) = Cardinality(T)
      /\ TopicsOf(F, X \cup Y) = Cardinality(S \cup T)
  BY <1>1 DEF TopicsOf
<1> HIDE DEF S, T
<1>4. /\ Cardinality(S \cup T) = Cardinality(S) + Cardinality(T)
      /\ Cardinality(S) \in Nat
  BY <1>1, <1>2, CountedApart
<1> QED
  BY <1>3, <1>4

LEMMA TopicsByFaculty ==
    ASSUME TypeOK, NEW roster \in Rosters(Teacher), NEW n,
           \A f \in Faculty : n[f] = TopicsOf(Staff(roster, f), TopicStatus)
    PROVE  Added(n, Faculty) + TopicsOf(Outside(roster), TopicStatus) = Cardinality(Topic)
<1> DEFINE has == [f \in Faculty |-> Managed(Staff(roster, f), TopicStatus, ProjectStatus)]
           out == Managed(Outside(roster), TopicStatus, ProjectStatus)
           all == UNION {has[f] : f \in Faculty}
<1>1. /\ \A f \in Faculty : n[f] = Cardinality(has[f])
      /\ TopicsOf(Outside(roster), TopicStatus) = Cardinality(out)
  BY DEF TopicsOf
<1>2. \A f, g \in Faculty : f # g => has[f] \cap has[g] = {}
  BY StaffApart DEF Managed
<1>3. all \cap out = {}
  BY StaffApart DEF Managed
<1>4. all \cup out = Topic
  <2>1. ASSUME NEW t \in Topic
        PROVE  t \in all \cup out
    <3>1. topic[t].teacher \in Teacher /\ topic[t].status \in TopicStatus
      BY DEF TypeOK, TopicRow
    <3>2. CASE topic[t].teacher \in Outside(roster)
      BY <3>1, <3>2 DEF Managed
    <3>3. CASE topic[t].teacher \notin Outside(roster)
      <4>1. PICK f \in Faculty : topic[t].teacher \in Staff(roster, f)
        BY <3>1, <3>3, StaffCover
      <4>2. t \in has[f]
        BY <3>1, <4>1 DEF Managed
      <4> QED
        BY <4>2
    <3> QED
      BY <3>2, <3>3
  <2>2. all \subseteq Topic /\ out \subseteq Topic
    BY DEF Managed
  <2> QED
    BY <2>1, <2>2
<1>5. IsFiniteSet(all) /\ IsFiniteSet(out)
  BY <1>4, FS_Subset, TopicRegistrationAssumption
<1> HIDE DEF has, out
<1>6. Added(n, Faculty) = Cardinality(all)
  BY <1>1, <1>2, <1>5, AddedUp
<1>7. Cardinality(all \cup out) = Cardinality(all) + Cardinality(out)
  BY <1>3, <1>5, CountedApart
<1> QED
  BY <1>1, <1>4, <1>6, <1>7

\* The totals of the boards that add up three statuses.
LEMMA ThreeStatuses ==
    ASSUME NEW F
    PROVE  /\ CountedStats(F).total = ProjectsOf(F, {"PENDING", "APPROVED", "REJECTED"})
           /\ FacultyOverview(F).total = TopicsOf(F, TopicStatus)
           /\ SecretaryDetail(F).total = TopicsOf(F, TopicStatus)
<1> DEFINE P == {"PENDING"}
           A == {"APPROVED"}
           R == {"REJECTED"}
<1>1. /\ P \cap A = {} /\ (P \cup A) \cap R = {}
      /\ A \cap P = {} /\ (A \cup P) \cap R = {}
  OBVIOUS
<1>2. /\ (P \cup A) \cup R = {"PENDING", "APPROVED", "REJECTED"}
      /\ (A \cup P) \cup R = TopicStatus
  BY DEF TopicStatus
<1>3. CountedStats(F).total = ProjectsOf(F, P) + ProjectsOf(F, A) + ProjectsOf(F, R)
  BY DEF CountedStats, ThreeCounts
<1>4. FacultyOverview(F).total = TopicsOf(F, A) + TopicsOf(F, P) + TopicsOf(F, R)
  BY DEF FacultyOverview, Distribution
<1>5. SecretaryDetail(F).total = FacultyOverview(F).total
  BY DEF SecretaryDetail
<1> HIDE DEF P, A, R
<1>6. ProjectsOf(F, (P \cup A) \cup R) = ProjectsOf(F, P) + ProjectsOf(F, A) + ProjectsOf(F, R)
  <2>1. ProjectsOf(F, P \cup A) = ProjectsOf(F, P) + ProjectsOf(F, A)
    BY <1>1, AskedByStatus
  <2>2. ProjectsOf(F, (P \cup A) \cup R) = ProjectsOf(F, P \cup A) + ProjectsOf(F, R)
    BY <1>1, AskedByStatus
  <2> QED
    BY <2>1, <2>2
<1>7. TopicsOf(F, (A \cup P) \cup R) = TopicsOf(F, A) + TopicsOf(F, P) + TopicsOf(F, R)
  <2>1. TopicsOf(F, A \cup P) = TopicsOf(F, A) + TopicsOf(F, P)
    BY <1>1, TopicsByStatus
  <2>2. TopicsOf(F, (A \cup P) \cup R) = TopicsOf(F, A \cup P) + TopicsOf(F, R)
    BY <1>1, TopicsByStatus
  <2> QED
    BY <2>1, <2>2
<1> QED
  BY <1>2, <1>3, <1>4, <1>5, <1>6, <1>7

\* Faculties, in every state.
LEMMA BoardsAddUpNow == TypeOK => BoardsAddUp
<1> SUFFICES ASSUME TypeOK, NEW roster \in Rosters(Teacher)
             PROVE
        LET out == Outside(roster)
        IN  /\ Added([f \in Faculty |-> UnitStats(Staff(roster, f)).total], Faculty)
                  + ProjectsOf(out, ProjectStatus) = AdminDashboard.projects
            /\ Added([f \in Faculty |-> CountedStats(Staff(roster, f)).total], Faculty)
                  + ProjectsOf(out, {"PENDING", "APPROVED", "REJECTED"}) = AdminDashboard.total
            /\ Added([f \in Faculty |-> FacultyOverview(Staff(roster, f)).total], Faculty)
                  + TopicsOf(out, TopicStatus) = AdminDashboard.topics
  BY DEF BoardsAddUp
<1> DEFINE unit    == [f \in Faculty |-> UnitStats(Staff(roster, f)).total]
           counted == [f \in Faculty |-> CountedStats(Staff(roster, f)).total]
           topics  == [f \in Faculty |-> FacultyOverview(Staff(roster, f)).total]
           three   == {"PENDING", "APPROVED", "REJECTED"}
<1>1. /\ AdminDashboard.projects = ProjectsOf(Teacher, ProjectStatus)
      /\ AdminDashboard.topics = Cardinality(Topic)
      /\ AdminDashboard.total = CountedStats(Teacher).total
  BY DEF AdminDashboard, CountedStats
<1>2. CountedStats(Teacher).total = ProjectsOf(Teacher, three)
  BY ThreeStatuses
<1>3. \A f \in Faculty : unit[f] = ProjectsOf(Staff(roster, f), ProjectStatus)
  BY DEF UnitStats
<1>4. \A f \in Faculty : counted[f] = ProjectsOf(Staff(roster, f), three)
  BY ThreeStatuses
<1>5. \A f \in Faculty : topics[f] = TopicsOf(Staff(roster, f), TopicStatus)
  BY ThreeStatuses
<1> HIDE DEF unit, counted, topics, three
<1>6. Added(unit, Faculty) + ProjectsOf(Outside(roster), ProjectStatus)
        = ProjectsOf(Teacher, ProjectStatus)
  BY <1>3, AskedByFaculty
<1>7. Added(counted, Faculty) + ProjectsOf(Outside(roster), three) = ProjectsOf(Teacher, three)
  BY <1>4, AskedByFaculty
<1>8. Added(topics, Faculty) + TopicsOf(Outside(roster), TopicStatus) = Cardinality(Topic)
  BY <1>5, TopicsByFaculty
<1>9. /\ Added(unit, Faculty) + ProjectsOf(Outside(roster), ProjectStatus) = AdminDashboard.projects
      /\ Added(counted, Faculty) + ProjectsOf(Outside(roster), three) = AdminDashboard.total
      /\ Added(topics, Faculty) + TopicsOf(Outside(roster), TopicStatus) = AdminDashboard.topics
  BY <1>1, <1>2, <1>6, <1>7, <1>8
<1> QED
  BY <1>9 DEF unit, counted, topics, three

\* Two boards of one faculty.
LEMMA BoardsOfOneNow == BoardsOfOneAgree
<1> SUFFICES ASSUME NEW F \in SUBSET Teacher
             PROVE
        /\ UnitStats(F).total - CountedStats(F).total
              = ProjectsOf(F, {"WAITING_SECRETARY", "ASSIGNED"})
        /\ Cardinality(DOMAIN FacultyTopics(F)) = SecretaryDetail(F).total
        /\ Added([u \in F |-> ByTeacher(F)[u].total], F) = UnitStats(F).total
        /\ DetailScoped(F).total <= SecretaryDashboard(F).total
  BY DEF BoardsOfOneAgree
<1> DEFINE three == {"PENDING", "APPROVED", "REJECTED"}
           other == {"WAITING_SECRETARY", "ASSIGNED"}
           n     == [u \in F |-> ByTeacher(F)[u].total]
<1>1. /\ UnitStats(F).total = ProjectsOf(F, ProjectStatus)
      /\ SecretaryDashboard(F).total = ProjectsOf(F, ProjectStatus)
  BY DEF UnitStats, SecretaryDashboard
<1>2. /\ CountedStats(F).total = ProjectsOf(F, three)
      /\ SecretaryDetail(F).total = TopicsOf(F, TopicStatus)
  BY ThreeStatuses
<1>3. DetailScoped(F).total = CountedStats(F).total
  BY DEF DetailScoped
<1>4. Cardinality(DOMAIN FacultyTopics(F)) = TopicsOf(F, TopicStatus)
  BY DEF FacultyTopics, TopicsOf
<1>5. \A u \in F : n[u] = ProjectsOf({u}, ProjectStatus)
  BY DEF ByTeacher
<1>6. three \cup other = ProjectStatus /\ three \cap other = {} /\ three \subseteq ProjectStatus
  BY DEF ProjectStatus
<1> HIDE DEF three, other, n
<1>7. Added(n, F) = ProjectsOf(F, ProjectStatus)
  BY <1>5, AskedByTeacher
<1>8. /\ ProjectsOf(F, three \cup other) = ProjectsOf(F, three) + ProjectsOf(F, other)
      /\ ProjectsOf(F, three) <= ProjectsOf(F, ProjectStatus)
  BY <1>6, AskedByStatus, FewerAsked
<1>9. ProjectsOf(F, three) \in Nat /\ ProjectsOf(F, other) \in Nat
  BY AskedFinite
<1>10. ProjectsOf(F, ProjectStatus) - ProjectsOf(F, three) = ProjectsOf(F, other)
  <2>1. ProjectsOf(F, ProjectStatus) = ProjectsOf(F, three) + ProjectsOf(F, other)
    BY <1>6, <1>8
  <2>2. \A a, b, c : b \in Nat /\ c \in Nat /\ a = b + c => a - b = c
    OBVIOUS
  <2> QED
    BY <1>9, <2>1, <2>2
<1>11. /\ UnitStats(F).total - CountedStats(F).total = ProjectsOf(F, other)
       /\ Cardinality(DOMAIN FacultyTopics(F)) = SecretaryDetail(F).total
       /\ Added(n, F) = UnitStats(F).total
       /\ DetailScoped(F).total <= SecretaryDashboard(F).total
  BY <1>1, <1>2, <1>3, <1>4, <1>7, <1>8, <1>10
<1> QED
  BY <1>11 DEF n, other

LEMMA FacultiesAddUpNow == TypeOK => FacultiesAddUp
  BY BoardsAddUpNow, BoardsOfOneNow DEF FacultiesAddUp

\* With any number of requests in flight at a time: what the list of available topics
\* offers passes the tests of registerTopic, and whatever faculty each teacher belongs to, if
\* any, and whoever of them is deleted, the boards of the faculties add up to the
\* administrator's together with what belongs to the teachers on no faculty's board
\* (listAvailableTopics, the dashboards and the statistics).
THEOREM OffersAndFaculties == Spec => [](OffersStand /\ FacultiesAddUp)
<1>1. TypeOK => OffersStand /\ FacultiesAddUp
  BY OffersStandNow, FacultiesAddUpNow
<1> QED
  BY <1>1, TypeCorrect, PTL

\* With one request in flight at a time the lists and the boards agree in every state, that
\* request waiting in any of its steps and the hourly job running in between: the stored
\* counter stands beside counts that explain it, and a request that is open is counted once
\* on the boards of whoever can answer it.
THEOREM SerialBoards ==
    ASSUME Serial
    PROVE  Spec => [](CountsAgree /\ OffersStand /\ RequestsShowOnce /\ FacultiesAddUp)
<1>1. TypeOK /\ CounterExact /\ RequestHasItsTeacher
        => CountsAgree /\ OffersStand /\ RequestsShowOnce /\ FacultiesAddUp
  BY CountsAgreeNow, OffersStandNow, RequestsShowOnceNow, FacultiesAddUpNow
<1> QED
  BY <1>1, TypeCorrect, SerialCounter, SerialRequestsHaveTheirTeacher, PTL

\* So BoardsAgree, which asks it of the states in which no request is in flight.
THEOREM SerialBoardsAgree ==
    ASSUME Serial
    PROVE  Spec => []BoardsAgree
<1>1. CountsAgree /\ OffersStand /\ RequestsShowOnce /\ FacultiesAddUp => BoardsAgree
  BY DEF BoardsAgree
<1> QED
  BY <1>1, SerialBoards, PTL

=============================================================================
