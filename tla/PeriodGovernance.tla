--------------------------- MODULE PeriodGovernance ---------------------------
(***************************************************************************)
(* Registration periods, the number of topics a teacher may propose in one, *)
(* and the topics themselves: a period is created, opened and closed by the *)
(* secretary or by an hourly job, teachers propose, move and delete topics  *)
(* within their quota, the secretary moderates topics, overrides quotas and *)
(* sets the limits and deadlines of the period.                             *)
(*                                                                          *)
(* A handler that checks before its transaction takes two steps, `read` and *)
(* the write named after it; one that checks inside takes one.  The clock   *)
(* and the job move in between.  Students on a topic and their effects on   *)
(* it are the subject of TopicRegistration, codes are left out.             *)
(***************************************************************************)
EXTENDS FiniteSets, Naturals

CONSTANTS
    Period,         \* registration_periods
    Teacher,        \* teachers, none of them deleted
    MaxTopics,      \* bound on the topics ever created
    DefaultLimit,   \* default_topic_limit of a new configuration
    Ceiling,        \* MAX_TOPIC_LIMIT_CEILING
    Request,        \* handlers that can be in flight at the same time
    Scopes,         \* what the instance exercises, one scope in each behaviour
    NoTopic, NoRow

ASSUME GovernanceAssumption ==
    /\ MaxTopics \in Nat /\ Ceiling \in Nat /\ DefaultLimit \in 0 .. Ceiling
    /\ \A x \in Scopes :
          /\ x.ops \subseteq {"create", "move", "delete", "moderate", "config", "override",
                              "period", "time"}
          /\ x.open \subseteq Period /\ x.steady \subseteq x.open /\ x.who \subseteq Teacher

TopicId      == 1 .. MaxTopics
TopicStatus  == {"PENDING", "APPROVED", "REJECTED"}
PeriodStatus == {"none", "UPCOMING", "OPEN", "CLOSED", "removed"}

Topic == [period : Period, teacher : Teacher, status : TopicStatus, locked : BOOLEAN]

Row == [assigned : 0 .. Ceiling, submitted : 0 .. MaxTopics, sufficient : BOOLEAN,
        override : BOOLEAN]

ASSUME AbsenceAssumption == NoTopic \notin Topic /\ NoRow \notin Row

VARIABLES
    scope,      \* the scope of this behaviour, a bound on it
    period,     \* status of each period
    started,    \* periods whose start_date has come
    creation,   \* periods whose TOPIC_CREATION deadline is disabled or ahead
    over,       \* periods whose enabled FINAL_SUBMISSION deadline has passed
    config,     \* period_governance_configs: default_topic_limit, max_topic_limit
    quota,      \* teacher_quotas rows
    topic,      \* topics rows, by id and so by created_at
    count,      \* topics ever created
    closing,    \* periods the job has listed to close
    pc,         \* where each handler is
    arg         \* its input and the values it read

vars == <<period, started, creation, over, config, quota, topic, count,
          closing, pc, arg, scope>>
clock  == <<started, creation, over>>
rows   == <<quota, topic, count>>

-----------------------------------------------------------------------------
(* What the rows say *)

Topics == {i \in TopicId : topic[i] # NoTopic}

\* Topics of a table `tt` that count against the quota.
UsedIn(tt, p, t) ==
    Cardinality({i \in TopicId : /\ tt[i] # NoTopic
                                 /\ tt[i].period = p /\ tt[i].teacher = t
                                 /\ tt[i].status # "REJECTED"})

Used(p, t) == UsedIn(topic, p, t)

\* getEffectiveQuota: a row counts whether it is an override or not.
Assigned(p, t) ==
    IF quota[p][t] = NoRow THEN config[p].default ELSE quota[p][t].assigned

\* Mutant: the last free place is given twice.
HasQuota_OffByOne(p, t) == Used(p, t) <= Assigned(p, t)

HasQuota(p, t) == Used(p, t) < Assigned(p, t)

\* listTeachersWithQuota: the teachers a topic can still be given to, counted afresh and
\* not from the stored counter.
TeachersWithQuota(p) == {t \in Teacher : Used(p, t) < Assigned(p, t)}

Exists(p) == period[p] \notin {"none", "removed"}

\* A scope names the handlers of a behaviour, the periods that are open when it
\* begins, those of them that neither the secretary nor the clock touches, and the
\* teachers who act.
Governed(p) == p \notin scope.steady

\* assertSingleDeadlineOpen for TOPIC_CREATION
TopicWritable(p) == period[p] = "OPEN" /\ p \in creation

\* ensureGovernanceConfig: the first look at a period creates its configuration.
NewConfig == [default |-> DefaultLimit, max |-> Ceiling]

-----------------------------------------------------------------------------
(* The counter of a teacher's quota row *)

\* The row of teacher t after syncTeacherQuotaCounter on the topics `tt`.
Synced(tt, p, t) ==
    LET n == UsedIn(tt, p, t)
        a == Assigned(p, t)
    IN  [assigned |-> a, submitted |-> n, sufficient |-> n >= a,
         override |-> quota[p][t] # NoRow /\ quota[p][t].override]

\* The topics become `tt`, and the rows of `who` in each of `ps` are synchronised.
StoreTopics(tt, ps, who) ==
    /\ topic' = tt
    /\ quota' = [p \in Period |-> [t \in Teacher |->
                    IF p \in ps /\ t \in who THEN Synced(tt, p, t) ELSE quota[p][t]]]

-----------------------------------------------------------------------------
(* Steps every handler is made of *)

NoArg == [op |-> "none"]

Begin(r, op, step, a) ==
    /\ op \in scope.ops
    /\ pc[r] = "idle"
    /\ pc'  = [pc EXCEPT ![r] = step]
    /\ arg' = [arg EXCEPT ![r] = a]
    /\ UNCHANGED <<period, clock, config, rows, closing>>

Finish(r) ==
    /\ pc'  = [pc EXCEPT ![r] = "idle"]
    /\ arg' = [arg EXCEPT ![r] = NoArg]

Running(r, step) == pc[r] = step

\* A handler whose checks and writes are one transaction.
Once(op) ==
    /\ op \in scope.ops
    /\ \E r \in Request : pc[r] = "idle"
    /\ UNCHANGED <<pc, arg>>

\* A statement fails or the row has gone: the transaction is rolled back.
Fail(r) ==
    /\ pc[r] # "idle"
    /\ Finish(r)
    /\ UNCHANGED <<period, clock, config, rows, closing>>

-----------------------------------------------------------------------------
(* Topics: createTopic, createSupplemental, updateTopic, deleteTopic *)

NewTopic(p, t, extra) ==
    [period |-> p, teacher |-> t, status |-> IF extra THEN "APPROVED" ELSE "PENDING",
     locked |-> FALSE]

AddTopic(p, t, extra) ==
    /\ count < MaxTopics
    /\ count' = count + 1
    /\ StoreTopics([topic EXCEPT ![count + 1] = NewTopic(p, t, extra)], {p}, {t})

CreateRead(r, p, t) ==
    /\ TopicWritable(p) /\ HasQuota(p, t)
    /\ Begin(r, "create", "create", [op |-> "create", period |-> p, teacher |-> t])

CreateTopic(r) ==
    /\ Running(r, "create")
    /\ Exists(arg[r].period)
    /\ AddTopic(arg[r].period, arg[r].teacher, FALSE)
    /\ Finish(r)
    /\ UNCHANGED <<period, clock, config, closing>>

\* The secretary's own topic asks for the quota but for no deadline.
CreateSupplemental(p, t) ==
    /\ Once("create")
    /\ Exists(p) /\ HasQuota(p, t)
    /\ AddTopic(p, t, TRUE)
    /\ UNCHANGED <<period, clock, config, closing>>

\* Mutant: an edit is not held up by the deadline of the period.
MoveRead_AnyTime(r, i, p, edit) ==
    /\ i \in Topics /\ ~topic[i].locked /\ Exists(p)
    /\ Begin(r, "move", "move", [op |-> "move", id |-> i, period |-> p,
                                teacher |-> topic[i].teacher, reopen |-> edit /\ topic[i].status = "APPROVED"])

\* updateTopic, into period p, which may be another one: its deadline is asserted
\* and the quota is not.  An approved topic whose text is edited waits again.
MoveRead(r, i, p, edit) ==
    /\ i \in Topics /\ ~topic[i].locked /\ TopicWritable(p)
    /\ Begin(r, "move", "move", [op |-> "move", id |-> i, period |-> p,
                                teacher |-> topic[i].teacher, reopen |-> edit /\ topic[i].status = "APPROVED"])

\* Only the row of the period the topic comes to is synchronised.
UpdateTopic(r) ==
    /\ Running(r, "move")
    /\ LET a == arg[r]
       IN  /\ a.id \in Topics /\ Exists(a.period)
           /\ StoreTopics([topic EXCEPT ![a.id].period = a.period,
                                        ![a.id].status = IF a.reopen THEN "PENDING" ELSE @],
                          {a.period}, {a.teacher})
    /\ Finish(r)
    /\ UNCHANGED <<period, clock, config, count, closing>>

\* Students on the topic or a code stop its teacher too; neither is in this module.
DeleteRead(r, i) ==
    /\ i \in Topics /\ ~topic[i].locked
    /\ topic[i].status = "PENDING"
    /\ Begin(r, "delete", "delete", [op |-> "delete", id |-> i])

\* The quota row of the teacher keeps its counter.
DeleteTopic(r) ==
    /\ Running(r, "delete")
    /\ arg[r].id \in Topics
    /\ topic' = [topic EXCEPT ![arg[r].id] = NoTopic]
    /\ Finish(r)
    /\ UNCHANGED <<period, clock, config, quota, count, closing>>

-----------------------------------------------------------------------------
(* The secretary on topics: bulkModeration, forceUpdate *)

\* Every teacher concerned is synchronised in every period concerned.
BulkModeration(ids, status) ==
    /\ Once("moderate")
    /\ ids # {}
    /\ StoreTopics([i \in TopicId |-> IF i \in ids THEN [topic[i] EXCEPT !.status = status]
                                       ELSE topic[i]],
                   {topic[i].period : i \in ids}, {topic[i].teacher : i \in ids})
    /\ UNCHANGED <<period, clock, config, count, closing>>

\* Mutant: the teacher who gives the topic away is not synchronised.
ForceUpdate_OneTeacher(i, t, status, locked) ==
    /\ Once("moderate")
    /\ t # topic[i].teacher => HasQuota(topic[i].period, t)
    /\ StoreTopics([topic EXCEPT ![i].teacher = t, ![i].status = status, ![i].locked = locked],
                   {topic[i].period}, {topic[i].teacher})
    /\ UNCHANGED <<period, clock, config, count, closing>>

\* A new supervisor needs a free place; a new status does not ask for one.
ForceUpdate(i, t, status, locked) ==
    /\ Once("moderate")
    /\ t # topic[i].teacher => HasQuota(topic[i].period, t)
    /\ StoreTopics([topic EXCEPT ![i].teacher = t, ![i].status = status, ![i].locked = locked],
                   {topic[i].period}, {topic[i].teacher, t})
    /\ UNCHANGED <<period, clock, config, count, closing>>

-----------------------------------------------------------------------------
(* The secretary on limits: updateConfig, upsertTeacherOverrides, updateTeacherQuota *)

\* updateConfig on the limits: it rolls back when an override is above the new max.
UpdateConfig(p, default, max) ==
    /\ Once("config")
    /\ Governed(p) /\ Exists(p) /\ default <= max /\ max <= Ceiling
    /\ \A t \in Teacher : quota[p][t] # NoRow /\ quota[p][t].override => quota[p][t].assigned <= max
    /\ config' = [config EXCEPT ![p] = [default |-> default, max |-> max]]
    /\ UNCHANGED <<period, clock, rows, closing>>

\* updateConfig on the deadlines: each is moved, or enabled or disabled.
MoveDeadlines(p, writable, passed) ==
    /\ Once("config")
    /\ Governed(p) /\ Exists(p)
    /\ creation' = IF writable THEN creation \cup {p} ELSE creation \ {p}
    /\ over' = IF passed THEN over \cup {p} ELSE over \ {p}
    /\ UNCHANGED <<period, started, config, rows, closing>>

\* An override of n topics: the limit is read and the topics are counted first.
OverrideRead(r, p, t, n) ==
    /\ Exists(p) /\ n <= config[p].max
    /\ Begin(r, "override", "quota", [op |-> "quota", period |-> p, teacher |-> t,
                    row |-> [assigned |-> n, submitted |-> Used(p, t),
                             sufficient |-> Used(p, t) >= n, override |-> TRUE]])

\* deleteTeacherOverride gives the teacher the default of the period.
OverrideDrop(r, p, t) ==
    /\ Exists(p)
    /\ LET n == config[p].default
       IN  Begin(r, "override", "quota", [op |-> "quota", period |-> p, teacher |-> t,
                    row |-> [assigned |-> n, submitted |-> Used(p, t),
                             sufficient |-> Used(p, t) >= n, override |-> FALSE]])

QuotaWrite(r) ==
    /\ Running(r, "quota")
    /\ Exists(arg[r].period)
    /\ quota' = [quota EXCEPT ![arg[r].period][arg[r].teacher] = arg[r].row]
    /\ Finish(r)
    /\ UNCHANGED <<period, clock, config, topic, count, closing>>

-----------------------------------------------------------------------------
(* A period: create, update, openPeriod, closePeriod, remove *)

CreatePeriod(p, begun) ==
    /\ Once("period")
    /\ period[p] = "none"
    /\ period' = [period EXCEPT ![p] = "UPCOMING"]
    /\ started' = IF begun THEN started \cup {p} ELSE started
    /\ UNCHANGED <<creation, over, config, rows, closing>>

\* The status each handler asks for when it reads the period.
PeriodMayChange(p, op) ==
    CASE op = "update" -> period[p] = "UPCOMING"
      [] op = "open"   -> period[p] = "UPCOMING"
      [] op = "close"  -> period[p] = "OPEN"
      [] op = "remove" -> Exists(p)

PeriodRead(r, p, op) ==
    /\ Governed(p) /\ PeriodMayChange(p, op)
    /\ Begin(r, "period", op, [op |-> op, period |-> p])

\* update stores a start_date that has come or not.
UpdatePeriod(r, begun) ==
    /\ Running(r, "update")
    /\ LET p == arg[r].period
       IN  /\ Exists(p)
           /\ started' = IF begun THEN started \cup {p} ELSE started \ {p}
    /\ Finish(r)
    /\ UNCHANGED <<period, creation, over, config, rows, closing>>

SetStatus(r) ==
    /\ \/ Running(r, "open")
       \/ Running(r, "close")
    /\ Exists(arg[r].period)
    /\ period' = [period EXCEPT ![arg[r].period] = IF pc[r] = "open" THEN "OPEN" ELSE "CLOSED"]
    /\ Finish(r)
    /\ UNCHANGED <<clock, config, rows, closing>>

\* Mutant: the topics stay behind when the period goes.
RemovePeriod_KeepsTopics(r) ==
    /\ Running(r, "remove")
    /\ LET p == arg[r].period
       IN  /\ Exists(p)
           /\ period' = [period EXCEPT ![p] = "removed"]
           /\ quota' = [quota EXCEPT ![p] = [t \in Teacher |-> NoRow]]
    /\ Finish(r)
    /\ UNCHANGED <<clock, config, topic, count, closing>>

\* The topics, quota rows, configuration and deadlines of the period go with it.
RemovePeriod(r) ==
    /\ Running(r, "remove")
    /\ LET p == arg[r].period
       IN  /\ Exists(p)
           /\ period' = [period EXCEPT ![p] = "removed"]
           /\ topic' = [i \in TopicId |-> IF i \in Topics /\ topic[i].period = p
                                           THEN NoTopic ELSE topic[i]]
           /\ quota' = [quota EXCEPT ![p] = [t \in Teacher |-> NoRow]]
           /\ config' = [config EXCEPT ![p] = NewConfig]
           /\ started' = started \ {p} /\ creation' = creation \cup {p} /\ over' = over \ {p}
    /\ Finish(r)
    /\ UNCHANGED <<count, closing>>

-----------------------------------------------------------------------------
(* The hourly job updatePeriodStatuses: it opens, then lists, then closes *)

ToOpen == {p \in started : period[p] = "UPCOMING"}

\* Mutant: the job is done when it had nothing to open.
JobOpens_ReturnsEarly ==
    /\ closing = {}
    /\ ToOpen # {}
    /\ period' = [p \in Period |-> IF p \in ToOpen THEN "OPEN" ELSE period[p]]
    /\ closing' = over
    /\ UNCHANGED <<clock, config, rows, pc, arg>>

JobOpens ==
    /\ closing = {}
    /\ ToOpen # {} \/ \E p \in over : period[p] = "OPEN"
    /\ period' = [p \in Period |-> IF p \in ToOpen THEN "OPEN" ELSE period[p]]
    /\ closing' = over
    /\ UNCHANGED <<clock, config, rows, pc, arg>>

JobCloses ==
    /\ closing # {}
    /\ period' = [p \in Period |-> IF p \in closing /\ period[p] = "OPEN" THEN "CLOSED"
                                   ELSE period[p]]
    /\ closing' = {}
    /\ UNCHANGED <<clock, config, rows, pc, arg>>

\* Time passes: a start_date or a deadline comes.  Only an UPCOMING period's start
\* is ever looked at.
Tick(p) ==
    /\ "time" \in scope.ops
    /\ Governed(p) /\ Exists(p)
    /\ \/ period[p] = "UPCOMING" /\ started' = started \cup {p} /\ UNCHANGED <<creation, over>>
       \/ creation' = creation \ {p} /\ UNCHANGED <<started, over>>
       \/ over' = over \cup {p} /\ UNCHANGED <<started, creation>>
    /\ UNCHANGED <<period, config, rows, closing, pc, arg>>

-----------------------------------------------------------------------------
(* The specification *)

Init ==
    /\ scope \in Scopes
    /\ period = [p \in Period |-> IF p \in scope.open THEN "OPEN" ELSE "none"]
    /\ started = {} /\ over = {} /\ creation = Period
    /\ config = [p \in Period |-> NewConfig]
    /\ quota = [p \in Period |-> [t \in Teacher |-> NoRow]]
    /\ topic = [i \in TopicId |-> NoTopic]
    /\ count = 0
    /\ closing = {}
    /\ pc = [r \in Request |-> "idle"] /\ arg = [r \in Request |-> NoArg]

Arrive(r) ==
    \/ \E p \in Period, t \in scope.who :
          \/ CreateRead(r, p, t)
          \/ OverrideDrop(r, p, t)
          \/ \E n \in 0 .. Ceiling : OverrideRead(r, p, t, n)
    \/ \E i \in Topics : DeleteRead(r, i)
    \/ \E i \in Topics, p \in Period, edit \in BOOLEAN : MoveRead(r, i, p, edit)
    \/ \E p \in Period, op \in {"update", "open", "close", "remove"} : PeriodRead(r, p, op)

Proceed(r) ==
    \/ CreateTopic(r)
    \/ UpdateTopic(r)
    \/ DeleteTopic(r)
    \/ QuotaWrite(r)
    \/ SetStatus(r)
    \/ RemovePeriod(r)
    \/ \E begun \in BOOLEAN : UpdatePeriod(r, begun)

InOneStep ==
    \/ \E p \in Period, t \in scope.who : CreateSupplemental(p, t)
    \/ \E ids \in SUBSET Topics, status \in {"APPROVED", "REJECTED"} : BulkModeration(ids, status)
    \/ \E i \in Topics, t \in scope.who, status \in TopicStatus, locked \in BOOLEAN :
          ForceUpdate(i, t, status, locked)
    \/ \E p \in Period, default, max \in 0 .. Ceiling : UpdateConfig(p, default, max)
    \/ \E p \in Period, writable, passed \in BOOLEAN : MoveDeadlines(p, writable, passed)
    \/ \E p \in Period, begun \in BOOLEAN : CreatePeriod(p, begun)

Job == JobOpens \/ JobCloses

Next ==
    \/ \E r \in Request : Arrive(r) \/ Proceed(r) \/ Fail(r)
    \/ InOneStep
    \/ Job
    \/ \E p \in Period : Tick(p)

Spec == Init /\ [][Next /\ UNCHANGED scope]_vars

\* The job runs every hour, and a handler ends: with an answer or with an error.
FairSpec ==
    /\ Spec
    /\ WF_vars(JobOpens /\ UNCHANGED scope) /\ WF_vars(JobCloses /\ UNCHANGED scope)
    /\ \A r \in Request : WF_vars((Proceed(r) \/ Fail(r)) /\ UNCHANGED scope)

-----------------------------------------------------------------------------
(* Properties *)

\* The variables have their types, a row's status follows from its numbers and a
\* topic belongs to a period that exists.
TypeOK ==
    /\ period \in [Period -> PeriodStatus]
    /\ started \subseteq Period /\ creation \subseteq Period /\ over \subseteq Period
    /\ closing \subseteq Period
    /\ config \in [Period -> [default : 0 .. Ceiling, max : 0 .. Ceiling]]
    /\ quota \in [Period -> [Teacher -> Row \cup {NoRow}]]
    /\ topic \in [TopicId -> Topic \cup {NoTopic}]
    /\ count \in 0 .. MaxTopics
    /\ \A i \in Topics : i <= count /\ Exists(topic[i].period)

\* With handlers one after the other the counter of a quota row is never behind the
\* topics of the teacher, its status is what its numbers say, a teacher with a topic in
\* the period has a row (syncTeacherQuotaCounter after every write), and no override lies
\* above the limit of its period, whichever of the two was written last (the comment of
\* updateConfig: an old override cannot be above the new limit).  Whoever lacks topics by
\* his stored counter is on the list that counts them afresh (listTeachersWithQuota).
QuotaRowsSound ==
    \A p \in Period, t \in Teacher :
        IF quota[p][t] = NoRow THEN Used(p, t) = 0
        ELSE /\ quota[p][t].submitted >= Used(p, t)
             /\ quota[p][t].sufficient <=> quota[p][t].submitted >= quota[p][t].assigned
             /\ quota[p][t].override => quota[p][t].assigned <= config[p].max
             /\ ~quota[p][t].sufficient => t \in TeachersWithQuota(p)

TopicsGiven ==
    \A i \in TopicId :
        /\ topic'[i] # NoTopic
        /\ topic[i] = NoTopic \/ topic'[i].teacher # topic[i].teacher
        => LET p == topic'[i].period
               t == topic'[i].teacher
           IN  UsedIn(topic', p, t) <= (IF quota'[p][t] = NoRow THEN config'[p].default
                                        ELSE quota'[p][t].assigned)

\* A topic that is created, or given to a teacher, leaves the teacher who gets it
\* within his quota (assertTopicWritable, createSupplemental and forceUpdate).
GivenWithinQuota == [][TopicsGiven]_vars

\* The job opens a period whose start has come and closes it when the final deadline
\* has passed, for good, whatever stale request meddles in between.
PeriodsKeepTime ==
    \A p \in Period :
        /\ <>[](p \in started) => <>[](period[p] # "UPCOMING")
        /\ <>[](p \in over)    => <>[](period[p] # "OPEN")

\* Once a period is closed for good, no topic of a teacher enters it after a while, be
\* it by createTopic or by updateTopic from another period.
TopicsEndWithPeriod ==
    \A p \in Period :
        <>[](period[p] = "CLOSED")
        => <>[][~\E r \in Request : /\ arg[r] # NoArg /\ arg[r].op \in {"create", "move"}
                                    /\ arg[r].period = p /\ topic' # topic]_vars

=============================================================================
