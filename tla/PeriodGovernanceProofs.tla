------------------------ MODULE PeriodGovernanceProofs ------------------------
(* Theorems of PeriodGovernance, for any number of periods, teachers and topics, *)
(* whatever the limits, with the hourly job and the clock at any moment.         *)
EXTENDS PeriodGovernance, FiniteSetTheorems, TLAPS

-----------------------------------------------------------------------------
(* Counting topics *)

Counts(tt, i, p, t) ==
    tt[i] # NoTopic /\ tt[i].period = p /\ tt[i].teacher = t /\ tt[i].status # "REJECTED"

CountedIn(tt, p, t) == {i \in TopicId : Counts(tt, i, p, t)}

LEMMA UsedIsCounted ==
    ASSUME NEW tt, NEW p, NEW t
    PROVE  UsedIn(tt, p, t) = Cardinality(CountedIn(tt, p, t))
BY DEF UsedIn, CountedIn, Counts

LEMMA CountedFinite ==
    ASSUME NEW S \in SUBSET TopicId
    PROVE  IsFiniteSet(S) /\ Cardinality(S) \in 0 .. MaxTopics
<1>1. IsFiniteSet(TopicId) /\ Cardinality(TopicId) = MaxTopics
  BY FS_Interval, GovernanceAssumption DEF TopicId
<1>2. IsFiniteSet(S) /\ Cardinality(S) <= MaxTopics
  BY <1>1, FS_Subset
<1> QED
  BY <1>2, FS_CardinalityType, GovernanceAssumption

LEMMA UsedType ==
    ASSUME NEW tt, NEW p, NEW t
    PROVE  UsedIn(tt, p, t) \in 0 .. MaxTopics
<1>1. CountedIn(tt, p, t) \in SUBSET TopicId
  BY DEF CountedIn
<1> QED
  BY <1>1, CountedFinite, UsedIsCounted

\* A table whose counted topics another one counts too does not count more.
LEMMA UsedFewer ==
    ASSUME NEW tt, NEW uu, NEW p, NEW t,
           \A i \in TopicId : Counts(uu, i, p, t) => Counts(tt, i, p, t)
    PROVE  UsedIn(uu, p, t) <= UsedIn(tt, p, t)
<1>1. CountedIn(uu, p, t) \in SUBSET CountedIn(tt, p, t) /\ CountedIn(tt, p, t) \in SUBSET TopicId
  BY DEF CountedIn
<1> QED
  BY <1>1, CountedFinite, FS_Subset, UsedIsCounted

\* Nor by more than one when they differ in one topic.
LEMMA UsedOneMore ==
    ASSUME NEW tt, NEW uu, NEW p, NEW t, NEW i \in TopicId,
           \A j \in TopicId \ {i} : uu[j] = tt[j]
    PROVE  UsedIn(uu, p, t) <= UsedIn(tt, p, t) + 1
<1> DEFINE S == CountedIn(tt, p, t)
           U == CountedIn(uu, p, t)
<1>1. U \in SUBSET (S \cup {i}) /\ S \in SUBSET TopicId
  BY DEF CountedIn, Counts
<1>2. /\ IsFiniteSet(S) /\ Cardinality(S) \in Nat
      /\ IsFiniteSet(S \cup {i}) /\ Cardinality(S \cup {i}) <= Cardinality(S) + 1
  BY <1>1, CountedFinite, FS_AddElement
<1>3. Cardinality(U) <= Cardinality(S \cup {i}) /\ IsFiniteSet(U)
  BY <1>1, <1>2, FS_Subset
<1>4. Cardinality(U) \in Nat /\ Cardinality(S \cup {i}) \in Nat
  BY <1>2, <1>3, FS_CardinalityType
<1> QED
  BY <1>2, <1>3, <1>4, UsedIsCounted

\* A table without topics of a period counts none of them.
LEMMA UsedNone ==
    ASSUME NEW tt, NEW p, NEW t, \A i \in TopicId : tt[i] # NoTopic => tt[i].period # p
    PROVE  UsedIn(tt, p, t) = 0
<1>1. CountedIn(tt, p, t) = {}
  BY DEF CountedIn, Counts
<1> QED
  BY <1>1, FS_EmptySet, UsedIsCounted

-----------------------------------------------------------------------------
(* Types *)

CreateArg == [op : {"create"}, period : Period, teacher : Teacher]
MoveArg   == [op : {"move"}, id : TopicId, period : Period, teacher : Teacher, reopen : BOOLEAN]
DeleteArg == [op : {"delete"}, id : TopicId]
QuotaArg  == [op : {"quota"}, period : Period, teacher : Teacher, row : Row]
PeriodArg == [op : {"update", "open", "close", "remove"}, period : Period]

PeriodSteps == {"update", "open", "close", "remove"}

\* What a handler at each of its places has read.
ArgsPlaced ==
    \A r \in Request :
        /\ pc[r] = "create"       => arg[r] \in CreateArg
        /\ pc[r] = "move"         => arg[r] \in MoveArg
        /\ pc[r] = "delete"       => arg[r] \in DeleteArg
        /\ pc[r] = "quota"        => arg[r] \in QuotaArg
        /\ pc[r] \in PeriodSteps  => arg[r] \in PeriodArg

Handlers ==
    /\ scope \in Scopes
    /\ pc \in [Request -> {"idle", "create", "move", "delete", "quota"} \cup PeriodSteps]
    /\ DOMAIN arg = Request /\ arg = [r \in Request |-> arg[r]]
    /\ ArgsPlaced

TypeInv == TypeOK /\ Handlers

LEMMA TypeInit == Init => TypeInv
<1> SUFFICES ASSUME Init PROVE TypeInv
  OBVIOUS
<1>1. scope.open \subseteq Period
  BY GovernanceAssumption DEF Init
<1>2. NewConfig \in [default : 0 .. Ceiling, max : 0 .. Ceiling]
  BY GovernanceAssumption DEF NewConfig
<1>3. TypeOK
  BY <1>1, <1>2, GovernanceAssumption DEF Init, TypeOK, PeriodStatus, Topics
<1>4. Handlers
  BY DEF Init, Handlers, ArgsPlaced, PeriodSteps
<1> QED
  BY <1>3, <1>4 DEF TypeInv

LEMMA RowFields ==
    ASSUME NEW a \in 0 .. Ceiling, NEW n \in 0 .. MaxTopics, NEW b \in BOOLEAN, NEW o \in BOOLEAN
    PROVE  LET row == [assigned |-> a, submitted |-> n, sufficient |-> b, override |-> o]
           IN  /\ row \in Row
               /\ row.assigned = a /\ row.submitted = n
               /\ row.sufficient = b /\ row.override = o
BY DEF Row

\* The row the counter writes is well formed.
LEMMA SyncedType ==
    ASSUME TypeOK, NEW tt, NEW p \in Period, NEW t \in Teacher
    PROVE  /\ Synced(tt, p, t) \in Row
           /\ Synced(tt, p, t).assigned = Assigned(p, t)
           /\ Synced(tt, p, t).submitted = UsedIn(tt, p, t)
           /\ Synced(tt, p, t).sufficient = (UsedIn(tt, p, t) >= Assigned(p, t))
           /\ Synced(tt, p, t).override = (quota[p][t] # NoRow /\ quota[p][t].override)
<1> DEFINE n == UsedIn(tt, p, t)
           a == Assigned(p, t)
           b == n >= a
           o == quota[p][t] # NoRow /\ quota[p][t].override
<1>1. n \in 0 .. MaxTopics
  BY UsedType
<1>2. quota[p][t] \in Row \cup {NoRow} /\ config[p].default \in 0 .. Ceiling
  BY DEF TypeOK
<1>3. a \in 0 .. Ceiling
  BY <1>2 DEF Assigned, Row
<1>4. o \in BOOLEAN
  BY <1>2 DEF Row
<1>5. b \in BOOLEAN
  OBVIOUS
<1>6. Synced(tt, p, t) = [assigned |-> a, submitted |-> n, sufficient |-> b, override |-> o]
  BY DEF Synced
<1> HIDE DEF n, a, b, o
<1>7. /\ Synced(tt, p, t) \in Row
      /\ Synced(tt, p, t).assigned = a /\ Synced(tt, p, t).submitted = n
      /\ Synced(tt, p, t).sufficient = b /\ Synced(tt, p, t).override = o
  BY <1>1, <1>3, <1>4, <1>5, <1>6, RowFields
<1> QED
  BY <1>7, Zenon DEF n, a, b, o

LEMMA StoreType ==
    ASSUME TypeOK, NEW tt, NEW ps, NEW who, StoreTopics(tt, ps, who)
    PROVE  quota' \in [Period -> [Teacher -> Row \cup {NoRow}]]
<1>1. ASSUME NEW p \in Period, NEW t \in Teacher
      PROVE  (IF p \in ps /\ t \in who THEN Synced(tt, p, t) ELSE quota[p][t]) \in Row \cup {NoRow}
  BY <1>1, SyncedType DEF TypeOK
<1> QED
  BY <1>1 DEF StoreTopics

Steps == {"idle", "create", "move", "delete", "quota"} \cup PeriodSteps

Placed(step, a) ==
    /\ step = "create"       => a \in CreateArg
    /\ step = "move"         => a \in MoveArg
    /\ step = "delete"       => a \in DeleteArg
    /\ step = "quota"        => a \in QuotaArg
    /\ step \in PeriodSteps  => a \in PeriodArg

\* A handler that arrives, or ends, leaves the others where they are.
LEMMA HandlersMove ==
    ASSUME Handlers, scope' = scope, NEW r \in Request, NEW step \in Steps, NEW a, Placed(step, a),
           pc' = [pc EXCEPT ![r] = step], arg' = [arg EXCEPT ![r] = a]
    PROVE  Handlers'
BY DEF Handlers, ArgsPlaced, Placed, Steps

LEMMA HandlersEnd ==
    ASSUME Handlers, scope' = scope, NEW r \in Request, Finish(r)
    PROVE  Handlers'
<1>1. Placed("idle", NoArg) /\ "idle" \in Steps
  BY DEF Placed, Steps, PeriodSteps
<1> QED
  BY <1>1, HandlersMove DEF Finish

LEMMA HandlersStay ==
    ASSUME Handlers, scope' = scope, UNCHANGED <<pc, arg>>
    PROVE  Handlers'
BY DEF Handlers, ArgsPlaced

Tables == <<period, clock, config, rows, closing>>

LEMMA TypeTablesStay ==
    ASSUME TypeOK, UNCHANGED Tables
    PROVE  TypeOK'
BY DEF TypeOK, Tables, clock, rows, Topics, Exists

LEMMA TypeBegin ==
    ASSUME TypeInv, scope' = scope, NEW r \in Request, NEW op, NEW step \in Steps, NEW a,
           Placed(step, a), Begin(r, op, step, a)
    PROVE  TypeInv'
<1>1. Handlers'
  BY HandlersMove DEF Begin, TypeInv
<1>2. TypeOK'
  BY TypeTablesStay DEF Begin, TypeInv, Tables
<1> QED
  BY <1>1, <1>2 DEF TypeInv

LEMMA Placements ==
    /\ Steps = {"idle", "create", "move", "delete", "quota", "update", "open", "close", "remove"}
    /\ \A a \in CreateArg : Placed("create", a)
    /\ \A a \in MoveArg : Placed("move", a)
    /\ \A a \in DeleteArg : Placed("delete", a)
    /\ \A a \in QuotaArg : Placed("quota", a)
    /\ \A step \in PeriodSteps : \A a \in PeriodArg : Placed(step, a)
BY DEF Steps, PeriodSteps, Placed

LEMMA WhoAreTeachers == ASSUME TypeInv PROVE scope.who \subseteq Teacher
BY GovernanceAssumption DEF TypeInv, Handlers

LEMMA TypeArrive ==
    ASSUME TypeInv, scope' = scope, NEW r \in Request, Arrive(r)
    PROVE  TypeInv'
<1>1. ASSUME NEW p \in Period, NEW t \in scope.who, CreateRead(r, p, t)
      PROVE  TypeInv'
  <2>1. [op |-> "create", period |-> p, teacher |-> t] \in CreateArg
    BY WhoAreTeachers DEF CreateArg
  <2> QED
    BY <1>1, <2>1, TypeBegin, Placements DEF CreateRead
<1>2. ASSUME NEW p \in Period, NEW t \in scope.who, OverrideDrop(r, p, t)
      PROVE  TypeInv'
  <2> DEFINE n == config[p].default
             b == Used(p, t) >= n
  <2>1. n \in 0 .. Ceiling /\ Used(p, t) \in 0 .. MaxTopics /\ b \in BOOLEAN
    BY UsedType DEF TypeInv, TypeOK, Used
  <2> DEFINE a == [op |-> "quota", period |-> p, teacher |-> t,
                   row |-> [assigned |-> n, submitted |-> Used(p, t), sufficient |-> b,
                            override |-> FALSE]]
  <2>2. [assigned |-> n, submitted |-> Used(p, t), sufficient |-> b, override |-> FALSE] \in Row
    BY <2>1, RowFields
  <2>3. a \in QuotaArg
    BY <2>2, WhoAreTeachers DEF QuotaArg
  <2>4. Begin(r, "override", "quota", a)
    BY <1>2 DEF OverrideDrop
  <2> QED
    BY <2>3, <2>4, TypeBegin, Placements
<1>3. ASSUME NEW p \in Period, NEW t \in scope.who, NEW n \in 0 .. Ceiling, OverrideRead(r, p, t, n)
      PROVE  TypeInv'
  <2> DEFINE b == Used(p, t) >= n
  <2>1. Used(p, t) \in 0 .. MaxTopics /\ b \in BOOLEAN
    BY UsedType DEF Used
  <2> DEFINE a == [op |-> "quota", period |-> p, teacher |-> t,
                   row |-> [assigned |-> n, submitted |-> Used(p, t), sufficient |-> b,
                            override |-> TRUE]]
  <2>2. [assigned |-> n, submitted |-> Used(p, t), sufficient |-> b, override |-> TRUE] \in Row
    BY <2>1, RowFields
  <2>3. a \in QuotaArg
    BY <2>2, WhoAreTeachers DEF QuotaArg
  <2>4. Begin(r, "override", "quota", a)
    BY <1>3 DEF OverrideRead
  <2> QED
    BY <2>3, <2>4, TypeBegin, Placements
<1>4. ASSUME NEW i \in Topics, DeleteRead(r, i)
      PROVE  TypeInv'
  <2>1. [op |-> "delete", id |-> i] \in DeleteArg
    BY DEF DeleteArg, Topics
  <2> QED
    BY <1>4, <2>1, TypeBegin, Placements DEF DeleteRead
<1>5. ASSUME NEW i \in Topics, NEW p \in Period, NEW edit \in BOOLEAN, MoveRead(r, i, p, edit)
      PROVE  TypeInv'
  <2>1. i \in TopicId /\ topic[i] \in Topic
    BY DEF Topics, TypeInv, TypeOK
  <2> DEFINE b == edit /\ topic[i].status = "APPROVED"
             a == [op |-> "move", id |-> i, period |-> p, teacher |-> topic[i].teacher, reopen |-> b]
  <2>2. b \in BOOLEAN /\ topic[i].teacher \in Teacher
    BY <2>1 DEF Topic
  <2> HIDE DEF b
  <2>3. a \in MoveArg
    BY <2>1, <2>2 DEF MoveArg
  <2>4. Begin(r, "move", "move", a)
    BY <1>5 DEF MoveRead, b
  <2> QED
    BY <2>3, <2>4, TypeBegin, Placements
<1>6. ASSUME NEW p \in Period, NEW op \in {"update", "open", "close", "remove"}, PeriodRead(r, p, op)
      PROVE  TypeInv'
  <2>1. [op |-> op, period |-> p] \in PeriodArg /\ op \in PeriodSteps /\ op \in Steps
    BY DEF PeriodArg, PeriodSteps, Steps
  <2>2. Placed(op, [op |-> op, period |-> p])
    BY <2>1, Placements
  <2> QED
    BY <1>6, <2>1, <2>2, TypeBegin DEF PeriodRead
<1> QED
  BY <1>1, <1>2, <1>3, <1>4, <1>5, <1>6 DEF Arrive

\* Storing topics of periods that exist keeps the tables well formed.
LEMMA TypeStore ==
    ASSUME TypeOK, NEW tt, NEW ps, NEW who, StoreTopics(tt, ps, who),
           tt \in [TopicId -> Topic \cup {NoTopic}], count' \in 0 .. MaxTopics,
           \A i \in TopicId : tt[i] # NoTopic => i <= count' /\ Exists(tt[i].period),
           UNCHANGED <<period, clock, config, closing>>
    PROVE  TypeOK'
<1>1. quota' \in [Period -> [Teacher -> Row \cup {NoRow}]]
  BY StoreType
<1>2. topic' = tt
  BY DEF StoreTopics
<1> QED
  BY <1>1, <1>2 DEF TypeOK, clock, Topics, Exists

LEMMA TypeAdd ==
    ASSUME TypeOK, NEW p \in Period, NEW t \in Teacher, NEW extra \in BOOLEAN, Exists(p),
           AddTopic(p, t, extra), UNCHANGED <<period, clock, config, closing>>
    PROVE  TypeOK'
<1> DEFINE tt == [topic EXCEPT ![count + 1] = NewTopic(p, t, extra)]
<1>1. NewTopic(p, t, extra) \in Topic /\ NewTopic(p, t, extra).period = p
  BY DEF NewTopic, Topic, TopicStatus
<1>2. count \in 0 .. MaxTopics /\ count < MaxTopics /\ count' = count + 1 /\ count + 1 \in TopicId
  BY GovernanceAssumption DEF AddTopic, TypeOK, TopicId
<1>3. tt \in [TopicId -> Topic \cup {NoTopic}]
  BY <1>1, <1>2 DEF TypeOK
<1>4. \A i \in TopicId : tt[i] # NoTopic => i <= count' /\ Exists(tt[i].period)
  BY <1>1, <1>2 DEF TypeOK, Topics, TopicId
<1>5. StoreTopics(tt, {p}, {t})
  BY DEF AddTopic
<1>6. count' \in 0 .. MaxTopics
  BY <1>2, GovernanceAssumption
<1> HIDE DEF tt
<1> QED
  BY <1>3, <1>4, <1>5, <1>6, TypeStore

\* The topics of a table differ from the stored ones in columns that keep the type.
LEMMA TypeEdit ==
    ASSUME TypeOK, NEW tt, NEW ps, NEW who, StoreTopics(tt, ps, who), DOMAIN tt = TopicId,
           tt = [i \in TopicId |-> tt[i]],
           \A i \in TopicId : \/ tt[i] = topic[i]
                              \/ i \in Topics /\ tt[i] \in Topic /\ Exists(tt[i].period),
           UNCHANGED <<period, clock, config, count, closing>>
    PROVE  TypeOK'
<1>1. tt \in [TopicId -> Topic \cup {NoTopic}]
  BY DEF TypeOK
<1>2. \A i \in TopicId : tt[i] # NoTopic => i <= count' /\ Exists(tt[i].period)
  BY DEF TypeOK, Topics
<1>3. count' \in 0 .. MaxTopics
  BY DEF TypeOK
<1> QED
  BY <1>1, <1>2, <1>3, TypeStore

LEMMA TypeUpdateTopic ==
    ASSUME TypeOK, NEW a \in MoveArg, a.id \in Topics, Exists(a.period),
           StoreTopics([topic EXCEPT ![a.id].period = a.period,
                                     ![a.id].status = IF a.reopen THEN "PENDING" ELSE @],
                       {a.period}, {a.teacher}),
           UNCHANGED <<period, clock, config, count, closing>>
    PROVE  TypeOK'
<1> DEFINE tt == [topic EXCEPT ![a.id].period = a.period,
                               ![a.id].status = IF a.reopen THEN "PENDING" ELSE @]
<1>1. a.id \in TopicId /\ a.period \in Period /\ topic[a.id] \in Topic
  BY DEF MoveArg, TypeOK, Topics
<1>2. tt[a.id] \in Topic /\ tt[a.id].period = a.period
  BY <1>1 DEF Topic, TopicStatus, TypeOK
<1>3. \A i \in TopicId \ {a.id} : tt[i] = topic[i]
  BY <1>1 DEF TypeOK
<1>4. DOMAIN tt = TopicId /\ tt = [i \in TopicId |-> tt[i]]
  BY DEF TypeOK
<1>5. StoreTopics(tt, {a.period}, {a.teacher})
  OBVIOUS
<1> HIDE DEF tt
<1> QED
  BY <1>1, <1>2, <1>3, <1>4, <1>5, TypeEdit

LEMMA TypeProceed ==
    ASSUME TypeInv, scope' = scope, NEW r \in Request, Proceed(r)
    PROVE  TypeInv'
<1> USE DEF TypeInv
<1>1. CASE CreateTopic(r)
  <2>1. arg[r].period \in Period /\ arg[r].teacher \in Teacher
    BY <1>1 DEF CreateTopic, Running, Handlers, ArgsPlaced, CreateArg
  <2>2. TypeOK'
    BY <1>1, <2>1, TypeAdd DEF CreateTopic
  <2> QED
    BY <1>1, <2>2, HandlersEnd DEF CreateTopic
<1>2. CASE UpdateTopic(r)
  <2>1. arg[r] \in MoveArg
    BY <1>2 DEF UpdateTopic, Running, Handlers, ArgsPlaced
  <2>2. TypeOK'
    BY <1>2, <2>1, TypeUpdateTopic DEF UpdateTopic
  <2> QED
    BY <1>2, <2>2, HandlersEnd DEF UpdateTopic
<1>3. CASE DeleteTopic(r)
  <2>1. TypeOK'
    BY <1>3 DEF DeleteTopic, TypeOK, Topics, Exists, clock
  <2> QED
    BY <1>3, <2>1, HandlersEnd DEF DeleteTopic
<1>4. CASE QuotaWrite(r)
  <2>1. arg[r] \in QuotaArg
    BY <1>4 DEF QuotaWrite, Running, Handlers, ArgsPlaced
  <2>2. arg[r].period \in Period /\ arg[r].teacher \in Teacher /\ arg[r].row \in Row
    BY <2>1 DEF QuotaArg
  <2>3. TypeOK'
    BY <1>4, <2>2 DEF QuotaWrite, TypeOK, Topics, Exists, clock
  <2> QED
    BY <1>4, <2>3, HandlersEnd DEF QuotaWrite
<1>5. CASE SetStatus(r)
  <2>1. arg[r].period \in Period
    BY <1>5 DEF SetStatus, Running, Handlers, ArgsPlaced, PeriodArg, PeriodSteps
  <2>2. TypeOK'
    BY <1>5, <2>1 DEF SetStatus, TypeOK, Topics, Exists, clock, rows, PeriodStatus
  <2> QED
    BY <1>5, <2>2, HandlersEnd DEF SetStatus
<1>6. CASE RemovePeriod(r)
  <2>1. arg[r].period \in Period
    BY <1>6 DEF RemovePeriod, Running, Handlers, ArgsPlaced, PeriodArg, PeriodSteps
  <2>2. NewConfig \in [default : 0 .. Ceiling, max : 0 .. Ceiling]
    BY GovernanceAssumption DEF NewConfig
  <2>3. TypeOK'
    BY <1>6, <2>1, <2>2 DEF RemovePeriod, TypeOK, Topics, Exists, PeriodStatus
  <2> QED
    BY <1>6, <2>3, HandlersEnd DEF RemovePeriod
<1>7. ASSUME NEW begun \in BOOLEAN, UpdatePeriod(r, begun)
      PROVE  TypeInv'
  <2>1. arg[r].period \in Period
    BY <1>7 DEF UpdatePeriod, Running, Handlers, ArgsPlaced, PeriodArg, PeriodSteps
  <2>2. TypeOK'
    BY <1>7, <2>1 DEF UpdatePeriod, TypeOK, Topics, Exists, rows
  <2> QED
    BY <1>7, <2>2, HandlersEnd DEF UpdatePeriod
<1> QED
  BY <1>1, <1>2, <1>3, <1>4, <1>5, <1>6, <1>7 DEF Proceed

LEMMA TypeInOneStep ==
    ASSUME TypeInv, scope' = scope, InOneStep
    PROVE  TypeInv'
<1> USE DEF TypeInv
<1>1. ASSUME NEW p \in Period, NEW t \in scope.who, CreateSupplemental(p, t)
      PROVE  TypeInv'
  <2>1. TypeOK'
    BY <1>1, TypeAdd, WhoAreTeachers DEF CreateSupplemental
  <2> QED
    BY <1>1, <2>1, HandlersStay DEF CreateSupplemental, Once
<1>2. ASSUME NEW ids \in SUBSET Topics, NEW status \in {"APPROVED", "REJECTED"},
             BulkModeration(ids, status)
      PROVE  TypeInv'
  <2> DEFINE tt == [i \in TopicId |-> IF i \in ids THEN [topic[i] EXCEPT !.status = status]
                                      ELSE topic[i]]
  <2>1. ASSUME NEW i \in ids
        PROVE  i \in TopicId /\ tt[i] \in Topic /\ Exists(tt[i].period)
    <3>1. i \in TopicId /\ topic[i] \in Topic /\ Exists(topic[i].period)
      BY <2>1 DEF Topics, TypeOK
    <3>2. tt[i] = [topic[i] EXCEPT !.status = status]
      BY <3>1
    <3>3. tt[i] \in Topic /\ tt[i].period = topic[i].period
      BY <3>1, <3>2 DEF Topic, TopicStatus
    <3> QED
      BY <3>1, <3>3
  <2>2. \A i \in TopicId \ ids : tt[i] = topic[i]
    OBVIOUS
  <2>3. DOMAIN tt = TopicId /\ tt = [i \in TopicId |-> tt[i]]
    OBVIOUS
  <2>4. StoreTopics(tt, {topic[i].period : i \in ids}, {topic[i].teacher : i \in ids})
    BY <1>2 DEF BulkModeration
  <2> HIDE DEF tt
  <2>5. \A i \in TopicId : \/ tt[i] = topic[i]
                           \/ i \in Topics /\ tt[i] \in Topic /\ Exists(tt[i].period)
    <3> TAKE i \in TopicId
    <3>1. CASE i \in ids
      <4>1. i \in Topics
        BY <3>1
      <4> QED
        BY <2>1, <3>1, <4>1
    <3>2. CASE i \notin ids
      BY <2>2, <3>2
    <3> QED
      BY <3>1, <3>2
  <2>6. TypeOK'
    BY <1>2, <2>3, <2>4, <2>5, TypeEdit DEF BulkModeration
  <2> QED
    BY <1>2, <2>6, HandlersStay DEF BulkModeration, Once
<1>3. ASSUME NEW i \in Topics, NEW t \in scope.who, NEW status \in TopicStatus, NEW locked \in BOOLEAN,
             ForceUpdate(i, t, status, locked)
      PROVE  TypeInv'
  <2> DEFINE tt == [topic EXCEPT ![i].teacher = t, ![i].status = status, ![i].locked = locked]
  <2>1. i \in TopicId /\ topic[i] \in Topic /\ Exists(topic[i].period) /\ t \in Teacher
    BY WhoAreTeachers DEF Topics, TypeOK
  <2>2. tt[i] \in Topic /\ tt[i].period = topic[i].period
    BY <2>1 DEF Topic, TypeOK
  <2>3. \A j \in TopicId \ {i} : tt[j] = topic[j]
    BY DEF TypeOK
  <2>4. DOMAIN tt = TopicId /\ tt = [j \in TopicId |-> tt[j]]
    BY DEF TypeOK
  <2>5. StoreTopics(tt, {topic[i].period}, {topic[i].teacher, t})
    BY <1>3 DEF ForceUpdate
  <2> HIDE DEF tt
  <2>6. TypeOK'
    BY <1>3, <2>1, <2>2, <2>3, <2>4, <2>5, TypeEdit DEF ForceUpdate
  <2> QED
    BY <1>3, <2>6, HandlersStay DEF ForceUpdate, Once
<1>4. ASSUME NEW p \in Period, NEW default \in 0 .. Ceiling, NEW max \in 0 .. Ceiling,
             UpdateConfig(p, default, max)
      PROVE  TypeInv'
  <2>1. TypeOK'
    BY <1>4 DEF UpdateConfig, TypeOK, Topics, Exists, clock, rows
  <2> QED
    BY <1>4, <2>1, HandlersStay DEF UpdateConfig, Once
<1>5. ASSUME NEW p \in Period, NEW writable \in BOOLEAN, NEW passed \in BOOLEAN,
             MoveDeadlines(p, writable, passed)
      PROVE  TypeInv'
  <2>1. TypeOK'
    BY <1>5 DEF MoveDeadlines, TypeOK, Topics, Exists, rows
  <2> QED
    BY <1>5, <2>1, HandlersStay DEF MoveDeadlines, Once
<1>6. ASSUME NEW p \in Period, NEW begun \in BOOLEAN, CreatePeriod(p, begun)
      PROVE  TypeInv'
  <2>1. TypeOK'
    BY <1>6 DEF CreatePeriod, TypeOK, Topics, Exists, rows, PeriodStatus
  <2> QED
    BY <1>6, <2>1, HandlersStay DEF CreatePeriod, Once
<1> QED
  BY <1>1, <1>2, <1>3, <1>4, <1>5, <1>6 DEF InOneStep

\* The job changes no table but that of the periods, and every one that exists stays.
LEMMA TypeJob ==
    ASSUME TypeOK, UNCHANGED <<clock, config, rows>>, closing' \subseteq Period,
           period' \in [Period -> PeriodStatus],
           \A p \in Period : period[p] \notin {"none", "removed"} => period'[p] \notin {"none", "removed"}
    PROVE  TypeOK'
<1>1. \A i \in Topics : /\ i <= count /\ topic[i].period \in Period
                         /\ period[topic[i].period] \notin {"none", "removed"}
  BY DEF TypeOK, Topics, Topic, Exists
<1>2. Topics' = Topics /\ topic' = topic /\ count' = count
  BY DEF Topics, rows
<1>3. \A i \in Topics' : i <= count' /\ period'[topic'[i].period] \notin {"none", "removed"}
  BY <1>1, <1>2
<1> QED
  BY <1>3 DEF TypeOK, clock, rows, Exists

LEMMA TypeNext == TypeInv /\ [Next /\ UNCHANGED scope]_vars => TypeInv'
<1> SUFFICES ASSUME TypeInv, [Next /\ UNCHANGED scope]_vars PROVE TypeInv'
  OBVIOUS
<1>1. CASE UNCHANGED vars
  <2>1. TypeOK'
    BY <1>1, TypeTablesStay DEF vars, Tables, clock, rows, TypeInv
  <2> QED
    BY <1>1, <2>1, HandlersStay DEF vars, TypeInv
<1>2. ASSUME NEW r \in Request, scope' = scope, Arrive(r) PROVE TypeInv'
  BY <1>2, TypeArrive
<1>3. ASSUME NEW r \in Request, scope' = scope, Proceed(r) PROVE TypeInv'
  BY <1>3, TypeProceed
<1>4. ASSUME NEW r \in Request, scope' = scope, Fail(r) PROVE TypeInv'
  BY <1>4, HandlersEnd, TypeTablesStay DEF Fail, Tables, TypeInv
<1>5. CASE scope' = scope /\ InOneStep
  BY <1>5, TypeInOneStep
<1>6. CASE scope' = scope /\ Job
  <2>1. ASSUME JobOpens PROVE TypeOK'
    <3>1. /\ period' \in [Period -> PeriodStatus]
          /\ \A p \in Period : period[p] \notin {"none", "removed"} => period'[p] \notin {"none", "removed"}
      BY <2>1 DEF JobOpens, ToOpen, TypeInv, TypeOK, PeriodStatus
    <3>2. UNCHANGED <<clock, config, rows>> /\ closing' \subseteq Period
      BY <2>1 DEF JobOpens, TypeInv, TypeOK
    <3> QED
      BY <3>1, <3>2, TypeJob DEF TypeInv
  <2>2. ASSUME JobCloses PROVE TypeOK'
    <3>1. /\ period' \in [Period -> PeriodStatus]
          /\ \A p \in Period : period[p] \notin {"none", "removed"} => period'[p] \notin {"none", "removed"}
      BY <2>2 DEF JobCloses, TypeInv, TypeOK, PeriodStatus
    <3>2. UNCHANGED <<clock, config, rows>> /\ closing' \subseteq Period
      BY <2>2 DEF JobCloses, TypeInv, TypeOK
    <3> QED
      BY <3>1, <3>2, TypeJob DEF TypeInv
  <2>3. TypeOK'
    BY <1>6, <2>1, <2>2 DEF Job
  <2> QED
    BY <1>6, <2>3, HandlersStay DEF Job, JobOpens, JobCloses, TypeInv
<1>7. ASSUME NEW p \in Period, scope' = scope, Tick(p) PROVE TypeInv'
  <2>1. TypeOK'
    BY <1>7 DEF Tick, TypeInv, TypeOK, Topics, Exists, rows
  <2> QED
    BY <1>7, <2>1, HandlersStay DEF Tick, TypeInv
<1> QED
  BY <1>1, <1>2, <1>3, <1>4, <1>5, <1>6, <1>7 DEF Next

\* Whatever handlers overlap, with each other, with the job and with the clock: statuses,
\* limits and quota rows stay in their ranges and every topic belongs to a period that
\* exists (the foreign keys, MAX_TOPIC_LIMIT_CEILING and the cascade of a removed period).
THEOREM TypeCorrect == Spec => []TypeOK
<1>1. Init => TypeInv
  BY TypeInit
<1>2. TypeInv /\ [Next /\ UNCHANGED scope]_vars => TypeInv'
  BY TypeNext
<1>3. TypeInv => TypeOK
  BY DEF TypeInv
<1> QED
  BY <1>1, <1>2, <1>3, PTL DEF Spec

-----------------------------------------------------------------------------
(* One handler at a time, with the job and the clock in between *)

Serial == \A q, r \in Request : q = r

RowSound(p, t) ==
    IF quota[p][t] = NoRow THEN Used(p, t) = 0
    ELSE /\ quota[p][t].submitted >= Used(p, t)
         /\ quota[p][t].sufficient = (quota[p][t].submitted >= quota[p][t].assigned)
         /\ quota[p][t].override => quota[p][t].assigned <= config[p].max

RowsSound == \A p \in Period, t \in Teacher : RowSound(p, t)

\* What a handler read before its transaction still holds: its teacher has a free place,
\* the topic is that teacher's, the row it is about to write counts the topics there are.
ReadHolds ==
    \A r \in Request :
        /\ pc[r] = "create" => HasQuota(arg[r].period, arg[r].teacher)
        /\ pc[r] = "move" /\ arg[r].id \in Topics => topic[arg[r].id].teacher = arg[r].teacher
        /\ pc[r] = "quota" =>
              LET row == arg[r].row
              IN  /\ row.submitted = Used(arg[r].period, arg[r].teacher)
                  /\ row.sufficient = (row.submitted >= row.assigned)
                  /\ row.override => row.assigned <= config[arg[r].period].max

SerialInv == TypeInv /\ RowsSound /\ ReadHolds

LEMMA SerialInit == Init => SerialInv
<1> SUFFICES ASSUME Init PROVE SerialInv
  OBVIOUS
<1>1. TypeInv
  BY TypeInit
<1>2. ASSUME NEW p \in Period, NEW t \in Teacher
      PROVE  RowSound(p, t)
  <2>1. Used(p, t) = 0
    BY UsedNone DEF Init, Used
  <2> QED
    BY <2>1 DEF Init, RowSound
<1>3. ReadHolds
  BY DEF Init, ReadHolds
<1> QED
  BY <1>1, <1>2, <1>3 DEF SerialInv, RowsSound

\* A teacher without topics to spare is on nobody's list.
LEMMA RowsSoundMeans == TypeOK /\ RowsSound => QuotaRowsSound
<1> SUFFICES ASSUME TypeOK, RowsSound, NEW p \in Period, NEW t \in Teacher
             PROVE  IF quota[p][t] = NoRow THEN Used(p, t) = 0
                    ELSE /\ quota[p][t].submitted >= Used(p, t)
                         /\ quota[p][t].sufficient <=> quota[p][t].submitted >= quota[p][t].assigned
                         /\ quota[p][t].override => quota[p][t].assigned <= config[p].max
                         /\ ~quota[p][t].sufficient => t \in TeachersWithQuota(p)
  BY DEF QuotaRowsSound
<1>1. RowSound(p, t)
  BY DEF RowsSound
<1>2. CASE quota[p][t] = NoRow
  BY <1>1, <1>2 DEF RowSound
<1>3. CASE quota[p][t] # NoRow
  <2> DEFINE row == quota[p][t]
  <2>1. row.submitted \in Nat /\ row.assigned \in Nat /\ Assigned(p, t) = row.assigned
    BY <1>3, GovernanceAssumption DEF TypeOK, Row, Assigned
  <2>2. Used(p, t) \in Nat
    BY UsedType, GovernanceAssumption DEF Used
  <2>3. ~row.sufficient => Used(p, t) < Assigned(p, t)
    <3>1. row.submitted >= Used(p, t)
      BY <1>1, <1>3 DEF RowSound
    <3>2. ~row.sufficient => ~(row.submitted >= row.assigned)
      BY <1>1, <1>3, Zenon DEF RowSound
    <3> HIDE DEF row
    <3>3. ~(row.submitted >= row.assigned) => Used(p, t) < Assigned(p, t)
      BY <2>1, <2>2, <3>1
    <3> QED
      BY <3>2, <3>3
  <2> QED
    BY <1>1, <1>3, <2>3 DEF RowSound, TeachersWithQuota
<1> QED
  BY <1>2, <1>3

\* Storing topics keeps the rows sound, provided that whoever is not synchronised gets no
\* topic that counts.
LEMMA StoreSound ==
    ASSUME TypeOK, RowsSound, NEW tt, NEW ps, NEW who, StoreTopics(tt, ps, who), config' = config,
           \A p \in Period, t \in Teacher : ~(p \in ps /\ t \in who) =>
               \A i \in TopicId : Counts(tt, i, p, t) => Counts(topic, i, p, t)
    PROVE  RowsSound'
<1> SUFFICES ASSUME NEW p \in Period, NEW t \in Teacher
             PROVE  RowSound(p, t)'
  BY DEF RowsSound
<1>1. topic' = tt /\ Used(p, t)' = UsedIn(tt, p, t)
  BY DEF StoreTopics, Used, UsedIn
<1>2. quota'[p][t] = IF p \in ps /\ t \in who THEN Synced(tt, p, t) ELSE quota[p][t]
  BY DEF StoreTopics
<1>3. RowSound(p, t) /\ Used(p, t) \in Nat /\ UsedIn(tt, p, t) \in Nat
  BY UsedType, GovernanceAssumption DEF RowsSound, Used
<1>4. quota[p][t] # NoRow => quota[p][t].submitted \in Nat
  BY GovernanceAssumption DEF TypeOK, Row
<1>5. CASE p \in ps /\ t \in who
  <2> DEFINE row == Synced(tt, p, t)
  <2>1. row \in Row /\ row # NoRow
    BY SyncedType, AbsenceAssumption
  <2>2. row.assigned = Assigned(p, t) /\ row.submitted = UsedIn(tt, p, t)
    BY SyncedType
  <2>3. row.sufficient = (row.submitted >= row.assigned)
    BY SyncedType, <2>2
  <2>4. row.override => row.assigned <= config[p].max
    <3>1. row.override => quota[p][t] # NoRow /\ quota[p][t].override
      BY SyncedType
    <3> QED
      BY <1>3, <2>2, <3>1 DEF RowSound, Assigned
  <2>5. quota'[p][t] = row
    BY <1>2, <1>5
  <2> HIDE DEF row
  <2>6. row.submitted >= Used(p, t)'
    BY <1>1, <1>3, <2>2
  <2> QED
    BY <2>1, <2>3, <2>4, <2>5, <2>6 DEF RowSound
<1>6. CASE ~(p \in ps /\ t \in who)
  <2>1. UsedIn(tt, p, t) <= Used(p, t)
    BY <1>6, UsedFewer DEF Used
  <2>2. quota'[p][t] = quota[p][t]
    BY <1>2, <1>6
  <2>3. CASE quota[p][t] = NoRow
    BY <1>1, <1>3, <2>1, <2>2, <2>3 DEF RowSound
  <2>4. CASE quota[p][t] # NoRow
    <3>1. quota[p][t].submitted >= Used(p, t)'
      BY <1>1, <1>3, <1>4, <2>1, <2>4 DEF RowSound
    <3> QED
      BY <1>3, <2>2, <2>4, <3>1 DEF RowSound
  <2> QED
    BY <2>3, <2>4
<1> QED
  BY <1>5, <1>6

\* A new topic counts for its teacher and nobody else.
LEMMA AddSound ==
    ASSUME TypeOK, RowsSound, NEW p \in Period, NEW t \in Teacher, NEW extra \in BOOLEAN,
           AddTopic(p, t, extra), config' = config
    PROVE  RowsSound'
<1> DEFINE tt == [topic EXCEPT ![count + 1] = NewTopic(p, t, extra)]
<1>1. StoreTopics(tt, {p}, {t})
  BY DEF AddTopic
<1>2. NewTopic(p, t, extra).period = p /\ NewTopic(p, t, extra).teacher = t
  BY DEF NewTopic
<1>3. ASSUME NEW q \in Period, NEW u \in Teacher, ~(q \in {p} /\ u \in {t}),
             NEW i \in TopicId, Counts(tt, i, q, u)
      PROVE  Counts(topic, i, q, u)
  <2>1. CASE i = count + 1
    BY <1>2, <1>3, <2>1 DEF Counts, TypeOK
  <2>2. CASE i # count + 1
    BY <1>3, <2>2 DEF Counts, TypeOK
  <2> QED
    BY <2>1, <2>2
<1> HIDE DEF tt
<1> QED
  BY <1>1, <1>3, StoreSound

\* Changes to topics that stay with the periods and teachers that are synchronised.
LEMMA EditSound ==
    ASSUME TypeOK, RowsSound, NEW tt, NEW ps, NEW who, NEW ids \in SUBSET TopicId,
           StoreTopics(tt, ps, who), config' = config,
           \A i \in TopicId \ ids : tt[i] = topic[i],
           \A i \in ids : tt[i].period \in ps /\ tt[i].teacher \in who
    PROVE  RowsSound'
<1>1. ASSUME NEW q \in Period, NEW u \in Teacher, ~(q \in ps /\ u \in who),
             NEW i \in TopicId, Counts(tt, i, q, u)
      PROVE  Counts(topic, i, q, u)
  <2>1. i \notin ids
    BY <1>1 DEF Counts
  <2> QED
    BY <1>1, <2>1 DEF Counts
<1> QED
  BY <1>1, StoreSound

\* Fewer topics and the same rows.
LEMMA FewerSound ==
    ASSUME TypeOK, RowsSound, config' = config, quota' = quota,
           \A i \in TopicId : topic'[i] = NoTopic \/ topic'[i] = topic[i]
    PROVE  RowsSound'
<1> SUFFICES ASSUME NEW p \in Period, NEW t \in Teacher
             PROVE  RowSound(p, t)'
  BY DEF RowsSound
<1> DEFINE tt == topic'
<1>u. Used(p, t)' = UsedIn(tt, p, t)
  BY DEF Used, UsedIn
<1>c. \A i \in TopicId : Counts(tt, i, p, t) => Counts(topic, i, p, t)
  BY DEF Counts
<1> HIDE DEF tt
<1>1. Used(p, t)' <= Used(p, t)
  BY <1>u, <1>c, UsedFewer DEF Used
<1>2. RowSound(p, t)
  BY DEF RowsSound
<1>3. Used(p, t) \in Nat /\ Used(p, t)' \in Nat
  BY <1>u, UsedType, GovernanceAssumption DEF Used
<1>4. quota[p][t] # NoRow => quota[p][t].submitted \in Nat
  BY GovernanceAssumption DEF TypeOK, Row
<1>5. CASE quota[p][t] = NoRow
  BY <1>1, <1>2, <1>3, <1>5 DEF RowSound
<1>6. CASE quota[p][t] # NoRow
  <2>1. quota[p][t].submitted >= Used(p, t)'
    BY <1>1, <1>2, <1>3, <1>4, <1>6 DEF RowSound
  <2> QED
    BY <1>2, <1>6, <2>1 DEF RowSound
<1> QED
  BY <1>5, <1>6

\* What was read still holds when no other handler is at work.
LEMMA ReadsEnd ==
    ASSUME Serial, TypeInv, NEW r \in Request, Finish(r)
    PROVE  ReadHolds'
<1>1. \A q \in Request : pc'[q] = "idle"
  BY DEF Serial, Finish, TypeInv, Handlers
<1> QED
  BY <1>1 DEF ReadHolds

LEMMA ReadsIdle ==
    ASSUME Serial, NEW op, Once(op)
    PROVE  ReadHolds'
<1>1. \A q \in Request : pc'[q] = "idle"
  BY DEF Serial, Once
<1> QED
  BY <1>1 DEF ReadHolds

LEMMA TablesSame ==
    ASSUME config' = config, topic' = topic, quota' = quota
    PROVE  /\ RowsSound => RowsSound'
           /\ UNCHANGED <<pc, arg>> /\ ReadHolds => ReadHolds'
           /\ \A p, t : Used(p, t)' = Used(p, t) /\ Assigned(p, t)' = Assigned(p, t)
           /\ Topics' = Topics
<1>1. \A p, t : Used(p, t)' = Used(p, t) /\ Assigned(p, t)' = Assigned(p, t)
  BY DEF Used, UsedIn, Assigned
<1>2. Topics' = Topics
  BY DEF Topics
<1>3. RowsSound => RowsSound'
  BY <1>1 DEF RowsSound, RowSound
<1>4. UNCHANGED <<pc, arg>> /\ ReadHolds => ReadHolds'
  BY <1>1, <1>2 DEF ReadHolds, HasQuota
<1> QED
  BY <1>1, <1>2, <1>3, <1>4

LEMMA SerialArrive ==
    ASSUME Serial, SerialInv, scope' = scope, NEW r \in Request, Arrive(r)
    PROVE  SerialInv'
<1>1. TypeInv'
  BY TypeArrive DEF SerialInv
<1>2. config' = config /\ topic' = topic /\ quota' = quota
  BY DEF Arrive, Begin, rows, CreateRead, OverrideDrop, OverrideRead, DeleteRead, MoveRead, PeriodRead
<1>3. RowsSound'
  BY <1>2, TablesSame DEF SerialInv
<1>4. \A q \in Request : q = r
  BY DEF Serial
<1>5. r \in DOMAIN pc /\ r \in DOMAIN arg
  BY DEF SerialInv, TypeInv, Handlers
<1>6. ReadHolds'
  <2>1. ASSUME NEW p \in Period, NEW t \in scope.who, CreateRead(r, p, t)
        PROVE  ReadHolds'
    <3>1. pc'[r] = "create" /\ arg'[r].period = p /\ arg'[r].teacher = t
      BY <1>5, <2>1 DEF CreateRead, Begin
    <3>2. HasQuota(p, t)'
      BY <1>2, <2>1, TablesSame DEF CreateRead, HasQuota
    <3> QED
      BY <1>4, <3>1, <3>2 DEF ReadHolds, HasQuota
  <2>2. ASSUME NEW p \in Period, NEW t \in scope.who, OverrideDrop(r, p, t)
        PROVE  ReadHolds'
    <3> DEFINE b == Used(p, t) >= config[p].default
               row == [assigned |-> config[p].default, submitted |-> Used(p, t),
                       sufficient |-> b, override |-> FALSE]
    <3>1. pc'[r] = "quota" /\ arg'[r].period = p /\ arg'[r].teacher = t /\ arg'[r].row = row
      BY <1>5, <2>2 DEF OverrideDrop, Begin
    <3>2. row.submitted = Used(p, t)' /\ row.assigned = config[p].default /\ row.override = FALSE
      BY <1>2, TablesSame
    <3>3. row.sufficient = b
      OBVIOUS
    <3>4. row.sufficient = (row.submitted >= row.assigned)
      BY <3>3
    <3> HIDE DEF row
    <3> QED
      BY <1>4, <3>1, <3>2, <3>4 DEF ReadHolds
  <2>3. ASSUME NEW p \in Period, NEW t \in scope.who, NEW n \in 0 .. Ceiling, OverrideRead(r, p, t, n)
        PROVE  ReadHolds'
    <3> DEFINE b == Used(p, t) >= n
               row == [assigned |-> n, submitted |-> Used(p, t), sufficient |-> b, override |-> TRUE]
    <3>1. pc'[r] = "quota" /\ arg'[r].period = p /\ arg'[r].teacher = t /\ arg'[r].row = row
      BY <1>5, <2>3 DEF OverrideRead, Begin
    <3>2. row.submitted = Used(p, t)' /\ row.assigned = n
      BY <1>2, TablesSame
    <3>3. row.sufficient = b
      OBVIOUS
    <3>4. row.sufficient = (row.submitted >= row.assigned)
      BY <3>3
    <3>5. n <= config'[p].max
      BY <1>2, <2>3 DEF OverrideRead
    <3> HIDE DEF row
    <3> QED
      BY <1>4, <3>1, <3>2, <3>4, <3>5 DEF ReadHolds
  <2>4. ASSUME NEW i \in Topics, DeleteRead(r, i)
        PROVE  ReadHolds'
    BY <1>4, <1>5, <2>4 DEF DeleteRead, Begin, ReadHolds
  <2>5. ASSUME NEW i \in Topics, NEW p \in Period, NEW edit \in BOOLEAN, MoveRead(r, i, p, edit)
        PROVE  ReadHolds'
    <3>1. pc'[r] = "move" /\ arg'[r].id = i /\ arg'[r].teacher = topic'[i].teacher
      BY <1>2, <1>5, <2>5 DEF MoveRead, Begin
    <3> QED
      BY <1>4, <3>1 DEF ReadHolds
  <2>6. ASSUME NEW p \in Period, NEW op \in {"update", "open", "close", "remove"}, PeriodRead(r, p, op)
        PROVE  ReadHolds'
    BY <1>4, <1>5, <2>6 DEF PeriodRead, Begin, ReadHolds
  <2> QED
    BY <2>1, <2>2, <2>3, <2>4, <2>5, <2>6 DEF Arrive
<1> QED
  BY <1>1, <1>3, <1>6 DEF SerialInv

-----------------------------------------------------------------------------
(* Who is given a topic *)

\* Where no topic is new and none changes hands, nobody is given one.
LEMMA NobodyGiven ==
    ASSUME \A i \in TopicId : \/ topic'[i] = NoTopic
                              \/ topic[i] # NoTopic /\ topic'[i].teacher = topic[i].teacher
    PROVE  TopicsGiven
BY DEF TopicsGiven

\* One topic goes to a teacher with a free place, and his row is synchronised.
LEMMA OneGiven ==
    ASSUME TypeOK, NEW tt, NEW ps, NEW who, StoreTopics(tt, ps, who), NEW i \in TopicId,
           NEW p \in Period, NEW t \in Teacher, p \in ps, t \in who, HasQuota(p, t),
           tt[i].period = p, tt[i].teacher = t, \A j \in TopicId \ {i} : tt[j] = topic[j]
    PROVE  TopicsGiven
<1>1. topic' = tt /\ quota'[p][t] = Synced(tt, p, t)
  BY DEF StoreTopics
<1>2. quota'[p][t] # NoRow /\ quota'[p][t].assigned = Assigned(p, t)
  BY <1>1, SyncedType, AbsenceAssumption
<1>3. UsedIn(tt, p, t) <= Assigned(p, t)
  <2>1. UsedIn(tt, p, t) <= Used(p, t) + 1
    BY UsedOneMore DEF Used
  <2>2. Used(p, t) \in Nat /\ UsedIn(tt, p, t) \in Nat /\ Assigned(p, t) \in Nat
    BY UsedType, GovernanceAssumption DEF Used, Assigned, TypeOK, Row
  <2> QED
    BY <2>1, <2>2 DEF HasQuota
<1> SUFFICES ASSUME NEW j \in TopicId, tt[j] # NoTopic,
                    topic[j] = NoTopic \/ tt[j].teacher # topic[j].teacher
             PROVE  UsedIn(tt, tt[j].period, tt[j].teacher)
                       <= (IF quota'[tt[j].period][tt[j].teacher] = NoRow THEN config'[tt[j].period].default
                           ELSE quota'[tt[j].period][tt[j].teacher].assigned)
  BY <1>1 DEF TopicsGiven
<1>4. j = i
  OBVIOUS
<1> QED
  BY <1>2, <1>3, <1>4

LEMMA AddGiven ==
    ASSUME TypeOK, NEW p \in Period, NEW t \in Teacher, NEW extra \in BOOLEAN,
           AddTopic(p, t, extra), HasQuota(p, t)
    PROVE  TopicsGiven
<1> DEFINE tt == [topic EXCEPT ![count + 1] = NewTopic(p, t, extra)]
<1>1. StoreTopics(tt, {p}, {t})
  BY DEF AddTopic
<1>2. count + 1 \in TopicId
  BY GovernanceAssumption DEF AddTopic, TypeOK, TopicId
<1>3. tt[count + 1].period = p /\ tt[count + 1].teacher = t
  BY <1>2 DEF NewTopic, TypeOK
<1>4. \A j \in TopicId \ {count + 1} : tt[j] = topic[j]
  BY DEF TypeOK
<1> HIDE DEF tt
<1> QED
  BY <1>1, <1>2, <1>3, <1>4, OneGiven

-----------------------------------------------------------------------------
(* Steps *)

LEMMA SerialProceed ==
    ASSUME Serial, SerialInv, scope' = scope, NEW r \in Request, Proceed(r)
    PROVE  SerialInv' /\ TopicsGiven
<1> USE DEF SerialInv
<1>t. TypeOK /\ RowsSound /\ Handlers
  BY DEF TypeInv
<1>1. TypeInv'
  BY TypeProceed
<1>2. ReadHolds'
  <2>1. Finish(r)
    BY DEF Proceed, CreateTopic, UpdateTopic, DeleteTopic, QuotaWrite, SetStatus, RemovePeriod, UpdatePeriod
  <2> QED
    BY <2>1, ReadsEnd
<1>3. CASE CreateTopic(r)
  <2>1. arg[r].period \in Period /\ arg[r].teacher \in Teacher /\ HasQuota(arg[r].period, arg[r].teacher)
    BY <1>t, <1>3 DEF CreateTopic, Running, Handlers, ArgsPlaced, CreateArg, ReadHolds
  <2>2. RowsSound'
    BY <1>t, <1>3, <2>1, AddSound DEF CreateTopic
  <2>3. TopicsGiven
    BY <1>t, <1>3, <2>1, AddGiven DEF CreateTopic
  <2> QED
    BY <1>1, <1>2, <2>2, <2>3
<1>4. CASE UpdateTopic(r)
  <2> DEFINE a == arg[r]
             tt == [topic EXCEPT ![a.id].period = a.period,
                                 ![a.id].status = IF a.reopen THEN "PENDING" ELSE @]
  <2>1. a \in MoveArg /\ a.id \in Topics /\ topic[a.id].teacher = a.teacher
    BY <1>t, <1>4 DEF UpdateTopic, Running, Handlers, ArgsPlaced, ReadHolds
  <2>2. StoreTopics(tt, {a.period}, {a.teacher}) /\ config' = config
    BY <1>4 DEF UpdateTopic
  <2>3. a.id \in TopicId /\ topic[a.id] \in Topic
    BY <1>t, <2>1 DEF TypeOK, Topics
  <2>4. tt[a.id].period = a.period /\ tt[a.id].teacher = a.teacher
    BY <1>t, <2>1, <2>3 DEF TypeOK, Topic
  <2>5. \A i \in TopicId \ {a.id} : tt[i] = topic[i]
    BY <1>t DEF TypeOK
  <2> HIDE DEF tt, a
  <2> DEFINE ids == {a.id}
             ps  == {a.period}
             who == {a.teacher}
  <2>6. /\ ids \in SUBSET TopicId /\ StoreTopics(tt, ps, who)
        /\ \A i \in TopicId \ ids : tt[i] = topic[i]
        /\ \A i \in ids : tt[i].period \in ps /\ tt[i].teacher \in who
    BY <2>2, <2>3, <2>4, <2>5
  <2> HIDE DEF ids, ps, who
  <2>7. RowsSound'
    BY <1>t, <2>2, <2>6, EditSound
  <2>8. topic' = tt
    BY <2>2 DEF StoreTopics
  <2>9. TopicsGiven
    BY <2>1, <2>4, <2>5, <2>8, NobodyGiven DEF Topics
  <2> QED
    BY <1>1, <1>2, <2>7, <2>9
<1>5. CASE DeleteTopic(r)
  <2>1. \A i \in TopicId : topic'[i] = NoTopic \/ topic'[i] = topic[i]
    BY <1>t, <1>5 DEF DeleteTopic, TypeOK
  <2>2. RowsSound'
    BY <1>t, <1>5, <2>1, FewerSound DEF DeleteTopic
  <2>3. TopicsGiven
    BY <2>1, NobodyGiven
  <2> QED
    BY <1>1, <1>2, <2>2, <2>3
<1>6. CASE QuotaWrite(r)
  <2> DEFINE p == arg[r].period
             t == arg[r].teacher
             row == arg[r].row
  <2>1. p \in Period /\ t \in Teacher /\ row \in Row
    BY <1>t, <1>6 DEF QuotaWrite, Running, Handlers, ArgsPlaced, QuotaArg
  <2>2. /\ row.submitted = Used(p, t)
        /\ row.sufficient = (row.submitted >= row.assigned)
        /\ row.override => row.assigned <= config[p].max
    BY <1>6 DEF QuotaWrite, Running, ReadHolds
  <2>3. quota' = [quota EXCEPT ![p][t] = row] /\ UNCHANGED <<topic, config>>
    BY <1>6 DEF QuotaWrite
  <2> HIDE DEF p, t, row
  <2>4. ASSUME NEW q \in Period, NEW u \in Teacher
        PROVE  RowSound(q, u)'
    <3>1. Used(q, u)' = Used(q, u) /\ Used(q, u) \in Nat
      <4>1. Used(q, u)' = Used(q, u)
        BY <2>3 DEF Used, UsedIn
      <4> QED
        BY <4>1, UsedType, GovernanceAssumption DEF Used
    <3>2. RowSound(q, u)
      BY <1>t DEF RowsSound
    <3>3. CASE q = p /\ u = t
      <4>1. quota'[q][u] = row /\ row # NoRow
        BY <1>t, <2>1, <2>3, <3>3, AbsenceAssumption DEF TypeOK
      <4>2. row.submitted >= Used(q, u)'
        BY <2>2, <3>1, <3>3
      <4> QED
        BY <2>2, <2>3, <3>3, <4>1, <4>2 DEF RowSound
    <3>4. CASE ~(q = p /\ u = t)
      <4>1. quota'[q][u] = quota[q][u]
        BY <1>t, <2>3, <3>4 DEF TypeOK
      <4> QED
        BY <2>3, <3>1, <3>2, <4>1 DEF RowSound
    <3> QED
      BY <3>3, <3>4
  <2>5. TopicsGiven
    BY <2>3, NobodyGiven
  <2> QED
    BY <1>1, <1>2, <2>4, <2>5 DEF RowsSound
<1>7. CASE SetStatus(r) \/ \E begun \in BOOLEAN : UpdatePeriod(r, begun)
  <2>1. UNCHANGED <<topic, quota, config>>
    BY <1>7 DEF SetStatus, UpdatePeriod, rows
  <2>2. RowsSound'
    BY <1>t, <2>1, TablesSame
  <2>3. TopicsGiven
    BY <2>1, NobodyGiven
  <2> QED
    BY <1>1, <1>2, <2>2, <2>3
<1>8. CASE RemovePeriod(r)
  <2> DEFINE p == arg[r].period
  <2>1. p \in Period
    BY <1>t, <1>8 DEF RemovePeriod, Running, Handlers, ArgsPlaced, PeriodArg, PeriodSteps
  <2>2. /\ topic' = [i \in TopicId |-> IF i \in Topics /\ topic[i].period = p THEN NoTopic ELSE topic[i]]
        /\ quota' = [quota EXCEPT ![p] = [t \in Teacher |-> NoRow]]
        /\ config' = [config EXCEPT ![p] = NewConfig]
    BY <1>8 DEF RemovePeriod
  <2> HIDE DEF p
  <2>3. \A i \in TopicId : topic'[i] = NoTopic \/ topic'[i] = topic[i]
    BY <2>2
  <2>4. ASSUME NEW q \in Period, NEW u \in Teacher
        PROVE  RowSound(q, u)'
    <3> DEFINE tt == topic'
    <3>1. Used(q, u)' = UsedIn(tt, q, u)
      BY DEF Used, UsedIn
    <3>2. CASE q = p
      <4>1. \A i \in TopicId : tt[i] # NoTopic => tt[i].period # q
        BY <2>2, <3>2 DEF Topics
      <4>2. quota'[q][u] = NoRow
        BY <1>t, <2>1, <2>2, <3>2 DEF TypeOK
      <4> HIDE DEF tt
      <4> QED
        BY <3>1, <4>1, <4>2, UsedNone DEF RowSound
    <3>3. CASE q # p
      <4>1. \A i \in TopicId : Counts(tt, i, q, u) => Counts(topic, i, q, u)
        BY <2>3 DEF Counts
      <4>2. quota'[q][u] = quota[q][u] /\ config'[q] = config[q]
        BY <1>t, <2>2, <3>3 DEF TypeOK
      <4> HIDE DEF tt
      <4>3. Used(q, u)' <= Used(q, u) /\ Used(q, u) \in Nat /\ Used(q, u)' \in Nat
        BY <3>1, <4>1, UsedFewer, UsedType, GovernanceAssumption DEF Used
      <4>4. RowSound(q, u)
        BY <1>t DEF RowsSound
      <4>5. quota[q][u] # NoRow => quota[q][u].submitted \in Nat
        BY <1>t, GovernanceAssumption DEF TypeOK, Row
      <4>6. quota[q][u] # NoRow => quota[q][u].submitted >= Used(q, u)'
        BY <4>3, <4>4, <4>5 DEF RowSound
      <4>7. quota[q][u] = NoRow => Used(q, u)' = 0
        BY <4>3, <4>4 DEF RowSound
      <4> QED
        BY <4>2, <4>4, <4>6, <4>7 DEF RowSound
    <3> QED
      BY <3>2, <3>3
  <2>5. TopicsGiven
    BY <2>3, NobodyGiven
  <2> QED
    BY <1>1, <1>2, <2>4, <2>5 DEF RowsSound
<1> QED
  BY <1>3, <1>4, <1>5, <1>6, <1>7, <1>8 DEF Proceed

LEMMA SerialInOneStep ==
    ASSUME Serial, SerialInv, scope' = scope, InOneStep
    PROVE  SerialInv' /\ TopicsGiven
<1>t. TypeOK /\ RowsSound /\ TypeInv
  BY DEF SerialInv, TypeInv
<1>1. TypeInv'
  BY <1>t, TypeInOneStep
<1>2. ReadHolds'
  <2>1. \E op : Once(op)
    BY DEF InOneStep, CreateSupplemental, BulkModeration, ForceUpdate, UpdateConfig, MoveDeadlines, CreatePeriod
  <2> QED
    BY <2>1, ReadsIdle
<1>3. ASSUME NEW p \in Period, NEW t \in scope.who, CreateSupplemental(p, t)
      PROVE  RowsSound' /\ TopicsGiven
  <2>1. t \in Teacher /\ AddTopic(p, t, TRUE) /\ HasQuota(p, t) /\ config' = config
    BY <1>t, <1>3, WhoAreTeachers DEF CreateSupplemental
  <2> QED
    BY <1>t, <2>1, AddSound, AddGiven
<1>4. ASSUME NEW ids \in SUBSET Topics, NEW status \in {"APPROVED", "REJECTED"},
             BulkModeration(ids, status)
      PROVE  RowsSound' /\ TopicsGiven
  <2> DEFINE tt  == [i \in TopicId |-> IF i \in ids THEN [topic[i] EXCEPT !.status = status]
                                       ELSE topic[i]]
             ps  == {topic[i].period : i \in ids}
             who == {topic[i].teacher : i \in ids}
  <2>1. StoreTopics(tt, ps, who) /\ config' = config
    BY <1>4 DEF BulkModeration
  <2>2. ASSUME NEW i \in ids
        PROVE  /\ i \in TopicId /\ topic[i] # NoTopic
               /\ tt[i].period = topic[i].period /\ tt[i].teacher = topic[i].teacher
    <3>1. i \in TopicId /\ topic[i] # NoTopic /\ topic[i] \in Topic
      BY <1>t, <2>2 DEF Topics, TypeOK
    <3>2. tt[i] = [topic[i] EXCEPT !.status = status]
      BY <3>1
    <3> QED
      BY <3>1, <3>2 DEF Topic
  <2>3. \A i \in TopicId \ ids : tt[i] = topic[i]
    OBVIOUS
  <2> HIDE DEF tt
  <2>4. ids \in SUBSET TopicId /\ \A i \in ids : tt[i].period \in ps /\ tt[i].teacher \in who
    BY <2>2
  <2> HIDE DEF ps, who
  <2>5. RowsSound'
    BY <1>t, <2>1, <2>3, <2>4, EditSound
  <2>6. topic' = tt
    BY <2>1 DEF StoreTopics
  <2>7. \A i \in TopicId : \/ topic'[i] = NoTopic
                           \/ topic[i] # NoTopic /\ topic'[i].teacher = topic[i].teacher
    BY <2>2, <2>3, <2>6
  <2> QED
    BY <2>5, <2>7, NobodyGiven
<1>5. ASSUME NEW i \in Topics, NEW t \in scope.who, NEW status \in TopicStatus, NEW locked \in BOOLEAN,
             ForceUpdate(i, t, status, locked)
      PROVE  RowsSound' /\ TopicsGiven
  <2> DEFINE tt  == [topic EXCEPT ![i].teacher = t, ![i].status = status, ![i].locked = locked]
             p   == topic[i].period
             old == topic[i].teacher
             ps  == {p}
             who == {old, t}
             ids == {i}
  <2>1. StoreTopics(tt, ps, who) /\ config' = config /\ (t # old => HasQuota(p, t))
    BY <1>5 DEF ForceUpdate
  <2>2. /\ i \in TopicId /\ topic[i] \in Topic /\ topic[i] # NoTopic
        /\ t \in Teacher /\ p \in Period
    BY <1>t, WhoAreTeachers DEF Topics, TypeOK, Topic
  <2>3. tt[i].period = p /\ tt[i].teacher = t
    BY <1>t, <2>2 DEF TypeOK, Topic
  <2>4. \A j \in TopicId \ ids : tt[j] = topic[j]
    BY <1>t DEF TypeOK
  <2> HIDE DEF tt, p, old
  <2>5. p \in ps /\ t \in who /\ ids \in SUBSET TopicId /\ \A j \in ids : tt[j].period \in ps /\ tt[j].teacher \in who
    BY <2>2, <2>3
  <2> HIDE DEF ps, who
  <2>6. RowsSound'
    <3> HIDE DEF ids
    <3> QED
      BY <1>t, <2>1, <2>4, <2>5, EditSound
  <2>7. ASSUME t # old PROVE TopicsGiven
    BY <1>t, <2>1, <2>2, <2>3, <2>4, <2>5, <2>7, OneGiven
  <2>8. ASSUME t = old PROVE TopicsGiven
    <3>1. topic' = tt
      BY <2>1 DEF StoreTopics
    <3>2. \A j \in TopicId : \/ topic'[j] = NoTopic
                             \/ topic[j] # NoTopic /\ topic'[j].teacher = topic[j].teacher
      BY <2>2, <2>3, <2>4, <2>8, <3>1 DEF old
    <3> QED
      BY <3>2, NobodyGiven
  <2> QED
    BY <2>6, <2>7, <2>8
<1>6. ASSUME NEW p \in Period, NEW default \in 0 .. Ceiling, NEW max \in 0 .. Ceiling,
             UpdateConfig(p, default, max)
      PROVE  RowsSound' /\ TopicsGiven
  <2>1. UNCHANGED <<topic, quota>> /\ config' = [config EXCEPT ![p] = [default |-> default, max |-> max]]
    BY <1>6 DEF UpdateConfig, rows
  <2>2. \A u \in Teacher : quota[p][u] # NoRow /\ quota[p][u].override => quota[p][u].assigned <= max
    BY <1>6 DEF UpdateConfig
  <2>3. \A q \in Period : config'[q].max = IF q = p THEN max ELSE config[q].max
    BY <1>t, <2>1 DEF TypeOK
  <2>4. ASSUME NEW q \in Period, NEW u \in Teacher
        PROVE  RowSound(q, u)'
    <3>1. Used(q, u)' = Used(q, u)
      BY <2>1 DEF Used, UsedIn
    <3>2. RowSound(q, u)
      BY <1>t DEF RowsSound
    <3> QED
      BY <2>1, <2>2, <2>3, <3>1, <3>2 DEF RowSound
  <2>5. TopicsGiven
    BY <2>1, NobodyGiven
  <2> QED
    BY <2>4, <2>5 DEF RowsSound
<1>7. ASSUME \/ \E p \in Period, writable, passed \in BOOLEAN : MoveDeadlines(p, writable, passed)
             \/ \E p \in Period, begun \in BOOLEAN : CreatePeriod(p, begun)
      PROVE  RowsSound' /\ TopicsGiven
  <2>1. UNCHANGED <<topic, quota, config>>
    BY <1>7 DEF MoveDeadlines, CreatePeriod, rows
  <2> QED
    BY <1>t, <2>1, TablesSame, NobodyGiven
<1>8. RowsSound' /\ TopicsGiven
  BY <1>3, <1>4, <1>5, <1>6, <1>7 DEF InOneStep
<1> QED
  BY <1>1, <1>2, <1>8 DEF SerialInv

\* The job, the clock and a handler that breaks off change neither topics nor rows.
LEMMA SerialNext ==
    ASSUME Serial
    PROVE  SerialInv /\ [Next /\ UNCHANGED scope]_vars => SerialInv' /\ [TopicsGiven]_vars
<1> SUFFICES ASSUME SerialInv, [Next /\ UNCHANGED scope]_vars
             PROVE  SerialInv' /\ (TopicsGiven \/ UNCHANGED vars)
  OBVIOUS
<1>t. TypeInv'
  BY TypeNext DEF SerialInv
<1>1. CASE UNCHANGED vars
  BY <1>t, <1>1, TablesSame DEF vars, SerialInv
<1>2. ASSUME NEW r \in Request, scope' = scope, Arrive(r)
      PROVE  SerialInv' /\ TopicsGiven
  <2>1. topic' = topic
    BY <1>2 DEF Arrive, Begin, rows, CreateRead, OverrideDrop, OverrideRead, DeleteRead, MoveRead, PeriodRead
  <2> QED
    BY <1>2, <2>1, SerialArrive, NobodyGiven
<1>3. ASSUME NEW r \in Request, scope' = scope, Proceed(r)
      PROVE  SerialInv' /\ TopicsGiven
  BY <1>3, SerialProceed
<1>4. ASSUME NEW r \in Request, scope' = scope, Fail(r)
      PROVE  SerialInv' /\ TopicsGiven
  <2>1. UNCHANGED <<config, topic, quota>> /\ Finish(r)
    BY <1>4 DEF Fail, rows
  <2>2. ReadHolds' /\ RowsSound'
    BY <2>1, ReadsEnd, TablesSame DEF SerialInv
  <2> QED
    BY <1>t, <2>1, <2>2, NobodyGiven DEF SerialInv
<1>5. CASE scope' = scope /\ InOneStep
  BY <1>5, SerialInOneStep
<1>6. CASE Job \/ \E p \in Period : Tick(p)
  <2>1. UNCHANGED <<config, topic, quota, pc, arg>>
    BY <1>6 DEF Job, JobOpens, JobCloses, Tick, rows
  <2>2. ReadHolds' /\ RowsSound'
    BY <2>1, TablesSame DEF SerialInv
  <2> QED
    BY <1>t, <2>1, <2>2, NobodyGiven DEF SerialInv
<1> QED
  BY <1>1, <1>2, <1>3, <1>4, <1>5, <1>6 DEF Next

\* With one handler at a time, whatever the job and the clock do in between: no quota row's
\* counter is behind the topics, its status is what its numbers say, overrides are within
\* the limit of the period and teachers who lack topics are listed
\* (syncTeacherQuotaCounter, updateConfig, upsertTeacherOverrides, listTeachersWithQuota).
THEOREM SerialQuotaRows ==
    ASSUME Serial
    PROVE  Spec => []QuotaRowsSound
<1>1. Init => SerialInv
  BY SerialInit
<1>2. SerialInv /\ [Next /\ UNCHANGED scope]_vars => SerialInv'
  BY SerialNext
<1>3. SerialInv => QuotaRowsSound
  BY RowsSoundMeans DEF SerialInv, TypeInv
<1> QED
  BY <1>1, <1>2, <1>3, PTL DEF Spec

\* With one handler at a time nobody is given a topic beyond his quota, by creating one, by
\* the secretary's supplement or by a change of supervisor.
THEOREM SerialQuota ==
    ASSUME Serial
    PROVE  Spec => GivenWithinQuota
<1>1. Init => SerialInv
  BY SerialInit
<1>2. SerialInv /\ [Next /\ UNCHANGED scope]_vars => SerialInv' /\ [TopicsGiven]_vars
  BY SerialNext
<1> QED
  BY <1>1, <1>2, PTL DEF Spec, GivenWithinQuota

=============================================================================
