---------------------------- MODULE AccountsProofs ----------------------------
(* Theorems of Accounts, for any number of people, accounts, links and requests *)
(* in flight.                                                                    *)
EXTENDS Accounts, FunctionTheorems, FiniteSetTheorems, TLAPS

-----------------------------------------------------------------------------
(* What a request in flight holds *)

Step == {"idle", "link", "mail", "clear", "verifyEmail", "changePassword", "resetPassword",
         "changePasswordMe", "register", "users", "roles", "rows", "removeStudent",
         "removeStudentUser", "removeStudents", "teachers", "removeTeachers", "createUser",
         "updateUser", "deleted", "createSecretary", "updateSecretary", "removeSecretary"}

\* Steps that name one account, and steps that name one person.
OneUserSteps == {"clear", "verifyEmail", "changePassword", "resetPassword", "changePasswordMe",
                 "updateUser", "deleted", "updateSecretary", "removeSecretary"}
OnePersonSteps == {"register", "createUser", "createSecretary"}

\* Steps of a request that has made accounts for students, and of one that takes them away.
Making   == {"roles", "rows"}
Removing == {"removeStudent", "removeStudentUser", "removeStudents"}

IsArg(a) ==
    /\ a = [op |-> a.op, people |-> a.people, users |-> a.users, link |-> a.link, data |-> a.data]
    /\ a.people \in SUBSET Person /\ a.users \in SUBSET AccountId /\ a.link \in LinkId \cup {NoLink}

OneEach(q) ==
    /\ pc[q] \in OneUserSteps => \E u \in AccountId : arg[q].users = {u}
    /\ pc[q] \in OnePersonSteps => \E p \in Person : arg[q].people = {p}
    /\ pc[q] \in {"users", "teachers"} \cup Making => InTurn(q) /\ arg[q].people # {}
    /\ pc[q] \in {"link", "mail"} => arg[q].users # {}
    /\ pc[q] \in {"link", "mail"} /\ ~InTurn(q) => \E u \in AccountId : arg[q].users = {u}
    /\ pc[q] \in {"mail", "changePassword", "resetPassword"} => arg[q].link \in LinkId

DataFits(q) ==
    /\ pc[q] = "createUser" => arg[q].data \in SUBSET Role
    /\ pc[q] = "updateUser" => arg[q].data \in Change
    /\ pc[q] = "deleted" => arg[q].data \in BOOLEAN
    /\ pc[q] = "createSecretary" => arg[q].data \in Faculty
    /\ pc[q] = "updateSecretary" => arg[q].data[1] \in Faculty \cup {Keep} /\ arg[q].data[2] \in Change

\* An account that belongs to no teacher and no secretary.
NotStaff(u) == secretary[u] = NoRow /\ \A p \in Person : teacher[p] # NoRow => teacher[p].user # u

StudentsOnly(q) == pc[q] \in Making \cup Removing => \A u \in arg[q].users : NotStaff(u)

\* Between its statements createStudent relies on the accounts it has made.
AccountsMade(q) ==
    pc[q] \in Making =>
        /\ \A p \in arg[q].people : \E u \in arg[q].users : u \in Accounts /\ account[u].who = p
        /\ \A u \in arg[q].users : u \in Accounts /\ account[u].who \in arg[q].people
        /\ \A u \in arg[q].users : \A p \in Person : student[p] # u

\* A removal holds the accounts its students had, which are theirs as long as they exist.
RemovalHolds(q) ==
    pc[q] \in Removing =>
        /\ arg[q].users = {arg[q].data[p] : p \in arg[q].people} \ {NoUser}
        /\ \A p \in arg[q].people : arg[q].data[p] \in Accounts => account[arg[q].data[p]].who = p
        /\ pc[q] # "removeStudents" => \E p \in Person : arg[q].people = {p}
        /\ pc[q] = "removeStudentUser" => \A p \in Person : student[p] \notin arg[q].users

StaffHeld(q) ==
    /\ pc[q] = "removeTeachers" =>
          /\ \A p \in arg[q].people : teacher[p] # NoRow
          /\ arg[q].users = {teacher[p].user : p \in arg[q].people}
    /\ pc[q] \in {"updateSecretary", "removeSecretary"} => \A u \in arg[q].users : secretary[u] # NoRow

Held(q) ==
    /\ IsArg(arg[q])
    /\ pc[q] = "idle" => arg[q] = NoArg
    /\ pc[q] # "idle" => q \in scope.requests
    /\ OneEach(q) /\ DataFits(q) /\ StudentsOnly(q) /\ AccountsMade(q) /\ RemovalHolds(q) /\ StaffHeld(q)

\* An account belongs to a student, a teacher or a secretary, and to one of them only.
OneSide ==
    /\ \A p \in Person : student[p] \notin {NoRow, NoUser} => NotStaff(student[p])
    /\ \A p \in Person : teacher[p] # NoRow => secretary[teacher[p].user] = NoRow

\* No request makes or takes away the accounts another one is making.
Apart ==
    \A q, s \in Request :
        q # s /\ pc[q] \in Making /\ pc[s] \in Making \cup Removing => arg[q].users \cap arg[s].users = {}

Rows == TypeOK /\ OneSide

Inv ==
    /\ scope \in Scopes
    /\ pc \in [Request -> Step] /\ arg = [q \in Request |-> arg[q]]
    /\ Rows /\ Apart
    /\ \A q \in Request : Held(q)

-----------------------------------------------------------------------------
(* Operators *)

\* A set of natural numbers that is not empty has a least one.
LEMMA MinOf ==
    ASSUME NEW S \in SUBSET Nat, S # {}
    PROVE  Min(S) \in S
<1> DEFINE T == {1 .. n : n \in S}
<1>1. T \subseteq FiniteSubsetsOf(Nat)
  <2> SUFFICES ASSUME NEW n \in S PROVE 1 .. n \in FiniteSubsetsOf(Nat)
    OBVIOUS
  <2>1. n \in Nat /\ IsFiniteSet(1 .. n)
    BY FS_Interval
  <2> QED
    BY <2>1 DEF FiniteSubsetsOf
<1>2. T # {}
  OBVIOUS
<1>3. PICK x \in T : \A y \in T : ~(<<y, x>> \in StrictSubsetOrdering(Nat))
  <2> HIDE DEF T
  <2> QED
    BY <1>1, <1>2, FS_StrictSubsetOrderingWellFounded, WFMin
<1>4. PICK n \in S : x = 1 .. n
  OBVIOUS
<1>5. ASSUME NEW m \in S PROVE n <= m
  <2>1. SUFFICES ASSUME m < n PROVE FALSE
    OBVIOUS
  <2>2. 1 .. m \in T
    OBVIOUS
  <2>3. 1 .. m \subseteq 1 .. n /\ n \in 1 .. n /\ n \notin 1 .. m
    BY <2>1
  <2>4. 1 .. m \in SUBSET Nat /\ 1 .. n \in SUBSET Nat
    OBVIOUS
  <2>5. <<1 .. m, 1 .. n>> \in StrictSubsetOrdering(Nat)
    BY <2>3, <2>4 DEF StrictSubsetOrdering
  <2> QED
    BY <1>3, <1>4, <2>2, <2>5
<1> QED
  BY <1>5 DEF Min

\* A set no larger than another one maps into it one to one.
LEMMA InjectionExists ==
    ASSUME NEW S, NEW T, IsFiniteSet(S), IsFiniteSet(T), Cardinality(T) >= Cardinality(S)
    PROVE  (CHOOSE f \in Injection(S, T) : TRUE) \in Injection(S, T)
<1> DEFINE m == Cardinality(S)
           n == Cardinality(T)
<1>1. m \in Nat /\ n \in Nat /\ ExistsBijection(1 .. m, S) /\ ExistsBijection(1 .. n, T)
  BY FS_CardinalityType
<1>2. ExistsInjection(1 .. m, 1 .. n)
  BY <1>1, Fun_NatInjLeq
<1>3. ExistsBijection(S, 1 .. m) /\ ExistsInjection(S, 1 .. m)
  BY <1>1, Fun_ExistsBijSymmetric, Fun_ExistsBijEquiv
<1>4. ExistsInjection(1 .. n, T)
  BY <1>1, Fun_ExistsBijEquiv
<1>5. ExistsInjection(S, T)
  BY <1>2, <1>3, <1>4, Fun_ExistsInjTransitive
<1> QED
  BY <1>5 DEF ExistsInjection

\* The account of a request that names one.
LEMMA UserIs ==
    ASSUME NEW r, NEW u \in AccountId, arg[r].users = {u}
    PROVE  User(r) = u /\ NextUser(r) = u
<1>1. User(r) = u
  BY DEF User
<1>2. NextUser(r) \in {u}
  <2> QED BY AccountsAssumption DEF NextUser, Min, AccountId
<1> QED
  BY <1>1, <1>2

-----------------------------------------------------------------------------
(* Rows *)

\* What a handler writes into the row of an account is a row of the same person.
LEMMA RowVerified ==
    ASSUME NEW a \in Account
    PROVE  [a EXCEPT !.verified = TRUE] \in Account /\ [a EXCEPT !.verified = TRUE].who = a.who
BY DEF Account

LEMMA RowPassword ==
    ASSUME NEW a \in Account
    PROVE  WithPassword(a) \in Account /\ WithPassword(a).who = a.who
<1> DEFINE password == 1 - a.password
<1>1. password \in 0 .. 1
  BY DEF Account
<1>2. WithPassword(a) = [a EXCEPT !.password = password, !.mustChange = FALSE]
  BY DEF WithPassword
<1> HIDE DEF password
<1> QED
  BY <1>1, <1>2 DEF Account

LEMMA RowChanged ==
    ASSUME NEW a \in Account, NEW d \in Change
    PROVE  Changed(a, d) \in Account /\ Changed(a, d).who = a.who
<1> DEFINE active == Given(d.active, a.active)
           mustChange == Given(d.mustChange, a.mustChange)
           roles == Given(d.roles, a.roles)
<1>1. active \in BOOLEAN /\ mustChange \in BOOLEAN /\ roles \in SUBSET Role
  <2>1. d.active \in BOOLEAN \cup {Keep} /\ a.active \in BOOLEAN
    BY DEF Account, Change
  <2>2. d.mustChange \in BOOLEAN \cup {Keep} /\ a.mustChange \in BOOLEAN
    BY DEF Account, Change
  <2>3. d.roles \in (SUBSET Role) \cup {Keep} /\ a.roles \in SUBSET Role
    BY DEF Account, Change
  <2>4. \A new, old : (new = Keep => Given(new, old) = old) /\ (new # Keep => Given(new, old) = new)
    BY DEF Given
  <2>5. active \in BOOLEAN
    BY <2>1, <2>4, Zenon
  <2>6. mustChange \in BOOLEAN
    BY <2>2, <2>4, Zenon
  <2>7. roles \in SUBSET Role
    BY <2>3 DEF Given
  <2> HIDE DEF active, mustChange, roles
  <2> QED
    BY <2>5, <2>6, <2>7, Zenon
<1>2. Changed(a, d) = [a EXCEPT !.active = active, !.mustChange = mustChange, !.roles = roles]
  BY DEF Changed
<1> HIDE DEF active, mustChange, roles
<1> QED
  BY <1>1, <1>2 DEF Account

LEMMA RowRoles ==
    ASSUME NEW a \in Account, NEW roles \in SUBSET Role
    PROVE  [a EXCEPT !.roles = roles] \in Account /\ [a EXCEPT !.roles = roles].who = a.who
BY DEF Account

LEMMA RowActive ==
    ASSUME NEW a \in Account
    PROVE  [a EXCEPT !.active = FALSE] \in Account /\ [a EXCEPT !.active = FALSE].who = a.who
BY DEF Account

LEMMA RowDeleted ==
    ASSUME NEW a \in Account, NEW b \in BOOLEAN
    PROVE  [a EXCEPT !.deleted = b] \in Account /\ [a EXCEPT !.deleted = b].who = a.who
BY DEF Account

LEMMA RowNew ==
    ASSUME NEW p \in Person, NEW roles \in SUBSET Role
    PROVE  NewAccount(p, roles) \in Account /\ NewAccount(p, roles).who = p
BY DEF Account, NewAccount

LEMMA RowSecretary ==
    ASSUME NEW p \in Person
    PROVE  /\ [NewAccount(p, {"SECRETARY"}) EXCEPT !.verified = TRUE, !.mustChange = FALSE] \in Account
           /\ [NewAccount(p, {"SECRETARY"}) EXCEPT !.verified = TRUE, !.mustChange = FALSE].who = p
<1>1. {"SECRETARY"} \in SUBSET Role
  BY DEF Role
<1>2. NewAccount(p, {"SECRETARY"}) \in Account /\ NewAccount(p, {"SECRETARY"}).who = p
  BY <1>1, RowNew
<1> QED
  BY <1>2 DEF Account

LEMMA RowTeacher ==
    ASSUME NEW u \in AccountId
    PROVE  [user |-> u, live |-> TRUE] \in Teacher /\ [user |-> u, live |-> TRUE] # NoRow
<1>1. [user |-> u, live |-> TRUE] \in Teacher
  BY DEF Teacher
<1> QED
  BY <1>1, RowsAssumption, Zenon

LEMMA RowStaffed ==
    ASSUME NEW f \in Faculty
    PROVE  [live |-> TRUE, faculty |-> f] \in Secretary /\ [live |-> TRUE, faculty |-> f] # NoRow
<1>1. [live |-> TRUE, faculty |-> f] \in Secretary
  BY DEF Secretary
<1> QED
  BY <1>1, RowsAssumption, Zenon

\* The same for the rows of links.
LEMMA RowLink ==
    ASSUME NEW u \in AccountId, NEW kind \in {"verify", "reset"}
    PROVE  NewLink(u, kind) \in Link /\ NewLink(u, kind).user = u
BY DEF Link, NewLink

LEMMA RowMailed ==
    ASSUME NEW l \in Link
    PROVE  [l EXCEPT !.mailed = TRUE] \in Link /\ [l EXCEPT !.mailed = TRUE].user = l.user
BY DEF Link

LEMMA RowDead ==
    ASSUME NEW l \in Link
    PROVE  [l EXCEPT !.live = FALSE] \in Link /\ [l EXCEPT !.live = FALSE].user = l.user
BY DEF Link

LEMMA RowUsed ==
    ASSUME NEW l \in Link
    PROVE  /\ [l EXCEPT !.live = FALSE, !.sets = IF @ = 2 THEN 2 ELSE @ + 1] \in Link
           /\ [l EXCEPT !.live = FALSE, !.sets = IF @ = 2 THEN 2 ELSE @ + 1].user = l.user
<1> DEFINE sets == IF l.sets = 2 THEN 2 ELSE l.sets + 1
<1>1. sets \in 0 .. 2
  BY DEF Link
<1> HIDE DEF sets
<1>2. [l EXCEPT !.live = FALSE, !.sets = sets] \in Link /\ [l EXCEPT !.live = FALSE, !.sets = sets].user = l.user
  BY <1>1 DEF Link
<1> QED
  BY <1>2 DEF sets

-----------------------------------------------------------------------------
(* Steps *)

\* What a step leaves of the rows another request relies on.
Steady(q) ==
    /\ \A u \in arg[q].users : u \in Accounts' => u \in Accounts /\ account'[u].who = account[u].who
    /\ \A u \in arg[q].users : secretary'[u] = NoRow <=> secretary[u] = NoRow
    /\ \A p \in Person : teacher[p] # NoRow => teacher'[p] # NoRow /\ teacher'[p].user = teacher[p].user
    /\ \A p \in Person : teacher'[p] # NoRow /\ teacher'[p].user \in arg[q].users => teacher[p] # NoRow
    /\ pc[q] \in Making \cup {"removeStudentUser"} =>
          \A p \in Person : student'[p] \in arg[q].users => student'[p] = student[p]
    /\ pc[q] \in Making => arg[q].users \subseteq Accounts'

OnlyAt(r) == pc' = [pc EXCEPT ![r] = pc'[r]] /\ arg' = [arg EXCEPT ![r] = arg'[r]]

\* The accounts the request now makes or takes away are none another one takes away or makes.
Parted(r) ==
    \A q \in Request \ {r} :
        \/ pc'[r] \in Making /\ pc[q] \in Making \cup Removing
        \/ pc'[r] \in Removing /\ pc[q] \in Making
        => arg'[r].users \cap arg[q].users = {}

LEMMA OthersHeld ==
    ASSUME Inv, NEW q \in Request, pc'[q] = pc[q], arg'[q] = arg[q], scope' = scope, Steady(q)
    PROVE  Held(q)'
<1>1. Held(q) /\ arg[q].users \subseteq AccountId
  BY DEF Inv, Held, IsArg
<1>2. OneEach(q)' /\ DataFits(q)'
  BY <1>1 DEF Held, OneEach, DataFits, InTurn
<1>3. StudentsOnly(q)'
  BY <1>1 DEF Held, StudentsOnly, NotStaff, Steady
<1>4. AccountsMade(q)'
  BY <1>1 DEF Held, AccountsMade, Steady, Making
<1>5. RemovalHolds(q)'
  <2> SUFFICES ASSUME pc[q] \in Removing PROVE RemovalHolds(q)'
    BY DEF RemovalHolds
  <2>1. ASSUME NEW p \in arg[q].people, arg[q].data[p] \in Accounts'
        PROVE  account'[arg[q].data[p]].who = p
    <3>1. arg[q].data[p] \in AccountId
      BY <2>1 DEF Accounts
    <3>2. arg[q].data[p] \in arg[q].users
      BY <1>1, <3>1, MarkersAssumption DEF Held, RemovalHolds
    <3> QED
      BY <1>1, <2>1, <3>2 DEF Held, RemovalHolds, Steady
  <2> QED
    BY <1>1, <2>1 DEF Held, RemovalHolds, Steady
<1>6. StaffHeld(q)'
  <2>1. arg[q].users = {teacher[p].user : p \in arg[q].people} /\ (\A p \in arg[q].people : teacher[p] # NoRow)
           => {teacher'[p].user : p \in arg[q].people} = {teacher[p].user : p \in arg[q].people}
    BY <1>1 DEF Held, IsArg, Steady
  <2> QED
    BY <1>1, <2>1 DEF Held, StaffHeld, Steady, IsArg
<1> QED
  BY <1>1, <1>2, <1>3, <1>4, <1>5, <1>6 DEF Held

LEMMA StepKeeps ==
    ASSUME Inv, NEW r \in Request, scope' = scope, OnlyAt(r), pc'[r] \in Step,
           Rows', \A q \in Request \ {r} : Steady(q), Held(r)', Parted(r)
    PROVE  Inv'
<1>1. \A q \in Request \ {r} : pc'[q] = pc[q] /\ arg'[q] = arg[q]
  BY DEF OnlyAt, Inv
<1>2. \A q \in Request : Held(q)'
  BY <1>1, OthersHeld
<1>3. pc' \in [Request -> Step] /\ arg' = [q \in Request |-> arg'[q]]
  BY DEF OnlyAt, Inv
<1>4. Apart'
  <2>1. SUFFICES ASSUME NEW q \in Request, NEW s \in Request, q # s,
                        pc'[q] \in Making, pc'[s] \in Making \cup Removing
                 PROVE  arg'[q].users \cap arg'[s].users = {}
    BY DEF Apart
  <2>2. CASE q = r
    BY <1>1, <2>1, <2>2 DEF Parted
  <2>3. CASE s = r
    <3>1. pc[q] = pc'[q] /\ arg[q] = arg'[q] /\ q \in Request \ {r}
      BY <1>1, <2>1, <2>3
    <3>2. arg'[r].users \cap arg[q].users = {}
      BY <2>1, <2>3, <3>1 DEF Parted, Making, Removing
    <3> QED
      BY <2>3, <3>1, <3>2
  <2>4. CASE q # r /\ s # r
    BY <1>1, <2>1, <2>4 DEF Inv, Apart
  <2> QED
    BY <2>2, <2>3, <2>4
<1> QED
  BY <1>2, <1>3, <1>4 DEF Inv

\* The database stays as it is.
LEMMA DbKept ==
    ASSUME Inv, UNCHANGED db
    PROVE  Rows' /\ \A q \in Request : Steady(q)
<1>1. UNCHANGED <<account, link, student, teacher, secretary>>
  BY DEF db
<1>2. Rows'
  BY <1>1 DEF Inv, Rows, TypeOK, OneSide, NotStaff, Accounts, Occupied
<1>3. ASSUME NEW q \in Request PROVE Steady(q)
  BY <1>1 DEF Inv, Held, AccountsMade, Steady, Accounts
<1> QED
  BY <1>2, <1>3

\* The owners of the accounts stay the same.
SameOwners ==
    /\ account' \in [AccountId -> Account \cup {NoRow}]
    /\ Accounts' = Accounts
    /\ \A u \in Accounts : account'[u].who = account[u].who

LinksFit ==
    /\ link \in [LinkId -> Link \cup {NoRow}]
    /\ \A k \in LinkId : link[k] # NoRow => link[k].user \in Accounts

LEMMA OwnersKept ==
    ASSUME Inv, SameOwners, LinksFit', UNCHANGED <<student, teacher, secretary>>
    PROVE  Rows' /\ \A q \in Request : Steady(q)
<1>1. TypeOK'
  BY DEF Inv, Rows, TypeOK, SameOwners, LinksFit, Occupied
<1>2. OneSide'
  BY DEF Inv, Rows, OneSide, NotStaff
<1>3. ASSUME NEW q \in Request PROVE Steady(q)
  BY DEF Inv, Held, AccountsMade, Steady, SameOwners
<1> QED
  BY <1>1, <1>2, <1>3 DEF Rows

\* One row of an account is written.
LEMMA OneRowWritten ==
    ASSUME Inv, NEW u \in Accounts, NEW a \in Account, a.who = account[u].who,
           account' = [account EXCEPT ![u] = a]
    PROVE  SameOwners
BY RowsAssumption DEF Inv, Rows, TypeOK, SameOwners, Accounts

LEMMA AccountRead ==
    ASSUME Inv, NEW u \in Accounts
    PROVE  account[u] \in Account /\ u \in AccountId
BY DEF Inv, Rows, TypeOK, Accounts

\* Links follow the accounts.
LEMMA LinksStay ==
    ASSUME Inv, SameOwners, link' = link
    PROVE  LinksFit'
BY DEF Inv, Rows, TypeOK, SameOwners, LinksFit

LEMMA OneLinkWritten ==
    ASSUME Inv, SameOwners, NEW k \in LinkId, NEW l \in Link \cup {NoRow}, l # NoRow => l.user \in Accounts,
           link' = [link EXCEPT ![k] = l]
    PROVE  LinksFit'
BY DEF Inv, Rows, TypeOK, SameOwners, LinksFit

LEMMA AccountsStay ==
    ASSUME Inv, account' = account
    PROVE  SameOwners
BY DEF Inv, Rows, TypeOK, SameOwners, Accounts

-----------------------------------------------------------------------------
(* Requests that end, break off or begin *)

LEMMA HeldIdle ==
    ASSUME NEW r \in Request, pc'[r] = "idle", arg'[r] = NoArg
    PROVE  Held(r)' /\ Parted(r)
<1>1. Parted(r)
  BY DEF Parted, Making, Removing
<1>2. Held(r)'
  BY DEF Held, IsArg, NoArg, OneEach, DataFits, StudentsOnly, AccountsMade, RemovalHolds, StaffHeld,
         OneUserSteps, OnePersonSteps, Making, Removing, InTurn
<1> QED
  BY <1>1, <1>2

\* Where a request is after it has ended.
LEMMA Finished ==
    ASSUME Inv, NEW r \in Request, Finish(r)
    PROVE  OnlyAt(r) /\ pc'[r] = "idle" /\ arg'[r] = NoArg /\ pc'[r] \in Step /\ Held(r)' /\ Parted(r)
<1>1. OnlyAt(r) /\ pc'[r] = "idle" /\ arg'[r] = NoArg /\ pc'[r] \in Step
  BY DEF Inv, Finish, OnlyAt, Step
<1> QED
  BY <1>1, HeldIdle

LEMMA FinishKeeps ==
    ASSUME Inv, NEW r \in Request, scope' = scope, Finish(r), Rows', \A q \in Request : Steady(q)
    PROVE  Inv'
BY Finished, StepKeeps

LEMMA FailKeeps ==
    ASSUME Inv, NEW r \in Request, scope' = scope, Fail(r)
    PROVE  Inv'
BY DbKept, FinishKeeps DEF Fail

\* A request whose first step needs no more of the rows than that its accounts and people are right.
LEMMA BeginKeeps ==
    ASSUME Inv, NEW r \in Request, scope' = scope, r \in scope.requests,
           NEW op, NEW step \in Step \ {"idle"}, NEW people \in SUBSET Person,
           NEW users \in SUBSET AccountId, NEW k \in LinkId \cup {NoLink}, NEW data,
           Begin(r, op, step, people, users, k, data),
           (OneEach(r) /\ DataFits(r) /\ StudentsOnly(r) /\ AccountsMade(r) /\ RemovalHolds(r) /\ StaffHeld(r))',
           Parted(r)
    PROVE  Inv'
<1>1. /\ OnlyAt(r) /\ pc'[r] = step
      /\ arg'[r] = [op |-> op, people |-> people, users |-> users, link |-> k, data |-> data]
      /\ UNCHANGED db
  BY DEF Inv, Begin, OnlyAt
<1>2. IsArg(arg'[r])
  BY <1>1 DEF IsArg
<1>3. Held(r)'
  BY <1>1, <1>2 DEF Held
<1> QED
  BY <1>1, <1>3, DbKept, StepKeeps

\* What Begin writes.
LEMMA Begun ==
    ASSUME Inv, NEW r \in Request, NEW op, NEW step, NEW people, NEW users, NEW k, NEW data,
           Begin(r, op, step, people, users, k, data)
    PROVE  /\ pc'[r] = step /\ arg'[r].op = op /\ arg'[r].people = people /\ arg'[r].users = users
           /\ arg'[r].link = k /\ arg'[r].data = data
           /\ account' = account /\ link' = link /\ student' = student /\ teacher' = teacher
           /\ secretary' = secretary
BY DEF Inv, Begin, db

-----------------------------------------------------------------------------
(* Requests that arrive *)

\* The first steps that rely on nothing but their input.
PlainSteps == Step \ ({"idle", "mail", "removeTeachers", "updateSecretary", "removeSecretary"} \cup Making \cup Removing)

LEMMA BeginPlain ==
    ASSUME Inv, NEW r \in Request, scope' = scope, r \in scope.requests,
           NEW op, NEW step \in PlainSteps, NEW people \in SUBSET Person,
           NEW users \in SUBSET AccountId, NEW k \in LinkId \cup {NoLink}, NEW data,
           Begin(r, op, step, people, users, k, data),
           step \in OneUserSteps \cup {"link"} => \E u \in AccountId : users = {u},
           step \in OnePersonSteps => \E p \in Person : people = {p},
           step \in {"users", "teachers"} => people # {} /\ op \in {"createStudents", "createTeachers"},
           step \in {"changePassword", "resetPassword"} => k \in LinkId,
           step = "createUser" => data \in SUBSET Role,
           step = "updateUser" => data \in Change,
           step = "deleted" => data \in BOOLEAN,
           step = "createSecretary" => data \in Faculty
    PROVE  Inv'
<1>1. /\ pc'[r] = step /\ arg'[r].op = op /\ arg'[r].people = people /\ arg'[r].users = users
      /\ arg'[r].link = k /\ arg'[r].data = data
  BY Begun
<1>2. OneEach(r)'
  BY <1>1 DEF OneEach, PlainSteps, OneUserSteps, Step, InTurn, Making
<1>3. DataFits(r)'
  BY <1>1 DEF DataFits, PlainSteps
<1>4. (StudentsOnly(r) /\ AccountsMade(r) /\ RemovalHolds(r) /\ StaffHeld(r))' /\ Parted(r)
  BY <1>1 DEF PlainSteps, StudentsOnly, AccountsMade, RemovalHolds, StaffHeld, Parted
<1>5. step \in Step \ {"idle"}
  BY DEF PlainSteps
<1> QED
  BY <1>2, <1>3, <1>4, <1>5, BeginKeeps

\* What the scope lets a request name.
LEMMA ScopeFits ==
    ASSUME Inv
    PROVE  /\ scope.batches \subseteq (SUBSET Person) \ {{}} /\ People \subseteq Person
           /\ scope.faculties \subseteq Faculty /\ scope.roles \subseteq SUBSET Role
           /\ scope.changes \subseteq Change /\ scope.requests \subseteq Request
           /\ scope.links \in 0 .. MaxLinks /\ MaxLinks \in Nat /\ MaxAccounts \in Nat
<1>1. scope \in Scopes
  BY DEF Inv
<1> QED
  BY <1>1, AccountsAssumption DEF People

LEMMA LinkArrivesKeeps ==
    ASSUME Inv, NEW r \in Request, scope' = scope, LinkArrives(r)
    PROVE  Inv'
<1> USE DEF PlainSteps, Step, Making, Removing, OneUserSteps, OnePersonSteps, NoLink
<1>1. r \in scope.requests
  BY DEF LinkArrives, Free
<1>2. ASSUME NEW op \in {"verifyEmail", "changePassword", "resetPassword"}, NEW k \in LinkId, LinkCheck(r, op, k)
      PROVE  Inv'
  <2>1. link[k].user \in AccountId /\ Begin(r, op, op, {}, {link[k].user}, k, Keep)
    BY <1>2 DEF LinkCheck, Opens, Inv, Rows, TypeOK, Accounts
  <2> QED
    BY <1>1, <2>1, BeginPlain
<1>3. ASSUME NEW u \in Accounts, ResendCheck(r, u)
      PROVE  Inv'
  <2>1. u \in AccountId /\ Begin(r, "resend", "link", {}, {u}, NoLink, Keep)
    BY <1>3 DEF ResendCheck, Accounts
  <2> QED
    BY <1>1, <2>1, BeginPlain
<1>4. ASSUME NEW u \in Accounts, ForgotCheck(r, u)
      PROVE  Inv'
  <2>1. u \in AccountId /\ Begin(r, "forgot", "clear", {}, {u}, NoLink, Keep)
    BY <1>4 DEF ForgotCheck, Accounts
  <2> QED
    BY <1>1, <2>1, BeginPlain
<1>5. ASSUME NEW u \in Accounts, ChangePasswordMeCheck(r, u)
      PROVE  Inv'
  <2>1. u \in AccountId /\ Begin(r, "changePasswordMe", "changePasswordMe", {}, {u}, NoLink, Keep)
    BY <1>5 DEF ChangePasswordMeCheck, Accounts
  <2> QED
    BY <1>1, <2>1, BeginPlain
<1> QED
  BY <1>2, <1>3, <1>4, <1>5 DEF LinkArrives

\* The students of a removal: their accounts are theirs, and no one's who is being made.
LEMMA RemovalKeeps ==
    ASSUME Inv, NEW r \in Request, scope' = scope, r \in scope.requests,
           NEW op \in {"removeStudent", "removeStudents"}, NEW people \in SUBSET Person,
           op = "removeStudent" => \E p \in Person : people = {p},
           RemovalBegin(r, op, people)
    PROVE  Inv'
<1> DEFINE users == {student[p] : p \in people} \ {NoUser}
           data  == Restrict(student, people)
<1>1. Begin(r, op, op, people, users, NoLink, data) /\ \A p \in people : student[p] # NoRow
  BY DEF RemovalBegin
<1>2. \A p \in people : data[p] = student[p]
  BY DEF Restrict
<1>3. \A u \in users : \E p \in people : student[p] = u /\ student[p] \notin {NoRow, NoUser}
  BY <1>1
<1>4. \A u \in users : u \in AccountId /\ NotStaff(u)
  <2>1. \A p \in people : student[p] \notin {NoRow, NoUser} => student[p] \in AccountId /\ NotStaff(student[p])
    BY DEF Inv, Rows, TypeOK, OneSide
  <2> HIDE DEF users
  <2> QED
    BY <1>3, <2>1
<1>5. \A p \in people : student[p] \in Accounts => account[student[p]].who = p
  BY MarkersAssumption DEF Inv, Rows, TypeOK, Accounts
<1>6. users = {data[p] : p \in people} \ {NoUser}
  BY <1>2
<1> HIDE DEF users, data
<1>7. /\ pc'[r] = op /\ arg'[r].people = people /\ arg'[r].users = users /\ arg'[r].data = data
      /\ account' = account /\ student' = student /\ teacher' = teacher /\ secretary' = secretary
  BY <1>1, Begun
<1>8. (OneEach(r) /\ DataFits(r) /\ AccountsMade(r) /\ StaffHeld(r))'
  BY <1>7 DEF OneEach, DataFits, AccountsMade, StaffHeld, OneUserSteps, OnePersonSteps, Making
<1>9. StudentsOnly(r)'
  BY <1>4, <1>7 DEF StudentsOnly, NotStaff
<1>10. RemovalHolds(r)'
  <2>1. \A p \in people : data[p] \in Accounts' => account'[data[p]].who = p
    BY <1>2, <1>5, <1>7 DEF Accounts
  <2>2. op # "removeStudentUser" /\ (op # "removeStudents" => \E p \in Person : people = {p})
    OBVIOUS
  <2> QED
    BY <1>6, <1>7, <2>1, <2>2 DEF RemovalHolds
<1>11. Parted(r)
  <2> SUFFICES ASSUME NEW q \in Request \ {r}, pc[q] \in Making PROVE users \cap arg[q].users = {}
    BY <1>7 DEF Parted, Making
  <2>1. \A u \in arg[q].users : \A p \in Person : student[p] # u
    BY DEF Inv, Held, AccountsMade
  <2> QED
    BY <1>3, <2>1
<1>12. op \in Step \ {"idle"} /\ users \in SUBSET AccountId /\ NoLink \in LinkId \cup {NoLink}
  BY <1>4 DEF Step
<1> QED
  BY <1>1, <1>8, <1>9, <1>10, <1>11, <1>12, BeginKeeps

LEMMA RemoveTeachersBegins ==
    ASSUME Inv, NEW r \in Request, scope' = scope, r \in scope.requests,
           NEW people \in SUBSET Person, RemoveTeachersCheck(r, people)
    PROVE  Inv'
<1> DEFINE users == {teacher[p].user : p \in people}
<1>1. /\ Begin(r, "removeTeachers", "removeTeachers", people, users, NoLink, Keep)
      /\ \A p \in people : teacher[p] # NoRow
  BY DEF RemoveTeachersCheck
<1>2. users \in SUBSET AccountId
  BY <1>1 DEF Inv, Rows, TypeOK, Accounts
<1>3. /\ pc'[r] = "removeTeachers" /\ arg'[r].people = people /\ arg'[r].users = users
      /\ teacher' = teacher
  BY <1>1, Begun
<1>4. StaffHeld(r)'
  BY <1>1, <1>3 DEF StaffHeld
<1>5. (OneEach(r) /\ DataFits(r) /\ StudentsOnly(r) /\ AccountsMade(r) /\ RemovalHolds(r))' /\ Parted(r)
  BY <1>3 DEF OneEach, DataFits, StudentsOnly, AccountsMade, RemovalHolds, Parted, OneUserSteps,
              OnePersonSteps, Making, Removing
<1>6. "removeTeachers" \in Step \ {"idle"} /\ NoLink \in LinkId \cup {NoLink}
  BY DEF Step
<1> HIDE DEF users
<1> QED
  BY <1>1, <1>2, <1>4, <1>5, <1>6, BeginKeeps

LEMMA PeopleArriveKeeps ==
    ASSUME Inv, NEW r \in Request, scope' = scope, PeopleArrive(r)
    PROVE  Inv'
<1> USE DEF PlainSteps, Step, Making, Removing, OneUserSteps, OnePersonSteps, NoLink
<1>0. r \in scope.requests /\ People \subseteq Person /\ scope.batches \subseteq (SUBSET Person) \ {{}}
  BY ScopeFits DEF PeopleArrive, Free
<1>1. ASSUME NEW p \in People, RegisterCheck(r, p) PROVE Inv'
  <2>1. Begin(r, "register", "register", {p}, {}, NoLink, student[p] # NoRow) /\ p \in Person
    BY <1>0, <1>1 DEF RegisterCheck
  <2> QED
    BY <1>0, <2>1, BeginPlain
<1>2. ASSUME NEW people \in scope.batches, CreateStudentsBegin(r, people) PROVE Inv'
  <2>1. Begin(r, "createStudents", "users", people, {}, NoLink, Keep) /\ people \in SUBSET Person /\ people # {}
    BY <1>0, <1>2 DEF CreateStudentsBegin
  <2> QED
    BY <1>0, <2>1, BeginPlain
<1>3. ASSUME NEW people \in scope.batches, CreateTeachersCheck(r, people) PROVE Inv'
  <2>1. Begin(r, "createTeachers", "teachers", people, {}, NoLink, Keep) /\ people \in SUBSET Person /\ people # {}
    BY <1>0, <1>3 DEF CreateTeachersCheck
  <2> QED
    BY <1>0, <2>1, BeginPlain
<1>4. ASSUME NEW p \in People, RemovalBegin(r, "removeStudent", {p}) PROVE Inv'
  BY <1>0, <1>4, RemovalKeeps
<1>5. ASSUME NEW people \in scope.batches, RemovalBegin(r, "removeStudents", people) PROVE Inv'
  BY <1>0, <1>5, RemovalKeeps
<1>6. ASSUME NEW people \in scope.batches, RemoveTeachersCheck(r, people) PROVE Inv'
  BY <1>0, <1>6, RemoveTeachersBegins
<1> QED
  BY <1>1, <1>2, <1>3, <1>4, <1>5, <1>6 DEF PeopleArrive, ImportStudentsCheck

LEMMA SecretaryBegins ==
    ASSUME Inv, NEW r \in Request, scope' = scope, r \in scope.requests,
           NEW u \in AccountId, secretary[u] # NoRow,
           NEW step \in {"updateSecretary", "removeSecretary"}, NEW op, NEW data,
           Begin(r, op, step, {}, {u}, NoLink, data),
           step = "updateSecretary" => data[1] \in Faculty \cup {Keep} /\ data[2] \in Change
    PROVE  Inv'
<1>1. /\ pc'[r] = step /\ arg'[r].users = {u} /\ arg'[r].data = data /\ secretary' = secretary
  BY Begun
<1>2. (OneEach(r) /\ DataFits(r))'
  BY <1>1 DEF OneEach, DataFits, OneUserSteps, OnePersonSteps, Making
<1>3. (StudentsOnly(r) /\ AccountsMade(r) /\ RemovalHolds(r) /\ StaffHeld(r))' /\ Parted(r)
  BY <1>1 DEF StudentsOnly, AccountsMade, RemovalHolds, StaffHeld, Parted, Making, Removing
<1>4. step \in Step \ {"idle"} /\ NoLink \in LinkId \cup {NoLink} /\ {} \in SUBSET Person /\ {u} \in SUBSET AccountId
  BY DEF Step
<1> QED
  BY <1>2, <1>3, <1>4, BeginKeeps

LEMMA DeletionBegins ==
    ASSUME Inv, NEW r \in Request, scope' = scope, r \in scope.requests,
           NEW u \in AccountId, NEW op, NEW b \in BOOLEAN,
           Begin(r, op, "deleted", {}, {u}, NoLink, b)
    PROVE  Inv'
BY BeginPlain DEF PlainSteps, Step, Making, Removing, OneUserSteps, OnePersonSteps, NoLink

LEMMA StaffArrivesKeeps ==
    ASSUME Inv, NEW r \in Request, scope' = scope, StaffArrives(r)
    PROVE  Inv'
<1> USE DEF PlainSteps, Step, Making, Removing, OneUserSteps, OnePersonSteps, NoLink
<1>0. /\ r \in scope.requests /\ People \subseteq Person /\ scope.roles \subseteq SUBSET Role
      /\ scope.faculties \subseteq Faculty /\ scope.changes \subseteq Change
  BY ScopeFits DEF StaffArrives, Free
<1>1. ASSUME NEW p \in People, NEW roles \in scope.roles, CreateUserCheck(r, p, roles) PROVE Inv'
  <2>1. /\ Begin(r, "createUser", "createUser", {p}, {}, NoLink, roles)
        /\ p \in Person /\ roles \in SUBSET Role
    BY <1>0, <1>1 DEF CreateUserCheck
  <2> QED
    BY <1>0, <2>1, BeginPlain
<1>2. ASSUME NEW p \in People, NEW f \in scope.faculties, CreateSecretaryCheck(r, p, f) PROVE Inv'
  <2>1. Begin(r, "createSecretary", "createSecretary", {p}, {}, NoLink, f) /\ p \in Person /\ f \in Faculty
    BY <1>0, <1>2 DEF CreateSecretaryCheck
  <2> QED
    BY <1>0, <2>1, BeginPlain
<1>3. ASSUME NEW u \in Accounts, NEW change \in scope.changes, UpdateUserCheck(r, u, change) PROVE Inv'
  <2>1. Begin(r, "updateUser", "updateUser", {}, {u}, NoLink, change) /\ u \in AccountId /\ change \in Change
    BY <1>0, <1>3 DEF UpdateUserCheck, Accounts
  <2> QED
    BY <1>0, <2>1, BeginPlain
<1>4. ASSUME NEW u \in Accounts, NEW roles \in scope.roles, AssignRolesCheck(r, u, roles) PROVE Inv'
  <2> DEFINE change == [active |-> Keep, mustChange |-> Keep, roles |-> roles]
  <2>1. Begin(r, "assignRoles", "updateUser", {}, {u}, NoLink, change) /\ u \in AccountId
    BY <1>4 DEF AssignRolesCheck, Accounts
  <2>2. change \in Change
    BY <1>0 DEF Change
  <2> HIDE DEF change
  <2> QED
    BY <1>0, <2>1, <2>2, BeginPlain
<1>5. ASSUME NEW u \in Accounts, RemoveUserCheck(r, u) PROVE Inv'
  <2>1. Begin(r, "removeUser", "deleted", {}, {u}, NoLink, TRUE) /\ u \in AccountId
    BY <1>5 DEF RemoveUserCheck, Accounts
  <2> QED
    BY <1>0, <2>1, DeletionBegins, Zenon
<1>6. ASSUME NEW u \in Accounts, RestoreUserCheck(r, u) PROVE Inv'
  <2>1. Begin(r, "restoreUser", "deleted", {}, {u}, NoLink, FALSE) /\ u \in AccountId
    BY <1>6 DEF RestoreUserCheck, Accounts
  <2> QED
    BY <1>0, <2>1, DeletionBegins, Zenon
<1>7. ASSUME NEW u \in Accounts, NEW f \in scope.faculties \cup {Keep}, NEW change \in scope.changes,
             UpdateSecretaryCheck(r, u, f, change)
      PROVE  Inv'
  <2> DEFINE data == <<f, [change EXCEPT !.roles = Keep]>>
  <2>1. /\ Begin(r, "updateSecretary", "updateSecretary", {}, {u}, NoLink, data)
        /\ u \in AccountId /\ secretary[u] # NoRow
    BY <1>7 DEF UpdateSecretaryCheck, Serving, Accounts
  <2>2. change \in Change
    BY <1>0
  <2>3. [change EXCEPT !.roles = Keep] \in Change
    BY <2>2 DEF Change
  <2>4. data[1] \in Faculty \cup {Keep} /\ data[2] \in Change
    BY <1>0, <2>3
  <2> HIDE DEF data
  <2> QED
    BY <1>0, <2>1, <2>4, SecretaryBegins
<1>8. ASSUME NEW u \in Accounts, RemoveSecretaryCheck(r, u) PROVE Inv'
  <2>1. /\ Begin(r, "removeSecretary", "removeSecretary", {}, {u}, NoLink, Keep)
        /\ u \in AccountId /\ secretary[u] # NoRow
    BY <1>8 DEF RemoveSecretaryCheck, Serving, Accounts
  <2> QED
    BY <1>0, <2>1, SecretaryBegins
<1> QED
  BY <1>1, <1>2, <1>3, <1>4, <1>5, <1>6, <1>7, <1>8 DEF StaffArrives

-----------------------------------------------------------------------------
(* Mailing a link, and using it *)

LEMMA HeldInMail ==
    ASSUME NEW r \in Request, pc'[r] \in {"link", "mail"}, IsArg(arg'[r]), (r \in scope.requests)',
           arg'[r].users # {}, ~InTurn(r)' => \E u \in AccountId : arg'[r].users = {u},
           pc'[r] = "mail" => arg'[r].link \in LinkId
    PROVE  Held(r)' /\ Parted(r)
<1>1. Parted(r)
  BY DEF Parted, Making, Removing
<1>2. Held(r)'
  BY DEF Held, OneEach, DataFits, StudentsOnly, AccountsMade, RemovalHolds, StaffHeld,
         OneUserSteps, OnePersonSteps, Making, Removing
<1> QED
  BY <1>1, <1>2

\* After a mail the request goes on to the next account of its list or ends.
LEMMA AfterMailKeeps ==
    ASSUME Inv, NEW r \in Request, scope' = scope, pc[r] \in {"link", "mail"}, AfterMail(r),
           Rows', \A q \in Request : Steady(q)
    PROVE  Inv'
<1>1. CASE Finish(r)
  BY <1>1, FinishKeeps
<1>2. CASE arg[r].users # {NextUser(r)}
  <2> DEFINE rest == arg[r].users \ {NextUser(r)}
  <2>1. Held(r) /\ pc[r] # "idle"
    BY DEF Inv
  <2>2. arg[r].users # {} /\ arg[r].users \subseteq AccountId
    BY <2>1 DEF Held, OneEach, IsArg
  <2>3. InTurn(r)
    BY <1>2, <2>1, UserIs DEF Held, OneEach
  <2>4. arg' = [arg EXCEPT ![r] = [arg[r] EXCEPT !.users = rest, !.link = NoLink]] /\ pc' = [pc EXCEPT ![r] = "link"]
    BY <1>2 DEF AfterMail, Go
  <2>5. rest # {} /\ rest \in SUBSET AccountId
    BY <1>2, <2>2
  <2> HIDE DEF rest
  <2>6. /\ OnlyAt(r) /\ pc'[r] = "link"
        /\ arg'[r] = [op |-> arg[r].op, people |-> arg[r].people, users |-> rest, link |-> NoLink, data |-> arg[r].data]
    BY <2>1, <2>4 DEF OnlyAt, Inv, Held, IsArg
  <2>7. IsArg(arg'[r]) /\ arg'[r].users # {} /\ InTurn(r)'
    BY <2>1, <2>3, <2>5, <2>6 DEF IsArg, InTurn, Held
  <2>8. r \in scope.requests
    BY <2>1 DEF Held
  <2>9. Held(r)' /\ Parted(r) /\ pc'[r] \in Step
    BY <2>6, <2>7, <2>8, HeldInMail DEF Step
  <2> QED
    BY <2>6, <2>9, StepKeeps
<1> QED
  BY <1>1, <1>2 DEF AfterMail

\* A link that can be written again.
LEMMA FreeLink ==
    ASSUME Inv, FreeLinks # {}
    PROVE  Min(FreeLinks) \in FreeLinks /\ Min(FreeLinks) \in LinkId
<1>1. FreeLinks \subseteq LinkId
  BY ScopeFits DEF FreeLinks, LinkId
<1>2. FreeLinks \in SUBSET Nat
  BY <1>1 DEF LinkId
<1>3. Min(FreeLinks) \in FreeLinks
  BY <1>2, MinOf
<1> QED
  BY <1>1, <1>3

LEMMA CreateLinkKeeps ==
    ASSUME Inv, NEW r \in Request, scope' = scope, CreateLink(r)
    PROVE  Inv'
<1> DEFINE u == NextUser(r)
           k == Min(FreeLinks)
           kind == IF arg[r].op = "forgot" THEN "reset" ELSE "verify"
<1>1. /\ At(r, "link") /\ u \in Accounts /\ FreeLinks # {}
      /\ link' = [link EXCEPT ![k] = NewLink(u, kind)] /\ UNCHANGED <<account, student, teacher, secretary>>
      /\ arg' = [arg EXCEPT ![r] = [arg[r] EXCEPT !.link = k]] /\ pc' = [pc EXCEPT ![r] = "mail"]
  BY DEF CreateLink, SetLinks, Go
<1>2. k \in LinkId
  BY <1>1, FreeLink
<1>3. NewLink(u, kind) \in Link /\ NewLink(u, kind).user = u
  BY <1>1, RowLink DEF Accounts
<1>4. Held(r) /\ pc[r] = "link" /\ r \in scope.requests
  BY <1>1 DEF Inv, Held, At
<1> HIDE DEF u, k, kind
<1>5. SameOwners
  BY <1>1, AccountsStay
<1>6. LinksFit'
  BY <1>1, <1>2, <1>3, <1>5, OneLinkWritten
<1>7. Rows' /\ \A q \in Request : Steady(q)
  BY <1>1, <1>5, <1>6, OwnersKept
<1>8. /\ OnlyAt(r) /\ pc'[r] = "mail"
      /\ arg'[r] = [op |-> arg[r].op, people |-> arg[r].people, users |-> arg[r].users, link |-> k, data |-> arg[r].data]
  BY <1>1, <1>4 DEF OnlyAt, Inv, Held, IsArg
<1>9. IsArg(arg'[r]) /\ arg'[r].users # {} /\ arg'[r].link \in LinkId
      /\ (~InTurn(r)' => \E v \in AccountId : arg'[r].users = {v})
  BY <1>2, <1>4, <1>8 DEF IsArg, InTurn, Held, OneEach
<1>10. Held(r)' /\ Parted(r) /\ pc'[r] \in Step
  BY <1>4, <1>8, <1>9, HeldInMail DEF Step
<1> QED
  BY <1>7, <1>8, <1>10, StepKeeps

LEMMA MailSentKeeps ==
    ASSUME Inv, NEW r \in Request, NEW kind, scope' = scope, MailSent(r, kind)
    PROVE  Inv'
<1> DEFINE k == arg[r].link
           l == IF link[k] = NoRow THEN NoRow ELSE [link[k] EXCEPT !.mailed = TRUE]
<1>1. pc[r] = "mail" /\ AfterMail(r) /\ UNCHANGED <<account, student, teacher, secretary>>
  BY DEF MailSent, SetLinks, At
<1>2. k \in LinkId
  BY <1>1 DEF Inv, Held, OneEach
<1>3. link' = [link EXCEPT ![k] = l]
  BY <1>2 DEF MailSent, SetLinks, Inv, Rows, TypeOK
<1>4. l \in Link \cup {NoRow} /\ (l # NoRow => l.user \in Accounts)
  <2>1. link[k] \in Link \cup {NoRow} /\ (link[k] # NoRow => link[k].user \in Accounts)
    BY <1>2 DEF Inv, Rows, TypeOK
  <2>2. CASE link[k] = NoRow
    BY <2>2
  <2>3. CASE link[k] # NoRow
    BY <2>1, <2>3, RowMailed
  <2> QED
    BY <2>2, <2>3
<1> HIDE DEF k, l
<1>5. SameOwners
  BY <1>1, AccountsStay
<1>6. LinksFit'
  BY <1>2, <1>3, <1>4, <1>5, OneLinkWritten
<1>7. Rows' /\ \A q \in Request : Steady(q)
  BY <1>1, <1>5, <1>6, OwnersKept
<1> QED
  BY <1>1, <1>7, AfterMailKeeps

LEMMA MailLostKeeps ==
    ASSUME Inv, NEW r \in Request, scope' = scope, MailLost(r)
    PROVE  Inv'
<1>1. pc[r] \in {"link", "mail"} /\ AfterMail(r) /\ UNCHANGED db
  BY DEF MailLost, At
<1> QED
  BY <1>1, DbKept, AfterMailKeeps

LEMMA ClearKeeps ==
    ASSUME Inv, NEW r \in Request, scope' = scope, Clear(r)
    PROVE  Inv'
<1>1. /\ pc[r] = "clear" /\ pc' = [pc EXCEPT ![r] = "link"] /\ arg' = arg
      /\ link' = [k \in LinkId |-> IF k \in LinksOf(User(r)) THEN NoRow ELSE link[k]]
      /\ UNCHANGED <<account, student, teacher, secretary>>
  BY DEF Clear, SetLinks, Go, At
<1>2. Held(r)
  BY DEF Inv
<1>3. SameOwners
  BY <1>1, AccountsStay
<1>4. LinksFit'
  BY <1>1, <1>3 DEF LinksFit, SameOwners, Inv, Rows, TypeOK
<1>5. Rows' /\ \A q \in Request : Steady(q)
  BY <1>1, <1>3, <1>4, OwnersKept
<1>6. OnlyAt(r) /\ pc'[r] = "link" /\ arg'[r] = arg[r]
  BY <1>1 DEF OnlyAt, Inv
<1>7. IsArg(arg'[r]) /\ (r \in scope.requests)' /\ \E u \in AccountId : arg'[r].users = {u}
  BY <1>1, <1>2, <1>6 DEF Held, OneEach, OneUserSteps
<1>8. Held(r)' /\ Parted(r) /\ pc'[r] \in Step
  BY <1>6, <1>7, HeldInMail DEF Step
<1> QED
  BY <1>5, <1>6, <1>8, StepKeeps

\* The account of a request that names one is in the range of ids.
LEMMA OneUser ==
    ASSUME Inv, NEW r \in Request, pc[r] \in OneUserSteps
    PROVE  User(r) \in AccountId /\ arg[r].users = {User(r)}
<1>1. PICK u \in AccountId : arg[r].users = {u}
  BY DEF Inv, Held, OneEach
<1> QED
  BY <1>1, UserIs

\* A handler that writes one account, and links at most, and ends.
LEMMA OneAccountKeeps ==
    ASSUME Inv, NEW r \in Request, scope' = scope, Finish(r), NEW u \in Accounts, NEW a \in Account,
           a.who = account[u].who, account' = [account EXCEPT ![u] = a], LinksFit' \/ link' = link,
           UNCHANGED <<student, teacher, secretary>>
    PROVE  Inv'
<1>1. SameOwners
  BY OneRowWritten
<1>2. LinksFit'
  BY <1>1, LinksStay
<1>3. Rows' /\ \A q \in Request : Steady(q)
  BY <1>1, <1>2, OwnersKept
<1> QED
  BY <1>3, FinishKeeps

LEMMA VerifyEmailKeeps ==
    ASSUME Inv, NEW r \in Request, scope' = scope, VerifyEmail(r)
    PROVE  Inv'
<1> DEFINE u == User(r)
           a == [account[u] EXCEPT !.verified = TRUE]
<1>1. u \in Accounts /\ Finish(r) /\ UNCHANGED <<link, student, teacher, secretary>>
  BY DEF VerifyEmail, SetAccounts
<1>2. account' = [account EXCEPT ![u] = a]
  BY <1>1 DEF VerifyEmail, SetAccounts
<1>3. a \in Account /\ a.who = account[u].who
  BY <1>1, AccountRead, RowVerified
<1> HIDE DEF u, a
<1> QED
  BY <1>1, <1>2, <1>3, OneAccountKeeps

LEMMA ChangePasswordMeKeeps ==
    ASSUME Inv, NEW r \in Request, scope' = scope, ChangePasswordMe(r)
    PROVE  Inv'
<1> DEFINE u == User(r)
           a == WithPassword(account[u])
<1>1. u \in Accounts /\ Finish(r) /\ UNCHANGED <<link, student, teacher, secretary>>
  BY DEF ChangePasswordMe, SetAccounts
<1>2. account' = [account EXCEPT ![u] = a]
  BY <1>1 DEF ChangePasswordMe, SetAccounts
<1>3. a \in Account /\ a.who = account[u].who
  BY <1>1, AccountRead, RowPassword
<1> HIDE DEF u, a
<1> QED
  BY <1>1, <1>2, <1>3, OneAccountKeeps

LEMMA UseKeeps ==
    ASSUME Inv, SameOwners, NEW k \in LinkId, link[k] # NoRow, Use(k)
    PROVE  LinksFit'
<1> DEFINE l == [link[k] EXCEPT !.live = FALSE, !.sets = IF @ = 2 THEN 2 ELSE @ + 1]
<1>1. link[k] \in Link /\ link[k].user \in Accounts
  BY DEF Inv, Rows, TypeOK
<1>2. l \in Link /\ l.user \in Accounts
  BY <1>1, RowUsed
<1>3. link' = [link EXCEPT ![k] = l]
  BY DEF Use
<1> HIDE DEF l
<1> QED
  BY <1>2, <1>3, OneLinkWritten

LEMMA SetPasswordKeeps ==
    ASSUME Inv, NEW r \in Request, scope' = scope, ChangePassword(r) \/ ResetPassword(r)
    PROVE  Inv'
<1> DEFINE u == User(r)
           a == WithPassword(account[u])
           b == [a EXCEPT !.verified = TRUE]
           k == arg[r].link
<1>1. /\ pc[r] \in {"changePassword", "resetPassword"}
      /\ u \in Accounts /\ link[k] # NoRow /\ Use(k) /\ Finish(r)
      /\ account' = [account EXCEPT ![u] = a] \/ account' = [account EXCEPT ![u] = b]
      /\ UNCHANGED <<student, teacher, secretary>>
  BY DEF ChangePassword, ResetPassword, At
<1>2. k \in LinkId
  BY <1>1 DEF Inv, Held, OneEach
<1>3. a \in Account /\ a.who = account[u].who
  BY <1>1, AccountRead, RowPassword
<1>4. b \in Account /\ b.who = account[u].who
  BY <1>3, RowVerified
<1> HIDE DEF u, a, b, k
<1>5. SameOwners
  BY <1>1, <1>3, <1>4, OneRowWritten
<1>6. LinksFit'
  BY <1>1, <1>2, <1>5, UseKeeps
<1> QED
  BY <1>1, <1>3, <1>4, <1>6, OneAccountKeeps

LEMMA UpdateUserKeeps ==
    ASSUME Inv, NEW r \in Request, scope' = scope, UpdateUser(r)
    PROVE  Inv'
<1> DEFINE u == User(r)
           a == Changed(account[u], arg[r].data)
<1>1. u \in Accounts /\ Finish(r) /\ UNCHANGED <<link, student, teacher, secretary>> /\ pc[r] = "updateUser"
  BY DEF UpdateUser, SetAccounts, At
<1>2. account' = [account EXCEPT ![u] = a]
  BY <1>1 DEF UpdateUser, SetAccounts
<1>3. arg[r].data \in Change
  BY <1>1 DEF Inv, Held, DataFits
<1>4. a \in Account /\ a.who = account[u].who
  BY <1>1, <1>3, AccountRead, RowChanged
<1> HIDE DEF u, a
<1> QED
  BY <1>1, <1>2, <1>4, OneAccountKeeps

LEMMA SetDeletedKeeps ==
    ASSUME Inv, NEW r \in Request, scope' = scope, SetDeleted(r)
    PROVE  Inv'
<1> DEFINE u == User(r)
           a == [account[u] EXCEPT !.deleted = arg[r].data]
<1>1. u \in Accounts /\ Finish(r) /\ UNCHANGED <<link, student, teacher, secretary>> /\ pc[r] = "deleted"
  BY DEF SetDeleted, SetAccounts, At
<1>2. account' = [account EXCEPT ![u] = a]
  BY <1>1 DEF SetDeleted, SetAccounts
<1>3. arg[r].data \in BOOLEAN
  BY <1>1 DEF Inv, Held, DataFits
<1>4. a \in Account /\ a.who = account[u].who
  BY <1>1, <1>3, AccountRead, RowDeleted, Zenon
<1> HIDE DEF u, a
<1> QED
  BY <1>1, <1>2, <1>4, OneAccountKeeps

LEMMA ExpireKeeps ==
    ASSUME Inv, NEW k \in LinkId, scope' = scope, Expire(k)
    PROVE  Inv'
<1> DEFINE l == [link[k] EXCEPT !.live = FALSE]
<1>1. link[k] # NoRow /\ UNCHANGED <<account, student, teacher, secretary, pc, arg>>
  BY DEF Expire, SetLinks, Opens
<1>2. link' = [link EXCEPT ![k] = l]
  BY DEF Expire, SetLinks
<1>3. l \in Link /\ l.user \in Accounts
  BY <1>1, RowDead DEF Inv, Rows, TypeOK
<1> HIDE DEF l
<1>4. SameOwners
  BY <1>1, AccountsStay
<1>5. LinksFit'
  BY <1>2, <1>3, <1>4, OneLinkWritten
<1>6. Rows' /\ \A q \in Request : Steady(q)
  BY <1>1, <1>4, <1>5, OwnersKept
<1>7. \A q \in Request : Held(q)'
  BY <1>1, <1>6, OthersHeld
<1> QED
  BY <1>1, <1>6, <1>7 DEF Inv, Apart

-----------------------------------------------------------------------------
(* Teachers and secretaries *)

LEMMA RemoveTeachersKeeps ==
    ASSUME Inv, NEW r \in Request, scope' = scope, RemoveTeachers(r)
    PROVE  Inv'
<1>1. /\ pc[r] = "removeTeachers" /\ Finish(r) /\ UNCHANGED <<link, student, secretary>>
      /\ teacher' = [p \in Person |-> IF p \in arg[r].people THEN [teacher[p] EXCEPT !.live = FALSE] ELSE teacher[p]]
      /\ account' = [u \in AccountId |-> IF u \in arg[r].users THEN [account[u] EXCEPT !.active = FALSE]
                                         ELSE account[u]]
  BY DEF RemoveTeachers, At
<1>2. /\ arg[r].people \subseteq Person /\ arg[r].users = {teacher[p].user : p \in arg[r].people}
      /\ \A p \in arg[r].people : teacher[p] # NoRow
  BY <1>1 DEF Inv, Held, StaffHeld, IsArg
<1>3. \A u \in arg[r].users : u \in Accounts
  BY <1>2 DEF Inv, Rows, TypeOK
<1>4. \A u \in AccountId :
         /\ account'[u] \in Account \cup {NoRow}
         /\ account'[u] # NoRow <=> account[u] # NoRow
         /\ account[u] # NoRow => account'[u].who = account[u].who
  <2> SUFFICES ASSUME NEW u \in AccountId
               PROVE  /\ account'[u] \in Account \cup {NoRow}
                      /\ account'[u] # NoRow <=> account[u] # NoRow
                      /\ account[u] # NoRow => account'[u].who = account[u].who
    OBVIOUS
  <2>1. CASE u \in arg[r].users
    <3>1. account[u] \in Account /\ account[u] # NoRow
      BY <1>3, <2>1, AccountRead DEF Accounts
    <3>2. account'[u] = [account[u] EXCEPT !.active = FALSE]
      BY <1>1, <2>1
    <3> QED
      BY <3>1, <3>2, RowActive, RowsAssumption
  <2>2. CASE u \notin arg[r].users
    BY <1>1, <2>2 DEF Inv, Rows, TypeOK
  <2> QED
    BY <2>1, <2>2
<1>5. SameOwners
  BY <1>1, <1>4 DEF SameOwners, Accounts
<1>6. /\ teacher' \in [Person -> Teacher \cup {NoRow}]
      /\ \A p \in Person : (teacher'[p] # NoRow <=> teacher[p] # NoRow) /\ (teacher[p] # NoRow => teacher'[p].user = teacher[p].user)
  <2>1. \A t \in Teacher : [t EXCEPT !.live = FALSE] \in Teacher /\ [t EXCEPT !.live = FALSE].user = t.user
    BY DEF Teacher
  <2>2. ASSUME NEW p \in Person
        PROVE  /\ teacher'[p] \in Teacher \cup {NoRow}
               /\ teacher'[p] # NoRow <=> teacher[p] # NoRow
               /\ teacher[p] # NoRow => teacher'[p].user = teacher[p].user
    <3>1. teacher[p] \in Teacher \cup {NoRow}
      BY DEF Inv, Rows, TypeOK
    <3>2. CASE p \in arg[r].people
      <4>1. teacher[p] \in Teacher /\ teacher[p] # NoRow
        BY <1>2, <3>1, <3>2
      <4>2. teacher'[p] = [teacher[p] EXCEPT !.live = FALSE]
        BY <1>1, <3>2
      <4> QED
        BY <2>1, <4>1, <4>2, RowsAssumption
    <3>3. CASE p \notin arg[r].people
      BY <1>1, <3>1, <3>3
    <3> QED
      BY <3>2, <3>3
  <2> QED
    BY <1>1, <2>2
<1>7. LinksFit'
  BY <1>1, <1>5, LinksStay
<1>8. TypeOK'
  BY <1>1, <1>5, <1>6, <1>7 DEF Inv, Rows, TypeOK, SameOwners, LinksFit, Occupied
<1>9. OneSide'
  BY <1>1, <1>6 DEF Inv, Rows, OneSide, NotStaff
<1>10. ASSUME NEW q \in Request PROVE Steady(q)
  BY <1>1, <1>5, <1>6 DEF Inv, Held, AccountsMade, Steady, SameOwners
<1> QED
  BY <1>1, <1>8, <1>9, <1>10, FinishKeeps DEF Rows

\* The row of a secretary is written, of one who has it already, and the account with it.
LEMMA SecretaryKept ==
    ASSUME Inv, NEW r \in Request, scope' = scope, Finish(r), NEW u \in AccountId, secretary[u] # NoRow,
           NEW a \in Account, a.who = account[u].who, account' = [account EXCEPT ![u] = a],
           NEW s \in Secretary, secretary' = [secretary EXCEPT ![u] = s],
           s.faculty \in Faculty => Occupied(s.faculty) \subseteq {u},
           UNCHANGED <<link, student, teacher>>
    PROVE  Inv'
<1>1. u \in Accounts
  BY DEF Inv, Rows, TypeOK
<1>2. SameOwners
  BY <1>1, OneRowWritten
<1>3. LinksFit'
  BY <1>2, LinksStay
<1>4. /\ secretary' \in [AccountId -> Secretary \cup {NoRow}]
      /\ \A v \in AccountId : secretary'[v] # NoRow <=> secretary[v] # NoRow
  BY RowsAssumption DEF Inv, Rows, TypeOK
<1>5. \A f \in Faculty : \A v, w \in Occupied(f)' : v = w
  <2> SUFFICES ASSUME NEW f \in Faculty, NEW v \in Occupied(f)', NEW w \in Occupied(f)'
               PROVE  v = w
    OBVIOUS
  <2>1. \A x \in AccountId : secretary'[x] = (IF x = u THEN s ELSE secretary[x])
    BY DEF Inv, Rows, TypeOK
  <2>2. v \in AccountId /\ w \in AccountId /\ secretary'[v] # NoRow /\ secretary'[w] # NoRow
        /\ secretary'[v].faculty = f /\ secretary'[w].faculty = f
    BY DEF Occupied
  <2>3. CASE v = u \/ w = u
    BY <2>1, <2>2, <2>3 DEF Occupied
  <2>4. CASE v # u /\ w # u
    <3>1. v \in Occupied(f) /\ w \in Occupied(f)
      BY <2>1, <2>2, <2>4 DEF Occupied
    <3> QED
      BY <3>1 DEF Inv, Rows, TypeOK
  <2> QED
    BY <2>3, <2>4
<1>6. TypeOK'
  BY <1>2, <1>3, <1>4, <1>5 DEF Inv, Rows, TypeOK, SameOwners, LinksFit
<1>7. OneSide'
  BY <1>4 DEF Inv, Rows, TypeOK, OneSide, NotStaff, Accounts
<1>8. ASSUME NEW q \in Request PROVE Steady(q)
  BY <1>2, <1>4 DEF Inv, Held, IsArg, AccountsMade, Steady, SameOwners
<1> QED
  BY <1>6, <1>7, <1>8, FinishKeeps DEF Rows

LEMMA UpdateSecretaryKeeps ==
    ASSUME Inv, NEW r \in Request, scope' = scope, UpdateSecretary(r)
    PROVE  Inv'
<1> DEFINE u == User(r)
           a == Changed(account[u], arg[r].data[2])
           s == [secretary[u] EXCEPT !.faculty = Given(arg[r].data[1], @)]
<1>1. /\ pc[r] = "updateSecretary" /\ Finish(r) /\ UNCHANGED <<link, student, teacher>>
      /\ account' = [account EXCEPT ![u] = a] /\ secretary' = [secretary EXCEPT ![u] = s]
      /\ SecretaryFits(r)
  BY DEF UpdateSecretary, At
<1>2. u \in AccountId /\ arg[r].users = {u}
  BY <1>1, OneUser DEF OneUserSteps
<1>3. secretary[u] # NoRow /\ u \in Accounts
  BY <1>1, <1>2 DEF Inv, Held, StaffHeld, Rows, TypeOK
<1>4. arg[r].data[1] \in Faculty \cup {Keep} /\ arg[r].data[2] \in Change
  BY <1>1 DEF Inv, Held, DataFits
<1>5. a \in Account /\ a.who = account[u].who
  BY <1>3, <1>4, AccountRead, RowChanged
<1>6. secretary[u] \in Secretary
  BY <1>2, <1>3 DEF Inv, Rows, TypeOK
<1>7. s \in Secretary /\ s.faculty = Given(arg[r].data[1], secretary[u].faculty)
  BY <1>4, <1>6 DEF Secretary, Given
<1>8. s.faculty \in Faculty => Occupied(s.faculty) \subseteq {u}
  <2>1. CASE arg[r].data[1] = Keep
    <3>1. s.faculty = secretary[u].faculty
      BY <1>7, <2>1 DEF Given
    <3>2. u \in Occupied(s.faculty)
      BY <1>2, <1>3, <3>1 DEF Occupied
    <3> QED
      BY <3>2 DEF Inv, Rows, TypeOK
  <2>2. CASE arg[r].data[1] # Keep
    BY <1>1, <1>2, <1>7, <2>2 DEF Given, SecretaryFits
  <2> QED
    BY <2>1, <2>2
<1> HIDE DEF u, a, s
<1> QED
  BY <1>1, <1>2, <1>3, <1>5, <1>7, <1>8, SecretaryKept

LEMMA RemoveSecretaryKeeps ==
    ASSUME Inv, NEW r \in Request, scope' = scope, RemoveSecretary(r)
    PROVE  Inv'
<1> DEFINE u == User(r)
           a == [[account[u] EXCEPT !.deleted = TRUE] EXCEPT !.active = FALSE]
           s == [live |-> FALSE, faculty |-> NoFaculty]
<1>1. pc[r] = "removeSecretary" /\ Finish(r) /\ UNCHANGED <<link, student, teacher>>
  BY DEF RemoveSecretary, At
<1>2. u \in AccountId /\ arg[r].users = {u}
  BY <1>1, OneUser DEF OneUserSteps
<1>3. secretary[u] # NoRow /\ u \in Accounts
  BY <1>1, <1>2 DEF Inv, Held, StaffHeld, Rows, TypeOK
<1>4. a \in Account /\ a.who = account[u].who
  BY <1>3, AccountRead, RowDeleted, RowActive
<1>5. account' = [account EXCEPT ![u] = a] /\ secretary' = [secretary EXCEPT ![u] = s]
  BY <1>2 DEF RemoveSecretary, Inv, Rows, TypeOK
<1>6. s \in Secretary /\ s.faculty \notin Faculty
  BY MarkersAssumption DEF Secretary
<1> HIDE DEF u, a, s
<1> QED
  BY <1>1, <1>2, <1>3, <1>4, <1>5, <1>6, SecretaryKept

-----------------------------------------------------------------------------
(* Students and their accounts *)

LEMMA CreateStudentRolesKeeps ==
    ASSUME Inv, NEW r \in Request, scope' = scope, CreateStudentRoles(r)
    PROVE  Inv'
<1>1. /\ pc[r] = "roles" /\ arg[r].users \subseteq Accounts
      /\ pc' = [pc EXCEPT ![r] = "rows"] /\ arg' = arg
      /\ account' = [u \in AccountId |-> IF u \in arg[r].users THEN [account[u] EXCEPT !.roles = @ \cup {"STUDENT"}]
                                         ELSE account[u]]
      /\ UNCHANGED <<link, student, teacher, secretary>>
  BY DEF CreateStudentRoles, SetAccounts, Go, At
<1>2. \A u \in AccountId :
         /\ account'[u] \in Account \cup {NoRow}
         /\ account'[u] # NoRow <=> account[u] # NoRow
         /\ account[u] # NoRow => account'[u].who = account[u].who
  <2> SUFFICES ASSUME NEW u \in AccountId
               PROVE  /\ account'[u] \in Account \cup {NoRow}
                      /\ account'[u] # NoRow <=> account[u] # NoRow
                      /\ account[u] # NoRow => account'[u].who = account[u].who
    OBVIOUS
  <2>1. CASE u \in arg[r].users
    <3> DEFINE roles == account[u].roles \cup {"STUDENT"}
    <3>1. account[u] \in Account /\ account[u] # NoRow
      BY <1>1, <2>1, AccountRead DEF Accounts
    <3>2. account'[u] = [account[u] EXCEPT !.roles = roles]
      BY <1>1, <2>1
    <3>3. roles \in SUBSET Role
      BY <3>1 DEF Account, Role
    <3> HIDE DEF roles
    <3> QED
      BY <3>1, <3>2, <3>3, RowRoles, RowsAssumption
  <2>2. CASE u \notin arg[r].users
    BY <1>1, <2>2 DEF Inv, Rows, TypeOK
  <2> QED
    BY <2>1, <2>2
<1>3. SameOwners
  BY <1>1, <1>2 DEF SameOwners, Accounts
<1>4. LinksFit'
  BY <1>1, <1>3, LinksStay
<1>5. Rows' /\ \A q \in Request : Steady(q)
  BY <1>1, <1>3, <1>4, OwnersKept
<1>6. OnlyAt(r) /\ pc'[r] = "rows" /\ arg'[r] = arg[r] /\ pc'[r] \in Step
  BY <1>1 DEF OnlyAt, Inv, Step
<1>7. Held(r)
  BY DEF Inv
<1>8. Held(r)'
  <2>1. (OneEach(r) /\ DataFits(r) /\ RemovalHolds(r) /\ StaffHeld(r))'
    BY <1>1, <1>6, <1>7 DEF Held, OneEach, InTurn, DataFits, RemovalHolds, StaffHeld, OneUserSteps, OnePersonSteps,
                            Making, Removing
  <2>2. StudentsOnly(r)'
    BY <1>1, <1>6, <1>7 DEF Held, StudentsOnly, NotStaff, Making
  <2>3. AccountsMade(r)'
    BY <1>1, <1>3, <1>6, <1>7 DEF Held, AccountsMade, SameOwners, Making
  <2> QED
    BY <1>1, <1>6, <1>7, <2>1, <2>2, <2>3 DEF Held
<1>9. Parted(r)
  BY <1>1, <1>6 DEF Parted, Inv, Apart, Making, Removing
<1> QED
  BY <1>5, <1>6, <1>8, <1>9, StepKeeps

LEMMA CreateStudentRowsKeeps ==
    ASSUME Inv, NEW r \in Request, scope' = scope, CreateStudentRows(r)
    PROVE  Inv'
<1> DEFINE owner(p) == CHOOSE u \in arg[r].users : account[u].who = p
<1>1. /\ pc[r] = "rows" /\ pc' = [pc EXCEPT ![r] = "link"] /\ arg' = arg
      /\ student' = [p \in Person |-> IF p \in arg[r].people THEN owner(p) ELSE student[p]]
      /\ UNCHANGED <<account, link, teacher, secretary>>
  BY DEF CreateStudentRows, Go, At
<1>2. Held(r)
  BY DEF Inv
<1>3. \A p \in arg[r].people : owner(p) \in arg[r].users /\ owner(p) \in Accounts /\ account[owner(p)].who = p
  BY <1>1, <1>2 DEF Held, AccountsMade, Making
<1>4. \A p \in arg[r].people : owner(p) \in AccountId /\ NotStaff(owner(p))
  BY <1>1, <1>2, <1>3 DEF Held, StudentsOnly, Making, Accounts
<1> HIDE DEF owner
<1>5. \A p \in Person : student'[p] = (IF p \in arg[r].people THEN owner(p) ELSE student[p])
  BY <1>1
<1>6. TypeOK'
  BY <1>1, <1>3, <1>4, <1>5 DEF Inv, Rows, TypeOK, Occupied, Accounts
<1>7. OneSide'
  <2>1. ASSUME NEW p \in Person, student'[p] \notin {NoRow, NoUser} PROVE NotStaff(student'[p])
    BY <1>4, <1>5, <2>1 DEF Inv, Rows, OneSide
  <2> QED
    BY <1>1, <2>1 DEF Inv, Rows, OneSide, NotStaff
<1>8. ASSUME NEW q \in Request \ {r} PROVE Steady(q)
  <2>1. ASSUME pc[q] \in Making \cup {"removeStudentUser"}, NEW p \in arg[r].people, owner(p) \in arg[q].users
        PROVE  FALSE
    <3>1. owner(p) \in arg[r].users \cap arg[q].users
      BY <1>3, <2>1
    <3>2. arg[r].users \cap arg[q].users = {}
      BY <1>1, <2>1 DEF Inv, Apart, Making, Removing
    <3> QED
      BY <3>1, <3>2
  <2>2. pc[q] \in Making \cup {"removeStudentUser"} =>
          \A p \in Person : student'[p] \in arg[q].users => student'[p] = student[p]
    BY <1>5, <2>1
  <2> QED
    BY <1>1, <2>2 DEF Inv, Held, AccountsMade, Steady, Accounts
<1>9. OnlyAt(r) /\ pc'[r] = "link" /\ arg'[r] = arg[r] /\ pc'[r] \in Step
  BY <1>1 DEF OnlyAt, Inv, Step
<1>10. arg[r].users # {}
  BY <1>1, <1>2, <1>3 DEF Held, OneEach, Making
<1>11. Held(r)' /\ Parted(r)
  <2>1. InTurn(r)'
    BY <1>1, <1>2, <1>9 DEF Held, OneEach, InTurn, Making
  <2> QED
    BY <1>1, <1>2, <1>9, <1>10, <2>1, HeldInMail DEF Held
<1> QED
  BY <1>6, <1>7, <1>8, <1>9, <1>11, StepKeeps DEF Rows

\* The student an account of a removal belongs to is one of those to remove.
LEMMA RemovedOwners ==
    ASSUME Inv, NEW r \in Request, pc[r] \in Removing, NEW p \in Person, student[p] \in arg[r].users
    PROVE  p \in arg[r].people /\ arg[r].data[p] = student[p] /\ student[p] # NoRow /\ arg[r].data[p] # NoUser
<1>1. /\ arg[r].users = {arg[r].data[q] : q \in arg[r].people} \ {NoUser} /\ arg[r].users \subseteq AccountId
      /\ \A q \in arg[r].people : arg[r].data[q] \in Accounts => account[arg[r].data[q]].who = q
  BY DEF Inv, Held, RemovalHolds, IsArg
<1>2. PICK q \in arg[r].people : student[p] = arg[r].data[q]
  BY <1>1
<1>3. student[p] \in AccountId /\ student[p] \notin {NoRow, NoUser}
  BY <1>1, MarkersAssumption
<1>4. student[p] \in Accounts /\ account[student[p]].who = p
  BY <1>3 DEF Inv, Rows, TypeOK
<1>5. p = q
  BY <1>1, <1>2, <1>4
<1> QED
  BY <1>2, <1>3, <1>5

LEMMA RemoveStudentKeeps ==
    ASSUME Inv, NEW r \in Request, scope' = scope, RemoveStudent(r)
    PROVE  Inv'
<1>1. /\ pc[r] = "removeStudent" /\ \A p \in arg[r].people : Same(r, p)
      /\ student' = [p \in Person |-> IF p \in arg[r].people THEN NoRow ELSE student[p]]
      /\ UNCHANGED <<account, link, teacher, secretary>>
  BY DEF RemoveStudent, DropStudents, At
<1>2. Held(r)
  BY DEF Inv
<1>3. Rows'
  <2>1. TypeOK'
    BY <1>1 DEF Inv, Rows, TypeOK, Occupied, Accounts
  <2>2. OneSide'
    BY <1>1 DEF Inv, Rows, OneSide, NotStaff
  <2> QED
    BY <2>1, <2>2 DEF Rows
<1>4. ASSUME NEW q \in Request PROVE Steady(q)
  <2>1. arg[q].users \subseteq AccountId
    BY DEF Inv, Held, IsArg
  <2>2. \A p \in Person : student'[p] \in arg[q].users => student'[p] = student[p]
    BY <1>1, <2>1, MarkersAssumption
  <2> QED
    BY <1>1, <2>2 DEF Inv, Held, AccountsMade, Steady, Accounts
<1>5. CASE Finish(r)
  BY <1>3, <1>4, <1>5, FinishKeeps
<1>6. CASE pc' = [pc EXCEPT ![r] = "removeStudentUser"] /\ arg' = arg
  <2>1. OnlyAt(r) /\ pc'[r] = "removeStudentUser" /\ arg'[r] = arg[r] /\ pc'[r] \in Step
    BY <1>6 DEF OnlyAt, Inv, Step
  <2>2. \A p \in Person : student'[p] \notin arg[r].users
    <3> SUFFICES ASSUME NEW p \in Person, student'[p] \in arg[r].users PROVE FALSE
      OBVIOUS
    <3>1. student'[p] # NoRow
      BY <1>2, MarkersAssumption DEF Held, IsArg
    <3>2. p \notin arg[r].people /\ student'[p] = student[p]
      BY <1>1, <3>1
    <3> QED
      BY <1>1, <3>2, RemovedOwners DEF Removing
  <2>3. RemovalHolds(r)'
    BY <1>1, <1>2, <2>1, <2>2 DEF Held, RemovalHolds, Removing, Accounts
  <2>4. (OneEach(r) /\ DataFits(r) /\ AccountsMade(r) /\ StaffHeld(r))'
    BY <2>1 DEF OneEach, DataFits, AccountsMade, StaffHeld, OneUserSteps, OnePersonSteps, Making
  <2>5. StudentsOnly(r)'
    BY <1>1, <1>2, <2>1 DEF Held, StudentsOnly, NotStaff, Removing
  <2>6. Held(r)'
    BY <1>1, <1>2, <2>1, <2>3, <2>4, <2>5 DEF Held
  <2>7. Parted(r)
    <3> SUFFICES ASSUME NEW q \in Request \ {r}, pc[q] \in Making PROVE arg[r].users \cap arg[q].users = {}
      BY <2>1 DEF Parted, Making
    <3> QED
      BY <1>1 DEF Inv, Apart, Removing
  <2> QED
    BY <1>3, <1>4, <2>1, <2>6, <2>7, StepKeeps
<1> QED
  BY <1>5, <1>6 DEF RemoveStudent, Go

LEMMA DropKeeps ==
    ASSUME Inv, NEW r \in Request, scope' = scope, Finish(r), pc[r] \in Removing, DropAccounts(arg[r].users),
           student' = [p \in Person |-> student'[p]],
           \A p \in Person : student'[p] \in {student[p], NoRow} /\ student'[p] \notin arg[r].users,
           UNCHANGED <<teacher, secretary>>
    PROVE  Inv'
<1> DEFINE gone == arg[r].users
<1>1. /\ account' = [u \in AccountId |-> IF u \in gone THEN NoRow ELSE account[u]]
      /\ link' = [k \in LinkId |-> IF link[k] # NoRow /\ link[k].user \in gone THEN NoRow ELSE link[k]]
  BY DEF DropAccounts
<1>2. \A u \in gone : NotStaff(u)
  BY DEF Inv, Held, StudentsOnly
<1> HIDE DEF gone
<1>3. Accounts' = Accounts \ gone /\ \A u \in Accounts' : account'[u] = account[u]
  BY <1>1 DEF Accounts
<1>4. account' \in [AccountId -> Account \cup {NoRow}] /\ link' \in [LinkId -> Link \cup {NoRow}]
  BY <1>1 DEF Inv, Rows, TypeOK
<1>5. \A k \in LinkId : link'[k] # NoRow => link'[k].user \in Accounts'
  BY <1>1, <1>3 DEF Inv, Rows, TypeOK
<1>6. \A p \in Person :
         /\ student'[p] \in AccountId \cup {NoRow, NoUser}
         /\ student'[p] \notin {NoRow, NoUser} => student'[p] \in Accounts' /\ account'[student'[p]].who = p
  BY <1>3 DEF Inv, Rows, TypeOK, gone
<1>7. \A p \in Person : teacher[p] # NoRow => teacher[p].user \in Accounts' /\ account'[teacher[p].user].who = p
  BY <1>2, <1>3 DEF Inv, Rows, TypeOK, NotStaff
<1>8. \A u \in AccountId : secretary[u] # NoRow => u \in Accounts'
  BY <1>2, <1>3 DEF Inv, Rows, TypeOK, NotStaff
<1>9. TypeOK'
  BY <1>3, <1>4, <1>5, <1>6, <1>7, <1>8 DEF Inv, Rows, TypeOK, Occupied
<1>10. OneSide'
  BY DEF Inv, Rows, OneSide, NotStaff
<1>11. ASSUME NEW q \in Request \ {r} PROVE Steady(q)
  <2>1. arg[q].users \subseteq AccountId
    BY DEF Inv, Held, IsArg
  <2>2. \A p \in Person : student'[p] \in arg[q].users => student'[p] = student[p]
    BY <2>1, MarkersAssumption
  <2>3. pc[q] \in Making => arg[q].users \subseteq Accounts'
    BY <1>3 DEF Inv, Held, AccountsMade, Apart, gone
  <2> QED
    BY <1>3, <2>2, <2>3 DEF Steady
<1> QED
  BY <1>9, <1>10, <1>11, Finished, StepKeeps DEF Rows

LEMMA RemoveStudentUserKeeps ==
    ASSUME Inv, NEW r \in Request, scope' = scope, RemoveStudentUser(r)
    PROVE  Inv'
<1>1. /\ pc[r] = "removeStudentUser" /\ DropAccounts(arg[r].users) /\ Finish(r)
      /\ UNCHANGED <<student, teacher, secretary>>
  BY DEF RemoveStudentUser, At
<1>2. \A p \in Person : student[p] \notin arg[r].users
  BY <1>1 DEF Inv, Held, RemovalHolds, Removing
<1>3. student' = [p \in Person |-> student'[p]]
  BY <1>1 DEF Inv, Rows, TypeOK
<1> QED
  BY <1>1, <1>2, <1>3, DropKeeps DEF Removing

LEMMA RemoveStudentsKeeps ==
    ASSUME Inv, NEW r \in Request, scope' = scope, RemoveStudents(r)
    PROVE  Inv'
<1> DEFINE out == {p \in arg[r].people : Same(r, p)}
<1>1. /\ pc[r] = "removeStudents" /\ DropAccounts(arg[r].users) /\ Finish(r)
      /\ student' = [p \in Person |-> IF p \in out THEN NoRow ELSE student[p]]
      /\ UNCHANGED <<teacher, secretary>>
  BY DEF RemoveStudents, DropStudents, At
<1>2. \A p \in Person : student[p] \in arg[r].users => p \in out
  BY <1>1, RemovedOwners DEF Same, Removing
<1> HIDE DEF out
<1>3. NoRow \notin arg[r].users
  BY MarkersAssumption DEF Inv, Held, IsArg
<1>4. \A p \in Person : student'[p] \in {student[p], NoRow} /\ student'[p] \notin arg[r].users
  BY <1>1, <1>2, <1>3
<1>5. student' = [p \in Person |-> student'[p]]
  BY <1>1
<1> QED
  BY <1>1, <1>4, <1>5, DropKeeps DEF Removing

-----------------------------------------------------------------------------
(* New accounts *)

\* The people have the new accounts, one each, and nothing else of the accounts has changed.
Made(new) ==
    /\ account' \in [AccountId -> Account \cup {NoRow}]
    /\ Accounts' = Accounts \cup {new[p] : p \in DOMAIN new}
    /\ \A u \in Accounts : account'[u] = account[u]
    /\ \A p \in DOMAIN new : account'[new[p]].who = p

LEMMA FreshIs ==
    ASSUME NEW u \in FreshAccounts
    PROVE  u \in AccountId /\ u \notin Accounts /\ \A q \in Request : u \notin arg[q].users
BY DEF FreshAccounts

LEMMA Created ==
    ASSUME Inv, NEW P \in SUBSET Person, NEW new \in [P -> FreshAccounts], IsInjective(new),
           NEW roles \in SUBSET Role, CreateAccounts(new, roles)
    PROVE  Made(new) /\ \A p \in P : account'[new[p]] = NewAccount(p, roles)
<1> DEFINE owner(u) == CHOOSE p \in DOMAIN new : new[p] = u
<1>1. account' = [u \in AccountId |-> IF \E p \in DOMAIN new : new[p] = u THEN NewAccount(owner(u), roles) ELSE account[u]]
  BY DEF CreateAccounts
<1>2. DOMAIN new = P
  OBVIOUS
<1>3. \A p \in P : owner(new[p]) = p /\ new[p] \in AccountId /\ new[p] \notin Accounts
  BY FreshIs DEF IsInjective
<1> HIDE DEF owner
<1>4. \A p \in P : account'[new[p]] = NewAccount(p, roles)
  BY <1>1, <1>2, <1>3
<1>5. \A p \in P : NewAccount(p, roles) \in Account /\ NewAccount(p, roles).who = p /\ NewAccount(p, roles) # NoRow
  BY RowNew, RowsAssumption
<1>6. \A u \in AccountId : (\E p \in P : u = new[p]) \/ ((\A p \in P : new[p] # u) /\ account'[u] = account[u])
  BY <1>1, <1>2
<1>7. account' \in [AccountId -> Account \cup {NoRow}]
  <2>1. \A u \in AccountId : account'[u] \in Account \cup {NoRow}
    BY <1>4, <1>5, <1>6 DEF Inv, Rows, TypeOK
  <2> QED
    BY <1>1, <2>1
<1>8. \A u \in Accounts : account'[u] = account[u]
  BY <1>3, <1>6 DEF Accounts
<1>9. Accounts' = Accounts \cup {new[p] : p \in P}
  <2>1. \A u \in AccountId : u \in Accounts' <=> account'[u] # NoRow
    BY DEF Accounts
  <2>2. \A u \in AccountId : account'[u] # NoRow <=> account[u] # NoRow \/ \E p \in P : u = new[p]
    BY <1>3, <1>4, <1>5, <1>6
  <2>3. Accounts' \subseteq AccountId /\ Accounts \subseteq AccountId /\ {new[p] : p \in P} \subseteq AccountId
    BY <1>3 DEF Accounts
  <2>4. \A u \in AccountId : u \in Accounts <=> account[u] # NoRow
    BY DEF Accounts
  <2> QED
    BY <2>1, <2>2, <2>3, <2>4
<1> QED
  BY <1>2, <1>4, <1>5, <1>7, <1>8, <1>9 DEF Made

\* The new accounts belong to people who had none, and are the students', the teachers' or
\* a secretary's.
LEMMA MadeKeeps ==
    ASSUME Inv, NEW P \in SUBSET Person, NEW new \in [P -> FreshAccounts], IsInjective(new),
           Made(new), Unknown(P), LinksFit',
           student' \in [Person -> AccountId \cup {NoRow, NoUser}],
           teacher' \in [Person -> Teacher \cup {NoRow}],
           secretary' \in [AccountId -> Secretary \cup {NoRow}],
           \A p \in Person : student'[p] # student[p] => p \in P /\ student'[p] = new[p],
           \A p \in Person : teacher'[p] # teacher[p] =>
               p \in P /\ teacher[p] = NoRow /\ teacher'[p] # NoRow /\ teacher'[p].user = new[p],
           \A u \in AccountId : secretary'[u] # secretary[u] => \E p \in P : u = new[p],
           \/ UNCHANGED <<teacher, secretary>>
           \/ UNCHANGED <<student, secretary>>
           \/ UNCHANGED <<student, teacher>>,
           \A f \in Faculty : \A u, v \in Occupied(f)' : u = v
    PROVE  Rows' /\ \A q \in Request : Steady(q)
<1>1. \A p \in P : new[p] \in AccountId /\ new[p] \notin Accounts /\ \A q \in Request : new[p] \notin arg[q].users
  BY FreshIs
<1>2. /\ Accounts' = Accounts \cup {new[p] : p \in P} /\ \A u \in Accounts : account'[u] = account[u]
      /\ \A p \in P : account'[new[p]].who = p
  BY DEF Made
<1>3. \A u, v \in Accounts' : account'[u].who = account'[v].who => u = v
  <2> SUFFICES ASSUME NEW u \in Accounts', NEW v \in Accounts', account'[u].who = account'[v].who PROVE u = v
    OBVIOUS
  <2>1. \A w \in Accounts : account[w].who \notin P
    BY DEF Unknown, AccountsOf
  <2>2. \A a, b \in Accounts : account[a].who = account[b].who => a = b
    BY DEF Inv, Rows, TypeOK
  <2> QED
    BY <1>2, <2>1, <2>2
<1>4. \A p \in Person :
         /\ student'[p] \notin {NoRow, NoUser} => student'[p] \in Accounts' /\ account'[student'[p]].who = p
         /\ teacher'[p] # NoRow => teacher'[p].user \in Accounts' /\ account'[teacher'[p].user].who = p
  BY <1>2 DEF Inv, Rows, TypeOK
<1>5. \A u \in AccountId : secretary'[u] # NoRow => u \in Accounts'
  BY <1>2 DEF Inv, Rows, TypeOK
<1>6. TypeOK'
  BY <1>3, <1>4, <1>5 DEF TypeOK, Made, LinksFit
<1>7. /\ \A p \in Person : student[p] \notin {NoRow, NoUser} => student[p] \in Accounts /\ NotStaff(student[p])
      /\ \A p \in Person : teacher[p] # NoRow => teacher[p].user \in Accounts /\ secretary[teacher[p].user] = NoRow
      /\ \A u \in AccountId : secretary[u] # NoRow => u \in Accounts
  BY DEF Inv, Rows, TypeOK, OneSide
<1>8. OneSide'
  <2>1. CASE UNCHANGED <<teacher, secretary>>
    <3>1. ASSUME NEW p \in Person, student'[p] \notin {NoRow, NoUser} PROVE NotStaff(student'[p])
      <4>1. CASE student'[p] = student[p]
        BY <1>7, <3>1, <4>1
      <4>2. CASE student'[p] # student[p]
        <5>1. student'[p] \in AccountId /\ student'[p] \notin Accounts
          BY <1>1, <4>2
        <5> QED
          BY <1>7, <5>1 DEF NotStaff
      <4> QED
        BY <4>1, <4>2
    <3> QED
      BY <1>7, <2>1, <3>1 DEF OneSide, NotStaff
  <2>2. CASE UNCHANGED <<student, secretary>>
    <3>1. ASSUME NEW p \in Person, teacher'[p] # NoRow
          PROVE  /\ secretary[teacher'[p].user] = NoRow
                 /\ \A s \in Person : student[s] \notin {NoRow, NoUser} => student[s] # teacher'[p].user
      <4>1. CASE teacher'[p] = teacher[p]
        BY <1>7, <3>1, <4>1 DEF NotStaff
      <4>2. CASE teacher'[p] # teacher[p]
        <5>1. teacher'[p].user \in AccountId /\ teacher'[p].user \notin Accounts
          BY <1>1, <4>2
        <5> QED
          BY <1>7, <5>1
      <4> QED
        BY <4>1, <4>2
    <3> QED
      BY <1>7, <2>2, <3>1 DEF OneSide, NotStaff
  <2>3. CASE UNCHANGED <<student, teacher>>
    <3>1. \A u \in Accounts : secretary'[u] = secretary[u]
      BY <1>1 DEF Accounts
    <3> QED
      BY <1>7, <2>3, <3>1 DEF OneSide, NotStaff
  <2> QED
    BY <2>1, <2>2, <2>3
<1>9. ASSUME NEW q \in Request PROVE Steady(q)
  <2>1. arg[q].users \subseteq AccountId /\ \A u \in arg[q].users : \A p \in P : u # new[p]
    BY <1>1 DEF Inv, Held, IsArg
  <2>2. \A u \in arg[q].users : u \in Accounts' => u \in Accounts /\ account'[u].who = account[u].who
    BY <1>2, <2>1
  <2>3. \A u \in arg[q].users : secretary'[u] = secretary[u]
    BY <2>1
  <2>4. pc[q] \in Making => arg[q].users \subseteq Accounts'
    BY <1>2 DEF Inv, Held, AccountsMade
  <2> QED
    BY <2>1, <2>2, <2>3, <2>4 DEF Steady
<1> QED
  BY <1>6, <1>8, <1>9 DEF Rows

\* The least of the fresh ids.
LEMMA FreshId ==
    ASSUME Inv, FreshAccounts # {}
    PROVE  Min(FreshAccounts) \in FreshAccounts
<1>1. FreshAccounts \in SUBSET Nat
  BY AccountsAssumption DEF FreshAccounts, AccountId
<1> QED
  BY <1>1, MinOf

\* Where there are enough of them, each of the people gets one.
LEMMA FreshIds ==
    ASSUME Inv, NEW P \in SUBSET Person, Cardinality(FreshAccounts) >= Cardinality(P)
    PROVE  LET new == CHOOSE f \in Injection(P, FreshAccounts) : TRUE
           IN  new \in [P -> FreshAccounts] /\ IsInjective(new)
<1>1. IsFiniteSet(P)
  BY MarkersAssumption, FS_Subset
<1>2. IsFiniteSet(AccountId)
  BY AccountsAssumption, FS_Interval DEF AccountId
<1>3. IsFiniteSet(FreshAccounts)
  BY <1>2, FS_Subset DEF FreshAccounts
<1> DEFINE new == CHOOSE f \in Injection(P, FreshAccounts) : TRUE
<1>4. new \in Injection(P, FreshAccounts)
  BY <1>1, <1>3, InjectionExists
<1> HIDE DEF new
<1>5. new \in [P -> FreshAccounts] /\ IsInjective(new)
  BY <1>4 DEF Injection
<1> QED
  BY <1>5 DEF new

\* One person's new account.
LEMMA OneFresh ==
    ASSUME Inv, NEW p \in Person, NEW u \in FreshAccounts
    PROVE  LET new == [x \in {p} |-> u]
           IN  /\ new \in [{p} -> FreshAccounts] /\ IsInjective(new) /\ {p} \in SUBSET Person
               /\ DOMAIN new = {p} /\ new[p] = u
BY DEF IsInjective

LEMMA CreateUserKeeps ==
    ASSUME Inv, NEW r \in Request, scope' = scope, CreateUser(r)
    PROVE  Inv'
<1> DEFINE u == Min(FreshAccounts)
<1>1. /\ pc[r] = "createUser" /\ Unknown(arg[r].people) /\ FreshAccounts # {} /\ Finish(r)
      /\ CreateAccounts([p \in arg[r].people |-> u], arg[r].data)
      /\ UNCHANGED <<link, student, teacher, secretary>>
  BY DEF CreateUser, At
<1>2. PICK p \in Person : arg[r].people = {p}
  BY <1>1 DEF Inv, Held, OneEach, OnePersonSteps
<1>3. arg[r].data \in SUBSET Role
  BY <1>1 DEF Inv, Held, DataFits
<1>4. u \in FreshAccounts
  BY <1>1, FreshId
<1> HIDE DEF u
<1> DEFINE new == [x \in {p} |-> u]
<1>5. new \in [{p} -> FreshAccounts] /\ IsInjective(new) /\ {p} \in SUBSET Person /\ DOMAIN new = {p}
  BY <1>4, OneFresh
<1>6. CreateAccounts(new, arg[r].data) /\ Unknown({p})
  BY <1>1, <1>2
<1> HIDE DEF new
<1>7. Made(new)
  BY <1>3, <1>5, <1>6, Created
<1>8. LinksFit'
  BY <1>1, <1>7 DEF Inv, Rows, TypeOK, LinksFit, Made
<1>9. /\ student' \in [Person -> AccountId \cup {NoRow, NoUser}] /\ teacher' \in [Person -> Teacher \cup {NoRow}]
      /\ secretary' \in [AccountId -> Secretary \cup {NoRow}] /\ \A f \in Faculty : \A v, w \in Occupied(f)' : v = w
  BY <1>1 DEF Inv, Rows, TypeOK, Occupied
<1>10. Rows' /\ \A q \in Request : Steady(q)
  BY <1>1, <1>5, <1>6, <1>7, <1>8, <1>9, MadeKeeps
<1> QED
  BY <1>1, <1>10, FinishKeeps

LEMMA CreateSecretaryKeeps ==
    ASSUME Inv, NEW r \in Request, scope' = scope, CreateSecretary(r)
    PROVE  Inv'
<1> DEFINE u == Min(FreshAccounts)
           f == arg[r].data
           s == [live |-> TRUE, faculty |-> f]
           a == [NewAccount(CHOOSE p \in arg[r].people : TRUE, {"SECRETARY"}) EXCEPT !.verified = TRUE, !.mustChange = FALSE]
<1>1. /\ pc[r] = "createSecretary" /\ Unknown(arg[r].people) /\ Occupied(f) = {} /\ FreshAccounts # {}
      /\ account' = [account EXCEPT ![u] = a] /\ secretary' = [secretary EXCEPT ![u] = s]
      /\ Finish(r) /\ UNCHANGED <<link, student, teacher>>
  BY DEF CreateSecretary, At
<1>2. PICK p \in Person : arg[r].people = {p}
  BY <1>1 DEF Inv, Held, OneEach, OnePersonSteps
<1>3. f \in Faculty
  BY <1>1 DEF Inv, Held, DataFits
<1>4. u \in FreshAccounts /\ u \in AccountId /\ u \notin Accounts
  BY <1>1, FreshId, FreshIs
<1>5. a \in Account /\ a.who = p
  <2>1. (CHOOSE x \in arg[r].people : TRUE) = p
    BY <1>2
  <2> QED
    BY <2>1, RowSecretary
<1>6. s \in Secretary /\ s # NoRow /\ s.faculty = f
  BY <1>3, RowStaffed
<1> HIDE DEF u, f, s, a
<1> DEFINE new == [x \in {p} |-> u]
<1>7. new \in [{p} -> FreshAccounts] /\ IsInjective(new) /\ {p} \in SUBSET Person /\ DOMAIN new = {p} /\ new[p] = u
  BY <1>4, OneFresh
<1> HIDE DEF new
<1>8. Made(new)
  <2>1. account' \in [AccountId -> Account \cup {NoRow}]
    BY <1>1, <1>5 DEF Inv, Rows, TypeOK
  <2>2. \A v \in AccountId : account'[v] = (IF v = u THEN a ELSE account[v])
    BY <1>1 DEF Inv, Rows, TypeOK
  <2>3. Accounts' = Accounts \cup {u}
    BY <1>4, <1>5, <2>2, RowsAssumption DEF Accounts
  <2>4. {new[x] : x \in DOMAIN new} = {u}
    BY <1>7
  <2> QED
    BY <1>4, <1>5, <1>7, <2>1, <2>2, <2>3, <2>4 DEF Made, Accounts
<1>9. LinksFit'
  BY <1>1, <1>8 DEF Inv, Rows, TypeOK, LinksFit, Made
<1>10. /\ student' \in [Person -> AccountId \cup {NoRow, NoUser}] /\ teacher' \in [Person -> Teacher \cup {NoRow}]
       /\ secretary' \in [AccountId -> Secretary \cup {NoRow}]
       /\ \A v \in AccountId : secretary'[v] # secretary[v] => \E x \in {p} : v = new[x]
  <2>1. secretary \in [AccountId -> Secretary \cup {NoRow}]
    BY DEF Inv, Rows, TypeOK
  <2>2. \A v \in AccountId : secretary'[v] = (IF v = u THEN s ELSE secretary[v])
    BY <1>1, <2>1
  <2>3. secretary' \in [AccountId -> Secretary \cup {NoRow}]
    BY <1>1, <1>6, <2>1
  <2>4. \A v \in AccountId : secretary'[v] # secretary[v] => \E x \in {p} : v = new[x]
    BY <1>7, <2>2
  <2> QED
    BY <1>1, <2>3, <2>4 DEF Inv, Rows, TypeOK
<1>11. \A g \in Faculty : \A v, w \in Occupied(g)' : v = w
  <2> SUFFICES ASSUME NEW g \in Faculty, NEW v \in Occupied(g)', NEW w \in Occupied(g)' PROVE v = w
    OBVIOUS
  <2>1. \A x \in AccountId : secretary'[x] = (IF x = u THEN s ELSE secretary[x])
    BY <1>1 DEF Inv, Rows, TypeOK
  <2>2. v \in AccountId /\ w \in AccountId /\ secretary'[v] # NoRow /\ secretary'[w] # NoRow
        /\ secretary'[v].faculty = g /\ secretary'[w].faculty = g
    BY DEF Occupied
  <2>3. CASE g = f
    BY <1>1, <2>1, <2>2, <2>3 DEF Occupied
  <2>4. CASE g # f
    <3>1. v \in Occupied(g) /\ w \in Occupied(g)
      BY <1>6, <2>1, <2>2, <2>4 DEF Occupied
    <3> QED
      BY <3>1 DEF Inv, Rows, TypeOK
  <2> QED
    BY <2>3, <2>4
<1>12. Unknown({p})
  BY <1>1, <1>2
<1>13. Rows' /\ \A q \in Request : Steady(q)
  BY <1>1, <1>7, <1>8, <1>9, <1>10, <1>11, <1>12, MadeKeeps
<1> QED
  BY <1>1, <1>13, FinishKeeps

LEMMA RegisterKeeps ==
    ASSUME Inv, NEW r \in Request, scope' = scope, Register(r)
    PROVE  Inv'
<1> DEFINE u == Min(FreshAccounts)
           k == Min(FreeLinks)
           l == NewLink(u, "verify")
<1>1. /\ pc[r] = "register" /\ Unknown(arg[r].people) /\ FreshAccounts # {} /\ FreeLinks # {}
      /\ CreateAccounts([p \in arg[r].people |-> u], {"STUDENT"})
      /\ student' = [p \in Person |-> IF p \in arg[r].people THEN u ELSE student[p]]
      /\ link' = [link EXCEPT ![k] = l]
      /\ arg' = [arg EXCEPT ![r] = [[arg[r] EXCEPT !.users = {u}] EXCEPT !.link = k]]
      /\ pc' = [pc EXCEPT ![r] = "mail"]
      /\ UNCHANGED <<teacher, secretary>>
  BY DEF Register, RegisterFits, Go, At, Inv
<1>2. PICK p \in Person : arg[r].people = {p}
  BY <1>1 DEF Inv, Held, OneEach, OnePersonSteps
<1>3. u \in FreshAccounts /\ u \in AccountId /\ u \notin Accounts /\ k \in LinkId
  BY <1>1, FreshId, FreshIs, FreeLink
<1>4. l \in Link /\ l.user = u
  BY <1>3, RowLink
<1> HIDE DEF u, k, l
<1> DEFINE new == [x \in {p} |-> u]
<1>5. new \in [{p} -> FreshAccounts] /\ IsInjective(new) /\ {p} \in SUBSET Person /\ DOMAIN new = {p} /\ new[p] = u
  BY <1>3, OneFresh
<1>6. CreateAccounts(new, {"STUDENT"}) /\ Unknown({p}) /\ {"STUDENT"} \in SUBSET Role
  BY <1>1, <1>2 DEF Role
<1> HIDE DEF new
<1>7. Made(new)
  BY <1>5, <1>6, Created
<1>8. u \in Accounts' /\ Accounts \subseteq Accounts'
  BY <1>5, <1>7 DEF Made
<1>9. LinksFit'
  BY <1>1, <1>3, <1>4, <1>8 DEF Inv, Rows, TypeOK, LinksFit
<1>10. /\ student' \in [Person -> AccountId \cup {NoRow, NoUser}]
       /\ \A x \in Person : student'[x] # student[x] => x \in {p} /\ student'[x] = new[x]
  BY <1>1, <1>2, <1>3, <1>5 DEF Inv, Rows, TypeOK
<1>11. /\ teacher' \in [Person -> Teacher \cup {NoRow}] /\ secretary' \in [AccountId -> Secretary \cup {NoRow}]
       /\ \A f \in Faculty : \A v, w \in Occupied(f)' : v = w
  BY <1>1 DEF Inv, Rows, TypeOK, Occupied
<1>12. Rows' /\ \A q \in Request : Steady(q)
  BY <1>1, <1>5, <1>6, <1>7, <1>9, <1>10, <1>11, MadeKeeps
<1>13. Held(r) /\ r \in scope.requests
  BY <1>1 DEF Inv, Held
<1>14. /\ OnlyAt(r) /\ pc'[r] = "mail" /\ pc'[r] \in Step
       /\ arg'[r] = [op |-> arg[r].op, people |-> arg[r].people, users |-> {u}, link |-> k, data |-> arg[r].data]
  BY <1>1, <1>13 DEF OnlyAt, Inv, Held, IsArg, Step
<1>15. IsArg(arg'[r]) /\ arg'[r].users = {u} /\ arg'[r].link \in LinkId
  BY <1>3, <1>13, <1>14 DEF IsArg, Held
<1>16. Held(r)' /\ Parted(r)
  BY <1>3, <1>13, <1>14, <1>15, HeldInMail
<1> QED
  BY <1>12, <1>14, <1>16, StepKeeps

LEMMA CreateTeachersKeeps ==
    ASSUME Inv, NEW r \in Request, scope' = scope, CreateTeachers(r)
    PROVE  Inv'
<1> DEFINE P == arg[r].people
           new == CHOOSE f \in Injection(P, FreshAccounts) : TRUE
           users == Range(new)
<1>1. /\ pc[r] = "teachers" /\ Unknown(P) /\ (\A p \in P : teacher[p] = NoRow)
      /\ Cardinality(FreshAccounts) >= Cardinality(P)
      /\ CreateAccounts(new, {"TEACHER"})
      /\ teacher' = [p \in Person |-> IF p \in P THEN [user |-> new[p], live |-> TRUE] ELSE teacher[p]]
      /\ arg' = [arg EXCEPT ![r] = [arg[r] EXCEPT !.users = users]]
      /\ pc' = [pc EXCEPT ![r] = "link"]
      /\ UNCHANGED <<link, student, secretary>>
  BY DEF CreateTeachers, TeachersFit, Go, At, Inv
<1>2. Held(r) /\ r \in scope.requests /\ P \in SUBSET Person /\ P # {} /\ InTurn(r)
  BY <1>1 DEF Inv, Held, IsArg, OneEach
<1>3. new \in [P -> FreshAccounts] /\ IsInjective(new)
  BY <1>1, <1>2, FreshIds
<1> HIDE DEF P, new
<1>4. users = {new[p] : p \in P} /\ \A p \in P : new[p] \in AccountId /\ new[p] \notin Accounts
  BY <1>3, FreshIs DEF Range
<1> HIDE DEF users
<1>5. {"TEACHER"} \in SUBSET Role
  BY DEF Role
<1>6. Made(new)
  BY <1>1, <1>2, <1>3, <1>5, Created
<1>7. LinksFit'
  BY <1>1, <1>6 DEF Inv, Rows, TypeOK, LinksFit, Made
<1>8. \A p \in P : [user |-> new[p], live |-> TRUE] \in Teacher /\ [user |-> new[p], live |-> TRUE] # NoRow
  BY <1>4, RowTeacher
<1>9. /\ teacher' \in [Person -> Teacher \cup {NoRow}]
      /\ \A p \in Person : teacher'[p] # teacher[p] =>
            p \in P /\ teacher[p] = NoRow /\ teacher'[p] # NoRow /\ teacher'[p].user = new[p]
  BY <1>1, <1>8 DEF Inv, Rows, TypeOK
<1>10. /\ student' \in [Person -> AccountId \cup {NoRow, NoUser}] /\ secretary' \in [AccountId -> Secretary \cup {NoRow}]
       /\ \A f \in Faculty : \A v, w \in Occupied(f)' : v = w
  BY <1>1 DEF Inv, Rows, TypeOK, Occupied
<1>11. Rows' /\ \A q \in Request : Steady(q)
  BY <1>1, <1>2, <1>3, <1>6, <1>7, <1>9, <1>10, MadeKeeps
<1>12. /\ OnlyAt(r) /\ pc'[r] = "link" /\ pc'[r] \in Step
       /\ arg'[r] = [op |-> arg[r].op, people |-> arg[r].people, users |-> users, link |-> arg[r].link, data |-> arg[r].data]
  BY <1>1, <1>2 DEF OnlyAt, Inv, Held, IsArg, Step
<1>13. IsArg(arg'[r]) /\ arg'[r].users # {} /\ InTurn(r)'
  BY <1>2, <1>4, <1>12 DEF IsArg, Held, InTurn
<1>14. Held(r)' /\ Parted(r)
  BY <1>2, <1>12, <1>13, HeldInMail
<1> QED
  BY <1>11, <1>12, <1>14, StepKeeps

LEMMA CreateStudentUsersKeeps ==
    ASSUME Inv, NEW r \in Request, scope' = scope, CreateStudentUsers(r)
    PROVE  Inv'
<1> DEFINE P == arg[r].people
           new == CHOOSE f \in Injection(P, FreshAccounts) : TRUE
           users == Range(new)
<1>1. /\ pc[r] = "users" /\ Unknown(P) /\ Cardinality(FreshAccounts) >= Cardinality(P)
      /\ CreateAccounts(new, {})
      /\ arg' = [arg EXCEPT ![r] = [arg[r] EXCEPT !.users = users]]
      /\ pc' = [pc EXCEPT ![r] = "roles"]
      /\ UNCHANGED <<link, student, teacher, secretary>>
  BY DEF CreateStudentUsers, Go, At, Inv
<1>2. Held(r) /\ r \in scope.requests /\ P \in SUBSET Person /\ P # {} /\ InTurn(r)
  BY <1>1 DEF Inv, Held, IsArg, OneEach
<1>3. new \in [P -> FreshAccounts] /\ IsInjective(new)
  BY <1>1, <1>2, FreshIds
<1> HIDE DEF new
<1>4. users = {new[p] : p \in P}
  BY <1>3 DEF Range
<1>5. \A u \in users : u \in AccountId /\ u \notin Accounts /\ \A q \in Request : u \notin arg[q].users
  BY <1>3, <1>4, FreshIs
<1> HIDE DEF P, users
<1>6. Made(new)
  <2>1. {} \in SUBSET Role
    OBVIOUS
  <2> QED
    BY <1>1, <1>2, <1>3, <2>1, Created
<1>7. LinksFit'
  BY <1>1, <1>6 DEF Inv, Rows, TypeOK, LinksFit, Made
<1>8. /\ student' \in [Person -> AccountId \cup {NoRow, NoUser}] /\ teacher' \in [Person -> Teacher \cup {NoRow}]
      /\ secretary' \in [AccountId -> Secretary \cup {NoRow}] /\ \A f \in Faculty : \A v, w \in Occupied(f)' : v = w
  BY <1>1 DEF Inv, Rows, TypeOK, Occupied
<1>9. Rows' /\ \A q \in Request : Steady(q)
  BY <1>1, <1>2, <1>3, <1>6, <1>7, <1>8, MadeKeeps
<1>10. /\ OnlyAt(r) /\ pc'[r] = "roles" /\ pc'[r] \in Step
       /\ arg'[r] = [op |-> arg[r].op, people |-> P, users |-> users, link |-> arg[r].link, data |-> arg[r].data]
  BY <1>1, <1>2 DEF OnlyAt, Inv, Held, IsArg, Step, P
<1>11. IsArg(arg'[r]) /\ InTurn(r)'
  BY <1>2, <1>5, <1>10 DEF IsArg, Held, InTurn
<1>12. AccountsMade(r)'
  <2>1. /\ \A p \in P : new[p] \in users /\ new[p] \in Accounts' /\ account'[new[p]].who = p
        /\ \A u \in users : u \in Accounts' /\ account'[u].who \in P
    BY <1>3, <1>4, <1>6 DEF Made
  <2>2. \A u \in users : \A p \in Person : student[p] # u
    BY <1>5, MarkersAssumption DEF Inv, Rows, TypeOK
  <2> QED
    BY <1>1, <1>10, <2>1, <2>2 DEF AccountsMade
<1>13. StudentsOnly(r)'
  <2>1. \A u \in users : NotStaff(u)
    BY <1>5 DEF Inv, Rows, TypeOK, NotStaff
  <2> QED
    BY <1>1, <1>10, <2>1 DEF StudentsOnly, NotStaff
<1>14. (OneEach(r) /\ DataFits(r) /\ RemovalHolds(r) /\ StaffHeld(r))'
  BY <1>2, <1>10, <1>11 DEF OneEach, DataFits, RemovalHolds, StaffHeld, OneUserSteps, OnePersonSteps, Making, Removing
<1>15. Held(r)'
  BY <1>2, <1>10, <1>11, <1>12, <1>13, <1>14 DEF Held
<1>16. Parted(r)
  BY <1>5, <1>10 DEF Parted
<1> QED
  BY <1>9, <1>10, <1>15, <1>16, StepKeeps

-----------------------------------------------------------------------------
(* Every step *)

LEMMA InvInit == Init => Inv
<1> SUFFICES ASSUME Init PROVE Inv
  OBVIOUS
<1>1. Rows
  BY MarkersAssumption DEF Init, Rows, TypeOK, OneSide, Accounts, Occupied
<1>2. \A q \in Request : Held(q)
  BY DEF Init, Held, IsArg, NoArg, NoLink, OneEach, DataFits, StudentsOnly, AccountsMade, RemovalHolds, StaffHeld,
         OneUserSteps, OnePersonSteps, Making, Removing
<1>3. Apart /\ pc \in [Request -> Step] /\ arg = [q \in Request |-> arg[q]] /\ scope \in Scopes
  BY DEF Init, Apart, Making, Removing, Step
<1> QED
  BY <1>1, <1>2, <1>3 DEF Inv

LEMMA ProceedKeeps ==
    ASSUME Inv, NEW r \in Request, scope' = scope, Proceed(r)
    PROVE  Inv'
BY CreateLinkKeeps, MailLostKeeps, MailSentKeeps, ClearKeeps, VerifyEmailKeeps, SetPasswordKeeps,
   ChangePasswordMeKeeps, RegisterKeeps, CreateStudentUsersKeeps, CreateStudentRolesKeeps,
   CreateStudentRowsKeeps, RemoveStudentKeeps, RemoveStudentUserKeeps, RemoveStudentsKeeps,
   CreateTeachersKeeps, RemoveTeachersKeeps, CreateUserKeeps, UpdateUserKeeps, SetDeletedKeeps,
   CreateSecretaryKeeps, UpdateSecretaryKeeps, RemoveSecretaryKeeps
   DEF Proceed

LEMMA InvNext == Inv /\ [Next /\ UNCHANGED scope]_vars => Inv'
<1> SUFFICES ASSUME Inv, [Next /\ UNCHANGED scope]_vars PROVE Inv'
  OBVIOUS
<1>1. CASE UNCHANGED vars
  <2>1. UNCHANGED db /\ UNCHANGED <<pc, arg, scope>>
    BY <1>1 DEF vars, db
  <2>2. Rows' /\ \A q \in Request : Held(q)'
    BY <2>1, DbKept, OthersHeld
  <2> QED
    BY <2>1, <2>2 DEF Inv, Apart
<1>2. CASE Next /\ scope' = scope
  BY <1>2, PeopleArriveKeeps, LinkArrivesKeeps, StaffArrivesKeeps, ProceedKeeps, FailKeeps, ExpireKeeps DEF Next
<1> QED
  BY <1>1, <1>2

\* However requests interleave, break off or run into each other's removals: an e-mail
\* address has one account at most and a faculty one secretary, and every link, student,
\* teacher and secretary refers to an account that is there and is theirs.
THEOREM TypeCorrect == Spec => []TypeOK
<1>1. Inv => TypeOK
  BY DEF Inv, Rows
<1> QED
  BY <1>1, InvInit, InvNext, PTL DEF Spec

-----------------------------------------------------------------------------
(* Secretaries, their role and their faculty *)

\* What a request in flight knows of secretaries.
StaffHeldBy(q) ==
    /\ pc[q] = "createUser" => ("SECRETARY" \in arg[q].data => "ADMIN" \in arg[q].data)
    /\ pc[q] = "updateUser" /\ arg[q].data.roles # Keep =>
          \A u \in arg[q].users :
             /\ Staffed(u) => "SECRETARY" \in arg[q].data.roles
             /\ "SECRETARY" \in arg[q].data.roles /\ "ADMIN" \notin arg[q].data.roles /\ "restoreUser" \notin scope.ops
                => Staffed(u) \/ u \notin Accounts \/ account[u].deleted
    /\ pc[q] = "deleted" => arg[q].data \/ "restoreUser" \in scope.ops
    /\ pc[q] = "updateSecretary" =>
          /\ arg[q].data[2].roles = Keep
          /\ OneByOne => \A u \in arg[q].users : secretary[u].live

\* What is so of the account and the secretary of one id.
StaffFits(u) ==
    /\ secretary[u] # NoRow /\ secretary[u].live => secretary[u].faculty # NoFaculty
    /\ u \in Accounts /\ Staffed(u) => "SECRETARY" \in account[u].roles
    /\ "restoreUser" \notin scope.ops =>
          (u \in Accounts /\ ~account[u].deleted /\ "SECRETARY" \in account[u].roles
           /\ "ADMIN" \notin account[u].roles => Staffed(u))
    /\ OneByOne => (secretary[u] # NoRow /\ ~secretary[u].live => secretary[u].faculty = NoFaculty)

StaffInv == (\A u \in AccountId : StaffFits(u)) /\ (\A q \in Request : StaffHeldBy(q))

\* What a step leaves of the rows another request relies on.
StaffSteady(q) ==
    \A u \in arg[q].users :
       /\ Staffed(u)' => Staffed(u)
       /\ u \in Accounts' /\ Staffed(u) => Staffed(u)' \/ account'[u].deleted
       /\ "restoreUser" \notin scope.ops /\ u \in Accounts' /\ ~account'[u].deleted => u \in Accounts /\ ~account[u].deleted

\* A request alone has none to rely on what it does.
LEMMA Alone ==
    ASSUME Inv, Inv', OneByOne, NEW r \in Request, NEW q \in Request, r # q, pc[r] # "idle" \/ pc'[r] # "idle",
           scope' = scope
    PROVE  pc[q] = "idle" /\ (pc'[q] = pc[q] => pc'[q] = "idle")
<1>1. r \in scope.requests /\ scope.requests \subseteq Request
  BY ScopeFits DEF Inv, Held
<1>2. IsFiniteSet(scope.requests)
  BY <1>1, MarkersAssumption, FS_Subset
<1>3. PICK x : scope.requests = {x}
  BY <1>2, FS_Singleton DEF OneByOne
<1>4. pc[q] # "idle" => q \in scope.requests
  BY DEF Inv, Held
<1> QED
  BY <1>1, <1>3, <1>4

LEMMA StaffOthers ==
    ASSUME Inv, Inv', StaffInv, NEW r \in Request, NEW q \in Request \ {r}, OnlyAt(r),
           pc[r] # "idle" \/ pc'[r] # "idle", scope' = scope, StaffSteady(q)
    PROVE  StaffHeldBy(q)'
<1>1. pc'[q] = pc[q] /\ arg'[q] = arg[q]
  BY DEF OnlyAt, Inv
<1>2. StaffHeldBy(q)
  BY DEF StaffInv
<1>3. OneByOne' => OneByOne /\ pc[q] = "idle"
  BY Alone DEF OneByOne
<1>4. pc[q] = "createUser" \/ pc[q] = "deleted" => StaffHeldBy(q)'
  BY <1>1, <1>2 DEF StaffHeldBy
<1>5. pc[q] = "updateSecretary" => StaffHeldBy(q)'
  BY <1>1, <1>2, <1>3 DEF StaffHeldBy
<1>6. pc[q] = "updateUser" => StaffHeldBy(q)'
  BY <1>1, <1>2 DEF StaffHeldBy, StaffSteady
<1>7. pc[q] \notin {"createUser", "deleted", "updateUser", "updateSecretary"} => StaffHeldBy(q)'
  BY <1>1 DEF StaffHeldBy
<1> QED
  BY <1>4, <1>5, <1>6, <1>7

LEMMA StaffKeeps ==
    ASSUME Inv, Inv', StaffInv, NEW r \in Request, OnlyAt(r), pc[r] # "idle" \/ pc'[r] # "idle", scope' = scope,
           \A u \in AccountId : StaffFits(u)', \A q \in Request \ {r} : StaffSteady(q), StaffHeldBy(r)'
    PROVE  StaffInv'
BY StaffOthers DEF StaffInv

\* The steps that leave secretaries alone, and the two roles and the removal of every account.
Untouched(u) ==
    /\ account'[u].deleted <=> account[u].deleted
    /\ \A x \in {"SECRETARY", "ADMIN"} : x \in account'[u].roles <=> x \in account[u].roles

Fresh(u) == u \in FreshAccounts /\ ("SECRETARY" \in account'[u].roles => "ADMIN" \in account'[u].roles)

StaffApart ==
    /\ secretary' = secretary
    /\ \A u \in Accounts' : (u \in Accounts /\ Untouched(u)) \/ Fresh(u)

LEMMA ApartKeeps ==
    ASSUME Inv, Inv', StaffInv, NEW r \in Request, OnlyAt(r), pc[r] # "idle" \/ pc'[r] # "idle", scope' = scope,
           StaffApart, StaffHeldBy(r)'
    PROVE  StaffInv'
<1>1. \A u \in AccountId : Staffed(u)' <=> Staffed(u)
  BY DEF StaffApart, Staffed
<1>2. \A u \in FreshAccounts : secretary[u] = NoRow /\ u \notin Accounts /\ \A q \in Request : u \notin arg[q].users
  BY FreshIs DEF Inv, Rows, TypeOK
<1>3. \A u \in FreshAccounts : ~Staffed(u)
  BY <1>2 DEF Staffed
<1>4. ASSUME NEW u \in AccountId PROVE StaffFits(u)'
  <2>1. StaffFits(u)
    BY DEF StaffInv
  <2>2. CASE u \notin Accounts'
    BY <2>1, <2>2, <1>1 DEF StaffFits, StaffApart, OneByOne
  <2>3. CASE u \in Accounts /\ Untouched(u)
    BY <2>1, <2>3, <1>1 DEF StaffFits, StaffApart, OneByOne, Untouched
  <2>4. CASE u \in Accounts' /\ Fresh(u)
    BY <1>1, <1>2, <1>3, <2>4 DEF StaffFits, StaffApart, Fresh
  <2> QED
    BY <2>2, <2>3, <2>4 DEF StaffApart
<1>5. ASSUME NEW q \in Request PROVE StaffSteady(q)
  BY <1>1, <1>2 DEF StaffSteady, StaffApart, Untouched, Fresh, Inv, Held, IsArg
<1> QED
  BY <1>4, <1>5, StaffKeeps


\* A request that ends, or goes on to mail a link, relies on nothing.
LEMMA StaffHeldIdle ==
    ASSUME NEW r \in Request, pc'[r] \notin {"createUser", "updateUser", "deleted", "updateSecretary"}
    PROVE  StaffHeldBy(r)'
BY DEF StaffHeldBy

LEMMA DbApart ==
    ASSUME Inv, account' = account, secretary' = secretary
    PROVE  StaffApart
BY DEF StaffApart, Untouched, Accounts

\* Requests that arrive.
LEMMA StaffBegins ==
    ASSUME Inv, Inv', StaffInv, NEW r \in Request, scope' = scope,
           NEW op, NEW step \in Step \ {"idle"}, NEW people, NEW users, NEW k, NEW data,
           Begin(r, op, step, people, users, k, data),
           step = "createUser" => ("SECRETARY" \in data => "ADMIN" \in data),
           step = "updateUser" => (data.roles # Keep => \A u \in users : SecretaryRoleFits(u, data.roles)),
           step = "deleted" => data \/ "restoreUser" \in scope.ops,
           step = "updateSecretary" => data[2].roles = Keep /\ \A u \in users : secretary[u].live
    PROVE  StaffInv'
<1>1. /\ pc'[r] = step /\ arg'[r].users = users /\ arg'[r].data = data /\ account' = account /\ secretary' = secretary
  BY Begun
<1>2. OnlyAt(r)
  BY DEF Inv, Begin, OnlyAt
<1>3. \A u : Staffed(u)' <=> Staffed(u)
  BY <1>1 DEF Staffed
<1>4. StaffHeldBy(r)'
  BY <1>1, <1>3 DEF StaffHeldBy, SecretaryRoleFits
<1> QED
  BY <1>1, <1>2, <1>4, DbApart, ApartKeeps

LEMMA StaffArrivesFits ==
    ASSUME Inv, Inv', StaffInv, NEW r \in Request, scope' = scope, StaffArrives(r)
    PROVE  StaffInv'
<1> USE DEF Step
<1>1. ASSUME NEW p, NEW roles, CreateUserCheck(r, p, roles) PROVE StaffInv'
  BY <1>1, StaffBegins DEF CreateUserCheck
<1>2. ASSUME NEW p, NEW f, CreateSecretaryCheck(r, p, f) PROVE StaffInv'
  BY <1>2, StaffBegins DEF CreateSecretaryCheck
<1>3. ASSUME NEW u, NEW change, UpdateUserCheck(r, u, change) PROVE StaffInv'
  BY <1>3, StaffBegins DEF UpdateUserCheck
<1>4. ASSUME NEW u, NEW roles, AssignRolesCheck(r, u, roles) PROVE StaffInv'
  <2> DEFINE change == [active |-> Keep, mustChange |-> Keep, roles |-> roles]
  <2>1. Begin(r, "assignRoles", "updateUser", {}, {u}, NoLink, change) /\ SecretaryRoleFits(u, roles)
    BY <1>4 DEF AssignRolesCheck
  <2>2. change.roles = roles
    OBVIOUS
  <2> HIDE DEF change
  <2> QED
    BY <2>1, <2>2, StaffBegins
<1>5. ASSUME NEW u, RemoveUserCheck(r, u) PROVE StaffInv'
  <2>1. Begin(r, "removeUser", "deleted", {}, {u}, NoLink, TRUE)
    BY <1>5 DEF RemoveUserCheck
  <2> DEFINE b == TRUE
  <2>2. b /\ Begin(r, "removeUser", "deleted", {}, {u}, NoLink, b)
    BY <2>1
  <2> HIDE DEF b
  <2> QED
    BY <2>2, StaffBegins
<1>6. ASSUME NEW u, RestoreUserCheck(r, u), "restoreUser" \in scope.ops PROVE StaffInv'
  <2>1. Begin(r, "restoreUser", "deleted", {}, {u}, NoLink, FALSE)
    BY <1>6 DEF RestoreUserCheck
  <2> DEFINE b == FALSE
  <2>2. Begin(r, "restoreUser", "deleted", {}, {u}, NoLink, b)
    BY <2>1
  <2> HIDE DEF b
  <2> QED
    BY <1>6, <2>2, StaffBegins
<1>7. ASSUME NEW u, NEW f, NEW change \in scope.changes, UpdateSecretaryCheck(r, u, f, change) PROVE StaffInv'
  <2> DEFINE data == <<f, [change EXCEPT !.roles = Keep]>>
  <2>1. Begin(r, "updateSecretary", "updateSecretary", {}, {u}, NoLink, data) /\ secretary[u].live
    BY <1>7 DEF UpdateSecretaryCheck, Serving
  <2>2. change \in Change
    BY ScopeFits
  <2>3. data[2].roles = Keep
    BY <2>2 DEF Change
  <2> HIDE DEF data
  <2> QED
    BY <2>1, <2>3, StaffBegins
<1>8. ASSUME NEW u, RemoveSecretaryCheck(r, u) PROVE StaffInv'
  BY <1>8, StaffBegins DEF RemoveSecretaryCheck
<1>9. Free(r, "restoreUser") => "restoreUser" \in scope.ops
  BY DEF Free
<1> QED
  BY <1>1, <1>2, <1>3, <1>4, <1>5, <1>6, <1>7, <1>8, <1>9 DEF StaffArrives

LEMMA OthersArriveFits ==
    ASSUME Inv, Inv', StaffInv, NEW r \in Request, scope' = scope, PeopleArrive(r) \/ LinkArrives(r)
    PROVE  StaffInv'
<1>1. /\ account' = account /\ secretary' = secretary /\ OnlyAt(r)
      /\ pc'[r] \notin {"idle", "createUser", "updateUser", "deleted", "updateSecretary"}
  BY DEF PeopleArrive, LinkArrives, RegisterCheck, CreateStudentsBegin, ImportStudentsCheck, RemovalBegin,
         CreateTeachersCheck, RemoveTeachersCheck, LinkCheck, ResendCheck, ForgotCheck, ChangePasswordMeCheck,
         Begin, db, OnlyAt, Inv
<1> QED
  BY <1>1, DbApart, ApartKeeps, StaffHeldIdle


\* Where a request that goes on is next.
LEMMA ProceedsAt ==
    ASSUME Inv, NEW r \in Request, Proceed(r) \/ Fail(r)
    PROVE  OnlyAt(r) /\ pc[r] # "idle" /\ pc'[r] \in {"idle", "link", "mail", "roles", "rows", "removeStudentUser"}
<1>1. pc \in [Request -> Step] /\ arg = [q \in Request |-> arg[q]]
  BY DEF Inv
<1>2. Finish(r) => OnlyAt(r) /\ pc'[r] = "idle"
  BY <1>1 DEF Finish, OnlyAt
<1>3. \A step : Go(r, step) /\ UNCHANGED arg => OnlyAt(r) /\ pc'[r] = step
  BY <1>1 DEF Go, OnlyAt
<1>4. \A step, a : Go(r, step) /\ arg' = [arg EXCEPT ![r] = a] => OnlyAt(r) /\ pc'[r] = step
  BY <1>1 DEF Go, OnlyAt
<1>5. AfterMail(r) => OnlyAt(r) /\ pc'[r] \in {"idle", "link"}
  BY <1>2, <1>4 DEF AfterMail
<1>6. MailLost(r) \/ (\E kind \in {"verify", "reset"} : MailSent(r, kind)) => AfterMail(r) /\ pc[r] # "idle"
  BY DEF MailLost, MailSent, At
<1>7. CreateLink(r) \/ Register(r) => OnlyAt(r) /\ pc'[r] = "mail" /\ pc[r] # "idle"
  BY <1>4 DEF CreateLink, Register, At
<1>8. CreateStudentUsers(r) => OnlyAt(r) /\ pc'[r] = "roles" /\ pc[r] # "idle"
  BY <1>4 DEF CreateStudentUsers, At
<1>9. CreateTeachers(r) => OnlyAt(r) /\ pc'[r] = "link" /\ pc[r] # "idle"
  BY <1>4 DEF CreateTeachers, At
<1>10. Clear(r) \/ CreateStudentRows(r) => OnlyAt(r) /\ pc'[r] = "link" /\ pc[r] # "idle"
  BY <1>3 DEF Clear, CreateStudentRows, At
<1>11. CreateStudentRoles(r) => OnlyAt(r) /\ pc'[r] = "rows" /\ pc[r] # "idle"
  BY <1>3 DEF CreateStudentRoles, At
<1>12. RemoveStudent(r) => OnlyAt(r) /\ pc'[r] \in {"idle", "removeStudentUser"} /\ pc[r] # "idle"
  BY <1>2, <1>3 DEF RemoveStudent, At
<1>13. VerifyEmail(r) \/ ChangePassword(r) \/ ResetPassword(r) \/ ChangePasswordMe(r) \/ RemoveStudentUser(r)
       \/ RemoveStudents(r) \/ RemoveTeachers(r) \/ CreateUser(r) \/ UpdateUser(r) \/ SetDeleted(r)
       \/ CreateSecretary(r) \/ UpdateSecretary(r) \/ RemoveSecretary(r) \/ Fail(r)
       => Finish(r) /\ pc[r] # "idle"
  BY DEF VerifyEmail, ChangePassword, ResetPassword, ChangePasswordMe, RemoveStudentUser, RemoveStudents,
         RemoveTeachers, CreateUser, UpdateUser, SetDeleted, CreateSecretary, UpdateSecretary, RemoveSecretary,
         Fail, At
<1> QED
  BY <1>2, <1>5, <1>6, <1>7, <1>8, <1>9, <1>10, <1>11, <1>12, <1>13 DEF Proceed

\* What a password, a verified address or a student's row leaves of every account.
Marks(u) ==
    /\ account'[u].who = account[u].who
    /\ account'[u].deleted = account[u].deleted
    /\ account'[u].active = account[u].active
    /\ account'[u].roles = account[u].roles

LEMMA RowMarks ==
    ASSUME NEW a \in Account
    PROVE  /\ WithPassword(a).who = a.who /\ [a EXCEPT !.verified = TRUE].who = a.who
           /\ WithPassword(a).roles = a.roles /\ [a EXCEPT !.verified = TRUE].roles = a.roles
           /\ WithPassword(a).active = a.active /\ [a EXCEPT !.verified = TRUE].active = a.active
           /\ WithPassword(a).deleted = a.deleted /\ [a EXCEPT !.verified = TRUE].deleted = a.deleted
BY DEF WithPassword, Account

LEMMA PasswordMarks ==
    ASSUME Inv, NEW r \in Request, VerifyEmail(r) \/ ChangePassword(r) \/ ResetPassword(r) \/ ChangePasswordMe(r)
    PROVE  /\ UNCHANGED <<student, teacher, secretary>> /\ Accounts' = Accounts
           /\ \A u \in Accounts : Marks(u)
<1> DEFINE u == User(r)
           v == [account[u] EXCEPT !.verified = TRUE]
           a == WithPassword(account[u])
           b == [a EXCEPT !.verified = TRUE]
<1>1. VerifyEmail(r) => u \in Accounts /\ UNCHANGED <<student, teacher, secretary>> /\ account' = [account EXCEPT ![u] = v]
  BY DEF VerifyEmail, SetAccounts
<1>2. ChangePassword(r) => u \in Accounts /\ UNCHANGED <<student, teacher, secretary>> /\ account' = [account EXCEPT ![u] = b]
  BY DEF ChangePassword
<1>3. ResetPassword(r) => u \in Accounts /\ UNCHANGED <<student, teacher, secretary>> /\ account' = [account EXCEPT ![u] = a]
  BY DEF ResetPassword
<1>4. ChangePasswordMe(r) => u \in Accounts /\ UNCHANGED <<student, teacher, secretary>> /\ account' = [account EXCEPT ![u] = a]
  BY DEF ChangePasswordMe, SetAccounts
<1>5. u \in Accounts /\ UNCHANGED <<student, teacher, secretary>>
  BY <1>1, <1>2, <1>3, <1>4
<1>6. account[u] \in Account
  BY <1>5, AccountRead
<1>7. a \in Account /\ b \in Account /\ v \in Account
  BY <1>6, RowPassword, RowVerified
<1>8. \A row \in {v, a, b} : row.who = account[u].who /\ row.roles = account[u].roles
                           /\ row.active = account[u].active /\ row.deleted = account[u].deleted
  <2>1. v.who = account[u].who /\ v.roles = account[u].roles /\ v.active = account[u].active
        /\ v.deleted = account[u].deleted
    BY <1>6, RowMarks
  <2>2. a.who = account[u].who /\ a.roles = account[u].roles /\ a.active = account[u].active
        /\ a.deleted = account[u].deleted
    BY <1>6, RowMarks
  <2>3. b.who = a.who /\ b.roles = a.roles /\ b.active = a.active /\ b.deleted = a.deleted
    BY <1>7, RowMarks
  <2> HIDE DEF a, b, v
  <2> QED
    BY <2>1, <2>2, <2>3
<1>9. PICK row \in {v, a, b} : account' = [account EXCEPT ![u] = row]
  BY <1>1, <1>2, <1>3, <1>4
<1>10. row \in Account /\ row # NoRow
  BY <1>7, <1>9, RowsAssumption
<1> HIDE DEF u, v, a, b
<1>11. account \in [AccountId -> Account \cup {NoRow}]
  BY DEF Inv, Rows, TypeOK
<1>12. Accounts' = Accounts
  BY <1>5, <1>9, <1>10, <1>11 DEF Accounts
<1>13. \A w \in Accounts : Marks(w)
  <2> SUFFICES ASSUME NEW w \in Accounts PROVE Marks(w)
    OBVIOUS
  <2>1. CASE w = u
    BY <1>8, <1>9, <1>10, <1>11, <2>1 DEF Marks, Accounts
  <2>2. CASE w # u
    BY <1>9, <1>11, <2>2 DEF Marks, Accounts
  <2> QED
    BY <2>1, <2>2
<1> QED
  BY <1>5, <1>12, <1>13

\* The people of a request have new accounts with these roles, one each.
MadeFor(r, new, roles) ==
    /\ new \in [arg[r].people -> FreshAccounts]
    /\ Made(new)
    /\ \A p \in arg[r].people : account'[new[p]] = NewAccount(p, roles)

LEMMA UserAdded ==
    ASSUME Inv, NEW r \in Request, CreateUser(r)
    PROVE  /\ \E new : MadeFor(r, new, arg[r].data)
           /\ UNCHANGED <<student, teacher, secretary>>
<1> DEFINE u == Min(FreshAccounts)
<1>1. /\ pc[r] = "createUser" /\ FreshAccounts # {}
      /\ CreateAccounts([p \in arg[r].people |-> u], arg[r].data)
      /\ UNCHANGED <<link, student, teacher, secretary>>
  BY DEF CreateUser, At
<1>2. PICK p \in Person : arg[r].people = {p}
  BY <1>1 DEF Inv, Held, OneEach, OnePersonSteps
<1>3. arg[r].data \in SUBSET Role
  BY <1>1 DEF Inv, Held, DataFits
<1>4. u \in FreshAccounts
  BY <1>1, FreshId
<1> HIDE DEF u
<1> DEFINE new == [x \in {p} |-> u]
<1>5. new \in [{p} -> FreshAccounts] /\ IsInjective(new) /\ {p} \in SUBSET Person
  BY <1>4, OneFresh
<1>6. CreateAccounts(new, arg[r].data)
  BY <1>1, <1>2
<1> HIDE DEF new
<1>7. Made(new) /\ \A x \in {p} : account'[new[x]] = NewAccount(x, arg[r].data)
  BY <1>3, <1>5, <1>6, Created
<1>8. MadeFor(r, new, arg[r].data)
  BY <1>2, <1>5, <1>7 DEF MadeFor
<1> QED
  BY <1>1, <1>8

LEMMA StudentRegistered ==
    ASSUME Inv, NEW r \in Request, Register(r)
    PROVE  /\ \E new : /\ MadeFor(r, new, {"STUDENT"})
                       /\ student' = [p \in Person |-> IF p \in arg[r].people THEN new[p] ELSE student[p]]
           /\ RegisterFits(r) /\ pc'[r] = "mail" /\ UNCHANGED <<teacher, secretary>>
<1> DEFINE u == Min(FreshAccounts)
<1>1. /\ pc[r] = "register" /\ FreshAccounts # {}
      /\ CreateAccounts([p \in arg[r].people |-> u], {"STUDENT"})
      /\ student' = [p \in Person |-> IF p \in arg[r].people THEN u ELSE student[p]]
      /\ RegisterFits(r) /\ pc'[r] = "mail" /\ UNCHANGED <<teacher, secretary>>
  BY DEF Register, At, Go, Inv
<1>2. PICK p \in Person : arg[r].people = {p}
  BY <1>1 DEF Inv, Held, OneEach, OnePersonSteps
<1>3. {"STUDENT"} \in SUBSET Role
  BY DEF Role
<1>4. u \in FreshAccounts
  BY <1>1, FreshId
<1> HIDE DEF u
<1> DEFINE new == [x \in {p} |-> u]
<1>5. new \in [{p} -> FreshAccounts] /\ IsInjective(new) /\ {p} \in SUBSET Person /\ new[p] = u
  BY <1>4, OneFresh
<1>6. CreateAccounts(new, {"STUDENT"})
  BY <1>1, <1>2
<1> HIDE DEF new
<1>7. Made(new) /\ \A x \in {p} : account'[new[x]] = NewAccount(x, {"STUDENT"})
  BY <1>3, <1>5, <1>6, Created
<1>8. MadeFor(r, new, {"STUDENT"})
  BY <1>2, <1>5, <1>7 DEF MadeFor
<1>9. student' = [x \in Person |-> IF x \in arg[r].people THEN new[x] ELSE student[x]]
  BY <1>1, <1>2, <1>5
<1> QED
  BY <1>1, <1>8, <1>9

LEMMA TeachersAdded ==
    ASSUME Inv, NEW r \in Request, CreateTeachers(r)
    PROVE  /\ \E new : /\ MadeFor(r, new, {"TEACHER"})
                       /\ teacher' = [p \in Person |-> IF p \in arg[r].people THEN [user |-> new[p], live |-> TRUE]
                                                       ELSE teacher[p]]
           /\ UNCHANGED <<student, secretary>>
<1> DEFINE P == arg[r].people
           new == CHOOSE f \in Injection(P, FreshAccounts) : TRUE
<1>1. /\ pc[r] = "teachers" /\ Cardinality(FreshAccounts) >= Cardinality(P)
      /\ CreateAccounts(new, {"TEACHER"})
      /\ teacher' = [p \in Person |-> IF p \in P THEN [user |-> new[p], live |-> TRUE] ELSE teacher[p]]
      /\ UNCHANGED <<link, student, secretary>>
  BY DEF CreateTeachers, At
<1>2. P \in SUBSET Person
  BY DEF Inv, Held, IsArg
<1>3. new \in [P -> FreshAccounts] /\ IsInjective(new)
  BY <1>1, <1>2, FreshIds
<1>4. {"TEACHER"} \in SUBSET Role
  BY DEF Role
<1> HIDE DEF P, new
<1>5. Made(new) /\ \A p \in P : account'[new[p]] = NewAccount(p, {"TEACHER"})
  BY <1>1, <1>2, <1>3, <1>4, Created
<1>6. MadeFor(r, new, {"TEACHER"})
  BY <1>3, <1>5 DEF MadeFor, P
<1> QED
  BY <1>1, <1>6 DEF P

LEMMA StudentUsersAdded ==
    ASSUME Inv, NEW r \in Request, CreateStudentUsers(r)
    PROVE  /\ \E new : MadeFor(r, new, {}) /\ arg'[r].users = {new[p] : p \in arg[r].people}
           /\ arg'[r].people = arg[r].people /\ arg'[r].op = arg[r].op
           /\ UNCHANGED <<student, teacher, secretary>>
<1> DEFINE P == arg[r].people
           new == CHOOSE f \in Injection(P, FreshAccounts) : TRUE
<1>1. /\ pc[r] = "users" /\ Cardinality(FreshAccounts) >= Cardinality(P)
      /\ CreateAccounts(new, {})
      /\ arg' = [arg EXCEPT ![r] = [arg[r] EXCEPT !.users = Range(new)]]
      /\ UNCHANGED <<student, teacher, secretary>>
  BY DEF CreateStudentUsers, At
<1>2. P \in SUBSET Person /\ IsArg(arg[r])
  BY DEF Inv, Held, IsArg
<1>3. new \in [P -> FreshAccounts] /\ IsInjective(new)
  BY <1>1, <1>2, FreshIds
<1>4. {} \in SUBSET Role
  OBVIOUS
<1> HIDE DEF P, new
<1>5. Made(new) /\ \A p \in P : account'[new[p]] = NewAccount(p, {})
  BY <1>1, <1>2, <1>3, <1>4, Created
<1>6. MadeFor(r, new, {})
  BY <1>3, <1>5 DEF MadeFor, P
<1>7. Range(new) = {new[p] : p \in P}
  BY <1>3 DEF Range
<1>8. arg'[r] = [arg[r] EXCEPT !.users = Range(new)]
  BY <1>1 DEF Inv
<1>9. arg'[r].users = Range(new) /\ arg'[r].people = arg[r].people /\ arg'[r].op = arg[r].op
  BY <1>2, <1>8 DEF IsArg
<1> QED
  BY <1>1, <1>6, <1>7, <1>9 DEF P

\* A role for students, and nothing else.
LEMMA StudentRolesAdded ==
    ASSUME Inv, NEW r \in Request, CreateStudentRoles(r)
    PROVE  /\ pc[r] = "roles" /\ pc'[r] = "rows" /\ arg' = arg /\ Accounts' = Accounts
           /\ UNCHANGED <<student, teacher, secretary>>
           /\ \A u \in Accounts \ arg[r].users : account'[u] = account[u]
           /\ \A u \in arg[r].users : /\ u \in Accounts /\ account'[u].who = account[u].who
                                      /\ account'[u].deleted = account[u].deleted
                                      /\ account'[u].active = account[u].active
                                      /\ account'[u].roles = account[u].roles \cup {"STUDENT"}
<1>1. /\ pc[r] = "roles" /\ arg[r].users \subseteq Accounts
      /\ pc' = [pc EXCEPT ![r] = "rows"] /\ arg' = arg
      /\ account' = [u \in AccountId |-> IF u \in arg[r].users THEN [account[u] EXCEPT !.roles = @ \cup {"STUDENT"}]
                                         ELSE account[u]]
      /\ UNCHANGED <<link, student, teacher, secretary>>
  BY DEF CreateStudentRoles, SetAccounts, Go, At
<1>2. pc'[r] = "rows"
  BY <1>1 DEF Inv
<1>3. \A u \in Accounts \ arg[r].users : account'[u] = account[u]
  BY <1>1 DEF Accounts
<1>4. ASSUME NEW u \in arg[r].users
      PROVE  /\ account'[u] # NoRow /\ account'[u].who = account[u].who
             /\ account'[u].deleted = account[u].deleted /\ account'[u].active = account[u].active
             /\ account'[u].roles = account[u].roles \cup {"STUDENT"}
  <2> DEFINE roles == account[u].roles \cup {"STUDENT"}
  <2>1. account[u] \in Account /\ u \in AccountId
    BY <1>1, AccountRead
  <2>2. account'[u] = [account[u] EXCEPT !.roles = roles]
    BY <1>1, <2>1
  <2>3. roles \in SUBSET Role
    BY <2>1 DEF Account, Role
  <2> HIDE DEF roles
  <2>4. account'[u] # NoRow
    BY <2>1, <2>2, <2>3, RowRoles, RowsAssumption
  <2>5. account'[u].who = account[u].who /\ account'[u].deleted = account[u].deleted
        /\ account'[u].active = account[u].active /\ account'[u].roles = roles
    BY <2>1, <2>2 DEF Account
  <2> QED
    BY <2>4, <2>5 DEF roles
<1>5. Accounts' = Accounts
  BY <1>1, <1>4 DEF Accounts
<1> QED
  BY <1>1, <1>2, <1>3, <1>4, <1>5

\* Accounts go, and no other changes.
LEMMA Dropped ==
    ASSUME Inv, NEW users, DropAccounts(users)
    PROVE  Accounts' = Accounts \ users /\ \A u \in Accounts' : account'[u] = account[u]
BY DEF DropAccounts, Accounts

\* Removed teachers are not active, and nothing else changes of an account.
LEMMA TeachersRemoved ==
    ASSUME Inv, NEW r \in Request, RemoveTeachers(r)
    PROVE  /\ pc[r] = "removeTeachers" /\ Accounts' = Accounts /\ UNCHANGED <<student, secretary>>
           /\ teacher' = [p \in Person |-> IF p \in arg[r].people THEN [teacher[p] EXCEPT !.live = FALSE] ELSE teacher[p]]
           /\ \A u \in Accounts \ arg[r].users : account'[u] = account[u]
           /\ \A u \in Accounts \cap arg[r].users : /\ ~account'[u].active /\ account'[u].who = account[u].who
                                                    /\ account'[u].roles = account[u].roles
                                                    /\ account'[u].deleted = account[u].deleted
<1>1. /\ pc[r] = "removeTeachers" /\ UNCHANGED <<student, secretary>>
      /\ teacher' = [p \in Person |-> IF p \in arg[r].people THEN [teacher[p] EXCEPT !.live = FALSE] ELSE teacher[p]]
      /\ account' = [u \in AccountId |-> IF u \in arg[r].users THEN [account[u] EXCEPT !.active = FALSE] ELSE account[u]]
  BY DEF RemoveTeachers, At
<1>2. arg[r].users \subseteq Accounts
  BY <1>1 DEF Inv, Held, StaffHeld, Rows, TypeOK, IsArg
<1>3. ASSUME NEW u \in arg[r].users
      PROVE  account'[u] # NoRow /\ ~account'[u].active /\ account'[u].roles = account[u].roles
             /\ account'[u].who = account[u].who /\ account'[u].deleted = account[u].deleted
  <2>1. account[u] \in Account /\ u \in AccountId
    BY <1>2, AccountRead
  <2>2. account'[u] = [account[u] EXCEPT !.active = FALSE]
    BY <1>1, <2>1
  <2> QED
    BY <2>1, <2>2, RowActive, RowsAssumption DEF Account
<1>4. Accounts' = Accounts
  BY <1>1, <1>2, <1>3 DEF Accounts
<1>5. \A u \in Accounts \ arg[r].users : account'[u] = account[u]
  BY <1>1 DEF Accounts
<1> QED
  BY <1>1, <1>3, <1>4, <1>5

\* What a new account has.
LEMMA RowNewHas ==
    ASSUME NEW p, NEW roles
    PROVE  NewAccount(p, roles).who = p /\ NewAccount(p, roles).roles = roles /\ NewAccount(p, roles).active
<1>1. NewAccount(p, roles).who = p /\ NewAccount(p, roles).roles = roles
  BY Zenon DEF NewAccount
<1>2. NewAccount(p, roles).active = TRUE
  BY Zenon DEF NewAccount
<1> QED
  BY <1>1, <1>2

\* New accounts leave the others as they are.
LEMMA MadeApart ==
    ASSUME Inv, NEW r \in Request, NEW roles, NEW new, MadeFor(r, new, roles),
           "SECRETARY" \in roles => "ADMIN" \in roles, secretary' = secretary
    PROVE  StaffApart
<1>1. Accounts' = Accounts \cup {new[p] : p \in arg[r].people} /\ \A u \in Accounts : account'[u] = account[u]
  BY DEF MadeFor, Made
<1>2. ASSUME NEW p \in arg[r].people PROVE Fresh(new[p])
  <2>1. new[p] \in FreshAccounts /\ account'[new[p]].roles = roles
    BY RowNewHas DEF MadeFor
  <2> QED
    BY <2>1 DEF Fresh
<1> QED
  BY <1>1, <1>2 DEF StaffApart, Untouched

LEMMA ProceedApart ==
    ASSUME Inv, StaffInv, NEW r \in Request, Proceed(r) \/ Fail(r),
           ~UpdateUser(r), ~SetDeleted(r), ~CreateSecretary(r), ~UpdateSecretary(r), ~RemoveSecretary(r)
    PROVE  StaffApart
<1>1. CASE VerifyEmail(r) \/ ChangePassword(r) \/ ResetPassword(r) \/ ChangePasswordMe(r)
  BY <1>1, PasswordMarks DEF Marks, StaffApart, Untouched
<1>2. CASE CreateUser(r)
  <2>1. "SECRETARY" \in arg[r].data => "ADMIN" \in arg[r].data
    BY <1>2 DEF StaffInv, StaffHeldBy, CreateUser, At
  <2> QED
    BY <1>2, <2>1, UserAdded, MadeApart
<1>3. CASE Register(r)
  BY <1>3, StudentRegistered, MadeApart
<1>4. CASE CreateTeachers(r)
  BY <1>4, TeachersAdded, MadeApart
<1>5. CASE CreateStudentUsers(r)
  BY <1>5, StudentUsersAdded, MadeApart
<1>6. CASE CreateStudentRoles(r)
  BY <1>6, StudentRolesAdded DEF StaffApart, Untouched
<1>7. CASE RemoveStudentUser(r) \/ RemoveStudents(r)
  BY <1>7, Dropped DEF RemoveStudentUser, RemoveStudents, StaffApart, Untouched
<1>8. CASE RemoveTeachers(r)
  BY <1>8, TeachersRemoved DEF StaffApart, Untouched
<1>9. CASE CreateLink(r) \/ MailLost(r) \/ (\E kind \in {"verify", "reset"} : MailSent(r, kind)) \/ Clear(r)
           \/ CreateStudentRows(r) \/ RemoveStudent(r) \/ Fail(r)
  <2>1. account' = account /\ secretary' = secretary
    BY <1>9 DEF CreateLink, MailLost, MailSent, Clear, CreateStudentRows, RemoveStudent, Fail, SetLinks, db
  <2> QED
    BY <2>1, DbApart
<1> QED
  BY <1>1, <1>2, <1>3, <1>4, <1>5, <1>6, <1>7, <1>8, <1>9 DEF Proceed

\* A row of an account or of a secretary is written.
LEMMA OneStaffKeeps ==
    ASSUME Inv, Inv', StaffInv, NEW r \in Request, NEW u \in AccountId, scope' = scope, Finish(r), pc[r] # "idle",
           \A v \in AccountId \ {u} : account'[v] = account[v] /\ secretary'[v] = secretary[v],
           StaffFits(u)', \A q \in Request \ {r} : u \in arg[q].users => StaffSteady(q)
    PROVE  StaffInv'
<1>1. OnlyAt(r) /\ pc'[r] = "idle"
  BY Finished
<1>2. ASSUME NEW v \in AccountId \ {u}
      PROVE  (Staffed(v)' <=> Staffed(v)) /\ (v \in Accounts' <=> v \in Accounts) /\ account'[v] = account[v]
             /\ secretary'[v] = secretary[v]
  BY DEF Staffed, Accounts
<1>3. ASSUME NEW v \in AccountId \ {u} PROVE StaffFits(v)'
  BY <1>2 DEF StaffInv, StaffFits, OneByOne
<1>4. ASSUME NEW q \in Request \ {r}, u \notin arg[q].users PROVE StaffSteady(q)
  <2>1. arg[q].users \subseteq AccountId \ {u}
    BY <1>4 DEF Inv, Held, IsArg
  <2> QED
    BY <1>2, <2>1 DEF StaffSteady
<1> QED
  BY <1>1, <1>3, <1>4, StaffKeeps, StaffHeldIdle

\* What an administrator's change writes.
LEMMA RowChangedRoles ==
    ASSUME NEW a \in Account, NEW d \in Change
    PROVE  /\ Changed(a, d).deleted = a.deleted
           /\ d.roles = Keep => Changed(a, d).roles = a.roles
           /\ d.roles # Keep => Changed(a, d).roles = d.roles
           /\ d.active = Keep => Changed(a, d).active = a.active
<1>1. Changed(a, d) = [a EXCEPT !.active = Given(d.active, a.active), !.mustChange = Given(d.mustChange, a.mustChange),
                                !.roles = Given(d.roles, a.roles)]
  BY DEF Changed
<1>2. Changed(a, d).deleted = a.deleted
  BY <1>1 DEF Account
<1>3. Changed(a, d).roles = Given(d.roles, a.roles) /\ Changed(a, d).active = Given(d.active, a.active)
  BY <1>1 DEF Account
<1> QED
  BY <1>2, <1>3 DEF Given

LEMMA UpdateUserFits ==
    ASSUME Inv, Inv', StaffInv, NEW r \in Request, scope' = scope, UpdateUser(r)
    PROVE  StaffInv'
<1>0. PICK u : u = User(r)
  OBVIOUS
<1> DEFINE d == arg[r].data
           a == Changed(account[u], d)
<1>1. /\ u \in Accounts /\ Finish(r) /\ secretary' = secretary /\ pc[r] = "updateUser"
      /\ account' = [account EXCEPT ![u] = a]
  BY <1>0 DEF UpdateUser, SetAccounts, At
<1>2. d \in Change /\ StaffHeldBy(r) /\ arg[r].users = {u}
  BY <1>0, <1>1, OneUser DEF Inv, Held, DataFits, OneUserSteps, StaffInv
<1>3. account[u] \in Account /\ u \in AccountId
  BY <1>1, AccountRead
<1>4. /\ a.deleted = account[u].deleted
      /\ d.roles = Keep => a.roles = account[u].roles
      /\ d.roles # Keep => a.roles = d.roles
  BY <1>2, <1>3, RowChangedRoles
<1>5. /\ StaffFits(u)
      /\ d.roles # Keep =>
            /\ Staffed(u) => "SECRETARY" \in d.roles
            /\ "SECRETARY" \in d.roles /\ "ADMIN" \notin d.roles /\ "restoreUser" \notin scope.ops
               => Staffed(u) \/ account[u].deleted
  BY <1>1, <1>2, <1>3 DEF StaffInv, StaffHeldBy
<1> HIDE DEF d, a
<1>6. account'[u] = a /\ \A v \in AccountId \ {u} : account'[v] = account[v]
  BY <1>1, <1>3 DEF Inv, Rows, TypeOK
<1>7. u \in Accounts' => account'[u] = a
  BY <1>6
<1>8. Staffed(u)' <=> Staffed(u)
  BY <1>1 DEF Staffed
<1>9. StaffFits(u)'
  BY <1>1, <1>4, <1>5, <1>6, <1>8 DEF StaffFits, OneByOne
<1>10. \A q \in Request : StaffSteady(q)
  <2>1. \A v \in AccountId : v \in Accounts' => v \in Accounts /\ account'[v].deleted = account[v].deleted
    BY <1>1, <1>4, <1>6 DEF Accounts
  <2>2. \A v \in AccountId : Staffed(v)' <=> Staffed(v)
    BY <1>1 DEF Staffed
  <2> QED
    BY <2>1, <2>2 DEF StaffSteady, Inv, Held, IsArg
<1> QED
  BY <1>1, <1>3, <1>6, <1>9, <1>10, OneStaffKeeps

LEMMA SetDeletedFits ==
    ASSUME Inv, Inv', StaffInv, NEW r \in Request, scope' = scope, SetDeleted(r)
    PROVE  StaffInv'
<1>0. PICK u : u = User(r)
  OBVIOUS
<1> DEFINE a == [account[u] EXCEPT !.deleted = arg[r].data]
<1>1. /\ u \in Accounts /\ Finish(r) /\ secretary' = secretary /\ pc[r] = "deleted"
      /\ account' = [account EXCEPT ![u] = a]
  BY <1>0 DEF SetDeleted, SetAccounts, At
<1>2. arg[r].data \/ "restoreUser" \in scope.ops
  BY <1>1 DEF StaffInv, StaffHeldBy
<1>3. account[u] \in Account /\ u \in AccountId
  BY <1>1, AccountRead
<1>4. a.deleted = arg[r].data /\ a.roles = account[u].roles
  BY <1>3 DEF Account
<1>5. StaffFits(u)
  BY <1>3 DEF StaffInv
<1> HIDE DEF a
<1>6. account'[u] = a /\ \A v \in AccountId \ {u} : account'[v] = account[v]
  BY <1>1, <1>3 DEF Inv, Rows, TypeOK
<1>7. \A v \in AccountId : Staffed(v)' <=> Staffed(v)
  BY <1>1 DEF Staffed
<1>8. "restoreUser" \notin scope.ops => account'[u].deleted
  BY <1>2, <1>4, <1>6
<1>9. StaffFits(u)'
  BY <1>1, <1>3, <1>4, <1>5, <1>6, <1>7, <1>8 DEF StaffFits, OneByOne
<1>10. \A q \in Request : StaffSteady(q)
  <2>1. \A v \in AccountId \ {u} : v \in Accounts' <=> v \in Accounts
    BY <1>6 DEF Accounts
  <2> QED
    BY <1>6, <1>7, <1>8, <2>1 DEF StaffSteady, Inv, Held, IsArg
<1> QED
  BY <1>1, <1>3, <1>6, <1>9, <1>10, OneStaffKeeps

LEMMA CreateSecretaryFits ==
    ASSUME Inv, Inv', StaffInv, NEW r \in Request, scope' = scope, CreateSecretary(r)
    PROVE  StaffInv'
<1>0. PICK u : u = Min(FreshAccounts)
  OBVIOUS
<1> DEFINE f == arg[r].data
           s == [live |-> TRUE, faculty |-> f]
           p == CHOOSE p \in arg[r].people : TRUE
           n == NewAccount(p, {"SECRETARY"})
           a == [n EXCEPT !.verified = TRUE, !.mustChange = FALSE]
<1>1. /\ pc[r] = "createSecretary" /\ FreshAccounts # {} /\ Finish(r)
      /\ account' = [account EXCEPT ![u] = a] /\ secretary' = [secretary EXCEPT ![u] = s]
  BY <1>0 DEF CreateSecretary, At
<1>2. f \in Faculty
  BY <1>1 DEF Inv, Held, DataFits
<1>3. u \in FreshAccounts /\ u \in AccountId /\ u \notin Accounts /\ \A q \in Request : u \notin arg[q].users
  BY <1>0, <1>1, FreshId, FreshIs
<1>4. s # NoRow /\ s.faculty = f /\ f # NoFaculty
  BY <1>2, RowStaffed, MarkersAssumption
<1>5. s.live = TRUE
  BY Zenon
<1>6. a.roles = {"SECRETARY"}
  <2>1. PICK x \in Person : arg[r].people = {x}
    BY <1>1 DEF Inv, Held, OneEach, OnePersonSteps
  <2>2. p = x /\ {"SECRETARY"} \in SUBSET Role
    BY <2>1 DEF Role
  <2>3. NewAccount(x, {"SECRETARY"}) \in Account
    BY <2>2, RowNew
  <2>4. NewAccount(x, {"SECRETARY"}).roles = {"SECRETARY"}
    BY RowNewHas
  <2>5. n \in Account /\ n.roles = {"SECRETARY"}
    BY <2>2, <2>3, <2>4
  <2> HIDE DEF n
  <2> QED
    BY <2>5 DEF Account
<1> HIDE DEF f, s, a
<1>7. account'[u] = a /\ secretary'[u] = s
      /\ \A v \in AccountId \ {u} : account'[v] = account[v] /\ secretary'[v] = secretary[v]
  BY <1>1, <1>3 DEF Inv, Rows, TypeOK
<1>8. Staffed(u)' /\ "SECRETARY" \in account'[u].roles
  BY <1>4, <1>5, <1>6, <1>7 DEF Staffed
<1>9. secretary'[u].live /\ secretary'[u].faculty # NoFaculty
  BY <1>4, <1>5, <1>7
<1>10. StaffFits(u)'
  BY <1>8, <1>9 DEF StaffFits
<1> QED
  BY <1>1, <1>3, <1>7, <1>10, OneStaffKeeps

LEMMA UpdateSecretaryFits ==
    ASSUME Inv, Inv', StaffInv, NEW r \in Request, scope' = scope, UpdateSecretary(r)
    PROVE  StaffInv'
<1>0. PICK u : u = User(r)
  OBVIOUS
<1> DEFINE d == arg[r].data[2]
           a == Changed(account[u], d)
           f == Given(arg[r].data[1], secretary[u].faculty)
           s == [secretary[u] EXCEPT !.faculty = f]
<1>1. /\ pc[r] = "updateSecretary" /\ Finish(r)
      /\ account' = [account EXCEPT ![u] = a] /\ secretary' = [secretary EXCEPT ![u] = s]
  BY <1>0 DEF UpdateSecretary, At
<1>2. u \in AccountId /\ arg[r].users = {u}
  BY <1>0, <1>1, OneUser DEF OneUserSteps
<1>3. secretary[u] \in Secretary /\ secretary[u] # NoRow /\ u \in Accounts
  BY <1>1, <1>2 DEF Inv, Held, StaffHeld, Rows, TypeOK
<1>4. arg[r].data[1] \in Faculty \cup {Keep} /\ d \in Change /\ d.roles = Keep
      /\ (OneByOne => secretary[u].live)
  BY <1>1, <1>2 DEF Inv, Held, DataFits, StaffInv, StaffHeldBy
<1>5. a.roles = account[u].roles /\ a.deleted = account[u].deleted
  BY <1>3, <1>4, AccountRead, RowChangedRoles
<1>6. s # NoRow /\ s.live = secretary[u].live /\ s.faculty = f
  <2>1. f \in Faculty \cup {NoFaculty}
    BY <1>3, <1>4 DEF Given, Secretary
  <2> HIDE DEF f
  <2>2. s \in Secretary /\ s.live = secretary[u].live /\ s.faculty = f
    BY <1>3, <2>1 DEF Secretary
  <2> QED
    BY <2>2, RowsAssumption
<1>7. secretary[u].faculty # NoFaculty => f # NoFaculty
  BY <1>4, MarkersAssumption DEF Given
<1>8. StaffFits(u)
  BY <1>2 DEF StaffInv
<1> HIDE DEF d, a, f, s
<1>9. account'[u] = a /\ secretary'[u] = s
      /\ \A v \in AccountId \ {u} : account'[v] = account[v] /\ secretary'[v] = secretary[v]
  BY <1>1, <1>2 DEF Inv, Rows, TypeOK
<1>10. Staffed(u)' <=> Staffed(u)
  BY <1>3, <1>6, <1>7, <1>8, <1>9 DEF Staffed, StaffFits
<1>11. StaffFits(u)'
  BY <1>3, <1>4, <1>5, <1>6, <1>7, <1>8, <1>9, <1>10 DEF StaffFits, OneByOne
<1>12. \A q \in Request : StaffSteady(q)
  <2>1. \A v \in AccountId : v \in Accounts' => v \in Accounts /\ account'[v].deleted = account[v].deleted
    BY <1>3, <1>5, <1>9 DEF Accounts
  <2>2. \A v \in AccountId : Staffed(v)' <=> Staffed(v)
    BY <1>9, <1>10 DEF Staffed
  <2> QED
    BY <2>1, <2>2 DEF StaffSteady, Inv, Held, IsArg
<1> QED
  BY <1>1, <1>2, <1>9, <1>11, <1>12, OneStaffKeeps

LEMMA RemoveSecretaryFits ==
    ASSUME Inv, Inv', StaffInv, NEW r \in Request, scope' = scope, RemoveSecretary(r)
    PROVE  StaffInv'
<1>0. PICK u : u = User(r)
  OBVIOUS
<1> DEFINE n == [account[u] EXCEPT !.deleted = TRUE]
           a == [n EXCEPT !.active = FALSE]
           s == [live |-> FALSE, faculty |-> NoFaculty]
<1>1. pc[r] = "removeSecretary" /\ Finish(r)
  BY <1>0 DEF RemoveSecretary, At
<1>2. u \in AccountId /\ arg[r].users = {u}
  BY <1>0, <1>1, OneUser DEF OneUserSteps
<1>3. u \in Accounts /\ account[u] \in Account
  BY <1>1, <1>2, AccountRead DEF Inv, Held, StaffHeld, Rows, TypeOK
<1>4. account' = [account EXCEPT ![u] = a] /\ secretary' = [secretary EXCEPT ![u] = s]
  BY <1>0, <1>2 DEF RemoveSecretary, Inv, Rows, TypeOK
<1>5. a.deleted = TRUE
  BY <1>3 DEF Account
<1>6. s.faculty = NoFaculty
  BY Zenon
<1>7. s.live = FALSE
  BY Zenon
<1> HIDE DEF a, s
<1>8. account'[u] = a /\ secretary'[u] = s
      /\ \A v \in AccountId \ {u} : account'[v] = account[v] /\ secretary'[v] = secretary[v]
  BY <1>2, <1>4 DEF Inv, Rows, TypeOK
<1>9. account'[u].deleted /\ ~secretary'[u].live /\ secretary'[u].faculty = NoFaculty
  BY <1>5, <1>6, <1>7, <1>8
<1>10. ~Staffed(u)' /\ StaffFits(u)'
  BY <1>9 DEF Staffed, StaffFits
<1>11. \A q \in Request : StaffSteady(q)
  <2>1. \A v \in AccountId \ {u} : (v \in Accounts' <=> v \in Accounts) /\ (Staffed(v)' <=> Staffed(v))
    BY <1>8 DEF Accounts, Staffed
  <2> QED
    BY <1>8, <1>9, <1>10, <2>1 DEF StaffSteady, Inv, Held, IsArg
<1> QED
  BY <1>1, <1>2, <1>8, <1>10, <1>11, OneStaffKeeps

LEMMA StaffInvInit == Init => StaffInv
<1> SUFFICES ASSUME Init PROVE StaffInv
  OBVIOUS
<1>1. /\ \A u \in AccountId : secretary[u] = NoRow /\ account[u] = NoRow
      /\ \A q \in Request : pc[q] = "idle"
  BY DEF Init
<1> QED
  BY <1>1 DEF StaffInv, StaffFits, StaffHeldBy, Accounts

LEMMA StaffInvNext == Inv /\ Inv' /\ StaffInv /\ [Next /\ UNCHANGED scope]_vars => StaffInv'
<1> SUFFICES ASSUME Inv, Inv', StaffInv, [Next /\ UNCHANGED scope]_vars PROVE StaffInv'
  OBVIOUS
<1>1. CASE UNCHANGED vars \/ \E k \in LinkId : Expire(k) /\ scope' = scope
  <2>1. account' = account /\ secretary' = secretary /\ pc' = pc /\ arg' = arg /\ scope' = scope
    BY <1>1 DEF vars, Expire, SetLinks
  <2>2. (\A u : Staffed(u)' <=> Staffed(u)) /\ (OneByOne' <=> OneByOne) /\ Accounts' = Accounts
    BY <2>1 DEF Staffed, OneByOne, Accounts
  <2>3. \A u \in AccountId : StaffFits(u)'
    BY <2>1, <2>2 DEF StaffInv, StaffFits
  <2>4. \A q \in Request : StaffHeldBy(q)'
    BY <2>1, <2>2 DEF StaffInv, StaffHeldBy
  <2> QED
    BY <2>3, <2>4 DEF StaffInv
<1>2. ASSUME scope' = scope, NEW r \in Request, PeopleArrive(r) \/ LinkArrives(r) PROVE StaffInv'
  BY <1>2, OthersArriveFits
<1>3. ASSUME scope' = scope, NEW r \in Request, StaffArrives(r) PROVE StaffInv'
  BY <1>3, StaffArrivesFits
<1>4. ASSUME scope' = scope, NEW r \in Request, Proceed(r) \/ Fail(r) PROVE StaffInv'
  <2>1. CASE UpdateUser(r) \/ SetDeleted(r) \/ CreateSecretary(r) \/ UpdateSecretary(r) \/ RemoveSecretary(r)
    BY <1>4, <2>1, UpdateUserFits, SetDeletedFits, CreateSecretaryFits, UpdateSecretaryFits, RemoveSecretaryFits
  <2>2. CASE ~(UpdateUser(r) \/ SetDeleted(r) \/ CreateSecretary(r) \/ UpdateSecretary(r) \/ RemoveSecretary(r))
    <3>1. StaffApart
      BY <1>4, <2>2, ProceedApart
    <3>2. OnlyAt(r) /\ pc[r] # "idle" /\ pc'[r] \in {"idle", "link", "mail", "roles", "rows", "removeStudentUser"}
      BY <1>4, ProceedsAt
    <3> QED
      BY <1>4, <3>1, <3>2, ApartKeeps, StaffHeldIdle
  <2> QED
    BY <2>1, <2>2
<1> QED
  BY <1>1, <1>2, <1>3, <1>4 DEF Next

\* However requests interleave or break off: who holds a faculty has the role of a secretary
\* and, unless removed accounts are restored, who has the role and is no administrator holds
\* one; while requests come one by one a removed secretary holds none.
THEOREM FacultyWithRole == Spec => []RoleAndFacultyTogether
<1>1. Inv /\ StaffInv => RoleAndFacultyTogether
  <2> SUFFICES ASSUME Inv, StaffInv PROVE RoleAndFacultyTogether
    OBVIOUS
  <2>1. \A u \in Accounts : u \in AccountId /\ StaffFits(u)
    BY DEF StaffInv, Accounts
  <2>2. SecretaryKeepsRole
    BY <2>1 DEF SecretaryKeepsRole, StaffFits
  <2>3. SecretariesHaveFaculties
    BY <2>1 DEF SecretariesHaveFaculties, StaffFits, StaffInv
  <2> QED
    BY <2>2, <2>3 DEF RoleAndFacultyTogether
<1> QED
  BY <1>1, InvInit, InvNext, StaffInvInit, StaffInvNext, PTL DEF Spec

-----------------------------------------------------------------------------
(* Links, and the passwords they set *)

\* A link that works has set no password, and none has set two.
LinkFits(k) == link[k] # NoRow => link[k].sets <= 1 /\ (link[k].live => link[k].sets = 0)

LinkUnused(k) == link[k] = NoRow \/ link[k].sets = 0

LinksInv ==
    OneByOne =>
        /\ \A k \in LinkId : LinkFits(k)
        /\ \A q \in Request : pc[q] \in {"changePassword", "resetPassword"} => LinkUnused(arg[q].link)

\* What is written of a link, other than its use.
LinkWritten(k) ==
    \/ link'[k] \in {link[k], NoRow}
    \/ \E u \in AccountId, kind \in {"verify", "reset"} : link'[k] = NewLink(u, kind)
    \/ link[k] # NoRow /\ link'[k] \in {[link[k] EXCEPT !.mailed = TRUE], [link[k] EXCEPT !.live = FALSE]}

LEMMA LinkWrittenFits ==
    ASSUME Inv, NEW k \in LinkId, LinkFits(k), LinkWritten(k)
    PROVE  LinkFits(k)'
<1>1. CASE link'[k] \in {link[k], NoRow}
  BY <1>1 DEF LinkFits
<1>2. CASE \E u \in AccountId, kind \in {"verify", "reset"} : link'[k] = NewLink(u, kind)
  <2>1. PICK u \in AccountId, kind \in {"verify", "reset"} : link'[k] = NewLink(u, kind)
    BY <1>2
  <2>2. NewLink(u, kind).sets = 0
    BY DEF NewLink
  <2> QED
    BY <2>1, <2>2 DEF LinkFits
<1>3. CASE link[k] # NoRow /\ link'[k] \in {[link[k] EXCEPT !.mailed = TRUE], [link[k] EXCEPT !.live = FALSE]}
  <2>1. link[k] \in Link
    BY <1>3 DEF Inv, Rows, TypeOK
  <2>2. [link[k] EXCEPT !.mailed = TRUE].sets = link[k].sets /\ [link[k] EXCEPT !.mailed = TRUE].live = link[k].live
    BY <2>1 DEF Link
  <2>3. [link[k] EXCEPT !.live = FALSE].sets = link[k].sets
    BY <2>1 DEF Link
  <2>4. [link[k] EXCEPT !.live = FALSE].live = FALSE
    BY <2>1 DEF Link
  <2> QED
    BY <1>3, <2>2, <2>3, <2>4 DEF LinkFits
<1> QED
  BY <1>1, <1>2, <1>3 DEF LinkWritten

\* The step of a handler that goes on, where it does not use a link.
LEMMA ProceedLinks ==
    ASSUME Inv, NEW r \in Request, NEW k \in LinkId, Proceed(r) \/ Fail(r), ~ChangePassword(r), ~ResetPassword(r)
    PROVE  LinkWritten(k)
<1>1. link \in [LinkId -> Link \cup {NoRow}]
  BY DEF Inv, Rows, TypeOK
<1>2. link' = link => LinkWritten(k)
  BY DEF LinkWritten
<1>3. ASSUME NEW j \in LinkId, NEW u \in AccountId, NEW kind \in {"verify", "reset"},
             link' = [link EXCEPT ![j] = NewLink(u, kind)]
      PROVE  LinkWritten(k)
  BY <1>1, <1>3 DEF LinkWritten
<1>4. ASSUME CreateLink(r) PROVE LinkWritten(k)
  <2> DEFINE u == NextUser(r)
             j == Min(FreeLinks)
             kind == IF arg[r].op = "forgot" THEN "reset" ELSE "verify"
  <2>1. u \in Accounts /\ FreeLinks # {} /\ link' = [link EXCEPT ![j] = NewLink(u, kind)]
    BY <1>4 DEF CreateLink, SetLinks
  <2>2. j \in LinkId /\ u \in AccountId /\ kind \in {"verify", "reset"}
    BY <2>1, FreeLink DEF Accounts
  <2> HIDE DEF u, j, kind
  <2> QED
    BY <1>3, <2>1, <2>2
<1>5. ASSUME Register(r) PROVE LinkWritten(k)
  <2> DEFINE u == Min(FreshAccounts)
             j == Min(FreeLinks)
  <2>1. FreshAccounts # {} /\ FreeLinks # {} /\ link' = [link EXCEPT ![j] = NewLink(u, "verify")]
    BY <1>5 DEF Register
  <2>2. j \in LinkId /\ u \in AccountId
    BY <2>1, FreeLink, FreshId, FreshIs
  <2> HIDE DEF u, j
  <2> QED
    BY <1>3, <2>1, <2>2
<1>6. ASSUME NEW kind, MailSent(r, kind) PROVE LinkWritten(k)
  <2> DEFINE j == arg[r].link
             l == IF link[j] = NoRow THEN NoRow ELSE [link[j] EXCEPT !.mailed = TRUE]
  <2>1. link' = [link EXCEPT ![j] = l]
    BY <1>1, <1>6 DEF MailSent, SetLinks
  <2>2. link'[k] = (IF k = j THEN l ELSE link[k])
    BY <1>1, <2>1
  <2> QED
    BY <2>2 DEF LinkWritten
<1>7. Clear(r) => LinkWritten(k)
  BY DEF Clear, SetLinks, LinkWritten
<1>8. \A users : DropAccounts(users) => LinkWritten(k)
  BY DEF DropAccounts, LinkWritten
<1>9. RemoveStudentUser(r) \/ RemoveStudents(r) => LinkWritten(k)
  BY <1>8 DEF RemoveStudentUser, RemoveStudents
<1>10. MailLost(r) \/ VerifyEmail(r) \/ ChangePasswordMe(r) \/ CreateStudentUsers(r) \/ CreateStudentRoles(r)
       \/ CreateStudentRows(r) \/ RemoveStudent(r) \/ CreateTeachers(r) \/ RemoveTeachers(r) \/ CreateUser(r)
       \/ UpdateUser(r) \/ SetDeleted(r) \/ CreateSecretary(r) \/ UpdateSecretary(r) \/ RemoveSecretary(r) \/ Fail(r)
       => link' = link
  BY DEF MailLost, VerifyEmail, ChangePasswordMe, CreateStudentUsers, CreateStudentRoles, CreateStudentRows,
         RemoveStudent, CreateTeachers, RemoveTeachers, CreateUser, UpdateUser, SetDeleted, CreateSecretary,
         UpdateSecretary, RemoveSecretary, Fail, SetAccounts, db
<1> QED
  BY <1>2, <1>4, <1>5, <1>6, <1>7, <1>9, <1>10 DEF Proceed

\* The step that uses one.
LEMMA UseLinks ==
    ASSUME Inv, NEW r \in Request, ChangePassword(r) \/ ResetPassword(r), LinkUnused(arg[r].link),
           \A k \in LinkId : LinkFits(k)
    PROVE  \A k \in LinkId : LinkFits(k)'
<1> DEFINE j == arg[r].link
           sets == IF link[j].sets = 2 THEN 2 ELSE link[j].sets + 1
           l == [link[j] EXCEPT !.live = FALSE, !.sets = sets]
<1>1. pc[r] \in {"changePassword", "resetPassword"} /\ link[j] # NoRow /\ Use(j)
  BY DEF ChangePassword, ResetPassword, At
<1>2. j \in LinkId
  BY <1>1 DEF Inv, Held, OneEach
<1>3. link[j] \in Link /\ link[j].sets = 0
  BY <1>1, <1>2 DEF Inv, Rows, TypeOK, LinkUnused
<1>4. sets = 1
  BY <1>3
<1>5. link' = [link EXCEPT ![j] = l]
  BY <1>1 DEF Use
<1> HIDE DEF sets
<1>6. l.sets = 1
  BY <1>3, <1>4 DEF Link
<1>7. l.live = FALSE
  BY <1>3 DEF Link
<1> HIDE DEF j, l
<1>8. \A k \in LinkId : link'[k] = IF k = j THEN l ELSE link[k]
  BY <1>5 DEF Inv, Rows, TypeOK
<1> QED
  BY <1>6, <1>7, <1>8 DEF LinkFits

\* Every arrival leaves the rows as they are.
LEMMA Arrival ==
    ASSUME Inv, NEW r \in Request, PeopleArrive(r) \/ LinkArrives(r) \/ StaffArrives(r)
    PROVE  OnlyAt(r) /\ pc[r] = "idle" /\ pc'[r] # "idle" /\ UNCHANGED db
<1> DEFINE Begins == \E op, people, users, k, data : \E step \in Step \ {"idle"} : Begin(r, op, step, people, users, k, data)
<1>1. Begins => OnlyAt(r) /\ pc'[r] # "idle" /\ UNCHANGED db
  <2> SUFFICES ASSUME NEW op, NEW people, NEW users, NEW k, NEW data, NEW step \in Step \ {"idle"},
                      Begin(r, op, step, people, users, k, data)
               PROVE  OnlyAt(r) /\ pc'[r] # "idle" /\ UNCHANGED db
    OBVIOUS
  <2> QED
    BY DEF Inv, Begin, OnlyAt
<1>2. ASSUME NEW op, NEW people, NEW users, NEW k, NEW data, NEW step \in Step \ {"idle"},
             Begin(r, op, step, people, users, k, data)
      PROVE  Begins
  BY <1>2
<1> HIDE DEF Begins
<1>3. /\ PeopleArrive(r) => Begins
      /\ LinkArrives(r) => Begins
  BY <1>2 DEF PeopleArrive, LinkArrives, RegisterCheck, CreateStudentsBegin, ImportStudentsCheck, RemovalBegin,
         CreateTeachersCheck, RemoveTeachersCheck, LinkCheck, ResendCheck, ForgotCheck, ChangePasswordMeCheck, Step
<1>4. StaffArrives(r) => Begins
  BY <1>2 DEF StaffArrives, CreateUserCheck, UpdateUserCheck, AssignRolesCheck, RemoveUserCheck, RestoreUserCheck,
         CreateSecretaryCheck, UpdateSecretaryCheck, RemoveSecretaryCheck, Step
<1>5. pc[r] = "idle"
  BY DEF PeopleArrive, LinkArrives, StaffArrives, Free
<1> QED
  BY <1>1, <1>3, <1>4, <1>5

\* A request that is to set a password has found a link that works.
LEMMA ArrivesWithLink ==
    ASSUME Inv, NEW r \in Request, PeopleArrive(r) \/ LinkArrives(r) \/ StaffArrives(r),
           pc'[r] \in {"changePassword", "resetPassword"}
    PROVE  arg'[r].link \in LinkId /\ Opens(arg'[r].link)
<1>1. \A op, step, people, users, k, data :
         Begin(r, op, step, people, users, k, data) => pc'[r] = step /\ arg'[r].link = k
  BY Begun
<1>2. ASSUME NEW k \in LinkId, NEW op, LinkCheck(r, op, k) PROVE Opens(arg'[r].link) /\ arg'[r].link = k
  BY <1>1, <1>2 DEF LinkCheck
<1>3. ~PeopleArrive(r)
  BY <1>1 DEF PeopleArrive, RegisterCheck, CreateStudentsBegin, ImportStudentsCheck, RemovalBegin,
         CreateTeachersCheck, RemoveTeachersCheck
<1>4. ~StaffArrives(r)
  <2>1. \A u : ~RemoveUserCheck(r, u)
    BY <1>1, Zenon DEF RemoveUserCheck
  <2>2. \A u : ~RestoreUserCheck(r, u)
    BY <1>1, Zenon DEF RestoreUserCheck
  <2>3. \A u, roles : ~AssignRolesCheck(r, u, roles)
    BY <1>1, Zenon DEF AssignRolesCheck
  <2>4. ASSUME NEW u, NEW f, NEW change, UpdateSecretaryCheck(r, u, f, change) PROVE FALSE
    <3> DEFINE data == <<f, [change EXCEPT !.roles = Keep]>>
    <3>1. Begin(r, "updateSecretary", "updateSecretary", {}, {u}, NoLink, data)
      BY <2>4 DEF UpdateSecretaryCheck
    <3> HIDE DEF data
    <3> QED
      BY <1>1, <3>1
  <2>5. /\ \A p, roles : ~CreateUserCheck(r, p, roles)
        /\ \A p, f : ~CreateSecretaryCheck(r, p, f)
        /\ \A u, change : ~UpdateUserCheck(r, u, change)
        /\ \A u : ~RemoveSecretaryCheck(r, u)
    BY <1>1 DEF CreateUserCheck, CreateSecretaryCheck, UpdateUserCheck, RemoveSecretaryCheck
  <2> QED
    BY <2>1, <2>2, <2>3, <2>4, <2>5 DEF StaffArrives
<1>5. \A u : ~ResendCheck(r, u) /\ ~ForgotCheck(r, u) /\ ~ChangePasswordMeCheck(r, u)
  BY <1>1 DEF ResendCheck, ForgotCheck, ChangePasswordMeCheck
<1> QED
  BY <1>2, <1>3, <1>4, <1>5 DEF LinkArrives

LEMMA LinksInvInit == Init => LinksInv
BY DEF Init, LinksInv, LinkFits

LEMMA LinksInvNext == Inv /\ Inv' /\ LinksInv /\ [Next /\ UNCHANGED scope]_vars => LinksInv'
<1> SUFFICES ASSUME Inv, Inv', LinksInv, [Next /\ UNCHANGED scope]_vars, OneByOne' PROVE LinksInv'
  BY DEF LinksInv
<1>1. OneByOne /\ scope' = scope
  BY DEF vars, OneByOne
<1>2. /\ \A k \in LinkId : LinkFits(k)
      /\ \A q \in Request : pc[q] \in {"changePassword", "resetPassword"} => LinkUnused(arg[q].link)
  BY <1>1 DEF LinksInv
<1>3. \A q \in Request : pc[q] \in {"changePassword", "resetPassword"} => arg[q].link \in LinkId
  BY DEF Inv, Held, OneEach
<1>4. ASSUME NEW r \in Request, NEW q \in Request \ {r}, pc[r] # "idle" \/ pc'[r] # "idle", OnlyAt(r)
      PROVE  pc'[q] = "idle"
  BY <1>1, <1>4, Alone DEF OnlyAt, Inv
<1>5. CASE UNCHANGED vars
  BY <1>2, <1>5 DEF vars, LinksInv, LinkFits, LinkUnused
<1>6. CASE \E k \in LinkId : Expire(k)
  <2>1. PICK j \in LinkId : Expire(j)
    BY <1>6
  <2>2. link[j] # NoRow /\ link' = [link EXCEPT ![j] = [link[j] EXCEPT !.live = FALSE]] /\ pc' = pc /\ arg' = arg
    BY <2>1 DEF Expire, SetLinks, Opens
  <2>3. link \in [LinkId -> Link \cup {NoRow}]
    BY DEF Inv, Rows, TypeOK
  <2>4. \A k \in LinkId : LinkWritten(k)
    BY <2>2, <2>3 DEF LinkWritten
  <2>5. \A k \in LinkId : LinkFits(k)'
    BY <1>2, <2>4, LinkWrittenFits
  <2>6. [link[j] EXCEPT !.live = FALSE].sets = link[j].sets
    BY <2>2, <2>3 DEF Link
  <2>7. ASSUME NEW k \in LinkId, LinkUnused(k) PROVE LinkUnused(k)'
    BY <2>2, <2>3, <2>6, <2>7 DEF LinkUnused
  <2>8. \A q \in Request : pc'[q] \in {"changePassword", "resetPassword"} => LinkUnused(arg[q].link)'
    BY <1>2, <1>3, <2>2, <2>7
  <2> QED
    BY <2>2, <2>5, <2>8 DEF LinksInv
<1>7. ASSUME NEW r \in Request, PeopleArrive(r) \/ LinkArrives(r) \/ StaffArrives(r) PROVE LinksInv'
  <2>1. OnlyAt(r) /\ pc'[r] # "idle" /\ link' = link
    BY <1>7, Arrival DEF db
  <2>2. \A k \in LinkId : LinkFits(k)'
    BY <1>2, <2>1 DEF LinkFits
  <2>3. pc'[r] \in {"changePassword", "resetPassword"} => LinkUnused(arg'[r].link)
    BY <1>2, <1>7, ArrivesWithLink DEF LinkFits, LinkUnused, Opens
  <2>4. \A q \in Request : pc'[q] \in {"changePassword", "resetPassword"} => link'[arg'[q].link] = NoRow \/ link'[arg'[q].link].sets = 0
    BY <1>4, <2>1, <2>3 DEF LinkUnused
  <2> QED
    BY <2>2, <2>4 DEF LinksInv, LinkUnused
<1>8. ASSUME NEW r \in Request, Proceed(r) \/ Fail(r) PROVE LinksInv'
  <2>1. OnlyAt(r) /\ pc[r] # "idle" /\ pc'[r] \in {"idle", "link", "mail", "roles", "rows", "removeStudentUser"}
    BY <1>8, ProceedsAt
  <2>2. \A q \in Request : pc'[q] \notin {"changePassword", "resetPassword"}
    BY <1>4, <2>1
  <2>3. CASE ChangePassword(r) \/ ResetPassword(r)
    <3>1. LinkUnused(arg[r].link)
      BY <1>2, <2>3 DEF ChangePassword, ResetPassword, At
    <3>2. \A k \in LinkId : LinkFits(k)'
      BY <1>2, <2>3, <3>1, UseLinks
    <3> QED
      BY <2>2, <3>2 DEF LinksInv
  <2>4. CASE ~(ChangePassword(r) \/ ResetPassword(r))
    <3>1. \A k \in LinkId : LinkFits(k)'
      BY <1>2, <1>8, <2>4, ProceedLinks, LinkWrittenFits
    <3> QED
      BY <2>2, <3>1 DEF LinksInv
  <2> QED
    BY <2>3, <2>4
<1> QED
  BY <1>5, <1>6, <1>7, <1>8 DEF Next

\* A request that was to set a password and whose link has gone can only fail.
LEMMA DeletedIsDead ==
    ASSUME Inv, [Next /\ UNCHANGED scope]_vars
    PROVE  DeletedLinkIsDead
<1> SUFFICES ASSUME NEW r \in Request, pc[r] \in {"changePassword", "resetPassword"}, pc'[r] = "idle",
                    link[arg[r].link] = NoRow
             PROVE  account' = account
  BY DEF DeletedLinkIsDead
<1>1. ~UNCHANGED vars /\ \A k \in LinkId : ~Expire(k)
  BY DEF vars, Expire
<1>2. \A q \in Request : PeopleArrive(q) \/ LinkArrives(q) \/ StaffArrives(q) => FALSE
  BY Arrival DEF OnlyAt, Inv
<1>3. PICK q \in Request : Proceed(q) \/ Fail(q)
  BY <1>1, <1>2 DEF Next
<1>4. q = r
  BY <1>3, ProceedsAt DEF OnlyAt, Inv
<1>5. ~Proceed(r)
  BY DEF Proceed, CreateLink, MailLost, MailSent, Clear, VerifyEmail, ChangePassword, ResetPassword, ChangePasswordMe,
         Register, CreateStudentUsers, CreateStudentRoles, CreateStudentRows, RemoveStudent, RemoveStudentUser,
         RemoveStudents, CreateTeachers, RemoveTeachers, CreateUser, UpdateUser, SetDeleted, CreateSecretary,
         UpdateSecretary, RemoveSecretary, At
<1> QED
  BY <1>3, <1>4, <1>5 DEF Fail, db

\* In every step: while requests come one by one a link sets one password at most, and
\* however they interleave a deleted link sets none.
THEOREM LinksOnce == Spec => LinksWorkOnce
<1>1. LinksInv' => LinkSetsOnce'
  BY DEF LinksInv, LinkSetsOnce, LinkFits, OneByOne
<1>2. Inv /\ LinksInv' /\ [Next /\ UNCHANGED scope]_vars => [LinkSetsOnce' /\ DeletedLinkIsDead]_vars
  BY <1>1, DeletedIsDead
<1> QED
  BY <1>2, InvInit, InvNext, LinksInvInit, LinksInvNext, PTL DEF Spec, LinksWorkOnce

-----------------------------------------------------------------------------
(* Teachers and their accounts *)

TeacherMatches(p) == teacher[p] # NoRow => (account[teacher[p].user].active <=> teacher[p].live)

TeachersInv ==
    "updateUser" \notin scope.ops =>
        /\ \A p \in Person : TeacherMatches(p)
        /\ \A q \in Request : pc[q] = "updateUser" => arg[q].data.active = Keep

LEMMA RowLive ==
    ASSUME NEW u
    PROVE  [user |-> u, live |-> TRUE].live = TRUE
BY Zenon

\* What a step leaves of the accounts of people that are no secretaries.
ActiveKept ==
    \A u \in Accounts \cap Accounts' : secretary[u] = NoRow => account'[u].active = account[u].active

LEMMA ProceedActive ==
    ASSUME Inv, NEW r \in Request, Proceed(r) \/ Fail(r), ~CreateTeachers(r), ~RemoveTeachers(r),
           pc[r] = "updateUser" => arg[r].data.active = Keep
    PROVE  teacher' = teacher /\ ActiveKept
<1>1. account' = account => ActiveKept
  BY DEF ActiveKept
<1>2. ASSUME NEW u \in AccountId, NEW a, account' = [account EXCEPT ![u] = a],
             u \in Accounts => secretary[u] # NoRow \/ a.active = account[u].active
      PROVE  ActiveKept
  <2>1. \A v \in AccountId : account'[v] = IF v = u THEN a ELSE account[v]
    BY <1>2 DEF Inv, Rows, TypeOK
  <2> QED
    BY <1>2, <2>1 DEF ActiveKept, Accounts
<1>3. CASE VerifyEmail(r) \/ ChangePassword(r) \/ ResetPassword(r) \/ ChangePasswordMe(r)
  BY <1>3, PasswordMarks DEF Marks, ActiveKept
<1>4. ASSUME NEW new, NEW roles, MadeFor(r, new, roles) PROVE ActiveKept
  BY <1>4 DEF MadeFor, Made, ActiveKept
<1>5. CASE CreateUser(r) \/ Register(r) \/ CreateStudentUsers(r)
  BY <1>4, <1>5, UserAdded, StudentRegistered, StudentUsersAdded
<1>6. CASE CreateStudentRoles(r)
  BY <1>6, StudentRolesAdded DEF ActiveKept
<1>7. CASE RemoveStudentUser(r) \/ RemoveStudents(r)
  BY <1>7, Dropped DEF RemoveStudentUser, RemoveStudents, ActiveKept
<1>8. CASE CreateLink(r) \/ MailLost(r) \/ (\E kind \in {"verify", "reset"} : MailSent(r, kind)) \/ Clear(r)
           \/ CreateStudentRows(r) \/ RemoveStudent(r) \/ Fail(r)
  <2>1. account' = account /\ teacher' = teacher
    BY <1>8 DEF CreateLink, MailLost, MailSent, Clear, CreateStudentRows, RemoveStudent, Fail, SetLinks, db
  <2> QED
    BY <1>1, <2>1
<1>9. CASE UpdateUser(r)
  <2>0. PICK u : u = User(r)
    OBVIOUS
  <2> DEFINE d == arg[r].data
             a == Changed(account[u], d)
  <2>1. u \in Accounts /\ teacher' = teacher /\ pc[r] = "updateUser" /\ account' = [account EXCEPT ![u] = a]
    BY <1>9, <2>0 DEF UpdateUser, SetAccounts, At
  <2>2. d \in Change /\ account[u] \in Account /\ u \in AccountId
    BY <2>1, AccountRead DEF Inv, Held, DataFits
  <2>3. a.active = account[u].active
    BY <2>1, <2>2, RowChangedRoles
  <2> HIDE DEF d, a
  <2> QED
    BY <1>2, <2>1, <2>2, <2>3
<1>10. CASE SetDeleted(r)
  <2>0. PICK u : u = User(r)
    OBVIOUS
  <2> DEFINE a == [account[u] EXCEPT !.deleted = arg[r].data]
  <2>1. u \in Accounts /\ teacher' = teacher /\ account' = [account EXCEPT ![u] = a]
    BY <1>10, <2>0 DEF SetDeleted, SetAccounts
  <2>2. account[u] \in Account /\ u \in AccountId
    BY <2>1, AccountRead
  <2>3. a.active = account[u].active
    BY <2>2 DEF Account
  <2> HIDE DEF a
  <2> QED
    BY <1>2, <2>1, <2>2, <2>3
<1>11. CASE CreateSecretary(r)
  <2>0. PICK u : u = Min(FreshAccounts)
    OBVIOUS
  <2>1. PICK a : account' = [account EXCEPT ![u] = a]
    BY <1>11, <2>0 DEF CreateSecretary
  <2>2. u \in AccountId /\ u \notin Accounts /\ teacher' = teacher
    BY <1>11, <2>0, FreshId, FreshIs DEF CreateSecretary
  <2> QED
    BY <1>2, <2>1, <2>2
<1>12. CASE UpdateSecretary(r) \/ RemoveSecretary(r)
  <2>0. PICK u : u = User(r)
    OBVIOUS
  <2>1. pc[r] \in {"updateSecretary", "removeSecretary"} /\ teacher' = teacher
    BY <1>12 DEF UpdateSecretary, RemoveSecretary, At
  <2>2. u \in AccountId /\ arg[r].users = {u}
    BY <2>0, <2>1, OneUser DEF OneUserSteps
  <2>3. secretary[u] # NoRow
    BY <2>1, <2>2 DEF Inv, Held, StaffHeld
  <2>4. account \in [AccountId -> Account \cup {NoRow}]
    BY DEF Inv, Rows, TypeOK
  <2>5. PICK a : account' = [account EXCEPT ![u] = a]
    BY <1>12, <2>0, <2>2, <2>4 DEF UpdateSecretary, RemoveSecretary
  <2> QED
    BY <1>2, <2>1, <2>2, <2>3, <2>5
<1>13. CreateUser(r) \/ Register(r) \/ CreateStudentUsers(r) \/ CreateStudentRoles(r) \/ RemoveStudentUser(r)
       \/ RemoveStudents(r) \/ VerifyEmail(r) \/ ChangePassword(r) \/ ResetPassword(r) \/ ChangePasswordMe(r)
       \/ CreateLink(r) \/ MailLost(r) \/ (\E kind \in {"verify", "reset"} : MailSent(r, kind)) \/ Clear(r)
       \/ CreateStudentRows(r) \/ RemoveStudent(r) \/ Fail(r) \/ UpdateUser(r) \/ SetDeleted(r)
       \/ CreateSecretary(r) \/ UpdateSecretary(r) \/ RemoveSecretary(r)
       => teacher' = teacher
  BY DEF CreateUser, Register, CreateStudentUsers, CreateStudentRoles, RemoveStudentUser, RemoveStudents, VerifyEmail,
         ChangePassword, ResetPassword, ChangePasswordMe, CreateLink, MailLost, MailSent, Clear, CreateStudentRows,
         RemoveStudent, Fail, UpdateUser, SetDeleted, CreateSecretary, UpdateSecretary, RemoveSecretary, SetAccounts,
         SetLinks, db
<1> QED
  BY <1>3, <1>5, <1>6, <1>7, <1>8, <1>9, <1>10, <1>11, <1>12, <1>13 DEF Proceed

\* The update of an account that arrives where administrators do not change accounts sets roles.
LEMMA ArrivesWithRoles ==
    ASSUME Inv, NEW r \in Request, PeopleArrive(r) \/ LinkArrives(r) \/ StaffArrives(r), pc'[r] = "updateUser"
    PROVE  "updateUser" \in scope.ops \/ ("assignRoles" \in scope.ops /\ arg'[r].data.active = Keep)
<1>1. \A op, step, people, users, k, data :
         Begin(r, op, step, people, users, k, data) => pc'[r] = step /\ arg'[r].data = data
  BY Begun
<1>0. \A op, step, people, users, k, data :
         step # "updateUser" => ~Begin(r, op, step, people, users, k, data)
  BY <1>1
<1>2. ~PeopleArrive(r)
  BY <1>0 DEF PeopleArrive, RegisterCheck, CreateStudentsBegin, ImportStudentsCheck, RemovalBegin,
         CreateTeachersCheck, RemoveTeachersCheck
<1>3. ~LinkArrives(r)
  BY <1>0 DEF LinkArrives, ResendCheck, ForgotCheck, ChangePasswordMeCheck, LinkCheck
<1>4. \A u : ~RemoveUserCheck(r, u)
  BY <1>0, Zenon DEF RemoveUserCheck
<1>5. \A u : ~RestoreUserCheck(r, u)
  BY <1>0, Zenon DEF RestoreUserCheck
<1>6. ASSUME NEW u, NEW f, NEW change, UpdateSecretaryCheck(r, u, f, change) PROVE FALSE
  <2> DEFINE data == <<f, [change EXCEPT !.roles = Keep]>>
  <2>1. Begin(r, "updateSecretary", "updateSecretary", {}, {u}, NoLink, data)
    BY <1>6 DEF UpdateSecretaryCheck
  <2> HIDE DEF data
  <2> QED
    BY <1>1, <2>1
<1>7. /\ \A p, roles : ~CreateUserCheck(r, p, roles)
      /\ \A p, f : ~CreateSecretaryCheck(r, p, f)
      /\ \A u : ~RemoveSecretaryCheck(r, u)
  BY <1>1 DEF CreateUserCheck, CreateSecretaryCheck, RemoveSecretaryCheck
<1>8. ASSUME NEW u, NEW roles, AssignRolesCheck(r, u, roles) PROVE arg'[r].data.active = Keep
  <2> DEFINE data == [active |-> Keep, mustChange |-> Keep, roles |-> roles]
  <2>1. Begin(r, "assignRoles", "updateUser", {}, {u}, NoLink, data)
    BY <1>8 DEF AssignRolesCheck
  <2>2. data.active = Keep
    OBVIOUS
  <2> HIDE DEF data
  <2> QED
    BY <1>1, <2>1, <2>2
<1> QED
  BY <1>2, <1>3, <1>4, <1>5, <1>6, <1>7, <1>8 DEF StaffArrives, Free

LEMMA TeachersInvInit == Init => TeachersInv
BY DEF Init, TeachersInv, TeacherMatches

LEMMA TeachersInvNext == Inv /\ Inv' /\ TeachersInv /\ [Next /\ UNCHANGED scope]_vars => TeachersInv'
<1> SUFFICES ASSUME Inv, Inv', TeachersInv, [Next /\ UNCHANGED scope]_vars, "updateUser" \notin scope.ops, scope' = scope
             PROVE  /\ \A p \in Person : TeacherMatches(p)'
                    /\ \A q \in Request : pc'[q] = "updateUser" => arg'[q].data.active = Keep
  BY DEF TeachersInv, vars
<1>1. /\ \A p \in Person : TeacherMatches(p)
      /\ \A q \in Request : pc[q] = "updateUser" => arg[q].data.active = Keep
  BY DEF TeachersInv
<1>2. \A p \in Person : teacher[p] # NoRow => teacher[p].user \in Accounts /\ secretary[teacher[p].user] = NoRow
  BY DEF Inv, Rows, TypeOK, OneSide
<1>3. \A p \in Person : teacher'[p] # NoRow => teacher'[p].user \in Accounts'
  BY DEF Inv, Rows, TypeOK
<1>4. ASSUME NEW r \in Request, OnlyAt(r), pc'[r] # "updateUser"
      PROVE  \A q \in Request : pc'[q] = "updateUser" => arg'[q].data.active = Keep
  BY <1>1, <1>4 DEF OnlyAt, Inv
<1>5. ASSUME teacher' = teacher, ActiveKept PROVE \A p \in Person : TeacherMatches(p)'
  BY <1>1, <1>2, <1>3, <1>5 DEF TeacherMatches, ActiveKept
<1>6. CASE UNCHANGED vars \/ \E k \in LinkId : Expire(k)
  <2>1. account' = account /\ teacher' = teacher /\ pc' = pc /\ arg' = arg
    BY <1>6 DEF vars, Expire, SetLinks
  <2> QED
    BY <1>1, <2>1 DEF TeacherMatches
<1>7. ASSUME NEW r \in Request, PeopleArrive(r) \/ LinkArrives(r) \/ StaffArrives(r)
      PROVE  /\ \A p \in Person : TeacherMatches(p)'
             /\ \A q \in Request : pc'[q] = "updateUser" => arg'[q].data.active = Keep
  <2>1. OnlyAt(r) /\ account' = account /\ teacher' = teacher
    BY <1>7, Arrival DEF db
  <2>2. pc'[r] = "updateUser" => arg'[r].data.active = Keep
    BY <1>7, ArrivesWithRoles
  <2>3. \A q \in Request : pc'[q] = "updateUser" => arg'[q].data.active = Keep
    BY <1>1, <2>1, <2>2 DEF OnlyAt, Inv
  <2> QED
    BY <1>1, <2>1, <2>3 DEF TeacherMatches
<1>8. ASSUME NEW r \in Request, Proceed(r) \/ Fail(r) PROVE \A p \in Person : TeacherMatches(p)'
  <2>1. CASE CreateTeachers(r)
    <3>1. PICK new : /\ MadeFor(r, new, {"TEACHER"})
                     /\ teacher' = [p \in Person |-> IF p \in arg[r].people THEN [user |-> new[p], live |-> TRUE]
                                                     ELSE teacher[p]]
      BY <2>1, TeachersAdded
    <3>2. \A u \in Accounts : account'[u] = account[u]
      BY <3>1 DEF MadeFor, Made
    <3>3. ASSUME NEW p \in arg[r].people PROVE account'[new[p]].active
      BY <3>1, RowNewHas DEF MadeFor
    <3>4. ASSUME NEW p \in arg[r].people, p \in Person PROVE TeacherMatches(p)'
      <4>1. teacher'[p] = [user |-> new[p], live |-> TRUE]
        BY <3>1, <3>4
      <4>2. teacher'[p].user = new[p]
        BY <4>1
      <4>3. teacher'[p].live = TRUE
        BY <4>1, RowLive
      <4> QED
        BY <3>3, <4>2, <4>3 DEF TeacherMatches
    <3>5. ASSUME NEW p \in Person, p \notin arg[r].people PROVE TeacherMatches(p)'
      BY <1>1, <1>2, <3>1, <3>2, <3>5 DEF TeacherMatches
    <3> QED
      BY <3>4, <3>5
  <2>2. CASE RemoveTeachers(r)
    <3>1. /\ pc[r] = "removeTeachers"
          /\ teacher' = [p \in Person |-> IF p \in arg[r].people THEN [teacher[p] EXCEPT !.live = FALSE] ELSE teacher[p]]
          /\ \A u \in Accounts \ arg[r].users : account'[u] = account[u]
          /\ \A u \in Accounts \cap arg[r].users : ~account'[u].active
      BY <2>2, TeachersRemoved
    <3>2. /\ \A p \in arg[r].people : teacher[p] # NoRow
          /\ arg[r].users = {teacher[p].user : p \in arg[r].people}
          /\ arg[r].people \subseteq Person
      BY <3>1 DEF Inv, Held, StaffHeld, IsArg
    <3>3. ASSUME NEW p \in Person, p \in arg[r].people PROVE TeacherMatches(p)'
      <4>1. teacher[p] \in Teacher /\ teacher'[p] = [teacher[p] EXCEPT !.live = FALSE]
        BY <3>1, <3>2, <3>3 DEF Inv, Rows, TypeOK
      <4>2. teacher'[p].user = teacher[p].user
        BY <4>1 DEF Teacher
      <4>3. teacher'[p].live = FALSE
        BY <4>1 DEF Teacher
      <4> QED
        BY <1>2, <3>1, <3>2, <3>3, <4>2, <4>3 DEF TeacherMatches
    <3>4. ASSUME NEW p \in Person, p \notin arg[r].people, teacher[p] # NoRow PROVE teacher[p].user \notin arg[r].users
      <4>1. \A x \in Person : teacher[x] # NoRow => account[teacher[x].user].who = x
        BY DEF Inv, Rows, TypeOK
      <4> QED
        BY <3>2, <3>4, <4>1
    <3>5. ASSUME NEW p \in Person, p \notin arg[r].people PROVE TeacherMatches(p)'
      BY <1>1, <1>2, <3>1, <3>4, <3>5 DEF TeacherMatches
    <3> QED
      BY <3>3, <3>5
  <2>3. CASE ~CreateTeachers(r) /\ ~RemoveTeachers(r)
    BY <1>1, <1>5, <1>8, <2>3, ProceedActive
  <2> QED
    BY <2>1, <2>2, <2>3
<1>9. ASSUME NEW r \in Request, Proceed(r) \/ Fail(r)
      PROVE  \A q \in Request : pc'[q] = "updateUser" => arg'[q].data.active = Keep
  BY <1>4, <1>9, ProceedsAt
<1> QED
  BY <1>6, <1>7, <1>8, <1>9 DEF Next

-----------------------------------------------------------------------------
(* Students and their accounts *)

\* Where StudentsMatchAccounts is to hold, and statements do not fail.
StudentsAlone ==
    /\ scope.legacy = {} \/ (OneByOne /\ "createStudents" \notin scope.ops)
    /\ scope.ops \cap {"updateUser", "assignRoles"} = {} /\ \A roles \in scope.roles : "STUDENT" \notin roles
    /\ ~scope.failing

\* An account that has the role and no student yet, or no more: a request is about to set that right.
Between(u) == \E q \in Request : u \in arg[q].users /\ pc[q] \in {"rows", "removeStudentUser"}

StudentHeldBy(q) ==
    /\ pc[q] = "rows" => \A u \in arg[q].users : "STUDENT" \in account[u].roles
    /\ pc[q] \in {"users", "roles", "rows"} /\ scope.legacy # {} => \A p \in arg[q].people : student[p] = NoRow
    /\ pc[q] \in {"removeStudent", "removeStudents"} =>
          \A p \in arg[q].people : arg[q].data[p] = NoUser => student[p] = NoUser
    /\ pc[q] = "createUser" => "STUDENT" \notin arg[q].data
    /\ pc[q] # "updateUser"

StudentsInv ==
    StudentsAlone =>
        /\ \A u \in Accounts : "STUDENT" \in account[u].roles => student[account[u].who] = u \/ Between(u)
        /\ \A p \in Person : student[p] \notin {NoRow, NoUser} => "STUDENT" \in account[student[p]].roles
        /\ scope.legacy = {} => \A p \in Person : student[p] # NoUser
        /\ \A q \in Request : StudentHeldBy(q)

\* What a step leaves of the role of students.
RoleLeft(u) ==
    \/ u \in Accounts /\ account'[u].who = account[u].who /\ ("STUDENT" \in account'[u].roles <=> "STUDENT" \in account[u].roles)
    \/ u \notin Accounts /\ "STUDENT" \notin account'[u].roles

RolesLeft == \A u \in Accounts' : RoleLeft(u)

LEMMA ProceedRoles ==
    ASSUME Inv, StaffInv, NEW r \in Request, Proceed(r) \/ Fail(r), ~UpdateUser(r), ~Register(r), ~CreateStudentRoles(r),
           pc[r] = "createUser" => "STUDENT" \notin arg[r].data
    PROVE  RolesLeft
<1>1. account' = account => RolesLeft
  BY DEF RolesLeft, RoleLeft, Accounts
<1>2. ASSUME NEW u \in Accounts, NEW a, account' = [account EXCEPT ![u] = a], a.who = account[u].who, a.roles = account[u].roles
      PROVE  RolesLeft
  <2>1. \A v \in AccountId : account'[v] = IF v = u THEN a ELSE account[v]
    BY <1>2 DEF Inv, Rows, TypeOK
  <2>2. \A v \in Accounts' : v \in Accounts /\ account'[v].who = account[v].who /\ account'[v].roles = account[v].roles
    BY <1>2, <2>1 DEF Accounts
  <2> QED
    BY <2>2 DEF RolesLeft, RoleLeft
<1>3. CASE VerifyEmail(r) \/ ChangePassword(r) \/ ResetPassword(r) \/ ChangePasswordMe(r)
  BY <1>3, PasswordMarks DEF Marks, RolesLeft, RoleLeft
<1>4. ASSUME NEW new, NEW roles, "STUDENT" \notin roles, MadeFor(r, new, roles) PROVE RolesLeft
  <2>1. Accounts' = Accounts \cup {new[p] : p \in arg[r].people} /\ \A u \in Accounts : account'[u] = account[u]
    BY <1>4 DEF MadeFor, Made
  <2>2. ASSUME NEW p \in arg[r].people PROVE RoleLeft(new[p])
    <3>1. new[p] \notin Accounts /\ account'[new[p]].roles = roles
      BY <1>4, RowNewHas, FreshIs DEF MadeFor
    <3> QED
      BY <1>4, <3>1 DEF RoleLeft
  <2> QED
    BY <2>1, <2>2 DEF RolesLeft, RoleLeft
<1>5. CASE CreateUser(r)
  <2>1. "STUDENT" \notin arg[r].data
    BY <1>5 DEF CreateUser, At
  <2> QED
    BY <1>4, <1>5, <2>1, UserAdded
<1>6. CASE CreateStudentUsers(r)
  BY <1>4, <1>6, StudentUsersAdded
<1>7. CASE CreateTeachers(r)
  BY <1>4, <1>7, TeachersAdded
<1>8. CASE RemoveStudentUser(r) \/ RemoveStudents(r)
  BY <1>8, Dropped DEF RemoveStudentUser, RemoveStudents, RolesLeft, RoleLeft
<1>9. CASE RemoveTeachers(r)
  BY <1>9, TeachersRemoved DEF RolesLeft, RoleLeft
<1>10. CASE CreateLink(r) \/ MailLost(r) \/ (\E kind \in {"verify", "reset"} : MailSent(r, kind)) \/ Clear(r)
            \/ CreateStudentRows(r) \/ RemoveStudent(r) \/ Fail(r)
  <2>1. account' = account
    BY <1>10 DEF CreateLink, MailLost, MailSent, Clear, CreateStudentRows, RemoveStudent, Fail, SetLinks, db
  <2> QED
    BY <1>1, <2>1
<1>11. CASE SetDeleted(r)
  <2>0. PICK u : u = User(r)
    OBVIOUS
  <2> DEFINE a == [account[u] EXCEPT !.deleted = arg[r].data]
  <2>1. u \in Accounts /\ account' = [account EXCEPT ![u] = a]
    BY <1>11, <2>0 DEF SetDeleted, SetAccounts
  <2>2. a.who = account[u].who /\ a.roles = account[u].roles
    BY <2>1, AccountRead DEF Account
  <2> HIDE DEF a
  <2> QED
    BY <1>2, <2>1, <2>2
<1>12. CASE CreateSecretary(r)
  <2>0. PICK u : u = Min(FreshAccounts)
    OBVIOUS
  <2> DEFINE n == NewAccount(CHOOSE p \in arg[r].people : TRUE, {"SECRETARY"})
             a == [n EXCEPT !.verified = TRUE, !.mustChange = FALSE]
  <2>1. account' = [account EXCEPT ![u] = a] /\ pc[r] = "createSecretary" /\ FreshAccounts # {}
    BY <1>12, <2>0 DEF CreateSecretary, At
  <2>2. u \in AccountId /\ u \notin Accounts
    BY <2>0, <2>1, FreshId, FreshIs
  <2>3. PICK p \in Person : arg[r].people = {p}
    BY <2>1 DEF Inv, Held, OneEach, OnePersonSteps
  <2>4. n = NewAccount(p, {"SECRETARY"}) /\ {"SECRETARY"} \in SUBSET Role
    BY <2>3 DEF Role
  <2>5. NewAccount(p, {"SECRETARY"}).roles = {"SECRETARY"}
    BY RowNewHas
  <2>6. n \in Account /\ n.roles = {"SECRETARY"}
    BY <2>4, <2>5, RowNew
  <2> HIDE DEF n
  <2>7. a.roles = {"SECRETARY"}
    BY <2>6 DEF Account
  <2> HIDE DEF a
  <2>8. \A v \in AccountId : account'[v] = IF v = u THEN a ELSE account[v]
    BY <2>1 DEF Inv, Rows, TypeOK
  <2>9. \A v \in Accounts' : v \in AccountId /\ account'[v] # NoRow
    BY DEF Accounts
  <2> QED
    BY <2>2, <2>7, <2>8, <2>9 DEF RolesLeft, RoleLeft, Accounts
<1>13. CASE UpdateSecretary(r)
  <2>0. PICK u : u = User(r)
    OBVIOUS
  <2> DEFINE d == arg[r].data[2]
             a == Changed(account[u], d)
  <2>1. pc[r] = "updateSecretary" /\ account' = [account EXCEPT ![u] = a]
    BY <1>13, <2>0 DEF UpdateSecretary, At
  <2>2. u \in AccountId /\ arg[r].users = {u}
    BY <2>0, <2>1, OneUser DEF OneUserSteps
  <2>3. u \in Accounts
    BY <2>1, <2>2 DEF Inv, Held, StaffHeld, Rows, TypeOK
  <2>4. d \in Change /\ d.roles = Keep
    BY <2>1 DEF Inv, Held, DataFits, StaffInv, StaffHeldBy
  <2>5. a.roles = account[u].roles /\ a.who = account[u].who
    BY <2>3, <2>4, AccountRead, RowChanged, RowChangedRoles
  <2> HIDE DEF d, a
  <2> QED
    BY <1>2, <2>1, <2>3, <2>5
<1>14. CASE RemoveSecretary(r)
  <2>0. PICK u : u = User(r)
    OBVIOUS
  <2> DEFINE n == [account[u] EXCEPT !.deleted = TRUE]
             a == [n EXCEPT !.active = FALSE]
  <2>1. pc[r] = "removeSecretary"
    BY <1>14 DEF RemoveSecretary, At
  <2>2. u \in AccountId /\ arg[r].users = {u}
    BY <2>0, <2>1, OneUser DEF OneUserSteps
  <2>3. u \in Accounts
    BY <2>1, <2>2 DEF Inv, Held, StaffHeld, Rows, TypeOK
  <2>4. account' = [account EXCEPT ![u] = a]
    BY <1>14, <2>0, <2>2 DEF RemoveSecretary, Inv, Rows, TypeOK
  <2>5. n \in Account /\ n.roles = account[u].roles /\ n.who = account[u].who
    BY <2>3, AccountRead DEF Account
  <2> HIDE DEF n
  <2>6. a.roles = account[u].roles /\ a.who = account[u].who
    BY <2>5 DEF Account
  <2> HIDE DEF a
  <2> QED
    BY <1>2, <2>3, <2>4, <2>6
<1> QED
  BY <1>3, <1>5, <1>6, <1>7, <1>8, <1>9, <1>10, <1>11, <1>12, <1>13, <1>14 DEF Proceed

\* Another request: what it knows of students stays so.
LEMMA StudentOthers ==
    ASSUME Inv, Inv', StudentsInv, StudentsAlone, scope' = scope, NEW r \in Request, NEW q \in Request \ {r}, OnlyAt(r),
           pc[r] # "idle" \/ pc'[r] # "idle",
           \A u \in Accounts \cap Accounts' : "STUDENT" \in account[u].roles => "STUDENT" \in account'[u].roles
    PROVE  StudentHeldBy(q)'
<1>1. pc'[q] = pc[q] /\ arg'[q] = arg[q]
  BY DEF OnlyAt, Inv
<1>2. StudentHeldBy(q) /\ (scope.legacy = {} => \A p \in Person : student[p] # NoUser)
  BY DEF StudentsInv
<1>3. arg[q].people \subseteq Person
  BY DEF Inv, Held, IsArg
<1>4. pc[q] = "rows" => arg[q].users \subseteq Accounts /\ arg[q].users \subseteq Accounts'
  BY <1>1 DEF Inv, Held, AccountsMade, Making
<1>5. scope.legacy # {} => pc[q] = "idle"
  BY <1>1, Alone DEF StudentsAlone
<1>6. scope'.legacy = scope.legacy
  OBVIOUS
<1>7. CASE scope.legacy = {}
  BY <1>1, <1>2, <1>3, <1>4, <1>6, <1>7 DEF StudentHeldBy
<1>8. CASE scope.legacy # {}
  BY <1>1, <1>5, <1>8 DEF StudentHeldBy
<1> QED
  BY <1>7, <1>8

\* A step that leaves students and their role alone.
LEMMA StudentsLeft ==
    ASSUME Inv, Inv', StudentsInv, StudentsAlone, scope' = scope, NEW r \in Request, OnlyAt(r),
           pc[r] # "idle" \/ pc'[r] # "idle", student' = student, RolesLeft, StudentHeldBy(r)',
           pc[r] \in {"rows", "removeStudentUser"} => arg[r].users \cap Accounts' = {}
    PROVE  StudentsInv'
<1>1. /\ \A u \in Accounts : "STUDENT" \in account[u].roles => student[account[u].who] = u \/ Between(u)
      /\ \A p \in Person : student[p] \notin {NoRow, NoUser} => "STUDENT" \in account[student[p]].roles
      /\ scope.legacy = {} => \A p \in Person : student[p] # NoUser
  BY DEF StudentsInv
<1>2. \A q \in Request \ {r} : pc'[q] = pc[q] /\ arg'[q] = arg[q]
  BY DEF OnlyAt, Inv
<1>3. \A q \in Request : StudentHeldBy(q)'
  BY StudentOthers DEF RolesLeft, RoleLeft
<1>4. \A u \in Accounts' : Between(u) => Between(u)'
  BY <1>2 DEF Between
<1>5. \A u \in Accounts' : "STUDENT" \in account'[u].roles => student'[account'[u].who] = u \/ Between(u)'
  BY <1>1, <1>4 DEF RolesLeft, RoleLeft
<1>6. \A p \in Person : student[p] \notin {NoRow, NoUser} => student[p] \in Accounts /\ student'[p] \in Accounts'
  BY DEF Inv, Rows, TypeOK
<1>7. \A p \in Person : student'[p] \notin {NoRow, NoUser} => "STUDENT" \in account'[student'[p]].roles
  BY <1>1, <1>6 DEF RolesLeft, RoleLeft
<1> QED
  BY <1>1, <1>3, <1>5, <1>7 DEF StudentsInv

\* At a step it does not begin with, a request knows nothing of students.
LEMMA StudentHeldIdle ==
    ASSUME NEW r \in Request,
           pc'[r] \notin {"users", "roles", "rows", "removeStudent", "removeStudents", "createUser", "updateUser"}
    PROVE  StudentHeldBy(r)'
BY DEF StudentHeldBy

\* The row of a person has the person's account or none.
LEMMA OwnRow ==
    ASSUME Inv, NEW p \in Person, NEW u \in Accounts, account[u].who = p, student[p] # NoRow, student[p] # NoUser
    PROVE  student[p] = u
BY DEF Inv, Rows, TypeOK

\* A handler that is about to insert students finds none of them.
LEMMA NoneYet ==
    ASSUME Inv, StudentsInv, StudentsAlone, NEW r \in Request, pc[r] \in {"roles", "rows"}
    PROVE  \A p \in arg[r].people : student[p] = NoRow
<1> SUFFICES ASSUME NEW p \in arg[r].people PROVE student[p] = NoRow
  OBVIOUS
<1>1. p \in Person
  BY DEF Inv, Held, IsArg
<1>2. CASE scope.legacy # {}
  BY <1>2 DEF StudentsInv, StudentHeldBy
<1>3. CASE scope.legacy = {}
  <2>1. student[p] # NoUser
    BY <1>1, <1>3 DEF StudentsInv
  <2>2. PICK u \in arg[r].users : u \in Accounts /\ account[u].who = p
    BY DEF Inv, Held, AccountsMade, Making
  <2>3. student[p] # u
    BY <1>1, <2>2 DEF Inv, Held, AccountsMade, Making
  <2> QED
    BY <1>1, <2>1, <2>2, <2>3, OwnRow
<1> QED
  BY <1>2, <1>3

\* Requests that arrive.
LEMMA ArrivesForStudents ==
    ASSUME Inv, StudentsAlone, NEW r \in Request, scope' = scope, PeopleArrive(r) \/ LinkArrives(r) \/ StaffArrives(r)
    PROVE  StudentHeldBy(r)'
<1>1. \A op, step, people, users, k, data :
         Begin(r, op, step, people, users, k, data) =>
            /\ pc'[r] = step /\ arg'[r].people = people /\ arg'[r].data = data /\ student' = student
            /\ step \notin {"users", "roles", "rows", "removeStudent", "removeStudents", "createUser", "updateUser"}
               => StudentHeldBy(r)'
  BY Begun, StudentHeldIdle
<1>2. pc'[r] # "updateUser"
  BY ArrivesWithRoles DEF StudentsAlone
<1>3. ASSUME NEW people \in scope.batches, CreateStudentsBegin(r, people),
             scope.legacy # {} => \A p \in people : student[p] = NoRow
      PROVE  StudentHeldBy(r)'
  <2>1. Begin(r, "createStudents", "users", people, {}, NoLink, Keep)
    BY <1>3 DEF CreateStudentsBegin
  <2>2. pc'[r] = "users" /\ arg'[r].people = people /\ student' = student
    BY <1>1, <2>1
  <2> QED
    BY <1>3, <2>2 DEF StudentHeldBy
<1>4. ASSUME NEW people \in SUBSET Person, NEW op \in {"removeStudent", "removeStudents"}, RemovalBegin(r, op, people)
      PROVE  StudentHeldBy(r)'
  <2> DEFINE users == {student[p] : p \in people} \ {NoUser}
             data == Restrict(student, people)
  <2>1. Begin(r, op, op, people, users, NoLink, data)
    BY <1>4 DEF RemovalBegin
  <2>2. \A p \in people : data[p] = student[p]
    BY DEF Restrict
  <2> HIDE DEF users, data
  <2>3. pc'[r] = op /\ arg'[r].people = people /\ arg'[r].data = data /\ student' = student
    BY <1>1, <2>1
  <2> QED
    BY <2>2, <2>3 DEF StudentHeldBy
<1>5. People \subseteq Person /\ scope.batches \subseteq SUBSET Person
  BY ScopeFits
<1>6. CASE PeopleArrive(r)
  <2>1. ASSUME NEW p, RegisterCheck(r, p) PROVE StudentHeldBy(r)'
    <3> DEFINE data == student[p] # NoRow
    <3>1. Begin(r, "register", "register", {p}, {}, NoLink, data)
      BY <2>1 DEF RegisterCheck
    <3> HIDE DEF data
    <3> QED
      BY <1>1, <3>1
  <2>2. ASSUME Free(r, "createStudents") PROVE scope.legacy = {}
    BY <2>2 DEF Free, StudentsAlone
  <2>3. \A people : ImportStudentsCheck(r, people) => CreateStudentsBegin(r, people) /\ \A p \in people : student[p] = NoRow
    BY DEF ImportStudentsCheck
  <2>4. ASSUME NEW people, CreateTeachersCheck(r, people) PROVE StudentHeldBy(r)'
    BY <1>1, <2>4 DEF CreateTeachersCheck
  <2>5. ASSUME NEW people, RemoveTeachersCheck(r, people) PROVE StudentHeldBy(r)'
    BY <1>1, <2>5 DEF RemoveTeachersCheck
  <2>6. \A p \in People : {p} \in SUBSET Person
    BY <1>5
  <2>7. \A people \in scope.batches : people \in SUBSET Person
    BY <1>5
  <2>8. ASSUME NEW p \in People, RemovalBegin(r, "removeStudent", {p}) PROVE StudentHeldBy(r)'
    BY <1>4, <2>6, <2>8
  <2>9. ASSUME NEW people \in scope.batches, RemovalBegin(r, "removeStudents", people) PROVE StudentHeldBy(r)'
    BY <1>4, <2>7, <2>9
  <2>10. ASSUME NEW people \in scope.batches, Free(r, "createStudents"), CreateStudentsBegin(r, people) PROVE StudentHeldBy(r)'
    BY <1>3, <2>2, <2>10
  <2>11. ASSUME NEW people \in scope.batches, ImportStudentsCheck(r, people) PROVE StudentHeldBy(r)'
    BY <1>3, <2>3, <2>11
  <2> QED
    BY <1>6, <2>1, <2>4, <2>5, <2>8, <2>9, <2>10, <2>11 DEF PeopleArrive
<1>7. CASE LinkArrives(r)
  <2>1. ASSUME NEW u, ResendCheck(r, u) \/ ForgotCheck(r, u) \/ ChangePasswordMeCheck(r, u) PROVE StudentHeldBy(r)'
    BY <1>1, <2>1 DEF ResendCheck, ForgotCheck, ChangePasswordMeCheck
  <2>2. ASSUME NEW op \in {"verifyEmail", "changePassword", "resetPassword"}, NEW k, LinkCheck(r, op, k)
        PROVE  StudentHeldBy(r)'
    <3>1. Begin(r, op, op, {}, {link[k].user}, k, Keep)
      BY <2>2 DEF LinkCheck
    <3>2. op \notin {"users", "roles", "rows", "removeStudent", "removeStudents", "createUser", "updateUser"}
      OBVIOUS
    <3> QED
      BY <1>1, <3>1, <3>2
  <2> QED
    BY <1>7, <2>1, <2>2 DEF LinkArrives
<1>8. CASE StaffArrives(r)
  <2>1. ASSUME NEW p, NEW roles \in scope.roles, CreateUserCheck(r, p, roles) PROVE StudentHeldBy(r)'
    <3>1. Begin(r, "createUser", "createUser", {p}, {}, NoLink, roles)
      BY <2>1 DEF CreateUserCheck
    <3>2. pc'[r] = "createUser" /\ arg'[r].data = roles
      BY <1>1, <3>1
    <3>3. "STUDENT" \notin roles
      BY <2>1 DEF StudentsAlone
    <3> QED
      BY <3>2, <3>3 DEF StudentHeldBy
  <2>2. ASSUME NEW p, NEW f, CreateSecretaryCheck(r, p, f) PROVE StudentHeldBy(r)'
    BY <1>1, <2>2 DEF CreateSecretaryCheck
  <2>3. ASSUME NEW u, RemoveUserCheck(r, u) \/ RestoreUserCheck(r, u) PROVE StudentHeldBy(r)'
    <3>1. PICK op, b : Begin(r, op, "deleted", {}, {u}, NoLink, b)
      BY <2>3, Zenon DEF RemoveUserCheck, RestoreUserCheck
    <3> QED
      BY <1>1, <3>1
  <2>4. ASSUME NEW u, NEW f, NEW change, UpdateSecretaryCheck(r, u, f, change) PROVE StudentHeldBy(r)'
    <3> DEFINE data == <<f, [change EXCEPT !.roles = Keep]>>
    <3>1. Begin(r, "updateSecretary", "updateSecretary", {}, {u}, NoLink, data)
      BY <2>4 DEF UpdateSecretaryCheck
    <3> HIDE DEF data
    <3> QED
      BY <1>1, <3>1
  <2>5. ASSUME NEW u, RemoveSecretaryCheck(r, u) PROVE StudentHeldBy(r)'
    BY <1>1, <2>5 DEF RemoveSecretaryCheck
  <2>6. ~Free(r, "updateUser") /\ ~Free(r, "assignRoles")
    BY DEF Free, StudentsAlone
  <2> QED
    BY <1>8, <2>1, <2>2, <2>3, <2>4, <2>5, <2>6 DEF StaffArrives
<1> QED
  BY <1>6, <1>7, <1>8

LEMMA RegisterMatches ==
    ASSUME Inv, Inv', StudentsInv, StudentsAlone, scope' = scope, NEW r \in Request, Register(r)
    PROVE  StudentsInv'
<1>1. PICK new : /\ MadeFor(r, new, {"STUDENT"})
                 /\ student' = [p \in Person |-> IF p \in arg[r].people THEN new[p] ELSE student[p]]
  BY StudentRegistered
<1>2. pc[r] = "register" /\ pc'[r] = "mail" /\ OnlyAt(r) /\ Unknown(arg[r].people) /\ arg[r].people \subseteq Person
  BY StudentRegistered, ProceedsAt DEF Register, RegisterFits, At, Inv, Held, IsArg, Proceed
<1>3. /\ Accounts' = Accounts \cup {new[p] : p \in arg[r].people}
      /\ \A u \in Accounts : account'[u] = account[u]
      /\ \A p \in arg[r].people : new[p] \in AccountId /\ new[p] \notin Accounts
      /\ \A p \in arg[r].people : "STUDENT" \in account'[new[p]].roles /\ account'[new[p]].who = p
  BY <1>1, RowNewHas, FreshIs DEF MadeFor, Made
<1>4. /\ \A u \in Accounts : "STUDENT" \in account[u].roles => student[account[u].who] = u \/ Between(u)
      /\ \A p \in Person : student[p] \notin {NoRow, NoUser} => "STUDENT" \in account[student[p]].roles
      /\ scope.legacy = {} => \A p \in Person : student[p] # NoUser
  BY DEF StudentsInv
<1>5. \A u \in Accounts : account[u].who \notin arg[r].people /\ account[u].who \in Person
  BY <1>2, AccountRead DEF Unknown, AccountsOf, Account
<1>6. \A q \in Request : StudentHeldBy(q)'
  BY <1>2, <1>3, StudentOthers, StudentHeldIdle
<1>7. \A u \in Accounts : Between(u) => Between(u)'
  BY <1>2 DEF Between, OnlyAt, Inv
<1>8. \A u \in Accounts' : "STUDENT" \in account'[u].roles => student'[account'[u].who] = u \/ Between(u)'
  <2>1. \A u \in Accounts : "STUDENT" \in account'[u].roles => student'[account'[u].who] = u \/ Between(u)'
    BY <1>1, <1>3, <1>4, <1>5, <1>7
  <2>2. \A p \in arg[r].people : student'[account'[new[p]].who] = new[p]
    BY <1>1, <1>2, <1>3
  <2> QED
    BY <1>3, <2>1, <2>2
<1>9. \A p \in Person : student[p] \notin {NoRow, NoUser} => student[p] \in Accounts
  BY DEF Inv, Rows, TypeOK
<1>10. \A p \in Person : student'[p] \notin {NoRow, NoUser} => "STUDENT" \in account'[student'[p]].roles
  BY <1>1, <1>3, <1>4, <1>9
<1>11. scope.legacy = {} => \A p \in Person : student'[p] # NoUser
  BY <1>1, <1>3, <1>4, MarkersAssumption
<1> QED
  BY <1>6, <1>8, <1>10, <1>11 DEF StudentsInv

LEMMA StudentRolesMatch ==
    ASSUME Inv, Inv', StudentsInv, StudentsAlone, scope' = scope, NEW r \in Request, CreateStudentRoles(r)
    PROVE  StudentsInv'
<1>1. /\ pc[r] = "roles" /\ pc'[r] = "rows" /\ arg' = arg /\ Accounts' = Accounts /\ student' = student
      /\ \A u \in Accounts \ arg[r].users : account'[u] = account[u]
      /\ \A u \in arg[r].users : /\ u \in Accounts /\ account'[u].who = account[u].who
                                 /\ account'[u].roles = account[u].roles \cup {"STUDENT"}
  BY StudentRolesAdded
<1>2. OnlyAt(r)
  BY ProceedsAt DEF Proceed
<1>3. /\ \A u \in Accounts : "STUDENT" \in account[u].roles => student[account[u].who] = u \/ Between(u)
      /\ \A p \in Person : student[p] \notin {NoRow, NoUser} => "STUDENT" \in account[student[p]].roles
      /\ scope.legacy = {} => \A p \in Person : student[p] # NoUser
  BY DEF StudentsInv
<1>4. StudentHeldBy(r)'
  BY <1>1, NoneYet DEF StudentHeldBy
<1>5. \A q \in Request : StudentHeldBy(q)'
  BY <1>1, <1>2, <1>4, StudentOthers
<1>6. \A u \in Accounts : Between(u) => Between(u)'
  BY <1>1, <1>2 DEF Between, OnlyAt, Inv
<1>7. \A u \in arg[r].users : Between(u)'
  BY <1>1 DEF Between
<1>8. \A u \in Accounts' : "STUDENT" \in account'[u].roles => student'[account'[u].who] = u \/ Between(u)'
  BY <1>1, <1>3, <1>6, <1>7
<1>9. \A p \in Person : student[p] \notin {NoRow, NoUser} => student[p] \in Accounts
  BY DEF Inv, Rows, TypeOK
<1>10. \A p \in Person : student'[p] \notin {NoRow, NoUser} => "STUDENT" \in account'[student'[p]].roles
  BY <1>1, <1>3, <1>9
<1> QED
  BY <1>1, <1>3, <1>5, <1>8, <1>10 DEF StudentsInv

LEMMA StudentRowsMatch ==
    ASSUME Inv, Inv', StudentsInv, StudentsAlone, scope' = scope, NEW r \in Request, CreateStudentRows(r)
    PROVE  StudentsInv'
<1> DEFINE owner(p) == CHOOSE u \in arg[r].users : account[u].who = p
<1>1. /\ pc[r] = "rows" /\ arg' = arg /\ account' = account
      /\ student' = [p \in Person |-> IF p \in arg[r].people THEN owner(p) ELSE student[p]]
  BY DEF CreateStudentRows, At
<1>2. OnlyAt(r) /\ pc'[r] = "link"
  BY ProceedsAt DEF Proceed, CreateStudentRows, Go, Inv
<1>3. /\ \A u \in Accounts : "STUDENT" \in account[u].roles => student[account[u].who] = u \/ Between(u)
      /\ \A p \in Person : student[p] \notin {NoRow, NoUser} => "STUDENT" \in account[student[p]].roles
      /\ scope.legacy = {} => \A p \in Person : student[p] # NoUser
      /\ StudentHeldBy(r)
  BY DEF StudentsInv
<1>4. \A p \in arg[r].people : owner(p) \in arg[r].users /\ account[owner(p)].who = p
  BY <1>1 DEF Inv, Held, AccountsMade, Making
<1> HIDE DEF owner
<1>5. /\ \A u \in arg[r].users : u \in Accounts /\ account[u].who \in arg[r].people /\ "STUDENT" \in account[u].roles
      /\ \A u, v \in Accounts : account[u].who = account[v].who => u = v
      /\ arg[r].people \subseteq Person /\ \A u \in Accounts : u \in AccountId /\ account[u].who \in Person
  BY <1>1, <1>3, AccountRead DEF Inv, Held, IsArg, AccountsMade, Making, StudentHeldBy, Rows, TypeOK, Account
<1>6. Accounts' = Accounts
  BY <1>1 DEF Accounts
<1>7. \A q \in Request : StudentHeldBy(q)'
  BY <1>1, <1>2, StudentOthers, StudentHeldIdle
<1>8. \A u \in Accounts : Between(u) => Between(u)' \/ u \in arg[r].users
  BY <1>1, <1>2 DEF Between, OnlyAt, Inv
<1>9. ASSUME NEW u \in Accounts, account[u].who \in arg[r].people PROVE student'[account[u].who] = u
  BY <1>1, <1>4, <1>5, <1>9
<1>10. \A u \in Accounts : "STUDENT" \in account[u].roles => student'[account[u].who] = u \/ Between(u)'
  BY <1>1, <1>3, <1>5, <1>8, <1>9
<1>11. \A p \in Person : student'[p] \notin {NoRow, NoUser} => "STUDENT" \in account[student'[p]].roles
  BY <1>1, <1>3, <1>4, <1>5
<1>12. scope.legacy = {} => \A p \in Person : student'[p] # NoUser
  BY <1>1, <1>3, <1>4, <1>5, MarkersAssumption
<1> QED
  BY <1>1, <1>6, <1>7, <1>10, <1>11, <1>12 DEF StudentsInv

LEMMA RemoveStudentMatches ==
    ASSUME Inv, Inv', StudentsInv, StudentsAlone, scope' = scope, NEW r \in Request, RemoveStudent(r)
    PROVE  StudentsInv'
<1>1. /\ pc[r] = "removeStudent" /\ account' = account
      /\ \A p \in arg[r].people : Same(r, p)
      /\ student' = [p \in Person |-> IF p \in arg[r].people THEN NoRow ELSE student[p]]
      /\ arg[r].users # {} => pc'[r] = "removeStudentUser" /\ arg' = arg
  BY DEF RemoveStudent, At, DropStudents, Go, Inv
<1>2. OnlyAt(r) /\ pc'[r] \in {"idle", "link", "mail", "roles", "rows", "removeStudentUser"}
  BY ProceedsAt DEF Proceed
<1>3. pc'[r] \in {"idle", "removeStudentUser"} /\ Accounts' = Accounts
  BY <1>1 DEF RemoveStudent, Finish, Go, Inv, Accounts
<1>4. /\ \A u \in Accounts : "STUDENT" \in account[u].roles => student[account[u].who] = u \/ Between(u)
      /\ \A p \in Person : student[p] \notin {NoRow, NoUser} => "STUDENT" \in account[student[p]].roles
      /\ scope.legacy = {} => \A p \in Person : student[p] # NoUser
      /\ StudentHeldBy(r)
  BY DEF StudentsInv
<1>5. \A q \in Request : StudentHeldBy(q)'
  BY <1>1, <1>2, <1>3, StudentOthers, StudentHeldIdle
<1>6. \A u \in Accounts : Between(u) => Between(u)'
  BY <1>1, <1>2 DEF Between, OnlyAt, Inv
<1>7. ASSUME NEW u \in Accounts, account[u].who \in arg[r].people, student[account[u].who] = u PROVE Between(u)'
  <2>1. arg[r].data[account[u].who] = u
    BY <1>1, <1>4, <1>7, MarkersAssumption DEF StudentHeldBy, Same, Accounts
  <2>2. u \in arg[r].users
    BY <1>1, <1>7, <2>1, MarkersAssumption DEF Inv, Held, RemovalHolds, Removing, Accounts
  <2> QED
    BY <1>1, <2>2 DEF Between
<1>8. \A u \in Accounts : account[u].who \in Person
  BY AccountRead DEF Account
<1>9. \A u \in Accounts : "STUDENT" \in account[u].roles => student'[account[u].who] = u \/ Between(u)'
  BY <1>1, <1>4, <1>6, <1>7, <1>8
<1>10. \A p \in Person : student'[p] \notin {NoRow, NoUser} => "STUDENT" \in account[student'[p]].roles
  BY <1>1, <1>4
<1>11. scope.legacy = {} => \A p \in Person : student'[p] # NoUser
  BY <1>1, <1>4, MarkersAssumption
<1> QED
  BY <1>1, <1>3, <1>5, <1>9, <1>10, <1>11 DEF StudentsInv

LEMMA RemoveStudentsMatch ==
    ASSUME Inv, Inv', StudentsInv, StudentsAlone, scope' = scope, NEW r \in Request, RemoveStudents(r)
    PROVE  StudentsInv'
<1>1. /\ pc[r] = "removeStudents" /\ Accounts' = Accounts \ arg[r].users /\ \A u \in Accounts' : account'[u] = account[u]
      /\ student' = [p \in Person |-> IF p \in {x \in arg[r].people : Same(r, x)} THEN NoRow ELSE student[p]]
  BY Dropped DEF RemoveStudents, At, DropStudents
<1>2. OnlyAt(r) /\ pc'[r] = "idle"
  BY ProceedsAt DEF Proceed, RemoveStudents, Finish, Inv
<1>3. /\ \A u \in Accounts : "STUDENT" \in account[u].roles => student[account[u].who] = u \/ Between(u)
      /\ \A p \in Person : student[p] \notin {NoRow, NoUser} => "STUDENT" \in account[student[p]].roles
      /\ scope.legacy = {} => \A p \in Person : student[p] # NoUser
      /\ StudentHeldBy(r)
  BY DEF StudentsInv
<1>4. \A q \in Request : StudentHeldBy(q)'
  BY <1>1, <1>2, StudentOthers, StudentHeldIdle
<1>5. \A u \in Accounts : Between(u) => Between(u)'
  BY <1>1, <1>2 DEF Between, OnlyAt, Inv
<1>6. ASSUME NEW u \in Accounts', student[account[u].who] = u PROVE student'[account[u].who] = u
  <2> DEFINE p == account[u].who
  <2>1. p \in Person /\ u \in Accounts /\ u \notin arg[r].users /\ u # NoUser
    BY <1>1, AccountRead, MarkersAssumption DEF Account, Accounts
  <2>2. ASSUME p \in arg[r].people, Same(r, p) PROVE FALSE
    <3>1. arg[r].data[p] = u
      BY <1>1, <1>3, <1>6, <2>1, <2>2 DEF StudentHeldBy, Same
    <3> QED
      BY <1>1, <2>1, <2>2, <3>1 DEF Inv, Held, RemovalHolds, Removing
  <2> QED
    BY <1>1, <1>6, <2>1, <2>2
<1>7. \A u \in Accounts' : "STUDENT" \in account'[u].roles => student'[account'[u].who] = u \/ Between(u)'
  BY <1>1, <1>3, <1>5, <1>6
<1>8. \A p \in Person : student'[p] \notin {NoRow, NoUser} => student'[p] = student[p] /\ student'[p] \in Accounts'
  BY <1>1 DEF Inv, Rows, TypeOK
<1>9. \A p \in Person : student'[p] \notin {NoRow, NoUser} => "STUDENT" \in account'[student'[p]].roles
  BY <1>1, <1>3, <1>8
<1>10. scope.legacy = {} => \A p \in Person : student'[p] # NoUser
  BY <1>1, <1>3, MarkersAssumption
<1> QED
  BY <1>4, <1>7, <1>9, <1>10 DEF StudentsInv

\* The accounts a handler made are there, and so is the place for their students.
LEMMA RowsFitAlone ==
    ASSUME Inv, StudentsInv, StudentsAlone, NEW r \in Request, pc[r] = "rows"
    PROVE  RowsFit(r)
<1>1. arg[r].users \subseteq Accounts
  BY DEF Inv, Held, AccountsMade, Making
<1> QED
  BY <1>1, NoneYet DEF RowsFit

LEMMA FailMatches ==
    ASSUME Inv, Inv', StudentsInv, StudentsAlone, scope' = scope, NEW r \in Request, Fail(r)
    PROVE  StudentsInv'
<1>1. Refused(r) /\ pc[r] # "idle" /\ UNCHANGED db /\ OnlyAt(r) /\ pc'[r] = "idle"
  BY ProceedsAt DEF Fail, StudentsAlone, Finish, Inv
<1>2. student' = student /\ account' = account /\ Accounts' = Accounts
  BY <1>1 DEF db, Accounts
<1>3. RolesLeft
  BY <1>2 DEF RolesLeft, RoleLeft
<1>4. pc[r] # "rows"
  BY <1>1, RowsFitAlone DEF Refused, At
<1>5. ASSUME pc[r] = "removeStudentUser" PROVE arg[r].users \cap Accounts = {}
  <2>1. ~(arg[r].users \subseteq Accounts)
    BY <1>1, <1>5 DEF Refused, At
  <2>2. PICK p : arg[r].people = {p}
    BY <1>5 DEF Inv, Held, RemovalHolds, Removing
  <2>3. arg[r].users \subseteq {arg[r].data[p]}
    BY <1>5, <2>2 DEF Inv, Held, RemovalHolds, Removing
  <2> QED
    BY <2>1, <2>3
<1> QED
  BY <1>1, <1>2, <1>3, <1>4, <1>5, StudentsLeft, StudentHeldIdle

\* The other steps leave the rows of students as they are.
LEMMA ProceedMatches ==
    ASSUME Inv, Inv', StaffInv, StudentsInv, StudentsAlone, scope' = scope, NEW r \in Request, Proceed(r),
           ~Register(r), ~CreateStudentRoles(r), ~CreateStudentRows(r), ~RemoveStudent(r), ~RemoveStudents(r)
    PROVE  StudentsInv'
<1>1. OnlyAt(r) /\ pc[r] # "idle" /\ pc'[r] \in {"idle", "link", "mail", "roles", "rows", "removeStudentUser"}
  BY ProceedsAt
<1>2. StudentHeldBy(r)
  BY DEF StudentsInv
<1>3. ~UpdateUser(r)
  BY <1>2 DEF UpdateUser, At, StudentHeldBy
<1>4. RolesLeft
  BY <1>2, <1>3, ProceedRoles DEF StudentHeldBy
<1>5. student' = student
  BY DEF Proceed, CreateLink, MailLost, MailSent, Clear, VerifyEmail, ChangePassword, ResetPassword, ChangePasswordMe,
         CreateStudentUsers, RemoveStudentUser, CreateTeachers, RemoveTeachers, CreateUser, UpdateUser, SetDeleted,
         CreateSecretary, UpdateSecretary, RemoveSecretary, SetAccounts, SetLinks, db
<1>6. CASE CreateStudentUsers(r)
  <2>1. pc[r] = "users" /\ pc'[r] = "roles" /\ arg'[r].people = arg[r].people
    BY <1>6, StudentUsersAdded DEF CreateStudentUsers, At, Go, Inv
  <2>2. StudentHeldBy(r)'
    BY <1>2, <1>5, <2>1 DEF StudentHeldBy
  <2> QED
    BY <1>1, <1>4, <1>5, <2>1, <2>2, StudentsLeft
<1>7. CASE RemoveStudentUser(r)
  <2>1. pc[r] = "removeStudentUser" /\ pc'[r] = "idle" /\ Accounts' = Accounts \ arg[r].users
    BY <1>7, Dropped DEF RemoveStudentUser, At, Finish, Inv
  <2>2. StudentHeldBy(r)'
    BY <2>1, StudentHeldIdle
  <2>3. arg[r].users \cap Accounts' = {}
    BY <2>1
  <2> QED
    BY <1>1, <1>4, <1>5, <2>2, <2>3, StudentsLeft
<1>8. CASE ~CreateStudentUsers(r) /\ ~RemoveStudentUser(r)
  <2>1. pc[r] \notin {"rows", "removeStudentUser"} /\ pc'[r] \in {"idle", "link", "mail"}
    BY <1>1, <1>8 DEF Proceed, CreateLink, MailLost, MailSent, Clear, VerifyEmail, ChangePassword, ResetPassword,
           ChangePasswordMe, CreateTeachers, RemoveTeachers, CreateUser, UpdateUser, SetDeleted,
           CreateSecretary, UpdateSecretary, RemoveSecretary, At, Go, Finish, AfterMail, Inv
  <2>2. StudentHeldBy(r)'
    BY <2>1, StudentHeldIdle
  <2> QED
    BY <1>1, <1>4, <1>5, <2>1, <2>2, StudentsLeft
<1> QED
  BY <1>6, <1>7, <1>8

LEMMA StudentsInvInit == Init => StudentsInv
<1> SUFFICES ASSUME Init PROVE StudentsInv
  OBVIOUS
<1>1. Accounts = {}
  BY DEF Init, Accounts
<1>2. \A p \in Person : student[p] = NoRow \/ (student[p] = NoUser /\ scope.legacy # {})
  BY DEF Init
<1>3. \A q \in Request : StudentHeldBy(q)
  BY DEF Init, StudentHeldBy
<1> QED
  BY <1>1, <1>2, <1>3, MarkersAssumption DEF StudentsInv

LEMMA StudentsInvNext == Inv /\ Inv' /\ StaffInv /\ StudentsInv /\ [Next /\ UNCHANGED scope]_vars => StudentsInv'
<1> SUFFICES ASSUME Inv, Inv', StaffInv, StudentsInv, [Next /\ UNCHANGED scope]_vars, scope' = scope, StudentsAlone
             PROVE  StudentsInv'
  BY DEF StudentsInv, StudentsAlone, OneByOne, vars
<1>1. /\ \A u \in Accounts : "STUDENT" \in account[u].roles => student[account[u].who] = u \/ Between(u)
      /\ \A p \in Person : student[p] \notin {NoRow, NoUser} => "STUDENT" \in account[student[p]].roles
      /\ scope.legacy = {} => \A p \in Person : student[p] # NoUser
      /\ \A q \in Request : StudentHeldBy(q)
  BY DEF StudentsInv
<1>2. CASE UNCHANGED vars \/ \E k \in LinkId : Expire(k)
  <2>1. account' = account /\ student' = student /\ pc' = pc /\ arg' = arg
    BY <1>2 DEF vars, Expire, SetLinks
  <2> QED
    BY <1>1, <2>1 DEF StudentsInv, StudentHeldBy, Between, Accounts
<1>3. ASSUME NEW r \in Request, PeopleArrive(r) \/ LinkArrives(r) \/ StaffArrives(r) PROVE StudentsInv'
  <2>1. OnlyAt(r) /\ pc[r] = "idle" /\ pc'[r] # "idle" /\ account' = account /\ student' = student
    BY <1>3, Arrival DEF db
  <2>2. RolesLeft
    BY <2>1 DEF RolesLeft, RoleLeft, Accounts
  <2>3. StudentHeldBy(r)'
    BY <1>3, ArrivesForStudents
  <2> QED
    BY <2>1, <2>2, <2>3, StudentsLeft
<1>4. ASSUME NEW r \in Request, Proceed(r) PROVE StudentsInv'
  BY <1>4, ProceedMatches, RegisterMatches, StudentRolesMatch, StudentRowsMatch, RemoveStudentMatches, RemoveStudentsMatch
<1>5. ASSUME NEW r \in Request, Fail(r) PROVE StudentsInv'
  BY <1>5, FailMatches
<1> QED
  BY <1>2, <1>3, <1>4, <1>5 DEF Next

\* Registrations, createStudent, removeStudent(s) and the same for teachers may interleave in any
\* way: the accounts of teachers are active as long as the teachers are there, all the time,
\* and once every request has ended without a failing statement, each account with the role
\* of a student has its student and each student with an account has the role.
THEOREM PeopleFitAccounts == Spec => []PeopleMatchAccounts
<1>1. Init => Inv /\ StaffInv /\ TeachersInv /\ StudentsInv
  BY InvInit, StaffInvInit, TeachersInvInit, StudentsInvInit
<1>2. Inv /\ StaffInv /\ TeachersInv /\ StudentsInv /\ [Next /\ UNCHANGED scope]_vars
      => Inv' /\ StaffInv' /\ TeachersInv' /\ StudentsInv'
  BY InvNext, StaffInvNext, TeachersInvNext, StudentsInvNext
<1>3. TeachersInv => TeachersMatchAccounts
  BY DEF TeachersInv, TeacherMatches, TeachersMatchAccounts
<1>4. ASSUME StudentsInv, Quiet, ~scope.failing PROVE StudentsMatchAccounts
  <2>1. \A u : ~Between(u)
    BY <1>4 DEF Quiet, Between
  <2> QED
    BY <1>4, <2>1 DEF StudentsInv, StudentsAlone, StudentsMatchAccounts
<1>5. Inv /\ StaffInv /\ TeachersInv /\ StudentsInv => PeopleMatchAccounts
  BY <1>3, <1>4 DEF PeopleMatchAccounts
<1> QED
  BY <1>1, <1>2, <1>5, PTL DEF Spec

=============================================================================
