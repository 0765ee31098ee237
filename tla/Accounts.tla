------------------------------ MODULE Accounts ------------------------------
(***************************************************************************)
(* Accounts, the links mailed to their owners, and the students, teachers   *)
(* and faculty secretaries the accounts belong to.                          *)
(*                                                                          *)
(* A person stands for an e-mail address together with the student,         *)
(* teacher or secretary code that serves as the username: both are unique   *)
(* indexes, so no two accounts have the same person.  The consecutive reads *)
(* of a handler are one step; a transaction is one step after its reads.    *)
(* The projects and submissions that keep a student or a teacher from being *)
(* removed are left out: the request they stop changes nothing.             *)
(***************************************************************************)
EXTENDS Functions, FiniteSetsExt, Integers

CONSTANTS
    Person, Faculty,
    MaxAccounts,  \* bound on the accounts that exist at a time
    MaxLinks,     \* bound on the links that work at a time
    Request,      \* handlers that can be in flight at the same time
    Scopes,       \* what the instance exercises, one scope in each behaviour
    Owned,        \* the accounts whose owners are assumed to keep trying, as FairSpec says
    NoRow, NoUser, NoFaculty,
    Keep          \* a field a request leaves as it is

Role == {"STUDENT", "TEACHER", "SECRETARY", "ADMIN"}
AccountId == 1 .. MaxAccounts
LinkId    == 1 .. MaxLinks
NoLink    == 0

LinkOps  == {"resend", "forgot", "verifyEmail", "changePassword", "resetPassword", "changePasswordMe"}
StaffOps == {"createUser", "updateUser", "assignRoles", "removeUser", "restoreUser",
             "createSecretary", "updateSecretary", "removeSecretary"}
PeopleOps == {"register", "createStudents", "importStudents", "removeStudent", "removeStudents", "createTeachers", "removeTeachers"}

\* The fields an administrator may set, each to a value or not at all.
Change == [active : BOOLEAN \cup {Keep}, mustChange : BOOLEAN \cup {Keep}, roles : (SUBSET Role) \cup {Keep}]

ASSUME AccountsAssumption ==
    /\ MaxAccounts \in Nat /\ MaxLinks \in Nat /\ Owned \subseteq AccountId
    /\ \A x \in Scopes :
          /\ x.ops \subseteq LinkOps \cup StaffOps \cup PeopleOps
          /\ x.requests \subseteq Request
          /\ x.legacy \subseteq Person           \* students whose row has no account yet
          /\ x.batches \subseteq (SUBSET Person) \ {{}}   \* the people a request may name, one at least
          /\ x.links \in 0 .. MaxLinks
          /\ x.faculties \subseteq Faculty
          /\ x.roles \subseteq SUBSET Role       \* the roles a new account may get
          /\ x.changes \subseteq Change
          /\ x.failing \in BOOLEAN               \* statements may fail for no reason of their own
          /\ x.steady \in BOOLEAN                \* owners ask and mails get through, as FairSpec says

\* What stands for the lack of a row, an account, a faculty or a value is none of them.
ASSUME MarkersAssumption ==
    /\ IsFiniteSet(Person) /\ IsFiniteSet(Request)
    /\ NoUser \notin AccountId /\ NoUser # NoRow /\ NoRow \notin AccountId
    /\ NoFaculty \notin Faculty
    /\ Keep \notin Faculty \cup BOOLEAN /\ \A roles \in SUBSET Role : roles # Keep

\* A row of users with its rows of user_roles; a password is one of two.
Account == [who : Person, active : BOOLEAN, verified : BOOLEAN, mustChange : BOOLEAN,
            deleted : BOOLEAN, password : 0 .. 1, roles : SUBSET Role]

\* A row of email_verification_tokens: whether its mail got through, whether the row is
\* unused and in time, and how many times it has set a password.
Link == [user : AccountId, kind : {"verify", "reset"}, mailed : BOOLEAN, live : BOOLEAN, sets : 0 .. 2]

Secretary == [live : BOOLEAN, faculty : Faculty \cup {NoFaculty}]
Teacher   == [user : AccountId, live : BOOLEAN]

ASSUME RowsAssumption == NoRow \notin Account \cup Link \cup Secretary \cup Teacher

VARIABLES
    scope,      \* the scope of this behaviour, a bound on it
    account, link,
    student,    \* the account of each student, NoUser in a row without one
    teacher, secretary,
    pc,         \* where each handler is
    arg         \* its input and the values it read

db   == <<account, link, student, teacher, secretary>>
vars == <<account, link, student, teacher, secretary, pc, arg, scope>>

NoArg == [op |-> "none", people |-> {}, users |-> {}, link |-> NoLink, data |-> Keep]

-----------------------------------------------------------------------------
(* What the rows say *)

Accounts == {u \in AccountId : account[u] # NoRow}

AccountsOf(p) == {u \in Accounts : account[u].who = p}

Unknown(people) == \A p \in people : AccountsOf(p) = {}

\* Ids for new rows: those without a row, and those no request in flight has read.
FreshAccounts == {u \in AccountId \ Accounts : \A r \in Request : u \notin arg[r].users}

\* A row that no longer works, or whose mail was lost, is as good as gone.
FreeLinks ==
    {k \in 1 .. scope.links :
        /\ link[k] # NoRow => ~(link[k].live /\ link[k].mailed)
        /\ \A r \in Request : arg[r].link # k}

\* The links their owner has and that still work.
Opens(k) == link[k] # NoRow /\ link[k].live /\ link[k].mailed

LinksOf(u) == {k \in LinkId : link[k] # NoRow /\ link[k].user = u}

\* login, apart from the password
CanLogIn(u) ==
    /\ u \in Accounts
    /\ account[u].active /\ account[u].verified /\ ~account[u].mustChange
    /\ account[u].roles # {}

Staffed(u) == secretary[u] # NoRow /\ secretary[u].live /\ secretary[u].faculty # NoFaculty

Occupied(f) == {u \in AccountId : secretary[u] # NoRow /\ secretary[u].faculty = f}

\* Mutant: the role may be taken from an account with a profile.
SecretaryRoleFits_Taken(u, roles) == "SECRETARY" \in roles /\ "ADMIN" \notin roles => Staffed(u)

\* assertSecretaryRoleAssignment, and the same two looks in assignUserRoles.
SecretaryRoleFits(u, roles) ==
    /\ "SECRETARY" \in roles /\ "ADMIN" \notin roles => Staffed(u)
    /\ Staffed(u) => "SECRETARY" \in roles

NewAccount(p, roles) ==
    [who |-> p, active |-> TRUE, verified |-> FALSE, mustChange |-> TRUE,
     deleted |-> FALSE, password |-> 0, roles |-> roles]

NewLink(u, kind) == [user |-> u, kind |-> kind, mailed |-> FALSE, live |-> TRUE, sets |-> 0]

\* A value of a request, or the value there is.
Given(new, old) == IF new = Keep THEN old ELSE new

Changed(row, d) == [row EXCEPT !.active = Given(d.active, @), !.mustChange = Given(d.mustChange, @),
                               !.roles = Given(d.roles, @)]

WithPassword(row) == [row EXCEPT !.password = 1 - @, !.mustChange = FALSE]

-----------------------------------------------------------------------------
(* Steps every handler is made of *)

Free(r, op) == op \in scope.ops /\ r \in scope.requests /\ pc[r] = "idle"

Begin(r, op, step, people, users, k, data) ==
    /\ pc'  = [pc EXCEPT ![r] = step]
    /\ arg' = [arg EXCEPT ![r] = [op |-> op, people |-> people, users |-> users, link |-> k, data |-> data]]
    /\ UNCHANGED db

Finish(r) ==
    /\ pc'  = [pc EXCEPT ![r] = "idle"]
    /\ arg' = [arg EXCEPT ![r] = NoArg]

Go(r, step) == pc' = [pc EXCEPT ![r] = step]

At(r, step) == pc[r] = step

\* The one account a request is about.
User(r) == CHOOSE u \in arg[r].users : TRUE

SetAccounts(rows) == account' = rows /\ UNCHANGED <<link, student, teacher, secretary>>

SetLinks(rows) == link' = rows /\ UNCHANGED <<account, student, teacher, secretary>>

\* New accounts for people, one each.
CreateAccounts(new, roles) ==
    account' = [u \in AccountId |-> IF \E p \in DOMAIN new : new[p] = u
                                    THEN NewAccount(CHOOSE p \in DOMAIN new : new[p] = u, roles)
                                    ELSE account[u]]

\* Mutant: the links of an account stay.
DropAccounts_LinksKept(users) ==
    /\ account' = [u \in AccountId |-> IF u \in users THEN NoRow ELSE account[u]]
    /\ UNCHANGED link

\* The links of an account go with it.
DropAccounts(users) ==
    /\ account' = [u \in AccountId |-> IF u \in users THEN NoRow ELSE account[u]]
    /\ link' = [k \in LinkId |-> IF link[k] # NoRow /\ link[k].user \in users THEN NoRow ELSE link[k]]

-----------------------------------------------------------------------------
(* Mailing a link: sendVerificationEmail, and the end of forgotPassword *)

\* createStudent and createTeachers mail each new account in turn, whatever became of
\* the mails before; the others have one account.
InTurn(r) == arg[r].op \in {"createStudents", "createTeachers"}

NextUser(r) == Min(arg[r].users)

\* On to the next account of the list.
AfterMail(r) ==
    IF arg[r].users = {NextUser(r)} THEN Finish(r)
    ELSE /\ Go(r, "link")
         /\ arg' = [arg EXCEPT ![r].users = @ \ {NextUser(r)}, ![r].link = NoLink]

CreateLink(r) ==
    /\ At(r, "link") /\ FreeLinks # {}
    /\ LET u == NextUser(r)
           k == Min(FreeLinks)
       IN  /\ u \in Accounts
           /\ InTurn(r) => ~account[u].verified
           /\ SetLinks([link EXCEPT ![k] = NewLink(u, IF arg[r].op = "forgot" THEN "reset" ELSE "verify")])
           /\ arg' = [arg EXCEPT ![r].link = k]
    /\ Go(r, "mail")

\* The row may have gone when the mail goes out.
MailSent(r, kind) ==
    /\ At(r, "mail") /\ kind = (IF arg[r].op = "forgot" THEN "reset" ELSE "verify")
    /\ SetLinks([link EXCEPT ![arg[r].link] = IF @ = NoRow THEN NoRow ELSE [@ EXCEPT !.mailed = TRUE]])
    /\ AfterMail(r)

MailLost(r) ==
    /\ At(r, "mail") \/ (At(r, "link") /\ InTurn(r))
    /\ AfterMail(r)
    /\ UNCHANGED db

ResendCheck(r, u) ==
    /\ ~account[u].verified
    /\ FreeLinks # {}
    /\ Begin(r, "resend", "link", {}, {u}, NoLink, Keep)

ForgotCheck(r, u) == Begin(r, "forgot", "clear", {}, {u}, NoLink, Keep)

\* Every link of the account goes, those that verify its address too.
Clear(r) ==
    /\ At(r, "clear")
    /\ SetLinks([k \in LinkId |-> IF k \in LinksOf(User(r)) THEN NoRow ELSE link[k]])
    /\ Go(r, "link") /\ UNCHANGED arg

-----------------------------------------------------------------------------
(* verifyEmail, changePassword, resetPassword, changePasswordMe *)

\* The three handlers take a link of either kind.
LinkCheck(r, op, k) == Opens(k) /\ Begin(r, op, op, {}, {link[k].user}, k, Keep)

\* The link stays as it is: the password is still to be changed with it.
VerifyEmail(r) ==
    /\ At(r, "verifyEmail")
    /\ User(r) \in Accounts
    /\ SetAccounts([account EXCEPT ![User(r)].verified = TRUE])
    /\ Finish(r)

Use(k) == link' = [link EXCEPT ![k].live = FALSE, ![k].sets = IF @ = 2 THEN 2 ELSE @ + 1]

\* The account and the link are updated together, and neither when the link has gone.
ChangePassword(r) ==
    /\ At(r, "changePassword")
    /\ User(r) \in Accounts /\ link[arg[r].link] # NoRow
    /\ account' = [account EXCEPT ![User(r)] = [WithPassword(@) EXCEPT !.verified = TRUE]]
    /\ Use(arg[r].link)
    /\ Finish(r)
    /\ UNCHANGED <<student, teacher, secretary>>

\* Mutant: the link stays unused.
ResetPassword_Unused(r) ==
    /\ At(r, "resetPassword")
    /\ User(r) \in Accounts /\ link[arg[r].link] # NoRow
    /\ account' = [account EXCEPT ![User(r)] = WithPassword(@)]
    /\ link' = [link EXCEPT ![arg[r].link].sets = IF @ = 2 THEN 2 ELSE @ + 1]
    /\ Finish(r)
    /\ UNCHANGED <<student, teacher, secretary>>

\* Mutant: the account must still change its password.
ResetPassword_MustChange(r) ==
    /\ At(r, "resetPassword")
    /\ User(r) \in Accounts /\ link[arg[r].link] # NoRow
    /\ account' = [account EXCEPT ![User(r)].password = 1 - @]
    /\ Use(arg[r].link)
    /\ Finish(r)
    /\ UNCHANGED <<student, teacher, secretary>>

\* The address of an account that never verified it stays unverified.
ResetPassword(r) ==
    /\ At(r, "resetPassword")
    /\ User(r) \in Accounts /\ link[arg[r].link] # NoRow
    /\ account' = [account EXCEPT ![User(r)] = WithPassword(@)]
    /\ Use(arg[r].link)
    /\ Finish(r)
    /\ UNCHANGED <<student, teacher, secretary>>

\* Asked by someone who has logged in.
ChangePasswordMeCheck(r, u) ==
    /\ CanLogIn(u)
    /\ Begin(r, "changePasswordMe", "changePasswordMe", {}, {u}, NoLink, Keep)

ChangePasswordMe(r) ==
    /\ At(r, "changePasswordMe")
    /\ User(r) \in Accounts
    /\ SetAccounts([account EXCEPT ![User(r)] = WithPassword(@)])
    /\ Finish(r)

-----------------------------------------------------------------------------
(* register *)

RegisterCheck(r, p) ==
    /\ Unknown({p}) /\ student[p] \in {NoRow, NoUser}
    /\ Begin(r, "register", "register", {p}, {}, NoLink, student[p] # NoRow)

\* The account with its student and its link: a student found is connected, one not found
\* is inserted, which the index refuses when it is there by now.
RegisterFits(r) == Unknown(arg[r].people) /\ \A p \in arg[r].people : (student[p] # NoRow) = arg[r].data

Register(r) ==
    /\ At(r, "register") /\ RegisterFits(r)
    /\ FreeLinks # {} /\ FreshAccounts # {}
    /\ LET u == Min(FreshAccounts)
           k == Min(FreeLinks)
       IN  /\ CreateAccounts([p \in arg[r].people |-> u], {"STUDENT"})
           /\ student' = [p \in Person |-> IF p \in arg[r].people THEN u ELSE student[p]]
           /\ link' = [link EXCEPT ![k] = NewLink(u, "verify")]
           /\ arg' = [arg EXCEPT ![r].users = {u}, ![r].link = k]
    /\ Go(r, "mail")
    /\ UNCHANGED <<teacher, secretary>>

-----------------------------------------------------------------------------
(* createStudent *)

CreateStudentsBegin(r, people) == Begin(r, "createStudents", "users", people, {}, NoLink, Keep)

\* The import looks for accounts and students before it calls createStudent.
ImportStudentsCheck(r, people) ==
    /\ Unknown(people) /\ \A p \in people : student[p] = NoRow
    /\ CreateStudentsBegin(r, people)

CreateStudentUsers(r) ==
    /\ At(r, "users") /\ Unknown(arg[r].people)
    /\ Cardinality(FreshAccounts) >= Cardinality(arg[r].people)
    /\ LET new == CHOOSE f \in Injection(arg[r].people, FreshAccounts) : TRUE
       IN  /\ CreateAccounts(new, {})
           /\ arg' = [arg EXCEPT ![r].users = Range(new)]
    /\ Go(r, "roles")
    /\ UNCHANGED <<link, student, teacher, secretary>>

CreateStudentRoles(r) ==
    /\ At(r, "roles") /\ arg[r].users \subseteq Accounts
    /\ SetAccounts([u \in AccountId |-> IF u \in arg[r].users THEN [account[u] EXCEPT !.roles = @ \cup {"STUDENT"}]
                                        ELSE account[u]])
    /\ Go(r, "rows") /\ UNCHANGED arg

\* One statement: a student already there, with an account or without, stops them all.
RowsFit(r) == arg[r].users \subseteq Accounts /\ \A p \in arg[r].people : student[p] = NoRow

CreateStudentRows(r) ==
    /\ At(r, "rows") /\ RowsFit(r)
    /\ student' = [p \in Person |-> IF p \in arg[r].people
                                    THEN CHOOSE u \in arg[r].users : account[u].who = p ELSE student[p]]
    /\ Go(r, "link")
    /\ UNCHANGED <<account, link, teacher, secretary, arg>>

-----------------------------------------------------------------------------
(* removeStudent and removeStudents *)

\* The rows a request read, by their students: each still there.
Same(r, p) == student[p] # NoRow /\ (arg[r].data[p] # NoUser => student[p] = arg[r].data[p])

RemovalBegin(r, op, people) ==
    /\ \A p \in people : student[p] # NoRow
    /\ Begin(r, op, op, people, {student[p] : p \in people} \ {NoUser}, NoLink, Restrict(student, people))

DropStudents(people) == student' = [p \in Person |-> IF p \in people THEN NoRow ELSE student[p]]

\* The student goes first and the account in a statement of its own.
RemoveStudent(r) ==
    /\ At(r, "removeStudent") /\ \A p \in arg[r].people : Same(r, p)
    /\ DropStudents(arg[r].people)
    /\ IF arg[r].users = {} THEN Finish(r) ELSE Go(r, "removeStudentUser") /\ UNCHANGED arg
    /\ UNCHANGED <<account, link, teacher, secretary>>

RemoveStudentUser(r) ==
    /\ At(r, "removeStudentUser") /\ arg[r].users \subseteq Accounts
    /\ DropAccounts(arg[r].users)
    /\ Finish(r)
    /\ UNCHANGED <<student, teacher, secretary>>

\* What has gone meanwhile is passed over.
RemoveStudents(r) ==
    /\ At(r, "removeStudents")
    /\ DropStudents({p \in arg[r].people : Same(r, p)})
    /\ DropAccounts(arg[r].users)
    /\ Finish(r)
    /\ UNCHANGED <<teacher, secretary>>

-----------------------------------------------------------------------------
(* createTeachers, and remove and removeMany of teachers *)

CreateTeachersCheck(r, people) ==
    /\ Unknown(people) /\ \A p \in people : teacher[p] = NoRow
    /\ Begin(r, "createTeachers", "teachers", people, {}, NoLink, Keep)

TeachersFit(r) == Unknown(arg[r].people) /\ \A p \in arg[r].people : teacher[p] = NoRow

CreateTeachers(r) ==
    /\ At(r, "teachers") /\ TeachersFit(r)
    /\ Cardinality(FreshAccounts) >= Cardinality(arg[r].people)
    /\ LET new == CHOOSE f \in Injection(arg[r].people, FreshAccounts) : TRUE
       IN  /\ CreateAccounts(new, {"TEACHER"})
           /\ teacher' = [p \in Person |-> IF p \in arg[r].people THEN [user |-> new[p], live |-> TRUE]
                                           ELSE teacher[p]]
           /\ arg' = [arg EXCEPT ![r].users = Range(new)]
    /\ Go(r, "link")
    /\ UNCHANGED <<link, student, secretary>>

RemoveTeachersCheck(r, people) ==
    /\ \A p \in people : teacher[p] # NoRow /\ teacher[p].live
    /\ Begin(r, "removeTeachers", "removeTeachers", people, {teacher[p].user : p \in people}, NoLink, Keep)

\* Mutant: the account of a removed teacher is left alone.
RemoveTeachers_AccountKept(r) ==
    /\ At(r, "removeTeachers")
    /\ teacher' = [p \in Person |-> IF p \in arg[r].people THEN [teacher[p] EXCEPT !.live = FALSE] ELSE teacher[p]]
    /\ Finish(r)
    /\ UNCHANGED <<account, link, student, secretary>>

\* The rows stay, and keep their codes and addresses.
RemoveTeachers(r) ==
    /\ At(r, "removeTeachers")
    /\ teacher' = [p \in Person |-> IF p \in arg[r].people THEN [teacher[p] EXCEPT !.live = FALSE] ELSE teacher[p]]
    /\ account' = [u \in AccountId |-> IF u \in arg[r].users THEN [account[u] EXCEPT !.active = FALSE]
                                       ELSE account[u]]
    /\ Finish(r)
    /\ UNCHANGED <<link, student, secretary>>

-----------------------------------------------------------------------------
(* create, update, remove and restore of users; assignUserRoles *)

CreateUserCheck(r, p, roles) ==
    /\ Unknown({p})
    /\ "SECRETARY" \in roles => "ADMIN" \in roles
    /\ Begin(r, "createUser", "createUser", {p}, {}, NoLink, roles)

\* No link is mailed.
CreateUser(r) ==
    /\ At(r, "createUser") /\ Unknown(arg[r].people) /\ FreshAccounts # {}
    /\ CreateAccounts([p \in arg[r].people |-> Min(FreshAccounts)], arg[r].data)
    /\ Finish(r)
    /\ UNCHANGED <<link, student, teacher, secretary>>

UpdateUserCheck(r, u, change) ==
    /\ ~account[u].deleted
    /\ change.roles # Keep => SecretaryRoleFits(u, change.roles)
    /\ Begin(r, "updateUser", "updateUser", {}, {u}, NoLink, change)

UpdateUser(r) ==
    /\ At(r, "updateUser") /\ User(r) \in Accounts
    /\ SetAccounts([account EXCEPT ![User(r)] = Changed(@, arg[r].data)])
    /\ Finish(r)

AssignRolesCheck(r, u, roles) ==
    /\ ~account[u].deleted
    /\ SecretaryRoleFits(u, roles)
    /\ Begin(r, "assignRoles", "updateUser", {}, {u}, NoLink,
             [active |-> Keep, mustChange |-> Keep, roles |-> roles])

RemoveUserCheck(r, u) ==
    /\ ~account[u].deleted
    /\ Begin(r, "removeUser", "deleted", {}, {u}, NoLink, TRUE)

RestoreUserCheck(r, u) ==
    /\ account[u].deleted
    /\ Begin(r, "restoreUser", "deleted", {}, {u}, NoLink, FALSE)

\* A profile and the account's being active are left as they are.
SetDeleted(r) ==
    /\ At(r, "deleted") /\ User(r) \in Accounts
    /\ SetAccounts([account EXCEPT ![User(r)].deleted = arg[r].data])
    /\ Finish(r)

-----------------------------------------------------------------------------
(* createSecretary, updateSecretary, removeSecretary *)

CreateSecretaryCheck(r, p, f) ==
    /\ Unknown({p}) /\ Occupied(f) = {}
    /\ Begin(r, "createSecretary", "createSecretary", {p}, {}, NoLink, f)

\* The account can be used at once.
CreateSecretary(r) ==
    /\ At(r, "createSecretary") /\ Unknown(arg[r].people) /\ Occupied(arg[r].data) = {}
    /\ FreshAccounts # {}
    /\ LET u == Min(FreshAccounts)
       IN  /\ account' = [account EXCEPT ![u] =
                [NewAccount(CHOOSE p \in arg[r].people : TRUE, {"SECRETARY"})
                 EXCEPT !.verified = TRUE, !.mustChange = FALSE]]
           /\ secretary' = [secretary EXCEPT ![u] = [live |-> TRUE, faculty |-> arg[r].data]]
    /\ Finish(r)
    /\ UNCHANGED <<link, student, teacher>>

Serving(u) == secretary[u] # NoRow /\ secretary[u].live /\ ~account[u].deleted

UpdateSecretaryCheck(r, u, f, change) ==
    /\ Serving(u)
    /\ f # Keep => Occupied(f) \subseteq {u}
    /\ Begin(r, "updateSecretary", "updateSecretary", {}, {u}, NoLink, <<f, [change EXCEPT !.roles = Keep]>>)

SecretaryFits(r) == arg[r].data[1] # Keep => Occupied(arg[r].data[1]) \subseteq arg[r].users

\* The row is written whether or not it was removed meanwhile.
UpdateSecretary(r) ==
    /\ At(r, "updateSecretary") /\ SecretaryFits(r)
    /\ account' = [account EXCEPT ![User(r)] = Changed(@, arg[r].data[2])]
    /\ secretary' = [secretary EXCEPT ![User(r)].faculty = Given(arg[r].data[1], @)]
    /\ Finish(r)
    /\ UNCHANGED <<link, student, teacher>>

RemoveSecretaryCheck(r, u) ==
    /\ Serving(u)
    /\ Begin(r, "removeSecretary", "removeSecretary", {}, {u}, NoLink, Keep)

\* The faculty is free for another secretary.
RemoveSecretary(r) ==
    /\ At(r, "removeSecretary")
    /\ secretary' = [secretary EXCEPT ![User(r)] = [live |-> FALSE, faculty |-> NoFaculty]]
    /\ account' = [account EXCEPT ![User(r)].deleted = TRUE, ![User(r)].active = FALSE]
    /\ Finish(r)
    /\ UNCHANGED <<link, student, teacher>>

-----------------------------------------------------------------------------
(* The specification *)

\* What the database refuses: a row that has gone or one that the index has already.
Refused(r) ==
    \/ At(r, "link") /\ ~InTurn(r) /\ User(r) \notin Accounts
    \/ pc[r] \in {"verifyEmail", "changePasswordMe", "updateUser", "deleted"} /\ User(r) \notin Accounts
    \/ pc[r] \in {"changePassword", "resetPassword"} /\ (User(r) \notin Accounts \/ link[arg[r].link] = NoRow)
    \/ At(r, "register") /\ ~RegisterFits(r)
    \/ At(r, "users") /\ ~Unknown(arg[r].people)
    \/ pc[r] \in {"roles", "removeStudentUser"} /\ ~(arg[r].users \subseteq Accounts)
    \/ At(r, "rows") /\ ~RowsFit(r)
    \/ At(r, "removeStudent") /\ \E p \in arg[r].people : ~Same(r, p)
    \/ At(r, "teachers") /\ ~TeachersFit(r)
    \/ At(r, "createUser") /\ ~Unknown(arg[r].people)
    \/ At(r, "createSecretary") /\ (~Unknown(arg[r].people) \/ Occupied(arg[r].data) # {})
    \/ At(r, "updateSecretary") /\ ~SecretaryFits(r)

\* A statement is refused, or fails where the scope has failures: the request ends there.
Fail(r) ==
    /\ pc[r] # "idle"
    /\ scope.failing \/ Refused(r)
    /\ Finish(r)
    /\ UNCHANGED db

\* The time of a link is over.
Expire(k) ==
    /\ Opens(k)
    /\ SetLinks([link EXCEPT ![k].live = FALSE])
    /\ UNCHANGED <<pc, arg>>

Init ==
    /\ scope \in Scopes
    /\ account = [u \in AccountId |-> NoRow] /\ link = [k \in LinkId |-> NoRow]
    /\ student = [p \in Person |-> IF p \in scope.legacy THEN NoUser ELSE NoRow]
    /\ teacher = [p \in Person |-> NoRow] /\ secretary = [u \in AccountId |-> NoRow]
    /\ pc = [r \in Request |-> "idle"] /\ arg = [r \in Request |-> NoArg]

\* The people a request may name one at a time.
People == UNION scope.batches

PeopleArrive(r) ==
    \/ Free(r, "register")       /\ \E p \in People : RegisterCheck(r, p)
    \/ Free(r, "createStudents") /\ \E people \in scope.batches : CreateStudentsBegin(r, people)
    \/ Free(r, "importStudents") /\ \E people \in scope.batches : ImportStudentsCheck(r, people)
    \/ Free(r, "removeStudent")  /\ \E p \in People : RemovalBegin(r, "removeStudent", {p})
    \/ Free(r, "removeStudents") /\ \E people \in scope.batches : RemovalBegin(r, "removeStudents", people)
    \/ Free(r, "createTeachers") /\ \E people \in scope.batches : CreateTeachersCheck(r, people)
    \/ Free(r, "removeTeachers") /\ \E people \in scope.batches : RemoveTeachersCheck(r, people)

LinkArrives(r) ==
    \/ \E op \in {"verifyEmail", "changePassword", "resetPassword"} :
          Free(r, op) /\ \E k \in LinkId : LinkCheck(r, op, k)
    \/ \E u \in Accounts :
          \/ Free(r, "resend") /\ ResendCheck(r, u)
          \/ Free(r, "forgot") /\ ForgotCheck(r, u)
          \/ Free(r, "changePasswordMe") /\ ChangePasswordMeCheck(r, u)

StaffArrives(r) ==
    \/ Free(r, "createUser") /\ \E p \in People, roles \in scope.roles : CreateUserCheck(r, p, roles)
    \/ Free(r, "createSecretary") /\ \E p \in People, f \in scope.faculties : CreateSecretaryCheck(r, p, f)
    \/ \E u \in Accounts :
          \/ Free(r, "updateUser") /\ \E change \in scope.changes : UpdateUserCheck(r, u, change)
          \/ Free(r, "assignRoles") /\ \E roles \in scope.roles : AssignRolesCheck(r, u, roles)
          \/ Free(r, "removeUser") /\ RemoveUserCheck(r, u)
          \/ Free(r, "restoreUser") /\ RestoreUserCheck(r, u)
          \/ Free(r, "updateSecretary") /\ \E f \in scope.faculties \cup {Keep}, change \in scope.changes :
                UpdateSecretaryCheck(r, u, f, change)
          \/ Free(r, "removeSecretary") /\ RemoveSecretaryCheck(r, u)

Proceed(r) ==
    \/ CreateLink(r) \/ MailLost(r) \/ \E kind \in {"verify", "reset"} : MailSent(r, kind)
    \/ Clear(r) \/ VerifyEmail(r) \/ ChangePassword(r) \/ ResetPassword(r) \/ ChangePasswordMe(r)
    \/ Register(r) \/ CreateStudentUsers(r) \/ CreateStudentRoles(r) \/ CreateStudentRows(r)
    \/ RemoveStudent(r) \/ RemoveStudentUser(r) \/ RemoveStudents(r)
    \/ CreateTeachers(r) \/ RemoveTeachers(r)
    \/ CreateUser(r) \/ UpdateUser(r) \/ SetDeleted(r)
    \/ CreateSecretary(r) \/ UpdateSecretary(r) \/ RemoveSecretary(r)

Next ==
    \/ \E r \in Request : PeopleArrive(r) \/ LinkArrives(r) \/ StaffArrives(r) \/ Proceed(r) \/ Fail(r)
    \/ \E k \in LinkId : Expire(k)

Spec == Init /\ [][Next /\ UNCHANGED scope]_vars

\* What the owner of an account does who cannot log in: ask for a link when none works,
\* and follow the one there is.
OwnerAsks(r, u) ==
    /\ u \in Accounts /\ ~CanLogIn(u)
    /\ \A k \in LinksOf(u) : ~Opens(k)
    /\ IF account[u].verified THEN Free(r, "forgot") /\ ForgotCheck(r, u)
       ELSE Free(r, "resend") /\ ResendCheck(r, u)

OwnerFollows(r, u, kind) ==
    /\ u \in Accounts /\ ~CanLogIn(u)
    /\ LET op == IF kind = "verify" THEN "changePassword" ELSE "resetPassword"
       IN  Free(r, op) /\ \E k \in LinksOf(u) : link[k].kind = kind /\ LinkCheck(r, op, k)

\* A handler goes on to its end; mail of each kind gets through again and again; and an
\* owner does what there is to do when again and again it can be done.
FairSpec ==
    /\ Spec
    /\ \A r \in Request : WF_vars(scope.steady /\ Proceed(r) /\ UNCHANGED scope)
    /\ \A kind \in {"verify", "reset"} :
          SF_vars(scope.steady /\ (\E r \in Request : MailSent(r, kind)) /\ UNCHANGED scope)
    /\ \A u \in Owned :
          /\ SF_vars(scope.steady /\ (\E r \in Request : OwnerAsks(r, u)) /\ UNCHANGED scope)
          /\ \A kind \in {"verify", "reset"} :
                SF_vars(scope.steady /\ (\E r \in Request : OwnerFollows(r, u, kind)) /\ UNCHANGED scope)

-----------------------------------------------------------------------------
(* Properties *)

\* The variables have their types; a person has one account at most, a faculty one
\* secretary; and what links, students, teachers and secretaries refer to is there.
TypeOK ==
    /\ account \in [AccountId -> Account \cup {NoRow}]
    /\ link \in [LinkId -> Link \cup {NoRow}]
    /\ student \in [Person -> AccountId \cup {NoRow, NoUser}]
    /\ teacher \in [Person -> Teacher \cup {NoRow}]
    /\ secretary \in [AccountId -> Secretary \cup {NoRow}]
    /\ \A u, v \in Accounts : account[u].who = account[v].who => u = v
    /\ \A f \in Faculty : \A u, v \in Occupied(f) : u = v
    /\ \A k \in LinkId : link[k] # NoRow => link[k].user \in Accounts
    /\ \A p \in Person :
          /\ student[p] \notin {NoRow, NoUser} => student[p] \in Accounts /\ account[student[p]].who = p
          /\ teacher[p] # NoRow => teacher[p].user \in Accounts /\ account[teacher[p].user].who = p
    /\ \A u \in AccountId : secretary[u] # NoRow => u \in Accounts

OneByOne == Cardinality(scope.requests) = 1

Quiet == \A r \in Request : pc[r] = "idle"

\* While requests come one by one, a mailed link sets a password once, whichever of the
\* handlers it is given to and whatever else happens to the account in between.
LinkSetsOnce == OneByOne => \A k \in LinkId : link[k] # NoRow => link[k].sets <= 1

\* However requests interleave, a link that forgotPassword has deleted changes nothing any
\* more, for a request too that found it in order before.
DeletedLinkIsDead ==
    \A r \in Request :
        /\ pc[r] \in {"changePassword", "resetPassword"} /\ pc'[r] = "idle"
        /\ link[arg[r].link] = NoRow
        => account' = account

\* In every step: a link does its work once, and none after it was deleted.
LinksWorkOnce == [][LinkSetsOnce' /\ DeletedLinkIsDead]_vars

\* Whoever has an account gets to log in: links that expire, lost mails, links that a
\* stranger's request deletes, or an address verified and a password never changed, do not
\* lock the owner out.
OwnersGetIn == \A u \in Owned : (scope.steady /\ u \in Accounts) ~> CanLogIn(u)

\* The accounts of students and the students with an account are the same, where administrators
\* neither give nor take the role.  Students without an account are all right while requests
\* come one by one and createStudent gets its people from the import.
StudentsMatchAccounts ==
    /\ scope.legacy = {} \/ (OneByOne /\ "createStudents" \notin scope.ops)
    /\ scope.ops \cap {"updateUser", "assignRoles"} = {} /\ \A roles \in scope.roles : "STUDENT" \notin roles
    =>
        /\ \A u \in Accounts : "STUDENT" \in account[u].roles => student[account[u].who] = u
        /\ \A p \in Person : student[p] \notin {NoRow, NoUser} => "STUDENT" \in account[student[p]].roles

\* Where no administrator changes accounts, those of teachers are active until the teacher
\* is removed and never after, however requests interleave or break off.
TeachersMatchAccounts ==
    "updateUser" \notin scope.ops =>
        \A p \in Person : teacher[p] # NoRow => (account[teacher[p].user].active <=> teacher[p].live)

\* In whatever order registrations, creations and removals of the same people came, once no
\* request is in flight and no statement has failed for reasons of its own their accounts
\* fit what the school has on them; and those of teachers do all the time.
PeopleMatchAccounts == TeachersMatchAccounts /\ (Quiet /\ ~scope.failing => StudentsMatchAccounts)

\* Who holds a faculty as its secretary has the role.
SecretaryKeepsRole == \A u \in Accounts : Staffed(u) => "SECRETARY" \in account[u].roles

\* Unless a removed account is restored, an account with the role of a secretary and not
\* that of an administrator has a faculty; and while requests come one by one, a secretary
\* who was removed holds none.
SecretariesHaveFaculties ==
    /\ "restoreUser" \notin scope.ops =>
          \A u \in Accounts : ~account[u].deleted /\ "SECRETARY" \in account[u].roles
                               /\ "ADMIN" \notin account[u].roles => Staffed(u)
    /\ OneByOne => \A u \in AccountId :
          secretary[u] # NoRow /\ ~secretary[u].live => secretary[u].faculty = NoFaculty

\* However requests interleave, the role of a secretary and the faculty go together, though
\* the one is changed under accounts and the other under secretaries.
RoleAndFacultyTogether == SecretaryKeepsRole /\ SecretariesHaveFaculties

=============================================================================
