------------------------------- MODULE Defense -------------------------------
(***************************************************************************)
(* Defense committees and the sessions in which they hear projects: who     *)
(* sits where, which projects a session holds and in which order.           *)
(*                                                                          *)
(* No handler opens a transaction, so each of its statements is a step and  *)
(* a statement that fails leaves the earlier ones done.                     *)
(*                                                                          *)
(* No row of defense_scores is ever written: scoreProject passes the role   *)
(* it is given, a number (ScoreProjectDto), to a column that is an enum,    *)
(* and the insert is refused.  So the looks for scores find none, nothing   *)
(* is averaged, and the model has neither.                                  *)
(***************************************************************************)
EXTENDS SequencesExt, FiniteSetsExt

CONSTANTS
    Teacher, Project,
    MaxCommittees,  \* bound on the committees ever created
    MaxSessions,    \* bound on the sessions ever created
    MaxOrder,       \* bound on order_index, which additions leave gaps in
    Request,        \* handlers that can be in flight at the same time
    Scopes,         \* what the instance exercises, one scope in each behaviour
    NoTeacher, NoRow

Fixed   == {"CHAIRMAN", "SECRETARY", "INTERNAL_REVIEWER"}
Role    == Fixed \cup {"EXTERNAL_REVIEWER"}
Status  == {"SCHEDULED", "COMPLETED", "CANCELLED", "RESCHEDULED"}
CommitteeId == 1 .. MaxCommittees
SessionId   == 1 .. MaxSessions

ASSUME DefenseAssumption ==
    /\ MaxCommittees \in Nat /\ MaxSessions \in Nat /\ MaxOrder \in Nat
    /\ IsFiniteSet(Project) /\ MaxOrder >= Cardinality(Project)  \* a place for every project
    /\ IsFiniteSet(Request)
    /\ NoTeacher \notin Teacher
    /\ \A x \in Scopes :
          /\ x.ops \subseteq {"createCommittee", "updateCommittee", "deleteCommittee", "createSession",
                              "updateSession", "addProjects", "removeProject", "complete", "deleteSession"}
          /\ x.requests \subseteq Request /\ x.projects \subseteq Project
          /\ x.committees \in 0 .. MaxCommittees /\ x.sessions \in 0 .. MaxSessions
          /\ x.given \in 0 .. x.committees
          /\ x.seats \in [Role -> SUBSET Teacher] /\ x.supervisors \subseteq Teacher
          /\ x.statuses \subseteq Status /\ x.longest \in Nat

\* A row of defense_committees with its rows of committee_members and
\* committee_external_reviewers.
Committee == [live : BOOLEAN, members : SUBSET (Teacher \X Fixed), externals : SUBSET Teacher]

\* A row of defense_sessions with its rows of defense_session_projects: the
\* order_index of each project it holds, 0 for the others.
Session == [live : BOOLEAN, committee : CommitteeId, status : Status,
            order : [Project -> 0 .. MaxOrder]]

ASSUME DefenseAbsence == NoRow \notin Committee \cup Session

VARIABLES
    scope,       \* the scope of this behaviour, a bound on it
    supervisor,  \* teacher_id of each project
    committee, session,
    pc,          \* where each handler is
    arg          \* its input and the values it read

vars == <<supervisor, committee, session, pc, arg, scope>>

NoArg == [op |-> "none"]

-----------------------------------------------------------------------------
(* What the rows say *)

Committees == {c \in CommitteeId : committee[c] # NoRow}
Sessions   == {s \in SessionId : session[s] # NoRow}

LiveCommittees == {c \in Committees : committee[c].live}
LiveSessions   == {s \in Sessions : session[s].live}

Seated(c) == {m[1] : m \in committee[c].members}

Holds(s) == {p \in Project : session[s].order[p] > 0}

LastOrder(s) == Max({session[s].order[p] : p \in Project} \cup {0})

\* checkTeacherConflicts: a fixed member of another live committee.
Conflicts(t, others) == \E c \in LiveCommittees \cap others : t \in Seated(c)

\* assertFixedMembersAvailable
Available(seat, others) == \A f \in Fixed : ~Conflicts(seat[f], others)

\* assertCommitteeComposition: every seat is taken, by different teachers.
Composed(seat) ==
    /\ \A role \in Role : seat[role] # NoTeacher
    /\ \A role, other \in Role : seat[role] = seat[other] => role = other

\* Mutant: external reviewers may supervise what they hear.
Assignable_MembersOnly(c, ids) == \A p \in ids : supervisor[p] \notin Seated(c)

\* validateProjectAssignments, which takes deleted committees too.
Assignable(c, ids) == \A p \in ids : supervisor[p] \notin Seated(c) \cup committee[c].externals

\* What an update leaves out keeps its present holder, for the check at least.
Composition(seat, c) ==
    [role \in Role |->
        IF seat[role] # NoTeacher THEN seat[role]
        ELSE LET now == IF role \in Fixed THEN {m[1] : m \in {x \in committee[c].members : x[2] = role}}
                        ELSE committee[c].externals
             IN  IF now = {} THEN NoTeacher ELSE CHOOSE t \in now : TRUE]

\* Mutant: the seats a request leaves blank are inserted too.
Members_Blank(seat) == {<<seat[f], f>> : f \in Fixed}

Members(seat) == {<<seat[f], f>> : f \in {g \in Fixed : seat[g] # NoTeacher}}

\* Seats a request may name, and the lists of projects it may give.
Offered(role) == scope.seats[role] \cup {NoTeacher}
SeatsGiven ==
    {[CHAIRMAN |-> a, SECRETARY |-> b, INTERNAL_REVIEWER |-> c, EXTERNAL_REVIEWER |-> d] :
        a \in Offered("CHAIRMAN"), b \in Offered("SECRETARY"),
        c \in Offered("INTERNAL_REVIEWER"), d \in Offered("EXTERNAL_REVIEWER")}
ProjectLists == BoundedSeq(scope.projects, scope.longest)

NoDuplicates(ids) == \A i, j \in DOMAIN ids : ids[i] = ids[j] => i = j

\* Where a list names a project first.
Place(ids, p) == Min({i \in DOMAIN ids : ids[i] = p})

-----------------------------------------------------------------------------
(* Steps every handler is made of *)

Free(r, op) == op \in scope.ops /\ r \in scope.requests /\ pc[r] = "idle"

Begin(r, step, a) ==
    /\ pc'  = [pc EXCEPT ![r] = step]
    /\ arg' = [arg EXCEPT ![r] = a]
    /\ UNCHANGED <<supervisor, committee, session>>

Go(r, step) == pc' = [pc EXCEPT ![r] = step]

Finish(r) ==
    /\ Go(r, "idle")
    /\ arg' = [arg EXCEPT ![r] = NoArg]

\* A statement fails: an assertion throws or the database refuses it.
Fail(r) ==
    /\ pc[r] # "idle"
    /\ Finish(r)
    /\ UNCHANGED <<supervisor, committee, session>>

SetSession(s, row) == session' = [session EXCEPT ![s] = row] /\ UNCHANGED <<supervisor, committee>>

SetOrder(s, order) == SetSession(s, [session[s] EXCEPT !.order = order])

SetCommittee(c, row) == committee' = [committee EXCEPT ![c] = row] /\ UNCHANGED <<supervisor, session>>

-----------------------------------------------------------------------------
(* createCommittee *)

CreateCommitteeCheck(r, seat) ==
    /\ Composed(seat) /\ Available(seat, CommitteeId)
    /\ Begin(r, "committee", [op |-> "createCommittee", seat |-> seat])

CreateCommittee(r) ==
    /\ pc[r] = "committee"
    /\ \E c \in CommitteeId :
          /\ c <= scope.committees /\ c = Cardinality(Committees) + 1
          /\ SetCommittee(c, [live |-> TRUE, members |-> {}, externals |-> {}])
          /\ arg' = [arg EXCEPT ![r] = [op |-> "committee", id |-> c, seat |-> arg[r].seat]]
    /\ Go(r, "members")

\* createMany of the internal members the request names; an update skips duplicates.
AddMembers(r) ==
    /\ pc[r] = "members"
    /\ LET c == arg[r].id
       IN  SetCommittee(c, [committee[c] EXCEPT !.members =
              @ \cup {m \in Members(arg[r].seat) : m[1] \notin Seated(c)}])
    /\ IF arg[r].seat["EXTERNAL_REVIEWER"] = NoTeacher THEN Finish(r)
       ELSE /\ Go(r, IF arg[r].op = "updateCommittee" THEN "dropExternal" ELSE "external")
            /\ UNCHANGED arg

AddExternal(r) ==
    /\ pc[r] = "external"
    /\ LET a == arg[r]
       IN  /\ a.seat["EXTERNAL_REVIEWER"] \notin committee[a.id].externals
           /\ SetCommittee(a.id, [committee[a.id] EXCEPT !.externals = @ \cup {a.seat["EXTERNAL_REVIEWER"]}])
    /\ Finish(r)

-----------------------------------------------------------------------------
(* updateCommittee and deleteCommittee *)

UpdateCommitteeCheck(r, c, seat) ==
    /\ committee[c].live
    /\ \E role \in Role : seat[role] # NoTeacher
    /\ Composed(Composition(seat, c))
    /\ Available(Composition(seat, c), CommitteeId \ {c})
    /\ Begin(r, IF Members(seat) # {} THEN "dropMembers" ELSE "dropExternal",
             [op |-> "updateCommittee", id |-> c, seat |-> seat])

\* Every internal member goes, those of the seats the request leaves out too.
DropMembers(r) ==
    /\ pc[r] = "dropMembers"
    /\ SetCommittee(arg[r].id, [committee[arg[r].id] EXCEPT !.members = {}])
    /\ Go(r, "members") /\ UNCHANGED arg

DropExternal(r) ==
    /\ pc[r] = "dropExternal"
    /\ SetCommittee(arg[r].id, [committee[arg[r].id] EXCEPT !.externals = {}])
    /\ Go(r, "external") /\ UNCHANGED arg

DeleteCommitteeCheck(r, c) ==
    /\ committee[c].live
    /\ \A s \in LiveSessions : session[s].committee # c
    /\ Begin(r, "deleteCommittee", [op |-> "deleteCommittee", id |-> c])

DeleteCommittee(r) ==
    /\ pc[r] = "deleteCommittee"
    /\ SetCommittee(arg[r].id, [committee[arg[r].id] EXCEPT !.live = FALSE])
    /\ Finish(r)

-----------------------------------------------------------------------------
(* validateProjectAssignments, in the three handlers that add projects *)

\* Where a handler goes when the projects may be heard.
AfterValidation == [createSession |-> "session", addProjects |-> "last", updateSession |-> "prune"]

Validate(r) ==
    /\ pc[r] = "validate"
    /\ Assignable(arg[r].committee, Range(arg[r].ids))
    /\ Go(r, AfterValidation[arg[r].op])
    /\ UNCHANGED <<supervisor, committee, session, arg>>

-----------------------------------------------------------------------------
(* createDefenseSession *)

CreateSessionCheck(r, c, ids) ==
    /\ committee[c].live
    /\ Begin(r, IF ids = <<>> THEN "session" ELSE "validate",
             [op |-> "createSession", committee |-> c, ids |-> ids])

CreateSession(r) ==
    /\ pc[r] = "session"
    /\ \E s \in SessionId :
          /\ s <= scope.sessions /\ s = Cardinality(Sessions) + 1
          /\ SetSession(s, [live |-> TRUE, committee |-> arg[r].committee, status |-> "SCHEDULED",
                            order |-> [p \in Project |-> 0]])
          /\ IF arg[r].ids = <<>> THEN Finish(r)
             ELSE /\ Go(r, "append")
                  /\ arg' = [arg EXCEPT ![r] = [op |-> "append", id |-> s, ids |-> arg[r].ids,
                                                from |-> 0, skip |-> FALSE, renumber |-> FALSE]]

-----------------------------------------------------------------------------
(* addProjectsToSession; createMany for it, for creation and for update *)

AddProjectsCheck(r, s, ids) ==
    /\ session[s].live /\ ids # <<>>
    /\ Begin(r, "validate",
             [op |-> "addProjects", id |-> s, committee |-> session[s].committee, ids |-> ids])

\* Mutant: the new rows are numbered from the number of rows.
ReadLast_Count(r) ==
    /\ pc[r] = "last"
    /\ arg' = [arg EXCEPT ![r] = [op |-> "append", id |-> arg[r].id, ids |-> arg[r].ids,
                                  from |-> Cardinality(Holds(arg[r].id)), skip |-> TRUE, renumber |-> FALSE]]
    /\ Go(r, "append")
    /\ UNCHANGED <<supervisor, committee, session>>

ReadLast(r) ==
    /\ pc[r] = "last"
    /\ arg' = [arg EXCEPT ![r] = [op |-> "append", id |-> arg[r].id, ids |-> arg[r].ids,
                                  from |-> LastOrder(arg[r].id), skip |-> TRUE, renumber |-> FALSE]]
    /\ Go(r, "append")
    /\ UNCHANGED <<supervisor, committee, session>>

\* Only an addition skips what the session holds already, which leaves gaps; elsewhere
\* the index refuses a project given or held twice.
AddRows(r) ==
    /\ pc[r] = "append"
    /\ LET a == arg[r]
           added == Range(a.ids) \ Holds(a.id)
       IN  /\ a.skip \/ (NoDuplicates(a.ids) /\ added = Range(a.ids))
           /\ a.from + Len(a.ids) <= MaxOrder
           /\ SetOrder(a.id, [p \in Project |-> IF p \in added THEN a.from + Place(a.ids, p) ELSE session[a.id].order[p]])
    /\ IF arg[r].renumber THEN Go(r, "list") /\ UNCHANGED arg ELSE Finish(r)

-----------------------------------------------------------------------------
(* updateDefenseSession *)

\* A completed session is closed to updates, and to nothing else.
UpdateSessionCheck(r, s, status, ids) ==
    /\ session[s].live /\ session[s].status # "COMPLETED"
    /\ Begin(r, "status",
             [op |-> "updateSession", id |-> s, committee |-> session[s].committee,
              status |-> status, ids |-> ids])

\* A request without a list of projects goes straight to the numbering.
UpdateStatus(r) ==
    /\ pc[r] = "status"
    /\ SetSession(arg[r].id, [session[arg[r].id] EXCEPT !.status = arg[r].status])
    /\ (Go(r, "plan") \/ Go(r, "list")) /\ UNCHANGED arg

\* The rows are read: what to remove, what to add in the order given, and the last position.
Plan(r) ==
    /\ pc[r] = "plan"
    /\ LET a == arg[r]
           held == Holds(a.id)
       IN  \E add \in SetToSeqs(Range(a.ids) \ held) :
              /\ \A i, j \in DOMAIN add : i < j => Place(a.ids, add[i]) < Place(a.ids, add[j])
              /\ arg' = [arg EXCEPT ![r] =
                    [op |-> "updateSession", id |-> a.id, committee |-> a.committee, ids |-> a.ids,
                     remove |-> held \ Range(a.ids), add |-> add, last |-> LastOrder(a.id)]]
    /\ Go(r, IF arg[r].ids = <<>> THEN "prune" ELSE "validate")
    /\ UNCHANGED <<supervisor, committee, session>>

Prune(r) ==
    /\ pc[r] = "prune"
    /\ LET a == arg[r]
       IN  /\ SetOrder(a.id, [p \in Project |-> IF p \in a.remove THEN 0 ELSE session[a.id].order[p]])
           /\ arg' = [arg EXCEPT ![r] = [op |-> "append", id |-> a.id, ids |-> a.add, from |-> a.last,
                                         skip |-> FALSE, renumber |-> TRUE]]
           /\ Go(r, IF a.add = <<>> THEN "list" ELSE "append")

-----------------------------------------------------------------------------
(* The rows in order, and their new numbers one by one *)

List(r) ==
    /\ pc[r] = "list"
    /\ LET s == arg[r].id
           ordered(q) == \A i, j \in DOMAIN q : i < j => session[s].order[q[i]] <= session[s].order[q[j]]
       IN  \E q \in SetToSeqs(Holds(s)) :
              /\ ordered(q)
              /\ IF q = <<>> THEN Finish(r)
                 ELSE /\ arg' = [arg EXCEPT ![r] = [op |-> "renumber", id |-> s, rows |-> q, next |-> 1]]
                      /\ Go(r, "renumber")
    /\ UNCHANGED <<supervisor, committee, session>>

\* Mutant: the first row is left as it was.
Renumber_NotFirst(r) ==
    /\ pc[r] = "renumber"
    /\ LET a == arg[r]
           p == a.rows[a.next]
       IN  /\ p \in Holds(a.id)
           /\ SetOrder(a.id, IF a.next = 1 THEN session[a.id].order
                             ELSE [session[a.id].order EXCEPT ![p] = a.next])
           /\ IF a.next = Len(a.rows) THEN Finish(r)
              ELSE arg' = [arg EXCEPT ![r].next = @ + 1] /\ UNCHANGED pc

\* A row that has gone meanwhile makes the update fail.
Renumber(r) ==
    /\ pc[r] = "renumber"
    /\ LET a == arg[r]
           p == a.rows[a.next]
       IN  /\ p \in Holds(a.id)
           /\ SetOrder(a.id, [session[a.id].order EXCEPT ![p] = a.next])
           /\ IF a.next = Len(a.rows) THEN Finish(r)
              ELSE arg' = [arg EXCEPT ![r].next = @ + 1] /\ UNCHANGED pc

-----------------------------------------------------------------------------
(* removeProjectFromSession, completeDefenseSession, deleteDefenseSession *)

RemoveProjectCheck(r, s, p) ==
    /\ p \in Holds(s)
    /\ Begin(r, "remove", [op |-> "removeProject", id |-> s, project |-> p])

RemoveProject(r) ==
    /\ pc[r] = "remove"
    /\ LET a == arg[r]
       IN  /\ a.project \in Holds(a.id)
           /\ SetOrder(a.id, [session[a.id].order EXCEPT ![a.project] = 0])
           /\ arg' = [arg EXCEPT ![r] = [op |-> "list", id |-> a.id]]
    /\ Go(r, "list")

\* A session of any status is completed, a cancelled one too.
CompleteCheck(r, s) ==
    /\ session[s].live
    /\ Begin(r, "complete", [op |-> "complete", id |-> s])

Complete(r) ==
    /\ pc[r] = "complete"
    /\ SetSession(arg[r].id, [session[arg[r].id] EXCEPT !.status = "COMPLETED"])
    /\ Finish(r)

DeleteSessionCheck(r, s) ==
    /\ session[s].live
    /\ Begin(r, "empty", [op |-> "deleteSession", id |-> s])

Empty(r) ==
    /\ pc[r] = "empty"
    /\ SetOrder(arg[r].id, [p \in Project |-> 0])
    /\ Go(r, "deleteSession") /\ UNCHANGED arg

DeleteSession(r) ==
    /\ pc[r] = "deleteSession"
    /\ SetSession(arg[r].id, [session[arg[r].id] EXCEPT !.live = FALSE])
    /\ Finish(r)

-----------------------------------------------------------------------------
(* The specification *)

Full == {seat \in SeatsGiven : Composed(seat)}

\* The first committees of the scope are there, composed and apart.
Init ==
    /\ scope \in Scopes
    /\ supervisor \in [Project -> Teacher]
    /\ \A p \in Project : supervisor[p] \in scope.supervisors
    /\ \A p, q \in Project \ scope.projects : supervisor[p] = supervisor[q]
    /\ \E seat \in [1 .. scope.given -> Full] :
          committee = [c \in CommitteeId |->
              IF c <= scope.given
              THEN [live |-> TRUE, members |-> Members(seat[c]), externals |-> {seat[c]["EXTERNAL_REVIEWER"]}]
              ELSE NoRow]
    /\ \A c, d \in LiveCommittees : Seated(c) \cap Seated(d) # {} => c = d
    /\ session = [s \in SessionId |-> NoRow]
    /\ pc = [r \in Request |-> "idle"] /\ arg = [r \in Request |-> NoArg]

CommitteeArrives(r) ==
    \/ Free(r, "createCommittee") /\ \E seat \in Full : CreateCommitteeCheck(r, seat)
    \/ \E c \in Committees :
          \/ Free(r, "updateCommittee") /\ \E seat \in SeatsGiven : UpdateCommitteeCheck(r, c, seat)
          \/ Free(r, "deleteCommittee") /\ DeleteCommitteeCheck(r, c)

SessionArrives(r) ==
    \/ Free(r, "createSession")
       /\ \E c \in Committees, ids \in ProjectLists : CreateSessionCheck(r, c, ids)
    \/ \E s \in Sessions :
          \/ Free(r, "addProjects") /\ \E ids \in ProjectLists : AddProjectsCheck(r, s, ids)
          \/ Free(r, "updateSession")
             /\ \E status \in scope.statuses, ids \in ProjectLists :
                   NoDuplicates(ids) /\ UpdateSessionCheck(r, s, status, ids)
          \/ Free(r, "removeProject") /\ \E p \in Project : RemoveProjectCheck(r, s, p)
          \/ Free(r, "complete") /\ CompleteCheck(r, s)
          \/ Free(r, "deleteSession") /\ DeleteSessionCheck(r, s)

Proceed(r) ==
    \/ CreateCommittee(r)
    \/ AddMembers(r)
    \/ AddExternal(r)
    \/ DropMembers(r)
    \/ DropExternal(r)
    \/ DeleteCommittee(r)
    \/ Validate(r)
    \/ CreateSession(r)
    \/ ReadLast(r)
    \/ AddRows(r)
    \/ UpdateStatus(r)
    \/ Plan(r)
    \/ Prune(r)
    \/ List(r)
    \/ Renumber(r)
    \/ RemoveProject(r)
    \/ Complete(r)
    \/ Empty(r)
    \/ DeleteSession(r)

Next == \E r \in Request : CommitteeArrives(r) \/ SessionArrives(r) \/ Proceed(r) \/ Fail(r)

Spec == Init /\ [][Next /\ UNCHANGED scope]_vars

-----------------------------------------------------------------------------
(* Properties *)

\* The variables have their types.
TypeOK ==
    /\ supervisor \in [Project -> Teacher]
    /\ committee \in [CommitteeId -> Committee \cup {NoRow}]
    /\ session \in [SessionId -> Session \cup {NoRow}]

\* In this behaviour requests come one after the other; each may still break off.
OneByOne == Cardinality(scope.requests) = 1

\* No teacher is a fixed member of two committees that live, and he has one seat in his
\* committee at most, whatever updates left out, moved or broke off
\* (assertFixedMembersAvailable).
FixedMembersOnce ==
    \A c, d \in LiveCommittees : \A m \in committee[c].members, n \in committee[d].members :
        m[1] = n[1] => c = d /\ m = n

\* A committee that was deleted has no session that lives and a session that was deleted
\* holds no project, wherever the deletion broke off (deleteCommittee, deleteDefenseSession).
DeletedIsEmpty ==
    /\ \A s \in LiveSessions : committee[session[s].committee].live
    /\ \A s \in Sessions \ LiveSessions : Holds(s) = {}

\* Two projects of a session never share a position, though additions leave gaps and
\* renumbering breaks off (order_index).
PositionsDistinct ==
    \A s \in Sessions : \A p, q \in Holds(s) : session[s].order[p] = session[s].order[q] => p = q

\* With requests one after the other, each of which may break off after any of its
\* statements, committees share nobody, what is deleted holds nothing and the projects of
\* a session stand in a line.
DefenseSound == OneByOne => FixedMembersOnce /\ DeletedIsEmpty /\ PositionsDistinct

\* Requests of sessions may overlap with each other, though not with those that seat a
\* committee: a project enters a session only while its supervisor has no seat, inside or
\* outside, in the committee (validateProjectAssignments).
SupervisorsKeptOut ==
    [][OneByOne \/ scope.ops \cap {"createCommittee", "updateCommittee"} = {} =>
       \A s \in Sessions : \A p \in Project :
          session[s].order[p] = 0 /\ session'[s].order[p] > 0
          => LET c == session[s].committee
             IN  supervisor[p] \notin Seated(c) \cup committee[c].externals]_vars

\* With requests one after the other, an update or a removal that gets to its end leaves
\* the projects of the session at 1, 2, 3 and so on, whatever gaps it found.
PositionsClosedUp ==
    [][\A r \in scope.requests :
          OneByOne /\ pc[r] = "renumber" /\ pc'[r] = "idle" /\ session' # session
          => LET s == arg[r].id
             IN  {session'[s].order[p] : p \in Holds(s)} = 1 .. Cardinality(Holds(s))]_vars

=============================================================================
