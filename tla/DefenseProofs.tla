----------------------------- MODULE DefenseProofs -----------------------------
(***************************************************************************)
(* Defense is type-correct and sound for every number of teachers,          *)
(* projects, committees, sessions and requests.                             *)
(***************************************************************************)
EXTENDS Defense, FiniteSetTheorems, TLAPS

Step == {"idle", "committee", "members", "external", "dropMembers", "dropExternal", "deleteCommittee",
         "validate", "session", "last", "append", "status", "plan", "prune", "list", "renumber",
         "remove", "complete", "empty", "deleteSession"}

\* The steps of a handler that changes who sits in a committee.
Seating == {"committee", "members", "external", "dropMembers", "dropExternal"}

\* The steps of a handler that has a session.
OnSession == {"last", "append", "status", "plan", "prune", "list", "renumber", "remove", "complete", "empty", "deleteSession"}

HasSession(q) == pc[q] \in OnSession \/ (pc[q] = "validate" /\ arg[q].op # "createSession")

\* A handler that knows which projects it removes and adds.
Planned(q) == pc[q] = "prune" \/ (pc[q] = "validate" /\ arg[q].op = "updateSession")

Seats == [Role -> Teacher \cup {NoTeacher}]

CommitteeArg(q) ==
    /\ pc[q] \in Seating => arg[q].seat \in Seats
    /\ pc[q] \in (Seating \ {"committee"}) \cup {"deleteCommittee"} => arg[q].id \in Committees
    /\ pc[q] \in {"external", "dropExternal"} => arg[q].seat["EXTERNAL_REVIEWER"] # NoTeacher

SessionArg(q) ==
    /\ HasSession(q) => arg[q].id \in Sessions
    /\ pc[q] = "validate" => arg[q].op \in {"createSession", "addProjects", "updateSession"}
    /\ pc[q] \in {"validate", "session", "last", "append", "status", "plan"} => arg[q].ids \in Seq(Project)
    /\ pc[q] \in {"validate", "session", "status", "plan"} => arg[q].committee \in CommitteeId
    /\ pc[q] = "status" => arg[q].status \in Status
    /\ Planned(q) => arg[q].add \in Seq(Project) /\ arg[q].last \in 0 .. MaxOrder
    /\ pc[q] = "append" => arg[q].from \in 0 .. MaxOrder
    /\ pc[q] = "renumber" =>
          /\ arg[q].rows \in Seq(Project) /\ Len(arg[q].rows) <= MaxOrder
          /\ arg[q].next \in 1 .. Len(arg[q].rows)

Held(q) ==
    /\ pc[q] # "idle" => q \in scope.requests
    /\ pc[q] \in Seating => scope.ops \cap {"createCommittee", "updateCommittee"} # {}
    /\ CommitteeArg(q) /\ SessionArg(q)

Inv ==
    /\ scope \in Scopes
    /\ pc \in [Request -> Step] /\ arg = [q \in Request |-> arg[q]]
    /\ TypeOK
    /\ \E k \in Nat : Sessions = 1 .. k
    /\ \A q \in Request : Held(q)

-----------------------------------------------------------------------------
(* Supervisors *)

\* What a handler has made sure of before it adds projects.
Validated(q) ==
    /\ pc[q] \in {"status", "plan"} \/ (pc[q] = "validate" /\ arg[q].op # "createSession")
          => arg[q].committee = session[arg[q].id].committee
    /\ Planned(q) => Range(arg[q].add) \subseteq Range(arg[q].ids)
    /\ pc[q] = "session" => Assignable(arg[q].committee, Range(arg[q].ids))
    /\ pc[q] \in {"last", "append"} => Assignable(session[arg[q].id].committee, Range(arg[q].ids))
    /\ pc[q] = "prune" => Assignable(session[arg[q].id].committee, Range(arg[q].add))

SupervisorsInv ==
    OneByOne \/ scope.ops \cap {"createCommittee", "updateCommittee"} = {}
    => \A q \in Request : Validated(q)

-----------------------------------------------------------------------------
(* Requests one by one *)

\* The seats a request names are for different teachers, who sit in no other committee.
SeatsFit(q) ==
    /\ pc[q] = "committee" => \A f \in Fixed : ~Conflicts(arg[q].seat[f], CommitteeId)
    /\ pc[q] \in {"members", "dropMembers"} =>
          \A f \in Fixed : arg[q].seat[f] # NoTeacher => ~Conflicts(arg[q].seat[f], CommitteeId \ {arg[q].id})
    /\ pc[q] \in {"committee", "members", "dropMembers"} =>
          \A f, g \in Fixed : arg[q].seat[f] # NoTeacher /\ arg[q].seat[f] = arg[q].seat[g] => f = g

\* What a request has is not deleted, nor does it delete what is used.
Lives(q) ==
    /\ HasSession(q) => session[arg[q].id].live
    /\ pc[q] = "session" \/ (pc[q] = "validate" /\ arg[q].op = "createSession") => committee[arg[q].committee].live
    /\ pc[q] = "deleteCommittee" => \A s \in LiveSessions : session[s].committee # arg[q].id
    /\ pc[q] = "deleteSession" => Holds(arg[q].id) = {}

\* The rows that are numbered already, and those still to be numbered, in their order.
Numbered(q) ==
    LET a == arg[q]
        order == session[a.id].order
    IN  /\ Range(a.rows) = Holds(a.id) /\ NoDuplicates(a.rows) /\ Len(a.rows) = Cardinality(Holds(a.id))
        /\ \A i \in 1 .. Len(a.rows) : i < a.next => order[a.rows[i]] = i
        /\ \A i \in 1 .. Len(a.rows) : i >= a.next => order[a.rows[i]] >= i
        /\ \A i, j \in 1 .. Len(a.rows) : i < j => order[a.rows[i]] < order[a.rows[j]]

\* The last position a request has read still is, or is past, the last.
PlacesFree(q) ==
    /\ Planned(q) => \A p \in Holds(arg[q].id) : session[arg[q].id].order[p] <= arg[q].last
    /\ Planned(q) => NoDuplicates(arg[q].add)
    /\ pc[q] = "append" => \A p \in Holds(arg[q].id) : session[arg[q].id].order[p] <= arg[q].from
    /\ pc[q] = "renumber" => Numbered(q)

AloneInv ==
    OneByOne =>
        /\ FixedMembersOnce /\ DeletedIsEmpty /\ PositionsDistinct
        /\ \A q \in Request : SeatsFit(q) /\ Lives(q) /\ PlacesFree(q)

-----------------------------------------------------------------------------
(* Operators *)

\* A set of natural numbers that is not empty has a least one.
LEMMA MinOf ==
    ASSUME NEW S \in SUBSET Nat, S # {}
    PROVE  Min(S) \in S /\ \A n \in S : Min(S) <= n
<1> DEFINE T == {1 .. n : n \in S}
<1>1. T \subseteq FiniteSubsetsOf(Nat)
  <2> SUFFICES ASSUME NEW n \in S PROVE 1 .. n \in FiniteSubsetsOf(Nat)
    OBVIOUS
  <2>1. n \in Nat /\ IsFiniteSet(1 .. n)
    BY FS_Interval
  <2> QED
    BY <2>1 DEF FiniteSubsetsOf
<1>2. T # {}
  OBVIOUS
<1>3. PICK x \in T : \A y \in T : ~(<<y, x>> \in StrictSubsetOrdering(Nat))
  <2> HIDE DEF T
  <2> QED
    BY <1>1, <1>2, FS_StrictSubsetOrderingWellFounded, WFMin
<1>4. PICK n \in S : x = 1 .. n
  OBVIOUS
<1>5. ASSUME NEW m \in S PROVE n <= m
  <2>1. SUFFICES ASSUME m < n PROVE FALSE
    OBVIOUS
  <2>2. 1 .. m \in T
    OBVIOUS
  <2>3. 1 .. m \subseteq 1 .. n /\ n \in 1 .. n /\ n \notin 1 .. m
    BY <2>1
  <2>4. 1 .. m \in SUBSET Nat /\ 1 .. n \in SUBSET Nat
    OBVIOUS
  <2>5. <<1 .. m, 1 .. n>> \in StrictSubsetOrdering(Nat)
    BY <2>3, <2>4 DEF StrictSubsetOrdering
  <2> QED
    BY <1>3, <1>4, <2>2, <2>5
<1> QED
  BY <1>5 DEF Min

\* One that is bounded has a greatest one.
LEMMA MaxOf ==
    ASSUME NEW m \in Nat, NEW S \in SUBSET (0 .. m), S # {}
    PROVE  Max(S) \in S /\ \A n \in S : n <= Max(S)
<1> DEFINE T == {m - n : n \in S}
<1>1. \A n \in S : n \in Nat /\ m - n \in Nat
  OBVIOUS
<1>2. T \in SUBSET Nat /\ T # {} /\ \A n \in S : m - n \in T
  BY <1>1
<1>3. Min(T) \in T /\ \A n \in T : Min(T) <= n
  BY <1>2, MinOf
<1>4. PICK x \in S : Min(T) = m - x
  BY <1>3
<1> HIDE DEF T
<1>5. ASSUME NEW n \in S PROVE n <= x
  BY <1>1, <1>2, <1>3, <1>4
<1>6. \E y \in S : \A n \in S : y >= n
  BY <1>1, <1>5
<1>7. Max(S) \in S /\ \A n \in S : Max(S) >= n
  BY <1>6 DEF Max
<1> QED
  BY <1>1, <1>7

\* A list that names every element of a set once.
LEMMA ListOf ==
    ASSUME NEW S, IsFiniteSet(S), NEW q \in SetToSeqs(S)
    PROVE  q \in Seq(S) /\ Len(q) = Cardinality(S) /\ NoDuplicates(q) /\ Range(q) = S
<1> DEFINE n == Cardinality(S)
<1>1. n \in Nat
  BY FS_CardinalityType
<1>2. q \in [1 .. n -> S] /\ \A i, j \in 1 .. n : i # j => q[i] # q[j]
  BY DEF SetToSeqs
<1>3. q \in Seq(S) /\ Len(q) = n /\ DOMAIN q = 1 .. n
  BY <1>1, <1>2
<1>4. NoDuplicates(q)
  BY <1>2, <1>3 DEF NoDuplicates
<1>5. Range(q) \subseteq S
  BY <1>2, <1>3 DEF Range
<1>6. q \in Bijection(1 .. n, Range(q))
  BY <1>2, <1>3 DEF Bijection, Injection, IsInjective, Surjection, Range
<1>7. Cardinality(Range(q)) = n
  BY <1>1, <1>6, FS_Bijection, FS_Interval DEF ExistsBijection
<1> QED
  BY <1>3, <1>4, <1>5, <1>7, FS_Subset

LEMMA PlaceIs ==
    ASSUME NEW ids \in Seq(Project), NEW p \in Range(ids)
    PROVE  Place(ids, p) \in 1 .. Len(ids) /\ ids[Place(ids, p)] = p
<1> DEFINE at == {i \in DOMAIN ids : ids[i] = p}
<1>1. at \in SUBSET Nat /\ at # {} /\ at \subseteq 1 .. Len(ids)
  BY DEF Range
<1>2. Min(at) \in at
  BY <1>1, MinOf
<1> QED
  BY <1>1, <1>2 DEF Place

-----------------------------------------------------------------------------
(* What a step leaves alone *)

OnlyAt(r) == pc' = [pc EXCEPT ![r] = pc'[r]] /\ arg' = [arg EXCEPT ![r] = arg'[r]]

Grows == Committees \subseteq Committees' /\ Sessions \subseteq Sessions' /\ \E k \in Nat : Sessions' = 1 .. k

LEMMA StepKeeps ==
    ASSUME Inv, NEW r \in Request, OnlyAt(r), scope' = scope, TypeOK', Grows, pc'[r] \in Step, Held(r)'
    PROVE  Inv'
<1>1. ASSUME NEW q \in Request, q # r PROVE Held(q)'
  <2>1. pc'[q] = pc[q] /\ arg'[q] = arg[q] /\ Held(q)
    BY <1>1 DEF OnlyAt, Inv
  <2>2. CommitteeArg(q)'
    BY <2>1 DEF Held, CommitteeArg, Grows
  <2>3. SessionArg(q)'
    BY <2>1 DEF Held, SessionArg, HasSession, Planned, Grows
  <2> QED
    BY <2>1, <2>2, <2>3 DEF Held
<1>2. pc' \in [Request -> Step] /\ arg' = [q \in Request |-> arg'[q]]
  BY DEF Inv, OnlyAt
<1> QED
  BY <1>1, <1>2 DEF Inv, Grows

LEMMA DbKept ==
    ASSUME Inv, UNCHANGED <<supervisor, committee, session>>
    PROVE  TypeOK' /\ Grows
BY DEF Inv, TypeOK, Grows, Committees, Sessions

\* What a request gets to when it begins, and when it ends.
LEMMA Begun ==
    ASSUME Inv, NEW r \in Request, NEW step, NEW a, Begin(r, step, a)
    PROVE  /\ OnlyAt(r) /\ pc'[r] = step /\ arg'[r] = a
           /\ supervisor' = supervisor /\ committee' = committee /\ session' = session
BY DEF Begin, OnlyAt, Inv

LEMMA Gone ==
    ASSUME Inv, NEW r \in Request, NEW step, Go(r, step)
    PROVE  /\ pc'[r] = step
           /\ UNCHANGED arg => OnlyAt(r)
           /\ \A a : arg' = [arg EXCEPT ![r] = a] => OnlyAt(r) /\ arg'[r] = a
BY DEF Go, OnlyAt, Inv

LEMMA HeldIdle ==
    ASSUME NEW r \in Request, pc'[r] = "idle"
    PROVE  Held(r)'
BY DEF Held, CommitteeArg, SessionArg, HasSession, Planned, Seating, OnSession

LEMMA Finished ==
    ASSUME Inv, NEW r \in Request, Finish(r)
    PROVE  OnlyAt(r) /\ pc'[r] = "idle" /\ Held(r)' /\ pc'[r] \in Step
<1>1. OnlyAt(r) /\ pc'[r] = "idle"
  BY DEF Finish, Go, OnlyAt, Inv
<1> QED
  BY <1>1, HeldIdle DEF Step

-----------------------------------------------------------------------------
(* Rows *)

LEMMA SessionRead ==
    ASSUME Inv, NEW s \in Sessions
    PROVE  s \in SessionId /\ session[s] \in Session
BY DEF Inv, TypeOK, Sessions

LEMMA CommitteeRead ==
    ASSUME Inv, NEW c \in Committees
    PROVE  c \in CommitteeId /\ committee[c] \in Committee
BY DEF Inv, TypeOK, Committees

LEMMA SessionWritten ==
    ASSUME Inv, NEW s \in SessionId, NEW row \in Session, SetSession(s, row),
           s \in Sessions \/ s = Cardinality(Sessions) + 1
    PROVE  /\ TypeOK' /\ Grows /\ Sessions' = Sessions \cup {s} /\ (s = Cardinality(Sessions) + 1 => s \notin Sessions)
           /\ session'[s] = row /\ \A t \in SessionId \ {s} : session'[t] = session[t]
           /\ supervisor' = supervisor /\ committee' = committee
<1>1. session' = [session EXCEPT ![s] = row] /\ supervisor' = supervisor /\ committee' = committee
  BY DEF SetSession
<1>2. row # NoRow
  BY DefenseAbsence
<1>3. TypeOK' /\ session'[s] = row /\ \A t \in SessionId \ {s} : session'[t] = session[t]
  BY <1>1 DEF Inv, TypeOK
<1>4. Sessions' = Sessions \cup {s}
  BY <1>2, <1>3 DEF Sessions
<1>5. PICK k \in Nat : Sessions = 1 .. k
  BY DEF Inv
<1>6. Cardinality(Sessions) = k
  BY <1>5, FS_Interval
<1>7. \E n \in Nat : Sessions' = 1 .. n
  <2>1. CASE s \in Sessions
    BY <1>4, <1>5, <2>1
  <2>2. CASE s = k + 1
    <3>1. Sessions' = 1 .. (k + 1)
      BY <1>4, <1>5, <2>2
    <3> QED
      BY <3>1
  <2> QED
    BY <1>6, <2>1, <2>2
<1>8. Committees' = Committees
  BY <1>1 DEF Committees
<1> QED
  BY <1>1, <1>3, <1>4, <1>5, <1>6, <1>7, <1>8 DEF Grows

LEMMA OrderWritten ==
    ASSUME Inv, NEW s \in Sessions, NEW order \in [Project -> 0 .. MaxOrder], SetOrder(s, order)
    PROVE  /\ TypeOK' /\ Grows /\ Sessions' = Sessions
           /\ session'[s].order = order /\ session'[s].live = session[s].live
           /\ session'[s].committee = session[s].committee
           /\ \A t \in SessionId \ {s} : session'[t] = session[t]
           /\ supervisor' = supervisor /\ committee' = committee
<1> DEFINE row == [session[s] EXCEPT !.order = order]
<1>1. row \in Session /\ row.order = order /\ row.live = session[s].live /\ row.committee = session[s].committee
  BY SessionRead DEF Session
<1>2. SetSession(s, row)
  BY DEF SetOrder
<1> HIDE DEF row
<1> QED
  BY <1>1, <1>2, SessionRead, SessionWritten

LEMMA CommitteeWritten ==
    ASSUME Inv, NEW c \in CommitteeId, NEW row \in Committee, SetCommittee(c, row)
    PROVE  /\ TypeOK' /\ Grows /\ Committees' = Committees \cup {c}
           /\ committee'[c] = row /\ \A d \in CommitteeId \ {c} : committee'[d] = committee[d]
           /\ supervisor' = supervisor /\ session' = session
<1>1. committee' = [committee EXCEPT ![c] = row] /\ supervisor' = supervisor /\ session' = session
  BY DEF SetCommittee
<1>2. row # NoRow
  BY DefenseAbsence
<1>3. TypeOK' /\ committee'[c] = row /\ \A d \in CommitteeId \ {c} : committee'[d] = committee[d]
  BY <1>1 DEF Inv, TypeOK
<1>4. Committees' = Committees \cup {c}
  BY <1>2, <1>3 DEF Committees
<1> QED
  BY <1>1, <1>3, <1>4 DEF Grows, Inv, Sessions


-----------------------------------------------------------------------------
(* Requests that arrive *)

LEMMA ScopeFits ==
    ASSUME Inv
    PROVE  /\ scope.seats \in [Role -> SUBSET Teacher] /\ scope.statuses \subseteq Status
           /\ scope.projects \subseteq Project /\ scope.longest \in Nat /\ scope.requests \subseteq Request
BY DefenseAssumption DEF Inv

LEMMA SeatsRead ==
    ASSUME Inv, NEW seat \in SeatsGiven
    PROVE  seat \in Seats
<1>1. \A role \in Role : Offered(role) \subseteq Teacher \cup {NoTeacher}
  BY ScopeFits DEF Offered
<1>2. PICK a \in Offered("CHAIRMAN"), b \in Offered("SECRETARY"), c \in Offered("INTERNAL_REVIEWER"),
           d \in Offered("EXTERNAL_REVIEWER") :
           seat = [CHAIRMAN |-> a, SECRETARY |-> b, INTERNAL_REVIEWER |-> c, EXTERNAL_REVIEWER |-> d]
  BY DEF SeatsGiven
<1>3. a \in Teacher \cup {NoTeacher} /\ b \in Teacher \cup {NoTeacher} /\ c \in Teacher \cup {NoTeacher}
      /\ d \in Teacher \cup {NoTeacher}
  BY <1>1 DEF Role, Fixed
<1> QED
  BY <1>2, <1>3 DEF Seats, Role, Fixed

LEMMA ListsRead ==
    ASSUME Inv, NEW ids \in ProjectLists
    PROVE  ids \in Seq(Project)
<1>1. PICK m \in 0 .. scope.longest : ids \in [1 .. m -> scope.projects]
  BY DEF ProjectLists, BoundedSeq, SeqOf
<1>2. m \in Nat /\ ids \in [1 .. m -> Project]
  BY <1>1, ScopeFits
<1> QED
  BY <1>2

LEMMA EmptyList == <<>> \in Seq(Project) /\ Range(<<>>) = {}
BY DEF Range

LEMMA CommitteeArrivesKeeps ==
    ASSUME Inv, NEW r \in Request, CommitteeArrives(r), scope' = scope
    PROVE  Inv' /\ OnlyAt(r) /\ pc[r] = "idle" /\ pc'[r] # "idle" /\ UNCHANGED <<supervisor, committee, session>>
<1>1. \A step, a : Begin(r, step, a) =>
         /\ OnlyAt(r) /\ pc'[r] = step /\ arg'[r] = a /\ UNCHANGED <<supervisor, committee, session>>
         /\ TypeOK' /\ Grows /\ Committees' = Committees
  BY Begun, DbKept DEF Begin, Committees
<1>2. ASSUME NEW seat \in Full, Free(r, "createCommittee"), CreateCommitteeCheck(r, seat) PROVE Held(r)' /\ pc'[r] \in Step \ {"idle"}
  <2>1. pc'[r] = "committee" /\ arg'[r] = [op |-> "createCommittee", seat |-> seat]
    BY <1>1, <1>2 DEF CreateCommitteeCheck
  <2>2. arg'[r].seat \in Seats
    BY <2>1, SeatsRead DEF Full
  <2>3. CommitteeArg(r)' /\ SessionArg(r)'
    BY <2>1, <2>2 DEF CommitteeArg, SessionArg, HasSession, Planned, OnSession
  <2> QED
    BY <1>2, <2>1, <2>3 DEF Held, Free, Step
<1>3. ASSUME NEW c \in Committees, NEW seat \in SeatsGiven, Free(r, "updateCommittee"), UpdateCommitteeCheck(r, c, seat)
      PROVE  Held(r)' /\ pc'[r] \in Step \ {"idle"}
  <2>1. /\ pc'[r] = IF Members(seat) # {} THEN "dropMembers" ELSE "dropExternal"
        /\ arg'[r] = [op |-> "updateCommittee", id |-> c, seat |-> seat]
    BY <1>1, <1>3 DEF UpdateCommitteeCheck
  <2>2. arg'[r].seat = seat /\ arg'[r].id = c /\ seat \in Seats /\ c \in Committees'
    BY <1>1, <1>3, <2>1, SeatsRead DEF UpdateCommitteeCheck
  <2>3. Members(seat) = {} => seat["EXTERNAL_REVIEWER"] # NoTeacher
    <3>1. ASSUME NEW f \in Fixed, Members(seat) = {} PROVE seat[f] = NoTeacher
      BY <3>1 DEF Members
    <3>2. PICK role \in Role : seat[role] # NoTeacher
      BY <1>3 DEF UpdateCommitteeCheck
    <3> QED
      BY <3>1, <3>2 DEF Role
  <2>4. CommitteeArg(r)' /\ SessionArg(r)'
    BY <2>1, <2>2, <2>3 DEF CommitteeArg, SessionArg, HasSession, Planned, OnSession, Seating
  <2> QED
    BY <1>3, <2>1, <2>4 DEF Held, Free, Step
<1>4. ASSUME NEW c \in Committees, Free(r, "deleteCommittee"), DeleteCommitteeCheck(r, c)
      PROVE  Held(r)' /\ pc'[r] \in Step \ {"idle"}
  <2>1. pc'[r] = "deleteCommittee" /\ arg'[r] = [op |-> "deleteCommittee", id |-> c] /\ c \in Committees'
    BY <1>1, <1>4 DEF DeleteCommitteeCheck
  <2>2. CommitteeArg(r)' /\ SessionArg(r)'
    BY <2>1 DEF CommitteeArg, SessionArg, HasSession, Planned, OnSession, Seating
  <2> QED
    BY <1>4, <2>1, <2>2 DEF Held, Free, Seating, Step
<1>5. \E step, a : Begin(r, step, a)
  BY DEF CommitteeArrives, CreateCommitteeCheck, UpdateCommitteeCheck, DeleteCommitteeCheck
<1>6. Held(r)' /\ pc'[r] \in Step \ {"idle"}
  BY <1>2, <1>3, <1>4 DEF CommitteeArrives
<1>7. Inv'
  BY <1>1, <1>5, <1>6, StepKeeps
<1>8. pc[r] = "idle"
  BY DEF CommitteeArrives, Free
<1> QED
  BY <1>1, <1>5, <1>6, <1>7, <1>8

LEMMA SessionArrivesKeeps ==
    ASSUME Inv, NEW r \in Request, SessionArrives(r), scope' = scope
    PROVE  Inv' /\ OnlyAt(r) /\ pc[r] = "idle" /\ pc'[r] # "idle" /\ UNCHANGED <<supervisor, committee, session>>
<1>1. \A step, a : Begin(r, step, a) =>
         /\ OnlyAt(r) /\ pc'[r] = step /\ arg'[r] = a /\ UNCHANGED <<supervisor, committee, session>>
         /\ TypeOK' /\ Grows /\ Sessions' = Sessions
  BY Begun, DbKept DEF Begin, Sessions
<1>2. ASSUME NEW c \in Committees, NEW ids \in ProjectLists, Free(r, "createSession"), CreateSessionCheck(r, c, ids)
      PROVE  Held(r)' /\ pc'[r] \in Step \ {"idle"}
  <2>1. /\ pc'[r] = IF ids = <<>> THEN "session" ELSE "validate"
        /\ arg'[r] = [op |-> "createSession", committee |-> c, ids |-> ids]
    BY <1>1, <1>2 DEF CreateSessionCheck
  <2>2. arg'[r].op = "createSession" /\ arg'[r].committee = c /\ arg'[r].ids = ids /\ ids \in Seq(Project) /\ c \in CommitteeId
    BY <2>1, ListsRead DEF Committees
  <2>3. CommitteeArg(r)' /\ SessionArg(r)'
    BY <2>1, <2>2 DEF CommitteeArg, SessionArg, HasSession, Planned, OnSession, Seating
  <2> QED
    BY <1>2, <2>1, <2>3 DEF Held, Free, Seating, Step
<1>3. ASSUME NEW s \in Sessions, NEW ids \in ProjectLists, Free(r, "addProjects"), AddProjectsCheck(r, s, ids)
      PROVE  Held(r)' /\ pc'[r] \in Step \ {"idle"}
  <2>1. /\ pc'[r] = "validate" /\ s \in Sessions'
        /\ arg'[r] = [op |-> "addProjects", id |-> s, committee |-> session[s].committee, ids |-> ids]
    BY <1>1, <1>3 DEF AddProjectsCheck
  <2>2. /\ arg'[r].op = "addProjects" /\ arg'[r].id = s /\ arg'[r].ids = ids /\ ids \in Seq(Project)
        /\ arg'[r].committee \in CommitteeId
    BY <2>1, ListsRead, SessionRead DEF Session
  <2>3. CommitteeArg(r)' /\ SessionArg(r)'
    BY <2>1, <2>2 DEF CommitteeArg, SessionArg, HasSession, Planned, OnSession, Seating
  <2> QED
    BY <1>3, <2>1, <2>3 DEF Held, Free, Seating, Step
<1>4. ASSUME NEW s \in Sessions, NEW status \in scope.statuses, NEW ids \in ProjectLists, Free(r, "updateSession"),
             UpdateSessionCheck(r, s, status, ids)
      PROVE  Held(r)' /\ pc'[r] \in Step \ {"idle"}
  <2>1. /\ pc'[r] = "status" /\ s \in Sessions'
        /\ arg'[r] = [op |-> "updateSession", id |-> s, committee |-> session[s].committee,
                      status |-> status, ids |-> ids]
    BY <1>1, <1>4 DEF UpdateSessionCheck
  <2>2. /\ arg'[r].id = s /\ arg'[r].ids = ids /\ ids \in Seq(Project) /\ arg'[r].status \in Status
        /\ arg'[r].committee \in CommitteeId
    BY <2>1, ListsRead, ScopeFits, SessionRead DEF Session
  <2>3. CommitteeArg(r)' /\ SessionArg(r)'
    BY <2>1, <2>2 DEF CommitteeArg, SessionArg, HasSession, Planned, OnSession, Seating
  <2> QED
    BY <1>4, <2>1, <2>3 DEF Held, Free, Seating, Step
<1>5. ASSUME NEW s \in Sessions, NEW step \in {"remove", "complete", "empty"}, NEW a, a.id = s, Begin(r, step, a),
             r \in scope.requests
      PROVE  Held(r)' /\ pc'[r] \in Step \ {"idle"}
  <2>1. pc'[r] = step /\ arg'[r].id = s /\ s \in Sessions'
    BY <1>1, <1>5
  <2>2. CommitteeArg(r)' /\ SessionArg(r)'
    BY <2>1 DEF CommitteeArg, SessionArg, HasSession, Planned, OnSession, Seating
  <2> QED
    BY <1>5, <2>1, <2>2 DEF Held, Seating, Step
<1>6. ASSUME NEW s \in Sessions,
             \/ \E p \in Project : RemoveProjectCheck(r, s, p)
             \/ CompleteCheck(r, s)
             \/ DeleteSessionCheck(r, s),
             r \in scope.requests
      PROVE  Held(r)' /\ pc'[r] \in Step \ {"idle"}
  BY <1>5, <1>6 DEF RemoveProjectCheck, CompleteCheck, DeleteSessionCheck
<1>7. Held(r)' /\ pc'[r] \in Step \ {"idle"}
  BY <1>2, <1>3, <1>4, <1>6 DEF SessionArrives, Free
<1>8. \E step, a : Begin(r, step, a)
  BY DEF SessionArrives, CreateSessionCheck, AddProjectsCheck, UpdateSessionCheck, RemoveProjectCheck,
         CompleteCheck, DeleteSessionCheck
<1>9. Inv'
  BY <1>1, <1>7, <1>8, StepKeeps
<1>10. pc[r] = "idle"
  BY DEF SessionArrives, Free
<1> QED
  BY <1>1, <1>7, <1>8, <1>9, <1>10

-----------------------------------------------------------------------------
(* Steps of committees *)

LEMMA MembersAre ==
    ASSUME NEW seat \in Seats
    PROVE  Members(seat) \subseteq Teacher \X Fixed
<1>1. \A f \in Fixed : seat[f] # NoTeacher => seat[f] \in Teacher
  BY DEF Seats, Role
<1> QED
  BY <1>1 DEF Members

LEMMA RowsOfCommittee ==
    ASSUME NEW row \in Committee, NEW members \in SUBSET (Teacher \X Fixed), NEW externals \in SUBSET Teacher
    PROVE  /\ [row EXCEPT !.members = members] \in Committee /\ [row EXCEPT !.members = members].members = members
           /\ [row EXCEPT !.externals = externals] \in Committee /\ [row EXCEPT !.live = FALSE] \in Committee
BY DEF Committee

LEMMA NewCommittee == [live |-> TRUE, members |-> {}, externals |-> {}] \in Committee
BY DEF Committee

LEMMA CreateCommitteeKeeps ==
    ASSUME Inv, NEW r \in Request, CreateCommittee(r), scope' = scope
    PROVE  Inv' /\ OnlyAt(r)
<1> DEFINE row == [live |-> TRUE, members |-> {}, externals |-> {}]
<1>1. pc[r] = "committee" /\ Held(r) /\ Go(r, "members")
  BY DEF CreateCommittee, Inv
<1>2. PICK c \in CommitteeId : /\ SetCommittee(c, row)
                               /\ arg' = [arg EXCEPT ![r] = [op |-> "committee", id |-> c, seat |-> arg[r].seat]]
  BY DEF CreateCommittee
<1>3. row \in Committee
  BY NewCommittee
<1> HIDE DEF row
<1>4. TypeOK' /\ Grows /\ Committees' = Committees \cup {c}
  BY <1>2, <1>3, CommitteeWritten
<1>5. OnlyAt(r) /\ pc'[r] = "members" /\ arg'[r] = [op |-> "committee", id |-> c, seat |-> arg[r].seat]
  BY <1>1, <1>2, Gone
<1>6. arg'[r].id = c /\ arg'[r].seat = arg[r].seat
  BY <1>5
<1>7. Held(r)'
  BY <1>1, <1>4, <1>5, <1>6 DEF Held, CommitteeArg, SessionArg, HasSession, Planned, OnSession, Seating
<1>8. pc'[r] \in Step
  BY <1>5 DEF Step
<1> QED
  BY <1>4, <1>5, <1>7, <1>8, StepKeeps

\* A step of a handler that goes on with what it has, or ends.
LEMMA SeatingGoesOn ==
    ASSUME Inv, NEW r \in Request, scope' = scope, pc[r] \in Seating \ {"committee"}, TypeOK', Grows,
           \/ Finish(r)
           \/ \E step \in {"members", "external", "dropExternal"} :
                 /\ Go(r, step) /\ UNCHANGED arg
                 /\ step = "members" \/ arg[r].seat["EXTERNAL_REVIEWER"] # NoTeacher
    PROVE  Inv' /\ OnlyAt(r)
<1>1. CASE Finish(r)
  BY <1>1, Finished, StepKeeps
<1>2. ASSUME NEW step \in {"members", "external", "dropExternal"}, Go(r, step), UNCHANGED arg,
             step = "members" \/ arg[r].seat["EXTERNAL_REVIEWER"] # NoTeacher
      PROVE  Inv' /\ OnlyAt(r)
  <2>1. OnlyAt(r) /\ pc'[r] = step /\ arg'[r] = arg[r] /\ pc'[r] \in Step
    BY <1>2, Gone DEF Step
  <2>2. Held(r)
    BY DEF Inv
  <2>3. Held(r)'
    BY <1>2, <2>1, <2>2 DEF Held, CommitteeArg, SessionArg, HasSession, Planned, OnSession, Seating, Grows
  <2> QED
    BY <2>1, <2>3, StepKeeps
<1> QED
  BY <1>1, <1>2

LEMMA SeatingKeeps ==
    ASSUME Inv, NEW r \in Request, AddMembers(r) \/ AddExternal(r) \/ DropMembers(r) \/ DropExternal(r), scope' = scope
    PROVE  Inv' /\ OnlyAt(r)
<1> DEFINE c == arg[r].id
<1>1. pc[r] \in Seating \ {"committee"} /\ Held(r)
  BY DEF AddMembers, AddExternal, DropMembers, DropExternal, Seating, Inv
<1>2. c \in Committees /\ c \in CommitteeId /\ committee[c] \in Committee /\ arg[r].seat \in Seats
  BY <1>1, CommitteeRead DEF Held, CommitteeArg
<1>3. committee[c].members \in SUBSET (Teacher \X Fixed) /\ committee[c].externals \in SUBSET Teacher
  BY <1>2 DEF Committee
<1>4. ASSUME NEW row \in Committee, SetCommittee(c, row) PROVE TypeOK' /\ Grows
  BY <1>2, <1>4, CommitteeWritten
<1>5. CASE AddMembers(r)
  <2> DEFINE new == committee[c].members \cup {m \in Members(arg[r].seat) : m[1] \notin Seated(c)}
             row == [committee[c] EXCEPT !.members = new]
  <2>1. SetCommittee(c, row)
    BY <1>5 DEF AddMembers
  <2>2. new \in SUBSET (Teacher \X Fixed)
    BY <1>2, <1>3, MembersAre
  <2>3. row \in Committee
    <3> HIDE DEF new
    <3> QED
      BY <1>2, <1>3, <2>2, RowsOfCommittee
  <2> HIDE DEF row
  <2>4. TypeOK' /\ Grows
    BY <1>4, <2>1, <2>3
  <2>5. \/ Finish(r)
        \/ \E step \in {"external", "dropExternal"} :
              Go(r, step) /\ UNCHANGED arg /\ arg[r].seat["EXTERNAL_REVIEWER"] # NoTeacher
    BY <1>5 DEF AddMembers
  <2> QED
    BY <1>1, <2>4, <2>5, SeatingGoesOn
<1>6. CASE AddExternal(r)
  <2> DEFINE new == committee[c].externals \cup {arg[r].seat["EXTERNAL_REVIEWER"]}
             row == [committee[c] EXCEPT !.externals = new]
  <2>1. SetCommittee(c, row) /\ Finish(r) /\ pc[r] = "external"
    BY <1>6 DEF AddExternal
  <2>2. arg[r].seat["EXTERNAL_REVIEWER"] \in Teacher
    BY <1>1, <1>2, <2>1 DEF Held, CommitteeArg, Seats, Role
  <2>3. row \in Committee
    <3>1. new \in SUBSET Teacher
      BY <1>3, <2>2
    <3> HIDE DEF new
    <3> QED
      BY <1>2, <1>3, <3>1, RowsOfCommittee
  <2> HIDE DEF row
  <2>4. TypeOK' /\ Grows
    BY <1>4, <2>1, <2>3
  <2> QED
    BY <1>1, <2>1, <2>4, SeatingGoesOn
<1>7. CASE DropMembers(r)
  <2> DEFINE row == [committee[c] EXCEPT !.members = {}]
  <2>1. SetCommittee(c, row) /\ Go(r, "members") /\ UNCHANGED arg
    BY <1>7 DEF DropMembers
  <2>2. row \in Committee
    BY <1>2, <1>3, RowsOfCommittee
  <2> HIDE DEF row
  <2> QED
    BY <1>1, <1>4, <2>1, <2>2, SeatingGoesOn
<1>8. CASE DropExternal(r)
  <2> DEFINE row == [committee[c] EXCEPT !.externals = {}]
  <2>1. SetCommittee(c, row) /\ Go(r, "external") /\ UNCHANGED arg /\ pc[r] = "dropExternal"
    BY <1>8 DEF DropExternal
  <2>2. row \in Committee
    BY <1>2, <1>3, RowsOfCommittee
  <2>3. arg[r].seat["EXTERNAL_REVIEWER"] # NoTeacher
    BY <1>1, <2>1 DEF Held, CommitteeArg
  <2> HIDE DEF row
  <2> QED
    BY <1>1, <1>4, <2>1, <2>2, <2>3, SeatingGoesOn
<1> QED
  BY <1>5, <1>6, <1>7, <1>8

LEMMA DeleteCommitteeKeeps ==
    ASSUME Inv, NEW r \in Request, DeleteCommittee(r), scope' = scope
    PROVE  Inv' /\ OnlyAt(r)
<1> DEFINE c == arg[r].id
           row == [committee[c] EXCEPT !.live = FALSE]
<1>1. pc[r] = "deleteCommittee" /\ Held(r) /\ SetCommittee(c, row) /\ Finish(r)
  BY DEF DeleteCommittee, Inv
<1>2. c \in CommitteeId /\ committee[c] \in Committee
  BY <1>1, CommitteeRead DEF Held, CommitteeArg
<1>3. row \in Committee
  BY <1>2, RowsOfCommittee DEF Committee
<1> HIDE DEF row
<1> QED
  BY <1>1, <1>2, <1>3, CommitteeWritten, Finished, StepKeeps

-----------------------------------------------------------------------------
(* Steps of sessions *)

\* The projects of a session are finitely many, and all have a place.
LEMMA HoldsFinite ==
    ASSUME NEW s
    PROVE  IsFiniteSet(Holds(s)) /\ Cardinality(Holds(s)) \in 0 .. MaxOrder /\ Holds(s) \subseteq Project
<1>1. Holds(s) \subseteq Project
  BY DEF Holds
<1>2. IsFiniteSet(Holds(s)) /\ Cardinality(Holds(s)) <= Cardinality(Project)
  BY <1>1, FS_Subset, DefenseAssumption
<1>3. Cardinality(Holds(s)) \in Nat /\ Cardinality(Project) \in Nat
  BY <1>2, FS_CardinalityType, DefenseAssumption
<1> QED
  BY <1>1, <1>2, <1>3, DefenseAssumption

LEMMA LastOrderIs ==
    ASSUME Inv, NEW s \in Sessions
    PROVE  LastOrder(s) \in 0 .. MaxOrder /\ \A p \in Project : session[s].order[p] <= LastOrder(s)
<1> DEFINE S == {session[s].order[p] : p \in Project} \cup {0}
<1>1. S \in SUBSET (0 .. MaxOrder) /\ S # {} /\ MaxOrder \in Nat
  BY SessionRead, DefenseAssumption DEF Session
<1>2. Max(S) \in S /\ \A n \in S : n <= Max(S)
  BY <1>1, MaxOf
<1> QED
  BY <1>1, <1>2 DEF LastOrder

\* A step of a handler that has a session and goes on.
LEMMA SessionGoesOn ==
    ASSUME Inv, NEW r \in Request, scope' = scope, pc[r] \notin {"idle"} \cup Seating, OnlyAt(r), TypeOK', Grows,
           pc'[r] \in Step \ ({"idle", "deleteCommittee"} \cup Seating), SessionArg(r)'
    PROVE  Inv'
<1>1. Held(r)
  BY DEF Inv
<1>2. Held(r)'
  BY <1>1 DEF Held, CommitteeArg, Seating
<1> QED
  BY <1>2, StepKeeps

LEMMA ValidateKeeps ==
    ASSUME Inv, NEW r \in Request, Validate(r), scope' = scope
    PROVE  Inv' /\ OnlyAt(r)
<1>1. /\ pc[r] = "validate" /\ SessionArg(r) /\ Go(r, AfterValidation[arg[r].op]) /\ UNCHANGED arg
      /\ UNCHANGED <<supervisor, committee, session>>
  BY DEF Validate, Inv, Held
<1>2. arg[r].op \in {"createSession", "addProjects", "updateSession"}
  BY <1>1 DEF SessionArg
<1>3. OnlyAt(r) /\ pc'[r] = AfterValidation[arg[r].op] /\ arg'[r] = arg[r]
  BY <1>1, Gone
<1>4. /\ arg[r].op = "createSession" => pc'[r] = "session"
      /\ arg[r].op = "addProjects" => pc'[r] = "last"
      /\ arg[r].op = "updateSession" => pc'[r] = "prune"
  BY <1>3 DEF AfterValidation
<1>5. TypeOK' /\ Grows
  BY <1>1, DbKept
<1>6. SessionArg(r)'
  BY <1>1, <1>2, <1>3, <1>4, <1>5 DEF SessionArg, HasSession, Planned, OnSession, Grows
<1> QED
  BY <1>1, <1>2, <1>3, <1>4, <1>5, <1>6, SessionGoesOn DEF Step, Seating

LEMMA CreateSessionKeeps ==
    ASSUME Inv, NEW r \in Request, CreateSession(r), scope' = scope
    PROVE  Inv' /\ OnlyAt(r)
<1> DEFINE order == [p \in Project |-> 0]
           row == [live |-> TRUE, committee |-> arg[r].committee, status |-> "SCHEDULED", order |-> order]
<1>1. pc[r] = "session" /\ SessionArg(r)
  BY DEF CreateSession, Inv, Held
<1>2. PICK s \in SessionId :
         /\ s = Cardinality(Sessions) + 1 /\ SetSession(s, row)
         /\ IF arg[r].ids = <<>> THEN Finish(r)
            ELSE /\ Go(r, "append")
                 /\ arg' = [arg EXCEPT ![r] = [op |-> "append", id |-> s, ids |-> arg[r].ids,
                                               from |-> 0, skip |-> FALSE, renumber |-> FALSE]]
  BY DEF CreateSession
<1>3. row \in Session
  BY <1>1, DefenseAssumption DEF Session, SessionArg, Status
<1> HIDE DEF row
<1>4. TypeOK' /\ Grows /\ Sessions' = Sessions \cup {s}
  BY <1>2, <1>3, SessionWritten
<1>5. CASE arg[r].ids = <<>>
  BY <1>2, <1>4, <1>5, Finished, StepKeeps
<1>6. CASE arg[r].ids # <<>>
  <2>1. /\ OnlyAt(r) /\ pc'[r] = "append"
        /\ arg'[r] = [op |-> "append", id |-> s, ids |-> arg[r].ids, from |-> 0, skip |-> FALSE, renumber |-> FALSE]
    BY <1>2, <1>6, Gone
  <2>2. arg'[r].id = s /\ arg'[r].ids = arg[r].ids /\ arg'[r].from = 0
    BY <2>1
  <2>3. SessionArg(r)'
    BY <1>1, <1>4, <2>1, <2>2, DefenseAssumption DEF SessionArg, HasSession, Planned, OnSession
  <2> QED
    BY <1>1, <1>4, <2>1, <2>3, SessionGoesOn DEF Step, Seating
<1> QED
  BY <1>5, <1>6

LEMMA ReadLastKeeps ==
    ASSUME Inv, NEW r \in Request, ReadLast(r), scope' = scope
    PROVE  Inv' /\ OnlyAt(r)
<1>1. pc[r] = "last" /\ SessionArg(r) /\ Go(r, "append") /\ UNCHANGED <<supervisor, committee, session>>
  BY DEF ReadLast, Inv, Held
<1>2. /\ OnlyAt(r) /\ pc'[r] = "append"
      /\ arg'[r] = [op |-> "append", id |-> arg[r].id, ids |-> arg[r].ids, from |-> LastOrder(arg[r].id),
                    skip |-> TRUE, renumber |-> FALSE]
  BY <1>1, Gone DEF ReadLast
<1>3. arg'[r].id = arg[r].id /\ arg'[r].ids = arg[r].ids /\ arg'[r].from = LastOrder(arg[r].id)
  BY <1>2
<1>4. TypeOK' /\ Grows
  BY <1>1, DbKept
<1>5. arg[r].id \in Sessions /\ arg[r].ids \in Seq(Project)
  BY <1>1 DEF SessionArg, HasSession, OnSession
<1>6. SessionArg(r)'
  BY <1>2, <1>3, <1>4, <1>5, LastOrderIs DEF SessionArg, HasSession, Planned, OnSession, Grows
<1> QED
  BY <1>1, <1>2, <1>4, <1>6, SessionGoesOn DEF Step, Seating

\* The rows that are added, where they are added.
LEMMA RowsAdded ==
    ASSUME Inv, NEW r \in Request, AddRows(r)
    PROVE  LET a == arg[r]
               added == Range(a.ids) \ Holds(a.id)
               order == [p \in Project |-> IF p \in added THEN a.from + Place(a.ids, p) ELSE session[a.id].order[p]]
           IN  /\ pc[r] = "append" /\ a.id \in Sessions /\ a.ids \in Seq(Project) /\ a.from \in 0 .. MaxOrder
               /\ order \in [Project -> 0 .. MaxOrder] /\ SetOrder(a.id, order)
               /\ \A p \in Range(a.ids) : Place(a.ids, p) \in 1 .. Len(a.ids) /\ a.ids[Place(a.ids, p)] = p
<1> DEFINE a == arg[r]
           added == Range(a.ids) \ Holds(a.id)
           order == [p \in Project |-> IF p \in added THEN a.from + Place(a.ids, p) ELSE session[a.id].order[p]]
<1>1. pc[r] = "append" /\ SessionArg(r)
  BY DEF AddRows, Inv, Held
<1>2. a.id \in Sessions /\ a.ids \in Seq(Project) /\ a.from \in 0 .. MaxOrder
  BY <1>1 DEF SessionArg, HasSession, OnSession
<1>3. a.from + Len(a.ids) <= MaxOrder /\ SetOrder(a.id, order)
  BY DEF AddRows
<1>4. \A p \in Range(a.ids) : Place(a.ids, p) \in 1 .. Len(a.ids) /\ a.ids[Place(a.ids, p)] = p
  BY <1>2, PlaceIs
<1>5. Len(a.ids) \in Nat /\ session[a.id].order \in [Project -> 0 .. MaxOrder]
  BY <1>2, SessionRead DEF Session
<1>6. ASSUME NEW p \in added PROVE a.from + Place(a.ids, p) \in 0 .. MaxOrder
  <2>0. PICK n : n = Place(a.ids, p)
    OBVIOUS
  <2>1. n \in 1 .. Len(a.ids)
    BY <1>4, <2>0
  <2>2. MaxOrder \in Nat /\ a.from \in Nat /\ a.from + n <= MaxOrder
    BY <1>2, <1>3, <1>5, <2>1, DefenseAssumption
  <2> QED
    BY <2>0, <2>1, <2>2
<1>7. order \in [Project -> 0 .. MaxOrder]
  BY <1>5, <1>6
<1> QED
  BY <1>1, <1>2, <1>3, <1>4, <1>7

LEMMA AddRowsKeeps ==
    ASSUME Inv, NEW r \in Request, AddRows(r), scope' = scope
    PROVE  Inv' /\ OnlyAt(r)
<1> DEFINE a == arg[r]
           added == Range(a.ids) \ Holds(a.id)
           order == [p \in Project |-> IF p \in added THEN a.from + Place(a.ids, p) ELSE session[a.id].order[p]]
<1>1. pc[r] = "append" /\ a.id \in Sessions /\ order \in [Project -> 0 .. MaxOrder] /\ SetOrder(a.id, order)
  BY RowsAdded
<1> HIDE DEF order
<1>2. TypeOK' /\ Grows
  BY <1>1, OrderWritten
<1>3. CASE Finish(r)
  BY <1>2, <1>3, Finished, StepKeeps
<1>4. CASE Go(r, "list") /\ UNCHANGED arg
  <2>1. OnlyAt(r) /\ pc'[r] = "list" /\ arg'[r] = a
    BY <1>4, Gone
  <2>2. SessionArg(r)'
    BY <1>1, <1>2, <2>1 DEF SessionArg, HasSession, Planned, OnSession, Grows
  <2> QED
    BY <1>1, <1>2, <2>1, <2>2, SessionGoesOn DEF Step, Seating
<1> QED
  BY <1>3, <1>4 DEF AddRows

LEMMA UpdateStatusKeeps ==
    ASSUME Inv, NEW r \in Request, UpdateStatus(r), scope' = scope
    PROVE  Inv' /\ OnlyAt(r)
<1> DEFINE s == arg[r].id
           row == [session[s] EXCEPT !.status = arg[r].status]
<1>1. pc[r] = "status" /\ SessionArg(r) /\ SetSession(s, row) /\ UNCHANGED arg
  BY DEF UpdateStatus, Inv, Held
<1>2. s \in Sessions /\ arg[r].committee \in CommitteeId /\ arg[r].status \in Status /\ arg[r].ids \in Seq(Project)
  BY <1>1 DEF SessionArg, HasSession, OnSession
<1>3. row \in Session
  BY <1>2, SessionRead DEF Session
<1> HIDE DEF row
<1>4. TypeOK' /\ Grows
  BY <1>1, <1>2, <1>3, SessionRead, SessionWritten
<1>5. OnlyAt(r) /\ pc'[r] \in {"plan", "list"} /\ arg'[r] = arg[r]
  BY <1>1, Gone DEF UpdateStatus
<1>6. SessionArg(r)'
  BY <1>2, <1>4, <1>5 DEF SessionArg, HasSession, Planned, OnSession, Grows
<1> QED
  BY <1>1, <1>4, <1>5, <1>6, SessionGoesOn DEF Step, Seating

\* The rows that an update removes and those that it adds.
LEMMA Planning ==
    ASSUME Inv, NEW r \in Request, Plan(r)
    PROVE  /\ pc[r] = "plan" /\ arg[r].id \in Sessions /\ UNCHANGED <<supervisor, committee, session>>
           /\ OnlyAt(r) /\ pc'[r] = IF arg[r].ids = <<>> THEN "prune" ELSE "validate"
           /\ \E add \in Seq(Project) :
                 /\ Range(add) = Range(arg[r].ids) \ Holds(arg[r].id) /\ NoDuplicates(add)
                 /\ arg'[r].op = "updateSession" /\ arg'[r].id = arg[r].id /\ arg'[r].committee = arg[r].committee
                 /\ arg'[r].ids = arg[r].ids /\ arg'[r].remove = Holds(arg[r].id) \ Range(arg[r].ids)
                 /\ arg'[r].add = add /\ arg'[r].last = LastOrder(arg[r].id)
<1> DEFINE a == arg[r]
           S == Range(a.ids) \ Holds(a.id)
<1>1. pc[r] = "plan" /\ SessionArg(r) /\ UNCHANGED <<supervisor, committee, session>>
  BY DEF Plan, Inv, Held
<1>2. PICK add \in SetToSeqs(S) :
         arg' = [arg EXCEPT ![r] =
             [op |-> "updateSession", id |-> a.id, committee |-> a.committee, ids |-> a.ids,
              remove |-> Holds(a.id) \ Range(a.ids), add |-> add, last |-> LastOrder(a.id)]]
  BY DEF Plan
<1>3. /\ OnlyAt(r) /\ pc'[r] = IF a.ids = <<>> THEN "prune" ELSE "validate"
      /\ arg'[r] = [op |-> "updateSession", id |-> a.id, committee |-> a.committee, ids |-> a.ids,
                    remove |-> Holds(a.id) \ Range(a.ids), add |-> add, last |-> LastOrder(a.id)]
  BY <1>2, Gone DEF Plan
<1>4. a.id \in Sessions /\ a.ids \in Seq(Project)
  BY <1>1 DEF SessionArg, HasSession, OnSession
<1>5. S \subseteq Project /\ IsFiniteSet(S)
  <2>1. Range(a.ids) \subseteq Project
    BY <1>4 DEF Range
  <2> QED
    BY <2>1, FS_Subset, DefenseAssumption
<1>6. add \in Seq(S) /\ NoDuplicates(add) /\ Range(add) = S
  <2> HIDE DEF S
  <2> QED
    BY <1>2, <1>5, ListOf
<1>7. add \in Seq(Project)
  <2> HIDE DEF S
  <2> QED
    BY <1>5, <1>6
<1>8. /\ arg'[r].op = "updateSession" /\ arg'[r].id = a.id /\ arg'[r].committee = a.committee
      /\ arg'[r].ids = a.ids /\ arg'[r].remove = Holds(a.id) \ Range(a.ids)
  BY <1>3
<1>9. arg'[r].add = add /\ arg'[r].last = LastOrder(a.id)
  BY <1>3
<1> QED
  BY <1>1, <1>3, <1>4, <1>6, <1>7, <1>8, <1>9

LEMMA PlanKeeps ==
    ASSUME Inv, NEW r \in Request, Plan(r), scope' = scope
    PROVE  Inv' /\ OnlyAt(r)
<1>1. /\ pc[r] = "plan" /\ arg[r].id \in Sessions /\ UNCHANGED <<supervisor, committee, session>>
      /\ OnlyAt(r) /\ pc'[r] \in {"prune", "validate"}
  BY Planning
<1>2. /\ arg'[r].op = "updateSession" /\ arg'[r].id = arg[r].id /\ arg'[r].committee = arg[r].committee
      /\ arg'[r].ids = arg[r].ids /\ arg'[r].add \in Seq(Project) /\ arg'[r].last = LastOrder(arg[r].id)
  BY Planning
<1>3. TypeOK' /\ Grows
  BY <1>1, DbKept
<1>4. SessionArg(r)
  BY DEF Inv, Held
<1>5. arg[r].ids \in Seq(Project) /\ arg[r].committee \in CommitteeId
  BY <1>1, <1>4 DEF SessionArg
<1>6. SessionArg(r)'
  BY <1>1, <1>2, <1>3, <1>5, LastOrderIs DEF SessionArg, HasSession, Planned, OnSession, Grows
<1> QED
  BY <1>1, <1>3, <1>6, SessionGoesOn DEF Step, Seating

LEMMA PruneIs ==
    ASSUME Inv, NEW r \in Request, Prune(r)
    PROVE  LET a == arg[r]
               order == [p \in Project |-> IF p \in a.remove THEN 0 ELSE session[a.id].order[p]]
           IN  /\ pc[r] = "prune" /\ a.id \in Sessions /\ a.add \in Seq(Project) /\ a.last \in 0 .. MaxOrder
               /\ order \in [Project -> 0 .. MaxOrder] /\ SetOrder(a.id, order)
               /\ OnlyAt(r) /\ pc'[r] = IF a.add = <<>> THEN "list" ELSE "append"
               /\ arg'[r].id = a.id /\ arg'[r].ids = a.add /\ arg'[r].from = a.last /\ arg'[r].skip = FALSE
<1> DEFINE a == arg[r]
           order == [p \in Project |-> IF p \in a.remove THEN 0 ELSE session[a.id].order[p]]
           next == [op |-> "append", id |-> a.id, ids |-> a.add, from |-> a.last, skip |-> FALSE, renumber |-> TRUE]
<1>1. pc[r] = "prune" /\ SessionArg(r) /\ SetOrder(a.id, order)
  BY DEF Prune, Inv, Held
<1>2. a.id \in Sessions /\ a.add \in Seq(Project) /\ a.last \in 0 .. MaxOrder
  BY <1>1 DEF SessionArg, HasSession, OnSession, Planned
<1>3. order \in [Project -> 0 .. MaxOrder]
  BY <1>2, SessionRead, DefenseAssumption DEF Session
<1>4. OnlyAt(r) /\ pc'[r] = (IF a.add = <<>> THEN "list" ELSE "append") /\ arg'[r] = next
  BY Gone DEF Prune
<1>5. next.id = a.id /\ next.ids = a.add /\ next.from = a.last
  OBVIOUS
<1>6. next.skip = FALSE
  BY Zenon
<1> HIDE DEF next
<1> QED
  BY <1>1, <1>2, <1>3, <1>4, <1>5, <1>6

LEMMA PruneKeeps ==
    ASSUME Inv, NEW r \in Request, Prune(r), scope' = scope
    PROVE  Inv' /\ OnlyAt(r)
<1> DEFINE a == arg[r]
           order == [p \in Project |-> IF p \in a.remove THEN 0 ELSE session[a.id].order[p]]
<1>1. /\ pc[r] = "prune" /\ a.id \in Sessions /\ a.add \in Seq(Project) /\ a.last \in 0 .. MaxOrder
      /\ order \in [Project -> 0 .. MaxOrder] /\ SetOrder(a.id, order)
      /\ OnlyAt(r) /\ pc'[r] \in {"list", "append"}
      /\ arg'[r].id = a.id /\ arg'[r].ids = a.add /\ arg'[r].from = a.last
  BY PruneIs
<1> HIDE DEF order
<1>2. TypeOK' /\ Grows
  BY <1>1, OrderWritten
<1>3. SessionArg(r)'
  BY <1>1, <1>2 DEF SessionArg, HasSession, Planned, OnSession, Grows
<1> QED
  BY <1>1, <1>2, <1>3, SessionGoesOn DEF Step, Seating

\* The rows of a session in order, as a handler lists them to number them anew.
LEMMA ListIs ==
    ASSUME Inv, NEW r \in Request, List(r)
    PROVE  /\ pc[r] = "list" /\ arg[r].id \in Sessions /\ UNCHANGED <<supervisor, committee, session>>
           /\ \/ Finish(r)
              \/ \E q \in Seq(Project) :
                    /\ q # <<>> /\ Range(q) = Holds(arg[r].id) /\ NoDuplicates(q) /\ Len(q) = Cardinality(Holds(arg[r].id))
                    /\ \A i, j \in DOMAIN q : i < j =>
                          session[arg[r].id].order[q[i]] <= session[arg[r].id].order[q[j]]
                    /\ OnlyAt(r) /\ pc'[r] = "renumber"
                    /\ arg'[r].id = arg[r].id /\ arg'[r].rows = q /\ arg'[r].next = 1
<1> DEFINE s == arg[r].id
<1>1. pc[r] = "list" /\ SessionArg(r) /\ UNCHANGED <<supervisor, committee, session>>
  BY DEF List, Inv, Held
<1>2. s \in Sessions
  BY <1>1 DEF SessionArg, HasSession, OnSession
<1>3. PICK q \in SetToSeqs(Holds(s)) :
         /\ \A i, j \in DOMAIN q : i < j => session[s].order[q[i]] <= session[s].order[q[j]]
         /\ IF q = <<>> THEN Finish(r)
            ELSE /\ arg' = [arg EXCEPT ![r] = [op |-> "renumber", id |-> s, rows |-> q, next |-> 1]]
                 /\ Go(r, "renumber")
  BY DEF List
<1>4. q \in Seq(Holds(s)) /\ Range(q) = Holds(s) /\ NoDuplicates(q) /\ Len(q) = Cardinality(Holds(s))
  BY <1>3, HoldsFinite, ListOf
<1>5. q \in Seq(Project)
  BY <1>4, HoldsFinite
<1>6. CASE q = <<>>
  BY <1>1, <1>2, <1>3, <1>6
<1>7. CASE q # <<>>
  <2> DEFINE next == [op |-> "renumber", id |-> s, rows |-> q, next |-> 1]
  <2>0. arg' = [arg EXCEPT ![r] = next] /\ Go(r, "renumber")
    BY <1>3, <1>7
  <2>1. OnlyAt(r) /\ pc'[r] = "renumber" /\ arg'[r] = next
    <3> HIDE DEF next
    <3> QED
      BY <2>0, Gone
  <2>2. arg'[r].id = s /\ arg'[r].rows = q /\ arg'[r].next = 1
    BY <2>1
  <2> QED
    BY <1>1, <1>2, <1>3, <1>4, <1>5, <1>7, <2>1, <2>2
<1> QED
  BY <1>6, <1>7

LEMMA ListKeeps ==
    ASSUME Inv, NEW r \in Request, List(r), scope' = scope
    PROVE  Inv' /\ OnlyAt(r)
<1>1. pc[r] = "list" /\ arg[r].id \in Sessions /\ UNCHANGED <<supervisor, committee, session>>
  BY ListIs
<1>2. TypeOK' /\ Grows
  BY <1>1, DbKept
<1>3. CASE Finish(r)
  BY <1>2, <1>3, Finished, StepKeeps
<1>4. CASE ~Finish(r)
  <2>1. PICK q \in Seq(Project) : /\ q # <<>> /\ Len(q) = Cardinality(Holds(arg[r].id))
                                  /\ OnlyAt(r) /\ pc'[r] = "renumber"
                                  /\ arg'[r].id = arg[r].id /\ arg'[r].rows = q /\ arg'[r].next = 1
    BY <1>4, ListIs
  <2>2. Len(q) <= MaxOrder /\ 1 \in 1 .. Len(q)
    BY <2>1, HoldsFinite, DefenseAssumption
  <2>3. SessionArg(r)'
    BY <1>1, <1>2, <2>1, <2>2 DEF SessionArg, HasSession, Planned, OnSession, Grows
  <2> QED
    BY <1>1, <1>2, <2>1, <2>3, SessionGoesOn DEF Step, Seating
<1> QED
  BY <1>3, <1>4

LEMMA RenumberIs ==
    ASSUME Inv, NEW r \in Request, Renumber(r)
    PROVE  LET a == arg[r]
               order == [session[a.id].order EXCEPT ![a.rows[a.next]] = a.next]
           IN  /\ pc[r] = "renumber" /\ a.id \in Sessions /\ a.rows \in Seq(Project) /\ Len(a.rows) <= MaxOrder
               /\ a.next \in 1 .. Len(a.rows) /\ a.rows[a.next] \in Holds(a.id)
               /\ order \in [Project -> 0 .. MaxOrder] /\ SetOrder(a.id, order)
               /\ IF a.next = Len(a.rows) THEN Finish(r)
                  ELSE /\ OnlyAt(r) /\ pc'[r] = "renumber" /\ arg'[r].id = a.id /\ arg'[r].rows = a.rows
                       /\ arg'[r].next = a.next + 1
<1> DEFINE a == arg[r]
           order == [session[a.id].order EXCEPT ![a.rows[a.next]] = a.next]
<1>1. pc[r] = "renumber" /\ SessionArg(r) /\ SetOrder(a.id, order) /\ a.rows[a.next] \in Holds(a.id)
  BY DEF Renumber, Inv, Held
<1>2. a.id \in Sessions /\ a.rows \in Seq(Project) /\ Len(a.rows) <= MaxOrder /\ a.next \in 1 .. Len(a.rows)
  BY <1>1 DEF SessionArg, HasSession, OnSession
<1>3. a.next \in 0 .. MaxOrder
  BY <1>2, DefenseAssumption
<1>4. order \in [Project -> 0 .. MaxOrder]
  BY <1>2, <1>3, SessionRead DEF Session
<1>5. CASE a.next = Len(a.rows)
  BY <1>1, <1>2, <1>4, <1>5 DEF Renumber
<1>6. CASE a.next # Len(a.rows)
  <2>1. arg' = [arg EXCEPT ![r] = [a EXCEPT !.next = a.next + 1]] /\ UNCHANGED pc
    BY <1>6 DEF Renumber
  <2>2. OnlyAt(r) /\ pc'[r] = "renumber" /\ arg'[r] = [a EXCEPT !.next = a.next + 1]
    BY <1>1, <2>1 DEF OnlyAt, Inv
  <2> QED
    BY <1>1, <1>2, <1>4, <1>6, <2>2
<1> QED
  BY <1>5, <1>6

LEMMA RenumberKeeps ==
    ASSUME Inv, NEW r \in Request, Renumber(r), scope' = scope
    PROVE  Inv' /\ OnlyAt(r)
<1> DEFINE a == arg[r]
           order == [session[a.id].order EXCEPT ![a.rows[a.next]] = a.next]
<1>1. /\ pc[r] = "renumber" /\ a.id \in Sessions /\ a.rows \in Seq(Project) /\ Len(a.rows) <= MaxOrder
      /\ a.next \in 1 .. Len(a.rows) /\ order \in [Project -> 0 .. MaxOrder] /\ SetOrder(a.id, order)
  BY RenumberIs
<1> HIDE DEF order
<1>2. TypeOK' /\ Grows
  BY <1>1, OrderWritten
<1>3. CASE a.next = Len(a.rows)
  BY <1>2, <1>3, RenumberIs, Finished, StepKeeps
<1>4. CASE a.next # Len(a.rows)
  <2>1. /\ OnlyAt(r) /\ pc'[r] = "renumber" /\ arg'[r].id = a.id /\ arg'[r].rows = a.rows
        /\ arg'[r].next = a.next + 1
    BY <1>4, RenumberIs
  <2>2. a.next + 1 \in 1 .. Len(a.rows)
    BY <1>1, <1>4
  <2>3. SessionArg(r)'
    BY <1>1, <1>2, <2>1, <2>2 DEF SessionArg, HasSession, Planned, OnSession, Grows
  <2> QED
    BY <1>1, <1>2, <2>1, <2>3, SessionGoesOn DEF Step, Seating
<1> QED
  BY <1>3, <1>4

LEMMA RemoveProjectIs ==
    ASSUME Inv, NEW r \in Request, RemoveProject(r)
    PROVE  LET a == arg[r]
               order == [session[a.id].order EXCEPT ![a.project] = 0]
           IN  /\ pc[r] = "remove" /\ a.id \in Sessions /\ a.project \in Holds(a.id)
               /\ order \in [Project -> 0 .. MaxOrder] /\ SetOrder(a.id, order)
               /\ OnlyAt(r) /\ pc'[r] = "list" /\ arg'[r].id = a.id
<1> DEFINE a == arg[r]
           order == [session[a.id].order EXCEPT ![a.project] = 0]
<1>1. pc[r] = "remove" /\ SessionArg(r) /\ SetOrder(a.id, order) /\ a.project \in Holds(a.id)
  BY DEF RemoveProject, Inv, Held
<1>2. a.id \in Sessions
  BY <1>1 DEF SessionArg, HasSession, OnSession
<1>3. order \in [Project -> 0 .. MaxOrder]
  <2>1. session[a.id].order \in [Project -> 0 .. MaxOrder]
    BY <1>2, SessionRead DEF Session
  <2>2. 0 \in 0 .. MaxOrder
    BY DefenseAssumption
  <2> QED
    BY <2>1, <2>2
<1>4. OnlyAt(r) /\ pc'[r] = "list" /\ arg'[r] = [op |-> "list", id |-> a.id]
  BY Gone DEF RemoveProject
<1> QED
  BY <1>1, <1>2, <1>3, <1>4

LEMMA RemoveProjectKeeps ==
    ASSUME Inv, NEW r \in Request, RemoveProject(r), scope' = scope
    PROVE  Inv' /\ OnlyAt(r)
<1> DEFINE order == [session[arg[r].id].order EXCEPT ![arg[r].project] = 0]
<1>1. /\ pc[r] = "remove" /\ arg[r].id \in Sessions /\ order \in [Project -> 0 .. MaxOrder]
      /\ SetOrder(arg[r].id, order) /\ OnlyAt(r) /\ pc'[r] = "list" /\ arg'[r].id = arg[r].id
  BY RemoveProjectIs
<1> HIDE DEF order
<1>2. TypeOK' /\ Grows
  BY <1>1, OrderWritten
<1>3. SessionArg(r)'
  BY <1>1, <1>2 DEF SessionArg, HasSession, Planned, OnSession, Grows
<1> QED
  BY <1>1, <1>2, <1>3, SessionGoesOn DEF Step, Seating

LEMMA CompleteKeeps ==
    ASSUME Inv, NEW r \in Request, Complete(r), scope' = scope
    PROVE  Inv' /\ OnlyAt(r)
<1> DEFINE row == [session[arg[r].id] EXCEPT !.status = "COMPLETED"]
<1>1. pc[r] = "complete" /\ SessionArg(r) /\ SetSession(arg[r].id, row) /\ Finish(r)
  BY DEF Complete, Inv, Held
<1>2. arg[r].id \in Sessions
  BY <1>1 DEF SessionArg, HasSession, OnSession
<1>3. row \in Session
  BY <1>2, SessionRead DEF Session, Status
<1> HIDE DEF row
<1>4. TypeOK' /\ Grows
  BY <1>1, <1>2, <1>3, SessionRead, SessionWritten
<1> QED
  BY <1>1, <1>4, Finished, StepKeeps

LEMMA EmptyIs ==
    ASSUME Inv, NEW r \in Request, Empty(r)
    PROVE  LET order == [p \in Project |-> 0]
           IN  /\ pc[r] = "empty" /\ arg[r].id \in Sessions
               /\ order \in [Project -> 0 .. MaxOrder] /\ SetOrder(arg[r].id, order)
               /\ OnlyAt(r) /\ pc'[r] = "deleteSession" /\ arg'[r] = arg[r]
<1> DEFINE order == [p \in Project |-> 0]
<1>1. pc[r] = "empty" /\ SessionArg(r) /\ SetOrder(arg[r].id, order) /\ Go(r, "deleteSession") /\ UNCHANGED arg
  BY DEF Empty, Inv, Held
<1>2. order \in [Project -> 0 .. MaxOrder]
  BY DefenseAssumption
<1> QED
  BY <1>1, <1>2, Gone DEF SessionArg, HasSession, OnSession

LEMMA EmptyKeeps ==
    ASSUME Inv, NEW r \in Request, Empty(r), scope' = scope
    PROVE  Inv' /\ OnlyAt(r)
<1> DEFINE order == [p \in Project |-> 0]
<1>1. /\ pc[r] = "empty" /\ arg[r].id \in Sessions /\ order \in [Project -> 0 .. MaxOrder]
      /\ SetOrder(arg[r].id, order) /\ OnlyAt(r) /\ pc'[r] = "deleteSession" /\ arg'[r] = arg[r]
  BY EmptyIs
<1> HIDE DEF order
<1>2. TypeOK' /\ Grows
  BY <1>1, OrderWritten
<1>3. SessionArg(r)'
  BY <1>1, <1>2 DEF SessionArg, HasSession, Planned, OnSession, Grows
<1> QED
  BY <1>1, <1>2, <1>3, SessionGoesOn DEF Step, Seating

LEMMA DeleteSessionIs ==
    ASSUME Inv, NEW r \in Request, DeleteSession(r)
    PROVE  LET row == [session[arg[r].id] EXCEPT !.live = FALSE]
           IN  /\ pc[r] = "deleteSession" /\ arg[r].id \in Sessions
               /\ row \in Session /\ SetSession(arg[r].id, row) /\ Finish(r)
               /\ row.order = session[arg[r].id].order
<1> DEFINE row == [session[arg[r].id] EXCEPT !.live = FALSE]
<1>1. pc[r] = "deleteSession" /\ SessionArg(r) /\ SetSession(arg[r].id, row) /\ Finish(r)
  BY DEF DeleteSession, Inv, Held
<1>2. arg[r].id \in Sessions
  BY <1>1 DEF SessionArg, HasSession, OnSession
<1>3. row \in Session /\ row.order = session[arg[r].id].order
  BY <1>2, SessionRead DEF Session
<1> QED
  BY <1>1, <1>2, <1>3

LEMMA DeleteSessionKeeps ==
    ASSUME Inv, NEW r \in Request, DeleteSession(r), scope' = scope
    PROVE  Inv' /\ OnlyAt(r)
<1> DEFINE row == [session[arg[r].id] EXCEPT !.live = FALSE]
<1>1. arg[r].id \in Sessions /\ row \in Session /\ SetSession(arg[r].id, row) /\ Finish(r)
  BY DeleteSessionIs
<1> HIDE DEF row
<1>2. TypeOK' /\ Grows
  BY <1>1, SessionRead, SessionWritten
<1> QED
  BY <1>1, <1>2, Finished, StepKeeps

LEMMA FailKeeps ==
    ASSUME Inv, NEW r \in Request, Fail(r), scope' = scope
    PROVE  Inv' /\ OnlyAt(r)
BY DbKept, Finished, StepKeeps DEF Fail

-----------------------------------------------------------------------------
(* Every step *)

LEMMA ProceedKeeps ==
    ASSUME Inv, NEW r \in Request, Proceed(r) \/ Fail(r), scope' = scope
    PROVE  Inv' /\ OnlyAt(r) /\ pc[r] # "idle"
<1>1. Inv' /\ OnlyAt(r)
  BY CreateCommitteeKeeps, SeatingKeeps, DeleteCommitteeKeeps, ValidateKeeps, CreateSessionKeeps, ReadLastKeeps,
     AddRowsKeeps, UpdateStatusKeeps, PlanKeeps, PruneKeeps, ListKeeps, RenumberKeeps, RemoveProjectKeeps,
     CompleteKeeps, EmptyKeeps, DeleteSessionKeeps, FailKeeps DEF Proceed
<1>2. pc[r] # "idle"
  BY DEF Proceed, Fail, CreateCommittee, AddMembers, AddExternal, DropMembers, DropExternal, DeleteCommittee, Validate,
         CreateSession, ReadLast, AddRows, UpdateStatus, Plan, Prune, List, Renumber, RemoveProject, Complete,
         Empty, DeleteSession
<1> QED
  BY <1>1, <1>2

LEMMA InvInit == Init => Inv
<1> SUFFICES ASSUME Init PROVE Inv
  OBVIOUS
<1>1. PICK seat \in [1 .. scope.given -> Full] :
         committee = [c \in CommitteeId |->
             IF c <= scope.given
             THEN [live |-> TRUE, members |-> Members(seat[c]), externals |-> {seat[c]["EXTERNAL_REVIEWER"]}]
             ELSE NoRow]
  BY DEF Init
<1>2. scope.given \in Nat /\ scope.seats \in [Role -> SUBSET Teacher] /\ scope \in Scopes
  BY DefenseAssumption DEF Init
<1>3. ASSUME NEW x \in Full PROVE x \in Seats /\ x["EXTERNAL_REVIEWER"] \in Teacher
  <2>1. \A role \in Role : Offered(role) \subseteq Teacher \cup {NoTeacher}
    BY <1>2 DEF Offered
  <2>2. PICK a \in Offered("CHAIRMAN"), b \in Offered("SECRETARY"), c \in Offered("INTERNAL_REVIEWER"),
             d \in Offered("EXTERNAL_REVIEWER") :
             x = [CHAIRMAN |-> a, SECRETARY |-> b, INTERNAL_REVIEWER |-> c, EXTERNAL_REVIEWER |-> d]
    BY DEF Full, SeatsGiven
  <2>3. a \in Teacher \cup {NoTeacher} /\ b \in Teacher \cup {NoTeacher} /\ c \in Teacher \cup {NoTeacher}
        /\ d \in Teacher \cup {NoTeacher}
    BY <2>1 DEF Role, Fixed
  <2>4. x \in Seats
    BY <2>2, <2>3 DEF Seats, Role, Fixed
  <2>5. x["EXTERNAL_REVIEWER"] # NoTeacher
    BY <1>3 DEF Full, Composed, Role
  <2> QED
    BY <2>4, <2>5 DEF Seats, Role
<1>4. ASSUME NEW c \in CommitteeId, c <= scope.given PROVE committee[c] \in Committee
  <2>1. seat[c] \in Full
    BY <1>1, <1>2, <1>4 DEF CommitteeId
  <2>2. committee[c] = [live |-> TRUE, members |-> Members(seat[c]), externals |-> {seat[c]["EXTERNAL_REVIEWER"]}]
    BY <1>1, <1>4
  <2>3. Members(seat[c]) \in SUBSET (Teacher \X Fixed) /\ {seat[c]["EXTERNAL_REVIEWER"]} \in SUBSET Teacher
    BY <1>3, <2>1, MembersAre
  <2> QED
    BY <2>2, <2>3 DEF Committee
<1>5. committee \in [CommitteeId -> Committee \cup {NoRow}]
  BY <1>1, <1>4
<1>6. TypeOK /\ Sessions = {}
  BY <1>5 DEF Init, TypeOK, Sessions
<1>7. Sessions = 1 .. 0
  BY <1>6
<1>8. \A q \in Request : Held(q)
  BY DEF Init, Held, CommitteeArg, SessionArg, HasSession, Planned, Seating, OnSession
<1> QED
  BY <1>6, <1>7, <1>8 DEF Init, Inv, Step

LEMMA InvNext == Inv /\ [Next /\ UNCHANGED scope]_vars => Inv'
<1> SUFFICES ASSUME Inv, [Next /\ UNCHANGED scope]_vars PROVE Inv'
  OBVIOUS
<1>1. CASE UNCHANGED vars
  BY <1>1 DEF vars, Inv, TypeOK, Sessions, Committees, Held, CommitteeArg, SessionArg, HasSession, Planned
<1>2. CASE Next /\ UNCHANGED scope
  BY <1>2, CommitteeArrivesKeeps, SessionArrivesKeeps, ProceedKeeps DEF Next
<1> QED
  BY <1>1, <1>2

\* However many handlers overlap and wherever they break off, rows stay well formed and every
\* position fits its column (defense_committees, defense_sessions and their rows).
THEOREM TypeCorrect == Spec => []TypeOK
<1>1. Inv => TypeOK
  BY DEF Inv
<1> QED
  BY <1>1, InvInit, InvNext, PTL DEF Spec

-----------------------------------------------------------------------------
(* Supervisors are kept out *)

SessionsKept == \A s \in Sessions : session'[s].committee = session[s].committee

SeatsKept == \A c \in CommitteeId : committee'[c].members = committee[c].members /\ committee'[c].externals = committee[c].externals

LEMMA OrderIs ==
    ASSUME Inv, NEW s \in Sessions, NEW order \in [Project -> 0 .. MaxOrder], SetOrder(s, order)
    PROVE  /\ SessionsKept /\ SeatsKept /\ supervisor' = supervisor
           /\ session'[s].order = order /\ \A t \in Sessions \ {s} : session'[t].order = session[t].order
<1>1. /\ session'[s].order = order /\ session'[s].committee = session[s].committee
      /\ \A t \in SessionId \ {s} : session'[t] = session[t]
      /\ supervisor' = supervisor /\ committee' = committee
  BY OrderWritten
<1> QED
  BY <1>1 DEF SessionsKept, SeatsKept, Sessions

\* A step that writes a session and leaves its projects and its committee.
LEMMA RowIs ==
    ASSUME Inv, NEW s \in Sessions, NEW row \in Session, SetSession(s, row),
           row.order = session[s].order, row.committee = session[s].committee
    PROVE  /\ SessionsKept /\ SeatsKept /\ supervisor' = supervisor
           /\ \A t \in Sessions : session'[t].order = session[t].order
<1>1. /\ session'[s] = row /\ \A t \in SessionId \ {s} : session'[t] = session[t]
      /\ supervisor' = supervisor /\ committee' = committee
  BY SessionRead, SessionWritten
<1> QED
  BY <1>1 DEF SessionsKept, SeatsKept, Sessions

\* A session gains a project where rows are added, and nowhere else.
LEMMA StepRows ==
    ASSUME Inv, NEW r \in Request, Proceed(r) \/ Fail(r)
    PROVE  /\ SessionsKept /\ supervisor' = supervisor /\ (pc[r] \in Seating \/ SeatsKept)
           /\ \A s \in Sessions : \A p \in Project :
                 session[s].order[p] = 0 /\ session'[s].order[p] > 0
                 => AddRows(r) /\ s = arg[r].id /\ p \in Range(arg[r].ids)
<1> DEFINE Quiet == \A s \in Sessions : session'[s].order = session[s].order
<1>0. ASSUME NEW s \in Sessions, NEW p \in Project PROVE session[s].order[p] \in Nat
  BY SessionRead DEF Session
<1>1. CASE session' = session /\ supervisor' = supervisor /\ (committee' = committee \/ pc[r] \in Seating)
  BY <1>1 DEF SessionsKept, SeatsKept
<1>2. CASE CreateCommittee(r) \/ AddMembers(r) \/ AddExternal(r) \/ DropMembers(r) \/ DropExternal(r)
  <2>1. session' = session /\ supervisor' = supervisor /\ pc[r] \in Seating
    BY <1>2 DEF CreateCommittee, AddMembers, AddExternal, DropMembers, DropExternal, SetCommittee, Seating
  <2> QED
    BY <1>1, <2>1
<1>3. CASE Validate(r) \/ ReadLast(r) \/ Plan(r) \/ List(r) \/ Fail(r)
  <2>1. session' = session /\ supervisor' = supervisor /\ committee' = committee
    BY <1>3 DEF Validate, ReadLast, Plan, List, Fail
  <2> QED
    BY <1>1, <2>1
<1>4. CASE DeleteCommittee(r)
  <2> DEFINE c == arg[r].id
             row == [committee[c] EXCEPT !.live = FALSE]
  <2>1. pc[r] = "deleteCommittee" /\ Held(r) /\ SetCommittee(c, row)
    BY <1>4 DEF DeleteCommittee, Inv
  <2>2. c \in CommitteeId /\ committee[c] \in Committee
    BY <2>1, CommitteeRead DEF Held, CommitteeArg
  <2>3. row \in Committee /\ row.members = committee[c].members /\ row.externals = committee[c].externals
    BY <2>2 DEF Committee
  <2> HIDE DEF row
  <2>4. /\ committee'[c] = row /\ \A d \in CommitteeId \ {c} : committee'[d] = committee[d]
        /\ supervisor' = supervisor /\ session' = session
    BY <2>1, <2>2, <2>3, CommitteeWritten
  <2> QED
    BY <2>3, <2>4 DEF SessionsKept, SeatsKept
<1>5. CASE CreateSession(r)
  <2> DEFINE order == [p \in Project |-> 0]
             row == [live |-> TRUE, committee |-> arg[r].committee, status |-> "SCHEDULED", order |-> order]
  <2>1. pc[r] = "session" /\ SessionArg(r)
    BY <1>5 DEF CreateSession, Inv, Held
  <2>2. PICK s \in SessionId : s = Cardinality(Sessions) + 1 /\ SetSession(s, row)
    BY <1>5 DEF CreateSession
  <2>3. row \in Session
    BY <2>1, DefenseAssumption DEF Session, SessionArg, Status
  <2> HIDE DEF row
  <2>4. /\ s \notin Sessions /\ \A t \in SessionId \ {s} : session'[t] = session[t]
        /\ supervisor' = supervisor /\ committee' = committee
    BY <2>2, <2>3, SessionWritten
  <2>5. \A t \in Sessions : session'[t] = session[t]
    BY <2>4 DEF Sessions
  <2> QED
    BY <2>4, <2>5 DEF SessionsKept, SeatsKept
<1>6. CASE AddRows(r)
  <2> DEFINE a == arg[r]
             added == Range(a.ids) \ Holds(a.id)
             order == [p \in Project |-> IF p \in added THEN a.from + Place(a.ids, p) ELSE session[a.id].order[p]]
  <2>1. a.id \in Sessions /\ order \in [Project -> 0 .. MaxOrder] /\ SetOrder(a.id, order)
    BY <1>6, RowsAdded
  <2>2. \A p \in Project : p \notin Range(a.ids) => order[p] = session[a.id].order[p]
    OBVIOUS
  <2> HIDE DEF order
  <2>3. /\ SessionsKept /\ SeatsKept /\ supervisor' = supervisor
        /\ session'[a.id].order = order /\ \A t \in Sessions \ {a.id} : session'[t].order = session[t].order
    BY <2>1, OrderIs
  <2> QED
    BY <1>0, <1>6, <2>2, <2>3
<1>7. ASSUME NEW s \in Sessions, NEW order \in [Project -> 0 .. MaxOrder], SetOrder(s, order),
             \A p \in Project : session[s].order[p] = 0 => order[p] = 0
      PROVE  /\ SessionsKept /\ SeatsKept /\ supervisor' = supervisor
             /\ \A t \in Sessions : \A p \in Project : ~(session[t].order[p] = 0 /\ session'[t].order[p] > 0)
  BY <1>0, <1>7, OrderIs
<1>8. CASE Prune(r)
  <2> DEFINE order == [p \in Project |-> IF p \in arg[r].remove THEN 0 ELSE session[arg[r].id].order[p]]
  <2>1. arg[r].id \in Sessions /\ order \in [Project -> 0 .. MaxOrder] /\ SetOrder(arg[r].id, order)
    BY <1>8, PruneIs
  <2>2. \A p \in Project : session[arg[r].id].order[p] = 0 => order[p] = 0
    OBVIOUS
  <2> HIDE DEF order
  <2> QED
    BY <1>7, <2>1, <2>2
<1>9. CASE Renumber(r)
  <2> DEFINE a == arg[r]
             order == [session[a.id].order EXCEPT ![a.rows[a.next]] = a.next]
  <2>1. /\ a.id \in Sessions /\ a.rows[a.next] \in Holds(a.id)
        /\ order \in [Project -> 0 .. MaxOrder] /\ SetOrder(a.id, order)
    BY <1>9, RenumberIs
  <2>2. ASSUME NEW p \in Project, session[a.id].order[p] = 0 PROVE order[p] = 0
    <3>1. p # a.rows[a.next]
      BY <2>1, <2>2 DEF Holds
    <3> QED
      BY <2>1, <2>2, <3>1, SessionRead DEF Session
  <2> HIDE DEF order
  <2> QED
    BY <1>7, <2>1, <2>2
<1>10. CASE RemoveProject(r)
  <2> DEFINE order == [session[arg[r].id].order EXCEPT ![arg[r].project] = 0]
  <2>1. arg[r].id \in Sessions /\ order \in [Project -> 0 .. MaxOrder] /\ SetOrder(arg[r].id, order)
    BY <1>10, RemoveProjectIs
  <2>2. \A p \in Project : session[arg[r].id].order[p] = 0 => order[p] = 0
    BY <2>1, SessionRead DEF Session
  <2> HIDE DEF order
  <2> QED
    BY <1>7, <2>1, <2>2
<1>11. CASE Empty(r)
  <2> DEFINE order == [p \in Project |-> 0]
  <2>1. arg[r].id \in Sessions /\ order \in [Project -> 0 .. MaxOrder] /\ SetOrder(arg[r].id, order)
    BY <1>11, EmptyIs
  <2>2. \A p \in Project : order[p] = 0
    OBVIOUS
  <2> HIDE DEF order
  <2> QED
    BY <1>7, <2>1, <2>2
<1>12. ASSUME NEW s \in Sessions, NEW row \in Session, SetSession(s, row),
              row.order = session[s].order, row.committee = session[s].committee
       PROVE  /\ SessionsKept /\ SeatsKept /\ supervisor' = supervisor
              /\ \A t \in Sessions : \A p \in Project : ~(session[t].order[p] = 0 /\ session'[t].order[p] > 0)
  BY <1>12, RowIs
<1>13. CASE UpdateStatus(r) \/ Complete(r) \/ DeleteSession(r)
  <2>1. SessionArg(r) /\ pc[r] \in {"status", "complete", "deleteSession"}
    BY <1>13 DEF UpdateStatus, Complete, DeleteSession, Inv, Held
  <2>2. arg[r].id \in Sessions /\ session[arg[r].id] \in Session
    BY <2>1, SessionRead DEF SessionArg, HasSession, OnSession
  <2>3. CASE UpdateStatus(r)
    <3> DEFINE row == [session[arg[r].id] EXCEPT !.status = arg[r].status]
    <3>1. SetSession(arg[r].id, row) /\ pc[r] = "status"
      BY <2>3 DEF UpdateStatus
    <3>2. row \in Session /\ row.order = session[arg[r].id].order /\ row.committee = session[arg[r].id].committee
      BY <2>1, <2>2, <3>1 DEF Session, SessionArg
    <3> HIDE DEF row
    <3> QED
      BY <1>12, <2>2, <3>1, <3>2
  <2>4. CASE Complete(r)
    <3> DEFINE row == [session[arg[r].id] EXCEPT !.status = "COMPLETED"]
    <3>1. SetSession(arg[r].id, row)
      BY <2>4 DEF Complete
    <3>2. row \in Session /\ row.order = session[arg[r].id].order /\ row.committee = session[arg[r].id].committee
      BY <2>2 DEF Session, Status
    <3> HIDE DEF row
    <3> QED
      BY <1>12, <2>2, <3>1, <3>2
  <2>5. CASE DeleteSession(r)
    <3> DEFINE row == [session[arg[r].id] EXCEPT !.live = FALSE]
    <3>1. SetSession(arg[r].id, row)
      BY <2>5 DEF DeleteSession
    <3>2. row \in Session /\ row.order = session[arg[r].id].order /\ row.committee = session[arg[r].id].committee
      BY <2>2 DEF Session
    <3> HIDE DEF row
    <3> QED
      BY <1>12, <2>2, <3>1, <3>2
  <2> QED
    BY <1>13, <2>3, <2>4, <2>5
<1> QED
  BY <1>2, <1>3, <1>4, <1>5, <1>6, <1>8, <1>9, <1>10, <1>11, <1>13 DEF Proceed

\* A request alone has no other in flight.
LEMMA Alone ==
    ASSUME Inv, Inv', OneByOne, scope' = scope, NEW r \in Request, NEW q \in Request, r # q,
           pc[r] # "idle" \/ pc'[r] # "idle"
    PROVE  pc[q] = "idle" /\ (pc'[q] = pc[q] => pc'[q] = "idle")
<1>1. r \in scope.requests /\ scope.requests \subseteq Request
  BY ScopeFits DEF Inv, Held
<1>2. IsFiniteSet(scope.requests)
  BY <1>1, DefenseAssumption, FS_Subset
<1>3. PICK x : scope.requests = {x}
  BY <1>2, FS_Singleton DEF OneByOne
<1>4. pc[q] # "idle" => q \in scope.requests
  BY DEF Inv, Held
<1> QED
  BY <1>1, <1>3, <1>4

\* Where SupervisorsKeptOut is to hold.
SeatsApart == OneByOne \/ scope.ops \cap {"createCommittee", "updateCommittee"} = {}

LEMMA ValidatedOthers ==
    ASSUME Inv, Inv', SupervisorsInv, SeatsApart, scope' = scope, NEW r \in Request, NEW q \in Request \ {r}, OnlyAt(r),
           pc[r] # "idle" \/ pc'[r] # "idle", SessionsKept, supervisor' = supervisor, pc[r] \in Seating \/ SeatsKept
    PROVE  Validated(q)'
<1>1. pc'[q] = pc[q] /\ arg'[q] = arg[q] /\ Validated(q)
  BY DEF OnlyAt, Inv, SupervisorsInv, SeatsApart
<1>2. CASE OneByOne
  <2>1. pc'[q] = "idle"
    BY <1>1, <1>2, Alone
  <2> QED
    BY <2>1 DEF Validated, Planned
<1>3. CASE ~OneByOne
  <2>1. SeatsKept
    BY <1>3 DEF SeatsApart, Inv, Held
  <2>2. SessionArg(q)
    BY DEF Inv, Held
  <2>3. ASSUME NEW c \in CommitteeId, NEW ids, Assignable(c, ids) PROVE Assignable(c, ids)'
    BY <2>1, <2>3 DEF Assignable, SeatsKept, Seated
  <2>4. HasSession(q) => session'[arg[q].id].committee = session[arg[q].id].committee /\ session[arg[q].id].committee \in CommitteeId
    BY <2>2, SessionRead DEF SessionArg, SessionsKept, Session
  <2>5. pc[q] \in {"status", "plan"} \/ (pc[q] = "validate" /\ arg[q].op # "createSession")
           => arg'[q].committee = session'[arg'[q].id].committee
    BY <1>1, <2>4 DEF Validated, HasSession, OnSession
  <2>6. pc[q] = "session" => Assignable(arg[q].committee, Range(arg[q].ids))'
    BY <1>1, <2>2, <2>3 DEF Validated, SessionArg
  <2>7. pc[q] \in {"last", "append"} => Assignable(session[arg[q].id].committee, Range(arg[q].ids))'
    BY <1>1, <2>3, <2>4 DEF Validated, HasSession, OnSession
  <2>8. pc[q] = "prune" => Assignable(session[arg[q].id].committee, Range(arg[q].add))'
    BY <1>1, <2>3, <2>4 DEF Validated, HasSession, OnSession
  <2> QED
    BY <1>1, <2>5, <2>6, <2>7, <2>8 DEF Validated, Planned
<1> QED
  BY <1>2, <1>3

LEMMA SupervisorsLeft ==
    ASSUME Inv, Inv', SupervisorsInv, SeatsApart, scope' = scope, NEW r \in Request, OnlyAt(r),
           pc[r] # "idle" \/ pc'[r] # "idle", SessionsKept, supervisor' = supervisor, pc[r] \in Seating \/ SeatsKept,
           Validated(r)'
    PROVE  SupervisorsInv'
BY ValidatedOthers DEF SupervisorsInv

LEMMA ValidatedIdle ==
    ASSUME NEW r \in Request, pc'[r] \notin {"validate", "session", "last", "append", "status", "plan", "prune"}
    PROVE  Validated(r)'
BY DEF Validated, Planned

LEMMA ArrivesValidated ==
    ASSUME Inv, NEW r \in Request, CommitteeArrives(r) \/ SessionArrives(r)
    PROVE  Validated(r)'
<1>1. \A step, a : Begin(r, step, a) => /\ pc'[r] = step /\ arg'[r] = a /\ session' = session
                                        /\ committee' = committee /\ supervisor' = supervisor
  BY Begun
<1>2. \A step, a : step \in {"committee", "dropMembers", "dropExternal", "deleteCommittee", "remove", "complete", "empty"}
         /\ Begin(r, step, a) => Validated(r)'
  BY <1>1, ValidatedIdle
<1>3. ASSUME NEW c, NEW seat, UpdateCommitteeCheck(r, c, seat) PROVE Validated(r)'
  BY <1>2, <1>3 DEF UpdateCommitteeCheck
<1>4. ASSUME NEW c, NEW ids, CreateSessionCheck(r, c, ids) PROVE Validated(r)'
  <2>1. /\ pc'[r] = IF ids = <<>> THEN "session" ELSE "validate"
        /\ arg'[r] = [op |-> "createSession", committee |-> c, ids |-> ids]
    BY <1>1, <1>4 DEF CreateSessionCheck
  <2>2. arg'[r].op = "createSession" /\ arg'[r].ids = ids
    BY <2>1
  <2>3. ids = <<>> => Range(arg'[r].ids) = {}
    BY <2>2, EmptyList
  <2> QED
    BY <2>1, <2>2, <2>3 DEF Validated, Planned, Assignable
<1>5. ASSUME NEW s, NEW ids, AddProjectsCheck(r, s, ids) PROVE Validated(r)'
  <2>1. /\ pc'[r] = "validate" /\ session' = session
        /\ arg'[r] = [op |-> "addProjects", id |-> s, committee |-> session[s].committee, ids |-> ids]
    BY <1>1, <1>5 DEF AddProjectsCheck
  <2>2. arg'[r].op = "addProjects" /\ arg'[r].id = s /\ arg'[r].committee = session[s].committee
    BY <2>1
  <2> QED
    BY <2>1, <2>2 DEF Validated, Planned
<1>6. ASSUME NEW s, NEW status, NEW ids, UpdateSessionCheck(r, s, status, ids) PROVE Validated(r)'
  <2>1. /\ pc'[r] = "status" /\ session' = session
        /\ arg'[r] = [op |-> "updateSession", id |-> s, committee |-> session[s].committee,
                      status |-> status, ids |-> ids]
    BY <1>1, <1>6 DEF UpdateSessionCheck
  <2>2. arg'[r].id = s /\ arg'[r].committee = session[s].committee
    BY <2>1
  <2> QED
    BY <2>1, <2>2 DEF Validated, Planned
<1> QED
  BY <1>2, <1>3, <1>4, <1>5, <1>6 DEF CommitteeArrives, SessionArrives, CreateCommitteeCheck, DeleteCommitteeCheck,
     RemoveProjectCheck, CompleteCheck, DeleteSessionCheck

LEMMA ProceedValidated ==
    ASSUME Inv, SupervisorsInv, SeatsApart, NEW r \in Request, Proceed(r) \/ Fail(r)
    PROVE  Validated(r)'
<1>0. Validated(r) /\ SessionArg(r)
  BY DEF SupervisorsInv, SeatsApart, Inv, Held
<1>1. \A step : Go(r, step) => pc'[r] = step
  BY Gone
<1>2. Finish(r) => Validated(r)'
  BY Finished, ValidatedIdle
<1>3. \A step : step \in {"members", "external", "dropExternal", "list", "deleteSession", "renumber"} /\ Go(r, step) => Validated(r)'
  BY <1>1, ValidatedIdle
<1>4. CASE CreateCommittee(r) \/ AddMembers(r) \/ AddExternal(r) \/ DropMembers(r) \/ DropExternal(r) \/ DeleteCommittee(r)
           \/ Complete(r) \/ Empty(r) \/ DeleteSession(r) \/ Fail(r) \/ RemoveProject(r)
  BY <1>2, <1>3, <1>4 DEF CreateCommittee, AddMembers, AddExternal, DropMembers, DropExternal, DeleteCommittee,
     Complete, Empty, DeleteSession, Fail, RemoveProject
<1>5. CASE List(r) \/ Renumber(r)
  <2>1. pc'[r] \in {"idle", "renumber"}
    BY <1>1, <1>5, ListIs, RenumberIs, Finished
  <2> QED
    BY <2>1, ValidatedIdle
<1>6. CASE Validate(r)
  <2>1. /\ pc[r] = "validate" /\ Assignable(arg[r].committee, Range(arg[r].ids)) /\ arg' = arg
        /\ supervisor' = supervisor /\ committee' = committee /\ session' = session
        /\ pc'[r] = AfterValidation[arg[r].op]
    BY <1>1, <1>6 DEF Validate
  <2>2. \A c, ids : Assignable(c, ids)' <=> Assignable(c, ids)
    BY <2>1 DEF Assignable, Seated
  <2>3. CASE arg[r].op = "createSession"
    <3>1. pc'[r] = "session"
      BY <2>1, <2>3 DEF AfterValidation
    <3> QED
      BY <2>1, <2>2, <3>1 DEF Validated, Planned
  <2>4. CASE arg[r].op = "addProjects"
    <3>1. pc'[r] = "last" /\ arg[r].committee = session[arg[r].id].committee
      BY <1>0, <2>1, <2>4 DEF AfterValidation, Validated
    <3> QED
      BY <2>1, <2>2, <3>1 DEF Validated, Planned
  <2>5. CASE arg[r].op = "updateSession"
    <3>1. pc'[r] = "prune" /\ arg[r].committee = session[arg[r].id].committee /\ Range(arg[r].add) \subseteq Range(arg[r].ids)
      BY <1>0, <2>1, <2>5 DEF AfterValidation, Validated, Planned
    <3>2. Assignable(session[arg[r].id].committee, Range(arg[r].add))
      BY <2>1, <3>1 DEF Assignable
    <3> QED
      BY <2>1, <2>2, <3>1, <3>2 DEF Validated, Planned
  <2> QED
    BY <1>0, <2>1, <2>3, <2>4, <2>5 DEF SessionArg
<1>7. CASE CreateSession(r)
  <2> DEFINE order == [p \in Project |-> 0]
             row == [live |-> TRUE, committee |-> arg[r].committee, status |-> "SCHEDULED", order |-> order]
  <2>1. pc[r] = "session"
    BY <1>7 DEF CreateSession
  <2>2. PICK s \in SessionId : /\ s = Cardinality(Sessions) + 1 /\ SetSession(s, row)
                               /\ IF arg[r].ids = <<>> THEN Finish(r)
                                  ELSE /\ Go(r, "append")
                                       /\ arg' = [arg EXCEPT ![r] = [op |-> "append", id |-> s, ids |-> arg[r].ids,
                                                                     from |-> 0, skip |-> FALSE, renumber |-> FALSE]]
    BY <1>7 DEF CreateSession
  <2>3. row \in Session /\ row.committee = arg[r].committee
    BY <1>0, <2>1, DefenseAssumption DEF Session, SessionArg, Status
  <2> HIDE DEF row
  <2>4. session'[s] = row /\ supervisor' = supervisor /\ committee' = committee
    BY <2>2, <2>3, SessionWritten
  <2>5. Assignable(arg[r].committee, Range(arg[r].ids))
    BY <1>0, <2>1 DEF Validated
  <2>6. CASE arg[r].ids # <<>>
    <3>1. /\ pc'[r] = "append"
          /\ arg'[r] = [op |-> "append", id |-> s, ids |-> arg[r].ids, from |-> 0, skip |-> FALSE, renumber |-> FALSE]
      BY <2>2, <2>6, Gone
    <3>2. arg'[r].id = s /\ arg'[r].ids = arg[r].ids
      BY <3>1
    <3>3. Assignable(session[arg[r].id].committee, Range(arg[r].ids))'
      BY <2>3, <2>4, <2>5, <3>2 DEF Assignable, Seated
    <3> QED
      BY <3>1, <3>3 DEF Validated, Planned
  <2> QED
    BY <1>2, <2>2, <2>6
<1>8. CASE ReadLast(r)
  <2>1. /\ pc[r] = "last" /\ supervisor' = supervisor /\ committee' = committee /\ session' = session /\ pc'[r] = "append"
        /\ arg'[r] = [op |-> "append", id |-> arg[r].id, ids |-> arg[r].ids, from |-> LastOrder(arg[r].id),
                      skip |-> TRUE, renumber |-> FALSE]
    BY <1>8, Gone DEF ReadLast
  <2>2. arg'[r].id = arg[r].id /\ arg'[r].ids = arg[r].ids
    BY <2>1
  <2>3. Assignable(session[arg[r].id].committee, Range(arg[r].ids))'
    BY <1>0, <2>1, <2>2 DEF Assignable, Seated, Validated
  <2> QED
    BY <2>1, <2>3 DEF Validated, Planned
<1>9. CASE AddRows(r)
  BY <1>2, <1>3, <1>9 DEF AddRows
<1>10. CASE UpdateStatus(r)
  <2>1. pc[r] = "status" /\ arg' = arg /\ pc'[r] \in {"plan", "list"} /\ SessionsKept
    BY <1>1, <1>10, StepRows DEF UpdateStatus
  <2>2. arg[r].id \in Sessions /\ arg[r].committee = session[arg[r].id].committee
    BY <1>0, <2>1 DEF Validated, SessionArg, HasSession, OnSession
  <2> QED
    BY <2>1, <2>2 DEF Validated, Planned, SessionsKept
<1>11. CASE Plan(r)
  <2>1. /\ pc[r] = "plan" /\ pc'[r] = (IF arg[r].ids = <<>> THEN "prune" ELSE "validate")
        /\ supervisor' = supervisor /\ committee' = committee /\ session' = session
    BY <1>11, Planning
  <2>2. /\ arg'[r].id = arg[r].id /\ arg'[r].committee = arg[r].committee /\ arg'[r].ids = arg[r].ids
        /\ Range(arg'[r].add) \subseteq Range(arg[r].ids)
    BY <1>11, Planning
  <2>3. arg[r].ids = <<>> => Range(arg'[r].add) = {}
    BY <2>2, EmptyList
  <2> QED
    BY <1>0, <2>1, <2>2, <2>3 DEF Validated, Planned, Assignable
<1>12. CASE Prune(r)
  <2>1. /\ pc[r] = "prune" /\ arg[r].id \in Sessions /\ pc'[r] \in {"list", "append"}
        /\ arg'[r].id = arg[r].id /\ arg'[r].ids = arg[r].add
    BY <1>12, PruneIs
  <2>2. Assignable(session[arg[r].id].committee, Range(arg[r].add))
    BY <1>0, <2>1 DEF Validated
  <2>3. SessionsKept /\ SeatsKept /\ supervisor' = supervisor
    BY <1>12, <2>1, StepRows DEF Seating
  <2>4. session[arg[r].id].committee \in CommitteeId
    BY <2>1, SessionRead DEF Session
  <2>5. Assignable(session[arg[r].id].committee, Range(arg[r].ids))'
    BY <2>1, <2>2, <2>3, <2>4 DEF Assignable, Seated, SeatsKept, SessionsKept
  <2> QED
    BY <2>1, <2>5 DEF Validated, Planned
<1> QED
  BY <1>4, <1>5, <1>6, <1>7, <1>8, <1>9, <1>10, <1>11, <1>12 DEF Proceed

LEMMA SupervisorsInvInit == Init => SupervisorsInv
BY DEF Init, SupervisorsInv, Validated, Planned

LEMMA SupervisorsInvNext == Inv /\ Inv' /\ SupervisorsInv /\ [Next /\ UNCHANGED scope]_vars => SupervisorsInv'
<1> SUFFICES ASSUME Inv, Inv', SupervisorsInv, [Next /\ UNCHANGED scope]_vars, SeatsApart, scope' = scope
             PROVE  SupervisorsInv'
  BY DEF SupervisorsInv, SeatsApart, OneByOne, vars
<1>1. CASE UNCHANGED vars
  BY <1>1 DEF vars, SupervisorsInv, OneByOne, Validated, Planned, Assignable, Seated
<1>2. ASSUME NEW r \in Request, CommitteeArrives(r) \/ SessionArrives(r) PROVE SupervisorsInv'
  <2>1. /\ OnlyAt(r) /\ pc'[r] # "idle" /\ supervisor' = supervisor /\ committee' = committee /\ session' = session
    BY <1>2, CommitteeArrivesKeeps, SessionArrivesKeeps
  <2>2. SessionsKept /\ SeatsKept
    BY <2>1 DEF SessionsKept, SeatsKept
  <2> QED
    BY <1>2, <2>1, <2>2, ArrivesValidated, SupervisorsLeft
<1>3. ASSUME NEW r \in Request, Proceed(r) \/ Fail(r) PROVE SupervisorsInv'
  BY <1>3, ProceedKeeps, StepRows, ProceedValidated, SupervisorsLeft
<1> QED
  BY <1>1, <1>2, <1>3 DEF Next

\* However requests for sessions overlap, of creation, update, addition and removal, none brings
\* in a project whose supervisor sits in the committee, inside or outside, at that moment.
THEOREM NoSupervisorHears == Spec => SupervisorsKeptOut
<1> DEFINE Entered ==
      OneByOne \/ scope.ops \cap {"createCommittee", "updateCommittee"} = {} =>
      \A s \in Sessions : \A p \in Project :
          session[s].order[p] = 0 /\ session'[s].order[p] > 0
          => LET c == session[s].committee
             IN  supervisor[p] \notin Seated(c) \cup committee[c].externals
<1>1. Inv /\ SupervisorsInv /\ [Next /\ UNCHANGED scope]_vars => [Entered]_vars
  <2> SUFFICES ASSUME Inv, SupervisorsInv, Next /\ UNCHANGED scope, SeatsApart, NEW s \in Sessions, NEW p \in Project,
                      session[s].order[p] = 0, session'[s].order[p] > 0
               PROVE  supervisor[p] \notin Seated(session[s].committee) \cup committee[session[s].committee].externals
    BY DEF SeatsApart
  <2>1. session' # session
    <3>1. ~(0 > 0)
      OBVIOUS
    <3> QED
      BY <3>1
  <2>2. PICK r \in Request : Proceed(r) \/ Fail(r)
    BY <2>1, CommitteeArrivesKeeps, SessionArrivesKeeps DEF Next
  <2>3. AddRows(r) /\ s = arg[r].id /\ p \in Range(arg[r].ids)
    BY <2>2, StepRows
  <2>4. pc[r] = "append" /\ Validated(r)
    BY <2>3 DEF AddRows, SupervisorsInv, SeatsApart
  <2> QED
    BY <2>3, <2>4 DEF Validated, Assignable
<1> QED
  BY <1>1, InvInit, InvNext, SupervisorsInvInit, SupervisorsInvNext, PTL DEF Spec, SupervisorsKeptOut

-----------------------------------------------------------------------------
(* Requests one after the other *)

Sound == FixedMembersOnce /\ DeletedIsEmpty /\ PositionsDistinct

Fits(q) == SeatsFit(q) /\ Lives(q) /\ PlacesFree(q)

\* No two projects have one position.
Apart(order) == \A p, q \in Project : order[p] > 0 /\ order[p] = order[q] => p = q

LEMMA SeatsIdle ==
    ASSUME NEW r \in Request, pc'[r] \notin {"committee", "members", "dropMembers"}
    PROVE  SeatsFit(r)'
BY DEF SeatsFit

LEMMA PlacesIdle ==
    ASSUME NEW r \in Request, pc'[r] \notin {"validate", "prune", "append", "renumber"}
    PROVE  PlacesFree(r)'
BY DEF PlacesFree, Planned

LEMMA FitsIdle ==
    ASSUME NEW r \in Request, pc'[r] = "idle"
    PROVE  Fits(r)'
<1>1. Lives(r)'
  BY DEF Lives, HasSession, OnSession
<1> QED
  BY <1>1, SeatsIdle, PlacesIdle DEF Fits

LEMMA AloneLeft ==
    ASSUME Inv, Inv', OneByOne, scope' = scope, NEW r \in Request, OnlyAt(r),
           pc[r] # "idle" \/ pc'[r] # "idle", Sound', Fits(r)'
    PROVE  AloneInv'
<1>1. ASSUME NEW q \in Request, q # r PROVE Fits(q)'
  <2>1. pc'[q] = pc[q]
    BY <1>1 DEF OnlyAt, Inv
  <2> QED
    BY <1>1, <2>1, Alone, FitsIdle
<1> QED
  BY <1>1 DEF AloneInv, Sound, Fits

\* What a request finds before its step.
LEMMA AloneFinds ==
    ASSUME Inv, AloneInv, OneByOne, NEW r \in Request
    PROVE  Sound /\ Fits(r)
BY DEF AloneInv, Sound, Fits

-----------------------------------------------------------------------------
(* Committees that share nobody *)

LEMMA SoundKept ==
    ASSUME Sound, committee' = committee, session' = session
    PROVE  Sound'
<1>1. FixedMembersOnce'
  BY DEF Sound, FixedMembersOnce, LiveCommittees, Committees
<1>2. DeletedIsEmpty'
  BY DEF Sound, DeletedIsEmpty, LiveSessions, Sessions, Holds
<1>3. PositionsDistinct'
  BY DEF Sound, PositionsDistinct, Sessions, Holds
<1> QED
  BY <1>1, <1>2, <1>3 DEF Sound

LEMMA SoundCommittees ==
    ASSUME Inv, Sound, NEW c \in CommitteeId, NEW row \in Committee, SetCommittee(c, row), FixedMembersOnce',
           row.live \/ \A s \in LiveSessions : session[s].committee # c
    PROVE  Sound'
<1>1. /\ committee'[c] = row /\ \A d \in CommitteeId \ {c} : committee'[d] = committee[d]
      /\ session' = session
  BY CommitteeWritten
<1>2. Sessions' = Sessions /\ LiveSessions' = LiveSessions /\ \A s : Holds(s)' = Holds(s)
  BY <1>1 DEF Sessions, LiveSessions, Holds
<1>3. ASSUME NEW s \in LiveSessions PROVE committee'[session[s].committee].live
  <2>1. session[s].committee \in CommitteeId /\ committee[session[s].committee].live
    BY SessionRead DEF LiveSessions, Session, Sound, DeletedIsEmpty
  <2>2. CASE session[s].committee = c
    BY <1>1, <2>2
  <2>3. CASE session[s].committee # c
    BY <1>1, <2>1, <2>3
  <2> QED
    BY <2>2, <2>3
<1>4. DeletedIsEmpty'
  BY <1>1, <1>2, <1>3 DEF DeletedIsEmpty, Sound
<1>5. PositionsDistinct'
  BY <1>1, <1>2 DEF PositionsDistinct, Sound
<1> QED
  BY <1>4, <1>5 DEF Sound

\* A committee that loses members, or is deleted, shares nobody.
LEMMA FewerMembers ==
    ASSUME Inv, FixedMembersOnce, NEW c \in CommitteeId, NEW row \in Committee, SetCommittee(c, row),
           row.live => row.members = {} \/ (c \in LiveCommittees /\ row.members \subseteq committee[c].members)
    PROVE  FixedMembersOnce'
<1>1. /\ committee'[c] = row /\ \A d \in CommitteeId \ {c} : committee'[d] = committee[d]
  BY CommitteeWritten
<1>2. ASSUME NEW d \in LiveCommittees', NEW m \in committee'[d].members
      PROVE  d \in LiveCommittees /\ m \in committee[d].members
  <2>1. d \in CommitteeId /\ committee'[d] # NoRow /\ committee'[d].live
    BY DEF LiveCommittees, Committees
  <2>2. CASE d = c
    BY <1>1, <2>1, <2>2
  <2>3. CASE d # c
    BY <1>1, <2>1, <2>3 DEF LiveCommittees, Committees
  <2> QED
    BY <2>2, <2>3
<1>3. ASSUME NEW x \in LiveCommittees', NEW y \in LiveCommittees', NEW m \in committee'[x].members,
             NEW n \in committee'[y].members, m[1] = n[1]
      PROVE  x = y /\ m = n
  BY <1>2, <1>3 DEF FixedMembersOnce
<1> QED
  BY <1>3 DEF FixedMembersOnce

LEMMA ConflictIs ==
    ASSUME NEW t, NEW others, NEW d \in LiveCommittees \cap others, NEW m \in committee[d].members, ~Conflicts(t, others)
    PROVE  m[1] # t
BY DEF Conflicts, Seated

\* A step that writes one committee brings about no conflict with the others.
LEMMA ConflictsElsewhere ==
    ASSUME Inv, NEW c \in CommitteeId, NEW row \in Committee, SetCommittee(c, row), NEW t,
           ~Conflicts(t, CommitteeId \ {c})
    PROVE  ~Conflicts(t, CommitteeId \ {c})'
<1>1. \A d \in CommitteeId \ {c} : committee'[d] = committee[d]
  BY CommitteeWritten
<1>2. ASSUME NEW d \in LiveCommittees' \cap (CommitteeId \ {c}) PROVE d \in LiveCommittees /\ Seated(d)' = Seated(d)
  BY <1>1 DEF LiveCommittees, Committees, Seated
<1> QED
  BY <1>2 DEF Conflicts

LEMMA CreateCommitteeAlone ==
    ASSUME Inv, Sound, NEW r \in Request, Fits(r), CreateCommittee(r)
    PROVE  Sound' /\ Fits(r)'
<1> DEFINE row == [live |-> TRUE, members |-> {}, externals |-> {}]
<1>1. pc[r] = "committee" /\ Go(r, "members")
  BY DEF CreateCommittee
<1>2. PICK c \in CommitteeId : /\ SetCommittee(c, row)
                               /\ arg' = [arg EXCEPT ![r] = [op |-> "committee", id |-> c, seat |-> arg[r].seat]]
  BY DEF CreateCommittee
<1>3. row \in Committee
  BY NewCommittee
<1>4. row.members = {}
  OBVIOUS
<1>5. row.live
  BY Zenon
<1> HIDE DEF row
<1>6. pc'[r] = "members" /\ arg'[r] = [op |-> "committee", id |-> c, seat |-> arg[r].seat]
  BY <1>1, <1>2, Gone
<1>7. arg'[r].id = c /\ arg'[r].seat = arg[r].seat
  BY <1>6
<1>8. Sound'
  BY <1>2, <1>3, <1>4, <1>5, FewerMembers, SoundCommittees DEF Sound
<1>9. \A f \in Fixed : ~Conflicts(arg[r].seat[f], CommitteeId)
  BY <1>1 DEF Fits, SeatsFit
<1>10. ASSUME NEW f \in Fixed PROVE ~Conflicts(arg[r].seat[f], CommitteeId \ {c})'
  <2>1. ~Conflicts(arg[r].seat[f], CommitteeId \ {c})
    BY <1>9 DEF Conflicts
  <2> QED
    BY <1>2, <1>3, <2>1, ConflictsElsewhere
<1>11. SeatsFit(r)'
  <2>1. ASSUME NEW f \in Fixed PROVE ~Conflicts(arg[r].seat[f], CommitteeId \ {arg[r].id})'
    BY <1>7, <1>10
  <2>2. \A f, g \in Fixed : arg'[r].seat[f] # NoTeacher /\ arg'[r].seat[f] = arg'[r].seat[g] => f = g
    BY <1>1, <1>7 DEF Fits, SeatsFit
  <2> QED
    BY <1>6, <2>1, <2>2 DEF SeatsFit
<1>12. Lives(r)' /\ PlacesFree(r)'
  BY <1>6, PlacesIdle DEF Lives, HasSession, OnSession
<1> QED
  BY <1>8, <1>11, <1>12 DEF Fits

\* What a step that seats leaves to be shown: its committee, and the step it goes to.
LEMMA FitsSeating ==
    ASSUME NEW r \in Request, pc'[r] \in {"idle", "external", "dropExternal"}
    PROVE  Fits(r)'
<1>1. Lives(r)'
  BY DEF Lives, HasSession, OnSession
<1> QED
  BY <1>1, SeatsIdle, PlacesIdle DEF Fits

LEMMA AddMembersAlone ==
    ASSUME Inv, Sound, NEW r \in Request, Fits(r), AddMembers(r)
    PROVE  Sound' /\ Fits(r)'
<1> DEFINE c == arg[r].id
           seat == arg[r].seat
           new == committee[c].members \cup {m \in Members(seat) : m[1] \notin Seated(c)}
           row == [committee[c] EXCEPT !.members = new]
<1>1. pc[r] = "members" /\ Held(r) /\ SetCommittee(c, row)
  BY DEF AddMembers, Inv
<1>2. c \in Committees /\ c \in CommitteeId /\ committee[c] \in Committee /\ seat \in Seats
  BY <1>1, CommitteeRead DEF Held, CommitteeArg, Seating
<1>3. new \in SUBSET (Teacher \X Fixed)
  BY <1>2, MembersAre DEF Committee
<1>4. row \in Committee /\ row.members = new /\ row.live = committee[c].live
  <2> HIDE DEF new
  <2> QED
    BY <1>2, <1>3, RowsOfCommittee DEF Committee
<1>5. pc'[r] \in {"idle", "external", "dropExternal"}
  BY Gone, Finished DEF AddMembers
<1>6. /\ \A f \in Fixed : seat[f] # NoTeacher => ~Conflicts(seat[f], CommitteeId \ {c})
      /\ \A f, g \in Fixed : seat[f] # NoTeacher /\ seat[f] = seat[g] => f = g
  BY <1>1 DEF Fits, SeatsFit
<1>7. ASSUME NEW m \in new, m \notin committee[c].members
      PROVE  \E f \in Fixed : seat[f] # NoTeacher /\ m = <<seat[f], f>> /\ m[1] \notin Seated(c)
  BY <1>7 DEF Members
<1>8. ASSUME NEW m \in new, NEW n \in new, m[1] = n[1], c \in LiveCommittees PROVE m = n
  <2>1. CASE m \in committee[c].members /\ n \in committee[c].members
    BY <1>8, <2>1 DEF Sound, FixedMembersOnce
  <2>2. CASE m \in committee[c].members /\ n \notin committee[c].members
    BY <1>7, <1>8, <2>2 DEF Seated
  <2>3. CASE m \notin committee[c].members /\ n \in committee[c].members
    BY <1>7, <1>8, <2>3 DEF Seated
  <2>4. CASE m \notin committee[c].members /\ n \notin committee[c].members
    <3>1. PICK f \in Fixed : seat[f] # NoTeacher /\ m = <<seat[f], f>>
      BY <1>7, <2>4
    <3>2. PICK g \in Fixed : n = <<seat[g], g>>
      BY <1>7, <2>4
    <3> QED
      BY <1>6, <1>8, <3>1, <3>2
  <2> QED
    BY <2>1, <2>2, <2>3, <2>4
<1>9. ASSUME NEW m \in new, NEW d \in LiveCommittees, d # c, NEW n \in committee[d].members, c \in LiveCommittees PROVE m[1] # n[1]
  <2>1. CASE m \in committee[c].members
    BY <1>9, <2>1 DEF Sound, FixedMembersOnce
  <2>2. CASE m \notin committee[c].members
    <3>1. PICK f \in Fixed : seat[f] # NoTeacher /\ m = <<seat[f], f>>
      BY <1>7, <2>2
    <3>2. d \in LiveCommittees \cap (CommitteeId \ {c})
      BY <1>9 DEF LiveCommittees, Committees
    <3> QED
      BY <1>6, <3>1, <3>2, ConflictIs
  <2> QED
    BY <2>1, <2>2
<1>10. /\ committee'[c] = row /\ \A d \in CommitteeId \ {c} : committee'[d] = committee[d]
  BY <1>1, <1>2, <1>4, CommitteeWritten
<1>11. LiveCommittees' = LiveCommittees
  <2>1. \A d \in CommitteeId : committee'[d] # NoRow <=> committee[d] # NoRow
    BY <1>2, <1>4, <1>10, DefenseAbsence DEF Committees
  <2>2. \A d \in CommitteeId : committee'[d].live <=> committee[d].live
    BY <1>4, <1>10
  <2> QED
    BY <2>1, <2>2 DEF LiveCommittees, Committees
<1>12. LiveCommittees \subseteq CommitteeId /\ committee'[c].members = new
  BY <1>4, <1>10 DEF LiveCommittees, Committees
<1>13. FixedMembersOnce'
  <2> HIDE DEF new, row
  <2>1. SUFFICES ASSUME NEW x \in LiveCommittees, NEW y \in LiveCommittees, NEW m \in committee'[x].members,
                        NEW n \in committee'[y].members, m[1] = n[1]
                 PROVE  x = y /\ m = n
    BY <1>11 DEF FixedMembersOnce
  <2>2. CASE x = c /\ y = c
    BY <1>8, <1>12, <2>1, <2>2
  <2>3. CASE x = c /\ y # c
    BY <1>9, <1>10, <1>12, <2>1, <2>3
  <2>4. CASE x # c /\ y = c
    BY <1>9, <1>10, <1>12, <2>1, <2>4
  <2>5. CASE x # c /\ y # c
    BY <1>10, <1>12, <2>1, <2>5 DEF Sound, FixedMembersOnce
  <2> QED
    BY <2>2, <2>3, <2>4, <2>5
<1>14. row.live \/ \A s \in LiveSessions : session[s].committee # c
  BY <1>4 DEF Sound, DeletedIsEmpty
<1> HIDE DEF row
<1> QED
  BY <1>1, <1>2, <1>4, <1>5, <1>13, <1>14, SoundCommittees, FitsSeating

LEMMA ExternalsAlone ==
    ASSUME Inv, Sound, NEW r \in Request, Fits(r), AddExternal(r) \/ DropExternal(r)
    PROVE  Sound' /\ Fits(r)'
<1> DEFINE c == arg[r].id
           new == IF pc[r] = "external" THEN committee[c].externals \cup {arg[r].seat["EXTERNAL_REVIEWER"]} ELSE {}
           row == [committee[c] EXCEPT !.externals = new]
<1>1. pc[r] \in {"external", "dropExternal"} /\ Held(r) /\ SetCommittee(c, row)
  BY DEF AddExternal, DropExternal, Inv
<1>2. c \in Committees /\ c \in CommitteeId /\ committee[c] \in Committee /\ arg[r].seat \in Seats
      /\ arg[r].seat["EXTERNAL_REVIEWER"] # NoTeacher
  BY <1>1, CommitteeRead DEF Held, CommitteeArg, Seating
<1>3. new \in SUBSET Teacher
  BY <1>2 DEF Committee, Seats, Role
<1>4. row \in Committee /\ row.members = committee[c].members /\ row.live = committee[c].live
  <2> HIDE DEF new
  <2> QED
    BY <1>2, <1>3 DEF Committee
<1>5. pc'[r] \in {"idle", "external"}
  BY Gone, Finished DEF AddExternal, DropExternal
<1>6. row.live => c \in LiveCommittees
  BY <1>2, <1>4 DEF LiveCommittees
<1>7. row.live \/ \A s \in LiveSessions : session[s].committee # c
  BY <1>4 DEF Sound, DeletedIsEmpty
<1> HIDE DEF row
<1>8. FixedMembersOnce'
  BY <1>1, <1>2, <1>4, <1>6, FewerMembers DEF Sound
<1> QED
  BY <1>1, <1>2, <1>4, <1>5, <1>7, <1>8, SoundCommittees, FitsSeating

LEMMA DropMembersAlone ==
    ASSUME Inv, Sound, NEW r \in Request, Fits(r), DropMembers(r)
    PROVE  Sound' /\ Fits(r)'
<1> DEFINE c == arg[r].id
           row == [committee[c] EXCEPT !.members = {}]
<1>1. pc[r] = "dropMembers" /\ Held(r) /\ SetCommittee(c, row) /\ Go(r, "members") /\ UNCHANGED arg
  BY DEF DropMembers, Inv
<1>2. c \in CommitteeId /\ committee[c] \in Committee
  BY <1>1, CommitteeRead DEF Held, CommitteeArg, Seating
<1>3. row \in Committee /\ row.members = {} /\ row.live = committee[c].live
  BY <1>2 DEF Committee
<1>4. row.live \/ \A s \in LiveSessions : session[s].committee # c
  BY <1>3 DEF Sound, DeletedIsEmpty
<1> HIDE DEF row
<1>5. Sound'
  BY <1>1, <1>2, <1>3, <1>4, FewerMembers, SoundCommittees DEF Sound
<1>6. pc'[r] = "members" /\ arg'[r] = arg[r]
  BY <1>1, Gone
<1>7. ASSUME NEW f \in Fixed, arg[r].seat[f] # NoTeacher PROVE ~Conflicts(arg[r].seat[f], CommitteeId \ {c})'
  <2>1. ~Conflicts(arg[r].seat[f], CommitteeId \ {c})
    BY <1>1, <1>7 DEF Fits, SeatsFit
  <2> QED
    BY <1>1, <1>2, <1>3, <2>1, ConflictsElsewhere
<1>8. SeatsFit(r)'
  <2>1. \A f, g \in Fixed : arg[r].seat[f] # NoTeacher /\ arg[r].seat[f] = arg[r].seat[g] => f = g
    BY <1>1 DEF Fits, SeatsFit
  <2> QED
    BY <1>1, <1>6, <1>7, <2>1 DEF SeatsFit
<1>9. Lives(r)' /\ PlacesFree(r)'
  BY <1>6, PlacesIdle DEF Lives, HasSession, OnSession
<1> QED
  BY <1>5, <1>8, <1>9 DEF Fits

LEMMA DeleteCommitteeAlone ==
    ASSUME Inv, Sound, NEW r \in Request, Fits(r), DeleteCommittee(r)
    PROVE  Sound' /\ Fits(r)'
<1> DEFINE c == arg[r].id
           row == [committee[c] EXCEPT !.live = FALSE]
<1>1. pc[r] = "deleteCommittee" /\ Held(r) /\ SetCommittee(c, row) /\ Finish(r)
  BY DEF DeleteCommittee, Inv
<1>2. c \in CommitteeId /\ committee[c] \in Committee
  BY <1>1, CommitteeRead DEF Held, CommitteeArg
<1>3. row \in Committee
  BY <1>2, RowsOfCommittee DEF Committee
<1>4. ~row.live
  BY <1>2, SMT DEF Committee
<1>5. \A s \in LiveSessions : session[s].committee # c
  BY <1>1 DEF Fits, Lives
<1> HIDE DEF row
<1> QED
  BY <1>1, <1>2, <1>3, <1>4, <1>5, FewerMembers, SoundCommittees, Finished, FitsIdle DEF Sound

-----------------------------------------------------------------------------
(* What requests check when they arrive *)

LEMMA CommitteeArrivesAlone ==
    ASSUME Inv, Sound, NEW r \in Request, CommitteeArrives(r)
    PROVE  Sound' /\ Fits(r)'
<1>1. \A step, a : Begin(r, step, a) => /\ pc'[r] = step /\ arg'[r] = a /\ session' = session
                                        /\ committee' = committee
  BY Begun
<1>2. UNCHANGED <<supervisor, committee, session>>
  BY DEF CommitteeArrives, CreateCommitteeCheck, UpdateCommitteeCheck, DeleteCommitteeCheck, Begin
<1>3. \A t, others : Conflicts(t, others)' <=> Conflicts(t, others)
  BY <1>2 DEF Conflicts, LiveCommittees, Committees, Seated
<1>4. ASSUME NEW seat \in Full, CreateCommitteeCheck(r, seat) PROVE Fits(r)'
  <2>1. pc'[r] = "committee" /\ arg'[r] = [op |-> "createCommittee", seat |-> seat]
    BY <1>1, <1>4 DEF CreateCommitteeCheck
  <2>2. arg'[r].seat = seat
    BY <2>1
  <2>3. Composed(seat) /\ \A f \in Fixed : ~Conflicts(seat[f], CommitteeId)
    BY <1>4 DEF CreateCommitteeCheck, Available
  <2>4. ASSUME NEW f \in Fixed PROVE ~Conflicts(arg[r].seat[f], CommitteeId)'
    BY <1>3, <2>2, <2>3
  <2>5. \A f, g \in Fixed : seat[f] = seat[g] => f = g
    BY <2>3 DEF Composed, Role
  <2>6. SeatsFit(r)'
    BY <2>1, <2>2, <2>4, <2>5 DEF SeatsFit
  <2>7. Lives(r)' /\ PlacesFree(r)'
    BY <2>1, PlacesIdle DEF Lives, HasSession, OnSession
  <2> QED
    BY <2>6, <2>7 DEF Fits
<1>5. ASSUME NEW c \in Committees, NEW seat \in SeatsGiven, UpdateCommitteeCheck(r, c, seat) PROVE Fits(r)'
  <2>1. /\ pc'[r] = IF Members(seat) # {} THEN "dropMembers" ELSE "dropExternal"
        /\ arg'[r] = [op |-> "updateCommittee", id |-> c, seat |-> seat]
    BY <1>1, <1>5 DEF UpdateCommitteeCheck
  <2>2. arg'[r].seat = seat /\ arg'[r].id = c
    BY <2>1
  <2>3. Composed(Composition(seat, c)) /\ \A f \in Fixed : ~Conflicts(Composition(seat, c)[f], CommitteeId \ {c})
    BY <1>5 DEF UpdateCommitteeCheck, Available
  <2>4. ASSUME NEW f \in Fixed, seat[f] # NoTeacher PROVE Composition(seat, c)[f] = seat[f]
    BY <2>4 DEF Composition, Role
  <2>5. ASSUME NEW f \in Fixed, seat[f] # NoTeacher PROVE ~Conflicts(arg[r].seat[f], CommitteeId \ {arg[r].id})'
    BY <1>3, <2>2, <2>3, <2>4, <2>5
  <2>6. ASSUME NEW f \in Fixed, NEW g \in Fixed, seat[f] # NoTeacher, seat[f] = seat[g] PROVE f = g
    BY <2>3, <2>4, <2>6 DEF Composed, Role
  <2>7. SeatsFit(r)'
    BY <2>1, <2>2, <2>5, <2>6 DEF SeatsFit
  <2>8. Lives(r)' /\ PlacesFree(r)'
    BY <2>1, PlacesIdle DEF Lives, HasSession, OnSession
  <2> QED
    BY <2>7, <2>8 DEF Fits
<1>6. ASSUME NEW c \in Committees, DeleteCommitteeCheck(r, c) PROVE Fits(r)'
  <2>1. pc'[r] = "deleteCommittee" /\ arg'[r] = [op |-> "deleteCommittee", id |-> c]
    BY <1>1, <1>6 DEF DeleteCommitteeCheck
  <2>2. arg'[r].id = c /\ LiveSessions' = LiveSessions
    BY <1>2, <2>1 DEF LiveSessions, Sessions
  <2>3. \A s \in LiveSessions' : session'[s].committee # arg'[r].id
    BY <1>2, <1>6, <2>2 DEF DeleteCommitteeCheck
  <2>4. Lives(r)'
    BY <2>1, <2>3 DEF Lives, HasSession, OnSession
  <2> QED
    BY <2>1, <2>4, SeatsIdle, PlacesIdle DEF Fits
<1> QED
  BY <1>2, <1>4, <1>5, <1>6, SoundKept DEF CommitteeArrives

\* A request for a session has one that lives.
LEMMA FitsArriving ==
    ASSUME NEW r \in Request, pc'[r] \in {"status", "remove", "complete", "empty"} \/ (pc'[r] = "validate" /\ arg'[r].op = "addProjects"),
           session'[arg'[r].id].live
    PROVE  Fits(r)'
<1>1. Lives(r)'
  BY DEF Lives, HasSession, OnSession
<1>2. PlacesFree(r)'
  BY DEF PlacesFree, Planned
<1> QED
  BY <1>1, <1>2, SeatsIdle DEF Fits

LEMMA SessionArrivesAlone ==
    ASSUME Inv, Sound, NEW r \in Request, SessionArrives(r)
    PROVE  Sound' /\ Fits(r)'
<1>1. \A step, a : Begin(r, step, a) => /\ pc'[r] = step /\ arg'[r] = a /\ session' = session
                                        /\ committee' = committee
  BY Begun
<1>2. UNCHANGED <<supervisor, committee, session>>
  BY DEF SessionArrives, CreateSessionCheck, AddProjectsCheck, UpdateSessionCheck, RemoveProjectCheck,
         CompleteCheck, DeleteSessionCheck, Begin
<1>3. ASSUME NEW c \in Committees, NEW ids, CreateSessionCheck(r, c, ids) PROVE Fits(r)'
  <2>1. /\ pc'[r] = IF ids = <<>> THEN "session" ELSE "validate"
        /\ arg'[r] = [op |-> "createSession", committee |-> c, ids |-> ids]
    BY <1>1, <1>3 DEF CreateSessionCheck
  <2>2. arg'[r].op = "createSession" /\ arg'[r].committee = c /\ committee'[c].live
    BY <1>2, <1>3, <2>1 DEF CreateSessionCheck
  <2>3. Lives(r)' /\ PlacesFree(r)'
    BY <2>1, <2>2 DEF Lives, HasSession, OnSession, PlacesFree, Planned
  <2> QED
    BY <2>1, <2>3, SeatsIdle DEF Fits
<1>4. ASSUME NEW s \in Sessions, NEW ids, AddProjectsCheck(r, s, ids) PROVE Fits(r)'
  <2>1. /\ pc'[r] = "validate"
        /\ arg'[r] = [op |-> "addProjects", id |-> s, committee |-> session[s].committee, ids |-> ids]
    BY <1>1, <1>4 DEF AddProjectsCheck
  <2>2. arg'[r].op = "addProjects" /\ arg'[r].id = s /\ session'[s].live
    BY <1>2, <1>4, <2>1 DEF AddProjectsCheck
  <2> QED
    BY <2>1, <2>2, FitsArriving
<1>5. ASSUME NEW s \in Sessions, NEW status, NEW ids, UpdateSessionCheck(r, s, status, ids) PROVE Fits(r)'
  <2>1. /\ pc'[r] = "status"
        /\ arg'[r] = [op |-> "updateSession", id |-> s, committee |-> session[s].committee,
                      status |-> status, ids |-> ids]
    BY <1>1, <1>5 DEF UpdateSessionCheck
  <2>2. arg'[r].id = s /\ session'[s].live
    BY <1>2, <1>5, <2>1 DEF UpdateSessionCheck
  <2> QED
    BY <2>1, <2>2, FitsArriving
<1>6. ASSUME NEW s \in Sessions, NEW p \in Project, RemoveProjectCheck(r, s, p) PROVE Fits(r)'
  <2>1. pc'[r] = "remove" /\ arg'[r] = [op |-> "removeProject", id |-> s, project |-> p] /\ p \in Holds(s)
    BY <1>1, <1>6 DEF RemoveProjectCheck
  <2>2. s \in LiveSessions
    BY <2>1 DEF Sound, DeletedIsEmpty
  <2>3. arg'[r].id = s /\ session'[s].live
    BY <1>2, <2>1, <2>2 DEF LiveSessions
  <2> QED
    BY <2>1, <2>3, FitsArriving
<1>7. ASSUME NEW s \in Sessions, CompleteCheck(r, s) \/ DeleteSessionCheck(r, s) PROVE Fits(r)'
  <2>1. pc'[r] \in {"complete", "empty"} /\ arg'[r].id = s /\ session'[s].live
    BY <1>1, <1>2, <1>7 DEF CompleteCheck, DeleteSessionCheck
  <2> QED
    BY <2>1, FitsArriving
<1> QED
  BY <1>2, <1>3, <1>4, <1>5, <1>6, <1>7, SoundKept DEF SessionArrives

-----------------------------------------------------------------------------
(* Sessions whose projects stand in a line *)

LEMMA SoundSessions ==
    ASSUME Inv, Sound, NEW s \in SessionId, NEW row \in Session, SetSession(s, row),
           s \in Sessions \/ s = Cardinality(Sessions) + 1,
           row.live => committee[row.committee].live, row.live \/ \A p \in Project : row.order[p] = 0,
           Apart(row.order)
    PROVE  Sound'
<1>1. /\ Sessions' = Sessions \cup {s} /\ session'[s] = row /\ \A t \in SessionId \ {s} : session'[t] = session[t]
      /\ committee' = committee
  BY SessionWritten
<1>2. FixedMembersOnce'
  BY <1>1 DEF Sound, FixedMembersOnce, LiveCommittees, Committees
<1>3. ASSUME NEW t \in Sessions', t # s PROVE t \in Sessions /\ session'[t] = session[t]
  BY <1>1, <1>3 DEF Sessions
<1>4. ASSUME NEW t \in Sessions', session'[t].live PROVE committee'[session'[t].committee].live
  <2>1. CASE t = s
    BY <1>1, <1>4, <2>1
  <2>2. CASE t # s
    <3>1. t \in LiveSessions
      BY <1>3, <1>4, <2>2 DEF LiveSessions
    <3> QED
      BY <1>1, <1>3, <2>2, <3>1 DEF Sound, DeletedIsEmpty
  <2> QED
    BY <2>1, <2>2
<1>5. ASSUME NEW t \in Sessions', ~session'[t].live, NEW p \in Project PROVE ~(session'[t].order[p] > 0)
  <2>1. CASE t = s
    <3>1. row.order[p] = 0
      BY <1>1, <1>5, <2>1
    <3> QED
      BY <1>1, <2>1, <3>1
  <2>2. CASE t # s
    <3>1. t \in Sessions \ LiveSessions
      BY <1>3, <1>5, <2>2 DEF LiveSessions
    <3>2. p \notin Holds(t)
      BY <3>1 DEF Sound, DeletedIsEmpty
    <3> QED
      BY <1>3, <2>2, <3>2 DEF Holds
  <2> QED
    BY <2>1, <2>2
<1>6. DeletedIsEmpty'
  <2>1. \A t \in LiveSessions' : committee'[session'[t].committee].live
    BY <1>4 DEF LiveSessions
  <2>2. \A t \in Sessions' \ LiveSessions' : Holds(t)' = {}
    BY <1>5 DEF LiveSessions, Holds
  <2> QED
    BY <2>1, <2>2 DEF DeletedIsEmpty
<1>7. ASSUME NEW t \in Sessions', NEW p \in Project, NEW q \in Project, session'[t].order[p] > 0,
             session'[t].order[p] = session'[t].order[q]
      PROVE  p = q
  <2>1. CASE t = s
    BY <1>1, <1>7, <2>1 DEF Apart
  <2>2. CASE t # s
    <3>1. t \in Sessions /\ p \in Holds(t) /\ q \in Holds(t)
      BY <1>3, <1>7, <2>2 DEF Holds
    <3> QED
      BY <1>3, <1>7, <2>2, <3>1 DEF Sound, PositionsDistinct
  <2> QED
    BY <2>1, <2>2
<1>8. PositionsDistinct'
  BY <1>7 DEF PositionsDistinct, Holds
<1> QED
  BY <1>2, <1>6, <1>8 DEF Sound

LEMMA OrderApart ==
    ASSUME Inv, Sound, NEW s \in Sessions
    PROVE  Apart(session[s].order)
BY DEF Sound, PositionsDistinct, Holds, Apart

\* A step that numbers the projects of a session that lives.
LEMMA SoundOrder ==
    ASSUME Inv, Sound, NEW s \in Sessions, session[s].live, NEW order \in [Project -> 0 .. MaxOrder],
           SetOrder(s, order), Apart(order)
    PROVE  /\ Sound' /\ session'[s].live /\ session'[s].order = order
           /\ Holds(s)' = {p \in Project : order[p] > 0}
<1> DEFINE row == [session[s] EXCEPT !.order = order]
<1>1. row \in Session /\ row.order = order /\ row.live = session[s].live /\ row.committee = session[s].committee
  BY SessionRead DEF Session
<1>2. SetSession(s, row)
  BY DEF SetOrder
<1>3. committee[session[s].committee].live
  BY DEF Sound, DeletedIsEmpty, LiveSessions
<1> HIDE DEF row
<1>4. Sound'
  BY <1>1, <1>2, <1>3, SessionRead, SoundSessions
<1>5. session'[s] = row
  BY <1>1, <1>2, SessionRead, SessionWritten
<1>6. session'[s].live /\ session'[s].order = order
  BY <1>1, <1>5
<1> QED
  BY <1>4, <1>6 DEF Holds

\* A step that leaves the numbers.
LEMMA SoundRow ==
    ASSUME Inv, Sound, NEW s \in Sessions, session[s].live, NEW row \in Session, SetSession(s, row),
           row.order = session[s].order, row.committee = session[s].committee, row.live
    PROVE  Sound' /\ session'[s].live
<1>1. committee[row.committee].live
  BY DEF Sound, DeletedIsEmpty, LiveSessions
<1>2. Apart(row.order)
  BY OrderApart
<1> QED
  BY <1>1, <1>2, SessionRead, SoundSessions, SessionWritten

\* A request that goes on with the session it has.
LEMMA FitsGoingOn ==
    ASSUME NEW r \in Request, session'[arg'[r].id].live, pc'[r] \in {"last", "append", "plan", "prune", "list", "renumber"},
           PlacesFree(r)'
    PROVE  Fits(r)'
<1>1. Lives(r)'
  BY DEF Lives, HasSession, OnSession
<1> QED
  BY <1>1, SeatsIdle DEF Fits

LEMMA ValidateAlone ==
    ASSUME Inv, Sound, NEW r \in Request, Fits(r), Validate(r)
    PROVE  Sound' /\ Fits(r)'
<1>1. /\ pc[r] = "validate" /\ SessionArg(r) /\ UNCHANGED <<supervisor, committee, session, arg>>
      /\ pc'[r] = AfterValidation[arg[r].op]
  BY Gone DEF Validate, Inv, Held
<1>2. Sound'
  BY <1>1, SoundKept
<1>3. arg[r].op \in {"createSession", "addProjects", "updateSession"}
  BY <1>1 DEF SessionArg
<1>4. CASE arg[r].op = "createSession"
  <2>1. pc'[r] = "session" /\ committee[arg[r].committee].live
    BY <1>1, <1>4 DEF AfterValidation, Fits, Lives
  <2>2. Lives(r)'
    BY <1>1, <2>1 DEF Lives, HasSession, OnSession
  <2> QED
    BY <1>2, <2>1, <2>2, SeatsIdle, PlacesIdle DEF Fits
<1>5. CASE arg[r].op # "createSession"
  <2>1. session[arg[r].id].live
    BY <1>1, <1>5 DEF Fits, Lives, HasSession
  <2>2. \/ pc'[r] = "last"
        \/ pc'[r] = "prune" /\ arg[r].op = "updateSession"
    BY <1>1, <1>3, <1>5 DEF AfterValidation
  <2>3. CASE pc'[r] = "last"
    BY <1>1, <1>2, <2>1, <2>3, PlacesIdle, FitsGoingOn
  <2>4. CASE pc'[r] = "prune" /\ arg[r].op = "updateSession"
    <3>1. (\A p \in Holds(arg[r].id) : session[arg[r].id].order[p] <= arg[r].last) /\ NoDuplicates(arg[r].add)
      BY <1>1, <2>4 DEF Fits, PlacesFree, Planned
    <3>2. PlacesFree(r)'
      BY <1>1, <2>4, <3>1 DEF PlacesFree, Planned, Holds
    <3> QED
      BY <1>1, <1>2, <2>1, <2>4, <3>2, FitsGoingOn
  <2> QED
    BY <2>2, <2>3, <2>4
<1> QED
  BY <1>4, <1>5

LEMMA CreateSessionAlone ==
    ASSUME Inv, Sound, NEW r \in Request, Fits(r), CreateSession(r)
    PROVE  Sound' /\ Fits(r)'
<1> DEFINE order == [p \in Project |-> 0]
           row == [live |-> TRUE, committee |-> arg[r].committee, status |-> "SCHEDULED", order |-> order]
<1>1. pc[r] = "session" /\ SessionArg(r)
  BY DEF CreateSession, Inv, Held
<1>2. PICK s \in SessionId : /\ s = Cardinality(Sessions) + 1 /\ SetSession(s, row)
                             /\ IF arg[r].ids = <<>> THEN Finish(r)
                                ELSE /\ Go(r, "append")
                                     /\ arg' = [arg EXCEPT ![r] = [op |-> "append", id |-> s, ids |-> arg[r].ids,
                                                                   from |-> 0, skip |-> FALSE, renumber |-> FALSE]]
  BY DEF CreateSession
<1>3. row \in Session /\ row.committee = arg[r].committee /\ row.order = order
  BY <1>1, DefenseAssumption DEF Session, SessionArg, Status
<1>4. row.live
  BY Zenon
<1>5. committee[arg[r].committee].live
  BY <1>1 DEF Fits, Lives
<1>6. Apart(order)
  BY DEF Apart
<1> HIDE DEF row
<1>7. Sound' /\ session'[s] = row
  BY <1>2, <1>3, <1>4, <1>5, <1>6, SoundSessions, SessionWritten
<1>8. CASE arg[r].ids = <<>>
  BY <1>2, <1>7, <1>8, Finished, FitsIdle
<1>9. CASE arg[r].ids # <<>>
  <2>1. /\ pc'[r] = "append"
        /\ arg'[r] = [op |-> "append", id |-> s, ids |-> arg[r].ids, from |-> 0, skip |-> FALSE, renumber |-> FALSE]
    BY <1>2, <1>9, Gone
  <2>2. arg'[r].id = s /\ arg'[r].from = 0
    BY <2>1
  <2>3. session'[s].live /\ session'[s].order = order
    BY <1>3, <1>4, <1>7
  <2>4. Holds(s)' = {}
    BY <2>3 DEF Holds
  <2>5. PlacesFree(r)'
    BY <2>1, <2>2, <2>4 DEF PlacesFree, Planned
  <2> QED
    BY <1>7, <2>1, <2>2, <2>3, <2>5, FitsGoingOn
<1> QED
  BY <1>8, <1>9

LEMMA ReadLastAlone ==
    ASSUME Inv, Sound, NEW r \in Request, Fits(r), ReadLast(r)
    PROVE  Sound' /\ Fits(r)'
<1>1. /\ pc[r] = "last" /\ supervisor' = supervisor /\ committee' = committee /\ session' = session /\ pc'[r] = "append"
      /\ arg'[r] = [op |-> "append", id |-> arg[r].id, ids |-> arg[r].ids, from |-> LastOrder(arg[r].id),
                    skip |-> TRUE, renumber |-> FALSE]
  BY Gone DEF ReadLast
<1>2. arg'[r].id = arg[r].id /\ arg'[r].from = LastOrder(arg[r].id)
  BY <1>1
<1>3. arg[r].id \in Sessions /\ session[arg[r].id].live
  BY <1>1 DEF Inv, Held, SessionArg, Fits, Lives, HasSession, OnSession
<1>4. \A p \in Holds(arg[r].id) : session[arg[r].id].order[p] <= LastOrder(arg[r].id)
  BY <1>3, LastOrderIs DEF Holds
<1>5. PlacesFree(r)'
  BY <1>1, <1>2, <1>4 DEF PlacesFree, Planned, Holds
<1> QED
  BY <1>1, <1>2, <1>3, <1>5, SoundKept, FitsGoingOn

LEMMA AddRowsAlone ==
    ASSUME Inv, Sound, NEW r \in Request, Fits(r), AddRows(r)
    PROVE  Sound' /\ Fits(r)'
<1> DEFINE a == arg[r]
           s == a.id
           added == Range(a.ids) \ Holds(s)
           old == session[s].order
           order == [p \in Project |-> IF p \in added THEN a.from + Place(a.ids, p) ELSE old[p]]
<1>1. /\ pc[r] = "append" /\ s \in Sessions /\ a.ids \in Seq(Project) /\ a.from \in 0 .. MaxOrder
      /\ order \in [Project -> 0 .. MaxOrder] /\ SetOrder(s, order)
      /\ \A p \in Range(a.ids) : Place(a.ids, p) \in 1 .. Len(a.ids) /\ a.ids[Place(a.ids, p)] = p
  BY RowsAdded
<1>2. session[s].live /\ (\A p \in Holds(s) : old[p] <= a.from) /\ old \in [Project -> 0 .. MaxOrder]
  BY <1>1, SessionRead DEF Fits, Lives, HasSession, OnSession, PlacesFree, Session
<1>3. a.from \in Nat /\ MaxOrder \in Nat
  BY <1>1, DefenseAssumption
<1>4. \A p \in added : order[p] = a.from + Place(a.ids, p) /\ Place(a.ids, p) \in Nat /\ Place(a.ids, p) > 0
  BY <1>1 DEF Range
<1>5. \A p \in Project \ added : order[p] = old[p] /\ order[p] <= a.from
  <2> SUFFICES ASSUME NEW p \in Project \ added PROVE order[p] = old[p] /\ order[p] <= a.from
    OBVIOUS
  <2>1. order[p] = old[p] /\ old[p] \in 0 .. MaxOrder
    BY <1>2
  <2>2. old[p] > 0 => old[p] <= a.from
    BY <1>2 DEF Holds
  <2> QED
    BY <1>3, <2>1, <2>2
<1>6. ASSUME NEW p \in added, NEW q \in added, order[p] = order[q] PROVE p = q
  <2>1. PICK m, n : m = Place(a.ids, p) /\ n = Place(a.ids, q)
    OBVIOUS
  <2>2. m \in Nat /\ n \in Nat /\ a.from + m = a.from + n
    BY <1>4, <1>6, <2>1
  <2>3. m = n
    BY <1>3, <2>2
  <2> QED
    BY <1>1, <2>1, <2>3
<1>7. ASSUME NEW p \in added, NEW q \in Project \ added PROVE order[p] # order[q]
  <2>1. PICK m, n : m = Place(a.ids, p) /\ n = order[q]
    OBVIOUS
  <2>2. m \in Nat /\ m > 0 /\ order[p] = a.from + m /\ n <= a.from /\ n \in 0 .. MaxOrder
    BY <1>2, <1>4, <1>5, <2>1
  <2> QED
    BY <1>3, <2>1, <2>2
<1>8. Apart(old)
  BY <1>1, OrderApart
<1>9. Apart(order)
  <2> SUFFICES ASSUME NEW p \in Project, NEW q \in Project, order[p] > 0, order[p] = order[q] PROVE p = q
    BY DEF Apart
  <2>1. CASE p \in added /\ q \in added
    BY <1>6, <2>1
  <2>2. CASE p \notin added /\ q \notin added
    BY <1>5, <1>8, <2>2 DEF Apart
  <2>3. CASE p \in added /\ q \notin added
    BY <1>7, <2>3
  <2>4. CASE p \notin added /\ q \in added
    BY <1>7, <2>4
  <2> QED
    BY <2>1, <2>2, <2>3, <2>4
<1> HIDE DEF order
<1>10. Sound' /\ session'[s].live
  BY <1>1, <1>2, <1>9, SoundOrder
<1>11. CASE Finish(r)
  BY <1>10, <1>11, Finished, FitsIdle
<1>12. CASE Go(r, "list") /\ UNCHANGED arg
  BY <1>10, <1>12, Gone, PlacesIdle, FitsGoingOn
<1> QED
  BY <1>11, <1>12 DEF AddRows

LEMMA StatusAlone ==
    ASSUME Inv, Sound, NEW r \in Request, Fits(r), UpdateStatus(r) \/ Complete(r)
    PROVE  Sound' /\ Fits(r)'
<1> DEFINE s == arg[r].id
           status == IF pc[r] = "status" THEN arg[r].status ELSE "COMPLETED"
           row == [session[s] EXCEPT !.status = status]
<1>1. pc[r] \in {"status", "complete"} /\ SessionArg(r) /\ SetSession(s, row)
  BY DEF UpdateStatus, Complete, Inv, Held
<1>2. s \in Sessions /\ session[s].live
  BY <1>1 DEF SessionArg, Fits, Lives, HasSession, OnSession
<1>3. status \in Status
  BY <1>1 DEF SessionArg, Status
<1>4. row \in Session /\ row.order = session[s].order /\ row.committee = session[s].committee /\ row.live = session[s].live
  <2> HIDE DEF status
  <2> QED
    BY <1>2, <1>3, SessionRead DEF Session
<1> HIDE DEF row
<1>5. Sound' /\ session'[s].live
  BY <1>1, <1>2, <1>4, SoundRow
<1>6. CASE Complete(r)
  BY <1>5, <1>6, Finished, FitsIdle DEF Complete
<1>7. CASE UpdateStatus(r)
  <2>1. pc'[r] \in {"plan", "list"} /\ arg'[r] = arg[r]
    BY <1>7, Gone DEF UpdateStatus
  <2> QED
    BY <1>5, <2>1, PlacesIdle, FitsGoingOn
<1> QED
  BY <1>6, <1>7

LEMMA PlanAlone ==
    ASSUME Inv, Sound, NEW r \in Request, Fits(r), Plan(r)
    PROVE  Sound' /\ Fits(r)'
<1>1. /\ pc[r] = "plan" /\ arg[r].id \in Sessions
      /\ committee' = committee /\ session' = session /\ pc'[r] \in {"prune", "validate"}
  BY Planning
<1>2. /\ arg'[r].op = "updateSession" /\ arg'[r].id = arg[r].id /\ NoDuplicates(arg'[r].add)
      /\ arg'[r].last = LastOrder(arg[r].id)
  BY Planning
<1>3. session[arg[r].id].live
  BY <1>1 DEF Fits, Lives, HasSession, OnSession
<1>4. \A p \in Holds(arg[r].id) : session[arg[r].id].order[p] <= LastOrder(arg[r].id)
  BY <1>1, LastOrderIs DEF Holds
<1>5. PlacesFree(r)'
  BY <1>1, <1>2, <1>4 DEF PlacesFree, Planned, Holds, NoDuplicates
<1>6. Lives(r)'
  BY <1>1, <1>2, <1>3 DEF Lives, HasSession, OnSession
<1> QED
  BY <1>1, <1>5, <1>6, SoundKept, SeatsIdle DEF Fits

LEMMA PruneAlone ==
    ASSUME Inv, Sound, NEW r \in Request, Fits(r), Prune(r)
    PROVE  Sound' /\ Fits(r)'
<1> DEFINE a == arg[r]
           old == session[a.id].order
           order == [p \in Project |-> IF p \in a.remove THEN 0 ELSE old[p]]
<1>1. /\ pc[r] = "prune" /\ a.id \in Sessions /\ order \in [Project -> 0 .. MaxOrder] /\ SetOrder(a.id, order)
      /\ pc'[r] \in {"list", "append"} /\ arg'[r].id = a.id /\ arg'[r].from = a.last
  BY PruneIs
<1>2. session[a.id].live /\ \A p \in Holds(a.id) : old[p] <= a.last
  BY <1>1 DEF Fits, Lives, HasSession, OnSession, PlacesFree, Planned
<1>3. \A p \in Project : order[p] > 0 => order[p] = old[p] /\ p \in Holds(a.id)
  <2> SUFFICES ASSUME NEW p \in Project, order[p] > 0 PROVE order[p] = old[p] /\ old[p] > 0
    BY DEF Holds
  <2>1. ~(0 > 0)
    OBVIOUS
  <2> QED
    BY <2>1
<1>4. Apart(order)
  BY <1>1, <1>3, OrderApart DEF Apart
<1> HIDE DEF order
<1>5. Sound' /\ session'[a.id].live /\ session'[a.id].order = order /\ Holds(a.id)' = {p \in Project : order[p] > 0}
  BY <1>1, <1>2, <1>4, SoundOrder
<1>6. PlacesFree(r)'
  <2>1. \A p \in Holds(a.id)' : session'[a.id].order[p] <= a.last
    BY <1>2, <1>3, <1>5
  <2>2. Holds(arg[r].id)' = Holds(a.id)'
    BY <1>1 DEF Holds
  <2>3. \A p \in Holds(arg[r].id)' : session'[arg'[r].id].order[p] <= arg'[r].from
    BY <1>1, <2>1, <2>2
  <2> QED
    BY <1>1, <2>3 DEF PlacesFree, Planned
<1> QED
  BY <1>1, <1>5, <1>6, FitsGoingOn

\* Positions that climb from one or more are never below their place in the list.
LEMMA Climbs ==
    ASSUME NEW n \in Nat, NEW f \in [1 .. n -> Nat], \A i \in 1 .. n : f[i] > 0,
           \A i, j \in 1 .. n : i < j => f[i] < f[j]
    PROVE  \A i \in 1 .. n : f[i] >= i
<1> DEFINE S == {i \in 1 .. n : f[i] < i}
<1>1. SUFFICES ASSUME S # {} PROVE FALSE
  OBVIOUS
<1>2. S \in SUBSET Nat
  OBVIOUS
<1>3. PICK m \in S : \A i \in S : m <= i
  <2> HIDE DEF S
  <2> QED
    BY <1>1, <1>2, MinOf
<1>4. m \in 1 .. n /\ f[m] < m /\ f[m] \in Nat /\ f[m] > 0
  OBVIOUS
<1>5. m - 1 \in 1 .. n
  BY <1>4
<1>6. m - 1 \notin S
  BY <1>3, <1>4
<1>7. f[m - 1] >= m - 1 /\ f[m - 1] < f[m] /\ f[m - 1] \in Nat
  BY <1>4, <1>5, <1>6
<1> QED
  BY <1>4, <1>7

LEMMA ListAlone ==
    ASSUME Inv, Sound, NEW r \in Request, Fits(r), List(r)
    PROVE  Sound' /\ Fits(r)'
<1> DEFINE s == arg[r].id
           order == session[s].order
<1>1. pc[r] = "list" /\ s \in Sessions /\ committee' = committee /\ session' = session
  BY ListIs
<1>2. Sound'
  BY <1>1, SoundKept
<1>3. CASE Finish(r)
  BY <1>2, <1>3, Finished, FitsIdle
<1>4. CASE ~Finish(r)
  <2>1. PICK q \in Seq(Project) :
           /\ q # <<>> /\ Range(q) = Holds(s) /\ NoDuplicates(q) /\ Len(q) = Cardinality(Holds(s))
           /\ \A i, j \in DOMAIN q : i < j => order[q[i]] <= order[q[j]]
           /\ pc'[r] = "renumber" /\ arg'[r].id = s /\ arg'[r].rows = q /\ arg'[r].next = 1
    BY <1>4, ListIs
  <2>2. order \in [Project -> 0 .. MaxOrder] /\ MaxOrder \in Nat /\ session[s].live
    BY <1>1, SessionRead, DefenseAssumption DEF Session, Fits, Lives, HasSession, OnSession
  <2>3. Len(q) \in Nat /\ DOMAIN q = 1 .. Len(q)
    OBVIOUS
  <2>4. \A i \in 1 .. Len(q) : q[i] \in Holds(s) /\ q[i] \in Project
    BY <2>1, <2>3 DEF Range
  <2> DEFINE f == [i \in 1 .. Len(q) |-> order[q[i]]]
  <2>5. f \in [1 .. Len(q) -> Nat] /\ \A i \in 1 .. Len(q) : f[i] > 0
    BY <2>2, <2>4 DEF Holds
  <2>6. ASSUME NEW i \in 1 .. Len(q), NEW j \in 1 .. Len(q), i < j PROVE f[i] < f[j]
    <3>1. f[i] <= f[j]
      BY <2>1, <2>3, <2>6
    <3>2. q[i] # q[j]
      BY <2>1, <2>3, <2>6 DEF NoDuplicates
    <3>3. f[i] # f[j]
      BY <1>1, <2>4, <3>2 DEF Sound, PositionsDistinct
    <3> QED
      BY <2>5, <3>1, <3>3
  <2>7. \A i \in 1 .. Len(q) : f[i] >= i
    <3> HIDE DEF f
    <3> QED
      BY <2>3, <2>5, <2>6, Climbs
  <2>8. /\ \A i \in 1 .. Len(q) : ~(i < 1)
        /\ \A i \in 1 .. Len(q) : order[q[i]] >= i
        /\ \A i, j \in 1 .. Len(q) : i < j => order[q[i]] < order[q[j]]
    BY <2>6, <2>7
  <2>9. Holds(arg[r].id)' = Holds(s)
    BY <1>1, <2>1 DEF Holds
  <2>10. Numbered(r)'
    BY <1>1, <2>1, <2>8, <2>9 DEF Numbered, NoDuplicates
  <2>11. PlacesFree(r)'
    BY <2>1, <2>10 DEF PlacesFree, Planned
  <2> QED
    BY <1>1, <1>2, <2>1, <2>2, <2>11, FitsGoingOn
<1> QED
  BY <1>3, <1>4

\* One more row is numbered.
LEMMA NumberedOn ==
    ASSUME Inv, Sound, NEW r \in Request, Fits(r), Renumber(r)
    PROVE  LET a == arg[r]
               old == session[a.id].order
               order == [old EXCEPT ![a.rows[a.next]] = a.next]
           IN  /\ a.id \in Sessions /\ a.rows \in Seq(Project) /\ a.next \in 1 .. Len(a.rows)
               /\ order \in [Project -> 0 .. MaxOrder] /\ SetOrder(a.id, order)
               /\ {p \in Project : order[p] > 0} = Holds(a.id)
               /\ Range(a.rows) = Holds(a.id) /\ NoDuplicates(a.rows) /\ Len(a.rows) = Cardinality(Holds(a.id))
               /\ \A i \in 1 .. Len(a.rows) : i < a.next + 1 => order[a.rows[i]] = i
               /\ \A i \in 1 .. Len(a.rows) : i >= a.next + 1 => order[a.rows[i]] >= i
               /\ \A i, j \in 1 .. Len(a.rows) : i < j => order[a.rows[i]] < order[a.rows[j]]
<1> DEFINE a == arg[r]
           old == session[a.id].order
           order == [old EXCEPT ![a.rows[a.next]] = a.next]
<1>1. /\ pc[r] = "renumber" /\ a.id \in Sessions /\ a.rows \in Seq(Project)
      /\ a.next \in 1 .. Len(a.rows) /\ a.rows[a.next] \in Holds(a.id)
      /\ order \in [Project -> 0 .. MaxOrder] /\ SetOrder(a.id, order)
  BY RenumberIs
<1>2. /\ Range(a.rows) = Holds(a.id) /\ NoDuplicates(a.rows) /\ Len(a.rows) = Cardinality(Holds(a.id))
      /\ \A i \in 1 .. Len(a.rows) : i < a.next => old[a.rows[i]] = i
      /\ \A i \in 1 .. Len(a.rows) : i >= a.next => old[a.rows[i]] >= i
      /\ \A i, j \in 1 .. Len(a.rows) : i < j => old[a.rows[i]] < old[a.rows[j]]
  BY <1>1 DEF Fits, PlacesFree, Numbered
<1>3. old \in [Project -> 0 .. MaxOrder] /\ Len(a.rows) \in Nat /\ DOMAIN a.rows = 1 .. Len(a.rows)
  BY <1>1, SessionRead DEF Session
<1>4. \A i \in 1 .. Len(a.rows) : a.rows[i] \in Project
  BY <1>1
<1>5. order[a.rows[a.next]] = a.next /\ \A p \in Project : p # a.rows[a.next] => order[p] = old[p]
  BY <1>1, <1>3, <1>4
<1>6. \A i \in 1 .. Len(a.rows) : i # a.next => order[a.rows[i]] = old[a.rows[i]]
  BY <1>1, <1>2, <1>3, <1>4, <1>5 DEF NoDuplicates
<1>7. \A i \in 1 .. Len(a.rows) : old[a.rows[i]] \in 0 .. MaxOrder /\ order[a.rows[i]] \in 0 .. MaxOrder
  BY <1>1, <1>3, <1>4
<1> HIDE DEF order, old
<1>8. {p \in Project : order[p] > 0} = Holds(a.id)
  <2>1. a.next > 0 /\ a.rows[a.next] \in Project
    BY <1>1, <1>4
  <2>2. ASSUME NEW p \in Project PROVE order[p] > 0 <=> p \in Holds(a.id)
    <3>1. CASE p = a.rows[a.next]
      BY <1>1, <1>5, <2>1, <3>1
    <3>2. CASE p # a.rows[a.next]
      BY <1>5, <3>2 DEF Holds, old
    <3> QED
      BY <3>1, <3>2
  <2>3. Holds(a.id) \subseteq Project
    BY HoldsFinite
  <2> QED
    BY <2>2, <2>3
<1>9. ASSUME NEW i \in 1 .. Len(a.rows), i < a.next + 1 PROVE order[a.rows[i]] = i
  <2>1. CASE i = a.next
    BY <1>5, <2>1
  <2>2. CASE i # a.next
    BY <1>1, <1>2, <1>6, <1>9, <2>2
  <2> QED
    BY <2>1, <2>2
<1>10. ASSUME NEW i \in 1 .. Len(a.rows), i >= a.next + 1 PROVE order[a.rows[i]] >= i
  BY <1>1, <1>2, <1>6, <1>10
<1>11. ASSUME NEW i \in 1 .. Len(a.rows), NEW j \in 1 .. Len(a.rows), i < j PROVE order[a.rows[i]] < order[a.rows[j]]
  <2>1. CASE i # a.next /\ j # a.next
    BY <1>2, <1>6, <1>11, <2>1
  <2>2. CASE i = a.next
    <3>1. order[a.rows[j]] >= j /\ order[a.rows[i]] = i
      BY <1>1, <1>5, <1>10, <1>11, <2>2
    <3> QED
      BY <1>7, <1>11, <3>1
  <2>3. CASE j = a.next
    <3>1. order[a.rows[i]] = i /\ order[a.rows[j]] = j
      BY <1>1, <1>5, <1>9, <1>11, <2>3
    <3> QED
      BY <1>11, <3>1
  <2> QED
    BY <2>1, <2>2, <2>3
<1> QED
  BY <1>1, <1>2, <1>8, <1>9, <1>10, <1>11 DEF order, old

LEMMA RenumberAlone ==
    ASSUME Inv, Sound, NEW r \in Request, Fits(r), Renumber(r)
    PROVE  Sound' /\ Fits(r)'
<1> DEFINE a == arg[r]
           order == [session[a.id].order EXCEPT ![a.rows[a.next]] = a.next]
<1>1. /\ a.id \in Sessions /\ a.rows \in Seq(Project) /\ a.next \in 1 .. Len(a.rows)
      /\ order \in [Project -> 0 .. MaxOrder] /\ SetOrder(a.id, order)
      /\ {p \in Project : order[p] > 0} = Holds(a.id)
      /\ Range(a.rows) = Holds(a.id) /\ NoDuplicates(a.rows) /\ Len(a.rows) = Cardinality(Holds(a.id))
  BY NumberedOn
<1>2. /\ \A i \in 1 .. Len(a.rows) : i < a.next + 1 => order[a.rows[i]] = i
      /\ \A i \in 1 .. Len(a.rows) : i >= a.next + 1 => order[a.rows[i]] >= i
      /\ \A i, j \in 1 .. Len(a.rows) : i < j => order[a.rows[i]] < order[a.rows[j]]
  BY NumberedOn
<1>3. pc[r] = "renumber" /\ session[a.id].live
  BY DEF Renumber, Fits, Lives, HasSession, OnSession
<1> HIDE DEF order
<1>4. Apart(order)
  <2> SUFFICES ASSUME NEW p \in Project, NEW q \in Project, order[p] > 0, order[p] = order[q], p # q PROVE FALSE
    BY DEF Apart
  <2>1. p \in Range(a.rows) /\ q \in Range(a.rows)
    BY <1>1
  <2>2. PICK i \in 1 .. Len(a.rows), j \in 1 .. Len(a.rows) : p = a.rows[i] /\ q = a.rows[j]
    <3>1. DOMAIN a.rows = 1 .. Len(a.rows)
      BY <1>1
    <3>2. \A x \in Range(a.rows) : \E i \in 1 .. Len(a.rows) : x = a.rows[i]
      BY <3>1 DEF Range
    <3> QED
      BY <2>1, <3>2
  <2>3. i < j \/ j < i
    BY <2>2
  <2>4. order[p] \in 0 .. MaxOrder /\ (order[p] < order[q] \/ order[q] < order[p])
    BY <1>1, <1>2, <2>2, <2>3
  <2> QED
    BY <2>4
<1>5. PICK s : s = a.id
  OBVIOUS
<1>6. Sound' /\ session'[s].live /\ session'[s].order = order /\ Holds(s)' = Holds(s)
  <2>1. s \in Sessions /\ session[s].live /\ SetOrder(s, order) /\ {p \in Project : order[p] > 0} = Holds(s)
    BY <1>1, <1>3, <1>5
  <2>2. /\ Sound' /\ session'[s].live /\ session'[s].order = order
        /\ Holds(s)' = {p \in Project : order[p] > 0}
    BY <1>1, <1>4, <2>1, SoundOrder
  <2> QED
    BY <2>1, <2>2
<1>7. CASE a.next = Len(a.rows)
  BY <1>6, <1>7, RenumberIs, Finished, FitsIdle
<1>8. CASE a.next # Len(a.rows)
  <2>1. pc'[r] = "renumber" /\ arg'[r].id = a.id /\ arg'[r].rows = a.rows /\ arg'[r].next = a.next + 1
    BY <1>8, RenumberIs
  <2>2. Holds(arg[r].id)' = Holds(s) /\ arg'[r].id = s /\ Holds(a.id) = Holds(s)
    BY <1>5, <1>6, <2>1 DEF Holds
  <2>3. Numbered(r)'
    BY <1>1, <1>2, <1>6, <2>1, <2>2 DEF Numbered, NoDuplicates
  <2>4. PlacesFree(r)'
    BY <2>1, <2>3 DEF PlacesFree, Planned
  <2> QED
    BY <1>6, <2>1, <2>2, <2>4, FitsGoingOn
<1> QED
  BY <1>7, <1>8

LEMMA RemoveProjectAlone ==
    ASSUME Inv, Sound, NEW r \in Request, Fits(r), RemoveProject(r)
    PROVE  Sound' /\ Fits(r)'
<1> DEFINE s == arg[r].id
           old == session[s].order
           order == [old EXCEPT ![arg[r].project] = 0]
<1>1. /\ pc[r] = "remove" /\ s \in Sessions /\ order \in [Project -> 0 .. MaxOrder]
      /\ SetOrder(s, order) /\ pc'[r] = "list" /\ arg'[r].id = s
  BY RemoveProjectIs
<1>2. session[s].live /\ old \in [Project -> 0 .. MaxOrder]
  BY <1>1, SessionRead DEF Fits, Lives, HasSession, OnSession, Session
<1>3. \A p \in Project : order[p] > 0 => order[p] = old[p]
  BY <1>2
<1>4. Apart(order)
  BY <1>1, <1>3, OrderApart DEF Apart
<1> HIDE DEF order
<1>5. Sound' /\ session'[s].live
  BY <1>1, <1>2, <1>4, SoundOrder
<1> QED
  BY <1>1, <1>5, PlacesIdle, FitsGoingOn

LEMMA EmptyAlone ==
    ASSUME Inv, Sound, NEW r \in Request, Fits(r), Empty(r)
    PROVE  Sound' /\ Fits(r)'
<1> DEFINE s == arg[r].id
           order == [p \in Project |-> 0]
<1>1. /\ pc[r] = "empty" /\ s \in Sessions /\ order \in [Project -> 0 .. MaxOrder]
      /\ SetOrder(s, order) /\ pc'[r] = "deleteSession" /\ arg'[r] = arg[r]
  BY EmptyIs
<1>2. session[s].live
  BY <1>1 DEF Fits, Lives, HasSession, OnSession
<1>3. Apart(order) /\ \A p \in Project : ~(order[p] > 0)
  BY DEF Apart
<1> HIDE DEF order
<1>4. Sound' /\ session'[s].live /\ Holds(s)' = {}
  BY <1>1, <1>2, <1>3, SoundOrder
<1>5. Holds(arg[r].id)' = {}
  BY <1>1, <1>4 DEF Holds
<1>6. Lives(r)'
  BY <1>1, <1>4, <1>5 DEF Lives, HasSession, OnSession
<1> QED
  BY <1>1, <1>4, <1>6, SeatsIdle, PlacesIdle DEF Fits

LEMMA DeleteSessionAlone ==
    ASSUME Inv, Sound, NEW r \in Request, Fits(r), DeleteSession(r)
    PROVE  Sound' /\ Fits(r)'
<1> DEFINE s == arg[r].id
           row == [session[s] EXCEPT !.live = FALSE]
<1>1. /\ pc[r] = "deleteSession" /\ s \in Sessions /\ row \in Session /\ SetSession(s, row) /\ Finish(r)
      /\ row.order = session[s].order
  BY DeleteSessionIs
<1>2. ~row.live
  BY <1>1, SessionRead, SMT DEF Session
<1>3. Holds(s) = {} /\ session[s].order \in [Project -> 0 .. MaxOrder]
  BY <1>1, SessionRead DEF Fits, Lives, Session
<1>4. \A p \in Project : row.order[p] = 0
  BY <1>1, <1>3, DefenseAssumption DEF Holds
<1>5. Apart(row.order)
  BY <1>1, OrderApart
<1> HIDE DEF row
<1>6. Sound'
  BY <1>1, <1>2, <1>4, <1>5, SessionRead, SoundSessions
<1> QED
  BY <1>1, <1>6, Finished, FitsIdle

LEMMA ProceedAlone ==
    ASSUME Inv, Sound, NEW r \in Request, Fits(r), Proceed(r) \/ Fail(r)
    PROVE  Sound' /\ Fits(r)'
<1>1. CASE Fail(r)
  BY <1>1, SoundKept, Finished, FitsIdle DEF Fail
<1>2. CASE Proceed(r)
  BY <1>2, CreateCommitteeAlone, AddMembersAlone, ExternalsAlone, DropMembersAlone, DeleteCommitteeAlone, ValidateAlone,
     CreateSessionAlone, ReadLastAlone, AddRowsAlone, StatusAlone, PlanAlone, PruneAlone, ListAlone, RenumberAlone,
     RemoveProjectAlone, EmptyAlone, DeleteSessionAlone DEF Proceed
<1> QED
  BY <1>1, <1>2

LEMMA AloneInvInit == Init => AloneInv
<1> SUFFICES ASSUME Init PROVE AloneInv
  OBVIOUS
<1>1. PICK seat \in [1 .. scope.given -> Full] :
         committee = [c \in CommitteeId |->
             IF c <= scope.given
             THEN [live |-> TRUE, members |-> Members(seat[c]), externals |-> {seat[c]["EXTERNAL_REVIEWER"]}]
             ELSE NoRow]
  BY DEF Init
<1>2. scope.given \in Nat
  BY DefenseAssumption DEF Init
<1>3. ASSUME NEW c \in LiveCommittees PROVE \E x \in Full : committee[c].members = Members(x)
  <2>1. c \in CommitteeId /\ committee[c] # NoRow
    BY DEF LiveCommittees, Committees
  <2>2. c <= scope.given
    BY <1>1, <2>1
  <2>3. seat[c] \in Full
    BY <1>1, <1>2, <2>1, <2>2 DEF CommitteeId
  <2>4. committee[c] = [live |-> TRUE, members |-> Members(seat[c]), externals |-> {seat[c]["EXTERNAL_REVIEWER"]}]
    BY <1>1, <2>1, <2>2
  <2> QED
    BY <2>3, <2>4
<1>4. ASSUME NEW x \in Full, NEW m \in Members(x), NEW n \in Members(x), m[1] = n[1] PROVE m = n
  <2>1. PICK f \in Fixed : m = <<x[f], f>>
    BY DEF Members
  <2>2. PICK g \in Fixed : n = <<x[g], g>>
    BY DEF Members
  <2>3. f = g
    BY <1>4, <2>1, <2>2 DEF Full, Composed, Role
  <2> QED
    BY <2>1, <2>2, <2>3
<1>5. FixedMembersOnce
  <2> SUFFICES ASSUME NEW c \in LiveCommittees, NEW d \in LiveCommittees, NEW m \in committee[c].members,
                      NEW n \in committee[d].members, m[1] = n[1]
               PROVE  c = d /\ m = n
    BY DEF FixedMembersOnce
  <2>1. Seated(c) \cap Seated(d) # {}
    BY DEF Seated
  <2>2. c = d
    BY <2>1 DEF Init
  <2> QED
    BY <1>3, <1>4, <2>2
<1>6. Sessions = {}
  BY DEF Init, Sessions
<1>7. DeletedIsEmpty /\ PositionsDistinct
  BY <1>6 DEF DeletedIsEmpty, PositionsDistinct, LiveSessions
<1>8. \A q \in Request : SeatsFit(q) /\ Lives(q) /\ PlacesFree(q)
  BY DEF Init, SeatsFit, Lives, PlacesFree, HasSession, OnSession, Planned
<1> QED
  BY <1>5, <1>7, <1>8 DEF AloneInv

LEMMA AloneInvNext == Inv /\ Inv' /\ AloneInv /\ [Next /\ UNCHANGED scope]_vars => AloneInv'
<1> SUFFICES ASSUME Inv, Inv', AloneInv, [Next /\ UNCHANGED scope]_vars, OneByOne, scope' = scope
             PROVE  AloneInv'
  BY DEF AloneInv, OneByOne, vars
<1>1. CASE UNCHANGED vars
  <2>1. committee' = committee /\ session' = session /\ pc' = pc /\ arg' = arg
    BY <1>1 DEF vars
  <2>2. Sound' /\ \A q \in Request : Fits(q)
    BY <2>1, SoundKept, AloneFinds DEF AloneInv, Sound
  <2>3. ASSUME NEW q \in Request PROVE SeatsFit(q)' /\ Lives(q)' /\ PlacesFree(q)'
    <3>1. Fits(q)
      BY <2>2
    <3>2. SeatsFit(q)'
      BY <2>1, <3>1 DEF Fits, SeatsFit, Conflicts, LiveCommittees, Committees, Seated
    <3>3. Lives(q)'
      BY <2>1, <3>1 DEF Fits, Lives, HasSession, LiveSessions, Sessions, Holds
    <3>4. PlacesFree(q)'
      BY <2>1, <3>1 DEF Fits, PlacesFree, Planned, Numbered, Holds
    <3> QED
      BY <3>2, <3>3, <3>4
  <2> QED
    BY <2>2, <2>3 DEF AloneInv, Sound
<1>2. ASSUME NEW r \in Request, CommitteeArrives(r) \/ SessionArrives(r) PROVE AloneInv'
  <2>1. OnlyAt(r) /\ pc'[r] # "idle"
    BY <1>2, CommitteeArrivesKeeps, SessionArrivesKeeps
  <2>2. Sound' /\ Fits(r)'
    BY <1>2, AloneFinds, CommitteeArrivesAlone, SessionArrivesAlone
  <2> QED
    BY <2>1, <2>2, AloneLeft
<1>3. ASSUME NEW r \in Request, Proceed(r) \/ Fail(r) PROVE AloneInv'
  <2>1. OnlyAt(r) /\ pc[r] # "idle"
    BY <1>3, ProceedKeeps
  <2>2. Sound' /\ Fits(r)'
    BY <1>3, AloneFinds, ProceedAlone
  <2> QED
    BY <2>1, <2>2, AloneLeft
<1> QED
  BY <1>1, <1>2, <1>3 DEF Next

\* With requests one after the other, each of which may break off after any of its statements,
\* committees share no teacher, nothing that lives hangs on what was deleted and the projects of a
\* session have a position each (createCommittee to deleteDefenseSession).
THEOREM SoundOneByOne == Spec => []DefenseSound
<1>1. AloneInv => DefenseSound
  BY DEF AloneInv, DefenseSound
<1> QED
  BY <1>1, InvInit, InvNext, AloneInvInit, AloneInvNext, PTL DEF Spec

\* With requests one after the other, an update or a removal that gets to its end leaves the
\* projects at 1, 2, 3 and so on, whatever gaps the additions had left (order_index).
THEOREM ClosesUp == Spec => PositionsClosedUp
<1> DEFINE ClosedUp ==
      \A r \in scope.requests :
          OneByOne /\ pc[r] = "renumber" /\ pc'[r] = "idle" /\ session' # session
          => LET s == arg[r].id
             IN  {session'[s].order[p] : p \in Holds(s)} = 1 .. Cardinality(Holds(s))
<1>1. Inv /\ Inv' /\ AloneInv /\ [Next /\ UNCHANGED scope]_vars => [ClosedUp]_vars
  <2> SUFFICES ASSUME Inv, Inv', AloneInv, Next /\ UNCHANGED scope, OneByOne, NEW r \in scope.requests,
                      pc[r] = "renumber", pc'[r] = "idle", session' # session
               PROVE  {session'[arg[r].id].order[p] : p \in Holds(arg[r].id)} = 1 .. Cardinality(Holds(arg[r].id))
    OBVIOUS
  <2>1. r \in Request
    BY ScopeFits
  <2>2. PICK x \in Request : Proceed(x) \/ Fail(x)
    BY CommitteeArrivesKeeps, SessionArrivesKeeps DEF Next
  <2>3. x = r
    BY <2>1, <2>2, Alone, ProceedKeeps
  <2>4. ~Fail(r)
    BY DEF Fail
  <2>5. Renumber(r)
    BY <2>2, <2>3, <2>4 DEF Proceed, CreateCommittee, AddMembers, AddExternal, DropMembers, DropExternal, DeleteCommittee,
       Validate, CreateSession, ReadLast, AddRows, UpdateStatus, Plan, Prune, List, RemoveProject, Complete, Empty, DeleteSession
  <2> DEFINE a == arg[r]
             order == [session[a.id].order EXCEPT ![a.rows[a.next]] = a.next]
  <2>6. Sound /\ Fits(r)
    BY <2>1, AloneFinds
  <2>7. /\ a.id \in Sessions /\ a.rows \in Seq(Project) /\ a.next \in 1 .. Len(a.rows)
        /\ order \in [Project -> 0 .. MaxOrder] /\ SetOrder(a.id, order)
        /\ Range(a.rows) = Holds(a.id) /\ Len(a.rows) = Cardinality(Holds(a.id))
        /\ \A i \in 1 .. Len(a.rows) : i < a.next + 1 => order[a.rows[i]] = i
    BY <2>1, <2>5, <2>6, NumberedOn
  <2>8. a.next = Len(a.rows)
    BY <2>1, <2>5, RenumberIs
  <2> HIDE DEF order
  <2>9. session'[a.id].order = order
    BY <2>7, OrderWritten
  <2>10. \A i \in 1 .. Len(a.rows) : order[a.rows[i]] = i /\ a.rows[i] \in Holds(a.id)
    BY <2>7, <2>8 DEF Range
  <2>11. \A p \in Holds(a.id) : \E i \in 1 .. Len(a.rows) : p = a.rows[i]
    BY <2>7 DEF Range
  <2>12. {order[p] : p \in Holds(a.id)} = 1 .. Len(a.rows)
    BY <2>10, <2>11
  <2> QED
    BY <2>7, <2>9, <2>12
<1> QED
  BY <1>1, InvInit, InvNext, AloneInvInit, AloneInvNext, PTL DEF Spec, PositionsClosedUp

=============================================================================
