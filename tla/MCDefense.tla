------------------------------- MODULE MCDefense -------------------------------
(* Instances of Defense for TLC. *)
EXTENDS Defense

CONSTANTS u1, u2, u3, u4, u5, u6, p1, p2, p3, r1, r2

SixTeachers   == {u1, u2, u3, u4, u5, u6}
ThreeProjects == {p1, p2, p3}
TwoRequests   == {r1, r2}

\* Teachers that a request may seat: a few for each seat, some of them for two.
Contested == [role \in Role |-> CASE role = "CHAIRMAN"          -> {u1, u2}
                                  [] role = "SECRETARY"         -> {u3, u4}
                                  [] role = "INTERNAL_REVIEWER" -> {u5, u6}
                                  [] role = "EXTERNAL_REVIEWER" -> {u1, u5}]

Seated4 == [role \in Role |-> CASE role = "CHAIRMAN"          -> {u1}
                                [] role = "SECRETARY"         -> {u2}
                                [] role = "INTERNAL_REVIEWER" -> {u3}
                                [] role = "EXTERNAL_REVIEWER" -> {u4}]

SessionOps == {"createSession", "updateSession", "addProjects", "removeProject", "complete", "deleteSession"}

\* Two committees that compete for teachers.
Boards == [ops |-> {"createCommittee", "updateCommittee", "deleteCommittee"}, requests |-> {r1},
           projects |-> {}, committees |-> 2, sessions |-> 0, given |-> 0,
           seats |-> Contested, supervisors |-> {u1}, statuses |-> {}, longest |-> 1]

\* Committees that change or go while they have sessions.
Closing == [ops |-> {"updateCommittee", "deleteCommittee", "createSession", "addProjects", "deleteSession"},
            requests |-> {r1}, projects |-> {p1}, committees |-> 1, sessions |-> 2, given |-> 1,
            seats |-> [Seated4 EXCEPT !["CHAIRMAN"] = {u1, u6}], supervisors |-> {u1, u6}, statuses |-> {}, longest |-> 1]

\* The sessions of one committee, one request at a time.
Days == [ops |-> SessionOps, requests |-> {r1}, projects |-> {p1, p2, p3}, committees |-> 1, sessions |-> 1,
         given |-> 1, seats |-> Seated4, supervisors |-> {u5},
         statuses |-> {"SCHEDULED", "COMPLETED"}, longest |-> 2]

\* The same with supervisors who sit in the committee and requests that overlap.
Overlap == [ops |-> {"createSession", "updateSession", "addProjects", "removeProject"}, requests |-> {r1, r2}, projects |-> {p1, p2}, committees |-> 1, sessions |-> 1,
            given |-> 1, seats |-> Seated4, supervisors |-> {u4, u5},
            statuses |-> {"SCHEDULED"}, longest |-> 1]

FourScopes == {Closing, Boards, Days, Overlap}

=============================================================================
