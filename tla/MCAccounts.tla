------------------------------ MODULE MCAccounts ------------------------------
(* Instances of Accounts for TLC. *)
EXTENDS Accounts

CONSTANTS p1, p2, f1, f2, r1, r2

TwoPeople    == {p1, p2}
TwoFaculties == {f1, f2}
TwoRequests  == {r1, r2}

Unchanged == [active |-> Keep, mustChange |-> Keep, roles |-> Keep]

Idle == [ops |-> {}, requests |-> {r1}, legacy |-> {}, batches |-> {{p1}}, links |-> 0, faculties |-> {},
         roles |-> {}, changes |-> {}, failing |-> FALSE, steady |-> FALSE]

\* An owner with a student's row or without, and an account that comes with no link.
Links == [Idle EXCEPT !.ops = LinkOps \cup {"register", "createUser"}, !.links = 2,
                      !.roles = {{"ADMIN"}}, !.steady = TRUE]

LinksOverlap == [Idle EXCEPT !.ops = LinkOps \cup {"register"}, !.requests = {r1, r2},
                             !.legacy = {p1}, !.links = 2]

Students == [Idle EXCEPT !.ops = {"register", "createStudents", "removeStudent", "removeStudents"},
                         !.requests = {r1, r2}, !.batches = {{p1}, {p1, p2}}, !.links = 1]

\* One of the students has no account yet.
Imports == [Students EXCEPT !.ops = {"register", "importStudents", "removeStudent", "removeStudents"},
                            !.requests = {r1}, !.legacy = {p2}]

Teachers == [Idle EXCEPT !.ops = {"createTeachers", "removeTeachers", "removeUser"},
                         !.requests = {r1, r2}, !.batches = {{p1}, {p1, p2}}, !.links = 1, !.failing = TRUE]

\* Secretaries of two faculties, one request at a time.
StaffRoles == {{"SECRETARY"}, {"ADMIN"}, {"ADMIN", "SECRETARY"}}

Staff == [Idle EXCEPT !.ops = StaffOps \ {"restoreUser"}, !.batches = {{p1}, {p2}}, !.faculties = TwoFaculties,
                      !.roles = StaffRoles, !.changes = {[Unchanged EXCEPT !.roles = x] : x \in StaffRoles}
                                   \cup {[Unchanged EXCEPT !.active = x] : x \in BOOLEAN}]

\* One faculty, and requests that overlap and break off.
StaffOverlap == [Staff EXCEPT !.ops = {"createUser", "createSecretary", "updateSecretary", "removeSecretary", "updateUser"},
                              !.requests = {r1, r2}, !.faculties = {f1}, !.roles = {{"ADMIN"}},
                              !.changes = {[Unchanged EXCEPT !.roles = x] : x \in StaffRoles},
                              !.failing = TRUE]

\* The account of a secretary who went comes back.
Restored == [Staff EXCEPT !.ops = StaffOps, !.batches = {{p1}}, !.requests = {r1, r2}, !.faculties = {f1},
                          !.changes = {[Unchanged EXCEPT !.roles = x] : x \in StaffRoles}]

EightScopes == {Links, LinksOverlap, Students, Imports, Teachers, Staff, StaffOverlap, Restored}

=============================================================================
