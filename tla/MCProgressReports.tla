--------------------------- MODULE MCProgressReports ---------------------------
(* Instances of ProgressReports and ReportBoards for TLC. *)
EXTENDS ReportBoards

CONSTANTS s1, s2, u1, u2, f1, r1, r2

OneStudent  == {s1}
TwoStudents == {s1, s2}
TwoTeachers == {u1, u2}
OneFaculty  == {f1}
TwoRequests == {r1, r2}

\* One request at a time, with milestones that move.
Serial == [ops |-> {"create", "update"}, requests |-> {r1}, who |-> {s1}, teachers |-> {u1},
           milestones |-> 1, reports |-> 2, moves |-> {"date"}]

\* Every handler on one report, each review with any status.
Reviewed == [Serial EXCEPT !.ops = {"create", "update", "review", "archive"}, !.reports = 1]

\* A student against himself and the job.
Overlap == [Serial EXCEPT !.requests = {r1, r2}, !.moves = {}]

\* The job on milestones that change.
Changes == [Serial EXCEPT !.ops = {"create"}, !.milestones = 2, !.moves = {"disabled", "removed"}]

\* A project that comes and goes, and goes to another teacher.
Handover == [Serial EXCEPT !.ops = {"create"}, !.teachers = {u1, u2}, !.moves = {"project"}]

\* The job on two students.
Class == [Serial EXCEPT !.ops = {"create"}, !.who = {s1, s2}, !.moves = {}]

SixScopes == {Serial, Reviewed, Overlap, Changes, Handover, Class}

=============================================================================
