------------------------------- MODULE Faculties -------------------------------
(***************************************************************************)
(* Which teachers the boards take for the teachers of a faculty.            *)
(*                                                                          *)
(* faculty_id of a teacher may be null, teacher.update moves him to another *)
(* faculty, and teacher.remove only marks him as deleted: his topics and    *)
(* the reports that went to him stay where they are, and a topic of his may *)
(* still be chosen.  So a board may meet any roster, with rows of any       *)
(* teacher.                                                                 *)
(***************************************************************************)
EXTENDS FiniteSets

CONSTANTS Faculty, NoFaculty

ASSUME FacultyAssumption == IsFiniteSet(Faculty) /\ NoFaculty \notin Faculty

\* The rosters of the teachers T: faculty_id of each, and who has been deleted.
Rosters(T) == [faculty : [T -> Faculty \cup {NoFaculty}], removed : SUBSET T]

\* teacher.findMany({ where: { faculty_id } }): the lists of the progress page.
TeachersOf(roster, f) == {u \in DOMAIN roster.faculty : roster.faculty[u] = f}

\* teachers: { where: { deleted_at: null } } of a faculty: the dashboards.
Staff(roster, f) == TeachersOf(roster, f) \ roster.removed

\* Teachers of no faculty's dashboard.
Outside(roster) == DOMAIN roster.faculty \ UNION {Staff(roster, f) : f \in Faculty}

=============================================================================
