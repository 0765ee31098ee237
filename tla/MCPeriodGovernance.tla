-------------------------- MODULE MCPeriodGovernance --------------------------
(* Instances of PeriodGovernance for TLC. *)
EXTENDS PeriodGovernance

CONSTANTS p1, p2, t1, t2, r1

TwoPeriods  == {p1, p2}
OneTeacher  == {t1}
TwoTeachers == {t1, t2}
OneRequest  == {r1}

\* The life of p1 beside p2, which is open throughout.
Clock == [ops |-> {"create", "move", "config", "period", "time"}, who |-> {t1},
          open |-> {p2}, steady |-> {p2}]

\* The limits of one open period and everything that counts its topics.
Limits == [ops |-> {"create", "delete", "moderate", "config", "override"}, who |-> {t1},
           open |-> {p1}, steady |-> {}]

\* Two open periods and topics that move between them.
Moves == [ops |-> {"create", "move", "delete", "moderate", "override"}, who |-> {t1},
          open |-> {p1, p2}, steady |-> {p1, p2}]

\* Two teachers who take topics over from each other.
Supervisors == [ops |-> {"create", "moderate", "override"}, who |-> {t1, t2},
                open |-> {p1}, steady |-> {p1}]

FourScopes == {Clock, Limits, Moves, Supervisors}

=============================================================================
