SPECIFICATION Spec

CONSTANTS
    u1 = u1  u2 = u2  u3 = u3  u4 = u4  u5 = u5  u6 = u6
    p1 = p1  p2 = p2  p3 = p3  r1 = r1  r2 = r2
    NoTeacher = NoTeacher  NoRow = NoRow
    Teacher <- SixTeachers
    Project <- ThreeProjects
    Request <- TwoRequests
    MaxCommittees = 2
    MaxSessions = 2
    MaxOrder = 5
    Scopes <- FourScopes

INVARIANTS TypeOK DefenseSound
PROPERTIES SupervisorsKeptOut PositionsClosedUp

\* The system rests when no request can arrive.
CHECK_DEADLOCK FALSE
