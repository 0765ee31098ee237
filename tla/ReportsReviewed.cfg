SPECIFICATION FairSpec

CONSTANTS
    s1 = s1  s2 = s2  u1 = u1  u2 = u2  f1 = f1  r1 = r1  r2 = r2
    NoMilestone = NoMilestone  Gone = Gone  NoReport = NoReport  NoRow = NoRow
    NoFaculty = NoFaculty
    Student <- TwoStudents
    Teacher <- TwoTeachers
    Faculty <- OneFaculty
    Request <- TwoRequests
    MaxMilestones = 2
    MaxReports = 2
    MaxEdits = 1
    Scopes <- SixScopes

INVARIANTS TypeOK ReportsAddUp
PROPERTIES ApprovedTextStands EveryMilestoneAnswered

\* The system rests when no request can arrive.
CHECK_DEADLOCK FALSE
