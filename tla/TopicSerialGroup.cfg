SPECIFICATION Spec

CONSTANTS
    s1 = s1  s2 = s2  s3 = s3  t1 = t1  t2 = t2  u1 = u1  u2 = u2
    r1 = r1  r2 = r2  f1 = f1  f2 = f2
    NoRow = NoRow  NoId = NoId  Clean = Clean  NoFaculty = NoFaculty
    Student <- ThreeStudents
    Topic <- OneTopic
    Teacher <- OneTeacher
    Faculty <- OneFaculty
    Request <- OneRequest
    RowId <- TwoIds
    MaxTopicLimit = 2
    MaxBatch = 2
    Ops = {"register", "cancel", "approve", "reject", "assign", "update", "force", "bulk",
           "lock", "leader"}
    Moving = {"TEACHER_APPROVAL"}

SYMMETRY FullSymmetry
INVARIANTS TypeOK
PROPERTIES AdmissionsWithinMax FillingApprovalsAnswer LeaderChangesLeaveOne

\* The system rests when no request can arrive.
CHECK_DEADLOCK FALSE
