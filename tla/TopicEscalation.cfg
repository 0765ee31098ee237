SPECIFICATION FairSpec

CONSTANTS
    s1 = s1  s2 = s2  s3 = s3  t1 = t1  t2 = t2  u1 = u1  u2 = u2
    r1 = r1  r2 = r2  f1 = f1  f2 = f2
    NoRow = NoRow  NoId = NoId  Clean = Clean  NoFaculty = NoFaculty
    Student <- OneStudent
    Topic <- TwoTopics
    Teacher <- OneTeacher
    Faculty <- OneFaculty
    Request <- TwoRequests
    RowId <- ThreeIds
    MaxTopicLimit = 1
    MaxBatch = 1
    Ops = {"register", "cancel", "approve", "reject", "assign"}
    Moving = {"STUDENT_REGISTRATION", "TEACHER_APPROVAL"}

PROPERTIES NoRequestWaitsForever

\* The system rests when no request can arrive.
CHECK_DEADLOCK FALSE
