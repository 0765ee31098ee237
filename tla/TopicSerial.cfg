SPECIFICATION Spec

CONSTANTS
    s1 = s1  s2 = s2  s3 = s3  t1 = t1  t2 = t2  u1 = u1  u2 = u2
    r1 = r1  r2 = r2  f1 = f1  f2 = f2
    NoRow = NoRow  NoId = NoId  Clean = Clean  NoFaculty = NoFaculty
    Student <- TwoStudents
    Topic <- TwoTopics
    Teacher <- TwoTeachers
    Faculty <- TwoFaculties
    Request <- OneRequest
    RowId <- TwoIds
    MaxTopicLimit = 1
    MaxBatch = 2
    Ops = {"register", "cancel", "approve", "reject", "assign", "update", "force", "bulk"}
    Moving = {"TEACHER_APPROVAL"}

SYMMETRY FullSymmetry
INVARIANTS CounterExact RequestHasItsTeacher BoardsAgree
PROPERTIES KeepsRegistry

\* The system rests when no request can arrive.
CHECK_DEADLOCK FALSE
