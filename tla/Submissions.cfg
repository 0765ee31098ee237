SPECIFICATION FairSpec

CONSTANTS
    s1 = s1  s2 = s2  t1 = t1  f1 = f1  f2 = f2  r1 = r1  r2 = r2
    NoProgress = NoProgress  NoSub = NoSub  NoFile = NoFile
    Student <- TwoStudents
    Topic <- OneTopic
    File <- OneFile
    Request <- TwoRequests
    TopicOf <- AllOnOneTopic
    Ops = {"post", "init", "confirm", "review"}
    StatusSent = {"BANNED"}
    VerdictSent = {"APPROVED", "REJECTED"}

INVARIANTS SubmissionInv
PROPERTIES LostRightsEndHandingIn ApprovalsReopenedByStaleOnly

\* The system rests when no request can arrive.
CHECK_DEADLOCK FALSE
