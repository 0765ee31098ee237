SPECIFICATION FairSpec

CONSTANTS
    p1 = p1  p2 = p2  t1 = t1  t2 = t2  r1 = r1
    NoTopic = NoTopic  NoRow = NoRow
    Period <- TwoPeriods
    Teacher <- TwoTeachers
    Request <- OneRequest
    MaxTopics = 2
    DefaultLimit = 1
    Ceiling = 1
    Scopes <- FourScopes

INVARIANTS TypeOK QuotaRowsSound
PROPERTIES GivenWithinQuota PeriodsKeepTime TopicsEndWithPeriod

\* The system rests when no request can arrive.
CHECK_DEADLOCK FALSE
