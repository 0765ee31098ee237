SPECIFICATION PostSpec

CONSTANTS
    r1 = r1  o1 = o1  o2 = o2  mine = mine
    CHAIRMAN = CHAIRMAN  SECRETARY = SECRETARY  INTERNAL_REVIEWER = INTERNAL_REVIEWER
    NoMark = NoMark  NoSheet = NoSheet  NoResult = NoResult
    Mark = {307, 800}
    Bonus = {300}
    Request <- OneRequest
    Scopes <- ThreeScopes
    Mine <- mine
    OtherScore <- Scores
    MaxPlace = 3
    MaxRevisions = 1
    NoPlace = NoPlace
    Faults = FALSE

SYMMETRY ScoringSymmetry
INVARIANTS PostTypeOK GradeFollowsSheets ViewsAgree
PROPERTIES DecisionsStand RankingSound

\* The system rests when no request can arrive.
CHECK_DEADLOCK FALSE
