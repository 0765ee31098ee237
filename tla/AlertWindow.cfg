SPECIFICATION FairSpec

CONSTANTS
    x1 = x1  x2 = x2  b1 = b1  b2 = b2  b3 = b3  Nobody = Nobody
    Recipient <- TwoRecipients
    Batch <- TwoBatches
    Window = 2
    StaleClaim = 3
    MaxHold = 1
    Allowed = {"complete"}
    MaxTime = 4
    MaxAttempts = 3
    MaxAborts = 1

PROPERTIES EveryoneIsTried

\* The clock stops at MaxTime and every batch ends.
CHECK_DEADLOCK FALSE
