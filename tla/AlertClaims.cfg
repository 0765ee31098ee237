SPECIFICATION Spec

CONSTANTS
    x1 = x1  x2 = x2  b1 = b1  b2 = b2  b3 = b3  Nobody = Nobody
    Recipient <- OneRecipient
    Batch <- ThreeBatches
    Window = 2
    StaleClaim = 3
    MaxHold = 1
    Allowed = {"manual", "switch", "move", "complete"}
    MaxTime = 4
    MaxAttempts = 2
    MaxAborts = 1

SYMMETRY AlertSymmetry
INVARIANTS AlertInv ClaimsExclusive
PROPERTIES KeepsLedger

\* The clock stops at MaxTime and every batch ends.
CHECK_DEADLOCK FALSE
