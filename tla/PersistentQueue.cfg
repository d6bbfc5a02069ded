SPECIFICATION FairSpec
CONSTANTS
    Jobs = {j1, j2, j3}
    Handled = {j1, j2}
    Workers = {w1, w2}
    MaxAttempts = 2
    MaxFaults = 2
CHECK_DEADLOCK FALSE
INVARIANTS
    SingleCustody
    AttemptsBounded
    LostOnlyToFaults
    IInv
PROPERTIES
    ClaimsOldest
    EveryJobResolved
    ImplementsCustody
