CONSTANTS
    F = F  G = G  A = A  B = B
    Nothing = Nothing
    Files = {F, G}  Ids = {A}
    TooLarge <- LargeInG
    Pool = 2  MaxOpens = 2  Rebuilds = 2
    Faults = {"die", "idle", "late"}  MaxFaults = 3  GoesOn = FALSE
SPECIFICATION FairSpec
INVARIANTS TypeOK ScanWhole
PROPERTIES ReadIsOwn WritesLand RetryHides CallReturns
CHECK_DEADLOCK FALSE
