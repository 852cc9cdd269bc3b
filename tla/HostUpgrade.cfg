SPECIFICATION FairSpec
CONSTANTS
    g19 = g19
    g20 = g20
    g21 = g21
    g22 = g22
    Generation = {g19, g20, g21, g22}
    Schema <- MCSchema
    None = None
    MaxTokens = 3
    MaxFaults = 4
    MaxWork = 2
INVARIANTS FenceOwned Recoverable
PROPERTIES WorkUntouched UpgradeSettles
CHECK_DEADLOCK FALSE
