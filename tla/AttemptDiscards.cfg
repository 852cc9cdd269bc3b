SPECIFICATION Spec
CONSTANTS
    MaxBoot = 3
    MaxBox = 2
    MaxRevision = 2
PROPERTIES AttemptDiscards
CHECK_DEADLOCK FALSE
