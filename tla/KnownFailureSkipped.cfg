SPECIFICATION Spec
CONSTANTS
    MaxBoot = 3
    MaxBox = 2
    MaxRevision = 2
PROPERTIES KnownFailureSkipped
CHECK_DEADLOCK FALSE
