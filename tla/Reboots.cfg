SPECIFICATION Spec
CONSTANTS
    MaxBoot = 3
    MaxBox = 2
    MaxRevision = 2
INVARIANTS UncleanAfterReboot ResumesWanted NotForgotten ResumeSurvives
PROPERTIES OncePerBoot FailureDiscards
CHECK_DEADLOCK FALSE
