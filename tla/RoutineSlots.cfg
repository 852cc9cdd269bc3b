SPECIFICATION FairSpec
CONSTANTS
    Owner = {o1}
    Configs <- SmallConfigs
    MaxTime = 2
    Window = 0
    MaxEdits = 2
    MaxRevision = 2
INVARIANTS RunIsApproved BegunInWindow ResumeEarned
PROPERTIES SlotsForward RunsEnd
