SPECIFICATION FairSpec
CONSTANTS
    m1 = m1
    m2 = m2
    Member = {m1, m2}
    Project = project
    MaxSpaces = 2
INVARIANTS JournalsValid DispatchedOnce
PROPERTIES ImplementsFormation OperationsEnd
