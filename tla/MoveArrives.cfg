SPECIFICATION FairPruneSpec
CONSTANTS
    A1 = A1  B1 = B1
    a = a  b = b
    T1 = T1
    c1 = c1
    Runner = {a, b}
    Home = A1
    NoTransfer = NoTransfer
    Place = {A1, B1}
    Host <- OneWay
    Transfer = {T1}
    Coordinator = {c1}
    Live = FALSE
    MaxVersion = 2
    MaxFaults = 2
    Epoch <- Numbers
    FirstEpochs <- Oldest
    None = None
    MaxSlips = 1
INVARIANTS TornStays
PROPERTIES NewestSurvive ConfirmedOnly Arrives
