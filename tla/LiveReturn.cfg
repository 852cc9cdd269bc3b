SPECIFICATION Spec
CONSTANTS
    A1 = A1  A2 = A2  B1 = B1  C1 = C1
    a = a  b = b  c = c
    T1 = T1  T2 = T2
    c1 = c1  c2 = c2
    Runner = {a, b}
    Home = A1
    NoTransfer = NoTransfer
    Place = {A1, A2, B1}
    Host <- TwoHosts
    Transfer = {T1, T2}
    Coordinator = {c1}
    Live = TRUE
    MaxVersion = 1
    MaxFaults = 0
INVARIANTS CollisionsRefused
