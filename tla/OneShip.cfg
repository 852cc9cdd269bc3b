SPECIFICATION Spec
CONSTANTS
    s1 = s1
    s2 = s2
    r1 = r1
    r2 = r2
    r3 = r3
    t1 = t1
    Instance = {s1}
    Request = {r1, r2}
    NoRequest = NoRequest
    Token = {t1}
    NoToken = NoToken
    MaxRevision = 2
    Polled = {s1}
    MaxBulk = 1
SYMMETRY Symmetry
INVARIANTS JournalAgrees NothingUnrecorded UncertainDemandsRecovery NoHiddenDrift
PROPERTIES ImplementsFence ImplementsLedger
