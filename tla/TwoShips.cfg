SPECIFICATION FairSpec
CONSTANTS
    s1 = s1
    s2 = s2
    r1 = r1
    r2 = r2
    r3 = r3
    t1 = t1
    Instance = {s1, s2}
    Request = {r1, r2}
    NoRequest = NoRequest
    Token = {}
    NoToken = NoToken
    MaxRevision = 1
    Polled = {}
    MaxBulk = 0
INVARIANTS UtilityExclusive
PROPERTIES OperationSettles
