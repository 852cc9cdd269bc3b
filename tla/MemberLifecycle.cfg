SPECIFICATION Spec
CONSTANTS
    m1 = m1
    m2 = m2
    Member = {m1, m2}
    MaxGen = 2
SYMMETRY MemberSymmetry
INVARIANTS JournalsValid CleanHandover
PROPERTIES UncertainFences
