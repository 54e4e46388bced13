CONSTANTS
    Procs = {p1, p2}
    Creds = {c1, c2}
    MaxSlots = 1
    Inodes = {i1, i2}
    MaxGen = 3
    MaxKey = 2
    MaxFailures = 1
    None = None
    Torn = Torn
    Mixed = Mixed
SYMMETRY Symmetry
SPECIFICATION Spec
INVARIANTS
    TypeOK
    SessionsExclusive
    SessionOnVault
    KeyslotsCurrent
    KeyMatchesData
    HeaderAnchorNotAhead
