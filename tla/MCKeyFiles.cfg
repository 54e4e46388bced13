SPECIFICATION Spec
CONSTANTS
    a = a
    b = b
    Procs = {a, b}
    Flows <- AllFlows
    Given <- BothOrNone
    Seeds = {s1, s2}
    Slots = {0, 1}
    MaxIds = 4
    MaxFlows = 3
    MaxFaults = 1
INVARIANTS
    ReportedOpens
PROPERTIES
    RemovesOnlyOwn
    RollbackRestores
CHECK_DEADLOCK FALSE
