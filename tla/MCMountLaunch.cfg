SPECIFICATION Spec
CONSTANTS
    Routes <- AllRoutes
    MaxGen = 3
    MaxFaults = 2
    None = None
INVARIANTS
    NoLostSave
    ToldTruth
PROPERTIES
    LaunchReturns
CHECK_DEADLOCK FALSE
