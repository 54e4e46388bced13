SPECIFICATION Spec
CONSTANTS
    Vaults = {v1}
    Recents = {v1}
    Targets <- AllTargets
    None = None
    MaxDetached = 1
PROPERTIES
    ActiveSpared
    Quits
CHECK_DEADLOCK FALSE
