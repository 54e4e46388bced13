SPECIFICATION Spec
CONSTANTS
    Slots <- TwoSlots
    Creds <- Users
    None = None
    MaxSeal = 2
    MaxKey = 2
    MaxGen = 2
    MaxFaults = 2
INVARIANTS
    EnrolledOpens
    RevokedStaysOut
    DeniableAnchorNotAhead
CHECK_DEADLOCK FALSE
