CONSTANTS
    NumMounts = 2
    Umounts = {u}
    Backends = {"fuse", "fuse_t", "winfsp"}
    Options <- TwoOnWinFsp
    MaxChanges <- FewOnWinFsp
    MaxFaults = 1
    None = None
SPECIFICATION Spec
INVARIANTS
    FinalSave
    ShrinkNeedsYes
    UmountWaits
PROPERTIES
    DeferredSaved
    TeardownEnds
CHECK_DEADLOCK FALSE
