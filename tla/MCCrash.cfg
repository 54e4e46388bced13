CONSTANTS
    Files = {f1, f2}
    Vals = {zero, data}
    Zero = zero
    MaxChunks = 1
    SlotBound = 4
    GenBound = 8
    InlineMax = 0
    NewLimit = 3
    Limits = {3}
    RecycleMin = 1
    FlushThreshold = 2
    Ranges <- AllRanges
    Counts = {0}
    HasMirror = TRUE
    HideSize = FALSE
    PadPow2 = FALSE
    IOFaults = FALSE
    NoRef = NoRef
    NoMeta = NoMeta
    Torn = Torn
SYMMETRY Symmetry
SPECIFICATION RotateSpec
INVARIANTS
    TypeOK
    SlotPartition
    AnchorNotAhead
    NoLeak
    Openable
PROPERTIES
    SaveAdvances
    ImplementsVault
