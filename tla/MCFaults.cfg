CONSTANTS
    Files = {f1}
    Vals = {zero, data}
    Zero = zero
    MaxChunks = 2
    SlotBound = 8
    GenBound = 5
    InlineMax = 1
    NewLimit = 0
    Limits = {0, 2}
    RecycleMin = 1
    FlushThreshold = 2
    Ranges <- FirstChunk
    Counts = {1, 2}
    HasMirror = TRUE
    HideSize = TRUE
    PadPow2 = TRUE
    IOFaults = TRUE
    NoRef = NoRef
    NoMeta = NoMeta
    Torn = Torn
SPECIFICATION LiveSpec
INVARIANTS
    Protected
    ReadsBack
PROPERTIES
    CallsReturn
