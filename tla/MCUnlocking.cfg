CONSTANTS
    Shapes <- AllShapes
    MaxSlots = 2
SPECIFICATION Spec
INVARIANTS
    FindsOwnSlot
    EveryKeyOpens
    ChipSpared
