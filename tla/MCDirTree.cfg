CONSTANTS
    MaxId = 4
    Names = {a, b}
    MaxLinks = 2
    Modes = {default, other}
    DefaultMode = default
    CreateModes = {default}
    ChmodIds = {2}
    FreshFormat = "V2"
    None = None
SYMMETRY Symmetry
SPECIFICATION Spec
INVARIANTS
    SoundTree
    SavedIsTree
PROPERTIES
    LastNameFrees
