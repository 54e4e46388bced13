CONSTANTS
    MaxId = 4
    Names = {a, b}
    MaxLinks = 2
    Modes = {default}
    DefaultMode = default
    CreateModes = {default}
    ChmodIds = {2}
    FreshFormat = "V5"
    None = None
SYMMETRY Symmetry
SPECIFICATION Spec
INVARIANT FlushNeverRefused
