CONSTANTS
    Names = {2, 3, 4}
    ClassOf <- CaseClass
    Handles = {h1, h2}
    MaxId = 3
    Batch = 2
    None = None
SPECIFICATION Spec
INVARIANTS
    CaseUnique
PROPERTIES
    RemovesOnlyNamed
