SPECIFICATION Spec
CONSTANTS
    Goroutines = {g1, g2}
    Cells = {o1, o2}
    MaxAddr = 8
    MaxStrings = 1
    Null = Null
SYMMETRY Symmetry
INVARIANTS
    OneOwner
    DriftNeverEntered
PROPERTY
    ReturnsAsPromised
