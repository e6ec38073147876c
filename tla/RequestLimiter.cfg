SPECIFICATION Spec
CONSTANTS
    Key = {k1, k2, k3, k4}
    Limit = 2
    Window = 4
    MaxKeys = 3
    MaxDelay = 1
SYMMETRY Symmetry
INVARIANTS
    AtMostLimit
    RefusalsJustified
    TableBounded
