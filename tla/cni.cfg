SPECIFICATION Spec
CONSTANTS
    None = None
    Truncated = Truncated
    Networks = {n1, n2, n3}
    OctetCount = 4
SYMMETRY Symmetry
INVARIANTS
    IInv
    DistinctWithinProcess
PROPERTY
    NeverReissued
