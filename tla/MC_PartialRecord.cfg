CONSTANTS
    MaxKeys = 2
    MaxKeyIdSize = 2
    IdBytes = {1, 2}
    IdArgs <- MCAllIdArgs
    KeyPairs = {k1, k2}
    Zeroed = Zeroed
    MaxTime = 1
    MaxOps = 3
    MaxSessions = 1

SPECIFICATION Spec
SYMMETRY MCSymmetry

INVARIANT NoPartialRecord
