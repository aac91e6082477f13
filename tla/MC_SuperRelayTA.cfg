CONSTANTS
    MaxKeys = 2
    MaxKeyIdSize = 2
    IdBytes = {1, 2}
    IdArgs <- MCAllIdArgs
    KeyPairs = {k1, k2}
    Zeroed = Zeroed
    MaxTime = 1
    MaxOps = 3
    MaxSessions = 2

SPECIFICATION Spec
SYMMETRY MCSymmetry

INVARIANT TypeOK
INVARIANT StoreMirror
INVARIANT LiveRecordsComplete
INVARIANT UsageConsistent
INVARIANT OpAccounting
INVARIANT NoSecretOutput
INVARIANT SessionsAccurate
PROPERTY FailureAtomic
PROPERTY LiveRecordsStable
