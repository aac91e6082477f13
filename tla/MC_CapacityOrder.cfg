CONSTANTS
    MaxKeys = 2
    MaxKeyIdSize = 3
    IdBytes = {1, 2}
    IdArgs <- MCPaddedIdArgs
    KeyPairs = {k1, k2}
    Zeroed = Zeroed
    MaxTime = 0
    MaxOps = 2
    MaxSessions = 1

SPECIFICATION RSpec

PROPERTY ExistingIdRejected
