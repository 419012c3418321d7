SPECIFICATION Spec
CONSTANTS
    BLOCK_SZ = 8
    LENGTH_SZ = 3
    MaxMessage = 33
    Chunks <- MCChunks
INVARIANTS TypeOK StreamsWhole DigestCorrect
CHECK_DEADLOCK FALSE
