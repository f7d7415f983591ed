\* Small blocks, so that a few keys fill several of them.
CONSTANTS
    Labels <- MCLabels
    INITIAL_TABLE_SIZE = 2
    Keysets <- MCKeysets
    BLOCK_SIZE = 4
    NUM_EXTRA_BLOCKS = 2
    LargeOffset = 8
    MaxOffset = 32
    Queries <- MCQueries
    MaxKeys = 3
    MaxLength = 3
    MaxValue = 1
SPECIFICATION Spec
INVARIANTS
    TypeOK
    PrefixSearchExact
    WalksExact
    ThrowsOnWrongKeys
    DawgExact
    FreeListExact
\* A build that ended is over.
CHECK_DEADLOCK FALSE
