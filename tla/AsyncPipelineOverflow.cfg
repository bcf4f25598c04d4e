SPECIFICATION Spec
CONSTANTS
    PoolSize = 2
    QueueCapacity = 2
    WordSize = 4
    NullPtr = NullPtr
    MinIterations = 4
    MaxIterations = 5
    MaxRequested = 6
    PayloadBytes = 5
    LineBytes = 3
INVARIANT RowAccounting
