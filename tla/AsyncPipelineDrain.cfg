SPECIFICATION Spec
CONSTANTS
    PoolSize = 3
    QueueCapacity = 4
    WordSize = 8
    NullPtr = NullPtr
    MinIterations = 2
    MaxIterations = 4
    MaxRequested = 6
    PayloadBytes = 5
    LineBytes = 3
INVARIANT WorkerDrainsQueue
