SPECIFICATION FairSpec
CONSTANTS
    Iterations = 3
    Repetitions = 2
    PollEvery = 2
    QueueLimit = 2
INVARIANTS
    TypeOK
    PayloadOwnership
    EnqueuedOnce
    RowErrorsExact
    CleanRowIsStored
PROPERTY Termination
