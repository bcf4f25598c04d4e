SPECIFICATION FairSpec
CONSTANTS
    Iterations = 6
    Repetitions = 2
    MaxThreads = 4
    Bytes = 3
INVARIANTS
    TypeOK
    OneWriter
    TimedFromTheStart
    ChecksumExact
PROPERTY Termination
