SPECIFICATION MCSpec
CONSTANTS
    Capacity = 2
    WordSize = 4
    Values = {p1, p2, p3}
    NullPtr = NullPtr
    MaxPushes = 7
INVARIANTS
    Inv
    NoSlotRace
PROPERTY ImplementsQueue
