SPECIFICATION FairSpec
CONSTANTS
    Shards = {copy, owned}
    ConfigCount = 2
    Repetitions = 2
    Checkouts = {"none", "measured"}
INVARIANTS
    TypeOK
    AssembledIsMeasured
    CompleteShardsAssemble
PROPERTY Termination
