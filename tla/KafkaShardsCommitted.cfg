SPECIFICATION Spec
CONSTANTS
    Shards = {copy, owned}
    ConfigCount = 2
    Repetitions = 2
    Checkouts = {"assembled"}
INVARIANT CompleteShardsAssemble
