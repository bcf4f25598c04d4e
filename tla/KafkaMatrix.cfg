SPECIFICATION Spec
CONSTANTS
    ConfigCount = 2
    Contracts = {2, 3}
    RunLimits = {0, 1, 2}
    MaxInvocations = 3
INVARIANTS
    TypeOK
    ReportedInOneRun
    CoversSelection
    RunsCountFiles
PROPERTY OverwritesOnlyLeftovers
