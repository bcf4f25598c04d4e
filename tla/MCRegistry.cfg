SPECIFICATION MCSpec
CONSTANTS
    NetworkRepetitions = 2
    SubjectRepetitions = 2
    MaxRuns = 2
INVARIANTS
    TypesOK
    RowsComplete
    RowsTellTheRegistry
    RegistrationsTogether
    SuccessShowsUpgrade
PROPERTY RunsEnd
