SPECIFICATION Spec
CONSTANTS
    MinIterations = 6
    MinRepetitions = 2
    CorpusSize = 4
    Iterations = {5, 6}
    Repetitions = {1, 2}
    Warmups = {0, 1}
    SchemaIds = {1, 66051, 2147483647}
    Samples = {0, 1}
INVARIANTS
    TypeOK
    RowsIdentified
    RowsMeasureTheirLoop
    EncodesTheMessage
