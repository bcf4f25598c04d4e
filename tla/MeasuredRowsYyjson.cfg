SPECIFICATION Spec
CONSTANTS
    MinIterations = 1
    MinRepetitions = 1
    CorpusSize = 4
    Iterations = {1}
    Repetitions = {1}
    Warmups = {0}
    SchemaIds = {1}
    Samples = {0}
INVARIANT YyjsonEncodesTheMessage
