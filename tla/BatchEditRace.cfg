SPECIFICATION Spec
CONSTANTS
    NOps = 2
    ChunkOps = 2
    MaxRestarts = 1
    Callers = {c1, c2}
SYMMETRY CallerSymmetry
INVARIANTS
    TypeOK
    JournalSound
    SucceededComplete
    FailedTruthful
PROPERTIES
    PromiseKept
