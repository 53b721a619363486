SPECIFICATION Spec
CONSTANTS
    NOps = 2
    ChunkOps = 2
    MaxRestarts = 0
    Callers = {c1}
INVARIANTS
    FailedContinueUntouched
