SPECIFICATION FairSpec
CONSTANTS
    NOps = 3
    ChunkOps = 2
    MaxRestarts = 1
    Callers = {c1}
INVARIANTS
    AtMostOnce
    AppliedTruthful
    ChunkedHasWork
PROPERTIES
    StopsForGood
    Settles
