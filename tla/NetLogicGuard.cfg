CONSTANTS
    c1 = c1
    c2 = c2
    Calls = {c1, c2}
    Attempts = 1
    MaxEdits = 2
    MaxRewrites = 2
    MaxCalls = 3
    MaxRestarts = 1
SPECIFICATION Spec
CHECK_DEADLOCK FALSE
INVARIANTS TypeOK SourceKept
PROPERTIES DeliberateStays
SYMMETRY Sym
