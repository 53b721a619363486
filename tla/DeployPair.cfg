SPECIFICATION Spec
CONSTANTS
    Deployers = {d1, d2}
    Nobody = nobody
    Starters = {s1, s2}
    MaxTools = 2
    MaxMishaps = 1
SYMMETRY DeployerSymmetry
INVARIANTS TypeOK OneHolder OneTreeSurvives OneRuntime
PROPERTIES SucceededInstalled FailureKeepsTree
