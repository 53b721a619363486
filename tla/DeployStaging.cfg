SPECIFICATION Spec
CONSTANTS
    Deployers = {d1, d2}
    Nobody = nobody
    Starters = {}
    MaxTools = 0
    MaxMishaps = 0
PROPERTIES SingleWriter
