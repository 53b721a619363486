SPECIFICATION Spec
CONSTANTS
  Projects = {p, q}
  Ports = {w, x}
  Tabs = {t1, t2}
  Calls = {c}
  Jobs = {i, j}
  Studios = {s1, s2}
  BridgePorts = {1, 2}
  Requests = {r1, r2}
  NoTab = NoTab
  Nobody = Nobody
  Blank = Blank
  Unset = Unset
  NoStudio = NoStudio
  NoPort = 0
  MaxCalls = 1
  MaxAccidents = 1
  MaxBuilds = 3
  Scenes <- MCScenes
SYMMETRY MCSymmetry
INVARIANTS TypeOK WriteInOwnModel OwnStudio FoundIfServed EditOutside RecordTruthful AnswerTruthful
