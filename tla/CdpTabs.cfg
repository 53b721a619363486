SPECIFICATION TabsSpec
CONSTANTS
  Projects = {p, q}
  Ports = {w, x}
  Tabs = {t1, t2, t3}
  Calls = {c, d}
  NoTab = NoTab
  Nobody = Nobody
  Blank = Blank
  MaxCalls = 2
  MaxAccidents = 1
SYMMETRY TabsSymmetry
INVARIANTS TabsTypeOK TabsExclusive ActsInOwnTab TwiceAtMost
PROPERTY PoolImplemented
