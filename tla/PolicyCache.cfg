SPECIFICATION CacheSpec
CONSTANTS
  p1 = p1
  p2 = p2
  d1 = d1
  d2 = d2
  d3 = d3
  Process = {p1, p2}
  Decision = {d1, d2, d3}
  Home <- TwoHereOneThere
  MaxVersion = 3
SYMMETRY SameProcess
INVARIANTS
  CacheTypeOK
  NoStalePolicy
  CacheCurrent
