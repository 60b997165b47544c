SPECIFICATION CachesSpec
CONSTANTS
  Process = {p, q}
  Role = {"build", "editor"}
  Compiler = {old, new}
  Depth = 2
  Version = {1, 2}
  MaxEdits = 2
  Thread = {s, t}
  k1 = k1
  k2 = k2
  k3 = k3
  p1 = p1
  p2 = p2
  Request = {k1, k2, k3}
  Source = {p1, p2}
  Reads <- MC_Reads
  Capacity = 2
SYMMETRY Symmetry
INVARIANTS EntriesMatchTheirKeys UsesSourcesUnlessUndercut MemoIsRight
CHECK_DEADLOCK FALSE
CONSTRAINT Bounded
