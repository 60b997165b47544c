SPECIFICATION Spec
CONSTANTS
  Process = {p, q}
  Project = {app, lib}
  Commit = {c1, c2}
  Null = Null
  Reliable = FALSE
SYMMETRY Symmetry
INVARIANTS ReadsWholeCheckout OneTemporary
PROPERTIES SelectionSticks
CHECK_DEADLOCK FALSE
