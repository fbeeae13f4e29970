SPECIFICATION Spec
CHECK_DEADLOCK FALSE
SYMMETRY Symmetry
CONSTANTS
  Object = {o1, o2, o3}
  Given = {x}
  Change = {c1, c2}
  Callback = {k1}
  Ddl = TRUE
  MaxDepth = 4
  InOrder = TRUE
  RollBackAny = FALSE
INVARIANTS
  CleanAfterDdl
