SPECIFICATION Spec
SYMMETRY Symmetry
CONSTANTS
  Object = {o1, o2, o3}
  Given = {x}
  Change = {c1, c2, c3}
  Callback = {k1}
  Ddl = FALSE
  MaxDepth = 4
  InOrder = FALSE
  RollBackAny = FALSE
INVARIANTS
  TypeOK
  StackMatches
  NothingOpenAtEnd
PROPERTIES
  PromiseSpec
