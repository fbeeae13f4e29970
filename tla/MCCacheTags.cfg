SPECIFICATION Spec
SYMMETRY Symmetry
CONSTANTS
  Request = {p1, p2}
  Tag = {t1, t2}
  Cid = {c1}
  ItemTags = {{t1, t2}}
  Apcu = {c1}
  Repeats = FALSE
  Rollbacks = TRUE
  MaxCalls = 2
INVARIANTS
  TypeOK
  StaleNeverServed
  UncommittedNeverServed
