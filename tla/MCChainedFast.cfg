SPECIFICATION Spec
CONSTANTS
  p1 = p1
  p2 = p2
  n1 = n1
  n2 = n2
  Request = {p1, p2}
  Node = {n1, n2}
  Home <- Apart
  Ahead <- InStep
  Cid = {c1}
  Crashes = TRUE
  Delays = FALSE
  MaxWrites = 2
  MaxTime = 3
INVARIANTS
  TypeOK
  UpToDateUnlessOverlapped
