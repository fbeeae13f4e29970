SPECIFICATION Spec
CONSTANTS
  Request = {r1, r2, r3}
  Name = {n1}
  Timeouts = {1, 2}
  MaxTimeout = 2
  Polls = {1}
  Persistent = TRUE
  Shared = "persistent"
  Nobody = "nobody"
  MaxTime = 2
CHECK_DEADLOCK FALSE
SYMMETRY Symmetry
PROPERTY KeptUntilReleased
