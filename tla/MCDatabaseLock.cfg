SPECIFICATION Spec
CONSTANTS
  Request = {r1, r2, r3}
  Name = {n1}
  Timeouts = {1, 2}
  MaxTimeout = 2
  Polls = {1}
  Persistent = FALSE
  Shared = "persistent"
  Nobody = "nobody"
  MaxTime = 3
SYMMETRY Symmetry
INVARIANTS TypeOK LeaseExclusive NoRowAfterShutdown RecordBacked
CHECK_DEADLOCK FALSE
PROPERTIES RenewalTruthful LeaseSpec
