SPECIFICATION FairSpec
CONSTANTS
  Request = {r1, r2}
  Name = {n1}
  Timeouts = {1, 2}
  MaxTimeout = 2
  Polls = {1, 2}
  Persistent = FALSE
  Shared = "persistent"
  Nobody = "nobody"
  MaxTime = 3
PROPERTIES CallsReturn AbandonedLockBroken
CHECK_DEADLOCK FALSE
