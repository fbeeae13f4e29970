SPECIFICATION FairSpec
CONSTANTS
  Run = {c1, c2}
  Queue = {q1}
  MaxItems = 1
  CronTime = 1
  LockTime = 1
  Delays = {1}
  Overstays = {TRUE, FALSE}
  CanCrash = TRUE
  MaxStart = 2
  MaxTime = 4
CHECK_DEADLOCK FALSE
INVARIANTS TypeOK ClaimExclusive DelayHonoured NoItemLost
PROPERTY LoopsEnd
