SPECIFICATION Spec
CONSTANTS
  Run = {c1, c2}
  Queue = {q1}
  MaxItems = 1
  CronTime = 3
  LockTime = 2
  Delays = {1}
  Overstays = {TRUE}
  CanCrash = FALSE
  MaxStart = 4
  MaxTime = 5
CHECK_DEADLOCK FALSE
SYMMETRY Symmetry
INVARIANT ExclusiveForCronTime
