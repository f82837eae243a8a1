CONSTANTS
  t1 = t1
  t2 = t2
  t3 = t3
  None = None
  MaxTime = 4
  Timers <- MCTimers
  Interval <- MCInterval
SPECIFICATION Spec
CHECK_DEADLOCK FALSE
INVARIANTS
  CancelIsSafe
