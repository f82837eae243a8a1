CONSTANTS
  t1 = t1
  t2 = t2
  t3 = t3
  None = None
  MaxTime = 4
  Timers <- MCTimers
  Interval <- MCInterval
SPECIFICATION FairSpec
CHECK_DEADLOCK FALSE
INVARIANTS
  TimersInv
  ArmedInTime
PROPERTIES
  RunsWhenDue
  DueTimersRun
