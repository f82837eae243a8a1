CONSTANTS
  w1 = w1
  w2 = w2
  c1 = c1
  t1 = t1
  t2 = t2
  t3 = t3
  NoTask = NoTask
  Workers <- MCWorkers
  Callers <- MCCallers
  Tasks <- MCTasks
SPECIFICATION FairSpec
CHECK_DEADLOCK FALSE
INVARIANTS
  PoolInv
  NobodySleepsOverWork
  OneWorkerIsFifo
PROPERTIES
  OnlyPushesDisturb
  StopReturns
  TasksAreTaken
