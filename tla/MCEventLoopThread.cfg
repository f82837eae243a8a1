CONSTANTS
  f1 = f1
  f2 = f2
  c1 = c1
  Owner = Owner
  Loop = Loop
  WakeupChannel = WakeupChannel
  Functors <- MCFunctors
  Channels <- MCChannels
SPECIFICATION FairSpec
CHECK_DEADLOCK FALSE
INVARIANTS
  TypeOK
  LoopOutlivesOwner
  WaitsForLoop
PROPERTIES
  StartReturns
  DestructorReturns
