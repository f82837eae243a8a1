CONSTANTS
  c1 = c1
  c2 = c2
  None = None
  BaseLoop = "main"
  IoLoops <- MCIoLoops
  PoolSizes <- MCPoolSizes
  Conns <- MCConns
  Fds <- MCFds
SPECIFICATION FairSpec
CHECK_DEADLOCK FALSE
INVARIANTS
  ServerInv
  TableMatches
  NoDanglingChannel
  ClosedOnce
  DestroyedAfterClose
  EndedInv
  ForceCloseAlive
PROPERTIES
  StateForward
  ClosedIsReleased
