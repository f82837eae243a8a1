CONSTANTS
  c1 = c1
  None = None
  BaseLoop = "main"
  IoLoops <- MCIoLoops
  PoolSizes <- MCPoolSizes
  Conns <- MCConns
  Fds <- MCFds
SPECIFICATION ForeignSpec
CHECK_DEADLOCK FALSE
INVARIANTS
  ForceCloseAlive
