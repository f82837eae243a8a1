CONSTANTS
  m1 = m1
  m2 = m2
  m3 = m3
  Msgs <- MCMsgs
  Size <- MCSize
  SndBuf = 2
SPECIFICATION FairSpec
CHECK_DEADLOCK FALSE
INVARIANTS
  StreamIntact
  OutputInv
  FinIsLast
PROPERTIES
  BufferDrains
