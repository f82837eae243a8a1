CONSTANTS
  Zero <- MCZero
  CR <- MCCR
  LF <- MCLF
  Byte <- MCByte
  Pages <- MCPages
  Scripts <- MCScripts
  KCheapPrepend = 1
  KInitailSize = 3
  ExtraSize = 30
  Short = 6
  SndBuf = 3
SPECIFICATION FairSpec
CHECK_DEADLOCK FALSE
INVARIANTS
  UpgradesServed
