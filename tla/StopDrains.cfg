CONSTANTS
  l1 = l1
  l2 = l2
  l3 = l3
  Lines <- MCLines
  Size <- MCSize
  MaxPending = 3
  Null = Null
SPECIFICATION Spec
CHECK_DEADLOCK FALSE
INVARIANTS
  StopDrains
