CONSTANTS
  Msgs <- MCMsgs
  BufSize = 4
  PtyCap = 2
  MaxIntr = 2
SPECIFICATION Spec
INVARIANTS TypeOK InOrder
PROPERTIES SendReturns
CHECK_DEADLOCK FALSE
