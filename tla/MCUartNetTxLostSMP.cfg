SPECIFICATION Spec
CONSTANTS
  SMP = TRUE
  FrameBytes = 4
  FifoDepth = 2
  Budget = 1
  MaxRx = 0
  MaxOpens = 1
INVARIANTS
  TxArmed
CHECK_DEADLOCK FALSE
