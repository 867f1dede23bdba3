SPECIFICATION FairSpec
CONSTANTS
  SMP = FALSE
  FrameBytes = 3
  FifoDepth = 2
  Budget = 1
  MaxRx = 2
  MaxOpens = 2
INVARIANTS
  TypeOK
  RxRearmedUnlessEarly
  TxArmed
  TxPreparedBeforeUse
  QuiescentWhenDown
  QueueAwakeOnlyWhenIdle
PROPERTIES
  QueueWakes
  RxDrains
  OpenStopReturn
CHECK_DEADLOCK FALSE
