SPECIFICATION FairSpec
CONSTANTS
  Threads = {t1}
  Vmas = {m1}
  VmaOf <- OneVma
  NumChunks = 3
  NumFrames = 2
  Value = {a, b}
  NULL = NULL
  IoMayFail = FALSE
  AnyOrder = FALSE
  ResetAnyTime = FALSE
  MaxFaults = 5
INVARIANTS
  PteSound
  SwapBalance
PROPERTIES
  MemorySpec
  FaultReturns
CHECK_DEADLOCK FALSE
