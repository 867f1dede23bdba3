SPECIFICATION Spec
CONSTANTS
  Threads = {t1, t2}
  Vmas = {m1}
  VmaOf <- OneVma
  NumChunks = 2
  NumFrames = 1
  Value = {a}
  NULL = NULL
  IoMayFail = FALSE
  AnyOrder = FALSE
  ResetAnyTime = FALSE
  MaxFaults = 3
INVARIANTS
  NoBug
CHECK_DEADLOCK FALSE
