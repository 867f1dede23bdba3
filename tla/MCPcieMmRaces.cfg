SPECIFICATION Spec
CONSTANTS
  Threads = {t1, t2}
  Vmas = {t1, t2}
  VmaOf <- EachItsOwn
  NumChunks = 2
  NumFrames = 1
  Value = {a}
  NULL = NULL
  IoMayFail = TRUE
  AnyOrder = TRUE
  ResetAnyTime = TRUE
  MaxFaults = 4
INVARIANTS
  NoBugUnlessRaced
  FrameOwned
CHECK_DEADLOCK FALSE
