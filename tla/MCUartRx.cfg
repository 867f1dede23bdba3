SPECIFICATION RxSpec
CONSTANTS
  UARTNET_MTU = 1
  ETH_HLEN = 1
  Noise = {0, 1, 2, 3, 85, 90, 122, 170}
  AllocMayFail = TRUE
  MaxFrames = 2
  NULL = NULL
INVARIANTS
  RxTypeOK
  BufferSafe
  NoSkbLeak
  FramesAccounted
  DeliveredWellFormed
