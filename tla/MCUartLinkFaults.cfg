SPECIFICATION LinkSpec
CONSTANTS
  UARTNET_MTU = 2
  ETH_HLEN = 2
  Noise = {}
  AllocMayFail = TRUE
  MaxFrames = 0
  NULL = NULL
  Frames <- MixedFrames
  LineCap = 3
  MaxSent = 4
  MaxLost = 1
  MaxStops = 1
CHECK_DEADLOCK FALSE
INVARIANTS
  DeliveredWereSent
  DamageBounded
