SPECIFICATION LinkSpec
CONSTANTS
  UARTNET_MTU = 256
  ETH_HLEN = 14
  Noise = {}
  AllocMayFail = FALSE
  MaxFrames = 0
  NULL = NULL
  Frames <- PlainFrames
  LineCap = 3
  MaxSent = 2
  MaxLost = 0
  MaxStops = 0
CHECK_DEADLOCK FALSE
PROPERTY
  ChannelSpec
