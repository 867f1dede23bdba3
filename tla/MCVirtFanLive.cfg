SPECIFICATION FanSpec
CONSTANTS
  Users = {u1}
  Workers = {w1, w2}
  FAN_MAX_NUM = 1
  FAN_FAIL_MAX_RETRY = 2
  NumFans = {1}
  Transports = {"i2c"}
  MaxQueue = 1
  MaxWrites = 0
  MaxStores = 1
  MaxFails = 1
CHECK_DEADLOCK FALSE
PROPERTIES
  McuNeverGoesBack
  PwmReachesMcu
  FanCallsReturn
