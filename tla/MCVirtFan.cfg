SPECIFICATION FanSpec
CONSTANTS
  Users = {u1, u2}
  Workers = {w1}
  FAN_MAX_NUM = 1
  FAN_FAIL_MAX_RETRY = 2
  NumFans = {1, 2}
  Transports = {"i2c", "virt"}
  MaxQueue = 1
  MaxWrites = 1
  MaxStores = 1
  MaxFails = 1
SYMMETRY UserSymmetry
CHECK_DEADLOCK FALSE
INVARIANTS
  LocksExclude
  DeadlockOnlyReadVsWork
  ReadIsOwnAndFresh
  NothingAfterRemove
