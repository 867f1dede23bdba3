SPECIFICATION MachineSpec
CONSTANTS
  Options <- MCOptions
  GuestOptions <- MCGuestOptions
  AddrUnits <- MCAddrUnits
  MaxProbes = 3
  MaxLoads = 3
  MaxFds = 2
  TempUsers = {u1, u2}
  Inputs = {7, 200000}
INVARIANTS
  MemoryMapSound
  LinesExclusive
  GicServesEveryCpu
  SecondSerialToUart2
  BoundOrNothing
  HandlerFindsItsQueue
  UnloadLeavesNothing
  PcieNeeds23GiB
  ShownWasStored
PROPERTIES
  OrdinaryBoots
CHECK_DEADLOCK FALSE
