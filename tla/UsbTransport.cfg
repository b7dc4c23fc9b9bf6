CONSTANTS
  None = None
  d1 = d1
  d2 = d2
  u1 = u1
  u2 = u2
  Asks <- MCAsks
  BusOrder <- MCOrder
  Serial <- MCSerial
  Port <- MCPort
  MaxHandles = 2
  Timeouts = {5, None}
  Default = 10
  MaxPlugs <- MCPlugs
  MaxPending = 1
SPECIFICATION FairSpec
INVARIANT ConnectedOwns
PROPERTIES NoSilentGap CallsFinish
