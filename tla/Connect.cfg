CONSTANTS
  None = None
  t1 = t1
  t2 = t2
  Threads = {t1, t2}
  MaxKeys = 2
  KnownKeys = {2}
  Greetings = {"CNXN", "AUTH", "STLS", "odd"}
  CanUpgrade = TRUE
  DevMaxdata = 4096
  MaxCalls = 4
  MaxNoise = 1
SPECIFICATION FairSpec
INVARIANTS TypeOK LockHeldByHandshake KeysTakeTurns ClearOrTlsAgreed MaxdataAgreed
PROPERTIES ImplementsConnection AvailableIfAlone ConnectEnds
