CONSTANTS
  Commands = {"push", "pull", "list", "stat"}
  maxdata = 7
  MAX_CHUNK = 8
  MAX_PUSH = 2
  PathLen = 1
  Sizes = {0, 1, 3, 4, 7}
  MaxFiles = 2
  MaxEntry = 2
  DevMayFail = TRUE
SPECIFICATION FairSpec
INVARIANTS WithinMaxdata TransferIntact
PROPERTIES CommandReturns FailureEnds
