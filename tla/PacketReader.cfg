SPECIFICATION FairSpec
CONSTANTS
  HeaderSize = 2
  Sizes = {0, 2, 3}
  MaxPackets = 3
  MaxReads = 4
INVARIANTS InStep OwnDataOnly
PROPERTY ReadEnds
