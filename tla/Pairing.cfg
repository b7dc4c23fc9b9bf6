SPECIFICATION FairSpec
CONSTANTS
  None = None
  HeaderUnits = 2
  PayloadUnits = 2
  MaxTickets = 1
  Faults = {"refuse", "version", "type", "size", "spake2", "blob", "close", "slow"}
INVARIANTS PairedMeansAgreed NothingLeftOpen
PROPERTIES PairEnds CodeDecides
