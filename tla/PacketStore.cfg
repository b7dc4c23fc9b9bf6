\* Every operation on the store: three queues and two packets at a time.
CONSTANTS
  None = None
  Ids <- MCIds
  Packets <- MCPackets
  MaxPackets = 2
  MaxQueues = 3
SPECIFICATION Spec
PROPERTY ImplementsQueues
