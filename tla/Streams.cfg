CONSTANTS
  None = None
  t1 = t1
  t2 = t2
  Threads = {t1, t2}
  Ops = {"shell", "stat", "reboot"}
  IdModulus = 4
  Patient = FALSE
  Window = 1
  MaxOps = 2
  Chunks = 2
  MaxResets = 1
SPECIFICATION Spec
SYMMETRY MCSymmetry
INVARIANTS TypeOK NothingLost StoreIsCurrent LockHeldByReader
PROPERTIES ImplementsChannels
