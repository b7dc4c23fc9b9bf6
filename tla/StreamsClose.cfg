CONSTANTS
  None = None
  t1 = t1
  t2 = t2
  Threads = {t1, t2}
  Ops = {"shell"}
  IdModulus = 4
  Patient = TRUE
  Window = 1
  MaxOps = 2
  Chunks = 1
  MaxResets = 0
SPECIFICATION Spec
INVARIANT CloseNotLost
