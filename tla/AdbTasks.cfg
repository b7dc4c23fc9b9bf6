CONSTANTS
  None = None
  t1 = t1
  t2 = t2
  Tasks = {t1, t2}
  Calls <- MCCalls
  Limit = 0
  Chunks = 1
  MaxCalls = 2
  MaxCancels = 1
  MaxResets = 2
  MaxTotal = 3
SPECIFICATION FairSpec
INVARIANTS LockFollowsTasks WholeUnlessCut NothingLost
PROPERTIES ImplementsChannels PullCloses AvailableOrWedged CallsEnd
