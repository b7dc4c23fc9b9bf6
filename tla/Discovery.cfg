SPECIFICATION Spec
CONSTANTS
  None = None
  Services = {s1, s2}
  Families = {{"v4"}, {"v6"}, {"v4", "v6"}}
  MaxChanges = 4
  MaxCancels = 1
INVARIANTS SettledMeansExact ClosedAtEnd
