SPECIFICATION FairSpec
CONSTANTS
  Calls = {c1, c2}
  MaxLogs = 3
  MaxManagers = 2
  Kept = 2
  Filters = {c1}
  None = None
CHECK_DEADLOCK FALSE
INVARIANT FileSound
INVARIANT SavedOrOnTheWay
PROPERTY CallsEnd
