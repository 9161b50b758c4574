CONSTANTS
  Requests = {r1, r2}
  Unloads = {u}
  Answers = {"refused"}
  MaxSockets = 2
  MaxEarlyRuns = 2
  None = None
SPECIFICATION FairSpec
CHECK_DEADLOCK FALSE
INVARIANT ConnectionSound
PROPERTY WaitsEnd
