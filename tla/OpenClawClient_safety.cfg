CONSTANTS
  Requests = {r1, r2}
  Unloads = {}
  Answers = {"accepted", "started", "replied", "refused"}
  MaxSockets = 2
  MaxEarlyRuns = 2
  None = None
SPECIFICATION Spec
CHECK_DEADLOCK FALSE
SYMMETRY Symmetry
INVARIANT AnswersKept
