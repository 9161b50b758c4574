CONSTANTS
    None = None
    Requests = {r1, r2}
    Conversations = {c1, c2, c3}
    MaxTurns = 2
    MaxConversations = 2
    MaxAge = 4
    HistoryLimit = 1
    FollowUpMode = "default"
    Hints = {"open"}
    MaxClock = 5
SYMMETRY Symmetry
SPECIFICATION Spec
INVARIANT HistoryReadable
