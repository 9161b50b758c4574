CONSTANTS
  Profiles = {p1, p2, p3}
  Flows = {}
  Ports = {A}
  Servers = {s1, s2}
  NoOne = NoOne
  NoServer = NoServer
  NoPort = NoPort
SPECIFICATION FairSpec
CHECK_DEADLOCK FALSE
INVARIANT ReleasedSound
PROPERTY ImplementsRuntime
PROPERTY TasksEnd
