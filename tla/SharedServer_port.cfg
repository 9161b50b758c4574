CONSTANTS
  Profiles = {p1, p2}
  Flows = {f1}
  Ports = {A, B}
  Servers = {s1, s2, s3, s4}
  NoOne = NoOne
  NoServer = NoServer
  NoPort = NoPort
SPECIFICATION Spec
VIEW View
SYMMETRY Symmetry
CHECK_DEADLOCK FALSE
INVARIANT SharedSound
INVARIANT HoldersServed
