SPECIFICATION Spec
SYMMETRY Symmetry
CONSTANTS
  Packages = {a, x}
  External = {x}
  Reloads = {r1, r2}
  Clients = {s1, s2}
  MaxReloads = 2
  MaxLoads = 4
  Start = Start
  None = None
CHECK_DEADLOCK FALSE
INVARIANT ListSound
INVARIANT ToolsServed
INVARIANT ClientsKnow
