CONSTANTS
  Names = {n1, n2}
  Flows = {f1}
  Editors = {e1, e2}
  Ports = {A, B}
  Tokens = {x, y}
  MaxSaves = 3
  None = None
SPECIFICATION Spec
SYMMETRY Symmetry
CHECK_DEADLOCK FALSE
INVARIANT ProfilesSound
INVARIANT SettingsAgree
PROPERTY OptionsSavedLast
PROPERTY SavedByUsers
