CONSTANTS
  Readers = {r1, r2}
  Prompts = {A}
  NoPrompt = NoPrompt
  MaxChanges = 2
  Loop = Loop
  Nobody = Nobody
SPECIFICATION FairSpec
CHECK_DEADLOCK FALSE
INVARIANT IndexSound
PROPERTY IndexNeverOlder
PROPERTY NeverRebilled
PROPERTY ChangesArrive
