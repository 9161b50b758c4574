CONSTANTS
  None = None
  NoValue = NoValue
  call1 = call1
  call2 = call2
  call3 = call3
  profile1 = profile1
  profile2 = profile2
  CallTokens = {call1, call2, call3}
  Entries = {profile1, profile2}
  EntryOf <- EntryOfCall
  Bound = profile1
  Others <- OtherMessages
  MostRequests = 2
  MaxOthers = 3
  Unset = Unset
  Words <- MemoryWords
  Limits <- MemoryLimits
  FirstLimits <- FewMemories
  Notes <- MemoryNotes
  Lookups <- MemoryLookups
  Pages = {1}
  LeastItems = 1
  LongestText = 3
  LongestCategory = 1
  MostMemories = 2
  LastDay = 1
  NoProfile = NoProfile
  NewProfiles <- FormProfiles
  ProfileEdits <- FormEdits
  NewShared <- FirstShared
  SharedEdits <- LaterShared
  Absent = Absent
  ToolNames <- AllTools
  Base = {1, 2}
  OptionalKinds = {"external"}
  KindOf <- KindsOfTools
  Versions = {"first", "second"}
  ListedIn <- ToolsOfVersion
  ReadingIn <- ReadingOfVersion
  AllSettings <- FewSettings
  FirstSettings <- FirstSettingsOfAll
  FirstVersion = "first"
  Askers = {request1, request2}
  MaxToolChanges = 2
SPECIFICATION OperationsSpec
INVARIANT FormsSound
INVARIANT HomeSound
INVARIANT ActsOnExposed
INVARIANT PastSound
INVARIANT MemoriesAreKept
INVARIANT TrafficSound
INVARIANT ProtocolSound
INVARIANT SelectionsSound
INVARIANT ToolsAllowed
INVARIANT AgentSound
