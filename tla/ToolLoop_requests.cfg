CONSTANTS
  MaxBudget = 2
  MaxBatch = 3
SPECIFICATION FairSpec
CHECK_DEADLOCK FALSE
INVARIANT LimitsSound
INVARIANT AllAnswered
INVARIANT RanMeansAnswered
INVARIANT StatefulNotResent
PROPERTY NeverReplayed
PROPERTY RequestEnds
