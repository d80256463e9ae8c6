CONSTANTS
  Writer = {w1, w2}
  MaxSets = 3
  MaxSeconds = 2
  Toggle <- MCToggle
  Configuration <- MCConfiguration
SPECIFICATION FairSpec
INVARIANTS
  TypeOK
  ObservedIsApplied
  FileIsLastSet
PROPERTIES
  FilterFollowsFile
