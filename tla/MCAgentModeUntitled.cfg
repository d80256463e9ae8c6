CONSTANTS
  Writer = {w1}
  MaxSets = 1
  MaxSeconds = 1
  Toggle <- MCToggle
  Configuration <- MCConfiguration
SPECIFICATION FairSpec
PROPERTY MessagesAreDismissed
