\* One validator, one crash: cache and log of four entries, reorganisations of one block.
SPECIFICATION Spec
CONSTANTS
  Nodes = {p}
  Forks = {1}
  MaxNumber = 5
  Justifiable = {0, 2}
  MaxReorg = 1
  MaxCrash = 1
  MaxRepeat = 1
  MaxSize = 4
  Scope = 2
  Upper = 1
  WaitBlocks = 1
INVARIANT JournalProtects
PROPERTY VotesFollowRules
CHECK_DEADLOCK FALSE
