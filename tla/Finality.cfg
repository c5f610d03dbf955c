\* Three validators vote on a tree of two branches; a node may come late or restart.
SPECIFICATION Spec
CONSTANTS
  Validators = {v1, v2, v3}
  Blocks <- MCBlocks
  Parent <- MCParent
  Number <- MCNumber
  Branch <- MCBranch
  Td <- MCTd
  MaxNumber = 3
  MaxRestart = 2
  OnDisk = {0}
  Late = {1, 3}
  FermiAt = 0
  FirstAttested = 1
  Scope = 10
SYMMETRY Symmetry
INVARIANTS SealedIsAccepted FinalizedAgree
PROPERTIES HeadKeepsFinalized LedgerGrows
CHECK_DEADLOCK FALSE
