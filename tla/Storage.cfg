\* Two branches of blocks with two stops, crashes or rewinds; snapshots of BSC from
\* Bohr on, with checkpoints every 4 blocks, where block 6 may trust epoch block 4
\* (sets of two: a set of one has no history, and block 6 then installs its own
\* list); tries of eight blocks and a shorter branch, with two stops or crashes.
SPECIFICATION SpecOfOne
CONSTANTS
  Blocks <- TreeBlocks
  Parent <- TreeParent
  Number <- TreeNumber
  Branch <- TreeBranch
  Td <- TreeTd
  MaxNumber = 3
  Justified <- TreeJustified
  Txs <- TreeTxs
  Invalid = {6}
  TriesInMemory = 2
  Batches <- TreeBatches
  MaxFaults = 2
  Addr <- Addr3
  DefaultEpochLength = 2
  LorentzEpochLength = 4
  MaxwellEpochLength = 4
  Snake8TurnLength = 50
  LubanAt = 0
  PlatoAt = 0
  BohrAt = 0
  LorentzAt = 99
  MaxwellAt = 99
  FermiAt = 99
  Snake8At = 99
  Lists <- Pairs
  MaxBlock = 7
  TurnLengths = {1}
  QuorumAt = {4}
  CheckpointInterval = 4
  FullImmutabilityThreshold = 0
  Offset = 2
  InMemorySnapshots = 1
INVARIANTS CanonFollowsHead NothingMissing LookupsFollowCanon HeadHasState
INVARIANTS SameValidatorSet SameHistory NeverFails RecentStateFound
PROPERTY AdoptsBest
CHECK_DEADLOCK FALSE
