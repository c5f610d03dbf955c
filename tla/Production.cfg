\* One of three validators seals blocks 2 (out of turn) and 3 (in turn), among
\* blocks of others and a restart; all forks that change the system
\* transactions, on two branches, which end when all blocks are imported.
CONSTANTS
  self = self
  peer = peer
  other = other
  Val = self
  Peers = {peer, other}
  Leader <- MCLeader
  Txs = {0, 1}
  MaxNumber = 3
  MaxTime = 3
  MaxPeerBlocks = 1
  MaxRestarts = 1
  MaxSeals = 2
  ResultQueueSize = 1
  Blocks <- MCBlocks
  Parent <- MCParent
  Number <- MCNumber
  Branch <- MCBranch
  Td <- MCTd
  LastNumber = 4
  Validators = {1, 2, 3}
  Time <- MCTime
  Coinbase <- MCCoinbase
  Attesters <- MCAttesters
  Schedules <- AllSchedules
  Fees <- MCFees
  InitContracts <- MCInitContracts
  FeynmanContracts <- MCFeynmanContracts
  RewardInterval = 2
  BreatheInterval = 2
  SystemRewardPercent = 5
  MaxSystemBalance = 2
  Pepper8Amount = 100
  Pipe8Amount = 50
  InflationPct <- MCInflationPct
  BlocksPerYear = 2
  YearInSecs = 2
  InflationData <- MCInflationData
SPECIFICATION SpecOfOne
INVARIANTS NoDoubleSign PeersAccept NothingElseIsAccepted EverythingPassedOn RewardedOnce
PROPERTIES SealsOrMovesOn AssembledIsAccepted
CHECK_DEADLOCK FALSE
