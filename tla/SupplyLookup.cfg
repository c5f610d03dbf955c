\* From Dragon8Fix on, two branches.
SPECIFICATION Spec
CONSTANTS
  Blocks <- MCBlocks
  Parent <- MCParent
  Number <- MCNumber
  Branch <- MCBranch
  Td <- MCTd
  MaxNumber = 4
  Validators = {1, 2, 3}
  Time <- MCTime
  Coinbase <- MCCoinbase
  Attesters <- MCAttesters
  Schedules <- FixedSchedule
  Fees <- NoFees
  InitContracts <- MCInitContracts
  FeynmanContracts <- MCFeynmanContracts
  RewardInterval = 2
  BreatheInterval = 2
  SystemRewardPercent = 5
  MaxSystemBalance = 2
  Pepper8Amount = 100
  Pipe8Amount = 50
  InflationPct <- MCInflationPct
  BlocksPerYear = 2
  YearInSecs = 2
  InflationData <- MCInflationData
INVARIANTS QueriesParent
CHECK_DEADLOCK FALSE
