\* Four schedules of forks; four validators with stakes of all sizes; three
\* goroutines on five blocks; up to five validators out of turn.
SPECIFICATION SpecOfOne
CONSTANTS
  Subjects = {"chain", "sets", "snake8", "epochs", "table", "shared", "backoff"}
  Never = 99
  Addr <- MCAddr
  Lists <- MCLists
  MaxBlock = 14
  TurnLengths = {1, 2}
  QuorumAt = {6, 7, 8, 12, 13}
  DefaultEpochLength = 7
  LorentzEpochLength = 5
  MaxwellEpochLength = 20
  Snake8TurnLength = 50
  LubanAt = 0
  PlatoAt = 0
  BohrAt = 5
  LorentzAt = 7
  MaxwellAt = 7
  FermiAt = 99
  Snake8At = 99
  LastBlock = 5
  FirstSnake8 = 2
  Sealer <- MCSealer
  Turn <- MCTurn
  Members <- MCMembers
  InitialBackOff = 1
  LorentzBackOff = 2
INVARIANTS WindowsExact AcceptedIsApplicable ChainCanGrow EpochSetInstalled TurnBudget FinalityIsFold Normalized ShareOfTurns OnlyOwnHeaderDisturbs OneSlotEach
PROPERTIES HistoryClearedOncePerEpoch FairSlashing OtherSchedules
CHECK_DEADLOCK FALSE
