\* Chiliz: a restart just after Snake8, with the last checkpoint before it.
SPECIFICATION StoreSpec
CONSTANTS
  Addr <- Addr3
  DefaultEpochLength = 4
  LorentzEpochLength = 500
  MaxwellEpochLength = 1000
  Snake8TurnLength = 2
  LubanAt = 99
  PlatoAt = 99
  BohrAt = 99
  LorentzAt = 99
  MaxwellAt = 99
  FermiAt = 99
  Snake8At = 6
  Lists <- Pairs
  MaxBlock = 7
  TurnLengths = {1}
  QuorumAt = {}
  CheckpointInterval = 4
  FullImmutabilityThreshold = 90000
  Offset = 200
  InMemorySnapshots = 2
INVARIANT OneSetPerBlock
CHECK_DEADLOCK FALSE
