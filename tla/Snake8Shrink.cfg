\* Chiliz after Snake8, sets that shrink.
SPECIFICATION Spec
CONSTANTS
  Addr <- Addr3
  DefaultEpochLength = 8
  LorentzEpochLength = 500
  MaxwellEpochLength = 1000
  Snake8TurnLength = 2
  LubanAt = 99
  PlatoAt = 99
  BohrAt = 99
  LorentzAt = 99
  MaxwellAt = 99
  FermiAt = 99
  Snake8At = 2
  Lists <- AllLists
  MaxBlock = 12
  TurnLengths = {1}
  QuorumAt = {}
INVARIANTS OldestIsDeleted
CHECK_DEADLOCK FALSE
