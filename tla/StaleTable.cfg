\* Blocks before and after Snake8, in turn and out of turn.
SPECIFICATION SharedSpec
CONSTANTS
  LastBlock = 4
  FirstSnake8 = 2
  Sealer <- MCSealer
  Turn <- MCTurn
INVARIANT HeaderDecides
CHECK_DEADLOCK FALSE
