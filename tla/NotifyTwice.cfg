\* Two goroutines for the same block.
SPECIFICATION NotifySpec
CONSTANTS
  MaxNumber = 3
  Checks = {"g1", "g2"}
INVARIANT NotifiedOnce
CHECK_DEADLOCK FALSE
