\* A competing block that may come late or never; two goroutines beside the import.
SPECIFICATION SpecOfOne
CONSTANTS
  Blocks <- Fork
  Votes <- ForkVotes
  Outsiders = {2}
  MaxCur = 1
  MaxFuture = 2
  Buffer = 1
  Lower = 1
  Upper = 1
  MaxNumber = 3
  Checks = {"g1", "g2"}
INVARIANTS BoxesMatch AnnouncedVotesMoved SentIsFinalized
PROPERTIES FutureVotesServed HeadFinalityNotified
CHECK_DEADLOCK FALSE
