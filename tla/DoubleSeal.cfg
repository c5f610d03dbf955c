\* The node is killed once, at any time, also between the announcement of a block
\* and its write.
CONSTANTS
  self = self
  peer = peer
  other = other
  Val = self
  Peers = {peer, other}
  Leader <- MCLeader
  Txs = {0, 1}
  MaxNumber = 3
  MaxTime = 3
  MaxPeerBlocks = 1
  MaxRestarts = 1
  MaxSeals = 2
  ResultQueueSize = 1
SPECIFICATION CrashSpec
INVARIANT NoDoubleSign
