---------------------------- MODULE MCVotePool ----------------------------
(* Small instances of VotePool for TLC.                                   *)
EXTENDS VotePool

Block(n, f) == [number |-> n, fork |-> f]
Vote(n, f, voter) == [block |-> Block(n, f), number |-> n, voter |-> voter]

\* A branch of two blocks, and a competing first block that may never come.
Fork == {Block(1, 1), Block(2, 1), Block(1, 2)}
ForkVotes ==
  {Vote(1, 1, 1), Vote(2, 1, 1), Vote(1, 2, 1), Vote(1, 2, 2), [Vote(1, 2, 1) EXCEPT !.number = 2]}
============================================================================
