----------------------------- MODULE BlockTree -----------------------------
(***************************************************************************)
(* The blocks that validators can seal, as a fixed tree: a block is a      *)
(* number, 0 is genesis, and a header names its parent by hash.  The fork  *)
(* choice by total difficulty (core/forkchoice.go) is about two of them.   *)
(***************************************************************************)
EXTENDS Integers, FiniteSets

CONSTANTS
  Blocks,        \* the blocks that can be sealed, and genesis, which is 0
  Parent,        \* the parent of each block but genesis
  Number,        \* the number of each block
  Branch,        \* each block and its ancestors
  Td,            \* the total difficulty of each block
  MaxNumber      \* bound: the highest block number

\* A block has the next number; it is in turn (difficulty 2) or not (1).
ASSUME TreeAssumption ==
  /\ MaxNumber \in Nat
  /\ 0 \in Blocks /\ Number \in [Blocks -> 0..MaxNumber] /\ Td \in [Blocks -> Nat]
  /\ Number[0] = 0 /\ Branch[0] = {0} /\ Td[0] = 0
  /\ \A b \in Blocks \ {0} :
       /\ Parent[b] \in Blocks
       /\ Number[b] = Number[Parent[b]] + 1
       /\ Branch[b] = Branch[Parent[b]] \cup {b}
       /\ Td[b] - Td[Parent[b]] \in {1, 2}

\* ReorgNeeded: the answers that times, sealers, hashes and chance may give.
ReorgNeeded(cur, b) ==
  IF Td[b] # Td[cur] THEN {Td[b] > Td[cur]}
  ELSE IF Number[b] # Number[cur] THEN {Number[b] < Number[cur]}
  ELSE BOOLEAN
============================================================================
