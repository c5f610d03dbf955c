--------------------------- MODULE MCProduction ---------------------------
(***************************************************************************)
(* How a block is made: the loops and goroutines that seal it (Sealing)    *)
(* and the system transactions at its end, which all other nodes make      *)
(* again (SystemTxs).  A behaviour is about one of the two; the other      *)
(* keeps an initial state.                                                 *)
(***************************************************************************)
EXTENDS MCSealing, MCTwoBranches

CONSTANTS  \* of SystemTxs
  Blocks, Parent, Number, Branch, Td, LastNumber, Validators, Time, Coinbase, Attesters, Schedules,
  Fees, InitContracts, FeynmanContracts, RewardInterval, BreatheInterval, SystemRewardPercent,
  MaxSystemBalance, Pepper8Amount, Pipe8Amount, InflationPct, BlocksPerYear, YearInSecs, InflationData

VARIABLES
  part,
  forks, sealed, imported, canonical, rejected  \* SystemTxs

systemVars == <<forks, sealed, imported, canonical, rejected>>
allVars    == <<part, vars, systemVars>>

System == INSTANCE SystemTxs
  WITH MaxNumber <- LastNumber, known <- imported, head <- canonical

InitAll ==
  /\ Init /\ System!Init
  /\ \/ part = "sealing" /\ forks = Bsc
     \/ part = "system"

NextOfOne ==
  /\ \/ part = "sealing" /\ Next /\ UNCHANGED systemVars
     \/ part = "system" /\ System!Next /\ UNCHANGED vars
  /\ UNCHANGED part

SpecOfOne == InitAll /\ [][NextOfOne]_allVars /\ Fairness
----------------------------------------------------------------------------
\* AssembledIsAccepted: what FinalizeAndAssemble made, Finalize accepts and ends
\* in the same state; the one exception is a node whose canonical branch does not
\* have the block at which the sealer read the supply, by number.
AssembledIsAccepted == System!AssembledIsAccepted

\* NothingElseIsAccepted: Finalize does not accept a block from which a system
\* transaction is missing, except the slash, or in which one is repeated.
NothingElseIsAccepted == System!NothingElseIsAccepted

\* EverythingPassedOn: SystemAddress ends empty, no sealer keeps a part of fees or
\* mints, and the contracts gain exactly what was paid and minted.
EverythingPassedOn == System!EverythingPassedOn

\* RewardedOnce: distributeFinalityReward pays each vote along a branch exactly
\* once.
RewardedOnce == System!RewardedOnce
============================================================================
