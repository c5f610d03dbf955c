--------------------------- MODULE MCTwoBranches ---------------------------
(* Blocks, forks and amounts for SystemTxs.                                *)
EXTENDS Integers, TLC

\* Two blocks in turn, and a longer branch that becomes heavier with its last
\* block.  Blocks of one number have different times.
MCBlocks == 0..6
MCParent == <<0, 1, 0, 3, 4, 5>>
MCNumber == 0 :> 0 @@ <<1, 2, 1, 2, 3, 4>>
MCTd     == 0 :> 0 @@ <<2, 4, 1, 2, 3, 5>>
MCBranch == 0 :> {0} @@ <<{0, 1}, {0, 1, 2}, {0, 3}, {0, 3, 4}, {0, 3, 4, 5}, {0, 3, 4, 5, 6}>>
MCTime   == 0 :> 1 @@ <<2, 3, 3, 4, 5, 6>>
MCCoinbase  == <<1, 2, 3, 2, 3, 1>>
MCAttesters == <<{}, {1, 2}, {}, {1, 2, 3}, {1, 2}, {2, 3}>>

\* A block before and after every fork may have no fees.
MCFees == <<{7}, {0, 7}, {7}, {0, 7}, {0, 7}, {7}>>
NoFees == [b \in 1..6 |-> {0}]

MCInitContracts    == <<"validator", "slash">>
MCFeynmanContracts == <<"reward">>

Never == 99
NoForks == [dragon8 |-> Never, dragon8Fix |-> Never, pepper8 |-> Never, pipe8 |-> Never,
            plato |-> Never, feynman |-> Never]
\* Chiliz: Dragon8, then its fix with Pepper8, then Pipe8; or the fix at once.
Chiliz == [NoForks EXCEPT !.dragon8 = 3, !.dragon8Fix = 5, !.pepper8 = 5, !.pipe8 = 6]
Fixed  == [NoForks EXCEPT !.dragon8 = 1, !.dragon8Fix = 1]
\* BSC: rewards from genesis, Feynman with a new day right after it.
Bsc    == [NoForks EXCEPT !.plato = 0, !.feynman = 3]

AllSchedules  == {Chiliz, Fixed, Bsc}
FixedSchedule == {Fixed}

\* Supplies and amounts are scaled to small numbers.
MCInflationPct == [t \in 0..9 |-> 40 - 3 * t]
MCInflationData == <<[pct |-> 9, supply |-> 1000, amount |-> 45],
                     [pct |-> 7, supply |-> 1090, amount |-> 38],
                     [pct |-> 5, supply |-> 1166, amount |-> 29]>>

============================================================================
