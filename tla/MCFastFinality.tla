-------------------------- MODULE MCFastFinality --------------------------
(* Small instances of FastFinality for TLC.                               *)
EXTENDS FastFinality, TLC

\* A short branch in turn and a longer one whose first two blocks are out of turn:
\* the total difficulties of their tips are equal.
MCBlocks == 0..5
MCParent == <<0, 1, 0, 3, 4>>
MCNumber == 0 :> 0 @@ <<1, 2, 1, 2, 3>>
MCTd     == 0 :> 0 @@ <<2, 4, 1, 2, 4>>
MCBranch == 0 :> {0} @@ <<{0, 1}, {0, 1, 2}, {0, 3}, {0, 3, 4}, {0, 3, 4, 5}>>

Symmetry == Permutations(Validators)
============================================================================
