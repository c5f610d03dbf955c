------------------------- MODULE MCCanonicalChain -------------------------
(* Small instances of CanonicalChain for TLC.                              *)
EXTENDS CanonicalChain, TLC

\* A branch of two blocks whose second one justifies the first, so that it beats
\* the longer branch 3-4-5; block 6 on it does not execute.  Both have the
\* transactions "a", at different numbers, and "b", at the same.
TreeBlocks == 0..6
TreeParent == <<0, 1, 0, 3, 4, 2>>
TreeNumber == 0 :> 0 @@ <<1, 2, 1, 2, 3, 3>>
TreeTd     == 0 :> 0 @@ <<2, 3, 1, 3, 5, 5>>
TreeBranch == 0 :> {0} @@ <<{0, 1}, {0, 1, 2}, {0, 3}, {0, 3, 4}, {0, 3, 4, 5}, {0, 1, 2, 6}>>
TreeJustified == 0 :> 0 @@ <<0, 1, 0, 0, 0, 1>>
TreeTxs    == 0 :> {} @@ <<{"a"}, {"b"}, {}, {"b"}, {"a"}, {}>>
TreeBatches == {s \in TreeBlocks \X TreeBlocks : s[1] # 0 /\ s[1] \in TreeBranch[s[2]]}

ASSUME TreeAdmitsTheorems == SidesFit
============================================================================
