-------------------------- MODULE BlockTreeProofs --------------------------
(***************************************************************************)
(* What the proofs about FastFinality and CanonicalChain need to know of   *)
(* every tree of blocks.                                                   *)
(***************************************************************************)
EXTENDS BlockTree, WellFoundedInduction, TLAPS

\* A set of natural numbers has a least element: the form of induction that
\* the proofs below use, with a least counterexample.
LEMMA LeastNumber ==
  ASSUME NEW S, S \subseteq Nat, S # {}
  PROVE  \E n \in S : \A m \in S : n <= m
<1> DEFINE R == OpToRel(<, Nat)
<1>1. \E n \in S : \A m \in S : ~(<<m, n>> \in R)
  BY WFMin, NatLessThanWellFounded, Zenon
<1>2. \A m, n \in S : m < n => <<m, n>> \in R
  BY DEF OpToRel
<1> HIDE DEF R
<1>3. PICK n \in S : \A m \in S : ~(<<m, n>> \in R)
  BY <1>1
<1>4. \A m \in S : ~(m < n)
  BY <1>2, <1>3
<1> QED
  BY <1>3, <1>4

\* The branch of a block is a chain of blocks from genesis to that block.
IsChain(b) ==
  /\ Branch[b] \subseteq Blocks /\ 0 \in Branch[b] /\ b \in Branch[b]
  /\ \A x \in Branch[b] : Number[x] <= Number[b] /\ Branch[x] \subseteq Branch[b]
  /\ \A x, y \in Branch[b] : Number[x] <= Number[y] => x \in Branch[y]
  /\ \A x, y \in Branch[b] : Number[x] = Number[y] => x = y

\* One more block makes a chain out of a chain.
LEMMA ChainStep ==
  ASSUME NEW b \in Blocks \ {0}, IsChain(Parent[b])
  PROVE  IsChain(b)
<1> DEFINE p == Parent[b]
<1>1. /\ p \in Blocks /\ Number[b] = Number[p] + 1 /\ Branch[b] = Branch[p] \cup {b}
      /\ Number[p] \in Int /\ Number[b] \in Int
  BY TreeAssumption
<1>2. \A x \in Branch[p] : Number[x] \in Int /\ Number[x] < Number[b]
  BY <1>1, TreeAssumption DEF IsChain
<1> QED
  BY <1>1, <1>2 DEF IsChain

\* Header numbers and parent hashes alone make every branch a chain.
LEMMA BranchIsChain == \A b \in Blocks : IsChain(b)
<1> DEFINE S == {Number[b] : b \in {c \in Blocks : ~IsChain(c)}}
<1> SUFFICES ASSUME S # {} PROVE FALSE
  OBVIOUS
<1>1. S \subseteq Nat
  BY TreeAssumption
<1>2. PICK n \in S : \A m \in S : n <= m
  BY <1>1, LeastNumber
<1>3. PICK b \in Blocks : ~IsChain(b) /\ Number[b] = n
  BY <1>2
<1>4. b # 0
  BY <1>3, TreeAssumption DEF IsChain
<1>5. /\ Parent[b] \in Blocks /\ Number[b] = Number[Parent[b]] + 1
      /\ Number[Parent[b]] \in Nat
  BY <1>4, TreeAssumption
<1>6. IsChain(Parent[b])
  <2> SUFFICES ASSUME ~IsChain(Parent[b]) PROVE FALSE
    OBVIOUS
  <2>1. Number[Parent[b]] \in S
    BY <1>5
  <2> HIDE DEF S
  <2> QED
    BY <1>2, <1>3, <1>5, <2>1
<1> QED
  BY <1>3, <1>4, <1>6, ChainStep
============================================================================
