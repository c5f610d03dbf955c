------------------------ MODULE FastFinalityProofs ------------------------
(***************************************************************************)
(* Proofs about FastFinality for every set of validators, every tree of    *)
(* blocks and any number of restarts.                                      *)
(***************************************************************************)
EXTENDS FastFinality, BlockTreeProofs, FiniteSetTheorems, TLAPS

\* Two quorums of CeilDiv(2n, 3) of n validators have a member in common.
LEMMA QuorumsIntersect ==
  ASSUME NEW b, NEW c, HasQuorum(b), HasQuorum(c)
  PROVE  \E v \in Validators : b \in votes[v] /\ c \in votes[v]
<1> DEFINE n == Cardinality(Validators)
<1>1. n \in Nat /\ n # 0
  BY FinalityAssumption, FS_CardinalityType, FS_EmptySet
<1>2. /\ Voters(b) \subseteq Validators /\ Voters(c) \subseteq Validators
      /\ Cardinality(Voters(b)) \in Nat /\ Cardinality(Voters(c)) \in Nat
  BY FinalityAssumption, FS_Subset, FS_CardinalityType DEF Voters
<1> HIDE DEF n
<1>3. Cardinality(Voters(b)) >= (n * 2 + 2) \div 3 /\ Cardinality(Voters(c)) >= (n * 2 + 2) \div 3
  BY <1>1 DEF HasQuorum, CeilDiv, n
<1>4. Cardinality(Voters(b)) + Cardinality(Voters(c)) > n
  BY <1>1, <1>2, <1>3
<1>5. Voters(b) \cap Voters(c) # {}
  BY <1>2, <1>4, FinalityAssumption, FS_MajoritiesIntersect DEF n
<1> QED
  BY <1>5 DEF Voters

----------------------------------------------------------------------------
(* The inductive invariant.                                                *)

TypeInv ==
  /\ 0 \in Sealed /\ Sealed \subseteq Blocks
  /\ tree \in [Sealed -> [attested : Blocks, justified : Blocks, finalized : Blocks]]
  /\ votes \in [Validators -> SUBSET Sealed]
  /\ head \in [Validators -> Sealed]

\* A block is justified by a quorum of votes, or it is genesis.
Supported(b) == b = 0 \/ HasQuorum(b)

\* The votes for t finalize f.
Link(f, t) == HasQuorum(t) /\ Justified(t) = f /\ Number[t] = Number[f] + 1

Final(f) == f = 0 \/ \E t \in Sealed : Link(f, t)

\* What the snapshot of a block says is backed by votes.
BlockInv(b) ==
  /\ Branch[b] \subseteq Sealed
  /\ Justified(b) \in Branch[b] /\ tree[b].finalized \in Branch[b]
  /\ b # 0 => Number[Justified(b)] < Number[b]
  /\ Number[tree[b].finalized] <= Number[Justified(b)]
  /\ Supported(Justified(b)) /\ Final(tree[b].finalized)

\* No two votes of a validator conflict.
VotesInv == \A v \in Validators : \A b, c \in votes[v] : ~Rules!Conflict(VoteFor(b), VoteFor(c))

Inv == TypeInv /\ (\A b \in Sealed : BlockInv(b)) /\ VotesInv

\* No block with a quorum of votes is further than the slash scope above the
\* source of those votes.  UnderRules looks no further, so the theorems about
\* finalized blocks take this as a hypothesis; the length of the chain is free.
InScope == \A b \in Sealed : HasQuorum(b) => Number[b] <= Number[Justified(b)] + Scope

\* Types of the numbers that the proofs compare.
LEMMA Numbers ==
  ASSUME TypeInv, NEW b \in Sealed
  PROVE  /\ Number[b] \in Nat
         /\ Justified(b) \in Blocks /\ Number[Justified(b)] \in Nat
         /\ tree[b].finalized \in Blocks /\ Number[tree[b].finalized] \in Nat
BY TreeAssumption DEF TypeInv, Justified

\* Only genesis has number 0.
LEMMA GenesisNumber ==
  ASSUME NEW b \in Blocks, Number[b] = 0
  PROVE  b = 0
<1>1. ASSUME b # 0 PROVE FALSE
  <2>1. Number[b] = Number[Parent[b]] + 1 /\ Number[Parent[b]] \in Nat
    BY <1>1, TreeAssumption
  <2> QED
    BY <2>1
<1> QED
  BY <1>1

\* Rule 1: two blocks of one number cannot both gather a quorum.
LEMMA OnePerHeight ==
  ASSUME Inv, NEW b \in Sealed, NEW c \in Sealed, HasQuorum(b), HasQuorum(c), Number[b] = Number[c]
  PROVE  b = c
<1>1. PICK v \in Validators : b \in votes[v] /\ c \in votes[v]
  BY QuorumsIntersect
<1>2. ~Rules!SameHeight(VoteFor(b), VoteFor(c))
  BY <1>1 DEF Inv, VotesInv, Rules!Conflict
<1> QED
  BY <1>2 DEF Rules!SameHeight, VoteFor

\* Rule 2: a quorum for a higher block starts from no lower source.
LEMMA NoSpan ==
  ASSUME Inv, InScope, NEW t \in Sealed, NEW c \in Sealed, HasQuorum(t), HasQuorum(c), Number[t] < Number[c]
  PROVE  Number[Justified(t)] <= Number[Justified(c)]
<1>1. PICK v \in Validators : t \in votes[v] /\ c \in votes[v]
  BY QuorumsIntersect
<1>2. ~Rules!Spans(VoteFor(c), VoteFor(t))
  BY <1>1 DEF Inv, VotesInv, Rules!Conflict
<1>3. /\ Number[t] \in Nat /\ Number[c] \in Nat /\ Scope \in Nat
      /\ Number[Justified(t)] \in Nat /\ Number[Justified(c)] \in Nat
  BY Numbers, FinalityAssumption DEF Inv
<1>4. Number[Justified(t)] <= Number[t]
  <2>1. CASE t = 0
    BY <2>1, TreeAssumption, Numbers, GenesisNumber DEF Inv, BlockInv
  <2> QED
    BY <1>3, <2>1 DEF Inv, BlockInv
<1>5. Number[c] <= Number[Justified(c)] + Scope
  BY DEF InScope
<1> QED
  BY <1>2, <1>3, <1>4, <1>5 DEF Rules!Spans, VoteFor

\* The heart of the argument: a block that votes finalize is an ancestor of
\* every supported block that is not below it.
LEMMA FinalIsAncestor ==
  ASSUME Inv, InScope, NEW f \in Sealed, Final(f), NEW c \in Sealed, Supported(c), Number[f] <= Number[c]
  PROVE  f \in Branch[c]
<1>0. CASE f = 0
  BY <1>0, BranchIsChain DEF IsChain, Inv, TypeInv
<1>1. CASE f # 0
  <2>1. PICK t \in Sealed : Link(f, t)
    BY <1>1 DEF Final
  <2>2. f \in Branch[t] /\ HasQuorum(f)
    BY <1>1, <2>1 DEF Inv, BlockInv, Link, Supported
  <2> DEFINE S == {Number[d] : d \in {e \in Sealed : Supported(e) /\ Number[f] <= Number[e] /\ f \notin Branch[e]}}
  <2> SUFFICES ASSUME S # {} PROVE FALSE
    OBVIOUS
  <2>3. S \subseteq Nat
    BY Numbers DEF Inv
  <2>4. PICK n \in S : \A m \in S : n <= m
    BY <2>3, LeastNumber
  <2>5. PICK d \in Sealed : Supported(d) /\ Number[f] <= Number[d] /\ f \notin Branch[d] /\ Number[d] = n
    BY <2>4
  <2>6. /\ Number[f] \in Nat /\ Number[d] \in Nat /\ Number[t] \in Nat /\ Number[t] = Number[f] + 1
        /\ f \in Blocks /\ d \in Blocks
    BY <2>1, Numbers DEF Inv, TypeInv, Link
  <2>7. HasQuorum(d)
    <3>1. Number[f] # 0
      BY <1>1, <2>6, GenesisNumber
    <3>2. d # 0
      BY <2>5, <2>6, <3>1, TreeAssumption
    <3> QED
      BY <2>5, <3>2 DEF Supported
  <2>8. Number[d] > Number[t]
    <3>1. Number[d] # Number[f]
      BY <2>2, <2>5, <2>7, OnePerHeight, BranchIsChain, <2>6 DEF IsChain
    <3>2. Number[d] # Number[t]
      BY <2>1, <2>2, <2>5, <2>7, OnePerHeight DEF Link
    <3> QED
      BY <2>5, <2>6, <3>1, <3>2
  <2> DEFINE j == Justified(d)
  <2>9. Number[f] <= Number[j]
    BY <2>1, <2>7, <2>8, NoSpan DEF Link
  <2>10. /\ j \in Branch[d] /\ j \in Sealed /\ Supported(j) /\ Number[j] < Number[d] /\ Number[j] \in Nat
    <3>1. d # 0
      BY <2>6, <2>8, TreeAssumption
    <3> QED
      BY <3>1, Numbers DEF Inv, BlockInv
  <2>11. f \notin Branch[j]
    BY <2>5, <2>6, <2>10, BranchIsChain DEF IsChain
  <2>12. Number[j] \in S
    BY <2>9, <2>10, <2>11
  <2> HIDE DEF S, j
  <2> QED
    BY <2>4, <2>5, <2>6, <2>10, <2>12
<1> QED
  BY <1>0, <1>1

----------------------------------------------------------------------------
(* Every step preserves the invariant.                                     *)

\* The invariant holds when only genesis is known.
LEMMA InitInv == Init => Inv
<1> SUFFICES ASSUME Init PROVE Inv
  OBVIOUS
<1>1. TypeInv
  BY TreeAssumption DEF Init, TypeInv, Sealed
<1>2. VotesInv
  BY DEF Init, VotesInv
<1>3. \A b \in Sealed : BlockInv(b)
  BY TreeAssumption DEF Init, Sealed, BlockInv, Justified, Supported, Final
<1> QED
  BY <1>1, <1>2, <1>3 DEF Inv

\* A quorum stays one when votes are added.
LEMMA QuorumStays ==
  ASSUME \A v \in Validators : votes[v] \subseteq votes'[v], NEW b, HasQuorum(b)
  PROVE  HasQuorum(b)'
<1> DEFINE W == {v \in Validators : b \in votes'[v]}
<1>1. Voters(b) \in SUBSET W /\ W \subseteq Validators
  BY DEF Voters
<1>2. IsFiniteSet(W) /\ Cardinality(Voters(b)) \in Nat /\ Cardinality(W) \in Nat
  BY <1>1, FinalityAssumption, FS_Subset, FS_CardinalityType
<1> HIDE DEF W
<1>3. Cardinality(Voters(b)) <= Cardinality(W)
  BY <1>1, <1>2, FS_Subset
<1>4. Cardinality(W) >= CeilDiv(Cardinality(Validators) * 2, 3)
  <2>1. Cardinality(Validators) \in Nat
    BY FinalityAssumption, FS_CardinalityType
  <2>2. CeilDiv(Cardinality(Validators) * 2, 3) \in Int
    BY <2>1 DEF CeilDiv
  <2> QED
    BY <1>2, <1>3, <2>2 DEF HasQuorum
<1> QED
  BY <1>4 DEF HasQuorum, Voters, W

\* What is known of a block stays true while blocks and votes are added.
LEMMA BlockStays ==
  ASSUME TypeInv, NEW b \in Sealed, BlockInv(b), Sealed \subseteq Sealed',
         \A x \in Sealed : tree'[x] = tree[x],
         \A v \in Validators : votes[v] \subseteq votes'[v]
  PROVE  BlockInv(b)'
<1>1. \A x : HasQuorum(x) => HasQuorum(x)'
  BY QuorumStays
<1>2. \A x \in Sealed : Justified(x)' = Justified(x)
  BY DEF Justified
<1>3. Supported(Justified(b))'
  BY <1>1, <1>2 DEF BlockInv, Supported
<1>4. Final(tree[b].finalized)'
  BY <1>1, <1>2 DEF BlockInv, Final, Link
<1> QED
  BY <1>2, <1>3, <1>4 DEF BlockInv

\* Sealing a block keeps the invariant: the assembled attestation is backed
\* by a quorum, and a justified parent with a justified child is a link.
LEMMA SealInv ==
  ASSUME Inv, NEW v \in Validators, NEW b \in Blocks, NEW t \in Blocks, Seal(v, b, t)
  PROVE  Inv'
<1>0. PICK p, j, f, s :
        /\ p = head[v] /\ j = Justified(p) /\ f = tree[p].finalized /\ s = UpdateAttestation(p, t)
  OBVIOUS
<1>1. /\ p \in Sealed /\ p \in Blocks /\ b # 0 /\ b \notin Sealed /\ Parent[b] = p
      /\ Number[b] = Number[p] + 1 /\ Branch[b] = Branch[p] \cup {b}
  BY <1>0, TreeAssumption DEF Inv, TypeInv, Seal
<1>2. /\ Sealed' = Sealed \cup {b} /\ tree'[b] = s /\ \A x \in Sealed : tree'[x] = tree[x]
      /\ votes' = votes /\ head' = head
  BY <1>0, <1>1 DEF Seal, Sealed
<1>3. BlockInv(p) /\ IsChain(p) /\ Number[p] \in Nat /\ Number[j] \in Nat
  BY <1>0, <1>1, BranchIsChain, Numbers DEF Inv
<1>4. s \in [attested : Blocks, justified : Blocks, finalized : Blocks]
  BY <1>0, <1>1, Numbers, TreeAssumption DEF Inv, UpdateAttestation
<1>5. TypeInv'
  BY <1>1, <1>2, <1>4 DEF Inv, TypeInv, Seal, Sealed
<1>6. VotesInv'
  <2>1. \A x \in Sealed : VoteFor(x)' = VoteFor(x)
    BY <1>2 DEF VoteFor, Justified
  <2> QED
    BY <1>2, <2>1 DEF Inv, TypeInv, VotesInv, Rules!Conflict, Rules!SameHeight, Rules!Spans
<1>7. \A x \in Sealed : BlockInv(x)'
  BY <1>2, BlockStays DEF Inv
<1>8. BlockInv(b)'
  <2>1. /\ Branch[b] \subseteq Sealed' /\ Number[b] \in Nat
        /\ \A x : HasQuorum(x) => HasQuorum(x)'
        /\ \A x \in Sealed : Justified(x)' = Justified(x)
    BY <1>0, <1>1, <1>2, <1>3, QuorumStays DEF BlockInv, Justified
  <2>2. CASE t = 0
    <3>1. s = [attested |-> 0, justified |-> j, finalized |-> f]
      BY <1>0, <2>2 DEF UpdateAttestation
    <3>2. Number[j] <= Number[p]
      BY <1>0, <1>3 DEF BlockInv, IsChain
    <3>3. Supported(j)' /\ Final(f)'
      BY <1>0, <1>3, <2>1, <1>2 DEF BlockInv, Supported, Final, Link
    <3> QED
      BY <1>0, <1>1, <1>2, <1>3, <2>1, <3>1, <3>2, <3>3 DEF BlockInv, Justified
  <2>3. CASE t # 0
    <3>1. /\ t \in Branch[p] /\ t \in Sealed /\ HasQuorum(t) /\ Number[t] > Number[j]
          /\ Number[Justified(t)] = Number[j]
      BY <1>0, <1>1, <1>3, <2>3 DEF Seal, AssembleVoteAttestation, Reach, BlockInv
    <3>2. Justified(t) = j
      <4>1. Justified(t) \in Branch[p]
        BY <1>0, <1>3, <3>1 DEF Inv, BlockInv, IsChain
      <4> QED
        BY <1>0, <1>3, <3>1, <4>1 DEF BlockInv, IsChain
    <3>3. Number[t] \in Nat /\ Number[t] < Number[b] /\ Number[f] \in Nat
      BY <1>0, <1>1, <1>3, <3>1, Numbers DEF IsChain, Inv
    <3>4. Supported(t)'
      BY <2>1, <3>1 DEF Supported
    <3>5. CASE Number[t] = Number[j] + 1
      <4>1. s = [attested |-> t, justified |-> t, finalized |-> j]
        BY <1>0, <2>3, <3>5 DEF UpdateAttestation
      <4>2. Link(j, t)'
        BY <2>1, <3>1, <3>2, <3>5 DEF Link
      <4>3. Final(j)'
        BY <1>2, <3>1, <4>2 DEF Final
      <4> QED
        BY <1>0, <1>1, <1>2, <1>3, <2>1, <3>1, <3>3, <3>4, <3>5, <4>1, <4>3 DEF BlockInv, Justified
    <3>6. CASE Number[t] # Number[j] + 1
      <4>1. s = [attested |-> t, justified |-> t, finalized |-> f]
        BY <1>0, <2>3, <3>6 DEF UpdateAttestation
      <4>2. Final(f)'
        BY <1>0, <1>2, <1>3, <2>1 DEF BlockInv, Final, Link
      <4> QED
        BY <1>0, <1>1, <1>2, <1>3, <2>1, <3>1, <3>3, <3>4, <4>1, <4>2 DEF BlockInv, Justified
    <3> QED
      BY <3>5, <3>6
  <2> QED
    BY <2>2, <2>3
<1> QED
  BY <1>2, <1>5, <1>6, <1>7, <1>8 DEF Inv

\* Conflicts are symmetric and no vote conflicts with itself.
LEMMA ConflictSymmetric ==
  ASSUME NEW x, NEW y, x.target \in Int, y.target \in Int
  PROVE  /\ Rules!Conflict(x, y) => Rules!Conflict(y, x)
         /\ ~Rules!Conflict(x, x)
BY DEF Rules!Conflict, Rules!SameHeight, Rules!Spans

\* Taking a new head, with a vote under the rules or none, keeps it.
LEMMA AdoptInv ==
  ASSUME Inv, NEW v \in Validators, NEW b \in Blocks, NEW inTime \in BOOLEAN, Adopt(v, b, inTime)
  PROVE  Inv'
<1>1. /\ b \in Sealed /\ tree' = tree /\ Sealed' = Sealed
  BY DEF Adopt, Sealed
<1>2. \/ votes' = votes
      \/ votes' = [votes EXCEPT ![v] = @ \cup {b}] /\ UnderRules(v, b)
  BY DEF Adopt
<1>3. TypeInv'
  BY <1>1, <1>2 DEF Inv, TypeInv, Adopt
<1>4. \A w \in Validators : votes[w] \subseteq votes'[w]
  BY <1>2 DEF Inv, TypeInv
<1>5. \A x \in Sealed' : BlockInv(x)'
  BY <1>1, <1>4, BlockStays DEF Inv
<1>6. VotesInv'
  <2>1. \A x : VoteFor(x)' = VoteFor(x)
    BY <1>1 DEF VoteFor, Justified
  <2>2. SUFFICES ASSUME NEW w \in Validators, NEW x \in votes'[w], NEW y \in votes'[w]
                 PROVE  ~Rules!Conflict(VoteFor(x), VoteFor(y))
    BY <2>1 DEF VotesInv, Rules!Conflict, Rules!SameHeight, Rules!Spans
  <2>3. CASE x \in votes[w] /\ y \in votes[w]
    BY <2>3 DEF Inv, VotesInv
  <2>4. CASE ~(x \in votes[w] /\ y \in votes[w])
    <3>1. /\ w = v /\ UnderRules(v, b) /\ x \in votes[v] \cup {b} /\ y \in votes[v] \cup {b}
          /\ x \in Sealed /\ y \in Sealed
      BY <1>1, <1>2, <2>4 DEF Inv, TypeInv
    <3>2. VoteFor(x).target \in Int /\ VoteFor(y).target \in Int
      BY <3>1, Numbers DEF VoteFor, Inv
    <3>3. \A z \in votes[v] : ~Rules!Conflict(VoteFor(b), VoteFor(z))
      BY <3>1 DEF UnderRules
    <3>4. CASE x = b /\ y = b
      BY <3>2, <3>4, ConflictSymmetric
    <3>5. CASE x = b /\ y \in votes[v]
      BY <3>3, <3>5
    <3>6. CASE x \in votes[v] /\ y = b
      BY <3>2, <3>3, <3>6, ConflictSymmetric
    <3> QED
      BY <2>4, <3>1, <3>4, <3>5, <3>6
  <2> QED
    BY <2>3, <2>4
<1> QED
  BY <1>3, <1>5, <1>6 DEF Inv

\* A step that leaves blocks and votes alone keeps the invariant.
LEMMA HeadsOnly ==
  ASSUME Inv, tree' = tree, votes' = votes, head' \in [Validators -> Sealed]
  PROVE  Inv'
<1>1. Sealed' = Sealed
  BY DEF Sealed
<1>2. TypeInv'
  BY <1>1 DEF Inv, TypeInv
<1>3. \A x \in Sealed' : BlockInv(x)'
  BY <1>1, BlockStays DEF Inv
<1>4. VotesInv'
  BY DEF Inv, VotesInv, VoteFor, Justified, Rules!Conflict, Rules!SameHeight, Rules!Spans
<1> QED
  BY <1>2, <1>3, <1>4 DEF Inv

\* A restart that loses blocks keeps it: the journal of votes survives.
LEMMA RestartInv ==
  ASSUME Inv, NEW v \in Validators, NEW b \in Blocks, Restart(v, b)
  PROVE  Inv'
<1>1. b \in Sealed
  BY DEF Restart, Inv, TypeInv, BlockInv
<1> QED
  BY <1>1, HeadsOnly DEF Restart, Inv, TypeInv

\* A step that changes nothing keeps it.
LEMMA StutterInv == Inv /\ UNCHANGED vars => Inv'
BY HeadsOnly DEF vars, Inv, TypeInv

\* Every step keeps the invariant.
LEMMA StepInv == Inv /\ [Next]_vars => Inv'
<1> SUFFICES ASSUME Inv, [Next]_vars PROVE Inv'
  OBVIOUS
<1>1. CASE UNCHANGED vars
  BY <1>1, StutterInv
<1>2. ASSUME NEW v \in Validators, NEW b \in Blocks, \E t \in Blocks : Seal(v, b, t)
      PROVE  Inv'
  BY <1>2, SealInv
<1>3. ASSUME NEW v \in Validators, NEW b \in Blocks, \E inTime \in BOOLEAN : Adopt(v, b, inTime)
      PROVE  Inv'
  BY <1>3, AdoptInv
<1>4. ASSUME NEW v \in Validators, NEW b \in Blocks, Restart(v, b)
      PROVE  Inv'
  BY <1>4, RestartInv
<1> QED
  BY <1>1, <1>2, <1>3, <1>4 DEF Next

\* The invariant holds for ever.
LEMMA AlwaysInv == Spec => []Inv
BY InitInv, StepInv, PTL DEF Spec

----------------------------------------------------------------------------
(* What follows for finalized blocks.                                      *)

\* What GetFinalizedHeader answers is backed by votes, from headers or early.
LEMMA AnswerIsFinal ==
  ASSUME Inv, NEW b \in Sealed
  PROVE  LET x == GetFinalizedHeader(b)
         IN  /\ Final(x) /\ Supported(x) /\ x \in Sealed /\ x \in Branch[b] /\ x \in Blocks
             /\ Number[x] <= Number[Justified(b)] /\ Number[x] \in Nat
<1>1. BlockInv(b) /\ Number[b] \in Nat /\ Number[Justified(b)] \in Nat /\ Number[tree[b].finalized] \in Nat
  BY Numbers DEF Inv
<1>2. CASE Number[Justified(b)] = Number[b] - 1 /\ HasQuorum(b)
  <2>1. Link(Justified(b), b)
    BY <1>1, <1>2 DEF Link
  <2> QED
    BY <1>1, <1>2, <2>1 DEF GetFinalizedHeader, BlockInv, Final, Inv, TypeInv
<1>3. CASE ~(Number[Justified(b)] = Number[b] - 1 /\ HasQuorum(b))
  <2> DEFINE f == tree[b].finalized
  <2>1. GetFinalizedHeader(b) = f
    BY <1>3 DEF GetFinalizedHeader
  <2>2. Supported(f)
    <3>1. CASE f = 0
      BY <3>1 DEF Supported
    <3>2. CASE f # 0
      BY <1>1, <3>2 DEF BlockInv, Final, Link, Inv
    <3> QED
      BY <3>1, <3>2
  <2> QED
    BY <1>1, <2>1, <2>2 DEF BlockInv, Inv, TypeInv
<1> QED
  BY <1>2, <1>3

\* The answer is a sealed block.
LEMMA AnswerSealed == Inv => \A b \in Sealed : GetFinalizedHeader(b) \in Sealed
BY AnswerIsFinal

\* The invariant makes any two answers agree.
LEMMA InvAgree == Inv /\ InScope => FinalizedAgree
<1> SUFFICES ASSUME Inv, InScope, NEW b \in Sealed, NEW c \in Sealed
             PROVE  LET x == GetFinalizedHeader(b)
                        y == GetFinalizedHeader(c)
                    IN  x \in Branch[y] \/ y \in Branch[x]
  BY DEF FinalizedAgree
<1> QED
  BY AnswerIsFinal, FinalIsAncestor

\* FinalityIsSafe: any two blocks that GetFinalizedHeader calls final, for any
\* nodes and at any time, are on one branch: the quorum rule, rules 1 and 2 of
\* the votes and the choice of sources make finality agree, on chains of any
\* length, as long as attested blocks are within the slash scope of their source.
THEOREM FinalityIsSafe == Spec /\ []InScope => []FinalizedAgree
BY InvAgree, AlwaysInv, PTL

\* Blocks and votes are only added.
LEMMA OnlyAdded ==
  ASSUME Inv, [Next]_vars
  PROVE  /\ Sealed \subseteq Sealed' /\ \A x \in Sealed : tree'[x] = tree[x]
         /\ \A v \in Validators : votes[v] \subseteq votes'[v]
<1>1. CASE UNCHANGED vars
  BY <1>1 DEF vars, Sealed
<1>2. ASSUME NEW v \in Validators, NEW b \in Blocks, NEW t \in Blocks, Seal(v, b, t)
      PROVE  /\ Sealed \subseteq Sealed' /\ (\A x \in Sealed : tree'[x] = tree[x]) /\ votes' = votes
  BY <1>2 DEF Seal, Sealed
<1>3. ASSUME NEW v \in Validators, NEW b \in Blocks, NEW inTime \in BOOLEAN, Adopt(v, b, inTime)
      PROVE  tree' = tree /\ \A w \in Validators : votes[w] \subseteq votes'[w]
  BY <1>3 DEF Adopt, Inv, TypeInv
<1>4. ASSUME NEW v \in Validators, NEW b \in Blocks, Restart(v, b)
      PROVE  tree' = tree /\ votes' = votes
  BY <1>4 DEF Restart
<1> QED
  BY <1>1, <1>2, <1>3, <1>4 DEF Next, Sealed

\* The answer for a block only moves up its branch.
LEMMA AnswerGrows ==
  ASSUME Inv, [Next]_vars, NEW b \in Sealed
  PROVE  GetFinalizedHeader(b) \in Branch[GetFinalizedHeader(b)']
<1>1. tree'[b] = tree[b] /\ (HasQuorum(b) => HasQuorum(b)')
  BY OnlyAdded, QuorumStays
<1>2. /\ GetFinalizedHeader(b) \in {Justified(b), tree[b].finalized}
      /\ GetFinalizedHeader(b)' \in {Justified(b), tree[b].finalized}
      /\ GetFinalizedHeader(b) = Justified(b) => GetFinalizedHeader(b)' = Justified(b) \/ Justified(b) = tree[b].finalized
  BY <1>1 DEF GetFinalizedHeader, Justified
<1>3. /\ Justified(b) \in Branch[b] /\ tree[b].finalized \in Branch[b]
      /\ Number[tree[b].finalized] <= Number[Justified(b)] /\ IsChain(b)
      /\ IsChain(Justified(b)) /\ IsChain(tree[b].finalized)
  BY BranchIsChain, Numbers DEF Inv, TypeInv, BlockInv
<1>4. tree[b].finalized \in Branch[Justified(b)]
  BY <1>3 DEF IsChain
<1> QED
  BY <1>2, <1>3, <1>4 DEF IsChain

\* NoReorgOfFinal: a running node never leaves the branch of a block that
\* GetFinalizedHeader called final for its head, although the fork choice
\* compares nothing but justified numbers and total difficulties; as long as
\* attested blocks are within the slash scope of their source.
THEOREM NoReorgOfFinal == Spec /\ []InScope => HeadKeepsFinalized
<1>1. ASSUME Inv, InScope, [Next]_vars, restarts' = restarts, NEW v \in Validators
      PROVE  GetFinalizedHeader(head[v]) \in Branch[head'[v]]
  <2> DEFINE x == GetFinalizedHeader(head[v])
  <2>1. /\ head[v] \in Sealed /\ x \in Branch[head[v]] /\ x \in Sealed /\ Final(x) /\ Number[x] \in Nat
        /\ Number[x] <= Number[Justified(head[v])] /\ Number[Justified(head[v])] \in Nat
    BY <1>1, AnswerIsFinal, Numbers DEF Inv, TypeInv
  <2>2. CASE head'[v] = head[v]
    BY <2>1, <2>2
  <2>3. ASSUME NEW b \in Blocks, NEW inTime \in BOOLEAN, Adopt(v, b, inTime)
        PROVE  x \in Branch[b]
    <3>1. /\ b \in Sealed /\ Number[Justified(b)] \in Nat /\ Number[Justified(b)] >= Number[Justified(head[v])]
      <4>1. b \in Sealed /\ TRUE \in ReorgNeededWithFastFinality(head[v], b)
        BY <2>3 DEF Adopt
      <4>2. Number[Justified(b)] \in Nat
        BY <1>1, <4>1, Numbers DEF Inv
      <4>3. CASE Number[Justified(b)] # Number[Justified(head[v])]
        <5>1. TRUE \in {Number[Justified(b)] > Number[Justified(head[v])]}
          BY <4>1, <4>3 DEF ReorgNeededWithFastFinality
        <5>2. Number[Justified(b)] > Number[Justified(head[v])]
          BY <5>1, Zenon
        <5> QED
          BY <2>1, <4>1, <4>2, <5>2
      <4> QED
        BY <2>1, <4>1, <4>2, <4>3
    <3>2. Justified(b) \in Branch[b] /\ Justified(b) \in Sealed /\ Supported(Justified(b)) /\ IsChain(b)
      BY <1>1, <3>1, BranchIsChain DEF Inv, TypeInv, BlockInv
    <3> HIDE DEF x
    <3>3. x \in Branch[Justified(b)]
      BY <1>1, <2>1, <3>1, <3>2, FinalIsAncestor
    <3> QED
      BY <3>2, <3>3 DEF IsChain
  <2>4. \/ head'[v] = head[v]
        \/ \E b \in Blocks, inTime \in BOOLEAN : head'[v] = b /\ Adopt(v, b, inTime)
    <3>1. CASE UNCHANGED vars
      BY <3>1 DEF vars
    <3>2. ASSUME NEW w \in Validators, NEW b \in Blocks, NEW t \in Blocks, Seal(w, b, t)
          PROVE  head' = head
      BY <3>2 DEF Seal
    <3>3. ASSUME NEW w \in Validators, NEW b \in Blocks, NEW inTime \in BOOLEAN, Adopt(w, b, inTime)
          PROVE  head'[v] = head[v] \/ (w = v /\ head'[v] = b)
      BY <1>1, <3>3 DEF Adopt, Inv, TypeInv
    <3>4. ASSUME NEW w \in Validators, NEW b \in Blocks, Restart(w, b)
          PROVE  FALSE
      <4>1. restarts' = restarts + 1 /\ restarts < MaxRestart
        BY <3>4 DEF Restart
      <4> QED
        BY <1>1, <4>1
    <3> QED
      BY <1>1, <3>1, <3>2, <3>3, <3>4 DEF Next
  <2> QED
    BY <2>2, <2>3, <2>4
<1>2. Inv /\ InScope /\ [Next]_vars => [restarts' = restarts =>
                               \A v \in Validators : GetFinalizedHeader(head[v]) \in Branch[head'[v]]]_vars
  BY <1>1
<1> QED
  BY <1>2, AlwaysInv, PTL DEF Spec, HeadKeepsFinalized

\* An attestation that a node accepts stays acceptable.
LEMMA AcceptedStays ==
  ASSUME Inv, [Next]_vars, NEW b \in Sealed, b # 0, VerifyVoteAttestation(b)
  PROVE  VerifyVoteAttestation(b)'
<1>1. PICK p, t, j : p = Parent[b] /\ t = tree[b].attested /\ j = Justified(p)
  OBVIOUS
<1>2. CASE t = 0
  BY <1>1, <1>2, OnlyAdded DEF VerifyVoteAttestation
<1>3. CASE t # 0
  <2>1. /\ t \in Reach(p, Number[b]) /\ Number[j] < Number[t] /\ Justified(t) = j /\ HasQuorum(t)
    BY <1>1, <1>3 DEF VerifyVoteAttestation
  <2>2. p \in Sealed /\ t \in Sealed
    <3>1. Branch[b] \subseteq Sealed /\ Branch[b] = Branch[p] \cup {b} /\ p \in Blocks
      BY <1>1, TreeAssumption DEF Inv, TypeInv, BlockInv
    <3> QED
      BY <2>1, <3>1, BranchIsChain DEF Reach, IsChain
  <2>3. Justified(t)' = j /\ Justified(p)' = j /\ tree'[b].attested = t
    BY <1>1, <2>1, <2>2, OnlyAdded DEF Justified
  <2>4. HasQuorum(t)'
    BY <2>1, OnlyAdded, QuorumStays
  <2> QED
    BY <1>1, <2>1, <2>3, <2>4 DEF VerifyVoteAttestation
<1> QED
  BY <1>2, <1>3

\* What assembleVoteAttestation puts into a new block is acceptable.
LEMMA SealAccepted ==
  ASSUME Inv, NEW v \in Validators, NEW b \in Blocks, NEW t \in Blocks, Seal(v, b, t)
  PROVE  VerifyVoteAttestation(b)'
<1>1. PICK p, j : p = head[v] /\ j = Justified(p)
  OBVIOUS
<1>2. /\ p \in Sealed /\ b # p /\ b \notin Sealed /\ Parent[b] = p
      /\ tree'[b].attested = t /\ tree'[p] = tree[p] /\ votes' = votes
  BY <1>1 DEF Seal, UpdateAttestation, Inv, TypeInv
<1>3. CASE t = 0
  BY <1>2, <1>3 DEF VerifyVoteAttestation
<1>4. CASE t # 0
  <2>1. /\ t \in Reach(p, Number[b]) /\ Number[t] > Number[j]
        /\ Number[Justified(t)] = Number[j] /\ HasQuorum(t)
    BY <1>1, <1>4 DEF Seal, AssembleVoteAttestation
  <2>2. t \in Sealed
    BY <1>2, <2>1 DEF Reach, Inv, BlockInv
  <2>3. tree'[t] = tree[t]
    BY <2>2 DEF Seal
  <2>4. /\ Supported(j) /\ j \in Sealed /\ j \in Blocks /\ Number[j] \in Nat
        /\ Supported(Justified(t)) /\ Justified(t) \in Sealed /\ Justified(t) \in Blocks
    BY <1>1, <1>2, <2>2, Numbers DEF Inv, BlockInv
  <2>5. Justified(t) = j
    BY <2>1, <2>4, OnePerHeight, GenesisNumber, TreeAssumption DEF Supported
  <2>6. Justified(t)' = j /\ Justified(p)' = j /\ Number[j] < Number[t]
    BY <1>1, <1>2, <2>1, <2>2, <2>3, <2>4, <2>5, Numbers DEF Justified, Inv
  <2>7. HasQuorum(t)'
    BY <1>2, <2>1 DEF HasQuorum, Voters
  <2> QED
    BY <1>2, <2>1, <2>6, <2>7 DEF VerifyVoteAttestation
<1> QED
  BY <1>3, <1>4

\* AttestationsAccepted: verifyVoteAttestation accepts, at every node and at any
\* later time, each attestation that assembleVoteAttestation made.
THEOREM AttestationsAccepted == Spec => []SealedIsAccepted
<1>1. Init => SealedIsAccepted
  BY DEF Init, SealedIsAccepted, Sealed
<1>2. ASSUME Inv, SealedIsAccepted, [Next]_vars
      PROVE  SealedIsAccepted'
  <2> SUFFICES ASSUME NEW b \in Sealed', b # 0 PROVE VerifyVoteAttestation(b)'
    BY DEF SealedIsAccepted
  <2>1. CASE b \in Sealed
    BY <1>2, <2>1, AcceptedStays DEF SealedIsAccepted
  <2>2. CASE b \notin Sealed
    <3>1. \E v \in Validators, t \in Blocks : b \in Blocks /\ Seal(v, b, t)
      <4>1. CASE UNCHANGED vars
        BY <2>2, <4>1 DEF vars, Sealed
      <4>2. ASSUME NEW v \in Validators, NEW c \in Blocks, NEW t \in Blocks, Seal(v, c, t)
            PROVE  b = c
        BY <2>2, <4>2 DEF Seal, Sealed
      <4>3. ASSUME NEW v \in Validators, NEW c \in Blocks,
                   Restart(v, c) \/ \E inTime \in BOOLEAN : Adopt(v, c, inTime)
            PROVE  FALSE
        BY <2>2, <4>3 DEF Adopt, Restart, Sealed
      <4> QED
        BY <1>2, <4>1, <4>2, <4>3 DEF Next
    <3> QED
      BY <1>2, <3>1, SealAccepted
  <2> QED
    BY <2>1, <2>2
<1> QED
  BY <1>1, <1>2, AlwaysInv, PTL DEF Spec

----------------------------------------------------------------------------
(* The refinement.                                                         *)

\* All that was called final is the branch of one block, the highest of them.
LEMMA LedgerIsBranch == Inv /\ InScope => \E b \in Sealed : FinalizedBlocks = Branch[b]
<1> SUFFICES ASSUME Inv, InScope PROVE \E b \in Sealed : FinalizedBlocks = Branch[b]
  OBVIOUS
<1> DEFINE Depth(b) == MaxNumber - Number[GetFinalizedHeader(b)]
           S        == {Depth(b) : b \in Sealed}
<1>1. \A b \in Sealed : /\ GetFinalizedHeader(b) \in Sealed /\ IsChain(GetFinalizedHeader(b))
                        /\ Number[GetFinalizedHeader(b)] \in 0..MaxNumber
  BY AnswerIsFinal, BranchIsChain, TreeAssumption DEF Inv, TypeInv
<1>2. S \subseteq Nat /\ S # {}
  BY <1>1, TreeAssumption DEF Inv, TypeInv
<1>3. PICK n \in S : \A m \in S : n <= m
  <2> HIDE DEF S
  <2> QED
    BY <1>2, LeastNumber
<1>4. PICK b \in Sealed : \A c \in Sealed : Depth(b) <= Depth(c)
  BY <1>3
<1>5. ASSUME NEW c \in Sealed
      PROVE  GetFinalizedHeader(c) \in Branch[GetFinalizedHeader(b)]
  <2>1. Number[GetFinalizedHeader(c)] <= Number[GetFinalizedHeader(b)]
    BY <1>1, <1>4, TreeAssumption
  <2>2. \/ GetFinalizedHeader(c) \in Branch[GetFinalizedHeader(b)]
        \/ GetFinalizedHeader(b) \in Branch[GetFinalizedHeader(c)]
    BY InvAgree DEF FinalizedAgree
  <2> QED
    BY <1>1, <2>1, <2>2 DEF IsChain
<1>6. \A c \in Sealed : Branch[GetFinalizedHeader(c)] \subseteq Branch[GetFinalizedHeader(b)]
  BY <1>1, <1>5 DEF IsChain
<1> QED
  BY <1>1, <1>6 DEF FinalizedBlocks

\* Every step of the nodes is a step of the ledger.
LEMMA LedgerStep ==
  ASSUME Inv, Inv', InScope', [Next]_vars
  PROVE  Ledger!Next
<1>0. (\A b \in Sealed : GetFinalizedHeader(b) \in Sealed)'
  BY AnswerSealed, PTL
<1>1. Branches \subseteq Branches'
  BY OnlyAdded DEF Branches
<1>2. FinalizedBlocks \subseteq FinalizedBlocks'
  <2> SUFFICES ASSUME NEW b \in Sealed
               PROVE  Branch[GetFinalizedHeader(b)] \subseteq FinalizedBlocks'
    BY DEF FinalizedBlocks
  <2>1. b \in Sealed'
    BY OnlyAdded
  <2>2. GetFinalizedHeader(b)' \in Sealed'
    BY <1>0, <2>1
  <2>3. Branch[GetFinalizedHeader(b)] \subseteq Branch[GetFinalizedHeader(b)']
    <3>1. IsChain(GetFinalizedHeader(b)')
      BY <2>2, BranchIsChain DEF Inv, TypeInv
    <3> QED
      BY <3>1, AnswerGrows DEF IsChain
  <2>4. Branch[GetFinalizedHeader(b)'] \subseteq FinalizedBlocks'
    BY <2>1 DEF FinalizedBlocks
  <2> QED
    BY <2>3, <2>4
<1>3. FinalizedBlocks' \in Branches'
  <2>1. (\E b \in Sealed : FinalizedBlocks = Branch[b])'
    BY LedgerIsBranch, PTL
  <2> QED
    BY <2>1 DEF Branches
<1> QED
  BY <1>1, <1>2, <1>3 DEF Ledger!Next

\* OneLedger: the nodes together, with their votes, forks, restarts and early
\* answers from the pool, implement one append-only ledger, as long as attested
\* blocks are within the slash scope of their source.
THEOREM OneLedger == Spec /\ []InScope => LedgerGrows
<1>1. Init => Ledger!Init
  <2> SUFFICES ASSUME Init PROVE Ledger!Init
    OBVIOUS
  <2>1. Sealed = {0} /\ Justified(0) = 0 /\ tree[0].finalized = 0
    BY DEF Init, Sealed, Justified
  <2>2. GetFinalizedHeader(0) = 0 /\ Branch[0] = {0}
    BY <2>1, TreeAssumption DEF GetFinalizedHeader
  <2> QED
    BY <2>1, <2>2 DEF Ledger!Init, Branches, FinalizedBlocks
<1>2. Inv /\ Inv' /\ InScope' /\ [Next]_vars => [Ledger!Next]_<<Branches, FinalizedBlocks>>
  BY LedgerStep
<1> QED
  BY <1>1, <1>2, AlwaysInv, PTL DEF Spec, LedgerGrows, Ledger!Spec
============================================================================
