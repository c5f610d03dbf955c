---------------------------- MODULE FastFinality ----------------------------
(***************************************************************************)
(* The finality protocol as the network runs it: validators seal blocks on *)
(* their heads, vote for the blocks that become their head, gather votes   *)
(* into attestations, and choose heads by the highest justified block      *)
(* (consensus/parlia/parlia.go, core/forkchoice.go).                       *)
(*                                                                         *)
(* A validator votes as its VoteManager does, which VoteRules sums up.     *)
(* Blocks and votes may be delayed or lost; a node may stop and come back  *)
(* with an older head.  One validator set: set switches are the subject of *)
(* ParliaChain.                                                            *)
(***************************************************************************)
EXTENDS BlockTree

CONSTANTS
  Validators,
  MaxRestart,    \* bound: restarts
  OnDisk,        \* bound: the blocks whose state survives a crash
  Late,          \* bound: the blocks that may come too late for a vote
  FermiAt,       \* the first block number with the longer reach of attestations
  FirstAttested, \* 3: assembleVoteAttestation leaves the first blocks alone
  Scope          \* maliciousVoteSlashScope

ASSUME FinalityAssumption ==
  /\ IsFiniteSet(Validators) /\ Validators # {}
  /\ MaxRestart \in Nat
  /\ OnDisk \subseteq Blocks /\ Late \subseteq Blocks
  /\ FermiAt \in Nat /\ FirstAttested \in Nat
  /\ Scope \in Nat

VARIABLES
  tree,     \* the blocks sealed so far: the target of their attestation (0 if
            \* there is none) and what their snapshot calls justified and finalized
  votes,    \* the blocks each validator has voted for
  head,     \* the current block of each validator
  restarts

vars == <<tree, votes, head, restarts>>

Init ==
  /\ tree = [b \in {0} |-> [attested |-> 0, justified |-> 0, finalized |-> 0]]
  /\ votes = [v \in Validators |-> {}]
  /\ head = [v \in Validators |-> 0]
  /\ restarts = 0

Sealed == DOMAIN tree

Justified(b) == tree[b].justified

----------------------------------------------------------------------------
(* Votes and attestations.                                                 *)

\* The vote for a block: from the justified block of its branch to itself.
VoteFor(b) == [source |-> Number[Justified(b)], target |-> Number[b], fork |-> b]

Rules == INSTANCE VoteRules
           WITH Votes <- [source : 0..MaxNumber, target : 0..MaxNumber, fork : Blocks],
                published <- {VoteFor(b) : b \in UNION {votes[v] : v \in Validators}}

UnderRules_SpanOnly(v, b) ==
  \A w \in votes[v] : ~Rules!Spans(VoteFor(b), VoteFor(w)) /\ ~Rules!Spans(VoteFor(w), VoteFor(b))

UnderRules(v, b) == \A w \in votes[v] : ~Rules!Conflict(VoteFor(b), VoteFor(w))

Voters(b) == {v \in Validators : b \in votes[v]}

CeilDiv(x, y) == (x + y - 1) \div y

HasQuorum(b) == Cardinality(Voters(b)) >= CeilDiv(Cardinality(Validators) * 2, 3)

AncestorGenerationDepth(n) == IF n >= FermiAt THEN 3 ELSE 1

\* The blocks that an attestation in a child of p, of number n, may have as target.
Reach(p, n) == {t \in Branch[p] : Number[t] > Number[p] - AncestorGenerationDepth(n)}

AssembleVoteAttestation_StaleSource(p, n) ==
  LET source == IF p = 0 THEN 0 ELSE Justified(Parent[p])
  IN  {0} \cup {t \in Reach(p, n) :
                  /\ n >= FirstAttested
                  /\ Number[t] > Number[source]
                  /\ Number[Justified(t)] = Number[source]
                  /\ HasQuorum(t)}

\* assembleVoteAttestation: a recent block of the branch for which the sealer has
\* a quorum of votes from the highest justified block on.  Some votes may not
\* have come.  0: no attestation.
AssembleVoteAttestation(p, n) ==
  {0} \cup {t \in Reach(p, n) :
              /\ n >= FirstAttested
              /\ Number[t] > Number[Justified(p)]
              /\ Number[Justified(t)] = Number[Justified(p)]
              /\ HasQuorum(t)}

\* verifyVoteAttestation by a node that receives block b.
VerifyVoteAttestation(b) ==
  LET p == Parent[b]
      t == tree[b].attested
  IN  t # 0 => /\ t \in Reach(p, Number[b])
               /\ Number[Justified(p)] < Number[t]
               /\ Justified(t) = Justified(p)
               /\ HasQuorum(t)

\* updateAttestation: what the snapshot of a child of p keeps.
UpdateAttestation(p, t) ==
  IF t = 0 THEN [attested |-> 0, justified |-> Justified(p), finalized |-> tree[p].finalized]
  ELSE [attested |-> t, justified |-> t,
        finalized |-> IF Number[t] = Number[Justified(p)] + 1 THEN Justified(p) ELSE tree[p].finalized]

GetFinalizedHeader_NoQuorum(b) ==
  IF Number[Justified(b)] = Number[b] - 1 THEN Justified(b) ELSE tree[b].finalized

\* GetFinalizedHeader: the finalized block in the snapshot of b, or the justified
\* one if that is the parent and the pool holds a quorum of votes for b.
GetFinalizedHeader(b) ==
  IF Number[Justified(b)] = Number[b] - 1 /\ HasQuorum(b) THEN Justified(b) ELSE tree[b].finalized

----------------------------------------------------------------------------
(* Fork choice.                                                            *)

ReorgNeededWithFastFinality_TdOnly(cur, b) == ReorgNeeded(cur, b)

ReorgNeededWithFastFinality(cur, b) ==
  IF Number[Justified(b)] = Number[Justified(cur)] THEN ReorgNeeded(cur, b)
  ELSE {Number[Justified(b)] > Number[Justified(cur)]}

----------------------------------------------------------------------------
\* Prepare and Seal: a validator seals block b on its head, with an attestation
\* of t or none.
Seal(v, b, t) ==
  /\ b \in Blocks \ Sealed /\ Parent[b] = head[v]
  /\ t \in AssembleVoteAttestation(head[v], Number[b])
  /\ tree' = [x \in Sealed \cup {b} |->
                IF x = b THEN UpdateAttestation(head[v], t) ELSE tree[x]]
  /\ UNCHANGED <<votes, head, restarts>>

\* writeBlockAndSetHead when the fork choice takes block b; the validator votes
\* for it if it is in time and the rules allow it.
Adopt(v, b, inTime) ==
  /\ b \in Sealed \ {head[v]}
  /\ VerifyVoteAttestation(b)
  /\ TRUE \in ReorgNeededWithFastFinality(head[v], b)
  /\ inTime \/ b \in Late
  /\ head' = [head EXCEPT ![v] = b]
  /\ votes' = IF inTime /\ UnderRules(v, b) THEN [votes EXCEPT ![v] = @ \cup {b}] ELSE votes
  /\ UNCHANGED <<tree, restarts>>

\* A node stops and loses its newest blocks; its journal survives.
Restart(v, b) ==
  /\ restarts < MaxRestart
  /\ b \in Branch[head[v]] \cap OnDisk
  /\ head' = [head EXCEPT ![v] = b]
  /\ restarts' = restarts + 1
  /\ UNCHANGED <<tree, votes>>

Next ==
  \E v \in Validators, b \in Blocks :
    \/ \E t \in Blocks : Seal(v, b, t)
    \/ \E inTime \in BOOLEAN : Adopt(v, b, inTime)
    \/ Restart(v, b)

Spec == Init /\ [][Next]_vars
----------------------------------------------------------------------------
\* SealedIsAccepted: an attestation that a sealer assembled from its pool passes
\* verifyVoteAttestation at every node, now and later, across Fermi too.
SealedIsAccepted == \A b \in Sealed \ {0} : VerifyVoteAttestation(b)

\* FinalizedAgree: whatever blocks two nodes hold, what GetFinalizedHeader calls
\* final for them, from headers or early from votes, lies on one branch.
FinalizedAgree ==
  \A b, c \in Sealed :
    LET x == GetFinalizedHeader(b)
        y == GetFinalizedHeader(c)
    IN  x \in Branch[y] \/ y \in Branch[x]

\* HeadKeepsFinalized: as long as it runs, a node never leaves the branch of a
\* block that it has called final: the fork choice compares justified numbers
\* only, and does not look at the finalized block.
HeadKeepsFinalized ==
  [][restarts' = restarts =>
       \A v \in Validators : GetFinalizedHeader(head[v]) \in Branch[head'[v]]]_vars

Branches == {Branch[b] : b \in Sealed}

FinalizedBlocks == UNION {Branch[GetFinalizedHeader(b)] : b \in Sealed}

Ledger == INSTANCE FinalLedger WITH branches <- Branches, ledger <- FinalizedBlocks

\* LedgerGrows: all nodes together implement one append-only ledger.
LedgerGrows == Ledger!Spec

=============================================================================
