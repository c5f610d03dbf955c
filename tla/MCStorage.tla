---------------------------- MODULE MCStorage ----------------------------
(***************************************************************************)
(* What a node stores of the chain and finds again after a restart: the    *)
(* indexes of its blocks (CanonicalChain), the snapshots of its headers    *)
(* (SnapshotStore) and the tries of its states (TrieRetention).  A         *)
(* behaviour is about one of the three; the others keep an initial state.  *)
(***************************************************************************)
EXTENDS MCCanonicalChain, MCSnapshotStore

VARIABLES
  part,
  current, live, onDisk, top, floor, starts  \* TrieRetention

trieVars == <<current, live, onDisk, top, floor, starts>>
allVars  == <<part, indexVars, storeVars, trieVars>>

\* Eight blocks, and a shorter branch on the fifth that is heavier.
ChainBlocks == 0..10
ChainParent == <<0, 1, 2, 3, 4, 5, 6, 7, 5, 9>>
ChainNumber == [b \in 0..10 |-> IF b >= 9 THEN b - 3 ELSE b]
ChainBranch == [b \in 0..10 |-> IF b >= 9 THEN 0..5 \cup 9..b ELSE 0..b]
ChainTd     == 0 :> 0 @@ <<2, 4, 6, 8, 10, 11, 12, 13, 12, 14>>

Tries == INSTANCE TrieRetention
  WITH Blocks <- ChainBlocks, Parent <- ChainParent, Number <- ChainNumber, Branch <- ChainBranch,
       Td <- ChainTd, MaxNumber <- 8, TriesInMemory <- 4, SearchLimit <- 5, MaxStarts <- 2,
       head <- current, disk <- onDisk

InitAll ==
  /\ IndexInit /\ StoreInit /\ Tries!Init
  /\ part \in {"indexes", "snapshots", "tries"}
  /\ part # "snapshots" => chain[0].validators = CHOOSE g \in Lists : TRUE

NextOfOne ==
  /\ \/ part = "indexes" /\ IndexNext /\ UNCHANGED <<storeVars, trieVars>>
     \/ part = "snapshots" /\ StoreNext /\ UNCHANGED <<indexVars, trieVars>>
     \/ part = "tries" /\ Tries!Next /\ UNCHANGED <<indexVars, storeVars>>
  /\ UNCHANGED part

\* The tip of the branch that the fork choice prefers to all others.
Best == 2

SpecOfOne == InitAll /\ [][NextOfOne]_allVars /\ IndexFairness(Best)
----------------------------------------------------------------------------
\* AdoptsBest: while the best branch is offered again and again, its tip becomes
\* the head, and again after each stop, crash or SetHead, whatever skipBlock,
\* writeKnownBlock and insertSideChain made of blocks that had been stored before.
AdoptsBest == part = "indexes" => []<>(headBlock = Best)

\* RecentStateFound: the state of a recent canonical block is there or can be
\* computed within triesInMemory blocks, after clean stops whose head is the highest
\* block written; from HEAD-1 on after other stops, and from the repaired head on
\* after a crash.
RecentStateFound == Tries!RecentStateFound
============================================================================
