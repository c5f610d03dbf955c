--------------------------- MODULE TrieRetention ---------------------------
(***************************************************************************)
(* Which states a full node with the hash scheme still has                 *)
(* (core/blockchain.go): new tries stay in memory for triesInMemory        *)
(* blocks, some reach the disk, a clean stop writes three of them and a    *)
(* crash loses the rest.  A state that is gone is computed again from one  *)
(* on disk (eth/state_accessor.go), at most triesInMemory blocks back when *)
(* a block is traced.  Every block has a state of its own; the fork choice *)
(* is the one by total difficulty.                                         *)
(***************************************************************************)
EXTENDS BlockTree, SequencesExt

CONSTANTS
  TriesInMemory,  \* cfg.TriesInMemory
  SearchLimit,    \* FullImmutabilityThreshold, how far a repair goes back
  MaxStarts       \* bound: how often the node starts again

VARIABLES
  head,   \* CurrentBlock
  live,   \* the tries in memory, in the order of the flush list
  disk,   \* the blocks whose tries are on disk
  top,    \* the highest block written since the start
  floor,  \* below it a crash, a stop on a shorter branch or a reorganisation over
          \* blocks without states may have left gaps
  starts

vars == <<head, live, disk, top, floor, starts>>

Init == head = 0 /\ live = <<>> /\ disk = {0} /\ top = 0 /\ floor = 0 /\ starts = 0

HasState(b) == b \in disk \cup Range(live)

\* The block of number n on the branch of b.
At(b, n) == CHOOSE a \in Branch[b] : Number[a] = n

----------------------------------------------------------------------------
(* The trie database: a root that is not in memory counts as committed.    *)

Commit(db, roots) ==
  [live |-> SelectSeq(db.live, LAMBDA b : b \notin roots),
   disk |-> db.disk \cup (Range(db.live) \cap roots)]

\* The oldest k tries leave the memory.
Cap(db, k) == Commit(db, Range(SubSeq(db.live, 1, k)))

Dereference(db, chosen) == [db EXCEPT !.live = SelectSeq(@, LAMBDA b : Number[b] > chosen)]

\* writeBlockWithState: memory may be short and flushInterval may be over.
WriteBlockWithState(b) ==
  LET db     == [live |-> Append(live, b), disk |-> disk]
      chosen == Number[b] - TriesInMemory
      Flushed(d) == {d} \cup IF chosen > Number[head] THEN {} ELSE {Commit(d, {At(head, chosen)})}
  IN  IF chosen <= 0 THEN {db}
      ELSE {Dereference(d, chosen) : d \in UNION {Flushed(Cap(db, k)) : k \in 0..Len(db.live)}}

----------------------------------------------------------------------------
\* Block b becomes the head; states may be missing on the way from the old one.
SetHead(b) ==
  /\ head' = b
  /\ floor' = IF \A c \in Branch[Parent[b]] \ Branch[head] : HasState(c) THEN floor ELSE Number[b]

ImportBlock(b) ==
  /\ ~HasState(b) /\ HasState(Parent[b])
  /\ \E db \in WriteBlockWithState(b) : live' = db.live /\ disk' = db.disk
  /\ \E reorg \in ReorgNeeded(head, b) : IF reorg THEN SetHead(b) ELSE UNCHANGED <<head, floor>>
  /\ top' = IF Number[b] > top THEN Number[b] ELSE top
  /\ UNCHANGED starts

\* A block that was executed before and lies beside or above the head.
WriteKnownBlock(b) ==
  /\ HasState(b) /\ b \notin Branch[head] /\ TRUE \in ReorgNeeded(head, b)
  /\ SetHead(b)
  /\ top' = IF Number[b] > top THEN Number[b] ELSE top
  /\ UNCHANGED <<live, disk, starts>>

Kept_OneTooFar == {At(head, Number[head] - k) : k \in {j \in {0, 1, TriesInMemory} : j < Number[head]}}

\* The states that Stop writes.
Kept == {At(head, Number[head] - k) : k \in {j \in {0, 1, TriesInMemory - 1} : j < Number[head]}}

\* Stop also writes the state at the base of the snapshot tree.
Stop ==
  /\ starts < MaxStarts
  /\ \E base \in Branch[head] : disk' = Commit([live |-> live, disk |-> disk], Kept \cup {base}).disk
  /\ live' = <<>> /\ starts' = starts + 1
  /\ top' = Number[head]
  /\ floor' = IF top > Number[head] /\ floor < Number[head] - 1 THEN Number[head] - 1 ELSE floor
  /\ UNCHANGED head

\* rewindHashHead: back to a state on disk, not above the snapshot on disk.
RewindHashHead(root) ==
  LET a == CHOOSE a \in Branch[root] \cap disk : \A c \in Branch[root] \cap disk : Number[c] <= Number[a]
  IN  IF Number[a] < Number[head] - SearchLimit THEN 0 ELSE a

Crash ==
  /\ starts < MaxStarts
  /\ \E root \in Branch[head] : head' = IF head \in disk THEN head ELSE RewindHashHead(root)
  /\ live' = <<>> /\ starts' = starts + 1
  /\ top' = Number[head'] /\ floor' = Number[head']
  /\ UNCHANGED disk

Next ==
  \/ \E b \in Blocks \ {0} : ImportBlock(b) \/ WriteKnownBlock(b)
  \/ Stop
  \/ Crash

Spec == Init /\ [][Next]_vars
----------------------------------------------------------------------------
\* hashState with reexec = triesInMemory.
StateAtBlock(b) ==
  HasState(b) \/ \E a \in Branch[b] \cap disk : Number[b] - Number[a] <= TriesInMemory

\* RecentStateFound: the state of every recent block of the canonical chain is
\* there or can be computed within triesInMemory blocks, also after clean stops in
\* any rhythm, as long as each stop finds the highest block written so far at the
\* head.  Stop's "hard limit on the number of blocks reexecuted" (HEAD-(N-1)) does
\* not hold otherwise: writing a longer branch that is not preferred drops the tries
\* that Stop would keep, and only HEAD-1 and what follows it are covered.  After a
\* crash the repaired head and what follows it are, and after a reorganisation
\* through blocks whose states are gone the new head and what follows it.
RecentStateFound ==
  \A b \in Branch[head] : Number[b] > top - TriesInMemory /\ Number[b] >= floor => StateAtBlock(b)
============================================================================
