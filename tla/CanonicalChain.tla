-------------------------- MODULE CanonicalChain --------------------------
(***************************************************************************)
(* How BlockChain (core/blockchain.go) imports batches of blocks and keeps *)
(* its indexes on disk: the stored blocks, the canonical hash of each      *)
(* number, the head markers and the block number of each transaction.  An  *)
(* import, a reorganisation or a rewind is many database batches; between  *)
(* any two the node may crash, and it starts again from what is on disk.   *)
(* The node is a full node with the hash scheme and without the snapshot   *)
(* tree or the freezer.  chainmu lets one call run at a time.              *)
(***************************************************************************)
EXTENDS BlockTree

CONSTANTS
  Justified,      \* GetJustifiedNumber of each block
  Txs,            \* the transactions of each block
  Invalid,        \* the blocks whose execution fails
  TriesInMemory,  \* cfg.TriesInMemory
  Batches,        \* the batches that arrive: first and last block, on one branch
  MaxFaults       \* bound: how often the node stops, crashes or is rewound

\* A branch has each transaction once, and never justifies less than before.
ASSUME ChainAssumption ==
  /\ Justified \in [Blocks -> Nat] /\ DOMAIN Txs = Blocks /\ Txs[0] = {} /\ Invalid \subseteq Blocks \ {0}
  /\ \A b \in Blocks \ {0} :
       Justified[Parent[b]] <= Justified[b] /\ \A a \in Branch[Parent[b]] : Txs[a] \cap Txs[b] = {}
  /\ Batches \subseteq {s \in Blocks \X Blocks : s[1] # 0 /\ s[1] \in Branch[s[2]]}
  /\ TriesInMemory \in Nat \ {0} /\ MaxFaults \in Nat

VARIABLES
  blocks,      \* the stored blocks: header, body and total difficulty
  canon,       \* number -> hash, for some numbers
  headBlock,   \* LastBlock, and CurrentBlock
  headHeader,  \* LastHeader, and CurrentHeader
  lookup,      \* transaction -> number of its block
  states,      \* the blocks whose tries are on disk
  tries,       \* the blocks whose tries are in memory
  pc,          \* what the holder of chainmu does next
  batch,       \* insertChain: the next block, the last one, and which loop is at it
  switch,      \* reorg and writeHeadBlock: the way to the new head
  target,      \* SetHead: the number to go back to
  faults,      \* stops, crashes and rewinds
  rewound,     \* history: SetHead was called
  crashed,     \* history: the node did not always stop cleanly
  torn         \* history: some crash fell between reorg's deletions and the new head

stored  == <<blocks, canon, headBlock, headHeader, lookup, states>>
working == <<pc, batch, switch, target>>
history == <<faults, rewound, crashed, torn>>
indexVars ==  <<stored, tries, working, history>>

NoBatch  == [next |-> 0, end |-> 0, loop |-> "skip", last |-> 0]
NoSwitch == [to |-> 0, from |-> 0, base |-> 0, done |-> {}]

IndexInit ==
  /\ blocks = {0} /\ canon = [n \in {0} |-> 0] /\ headBlock = 0 /\ headHeader = 0
  /\ lookup = [t \in {} |-> 0] /\ states = {0} /\ tries = {}
  /\ pc = "idle" /\ batch = NoBatch /\ switch = NoSwitch /\ target = 0
  /\ faults = 0 /\ rewound = FALSE /\ crashed = FALSE /\ torn = FALSE

HasState(b) == b \in states \cup tries

Canonical(b) == Number[b] \in DOMAIN canon /\ canon[Number[b]] = b

\* ReorgNeededWithFastFinality
Better(cur, b) ==
  IF Justified[b] # Justified[cur] THEN {Justified[b] > Justified[cur]} ELSE ReorgNeeded(cur, b)

\* The ends of a part of a branch.
Lowest(S)  == CHOOSE a \in S : \A c \in S : Number[a] <= Number[c]
Highest(S) == CHOOSE a \in S : \A c \in S : Number[c] <= Number[a]

TxsOf(S) == UNION {Txs[b] : b \in S}

Keep(f, S) == [x \in DOMAIN f \cap S |-> f[x]]

----------------------------------------------------------------------------
(* insertChain, one block b after the other.                               *)

\* The verdicts of ValidateBody: ErrKnownBlock, ErrPrunedAncestor, no error.
Known(b)  == b \in blocks /\ HasState(b)
Pruned(b) == ~Known(b) /\ Parent[b] \in blocks /\ ~HasState(Parent[b])
Ready(b)  == ~Known(b) /\ Parent[b] \in blocks /\ HasState(Parent[b])

Return == pc' = "idle" /\ batch' = NoBatch

\* it.next(): go on after block b in the given loop.
GoOn(b, loop) ==
  IF b = batch.end THEN Return
  ELSE pc' = "next" /\ batch' = [batch EXCEPT !.next = CHOOSE c \in Branch[batch.end] \ {0} : Parent[c] = b,
                                              !.loop = loop]

InsertChain(first, last) ==
  /\ pc = "idle"
  /\ pc' = "next" /\ batch' = [NoBatch EXCEPT !.next = first, !.end = last]
  /\ UNCHANGED <<stored, tries, switch, target, history>>

\* The head is to become b, over reorg unless b is its child.  The child of the
\* block base is written next.
SwitchTo(b, loop) ==
  /\ batch' = [batch EXCEPT !.loop = loop]
  /\ IF Parent[b] = headBlock
     THEN pc' = "head" /\ switch' = [to |-> b, from |-> headBlock, base |-> headBlock, done |-> {}]
     ELSE pc' = "apply" /\ switch' = [to |-> b, from |-> headBlock, done |-> {},
                                      base |-> Highest(Branch[headBlock] \cap Branch[b])]

Reimport_Higher(b) == TRUE \in Better(headBlock, b) /\ Number[b] > Number[headBlock]

\* A known block that would be a better head, and is not already canonical.
Reimport(b) ==
  TRUE \in Better(headBlock, b) /\ (Number[b] > Number[headBlock] \/ ~Canonical(b))

SkipKnown(b) ==
  /\ batch.loop = "skip" /\ Known(b)
  /\ FALSE \in Better(headBlock, b) \/ ~Reimport(b)
  /\ GoOn(b, "skip")
  /\ UNCHANGED <<stored, tries, switch, target, history>>

\* writeKnownBlock: from the first block on that Reimport finds, and for every
\* known block that follows an executed one.
WriteKnown(b) ==
  /\ batch.loop \in {"skip", "known", "process"} /\ Known(b)
  /\ batch.loop = "skip" => Reimport(b)
  /\ SwitchTo(b, IF batch.loop = "process" THEN "process" ELSE "known")
  /\ UNCHANGED <<stored, tries, target, history>>

\* writeBlockWithState: when flushInterval is over the trie of the canonical block
\* that is due reaches the disk, when the memory is short the others do (one by
\* one in TrieRetention, here all); the old ones leave the memory.
WriteBlockWithState(b) ==
  LET all    == tries \cup {b}
      chosen == Number[b] - TriesInMemory
      due    == IF chosen \in DOMAIN canon THEN {canon[chosen]} \cap all ELSE {}
  IN  /\ blocks' = blocks \cup {b}
      /\ IF chosen <= 0 THEN tries' = all /\ UNCHANGED states
         ELSE \E flushed \in {{}, due, all} :
                /\ states' = states \cup flushed
                /\ tries' = {c \in all \ flushed : Number[c] > chosen}

\* ProcessBlock and writeBlockAndSetHead
Process(b) ==
  /\ batch.loop # "side" /\ Ready(b) /\ b \notin Invalid
  /\ WriteBlockWithState(b)
  /\ \E reorg \in Better(headBlock, b) :
       IF reorg THEN SwitchTo(b, "process") ELSE GoOn(b, "process") /\ UNCHANGED switch
  /\ UNCHANGED <<canon, headBlock, headHeader, lookup, target, history>>

\* The block does not execute or its parent is missing.
Reject(b) ==
  /\ batch.loop # "side"
  /\ (Ready(b) /\ b \in Invalid) \/ (~Known(b) /\ Parent[b] \notin blocks)
  /\ Return
  /\ UNCHANGED <<stored, tries, switch, target, history>>

\* insertSideChain: store blocks without executing them, while their parents
\* have no state.
SideBlock(b) ==
  /\ batch.loop # "process" /\ Pruned(b)
  /\ LET old == Number[b] <= Number[headBlock] /\ Canonical(b)
         new == [batch EXCEPT !.loop = "side", !.last = IF batch.loop = "side" /\ old THEN @ ELSE b]
     IN  /\ blocks' = IF old THEN blocks ELSE blocks \cup {b}
         /\ batch' = [new EXCEPT !.next = IF b = batch.end THEN 0
                                          ELSE CHOOSE c \in Branch[batch.end] \ {0} : Parent[c] = b]
  /\ UNCHANGED <<canon, headBlock, headHeader, lookup, states, tries, pc, switch, target, history>>

\* The blocks of the branch of b after the last one with a state.
Stateless(b) == {c \in Branch[b] : \A a \in Branch[b] : Number[a] >= Number[c] => ~HasState(a)}

\* Then execute what has no state, if the last one stored would be a better head.
SideDone(b) ==
  LET prev == IF b = 0 THEN batch.end ELSE Parent[b]
      redo == Stateless(prev)
  IN  /\ batch.loop = "side" /\ (b = 0 \/ ~Pruned(b))
      /\ \E reorg \in Better(headBlock, batch.last) :
           IF ~reorg \/ redo = {} THEN Return
           ELSE batch' = [NoBatch EXCEPT !.next = Lowest(redo), !.end = prev] /\ UNCHANGED pc
      /\ UNCHANGED <<stored, tries, switch, target, history>>

ImportBlock ==
  /\ pc = "next"
  /\ \E b \in Blocks :
       /\ b = batch.next
       /\ SideDone(b) \/ (b # 0 /\ (SkipKnown(b) \/ WriteKnown(b) \/ Process(b) \/ Reject(b) \/ SideBlock(b)))

----------------------------------------------------------------------------
(* reorg and writeHeadBlock                                                *)

\* The block that writeHeadBlock is called for.
Writing(x) ==
  \/ pc \in {"head", "cut"} /\ x = switch.to
  \/ pc = "apply" /\ x \in Branch[switch.to] \ {0, switch.to} /\ Parent[x] = switch.base

\* Both batches are written: reorg goes on with the next block, or the call does.
Written(x, part) ==
  IF switch.done = {}
  THEN switch' = [switch EXCEPT !.done = {part}] /\ UNCHANGED <<pc, batch>>
  ELSE IF pc = "apply"
  THEN switch' = [switch EXCEPT !.base = x, !.done = {}] /\ UNCHANGED <<pc, batch>>
  ELSE switch' = NoSwitch /\ GoOn(x, batch.loop)

WriteMarkers(x) ==
  /\ Writing(x) /\ "markers" \notin switch.done
  /\ canon' = [n \in DOMAIN canon \cup {Number[x]} |-> IF n = Number[x] THEN x ELSE canon[n]]
  /\ headBlock' = x /\ headHeader' = x
  /\ Written(x, "markers")
  /\ UNCHANGED <<blocks, lookup, states, tries, target, history>>

WriteLookups(x) ==
  /\ Writing(x) /\ "lookups" \notin switch.done
  /\ lookup' = [t \in DOMAIN lookup \cup Txs[x] |-> IF t \in Txs[x] THEN Number[x] ELSE lookup[t]]
  /\ Written(x, "lookups")
  /\ UNCHANGED <<blocks, canon, headBlock, headHeader, states, tries, target, history>>

DeleteLookups_AllOld ==
  /\ pc = "apply" /\ switch.done = {} /\ (switch.base = switch.to \/ switch.base = Parent[switch.to])
  /\ lookup' = Keep(lookup, DOMAIN lookup \ TxsOf(Branch[switch.from] \ Branch[switch.to]))
  /\ pc' = "unmark"
  /\ UNCHANGED <<blocks, canon, headBlock, headHeader, states, tries, batch, switch, target, history>>

\* Nothing is left to write but the new head.
DeleteLookups ==
  /\ pc = "apply" /\ switch.done = {} /\ (switch.base = switch.to \/ switch.base = Parent[switch.to])
  /\ LET dropped == TxsOf(Branch[switch.from] \ Branch[switch.to])
         reborn  == TxsOf(Branch[switch.base] \ Branch[switch.from])
     IN  lookup' = Keep(lookup, DOMAIN lookup \ (dropped \ reborn))
  /\ pc' = "unmark"
  /\ UNCHANGED <<blocks, canon, headBlock, headHeader, states, tries, batch, switch, target, history>>

DeleteMarkers_OldBranch ==
  /\ pc = "unmark"
  /\ canon' = Keep(canon, DOMAIN canon \ ((Number[switch.base] + 1)..Number[switch.from]))
  /\ pc' = "cut"
  /\ UNCHANGED <<blocks, headBlock, headHeader, lookup, states, tries, batch, switch, target, history>>

\* From the block after base on, up to the first number without a hash.
DeleteMarkers ==
  /\ pc = "unmark"
  /\ LET n == Number[switch.base]
     IN  canon' = Keep(canon, {m \in DOMAIN canon : m <= n \/ \E k \in (n + 1)..m : k \notin DOMAIN canon})
  /\ pc' = "cut"
  /\ UNCHANGED <<blocks, headBlock, headHeader, lookup, states, tries, batch, switch, target, history>>

Reorg == DeleteLookups \/ DeleteMarkers \/ \E x \in Blocks : WriteMarkers(x) \/ WriteLookups(x)

----------------------------------------------------------------------------
(* Rewinding and starting again                                            *)

\* rewindHashHead
RewindHead(b, present) == Highest(Branch[b] \cap present)

SetHead(n) ==
  /\ pc = "idle" /\ n < Number[headHeader] /\ faults < MaxFaults
  /\ pc' = "rewind" /\ target' = n /\ rewound' = TRUE /\ faults' = faults + 1
  /\ UNCHANGED <<stored, tries, batch, switch, crashed, torn>>

\* One header back, in a batch of its own.
RewindHeader ==
  /\ pc = "rewind" /\ Number[headHeader] > target
  /\ LET p == Parent[headHeader]
     IN  /\ headHeader' = p
         /\ headBlock' = IF Number[p] <= Number[headBlock] THEN RewindHead(p, states \cup tries) ELSE headBlock
  /\ UNCHANGED <<blocks, canon, lookup, states, tries, working, history>>

DeleteAbove_First ==
  /\ pc = "rewind"
  /\ blocks' = {b \in blocks : Number[b] <= target}
  /\ canon' = Keep(canon, 0..target)
  /\ pc' = IF Number[headHeader] <= target THEN "idle" ELSE pc
  /\ target' = IF Number[headHeader] <= target THEN 0 ELSE target
  /\ UNCHANGED <<headBlock, headHeader, lookup, states, tries, batch, switch, history>>

\* All that is above goes in a last batch, side blocks and leftovers too.
DeleteAbove ==
  /\ pc = "rewind" /\ Number[headHeader] <= target
  /\ blocks' = {b \in blocks : Number[b] <= target}
  /\ canon' = Keep(canon, 0..target)
  /\ pc' = "idle" /\ target' = 0
  /\ UNCHANGED <<headBlock, headHeader, lookup, states, tries, batch, switch, history>>

Start_AnyHead(present) ==
  /\ tries' = {} /\ pc' = "idle" /\ batch' = NoBatch /\ switch' = NoSwitch /\ target' = 0
  /\ faults < MaxFaults /\ faults' = faults + 1
  /\ UNCHANGED <<blocks, canon, headBlock, headHeader, lookup, rewound>>

\* NewBlockChain: loadLastState, and back to a state if the head has none.
Start(present) ==
  /\ headBlock' = RewindHead(headBlock, present)
  /\ tries' = {} /\ pc' = "idle" /\ batch' = NoBatch /\ switch' = NoSwitch /\ target' = 0
  /\ faults < MaxFaults /\ faults' = faults + 1
  /\ UNCHANGED <<blocks, canon, headHeader, lookup, rewound>>

\* Stop: the loop that executes blocks ends, three tries are written.
Stop ==
  /\ pc = "idle" \/ (pc = "next" /\ batch.loop \in {"process", "side"})
  /\ LET top  == Number[headBlock]
         kept == {top - k : k \in {j \in {0, 1, TriesInMemory - 1} : j < top}}
     IN  /\ kept \subseteq DOMAIN canon
         /\ states' = states \cup (tries \cap {canon[n] : n \in kept})
  /\ Start(states')
  /\ UNCHANGED <<crashed, torn>>

\* The markers name the old head still, the hash of its number is gone.
Unmarked == pc = "cut" /\ "markers" \notin switch.done /\ headHeader # switch.base

Crash ==
  /\ Start(states)
  /\ crashed' = TRUE /\ torn' = (torn \/ Unmarked)
  /\ UNCHANGED states

Rewind == RewindHeader \/ DeleteAbove

IndexNext ==
  \/ \E s \in Batches : InsertChain(s[1], s[2])
  \/ ImportBlock \/ Reorg \/ Rewind
  \/ \E n \in 0..MaxNumber : SetHead(n)
  \/ Stop
  \/ Crash

IndexSpec == IndexInit /\ [][IndexNext]_indexVars

\* A call runs to its end; the best branch is offered again and again.
IndexFairness(best) ==
  /\ WF_indexVars(ImportBlock \/ Reorg \/ Rewind)
  /\ \A s \in {s \in Batches : s[2] = best /\ Parent[s[1]] = 0} : SF_indexVars(InsertChain(s[1], s[2]))

----------------------------------------------------------------------------
\* CanonFollowsHead: the canonical hashes name the branch of the head header down
\* to genesis, and the head block lies on it, at any moment of an import, a reorg
\* or a rewind and after any crash: reorg writes the new branch upwards, SetHead
\* moves the markers before it deletes.  The exception is the moment between
\* reorg's deletion of hashes and the new head: a crash there may leave the old
\* head without a hash (torn).
CanonFollowsHead ==
  ~torn /\ ~Unmarked =>
    headBlock \in Branch[headHeader] /\ \A b \in Branch[headHeader] : Canonical(b)

\* NothingMissing: every stored block has its parent, although SetHead deletes side
\* blocks and insertSideChain stores blocks it did not execute; and the canonical
\* hashes, leftovers above the head included, name stored blocks without a gap,
\* which the loops of reorg and setHead rely on to find the last one.
NothingMissing ==
  /\ \A b \in blocks \ {0} : Parent[b] \in blocks
  /\ ~torn => \A n \in DOMAIN canon : canon[n] \in blocks /\ (n > 0 => n - 1 \in DOMAIN canon)

\* A branch that the fork choice does not prefer is at most so much longer than the
\* head that writeBlockWithState, which counts back from the block it writes, leaves
\* the trie of the head in memory.
SidesFit ==
  \A cur, b \in Blocks : \A reorg \in Better(cur, b) :
    ~reorg => Number[b] < Number[cur] + TriesInMemory

\* LookupsFollowCanon: while no call runs, and unless there was a crash, each
\* transaction of the canonical chain is found under its number, moved ones too,
\* and no other is found, unless SetHead left it; in a tree with SidesFit, where
\* Stop and the start after it keep the head.
LookupsFollowCanon ==
  pc = "idle" /\ ~crashed =>
    /\ \A b \in Branch[headBlock] : \A t \in Txs[b] : t \in DOMAIN lookup /\ lookup[t] = Number[b]
    /\ ~rewound => DOMAIN lookup = TxsOf(Branch[headBlock])

\* HeadHasState: the head that a call or a start leaves has its state, although
\* known blocks become the head without being executed; in a tree with SidesFit.
HeadHasState == pc = "idle" => HasState(headBlock)
============================================================================
