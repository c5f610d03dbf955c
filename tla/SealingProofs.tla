--------------------------- MODULE SealingProofs ---------------------------
(***************************************************************************)
(* Proofs about sealing: what a validator announces (Sealing), who it      *)
(* takes to be in turn (SharedSnapshot), and how long the others wait      *)
(* (BackOff).                                                              *)
(***************************************************************************)
EXTENDS Sealing, SharedSnapshot, BackOff, FiniteSetTheorems, TLAPS

(***************************************************************************)
(* That a validator announces at most one block on each parent, for any    *)
(* bounds, leaders and number of clean restarts.  recentMinedBlocks is     *)
(* lost in a restart; what then protects is the head: it is at least as    *)
(* heavy as every announced block, so it is not the parent of one, and     *)
(* all tasks of the new life are built on it or on its successors.         *)
(***************************************************************************)

\* The header fields that the argument uses.
IsBlock(b) ==
  /\ b.td \in Int /\ b.parent.td \in Int /\ b.parent.td < b.td
  /\ b.number = b.parent.number + 1

Types ==
  /\ head.td \in Int
  /\ \A k \in known : k.td \in Int
  /\ \A w \in work : "parent" \in DOMAIN w /\ w.parent.td \in Int
  /\ \A s \in seals : "block" \in DOMAIN s /\ IsBlock(s.block)
  /\ \E S : results \in Seq(S)
  /\ \A i \in 1..Len(results) : IsBlock(results[i])

\* One block is being written at a time; it will be the head only if it is as
\* heavy as the head is.
Heavier ==
  /\ \A l \in chainmu : l.block.td \in Int /\ (l.canon => head.td <= l.block.td)
  /\ \A l, k \in chainmu : l = k

\* An announced block is not heavier than the head, once it is written.
HeadCatchesUp ==
  \A b \in announced : /\ IsBlock(b)
                       /\ b.td <= head.td \/ \E l \in chainmu : l.canon /\ l.block = b

\* No task is left that could lead to another block on the parent of b.
Settled(b) ==
  /\ b.td <= head.td
  /\ \A w \in work : w.parent # b.parent
  /\ \A s \in seals : s.block.parent # b.parent
  /\ \A i \in 1..Len(results) : results[i].parent # b.parent

Recorded(b) == <<b.number, b.parent>> \in mined

IInv ==
  /\ Types /\ Heavier /\ HeadCatchesUp
  /\ \A b \in announced : Recorded(b) \/ Settled(b)
  /\ NoDoubleSign
----------------------------------------------------------------------------
\* A block on a parent of known weight is a block.
LEMMA BlockIsBlock ==
  ASSUME NEW p, p.td \in Int, NEW m, NEW t, NEW txs
  PROVE  IsBlock(Block(p, m, t, txs)) /\ Block(p, m, t, txs).parent = p
BY DEF IsBlock, Block

\* The fork choice never prefers a lighter block.
LEMMA ReorgIsHeavier ==
  ASSUME NEW b, b.td \in Int, head.td \in Int, NEW canon \in ReorgNeeded(b), canon
  PROVE  head.td <= b.td
<1>1. CASE b.td # head.td
  <2>1. canon = (b.td > head.td)
    BY <1>1, Zenon DEF ReorgNeeded
  <2>2. b.td > head.td
    BY <2>1, Zenon
  <2> QED
    BY <2>2
<1>2. CASE b.td = head.td
  BY <1>2
<1> QED
  BY <1>1, <1>2

\* A queue stays a queue.
LEMMA AppendSeq ==
  ASSUME NEW S, NEW q \in Seq(S), NEW b
  PROVE  /\ Append(q, b) \in Seq(S \cup {b})
         /\ \A i \in 1..Len(Append(q, b)) : Append(q, b)[i] = b \/ (i \in 1..Len(q) /\ Append(q, b)[i] = q[i])
<1>1. q \in Seq(S \cup {b})
  OBVIOUS
<1> QED
  BY <1>1

\* Taking a block from a queue leaves the others.
LEMMA TailSeq ==
  ASSUME NEW S, NEW q \in Seq(S), q # <<>>
  PROVE  /\ Tail(q) \in Seq(S) /\ Head(q) = q[1] /\ 1 \in 1..Len(q)
         /\ \A i \in 1..Len(Tail(q)) : i + 1 \in 1..Len(q) /\ Tail(q)[i] = q[i + 1]
OBVIOUS

\* A validator that starts to mine has announced nothing.
LEMMA InitIInv == Init => IInv
<1> SUFFICES ASSUME Init PROVE IInv
  OBVIOUS
<1>1. results \in Seq({})
  BY DEF Init
<1>2. Types
  BY <1>1 DEF Init, Types, Root
<1> QED
  BY <1>2 DEF Init, IInv, Heavier, HeadCatchesUp, NoDoubleSign

\* What an action leaves alone keeps the invariant: no new task, no announcement.
LEMMA Frame ==
  ASSUME IInv, UNCHANGED <<head, known, chainmu, announced, mined>>,
         Types', \A w \in work' : \E x \in work : w.parent = x.parent,
         \A s \in seals' : \/ \E x \in seals : s.block.parent = x.block.parent
                           \/ \E x \in work : s.block.parent = x.parent,
         \A i \in 1..Len(results') : \/ \E k \in 1..Len(results) : results'[i] = results[k]
                                     \/ \E x \in seals : results'[i] = x.block
  PROVE  IInv'
<1>1. Heavier' /\ HeadCatchesUp' /\ NoDoubleSign'
  BY DEF IInv, Heavier, HeadCatchesUp, NoDoubleSign
<1>2. ASSUME NEW b \in announced', ~Recorded(b)'
      PROVE  Settled(b)'
  <2>1. Settled(b)
    BY <1>2 DEF IInv, Recorded
  <2> QED
    BY <2>1 DEF Settled
<1> QED
  BY <1>1, <1>2 DEF IInv

\* Steps of the loops and goroutines that announce nothing and take no new head.
LEMMA QuietStep ==
  ASSUME IInv,
         \/ Tick \/ NewHead \/ Resubmit \/ Abandon \/ Commit
         \/ SealStopped \/ SealDelayed \/ SealYielded
  PROVE  IInv'
<1> USE DEF chainVars, taskVars
<1>1. CASE Tick
  BY <1>1, Frame DEF Tick, IInv, Types
<1>2. CASE NewHead \/ Resubmit
  <2>1. \A w \in work' : \E x \in work : w.parent = x.parent /\ "parent" \in DOMAIN w
    BY <1>2 DEF NewHead, Resubmit, Interrupt, IInv, Types
  <2>2. Types'
    BY <1>2, <2>1 DEF NewHead, Resubmit, IInv, Types
  <2> QED
    BY <1>2, <2>1, <2>2, Frame DEF NewHead, Resubmit
<1>3. CASE Abandon
  <2>1. Types'
    BY <1>3 DEF Abandon, IInv, Types
  <2> QED
    BY <1>3, <2>1, Frame DEF Abandon
<1>4. CASE Commit
  <2>1. PICK w \in work : \E txs :
          LET b == Block(w.parent, Val, w.time, txs)
          IN  seals' = seals \/ seals' = Stopped \cup Seal(b)
    BY <1>4 DEF Commit
  <2>2. PICK txs :
          LET b == Block(w.parent, Val, w.time, txs)
          IN  seals' = seals \/ seals' = Stopped \cup Seal(b)
    BY <2>1
  <2> DEFINE b == Block(w.parent, Val, w.time, txs)
  <2>3. IsBlock(b) /\ b.parent = w.parent
    BY BlockIsBlock DEF IInv, Types
  <2> HIDE DEF b
  <2>4. \A s \in Stopped : \E x \in seals : s.block = x.block /\ "block" \in DOMAIN s
    BY DEF Stopped, IInv, Types
  <2>5. \A s \in Seal(b) : s.block = b /\ "block" \in DOMAIN s
    BY DEF Seal
  <2>6. seals' = seals \/ seals' = Stopped \cup Seal(b)
    BY <2>2 DEF b
  <2>7. Types'
    BY <1>4, <2>3, <2>4, <2>5, <2>6 DEF Commit, IInv, Types
  <2>8. \A s \in seals' : \/ \E x \in seals : s.block.parent = x.block.parent
                          \/ \E x \in work : s.block.parent = x.parent
    BY <2>3, <2>4, <2>5, <2>6
  <2> QED
    BY <1>4, <2>7, <2>8, Frame DEF Commit
<1>5. CASE SealStopped
  <2>1. Types'
    BY <1>5 DEF SealStopped, IInv, Types
  <2> QED
    BY <1>5, <2>1, Frame DEF SealStopped
<1>6. CASE SealDelayed \/ SealYielded
  <2>1. PICK s \in seals :
          /\ seals' \subseteq seals \cup {[s EXCEPT !.stage = "yielding"]}
          /\ results' = results \/ results' = Append(results, s.block)
    BY <1>6 DEF SealDelayed, SealYielded, Send
  <2>2. \A x \in seals' : "block" \in DOMAIN x /\ \E y \in seals : x.block = y.block
    BY <2>1 DEF IInv, Types
  <2>3. PICK S : results \in Seq(S)
    BY DEF IInv, Types
  <2>4. \A i \in 1..Len(results') : \/ \E k \in 1..Len(results) : results'[i] = results[k]
                                    \/ results'[i] = s.block
    BY <2>1, <2>3, AppendSeq
  <2>5. \E Q : results' \in Seq(Q)
    <3>1. results' \in Seq(S) \/ results' \in Seq(S \cup {s.block})
      BY <2>1, <2>3, AppendSeq
    <3> QED
      BY <3>1, Zenon
  <2>6. Types'
    <3>1. \A i \in 1..Len(results') : IsBlock(results'[i])
      BY <2>1, <2>4 DEF IInv, Types
    <3> QED
      BY <1>6, <2>2, <2>5, <3>1 DEF SealDelayed, SealYielded, IInv, Types
  <2> QED
    BY <1>6, <2>1, <2>2, <2>4, <2>6, Frame DEF SealDelayed, SealYielded
<1> QED
  BY <1>1, <1>2, <1>3, <1>4, <1>5, <1>6

\* A block of another validator is processed under the chain mutex.
LEMMA InsertStep ==
  ASSUME IInv, InsertChain
  PROVE  IInv'
<1> USE DEF taskVars
<1>0. PICK b \in PeerBlocks : /\ chainmu = {}
                              /\ \E canon \in ReorgNeeded(b) : chainmu' = {Lock(b, canon)}
  BY Zenon DEF InsertChain
<1>1. PICK canon \in ReorgNeeded(b) : chainmu' = {Lock(b, canon)}
  BY <1>0, Zenon
<1>2. b.td \in Int
  <2>1. PICK p \in known, m \in Peers : b = Block(p, m, Slot(p, m), 0)
    BY DEF PeerBlocks
  <2> QED
    BY <2>1, BlockIsBlock DEF IsBlock, IInv, Types
<1>3. Heavier'
  <2>1. canon => head.td <= b.td
    BY <1>2, ReorgIsHeavier, Zenon DEF IInv, Types
  <2>2. UNCHANGED head
    BY DEF InsertChain
  <2> QED
    BY <1>1, <1>2, <2>1, <2>2 DEF Lock, Heavier
<1>4. Types' /\ HeadCatchesUp' /\ NoDoubleSign'
  BY <1>0 DEF InsertChain, IInv, Types, HeadCatchesUp, NoDoubleSign
<1>5. \A x \in announced : Recorded(x)' \/ Settled(x)'
  BY DEF InsertChain, IInv, Recorded, Settled
<1> QED
  BY <1>3, <1>4, <1>5 DEF InsertChain, IInv

\* The head only gets heavier, and the write of an announced block makes it the
\* head.
LEMMA WriteStep ==
  ASSUME IInv, WriteBlock
  PROVE  IInv'
<1> USE DEF taskVars
<1>1. PICK l \in chainmu : /\ chainmu' = {} /\ known' = known \cup {l.block}
                           /\ head' = IF l.canon THEN l.block ELSE head
  BY DEF WriteBlock
<1>2. head.td \in Int /\ head'.td \in Int /\ head.td <= head'.td /\ l.block.td \in Int
  BY <1>1 DEF IInv, Types, Heavier
<1>3. Types' /\ Heavier' /\ NoDoubleSign'
  BY <1>1, <1>2 DEF WriteBlock, IInv, Types, Heavier, NoDoubleSign
<1>4. HeadCatchesUp'
  BY <1>1, <1>2 DEF WriteBlock, IInv, HeadCatchesUp, Heavier, IsBlock
<1>5. ASSUME NEW x \in announced
      PROVE  Recorded(x)' \/ Settled(x)'
  <2>1. CASE Recorded(x)
    BY <2>1 DEF WriteBlock, Recorded
  <2>2. CASE Settled(x)
    <3>1. x.td <= head'.td
      BY <1>2, <2>2 DEF Settled, IInv, HeadCatchesUp, IsBlock
    <3> QED
      BY <2>2, <3>1 DEF WriteBlock, Settled
  <2> QED
    BY <2>1, <2>2 DEF IInv
<1> QED
  BY <1>3, <1>4, <1>5 DEF WriteBlock, IInv

\* New work is on the head, which is not the parent of an announced block that
\* has been written.
LEMMA CommitWorkStep ==
  ASSUME IInv, CommitWork
  PROVE  IInv'
<1> USE DEF chainVars, taskVars
<1>1. \A w \in work' : "parent" \in DOMAIN w /\ w.parent = head
  BY DEF CommitWork
<1>2. Types' /\ Heavier' /\ HeadCatchesUp' /\ NoDoubleSign'
  BY <1>1 DEF CommitWork, IInv, Types, Heavier, HeadCatchesUp, NoDoubleSign
<1>3. ASSUME NEW x \in announced, Settled(x)
      PROVE  head # x.parent
  BY <1>3 DEF Settled, IInv, HeadCatchesUp, IsBlock, Types
<1>4. \A x \in announced : Recorded(x)' \/ Settled(x)'
  BY <1>1, <1>3 DEF CommitWork, IInv, Recorded, Settled
<1> QED
  BY <1>2, <1>4 DEF CommitWork, IInv

\* resultLoop records the parent of the block it announces, and announces no
\* other block on that parent while it is recorded or settled.
LEMMA ResultStep ==
  ASSUME IInv, Result
  PROVE  IInv'
<1> USE DEF taskVars
<1> DEFINE b == Head(results)
<1>1. PICK S : results \in Seq(S)
  BY DEF IInv, Types
<1>2. /\ results' \in Seq(S) /\ b = results[1] /\ 1 \in 1..Len(results)
      /\ \A i \in 1..Len(results') : i + 1 \in 1..Len(results) /\ results'[i] = results[i + 1]
  BY <1>1, TailSeq DEF Result
<1>3. IsBlock(b)
  BY <1>2 DEF IInv, Types
<1>4. Types'
  BY <1>2 DEF Result, IInv, Types
<1>5. CASE Rejected(b)
  <2>1. UNCHANGED <<head, known, chainmu, announced, mined, work, seals>>
    BY <1>5 DEF Result
  <2> HIDE DEF b
  <2> QED
    BY <1>2, <1>4, <2>1, Frame
<1>6. CASE ~Rejected(b)
  <2>1. PICK canon \in ReorgNeeded(b) :
          /\ chainmu' = {Lock(b, canon)}
          /\ announced' = IF canon THEN announced \cup {b} ELSE announced
    BY <1>6, Zenon DEF Result
  <2>2. /\ chainmu = {} /\ mined' = mined \cup {<<b.number, b.parent>>}
        /\ UNCHANGED <<head, known, work, seals>>
    BY <1>6 DEF Result
  <2>3. \A x \in announced : x.parent # b.parent
    <3> SUFFICES ASSUME NEW x \in announced, x.parent = b.parent
                 PROVE  FALSE
      OBVIOUS
    <3>1. x.number = b.number
      BY <1>3 DEF IInv, HeadCatchesUp, IsBlock
    <3>2. ~Recorded(x)
      BY <1>6, <3>1 DEF Recorded, Rejected
    <3>3. ~Settled(x)
      BY <1>2 DEF Settled
    <3> QED
      BY <3>2, <3>3 DEF IInv
  <2> HIDE DEF b
  <2>4. Heavier'
    <3>1. canon => head.td <= b.td
      BY <1>3, ReorgIsHeavier, Zenon DEF IInv, Types, IsBlock
    <3> QED
      BY <1>3, <2>1, <2>2, <3>1 DEF IsBlock, Lock, Heavier
  <2>5. HeadCatchesUp'
    BY <1>3, <2>1, <2>2 DEF IsBlock, Lock, HeadCatchesUp, IInv
  <2>6. NoDoubleSign'
    BY <2>1, <2>3 DEF NoDoubleSign, IInv
  <2>7. ASSUME NEW x \in announced'
        PROVE  Recorded(x)' \/ Settled(x)'
    <3>1. CASE x = b
      BY <2>2, <3>1 DEF Recorded
    <3>2. CASE x \in announced
      BY <1>2, <2>1, <2>2, <3>2 DEF Recorded, Settled, IInv
    <3> QED
      BY <2>1, <3>1, <3>2
  <2> QED
    BY <1>4, <2>4, <2>5, <2>6, <2>7 DEF IInv
<1> QED
  BY <1>5, <1>6

\* A clean stop: every announced block is written, and no task survives.
LEMMA RestartStep ==
  ASSUME IInv, Restart
  PROVE  IInv'
<1>1. results' \in Seq({}) /\ Len(results') = 0
  BY DEF Restart, Down
<1>2. Types' /\ Heavier' /\ HeadCatchesUp' /\ NoDoubleSign'
  BY <1>1 DEF Restart, Down, IInv, Types, Heavier, HeadCatchesUp, NoDoubleSign
<1>3. \A x \in announced : Settled(x)'
  BY <1>1 DEF Restart, Down, IInv, HeadCatchesUp, Settled
<1> QED
  BY <1>2, <1>3 DEF Restart, Down, IInv

\* Every step keeps the invariant.
LEMMA NextIInv == IInv /\ [Next]_vars => IInv'
<1> SUFFICES ASSUME IInv, [Next]_vars
             PROVE  IInv'
  OBVIOUS
<1>1. CASE UNCHANGED vars
  BY <1>1 DEF vars, chainVars, taskVars, IInv, Types, Heavier, HeadCatchesUp, Recorded, Settled,
              NoDoubleSign
<1>2. CASE Next
  BY <1>2, QuietStep, InsertStep, WriteStep, CommitWorkStep, ResultStep, RestartStep DEF Next
<1> QED
  BY <1>1, <1>2

\* OneBlockPerParent: whatever tasks, heads and clean restarts overlap, resultLoop
\* (miner/worker.go) announces one block on a parent and no second, for any number
\* of peers, blocks, restarts and goroutines.
THEOREM OneBlockPerParent == Spec => []NoDoubleSign
<1>1. IInv => NoDoubleSign
  BY DEF IInv
<1> QED
  BY <1>1, InitIInv, NextIInv, PTL DEF Spec
----------------------------------------------------------------------------
(***************************************************************************)
(* That others accept what is announced.  newWorkLoop looks at a head that *)
(* commitWork no longer builds on, so what counts is checked late: the     *)
(* time when the header is prepared, the signer when Seal starts, and the  *)
(* clock when its goroutine wakes up.  None of these is undone later.      *)
(***************************************************************************)

\* A block that its validator may sign, with a time in its slot.
Sealable(b) ==
  /\ b.time \in Int /\ b.parent.time \in Int
  /\ ~SignRecently(b.parent, Val)
  /\ Slot(b.parent, Val) <= b.time

\* What is being built keeps to the slot of the validator.
WorkInv ==
  \A w \in work : /\ {"parent", "time"} \subseteq DOMAIN w
                  /\ w.time \in Int /\ w.parent.time \in Int
                  /\ Slot(w.parent, Val) <= w.time

\* What is being sealed may be signed, and is not in the future once the delay
\* of its goroutine is over.
SealsInv ==
  \A s \in seals : /\ {"block", "stage"} \subseteq DOMAIN s
                   /\ Sealable(s.block)
                   /\ s.stage # "waiting" => s.block.time <= now

ResultsInv ==
  /\ \E S : results \in Seq(S)
  /\ \A i \in 1..Len(results) : Sealable(results[i]) /\ results[i].time <= now

AnnouncedInv == \A b \in announced : Sealable(b) /\ b.time <= now

\* AcceptInv: blocks have times, and each loop keeps its part of the promise.
AcceptInv ==
  /\ now \in Int /\ head.time \in Int
  /\ \A k \in known : k.time \in Int
  /\ \A l \in chainmu : l.block.time \in Int
  /\ WorkInv /\ SealsInv /\ ResultsInv
  /\ AnnouncedInv

LEMMA BlockFields ==
  ASSUME NEW p, NEW m, NEW t, NEW txs
  PROVE  Block(p, m, t, txs).parent = p /\ Block(p, m, t, txs).time = t
BY DEF Block

LEMMA SlotIsTime == ASSUME NEW p, p.time \in Int, NEW m PROVE Slot(p, m) \in Int
BY DEF Slot

LEMMA InitAccept == Init => AcceptInv
<1> SUFFICES ASSUME Init PROVE AcceptInv
  OBVIOUS
<1>1. results \in Seq({}) /\ Len(results) = 0
  BY DEF Init
<1>2. Root.time = 0
  BY DEF Root
<1> QED BY <1>1, <1>2 DEF Init, AcceptInv, WorkInv, SealsInv, ResultsInv, AnnouncedInv

\* Time only passes: what was not in the future is not in it later.
LEMMA LaterAccept ==
  ASSUME AcceptInv, now' \in Int, now <= now'
  PROVE  /\ seals' = seals => SealsInv'
         /\ results' = results => ResultsInv'
         /\ announced' = announced => AnnouncedInv'
<1>1. now \in Int
  BY DEF AcceptInv
<1>2. seals' = seals => SealsInv'
  BY <1>1 DEF AcceptInv, SealsInv, Sealable
<1>3. results' = results => ResultsInv'
  BY <1>1 DEF AcceptInv, ResultsInv, Sealable
<1>4. announced' = announced => AnnouncedInv'
  BY <1>1 DEF AcceptInv, AnnouncedInv, Sealable
<1> QED BY <1>2, <1>3, <1>4

\* The chain grows by blocks of known parents, and by sealed ones.
LEMMA ChainAccept ==
  ASSUME AcceptInv, InsertChain \/ WriteBlock
  PROVE  AcceptInv'
<1> USE DEF taskVars
<1>1. CASE InsertChain
  <2>1. PICK b \in PeerBlocks \ known : \E canon \in ReorgNeeded(b) : chainmu' = {Lock(b, canon)}
    BY <1>1 DEF InsertChain
  <2>2. b.time \in Int
    <3>1. PICK p \in known, m \in Peers : b = Block(p, m, Slot(p, m), 0)
      BY <2>1 DEF PeerBlocks
    <3>2. Slot(p, m) \in Int
      BY SlotIsTime DEF AcceptInv
    <3> QED BY <3>1, <3>2, BlockFields
  <2>3. \A l \in chainmu' : l.block.time \in Int
    BY <2>1, <2>2 DEF Lock
  <2> QED BY <1>1, <2>3, LaterAccept DEF InsertChain, AcceptInv, WorkInv
<1>2. CASE WriteBlock
  <2>1. PICK l \in chainmu : chainmu' = {} /\ known' = known \cup {l.block} /\ head' \in {l.block, head}
    BY <1>2 DEF WriteBlock
  <2> QED BY <1>2, <2>1, LaterAccept DEF WriteBlock, AcceptInv, WorkInv
<1> QED BY <1>1, <1>2

\* newWorkLoop and the preparation of a header.
LEMMA WorkAccept ==
  ASSUME AcceptInv, NewHead \/ Resubmit \/ CommitWork \/ Abandon
  PROVE  AcceptInv'
<1> USE DEF chainVars, taskVars
<1>1. WorkInv'
  <2>1. CASE NewHead \/ Resubmit
    <3>1. \A w \in work' : \E x \in work : /\ w.parent = x.parent /\ w.time = x.time
                                           /\ {"parent", "time"} \subseteq DOMAIN w
      BY <2>1 DEF NewHead, Resubmit, Interrupt, AcceptInv, WorkInv
    <3> QED BY <3>1 DEF AcceptInv, WorkInv
  <2>2. CASE CommitWork
    <3>1. Slot(head, Val) \in Int /\ now \in Int /\ head.time \in Int
      BY SlotIsTime DEF AcceptInv
    <3>2. BlockTime(head) \in Int /\ Slot(head, Val) <= BlockTime(head)
      BY <3>1 DEF BlockTime
    <3>3. \A w \in work' : /\ {"parent", "time"} \subseteq DOMAIN w
                           /\ w.parent = head /\ w.time = BlockTime(head)
      BY <2>2 DEF CommitWork
    <3> QED BY <3>1, <3>2, <3>3 DEF WorkInv
  <2>3. CASE Abandon
    BY <2>3 DEF Abandon, WorkInv
  <2> QED BY <2>1, <2>2, <2>3
<1>2. UNCHANGED <<now, head, known, chainmu, seals, results, announced>>
  BY DEF NewHead, Resubmit, CommitWork, Abandon
<1> QED BY <1>1, <1>2, LaterAccept DEF AcceptInv

\* taskLoop: Seal refuses what the validator may not sign.
LEMMA CommitAccept ==
  ASSUME AcceptInv, Commit
  PROVE  AcceptInv'
<1> USE DEF chainVars, taskVars
<1>1. PICK w \in work, txs \in Txs \cup {0} :
        LET b == Block(w.parent, Val, w.time, txs)
        IN  seals' = seals \/ seals' = Stopped \cup Seal(b)
  BY DEF Commit
<1> DEFINE b == Block(w.parent, Val, w.time, txs)
<1>2. b.parent = w.parent /\ b.time = w.time
  BY BlockFields
<1>3. ASSUME NEW s \in Seal(b)
      PROVE  s.block = b /\ {"block", "stage"} \subseteq DOMAIN s /\ s.stage = "waiting" /\ Sealable(b)
  BY <1>2 DEF Seal, Sealable, AcceptInv, WorkInv
<1> HIDE DEF b
<1>4. \A s \in Stopped : \E x \in seals : /\ s.block = x.block /\ s.stage = x.stage
                                          /\ {"block", "stage"} \subseteq DOMAIN s
  BY DEF Stopped, AcceptInv, SealsInv
<1>5. seals' = seals \/ seals' = Stopped \cup Seal(b)
  BY <1>1 DEF b
<1>6. now' = now /\ now \in Int
  BY DEF Commit, AcceptInv
<1>7. SealsInv'
  <2> SUFFICES ASSUME NEW s \in seals'
               PROVE  /\ {"block", "stage"} \subseteq DOMAIN s /\ Sealable(s.block)
                      /\ s.stage # "waiting" => s.block.time <= now
    BY <1>6 DEF SealsInv, Sealable
  <2> QED BY <1>3, <1>4, <1>5 DEF AcceptInv, SealsInv
<1>8. UNCHANGED <<head, known, chainmu, results, announced>> /\ work' = {}
  BY DEF Commit
<1> QED BY <1>6, <1>7, <1>8, LaterAccept DEF AcceptInv, WorkInv

\* A goroutine of Seal sends its block when the delay is over.
LEMMA SealAccept ==
  ASSUME AcceptInv, SealStopped \/ SealDelayed \/ SealYielded
  PROVE  AcceptInv'
<1> USE DEF chainVars
<1>0. now' = now /\ now \in Int /\ UNCHANGED <<head, known, chainmu, work, announced>>
  BY DEF SealStopped, SealDelayed, SealYielded, AcceptInv
<1>1. PICK s \in seals :
        \/ seals' \subseteq seals /\ results' = results
        \/ /\ s.block.time <= now
           /\ seals' \subseteq seals \cup {[s EXCEPT !.stage = "yielding"]}
           /\ results' = results \/ results' = Append(results, s.block)
  <2>1. CASE SealStopped
    BY <2>1 DEF SealStopped
  <2>2. CASE SealDelayed
    BY <2>2 DEF SealDelayed, Send
  <2>3. CASE SealYielded
    BY <2>3 DEF SealYielded, Send, AcceptInv, SealsInv
  <2> QED BY <2>1, <2>2, <2>3
<1>2. Sealable(s.block) /\ {"block", "stage"} \subseteq DOMAIN s
  BY DEF AcceptInv, SealsInv
<1>3. SealsInv'
  <2> SUFFICES ASSUME NEW x \in seals'
               PROVE  /\ {"block", "stage"} \subseteq DOMAIN x /\ Sealable(x.block)
                      /\ x.stage # "waiting" => x.block.time <= now
    BY <1>0 DEF SealsInv, Sealable
  <2>1. CASE x \in seals
    BY <2>1 DEF AcceptInv, SealsInv
  <2>2. CASE x = [s EXCEPT !.stage = "yielding"] /\ s.block.time <= now
    BY <1>2, <2>2
  <2> QED BY <1>1, <2>1, <2>2
<1>4. ResultsInv'
  <2>1. PICK S : results \in Seq(S)
    BY DEF AcceptInv, ResultsInv
  <2>2. CASE results' = results
    BY <1>0, <2>2, LaterAccept
  <2>3. CASE results' = Append(results, s.block) /\ s.block.time <= now
    <3>1. results' \in Seq(S \cup {s.block})
      BY <2>1, <2>3, AppendSeq
    <3>2. \E Q : results' \in Seq(Q)
      BY <3>1, Zenon
    <3>3. \A i \in 1..Len(results') : results'[i] = s.block \/ (i \in 1..Len(results) /\ results'[i] = results[i])
      BY <2>1, <2>3, AppendSeq
    <3>4. \A i \in 1..Len(results') : Sealable(results'[i]) /\ results'[i].time <= now
      BY <1>2, <2>3, <3>3 DEF AcceptInv, ResultsInv
    <3> QED BY <1>0, <3>2, <3>4 DEF ResultsInv, Sealable
  <2> QED BY <1>1, <2>2, <2>3
<1> QED BY <1>0, <1>3, <1>4, LaterAccept DEF AcceptInv, WorkInv

\* resultLoop announces what a goroutine has sent.
LEMMA ResultAccept ==
  ASSUME AcceptInv, Result
  PROVE  AcceptInv'
<1> USE DEF taskVars
<1> DEFINE b == Head(results)
<1>0. now' = now /\ now \in Int /\ UNCHANGED <<head, known, work, seals>>
  BY DEF Result, AcceptInv
<1>1. PICK S : results \in Seq(S)
  BY DEF AcceptInv, ResultsInv
<1>2. /\ results' \in Seq(S) /\ b = results[1] /\ 1 \in 1..Len(results)
      /\ \A i \in 1..Len(results') : i + 1 \in 1..Len(results) /\ results'[i] = results[i + 1]
  BY <1>1, TailSeq DEF Result
<1>3. Sealable(b) /\ b.time <= now
  BY <1>2 DEF AcceptInv, ResultsInv
<1>4. ResultsInv'
  <2>1. \E Q : results' \in Seq(Q)
    BY <1>2, Zenon
  <2>2. \A i \in 1..Len(results') : Sealable(results'[i]) /\ results'[i].time <= now
    BY <1>2 DEF AcceptInv, ResultsInv
  <2> QED BY <1>0, <2>1, <2>2 DEF ResultsInv, Sealable
<1>5. announced' \subseteq announced \cup {b} /\ \A l \in chainmu' : l \in chainmu \/ l.block = b
  BY DEF Result, Lock
<1> HIDE DEF b
<1>6. AnnouncedInv'
  BY <1>0, <1>3, <1>5 DEF AcceptInv, AnnouncedInv, Sealable
<1>7. \A l \in chainmu' : l.block.time \in Int
  BY <1>3, <1>5 DEF AcceptInv, Sealable
<1> QED BY <1>0, <1>4, <1>6, <1>7, LaterAccept DEF AcceptInv, WorkInv

LEMMA NextAccept == AcceptInv /\ [Next \/ Down]_vars => AcceptInv'
<1> SUFFICES ASSUME AcceptInv, [Next \/ Down]_vars PROVE AcceptInv'
  OBVIOUS
<1>1. CASE UNCHANGED vars
  BY <1>1, LaterAccept DEF vars, chainVars, taskVars, AcceptInv, WorkInv
<1>2. CASE Tick
  <2>1. now' \in Int /\ now <= now'
    BY <1>2 DEF Tick, AcceptInv
  <2> QED BY <1>2, <2>1, LaterAccept DEF Tick, chainVars, taskVars, AcceptInv, WorkInv
<1>3. CASE Down
  <2>1. results' \in Seq({}) /\ Len(results') = 0
    BY <1>3 DEF Down
  <2>2. ResultsInv'
    BY <2>1 DEF ResultsInv
  <2> QED BY <1>3, <2>2, LaterAccept DEF Down, AcceptInv, WorkInv, SealsInv
<1> QED
  BY <1>1, <1>2, <1>3, ChainAccept, WorkAccept, CommitAccept, SealAccept, ResultAccept
     DEF Next, Restart

\* PeersAcceptAnnounced: what the validator announces passes verifySeal and the
\* time checks of others (PeersAccept), for any peers, leaders, clock, queue size
\* and number of goroutines, although the loops of the worker act on different heads.
THEOREM PeersAcceptAnnounced == Spec => []PeersAccept
<1>1. AcceptInv => PeersAccept
  BY DEF AcceptInv, AnnouncedInv, Sealable, PeersAccept
<1>2. AcceptInv /\ [Next]_vars => AcceptInv'
  BY NextAccept
<1> QED BY <1>1, <1>2, InitAccept, PTL DEF Spec

\* PeersAcceptAfterCrash: the same when the node may be killed at any time, between
\* the announcement of a block and its write too; unlike NoDoubleSign it needs
\* nothing that a crash loses.
THEOREM PeersAcceptAfterCrash == CrashSpec => []PeersAccept
<1>1. AcceptInv => PeersAccept
  BY DEF AcceptInv, AnnouncedInv, Sealable, PeersAccept
<1> QED BY <1>1, InitAccept, NextAccept, PTL DEF CrashSpec

----------------------------------------------------------------------------
(***************************************************************************)
(* That, for every chain, fork block, sealer and table, the goroutines     *)
(* that share a snapshot disturb each other only through calls that pass   *)
(* the snapshot's own header.                                              *)
(***************************************************************************)

Goroutines == {"verify", "import", "mine"}

Ops == {"time", "timed", "seal", "slash", "calc", "rate", "delay", "append"}

Tasks == [op : Ops, block : 1..LastBlock, clean : BOOLEAN]

TypeOK ==
  /\ shared \in [0..LastBlock -> [isSnake8 : BOOLEAN, freq : Nat]]
  /\ checked \in 0..LastBlock /\ imported \in 0..LastBlock
  /\ task \in [Goroutines -> Tasks \cup {Idle}]

\* The snapshot of the parent speaks for block n.
Speaks(n) ==
  /\ shared[n - 1].isSnake8 = Snake8Enabled(n)
  /\ Snake8Enabled(n) => shared[n - 1].freq = TableOf(n)

\* Operations that are about to read the validator in turn or the table.
Reading == {"time", "seal", "slash", "rate", "delay", "append"}

\* SharedInv: as long as nobody passed the parent's own header, the snapshot holds the
\* flag of the block in question and, once its table is known, that table.
SharedInv ==
  /\ TypeOK
  /\ \A t \in Goroutines :
       task[t] # Idle /\ task[t].clean =>
         /\ shared[task[t].block - 1].isSnake8 = Snake8Enabled(task[t].block)
         /\ task[t].op \in Reading => Speaks(task[t].block)
  /\ TRUE \notin wrong

----------------------------------------------------------------------------
\* InitHolds: nothing is being decided at the start.
LEMMA InitHolds == ASSUME LastBlock \in Nat, SharedInit PROVE SharedInv
<1>1. TypeOK
  BY DEF SharedInit, TypeOK, NoTable, Goroutines
<1>2. \A t \in Goroutines : task[t] = Idle
  BY DEF SharedInit, Goroutines
<1>3. TRUE \notin wrong
  BY DEF SharedInit
<1> QED BY <1>1, <1>2, <1>3, Zenon DEF SharedInv

\* SpeaksRight: inturnValidator on a snapshot that speaks for block n answers as
\* the header of block n does.
LEMMA SpeaksRight ==
  ASSUME NEW n \in 1..LastBlock, Speaks(n)
  PROVE  InturnInSnapshot(n) = InturnByHeader(n)
BY DEF Speaks, InturnInSnapshot, InturnByHeader, TableOf, NoTable

\* WriteKeeps: what a call of snapshot() for a block in question writes leaves
\* the snapshot right for all who work on that block.
LEMMA WriteKeeps ==
  ASSUME LastBlock \in Nat, SharedInv,
         NEW t \in Goroutines, NEW op \in Ops, NEW n \in 1..LastBlock, NEW freq \in Nat,
         Snake8Enabled(n) => freq \in {TableOf(n), shared[n - 1].freq},
         Snake8Enabled(n) /\ op \in Reading => freq = TableOf(n),
         shared' = [shared EXCEPT ![n - 1] = [isSnake8 |-> Snake8Enabled(n), freq |-> freq]],
         task' = [task EXCEPT ![t] = [op |-> op, block |-> n, clean |-> TRUE]],
         UNCHANGED <<checked, imported, wrong>>
  PROVE  SharedInv'
<1> USE DEF SharedInv
<1> DEFINE new == [isSnake8 |-> Snake8Enabled(n), freq |-> freq]
<1>1. n - 1 \in 0..LastBlock
  OBVIOUS
<1>2. Snake8Enabled(n) \in BOOLEAN
  BY DEF Snake8Enabled
<1>3. new \in [isSnake8 : BOOLEAN, freq : Nat]
  BY <1>2
<1>4. [op |-> op, block |-> n, clean |-> TRUE] \in Tasks
  BY DEF Tasks
<1>5. TypeOK'
  BY <1>1, <1>3, <1>4 DEF TypeOK
<1>6. ASSUME NEW u \in Goroutines, (task[u] # Idle /\ task[u].clean)'
      PROVE  /\ (shared[task[u].block - 1].isSnake8 = Snake8Enabled(task[u].block))'
             /\ (task[u].op \in Reading => Speaks(task[u].block))'
  <2>1. CASE u = t
    <3>1. task'[u] = [op |-> op, block |-> n, clean |-> TRUE]
      BY <1>1, <2>1 DEF TypeOK
    <3>2. shared'[n - 1] = new
      BY <1>1 DEF TypeOK
    <3> QED BY <3>1, <3>2 DEF Speaks, Snake8Enabled, TableOf
  <2>2. CASE u # t
    <3>1. task'[u] = task[u] /\ task[u] \in Tasks
      BY <1>1, <1>6, <2>2 DEF TypeOK
    <3>2. CASE task[u].block = n
      <4>1. shared'[n - 1] = new
        BY <1>1 DEF TypeOK
      <4>2. shared[n - 1].isSnake8 = Snake8Enabled(n) /\ (task[u].op \in Reading => Speaks(n))
        BY <1>6, <3>1, <3>2
      <4> QED BY <3>1, <3>2, <4>1, <4>2 DEF Speaks, Snake8Enabled, TableOf
    <3>3. CASE task[u].block # n
      <4>1. task[u].block \in 1..LastBlock
        BY <3>1 DEF Tasks
      <4>2. shared'[task[u].block - 1] = shared[task[u].block - 1]
        BY <1>1, <3>3, <4>1 DEF TypeOK
      <4> QED BY <1>6, <3>1, <4>2 DEF Speaks, Snake8Enabled, TableOf
    <3> QED BY <3>2, <3>3
  <2> QED BY <2>1, <2>2
<1> QED BY <1>5, <1>6, Zenon

\* FetchForBlock: a call that passes the header of the block in question.
LEMMA FetchForBlock ==
  ASSUME LastBlock \in Nat, SharedInv,
         NEW t \in Goroutines, NEW op \in Ops, NEW n \in 1..LastBlock,
         Fetch(t, op, n, TableOf(n)), UNCHANGED <<checked, imported, wrong>>
  PROVE  SharedInv'
<1> DEFINE freq == IF Snake8Enabled(n) THEN TableOf(n) ELSE shared[n - 1].freq
<1>1. TypeOK /\ n - 1 \in 0..LastBlock
  BY DEF SharedInv
<1>2. freq \in Nat /\ (Snake8Enabled(n) => freq = TableOf(n) /\ TableOf(n) # NoTable)
  BY <1>1 DEF TypeOK, TableOf, NoTable
<1>3. /\ shared' = [shared EXCEPT ![n - 1] = [isSnake8 |-> Snake8Enabled(n), freq |-> freq]]
      /\ task' = [task EXCEPT ![t] = [op |-> op, block |-> n, clean |-> TRUE]]
  BY <1>1, <1>2, Zenon DEF Fetch, Populated, TypeOK
<1> HIDE DEF freq
<1> QED BY <1>2, <1>3, WriteKeeps, Zenon

\* FetchWithout: a call of Prepare, which passes no header.
LEMMA FetchWithout ==
  ASSUME LastBlock \in Nat, SharedInv,
         NEW t \in Goroutines, NEW op \in Ops \ Reading, NEW n \in 1..LastBlock,
         Fetch(t, op, n, NoTable), UNCHANGED <<checked, imported, wrong>>
  PROVE  SharedInv'
<1> DEFINE freq == shared[n - 1].freq
<1>1. TypeOK /\ n - 1 \in 0..LastBlock
  BY DEF SharedInv
<1>2. freq \in Nat
  BY <1>1 DEF TypeOK
<1>3. /\ shared' = [shared EXCEPT ![n - 1] = [isSnake8 |-> Snake8Enabled(n), freq |-> freq]]
      /\ task' = [task EXCEPT ![t] = [op |-> op, block |-> n, clean |-> TRUE]]
  BY <1>1 DEF Fetch, Populated, TypeOK
<1>4. freq = shared[n - 1].freq
  OBVIOUS
<1> HIDE DEF freq
<1> QED BY <1>2, <1>3, <1>4, WriteKeeps, Zenon

\* DecideKeeps: a decision that is right unless somebody passed the parent's own
\* header adds no wrong one; the task goes on or ends.
LEMMA DecideKeeps ==
  ASSUME LastBlock \in Nat, SharedInv,
         NEW t \in Goroutines, NEW op \in Ops \cup {"idle"}, NEW right \in BOOLEAN,
         task[t] \in Tasks, task[t].clean => right,
         op \in Reading => task[t].op \in Reading,
         Decide(t, right, op), UNCHANGED shared, (checked \in 0..LastBlock)', (imported \in 0..LastBlock)'
  PROVE  SharedInv'
<1> USE DEF SharedInv
<1>1. /\ wrong' = IF right THEN wrong ELSE wrong \cup {task[t].clean}
      /\ task' = [task EXCEPT ![t] = IF right /\ op # "idle" THEN [task[t] EXCEPT !.op = op] ELSE Idle]
  BY DEF Decide
<1>2. TRUE \notin wrong'
  BY <1>1, Zenon DEF Tasks
<1>3. op # "idle" => [task[t] EXCEPT !.op = op] \in Tasks
  BY DEF Tasks
<1>4. TypeOK'
  BY <1>1, <1>3 DEF TypeOK
<1>5. ASSUME NEW u \in Goroutines, (task[u] # Idle /\ task[u].clean)'
      PROVE  /\ (shared[task[u].block - 1].isSnake8 = Snake8Enabled(task[u].block))'
             /\ (task[u].op \in Reading => Speaks(task[u].block))'
  <2>1. task[u] \in Tasks /\ task'[u].block = task[u].block /\ task[u].clean
    BY <1>1, <1>5 DEF TypeOK, Tasks
  <2>2. task'[u].op \in Reading => task[u].op \in Reading
    BY <1>1, <1>5 DEF TypeOK, Tasks
  <2>3. task[u] # Idle
    BY <2>1 DEF Tasks, Idle, Ops
  <2> QED BY <2>1, <2>2, <2>3 DEF Speaks, Snake8Enabled, TableOf
<1> QED BY <1>2, <1>4, <1>5, Zenon

\* OwnHeaderKeeps: a call with the own header of block k marks every task for
\* which it changed the snapshot.
LEMMA OwnHeaderKeeps ==
  ASSUME LastBlock \in Nat, SharedInv, NEW k \in 1..imported, OwnHeader(k)
  PROVE  SharedInv'
<1> USE DEF SharedInv
<1> DEFINE new == [isSnake8 |-> Snake8Enabled(k),
                   freq     |-> IF Snake8Enabled(k) /\ TableOf(k) # NoTable
                                THEN TableOf(k) ELSE shared[k].freq]
           Hit(u) == task[u] # Idle /\ task[u].block = k + 1 /\ shared'[k] # shared[k]
<1>1. /\ k \in 0..LastBlock
      /\ shared' = [shared EXCEPT ![k] = new]
      /\ task' = [u \in DOMAIN task |-> IF Hit(u) THEN [task[u] EXCEPT !.clean = FALSE] ELSE task[u]]
      /\ UNCHANGED <<checked, imported, wrong>>
  BY DEF OwnHeader, Populated, TypeOK
<1>2. new \in [isSnake8 : BOOLEAN, freq : Nat]
  <2>1. Snake8Enabled(k) \in BOOLEAN /\ TableOf(k) \in Nat
    BY <1>1 DEF Snake8Enabled, TableOf, NoTable
  <2> QED BY <1>1, <2>1 DEF TypeOK
<1>3. \A u \in Goroutines : Hit(u) => [task[u] EXCEPT !.clean = FALSE] \in Tasks
  BY Zenon DEF TypeOK, Tasks
<1>4. TypeOK'
  BY <1>1, <1>2, <1>3 DEF TypeOK
<1>5. ASSUME NEW u \in Goroutines, (task[u] # Idle /\ task[u].clean)'
      PROVE  /\ (shared[task[u].block - 1].isSnake8 = Snake8Enabled(task[u].block))'
             /\ (task[u].op \in Reading => Speaks(task[u].block))'
  <2>1. ~Hit(u) /\ task'[u] = task[u] /\ task[u] \in Tasks
    BY <1>1, <1>3, <1>5 DEF TypeOK, Tasks
  <2>2. task[u].block \in 1..LastBlock
    BY <2>1 DEF Tasks
  <2>3. shared'[task[u].block - 1] = shared[task[u].block - 1]
    BY <1>1, <1>5, <2>1, <2>2 DEF TypeOK
  <2> QED BY <1>5, <2>1, <2>3 DEF Speaks, Snake8Enabled, TableOf
<1> QED BY <1>1, <1>4, <1>5, Zenon

\* BusyIsTask: a goroutine with an operation has a block in question.
LEMMA BusyIsTask ==
  ASSUME TypeOK, NEW t \in Goroutines, task[t].op \in Ops
  PROVE  task[t] \in Tasks /\ task[t] # Idle /\ task[t].block \in 1..LastBlock
BY DEF TypeOK, Tasks, Idle, Ops

\* CleanIsRight: a task that is about to read, and was not disturbed, reads the
\* validator in turn that the header gives.
LEMMA CleanIsRight ==
  ASSUME LastBlock \in Nat, SharedInv, NEW t \in Goroutines, task[t].op \in Reading
  PROVE  task[t].clean => /\ Speaks(task[t].block)
                          /\ InturnInSnapshot(task[t].block) = InturnByHeader(task[t].block)
<1>1. task[t] # Idle /\ task[t].block \in 1..LastBlock
  BY BusyIsTask DEF SharedInv, Reading, Ops
<1>2. task[t].clean => Speaks(task[t].block)
  BY <1>1 DEF SharedInv
<1> QED BY <1>1, <1>2, SpeaksRight

\* NextKeeps: every step of verification, import and miner, and every call with
\* an own header, preserves the invariant.
LEMMA NextKeeps == ASSUME LastBlock \in Nat, SharedInv, SharedNext PROVE SharedInv'
<1> USE DEF Goroutines
<1>a. TypeOK
  BY DEF SharedInv
<1>1. CASE VerifyCascadingFields
  <2>1. checked + 1 \in 1..LastBlock
    BY <1>a, <1>1 DEF VerifyCascadingFields, TypeOK
  <2>2. Fetch("verify", "time", checked + 1, TableOf(checked + 1)) /\ UNCHANGED <<checked, imported, wrong>>
    BY <1>1 DEF VerifyCascadingFields
  <2>3. "verify" \in Goroutines /\ "time" \in Ops
    BY DEF Ops
  <2> QED BY <2>1, <2>2, <2>3, FetchForBlock
<1>2. CASE BlockTimeVerify
  <2> DEFINE n == task["verify"].block
             right == InturnInSnapshot(n) = InturnByHeader(n)
  <2>1. task["verify"].op \in Reading /\ task["verify"].op \in Ops
    BY <1>2 DEF BlockTimeVerify, Reading, Ops
  <2>2. task["verify"].clean => right
    BY <2>1, CleanIsRight
  <2>3. Decide("verify", right, "timed") /\ UNCHANGED shared /\ UNCHANGED <<checked, imported>>
    BY <1>2 DEF BlockTimeVerify
  <2>4. right \in BOOLEAN /\ "timed" \in Ops
    BY DEF Ops
  <2> HIDE DEF right
  <2> QED BY <1>a, <2>1, <2>2, <2>3, <2>4, BusyIsTask, DecideKeeps DEF TypeOK
<1>3. CASE VerifySealHeader
  <2>1. task["verify"].block \in 1..LastBlock
    BY <1>a, <1>3, BusyIsTask DEF VerifySealHeader, Ops
  <2>2. Fetch("verify", "seal", task["verify"].block, TableOf(task["verify"].block)) /\ UNCHANGED <<checked, imported, wrong>>
    BY <1>3 DEF VerifySealHeader
  <2>3. "verify" \in Goroutines /\ "seal" \in Ops
    BY DEF Ops
  <2> QED BY <2>1, <2>2, <2>3, FetchForBlock
<1>4. CASE VerifyDifficulty
  <2> DEFINE n == task["verify"].block
             right == (InturnInSnapshot(n) = Sealer[n]) = (InturnByHeader(n) = Sealer[n])
  <2>1. task["verify"].op \in Reading /\ task["verify"].op \in Ops
    BY <1>4 DEF VerifyDifficulty, Reading, Ops
  <2>2. task["verify"].clean => right
    BY <2>1, CleanIsRight
  <2>3. /\ Decide("verify", right, "idle") /\ UNCHANGED shared /\ UNCHANGED imported
        /\ checked' = IF right THEN n ELSE checked
    BY <1>4 DEF VerifyDifficulty
  <2>4. right \in BOOLEAN
    OBVIOUS
  <2> HIDE DEF right
  <2>5. task["verify"] \in Tasks /\ n \in 1..LastBlock
    BY <1>a, <2>1, BusyIsTask
  <2>6. checked' \in 0..LastBlock /\ imported' \in 0..LastBlock
    BY <1>a, <2>3, <2>5 DEF TypeOK
  <2>7. "verify" \in Goroutines /\ "idle" \notin Reading
    BY DEF Reading
  <2> QED BY <2>2, <2>3, <2>4, <2>5, <2>6, <2>7, DecideKeeps
<1>5. CASE ImportInTurn
  <2>1. /\ UNCHANGED <<shared, checked, task, wrong>> /\ imported' = imported + 1 /\ imported < checked
    BY <1>5 DEF ImportInTurn
  <2>2. TypeOK'
    BY <1>a, <2>1 DEF TypeOK
  <2> QED BY <2>1, <2>2, Zenon DEF SharedInv, Speaks, Snake8Enabled, TableOf
<1>6. CASE Finalize
  <2>1. imported + 1 \in 1..LastBlock
    BY <1>a, <1>6 DEF Finalize, TypeOK
  <2>2. Fetch("import", "slash", imported + 1, TableOf(imported + 1)) /\ UNCHANGED <<checked, imported, wrong>>
    BY <1>6 DEF Finalize
  <2>3. "import" \in Goroutines /\ "slash" \in Ops
    BY DEF Ops
  <2> QED BY <2>1, <2>2, <2>3, FetchForBlock
<1>7. CASE Slash
  <2> DEFINE n == task["import"].block
             right == InturnInSnapshot(n) = InturnByHeader(n)
  <2>1. task["import"].op \in Reading /\ task["import"].op \in Ops
    BY <1>7 DEF Slash, Reading, Ops
  <2>2. task["import"].clean => right
    BY <2>1, CleanIsRight
  <2>3. /\ Decide("import", right, "idle") /\ UNCHANGED shared /\ UNCHANGED checked
        /\ imported' = IF right THEN n ELSE imported
    BY <1>7 DEF Slash
  <2>4. right \in BOOLEAN
    OBVIOUS
  <2> HIDE DEF right
  <2>5. task["import"] \in Tasks /\ n \in 1..LastBlock
    BY <1>a, <2>1, BusyIsTask
  <2>6. checked' \in 0..LastBlock /\ imported' \in 0..LastBlock
    BY <1>a, <2>3, <2>5 DEF TypeOK
  <2>7. "import" \in Goroutines /\ "idle" \notin Reading
    BY DEF Reading
  <2> QED BY <2>2, <2>3, <2>4, <2>5, <2>6, <2>7, DecideKeeps
<1>8. CASE Prepare
  <2>1. imported + 1 \in 1..LastBlock
    BY <1>a, <1>8 DEF Prepare, TypeOK
  <2>2. Fetch("mine", "calc", imported + 1, NoTable) /\ UNCHANGED <<checked, imported, wrong>>
    BY <1>8 DEF Prepare
  <2>3. "mine" \in Goroutines /\ "calc" \in Ops \ Reading
    BY DEF Ops, Reading
  <2> QED BY <2>1, <2>2, <2>3, FetchWithout
<1>9. CASE CalcFrequency
  <2> DEFINE n == task["mine"].block
  <2>1. task["mine"] \in Tasks /\ task["mine"] # Idle /\ n \in 1..LastBlock
    BY <1>a, <1>9, BusyIsTask DEF CalcFrequency, Ops
  <2>2. /\ shared' = IF Snake8Enabled(n) THEN [shared EXCEPT ![n - 1].freq = TableOf(n)] ELSE shared
        /\ task' = [task EXCEPT !["mine"].op = "rate"]
        /\ UNCHANGED <<checked, imported, wrong>>
    BY <1>9 DEF CalcFrequency
  <2>3. n - 1 \in 0..LastBlock /\ TableOf(n) \in Nat
    BY <2>1 DEF TableOf, NoTable
  <2>4. TypeOK'
    BY <1>a, <2>1, <2>2, <2>3, Zenon DEF TypeOK, Tasks, Ops
  <2>5. ASSUME NEW u \in Goroutines, (task[u] # Idle /\ task[u].clean)'
        PROVE  /\ (shared[task[u].block - 1].isSnake8 = Snake8Enabled(task[u].block))'
               /\ (task[u].op \in Reading => Speaks(task[u].block))'
    <3>1. /\ task[u] \in Tasks /\ task[u] # Idle /\ task[u].clean /\ task'[u].block = task[u].block
          /\ task'[u].op = IF u = "mine" THEN "rate" ELSE task[u].op
      BY <1>a, <2>1, <2>2, <2>5 DEF TypeOK, Tasks
    <3>2. task[u].block \in 1..LastBlock
      BY <3>1 DEF Tasks
    <3>3. shared'[task[u].block - 1] = IF task[u].block = n /\ Snake8Enabled(n)
                                     THEN [shared[n - 1] EXCEPT !.freq = TableOf(n)]
                                     ELSE shared[task[u].block - 1]
      <4>1. CASE Snake8Enabled(n)
        <5>1. shared' = [shared EXCEPT ![n - 1] = [shared[n - 1] EXCEPT !.freq = TableOf(n)]]
          BY <2>2, <4>1
        <5>2. task[u].block - 1 \in 0..LastBlock /\ (task[u].block - 1 = n - 1 <=> task[u].block = n)
          BY <2>1, <3>2
        <5> HIDE DEF n
        <5> QED BY <1>a, <2>3, <4>1, <5>1, <5>2 DEF TypeOK
      <4>2. CASE ~Snake8Enabled(n)
        BY <2>2, <4>2
      <4> QED BY <4>1, <4>2
    <3>4. /\ shared[task[u].block - 1].isSnake8 = Snake8Enabled(task[u].block)
          /\ task[u].op \in Reading => Speaks(task[u].block)
      BY <3>1 DEF SharedInv
    <3>5. shared[n - 1] \in [isSnake8 : BOOLEAN, freq : Nat]
      BY <1>a, <2>3 DEF TypeOK
    <3> QED BY <3>1, <3>3, <3>4, <3>5 DEF Speaks, Snake8Enabled, TableOf
  <2> QED BY <2>2, <2>4, <2>5, Zenon DEF SharedInv
<1>10. CASE Rate
  <2> DEFINE n == task["mine"].block
             right == InturnInSnapshot(n) = InturnByHeader(n)
             op == IF task["mine"].op = "rate" THEN "delay" ELSE "append"
  <2>1. task["mine"].op \in Reading /\ task["mine"].op \in Ops
    BY <1>10 DEF Rate, Reading, Ops
  <2>2. task["mine"].clean => right
    BY <2>1, CleanIsRight
  <2>3. Decide("mine", right, op) /\ UNCHANGED shared /\ UNCHANGED <<checked, imported>>
    BY <1>10 DEF Rate
  <2>4. right \in BOOLEAN /\ op \in Ops
    BY DEF Ops
  <2> HIDE DEF right, op
  <2> QED BY <1>a, <2>1, <2>2, <2>3, <2>4, BusyIsTask, DecideKeeps DEF TypeOK
<1>11. CASE AppendTable
  <2> DEFINE n == task["mine"].block
             right == Snake8Enabled(n) => shared[n - 1].freq = TableOf(n)
  <2>1. task["mine"].op \in Reading /\ task["mine"].op \in Ops
    BY <1>11 DEF AppendTable, Reading, Ops
  <2>2. task["mine"].clean => right
    BY <2>1, CleanIsRight DEF Speaks
  <2>3. Decide("mine", right, "idle") /\ UNCHANGED shared /\ UNCHANGED <<checked, imported>>
    BY <1>11 DEF AppendTable
  <2>4. right \in BOOLEAN
    OBVIOUS
  <2> HIDE DEF right
  <2> QED BY <1>a, <2>1, <2>2, <2>3, <2>4, BusyIsTask, DecideKeeps, Zenon DEF TypeOK, Reading
<1>12. CASE \E k \in 1..imported : OwnHeader(k)
  BY <1>12, OwnHeaderKeeps
<1> QED BY <1>1, <1>2, <1>3, <1>4, <1>5, <1>6, <1>7, <1>8, <1>9, <1>10, <1>11, <1>12 DEF SharedNext

\* OnlyOwnHeaders: for every chain, fork block, sealer and table, verification,
\* import and miner read what the header in question says from the snapshot they
\* share, unless a call of snapshot() with the parent's own header came between.
THEOREM OnlyOwnHeaders == ASSUME LastBlock \in Nat PROVE SharedSpec => []OnlyOwnHeaderDisturbs
<1>1. SharedInit => SharedInv
  BY InitHolds
<1>2. SharedInv /\ [SharedNext]_sharedVars => SharedInv'
  <2>1. ASSUME SharedInv, UNCHANGED sharedVars PROVE SharedInv'
    BY <2>1, Zenon DEF SharedInv, TypeOK, sharedVars, Speaks, Snake8Enabled, TableOf
  <2> QED BY <2>1, NextKeeps
<1>3. SharedInv => OnlyOwnHeaderDisturbs
  BY Zenon DEF SharedInv, OnlyOwnHeaderDisturbs
<1> QED BY <1>1, <1>2, <1>3, PTL DEF SharedSpec
----------------------------------------------------------------------------
(***************************************************************************)
(* That, for every set of validators and every shuffle, no two of those    *)
(* that may seal get the same delay.                                       *)
(***************************************************************************)

\* The inductive invariant: delays are those of some shuffle.
DelayInv ==
  /\ sealers \subseteq Members /\ first \in sealers
  /\ barred \subseteq sealers /\ barred # sealers
  /\ fork \in 0..3
  /\ delays # <<>> => \E steps \in Shuffles(Cardinality(Listed)) :
                        delays = [v \in sealers |-> BackOffTime(v, steps)]

LEMMA ListedFinite ==
  ASSUME DelayInv
  PROVE  /\ Listed \subseteq sealers /\ Listed \subseteq Int /\ IsFiniteSet(Listed)
         /\ Cardinality(Listed) \in Nat
<1>1. Listed \subseteq sealers /\ Listed \subseteq Members /\ Listed \subseteq Int
  BY DelayAssumption, Zenon DEF DelayInv, Listed
<1>2. IsFiniteSet(Listed)
  BY <1>1, DelayAssumption, FS_Subset, Zenon
<1> QED BY <1>1, <1>2, FS_CardinalityType, Zenon

\* Two validators in the list have two places in it.
LEMMA PlacesDiffer ==
  ASSUME DelayInv
  PROVE  /\ \A v \in Listed : Index(v) \in 0..(Cardinality(Listed) - 1)
         /\ \A v, w \in Listed : v < w => Index(v) < Index(w)
<1> DEFINE before(v) == {w \in Listed : w < v}
<1>0. /\ Listed \subseteq Int /\ IsFiniteSet(Listed) /\ Cardinality(Listed) \in Nat
  BY ListedFinite
<1>1. ASSUME NEW v \in Listed
      PROVE  /\ IsFiniteSet(before(v)) /\ Cardinality(before(v)) \in Nat
             /\ Cardinality(before(v) \cup {v}) = Cardinality(before(v)) + 1
             /\ IsFiniteSet(before(v) \cup {v})
  <2>1. IsFiniteSet(before(v))
    BY <1>0, FS_Subset, Zenon
  <2>2. v \notin before(v)
    BY <1>0, <1>1
  <2> QED BY <2>1, <2>2, FS_AddElement, FS_CardinalityType, Zenon
<1>2. ASSUME NEW v \in Listed PROVE Index(v) \in 0..(Cardinality(Listed) - 1)
  <2>1. before(v) \cup {v} \in SUBSET Listed
    BY <1>2
  <2>2. Cardinality(before(v) \cup {v}) <= Cardinality(Listed)
    BY <1>0, <2>1, FS_Subset
  <2>3. Index(v) = Cardinality(before(v))
    BY DEF Index
  <2> QED BY <1>0, <1>1, <1>2, <2>2, <2>3
<1>3. ASSUME NEW v \in Listed, NEW w \in Listed, v < w PROVE Index(v) < Index(w)
  <2>1. before(v) \cup {v} \in SUBSET before(w)
    <3> SUFFICES ASSUME NEW u \in before(v) \cup {v} PROVE u \in Listed /\ u < w
      OBVIOUS
    <3>1. u \in Listed /\ u <= v
      BY <1>0, <1>3
    <3> QED BY <1>0, <1>3, <3>1
  <2>2. Cardinality(before(v) \cup {v}) <= Cardinality(before(w))
    BY <1>1, <1>3, <2>1, FS_Subset, Zenon
  <2>3. Index(v) = Cardinality(before(v)) /\ Index(w) = Cardinality(before(w))
    BY DEF Index
  <2>4. /\ Cardinality(before(v)) \in Nat /\ Cardinality(before(w)) \in Nat
        /\ Cardinality(before(v) \cup {v}) = Cardinality(before(v)) + 1
    BY <1>1, <1>3, Zenon
  <2> HIDE DEF before
  <2> QED BY <2>2, <2>3, <2>4
<1> QED BY <1>2, <1>3

\* The steps of the validators in the list are all numbers below its length.
LEMMA StepsOfListed ==
  ASSUME DelayInv, NEW steps \in Shuffles(Cardinality(Listed))
  PROVE  LET n == Cardinality(Listed)
         IN  /\ \A v \in Listed : steps[Index(v)] \in 0..(n - 1)
             /\ \A v, w \in Listed : steps[Index(v)] = steps[Index(w)] => v = w
             /\ \A k \in 0..(n - 1) : \E v \in Listed : steps[Index(v)] = k
<1> DEFINE n == Cardinality(Listed)
           place == [v \in Listed |-> steps[Index(v)]]
<1>0. Listed \subseteq Int /\ IsFiniteSet(Listed) /\ n \in Nat
  BY ListedFinite
<1>1. /\ \A v \in Listed : Index(v) \in 0..(n - 1)
      /\ \A v, w \in Listed : v < w => Index(v) < Index(w)
  BY PlacesDiffer
<1>2. /\ steps \in [0..(n - 1) -> 0..(n - 1)]
      /\ \A i, j \in 0..(n - 1) : steps[i] = steps[j] => i = j
  BY DEF Shuffles
<1> HIDE DEF n
<1>3. \A v \in Listed : steps[Index(v)] \in 0..(n - 1)
  BY <1>1, <1>2
<1>4. ASSUME NEW v \in Listed, NEW w \in Listed, steps[Index(v)] = steps[Index(w)]
      PROVE  v = w
  <2>1. Index(v) = Index(w)
    BY <1>1, <1>2, <1>4
  <2>2. ~(Index(v) < Index(w)) /\ ~(Index(w) < Index(v))
    BY <1>1, <2>1
  <2>3. ~(v < w) /\ ~(w < v)
    BY <1>1, <2>2
  <2> QED BY <1>0, <2>3
<1>5. place \in Injection(Listed, 0..(n - 1))
  BY <1>3, <1>4 DEF Injection, IsInjective
<1>6. IsFiniteSet(0..(n - 1)) /\ Cardinality(0..(n - 1)) = n
  <2>1. n - 1 \in Int /\ 0 \in Int
    BY <1>0
  <2> QED BY <1>0, <2>1, FS_Interval
<1>7. place \in Surjection(Listed, 0..(n - 1))
  BY <1>5, <1>6, FS_Injection DEF n
<1>8. \A k \in 0..(n - 1) : \E v \in Listed : place[v] = k
  BY <1>7, Zenon DEF Surjection
<1> QED BY <1>3, <1>4, <1>8 DEF n

\* What backOffTime makes of a step: no step twice.
DelayOf(k) ==
  IF FirstDelay = 0 /\ LorentzOn THEN IF k = 0 THEN 0 ELSE LorentzBackOff + k - 1
  ELSE FirstDelay + k

LEMMA DelaysDiffer ==
  /\ FirstDelay \in Nat
  /\ \A k \in Nat : DelayOf(k) \in Nat
  /\ \A j, k \in Nat : DelayOf(j) = DelayOf(k) => j = k
<1>1. FirstDelay \in Nat /\ LorentzBackOff \in Nat \ {0}
  BY DelayAssumption DEF FirstDelay
<1> QED BY <1>1 DEF DelayOf

\* Those that may seal, but for the one in turn, are all in the list; from Bohr
\* on, or when the one in turn may not seal, they are the list.
LEMMA OthersListed ==
  ASSUME DelayInv
  PROVE  /\ Free \ {first} \subseteq Listed /\ Free \ {first} \subseteq sealers
         /\ BohrOn => Free \ {first} = Listed
         /\ (PlanckOn /\ first \notin Free) => Free \ {first} = Listed
         /\ first \notin Free => Free \ {first} # {}
<1>1. BohrOn => PlanckOn
  BY DEF DelayInv, BohrOn, PlanckOn
<1> QED BY <1>1, Zenon DEF DelayInv, Free, Listed

\* DelaysAreSlots: OneSlotEach for every set of validators, every one of them in
\* turn, every history that leaves somebody free to seal, all forks and every
\* shuffle: backOffTime gives no slot of the next block to two validators.
THEOREM DelaysAreSlots == DelaySpec => []OneSlotEach
<1>1. DelayInit => DelayInv
  <2> SUFFICES ASSUME DelayInit PROVE DelayInv
    OBVIOUS
  <2>1. sealers \subseteq Members /\ first \in sealers /\ barred \subseteq sealers /\ fork \in 0..3
    BY DEF DelayInit
  <2>2. IsFiniteSet(sealers) /\ Cardinality(sealers) \in Nat /\ Cardinality(sealers) # 0
    <3>1. IsFiniteSet(sealers)
      BY <2>1, DelayAssumption, FS_Subset, Zenon
    <3> QED BY <2>1, <3>1, FS_CardinalityType, FS_EmptySet, Zenon
  <2>3. 2 * Cardinality(barred) <= Cardinality(sealers) /\ delays = <<>>
    BY DEF DelayInit
  <2>4. barred # sealers
    BY <2>2, <2>3
  <2> QED BY <2>1, <2>3, <2>4 DEF DelayInv
<1>2. DelayInv /\ [Shuffle]_delayVars => DelayInv'
  <2> SUFFICES ASSUME DelayInv, [Shuffle]_delayVars PROVE DelayInv'
    OBVIOUS
  <2>1. UNCHANGED <<sealers, barred, first, fork>>
    BY DEF Shuffle, delayVars
  <2>2. /\ Listed' = Listed /\ Shuffles(Cardinality(Listed))' = Shuffles(Cardinality(Listed))
        /\ \A v, steps : BackOffTime(v, steps)' = BackOffTime(v, steps)
    BY <2>1 DEF Listed, Shuffles, BackOffTime, Index, FirstDelay, PlanckOn, BohrOn, LorentzOn
  <2>3. ASSUME delays' # <<>>
        PROVE  \E steps \in Shuffles(Cardinality(Listed)) :
                 delays' = [v \in sealers |-> BackOffTime(v, steps)]
    BY <2>3 DEF Shuffle, delayVars, DelayInv
  <2> QED BY <2>1, <2>2, <2>3 DEF DelayInv
<1>3. DelayInv => OneSlotEach
  <2> DEFINE F == Free \ {first}
             n == Cardinality(F)
             others == {delays[v] : v \in F}
  <2> SUFFICES ASSUME DelayInv, delays # <<>>
               PROVE  /\ Cardinality(others) = n
                      /\ first \in Free => delays[first] = 0 /\ 0 \notin others
                      /\ (PlanckOn /\ first \notin Free) => 0 \in others
                      /\ LorentzOn => others = IF first \in Free
                                               THEN LorentzBackOff..(LorentzBackOff + n - 1)
                                               ELSE {0} \cup LorentzBackOff..(LorentzBackOff + n - 2)
    BY Zenon DEF OneSlotEach
  <2>1. PICK steps \in Shuffles(Cardinality(Listed)) :
               delays = [v \in sealers |-> BackOffTime(v, steps)]
    BY DEF DelayInv
  <2> DEFINE place(v) == steps[Index(v)]
             m == Cardinality(Listed)
  <2>2. /\ \A v \in Listed : place(v) \in 0..(m - 1)
        /\ \A v, w \in Listed : place(v) = place(w) => v = w
        /\ \A k \in 0..(m - 1) : \E v \in Listed : place(v) = k
    BY StepsOfListed
  <2>3. /\ F \subseteq Listed /\ F \subseteq sealers
        /\ BohrOn => F = Listed
        /\ (PlanckOn /\ first \notin Free) => F = Listed
        /\ first \notin Free => F # {}
    BY OthersListed
  <2>4. \A v \in F : delays[v] = DelayOf(place(v))
    BY <2>1, <2>3 DEF BackOffTime, DelayOf
  <2>5. delays[first] = 0
    BY <2>1 DEF BackOffTime, DelayInv
  <2>6. /\ FirstDelay \in Nat
        /\ \A k \in Nat : DelayOf(k) \in Nat
        /\ \A j, k \in Nat : DelayOf(j) = DelayOf(k) => j = k
    BY DelaysDiffer
  <2>7. m \in Nat /\ IsFiniteSet(Listed)
    BY ListedFinite
  <2> HIDE DEF m, place
  <2>8. IsFiniteSet(F)
    BY <2>3, <2>7, FS_Subset, Zenon
  <2> HIDE DEF F
  <2>9. \A v \in F : place(v) \in Nat
    BY <2>2, <2>3, <2>7
  <2>10. Cardinality(others) = n
    <3> DEFINE g == [v \in F |-> delays[v]]
    <3>1. \A v, w \in F : delays[v] = delays[w] => v = w
      BY <2>2, <2>3, <2>4, <2>6, <2>9, Zenon
    <3>2. g \in Injection(F, others)
      BY <3>1 DEF Injection, IsInjective
    <3>3. g \in Surjection(F, others)
      BY DEF Surjection
    <3> QED BY <2>8, <3>2, <3>3, FS_Surjection, Zenon
  <2>11. first \in Free => 0 \notin others
    <3>1. first \in Free => FirstDelay # 0
      BY DelayAssumption DEF Free, FirstDelay
    <3>2. FirstDelay # 0 => \A k \in Nat : DelayOf(k) # 0
      BY <2>6 DEF DelayOf
    <3> QED BY <2>4, <2>9, <3>1, <3>2
  <2>12. (PlanckOn /\ first \notin Free) => 0 \in others
    <3> SUFFICES ASSUME PlanckOn, first \notin Free PROVE 0 \in others
      OBVIOUS
    <3>1. F = Listed /\ Listed # {}
      BY <2>3
    <3>2. 0 \in 0..(m - 1)
      <4>1. m # 0
        BY <2>7, <3>1, FS_EmptySet DEF m
      <4> QED BY <2>7, <4>1
    <3>3. PICK v \in F : place(v) = 0
      BY <2>2, <3>1, <3>2
    <3>4. FirstDelay = 0
      BY DEF FirstDelay, DelayInv, Free
    <3>5. DelayOf(0) = 0
      BY <3>4 DEF DelayOf
    <3> QED BY <2>4, <3>3, <3>5
  <2>13. ASSUME LorentzOn
         PROVE  others = IF first \in Free
                         THEN LorentzBackOff..(LorentzBackOff + n - 1)
                         ELSE {0} \cup LorentzBackOff..(LorentzBackOff + n - 2)
    <3>1. BohrOn /\ PlanckOn
      BY <2>13 DEF LorentzOn, BohrOn, PlanckOn, DelayInv
    <3>2. F = Listed /\ n = m
      BY <2>3, <3>1 DEF m
    <3> HIDE DEF n
    <3>3. others = {DelayOf(k) : k \in 0..(m - 1)}
      BY <2>2, <2>4, <3>2
    <3>4. first \notin Free => n # 0
      BY <2>3, <2>8, FS_EmptySet DEF n
    <3>5. FirstDelay = IF first \in Free THEN LorentzBackOff ELSE 0
      BY <2>13, <3>1 DEF FirstDelay, DelayInv, Free
    <3>6. CASE first \in Free
      <4>1. \A k \in 0..(m - 1) : DelayOf(k) = LorentzBackOff + k
        BY <3>5, <3>6, DelayAssumption DEF DelayOf
      <4>2. others = {LorentzBackOff + k : k \in 0..(m - 1)}
        BY <3>3, <4>1, Zenon
      <4>3. ASSUME NEW x \in LorentzBackOff..(LorentzBackOff + m - 1)
            PROVE  x \in {LorentzBackOff + k : k \in 0..(m - 1)}
        <5>1. x - LorentzBackOff \in 0..(m - 1) /\ x = LorentzBackOff + (x - LorentzBackOff)
          BY <2>7, DelayAssumption
        <5> QED BY <5>1
      <4>4. \A k \in 0..(m - 1) : LorentzBackOff + k \in LorentzBackOff..(LorentzBackOff + m - 1)
        BY <2>7, DelayAssumption
      <4> QED BY <3>2, <3>6, <4>2, <4>3, <4>4, Zenon
    <3>7. CASE first \notin Free
      <4>0. m \in Nat \ {0}
        BY <2>7, <3>2, <3>4, <3>7
      <4>1. \A k \in 0..(m - 1) : DelayOf(k) = IF k = 0 THEN 0 ELSE LorentzBackOff + k - 1
        BY <2>13, <3>5, <3>7, DelayAssumption DEF DelayOf
      <4>3. ASSUME NEW x \in {0} \cup LorentzBackOff..(LorentzBackOff + m - 2)
            PROVE  x \in others
        <5>1. CASE x = 0
          <6>1. 0 \in 0..(m - 1) /\ DelayOf(0) = 0
            BY <4>0, <4>1
          <6> QED BY <3>3, <5>1, <6>1
        <5>2. CASE x # 0
          <6>1. /\ x - LorentzBackOff + 1 \in 0..(m - 1) /\ x - LorentzBackOff + 1 # 0
                /\ x = LorentzBackOff + (x - LorentzBackOff + 1) - 1
            BY <4>0, <4>3, <5>2, DelayAssumption
          <6>2. DelayOf(x - LorentzBackOff + 1) = x
            BY <4>1, <6>1
          <6> QED BY <3>3, <6>1, <6>2, Zenon
        <5> QED BY <5>1, <5>2
      <4>4. \A k \in 0..(m - 1) : DelayOf(k) \in {0} \cup LorentzBackOff..(LorentzBackOff + m - 2)
        BY <4>0, <4>1, DelayAssumption
      <4> QED BY <3>2, <3>3, <3>7, <4>3, <4>4, Zenon
    <3> QED BY <3>6, <3>7
  <2> QED BY <2>5, <2>10, <2>11, <2>12, <2>13
<1> QED BY <1>1, <1>2, <1>3, PTL DEF DelaySpec
============================================================================
