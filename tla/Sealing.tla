------------------------------- MODULE Sealing -------------------------------
(***************************************************************************)
(* How one validator turns a head into a block of its own: the four loops  *)
(* of miner/worker.go, the goroutines that Parlia.Seal starts, and blocks  *)
(* of other validators imported meanwhile (core/blockchain.go).  The loops *)
(* share the head, which each of them reads at a time of its own.          *)
(***************************************************************************)
EXTENDS Integers, Sequences, FiniteSets

CONSTANTS
  Val,              \* this validator
  Peers,            \* the others; with at most three validators the signer
                    \* of the parent, and nobody else, has signed recently
  Leader,           \* the validator in turn, by block number
  Txs,              \* what a block may be filled with; 0 is nothing
  MaxNumber,        \* bound: the highest block number
  MaxTime,          \* bound: after it, time does not tell blocks apart
  MaxPeerBlocks,    \* bound: blocks of others
  MaxSeals,         \* bound: goroutines of Seal that have not returned
  MaxRestarts,      \* bound: restarts of the node
  ResultQueueSize   \* resultQueueSize

ASSUME SealingAssumption ==
  /\ Val \notin Peers /\ 0 \in Txs
  /\ ResultQueueSize \in Nat \ {0}

VARIABLES
  now,        \* the clock
  head,       \* CurrentBlock
  known,      \* the blocks in the database
  verified,   \* highestVerifiedHeader, in a set
  chainmu,    \* what holds the chain mutex: a block being written
  headCh,     \* chainHeadCh
  request,    \* newWorkLoop is sending to newWorkCh
  due,        \* its timer has fired
  work,       \* the work that commitWork is building, in a set
  prev,       \* the last task, in a set
  seals,      \* the goroutines of Seal
  results,    \* resultCh
  mined,      \* recentMinedBlocks, as pairs; 20 numbers are more than MaxNumber
  announced,  \* the blocks this validator has sent to its peers
  restarts

chainVars == <<head, known, verified, chainmu>>
taskVars  == <<prev, seals>>
vars == <<now, chainVars, headCh, request, due, work, taskVars, results, mined, announced, restarts>>

----------------------------------------------------------------------------
\* Blocks.  The hash of a block is the block.

Root == [parent |-> [number |-> 0], number |-> 1, td |-> 0, miner |-> "root", time |-> 0, txs |-> 0]

InTurn(m, n) == Leader[n] = m

\* parent time, block interval and the back-off of a validator out of turn
Slot(p, m) == p.time + (IF InTurn(m, p.number + 1) THEN 1 ELSE 2)

Block(p, m, t, txs) ==
  [parent |-> p, number |-> p.number + 1, miner |-> m, time |-> t, txs |-> txs,
   td |-> p.td + (IF InTurn(m, p.number + 1) THEN 2 ELSE 1)]

SignRecently(p, m) == p.miner = m

\* ReorgNeeded: the answers that hashes and chance may give.
ReorgNeeded(b) ==
  IF b.td # head.td THEN {b.td > head.td}
  ELSE IF b.number # head.number THEN {b.number < head.number}
  ELSE IF b.time # head.time THEN {b.time < head.time}
  ELSE BOOLEAN

\* A validator starts to mine: start() makes newWorkLoop request work.
Init ==
  /\ now = 0 /\ head = Root /\ known = {Root} /\ verified = {} /\ chainmu = {}
  /\ headCh = <<>> /\ request = TRUE /\ due = FALSE /\ work = {}
  /\ prev = {} /\ seals = {} /\ results = <<>> /\ mined = {}
  /\ announced = {} /\ restarts = 0

\* One tick is long enough for the resubmit timer to fire.
Tick ==
  /\ now' = IF now < MaxTime THEN now + 1 ELSE now
  /\ due' = TRUE
  /\ UNCHANGED <<chainVars, headCh, request, work, taskVars, results, mined, announced, restarts>>

----------------------------------------------------------------------------
\* Blocks of others.  insertChain holds the mutex from the verified header to
\* the new head.

PeerBlocks ==
  LET parents == {p \in known : p.number < MaxNumber}
  IN  {b \in {Block(p, m, Slot(p, m), 0) : p \in parents, m \in Peers} :
         /\ ~SignRecently(b.parent, b.miner)
         /\ Cardinality({k \in known : k.miner \in Peers}) < MaxPeerBlocks}

Lock(b, canon) == [block |-> b, canon |-> canon]

\* verified headers and processing; updateHighestVerifiedHeader
InsertChain ==
  \E b \in PeerBlocks \ known :
    /\ chainmu = {} /\ b.time <= now
    /\ \E reorg \in ReorgNeeded(b) : verified' = IF reorg THEN {b} ELSE verified
    /\ \E canon \in ReorgNeeded(b) : chainmu' = {Lock(b, canon)}
    /\ UNCHANGED <<now, head, known, headCh, request, due, work, taskVars, results, mined,
                   announced, restarts>>

\* The second half of writeBlockAndSetHead, for blocks of others and our own.
WriteBlock ==
  \E l \in chainmu :
    /\ chainmu' = {} /\ known' = known \cup {l.block}
    /\ head' = IF l.canon THEN l.block ELSE head
    /\ headCh' = IF l.canon THEN Append(headCh, l.block) ELSE headCh
    /\ UNCHANGED <<now, verified, request, due, work, taskVars, results, mined, announced, restarts>>

----------------------------------------------------------------------------
\* newWorkLoop.  While it is sending to newWorkCh it does nothing else.

Interrupt(signal) == {[w EXCEPT !.signal = signal] : w \in work}

\* case head := <-chainHeadCh
NewHead ==
  /\ headCh # <<>> /\ ~request
  /\ headCh' = Tail(headCh)
  /\ work' = Interrupt("head")
  /\ request' = ~SignRecently(Head(headCh), Val)
  /\ due' = (due /\ request')
  /\ UNCHANGED <<now, chainVars, prev, seals, results, mined, announced, restarts>>

\* case <-timer.C
Resubmit ==
  /\ due /\ ~request
  /\ work' = Interrupt("resubmit")
  /\ request' = TRUE /\ due' = FALSE
  /\ UNCHANGED <<now, chainVars, headCh, taskVars, results, mined, announced, restarts>>

----------------------------------------------------------------------------
\* mainLoop.

\* blockTimeForRamanujanFork
BlockTime(p) == IF Slot(p, Val) < now THEN now ELSE Slot(p, Val)

\* commitWork takes the head and prepares a header; newWorkLoop sets its timer.
CommitWork ==
  /\ request /\ work = {} /\ head.number < MaxNumber
  /\ request' = FALSE /\ due' = FALSE
  /\ work' = {[parent |-> head, time |-> BlockTime(head), early |-> Slot(head, Val) > now,
               signal |-> "none"]}
  /\ UNCHANGED <<now, chainVars, headCh, taskVars, results, mined, announced, restarts>>

\* A signal ends it, when there was time enough to wait for one.
Abandon ==
  /\ \E w \in work : w.early /\ w.signal # "none"
  /\ work' = {}
  /\ UNCHANGED <<now, chainVars, headCh, request, due, taskVars, results, mined, announced, restarts>>

Seal_NotChecked(b) == {[block |-> b, stage |-> "waiting", stopped |-> FALSE]}

\* Seal: the goroutine it starts, if any.
Seal(b) ==
  IF SignRecently(b.parent, Val) THEN {}
  ELSE {[block |-> b, stage |-> "waiting", stopped |-> FALSE]}

Stopped == {[s EXCEPT !.stopped = TRUE] : s \in seals}

Duplicate_SameParent(b) == \E t \in prev : t.parent = b.parent

\* The seal hash of the last task: from MaxTime on, a late block is a new one.
Duplicate(b) == b \in prev /\ b.time < MaxTime

\* commit, and taskLoop, which waits for it: the task before is interrupted.
Commit ==
  \E w \in work : \E txs \in IF w.early THEN Txs ELSE {0} :
    LET b == Block(w.parent, Val, w.time, txs) IN
    /\ Cardinality(seals) < MaxSeals
    /\ work' = {}
    /\ IF Duplicate(b) THEN UNCHANGED taskVars
       ELSE prev' = {b} /\ seals' = Stopped \cup Seal(b)
    /\ UNCHANGED <<now, chainVars, headCh, request, due, results, mined, announced, restarts>>

----------------------------------------------------------------------------
\* The goroutines of Seal.

ShouldWaitForCurrentBlockProcess(b) ==
  ~InTurn(Val, b.number) /\ \E v \in verified : v.parent = b.parent

\* A send that does not block: a full queue loses the block.
Send(b) == results' = IF Len(results) < ResultQueueSize THEN Append(results, b) ELSE results

SealStopped ==
  \E s \in seals :
    /\ s.stopped
    /\ seals' = seals \ {s}
    /\ UNCHANGED <<now, chainVars, headCh, request, due, work, prev, results, mined,
                   announced, restarts>>

\* time.After(delay)
SealDelayed ==
  \E s \in seals :
    /\ s.stage = "waiting" /\ s.block.time <= now
    /\ IF ShouldWaitForCurrentBlockProcess(s.block)
       THEN /\ seals' = (seals \ {s}) \cup {[s EXCEPT !.stage = "yielding"]}
            /\ UNCHANGED results
       ELSE seals' = seals \ {s} /\ Send(s.block)
    /\ UNCHANGED <<now, chainVars, headCh, request, due, work, prev, mined, announced, restarts>>

\* time.After(waitProcessEstimate)
SealYielded ==
  \E s \in seals :
    /\ s.stage = "yielding"
    /\ seals' = seals \ {s}
    /\ IF head.number >= s.block.number THEN UNCHANGED results ELSE Send(s.block)
    /\ UNCHANGED <<now, chainVars, headCh, request, due, work, prev, mined, announced, restarts>>

----------------------------------------------------------------------------
Rejected_KnownOnly(b) == b \in known

\* A block that is known, or a second one on its parent.
Rejected(b) == b \in known \/ <<b.number, b.parent>> \in mined

\* resultLoop, until the mutex is taken and the block, if it is to be the head,
\* is announced.
Result ==
  /\ results # <<>> /\ chainmu = {}
  /\ results' = Tail(results)
  /\ LET b == Head(results) IN
     IF Rejected(b)
     THEN UNCHANGED <<chainmu, mined, announced>>
     ELSE /\ mined' = mined \cup {<<b.number, b.parent>>}
          /\ \E canon \in ReorgNeeded(b) :
               /\ chainmu' = {Lock(b, canon)}
               /\ announced' = IF canon THEN announced \cup {b} ELSE announced
  /\ UNCHANGED <<now, head, known, verified, headCh, request, due, work, taskVars, restarts>>

----------------------------------------------------------------------------
\* The node goes down, and starts to mine again on the head it had.
Down ==
  /\ restarts < MaxRestarts /\ restarts' = restarts + 1
  /\ verified' = {} /\ chainmu' = {}
  /\ headCh' = <<>> /\ request' = TRUE /\ due' = FALSE /\ work' = {}
  /\ prev' = {} /\ seals' = {} /\ results' = <<>> /\ mined' = {}
  /\ UNCHANGED <<now, head, known, announced>>

\* A clean stop ends a write first.
Restart == chainmu = {} /\ Down

Next ==
  \/ Tick \/ InsertChain \/ WriteBlock \/ NewHead \/ Resubmit
  \/ CommitWork \/ Abandon \/ Commit \/ SealStopped \/ SealDelayed \/ SealYielded
  \/ Result \/ Restart

\* Time passes, a write ends, and no loop or timer rests for ever.
Fairness ==
  /\ WF_vars(Tick) /\ WF_vars(WriteBlock) /\ WF_vars(NewHead) /\ WF_vars(Resubmit)
  /\ WF_vars(CommitWork) /\ WF_vars(Commit) /\ WF_vars(SealDelayed) /\ WF_vars(SealYielded)
  /\ WF_vars(Result)

Spec == Init /\ [][Next]_vars /\ Fairness

\* The node may also be killed at any time.
CrashSpec == Init /\ [][Next \/ Down]_vars

----------------------------------------------------------------------------
\* NoDoubleSign: "keep recently mined blocks to avoid double sign for safety"
\* (worker.go): whatever tasks, heads and restarts overlap, the validator
\* announces one block on a parent and no second.
NoDoubleSign == \A a, b \in announced : a.parent = b.parent => a = b

\* PeersAccept: what is announced passes verifySeal and the time checks of
\* others: its signer did not sign recently, and its time is neither before the
\* slot of the signer nor in the future.  The newWorkLoop looks at a head that is
\* no longer the one commitWork builds on.
PeersAccept ==
  \A b \in announced : /\ ~SignRecently(b.parent, Val)
                       /\ Slot(b.parent, Val) <= b.time /\ b.time <= now

MaySeal(n) == head.number = n /\ ~SignRecently(head, Val)

Sealed == \E b \in announced : b.parent = head

\* SealsOrMovesOn: a validator that may seal on a head does so, or gets a new
\* head, though tasks interrupt each other, results are lost when resultCh is full
\* and blocks of others come in between.
SealsOrMovesOn == \A n \in 1..(MaxNumber - 1) : MaySeal(n) ~> (Sealed \/ ~MaySeal(n))
=============================================================================
