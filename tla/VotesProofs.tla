---------------------------- MODULE VotesProofs ----------------------------
(***************************************************************************)
(* Proofs about the two halves of a vote's way: the pool (VotePool) and    *)
(* the announcement of finalized blocks (FinalityNotify).                  *)
(***************************************************************************)
EXTENDS VotePool, FinalityNotify, TLAPS

\* The loop is idle, holds a vote it has looked up, or a head to transfer for.
Steps ==
  {Waiting} \cup [at : {"put"}, vote : Votes, future : BOOLEAN]
            \cup [at : {"transfer"}, latest : Nat]

\* PoolTypes: channels and steps hold blocks and votes, a box the votes of its own
\* block, and the queue of future votes the numbers that votes gave.
PoolTypes ==
  /\ importing \in Blocks \cup {None} /\ verified \in Blocks \cup {None}
  /\ headCh \in Seq(Blocks) /\ votesCh \in Seq(Votes)
  /\ step \in Steps
  /\ \A b \in DOMAIN curVotes : b \in Blocks /\ \A v \in curVotes[b] : v.block = b
  /\ \A b \in DOMAIN futureVotes : b \in Blocks /\ \A v \in futureVotes[b] : v.block = b
  /\ \A e \in DOMAIN futureVotesPq : e.number \in Nat

\* The blocks the import has announced.
Heads == announced \cup ({importing} \ {None})

\* A head of number n or beyond is still to be handled: it is in the channel, or
\* the loop is about to transfer for it.
Awaited(n) ==
  \/ \E i \in 1..Len(headCh) : n <= headCh[i].number
  \/ step.at = "transfer" /\ n <= step.latest

\* A vote for block b with number n has nothing more to wait for.
Ready(b, n) == b \in Heads /\ (n <= b.number \/ n <= verified.number)

\* MoveInv: heads are known; the head that moves a box is still to be handled, also
\* for the vote that the loop has already found to be a future one.
MoveInv ==
  /\ announced \subseteq written
  /\ importing # None => verified = importing
  /\ \A e \in DOMAIN futureVotesPq : Ready(e.block, e.number) => Awaited(e.number)
  /\ (step.at = "put" /\ step.future /\ Ready(step.vote.block, step.vote.number))
       => Awaited(step.vote.number)

\* CallerStates: where a caller of NotifyFinalized may be, and with which block.
CallerStates ==
  [at : {"done", "write", "check", "end", "load", "store", "send"}, block : Nat]

\* What a caller holds: a known block, and from its load on a finalized one.
Holding(r) ==
  /\ r.at \in {"check", "end", "write"} => r.block <= knownTo
  /\ r.at \in {"load", "store", "send"} => r.block \in 1..MaxNumber /\ Finalized(r.block)

\* NotifyInv: the chain is known as far as it is written, attestations are about
\* its blocks, and every caller holds what it should.
NotifyInv ==
  /\ knownTo \in Nat /\ writtenTo \in Nat /\ writtenTo <= knownTo /\ knownTo <= MaxNumber
  /\ att \in [0..knownTo -> [source : Nat, target : Nat]]
  /\ \A k \in 0..knownTo : att[k].source <= MaxNumber /\ att[k].target <= MaxNumber
  /\ caller \in [Callers -> CallerStates]
  /\ \A c \in Callers : Holding(caller[c])

----------------------------------------------------------------------------
(* Typing of the pool.                                                     *)

LEMMA NoneIsNoBlock == None \notin Blocks
BY LimitAssumption DEF None

LEMMA StepKinds ==
  ASSUME step \in Steps
  PROVE  /\ step.at = "put" => step.vote \in Votes /\ step.vote.block \in Blocks /\ step.vote.number \in Nat
         /\ step.at = "transfer" => step.latest \in Nat
BY LimitAssumption DEF Steps, Waiting

LEMMA PutTypes ==
  ASSUME NEW box, NEW v \in Votes,
         \A b \in DOMAIN box : b \in Blocks /\ \A w \in box[b] : w.block = b
  PROVE  \A b \in DOMAIN Put(box, v) : b \in Blocks /\ \A w \in Put(box, v)[b] : w.block = b
BY LimitAssumption DEF Put, VotesIn

LEMMA PoolTypesStep == PoolTypes /\ [Next]_vars => PoolTypes'
<1> SUFFICES ASSUME PoolTypes, [Next]_vars PROVE PoolTypes'
  OBVIOUS
<1> USE DEF PoolTypes
<1>1. ASSUME NEW b \in Blocks, AnnounceHead(b) PROVE PoolTypes'
  BY <1>1 DEF AnnounceHead, boxes
<1>2. ASSUME NEW b \in Blocks, WriteSide(b) PROVE PoolTypes'
  BY <1>2 DEF WriteSide, boxes
<1>3. CASE WriteHead
  BY <1>3 DEF WriteHead, boxes
<1>4. ASSUME NEW v \in Votes, PutVote(v) PROVE PoolTypes'
  BY <1>4 DEF PutVote, boxes, importVars
<1>5. CASE TakeVote
  <2>1. Head(votesCh) \in Votes /\ Tail(votesCh) \in Seq(Votes)
    BY <1>5 DEF TakeVote
  <2>2. step' \in Steps
    <3>1. (~GetVerifiedBlockByHash(Head(votesCh).block)) \in BOOLEAN
      BY Zenon DEF GetVerifiedBlockByHash
    <3> QED BY <1>5, <2>1, <3>1 DEF TakeVote, Steps
  <2> QED BY <1>5, <2>1, <2>2 DEF TakeVote, boxes, importVars
<1>6. CASE StoreVote
  <2>1. step.vote \in Votes
    BY <1>6, StepKinds DEF StoreVote
  <2>2. curVotes' \in {curVotes, Put(curVotes, step.vote)}
    BY <1>6 DEF StoreVote, boxes
  <2>3. futureVotes' \in {futureVotes, Put(futureVotes, step.vote)}
    BY <1>6 DEF StoreVote, boxes
  <2>4. step' \in Steps
    BY <1>6 DEF StoreVote, Steps
  <2>5. \A b \in DOMAIN curVotes' : b \in Blocks /\ \A w \in curVotes'[b] : w.block = b
    BY <2>1, <2>2, PutTypes
  <2>6. \A b \in DOMAIN futureVotes' : b \in Blocks /\ \A w \in futureVotes'[b] : w.block = b
    BY <2>1, <2>3, PutTypes
  <2>7. \A e \in DOMAIN futureVotesPq' : e.number \in Nat
    <3>1. step.vote.number \in Nat
      BY <1>6, StepKinds DEF StoreVote
    <3>2. futureVotesPq' \in {futureVotesPq, futureVotesPq (+) SetToBag({Entry(step.vote)})}
      BY <1>6 DEF StoreVote, boxes, Push
    <3>3. DOMAIN futureVotesPq' \subseteq DOMAIN futureVotesPq \cup {Entry(step.vote)}
      BY <3>2 DEF SetToBag, (+)
    <3> QED BY <3>1, <3>3 DEF Entry
  <2> QED BY <1>6, <2>4, <2>5, <2>6, <2>7 DEF StoreVote, importVars
<1>7. CASE Prune
  <2>1. Head(headCh) \in Blocks /\ Tail(headCh) \in Seq(Blocks)
    BY <1>7 DEF Prune
  <2>2. step' \in Steps
    BY <1>7, <2>1, LimitAssumption DEF Prune, Steps
  <2> QED BY <1>7, <2>1, <2>2 DEF Prune, importVars, Restrict
<1>8. CASE Transfer
  <2>1. step' \in Steps
    BY <1>8 DEF Transfer, Steps
  <2>2. \A b \in DOMAIN futureVotes' : b \in DOMAIN futureVotes /\ futureVotes'[b] = futureVotes[b]
    BY <1>8 DEF Transfer, Restrict
  <2>3. \A b \in DOMAIN curVotes' :
          /\ b \in DOMAIN curVotes \cup DOMAIN futureVotes
          /\ curVotes'[b] \subseteq VotesIn(curVotes, b) \cup VotesIn(futureVotes, b)
    <3> DEFINE popped == {e \in BagToSet(futureVotesPq) : Movable(e, step.latest)}
               boxed  == BlocksOf(popped) \cap DOMAIN futureVotes
               valid  == [b \in boxed |-> {v \in futureVotes[b] : VerifyVote(v)}]
    <3>1. curVotes' = [b \in DOMAIN curVotes \cup boxed |->
                         VotesIn(curVotes, b) \cup (IF b \in boxed THEN valid[b] ELSE {})]
      BY <1>8 DEF Transfer
    <3>2. boxed \subseteq DOMAIN futureVotes /\ \A b \in boxed : valid[b] \subseteq VotesIn(futureVotes, b)
      BY DEF VotesIn
    <3> HIDE DEF boxed, valid
    <3> QED BY <3>1, <3>2
  <2>4. ASSUME NEW b \in DOMAIN curVotes' PROVE b \in Blocks /\ \A w \in curVotes'[b] : w.block = b
    BY <2>3 DEF VotesIn
  <2>5. UNCHANGED <<importing, verified, headCh, votesCh>>
    BY <1>8 DEF Transfer, importVars
  <2>6. DOMAIN futureVotesPq' \subseteq DOMAIN futureVotesPq
    BY <1>8 DEF Transfer
  <2> QED BY <2>1, <2>2, <2>4, <2>5, <2>6
<1>9. CASE UNCHANGED vars
  BY <1>9 DEF vars, importVars, boxes
<1> QED BY <1>1, <1>2, <1>3, <1>4, <1>5, <1>6, <1>7, <1>8, <1>9 DEF Next

LEMMA PoolTypesInit == Init => PoolTypes
BY DEF Init, PoolTypes, Steps, EmptyBag, SetToBag
----------------------------------------------------------------------------
(* The boxes.                                                              *)

\* Every box holds votes of its own block only.
Boxed(box) == \A b \in DOMAIN box : \A v \in box[b] : v.block = b

LEMMA AllByBlock ==
  ASSUME NEW box, Boxed(box), NEW v
  PROVE  v \in All(box) <=> v.block \in DOMAIN box /\ v \in box[v.block]
BY DEF Boxed, All

\* New entries for blocks that have no box yet.
LEMMA AddEntries ==
  ASSUME NEW pq, NEW box, NEW new, NEW wide, OneEntryEach(pq, box),
         DOMAIN wide = DOMAIN box \cup BlocksOf(new),
         \A e \in new : e.block \notin DOMAIN box,
         \A e, f \in new : e.block = f.block => e = f
  PROVE  OneEntryEach(pq (+) SetToBag(new), wide)
<1>1. pq = [e \in DOMAIN pq |-> 1] /\ BlocksOf(DOMAIN pq) = DOMAIN box
      /\ \A e, f \in DOMAIN pq : e.block = f.block => e = f
  BY DEF OneEntryEach, SetToBag, BagToSet
<1>2. DOMAIN pq \cap new = {}
  BY <1>1 DEF BlocksOf
<1>3. pq (+) SetToBag(new) = [e \in DOMAIN pq \cup new |-> 1]
  BY <1>1, <1>2 DEF SetToBag, (+)
<1>4. BlocksOf(DOMAIN pq \cup new) = DOMAIN wide
  BY <1>1 DEF BlocksOf
<1>5. \A e, f \in DOMAIN pq \cup new : e.block = f.block => e = f
  BY <1>1 DEF BlocksOf
<1> QED BY <1>3, <1>4, <1>5 DEF OneEntryEach, SetToBag, BagToSet

LEMMA PushOne ==
  ASSUME NEW pq, NEW box, NEW v, OneEntryEach(pq, box)
  PROVE  OneEntryEach(Push(pq, box, v), Put(box, v))
<1>1. DOMAIN Put(box, v) = DOMAIN box \cup {v.block}
  BY DEF Put
<1>2. CASE v.block \in DOMAIN box
  <2>1. DOMAIN Put(box, v) = DOMAIN box
    BY <1>1, <1>2
  <2> QED BY <1>2, <2>1 DEF Push, OneEntryEach
<1>3. CASE v.block \notin DOMAIN box
  <2>1. Entry(v).block = v.block
    BY DEF Entry
  <2>2. DOMAIN Put(box, v) = DOMAIN box \cup BlocksOf({Entry(v)})
    BY <1>1, <2>1 DEF BlocksOf
  <2>3. OneEntryEach(pq (+) SetToBag({Entry(v)}), Put(box, v))
    <3> DEFINE new  == {Entry(v)}
               wide == Put(box, v)
    <3>1. /\ DOMAIN wide = DOMAIN box \cup BlocksOf(new)
          /\ \A e \in new : e.block \notin DOMAIN box
          /\ \A e, f \in new : e.block = f.block => e = f
      BY <1>3, <2>1, <2>2
    <3> HIDE DEF new, wide
    <3>2. OneEntryEach(pq (+) SetToBag(new), wide)
      BY <3>1, AddEntries
    <3> QED BY <3>2 DEF new, wide
  <2> QED BY <1>3, <2>3 DEF Push
<1> QED BY <1>2, <1>3

LEMMA PopEntries ==
  ASSUME NEW pq, NEW box, OneEntryEach(pq, box), NEW popped, popped \subseteq DOMAIN pq
  PROVE  OneEntryEach([e \in DOMAIN pq \ popped |-> pq[e]],
                      Restrict(box, DOMAIN box \ BlocksOf(popped)))
<1>1. pq = [e \in DOMAIN pq |-> 1] /\ BlocksOf(DOMAIN pq) = DOMAIN box
      /\ \A e, f \in DOMAIN pq : e.block = f.block => e = f
  BY DEF OneEntryEach, SetToBag, BagToSet
<1>2. [e \in DOMAIN pq \ popped |-> pq[e]] = [e \in DOMAIN pq \ popped |-> 1]
  BY <1>1
<1>3. BlocksOf(DOMAIN pq \ popped) = DOMAIN box \ BlocksOf(popped)
  BY <1>1 DEF BlocksOf
<1>4. DOMAIN Restrict(box, DOMAIN box \ BlocksOf(popped)) = DOMAIN box \ BlocksOf(popped)
  BY DEF Restrict
<1> QED BY <1>1, <1>2, <1>3, <1>4 DEF OneEntryEach, SetToBag, BagToSet

LEMMA PutAll ==
  ASSUME NEW box, NEW v, Boxed(box)
  PROVE  /\ Boxed(Put(box, v))
         /\ All(Put(box, v)) = All(box) \cup {v}
<1>1. Boxed(Put(box, v))
  BY DEF Boxed, Put, VotesIn
<1>2. ASSUME NEW w PROVE w \in All(Put(box, v)) <=> w \in All(box) \/ w = v
  <2>1. w \in All(Put(box, v)) <=> w.block \in DOMAIN Put(box, v) /\ w \in Put(box, v)[w.block]
    BY <1>1, AllByBlock
  <2>2. w \in All(box) <=> w.block \in DOMAIN box /\ w \in box[w.block]
    BY AllByBlock
  <2> QED BY <2>1, <2>2 DEF Put, VotesIn
<1> QED BY <1>1, <1>2

LEMMA RestrictAll ==
  ASSUME NEW box, NEW old, Boxed(box)
  PROVE  /\ Boxed(Restrict(box, DOMAIN box \ old))
         /\ \A v : v \in All(Restrict(box, DOMAIN box \ old)) <=> v \in All(box) /\ v.block \notin old
<1> DEFINE rest == Restrict(box, DOMAIN box \ old)
<1>1. Boxed(rest)
  BY DEF Boxed, Restrict
<1>2. ASSUME NEW v PROVE v \in All(rest) <=> v \in All(box) /\ v.block \notin old
  <2>1. v \in All(rest) <=> v.block \in DOMAIN rest /\ v \in rest[v.block]
    BY <1>1, AllByBlock
  <2>2. v \in All(box) <=> v.block \in DOMAIN box /\ v \in box[v.block]
    BY AllByBlock
  <2> QED BY <2>1, <2>2 DEF Restrict
<1> QED BY <1>1, <1>2

LEMMA StoreBoxes == PoolTypes /\ BoxesMatch /\ StoreVote => BoxesMatch'
<1> SUFFICES ASSUME PoolTypes, BoxesMatch, StoreVote PROVE BoxesMatch'
  OBVIOUS
<1> DEFINE v == step.vote
<1>b. Boxed(curVotes) /\ Boxed(futureVotes)
  BY DEF PoolTypes, Boxed
<1>1. CASE UNCHANGED boxes
  BY <1>1 DEF boxes, BoxesMatch, All
<1>2. CASE /\ v \notin received
           /\ received' = received \cup {v}
           /\ futureVotesPq' = Push(futureVotesPq, futureVotes, v)
           /\ futureVotes' = Put(futureVotes, v)
           /\ UNCHANGED <<curVotes, curVotesPq>>
  <2>1. All(futureVotes') = All(futureVotes) \cup {v}
    BY <1>2, <1>b, PutAll
  <2>2. OneEntryEach(futureVotesPq', futureVotes')
    BY <1>2, PushOne DEF BoxesMatch
  <2>3. v \notin All(curVotes)
    BY <1>2 DEF BoxesMatch
  <2> HIDE DEF v
  <2> QED BY <1>2, <2>1, <2>2, <2>3 DEF BoxesMatch
<1>3. CASE /\ v \notin received
           /\ v.voter \notin Outsiders /\ v.number = v.block.number
           /\ received' = received \cup {v}
           /\ curVotesPq' = Push(curVotesPq, curVotes, v)
           /\ curVotes' = Put(curVotes, v)
           /\ UNCHANGED <<futureVotes, futureVotesPq>>
  <2>1. All(curVotes') = All(curVotes) \cup {v}
    BY <1>3, <1>b, PutAll
  <2>2. OneEntryEach(curVotesPq', curVotes')
    BY <1>3, PushOne DEF BoxesMatch
  <2>3. v \notin All(futureVotes)
    BY <1>3 DEF BoxesMatch
  <2> HIDE DEF v
  <2> QED BY <1>3, <2>1, <2>2, <2>3 DEF BoxesMatch
<1> QED BY <1>1, <1>2, <1>3 DEF StoreVote, BasicVerify, VerifyVote

LEMMA PruneBoxes == PoolTypes /\ BoxesMatch /\ Prune => BoxesMatch'
<1> SUFFICES ASSUME PoolTypes, BoxesMatch, Prune PROVE BoxesMatch'
  OBVIOUS
<1> DEFINE popped == {e \in BagToSet(curVotesPq) : Obsolete(e, Head(headCh).number)}
           old    == BlocksOf(popped)
<1>b. Boxed(curVotes) /\ Boxed(futureVotes)
  BY DEF PoolTypes, Boxed
<1>1. /\ curVotesPq' = [e \in DOMAIN curVotesPq \ popped |-> curVotesPq[e]]
      /\ received' = received \ UNION {VotesIn(curVotes, b) : b \in old}
      /\ curVotes' = Restrict(curVotes, DOMAIN curVotes \ old)
      /\ UNCHANGED <<futureVotes, futureVotesPq>>
  BY DEF Prune
<1>2. popped \subseteq DOMAIN curVotesPq /\ old \subseteq DOMAIN curVotes
  BY DEF BoxesMatch, OneEntryEach, BagToSet, BlocksOf
<1> HIDE DEF popped
<1>4. OneEntryEach(curVotesPq', curVotes')
  BY <1>1, <1>2, PopEntries DEF BoxesMatch
<1> HIDE DEF old
<1>5. \A v : v \in All(curVotes') <=> v \in All(curVotes) /\ v.block \notin old
  BY <1>1, <1>b, RestrictAll
<1>6. \A v : v \in UNION {VotesIn(curVotes, b) : b \in old} <=> v \in All(curVotes) /\ v.block \in old
  BY <1>2, <1>b DEF VotesIn, Boxed, All
<1>7. received' = All(curVotes') \cup All(futureVotes)
  BY <1>1, <1>5, <1>6 DEF BoxesMatch
<1> QED BY <1>1, <1>4, <1>5, <1>7 DEF BoxesMatch

LEMMA TransferBoxes == PoolTypes /\ BoxesMatch /\ Transfer => BoxesMatch'
<1> SUFFICES ASSUME PoolTypes, BoxesMatch, Transfer PROVE BoxesMatch'
  OBVIOUS
<1> DEFINE popped == {e \in BagToSet(futureVotesPq) : Movable(e, step.latest)}
           pushed == {e \in popped : e.block \in DOMAIN futureVotes \ DOMAIN curVotes}
           moved  == BlocksOf(popped)
           boxed  == moved \cap DOMAIN futureVotes
           valid  == [b \in boxed |-> {v \in futureVotes[b] : VerifyVote(v)}]
<1>b. Boxed(curVotes) /\ Boxed(futureVotes)
  BY DEF PoolTypes, Boxed
<1>1. /\ futureVotesPq' = [e \in DOMAIN futureVotesPq \ popped |-> futureVotesPq[e]]
      /\ futureVotes' = Restrict(futureVotes, DOMAIN futureVotes \ boxed)
      /\ curVotesPq' = curVotesPq (+) SetToBag(pushed)
      /\ curVotes' = [b \in DOMAIN curVotes \cup boxed |->
                        VotesIn(curVotes, b) \cup (IF b \in boxed THEN valid[b] ELSE {})]
      /\ received' = received \ UNION {futureVotes[b] \ valid[b] : b \in boxed}
  BY DEF Transfer
<1>2. popped \subseteq DOMAIN futureVotesPq /\ boxed = moved /\ moved \subseteq DOMAIN futureVotes
  BY DEF BoxesMatch, OneEntryEach, BagToSet, BlocksOf
<1>3. \A b \in moved : \A v : v \in valid[b] <=> v \in futureVotes[b] /\ VerifyVote(v)
  BY <1>2
<1> HIDE DEF valid, boxed, popped
<1>5. OneEntryEach(futureVotesPq', futureVotes')
  BY <1>1, <1>2, PopEntries DEF BoxesMatch
<1>6. DOMAIN curVotes' = DOMAIN curVotes \cup boxed
  BY <1>1
<1>7. OneEntryEach(curVotesPq', curVotes')
  <2>1. BlocksOf(pushed) = moved \ DOMAIN curVotes
    BY <1>2 DEF BlocksOf
  <2>2. DOMAIN curVotes' = DOMAIN curVotes \cup BlocksOf(pushed)
    BY <1>2, <1>6, <2>1
  <2>3. /\ \A e \in pushed : e.block \notin DOMAIN curVotes
        /\ \A e, f \in pushed : e.block = f.block => e = f
    BY <1>2 DEF BoxesMatch, OneEntryEach, BagToSet
  <2> HIDE DEF pushed
  <2> QED BY <1>1, <2>2, <2>3, AddEntries DEF BoxesMatch
<1> HIDE DEF moved, pushed
<1>8. \A v : v \in All(futureVotes') <=> v \in All(futureVotes) /\ v.block \notin moved
  BY <1>1, <1>2, <1>b, RestrictAll
<1>9. Boxed(curVotes')
  BY <1>1, <1>2, <1>3, <1>b DEF Boxed, VotesIn
<1>10. ASSUME NEW v
       PROVE  v \in All(curVotes') <=>
                \/ v \in All(curVotes)
                \/ v \in All(futureVotes) /\ v.block \in moved /\ VerifyVote(v)
  <2>1. v \in All(curVotes') <=> v.block \in DOMAIN curVotes' /\ v \in curVotes'[v.block]
    BY <1>9, AllByBlock
  <2>2. v \in All(curVotes) <=> v.block \in DOMAIN curVotes /\ v \in curVotes[v.block]
    BY <1>b, AllByBlock
  <2>3. v \in All(futureVotes) <=> v.block \in DOMAIN futureVotes /\ v \in futureVotes[v.block]
    BY <1>b, AllByBlock
  <2> QED BY <1>1, <1>2, <1>3, <1>6, <2>1, <2>2, <2>3 DEF VotesIn
<1>11. \A v : v \in UNION {futureVotes[b] \ valid[b] : b \in boxed} <=>
                v \in All(futureVotes) /\ v.block \in moved /\ ~VerifyVote(v)
  BY <1>2, <1>3, <1>b DEF Boxed, All
<1>12. received' = All(curVotes') \cup All(futureVotes')
  BY <1>1, <1>8, <1>10, <1>11 DEF BoxesMatch
<1>13. All(curVotes') \cap All(futureVotes') = {}
  BY <1>8, <1>10 DEF BoxesMatch
<1>14. \A v \in All(curVotes') : v.voter \notin Outsiders /\ v.number = v.block.number
  BY <1>10 DEF BoxesMatch, VerifyVote
<1> QED BY <1>5, <1>7, <1>12, <1>13, <1>14 DEF BoxesMatch

LEMMA BoxesStep == PoolTypes /\ BoxesMatch /\ [Next]_vars => BoxesMatch'
<1> SUFFICES ASSUME PoolTypes, BoxesMatch, [Next]_vars PROVE BoxesMatch'
  OBVIOUS
<1>1. CASE UNCHANGED boxes
  BY <1>1 DEF boxes, BoxesMatch, All
<1>2. CASE StoreVote \/ Prune \/ Transfer
  BY <1>2, StoreBoxes, PruneBoxes, TransferBoxes
<1>3. CASE \E b \in Blocks : AnnounceHead(b) \/ WriteSide(b)
  BY <1>1, <1>3 DEF AnnounceHead, WriteSide
<1>4. CASE WriteHead \/ TakeVote \/ \E v \in Votes : PutVote(v)
  BY <1>1, <1>4 DEF WriteHead, TakeVote, PutVote
<1> QED BY <1>1, <1>2, <1>3, <1>4 DEF Next, vars

\* PoolBoxesMatch: through putVote, prune and transferVotesFromFutureToCur the
\* priority queues, the maps and receivedVotes of the pool say the same, no vote is
\* in both maps, and only votes of validators for the right number are counted
\* (BoxesMatch), for any limits, channel size, blocks and votes, and whatever
\* numbers the votes carry.
THEOREM PoolBoxesMatch == Spec => []BoxesMatch
<1>1. Init => BoxesMatch
  BY DEF Init, BoxesMatch, OneEntryEach, BlocksOf, BagToSet, All, EmptyBag, SetToBag
<1>2. Init => PoolTypes
  BY PoolTypesInit
<1>3. PoolTypes /\ [Next]_vars => PoolTypes'
  BY PoolTypesStep
<1>4. PoolTypes /\ BoxesMatch /\ [Next]_vars => BoxesMatch'
  BY BoxesStep
<1> QED BY <1>1, <1>2, <1>3, <1>4, PTL DEF Spec

----------------------------------------------------------------------------
(* No future vote for a head is forgotten.                                 *)

LEMMA HeadsKnown == ASSUME MoveInv, NEW b \in Heads PROVE GetVerifiedBlockByHash(b)
BY DEF MoveInv, Heads, GetVerifiedBlockByHash

LEMMA Appended ==
  ASSUME NEW s \in Seq(Blocks), NEW b \in Blocks, NEW n
  PROVE  /\ n <= b.number => \E i \in 1..Len(Append(s, b)) : n <= Append(s, b)[i].number
         /\ (\E i \in 1..Len(s) : n <= s[i].number)
              => \E i \in 1..Len(Append(s, b)) : n <= Append(s, b)[i].number
<1>1. Len(s) \in Nat /\ Len(Append(s, b)) = Len(s) + 1
  OBVIOUS
<1>2. Append(s, b)[Len(s) + 1] = b /\ \A i \in 1..Len(s) : Append(s, b)[i] = s[i]
  OBVIOUS
<1> QED BY <1>1, <1>2

LEMMA HeadOrTail ==
  ASSUME NEW s \in Seq(Blocks), s # <<>>, NEW n, \E i \in 1..Len(s) : n <= s[i].number
  PROVE  n <= Head(s).number \/ \E i \in 1..Len(Tail(s)) : n <= Tail(s)[i].number
<1>1. PICK i \in 1..Len(s) : n <= s[i].number
  OBVIOUS
<1>2. Len(s) \in Nat /\ Len(Tail(s)) = Len(s) - 1 /\ Head(s) = s[1]
  OBVIOUS
<1>3. \A j \in 1..Len(Tail(s)) : Tail(s)[j] = s[j + 1]
  OBVIOUS
<1>4. CASE i # 1
  <2>1. i - 1 \in 1..Len(Tail(s)) /\ n <= s[(i - 1) + 1].number
    BY <1>1, <1>2, <1>4
  <2> QED BY <1>3, <2>1
<1> QED BY <1>1, <1>2, <1>4

LEMMA MoveStep == PoolTypes /\ BoxesMatch /\ MoveInv /\ [Next]_vars => MoveInv'
<1> SUFFICES ASSUME PoolTypes, BoxesMatch, MoveInv, [Next]_vars PROVE MoveInv'
  OBVIOUS
<1>1. ASSUME NEW b \in Blocks, AnnounceHead(b) PROVE MoveInv'
  <2>1. \A n : Awaited(n) => Awaited(n)'
    BY <1>1, Appended DEF AnnounceHead, Awaited, PoolTypes
  <2>2. \A n : n <= b.number => Awaited(n)'
    BY <1>1, Appended DEF AnnounceHead, Awaited, PoolTypes
  <2>3. Heads' \subseteq Heads \cup {b} /\ verified' = b
    BY <1>1 DEF AnnounceHead, Heads
  <2>4. ASSUME NEW c, NEW n, Ready(c, n)' PROVE Ready(c, n) \/ n <= b.number
    BY <2>3, <2>4 DEF Ready
  <2>5. UNCHANGED <<announced, written, futureVotesPq, step>> /\ importing' = b
    BY <1>1 DEF AnnounceHead, boxes
  <2>6. \A e \in DOMAIN futureVotesPq : Ready(e.block, e.number)' => Awaited(e.number)'
    BY <2>1, <2>2, <2>4 DEF MoveInv
  <2>7. ASSUME step'.at = "put", step'.future, Ready(step.vote.block, step.vote.number)'
        PROVE  Awaited(step.vote.number)'
    <3>1. PICK c, n : c = step.vote.block /\ n = step.vote.number
      OBVIOUS
    <3>2. step'.vote.block = c /\ step'.vote.number = n /\ step.at = "put" /\ step.future
      BY <2>5, <2>7, <3>1
    <3>3. Ready(c, n)'
      BY <2>7, <3>2 DEF Ready
    <3>4. Ready(c, n) \/ n <= b.number
      BY <2>4, <3>3
    <3>5. Ready(c, n) => Awaited(n)
      BY <3>1, <3>2 DEF MoveInv
    <3>6. Awaited(n)'
      BY <2>1, <2>2, <3>4, <3>5
    <3> QED BY <3>2, <3>6 DEF Awaited
  <2> QED BY <2>3, <2>5, <2>6, <2>7 DEF MoveInv
<1>2. ASSUME NEW b \in Blocks, WriteSide(b) PROVE MoveInv'
  BY <1>2 DEF WriteSide, MoveInv, boxes, Heads, Awaited, Ready
<1>3. CASE WriteHead
  <2>1. Heads' \subseteq Heads /\ announced' \subseteq written' /\ importing' = None
    BY <1>3 DEF WriteHead, Heads, MoveInv
  <2>2. UNCHANGED <<headCh, step, verified, futureVotesPq>>
    BY <1>3 DEF WriteHead, boxes
  <2> QED BY <2>1, <2>2 DEF MoveInv, Awaited, Ready
<1>4. ASSUME NEW v \in Votes, PutVote(v) PROVE MoveInv'
  BY <1>4 DEF PutVote, MoveInv, boxes, importVars, Heads, Awaited, Ready
<1>5. CASE TakeVote
  <2>1. UNCHANGED <<announced, written, verified, importing, headCh, futureVotesPq, Heads>>
    BY <1>5 DEF TakeVote, boxes, importVars, Heads
  <2>2. \A n : Awaited(n) => Awaited(n)'
    BY <1>5, <2>1 DEF TakeVote, Waiting, Awaited
  <2>3. ~(step'.at = "put" /\ step'.future /\ step'.vote.block \in Heads)
    <3>1. CASE step' = Waiting
      BY <3>1 DEF Waiting
    <3>2. CASE step' = [at |-> "put", vote |-> Head(votesCh),
                        future |-> ~GetVerifiedBlockByHash(Head(votesCh).block)]
      BY <3>2, HeadsKnown
    <3> QED BY <1>5, <3>1, <3>2 DEF TakeVote
  <2> QED BY <2>1, <2>2, <2>3 DEF MoveInv, Ready
<1>6. CASE StoreVote
  <2>1. UNCHANGED <<announced, written, verified, importing, headCh, Heads>> /\ step.at = "put"
    BY <1>6 DEF StoreVote, importVars, Heads
  <2>2. \A n : Awaited(n) => Awaited(n)'
    BY <2>1 DEF Awaited
  <2>3. \/ futureVotesPq' = futureVotesPq
        \/ step.future /\ DOMAIN futureVotesPq' \subseteq DOMAIN futureVotesPq \cup {Entry(step.vote)}
    BY <1>6 DEF StoreVote, boxes, Push, SetToBag, (+)
  <2>4. step'.at # "put"
    BY <1>6 DEF StoreVote, Waiting
  <2>5. Entry(step.vote).block = step.vote.block /\ Entry(step.vote).number = step.vote.number
    BY DEF Entry
  <2>6. \A e \in DOMAIN futureVotesPq' : Ready(e.block, e.number)' => Awaited(e.number)'
    BY <2>1, <2>2, <2>3, <2>5 DEF MoveInv, Ready
  <2> QED BY <2>1, <2>4, <2>6 DEF MoveInv
<1>7. CASE Prune
  <2>1. UNCHANGED <<announced, written, verified, importing, futureVotesPq, Heads>>
    BY <1>7 DEF Prune, importVars, Heads
  <2>2. step'.at = "transfer" /\ step'.latest = Head(headCh).number
    BY <1>7 DEF Prune
  <2>3. ASSUME NEW n, Awaited(n) PROVE Awaited(n)'
    <3>1. headCh \in Seq(Blocks) /\ headCh # <<>> /\ headCh' = Tail(headCh) /\ step.at # "transfer"
      BY <1>7 DEF Prune, Waiting, PoolTypes
    <3>2. \E i \in 1..Len(headCh) : n <= headCh[i].number
      BY <2>3, <3>1 DEF Awaited
    <3>3. n <= Head(headCh).number \/ \E i \in 1..Len(Tail(headCh)) : n <= Tail(headCh)[i].number
      BY <3>1, <3>2, HeadOrTail
    <3> QED BY <2>2, <3>1, <3>3 DEF Awaited
  <2> QED BY <2>1, <2>2, <2>3 DEF MoveInv, Ready
<1>8. CASE Transfer
  <2>1. UNCHANGED <<announced, written, verified, importing, headCh, Heads>> /\ step' = Waiting
    BY <1>8 DEF Transfer, importVars, Heads
  <2>2. \A e \in DOMAIN futureVotesPq' : e \in DOMAIN futureVotesPq /\ ~Movable(e, step.latest)
    BY <1>8 DEF Transfer, BagToSet
  <2>3. ASSUME NEW e \in DOMAIN futureVotesPq', Ready(e.block, e.number)' PROVE Awaited(e.number)'
    <3>1. Ready(e.block, e.number)
      BY <2>1, <2>3 DEF Ready
    <3>2. Awaited(e.number) /\ GetVerifiedBlockByHash(e.block)
      BY <2>2, <3>1, HeadsKnown DEF MoveInv, Ready
    <3>3. ~(e.number <= step.latest)
      BY <2>2, <3>2 DEF Movable
    <3> QED BY <2>1, <3>2, <3>3 DEF Awaited
  <2> QED BY <2>1, <2>3 DEF MoveInv, Waiting
<1>9. CASE UNCHANGED vars
  BY <1>9 DEF vars, importVars, boxes, MoveInv, Heads, Awaited, Ready
<1> QED BY <1>1, <1>2, <1>3, <1>4, <1>5, <1>6, <1>7, <1>8, <1>9 DEF Next

\* HeadVotesMoved: once the loop of the pool is idle and highestVerifiedBlockCh is
\* empty, a vote for a head of the local chain is among the future votes only when
\* the first vote of its box gave a number beyond that head and beyond the last one
\* announced (AnnouncedVotesMoved), whenever its block was announced between two
\* steps of putIntoVotePool, and for any limits and channel size.
THEOREM HeadVotesMoved == Spec => []AnnouncedVotesMoved
<1>1. Init => MoveInv
  BY DEF Init, MoveInv, Heads, Waiting, EmptyBag, SetToBag
<1>2. Init => PoolTypes /\ BoxesMatch
  BY PoolTypesInit DEF Init, BoxesMatch, OneEntryEach, BlocksOf, BagToSet, All, EmptyBag, SetToBag
<1>3. PoolTypes /\ [Next]_vars => PoolTypes'
  BY PoolTypesStep
<1>4. PoolTypes /\ BoxesMatch /\ [Next]_vars => BoxesMatch'
  BY BoxesStep
<1>5. PoolTypes /\ BoxesMatch /\ MoveInv /\ [Next]_vars => MoveInv'
  BY MoveStep
<1>6. MoveInv => AnnouncedVotesMoved
  <2> SUFFICES ASSUME MoveInv, headCh = <<>>, step = Waiting, NEW b \in Blocks, Due(b)
               PROVE  FALSE
    BY Zenon DEF AnnouncedVotesMoved
  <2>1. PICK e \in DOMAIN futureVotesPq : Ready(e.block, e.number)
    BY DEF Due, BagToSet, Ready, Heads
  <2>2. Awaited(e.number)
    BY <2>1 DEF MoveInv
  <2> QED BY <2>2 DEF Awaited, Waiting
<1> QED BY <1>1, <1>2, <1>3, <1>4, <1>5, <1>6, PTL DEF Spec
----------------------------------------------------------------------------
(* The announcement of finalized blocks.                                   *)

LEMMA NextAttestationTypes ==
  ASSUME NEW a \in [source : Nat, target : Nat], NEW n \in Nat \ {0}, NEW x \in NextAttestations(a, n)
  PROVE  /\ x \in [source : Nat, target : Nat]
         /\ x.source \in {a.source, a.target} /\ x.target \in {a.target, n - 1}
BY DEF NextAttestations

\* The chain and the votes only grow, and with them what is finalized.
LEMMA FinalizedStays ==
  ASSUME knownTo \in Nat, knownTo' \in Nat, knownTo <= knownTo', quorum \subseteq quorum',
         \A k \in 0..knownTo : att'[k] = att[k],
         NEW n \in Nat, Finalized(n)
  PROVE  Finalized(n)'
<1>1. 0..knownTo \subseteq 0..knownTo'
  OBVIOUS
<1> QED BY <1>1 DEF Finalized

LEMMA FoundIsFinalized ==
  ASSUME NotifyInv, NEW n \in 0..knownTo, GetFinalizedHeader(n) # 0
  PROVE  GetFinalizedHeader(n) \in 1..MaxNumber /\ Finalized(GetFinalizedHeader(n))
<1>1. att[n].source \in Nat /\ att[n].target \in Nat /\ knownTo \in Nat
      /\ att[n].source <= MaxNumber /\ att[n].target <= MaxNumber
  BY DEF NotifyInv
<1>2. CASE att[n].target = n - 1 /\ n \in quorum
  <2>1. GetFinalizedHeader(n) = att[n].target /\ GetFinalizedHeader(n) + 1 = n
    BY <1>1, <1>2 DEF GetFinalizedHeader
  <2> QED BY <1>1, <1>2, <2>1 DEF Finalized
<1>3. CASE ~(att[n].target = n - 1 /\ n \in quorum)
  <2>1. GetFinalizedHeader(n) = att[n].source
    BY <1>3 DEF GetFinalizedHeader
  <2> QED BY <1>1, <2>1 DEF Finalized
<1> QED BY <1>2, <1>3

\* NotifyInv and what is sent, in one invariant.
SentInv ==
  /\ NotifyInv
  /\ sent \in [1..MaxNumber -> Nat]
  /\ SentIsFinalized

LEMMA CallerStateExists ==
  ASSUME NEW where \in {"done", "write", "check", "end", "load", "store", "send"}, NEW n \in Nat
  PROVE  \E r \in CallerStates : r = [at |-> where, block |-> n]
<1>1. [at |-> where, block |-> n] \in CallerStates
  BY DEF CallerStates
<1> QED BY <1>1, Zenon

LEMMA HoldingStays ==
  ASSUME NotifyInv, knownTo' \in Nat, knownTo <= knownTo', quorum \subseteq quorum',
         \A k \in 0..knownTo : att'[k] = att[k],
         NEW r \in CallerStates, Holding(r)
  PROVE  Holding(r)'
<1>1. r.block \in Nat /\ (Finalized(r.block) => Finalized(r.block)')
  BY FinalizedStays DEF NotifyInv, CallerStates
<1>2. knownTo \in Nat
  BY DEF NotifyInv
<1> QED BY <1>1, <1>2 DEF Holding

\* One caller moves to a state it may hold, or none, while the chain and the
\* votes grow.
LEMMA CallersHold ==
  ASSUME NotifyInv, knownTo' \in Nat, knownTo <= knownTo', quorum \subseteq quorum',
         \A k \in 0..knownTo : att'[k] = att[k],
         NEW c \in Callers, NEW r \in CallerStates, Holding(r)',
         caller' \in {caller, [caller EXCEPT ![c] = r]}
  PROVE  /\ caller' \in [Callers -> CallerStates]
         /\ \A d \in Callers : Holding(caller[d])'
<1>1. caller \in [Callers -> CallerStates]
  BY DEF NotifyInv
<1>2. caller' \in [Callers -> CallerStates]
  BY <1>1
<1>3. ASSUME NEW d \in Callers PROVE Holding(caller[d])'
  <2>1. PICK s \in CallerStates : s = caller'[d]
    BY <1>2
  <2>2. s = r \/ s = caller[d]
    BY <1>1, <2>1
  <2>3. Holding(s)'
    BY <2>2, HoldingStays DEF NotifyInv
  <2> QED BY <2>1, <2>3 DEF Holding, Finalized
<1> QED BY <1>2, <1>3

LEMMA AnnounceSent == SentInv /\ Announce => SentInv'
<1> SUFFICES ASSUME SentInv, Announce PROVE SentInv'
  OBVIOUS
<1>n. NotifyInv /\ MaxNumber \in Nat
  BY NumberAssumption DEF SentInv
<1>1. knownTo \in Nat /\ knownTo' = knownTo + 1 /\ knownTo' <= MaxNumber
  BY <1>n DEF Announce, NotifyInv
<1>2. PICK a \in NextAttestations(att[knownTo], knownTo + 1) :
        att' = [n \in 0..(knownTo + 1) |-> IF n > knownTo THEN a ELSE att[n]]
  BY DEF Announce
<1>3. /\ a \in [source : Nat, target : Nat]
      /\ a.source <= MaxNumber /\ a.target <= MaxNumber
  <2>1. att[knownTo] \in [source : Nat, target : Nat] /\ knownTo + 1 \in Nat \ {0}
        /\ att[knownTo].source <= MaxNumber /\ att[knownTo].target <= MaxNumber
    BY <1>n, <1>1 DEF NotifyInv
  <2>2. /\ a \in [source : Nat, target : Nat]
        /\ a.source \in {att[knownTo].source, att[knownTo].target}
        /\ a.target \in {att[knownTo].target, (knownTo + 1) - 1}
    BY <2>1, NextAttestationTypes
  <2> QED BY <1>1, <1>n, <2>1, <2>2
<1>4. att' \in [0..knownTo' -> [source : Nat, target : Nat]]
  BY <1>n, <1>1, <1>2, <1>3 DEF NotifyInv
<1>5. \A k \in 0..knownTo' : att'[k].source <= MaxNumber /\ att'[k].target <= MaxNumber
  BY <1>n, <1>1, <1>2, <1>3 DEF NotifyInv
<1>6. /\ \A k \in 0..knownTo : att'[k] = att[k]
      /\ knownTo' \in Nat /\ knownTo <= knownTo' /\ quorum \subseteq quorum'
  BY <1>1, <1>2 DEF Announce
<1>7. \A n \in Nat : Finalized(n) => Finalized(n)'
  BY <1>1, <1>6, FinalizedStays
<1>8. caller' \in [Callers -> CallerStates] /\ \A d \in Callers : Holding(caller[d])'
  <2>1. PICK s \in CallerStates : s = [at |-> "write", block |-> knownTo + 1]
    BY <1>1, CallerStateExists
  <2>2. Holding(s)'
    <3>1. s.at = "write" /\ s.block = knownTo'
      BY <1>1, <2>1
    <3>2. s.block <= knownTo'
      BY <1>1, <3>1
    <3> QED BY <3>1, <3>2 DEF Holding
  <2>3. "import" \in Callers /\ caller' = [caller EXCEPT !["import"] = s]
    BY <2>1 DEF Callers, Announce, Go
  <2> QED BY <1>n, <1>6, <2>2, <2>3, CallersHold
<1>9. writtenTo' \in Nat /\ writtenTo' <= knownTo' /\ sent' = sent
  BY <1>n, <1>1 DEF Announce, NotifyInv
<1>10. NotifyInv'
  BY <1>1, <1>4, <1>5, <1>8, <1>9 DEF NotifyInv
<1> QED BY <1>7, <1>9, <1>10 DEF SentInv, SentIsFinalized
\* Every other step leaves the chain alone and moves at most one caller.
LEMMA SentStepBy ==
  ASSUME SentInv, UNCHANGED <<knownTo, att>>, quorum \subseteq quorum',
         writtenTo' \in Nat, writtenTo' <= knownTo,
         NEW c \in Callers, NEW r \in CallerStates, Holding(r)',
         caller' \in {caller, [caller EXCEPT ![c] = r]},
         sent' \in [1..MaxNumber -> Nat], \A n \in 1..MaxNumber : sent'[n] = sent[n] \/ Finalized(n)
  PROVE  SentInv'
<1>1. NotifyInv /\ knownTo \in Nat
  BY DEF SentInv, NotifyInv
<1>2. \A n \in Nat : Finalized(n) => Finalized(n)'
  BY <1>1, FinalizedStays
<1>3. caller' \in [Callers -> CallerStates] /\ \A d \in Callers : Holding(caller[d])'
  BY <1>1, CallersHold
<1>4. NotifyInv'
  BY <1>1, <1>3 DEF NotifyInv
<1>5. SentIsFinalized'
  <2> SUFFICES ASSUME NEW n \in 1..MaxNumber, sent'[n] > 0 PROVE Finalized(n)'
    BY DEF SentIsFinalized
  <2>1. n \in Nat
    OBVIOUS
  <2> QED BY <1>2, <2>1 DEF SentInv, SentIsFinalized
<1> QED BY <1>4, <1>5 DEF SentInv

LEMMA SentStep == SentInv /\ [NotifyNext]_notifyVars => SentInv'
<1> SUFFICES ASSUME SentInv, [NotifyNext]_notifyVars PROVE SentInv'
  OBVIOUS
<1>n. /\ NotifyInv /\ knownTo \in Nat /\ writtenTo \in Nat /\ writtenTo <= knownTo
      /\ sent \in [1..MaxNumber -> Nat]
      /\ caller \in [Callers -> CallerStates] /\ \A c \in Callers : Holding(caller[c])
  BY DEF SentInv, NotifyInv
<1>d. Done \in CallerStates /\ Holding(Done)' /\ Done.at = "done"
  BY DEF Done, CallerStates, Holding
<1>1. CASE Announce
  BY <1>1, AnnounceSent
<1>2. CASE WriteAnnounced
  <2>1. PICK r \in CallerStates : r = [at |-> "end", block |-> knownTo]
    BY <1>n DEF CallerStates
  <2>2. knownTo' = knownTo
    BY <1>2 DEF WriteAnnounced
  <2>3. r.at = "end" /\ r.block <= knownTo'
    BY <1>n, <2>1, <2>2
  <2>4. Holding(r)'
    BY <2>3 DEF Holding
  <2>5. "import" \in Callers /\ caller' = [caller EXCEPT !["import"] = r]
    BY <1>2, <2>1 DEF Callers, WriteAnnounced, Go
  <2> QED BY <1>2, <1>n, <2>4, <2>5, SentStepBy DEF WriteAnnounced
<1>3. ASSUME NEW n \in 1..MaxNumber, NEW c \in Checks,
             TransferVotes(n, c) \/ \E complete \in BOOLEAN : PutIntoCur(n, c, complete)
      PROVE  SentInv'
  <2>1. /\ n <= knownTo /\ UNCHANGED <<knownTo, att, writtenTo, sent>> /\ quorum \subseteq quorum'
        /\ caller' \in {caller, Go(c, "check", n)}
    BY <1>3, <1>n DEF TransferVotes, PutIntoCur, chainVars
  <2>2. PICK r \in CallerStates : r = [at |-> "check", block |-> n]
    BY CallerStateExists
  <2>3. r.at = "check" /\ r.block <= knownTo'
    BY <2>1, <2>2
  <2>4. Holding(r)'
    BY <2>3 DEF Holding
  <2>5. c \in Callers /\ caller' \in {caller, [caller EXCEPT ![c] = r]}
    BY <2>1, <2>2 DEF Callers, Go
  <2> QED BY <1>n, <2>1, <2>4, <2>5, SentStepBy
<1>4. ASSUME NEW c \in Callers, FindFinalized(c) PROVE SentInv'
  <2>1. UNCHANGED <<knownTo, att, writtenTo, sent, quorum>>
    BY <1>4 DEF FindFinalized, chainVars
  <2>2. CASE caller' = Go(c, "done", 0)
    <3>1. caller' = [caller EXCEPT ![c] = Done]
      BY <2>2 DEF Go, Done
    <3> QED BY <1>n, <1>d, <2>1, <3>1, SentStepBy
  <2>3. CASE /\ caller[c].block <= writtenTo /\ GetFinalizedHeader(caller[c].block) # 0
             /\ caller' = Go(c, "load", GetFinalizedHeader(caller[c].block))
    <3>1. caller[c].block \in 0..knownTo
      BY <1>n, <2>3 DEF CallerStates
    <3>2. PICK f \in 1..MaxNumber : f = GetFinalizedHeader(caller[c].block) /\ Finalized(f)
      BY <1>n, <2>3, <3>1, FoundIsFinalized
    <3>3. PICK r \in CallerStates : r = [at |-> "load", block |-> f]
      BY <3>2, CallerStateExists
    <3>4. Holding(r)'
      <4>1. Finalized(f)'
        BY <2>1, <3>2 DEF Finalized
      <4>2. r.at = "load" /\ r.block = f
        BY <3>3
      <4> QED BY <3>2, <4>1, <4>2 DEF Holding
    <3>5. caller' = [caller EXCEPT ![c] = r]
      BY <2>3, <3>2, <3>3 DEF Go
    <3> QED BY <1>n, <2>1, <3>4, <3>5, SentStepBy
  <2> QED BY <1>4, <2>2, <2>3 DEF FindFinalized
<1>5. ASSUME NEW c \in Callers, NotifyLoad(c) \/ NotifyStore(c) \/ NotifySend(c) PROVE SentInv'
  <2>1. UNCHANGED <<knownTo, att, writtenTo, quorum>> /\ caller[c].at \in {"load", "store", "send"}
    BY <1>5 DEF NotifyLoad, NotifyStore, NotifySend, chainVars
  <2>2. PICK f \in 1..MaxNumber : f = caller[c].block /\ Finalized(f)
    BY <1>n, <2>1 DEF Holding
  <2>3. Finalized(f)'
    BY <2>1, <2>2 DEF Finalized
  <2>4. sent' \in [1..MaxNumber -> Nat] /\ \A n \in 1..MaxNumber : sent'[n] = sent[n] \/ n = f
    <3>1. CASE sent' = sent
      BY <1>n, <3>1
    <3>2. CASE sent' = [sent EXCEPT ![f] = IF sent[f] = 2 THEN 2 ELSE sent[f] + 1]
      BY <1>n, <3>2
    <3> QED BY <1>5, <2>2, <3>1, <3>2 DEF NotifyLoad, NotifyStore, NotifySend
  <2>5. \A n \in 1..MaxNumber : sent'[n] = sent[n] \/ Finalized(n)
    BY <2>2, <2>4
  <2>6. PICK where \in {"done", "store", "send"}, n \in {0, f} :
          caller' = Go(c, where, n) /\ (where # "done" => n = f)
    BY <1>5, <2>2 DEF NotifyLoad, NotifyStore, NotifySend
  <2>7. PICK r \in CallerStates : r = [at |-> where, block |-> n]
    BY <2>6, CallerStateExists
  <2>8. Holding(r)'
    <3>1. r.at = where /\ r.block = n
      BY <2>7
    <3> QED BY <2>3, <2>6, <3>1 DEF Holding
  <2>9. caller' \in {caller, [caller EXCEPT ![c] = r]}
    BY <2>6, <2>7 DEF Go
  <2> QED BY <1>n, <2>1, <2>4, <2>5, <2>8, <2>9, SentStepBy
<1>6. CASE UNCHANGED notifyVars
  <2>1. UNCHANGED <<knownTo, att, writtenTo, quorum, sent, caller>>
    BY <1>6 DEF notifyVars, chainVars
  <2>2. "import" \in Callers
    BY DEF Callers
  <2> QED BY <1>n, <1>d, <2>1, <2>2, SentStepBy
<1> QED BY <1>1, <1>2, <1>3, <1>4, <1>5, <1>6 DEF NotifyNext, Notify

\* OnlyFinalizedSent: however the import and any number of goroutines of the pool
\* interleave in NotifyFinalized, a block is sent on the feed only when the header
\* chain, or the votes in the pool for its direct child, finalize it
\* (SentIsFinalized), on a chain of any length.
THEOREM OnlyFinalizedSent == NotifySpec => []SentIsFinalized
<1>1. NotifyInit => SentInv
  <2> SUFFICES ASSUME NotifyInit PROVE SentInv
    OBVIOUS
  <2>1. MaxNumber \in Nat
    BY NumberAssumption
  <2>2. \A c \in Callers : Holding(caller[c])
    BY DEF NotifyInit, Done, Holding
  <2>3. caller \in [Callers -> CallerStates]
    BY DEF NotifyInit, Done, CallerStates
  <2>4. sent \in [1..MaxNumber -> Nat] /\ SentIsFinalized
    BY DEF NotifyInit, SentIsFinalized
  <2>5. 0..0 = {0}
    OBVIOUS
  <2> QED BY <2>1, <2>2, <2>3, <2>4, <2>5 DEF NotifyInit, SentInv, NotifyInv
<1>2. SentInv /\ [NotifyNext]_notifyVars => SentInv'
  BY SentStep
<1>3. SentInv => SentIsFinalized
  BY DEF SentInv
<1> QED BY <1>1, <1>2, <1>3, PTL DEF NotifySpec
============================================================================
