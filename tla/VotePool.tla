------------------------------ MODULE VotePool ------------------------------
(***************************************************************************)
(* The pool of finality votes (core/vote/vote_pool.go) next to the block   *)
(* import that feeds it (writeBlockAndSetHead in core/blockchain.go).      *)
(* Votes for known blocks are current; votes that arrive before their      *)
(* block are kept as future votes and move when a new head is announced.   *)
(* A vote names its target by hash and by number, and the number is checked *)
(* only against a known block, so that a future vote may carry another one. *)
(*                                                                         *)
(* The pool runs one loop; the import runs beside it, so a block may       *)
(* become known between two steps of the loop.                             *)
(***************************************************************************)
EXTENDS Integers, Sequences, FiniteSets, Bags, Functions

CONSTANTS
  Blocks,     \* the blocks that may exist: records [number, fork]
  Votes,      \* the votes that may arrive: records [block, number, voter]
  Outsiders,  \* vote keys that are not in the validator set
  MaxCur,     \* maxCurVoteAmountPerBlock
  MaxFuture,  \* maxFutureVoteAmountPerBlock
  Buffer,     \* voteBufferForPut and highestVerifiedBlockChanSize
  Lower,      \* lowerLimitOfVoteBlockNumber
  Upper       \* upperLimitOfVoteBlockNumber

ASSUME LimitAssumption ==
  /\ \A b \in Blocks : b.number \in Nat \ {0}
  /\ \A v \in Votes : v.block \in Blocks /\ v.number \in Nat
  /\ MaxCur \in Nat /\ MaxFuture \in Nat
  /\ Buffer \in Nat \ {0} /\ Lower \in Nat \ {0} /\ Upper \in Nat

None == [number |-> 0, fork |-> 0]

VARIABLES
  written,    \* blocks in the database
  verified,   \* highestVerifiedBlock, perhaps in memory only
  importing,  \* the announced head that is still to be written
  current,    \* the number of CurrentBlock
  announced,  \* heads announced and written
  headCh,     \* highestVerifiedBlockCh
  votesCh,    \* votesCh
  received,   \* receivedVotes
  curVotes, futureVotes,      \* the votes of each block, by block
  curVotesPq, futureVotesPq,  \* the two priority queues: entries [block, number]
  step        \* where the loop is

importVars == <<written, verified, importing, current, announced>>
boxes      == <<received, curVotes, futureVotes, curVotesPq, futureVotesPq>>
vars       == <<importVars, headCh, votesCh, boxes, step>>

Waiting == [at |-> "select"]

Init ==
  /\ written = {} /\ verified = None /\ importing = None /\ current = 0 /\ announced = {}
  /\ headCh = <<>> /\ votesCh = <<>>
  /\ received = {}
  /\ curVotes = <<>> /\ futureVotes = <<>>
  /\ curVotesPq = EmptyBag /\ futureVotesPq = EmptyBag
  /\ step = Waiting

----------------------------------------------------------------------------
(* Block import.                                                           *)

GetVerifiedBlockByHash(b) == b = verified \/ b \in written

\* The block is new and its parent is known.
Importable(b) ==
  /\ importing = None /\ b \notin written
  /\ b.number = 1 \/ \E p \in written : p.number = b.number - 1

\* A block that becomes the head is announced before it is written.
AnnounceHead(b) ==
  /\ Importable(b)
  /\ Len(headCh) < Buffer
  /\ verified' = b /\ importing' = b
  /\ headCh' = Append(headCh, b)
  /\ UNCHANGED <<written, current, announced, votesCh, boxes, step>>

\* writeBlockWithState succeeds and the head moves, or it fails.
WriteHead ==
  /\ importing # None
  /\ importing' = None
  /\ \/ /\ written' = written \cup {importing}
        /\ announced' = announced \cup {importing}
        /\ current' = importing.number
     \/ UNCHANGED <<written, announced, current>>
  /\ UNCHANGED <<verified, headCh, votesCh, boxes, step>>

\* A block of a branch that is not preferred is written without notice.
WriteSide(b) ==
  /\ Importable(b)
  /\ written' = written \cup {b}
  /\ UNCHANGED <<verified, importing, current, announced, headCh, votesCh, boxes, step>>

----------------------------------------------------------------------------
(* The loop of the pool.                                                   *)

VerifyVote(v) ==
  /\ GetVerifiedBlockByHash(v.block)
  /\ v.number = v.block.number
  /\ v.voter \notin Outsiders

VotesIn(box, b) == IF b \in DOMAIN box THEN box[b] ELSE {}

InRange(v) == current < v.number + Lower /\ v.number <= current + Upper

\* basicVerify for the box the vote is meant for.
BasicVerify(v, future) ==
  /\ v \notin received
  /\ IF future THEN Cardinality(VotesIn(futureVotes, v.block)) < MaxFuture
               ELSE Cardinality(VotesIn(curVotes, v.block)) < MaxCur

\* PutVote: from a peer or from the vote manager; dropped when votesCh is full.
PutVote(v) ==
  /\ Len(votesCh) < Buffer
  /\ votesCh' = Append(votesCh, v)
  /\ UNCHANGED <<importVars, headCh, boxes, step>>

\* putIntoVotePool up to the lookup of the block.
TakeVote ==
  /\ step = Waiting /\ votesCh # <<>>
  /\ votesCh' = Tail(votesCh)
  /\ step' = IF InRange(Head(votesCh))
             THEN [at |-> "put", vote |-> Head(votesCh),
                   future |-> ~GetVerifiedBlockByHash(Head(votesCh).block)]
             ELSE Waiting
  /\ UNCHANGED <<importVars, headCh, boxes>>

Put(box, v) == [b \in DOMAIN box \cup {v.block} |-> VotesIn(box, b) \cup (IF b = v.block THEN {v} ELSE {})]

Entry(v) == [block |-> v.block, number |-> v.number]

Push_Always(pq, box, v) == pq (+) SetToBag({Entry(v)})

\* The first vote of a box gives the box its number in the queue.
Push(pq, box, v) == IF v.block \in DOMAIN box THEN pq ELSE pq (+) SetToBag({Entry(v)})

\* The rest of putIntoVotePool: the checks, and putVote.
StoreVote ==
  LET v == step.vote
  IN  /\ step.at = "put"
      /\ step' = Waiting
      /\ IF BasicVerify(v, step.future) /\ (step.future \/ VerifyVote(v))
         THEN /\ received' = received \cup {v}
              /\ IF step.future
                 THEN /\ futureVotesPq' = Push(futureVotesPq, futureVotes, v)
                      /\ futureVotes' = Put(futureVotes, v)
                      /\ UNCHANGED <<curVotes, curVotesPq>>
                 ELSE /\ curVotesPq' = Push(curVotesPq, curVotes, v)
                      /\ curVotes' = Put(curVotes, v)
                      /\ UNCHANGED <<futureVotes, futureVotesPq>>
         ELSE UNCHANGED boxes
      /\ UNCHANGED <<importVars, headCh, votesCh>>

Obsolete(e, latest) == e.number + Lower - 1 < latest

BlocksOf(entries) == {e.block : e \in entries}

\* prune: only current votes; then transfer for the same head.
Prune ==
  LET latest == Head(headCh).number
      popped == {e \in BagToSet(curVotesPq) : Obsolete(e, latest)}
      old    == BlocksOf(popped)
  IN  /\ step = Waiting /\ headCh # <<>>
      /\ headCh' = Tail(headCh)
      /\ step' = [at |-> "transfer", latest |-> latest]
      /\ curVotesPq' = [e \in DOMAIN curVotesPq \ popped |-> curVotesPq[e]]
      /\ received' = received \ UNION {VotesIn(curVotes, b) : b \in old}
      /\ curVotes' = Restrict(curVotes, DOMAIN curVotes \ old)
      /\ UNCHANGED <<importVars, votesCh, futureVotes, futureVotesPq>>

Movable_Before(e, latest) ==
  \/ e.number + Upper < latest
  \/ e.number < latest /\ GetVerifiedBlockByHash(e.block)

Movable_StaleOnly(e, latest) == e.number + Upper < latest

\* The entries of the future queue that a head moves: the stale ones whatever
\* happened to their block, and the recent ones whose block is known.
Movable(e, latest) ==
  \/ e.number + Upper < latest
  \/ e.number <= latest /\ GetVerifiedBlockByHash(e.block)

\* transferVotesFromFutureToCur: votes that fail VerifyVote are forgotten, and a
\* new current box takes the entry of the future one.
Transfer ==
  LET popped == {e \in BagToSet(futureVotesPq) : Movable(e, step.latest)}
      pushed == {e \in popped : e.block \in DOMAIN futureVotes \ DOMAIN curVotes}
      boxed  == BlocksOf(popped) \cap DOMAIN futureVotes
      valid  == [b \in boxed |-> {v \in futureVotes[b] : VerifyVote(v)}]
  IN  /\ step.at = "transfer"
      /\ step' = Waiting
      /\ futureVotesPq' = [e \in DOMAIN futureVotesPq \ popped |-> futureVotesPq[e]]
      /\ futureVotes' = Restrict(futureVotes, DOMAIN futureVotes \ boxed)
      /\ curVotesPq' = curVotesPq (+) SetToBag(pushed)
      /\ curVotes' = [b \in DOMAIN curVotes \cup boxed |->
                        VotesIn(curVotes, b) \cup (IF b \in boxed THEN valid[b] ELSE {})]
      /\ received' = received \ UNION {futureVotes[b] \ valid[b] : b \in boxed}
      /\ UNCHANGED <<importVars, headCh, votesCh>>

Next ==
  \/ \E b \in Blocks : AnnounceHead(b) \/ WriteSide(b)
  \/ WriteHead
  \/ \E v \in Votes : PutVote(v)
  \/ TakeVote
  \/ StoreVote
  \/ Prune
  \/ Transfer

\* The loop's select picks at random among the channels that are ready, and
\* the import finishes what it started.
Fairness ==
  /\ WF_vars(WriteHead) /\ WF_vars(StoreVote) /\ WF_vars(Transfer)
  /\ SF_vars(TakeVote) /\ SF_vars(Prune)

Spec == Init /\ [][Next]_vars /\ Fairness
----------------------------------------------------------------------------
All(box) == UNION {box[b] : b \in DOMAIN box}

\* Every entry is in the queue once, and every block of the map has one entry.
OneEntryEach(pq, box) ==
  /\ pq = SetToBag(BagToSet(pq))
  /\ BlocksOf(BagToSet(pq)) = DOMAIN box
  /\ \A e, f \in BagToSet(pq) : e.block = f.block => e = f

\* BoxesMatch: each priority queue holds every block of its map exactly once
\* through putVote, transfer and prune, whatever numbers the votes carry (an entry
\* too few is a box that is never pruned, one too many is visited after it is
\* gone); receivedVotes, which keeps duplicates out, holds exactly the votes in the
\* boxes, and no vote is in both maps: one that was pruned or failed its
\* verification may come again, any other may not; and only votes of validators
\* that name their target by its right number are current, to be counted for a
\* quorum.
BoxesMatch ==
  /\ OneEntryEach(curVotesPq, curVotes)
  /\ OneEntryEach(futureVotesPq, futureVotes)
  /\ received = All(curVotes) \cup All(futureVotes)
  /\ All(curVotes) \cap All(futureVotes) = {}
  /\ \A v \in All(curVotes) : v.voter \notin Outsiders /\ v.number = v.block.number

\* A future box of a block that has become a head, whose entry is not beyond that
\* block or not beyond the last head that was announced.
Due(b) ==
  /\ b \in DOMAIN futureVotes \cap announced
  /\ \E e \in BagToSet(futureVotesPq) :
       e.block = b /\ (e.number <= b.number \/ e.number <= verified.number)

\* AnnouncedVotesMoved: once the loop has handled all announced heads, a vote for a
\* head of the local chain is left among the future votes only when the first vote
\* of its box gave a number beyond that head and beyond the last one announced;
\* no vote stays there because it was looked up just before its block was
\* announced.
AnnouncedVotesMoved == (headCh = <<>> /\ step = Waiting) => \A b \in Blocks : ~Due(b)

\* FutureVotesServed: a future box whose block becomes a head of the local chain
\* eventually leaves the future votes (transferVotesFromFutureToCur): with that
\* head when its first vote gave the right number or a lower one, and otherwise
\* once a head of the number it gave is announced.
FutureVotesServed == \A b \in Blocks : Due(b) ~> (b \notin DOMAIN futureVotes)
=============================================================================
