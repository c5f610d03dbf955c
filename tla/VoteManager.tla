---------------------------- MODULE VoteManager ----------------------------
(***************************************************************************)
(* The nodes that hold one vote key: a validator, and possibly the standby *)
(* machine that takes over from it.  Each runs the loop of VoteManager     *)
(* (core/vote/vote_manager.go) over a VoteJournal (vote_journal.go): a     *)
(* write-ahead log on disk and an LRU cache of the last votes by target.   *)
(*                                                                         *)
(* The chain is the environment: it announces heads, of any fork, and may  *)
(* go back by at most MaxReorg blocks.  A node may stop at any point and   *)
(* reload its journal.  Votes travel between the nodes late, in any order  *)
(* or not at all.                                                          *)
(***************************************************************************)
EXTENDS Integers, Sequences, SequencesExt, FiniteSetsExt

CONSTANTS
  Nodes,       \* the nodes that hold the vote key
  Forks,       \* labels that tell blocks of the same height apart
  MaxNumber,   \* bound: the highest block
  Justifiable, \* the blocks a branch may have justified
  MaxReorg,    \* the chain never goes back further than this
  MaxCrash,    \* bound: restarts
  MaxRepeat,   \* bound: votes that come back to a journal that holds them
  MaxSize,     \* maxSizeOfRecentEntry
  Scope,       \* maliciousVoteSlashScope
  Upper,       \* upperLimitOfVoteBlockNumber
  WaitBlocks   \* blocksNumberSinceMining

ASSUME SizeAssumption ==
  /\ MaxNumber \in Nat /\ MaxCrash \in Nat /\ WaitBlocks \in Nat
  /\ Justifiable \subseteq Nat /\ 0 \in Justifiable
  /\ Upper \in Nat /\ MaxReorg \in 0..Upper
  /\ Scope \in Nat \ {0} /\ MaxRepeat \in Nat
  /\ MaxSize \in Nat \ {0}

Blocks == {b \in [number : 1..MaxNumber, justified : Justifiable, fork : Forks] :
             b.justified < b.number}

\* The vote for a block: from the justified block of its branch to itself.
VoteFor(b) == [source |-> b.justified, target |-> b.number, fork |-> b.fork]

Votes == {VoteFor(b) : b \in Blocks}

VARIABLES
  highest,    \* the highest block announced so far
  head,       \* the block of the last HighestVerifiedBlockEvent of each node
  mining,     \* eth.IsMining()
  startVote,  \* the downloader is not running
  count,      \* blockCountSinceMining, capped at WaitBlocks
  wal,        \* the votes in the log on disk, oldest first
  buffer,     \* voteDataBuffer: one vote per target, least recently used first
  task,       \* the vote that the loop is writing
  published,  \* votes handed to the network with PutVote
  known,      \* votes each node has journalled at some time
  repeats,    \* votes journalled more than once
  crashes     \* restarts

chainVars == <<highest, head>>
flags     == <<mining, startVote, count>>
journal   == <<wal, buffer>>
history   == <<known, repeats, crashes>>
vars      == <<chainVars, flags, journal, task, published, history>>

Genesis == [number |-> 0, justified |-> 0, fork |-> CHOOSE f \in Forks : TRUE]

Idle == [step |-> "idle"]

Init ==
  /\ highest = 0
  /\ head = [i \in Nodes |-> Genesis]
  /\ mining = [i \in Nodes |-> FALSE]
  /\ startVote = [i \in Nodes |-> TRUE]
  /\ count = [i \in Nodes |-> 0]
  /\ wal = [i \in Nodes |-> <<>>]
  /\ buffer = [i \in Nodes |-> <<>>]
  /\ task = [i \in Nodes |-> Idle]
  /\ known = [i \in Nodes |-> {}]
  /\ repeats = 0
  /\ published = {}
  /\ crashes = 0

----------------------------------------------------------------------------
(* The LRU cache.                                                          *)

HasVote(buf, t) == \E k \in DOMAIN buf : buf[k].target = t

Position(buf, t) == CHOOSE k \in DOMAIN buf : buf[k].target = t

Lookup(buf, t) == buf[Position(buf, t)]

\* A vote that is read or replaced becomes the most recently used one.
Renew(buf, v) == Append(RemoveAt(buf, Position(buf, v.target)), v)

Add(buf, v) ==
  IF HasVote(buf, v.target) THEN Renew(buf, v)
  ELSE Append(IF Len(buf) >= MaxSize THEN Tail(buf) ELSE buf, v)

\* Get of every target of T, all of them in the cache, in ascending order.
Touch(buf, T) ==
  LET run[t \in 0..MaxNumber] ==
        IF t = 0 THEN buf
        ELSE IF t \in T THEN Renew(run[t - 1], Lookup(run[t - 1], t)) ELSE run[t - 1]
  IN  run[MaxNumber]

----------------------------------------------------------------------------
(* UnderRules.                                                             *)

Span_NoUpper(v) == (v.source + 1)..(v.target - 1)

\* The targets UnderRules looks up for a vote, in its two loops.
Span(v) ==
  LET first == IF v.source + 1 + Scope < v.target THEN v.target - Scope ELSE v.source + 1
  IN  (first..(v.target - 1)) \cup ((v.target + 1)..(v.target + Upper))

Visited(buf, v) == {t \in Span(v) : HasVote(buf, t)}

Crossing(buf, v) ==
  {t \in Visited(buf, v) :
     IF t < v.target THEN Lookup(buf, t).source > v.source
                     ELSE Lookup(buf, t).source < v.source}

UnderRules(buf, v) == ~HasVote(buf, v.target) /\ Crossing(buf, v) = {}

\* The lookups move what they find to the front of the cache, up to the first
\* crossing vote.
Checked(buf, v) ==
  IF HasVote(buf, v.target) THEN buf
  ELSE LET bad == Crossing(buf, v)
       IN  Touch(buf, {t \in Visited(buf, v) : bad = {} \/ t <= Min(bad)})

----------------------------------------------------------------------------
(* The loop of a node.                                                     *)

StartWrite(i, v, own) == [task EXCEPT ![i] = [step |-> "write", vote |-> v, own |-> own]]

\* A HighestVerifiedBlockEvent.  The fork choice never gives up a higher
\* justified block.  able: the node is an active validator at b; onTime: the
\* vote can still be assembled and the signer answers.
HandleHead(i, b, able, onTime) ==
  /\ task[i] = Idle
  /\ b # head[i] /\ b.justified >= head[i].justified /\ b.number >= highest - MaxReorg
  /\ highest' = Max({highest, b.number})
  /\ head' = [head EXCEPT ![i] = b]
  /\ \/ ~startVote[i] /\ UNCHANGED <<count, buffer, task>>
     \/ /\ startVote[i] /\ ~mining[i]
        /\ count' = [count EXCEPT ![i] = 0]
        /\ UNCHANGED <<buffer, task>>
     \/ /\ startVote[i] /\ mining[i]
        /\ count' = [count EXCEPT ![i] = Min({@ + 1, WaitBlocks})]
        /\ IF count[i] < WaitBlocks \/ ~able THEN UNCHANGED <<buffer, task>>
           ELSE /\ buffer' = [buffer EXCEPT ![i] = Checked(@, VoteFor(b))]
                /\ task' = IF UnderRules(buffer[i], VoteFor(b)) /\ onTime
                           THEN StartWrite(i, VoteFor(b), TRUE) ELSE task
  /\ UNCHANGED <<mining, startVote, wal, published, history>>

\* A vote of this key arrives from the pool: a node that does not mine writes
\* it to its journal, even when it is there already.
SyncVote(i, v) ==
  /\ task[i] = Idle /\ ~mining[i]
  /\ v \in known[i] => repeats < MaxRepeat
  /\ repeats' = IF v \in known[i] THEN repeats + 1 ELSE repeats
  /\ task' = StartWrite(i, v, FALSE)
  /\ UNCHANGED <<chainVars, flags, journal, published, known, crashes>>

\* WriteVote, first part: append to the log.  An error ends the attempt.
JournalWrite(i) ==
  /\ task[i].step = "write"
  /\ \/ /\ wal' = [wal EXCEPT ![i] = Append(@, task[i].vote)]
        /\ known' = [known EXCEPT ![i] = @ \cup {task[i].vote}]
        /\ task' = [task EXCEPT ![i].step = "add"]
     \/ task' = [task EXCEPT ![i] = Idle] /\ UNCHANGED <<wal, known>>
  /\ UNCHANGED <<chainVars, flags, buffer, published, repeats, crashes>>

LastOf_OneShort(s, n) == IF Len(s) > n - 1 THEN SubSeq(s, Len(s) - n + 2, Len(s)) ELSE s

LastOf(s, n) == IF Len(s) > n THEN SubSeq(s, Len(s) - n + 1, Len(s)) ELSE s

\* WriteVote, second part: truncate the log and fill the cache.
JournalAdd(i) ==
  /\ task[i].step = "add"
  /\ wal' = [wal EXCEPT ![i] = LastOf(@, MaxSize)]
  /\ buffer' = [buffer EXCEPT ![i] = Add(@, task[i].vote)]
  /\ task' = [task EXCEPT ![i] = IF @.own THEN [@ EXCEPT !.step = "put"] ELSE Idle]
  /\ UNCHANGED <<chainVars, flags, published, history>>

\* PutVote drops the vote when the channel to the pool is full.
PutVote(i) ==
  /\ task[i].step = "put"
  /\ task' = [task EXCEPT ![i] = Idle]
  /\ published' \in {published, published \cup {task[i].vote}}
  /\ UNCHANGED <<chainVars, flags, journal, history>>

\* The operator turns mining on and off; two nodes never mine together.
SetMining(i, on) ==
  /\ mining[i] # on
  /\ on => \A j \in Nodes : ~mining[j]
  /\ mining' = [mining EXCEPT ![i] = on]
  /\ UNCHANGED <<chainVars, startVote, count, journal, task, published, history>>

\* StartEvent, and DoneEvent or FailedEvent, of the downloader.
Downloader(i) ==
  /\ task[i] = Idle
  /\ startVote' = [startVote EXCEPT ![i] = ~@]
  /\ UNCHANGED <<chainVars, mining, count, journal, task, published, history>>

\* NewVoteJournal: the cache is filled from the log in its order.
Reload(log) ==
  LET run[k \in 0..Len(log)] == IF k = 0 THEN <<>> ELSE Add(run[k - 1], log[k])
  IN  run[Len(log)]

\* A stop at any point, and the start that follows.  The chain may have lost
\* its last blocks.
Restart(i, b) ==
  /\ crashes < MaxCrash
  /\ b.number <= head[i].number /\ b.number >= highest - MaxReorg
  /\ crashes' = crashes + 1
  /\ head' = [head EXCEPT ![i] = b]
  /\ mining' = [mining EXCEPT ![i] = FALSE]
  /\ startVote' = [startVote EXCEPT ![i] = TRUE]
  /\ count' = [count EXCEPT ![i] = 0]
  /\ buffer' = [buffer EXCEPT ![i] = Reload(wal[i])]
  /\ task' = [task EXCEPT ![i] = Idle]
  /\ UNCHANGED <<highest, wal, published, known, repeats>>

Next ==
  \E i \in Nodes :
    \/ \E b \in Blocks, able, onTime \in BOOLEAN : HandleHead(i, b, able, onTime)
    \/ \E v \in published : SyncVote(i, v)
    \/ JournalWrite(i)
    \/ JournalAdd(i)
    \/ PutVote(i)
    \/ \E on \in BOOLEAN : SetMining(i, on)
    \/ Downloader(i)
    \/ \E b \in Blocks \cup {Genesis} : Restart(i, b)

Spec == Init /\ [][Next]_vars
----------------------------------------------------------------------------
Rules == INSTANCE VoteRules WITH Votes <- Votes, Scope <- Scope, published <- published

\* VotesFollowRules: through reorganisations, crashes, restarts and lost or
\* repeated votes, the votes published with the key obey the rules 1 and 2 of
\* UnderRules, although each check sees only a bounded cache.
VotesFollowRules == Rules!Spec

\* Refuses every vote, for a block that may still be announced, that would
\* conflict with a published one.
Protects(buf) ==
  \A b \in Blocks :
    /\ b.number >= highest - MaxReorg
    /\ \E w \in published : Rules!Conflict(VoteFor(b), w)
    => ~UnderRules(buf, VoteFor(b))

\* JournalProtects: at every moment, in the middle of WriteVote included, the
\* cache that NewVoteJournal would rebuild from the log is as good as needed:
\* a restarted node refuses all votes that conflict with published ones.
JournalProtects == \A i \in Nodes : Protects(Reload(wal[i]))
============================================================================
