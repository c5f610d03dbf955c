--------------------------- MODULE FinalityNotify ---------------------------
(***************************************************************************)
(* How a node announces finalized blocks.  The import of a block ends with *)
(* NotifyFinalized (core/blockchain.go); every vote that enters the pool   *)
(* may start a goroutine that does the same as soon as the votes finalize  *)
(* a block early (CheckFinalityAndNotify, GetFinalizedHeader in            *)
(* consensus/parlia/parlia.go).  NotifyFinalized reads, writes and sends   *)
(* without a lock, so the callers interleave between these steps.          *)
(*                                                                         *)
(* One branch: blocks are numbers and 0 is genesis, whose announcement by  *)
(* the import is not counted.                                              *)
(***************************************************************************)
EXTENDS Integers, FiniteSets, Functions

CONSTANTS
  MaxNumber,  \* bound: the highest block
  Checks      \* bound: the goroutines that may run at the same time

ASSUME NumberAssumption == MaxNumber \in Nat

Callers == Checks \cup {"import"}

VARIABLES
  knownTo,   \* the highest block the pool accepts current votes for
  writtenTo, \* the highest block in the database
  att,       \* the attestation in the snapshot of each known block
  quorum,    \* blocks whose votes in curVotes have reached the quorum
  notified,  \* highestNotifiedFinal, 0 when nil
  sent,      \* how often each block was sent on the feed
  caller     \* what each caller of NotifyFinalized is doing

chainVars == <<knownTo, writtenTo, att>>
notifyVars == <<chainVars, quorum, notified, sent, caller>>

Done == [at |-> "done", block |-> 0]

NotifyInit ==
  /\ knownTo = 0 /\ writtenTo = 0
  /\ att = [n \in {0} |-> [source |-> 0, target |-> 0]]
  /\ quorum = {}
  /\ notified = 0
  /\ sent = [n \in 1..MaxNumber |-> 0]
  /\ caller = [c \in Callers |-> Done]

----------------------------------------------------------------------------
Go(c, where, n) == [caller EXCEPT ![c] = [at |-> where, block |-> n]]

\* updateAttestation for a block that attests its parent, or nothing.
NextAttestations(a, n) ==
  {a} \cup (IF n - 1 <= a.target THEN {}
            ELSE IF a.target = 0 \/ a.target + 1 = n - 1
                 THEN {[source |-> a.target, target |-> n - 1]}
                 ELSE {[a EXCEPT !.target = n - 1]})

\* writeBlockAndSetHead up to the announcement.  In a batch, the import goes on
\* to the next block without a notification.
Announce ==
  /\ knownTo = writtenTo /\ knownTo < MaxNumber
  /\ caller["import"].at \in {"done", "end"}
  /\ knownTo' = knownTo + 1
  /\ \E a \in NextAttestations(att[knownTo], knownTo + 1) :
       att' = [n \in 0..(knownTo + 1) |-> IF n > knownTo THEN a ELSE att[n]]
  /\ caller' = Go("import", "write", knownTo + 1)
  /\ UNCHANGED <<writtenTo, quorum, notified, sent>>

WriteAnnounced ==
  /\ caller["import"].at = "write"
  /\ writtenTo' = knownTo
  /\ caller' = Go("import", "end", knownTo)
  /\ UNCHANGED <<knownTo, att, quorum, notified, sent>>

\* A vote for block n is put among the current votes, and may complete its
\* quorum.  putVote starts no goroutine when the parent has been notified.
PutIntoCur(n, c, complete) ==
  /\ n \in 1..knownTo
  /\ caller[c] = Done /\ c # "import"
  /\ quorum' = IF complete THEN quorum \cup {n} ELSE quorum
  /\ caller' = IF notified = 0 \/ n > notified + 1 THEN Go(c, "check", n) ELSE caller
  /\ UNCHANGED <<chainVars, notified, sent>>

\* transfer moves several votes and always starts a goroutine.
TransferVotes(n, c) ==
  /\ n \in 1..knownTo
  /\ caller[c] = Done /\ c # "import"
  /\ quorum' \in {quorum, quorum \cup {n}}
  /\ caller' = Go(c, "check", n)
  /\ UNCHANGED <<chainVars, notified, sent>>

GetFinalizedHeader_AnyJustified(n) == IF n \in quorum THEN att[n].target ELSE att[n].source

GetFinalizedHeader_HeaderOnly(n) == att[n].source

\* The attestation of the header, or one block more when the votes in the pool
\* finalize the block that the header justifies.
GetFinalizedHeader(n) ==
  IF att[n].target = n - 1 /\ n \in quorum THEN att[n].target ELSE att[n].source

\* CheckFinalityAndNotify, and the end of insertChain: nothing to do for a
\* block that is not in the database or when nothing is finalized.
FindFinalized(c) ==
  /\ caller[c].at \in {"check", "end"}
  /\ LET n == caller[c].block
     IN  caller' = IF n <= writtenTo /\ GetFinalizedHeader(n) # 0
                   THEN Go(c, "load", GetFinalizedHeader(n)) ELSE Go(c, "done", 0)
  /\ UNCHANGED <<chainVars, quorum, notified, sent>>

\* NotifyFinalized in its three steps.
NotifyLoad(c) ==
  /\ caller[c].at = "load"
  /\ caller' = IF caller[c].block <= notified THEN Go(c, "done", 0) ELSE Go(c, "store", caller[c].block)
  /\ UNCHANGED <<chainVars, quorum, notified, sent>>

NotifyStore(c) ==
  /\ caller[c].at = "store"
  /\ notified' = caller[c].block
  /\ caller' = Go(c, "send", caller[c].block)
  /\ UNCHANGED <<chainVars, quorum, sent>>

NotifySend(c) ==
  /\ caller[c].at = "send"
  /\ sent' = [sent EXCEPT ![caller[c].block] = IF @ = 2 THEN 2 ELSE @ + 1]
  /\ caller' = Go(c, "done", 0)
  /\ UNCHANGED <<chainVars, quorum, notified>>

Notify(c) == FindFinalized(c) \/ NotifyLoad(c) \/ NotifyStore(c) \/ NotifySend(c)

NotifyNext ==
  \/ Announce
  \/ WriteAnnounced
  \/ \E n \in 1..MaxNumber, c \in Checks :
       \/ \E complete \in BOOLEAN : PutIntoCur(n, c, complete)
       \/ TransferVotes(n, c)
  \/ \E c \in Callers : Notify(c)

\* A goroutine that was started runs, and the import finishes.
NotifyFairness == WF_notifyVars(WriteAnnounced) /\ \A c \in Callers : WF_notifyVars(Notify(c))

NotifySpec == NotifyInit /\ [][NotifyNext]_notifyVars /\ NotifyFairness
----------------------------------------------------------------------------
\* A child of block n, itself justified by a header, links n to a quorum.
Finalized(n) ==
  \/ \E k \in 0..knownTo : att[k].source >= n
  \/ /\ n + 1 \in quorum
     /\ \E k \in 0..knownTo : att[k].target = n

\* SentIsFinalized: a block is sent on the feed only if it is below a finalized
\* block of the header chain, or the chain justifies it and the votes in the
\* pool complete the quorum of its direct child (GetFinalizedHeader).
SentIsFinalized == \A n \in 1..MaxNumber : sent[n] > 0 => Finalized(n)

\* HeadFinalityNotified: when the votes for the head finalize its parent, the
\* parent or a later block is announced although goroutines may start before
\* the head is written, be skipped, or overwrite each other's record; or the
\* chain moves on.
HeadFinalityNotified ==
  \A n \in 2..MaxNumber :
    (writtenTo = n /\ n \in quorum /\ att[n].target = n - 1)
      ~> (knownTo > n \/ \E k \in (n - 1)..MaxNumber : sent[k] > 0)

\* NotifiedOnce: what the comment in NotifyFinalized promises: no block is
\* announced twice.
NotifiedOnce == \A n \in 1..MaxNumber : sent[n] <= 1
=============================================================================
