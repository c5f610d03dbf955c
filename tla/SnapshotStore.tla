--------------------------- MODULE SnapshotStore ---------------------------
(***************************************************************************)
(* How Parlia.snapshot (consensus/parlia/parlia.go) finds a snapshot: it   *)
(* walks back to one in memory, to a checkpoint on disk, to genesis or,    *)
(* far back, to an epoch block it trusts, and applies all headers since in *)
(* one batch.  Another node imports the chain block by block, as in        *)
(* ParliaChain; what it computed is what this node has to answer, whatever *)
(* was evicted or lost in a restart.                                       *)
(***************************************************************************)
EXTENDS ParliaChain

CONSTANTS
  CheckpointInterval,        \* checkpointInterval
  FullImmutabilityThreshold, \* headers piled up before an epoch block is trusted
  Offset,                    \* of the trusted block from its epoch block
  InMemorySnapshots          \* inMemorySnapshots

ASSUME StoreAssumption ==
  /\ CheckpointInterval \in Nat \ {0}
  /\ FullImmutabilityThreshold \in Nat /\ Offset \in Nat \ {0}
  /\ InMemorySnapshots \in Nat \ {0}

VARIABLES
  refs,     \* the snapshots of the other node, by block
  cache,    \* recentSnaps: the snapshots in memory, by block
  disk,     \* the stored snapshots, by block
  failed,   \* the last call returned an error
  trusted   \* some snapshot was made from a trusted epoch block

store     == <<cache, disk, failed, trusted>>
storeVars == <<vars, refs, store>>

StoreInit ==
  /\ Init
  /\ refs = [n \in {0} |-> snap]
  /\ cache = <<>> /\ disk = <<>>
  /\ failed = FALSE /\ trusted = FALSE

\* The chain grows by one block.
Grow ==
  /\ Next
  /\ refs' = IF applyError' THEN refs ELSE Put(refs, snap'.number, snap')
  /\ UNCHANGED store

----------------------------------------------------------------------------
LoadSnapshot_NoAttestation(k, flag) ==
  [disk[k] EXCEPT !.isSnake8 = flag, !.attestation = NoAttestation]

\* LoadSnapshot: the flag of the caller decides about the turn length.
LoadSnapshot(k, flag) ==
  [disk[k] EXCEPT !.isSnake8   = flag,
                  !.turnLength = IF flag THEN Snake8TurnLength ELSE @]

OnDisk(k) == k % CheckpointInterval = 0 /\ k \in DOMAIN disk

\* Far enough behind block n, block k takes the list of block k - Offset.
Trusted(k, n) ==
  k > 0 /\ k % MaxwellEpochLength = Offset /\ n - k > FullImmutabilityThreshold

EpochLengthAt(k) ==
  IF k <= Offset THEN DefaultEpochLength
  ELSE IF IsMaxwell(k - Offset - 1) THEN MaxwellEpochLength
  ELSE IF IsLorentz(k - Offset - 1) THEN LorentzEpochLength ELSE DefaultEpochLength

TrustedSnapshot_OwnList(k, flag) ==
  [NewSnapshot(k, chain[k].validators, flag) EXCEPT !.epochLength = EpochLengthAt(k)]

TrustedSnapshot(k, flag) ==
  LET cp  == k - Offset
      len == EpochLengthAt(k)
  IN  [NewSnapshot(k, chain[cp].validators, flag)
         EXCEPT !.epochLength = len,
                !.turnLength  = IF cp % len = 0 /\ IsBohr(cp) THEN chain[cp].turnLength ELSE @]

\* parseValidators finds a list in the header that is trusted for block k.
HasList(k) ==
  LET cp == k - Offset
  IN  chain[cp].validators # {} /\ (IsLuban(cp) => cp % EpochLengthAt(k) = 0)

Sources(n) == {k \in 0..n : k \in DOMAIN cache \/ OnDisk(k) \/ k = 0 \/ Trusted(k, n)}

\* The snapshot found at k, on the way back from n.
Found(k, n, flag) ==
  IF k \in DOMAIN cache THEN cache[k]
  ELSE IF OnDisk(k) THEN LoadSnapshot(k, flag)
  ELSE IF k = 0 THEN NewSnapshot(0, chain[0].validators, flag)
  ELSE TrustedSnapshot(k, flag)

FirstHeader_Base(k) == k

\* The first of the headers that are applied to the snapshot of block k.
FirstHeader(k) == k + 1

\* One more header of a batch; an error ends it.
ApplyOne(r, i) ==
  LET ok == r.ok /\ CanApply(r.snap, i, chain)
  IN  [ok |-> ok, snap |-> IF ok THEN ApplyHeader(r.snap, i, chain) ELSE r.snap]

\* apply for the headers after k up to n: all of them see the number k.
Apply(s, k, n) ==
  LET base == FirstHeader(k) - 1
      run[i \in base..n] == IF i = base THEN [ok |-> TRUE, snap |-> s] ELSE ApplyOne(run[i - 1], i)
  IN  [run[n] EXCEPT !.snap.number = n]

\* The LRU cache f with snapshot s of block n added; any other entry may be the
\* one that was not used for the longest time.
Cached(f, n, s) ==
  LET g == Put(f, n, s)
  IN  IF Cardinality(DOMAIN g) <= InMemorySnapshots THEN {g}
      ELSE {Drop(g, {k}) : k \in DOMAIN g \ {n}}

\* A call for block n.  The caller passes the Snake8 flag of block n itself or
\* of the block after it; it is written into the snapshot the batch starts from,
\* which may be the one in memory.  A snapshot made from genesis or from a
\* trusted header is stored at once; a header without a list ends the call.
Snapshot(n, flag) ==
  LET k     == Max(Sources(n))
      s     == [Found(k, n, flag) EXCEPT !.isSnake8 = flag]
      r     == Apply(s, k, n)
      t     == [r.snap EXCEPT !.turnLength = IF flag THEN Snake8TurnLength ELSE @]
      made  == k \notin DOMAIN cache /\ ~OnDisk(k)
      trust == made /\ k # 0
      found == trust => HasList(k)
      ok    == found /\ r.ok
      base  == IF k \in DOMAIN cache THEN Put(cache, k, s) ELSE cache
      saved == IF made /\ found THEN Put(disk, k, s) ELSE disk
  IN  /\ failed' = ~ok
      /\ trusted' = (trusted \/ (trust /\ found))
      /\ cache' \in IF ok THEN Cached(base, n, t) ELSE {base}
      /\ disk' = IF ok /\ n % CheckpointInterval = 0 /\ k < n THEN Put(saved, n, t) ELSE saved
      /\ UNCHANGED <<vars, refs>>

\* The node stops and starts again: only the disk survives.
Restart ==
  /\ cache' = <<>>
  /\ UNCHANGED <<vars, refs, disk, failed, trusted>>

StoreNext ==
  \/ Grow
  \/ \E n \in DOMAIN refs : \E flag \in {IsSnake8Enabled(n), IsSnake8Enabled(n + 1)} : Snapshot(n, flag)
  \/ Restart

StoreSpec == StoreInit /\ [][StoreNext]_storeVars
----------------------------------------------------------------------------
Kept == {<<n, cache[n]>> : n \in DOMAIN cache} \cup {<<n, disk[n]>> : n \in DOMAIN disk}

\* SameValidatorSet: whatever snapshot() finds in memory, on disk or in a
\* trusted header, and however many headers it applies in a batch, it arrives at
\* the validator set, turn length and epoch length of a node that never stopped.
SameValidatorSet ==
  \A e \in Kept :
    LET n == e[1]
        s == e[2]
    IN  /\ s.number = n /\ s.validators = refs[n].validators
        /\ s.turnLength = refs[n].turnLength /\ s.epochLength = refs[n].epochLength

\* OneSetPerBlock: "Snapshot is the state of the validatorSet at a given point"
\* (snapshot.go): it depends on the block only, across Snake8 too.
OneSetPerBlock == \A e \in Kept : e[2].validators = refs[e[1]].validators

\* SameHistory: unless an epoch block was trusted, the recent signers, the marks
\* of set switches and the attestation are the same too; a trusted block only
\* forgets old signers, which makes verifySeal more lenient.
SameHistory ==
  \A e \in Kept :
    LET s == e[2]
        t == refs[e[1]]
    IN  /\ DOMAIN s.recents \subseteq DOMAIN t.recents
        /\ \A k \in DOMAIN s.recents : s.recents[k] = t.recents[k]
        /\ ~trusted => /\ DOMAIN s.recents = DOMAIN t.recents /\ s.forkBlocks = t.forkBlocks
                       /\ s.epochKey = t.epochKey /\ s.attestation = t.attestation

\* NeverFails: the headers of an accepted chain can be applied again, from any
\* point where snapshot() starts its batch.
NeverFails == ~failed
=============================================================================
