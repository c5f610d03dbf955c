---------------------------- MODULE ParliaChain ----------------------------
(***************************************************************************)
(* One node that imports a chain block by block.  A header is accepted by  *)
(* verifyCascadingFields and verifySeal (consensus/parlia/parlia.go), which*)
(* consult the snapshot of its parent; Finalize decides whether the        *)
(* validator in turn is slashed; the next snapshot applies the header.     *)
(*                                                                         *)
(* The validator contract, the votes and the frequency table are the       *)
(* environment: a header carries any content the checks let through.       *)
(***************************************************************************)
EXTENDS ParliaSnapshot, FiniteSetsExt

CONSTANTS
  MaxBlock,      \* bound: the length of the chain
  Lists,         \* the validator sets the validator contract may answer
  TurnLengths,   \* turn lengths the governance contract may answer
  QuorumAt       \* blocks whose sealer may hold enough votes for an attestation

ASSUME BoundAssumption ==
  /\ MaxBlock \in Nat
  /\ Lists \subseteq (SUBSET Addr) \ {{}}
  /\ TurnLengths \subseteq Nat \ {0}
  /\ QuorumAt \subseteq Nat

\* Luban never comes, starts an epoch, or comes in an epoch after the set switch,
\* with a turn length of 1 (BSC: at block 50 of 200): otherwise the switch reads the
\* vote addresses of a list that has none.
ASSUME LubanAssumption ==
  \A n \in LubanAt..MaxBlock, len \in {DefaultEpochLength, LorentzEpochLength, MaxwellEpochLength} :
    n - (n % len) < LubanAt =>
      /\ n < BohrAt /\ n <= Snake8At
      /\ \A l \in Lists : n % len # Cardinality(l) \div 2

VARIABLES
  chain,       \* the headers imported so far, by number
  snap,        \* the snapshot of the head, which judges the next header
  applyError,  \* snapshot() failed on a header that had been accepted
  turn         \* the validator in turn for the head, and if it was slashed

vars == <<chain, snap, applyError, turn>>

Init ==
  \E g \in Lists :
    /\ chain = [n \in {0} |-> [signer |-> 0, validators |-> g, turnLength |-> DefaultTurnLength,
                               attestation |-> NoAttestation]]
    /\ snap = [NewSnapshot(0, g, IsSnake8Enabled(1))
                 EXCEPT !.turnLength = IF IsSnake8Enabled(1) THEN Snake8TurnLength ELSE @]
    /\ applyError = FALSE
    /\ turn = [validator |-> 0, slashed |-> FALSE]

----------------------------------------------------------------------------
VerifySeal(s, v) == v \in s.validators /\ ~SignRecently(s, v)

AncestorGenerationDepth(n) == IF IsFermi(n) THEN 3 ELSE 1

\* An attestation in block n links the highest justified block to one of the
\* closest ancestors.  The quorum behind it is the subject of FastFinality.
VerifyVoteAttestation(s, n, att) ==
  \/ att = NoAttestation
  \/ /\ att.source < att.target
     /\ att.source = GetJustifiedNumber(s)
     /\ att.target \in (n - AncestorGenerationDepth(n))..(n - 1)

\* Before Plato a bad attestation is only logged.
Attestations(s, n) ==
  IF ~IsLuban(n) \/ n \notin QuorumAt THEN {NoAttestation}
  ELSE {att \in [source : 0..(n - 1), target : 0..(n - 1)] :
          IsPlato(n) => VerifyVoteAttestation(s, n, att)}

\* Finalize compares the list and the turn length of an epoch block with the
\* answer of the contracts; other blocks carry none.
EpochLists(s, n) == IF n % s.epochLength = 0 THEN Lists ELSE {{}}

EpochTurnLengths(s, n) ==
  IF n % s.epochLength = 0 /\ IsBohr(n) THEN TurnLengths ELSE {0}

\* The table in the header of a Snake8 block is what its sealer wrote: only the
\* time in front of it is verified, and it may name any address, or nobody.
Frequencies(s) == IF s.isSnake8 THEN Addr \cup {0} ELSE {0}

SignedRecentlyForSlash(s, n, v) ==
  IF IsPlato(n) THEN SignRecently(s, v)
  ELSE \E k \in DOMAIN s.recents : s.recents[k] = v

Slashed_Always(s, n, signer, inturn) == signer # inturn

\* Finalize: the validator in turn let somebody else seal block n.
Slashed(s, n, signer, inturn) ==
  signer # inturn /\ ~SignedRecentlyForSlash(s, n, inturn)

Import(h, freq) ==
  LET n == snap.number + 1
      c == [k \in 0..n |-> IF k = n THEN h ELSE chain[k]]
      inturn == InturnValidator(snap, freq)
  IN  /\ ~applyError
      /\ n <= MaxBlock
      /\ VerifySeal(snap, h.signer)
      /\ chain' = c
      /\ turn' = [validator |-> inturn, slashed |-> Slashed(snap, n, h.signer, inturn)]
      /\ IF CanApply([snap EXCEPT !.isSnake8 = IsSnake8Enabled(n + 1)], n, c)
         THEN snap' = NextSnapshot(snap, n, c) /\ UNCHANGED applyError
         ELSE applyError' = TRUE /\ UNCHANGED snap

Headers(s, n) ==
  [signer      : Addr,
   validators  : EpochLists(s, n),
   turnLength  : EpochTurnLengths(s, n),
   attestation : Attestations(s, n)]

Next ==
  \E h \in Headers(snap, snap.number + 1), freq \in Frequencies(snap) : Import(h, freq)

Spec == Init /\ [][Next]_vars
----------------------------------------------------------------------------
\* The snapshots whose Recents is r.
Snapshots(r) ==
  [number      : 0..MaxBlock,
   epochLength : {DefaultEpochLength, LorentzEpochLength, MaxwellEpochLength},
   turnLength  : Nat \ {0},
   validators  : Lists,
   recents     : {r},
   forkBlocks  : SUBSET (1..MaxBlock),
   epochKey    : Int,
   attestation : [source : Nat, target : Nat],
   isSnake8    : BOOLEAN]

SnapshotOK(s) ==
  /\ s \in Snapshots(s.recents)
  /\ DOMAIN s.recents \subseteq 1..MaxBlock
  /\ \A k \in DOMAIN s.recents : s.recents[k] \in Addr

\* TypeOK: the state stays in these sets; in particular the head snapshot is
\* the one of the last header unless applying it failed.
TypeOK ==
  /\ DOMAIN chain = 0..(IF applyError THEN snap.number + 1 ELSE snap.number)
  /\ \A n \in DOMAIN chain \ {0} : chain[n].signer \in Addr
  /\ SnapshotOK(snap)
  /\ applyError \in BOOLEAN
  /\ turn.slashed \in BOOLEAN

\* Number of blocks of the miner history, the next block included.
Limit(s) == MinerHistoryCheckLen(s) + 1

\* D is a gapless run of block numbers that ends at n, of at most len blocks.
Gapless(D, n, len) == \E b \in (n - len)..n : D = {k \in 1..n : k > b}

\* RecentsIsWindow: until Snake8, whatever sequence of set switches, clearings
\* and turn lengths apply went through, Recents holds a gapless run of the
\* newest blocks, no longer than the miner history, with their real signers.
RecentsIsWindow ==
  ~snap.isSnake8 =>
    /\ Gapless(DOMAIN snap.recents, snap.number, Limit(snap))
    /\ \A k \in DOMAIN snap.recents : snap.recents[k] = chain[k].signer

\* OldestIsDeleted: what snapshot.go says above the deletion in apply: an entry
\* leaves the recent list as soon as it is older than the miner history.
OldestIsDeleted == \A k \in DOMAIN snap.recents : k > snap.number - Limit(snap)

\* ForkWindow: RecentForkHashes, the vote on the client version, is a gapless
\* run of the newest blocks that never counts more than versionHistoryCheckLen.
ForkWindow == Gapless(snap.forkBlocks, snap.number, VersionHistoryCheckLen(snap))

\* WindowsExact: both windows that apply moves along, the signers of Recents and
\* the client versions of RecentForkHashes, are exactly the newest blocks.
WindowsExact == RecentsIsWindow /\ ForkWindow

\* AcceptedIsApplicable: a header that verifySeal accepted is never rejected
\* by apply when the snapshot for its child is built; the two use different
\* tests (counts in a window, raw entries after a deletion).
AcceptedIsApplicable == ~applyError

\* ChainCanGrow: after any history and any set switch some validator of the
\* current set passes verifySeal for the next block.
ChainCanGrow == \E v \in snap.validators : VerifySeal(snap, v)

EpochBlocks == {k \in 0..snap.number : chain[k].validators # {}}

\* EpochSetInstalled: the set in force is the list of the newest epoch block,
\* or the list before it while fewer than minerHistoryCheckLen blocks (of the
\* old set) follow the epoch block.  No list is skipped or installed early.
EpochSetInstalled ==
  LET e == Max(EpochBlocks)
  IN  \/ snap.validators = chain[e].validators
      \/ /\ e > 0
         /\ snap.number - e < MinerHistoryCheckLen(snap)
         /\ snap.validators = chain[Max(EpochBlocks \ {e})].validators

\* TurnBudget: over the blocks of one miner history, all sealed under the set and
\* turn length in force, no validator seals more than turnLength blocks (checked
\* in verifySeal); from Maxwell on this counts the blocks not yet finalized.
TurnBudget ==
  LET first     == snap.number - Limit(snap) + 1
      turns     == TurnLengths \cup {DefaultTurnLength, snap.turnLength}
      longest(t) == MinerHistoryCheckLen([validators |-> Addr, turnLength |-> t])
      settled   == /\ \A e \in EpochBlocks, t \in turns : first > e + longest(t)
                   /\ snap.isSnake8 => first > Snake8At
      counts(k) == IsMaxwell(snap.number) => k > GetFinalizedNumber(snap)
  IN  settled =>
        \A v \in Addr :
          Cardinality({k \in first..snap.number : chain[k].signer = v /\ counts(k)}) <= snap.turnLength

\* HistoryClearedOncePerEpoch: from Bohr on, the miner history is emptied by
\* the first switch of an epoch only, even when the larger new set makes the
\* switch condition true a second time.
ClearsOncePerEpoch == snap'.recents = <<>> => snap'.epochKey # snap.epochKey

HistoryClearedOncePerEpoch == [][ClearsOncePerEpoch]_vars

\* FinalityIsFold: the pair that updateAttestation maintains step by step is
\* what the attestations of the whole chain say: the highest target, and the
\* highest source whose direct child was the target; so neither ever decreases.
FinalityIsFold ==
  LET links == {chain[k].attestation : k \in DOMAIN chain}
  IN  /\ GetJustifiedNumber(snap) = Max({l.target : l \in links})
      /\ GetFinalizedNumber(snap) = Max({0} \cup {l.source : l \in {m \in links : m.target = m.source + 1}})

\* Finalize slashes only a validator whose own block would have been accepted
\* by verifySeal and applied by apply; an address outside the set is slashed only
\* if the table of a Snake8 block named it.
SlashesFairly ==
  turn'.slashed /\ (snap.isSnake8 => turn'.validator \in snap.validators) =>
    /\ VerifySeal(snap, turn'.validator)
    /\ MayApply(Expire(snap, snap.number + 1), snap.number + 1, turn'.validator)

\* A validator in turn that did not seal is spared by Finalize only if it really
\* sealed in the current miner history: its whole turn from Plato on, at least
\* one block before.
SparesFairly ==
  LET n == snap.number
      sealed == {k \in 1..n : k > n - Limit(snap) /\ chain[k].signer = turn'.validator}
  IN  (n + 1 \in DOMAIN chain' /\ turn'.validator # chain'[n + 1].signer /\ ~turn'.slashed) =>
         Cardinality(sealed) >= IF IsPlato(n + 1) THEN snap.turnLength ELSE 1

\* FairSlashing: Finalize slashes a validator in turn only if that validator
\* could have sealed the block, and before Snake8 spares it only if it has had its
\* share of the miner history.  From Snake8 on the table in the header, which no
\* node compares with the stakes, may also put an address in turn that is not in
\* the set; of that one nothing is said.
FairSlashing == [][SlashesFairly /\ (~snap.isSnake8 => SparesFairly)]_vars

\* All of the above, on states and on steps.
StateIsRight ==
  /\ WindowsExact /\ AcceptedIsApplicable /\ ChainCanGrow /\ EpochSetInstalled
  /\ TurnBudget /\ FinalityIsFold

StepIsRight ==
  /\ SlashesFairly /\ (~snap.isSnake8 => SparesFairly)
  /\ ClearsOncePerEpoch
============================================================================
