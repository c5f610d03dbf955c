# Formal model of the Chiliz chain's consensus layer

The repository is a fork of BSC, itself a fork of go-ethereum.  What makes it
its own is the Parlia engine (`src/consensus/parlia`), a proof of staked
authority with epochs, turns, a miner history, slashing and vote-based
finality, and the Chiliz forks on top of it (Dragon8, Pepper8, Snake8, Pipe8).
This directory models that layer in TLA+, checks it with TLC on small instances
and proves part of it with TLAPS for all instances.

## The system and its parts

Blocks are made by a small set of validators.  For each block the engine keeps a
*snapshot*: the validator set, the recent signers (`Recents`), the turn length,
the epoch length, the last attestation.  A header is judged by the snapshot of
its parent (`verifySeal`) and then applied to it (`apply`).  An epoch block
carries a new validator list, which is installed `minerHistoryCheckLen` blocks
later, when the old set can no longer be short of signers.  `Finalize` slashes
the validator in turn that did not seal.  Every validator's vote manager votes
for each new head; the vote pool collects the votes; a sealer turns a quorum into
an attestation in its header; two attestations in a row finalize a block.  Fork
choice prefers the branch with the higher justified block.

| Part | Source | Modelled by |
|---|---|---|
| Snapshot: set, history, turns, attestation | `consensus/parlia/snapshot.go` | `ParliaSnapshot`, `ParliaChain` |
| Header verification, slashing decision | `consensus/parlia/parlia.go` | `ParliaChain` |
| Snake8 frequency table | `snapshot.go` `calcFrequencyRLP`, `selectValidatorFromFrequencyRLP` | `FrequencyTable`, as a choice in `ParliaChain` |
| Vote manager, vote journal | `core/vote/vote_manager.go`, `vote_journal.go` | `VoteManager`, refining `VoteRules` |
| Vote pool | `core/vote/vote_pool.go` | `VotePool` |
| Announcement of heads, finality notification | `core/blockchain.go`, `parlia.go` | `VotePool`, `FinalityNotify` |
| Snapshot cache and checkpoints | `parlia.go` `snapshot`, `snapshot.go` `loadSnapshot` | `SnapshotStore` |
| Goroutines that share a cached snapshot | `parlia.go` `snapshot` and its callers | `SharedSnapshot` |
| Fast finality across validators, fork choice | `parlia.go`, `core/forkchoice.go` | `FastFinality` on `BlockTree`, refining `FinalLedger` |
| System transactions, rewards, Dragon8 tokenomics | `parlia.go` `Finalize`, `FinalizeAndAssemble`, `distribute...` | `SystemTxs` |
| Sealing | `miner/worker.go`, `parlia.go` `Seal`, `core/blockchain.go` | `Sealing` |
| Delays out of turn | `parlia.go` `backOffTime` | `BackOff` |
| Block import, reorganisation, rewind, indexes on disk | `core/blockchain.go` `insertChain`, `insertSideChain`, `reorg`, `SetHead`, `core/headerchain.go` | `CanonicalChain` on `BlockTree` |
| Trie retention, replay | `core/blockchain.go`, `triedb/hashdb`, `eth/state_accessor.go` | `TrieRetention` |
| Fetchers, downloader, transaction pools, EVM, tries, databases, p2p, RPC, contract bytecode | | not modelled, see the end |

`PROJECT.json` has the full list, with the lines every definition stands for, and
the hazards: the places where the code is hard to test, and the properties that
guard them.

## The modules

Conventions.  A branch of the chain is a function from numbers to headers, so that
a number stands for a hash.  Addresses are positive integers, since the code
orders them.  A definition `X_Something` is a mistaken version of `X`; replacing
`X` by it breaks the property `PROJECT.json` names, which shows that the property
can fail.

### ParliaSnapshot and ParliaChain

`ParliaSnapshot` holds operators on a snapshot record.  `ApplyHeader` is `apply`
in the order of the code: `Expire` (one entry of `Recents` and one of
`RecentForkHashes` go), `MayApply` (the signer's authorization), `RecordSigner`,
`UpdateAttestation`, `NextEpochLength`, and `SwitchValidators` when `Switches`
says so.  The mark that a Bohr switch leaves in `Recents` under the key
`MaxUint64 - epoch` is the field `epochKey`.  Forks activate by number.

`ParliaChain` is a node importing a chain.  Its one action `Import` takes a header
with any content that the checks allow (signer, list and turn length in epoch
blocks, attestation), requires `VerifySeal`, decides the slashing, and applies the
header; a failing `apply` is the state `applyError`, not a disabled action; so is the
panic of a switch that, from Luban on, reads vote addresses from an older list
(`CanApply`).  `LubanAssumption` says when it cannot happen, as on BSC, where Luban came
after the switch of its epoch.  The validator contract is the environment: any list
of `Lists`.  So is the table of a Snake8 header: verification looks at the parent time
in front of it only, and it may put any address in turn, or nobody (`Frequencies`).
Headers are applied one at a time from the parent's snapshot; `SnapshotStore` adds
the cache, batches and checkpoints.

### SnapshotStore

Two nodes on one chain.  One imports block by block (`Grow`, a step of
`ParliaChain`) and keeps every snapshot in `refs`.  The other answers calls of
`snapshot()` for any block: it walks back to memory, to a checkpoint on disk, to
genesis or to a trusted epoch block (`Sources`, `Found`), and applies the headers
since then in one batch (`Apply`, a recursive function whose step is `ApplyOne`).
The caller's Snake8 flag is that of the block or of the one after it; the code
writes it into the snapshot the batch starts from, so the model does too.  Any
cache entry but the newest may be evicted (`Cached`), since headers and RPC calls
look blocks up in any order.  `Restart` keeps the disk only.  A snapshot made from
genesis or from a trusted header is stored at once, and a trusted header without a list
makes the call fail (`HasList`).  A call is atomic.

### SharedSnapshot

All callers of `snapshot()` for a block get the same object, and from Snake8 on
each call writes its flag and the table of the header it passes into that object.
Verification, import and miner each call (`Fetch`), are interrupted, and read the
validator in turn later; the miner also computes the table of its new block
(`CalcFrequency`) and reads it again for the header (`AppendTable`).  `OwnHeader`
is a call that passes the header of the snapshot's own block: `SignRecently`,
`NextInTurnValidator`, `GetJustifiedNumberAndHash`, RPC.  `wrong` records, for
every decision that differs from what the header itself says, whether such a call
came in between.  Tables of two blocks are taken to differ, the worst case.

### FrequencyTable

The Snake8 table, one step per loop iteration: base shares, the minimum, up to ten
rounds of normalization, and the draw for any hash value.

### VoteRules and VoteManager

`VoteRules` is the promise: the votes of one key never conflict (one vote per
height; none spans another within 256 blocks).  `VoteManager` is the loop of each
node that holds the key: head events, downloader events, votes synced from the
pool, and `WriteVote` split where a crash matters (log, then truncation and
cache, then `PutVote`).  The LRU cache is a sequence, with its eviction and the
reordering by lookups.  `Restart` reloads the log.  The chain is the environment:
heads of any fork, whose justified number never decreases without a restart, and
which goes back at most `MaxReorg` blocks below the highest announced one.

The code relies silently on two sizes.  `SizeAssumption` has the first: a
reorganisation no deeper than `upperLimitOfVoteBlockNumber` (11), since the rules
look no further up.  The second is the room in cache and log, 512 entries.
`Roomy`, in `VoteManagerProofs`, says how much is enough: more than two
reorganisations, the slashing scope and the votes that come again together; 512
leaves 233 repeats beside 22 and 256.  Without the scope in this sum it is too
little: after a restart on a branch with a lower justified block the checks are
refused and renew the votes up to 256 blocks down, so the cache forgets newer ones
first.  The guard `MaxRepeat` bounds the repeats; without it, a node that keeps
receiving its own votes after restarts fills its log with duplicates and forgets
votes.

### VotePool

The maps and queues of the pool (queues as bags of entries, a block and the number
its first vote gave: their order only serves to visit the lowest numbers first, and the
loops visit all that qualify), the two
channels, and the import beside it: `AnnounceHead` before `WriteHead`, which may
fail.  `putIntoVotePool` is split at the lookup of the block (`TakeVote`,
`StoreVote`) and the handling of a head between `Prune` and `Transfer`, because
the import can move on in between.  A vote names its target by hash and by number,
and has a voter.  The number decides about the range and, in the first vote for a block,
about the place in the queue; it is compared with that of the block in `VerifyVote` only,
hence not before the block is known.  A wrong source fails `VerifyVote` like an outsider
does.

### FinalityNotify

The import and the goroutines started by `putVote` and `transfer`, which all end
in `NotifyFinalized`: look up, load, store, send.  One branch; `quorum` is the set
of blocks whose current votes suffice.  A header attests its parent or nothing, as
before Fermi; `FastFinality` has attestations that reach further back.  The specification is `NotifySpec`, beside the
`Spec` of `VotePool`, so that `MCVotes` can extend both.

### BlockTree, FastFinality and FinalLedger

`BlockTree` is a fixed tree of the blocks that may be sealed, with the fork choice
by total difficulty.  `FastFinality` is the network on it: a validator seals on its
head with an attestation of a block it has a quorum for, or none (`Seal`), adopts
any sealed block that verification and fork choice allow (`Adopt`) and votes for
it if it is in time and `VoteRules` allows it, and may come back with an older head
(`Restart`; votes survive in the journal).  Votes reach sealers or not.
The modules form a chain: `VoteManager` is shown to implement `VoteRules`,
`FastFinality` assumes `VoteRules` of its validators, and is shown to implement
`FinalLedger`: one branch of finalized blocks that only grows.

### SystemTxs

The end of a block, made by the sealer (`FinalizeAndAssemble`) and made again by
the importer (`Finalize`), as one fold over the same steps in the order of the
code: Feynman and genesis contracts, slash, Pepper8 and Pipe8 mints, tokenomics,
fees, finality rewards, validator election.  `ApplyTransaction` compares each
transaction with the next one received.  Contracts are balances; a deposit to the
tokenomics contract sets the supply; a slash may revert.  The importer follows the
fork choice on two branches, and the head of the sealer may move to another branch
while it works on a block (`SealerHeads`), so that the lookup of the last supply by
number is as in the code on both sides; `asked` records the block that the sealer read.
Amounts are scaled down: the formulas, divisions included, are the
code's, the logarithmic curve of Dragon8 is a table by time.

### Sealing and BackOff

`Sealing` is one validator: `newWorkLoop` (`NewHead`, `Resubmit`), `mainLoop`
(`CommitWork`, `Abandon`, `Commit` together with `taskLoop`, which `commit` waits
for), the goroutines of `Seal` (`SealStopped`, `SealDelayed`, `SealYielded`),
`resultLoop` (`Result`), the chain mutex and the second half of the write
(`WriteBlock`), blocks of others (`InsertChain`), the clock, a clean `Restart` and,
in `CrashSpec`, a kill at any time.  What a block holds is one of `Txs`.  With three
validators the signer of the parent is the only one that signed recently.
`BackOff` is `backOffTime` under Planck, Bohr and Lorentz, with every outcome of the
shuffle.

### CanonicalChain

What `BlockChain` keeps on disk: stored blocks, the canonical hash of each number
(`canon`), the head markers, the block number of each transaction (`lookup`), the
tries.  One call holds `chainmu` at a time, and each database batch of it is a step:

- `InsertChain` takes a batch of blocks of one branch.  `ImportBlock` is one turn of
  its loops: known blocks that are skipped (`SkipKnown`) or become the head
  (`WriteKnown`), new ones that are executed (`Process`) or fail (`Reject`), blocks
  whose parent has no state (`SideBlock`), and what `insertSideChain` does at its end
  (`SideDone`: execute again from the last state on).
- `Reorg` is `reorg` and `writeHeadBlock`: for each block of the new branch but the
  last, the markers and the lookups, two batches in any order (`WriteMarkers`,
  `WriteLookups`); then `DeleteLookups`, `DeleteMarkers`, and the new head.
- `SetHead` moves the markers header by header (`RewindHeader`) and deletes at the end
  (`DeleteAbove`).
- `Stop` writes three states; `Crash` may come before any step.  Both start the node
  again, whose head goes back to a block with a state (`Start`).

`rewound`, `crashed` and `torn` record what a property has to except.  The node is a
full node with the hash scheme, without snapshot tree and freezer.  State roots
differ from block to block; a flush writes the trie that is due or all of them.

### TrieRetention

The blocks whose states are in memory (`live`, in the order of the flush list) and
on disk.  `WriteBlockWithState` adds one, may flush the oldest (memory limit), may
commit the one that leaves the window (flush interval, hence nondeterministic) and
drops those below.  `Stop` writes three states and the base of the snapshot tree;
`Crash` loses the memory and rewinds the head to a state on disk.  `floor` marks
where gaps remain: below the repaired head after a crash, below the new head after a
reorganisation across states that are gone, and below HEAD-1 after a stop at which the
head was not the highest block written; see the observations.

## What the runs show

A run may have several subjects: a behaviour chooses one at the start (`subject`,
`part`), and a property about another subject holds trivially in it.

| Run | Question | Instance |
|---|---|---|
| `snapshots` | What does a snapshot say about the next block? | `chain`: BSC forks, 3 validators, 3 lists, turns 1 and 2 from Bohr on, Lorentz and Maxwell at 7, epochs of 7 and then 5, attestations in five blocks, 14 blocks |
| | | `sets`: any sequence of sets before Snake8, 4 validators, all lists, epoch 6, Luban at 9, 11 blocks |
| | | `snake8`: across Snake8, 3 validators, 3 lists, epoch 8, turn 2, 12 blocks |
| | | `epochs`: both changes of the epoch length, 2, 5, 10, 21 blocks, attestations in 12 and 13 |
| | | `table`: the frequency table, 4 validators, 6 stakes, precision 100 |
| | | `shared`: three goroutines on one snapshot per block, Snake8 at 2, 5 blocks |
| | | `backoff`: up to 5 validators, all histories, all shuffles, 4 forks |
| `storage` | Does a node find again what it stored? | `indexes`: branches of 2 and 3 blocks, an invalid block, all batches, 2 tries in memory, two stops, crashes or rewinds |
| | | `snapshots`: sets of two, checkpoint every 4, 7 blocks |
| | | `tries`: 8 blocks and a heavier branch of 2, 4 tries in memory, two stops or crashes |
| `vote_crash` | Voting rules through a crash | 5 blocks, cache and log of 4, one restart |
| `votes` | Pool and finality notification | `pool`: 2 blocks and a competing one, a vote with a wrong number; `finality`: 3 blocks, import and two goroutines |
| `finality` | Finality and fork choice across validators | 3 validators, branches of 2 and 3 blocks, two late blocks, two restarts from genesis |
| `production` | Is a block made once and accepted? | `sealing`: 3 validators, 3 block numbers, a block of others, one restart, a queue of 1 |
| | | `system`: branches of 2 and 4 blocks, the schedules of Chiliz, of Dragon8Fix alone and of BSC |
| `snake8_shrink`, `snake8_restart`, `notify_twice`, `supply_lookup`, `double_seal`, `stale_table` | Disagreements, below | |

Bounds, and why they are enough.  The longest miner history of the instances is
three to five blocks, so that two epochs contain a switch, a full history of the
new set and another switch.  Four validators give histories of length 0, 1 and 2
and every growth and shrinkage between them.  `epochs` keeps the ratio 2:5:10
of 200, 500 and 1000, on which the alignment of the epoch changes rests.  In
`vote_crash`, `Scope` 2, `Upper` 1 and size 4 respect the order of 256, 11 and
512, and five blocks suffice for an eviction; a size of 6, as `Roomy` asks for, takes
seven blocks to evict, more than TLC can search, and is left to the proof.  The pool keeps a block for `Lower`
1 block, so that the second one prunes the first.  In `table` a stake below
one token, and one just above the minimum frequency that normalization pushes
below it, are among the stakes, so that the second round happens.  In `shared` two
blocks of each kind, in turn and out of turn, follow the fork.  `snapshots` has one
snapshot in memory and trusts a block with one header piled up, so that block 6 takes the list of epoch block 4, which need not be that of genesis; block
6 is an epoch block itself, as 1200 is for epochs of 200.  Lorentz and Maxwell are
off there, so the epoch lengths 500 and 1000 of a trusted block
(`EpochLengthAt`) are modelled and not exercised.  In `finality` the tips of the
two branches have the same total difficulty and either can be justified first, and
three numbers hold two attestations in a row; a target whose own source is an older
one would take a fourth number and is left to the proof; attestations start with the first
block instead of the third and reach three blocks back, as from Fermi on.  In
`sealing` the validator is out of turn for block 2 and in turn for block 3; two
goroutines of `Seal` at a time and a queue of one result are enough for every race
of two tasks and for a lost result.  In `system` every fork of a schedule falls
between two blocks of a branch, and the heavier branch is the longer one, so
that the importer switches in the middle.  In `indexes` the short
branch is justified and wins over the heavier long one, so that a reorganisation goes
down as well as up; two transactions are on both branches, one of them at different numbers; with
two tries in memory the third block drops the state of the first, so that a batch can
begin with a pruned ancestor; two faults are a crash within what follows a crash or
a rewind.  In `tries` eight blocks are twice the window, and the short branch makes the head go back below a state that was dropped.

Fairness.  The safety runs have none.  `VotePool` assumes that the import finishes
a block it began and the loop the step it is in (weak fairness), and that `select`,
which picks at random among ready channels, does not ignore one forever (strong
fairness of `TakeVote` and `Prune`).  `FinalityNotify` assumes that started
goroutines run.  `Sealing` assumes that time passes, that a write ends and that each
loop and timer is served (weak fairness of each); not that a task is abandoned,
and not that blocks of others come.  `CanonicalChain` assumes that a call goes on to its
end (weak fairness) and that the best branch is offered again and again, as the
downloader does while a peer has a better head (strong fairness of `InsertChain` with
the whole of that branch).  None assumes that votes arrive.  Deadlock is
checked in `double_seal` only: every other chain ends at its bound, and otherwise a
node may wait for ever.

What holds.  `Recents` is exactly a gapless window before Snake8, and so is the
client-version window (`WindowsExact`, made of `RecentsIsWindow` and `ForkWindow`).  A header
accepted by `verifySeal` is never refused by `apply` (`AcceptedIsApplicable`), and
somebody may always seal (`ChainCanGrow`).  Every epoch list is installed, in time
(`EpochSetInstalled`).  Nobody seals more than a turn in a history
(`TurnBudget`: over a history that lies within one set and one turn length; from
Maxwell on, among the blocks not yet final, since `apply` forgets the others).  A slashed validator
of the set could have sealed, a spared one really had (`FairSlashing`; from Snake8 on a
header's table may also have an address slashed that is not in the set).  The history is cleared once per
epoch (`HistoryClearedOncePerEpoch`).  Justified and finalized numbers are those of
the whole chain (`FinalityIsFold`).  All of this is checked in `chain` and, as one
property of states and steps, under the other three schedules (`OtherSchedules`).  A snapshot
found in memory, on disk or from a trusted block has the set and lengths of a node
that never stopped (`SameValidatorSet`) and, unless a block was trusted, its
history (`SameHistory`); applying accepted headers again does not fail
(`NeverFails`).  The vote manager
implements `VoteRules` (`VotesFollowRules`), and its log alone would suffice
(`JournalProtects`).  The pool's maps, queues and duplicate set agree and
only validators' votes with the right number count (`BoxesMatch`), and votes that came
early are served with the head they are for, or, when the first of them gave a higher
number, with a head of that number (`AnnouncedVotesMoved`, `FutureVotesServed`).  Announced blocks are final
(`SentIsFinalized`) and the finality of the head is not missed
(`HeadFinalityNotified`).  The frequency table has the right sum and order
(`Normalized`) and shares (`ShareOfTurns`).  Goroutines that share a snapshot
disturb each other only through calls with the snapshot's own header
(`OnlyOwnHeaderDisturbs`).  No two validators that may seal have the same delay
(`OneSlotEach`).  Across validators, an attestation that was assembled is accepted
(`SealedIsAccepted`), finalized blocks are on one branch (`FinalizedAgree`), the
fork choice keeps them though it never looks at them (`HeadKeepsFinalized`), and
together they are one growing ledger (`LedgerGrows`).  A validator announces one block per
parent through any overlap of tasks and clean restarts (`NoDoubleSign`), and only
blocks others accept (`PeersAccept`); it does seal if it may, though results are lost
and tasks stopped (`SealsOrMovesOn`).  Apart from the supply lookup, what is
assembled is accepted with the same state (`AssembledIsAccepted`), and nothing else
(`NothingElseIsAccepted`); all fees and mints reach the contracts
(`EverythingPassedOn`), and each vote is rewarded once (`RewardedOnce`).  The state
of a recent block can be had by replaying at most the window (`RecentStateFound`), as
long as every stop finds the highest block written at the head; otherwise, and after a
crash, from `floor` on.
The canonical hashes name the branch of the head at any moment and after any crash
(`CanonFollowsHead`, with one exception below), every stored block has its parent and
the hashes have no gap (`NothingMissing`), transactions are found under the number of
their canonical block (`LookupsFollowCanon`), the head of a node at rest has its state
(`HeadHasState`), and a branch that is best and offered is adopted, after every fault
again (`AdoptsBest`).

Disagreements between code and comments.

- `snake8_restart`: `loadSnapshot` gives a checkpoint from before Snake8 the turn
  length of the block asked about.  The headers up to the fork are then applied
  with a longer history, a list is installed too late, and the node has another
  set than one that never stopped.  It takes a restart within a checkpoint
  interval of the fork and a set switch in between.  `storage` therefore stays away
  from the fork.
- `snake8_shrink`: after Snake8 the shrink loop forgets the turn length, and
  entries older than the history stay in `Recents`.  `SignRecently` ignores them,
  the slashing decision before Plato does not.  `RecentsIsWindow` and
  the second half of `FairSlashing` are therefore stated before Snake8 only.
- `notify_twice`: `NotifyFinalized` has no lock between its load and its store, so
  a block can be announced twice.
- `supply_lookup`: the last supply is read by number, on the canonical branch, and
  not at the parent.  A block of another branch is judged with a wrong supply under
  Dragon8; and, under Dragon8Fix too, it is refused if its parent is above the head,
  so that a node on a shorter branch cannot follow a heavier, longer one.  The sealer
  reads in the same way: if its head moves to another branch while it assembles a
  block, nodes on the branch of that block refuse it under Dragon8.
- `double_seal`: a block is announced before it is written, and `recentMinedBlocks`
  is in memory only: a kill in between makes the validator announce a second one.
- `stale_table`: a call of `snapshot()` with the block's own header puts the table
  of the block before into the snapshot that verification, import or miner is
  about to read.

Observations in the code that no run is about: the rows of Dragon8Fix for years 5
to 7 have the percentage of the year before (`parlia.go:2200`);
`systemRewardPercent = 5` is commented "it means 1/3" (`parlia.go:83`);
`NextInTurnValidator` reads the table of the head itself, also without a race;
only the parent time in front of the table of a Snake8 header is verified
(`parlia.go:551`), the shares are not; `Stop` on a branch shorter than another one that
was written asks to commit a state that was already dropped, which `hashdb` takes as done, so the "hard limit on the number of
blocks reexecuted" (`blockchain.go:1585`) does not hold then; `hashState` replays by
number, thus the canonical blocks, also for a block beside them.

From `CanonicalChain`:

- The exception of `CanonFollowsHead` (`torn`): `reorg` deletes the hashes above the
  last block it wrote before its caller writes the new head.  After a crash in between
  the markers name the old head; if the reorganisation replaces one block, that head
  has no canonical hash, and nothing at the start restores it.  The next
  reorganisation or rewind below it does.  Until then `GetBlockByNumber` of the head
  is nil, which `Stop` dereferences (`blockchain.go:1592`; `Stop` is therefore not
  enabled in such a state), and the freezer would report "canonical hash missing"
  (`chain_freezer.go:478`).
- A known block within a batch that is being executed becomes the head whatever the
  fork choice says (`blockchain.go:2389`; a comment there says that it happens in
  clique chains only).  The head may go back for a moment, not for good (`AdoptsBest`).
- After a crash in a rewind, and after a start that moved the head block back, hashes
  above the head remain until the next reorganisation or rewind.
- `writeBlockWithState` counts the trie window back from the block it writes, also when
  that block is beside the canonical chain.  If the fork choice rejects a branch that
  is 128 blocks longer than the head, the trie of the head is dropped, and the next
  block on the head is handled like one of a side chain, whose ancestors are executed
  again.  `HeadHasState` fails in such a tree; it takes a long branch of blocks that are lighter or less justified.
- `SetHead` leaves the lookups of deleted blocks (the "Todo" at `blockchain.go:1326`).
- Three error returns of `reorg` come after `txLookupLock.Lock()` and do not unlock;
  they need a stored header without its body.

Two more that TLC shows with changed constants and that have no run of their own:

- A comment in `snapshot` (`parlia.go:913`) says that `number - 200` always has the
  right validators.  With one validator and epochs of 200 the miner history is
  empty, block 1200 installs its own list at once, and the list of block 1000 is
  the wrong one.  `SameValidatorSet` fails with `Lists` `{{1, 2}, {3}}` in
  `Storage.cfg`, which is why that run has sets of two.  A node meets it only with
  90000 headers and no snapshot.
- The mark of a switch is the number of its epoch, counted in the epoch length of
  that time (`snapshot.go:379`).  After a change of the length an old mark can be the number of a
  new epoch, whose list is then not installed.  With Bohr, Lorentz and Maxwell active from genesis
  the mark of block 500 is also that of block 1000.  `EpochSetInstalled`
  fails with these forks at 0 and epochs of 4, 10 and 20.  Therefore `NoListSkipped`, below,
  assumes one epoch length.  The run has the forks
  one after the other, as the BSC mainnet does; `RialtoChainConfig`
  (`params/config.go`) has them at 0.

## What is proved

`ParliaChainProofs` proves for every set of addresses and lists, all lengths,
every fork schedule and chain length (`AddrAssumption`, `LengthAssumption`,
`ForkAssumption`, `BoundAssumption`, and `LubanAssumption`: no list from before Luban
is due after it):

- `TypeCorrect`: `Spec => []TypeOK`.
- `RecentsWindow`: `Spec => []RecentsIsWindow`.
- `AcceptedApplicable`: `Spec => []AcceptedIsApplicable`.
- `GrowthIsPossible`: `Spec => []ChainCanGrow`.
- `ClearingsAreRare`: `Spec => HistoryClearedOncePerEpoch`.
- `SlashingIsFair`: `Spec => FairSlashing`.
- `FoldIsExact`: `Spec => []FinalityIsFold`, when no attestation is made before Plato; a
  bad one is only logged then.
- `TurnsAreBudgeted`: `Spec => []TurnBudget`, under the same hypothesis.
- `VersionWindow` and `BothWindows`: `Spec => []ForkWindow` and `Spec => []WindowsExact`, when
  no turn length of the contract exceeds the one that Snake8 fixes (50).  With a longer
  one Snake8 would shorten the window and delete nothing.
- `NoListSkipped`: `Spec => []EpochSetInstalled`, without Lorentz and Maxwell, as on
  Chiliz, under the hypothesis of `VersionWindow` and `HistoryFits`: an epoch has room
  for the miner history of every set at turn length 50.  It has for epochs of 28800,
  7200 and 1200 blocks (`config/embedded`) and sets of up to 47 validators.

The run `snapshots` checks these properties on four schedules, each an instance of
`ParliaChain`.

The first two rest on the inductive invariant `WindowInv`.  `RecentsIsWindow` is
not inductive: that the deletion of one entry per block keeps the window exact
depends on the turn length being 1 before Bohr while Snake8 is off, and on the
number of the snapshot being that of the chain.  The argument follows `apply`: one lemma for each of
its steps says how the step acts on a gapless set (`GaplessSlide`, `GaplessCut`,
`GaplessGrow`, `GaplessShrink`, `GaplessEmpty`), and `ApplyStep` composes them.
The third adds, in `AppliedInv`, that some block starts an epoch of the present length
and every epoch block of that length since then carries a list (`ListedFrom`).  A
length changes one block before an epoch of the new one starts, so the witness moves
there, and the switch reads a list that is there (`EpochStart`, `MultipleBelow`: arithmetic of
multiples).  A signer that passed the count in `verifySeal` passes the count or the
scan in `apply` (`ExpiredCount`, `ExpiredScan`).  For the others `ApplyRest` and `ImportApplies` follow `apply` once more
for the fields that `ApplyStep` leaves out.  `GrowthIsPossible` counts: if all of V
had signed a whole turn, the entries of V times the turn length would be distinct
blocks of the miner history (`EntriesFit`, an injection), which is shorter.  It
needs `PastInv`: no entry is above the head.  The same invariant says that nothing
above the head is final, so that a new entry survives the cut of Maxwell and the
history is only ever emptied by a switch.  `FoldInv` sums the attestations up:
each verified one starts at the justified block, hence extends the sum.  `ForkInv`
adds to `ForkWindow` that turn lengths so far are at most 50, in the headers too.
`InstalledInv` adds to `EpochSetInstalled` that the mark of a switch in this epoch
means that its list is installed; without it the second disjunct could stay for
ever.  `SlashingIsFair` needs that the rank of the turn exists in every set
(`RankExists`), and reuses the lemmas of `AcceptedApplicable`.

`TurnsAreBudgeted` needs the most.  `verifySeal` counts entries of `Recents`, the
property counts blocks of the chain, and `Recents` may lack some: a switch clears it,
Maxwell cuts it at the finalized block, and Snake8 makes the history 50 times longer
at once.  `BudgetInv` says that since some block, at most a miner history after an
epoch block or the Snake8 fork itself, `Recents` holds every block that still counts and
nobody sealed more than a turn of them.  `BudgetKept` carries the block over a header
that switches nothing: the blocks of the new signer that remain are entries that
`SignRecently` has just counted.  A switch, or the fork, starts a new budget
(`BudgetStarts`).  It needs `TurnInv`, where turn lengths come from, and `FoldInv`, since
a finalized number that went back would count old blocks again.

`FastFinalityProofs` proves for every tree of blocks (`TreeAssumption`), every
finite validator set, any restarts and any Fermi block (`FinalityAssumption`):
`FinalityIsSafe`, `NoReorgOfFinal`, `AttestationsAccepted` and `OneLedger`, the
properties of the run `finality`.  Branches have any length.  All but
`AttestationsAccepted` have the hypothesis `[]InScope`: a block with a quorum is at most
the scope of the second voting rule (256) above its justified block, in other words
finality never stalls for longer; beyond it a validator may span an old vote, and the
theorems say nothing.  The argument: two quorums share
a validator (`QuorumsIntersect`); it follows `VoteRules`, so that no two blocks of
one number are justified, and a block justified above a final one has it as
ancestor, by a least counterexample on the number (`LeastNumber`; induction
theorems cannot be used).  The invariant `Inv` says where justified and finalized
blocks of every sealed block lie and that each has a quorum; fork choice then
cannot leave a final block since the other branch cannot be justified higher.
`OneLedger` is the refinement: initial states map to initial states and every step
to a step or a stutter of `FinalLedger`.

`CanonicalChainProofs` proves `CanonMatchesHead`, `IndexSpec => []CanonFollowsHead`, for
every tree of blocks (`TreeAssumption`), all batches and any number of faults
(`ChainAssumption`).  `CanonFollowsHead` is not inductive: in the middle of a
reorganisation it must be known that what is written next goes on top of a branch
that is canonical already.  `IndexInv` adds `SwitchInv`: while a call is between two
batches of `reorg` or `writeHeadBlock`, `switch.base` is an ancestor of the new head,
its branch is marked, and after the write of the markers the head is the block just
written.  One lemma per action shows that it is kept; `HighestExists` gives the common
ancestor and the block to which a rewind goes, by a least number again.
`BlockTreeProofs` has the facts about branches that this proof and that of
`FastFinality` share: a branch is a chain with one block of each number.

The same module proves three more properties of the run `storage`:

- `NothingGoesMissing`, `NothingMissing`, with `StoredInv`: hashes name blocks of their
  number, and the block a reorganisation leads to is stored, hence its branch is
  (`BranchStored`).
- `HeadKeepsState`, `HeadHasState`, with `HeadInv`: while `reorg` writes the blocks on
  its way, the one it leads to has a state instead.
- `LookupsMatchCanon`, `LookupsFollowCanon`, with `LookupInv`: between the batches of
  `reorg` the lookups are those of the blocks already on the new branch and of the
  old ones not yet removed.

The last two assume `SidesFit`, which TLC evaluates on the tree of the run: a branch
that the fork choice rejects is not longer than the head by the trie window (128).
Without it `HeadHasState` fails, see the observations.

`SealingProofs` proves `OneBlockPerParent` for any number of peers, tasks, blocks
and clean restarts.  `NoDoubleSign` is not inductive since a restart empties
`recentMinedBlocks`; `IInv` adds that an announced block is either recorded there or
settled: the head is at least as heavy and no work, goroutine or result is left on
its parent.

It also proves `PeersAcceptAnnounced` (`PeersAccept`), and `PeersAcceptAfterCrash`, the
same for `CrashSpec`.  `AcceptInv` follows a block from the loop that begins it to its
announcement: what is in work, in a goroutine of `Seal` or among the results was
allowed to be sealed on its own parent (`Sealable`), whatever the head is by then, and
its time has come when it is a result.

`VotesProofs` proves for all sets of blocks and voters and all bounds of the queues
and channels, and for any number of callers of `NotifyFinalized`:

- `PoolBoxesMatch`: `Spec => []BoxesMatch`, with the typing `PoolTypes`: every box holds
  votes of its own block only.  A queue has one entry for each box and none besides, with
  whatever number (`PushOne`, `AddEntries`, `PopEntries`).
- `HeadVotesMoved`: `Spec => []AnnouncedVotesMoved`.  It holds although a head is
  announced before it is written and a vote is looked up before it is stored:
  `MoveInv` says that a future box of a head whose entry does not give a number too high
  (`Ready`) always has something to wait for, an event in the channel or a transfer that
  reaches its number (`Awaited`), and so has the vote that the loop has found to be a
  future one.
- `OnlyFinalizedSent`: `NotifySpec => []SentIsFinalized`.  `NotifyInv` says that what a
  caller carries between load, store and send is final; it stays so, since headers
  and votes are only added.

`SnapshotStoreProofs` proves the three snapshot properties of the run `storage`, for every
cache size, checkpoint distance and chain, any evictions and restarts, and batches of
any length: `AnswersTheSameSet` (`SameValidatorSet`), `AnswersTheSameHistory`
(`SameHistory`) and `BatchesNeverFail` (`NeverFails`).  Two hypotheses.  Snake8 is not
within the chain, since the properties fail around the fork (`snake8_restart`).  And
`TrustIsSound`: no epoch block is trusted without its history (the chain is shorter than
`FullImmutabilityThreshold`), or `TrustFits`, what the comment at `parlia.go:913` relies
on: epochs have one length, which divides the distance of trusted blocks, and the
miner history of every list is not empty and no longer than the offset.  The run's
constants satisfy them.

The argument is a simulation.  `Copy(s, t, n, exact)` relates a snapshot of the second
node to the one that block-by-block import made: the same set and lengths, a history
that lacks at most old signers, marks that decide the next switches alike.  `CopyCanApply` and
`CopyApply` show that `apply` keeps it for one header, step by step as in the code;
`BatchCopies` carries it through `Apply`, a recursive function, by a least counterexample on the block number
(`LeastOf`).  `RefsInv` says that `refs` are the snapshots of the import, each made
from the one before.  A trusted block needs `ListsFit`: the set in force at an epoch block is the list of
the epoch block before, which is a claim about all of `refs` (`InstalledNext`).
`StoreInv`: every entry in memory and on disk is a copy.

`SealingProofs` has two results about who is in turn as well.  `OnlyOwnHeaders`, for
every chain, fork block, sealer and function from tables to validators: `SharedInv`
says that a task nobody disturbed finds its flag in the snapshot and, from the point
where its table is known, that table; the miner's `calc` is the one operation that has
none yet.  `DelaysAreSlots`, `DelaySpec => []OneSlotEach`, for every finite set of
validators and all back-off times: `DelayInv` says that the delays are those of some
shuffle, a permutation of the ranks of the listed validators, and ranks are distinct.

`VoteManagerProofs` proves both properties of the run `vote_crash`, for any blocks,
forks and justified numbers and any number of restarts, errors of the log and lost
votes: `KeyObeysTheRules` (`VotesFollowRules`, that `VoteManager` implements
`VoteRules`) and `RestartIsSafe` (`JournalProtects`).  Two hypotheses: `Alone`, one node
holds the key, as in the run, and `Roomy`.  The run's constants do not satisfy `Roomy`,
which is sufficient and not necessary; those of the code do.

The difficulty is that the cache is in the order of use and not of the numbers: every
check renews the votes it looks up, and old votes come back from the pool.
`ManagerInv` says of the cache (`InOrder`) that a vote used in turn lies at most
`Slack = MaxReorg + Scope` below all that were used before or are forgotten, and that
at most `repeats` votes were used out of turn; of the log (`LogInOrder`) the same with
positions for uses.  Hence a full cache holds at least `MaxSize - MaxRepeat` votes that
are not far below any forgotten one (`Enough`).  `VoteBetween` counts: so many numbers
do not fit around a gap, so one of them lies between the forgotten vote and the new
one, and its source, which agrees with the forgotten vote, makes the check refuse
(`PassedIsSafe`).  Lemmas `TouchKeeps`, `ReloadKeeps` and `AddKeeps` carry `InOrder` through
the lookups of a check, the load at a start and a write; the first two are recursive
functions, taken by a least counterexample.  While a vote is in the log and not yet in
the cache, `Answerable` leaves it out.

Only model-checked:

- all liveness (`FutureVotesServed`, `HeadFinalityNotified`, `SealsOrMovesOn`,
  `AdoptsBest`): fairness is outside the prover's reach;
- what folds and recursive functions compute for every input, which needs an induction the
  provers cannot instantiate: `SystemTxs` (`AssembledIsAccepted`,
  `NothingElseIsAccepted`, `EverythingPassedOn`, `RewardedOnce`: sums over a list of
  transactions) and `FrequencyTable` (`Normalized`, `ShareOfTurns`);
- `TrieRetention` (`RecentStateFound`), whose flush list is a sequence too;
- `OtherSchedules`, which repeats properties of `ParliaChain` under other constants;
- beyond the hypotheses above: `EpochSetInstalled` with Lorentz and Maxwell, which
  depends on the order of the forks, and `VoteManager` in caches smaller than `Roomy`
  asks for.

## Not modelled, and why

- Most of the repository is go-ethereum: EVM, tries and databases, p2p, RPC,
  accounts, command line, downloader, fetchers, transaction pools, and tables of
  contract bytecode.  It is upstream code, mostly data transformation and I/O, that the
  consensus layer uses through results; its effects (blocks and votes late,
  twice, out of order or never; states present or gone) are inputs of the modules
  here.  The share of mapped lines is therefore small for the repository, while
  it is more than half for the Parlia engine and for voting.
- BLS and ECDSA signatures, RLP and JSON: a signature is its signer, a hash is the
  block.
- The validator contracts: lists, stakes and reverts are any of a set.  A failing
  stake query (`parlia.go:1312`) is I/O of the own node.
- Failover of two nodes with one vote key: only the wait of 40 heads after mining
  starts (`vote_manager.go:247`) protects it, an assumption on the network that a
  model could only repeat.
- Builder bids: they decide what a block holds, which `Sealing` leaves open.
- In `core/blockchain.go`: receipts, logs, future blocks, the freezer, the snapshot
  tree, snap sync, archive and path mode; readers that hold a state while it is
  dropped.
- Trusted blocks after Lorentz and Maxwell are modelled, not exercised.
