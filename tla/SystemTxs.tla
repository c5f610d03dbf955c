----------------------------- MODULE SystemTxs -----------------------------
(***************************************************************************)
(* The system transactions at the end of a block (consensus/parlia/        *)
(* parlia.go).  FinalizeAndAssemble makes and signs them; Finalize, at the *)
(* other nodes, makes each of them again and compares it with the next one *)
(* in the block.  They slash the validator in turn, mint CHZ, pass the     *)
(* fees on and pay the voters.                                             *)
(*                                                                         *)
(* Sealers build on any block, and their own head may move on while they   *)
(* do; one node imports the blocks in any order and follows the fork       *)
(* choice.  The contracts are external: a call moves its value, a deposit  *)
(* to the tokenomics contract sets the total supply, and a call of slash   *)
(* may revert, the same way at every node.  Gas, receipts and contract     *)
(* upgrades are left out.                                                  *)
(***************************************************************************)
EXTENDS BlockTree, FiniteSetsExt, SequencesExt

CONSTANTS
  Validators,       \* 1..n: the validators, in the order of their addresses
  Time,             \* of each block
  Coinbase,         \* the sealer of each block
  Attesters,        \* the voters behind the attestation in each block
  Schedules,        \* bound: the fork times to check
  Fees,             \* bound: the fees each block may have
  InitContracts,    \* the contracts that block 1 initializes
  FeynmanContracts, \* the contracts that the Feynman block initializes
  RewardInterval,   \* finalityRewardInterval
  BreatheInterval,  \* params.BreatheBlockInterval
  SystemRewardPercent, MaxSystemBalance, Pepper8Amount, Pipe8Amount,
  InflationPct,     \* by seconds since Dragon8
  BlocksPerYear,    \* 10512000
  YearInSecs,
  InflationData     \* the table of Dragon8Fix, by year from 1 on

VARIABLES
  forks,     \* the times of the forks
  sealed,    \* the sealed blocks: their fees, the validator to slash (0: none),
             \* the methods that revert, the block whose supply the sealer read,
             \* the system transactions, the state after
  known,     \* the blocks the node has imported
  head,      \* its current block
  rejected   \* the blocks it has ever rejected

vars == <<forks, sealed, known, head, rejected>>

Contracts == {"validator", "slash", "reward", "tokenomics", "recipient"}
Genesis   == [nonce |-> [v \in Validators |-> 0], coinbase |-> [v \in Validators |-> 0],
              system |-> 0, contract |-> [c \in Contracts |-> 0], supply |-> InflationData[1].supply]

Init ==
  /\ forks \in Schedules
  /\ sealed = [b \in {0} |-> [fees |-> 0, spoiled |-> 0, reverts |-> {}, asked |-> 0,
                               txs |-> <<>>, post |-> Genesis]]
  /\ known = {0} /\ head = 0 /\ rejected = {}

----------------------------------------------------------------------------
(* One transaction.  A machine m executes the system part of a block: its  *)
(* state, the transactions it made, those received and not yet used.       *)

Matches_AnyTx(m, tx) == m.mining \/ m.received # <<>>

\* A sealer signs the transaction it makes; it must be the next one of a block
\* that was received.
Matches(m, tx) == m.mining \/ (m.received # <<>> /\ Head(m.received) = tx)

\* applyTransaction.  An error ends the processing of the block (m.err).
ApplyTransaction(m, to, method, args, value) ==
  LET c  == Coinbase[m.block]
      tx == [nonce |-> m.state.nonce[c], to |-> to, method |-> method, args |-> args, value |-> value]
      n  == IF m.mining THEN m ELSE [m EXCEPT !.received = Tail(@)]
  IN  IF m.err THEN m
      ELSE IF ~Matches(m, tx) THEN [m EXCEPT !.err = TRUE]
      ELSE IF method \in m.reverts \/ m.state.coinbase[c] < value THEN [n EXCEPT !.err = TRUE]
      ELSE [n EXCEPT !.txs = Append(@, tx), !.state.nonce[c] = @ + 1,
                     !.state.coinbase[c] = @ - value, !.state.contract[to] = @ + value,
                     !.state.supply = IF to = "tokenomics" /\ method = "deposit" THEN args[2] ELSE @]

\* One call of init or initialize per contract.
InitContract(m, contracts) ==
  LET Call(r, c) == ApplyTransaction(r, c, "init", <<>>, 0)
  IN  FoldLeft(Call, m, contracts)

\* An error of slash is only logged.
Slash(m, spoiled) ==
  IF spoiled = 0 \/ m.err THEN m
  ELSE [ApplyTransaction(m, "slash", "slash", <<spoiled>>, 0) EXCEPT !.err = FALSE]

----------------------------------------------------------------------------
(* distributeIncoming.                                                     *)

AddBalance(m, amount) == [m EXCEPT !.state.coinbase[Coinbase[m.block]] = @ + amount]

\* The first block at or after a fork time.
IsForkBlock(b, t) == Time[b] >= t /\ Time[Parent[b]] < t

Mint(m, t, amount) ==
  IF ~IsForkBlock(m.block, t) THEN m
  ELSE ApplyTransaction(AddBalance(m, amount), "recipient", "mint", <<>>, amount)

IsDragon8(b)    == Time[b] >= forks.dragon8 \/ Time[b] >= forks.dragon8Fix
IsDragon8Fix(b) == Time[b] >= forks.dragon8Fix

Unknown == -1

\* The block below b, by its number, on the branch of a head that is not lower.
Below(b, canonical) == CHOOSE x \in Branch[canonical] : Number[x] = Number[b] - 1

GetLastSupplyFromTokenomics_Latest(b, canonical) ==
  IF Number[canonical] < Number[b] - 1 THEN Unknown ELSE sealed[canonical].post.supply

\* getLastSupplyFromTokenomics: the supply at the block below b, by its number,
\* on the canonical branch of the node.
GetLastSupplyFromTokenomics(b, canonical) ==
  IF Number[canonical] < Number[b] - 1 THEN Unknown ELSE sealed[Below(b, canonical)].post.supply

\* getNewSupplyForBlock.
NewSupplyForBlock(b, last) ==
  LET pct    == InflationPct[Time[b] - forks.dragon8]
      amount == ((last * pct) \div 100) \div BlocksPerYear
  IN  [pct |-> pct, supply |-> last + amount, amount |-> amount]

\* getNewSupplyForBlockDragon8Fix: the last row serves all later years.
NewSupplyForBlockDragon8Fix(b) ==
  InflationData[Min({(Time[b] - forks.dragon8Fix) \div YearInSecs + 1, Len(InflationData)})]

DistributeToTokenomics(m, canonical) ==
  LET b    == m.block
      last == GetLastSupplyFromTokenomics(b, canonical)
      new  == IF IsDragon8Fix(b) THEN NewSupplyForBlockDragon8Fix(b) ELSE NewSupplyForBlock(b, last)
  IN  IF m.err \/ ~IsDragon8(b) THEN m
      ELSE IF last = Unknown THEN [m EXCEPT !.err = TRUE]
      ELSE ApplyTransaction(AddBalance(m, new.amount), "tokenomics", "deposit",
                            <<Coinbase[b], new.supply, new.pct>>, new.amount)

TakeFees_NotCleared(m) == AddBalance(m, m.state.system)

\* The fees collected at SystemAddress move to the sealer,
TakeFees(m) == AddBalance([m EXCEPT !.state.system = 0], m.state.system)

\* which passes them on to the system reward contract, in part and before Dragon8
\* only, and to the validator contract.
SystemRewards(m) ==
  IF IsDragon8(m.block) \/ m.state.contract["reward"] >= MaxSystemBalance THEN 0
  ELSE m.state.system \div SystemRewardPercent

DistributeFees(m) ==
  LET balance == m.state.system
      rewards == SystemRewards(m)
      n       == IF rewards = 0 THEN TakeFees(m)
                 ELSE ApplyTransaction(TakeFees(m), "reward", "transfer", <<>>, rewards)
  IN  IF m.err \/ balance = 0 THEN m
      ELSE ApplyTransaction(n, "validator", "deposit", <<Coinbase[m.block]>>, balance - rewards)

DistributeIncoming(m, canonical) ==
  DistributeFees(
    DistributeToTokenomics(
      Mint(Mint(m, forks.pepper8, Pepper8Amount), forks.pipe8, Pipe8Amount), canonical))

----------------------------------------------------------------------------
(* distributeFinalityReward.                                               *)

Quorum == (Cardinality(Validators) * 2 + 2) \div 3

\* What the attestation in block x is worth to v: its own vote, and the votes
\* beyond the quorum if it collected them.
Weight(x, v) ==
  (IF v \in Attesters[x] THEN 1 ELSE 0) +
  (IF v = Coinbase[x] THEN Max({Cardinality(Attesters[x]) - Quorum, 0}) ELSE 0)

Window_OneShort(b) ==
  {x \in Branch[b] \ {0, b} : Number[x] + RewardInterval > Number[b]}

Window(b) == {x \in Branch[b] \ {0, b} : Number[x] + RewardInterval >= Number[b]}

AccumulatedWeights(b) ==
  [v \in 1..Cardinality(Validators) |->
     LET W(x) == Weight(x, v) IN MapThenSumSet(W, Window(b))]

DistributeFinalityReward(m) ==
  IF Number[m.block] < forks.plato \/ Number[m.block] % RewardInterval # 0 THEN m
  ELSE ApplyTransaction(m, "validator", "reward", AccumulatedWeights(m.block), 0)

----------------------------------------------------------------------------
(* The system part of a block.                                             *)

\* From Feynman on the first block of a day elects the validators.
UpdateValidatorSetV2(m) ==
  LET b == m.block
      p == Parent[b]
  IN  IF /\ Time[b] >= forks.feynman /\ ~IsForkBlock(b, forks.feynman)
         /\ Time[p] # 0 /\ Time[p] \div BreatheInterval # Time[b] \div BreatheInterval
      THEN ApplyTransaction(m, "validator", "update", <<>>, 0) ELSE m

Steps(m, spoiled, canonical) ==
  LET b  == m.block
      m1 == IF IsForkBlock(b, forks.feynman) THEN InitContract(m, FeynmanContracts) ELSE m
      m2 == IF Number[b] = 1 THEN InitContract(m1, InitContracts) ELSE m1
      m3 == Slash(m2, spoiled)
  IN  UpdateValidatorSetV2(DistributeFinalityReward(DistributeIncoming(m3, canonical)))

\* The machine for block b after its other transactions, which paid the fees.
Start(b, fees, reverts, mining, received) ==
  [block |-> b, state |-> [sealed[Parent[b]].post EXCEPT !.system = @ + fees], reverts |-> reverts,
   mining |-> mining, received |-> received, txs |-> <<>>, err |-> FALSE]

\* The head of the sealer of b when it finalizes: the parent, which was its head
\* when the work on b began, or one that the fork choice has preferred since.
SealerHeads(b) == {Parent[b]} \cup {x \in DOMAIN sealed : TRUE \in ReorgNeeded(Parent[b], x)}

\* FinalizeAndAssemble at a sealer with this canonical head.
FinalizeAndAssemble(b, fees, spoiled, reverts, canonical) ==
  Steps(Start(b, fees, reverts, TRUE, <<>>), spoiled, canonical)

\* Finalize at a node with this canonical head, for block b with these system
\* transactions: none of them may be left.
Finalize(b, txs, canonical) ==
  LET s == sealed[b]
      r == Steps(Start(b, s.fees, s.reverts, FALSE, txs), s.spoiled, canonical)
  IN  [r EXCEPT !.err = @ \/ r.received # <<>>]

----------------------------------------------------------------------------
\* Only a block out of turn may slash.
SealBlock(b, fees, spoiled, reverts, canonical) ==
  /\ b \in Blocks \ DOMAIN sealed /\ Parent[b] \in DOMAIN sealed
  /\ spoiled # 0 => Td[b] - Td[Parent[b]] = 1 /\ spoiled # Coinbase[b]
  /\ reverts # {} => spoiled # 0
  /\ canonical \in SealerHeads(b)
  /\ LET m == FinalizeAndAssemble(b, fees, spoiled, reverts, canonical)
     IN  /\ ~m.err
         /\ sealed' = [x \in DOMAIN sealed \cup {b} |->
                         IF x = b THEN [fees |-> fees, spoiled |-> spoiled, reverts |-> reverts,
                                        asked |-> IF IsDragon8(b) THEN Below(b, canonical) ELSE Parent[b],
                                        txs |-> m.txs, post |-> m.state]
                         ELSE sealed[x]]
  /\ UNCHANGED <<forks, known, head, rejected>>

\* The node processes block b: Finalize, the comparison of the state root, and
\* the fork choice.  A rejected block may come again.
ImportBlock(b) ==
  /\ b \in DOMAIN sealed \ known /\ Parent[b] \in known
  /\ LET r == Finalize(b, sealed[b].txs, head)
     IN  IF ~r.err /\ r.state = sealed[b].post
         THEN /\ known' = known \cup {b}
              /\ \E reorg \in ReorgNeeded(head, b) : head' = IF reorg THEN b ELSE head
              /\ UNCHANGED rejected
         ELSE rejected' = rejected \cup {b} /\ UNCHANGED <<known, head>>
  /\ UNCHANGED <<forks, sealed>>

Next ==
  \E b \in Blocks \ {0} :
    \/ \E fees \in Fees[b], spoiled \in {0, 1}, reverts \in {{}, {"slash"}}, canonical \in Blocks :
         SealBlock(b, fees, spoiled, reverts, canonical)
    \/ ImportBlock(b)

Spec == Init /\ [][Next]_vars
----------------------------------------------------------------------------
\* AssembledIsAccepted: what FinalizeAndAssemble made, Finalize accepts and ends
\* in the same state, although a failed slash leaves no transaction behind.  The
\* one exception comes from the lookup of the supply by number: from Dragon8 on,
\* at a node whose canonical branch does not have the block that the sealer read
\* the supply at (the parent, or another one if the sealer's head moved to another
\* branch meanwhile); from Dragon8Fix on, only at a node whose head is lower than
\* the parent.
AssembledIsAccepted ==
  [][\A b \in rejected' \ rejected :
       /\ IsDragon8(b)
       /\ sealed[b].asked \notin Branch[head]
       /\ IsDragon8Fix(b) => Number[Parent[b]] > Number[head]]_vars

\* QueriesParent: "Tokenomics queries the parent block, not the partially processed
\* current block" (core/state_processor.go): a block that a sealer assembled is
\* accepted everywhere.  The comment goes on that "normal block import keeps the
\* established RPC-backed consensus path"; that path queries a number.
QueriesParent == rejected = {}

\* NothingElseIsAccepted: Finalize does not accept a block from which a system
\* transaction is missing, except the slash, or in which one is repeated.
NothingElseIsAccepted ==
  \A b \in DOMAIN sealed \ {0} :
    LET txs == sealed[b].txs
    IN  \A i \in DOMAIN txs :
          /\ ~Finalize(b, RemoveAt(txs, i), sealed[b].asked).err => txs[i].method = "slash"
          /\ Finalize(b, InsertAt(txs, i, txs[i]), sealed[b].asked).err

Minted(b) ==
  (IF IsForkBlock(b, forks.pepper8) THEN Pepper8Amount ELSE 0) +
  (IF IsForkBlock(b, forks.pipe8) THEN Pipe8Amount ELSE 0) +
  (IF IsDragon8Fix(b) THEN NewSupplyForBlockDragon8Fix(b).amount
   ELSE IF IsDragon8(b) THEN NewSupplyForBlock(b, sealed[sealed[b].asked].post.supply).amount ELSE 0)

\* EverythingPassedOn: over all error paths, forks and roundings of a block,
\* SystemAddress ends empty, no sealer keeps a part of the fees or of the mints,
\* and the contracts gain exactly what was paid and minted.
EverythingPassedOn ==
  \A b \in DOMAIN sealed \ {0} :
    LET pre  == sealed[Parent[b]].post
        post == sealed[b].post
        Total(s) == MapThenSumSet(LAMBDA c : s.contract[c], Contracts)
    IN  /\ post.system = 0 /\ post.coinbase = pre.coinbase
        /\ Total(post) = Total(pre) + sealed[b].fees + Minted(b)

\* RewardedOnce: the reward transactions along a branch pay each vote and each
\* collected extra vote exactly once, up to the last reward block.
RewardedOnce ==
  LET IsReward(tx) == tx.method = "reward"
      Paid(b, v) == LET t == SelectSeq(sealed[b].txs, IsReward) IN IF t = <<>> THEN 0 ELSE t[1].args[v]
  IN  \A b \in DOMAIN sealed \ {0}, v \in Validators :
        (forks.plato = 0 /\ Number[b] % RewardInterval = 0) =>
          MapThenSumSet(LAMBDA x : Paid(x, v), Branch[b]) =
            MapThenSumSet(LAMBDA x : Weight(x, v), Branch[b] \ {0, b})
============================================================================
