-------------------------- MODULE ParliaSnapshot --------------------------
(***************************************************************************)
(* The authorization snapshot of the Parlia consensus engine               *)
(* (consensus/parlia/snapshot.go) as operators on a record: which          *)
(* validators may seal the next block, which of them signed recently, and  *)
(* how one header changes all of that.                                     *)
(*                                                                         *)
(* A chain is a function from block numbers 0..n to headers.  There is one *)
(* branch, so a block number stands for a hash, and the contiguity checks  *)
(* at the head of apply hold by construction.  An address is a positive    *)
(* integer, because the code orders validators by address.  Fork           *)
(* activation, by number or by time in the code, is by number here: block  *)
(* times grow along a branch.                                              *)
(*                                                                         *)
(* A definition named X_... is X with a plausible mistake: replacing X by  *)
(* it must break a property, which shows that the property can fail.       *)
(***************************************************************************)
EXTENDS Integers, FiniteSets, Functions

CONSTANTS
  Addr,                \* addresses of the validators, positive integers
  DefaultEpochLength,  \* chainConfig.Parlia.Epoch
  LorentzEpochLength,
  MaxwellEpochLength,
  Snake8TurnLength,    \* the literal 50 of loadSnapshot and snapshot()
  LubanAt, PlatoAt, BohrAt, LorentzAt, MaxwellAt, FermiAt,
  Snake8At             \* the first block whose time reaches snake8Time

ASSUME AddrAssumption == Addr \subseteq Nat \ {0} /\ IsFiniteSet(Addr)

ASSUME LengthAssumption ==
  /\ DefaultEpochLength \in Nat \ {0}
  /\ LorentzEpochLength \in Nat \ {0}
  /\ MaxwellEpochLength \in Nat \ {0}
  /\ Snake8TurnLength \in Nat \ {0}

ASSUME ForkAssumption ==
  /\ LubanAt \in Nat /\ PlatoAt \in Nat /\ BohrAt \in Nat
  /\ LorentzAt \in Nat /\ MaxwellAt \in Nat /\ FermiAt \in Nat
  /\ Snake8At \in Nat

IsLuban(n)   == n >= LubanAt
IsPlato(n)   == n >= PlatoAt
IsBohr(n)    == n >= BohrAt
IsLorentz(n) == n >= LorentzAt
IsMaxwell(n) == n >= MaxwellAt
IsFermi(n)   == n >= FermiAt

\* Snake8 governs block n when the time of its parent reached the fork.
IsSnake8Enabled(n) == n - 1 >= Snake8At

DefaultTurnLength == 1

\* VoteData: the justified source and the target of an attestation.  A nil
\* attestation is <0, 0>: no attestation targets the genesis block.
NoAttestation == [source |-> 0, target |-> 0]

\* The key math.MaxUint64 - epoch under which a Bohr switch leaves a mark in
\* Recents is kept in a field of its own: it is never a block number.
NoEpochKey == -1

NewSnapshot(number, validators, isSnake8) ==
  [number      |-> number,
   epochLength |-> DefaultEpochLength,
   turnLength  |-> DefaultTurnLength,
   validators  |-> validators,
   recents     |-> [k \in {} |-> 0],
   forkBlocks  |-> {},
   epochKey    |-> NoEpochKey,
   attestation |-> NoAttestation,
   isSnake8    |-> isSnake8]

----------------------------------------------------------------------------
(* Turn history                                                            *)

VersionHistoryCheckLen(s) == Cardinality(s.validators) * s.turnLength

MinerHistoryCheckLen_WholeTurn(s) == (Cardinality(s.validators) \div 2 + 1) * s.turnLength

MinerHistoryCheckLen(s) ==
  (Cardinality(s.validators) \div 2 + 1) * s.turnLength - 1

\* Blocks up to and including this one are outside the miner history.
LeftHistoryBound(s) ==
  IF s.number > MinerHistoryCheckLen(s)
  THEN s.number - MinerHistoryCheckLen(s) ELSE 0

CountRecents(s, v) ==
  Cardinality({k \in DOMAIN s.recents : k > LeftHistoryBound(s) /\ s.recents[k] = v})

SignRecently_OneTooMany(s, v) == CountRecents(s, v) > s.turnLength

SignRecently(s, v) == CountRecents(s, v) >= s.turnLength

\* validators()[i], counting from 0: i validators have a smaller address.
ValidatorAt(s, i) ==
  CHOOSE v \in s.validators : Cardinality({w \in s.validators : w < v}) = i

SelectValidatorRoundRobin(s) ==
  ValidatorAt(s, ((s.number + 1) \div s.turnLength) % Cardinality(s.validators))

\* freq is the validator that the frequency table of a header selects for the
\* block, or 0 when the table is empty or does not decode.
InturnValidator(s, freq) ==
  IF s.number = 0 \/ ~s.isSnake8 \/ freq = 0
  THEN SelectValidatorRoundRobin(s) ELSE freq

GetFinalizedNumber(s) == s.attestation.source
GetJustifiedNumber(s) == s.attestation.target
----------------------------------------------------------------------------
(* The steps of apply for one header h with number n.  In a batch s.number *)
(* stays at the number the batch started from.                             *)

Put(f, k, v) == [j \in DOMAIN f \cup {k} |-> IF j = k THEN v ELSE f[j]]
Drop(f, K)   == Restrict(f, DOMAIN f \ K)

Expire(s, n) ==
  [s EXCEPT !.recents    = Drop(@, {n - (MinerHistoryCheckLen(s) + 1)}),
            !.forkBlocks = @ \ {n - VersionHistoryCheckLen(s)}]

MayApply_AlwaysRaw(s, n, v) ==
  v \in s.validators /\ \A k \in DOMAIN s.recents : s.recents[k] # v

\* The authorization checks; s has been expired.
MayApply(s, n, v) ==
  /\ v \in s.validators
  /\ IsBohr(n) => ~SignRecently(s, v)
  /\ ~IsBohr(n) /\ ~s.isSnake8 => \A k \in DOMAIN s.recents : s.recents[k] # v

UpdateAttestation_FinalizesSource(s, n, att) ==
  IF ~IsLuban(n) \/ att = NoAttestation THEN s ELSE [s EXCEPT !.attestation = att]

UpdateAttestation(s, n, att) ==
  IF \/ ~IsLuban(n)
     \/ att = NoAttestation
     \/ ~IsFermi(n) /\ att.target + 1 # n
  THEN s
  ELSE IF s.attestation # NoAttestation /\ att.source + 1 # att.target
       THEN [s EXCEPT !.attestation.target = att.target]
       ELSE [s EXCEPT !.attestation = att]

RecordSigner(s, n, v) ==
  LET r == Put(s.recents, n, v)
      final == {k \in DOMAIN r : k <= GetFinalizedNumber(s)}
  IN  [s EXCEPT !.recents    = IF IsMaxwell(n) THEN Drop(r, final) ELSE r,
                !.forkBlocks = @ \cup {n}]

NextEpochLength_Unaligned(len, n) ==
  IF len = DefaultEpochLength /\ IsLorentz(n) THEN LorentzEpochLength
  ELSE IF len = LorentzEpochLength /\ IsMaxwell(n) THEN MaxwellEpochLength ELSE len

\* The epoch length that applies from block n + 1 on.
NextEpochLength(len, n) ==
  LET lorentz == IF /\ len = DefaultEpochLength
                    /\ IsLorentz(n)
                    /\ (n + 1) % LorentzEpochLength = 0
                 THEN LorentzEpochLength ELSE len
  IN  IF /\ lorentz = LorentzEpochLength
         /\ IsMaxwell(n)
         /\ (n + 1) % MaxwellEpochLength = 0
      THEN MaxwellEpochLength ELSE lorentz

Switches_Again(s, n, len) == n > 0 /\ n % len = MinerHistoryCheckLen(s)

\* Does block n, applied under epoch length len, switch the validator set?
Switches(s, n, len) ==
  /\ n > 0
  /\ n % len = MinerHistoryCheckLen(s)
  /\ ~(IsBohr(n) /\ s.epochKey = n \div len)

ShrinkRecents_KeepsAll(s, n, newVals) == s.recents

\* Before Bohr the entries that a smaller set makes too old are forgotten.
ShrinkRecents(s, n, newVals) ==
  LET oldLimit == Cardinality(s.validators) \div 2 + 1
      newLimit == Cardinality(newVals) \div 2 + 1
  IN  Drop(s.recents, {n - newLimit - i : i \in 0..(oldLimit - newLimit - 1)})

SwitchValidators_KeepsHistory(s, n, len, c) ==
  LET checkpoint == c[n - MinerHistoryCheckLen(s)]
  IN  [s EXCEPT !.turnLength = IF IsBohr(n) THEN checkpoint.turnLength ELSE @,
                !.epochKey   = IF IsBohr(n) THEN n \div len ELSE @,
                !.validators = checkpoint.validators]

\* c[n] is the header applied; the checkpoint is its ancestor with the list.
SwitchValidators(s, n, len, c) ==
  LET cpNumber   == n - MinerHistoryCheckLen(s)
      checkpoint == c[cpNumber]
      t == [s EXCEPT !.turnLength = IF cpNumber % len = 0 /\ IsBohr(cpNumber)
                                    THEN checkpoint.turnLength ELSE @,
                     !.recents    = IF IsBohr(n) THEN [k \in {} |-> 0]
                                    ELSE ShrinkRecents(s, n, checkpoint.validators),
                     !.epochKey   = IF IsBohr(n) THEN n \div len ELSE @,
                     !.validators = checkpoint.validators]
  IN  [t EXCEPT !.forkBlocks = @ \ {n - i : i \in VersionHistoryCheckLen(t)..(VersionHistoryCheckLen(s) - 1)}]

\* One iteration of the loop of apply, for a header that passes MayApply.
ApplyHeader(s, n, c) ==
  LET signed == RecordSigner(UpdateAttestation(Expire(s, n), n, c[n].attestation), n, c[n].signer)
      t == [signed EXCEPT !.epochLength = NextEpochLength(@, n)]
  IN  IF Switches(t, n, s.epochLength) THEN SwitchValidators(t, n, s.epochLength, c) ELSE t

\* The header passes the checks, and a set switch finds a validator list; from
\* Luban on with vote addresses, which a list from before Luban does not have
\* (the code indexes a nil slice and panics).
CanApply(s, n, c) ==
  LET e  == Expire(s, n)
      cp == n - MinerHistoryCheckLen(s)
  IN  /\ MayApply(e, n, c[n].signer)
      /\ Switches(e, n, s.epochLength) => c[cp].validators # {} /\ (IsLuban(n) => IsLuban(cp))

\* What snapshot(), asked for the snapshot that judges block n + 1, makes of
\* the cached one at n - 1: apply header n, then Snake8 fixes the turn length.
NextSnapshot(s, n, c) ==
  LET t == ApplyHeader([s EXCEPT !.isSnake8 = IsSnake8Enabled(n + 1)], n, c)
  IN  [t EXCEPT !.number     = n,
                !.turnLength = IF IsSnake8Enabled(n + 1) THEN Snake8TurnLength ELSE @]
============================================================================
