------------------------ MODULE SnapshotStoreProofs ------------------------
(***************************************************************************)
(* Proofs about SnapshotStore: a snapshot found in memory, on disk, at     *)
(* genesis or in a trusted epoch block, and carried forward by a batch of  *)
(* headers, agrees with the one of a node that imports block by block.     *)
(***************************************************************************)
EXTENDS SnapshotStore, ParliaChainProofs, WellFoundedInduction

(* Copies of a snapshot                                                    *)

\* Snapshots s and t judge the next block by the same set and turn length.
Alike(s, t) ==
  /\ SnapshotOK(s) /\ SnapshotOK(t)
  /\ s.validators = t.validators /\ s.turnLength = t.turnLength
  /\ s.epochLength = t.epochLength
  /\ ~s.isSnake8 /\ ~t.isSnake8

\* s knows no more recent signers than t.
Forgets(s, t) ==
  /\ DOMAIN s.recents \subseteq DOMAIN t.recents
  /\ \A k \in DOMAIN s.recents : s.recents[k] = t.recents[k]

\* Everything else is the same too.
SameRest(s, t) ==
  /\ DOMAIN s.recents = DOMAIN t.recents /\ s.forkBlocks = t.forkBlocks
  /\ s.epochKey = t.epochKey /\ s.attestation = t.attestation

\* At block m the set would be switched, but for the mark of an earlier switch.
SwitchPoint(t, m) == m % t.epochLength = MinerHistoryCheckLen(t)

\* The marks of s and t, at block n, suppress the same switches after n.
KeysAgree(s, t, n) ==
  \/ s.epochKey = t.epochKey
  \/ /\ IsBohr(n)
     /\ \A m \in Nat : m > n /\ SwitchPoint(t, m) =>
          m \div t.epochLength # s.epochKey /\ m \div t.epochLength # t.epochKey

\* s may stand for t, the snapshot of block n.
Copy(s, t, n, exact) ==
  /\ Alike(s, t) /\ Forgets(s, t) /\ KeysAgree(s, t, n)
  /\ exact => SameRest(s, t)

\* Alike snapshots have the same history lengths.
LEMMA AlikeLengths ==
  ASSUME NEW s, NEW t, Alike(s, t)
  PROVE  /\ MinerHistoryCheckLen(s) = MinerHistoryCheckLen(t)
         /\ Limit(s) = Limit(t) /\ VersionHistoryCheckLen(s) = VersionHistoryCheckLen(t)
         /\ MinerHistoryCheckLen(s) \in Nat
         /\ s.epochLength \in Nat \ {0}
<1>1. MinerHistoryCheckLen(s) = MinerHistoryCheckLen(t) /\ VersionHistoryCheckLen(s) = VersionHistoryCheckLen(t)
  BY DEF Alike, MinerHistoryCheckLen, VersionHistoryCheckLen
<1>2. MinerHistoryCheckLen(s) \in Nat
  BY CheckLenNat DEF Alike
<1>3. s.epochLength \in Nat \ {0}
  BY LengthAssumption DEF Alike, SnapshotOK, Snapshots
<1> QED BY <1>1, <1>2, <1>3 DEF Limit

\* A copy switches its set where the original does.
LEMMA CopySwitches ==
  ASSUME NEW s, NEW t, NEW n \in 1..MaxBlock, Alike(s, t), KeysAgree(s, t, n - 1)
  PROVE  Switches(s, n, s.epochLength) <=> Switches(t, n, t.epochLength)
<1>1. MinerHistoryCheckLen(s) = MinerHistoryCheckLen(t) /\ s.epochLength = t.epochLength
  BY AlikeLengths DEF Alike
<1>2. CASE s.epochKey = t.epochKey
  BY <1>1, <1>2 DEF Switches
<1>3. CASE s.epochKey # t.epochKey
  <2>1. n \in Nat /\ n > n - 1
    BY BoundAssumption
  <2>2. SwitchPoint(t, n) => n \div t.epochLength # s.epochKey /\ n \div t.epochLength # t.epochKey
    BY <1>3, <2>1 DEF KeysAgree
  <2>3. SwitchPoint(t, n) <=> n % t.epochLength = MinerHistoryCheckLen(t)
    BY DEF SwitchPoint
  <2> QED BY <1>1, <2>2, <2>3 DEF Switches
<1> QED BY <1>2, <1>3

\* The part of apply before a switch keeps a copy a copy.
LEMMA CopySigned ==
  ASSUME NEW s, NEW t, NEW n \in 1..MaxBlock, NEW c, HeaderOK(c[n], n), NEW exact \in BOOLEAN,
         Alike(s, t), Forgets(s, t), exact => SameRest(s, t), exact \/ ~IsMaxwell(n)
  PROVE  LET a == Signed(s, n, c)
             b == Signed(t, n, c)
         IN  /\ Alike(a, b) /\ Forgets(a, b) /\ (exact => SameRest(a, b))
             /\ SameTurns(s, a) /\ SameTurns(t, b)
             /\ a.epochLength = NextEpochLength(s.epochLength, n)
<1> DEFINE a == Signed(s, n, c)
           b == Signed(t, n, c)
           D(r) == (DOMAIN r.recents \ {n - Limit(r)}) \cup {n}
<1>0. SnapshotOK(s) /\ SnapshotOK(t)
  BY DEF Alike
<1>1. /\ SnapshotOK(a) /\ SameTurns(s, a) /\ a.epochLength = NextEpochLength(s.epochLength, n)
      /\ \A k \in DOMAIN a.recents : a.recents[k] = IF k = n THEN c[n].signer ELSE s.recents[k]
  BY <1>0, SignedFields
<1>2. /\ SnapshotOK(b) /\ SameTurns(t, b) /\ b.epochLength = NextEpochLength(t.epochLength, n)
      /\ \A k \in DOMAIN b.recents : b.recents[k] = IF k = n THEN c[n].signer ELSE t.recents[k]
  BY <1>0, SignedFields
<1>3. /\ a.attestation = Joined(s.attestation, n, c[n].attestation)
      /\ a.forkBlocks = (s.forkBlocks \ {n - VersionHistoryCheckLen(s)}) \cup {n}
      /\ DOMAIN a.recents = {k \in D(s) : IsMaxwell(n) => k > a.attestation.source}
  BY <1>0, SignedRest
<1>4. /\ b.attestation = Joined(t.attestation, n, c[n].attestation)
      /\ b.forkBlocks = (t.forkBlocks \ {n - VersionHistoryCheckLen(t)}) \cup {n}
      /\ DOMAIN b.recents = {k \in D(t) : IsMaxwell(n) => k > b.attestation.source}
  BY <1>0, SignedRest
<1>5. Limit(s) = Limit(t) /\ VersionHistoryCheckLen(s) = VersionHistoryCheckLen(t)
  BY AlikeLengths
<1> HIDE DEF a, b
<1>6. Alike(a, b)
  BY <1>1, <1>2 DEF Alike, SameTurns
<1>7. D(s) \subseteq D(t)
  BY <1>5 DEF Forgets
<1>8. exact => a.attestation = b.attestation /\ D(s) = D(t)
  BY <1>3, <1>4, <1>5 DEF SameRest
<1> HIDE DEF D
<1>9. DOMAIN a.recents \subseteq DOMAIN b.recents /\ (exact => DOMAIN a.recents = DOMAIN b.recents)
  BY <1>3, <1>4, <1>7, <1>8
<1>10. ASSUME NEW k \in DOMAIN a.recents PROVE a.recents[k] = b.recents[k]
  <2>1. k \in DOMAIN b.recents
    BY <1>9
  <2>2. k # n => k \in DOMAIN s.recents
    BY <1>3 DEF D
  <2> QED BY <1>1, <1>2, <2>1, <2>2 DEF Forgets
<1>11. Forgets(a, b)
  BY <1>9, <1>10 DEF Forgets
<1>12. ASSUME exact PROVE SameRest(a, b)
  <2>1. SameRest(s, t)
    BY <1>12
  <2>2. a.forkBlocks = b.forkBlocks
    BY <1>3, <1>4, <1>5, <2>1 DEF SameRest
  <2>3. a.epochKey = b.epochKey
    BY <1>1, <1>2, <2>1 DEF SameRest, SameTurns
  <2> QED BY <1>8, <1>9, <1>12, <2>2, <2>3 DEF SameRest
<1> QED BY <1>1, <1>2, <1>6, <1>11, <1>12 DEF a, b

\* A set switch does too.
LEMMA CopySwitched ==
  ASSUME NEW s, NEW t, NEW n \in 1..MaxBlock, NEW len \in Nat \ {0}, NEW c, NEW exact \in BOOLEAN,
         Alike(s, t), Forgets(s, t), exact => SameRest(s, t),
         HeaderOK(c[n - MinerHistoryCheckLen(t)], n - MinerHistoryCheckLen(t)),
         c[n - MinerHistoryCheckLen(t)].validators # {}
  PROVE  LET a == SwitchValidators(s, n, len, c)
             b == SwitchValidators(t, n, len, c)
         IN  /\ Alike(a, b) /\ Forgets(a, b) /\ (exact => SameRest(a, b))
             /\ a.epochKey = IF IsBohr(n) THEN n \div len ELSE s.epochKey
             /\ b.epochKey = IF IsBohr(n) THEN n \div len ELSE t.epochKey
<1> DEFINE a == SwitchValidators(s, n, len, c)
           b == SwitchValidators(t, n, len, c)
           cp == n - MinerHistoryCheckLen(t)
<1>0. SnapshotOK(s) /\ SnapshotOK(t) /\ ~s.isSnake8 /\ ~t.isSnake8 /\ s.epochLength = t.epochLength
      /\ s.turnLength = t.turnLength /\ s.validators = t.validators
  BY DEF Alike
<1>1. MinerHistoryCheckLen(s) = MinerHistoryCheckLen(t) /\ VersionHistoryCheckLen(s) = VersionHistoryCheckLen(t)
  BY AlikeLengths
<1>2. HeaderOK(c[n - MinerHistoryCheckLen(s)], n - MinerHistoryCheckLen(s)) /\ c[n - MinerHistoryCheckLen(s)].validators # {}
  BY <1>1
<1>3. SnapshotOK(a) /\ a.isSnake8 = s.isSnake8 /\ a.epochLength = s.epochLength
  BY <1>0, <1>2, SwitchFields
<1>4. SnapshotOK(b) /\ b.isSnake8 = t.isSnake8 /\ b.epochLength = t.epochLength
  BY <1>0, SwitchFields
<1>5. SwitchedTo(s, a, n, len, c)
  BY <1>0, SwitchRest
<1>6. SwitchedTo(t, b, n, len, c)
  BY <1>0, SwitchRest
<1> HIDE DEF a, b
<1>7. a.validators = b.validators /\ a.turnLength = b.turnLength
  BY <1>0, <1>1, <1>5, <1>6 DEF SwitchedTo
<1>8. Alike(a, b)
  BY <1>0, <1>3, <1>4, <1>7 DEF Alike
<1>9. Forgets(a, b) /\ (exact => DOMAIN a.recents = DOMAIN b.recents)
  <2>1. CASE IsBohr(n)
    <3>1. a.recents = [k \in {} |-> 0] /\ b.recents = [k \in {} |-> 0]
      BY <1>5, <1>6, <2>1 DEF SwitchedTo
    <3> QED BY <3>1 DEF Forgets
  <2>2. CASE ~IsBohr(n)
    <3> DEFINE K == {n - (Cardinality(c[cp].validators) \div 2 + 1) - i :
                       i \in 0..((Cardinality(t.validators) \div 2 + 1) - (Cardinality(c[cp].validators) \div 2 + 1) - 1)}
    <3>1. a.recents = Drop(s.recents, K)
      BY <1>0, <1>1, <1>5, <2>2 DEF SwitchedTo, ShrinkRecents
    <3>2. b.recents = Drop(t.recents, K)
      BY <1>6, <2>2 DEF SwitchedTo, ShrinkRecents
    <3> HIDE DEF K
    <3>3. /\ DOMAIN a.recents = DOMAIN s.recents \ K /\ \A k \in DOMAIN a.recents : a.recents[k] = s.recents[k]
          /\ DOMAIN b.recents = DOMAIN t.recents \ K /\ \A k \in DOMAIN b.recents : b.recents[k] = t.recents[k]
      BY <3>1, <3>2 DEF Drop, Restrict
    <3> QED BY <3>3 DEF Forgets, SameRest
  <2> QED BY <2>1, <2>2
<1>10. /\ a.epochKey = IF IsBohr(n) THEN n \div len ELSE s.epochKey
       /\ b.epochKey = IF IsBohr(n) THEN n \div len ELSE t.epochKey
  BY <1>5, <1>6 DEF SwitchedTo
<1>11. ASSUME exact PROVE SameRest(a, b)
  <2>1. SameRest(s, t)
    BY <1>11
  <2>2. VersionHistoryCheckLen(a) = VersionHistoryCheckLen(b)
    BY <1>7 DEF VersionHistoryCheckLen
  <2>3. a.forkBlocks = b.forkBlocks
    BY <1>1, <1>5, <1>6, <2>1, <2>2 DEF SwitchedTo, SameRest
  <2>4. a.attestation = b.attestation /\ a.epochKey = b.epochKey
    BY <1>5, <1>6, <1>10, <2>1 DEF SwitchedTo, SameRest
  <2> QED BY <1>9, <1>11, <2>3, <2>4 DEF SameRest
<1> QED BY <1>8, <1>9, <1>10, <1>11 DEF a, b

\* A copy applies every header that the original applies: in a batch its number
\* lags behind, but every entry of the window that is left is counted anyway.
LEMMA CopyCanApply ==
  ASSUME NEW s, NEW t, NEW n \in 1..MaxBlock, NEW c, NEW exact \in BOOLEAN,
         Copy(s, t, n - 1, exact), t.number = n - 1,
         Gapless(DOMAIN t.recents, n - 1, Limit(t)), CanApply(t, n, c)
  PROVE  CanApply(s, n, c)
<1> DEFINE e == Expire(s, n)
           f == Expire(t, n)
           v == c[n].signer
           len == MinerHistoryCheckLen(t)
<1>0. n \in Nat /\ Alike(s, t) /\ Forgets(s, t) /\ KeysAgree(s, t, n - 1) /\ SnapshotOK(s) /\ SnapshotOK(t)
  BY BoundAssumption DEF Copy, Alike
<1>1. MinerHistoryCheckLen(s) = len /\ len \in Nat /\ Limit(t) = len + 1
  BY <1>0, AlikeLengths DEF Limit
<1>2. /\ SnapshotOK(e) /\ SameTurns(s, e) /\ e.epochLength = s.epochLength
      /\ e.recents = Drop(s.recents, {n - (MinerHistoryCheckLen(s) + 1)})
  BY <1>0, ExpireFields, Zenon
<1>3. /\ SnapshotOK(f) /\ SameTurns(t, f) /\ f.number = t.number
      /\ f.recents = Drop(t.recents, {n - (MinerHistoryCheckLen(t) + 1)})
  BY <1>0, ExpireFields
<1>4. /\ MayApply(f, n, v)
      /\ Switches(f, n, t.epochLength) => c[n - len].validators # {} /\ (IsLuban(n) => IsLuban(n - len))
  BY DEF CanApply
<1> HIDE DEF e, f
<1>5. /\ e.validators = f.validators /\ e.turnLength = f.turnLength /\ ~e.isSnake8 /\ ~f.isSnake8
  BY <1>0, <1>2, <1>3 DEF Alike, SameTurns
<1>6. /\ DOMAIN e.recents \subseteq DOMAIN f.recents
      /\ \A k \in DOMAIN e.recents : e.recents[k] = f.recents[k]
  <2> DEFINE K == {n - (len + 1)}
  <2>1. e.recents = Drop(s.recents, K) /\ f.recents = Drop(t.recents, K)
    BY <1>1, <1>2, <1>3
  <2> HIDE DEF K
  <2> QED BY <1>0, <2>1 DEF Drop, Restrict, Forgets
<1>7. MinerHistoryCheckLen(f) = len
  BY <1>3 DEF SameTurns, MinerHistoryCheckLen
<1>8. ASSUME NEW k \in DOMAIN f.recents PROVE k > LeftHistoryBound(f)
  <2>1. PICK b \in (n - 1 - Limit(t))..(n - 1) : DOMAIN t.recents = {i \in 1..(n - 1) : i > b}
    BY DEF Gapless
  <2>2. k \in DOMAIN t.recents /\ k # n - (len + 1)
    BY <1>3, <1>8 DEF Drop, Restrict
  <2>3. k \in 1..(n - 1) /\ k > b /\ b >= n - 1 - (len + 1)
    BY <1>1, <2>1, <2>2
  <2>4. k \in Nat /\ k > 0 /\ k > n - 1 - len
    BY <1>0, <1>1, <2>1, <2>2, <2>3
  <2> QED BY <1>0, <1>1, <1>3, <1>7, <2>4 DEF LeftHistoryBound
<1>9. v \in e.validators
  BY <1>4, <1>5 DEF MayApply
<1>10. IsBohr(n) => ~SignRecently(e, v)
  <2>1. SUFFICES ASSUME IsBohr(n) PROVE ~SignRecently(e, v)
    OBVIOUS
  <2>2. Counted(e, v) \in SUBSET Counted(f, v)
    BY <1>6, <1>8 DEF Counted
  <2>3. Cardinality(Counted(e, v)) <= Cardinality(Counted(f, v))
    BY <1>2, <1>3, <2>2, CountedFinite, FS_Subset
  <2>4. CountRecents(e, v) <= CountRecents(f, v)
    BY <2>3 DEF CountRecents, Counted
  <2>5. CountRecents(e, v) \in Nat /\ CountRecents(f, v) \in Nat /\ f.turnLength \in Nat
    BY <1>2, <1>3, CountedFinite, Zenon DEF SnapshotOK, Snapshots
  <2>6. ~(CountRecents(f, v) >= f.turnLength)
    BY <1>4, <2>1 DEF MayApply, SignRecently
  <2> QED BY <1>5, <2>4, <2>5, <2>6 DEF SignRecently
<1>11. ~IsBohr(n) => \A k \in DOMAIN e.recents : e.recents[k] # v
  BY <1>4, <1>5, <1>6 DEF MayApply
<1>12. MayApply(e, n, v)
  BY <1>9, <1>10, <1>11 DEF MayApply
<1>13. Switches(e, n, s.epochLength) => Switches(f, n, t.epochLength)
  <2>1. Switches(e, n, s.epochLength) <=> Switches(s, n, s.epochLength)
    BY <1>2, SwitchesSame, Zenon
  <2>2. Switches(f, n, t.epochLength) <=> Switches(t, n, t.epochLength)
    BY <1>3, SwitchesSame, Zenon
  <2> QED BY <1>0, <2>1, <2>2, CopySwitches
<1> QED BY <1>1, <1>4, <1>12, <1>13 DEF CanApply, e

\* Applied to a copy, a header makes a copy.
LEMMA CopyApply ==
  ASSUME NEW s, NEW t, NEW n \in 1..MaxBlock, NEW c, NEW exact \in BOOLEAN,
         Copy(s, t, n - 1, exact), CanApply(t, n, c), \A k \in 0..n : HeaderOK(c[k], k),
         exact \/ (~IsMaxwell(n) /\ NextEpochLength(t.epochLength, n) = t.epochLength)
  PROVE  Copy(ApplyHeader(s, n, c), ApplyHeader(t, n, c), n, exact)
<1> DEFINE a == Signed(s, n, c)
           b == Signed(t, n, c)
           len == t.epochLength
<1>0. /\ n \in Nat /\ Alike(s, t) /\ Forgets(s, t) /\ KeysAgree(s, t, n - 1)
      /\ SnapshotOK(t) /\ s.epochLength = len /\ (exact => SameRest(s, t))
  BY BoundAssumption DEF Copy, Alike
<1>1. HeaderOK(c[n], n) /\ len \in Nat \ {0}
  BY <1>0, AlikeLengths
<1>2. /\ Alike(a, b) /\ Forgets(a, b) /\ (exact => SameRest(a, b))
      /\ SameTurns(s, a) /\ SameTurns(t, b) /\ a.epochLength = NextEpochLength(len, n)
  BY <1>0, <1>1, CopySigned
<1>3. /\ ApplyHeader(s, n, c) = IF Switches(a, n, s.epochLength) THEN SwitchValidators(a, n, s.epochLength, c) ELSE a
      /\ ApplyHeader(t, n, c) = IF Switches(b, n, len) THEN SwitchValidators(b, n, len, c) ELSE b
  BY DEF ApplyHeader, Signed
<1> HIDE DEF a, b
<1>4. (Switches(a, n, len) <=> Switches(b, n, len)) /\ (Switches(b, n, len) <=> Switches(t, n, len))
  <2>1. Switches(a, n, len) <=> Switches(s, n, len)
    BY <1>2, SwitchesSame, Zenon
  <2>2. Switches(b, n, len) <=> Switches(t, n, len)
    BY <1>2, SwitchesSame, Zenon
  <2>3. Switches(s, n, len) <=> Switches(t, n, len)
    BY <1>0, CopySwitches
  <2> QED BY <2>1, <2>2, <2>3
<1>5. MinerHistoryCheckLen(b) = MinerHistoryCheckLen(t)
  BY <1>2, SwitchesSame
<1>6. a.epochKey = s.epochKey /\ b.epochKey = t.epochKey
  BY <1>2 DEF SameTurns
<1>7. IsBohr(n - 1) => IsBohr(n)
  BY <1>0, ForkAssumption DEF IsBohr
<1>8. CASE ~Switches(b, n, len)
  <2>1. ApplyHeader(s, n, c) = a /\ ApplyHeader(t, n, c) = b
    BY <1>0, <1>3, <1>4, <1>8
  <2>2. KeysAgree(a, b, n)
    <3>1. CASE s.epochKey = t.epochKey
      BY <1>6, <3>1 DEF KeysAgree
    <3>2. CASE s.epochKey # t.epochKey
      <4>1. ~exact
        BY <1>0, <3>2 DEF SameRest
      <4>2. b.epochLength = len
        BY <1>2, <4>1 DEF Alike
      <4>3. ASSUME NEW m \in Nat, m > n, SwitchPoint(b, m)
            PROVE  m \div len # s.epochKey /\ m \div len # t.epochKey
        <5>1. m > n - 1
          BY <1>0, <4>3
        <5>2. SwitchPoint(t, m)
          BY <1>5, <4>2, <4>3 DEF SwitchPoint
        <5> QED BY <1>0, <3>2, <5>1, <5>2 DEF KeysAgree
      <4>4. IsBohr(n)
        BY <1>0, <1>7, <3>2 DEF KeysAgree
      <4> QED BY <1>6, <4>2, <4>3, <4>4 DEF KeysAgree
    <3> QED BY <3>1, <3>2
  <2> QED BY <1>2, <2>1, <2>2 DEF Copy
<1>9. CASE Switches(b, n, len)
  <2> DEFINE x == SwitchValidators(a, n, len, c)
             y == SwitchValidators(b, n, len, c)
  <2>1. ApplyHeader(s, n, c) = x /\ ApplyHeader(t, n, c) = y
    BY <1>0, <1>3, <1>4, <1>9
  <2>2. LET cp == n - MinerHistoryCheckLen(t) IN c[cp].validators # {} /\ HeaderOK(c[cp], cp)
    BY <1>0, <1>4, <1>9, SwitchReadsList
  <2>3. /\ HeaderOK(c[n - MinerHistoryCheckLen(b)], n - MinerHistoryCheckLen(b))
        /\ c[n - MinerHistoryCheckLen(b)].validators # {}
    BY <1>5, <2>2
  <2>4. /\ Alike(x, y) /\ Forgets(x, y) /\ (exact => SameRest(x, y))
        /\ x.epochKey = IF IsBohr(n) THEN n \div len ELSE a.epochKey
        /\ y.epochKey = IF IsBohr(n) THEN n \div len ELSE b.epochKey
    BY <1>1, <1>2, <2>3, CopySwitched
  <2> HIDE DEF x, y
  <2>5. x.epochKey = y.epochKey
    BY <1>0, <1>6, <1>7, <2>4 DEF KeysAgree
  <2>6. KeysAgree(x, y, n)
    BY <2>5 DEF KeysAgree
  <2> QED BY <2>1, <2>4, <2>6 DEF Copy
<1> QED BY <1>8, <1>9
----------------------------------------------------------------------------
(* A batch of headers                                                      *)

\* A set of natural numbers has a least element.
LEMMA LeastOf ==
  ASSUME NEW S, S \subseteq Nat, S # {}
  PROVE  \E n \in S : \A m \in S : n <= m
<1> DEFINE R == OpToRel(<, Nat)
<1>1. \E n \in S : \A m \in S : ~(<<m, n>> \in R)
  BY WFMin, NatLessThanWellFounded, Zenon
<1>2. \A m, n \in S : m < n => <<m, n>> \in R
  BY DEF OpToRel
<1> HIDE DEF R
<1>3. PICK n \in S : \A m \in S : ~(<<m, n>> \in R)
  BY <1>1
<1>4. \A m \in S : ~(m < n)
  BY <1>2, <1>3, Zenon
<1> QED BY <1>3, <1>4

\* u is s but for its number.
Twin(s, u) ==
  /\ SnapshotOK(u) /\ u.validators = s.validators /\ u.turnLength = s.turnLength
  /\ u.epochLength = s.epochLength /\ u.isSnake8 = s.isSnake8 /\ u.recents = s.recents
  /\ u.forkBlocks = s.forkBlocks /\ u.epochKey = s.epochKey /\ u.attestation = s.attestation

\* The number of a snapshot can be set.
LEMMA NumberTwin ==
  ASSUME NEW s, SnapshotOK(s), NEW n \in 0..MaxBlock
  PROVE  Twin(s, [s EXCEPT !.number = n]) /\ [s EXCEPT !.number = n].number = n
<1> DEFINE u == [s EXCEPT !.number = n]
<1>1. s \in Snapshots(s.recents)
  BY DEF SnapshotOK
<1>2. /\ u \in Snapshots(s.recents) /\ u.number = n /\ u.validators = s.validators /\ u.turnLength = s.turnLength
      /\ u.epochLength = s.epochLength /\ u.isSnake8 = s.isSnake8 /\ u.recents = s.recents
      /\ u.forkBlocks = s.forkBlocks /\ u.epochKey = s.epochKey /\ u.attestation = s.attestation
  BY <1>1 DEF Snapshots
<1> HIDE DEF u
<1>3. SnapshotOK(u)
  BY <1>2 DEF SnapshotOK
<1> QED BY <1>2, <1>3 DEF u, Twin

\* Numbers do not matter to copies.
LEMMA CopyOfTwins ==
  ASSUME NEW s, NEW t, NEW n, NEW exact, Copy(s, t, n, exact), NEW u, NEW w, Twin(s, u), Twin(t, w)
  PROVE  Copy(u, w, n, exact)
<1>1. Alike(u, w)
  BY DEF Copy, Alike, Twin
<1>2. Forgets(u, w)
  BY DEF Copy, Forgets, Twin
<1>3. KeysAgree(u, w, n)
  <2>1. KeysAgree(s, t, n)
    BY DEF Copy
  <2>2. w.epochLength = t.epochLength /\ MinerHistoryCheckLen(w) = MinerHistoryCheckLen(t)
    BY DEF Twin, MinerHistoryCheckLen
  <2>3. u.epochKey = s.epochKey /\ w.epochKey = t.epochKey
    BY DEF Twin
  <2> QED BY <2>1, <2>2, <2>3 DEF KeysAgree, SwitchPoint
<1>4. exact => SameRest(u, w)
  BY DEF Copy, SameRest, Twin
<1> QED BY <1>1, <1>2, <1>3, <1>4 DEF Copy

\* f is the run of apply over the headers after k up to n, from r on.
IsRun(f, r, k, n) == f = [i \in k..n |-> IF i = k THEN r ELSE ApplyOne(f[i - 1], i)]

LEMMA RunExists ==
  ASSUME NEW k \in Nat, NEW n \in Nat, k <= n, NEW r
  PROVE  \E f : IsRun(f, r, k, n)
<1> SUFFICES ASSUME ~\E f : IsRun(f, r, k, n) PROVE FALSE
  OBVIOUS
<1> DEFINE S == {m \in Nat : k <= m /\ ~\E f : IsRun(f, r, k, m)}
<1>1. n \in S /\ S \subseteq Nat
  OBVIOUS
<1>2. PICK m \in S : \A j \in S : m <= j
  <2> HIDE DEF S
  <2> QED BY <1>1, LeastOf, Zenon
<1>3. m \in Nat /\ k <= m /\ ~\E f : IsRun(f, r, k, m)
  OBVIOUS
<1>4. CASE m = k
  <2> DEFINE f == [i \in k..k |-> r]
  <2>1. \A i \in k..k : i = k
    OBVIOUS
  <2>2. f = [i \in k..k |-> IF i = k THEN r ELSE ApplyOne(f[i - 1], i)]
    BY <2>1
  <2> HIDE DEF f
  <2>3. IsRun(f, r, k, m)
    BY <1>4, <2>2 DEF IsRun
  <2> QED BY <1>3, <2>3
<1>5. CASE m # k
  <2>1. m - 1 \in Nat /\ k <= m - 1 /\ ~(m <= m - 1)
    BY <1>3, <1>5
  <2>2. m - 1 \notin S
    <3> HIDE DEF S
    <3> QED BY <1>2, <2>1
  <2>3. PICK f : IsRun(f, r, k, m - 1)
    BY <2>1, <2>2
  <2> DEFINE g == [i \in k..m |-> IF i = m THEN ApplyOne(f[m - 1], m) ELSE f[i]]
  <2>4. ASSUME NEW i \in k..m
        PROVE  g[i] = IF i = k THEN r ELSE ApplyOne(g[i - 1], i)
    <3>0. \A j \in k..(m - 1) : f[j] = IF j = k THEN r ELSE ApplyOne(f[j - 1], j)
      BY <2>3 DEF IsRun
    <3>1. CASE i = m
      <4>1. m - 1 \in k..m /\ m - 1 # m
        BY <1>3, <2>1
      <4>2. g[m - 1] = f[m - 1]
        BY <4>1
      <4> QED BY <1>5, <3>1, <4>2
    <3>2. CASE i # m
      <4>1. i \in k..(m - 1)
        BY <1>3, <3>2
      <4>2. i # k => i - 1 \in k..m /\ i - 1 # m
        BY <1>3, <4>1
      <4> QED BY <3>0, <3>2, <4>1, <4>2
    <3> QED BY <3>1, <3>2
  <2>5. g = [i \in DOMAIN g |-> g[i]] /\ DOMAIN g = k..m
    OBVIOUS
  <2> HIDE DEF g
  <2>6. IsRun(g, r, k, m)
    BY <2>4, <2>5, Zenon DEF IsRun
  <2> QED BY <1>3, <2>6
<1> QED BY <1>4, <1>5

\* Apply takes the end of such a run.
LEMMA ApplyIsRun ==
  ASSUME NEW s, NEW k \in Nat, NEW n \in Nat, k <= n
  PROVE  \E f : /\ IsRun(f, [ok |-> TRUE, snap |-> s], k, n)
                /\ Apply(s, k, n) = [f[n] EXCEPT !.snap.number = n]
<1> DEFINE r == [ok |-> TRUE, snap |-> s]
           base == FirstHeader(k) - 1
           run == CHOOSE f : f = [i \in base..n |-> IF i = base THEN r ELSE ApplyOne(f[i - 1], i)]
<1>1. base = k
  BY DEF FirstHeader
<1>2. \E f : f = [i \in base..n |-> IF i = base THEN r ELSE ApplyOne(f[i - 1], i)]
  <2>1. PICK f : IsRun(f, r, k, n)
    BY RunExists
  <2> HIDE DEF base, r
  <2> QED BY <1>1, <2>1 DEF IsRun
<1>3. Apply(s, k, n) = [run[n] EXCEPT !.snap.number = n]
  BY Zenon DEF Apply
<1> HIDE DEF base, r
<1>4. run = [i \in base..n |-> IF i = base THEN r ELSE ApplyOne(run[i - 1], i)]
  BY <1>2, Zenon
<1> HIDE DEF run
<1>5. IsRun(run, r, k, n)
  BY <1>1, <1>4 DEF IsRun
<1> QED BY <1>3, <1>5, Zenon DEF r
----------------------------------------------------------------------------
(* The snapshots of the node that imports block by block                   *)

RefOK(t, m) ==
  /\ SnapshotOK(t) /\ t.number = m /\ ~t.isSnake8
  /\ Gapless(DOMAIN t.recents, m, Limit(t))

\* The snapshot of block m is the one before it with header m applied.
RefStep(r, c, m) ==
  CanApply(r[m - 1], m, c) /\ r[m] = [ApplyHeader(r[m - 1], m, c) EXCEPT !.number = m]

RefsInv ==
  /\ DOMAIN refs = 0..snap.number
  /\ refs[snap.number] = snap
  /\ refs[0] = NewSnapshot(0, chain[0].validators, FALSE)
  /\ \A m \in 0..snap.number : RefOK(refs[m], m)
  /\ \A m \in 1..snap.number : RefStep(refs, chain, m)

\* A batch that starts from a copy at k ends with a copy at n.
LEMMA BatchCopies ==
  ASSUME WindowInv, ~applyError, RefsInv, NEW exact \in BOOLEAN,
         exact \/ \A m \in 1..MaxBlock : ~IsMaxwell(m) /\ ~IsLorentz(m),
         NEW n \in 0..snap.number, NEW k \in 0..n, NEW s, Copy(s, refs[k], k, exact)
  PROVE  LET r == Apply(s, k, n)
         IN  r.ok /\ Copy(r.snap, refs[n], n, exact) /\ r.snap.number = n
<1> DEFINE Good(r, i) == /\ r = [ok |-> TRUE, snap |-> r.snap] /\ r.ok
                         /\ Copy(r.snap, refs[i], i, exact)
<1>0. /\ snap.number \in 0..MaxBlock
      /\ \A j \in 0..snap.number : HeaderOK(chain[j], j)
  BY DEF WindowInv, TypeOK, SnapshotOK, Snapshots
<1>1. /\ snap.number \in Nat /\ n \in Nat /\ k \in Nat /\ MaxBlock \in Nat
      /\ k <= n /\ n <= snap.number /\ snap.number <= MaxBlock
  BY <1>0, BoundAssumption
<1>2. PICK f : /\ IsRun(f, [ok |-> TRUE, snap |-> s], k, n)
               /\ Apply(s, k, n) = [f[n] EXCEPT !.snap.number = n]
  BY <1>1, ApplyIsRun
<1>3. \A i \in k..n : f[i] = IF i = k THEN [ok |-> TRUE, snap |-> s] ELSE ApplyOne(f[i - 1], i)
  BY <1>2, Zenon DEF IsRun
<1>4. ASSUME NEW i \in k..n, i # k, Good(f[i - 1], i - 1) PROVE Good(f[i], i)
  <2> DEFINE u == f[i - 1].snap
             t == refs[i - 1]
  <2>1. i \in 1..MaxBlock /\ i \in 0..snap.number /\ i \in 1..snap.number /\ i - 1 \in 0..snap.number
    <3> HIDE DEF Good
    <3> QED BY <1>1, <1>4
  <2>2. f[i - 1].ok /\ Copy(u, t, i - 1, exact)
    BY <1>4, Zenon
  <2>3. RefOK(t, i - 1) /\ RefStep(refs, chain, i) /\ SnapshotOK(refs[i])
    BY <2>1 DEF RefsInv, RefOK
  <2>4. \A j \in 0..i : HeaderOK(chain[j], j)
    BY <1>0, <1>1, <2>1
  <2>5. CanApply(t, i, chain) /\ refs[i] = [ApplyHeader(t, i, chain) EXCEPT !.number = i]
    BY <2>3 DEF RefStep
  <2> HIDE DEF u, t
  <2>6. CanApply(u, i, chain)
    <3>1. t.number = i - 1 /\ Gapless(DOMAIN t.recents, i - 1, Limit(t))
      BY <2>3 DEF RefOK
    <3> QED BY <2>1, <2>2, <2>5, <3>1, CopyCanApply
  <2>7. exact \/ (~IsMaxwell(i) /\ NextEpochLength(t.epochLength, i) = t.epochLength)
    BY <2>1 DEF NextEpochLength
  <2>8. Copy(ApplyHeader(u, i, chain), ApplyHeader(t, i, chain), i, exact)
    BY <2>1, <2>2, <2>4, <2>5, <2>7, CopyApply
  <2>9. Copy(ApplyHeader(u, i, chain), refs[i], i, exact)
    <3> DEFINE a == ApplyHeader(u, i, chain)
               b == ApplyHeader(t, i, chain)
    <3>1. SnapshotOK(a) /\ SnapshotOK(b)
      BY <2>8 DEF Copy, Alike
    <3> HIDE DEF a, b
    <3>2. Twin(a, a)
      BY <3>1 DEF Twin
    <3>3. i \in 0..MaxBlock
      BY <2>1
    <3>4. Twin(b, refs[i])
      BY <2>5, <3>1, <3>3, NumberTwin DEF b
    <3> QED BY <2>8, <3>2, <3>4, CopyOfTwins DEF a, b
  <2>10. f[i] = ApplyOne(f[i - 1], i)
    BY <1>3, <1>4
  <2>11. f[i] = [ok |-> TRUE, snap |-> ApplyHeader(u, i, chain)]
    BY <2>2, <2>6, <2>10, Zenon DEF ApplyOne, u
  <2>12. f[i].snap = ApplyHeader(u, i, chain) /\ f[i].ok
    BY <2>11
  <2>13. f[i] = [ok |-> TRUE, snap |-> f[i].snap]
    BY <2>11, <2>12
  <2> QED BY <2>9, <2>12, <2>13
<1>5. Good(f[k], k)
  <2>0. k \in k..n
    BY <1>1
  <2>1. f[k] = [ok |-> TRUE, snap |-> s]
    BY <1>3, <2>0, Zenon
  <2> QED BY <2>1
<1>6. Good(f[n], n)
  <2> SUFFICES ASSUME ~Good(f[n], n) PROVE FALSE
    OBVIOUS
  <2> HIDE DEF Good
  <2> DEFINE S == {i \in k..n : ~Good(f[i], i)}
  <2>1. n \in S /\ S \subseteq Nat
    BY <1>1
  <2>2. PICK i \in S : \A j \in S : i <= j
    <3> HIDE DEF S
    <3> QED BY <2>1, LeastOf, Zenon
  <2>3. i \in k..n /\ ~Good(f[i], i) /\ i # k
    BY <1>5
  <2>4. i - 1 \in k..n /\ ~(i <= i - 1)
    BY <1>1, <2>3
  <2>5. Good(f[i - 1], i - 1)
    BY <2>2, <2>4
  <2> QED BY <1>4, <2>3, <2>5
<1>7. f[n] = [ok |-> TRUE, snap |-> f[n].snap] /\ f[n].ok /\ Copy(f[n].snap, refs[n], n, exact)
  BY <1>6
<1> DEFINE x == f[n].snap
           r == Apply(s, k, n)
<1>8. r.ok /\ r.snap = [x EXCEPT !.number = n]
  <2> HIDE DEF x
  <2>1. f[n] = [ok |-> TRUE, snap |-> x]
    BY <1>7 DEF x
  <2>2. r = [[ok |-> TRUE, snap |-> x] EXCEPT !.snap = [x EXCEPT !.number = n]]
    BY <1>2, <2>1
  <2> QED BY <2>2
<1> HIDE DEF x, r
<1>9. SnapshotOK(x) /\ SnapshotOK(refs[n]) /\ Copy(x, refs[n], n, exact)
  BY <1>7 DEF Copy, Alike, x
<1>10. n \in 0..MaxBlock
  BY <1>1
<1>11. Twin(x, r.snap) /\ r.snap.number = n
  BY <1>8, <1>9, <1>10, NumberTwin
<1>12. Twin(refs[n], refs[n])
  BY <1>9 DEF Twin
<1>13. Copy(r.snap, refs[n], n, exact)
  BY <1>9, <1>11, <1>12, CopyOfTwins
<1> QED BY <1>8, <1>11, <1>13 DEF r

\* apply reads no header after the one it applies.
LEMMA ApplyLocal ==
  ASSUME NEW t, SnapshotOK(t), NEW n \in 1..MaxBlock, NEW c, NEW d, HeaderOK(c[n], n),
         \A k \in 0..n : d[k] = c[k]
  PROVE  /\ ApplyHeader(t, n, d) = ApplyHeader(t, n, c)
         /\ CanApply(t, n, d) <=> CanApply(t, n, c)
<1> DEFINE b == Signed(t, n, c)
           len == t.epochLength
           M == MinerHistoryCheckLen(t)
<1>1. n \in Nat /\ n \in 0..n /\ M \in Nat /\ len \in Nat \ {0}
  BY BoundAssumption, LengthAssumption, CheckLenNat DEF SnapshotOK, Snapshots
<1>2. d[n] = c[n]
  BY <1>1
<1>3. Signed(t, n, d) = b
  BY <1>2 DEF Signed
<1>4. /\ ApplyHeader(t, n, c) = IF Switches(b, n, len) THEN SwitchValidators(b, n, len, c) ELSE b
      /\ ApplyHeader(t, n, d) = IF Switches(b, n, len) THEN SwitchValidators(b, n, len, d) ELSE b
  BY <1>3 DEF ApplyHeader, Signed
<1>5. MinerHistoryCheckLen(b) = M /\ (Switches(b, n, len) <=> Switches(t, n, len))
  BY SignedFields, SwitchesSame
<1>6. Switches(Expire(t, n), n, len) <=> Switches(t, n, len)
  BY <1>1, ExpireFields, SwitchesSame, Zenon
<1> HIDE DEF b
<1>7. Switches(t, n, len) => d[n - M] = c[n - M]
  <2>1. Switches(t, n, len) => n % len = M
    BY DEF Switches
  <2>2. n % len \in 0..n
    BY <1>1, ModAtMost
  <2> HIDE DEF M
  <2>3. Switches(t, n, len) => n - M \in 0..n
    BY <1>1, <2>1, <2>2
  <2> QED BY <2>3
<1>8. Switches(t, n, len) => SwitchValidators(b, n, len, d) = SwitchValidators(b, n, len, c)
  BY <1>5, <1>7, Zenon DEF SwitchValidators
<1>9. CanApply(t, n, d) <=> CanApply(t, n, c)
  BY <1>2, <1>6, <1>7 DEF CanApply
<1> QED BY <1>4, <1>5, <1>8, <1>9

\* Before Snake8 a call with the flag off changes nothing.
LEMMA FlagStaysOff ==
  ASSUME NEW s, SnapshotOK(s), ~s.isSnake8
  PROVE  [s EXCEPT !.isSnake8 = FALSE] = s
<1>1. s \in Snapshots(s.recents) /\ s.isSnake8 = FALSE
  BY DEF SnapshotOK, Snapshots
<1> QED BY <1>1 DEF Snapshots

\* The head snapshot satisfies what RefOK says.
LEMMA HeadRefOK ==
  ASSUME Snake8At > MaxBlock, WindowInv
  PROVE  RefOK(snap, snap.number)
<1>1. SnapshotOK(snap) /\ snap.number \in 0..MaxBlock
  BY DEF WindowInv, TypeOK, SnapshotOK, Snapshots
<1>2. ~snap.isSnake8
  <2>1. ~IsSnake8Enabled(snap.number + 1)
    BY <1>1, BoundAssumption, ForkAssumption DEF IsSnake8Enabled
  <2> QED BY <2>1 DEF WindowInv
<1> QED BY <1>1, <1>2 DEF WindowInv, RecentsIsWindow, RefOK

\* An import applies its header to the head snapshot.
LEMMA ImportIsRefStep ==
  ASSUME Snake8At > MaxBlock, WindowInv, NEW h \in Headers(snap, snap.number + 1), NEW freq,
         Import(h, freq), ~applyError'
  PROVE  LET n == snap.number + 1
         IN  /\ CanApply(snap, n, chain') /\ snap' = [ApplyHeader(snap, n, chain') EXCEPT !.number = n]
             /\ snap'.number = n /\ n \in 1..MaxBlock /\ SnapshotOK(snap)
             /\ \A k \in 0..n : HeaderOK(chain'[k], k)
             /\ \A k \in 0..snap.number : chain'[k] = chain[k]
<1> DEFINE n == snap.number + 1
           c == [k \in 0..n |-> IF k = n THEN h ELSE chain[k]]
           a == ApplyHeader(snap, n, c)
<1>1. /\ n \in 1..MaxBlock /\ n \in 0..MaxBlock /\ n \in Nat \ {0} /\ SnapshotOK(snap) /\ snap.number \in Nat
      /\ DOMAIN chain = 0..(n - 1) /\ chain' = c
  BY ImportFacts
<1>2. HeaderOK(h, n)
  BY <1>1, ImportedHeaderOK
<1>3. (\A k \in 0..n : HeaderOK(c[k], k)) /\ \A k \in 0..snap.number : c[k] = chain[k]
  BY <1>1, <1>2 DEF WindowInv
<1>4. /\ CanApply([snap EXCEPT !.isSnake8 = IsSnake8Enabled(n + 1)], n, c)
      /\ snap' = NextSnapshot(snap, n, c)
  BY DEF Import
<1>5. IsSnake8Enabled(n + 1) = FALSE
  BY <1>1, BoundAssumption, ForkAssumption DEF IsSnake8Enabled
<1>6. [snap EXCEPT !.isSnake8 = IsSnake8Enabled(n + 1)] = snap
  <2>1. ~snap.isSnake8
    BY HeadRefOK DEF RefOK
  <2>2. [snap EXCEPT !.isSnake8 = FALSE] = snap
    BY <1>1, <2>1, FlagStaysOff
  <2> QED BY <1>5, <2>2, Zenon
<1> HIDE DEF n, c
<1>7. CanApply(snap, n, c) /\ snap' = [a EXCEPT !.number = n, !.turnLength = a.turnLength]
  BY <1>4, <1>5, <1>6, Zenon DEF NextSnapshot
<1>8. SnapshotOK(a)
  BY <1>1, <1>3, <1>7, ApplyStep
<1> HIDE DEF a
<1>9. snap' = [a EXCEPT !.number = n]
  <2>1. a \in Snapshots(a.recents)
    BY <1>8 DEF SnapshotOK
  <2> QED BY <1>7, <2>1, Zenon DEF Snapshots
<1>10. snap'.number = n
  BY <1>1, <1>8, <1>9, NumberTwin
<1> QED BY <1>1, <1>3, <1>7, <1>9, <1>10, Zenon DEF n, a

\* Under the code's schedule before Snake8, RefsInv is kept when the chain grows.
LEMMA GrowRefs ==
  ASSUME Snake8At > MaxBlock, AppliedInv, AppliedInv', RefsInv, Grow
  PROVE  /\ RefsInv'
         /\ snap'.number = snap.number + 1 /\ snap.number \in Nat
         /\ \A m \in 0..snap.number : refs'[m] = refs[m] /\ chain'[m] = chain[m]
<1> DEFINE n == snap.number + 1
<1>0. WindowInv /\ WindowInv' /\ ~applyError'
  BY DEF AppliedInv
<1>1. PICK h \in Headers(snap, snap.number + 1), freq \in Frequencies(snap) : Import(h, freq)
  BY DEF Grow, Next
<1>2. /\ CanApply(snap, n, chain') /\ snap' = [ApplyHeader(snap, n, chain') EXCEPT !.number = n]
      /\ snap'.number = n /\ n \in 1..MaxBlock /\ SnapshotOK(snap)
      /\ \A k \in 0..n : HeaderOK(chain'[k], k)
      /\ \A k \in 0..snap.number : chain'[k] = chain[k]
  BY <1>0, <1>1, ImportIsRefStep
<1>3. snap.number \in Nat /\ n \in Nat /\ n - 1 = snap.number /\ snap.number \in 0..snap.number
      /\ 0 \in 0..snap.number /\ n <= MaxBlock /\ MaxBlock \in Nat
  BY <1>2, BoundAssumption DEF SnapshotOK, Snapshots
<1>4. refs' = Put(refs, n, snap') /\ DOMAIN refs = 0..snap.number /\ refs[snap.number] = snap
  BY <1>0, <1>2 DEF Grow, RefsInv
<1>5. /\ DOMAIN refs' = 0..n /\ refs'[n] = snap' /\ \A m \in 0..snap.number : refs'[m] = refs[m]
  <2>1. 0..snap.number \cup {n} = 0..n /\ \A m \in 0..snap.number : m # n
    BY <1>3
  <2> HIDE DEF n
  <2> QED BY <1>4, <2>1 DEF Put
<1>6. refs'[0] = NewSnapshot(0, chain'[0].validators, FALSE)
  BY <1>2, <1>3, <1>5, Zenon DEF RefsInv
<1>7. RefOK(snap', n)
  <2>1. SnapshotOK(snap') /\ snap'.number = n
    BY <1>0, <1>2 DEF WindowInv, TypeOK
  <2>2. ~snap'.isSnake8
    <3>1. ~IsSnake8Enabled(n + 1)
      BY <1>2, <1>3, BoundAssumption, ForkAssumption DEF IsSnake8Enabled
    <3> QED BY <1>0, <1>2, <3>1 DEF WindowInv
  <2>3. Gapless(DOMAIN snap'.recents, n, Limit(snap'))
    BY <1>0, <1>2, <2>2 DEF WindowInv, RecentsIsWindow
  <2> QED BY <2>1, <2>2, <2>3 DEF RefOK
<1>8. ASSUME NEW m \in 0..n PROVE RefOK(refs'[m], m)
  <2>1. m = n \/ m \in 0..snap.number
    BY <1>3
  <2> QED BY <1>5, <1>7, <2>1 DEF RefsInv
<1>9. ASSUME NEW m \in 1..n PROVE RefStep(refs', chain', m)
  <2>1. CASE m = n
    BY <1>2, <1>3, <1>4, <1>5, <2>1, Zenon DEF RefStep
  <2>2. CASE m # n
    <3>1. m \in 1..snap.number /\ m \in 0..snap.number /\ m - 1 \in 0..snap.number /\ m \in 1..MaxBlock
      BY <1>3, <2>2
    <3>2. RefStep(refs, chain, m) /\ SnapshotOK(refs[m - 1])
      BY <3>1 DEF RefsInv, RefOK
    <3>3. refs'[m] = refs[m] /\ refs'[m - 1] = refs[m - 1]
      BY <1>5, <3>1
    <3>4. (\A k \in 0..m : chain'[k] = chain[k]) /\ HeaderOK(chain[m], m)
      <4>1. \A k \in 0..m : k \in 0..snap.number
        BY <1>3, <3>1
      <4>2. m \in 0..n
        BY <1>3, <3>1
      <4>3. HeaderOK(chain'[m], m)
        BY <1>2, <4>2
      <4>4. chain'[m] = chain[m]
        BY <1>2, <3>1
      <4> QED BY <1>2, <4>1, <4>3, <4>4
    <3>5. /\ ApplyHeader(refs[m - 1], m, chain') = ApplyHeader(refs[m - 1], m, chain)
          /\ CanApply(refs[m - 1], m, chain') <=> CanApply(refs[m - 1], m, chain)
      BY <3>1, <3>2, <3>4, ApplyLocal
    <3> QED BY <3>2, <3>3, <3>5 DEF RefStep
  <2> QED BY <2>1, <2>2
<1>10. snap'.number = n
  BY <1>2
<1> HIDE DEF n
<1>11. RefsInv'
  BY <1>5, <1>6, <1>8, <1>9, <1>10 DEF RefsInv
<1> QED BY <1>2, <1>3, <1>5, <1>11 DEF n

\* At the start there is the genesis snapshot.
LEMMA InitRefs ==
  ASSUME Snake8At > MaxBlock, StoreInit, WindowInv
  PROVE  RefsInv
<1>1. PICK g \in Lists :
        /\ chain = [n \in {0} |-> [signer |-> 0, validators |-> g, turnLength |-> DefaultTurnLength,
                                   attestation |-> NoAttestation]]
        /\ snap = [NewSnapshot(0, g, IsSnake8Enabled(1))
                     EXCEPT !.turnLength = IF IsSnake8Enabled(1) THEN Snake8TurnLength ELSE @]
  BY DEF StoreInit, Init
<1>2. IsSnake8Enabled(1) = FALSE
  BY BoundAssumption, ForkAssumption DEF IsSnake8Enabled
<1>3. snap = NewSnapshot(0, g, FALSE) /\ snap.number = 0
  BY <1>1, <1>2, Zenon DEF NewSnapshot
<1>4. refs = [n \in {0} |-> snap] /\ chain[0].validators = g
  BY <1>1 DEF StoreInit
<1>5. RefOK(snap, 0)
  BY <1>3, HeadRefOK, Zenon
<1>6. 0..0 = {0} /\ 1..0 = {}
  OBVIOUS
<1> QED BY <1>3, <1>4, <1>5, <1>6, Zenon DEF RefsInv
----------------------------------------------------------------------------
(* Trusted epoch blocks                                                    *)

\* What makes the list of block k - Offset the set in force at k: epochs of one
\* length that divides the distance of trusted blocks, and miner histories that
\* are not empty and end before k.
TrustFits ==
  /\ LorentzAt > MaxBlock /\ MaxwellAt > MaxBlock
  /\ MaxwellEpochLength % DefaultEpochLength = 0 /\ Offset <= DefaultEpochLength
  /\ \A l \in Lists, t \in TurnLengths \cup {DefaultTurnLength} :
       LET len == (Cardinality(l) \div 2 + 1) * t - 1
       IN  len > 0 /\ len <= Offset /\ len < DefaultEpochLength

TurnOf(e, c) == IF IsBohr(e) THEN c[e].turnLength ELSE DefaultTurnLength

\* The set and the turn length of t are those of epoch block e.
Has(t, e, c) == t.validators = c[e].validators /\ t.turnLength = TurnOf(e, c)

\* The snapshot of block n has the list of the epoch that n belongs to, or the
\* one before while the miner history since the epoch block is incomplete.
InstalledAt(t, n, c) ==
  LET L == DefaultEpochLength
      e == n - (n % L)
  IN  /\ t.epochLength = L
      /\ ~IsBohr(n) => t.epochKey = NoEpochKey
      /\ t.epochKey <= n \div L
      /\ \/ Has(t, e, c) /\ (n % L = 0 => e = 0)
         \/ e > 0 /\ n % L < MinerHistoryCheckLen(t) /\ Has(t, e - L, c) /\ t.epochKey # n \div L

\* Epoch blocks carry a list and a turn length.
ListsFit(c, n) ==
  /\ \A k \in 0..n : HeaderOK(c[k], k)
  /\ \A k \in 0..n : k % DefaultEpochLength = 0 =>
       /\ c[k].validators # {}
       /\ IsBohr(k) => c[k].turnLength \in TurnLengths \cup {DefaultTurnLength}

\* A set with a turn length from an epoch block has a history that fits.
LEMMA HasFits ==
  ASSUME TrustFits, NEW n \in Nat, NEW c, ListsFit(c, n), NEW e \in 0..n, e % DefaultEpochLength = 0,
         NEW t, Has(t, e, c)
  PROVE  /\ t.validators \in Lists /\ t.turnLength \in TurnLengths \cup {DefaultTurnLength}
         /\ MinerHistoryCheckLen(t) > 0 /\ MinerHistoryCheckLen(t) <= Offset
         /\ MinerHistoryCheckLen(t) < DefaultEpochLength
<1>1. t.validators \in Lists
  BY DEF Has, ListsFit, HeaderOK
<1>2. t.turnLength \in TurnLengths \cup {DefaultTurnLength}
  BY DEF Has, ListsFit, TurnOf
<1>3. LET len == (Cardinality(t.validators) \div 2 + 1) * t.turnLength - 1
      IN  len > 0 /\ len <= Offset /\ len < DefaultEpochLength
  BY <1>1, <1>2 DEF TrustFits
<1> QED BY <1>1, <1>2, <1>3 DEF MinerHistoryCheckLen

\* apply installs the list and the turn length of the checkpoint at a switch.
LEMMA ApplySwitch ==
  ASSUME NEW t, SnapshotOK(t), NEW n \in 1..MaxBlock, NEW c, \A k \in 0..n : HeaderOK(c[k], k),
         CanApply(t, n, c)
  PROVE  LET u   == [ApplyHeader(t, n, c) EXCEPT !.number = n]
             len == t.epochLength
             cp  == n - MinerHistoryCheckLen(t)
         IN  /\ SnapshotOK(u) /\ u.epochLength = NextEpochLength(len, n)
             /\ IF Switches(t, n, len)
                THEN /\ u.validators = c[cp].validators
                     /\ u.turnLength = IF cp % len = 0 /\ IsBohr(cp) THEN c[cp].turnLength ELSE t.turnLength
                     /\ u.epochKey = IF IsBohr(n) THEN n \div len ELSE t.epochKey
                ELSE u.validators = t.validators /\ u.turnLength = t.turnLength /\ u.epochKey = t.epochKey
<1> DEFINE a == ApplyHeader(t, n, c)
           u == [a EXCEPT !.number = n]
           b == Signed(t, n, c)
           len == t.epochLength
           cp == n - MinerHistoryCheckLen(t)
<1>1. n \in Nat /\ n \in 0..n /\ n \in 0..MaxBlock /\ HeaderOK(c[n], n)
  BY BoundAssumption
<1>2. SnapshotOK(b) /\ SameTurns(t, b)
  BY <1>1, SignedFields
<1>3. a = IF Switches(b, n, len) THEN SwitchValidators(b, n, len, c) ELSE b
  BY DEF ApplyHeader, Signed
<1>4. (Switches(b, n, len) <=> Switches(t, n, len)) /\ MinerHistoryCheckLen(b) = MinerHistoryCheckLen(t)
  BY <1>2, SwitchesSame
<1>5. SnapshotOK(a) /\ a.epochLength = NextEpochLength(len, n)
  BY ApplyStep
<1>6. SwitchedTo(b, SwitchValidators(b, n, len, c), n, len, c)
  BY <1>2, SwitchRest
<1> HIDE DEF a, b
<1>7. SnapshotOK(u) /\ Twin(a, u)
  BY <1>1, <1>5, NumberTwin DEF Twin
<1> HIDE DEF u
<1>8. u.epochLength = NextEpochLength(len, n)
  BY <1>5, <1>7 DEF Twin
<1>9. CASE Switches(t, n, len)
  <2>1. SwitchedTo(b, a, n, len, c)
    BY <1>3, <1>4, <1>6, <1>9
  <2>2. /\ a.validators = c[cp].validators
        /\ a.turnLength = IF cp % len = 0 /\ IsBohr(cp) THEN c[cp].turnLength ELSE t.turnLength
        /\ a.epochKey = IF IsBohr(n) THEN n \div len ELSE t.epochKey
    BY <1>2, <1>4, <2>1, Zenon DEF SwitchedTo, SameTurns
  <2>3. u.validators = a.validators /\ u.turnLength = a.turnLength /\ u.epochKey = a.epochKey
    BY <1>7 DEF Twin
  <2> HIDE DEF cp, len
  <2> QED BY <1>7, <1>8, <1>9, <2>2, <2>3 DEF u, a, cp, len
<1>10. CASE ~Switches(t, n, len)
  <2>1. u.validators = t.validators /\ u.turnLength = t.turnLength /\ u.epochKey = t.epochKey
    BY <1>2, <1>3, <1>4, <1>7, <1>10 DEF Twin, SameTurns
  <2> QED BY <1>7, <1>8, <1>10, <2>1 DEF u, a
<1> QED BY <1>9, <1>10

\* InstalledAt looks at no header after block n.
LEMMA InstalledLocal ==
  ASSUME NEW n \in Nat, NEW t, NEW c, NEW d, \A k \in 0..n : d[k] = c[k], InstalledAt(t, n, c)
  PROVE  InstalledAt(t, n, d)
<1> DEFINE L == DefaultEpochLength
           e == n - (n % L)
<1>1. L \in Nat \ {0}
  BY LengthAssumption
<1>2. e \in 0..n /\ (e > 0 => e - L \in 0..n)
  BY <1>1, NewestMultiples
<1>3. d[e] = c[e] /\ (e > 0 => d[e - L] = c[e - L])
  <2> HIDE DEF e
  <2> QED BY <1>2
<1>4. (Has(t, e, c) <=> Has(t, e, d)) /\ (e > 0 => (Has(t, e - L, c) <=> Has(t, e - L, d)))
  BY <1>3 DEF Has, TurnOf
<1> QED BY <1>4 DEF InstalledAt

\* One header keeps it.
LEMMA InstalledNext ==
  ASSUME TrustFits, NEW p \in Nat, p + 1 \in 1..MaxBlock, NEW c, ListsFit(c, p + 1),
         NEW t, SnapshotOK(t), CanApply(t, p + 1, c), InstalledAt(t, p, c)
  PROVE  InstalledAt([ApplyHeader(t, p + 1, c) EXCEPT !.number = p + 1], p + 1, c)
<1> DEFINE L == DefaultEpochLength
           n == p + 1
           e == p - (p % L)
           f == n - (n % L)
           M == MinerHistoryCheckLen(t)
           u == [ApplyHeader(t, n, c) EXCEPT !.number = n]
<1>0. L \in Nat \ {0} /\ n \in Nat /\ n \in 1..MaxBlock /\ n > p /\ t.epochLength = L
  BY LengthAssumption DEF InstalledAt
<1>1. \A k \in 0..n : HeaderOK(c[k], k)
  BY Zenon DEF ListsFit
<1>2. /\ SnapshotOK(u) /\ u.epochLength = NextEpochLength(L, n)
      /\ Switches(t, n, L) => /\ u.validators = c[n - M].validators
                              /\ u.turnLength = IF (n - M) % L = 0 /\ IsBohr(n - M) THEN c[n - M].turnLength ELSE t.turnLength
                              /\ u.epochKey = IF IsBohr(n) THEN n \div L ELSE t.epochKey
      /\ ~Switches(t, n, L) => u.validators = t.validators /\ u.turnLength = t.turnLength /\ u.epochKey = t.epochKey
  <2> HIDE DEF n
  <2> QED BY <1>0, <1>1, ApplySwitch DEF n
<1> HIDE DEF u
<1>3. u.epochLength = L
  <2>1. ~IsLorentz(n) /\ ~IsMaxwell(n)
    BY <1>0, BoundAssumption, ForkAssumption DEF TrustFits, IsLorentz, IsMaxwell
  <2> QED BY <1>2, <2>1, Zenon DEF NextEpochLength
<1>4. p % L \in 0..(L - 1) /\ n % L \in 0..(L - 1) /\ p \div L \in Nat /\ n \div L \in Nat
  BY <1>0, DivMod, Zenon
<1>5. IF p % L = L - 1
      THEN n % L = 0 /\ n \div L = (p \div L) + 1
      ELSE n % L = (p % L) + 1 /\ n \div L = p \div L
  BY <1>0, NextBlock, Zenon
<1>6. e \in 0..p /\ e % L = 0 /\ (e > 0 => e - L \in 0..p /\ (e - L) % L = 0)
  BY <1>0, NewestMultiples, EpochStart
<1>7. /\ ~IsBohr(p) => t.epochKey = NoEpochKey
      /\ t.epochKey <= p \div L
      /\ \/ Has(t, e, c) /\ (p % L = 0 => e = 0)
         \/ e > 0 /\ p % L < M /\ Has(t, e - L, c) /\ t.epochKey # p \div L
  BY DEF InstalledAt
<1>8. M \in Nat /\ M > 0 /\ M < L
  <2>1. M \in Nat
    BY CheckLenNat
  <2>2. PICK j \in 0..n : j % L = 0 /\ Has(t, j, c)
    <3> HIDE DEF e, n, L
    <3>1. \A j \in 0..p : j \in 0..n
      BY <1>0
    <3> QED BY <1>6, <1>7, <3>1
  <2>3. M > 0 /\ M < L
    <3> HIDE DEF n
    <3> QED BY <1>0, <2>2, HasFits DEF n
  <2> QED BY <2>1, <2>3
<1>9. Switches(t, n, L) <=> n % L = M /\ ~(IsBohr(n) /\ t.epochKey = n \div L)
  BY <1>0 DEF Switches
<1>10. t.epochKey \in Int /\ u.epochKey \in Int /\ MinerHistoryCheckLen(u) \in Nat
  BY <1>2, CheckLenNat DEF SnapshotOK, Snapshots
<1>11. IsBohr(p) => IsBohr(n)
  BY <1>0, ForkAssumption DEF IsBohr
<1>12. ~Switches(t, n, L) => MinerHistoryCheckLen(u) = M /\ \A j : Has(t, j, c) => Has(u, j, c)
  BY <1>2, Zenon DEF MinerHistoryCheckLen, Has
<1> HIDE DEF M
<1>13. u.epochKey <= n \div L
  <2> DEFINE pq == p \div L
             nq == n \div L
  <2>1. pq \in Nat /\ nq \in Nat /\ pq <= nq /\ t.epochKey <= pq
    BY <1>4, <1>5, <1>7
  <2>2. u.epochKey = t.epochKey \/ u.epochKey = nq
    BY <1>2
  <2> HIDE DEF pq, nq
  <2>3. u.epochKey <= nq
    BY <1>10, <2>1, <2>2
  <2> QED BY <2>3 DEF nq
<1>14. ~IsBohr(n) => u.epochKey = NoEpochKey
  BY <1>2, <1>7, <1>11
<1> SUFFICES \/ Has(u, f, c) /\ (n % L = 0 => f = 0)
             \/ f > 0 /\ n % L < MinerHistoryCheckLen(u) /\ Has(u, f - L, c) /\ u.epochKey # n \div L
  BY <1>3, <1>13, <1>14 DEF InstalledAt, u
<1>15. CASE Switches(t, n, L)
  <2>1. n % L = M /\ n - M = f /\ n % L # 0
    BY <1>8, <1>9, <1>15
  <2>2. n % L = (p % L) + 1 /\ n \div L = p \div L
    BY <1>5, <2>1
  <2>3. f = e
    BY <1>4, <2>2
  <2>4. u.validators = c[f].validators /\ u.turnLength = IF IsBohr(f) THEN c[f].turnLength ELSE t.turnLength
    BY <1>2, <1>6, <1>15, <2>1, <2>3, Zenon
  <2>5. ~IsBohr(f) => t.turnLength = DefaultTurnLength
    <3>1. ~IsBohr(e) => ~IsBohr(e - L)
      BY <1>0, <1>6, ForkAssumption DEF IsBohr
    <3> QED BY <1>7, <2>3, <3>1, Zenon DEF Has, TurnOf
  <2>6. Has(u, f, c)
    BY <2>4, <2>5 DEF Has, TurnOf
  <2> QED BY <2>1, <2>6
<1>16. CASE ~Switches(t, n, L) /\ p % L = L - 1
  <2>1. n % L = 0 /\ n \div L = (p \div L) + 1
    BY <1>5, <1>16
  <2>2. Has(t, e, c)
    <3>1. ~(p % L < M)
      BY <1>0, <1>4, <1>8, <1>16
    <3> QED BY <1>7, <3>1
  <2>3. f = n /\ f > 0 /\ f - L = e
    <3>1. f = n - 0 /\ e = p - (L - 1)
      BY <1>16, <2>1, Zenon
    <3> HIDE DEF f, e
    <3> QED BY <1>0, <3>1
  <2>4. u.epochKey # n \div L
    <3> DEFINE pq == p \div L
               nq == n \div L
    <3>1. u.epochKey = t.epochKey /\ t.epochKey <= pq /\ pq \in Nat /\ nq = pq + 1
      BY <1>2, <1>4, <1>7, <1>16, <2>1, Zenon
    <3> HIDE DEF pq, nq
    <3>2. u.epochKey # nq
      BY <1>10, <3>1
    <3> QED BY <3>2 DEF nq
  <2>5. n % L < MinerHistoryCheckLen(u)
    BY <1>8, <1>12, <1>16, <2>1
  <2>6. Has(u, e, c)
    BY <1>12, <1>16, <2>2
  <2> QED BY <2>3, <2>4, <2>5, <2>6
<1>17. CASE ~Switches(t, n, L) /\ p % L # L - 1
  <2>1. n % L = (p % L) + 1 /\ n \div L = p \div L
    BY <1>5, <1>17
  <2>2. f = e /\ n % L # 0
    BY <1>0, <1>4, <2>1
  <2>3. u.epochKey = t.epochKey /\ MinerHistoryCheckLen(u) = M
    BY <1>2, <1>12, <1>17, Zenon
  <2>4. CASE Has(t, e, c)
    BY <1>12, <1>17, <2>2, <2>4
  <2>5. CASE e > 0 /\ p % L < M /\ Has(t, e - L, c) /\ t.epochKey # p \div L
    <3>1. n % L # M
      BY <1>9, <1>17, <2>1, <2>5
    <3>2. n % L < M
      BY <1>4, <1>8, <2>1, <2>5, <3>1
    <3>3. Has(u, f - L, c)
      BY <1>12, <1>17, <2>2, <2>5
    <3> QED BY <2>1, <2>2, <2>3, <2>5, <3>2, <3>3
  <2> QED BY <1>7, <2>4, <2>5
<1> QED BY <1>15, <1>16, <1>17

\* Division is monotone.
LEMMA DivMonotone ==
  ASSUME NEW len \in Nat \ {0}, NEW k \in Nat, NEW m \in Nat, k <= m
  PROVE  k \div len <= m \div len
<1> DEFINE kq == k \div len
           kr == k % len
           mq == m \div len
           mr == m % len
<1>1. kq \in Nat /\ kr \in 0..(len - 1) /\ k = len * kq + kr
  BY DivMod, Zenon
<1>2. mq \in Nat /\ mr \in 0..(len - 1) /\ m = len * mq + mr
  BY DivMod, Zenon
<1> HIDE DEF kq, kr, mq, mr
<1>3. ASSUME kq > mq PROVE FALSE
  <2>1. kq - mq \in Int /\ kq - mq # 0 /\ kq - mq > 0
    BY <1>1, <1>2, <1>3
  <2>2. len * (kq - mq) >= len \/ len * (kq - mq) <= -len
    BY <2>1, MultipleApart
  <2>3. len * (kq - mq) = (m - mr) * (-1) + (k - kr)
    BY <1>1, <1>2
  <2>4. len * (kq - mq) > 0
    BY <2>1
  <2> QED BY <1>1, <1>2, <2>2, <2>3, <2>4
<1>4. kq <= mq
  BY <1>1, <1>2, <1>3
<1> QED BY <1>4 DEF kq, mq

\* The distance of trusted blocks is a multiple of the epoch length.
LEMMA TrustedAligned ==
  ASSUME TrustFits, NEW k \in Nat, k % MaxwellEpochLength = Offset
  PROVE  LET L == DefaultEpochLength
         IN  /\ k - Offset \in 0..k /\ (k - Offset) % L = 0
             /\ IF Offset < L THEN k % L = Offset /\ k - (k % L) = k - Offset
                ELSE Offset = L /\ k % L = 0
<1> DEFINE L == DefaultEpochLength
           M == MaxwellEpochLength
           q == k \div M
           j == M \div L
<1>0. L \in Nat \ {0} /\ M \in Nat \ {0} /\ Offset \in Nat \ {0} /\ Offset <= L /\ M % L = 0
  BY LengthAssumption, StoreAssumption DEF TrustFits
<1>1. q \in Nat /\ k = M * q + Offset
  BY <1>0, DivMod
<1>2. j \in Nat /\ M = L * j
  <2>1. j \in Nat /\ M = L * j + (M % L)
    BY <1>0, DivMod
  <2> HIDE DEF j
  <2> QED BY <1>0, <2>1
<1> DEFINE b == j * q
<1> HIDE DEF L, M, q, j
<1>3. b \in Nat /\ M * q = L * b
  BY <1>0, <1>1, <1>2
<1> HIDE DEF b
<1>4. L * b \in Nat /\ k = L * b + Offset /\ k - Offset = L * b
  BY <1>0, <1>1, <1>3
<1>5. k - Offset \in 0..k
  BY <1>0, <1>4
<1>9. \A i \in Nat : \A x \in Nat : \A y \in 0..(L - 1) : i = L * x + y => i % L = y
  <2> SUFFICES ASSUME NEW i \in Nat, NEW x \in Nat, NEW y \in 0..(L - 1), i = L * x + y
               PROVE  i % L = y
    OBVIOUS
  <2>1. L \in Nat \ {0}
    BY <1>0
  <2> QED BY <2>1, DivUnique
<1>10. b \in Nat /\ L * b \in Nat /\ k = L * b + Offset
  BY <1>3, <1>4
<1>6. (k - Offset) % L = 0
  <2>1. L * b = L * b + 0 /\ 0 \in 0..(L - 1)
    BY <1>0, <1>4
  <2>2. (L * b) % L = 0
    BY <1>9, <1>10, <2>1, Zenon
  <2> QED BY <1>4, <2>2
<1>7. CASE Offset < L
  <2>1. Offset \in 0..(L - 1)
    BY <1>0, <1>7
  <2>2. k % L = Offset
    BY <1>9, <1>10, <2>1, Zenon
  <2>3. k - (k % L) = k - Offset
    BY <2>2
  <2> QED BY <1>5, <1>6, <1>7, <2>2, <2>3 DEF L
<1>8. CASE ~(Offset < L)
  <2>1. Offset = L
    BY <1>0, <1>8
  <2>2. b + 1 \in Nat /\ 0 \in 0..(L - 1) /\ k = L * (b + 1) + 0
    BY <1>0, <1>3, <1>4, <2>1
  <2>3. k % L = 0
    BY <1>9, <2>2, Zenon
  <2> QED BY <1>5, <1>6, <1>8, <2>1, <2>3 DEF L
<1> QED BY <1>7, <1>8

\* Its epoch has the default length.
LEMMA TrustedLength ==
  ASSUME TrustFits, NEW k \in 1..MaxBlock
  PROVE  EpochLengthAt(k) = DefaultEpochLength
<1>0. k \in Nat /\ k > 0 /\ k <= MaxBlock /\ MaxBlock \in Nat /\ Offset \in Nat \ {0}
  BY BoundAssumption, StoreAssumption
<1>1. k > Offset => ~IsMaxwell(k - Offset - 1) /\ ~IsLorentz(k - Offset - 1)
  BY <1>0, ForkAssumption DEF TrustFits, IsMaxwell, IsLorentz
<1> QED BY <1>0, <1>1 DEF EpochLengthAt

\* The snapshot made from a trusted epoch block is a copy of the real one that
\* knows no recent signers.
LEMMA TrustedCopy ==
  ASSUME TrustFits, NEW k \in 1..MaxBlock, k % MaxwellEpochLength = Offset, ListsFit(chain, k),
         NEW t, SnapshotOK(t), ~t.isSnake8, InstalledAt(t, k, chain)
  PROVE  /\ Copy(TrustedSnapshot(k, FALSE), t, k, FALSE)
         /\ TrustedSnapshot(k, FALSE).number = k
<1> DEFINE L == DefaultEpochLength
           cp == k - Offset
           e == k - (k % L)
           M == MinerHistoryCheckLen(t)
           s == TrustedSnapshot(k, FALSE)
<1>0. k \in Nat /\ k > 0 /\ k <= MaxBlock /\ MaxBlock \in Nat /\ Offset \in Nat \ {0} /\ L \in Nat \ {0}
  BY BoundAssumption, StoreAssumption, LengthAssumption
<1>1. /\ cp \in 0..k /\ cp % L = 0
      /\ IF Offset < L THEN k % L = Offset /\ e = cp ELSE Offset = L /\ k % L = 0
  BY <1>0, TrustedAligned
<1>2. EpochLengthAt(k) = L
  BY TrustedLength
<1>3. /\ t.epochLength = L /\ t.epochKey \in Int
      /\ ~IsBohr(k) => t.epochKey = NoEpochKey
      /\ t.epochKey <= k \div L
      /\ \/ Has(t, e, chain) /\ (k % L = 0 => e = 0)
         \/ e > 0 /\ k % L < M /\ Has(t, e - L, chain) /\ t.epochKey # k \div L
  BY DEF InstalledAt, SnapshotOK, Snapshots
<1>4. e \in 0..k /\ e % L = 0 /\ (e > 0 => e - L \in 0..k /\ (e - L) % L = 0)
  BY <1>0, NewestMultiples, EpochStart, Zenon
<1>5. M \in Nat /\ M > 0 /\ M <= Offset
  <2>1. PICK j \in 0..k : j % L = 0 /\ Has(t, j, chain)
    <3> HIDE DEF e, L
    <3> QED BY <1>3, <1>4
  <2>2. M > 0 /\ M <= Offset
    BY <1>0, <2>1, HasFits
  <2> QED BY <2>2, CheckLenNat
<1> HIDE DEF M
<1>6. Has(t, cp, chain) /\ (t.epochKey = k \div L => Offset < L)
  <2>1. CASE Offset < L
    <3>1. ~(k % L < M)
      BY <1>0, <1>1, <1>5, <2>1
    <3> QED BY <1>1, <1>3, <2>1, <3>1
  <2>2. CASE ~(Offset < L)
    <3>1. Offset = L /\ k % L = 0
      BY <1>1, <2>2
    <3>2. e = k /\ e # 0
      BY <1>0, <3>1
    <3>3. e - L = cp
      BY <3>1, <3>2
    <3> QED BY <1>3, <3>1, <3>2, <3>3
  <2> QED BY <2>1, <2>2
<1>7. t.validators \in Lists /\ t.turnLength \in Nat \ {0}
  BY DEF SnapshotOK, Snapshots
<1>8. s = [NewSnapshot(k, chain[cp].validators, FALSE)
             EXCEPT !.epochLength = L, !.turnLength = IF IsBohr(cp) THEN chain[cp].turnLength ELSE DefaultTurnLength]
  BY <1>1, <1>2 DEF TrustedSnapshot, NewSnapshot
<1>9. s = [NewSnapshot(k, t.validators, FALSE) EXCEPT !.epochLength = L, !.turnLength = t.turnLength]
  BY <1>6, <1>8, Zenon DEF Has, TurnOf
<1> HIDE DEF s
<1>10. /\ s.number = k /\ s.epochLength = L /\ s.turnLength = t.turnLength /\ s.validators = t.validators
       /\ s.recents = [i \in {} |-> 0] /\ s.forkBlocks = {} /\ s.epochKey = NoEpochKey
       /\ s.attestation = NoAttestation /\ s.isSnake8 = FALSE /\ s \in Snapshots(s.recents)
  <2> DEFINE v == t.validators
             tl == t.turnLength
             r == [i \in {} |-> 0]
             att == NoAttestation
  <2>1. s = [number |-> k, epochLength |-> L, turnLength |-> tl, validators |-> v, recents |-> r,
             forkBlocks |-> {}, epochKey |-> NoEpochKey, attestation |-> att, isSnake8 |-> FALSE]
    BY <1>9, Zenon DEF NewSnapshot
  <2>2. k \in 0..MaxBlock /\ NoEpochKey \in Int /\ att \in [source : Nat, target : Nat]
    BY <1>0 DEF NoEpochKey, NoAttestation
  <2> HIDE DEF v, tl, r, att
  <2>3. s \in Snapshots(r)
    BY <1>7, <2>1, <2>2 DEF Snapshots, v, tl
  <2>4. /\ s.number = k /\ s.epochLength = L /\ s.turnLength = tl /\ s.validators = v /\ s.recents = r
        /\ s.forkBlocks = {} /\ s.epochKey = NoEpochKey /\ s.attestation = att /\ s.isSnake8 = FALSE
    BY <2>1
  <2> QED BY <2>3, <2>4 DEF v, tl, r, att
<1>11. SnapshotOK(s) /\ Forgets(s, t)
  BY <1>10 DEF SnapshotOK, Forgets
<1>12. Alike(s, t)
  BY <1>3, <1>10, <1>11, Zenon DEF Alike
<1>13. ASSUME NEW m \in Nat, m > k, m % L = M
       PROVE  m \div L # NoEpochKey /\ m \div L # t.epochKey
  <2> DEFINE mq == m \div L
             kq == k \div L
  <2>0. k <= m
    BY <1>0, <1>13
  <2>1. mq \in Nat /\ kq \in Nat /\ kq <= mq
    BY <1>0, <1>13, <2>0, DivMod, DivMonotone, Zenon
  <2>2. m = L * mq + M /\ k = L * kq + (k % L)
    BY <1>0, <1>13, DivMod
  <2>3. t.epochKey <= kq /\ t.epochKey \in Int /\ (t.epochKey = kq => Offset < L)
    BY <1>3, <1>6
  <2>4. Offset < L => k % L = Offset
    BY <1>1
  <2> HIDE DEF mq, kq
  <2>5. mq # NoEpochKey
    BY <2>1 DEF NoEpochKey
  <2>6. ASSUME mq = t.epochKey PROVE FALSE
    <3>1. mq = kq /\ Offset < L
      BY <2>1, <2>3, <2>6
    <3>2. k % L = Offset
      BY <2>4, <3>1
    <3>3. L * mq = m - M /\ L * mq = k - Offset
      <4>1. L * mq \in Nat
        BY <1>0, <2>1
      <4>2. k = L * mq + Offset
        BY <2>2, <3>1, <3>2
      <4> QED BY <1>0, <1>5, <2>2, <4>1, <4>2
    <3>4. m = k - Offset + M
      BY <1>0, <1>5, <3>3
    <3> QED BY <1>0, <1>5, <1>13, <3>4
  <2> QED BY <2>5, <2>6 DEF mq
<1>14. KeysAgree(s, t, k)
  <2>1. CASE s.epochKey = t.epochKey
    BY <2>1 DEF KeysAgree
  <2>2. CASE s.epochKey # t.epochKey
    <3>1. IsBohr(k)
      BY <1>3, <1>10, <2>2, Zenon
    <3> QED BY <1>3, <1>10, <1>13, <3>1 DEF KeysAgree, SwitchPoint, M
  <2> QED BY <2>1, <2>2
<1>15. Copy(s, t, k, FALSE)
  BY <1>11, <1>12, <1>14 DEF Copy
<1> QED BY <1>10, <1>15, Zenon DEF s
----------------------------------------------------------------------------
(* The store                                                               *)

\* s may answer for block n.
CopyAt(s, n) == n \in 0..snap.number /\ s.number = n /\ Copy(s, refs[n], n, ~trusted)

\* Either the chain is too short for trusted blocks, or trust is harmless.
TrustIsSound == FullImmutabilityThreshold >= MaxBlock \/ TrustFits

StoreInv ==
  /\ RefsInv
  /\ TrustFits => \A m \in 0..snap.number : InstalledAt(refs[m], m, chain)
  /\ \A n \in DOMAIN cache : CopyAt(cache[n], n)
  /\ \A n \in DOMAIN disk : CopyAt(disk[n], n)
  /\ ~failed
  /\ trusted \in BOOLEAN /\ (trusted => TrustFits)

\* What the imports guarantee, for every trusted block.
ImportsInv ==
  /\ AppliedInv
  /\ TrustFits => ListsFit(chain, snap.number)

LEMMA ImportsInvariant == StoreSpec => []ImportsInv
<1>1. StoreSpec => Spec
  <2>1. StoreInit => Init
    BY DEF StoreInit
  <2>2. [StoreNext]_storeVars => [Next]_vars
    BY Zenon DEF StoreNext, storeVars, Grow, Snapshot, Restart
  <2> QED BY <2>1, <2>2, PTL DEF StoreSpec, Spec
<1>2. CASE TrustFits
  <2>1. LorentzAt > MaxBlock /\ MaxwellAt > MaxBlock
    BY <1>2 DEF TrustFits
  <2>2. Spec => []OneLengthInv
    BY <2>1, OneLengthInvariant
  <2>3. OneLengthInv /\ TurnInv => ImportsInv
    <3> SUFFICES ASSUME OneLengthInv, TurnInv PROVE ImportsInv
      OBVIOUS
    <3>1. AppliedInv /\ DOMAIN chain = 0..snap.number /\ \A k \in DOMAIN chain : HeaderOK(chain[k], k)
      BY Zenon DEF OneLengthInv, AppliedInv, WindowInv, TypeOK
    <3>2. ListsFit(chain, snap.number)
      BY <3>1 DEF OneLengthInv, TurnInv, ListsFit
    <3> QED BY <3>1, <3>2 DEF ImportsInv
  <2> QED BY <1>1, <2>2, <2>3, TurnInvariant, PTL
<1>3. CASE ~TrustFits
  <2>1. AppliedInv => ImportsInv
    BY <1>3 DEF ImportsInv
  <2> QED BY <1>1, <2>1, AppliedInvariant, PTL
<1> QED BY <1>2, <1>3

\* A snapshot is a copy of itself.
LEMMA SelfCopy ==
  ASSUME NEW t, SnapshotOK(t), ~t.isSnake8, NEW n, NEW exact
  PROVE  Copy(t, t, n, exact)
BY DEF Copy, Alike, Forgets, KeysAgree, SameRest

\* What Cached leaves in memory.
LEMMA CachedEntries ==
  ASSUME NEW f, NEW n, NEW s, NEW g \in Cached(f, n, s), NEW m \in DOMAIN g
  PROVE  (m = n /\ g[m] = s) \/ (m \in DOMAIN f /\ g[m] = f[m])
<1> DEFINE h == Put(f, n, s)
<1>1. g = h \/ \E k \in DOMAIN h : g = Drop(h, {k})
  BY DEF Cached
<1>2. DOMAIN h = DOMAIN f \cup {n} /\ \A j \in DOMAIN h : h[j] = IF j = n THEN s ELSE f[j]
  BY DEF Put
<1> HIDE DEF h
<1>3. m \in DOMAIN h /\ g[m] = h[m]
  BY <1>1, Zenon DEF Drop, Restrict
<1> QED BY <1>2, <1>3, Zenon

\* snapshot() stops at the newest block where it finds something.
LEMMA SourceFound ==
  ASSUME NEW n \in Nat
  PROVE  Max(Sources(n)) \in Sources(n) /\ Max(Sources(n)) \in 0..n
<1> DEFINE S == Sources(n)
           D == {n - x : x \in S}
<1>1. S \subseteq 0..n /\ 0 \in S
  BY DEF Sources
<1> HIDE DEF S
<1>2. D \subseteq Nat /\ D # {}
  BY <1>1
<1>3. PICK d \in D : \A y \in D : d <= y
  <2> HIDE DEF D
  <2> QED BY <1>2, LeastOf, Zenon
<1>4. PICK m \in S : d = n - m
  OBVIOUS
<1>5. \A x \in S : x <= m
  <2> SUFFICES ASSUME NEW x \in S PROVE x <= m
    OBVIOUS
  <2>1. n - x \in D
    OBVIOUS
  <2>2. d <= n - x
    BY <1>3, <2>1
  <2> QED BY <1>1, <1>4, <2>2
<1>6. S \in SUBSET Nat
  BY <1>1
<1>7. Max(S) = m
  BY <1>5, <1>6, MaxIs
<1> QED BY <1>1, <1>7 DEF S

\* The chain is no longer than the head, and the head no higher than MaxBlock.
LEMMA HeadBounds ==
  ASSUME WindowInv
  PROVE  snap.number \in Nat /\ snap.number \in 0..MaxBlock /\ MaxBlock \in Nat
BY BoundAssumption DEF WindowInv, TypeOK, SnapshotOK, Snapshots

\* A snapshot before Snake8 is not changed by writing what it has.
LEMMA SetNothing ==
  ASSUME NEW s, SnapshotOK(s), ~s.isSnake8
  PROVE  /\ [s EXCEPT !.isSnake8 = FALSE, !.turnLength = s.turnLength] = s
         /\ [s EXCEPT !.turnLength = s.turnLength] = s
<1>1. s \in Snapshots(s.recents) /\ s.isSnake8 = FALSE
  BY DEF SnapshotOK, Snapshots
<1> QED BY <1>1, Zenon DEF Snapshots

\* Where snapshot() starts its batch, it has a copy.
LEMMA FoundCopy ==
  ASSUME Snake8At > MaxBlock, TrustIsSound, ImportsInv, StoreInv,
         NEW n \in 0..snap.number, NEW k \in Sources(n), k \in 0..n
  PROVE  LET s     == [Found(k, n, FALSE) EXCEPT !.isSnake8 = FALSE]
             made  == k \notin DOMAIN cache /\ ~OnDisk(k)
             trust == made /\ k # 0
         IN  /\ s.number = k /\ Copy(s, refs[k], k, ~(trusted \/ trust))
             /\ trusted \/ trust => TrustFits
             /\ trust => HasList(k)
<1> DEFINE made  == k \notin DOMAIN cache /\ ~OnDisk(k)
           trust == made /\ k # 0
           x == Found(k, n, FALSE)
           Fine(s) == s.number = k /\ Copy(s, refs[k], k, ~(trusted \/ trust))
<1>0. WindowInv /\ snap.number \in Nat /\ snap.number <= MaxBlock /\ MaxBlock \in Nat
  <2>1. WindowInv
    BY DEF ImportsInv, AppliedInv
  <2>2. snap.number \in Nat /\ snap.number \in 0..MaxBlock /\ MaxBlock \in Nat
    BY <2>1, HeadBounds
  <2> QED BY <2>1, <2>2
<1>1. k \in 0..snap.number /\ k \in 0..MaxBlock /\ k \in Nat /\ n \in Nat /\ n <= MaxBlock
  BY <1>0
<1>2. RefOK(refs[k], k)
  BY <1>1 DEF StoreInv, RefsInv
<1>3. trusted => TrustFits
  BY DEF StoreInv
<1>4. ASSUME NEW s, CopyAt(s, k), ~trust PROVE SnapshotOK(s) /\ ~s.isSnake8 /\ Fine(s)
  BY <1>4 DEF CopyAt, Copy, Alike
<1>5. CASE k \in DOMAIN cache
  <2>1. x = cache[k] /\ ~trust /\ CopyAt(cache[k], k)
    BY <1>5, Zenon DEF Found, StoreInv
  <2> QED BY <1>3, <1>4, <2>1, FlagStaysOff, Zenon
<1>6. CASE k \notin DOMAIN cache /\ OnDisk(k)
  <2>1. x = LoadSnapshot(k, FALSE) /\ ~trust /\ CopyAt(disk[k], k)
    BY <1>6, Zenon DEF Found, StoreInv, OnDisk
  <2>2. LoadSnapshot(k, FALSE) = [disk[k] EXCEPT !.isSnake8 = FALSE, !.turnLength = disk[k].turnLength]
    BY DEF LoadSnapshot
  <2>3. SnapshotOK(disk[k]) /\ ~disk[k].isSnake8 /\ Fine(disk[k])
    BY <1>4, <2>1
  <2>4. x = disk[k]
    BY <2>1, <2>2, <2>3, SetNothing, Zenon
  <2> QED BY <1>3, <2>1, <2>3, <2>4, FlagStaysOff, Zenon
<1>7. CASE k \notin DOMAIN cache /\ ~OnDisk(k) /\ k = 0
  <2>1. x = refs[0] /\ ~trust
    BY <1>7 DEF Found, StoreInv, RefsInv
  <2>2. SnapshotOK(x) /\ ~x.isSnake8 /\ x.number = k /\ x = refs[k]
    BY <1>2, <1>7, <2>1, Zenon DEF RefOK
  <2>3. Copy(x, x, k, ~(trusted \/ trust))
    BY <2>2, SelfCopy, Zenon
  <2> QED BY <1>3, <2>1, <2>2, <2>3, FlagStaysOff, Zenon
<1>8. CASE k \notin DOMAIN cache /\ ~OnDisk(k) /\ k # 0
  <2>1. x = TrustedSnapshot(k, FALSE) /\ trust /\ Trusted(k, n)
    BY <1>8 DEF Found, Sources
  <2>2. k % MaxwellEpochLength = Offset /\ n - k > FullImmutabilityThreshold /\ k \in 1..MaxBlock
    BY <1>1, <2>1 DEF Trusted
  <2>3. TrustFits
    <3>1. ~(FullImmutabilityThreshold >= MaxBlock)
      BY <1>0, <1>1, <2>2, StoreAssumption
    <3> QED BY <3>1 DEF TrustIsSound
  <2>4. InstalledAt(refs[k], k, chain)
    BY <1>1, <2>3 DEF StoreInv
  <2>5. ListsFit(chain, k)
    <3>1. ListsFit(chain, snap.number) /\ \A j \in 0..k : j \in 0..snap.number
      BY <1>0, <1>1, <2>3 DEF ImportsInv
    <3> QED BY <3>1 DEF ListsFit
  <2>6. Copy(x, refs[k], k, FALSE) /\ x.number = k
    BY <1>2, <2>1, <2>2, <2>3, <2>4, <2>5, TrustedCopy, Zenon DEF RefOK
  <2>7. SnapshotOK(x) /\ ~x.isSnake8
    BY <2>6, Zenon DEF Copy, Alike
  <2>8. [x EXCEPT !.isSnake8 = FALSE] = x
    BY <2>7, FlagStaysOff, Zenon
  <2>9. Copy(x, refs[k], k, ~(trusted \/ trust))
    BY <2>1, <2>6, Zenon DEF Copy
  <2>10. HasList(k)
    <3> DEFINE cp == k - Offset
    <3>1. cp \in 0..k /\ cp % DefaultEpochLength = 0
      BY <1>1, <2>2, <2>3, TrustedAligned
    <3>2. chain[cp].validators # {}
      BY <2>5, <3>1 DEF ListsFit
    <3>3. EpochLengthAt(k) = DefaultEpochLength
      BY <1>1, <2>2, <2>3, TrustedLength
    <3> QED BY <3>1, <3>2, <3>3, Zenon DEF HasList
  <2> QED BY <2>3, <2>6, <2>8, <2>9, <2>10, Zenon
<1> QED BY <1>5, <1>6, <1>7, <1>8, Zenon

\* A call of snapshot() keeps the invariant.
LEMMA SnapshotKeeps ==
  ASSUME Snake8At > MaxBlock, TrustIsSound, ImportsInv, StoreInv,
         NEW n \in 0..snap.number, Snapshot(n, FALSE)
  PROVE  StoreInv'
<1> DEFINE k     == Max(Sources(n))
           s     == [Found(k, n, FALSE) EXCEPT !.isSnake8 = FALSE]
           r     == Apply(s, k, n)
           t     == [r.snap EXCEPT !.turnLength = r.snap.turnLength]
           made  == k \notin DOMAIN cache /\ ~OnDisk(k)
           trust == made /\ k # 0
           found == trust => HasList(k)
           base  == IF k \in DOMAIN cache THEN Put(cache, k, s) ELSE cache
           saved == IF made /\ found THEN Put(disk, k, s) ELSE disk
           after == trusted \/ trust
<1>0. WindowInv /\ ~applyError /\ RefsInv /\ snap.number \in Nat /\ snap.number <= MaxBlock /\ n \in Nat
  <2>1. WindowInv /\ ~applyError /\ RefsInv
    BY DEF ImportsInv, AppliedInv, StoreInv
  <2>2. snap.number \in Nat /\ snap.number \in 0..MaxBlock /\ MaxBlock \in Nat
    BY <2>1, HeadBounds
  <2> QED BY <2>1, <2>2
<1>1. k \in Sources(n) /\ k \in 0..n
  BY <1>0, SourceFound
<1>3. s.number = k /\ Copy(s, refs[k], k, ~after) /\ (after => TrustFits) /\ found
  <2> HIDE DEF k
  <2> QED BY <1>1, FoundCopy, Zenon
<1>2. /\ failed' = ~r.ok /\ trusted' = after
      /\ cache' \in IF r.ok THEN Cached(base, n, t) ELSE {base}
      /\ disk' = saved \/ disk' = Put(saved, n, t)
      /\ UNCHANGED <<vars, refs>>
  BY <1>3 DEF Snapshot
<1> HIDE DEF k
<1> HIDE DEF s
<1>4. ~after \/ \A m \in 1..MaxBlock : ~IsMaxwell(m) /\ ~IsLorentz(m)
  BY <1>3, ForkAssumption, BoundAssumption DEF TrustFits, IsMaxwell, IsLorentz
<1>5. r.ok /\ Copy(r.snap, refs[n], n, ~after) /\ r.snap.number = n
  <2>1. (~after) \in BOOLEAN
    OBVIOUS
  <2> DEFINE exact == ~after
  <2>2. exact \in BOOLEAN /\ Copy(s, refs[k], k, exact)
    BY <1>3, <2>1, Zenon
  <2>3. exact \/ \A m \in 1..MaxBlock : ~IsMaxwell(m) /\ ~IsLorentz(m)
    BY <1>4, Zenon
  <2> HIDE DEF exact
  <2>4. r.ok /\ Copy(r.snap, refs[n], n, exact) /\ r.snap.number = n
    BY <1>0, <1>1, <2>2, <2>3, BatchCopies, SMTT(20)
  <2> QED BY <2>4, Zenon DEF exact
<1> HIDE DEF r
<1>6. t = r.snap
  BY <1>5, SetNothing, Zenon DEF Copy, Alike
<1> HIDE DEF t
<1>7. chain' = chain /\ snap' = snap /\ refs' = refs
  BY <1>2 DEF vars
<1> DEFINE New(u, m) == m \in 0..snap.number /\ u.number = m /\ Copy(u, refs[m], m, ~after)
<1>9. ASSUME NEW u, NEW m, CopyAt(u, m) PROVE New(u, m)
  BY <1>9 DEF CopyAt, Copy
<1>10. New(s, k) /\ New(t, n)
  <2>1. k \in 0..snap.number
    BY <1>0, <1>1
  <2> QED BY <1>3, <1>5, <1>6, <2>1
<1>11. (\A m \in DOMAIN cache : New(cache[m], m)) /\ (\A m \in DOMAIN disk : New(disk[m], m))
  BY <1>9, Zenon DEF StoreInv
<1> HIDE DEF New, made, trust, found, after
<1>12. \A m \in DOMAIN base : New(base[m], m)
  BY <1>10, <1>11 DEF Put
<1>13. \A m \in DOMAIN saved : New(saved[m], m)
  BY <1>10, <1>11 DEF Put
<1> HIDE DEF base, saved
<1>14. \A m \in DOMAIN cache' : New(cache'[m], m)
  <2>1. cache' \in Cached(base, n, t)
    BY <1>2, <1>5
  <2> SUFFICES ASSUME NEW m \in DOMAIN cache' PROVE New(cache'[m], m)
    OBVIOUS
  <2>2. (m = n /\ cache'[m] = t) \/ (m \in DOMAIN base /\ cache'[m] = base[m])
    BY <2>1, CachedEntries
  <2> QED BY <1>10, <1>12, <2>2
<1>15. \A m \in DOMAIN disk' : New(disk'[m], m)
  BY <1>2, <1>10, <1>13 DEF Put
<1>16. (\A m \in DOMAIN cache' : CopyAt(cache[m], m)') /\ (\A m \in DOMAIN disk' : CopyAt(disk[m], m)')
  BY <1>2, <1>7, <1>14, <1>15, Zenon DEF CopyAt, New
<1>17. RefsInv' /\ (TrustFits => \A m \in 0..snap'.number : InstalledAt(refs'[m], m, chain'))
  BY <1>7, Zenon DEF StoreInv, RefsInv
<1>18. ~failed' /\ trusted' \in BOOLEAN /\ (trusted' => TrustFits)
  BY <1>2, <1>3, <1>5, Zenon DEF after
<1> QED BY <1>16, <1>17, <1>18, Zenon DEF StoreInv

\* So does a longer chain.
LEMMA GrowKeeps ==
  ASSUME Snake8At > MaxBlock, ImportsInv, ImportsInv', StoreInv, Grow
  PROVE  StoreInv'
<1> DEFINE p == snap.number
<1>1. /\ RefsInv' /\ snap'.number = p + 1 /\ p \in Nat
      /\ \A m \in 0..p : refs'[m] = refs[m] /\ chain'[m] = chain[m]
  BY GrowRefs DEF ImportsInv, StoreInv
<1>2. UNCHANGED <<cache, disk, failed, trusted>>
  BY DEF Grow, store
<1>3. \A m \in 0..p : m \in 0..(p + 1)
  BY <1>1
<1>4. \A u, m : CopyAt(u, m) => (m \in 0..(p + 1) /\ u.number = m /\ Copy(u, refs'[m], m, ~trusted))
  BY <1>1, <1>3 DEF CopyAt
<1>5. /\ \A m \in DOMAIN cache' : CopyAt(cache[m], m)'
      /\ \A m \in DOMAIN disk' : CopyAt(disk[m], m)'
  <2>1. /\ \A m \in DOMAIN cache : m \in 0..(p + 1) /\ cache[m].number = m /\ Copy(cache[m], refs'[m], m, ~trusted)
        /\ \A m \in DOMAIN disk : m \in 0..(p + 1) /\ disk[m].number = m /\ Copy(disk[m], refs'[m], m, ~trusted)
    BY <1>4, Zenon DEF StoreInv
  <2> HIDE DEF p
  <2> QED BY <1>1, <1>2, <2>1 DEF CopyAt
<1>6. ASSUME TrustFits, NEW m \in 0..(p + 1) PROVE InstalledAt(refs'[m], m, chain')
  <2>1. CASE m \in 0..p
    <3>1. InstalledAt(refs[m], m, chain) /\ m \in Nat
      BY <1>6, <2>1 DEF StoreInv
    <3>2. \A j \in 0..m : chain'[j] = chain[j]
      <4>1. \A j \in 0..m : j \in 0..p
        BY <1>1, <2>1
      <4> QED BY <1>1, <4>1
    <3>3. InstalledAt(refs[m], m, chain')
      BY <3>1, <3>2, InstalledLocal
    <3> QED BY <1>1, <2>1, <3>3
  <2>2. CASE m = p + 1
    <3> DEFINE t == refs[p]
    <3>1. p \in 0..p /\ p + 1 \in 1..(p + 1) /\ p + 1 - 1 = p
      BY <1>1
    <3>2. InstalledAt(t, p, chain) /\ RefOK(t, p) /\ refs'[p] = t /\ chain'[p] = chain[p]
      BY <1>1, <1>6, <3>1, Zenon DEF StoreInv, RefsInv
    <3>3. ListsFit(chain', p + 1) /\ p + 1 \in 1..MaxBlock
      <4>1. WindowInv'
        BY DEF ImportsInv, AppliedInv
      <4>2. snap'.number \in 0..MaxBlock
        BY <4>1 DEF WindowInv, TypeOK, SnapshotOK, Snapshots
      <4> QED BY <1>1, <1>6, <4>2, BoundAssumption DEF ImportsInv
    <3>4. RefStep(refs', chain', p + 1)
      BY <1>1, <3>1 DEF RefsInv
    <3> HIDE DEF t
    <3>5. CanApply(t, p + 1, chain') /\ refs'[p + 1] = [ApplyHeader(t, p + 1, chain') EXCEPT !.number = p + 1]
      BY <3>1, <3>2, <3>4 DEF RefStep
    <3>6. InstalledAt(t, p, chain')
      BY <1>1, <3>2, InstalledLocal
    <3>7. InstalledAt([ApplyHeader(t, p + 1, chain') EXCEPT !.number = p + 1], p + 1, chain')
      <4>1. SnapshotOK(t)
        BY <3>2 DEF RefOK
      <4> HIDE DEF p
      <4> QED BY <1>1, <1>6, <3>3, <3>5, <3>6, <4>1, InstalledNext
    <3> QED BY <2>2, <3>5, <3>7
  <2> QED BY <1>1, <2>1, <2>2
<1> HIDE DEF p
<1>7. (~failed)' /\ (trusted \in BOOLEAN)' /\ (trusted => TrustFits)'
  BY <1>2 DEF StoreInv
<1> QED BY <1>1, <1>5, <1>6, <1>7, Zenon DEF StoreInv

\* StoreInv is inductive, on top of what the imports guarantee.
LEMMA StoreInvariant ==
  ASSUME Snake8At > MaxBlock, TrustIsSound
  PROVE  StoreSpec => []StoreInv
<1>1. StoreInit /\ ImportsInv => StoreInv
  <2> SUFFICES ASSUME StoreInit, ImportsInv PROVE StoreInv
    OBVIOUS
  <2>1. RefsInv
    BY InitRefs DEF ImportsInv, AppliedInv
  <2>2. snap.number = 0 /\ 0..0 = {0}
    BY DEF StoreInit, Init, NewSnapshot
  <2>3. ASSUME TrustFits PROVE InstalledAt(refs[0], 0, chain)
    <3> DEFINE L == DefaultEpochLength
    <3>0. L \in Nat \ {0}
      BY LengthAssumption
    <3>1. 0 % L = 0 /\ 0 \div L = 0
      <4> HIDE DEF L
      <4>1. 0 = L * 0 + 0 /\ 0 \in 0..(L - 1) /\ 0 \in Nat
        BY <3>0
      <4> QED BY <3>0, <4>1, DivUnique
    <3>2. refs[0] = NewSnapshot(0, chain[0].validators, FALSE) /\ chain[0].turnLength = DefaultTurnLength
      <4>1. refs[0] = NewSnapshot(0, chain[0].validators, FALSE)
        BY <2>1 DEF RefsInv
      <4>2. PICK g \in Lists : chain = [n \in {0} |-> [signer |-> 0, validators |-> g,
                                      turnLength |-> DefaultTurnLength, attestation |-> NoAttestation]]
        BY Zenon DEF StoreInit, Init
      <4> QED BY <4>1, <4>2
    <3>3. /\ refs[0].epochLength = L /\ refs[0].epochKey = NoEpochKey
          /\ refs[0].validators = chain[0].validators /\ refs[0].turnLength = DefaultTurnLength
      <4>1. \A v : LET g == NewSnapshot(0, v, FALSE)
                   IN  /\ g.epochLength = DefaultEpochLength /\ g.epochKey = NoEpochKey
                       /\ g.validators = v /\ g.turnLength = DefaultTurnLength
        BY DEF NewSnapshot
      <4> QED BY <3>2, <4>1, Zenon
    <3>4. Has(refs[0], 0, chain)
      BY <3>2, <3>3, Zenon DEF Has, TurnOf
    <3> HIDE DEF L
    <3>5. 0 - (0 % L) = 0 /\ NoEpochKey <= 0 \div L
      BY <3>1 DEF NoEpochKey
    <3> QED BY <3>3, <3>4, <3>5 DEF InstalledAt, L
  <2>4. DOMAIN cache = {} /\ DOMAIN disk = {} /\ ~failed /\ trusted = FALSE
    BY DEF StoreInit
  <2> QED BY <2>1, <2>2, <2>3, <2>4, Zenon DEF StoreInv
<1>2. StoreInv /\ ImportsInv /\ ImportsInv' /\ [StoreNext]_storeVars => StoreInv'
  <2> SUFFICES ASSUME StoreInv, ImportsInv, ImportsInv', [StoreNext]_storeVars PROVE StoreInv'
    OBVIOUS
  <2>1. CASE UNCHANGED storeVars
    BY <2>1, Zenon DEF storeVars, vars, store, StoreInv, RefsInv, CopyAt
  <2>2. CASE Grow
    BY <2>2, GrowKeeps
  <2>3. ASSUME NEW n \in DOMAIN refs, NEW flag \in {IsSnake8Enabled(n), IsSnake8Enabled(n + 1)},
               Snapshot(n, flag)
        PROVE  StoreInv'
    <3>1. DOMAIN refs = 0..snap.number /\ snap.number \in 0..MaxBlock
      BY HeadBounds, Zenon DEF StoreInv, RefsInv, ImportsInv, AppliedInv
    <3>2. ~IsSnake8Enabled(n) /\ ~IsSnake8Enabled(n + 1) /\ n \in Nat
      BY <2>3, <3>1, BoundAssumption, ForkAssumption DEF IsSnake8Enabled
    <3>3. flag = FALSE
      <4>1. IsSnake8Enabled(n) = FALSE /\ IsSnake8Enabled(n + 1) = FALSE
        BY <3>2, ForkAssumption DEF IsSnake8Enabled
      <4> QED BY <2>3, <4>1
    <3>4. n \in 0..snap.number /\ Snapshot(n, FALSE)
      BY <2>3, <3>1, <3>3, Zenon
    <3> QED BY <3>4, SnapshotKeeps, Zenon
  <2>4. CASE Restart
    <3>1. DOMAIN cache' = {} /\ UNCHANGED <<vars, refs, disk, failed, trusted>>
      BY <2>4 DEF Restart
    <3> QED BY <3>1, Zenon DEF vars, StoreInv, RefsInv, CopyAt
  <2> QED BY <2>1, <2>2, <2>3, <2>4 DEF StoreNext
<1> QED BY <1>1, <1>2, ImportsInvariant, PTL DEF StoreSpec

\* What is kept, in memory or on disk.
LEMMA KeptIsCopy ==
  ASSUME StoreInv, NEW e \in Kept
  PROVE  CopyAt(e[2], e[1])
<1>1. CASE \E n \in DOMAIN cache : e = <<n, cache[n]>>
  BY <1>1 DEF StoreInv
<1>2. CASE \E n \in DOMAIN disk : e = <<n, disk[n]>>
  BY <1>2 DEF StoreInv
<1> QED BY <1>1, <1>2 DEF Kept

\* AnswersTheSameSet: before Snake8, with any cache size, checkpoint distance and
\* evictions, and after any restarts, snapshot() of parlia.go keeps and returns
\* the validator set, turn length and epoch length that block-by-block import
\* gives, from trusted epoch blocks too if epochs have one length and the miner
\* history is not empty and ends within the offset of the trusted block.
THEOREM AnswersTheSameSet ==
  ASSUME Snake8At > MaxBlock, TrustIsSound
  PROVE  StoreSpec => []SameValidatorSet
<1>1. StoreInv => SameValidatorSet
  <2> SUFFICES ASSUME StoreInv, NEW e \in Kept
               PROVE  /\ e[2].number = e[1] /\ e[2].validators = refs[e[1]].validators
                      /\ e[2].turnLength = refs[e[1]].turnLength /\ e[2].epochLength = refs[e[1]].epochLength
    BY DEF SameValidatorSet
  <2> QED BY KeptIsCopy, Zenon DEF CopyAt, Copy, Alike
<1> QED BY <1>1, StoreInvariant, PTL

\* AnswersTheSameHistory: under the same conditions the recent signers, the mark
\* of the last switch, the versions and the attestation are the same as well,
\* and a trusted epoch block only ever forgets signers.
THEOREM AnswersTheSameHistory ==
  ASSUME Snake8At > MaxBlock, TrustIsSound
  PROVE  StoreSpec => []SameHistory
<1>1. StoreInv => SameHistory
  <2> SUFFICES ASSUME StoreInv, NEW e \in Kept
               PROVE  LET s == e[2]
                          t == refs[e[1]]
                      IN  /\ DOMAIN s.recents \subseteq DOMAIN t.recents
                          /\ \A k \in DOMAIN s.recents : s.recents[k] = t.recents[k]
                          /\ ~trusted => /\ DOMAIN s.recents = DOMAIN t.recents /\ s.forkBlocks = t.forkBlocks
                                         /\ s.epochKey = t.epochKey /\ s.attestation = t.attestation
    BY Zenon DEF SameHistory
  <2> QED BY KeptIsCopy, Zenon DEF CopyAt, Copy, Forgets, SameRest
<1> QED BY <1>1, StoreInvariant, PTL

\* BatchesNeverFail: apply, called by snapshot() with many headers at once and the
\* number of an old block, accepts again every header that was accepted before.
THEOREM BatchesNeverFail ==
  ASSUME Snake8At > MaxBlock, TrustIsSound
  PROVE  StoreSpec => []NeverFails
<1>1. StoreInv => NeverFails
  BY DEF StoreInv, NeverFails
<1> QED BY <1>1, StoreInvariant, PTL
============================================================================
