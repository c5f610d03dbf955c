------------------------- MODULE ParliaChainProofs -------------------------
(***************************************************************************)
(* Proofs about ParliaChain for every set of addresses, every fork         *)
(* schedule and every chain length.                                        *)
(***************************************************************************)
EXTENDS ParliaChain, FiniteSetTheorems, TLAPS

\* Products of positive numbers are positive; used for turn lengths.
LEMMA PositiveProduct ==
  ASSUME NEW a \in Nat \ {0}, NEW b \in Nat \ {0}
  PROVE  a * b \in Nat \ {0}
BY SMT

\* The validator set of a snapshot is finite.
LEMMA ValidatorsFinite ==
  ASSUME NEW s, SnapshotOK(s)
  PROVE  IsFiniteSet(s.validators) /\ Cardinality(s.validators) \in Nat
<1>1. s.validators \subseteq Addr
  BY BoundAssumption DEF SnapshotOK, Snapshots
<1> QED
  BY <1>1, AddrAssumption, FS_Subset, FS_CardinalityType

\* minerHistoryCheckLen never underflows: the miner history has length >= 0.
LEMMA CheckLenNat ==
  ASSUME NEW s, SnapshotOK(s)
  PROVE  MinerHistoryCheckLen(s) \in Nat
<1> DEFINE half == Cardinality(s.validators) \div 2 + 1
<1>1. half \in Nat \ {0}
  <2>1. Cardinality(s.validators) \in Nat
    BY ValidatorsFinite
  <2> HIDE DEF half
  <2> QED
    BY <2>1 DEF half
<1>2. s.turnLength \in Nat \ {0}
  BY DEF SnapshotOK, Snapshots
<1> HIDE DEF half
<1>3. half * s.turnLength \in Nat \ {0}
  BY <1>1, <1>2, PositiveProduct
<1>4. MinerHistoryCheckLen(s) = half * s.turnLength - 1
  BY DEF MinerHistoryCheckLen, half
<1> QED
  BY <1>3, <1>4

\* t has the validator set, the turn length, the fork flag and the mark of the
\* last switch of s.
SameTurns(s, t) ==
  /\ t.validators = s.validators
  /\ t.turnLength = s.turnLength
  /\ t.isSnake8 = s.isSnake8
  /\ t.epochKey = s.epochKey

\* Expire changes nothing but Recents and RecentForkHashes.
LEMMA ExpireFields ==
  ASSUME NEW s, SnapshotOK(s), NEW n \in Nat
  PROVE  LET e == Expire(s, n)
         IN  /\ SnapshotOK(e)
             /\ SameTurns(s, e)
             /\ e.epochLength = s.epochLength /\ e.number = s.number
             /\ e.recents = Drop(s.recents, {n - (MinerHistoryCheckLen(s) + 1)})
BY Zenon DEF Expire, SnapshotOK, Snapshots, Drop, Restrict, SameTurns

\* UpdateAttestation changes nothing but the attestation.
LEMMA AttestationFields ==
  ASSUME NEW s, SnapshotOK(s), NEW n \in Nat, NEW att \in [source : Nat, target : Nat]
  PROVE  LET u == UpdateAttestation(s, n, att)
         IN  /\ SnapshotOK(u)
             /\ SameTurns(s, u)
             /\ u.epochLength = s.epochLength
             /\ u.recents = s.recents
BY DEF UpdateAttestation, SnapshotOK, Snapshots, NoAttestation, SameTurns

\* RecordSigner changes nothing but Recents and RecentForkHashes.
LEMMA RecordFields ==
  ASSUME NEW s, SnapshotOK(s), NEW n \in 1..MaxBlock, NEW v \in Addr
  PROVE  LET r == RecordSigner(s, n, v)
         IN  /\ SnapshotOK(r)
             /\ SameTurns(s, r)
             /\ r.epochLength = s.epochLength
             /\ DOMAIN r.recents = {k \in DOMAIN s.recents \cup {n} :
                                      IsMaxwell(n) => k > GetFinalizedNumber(s)}
             /\ \A k \in DOMAIN r.recents : r.recents[k] = IF k = n THEN v ELSE s.recents[k]
<1> DEFINE r == Put(s.recents, n, v)
           final == {k \in DOMAIN r : k <= GetFinalizedNumber(s)}
           q == IF IsMaxwell(n) THEN Drop(r, final) ELSE r
<1>1. /\ DOMAIN s.recents \subseteq 1..MaxBlock
      /\ \A k \in DOMAIN s.recents : s.recents[k] \in Addr
      /\ GetFinalizedNumber(s) \in Nat
  BY DEF SnapshotOK, Snapshots, GetFinalizedNumber
<1>2. /\ DOMAIN q = {k \in DOMAIN s.recents \cup {n} : IsMaxwell(n) => k > GetFinalizedNumber(s)}
      /\ \A k \in DOMAIN q : q[k] = IF k = n THEN v ELSE s.recents[k]
  BY <1>1, BoundAssumption DEF Put, Drop, Restrict
<1>3. DOMAIN q \subseteq 1..MaxBlock /\ \A k \in DOMAIN q : q[k] \in Addr
  BY <1>1, <1>2
<1>4. RecordSigner(s, n, v) = [s EXCEPT !.recents = q, !.forkBlocks = s.forkBlocks \cup {n}]
  BY DEF RecordSigner
<1>5. s \in Snapshots(s.recents) /\ s.forkBlocks \cup {n} \subseteq 1..MaxBlock
  BY BoundAssumption DEF SnapshotOK, Snapshots
<1> HIDE DEF r, final, q
<1> DEFINE t == [s EXCEPT !.recents = q, !.forkBlocks = s.forkBlocks \cup {n}]
<1>6. /\ t \in Snapshots(q)
      /\ t.recents = q
      /\ SameTurns(s, t)
      /\ t.epochLength = s.epochLength
  BY <1>5, Zenon DEF Snapshots, SameTurns
<1>7. SnapshotOK(t)
  BY <1>3, <1>6 DEF SnapshotOK
<1> QED
  BY <1>2, <1>4, <1>6, <1>7

----------------------------------------------------------------------------
(* Gapless runs                                                            *)

\* One block later: the entry that became too old goes, the new one comes.
LEMMA GaplessSlide ==
  ASSUME NEW D, NEW n \in Nat \ {0}, NEW len \in Nat \ {0}, Gapless(D, n - 1, len)
  PROVE  Gapless((D \ {n - len}) \cup {n}, n, len)
<1>1. PICK b \in (n - 1 - len)..(n - 1) : D = {k \in 1..(n - 1) : k > b}
  BY DEF Gapless
<1> DEFINE c == IF b >= n - len THEN b ELSE n - len
<1>2. c \in (n - len)..n
  BY <1>1
<1>3. (D \ {n - len}) \cup {n} = {k \in 1..n : k > c}
  BY <1>1
<1> QED
  BY <1>2, <1>3 DEF Gapless

\* Forgetting everything up to some block f leaves no gap.
LEMMA GaplessCut ==
  ASSUME NEW D, NEW n \in Nat, NEW len \in Nat, NEW f \in Int, Gapless(D, n, len)
  PROVE  Gapless({k \in D : k > f}, n, len)
<1>1. PICK b \in (n - len)..n : D = {k \in 1..n : k > b}
  BY DEF Gapless
<1> DEFINE c == IF f <= b THEN b ELSE IF f <= n THEN f ELSE n
<1>2. c \in (n - len)..n
  BY <1>1
<1>3. {k \in D : k > f} = {k \in 1..n : k > c}
  BY <1>1
<1> QED
  BY <1>2, <1>3 DEF Gapless

\* A run within a window is a run within a larger window.
LEMMA GaplessGrow ==
  ASSUME NEW D, NEW n \in Nat, NEW len \in Nat, NEW len2 \in Nat, len <= len2,
         Gapless(D, n, len)
  PROVE  Gapless(D, n, len2)
BY DEF Gapless

\* Deleting the entries between the new and the old bound shrinks the window.
LEMMA GaplessShrink ==
  ASSUME NEW D, NEW n \in Nat, NEW len \in Nat, NEW len2 \in Nat, Gapless(D, n, len)
  PROVE  Gapless(D \ {n - len2 - i : i \in 0..(len - len2 - 1)}, n, len2)
<1> DEFINE gone == {n - len2 - i : i \in 0..(len - len2 - 1)}
<1>1. PICK b \in (n - len)..n : D = {k \in 1..n : k > b}
  BY DEF Gapless
<1>2. \A k \in Int : k \in gone <=> k > n - len /\ k <= n - len2
  <2>1. ASSUME NEW k \in Int, k > n - len, k <= n - len2  PROVE k \in gone
    <3>1. n - len2 - k \in 0..(len - len2 - 1)
      BY <2>1
    <3>2. k = n - len2 - (n - len2 - k)
      BY <2>1
    <3> QED
      BY <3>1, <3>2
  <2> QED
    BY <2>1
<1> HIDE DEF gone
<1> DEFINE c == IF b >= n - len2 THEN b ELSE n - len2
<1>3. c \in (n - len2)..n
  BY <1>1
<1>4. D \ gone = {k \in 1..n : k > c}
  BY <1>1, <1>2
<1>5. Gapless(D \ gone, n, len2)
  BY <1>3, <1>4 DEF Gapless
<1> QED
  BY <1>5 DEF gone

\* The empty history.
LEMMA GaplessEmpty ==
  ASSUME NEW n \in Nat, NEW len \in Nat
  PROVE  Gapless({}, n, len)
<1>1. {} = {k \in 1..n : k > n}
  OBVIOUS
<1> QED
  BY <1>1 DEF Gapless

----------------------------------------------------------------------------
(* The inductive invariant                                                 *)

\* What the checks on a header guarantee to a later set switch.
HeaderOK(h, k) ==
  /\ h.validators \in Lists \cup {{}}
  /\ h.validators # {} /\ IsBohr(k) => h.turnLength \in Nat \ {0}
  /\ h.attestation \in [source : Nat, target : Nat]
  /\ k > 0 => h.signer \in Addr

\* RecentsIsWindow is not inductive by itself: the unscaled deletions of
\* ShrinkRecents are right only because turnLength is 1 before Bohr.
WindowInv ==
  /\ TypeOK
  /\ \A k \in DOMAIN chain : HeaderOK(chain[k], k)
  /\ snap.isSnake8 = IsSnake8Enabled(snap.number + 1)
  /\ ~snap.isSnake8 /\ snap.turnLength # 1 => IsBohr(snap.number)
  /\ RecentsIsWindow

\* A set switch keeps the snapshot well formed, and what it does to Recents.
LEMMA SwitchFields ==
  ASSUME NEW s, SnapshotOK(s), NEW n \in 1..MaxBlock, NEW len \in Nat \ {0}, NEW c,
         HeaderOK(c[n - MinerHistoryCheckLen(s)], n - MinerHistoryCheckLen(s)),
         c[n - MinerHistoryCheckLen(s)].validators # {}
  PROVE  LET t  == SwitchValidators(s, n, len, c)
             cp == n - MinerHistoryCheckLen(s)
         IN  /\ SnapshotOK(t)
             /\ t.isSnake8 = s.isSnake8
             /\ t.epochLength = s.epochLength
             /\ t.validators = c[cp].validators
             /\ t.turnLength = IF cp % len = 0 /\ IsBohr(cp) THEN c[cp].turnLength ELSE s.turnLength
             /\ t.recents = IF IsBohr(n) THEN [k \in {} |-> 0]
                            ELSE ShrinkRecents(s, n, c[cp].validators)
<1> DEFINE cp == n - MinerHistoryCheckLen(s)
           h  == c[cp]
           tl == IF cp % len = 0 /\ IsBohr(cp) THEN h.turnLength ELSE s.turnLength
           r  == IF IsBohr(n) THEN [k \in {} |-> 0] ELSE ShrinkRecents(s, n, h.validators)
           key == IF IsBohr(n) THEN n \div len ELSE s.epochKey
           u == [s EXCEPT !.turnLength = tl, !.recents = r, !.epochKey = key,
                          !.validators = h.validators]
           f == s.forkBlocks \ {n - i : i \in VersionHistoryCheckLen(u)..(VersionHistoryCheckLen(s) - 1)}
           t == [u EXCEPT !.forkBlocks = f]
<1>1. tl \in Nat \ {0} /\ h.validators \in Lists /\ key \in Int
  BY BoundAssumption DEF SnapshotOK, Snapshots, HeaderOK
<1>2. DOMAIN r \subseteq 1..MaxBlock /\ \A k \in DOMAIN r : r[k] \in Addr
  BY DEF SnapshotOK, ShrinkRecents, Drop, Restrict
<1>3. f \in SUBSET (1..MaxBlock)
  BY DEF SnapshotOK, Snapshots
<1>4. SwitchValidators(s, n, len, c) = t
  <2>1. s \in Snapshots(s.recents)
    BY DEF SnapshotOK
  <2> HIDE DEF tl, r, key
  <2>2. u.forkBlocks = s.forkBlocks
    BY <2>1 DEF Snapshots
  <2> QED
    BY <2>2 DEF SwitchValidators, tl, r, key
<1> HIDE DEF tl, r, key, f
<1>5. /\ t \in Snapshots(r)
      /\ t.recents = r /\ t.turnLength = tl /\ t.validators = h.validators
      /\ t.isSnake8 = s.isSnake8 /\ t.epochLength = s.epochLength
  BY <1>1, <1>3, Zenon DEF SnapshotOK, Snapshots
<1>6. SnapshotOK(t)
  BY <1>2, <1>5 DEF SnapshotOK
<1> QED
  BY <1>4, <1>5, <1>6 DEF tl, r

\* The snapshot after the part of apply that precedes a set switch.
Signed(s, n, c) ==
  LET g == RecordSigner(UpdateAttestation(Expire(s, n), n, c[n].attestation), n, c[n].signer)
  IN  [g EXCEPT !.epochLength = NextEpochLength(g.epochLength, n)]

\* That part keeps the set, the turn length and the mark of the last switch;
\* Recents loses the entry that became too old, gains n, and may be cut.
LEMMA SignedFields ==
  ASSUME NEW s, SnapshotOK(s), NEW n \in 1..MaxBlock, NEW c, HeaderOK(c[n], n)
  PROVE  LET t == Signed(s, n, c)
             D == (DOMAIN s.recents \ {n - Limit(s)}) \cup {n}
         IN  /\ SnapshotOK(t)
             /\ SameTurns(s, t)
             /\ t.epochLength = NextEpochLength(s.epochLength, n)
             /\ \E f \in Nat : DOMAIN t.recents = {k \in D : IsMaxwell(n) => k > f}
             /\ \A k \in DOMAIN t.recents :
                  t.recents[k] = IF k = n THEN c[n].signer ELSE s.recents[k]
<1> DEFINE e == Expire(s, n)
           u == UpdateAttestation(e, n, c[n].attestation)
           g == RecordSigner(u, n, c[n].signer)
           t == Signed(s, n, c)
<1>0. n \in Nat /\ c[n].signer \in Addr /\ c[n].attestation \in [source : Nat, target : Nat]
  BY BoundAssumption DEF HeaderOK
<1>1. /\ SnapshotOK(e) /\ SameTurns(s, e) /\ e.epochLength = s.epochLength
      /\ e.recents = Drop(s.recents, {n - Limit(s)})
  BY <1>0, ExpireFields DEF Limit
<1> HIDE DEF e
<1>2. /\ SnapshotOK(u) /\ SameTurns(e, u) /\ u.epochLength = e.epochLength
      /\ u.recents = e.recents
  BY <1>0, <1>1, AttestationFields
<1> HIDE DEF u
<1>3. /\ SnapshotOK(g)
      /\ SameTurns(u, g)
      /\ g.epochLength = u.epochLength
      /\ DOMAIN g.recents = {k \in DOMAIN u.recents \cup {n} :
                               IsMaxwell(n) => k > GetFinalizedNumber(u)}
      /\ \A k \in DOMAIN g.recents : g.recents[k] = IF k = n THEN c[n].signer ELSE u.recents[k]
  BY <1>0, <1>2, RecordFields
<1>4. /\ SnapshotOK(t) /\ SameTurns(g, t) /\ t.recents = g.recents
      /\ t.epochLength = NextEpochLength(g.epochLength, n)
  <2>1. t = [g EXCEPT !.epochLength = NextEpochLength(g.epochLength, n)]
    BY DEF Signed, g, u, e
  <2> HIDE DEF g
  <2>2. g \in Snapshots(g.recents)
    BY <1>3 DEF SnapshotOK
  <2>3. NextEpochLength(g.epochLength, n) \in {DefaultEpochLength, LorentzEpochLength, MaxwellEpochLength}
    BY <2>2 DEF NextEpochLength, Snapshots
  <2> HIDE DEF t
  <2>4. /\ t \in Snapshots(g.recents) /\ SameTurns(g, t) /\ t.recents = g.recents
        /\ t.epochLength = NextEpochLength(g.epochLength, n)
    BY <2>1, <2>2, <2>3 DEF Snapshots, SameTurns
  <2> QED
    BY <1>3, <2>4 DEF SnapshotOK
<1> HIDE DEF g, t
<1>5. /\ DOMAIN u.recents = DOMAIN s.recents \ {n - Limit(s)}
      /\ \A k \in DOMAIN u.recents : u.recents[k] = s.recents[k]
  BY <1>1, <1>2 DEF Drop, Restrict
<1>6. GetFinalizedNumber(u) \in Nat
  BY <1>2 DEF SnapshotOK, Snapshots, GetFinalizedNumber
<1>7. \E f \in Nat : DOMAIN t.recents =
        {k \in (DOMAIN s.recents \ {n - Limit(s)}) \cup {n} : IsMaxwell(n) => k > f}
  BY <1>3, <1>4, <1>5, <1>6
<1>8. \A k \in DOMAIN t.recents :
        t.recents[k] = IF k = n THEN c[n].signer ELSE s.recents[k]
  BY <1>3, <1>4, <1>5
<1>9. SameTurns(s, t)
  BY <1>1, <1>2, <1>3, <1>4 DEF SameTurns
<1>10. t.epochLength = NextEpochLength(s.epochLength, n)
  BY <1>1, <1>2, <1>3, <1>4
<1> QED
  BY <1>4, <1>7, <1>8, <1>9, <1>10 DEF t

\* Recents of s is a window that ends at n and names the signers of c.
Window(s, n, c) ==
  /\ Gapless(DOMAIN s.recents, n, Limit(s))
  /\ \A k \in DOMAIN s.recents : s.recents[k] = c[k].signer

\* The window slides over one more block.
LEMMA SignedWindow ==
  ASSUME NEW s, SnapshotOK(s), NEW n \in 1..MaxBlock, NEW c, HeaderOK(c[n], n),
         Window(s, n - 1, c)
  PROVE  Window(Signed(s, n, c), n, c)
<1> DEFINE t == Signed(s, n, c)
           D == (DOMAIN s.recents \ {n - Limit(s)}) \cup {n}
<1>1. /\ SnapshotOK(t) /\ SameTurns(s, t)
      /\ \E f \in Nat : DOMAIN t.recents = {k \in D : IsMaxwell(n) => k > f}
      /\ \A k \in DOMAIN t.recents : t.recents[k] = IF k = n THEN c[n].signer ELSE s.recents[k]
  BY SignedFields
<1> HIDE DEF t
<1>2. n \in Nat \ {0} /\ Limit(s) \in Nat \ {0} /\ Limit(t) = Limit(s)
  BY <1>1, CheckLenNat, BoundAssumption DEF Limit, MinerHistoryCheckLen, SameTurns
<1>3. Gapless(D, n, Limit(s))
  BY <1>2, GaplessSlide DEF Window
<1>4. PICK f \in Nat : DOMAIN t.recents = {k \in D : IsMaxwell(n) => k > f}
  BY <1>1
<1>5. Gapless(DOMAIN t.recents, n, Limit(s))
  <2>1. CASE IsMaxwell(n)
    <3>1. DOMAIN t.recents = {k \in D : k > f}
      BY <1>4, <2>1
    <3> QED
      BY <1>2, <1>3, <3>1, GaplessCut
  <2>2. CASE ~IsMaxwell(n)
    BY <1>3, <1>4, <2>2
  <2> QED
    BY <2>1, <2>2
<1>6. \A k \in DOMAIN t.recents : t.recents[k] = c[k].signer
  BY <1>1, <1>4 DEF Window
<1> QED
  BY <1>2, <1>5, <1>6 DEF Window, t

\* A set switch keeps the window: it empties Recents from Bohr on, and before
\* it cuts exactly the entries that are too old for a smaller set.
LEMMA SwitchWindow ==
  ASSUME NEW s, SnapshotOK(s), NEW n \in 1..MaxBlock, NEW len \in Nat \ {0}, NEW c,
         HeaderOK(c[n - MinerHistoryCheckLen(s)], n - MinerHistoryCheckLen(s)),
         c[n - MinerHistoryCheckLen(s)].validators # {},
         ~IsBohr(n) => s.turnLength = 1,
         Window(s, n, c)
  PROVE  Window(SwitchValidators(s, n, len, c), n, c)
<1> DEFINE t  == SwitchValidators(s, n, len, c)
           cp == n - MinerHistoryCheckLen(s)
           new == c[cp].validators
<1>0. MinerHistoryCheckLen(s) \in Nat /\ n \in Nat
  BY CheckLenNat, BoundAssumption
<1>1. /\ SnapshotOK(t)
      /\ t.validators = new
      /\ t.turnLength = IF cp % len = 0 /\ IsBohr(cp) THEN c[cp].turnLength ELSE s.turnLength
      /\ t.recents = IF IsBohr(n) THEN [k \in {} |-> 0] ELSE ShrinkRecents(s, n, new)
  BY SwitchFields
<1> HIDE DEF t
<1>2. Limit(t) \in Nat /\ Limit(s) \in Nat
  BY <1>1, CheckLenNat DEF Limit
<1>3. CASE IsBohr(n)
  <2>1. DOMAIN t.recents = {}
    BY <1>1, <1>3
  <2> QED
    BY <2>1, <1>0, <1>2, GaplessEmpty DEF Window, t
<1>4. CASE ~IsBohr(n)
  <2> DEFINE old == Cardinality(s.validators) \div 2 + 1
             lim == Cardinality(new) \div 2 + 1
             gone == {n - lim - i : i \in 0..(old - lim - 1)}
  <2>1. s.turnLength = 1 /\ t.turnLength = 1
    <3>1. ~IsBohr(cp)
      BY <1>0, <1>4, ForkAssumption DEF IsBohr
    <3> QED
      BY <1>1, <1>4, <3>1
  <2>2. Cardinality(s.validators) \in Nat /\ Cardinality(new) \in Nat
    <3>1. Cardinality(s.validators) \in Nat /\ Cardinality(t.validators) \in Nat
      BY <1>1, ValidatorsFinite
    <3> QED
      BY <1>1, <3>1
  <2>3. Limit(s) = old /\ Limit(t) = lim
    <3>1. old \in Nat /\ lim \in Nat
      BY <2>2
    <3>2. Limit(s) = old * 1 - 1 + 1 /\ Limit(t) = lim * 1 - 1 + 1
      BY <1>1, <2>1 DEF Limit, MinerHistoryCheckLen
    <3> HIDE DEF old, lim
    <3> QED
      BY <3>1, <3>2
  <2>4. /\ DOMAIN t.recents = DOMAIN s.recents \ gone
        /\ \A k \in DOMAIN t.recents : t.recents[k] = s.recents[k]
    BY <1>1, <1>4 DEF ShrinkRecents, Drop, Restrict
  <2> HIDE DEF old, lim
  <2>5. Gapless(DOMAIN s.recents \ gone, n, lim)
    <3>1. n \in Nat /\ old \in Nat /\ lim \in Nat /\ Gapless(DOMAIN s.recents, n, old)
      BY <1>0, <1>2, <2>3 DEF Window
    <3> QED
      BY <3>1, GaplessShrink, Zenon
  <2>6. \A k \in DOMAIN t.recents : t.recents[k] = c[k].signer
    BY <2>4 DEF Window
  <2> QED
    BY <2>3, <2>4, <2>5, <2>6 DEF Window, t
<1> QED
  BY <1>3, <1>4

----------------------------------------------------------------------------
(* One step                                                                *)

\* A remainder is not larger than the number divided.
LEMMA ModAtMost ==
  ASSUME NEW n \in Nat, NEW len \in Nat \ {0}
  PROVE  n % len \in 0..n
BY Z3

\* Switches only reads what the first part of apply leaves alone.
LEMMA SwitchesSame ==
  ASSUME NEW s, NEW t, SameTurns(s, t), NEW n, NEW len
  PROVE  /\ Switches(t, n, len) <=> Switches(s, n, len)
         /\ MinerHistoryCheckLen(t) = MinerHistoryCheckLen(s)
         /\ Limit(t) = Limit(s)
BY DEF SameTurns, Switches, MinerHistoryCheckLen, Limit

\* apply keeps a snapshot well formed, changes the turn length only from Bohr
\* on, and keeps the window when the turn length is 1 before Bohr.
LEMMA ApplyStep ==
  ASSUME NEW s, SnapshotOK(s), NEW n \in 1..MaxBlock, NEW c,
         \A k \in 0..n : HeaderOK(c[k], k),
         CanApply(s, n, c)
  PROVE  LET a == ApplyHeader(s, n, c)
         IN  /\ SnapshotOK(a)
             /\ a.isSnake8 = s.isSnake8
             /\ a.epochLength = NextEpochLength(s.epochLength, n)
             /\ ~IsBohr(n) => a.turnLength = s.turnLength
             /\ Window(s, n - 1, c) /\ (~IsBohr(n) => s.turnLength = 1) => Window(a, n, c)
<1> DEFINE t == Signed(s, n, c)
           a == ApplyHeader(s, n, c)
           len == s.epochLength
           cp == n - MinerHistoryCheckLen(s)
<1>0. n \in Nat /\ n \in 0..n /\ len \in Nat \ {0} /\ MinerHistoryCheckLen(s) \in Nat
  BY BoundAssumption, LengthAssumption, CheckLenNat DEF SnapshotOK, Snapshots
<1>1. HeaderOK(c[n], n)
  BY <1>0
<1>2. SnapshotOK(t) /\ SameTurns(s, t) /\ t.epochLength = NextEpochLength(len, n)
  BY <1>1, SignedFields
<1>3. a = IF Switches(t, n, len) THEN SwitchValidators(t, n, len, c) ELSE t
  BY DEF ApplyHeader, Signed
<1>4. Switches(t, n, len) <=> Switches(s, n, len)
  BY <1>2, SwitchesSame
<1>5. MinerHistoryCheckLen(t) = MinerHistoryCheckLen(s) /\ Limit(t) = Limit(s)
  BY <1>2, SwitchesSame
<1>6. ASSUME Switches(s, n, len)
      PROVE  HeaderOK(c[cp], cp) /\ c[cp].validators # {} /\ cp \in 0..n
  <2>1. n % len = MinerHistoryCheckLen(s)
    BY <1>6 DEF Switches
  <2>2. cp \in 0..n
    BY <1>0, <2>1, ModAtMost
  <2>3. SameTurns(s, Expire(s, n))
    BY <1>0, ExpireFields, Zenon
  <2>4. Switches(Expire(s, n), n, len)
    BY <1>6, <2>3, SwitchesSame
  <2> QED
    BY <2>2, <2>4 DEF CanApply
<1>7. Window(s, n - 1, c) => Window(t, n, c)
  BY <1>1, SignedWindow
<1> HIDE DEF t, a
<1>8. CASE ~Switches(t, n, len)
  BY <1>2, <1>3, <1>7, <1>8 DEF SameTurns, a
<1>9. CASE Switches(t, n, len)
  <2>1. HeaderOK(c[cp], cp) /\ c[cp].validators # {} /\ cp \in 0..n
    BY <1>4, <1>6, <1>9
  <2>2. /\ HeaderOK(c[n - MinerHistoryCheckLen(t)], n - MinerHistoryCheckLen(t))
        /\ c[n - MinerHistoryCheckLen(t)].validators # {}
    BY <1>5, <2>1
  <2>3. a = SwitchValidators(t, n, len, c)
    BY <1>3, <1>9
  <2>4. /\ SnapshotOK(a)
        /\ a.isSnake8 = t.isSnake8
        /\ a.epochLength = t.epochLength
        /\ a.turnLength = IF (n - MinerHistoryCheckLen(t)) % len = 0 /\ IsBohr(n - MinerHistoryCheckLen(t))
                          THEN c[n - MinerHistoryCheckLen(t)].turnLength ELSE t.turnLength
    BY <1>0, <1>2, <2>2, <2>3, SwitchFields
  <2>5. ~IsBohr(n) => ~IsBohr(cp)
    BY <1>0, <2>1, ForkAssumption DEF IsBohr
  <2>6. ~IsBohr(n) => a.turnLength = s.turnLength
    BY <1>2, <1>5, <2>4, <2>5 DEF SameTurns
  <2>7. Window(s, n - 1, c) /\ (~IsBohr(n) => s.turnLength = 1) => Window(a, n, c)
    <3>1. SUFFICES ASSUME Window(s, n - 1, c), ~IsBohr(n) => s.turnLength = 1
                   PROVE  Window(a, n, c)
      OBVIOUS
    <3>2. Window(t, n, c) /\ (~IsBohr(n) => t.turnLength = 1)
      BY <1>2, <1>7, <3>1 DEF SameTurns
    <3> QED
      BY <1>0, <1>2, <2>2, <2>3, <3>2, SwitchWindow
  <2> QED
    BY <1>2, <2>4, <2>6, <2>7 DEF SameTurns, a
<1> QED
  BY <1>8, <1>9

----------------------------------------------------------------------------
(* The theorems                                                            *)

\* The genesis snapshot satisfies the invariant.
LEMMA InitWindow == Init => WindowInv
<1> SUFFICES ASSUME Init PROVE WindowInv
  OBVIOUS
<1>1. PICK g \in Lists :
        /\ chain = [n \in {0} |-> [signer |-> 0, validators |-> g, turnLength |-> DefaultTurnLength,
                                   attestation |-> NoAttestation]]
        /\ snap = [NewSnapshot(0, g, IsSnake8Enabled(1))
                     EXCEPT !.turnLength = IF IsSnake8Enabled(1) THEN Snake8TurnLength ELSE @]
        /\ applyError = FALSE
        /\ turn = [validator |-> 0, slashed |-> FALSE]
  BY DEF Init
<1>2. IsSnake8Enabled(1) \in BOOLEAN
  BY DEF IsSnake8Enabled
<1>3. /\ snap.number = 0 /\ snap.isSnake8 = IsSnake8Enabled(1)
      /\ snap.recents = [k \in {} |-> 0]
      /\ snap.turnLength = IF IsSnake8Enabled(1) THEN Snake8TurnLength ELSE 1
      /\ snap \in Snapshots(snap.recents)
  BY <1>1, <1>2, LengthAssumption, BoundAssumption
     DEF NewSnapshot, Snapshots, DefaultTurnLength, NoAttestation, NoEpochKey
<1>4. SnapshotOK(snap)
  BY <1>3 DEF SnapshotOK
<1>5. TypeOK
  BY <1>1, <1>3, <1>4 DEF TypeOK
<1>6. \A k \in DOMAIN chain : HeaderOK(chain[k], k)
  BY <1>1 DEF HeaderOK, NoAttestation, DefaultTurnLength
<1>7. RecentsIsWindow
  <2>1. DOMAIN snap.recents = {} /\ Limit(snap) \in Nat
    BY <1>3, <1>4, CheckLenNat DEF Limit
  <2> QED
    BY <2>1, <1>3, GaplessEmpty DEF RecentsIsWindow
<1> QED
  BY <1>3, <1>5, <1>6, <1>7 DEF WindowInv

\* A header that may be imported is one a later switch can rely on.
LEMMA ImportedHeaderOK ==
  ASSUME SnapshotOK(snap), NEW n \in 1..MaxBlock, NEW h \in Headers(snap, n)
  PROVE  HeaderOK(h, n)
<1>1. /\ h.signer \in Addr /\ h.validators \in EpochLists(snap, n)
      /\ h.turnLength \in EpochTurnLengths(snap, n) /\ h.attestation \in Attestations(snap, n)
  BY DEF Headers
<1>2. h.validators \in Lists \cup {{}}
  BY <1>1 DEF EpochLists
<1>3. h.validators # {} /\ IsBohr(n) => h.turnLength \in Nat \ {0}
  BY <1>1, BoundAssumption, Zenon DEF EpochLists, EpochTurnLengths
<1>4. h.attestation \in [source : Nat, target : Nat]
  BY <1>1, BoundAssumption DEF Attestations, NoAttestation
<1> QED
  BY <1>1, <1>2, <1>3, <1>4 DEF HeaderOK

\* snapshot() sets the fork flag before it applies headers.
LEMMA FlagFields ==
  ASSUME NEW s, SnapshotOK(s), NEW flag \in BOOLEAN
  PROVE  LET t == [s EXCEPT !.isSnake8 = flag]
         IN  /\ SnapshotOK(t) /\ t.isSnake8 = flag
             /\ t.turnLength = s.turnLength /\ t.recents = s.recents /\ t.validators = s.validators
             /\ t.epochLength = s.epochLength /\ t.number = s.number /\ t.epochKey = s.epochKey
<1> DEFINE t == [s EXCEPT !.isSnake8 = flag]
<1>1. s \in Snapshots(s.recents)
  BY DEF SnapshotOK
<1>2. /\ t \in Snapshots(s.recents) /\ t.isSnake8 = flag
      /\ t.turnLength = s.turnLength /\ t.recents = s.recents /\ t.validators = s.validators
      /\ t.epochLength = s.epochLength /\ t.number = s.number /\ t.epochKey = s.epochKey
  BY <1>1 DEF Snapshots
<1> HIDE DEF t
<1>3. SnapshotOK(t)
  BY <1>2 DEF SnapshotOK
<1> QED
  BY <1>2, <1>3 DEF t

Renumbered(s, n, len) == [s EXCEPT !.number = n, !.turnLength = len]

\* Only the number and the turn length change.
LEMMA NumberFields ==
  ASSUME NEW s, SnapshotOK(s), NEW n \in 0..MaxBlock, NEW len \in Nat \ {0}
  PROVE  LET t == Renumbered(s, n, len)
         IN  /\ SnapshotOK(t) /\ t.number = n /\ t.turnLength = len /\ t.isSnake8 = s.isSnake8
             /\ t.recents = s.recents /\ t.validators = s.validators
             /\ t.epochLength = s.epochLength
<1> DEFINE t == [s EXCEPT !.number = n, !.turnLength = len]
<1>1. s \in Snapshots(s.recents)
  BY DEF SnapshotOK
<1>2. /\ t \in Snapshots(s.recents) /\ t.number = n /\ t.turnLength = len
      /\ t.isSnake8 = s.isSnake8 /\ t.recents = s.recents /\ t.validators = s.validators
      /\ t.epochLength = s.epochLength
  BY <1>1, Zenon DEF Snapshots
<1> HIDE DEF t
<1>3. SnapshotOK(t)
  BY <1>2 DEF SnapshotOK
<1>4. Renumbered(s, n, len) = t
  BY DEF Renumbered, t
<1> QED
  BY <1>2, <1>3, <1>4

\* Every import keeps the invariant.
LEMMA NextWindow == WindowInv /\ [Next]_vars => WindowInv'
<1> SUFFICES ASSUME WindowInv, [Next]_vars PROVE WindowInv'
  OBVIOUS
<1> USE DEF WindowInv
<1>1. CASE UNCHANGED vars
  BY <1>1 DEF vars, TypeOK, RecentsIsWindow
<1>2. ASSUME NEW h \in Headers(snap, snap.number + 1), NEW freq \in Frequencies(snap), Import(h, freq)
      PROVE  WindowInv'
  <2> DEFINE n == snap.number + 1
             c == [k \in 0..n |-> IF k = n THEN h ELSE chain[k]]
             s == [snap EXCEPT !.isSnake8 = IsSnake8Enabled(n + 1)]
  <2>1. /\ ~applyError /\ n \in 1..MaxBlock /\ SnapshotOK(snap) /\ snap.number \in Nat
        /\ DOMAIN chain = 0..(n - 1) /\ chain' = c
    BY <1>2, BoundAssumption DEF Import, TypeOK, SnapshotOK, Snapshots
  <2>2. HeaderOK(h, n)
    BY <1>2, <2>1, ImportedHeaderOK
  <2>3. DOMAIN c = 0..n /\ c[n] = h /\ \A k \in 0..(n - 1) : c[k] = chain[k]
    BY <2>1
  <2>4. \A k \in 0..n : HeaderOK(c[k], k)
    BY <2>1, <2>2, <2>3
  <2>5. turn'.slashed \in BOOLEAN
    BY <1>2 DEF Import, Slashed
  <2> HIDE DEF c
  <2>6. CASE ~CanApply(s, n, c)
    <3>1. applyError' = TRUE /\ snap' = snap
      BY <1>2, <2>6 DEF Import, c
    <3>2. TypeOK'
      BY <2>1, <2>3, <2>4, <2>5, <3>1 DEF TypeOK, HeaderOK
    <3>3. RecentsIsWindow'
      <4>1. ASSUME ~snap.isSnake8
            PROVE  \A k \in DOMAIN snap.recents : snap.recents[k] = c[k].signer
        <5>1. DOMAIN snap.recents \subseteq 0..(n - 1)
          BY <2>1, <4>1 DEF RecentsIsWindow, Gapless
        <5> QED
          BY <2>3, <4>1, <5>1 DEF RecentsIsWindow
      <4> QED
        BY <2>1, <3>1, <4>1 DEF RecentsIsWindow, Limit, MinerHistoryCheckLen
    <3> QED
      BY <2>1, <2>3, <2>4, <3>1, <3>2, <3>3
  <2>7. CASE CanApply(s, n, c)
    <3> DEFINE a == ApplyHeader(s, n, c)
    <3>1. applyError' = applyError /\ snap' = NextSnapshot(snap, n, c)
      BY <1>2, <2>7 DEF Import, c
    <3>2. /\ SnapshotOK(s) /\ s.isSnake8 = IsSnake8Enabled(n + 1)
          /\ s.turnLength = snap.turnLength /\ s.recents = snap.recents /\ Limit(s) = Limit(snap)
      <4>1. IsSnake8Enabled(n + 1) \in BOOLEAN
        BY DEF IsSnake8Enabled
      <4>2. /\ SnapshotOK(s) /\ s.isSnake8 = IsSnake8Enabled(n + 1)
            /\ s.turnLength = snap.turnLength /\ s.recents = snap.recents
            /\ s.validators = snap.validators
        BY <2>1, <4>1, FlagFields
      <4> HIDE DEF s
      <4> QED
        BY <4>2 DEF Limit, MinerHistoryCheckLen
    <3> HIDE DEF s
    <3>3. /\ SnapshotOK(a)
          /\ a.isSnake8 = s.isSnake8
          /\ ~IsBohr(n) => a.turnLength = s.turnLength
          /\ Window(s, n - 1, c) /\ (~IsBohr(n) => s.turnLength = 1) => Window(a, n, c)
      BY <2>1, <2>4, <2>7, <3>2, ApplyStep
    <3>4. snap' = [a EXCEPT !.number = n,
                            !.turnLength = IF IsSnake8Enabled(n + 1) THEN Snake8TurnLength ELSE a.turnLength]
      BY <3>1 DEF NextSnapshot, s
    <3> HIDE DEF a
    <3> DEFINE len == IF IsSnake8Enabled(n + 1) THEN Snake8TurnLength ELSE a.turnLength
    <3>5. len \in Nat \ {0}
      BY <3>3, LengthAssumption DEF SnapshotOK, Snapshots
    <3>6. /\ SnapshotOK(snap') /\ snap'.number = n /\ snap'.turnLength = len
          /\ snap'.isSnake8 = a.isSnake8 /\ snap'.recents = a.recents
          /\ snap'.validators = a.validators
      <4> DEFINE t == Renumbered(a, n, len)
      <4>1. n \in 0..MaxBlock /\ snap' = t
        BY <2>1, <3>4 DEF Renumbered
      <4> HIDE DEF len, n
      <4>2. /\ SnapshotOK(t) /\ t.number = n /\ t.turnLength = len
            /\ t.isSnake8 = a.isSnake8 /\ t.recents = a.recents
            /\ t.validators = a.validators
        BY <3>3, <3>5, <4>1, NumberFields
      <4> HIDE DEF t
      <4> QED
        BY <4>1, <4>2
    <3>7. TypeOK'
      BY <2>1, <2>3, <2>4, <2>5, <3>1, <3>6 DEF TypeOK, HeaderOK, SnapshotOK
    <3>8. ASSUME ~snap'.isSnake8
          PROVE  Window(snap', n, c) /\ (snap'.turnLength # 1 => IsBohr(n))
      <4>1. ~IsSnake8Enabled(n + 1) /\ ~snap.isSnake8
        <5>1. ~IsSnake8Enabled(n + 1)
          BY <3>2, <3>3, <3>6, <3>8
        <5>2. ~IsSnake8Enabled(n)
          BY <2>1, <5>1, ForkAssumption DEF IsSnake8Enabled
        <5> QED
          BY <5>1, <5>2
      <4>2. ~IsBohr(n) => snap.turnLength = 1
        BY <2>1, <4>1, ForkAssumption DEF IsBohr
      <4>3. Window(snap, n - 1, c)
        <5>1. Gapless(DOMAIN snap.recents, n - 1, Limit(snap))
          BY <2>1, <4>1 DEF RecentsIsWindow
        <5>2. DOMAIN snap.recents \subseteq 0..(n - 1)
          BY <2>1, <5>1 DEF Gapless
        <5> QED
          BY <2>3, <4>1, <5>1, <5>2 DEF RecentsIsWindow, Window
      <4>4. Window(a, n, c)
        BY <3>2, <3>3, <4>2, <4>3 DEF Window
      <4>5. Limit(snap') = Limit(a)
        BY <3>6, <4>1 DEF Limit, MinerHistoryCheckLen
      <4> QED
        BY <3>2, <3>3, <3>6, <4>1, <4>2, <4>4, <4>5 DEF Window
    <3>9. RecentsIsWindow'
      BY <2>1, <3>6, <3>8 DEF RecentsIsWindow, Window
    <3> QED
      BY <2>1, <2>3, <2>4, <3>2, <3>3, <3>6, <3>7, <3>8, <3>9
  <2> QED
    BY <2>6, <2>7
<1> QED
  BY <1>1, <1>2 DEF Next

\* The inductive invariant holds in every state.
LEMMA WindowInvariant == Spec => []WindowInv
BY InitWindow, NextWindow, PTL DEF Spec

\* Type correctness of the chain and of its head snapshot.
THEOREM TypeCorrect == Spec => []TypeOK
<1>1. WindowInv => TypeOK
  BY DEF WindowInv
<1> QED
  BY WindowInvariant, <1>1, PTL

\* RecentsIsWindow for every set of addresses, every sequence of validator
\* lists, turn lengths and attestations, and every fork schedule.
THEOREM RecentsWindow == Spec => []RecentsIsWindow
<1>1. WindowInv => RecentsIsWindow
  BY DEF WindowInv
<1> QED
  BY WindowInvariant, <1>1, PTL

----------------------------------------------------------------------------
(* An accepted header can be applied, under every schedule of forks.       *)

\* Division with remainder.
LEMMA DivMod ==
  ASSUME NEW n \in Nat, NEW len \in Nat \ {0}
  PROVE  /\ n \div len \in Nat /\ n % len \in 0..(len - 1)
         /\ n = len * (n \div len) + (n % len)
BY Z3

\* A non-zero multiple of len is at least len away from zero.
LEMMA MultipleApart ==
  ASSUME NEW len \in Nat \ {0}, NEW d \in Int, d # 0
  PROVE  len * d >= len \/ len * d <= -len
BY Z3

\* Rounding down to a multiple of the epoch length.
LEMMA EpochStart ==
  ASSUME NEW n \in Nat, NEW len \in Nat \ {0}
  PROVE  (n - (n % len)) % len = 0
<1> DEFINE m == n - (n % len)
           q == n \div len
           p == m \div len
           r == m % len
<1>1. q \in Nat /\ n % len \in 0..(len - 1) /\ n = len * q + (n % len)
  BY DivMod, Zenon
<1>0. len * q \in Nat
  BY <1>1
<1>2. m \in Nat /\ m = len * q
  BY <1>1, <1>0
<1> HIDE DEF m, q
<1>3. p \in Nat /\ r \in 0..(len - 1) /\ m = len * p + r
  BY <1>2, DivMod, Zenon
<1> HIDE DEF p, r
<1>4. len * (q - p) = r
  BY <1>1, <1>2, <1>3
<1>5. q - p = 0
  <2>1. ASSUME q - p # 0 PROVE FALSE
    <3>1. len * (q - p) >= len \/ len * (q - p) <= -len
      BY <1>1, <1>3, <2>1, MultipleApart
    <3> QED
      BY <1>3, <1>4, <3>1
  <2> QED
    BY <2>1
<1>6. r = 0
  BY <1>4, <1>5
<1> QED
  BY <1>6 DEF r, m

\* The blocks that CountRecents counts.
Counted(s, v) == {k \in DOMAIN s.recents : k > LeftHistoryBound(s) /\ s.recents[k] = v}

\* They are finitely many.
LEMMA CountedFinite ==
  ASSUME NEW s, SnapshotOK(s), NEW v
  PROVE  IsFiniteSet(Counted(s, v)) /\ CountRecents(s, v) \in Nat
<1>1. IsFiniteSet(1..MaxBlock)
  BY BoundAssumption, FS_Interval
<1>2. Counted(s, v) \in SUBSET (1..MaxBlock)
  BY DEF Counted, SnapshotOK
<1>3. IsFiniteSet(Counted(s, v))
  BY <1>1, <1>2, FS_Subset, Zenon
<1>4. CountRecents(s, v) = Cardinality(Counted(s, v))
  BY DEF CountRecents, Counted
<1> QED
  BY <1>3, <1>4, FS_CardinalityType

\* The deletion in apply cannot make a validator look more recent.
LEMMA ExpiredCount ==
  ASSUME NEW s, SnapshotOK(s), NEW n \in Nat, NEW v, ~SignRecently(s, v)
  PROVE  ~SignRecently(Expire(s, n), v)
<1> DEFINE e == Expire(s, n)
<1>1. /\ SnapshotOK(e) /\ SameTurns(s, e) /\ e.number = s.number
      /\ e.recents = Drop(s.recents, {n - (MinerHistoryCheckLen(s) + 1)})
  BY ExpireFields, Zenon
<1> HIDE DEF e
<1>2. LeftHistoryBound(e) = LeftHistoryBound(s) /\ e.turnLength = s.turnLength
  BY <1>1 DEF LeftHistoryBound, MinerHistoryCheckLen, SameTurns
<1>3. /\ DOMAIN e.recents \subseteq DOMAIN s.recents
      /\ \A k \in DOMAIN e.recents : e.recents[k] = s.recents[k]
  BY <1>1 DEF Drop, Restrict
<1>4. Counted(e, v) \in SUBSET Counted(s, v)
  BY <1>2, <1>3 DEF Counted
<1>5. CountRecents(e, v) <= CountRecents(s, v)
  <2>1. Cardinality(Counted(e, v)) <= Cardinality(Counted(s, v))
    BY <1>4, CountedFinite, FS_Subset
  <2> QED
    BY <2>1 DEF CountRecents, Counted
<1>6. CountRecents(e, v) \in Nat /\ CountRecents(s, v) \in Nat /\ s.turnLength \in Nat
  BY <1>1, CountedFinite, Zenon DEF SnapshotOK, Snapshots
<1>7. ~(CountRecents(e, v) >= e.turnLength)
  BY <1>2, <1>5, <1>6 DEF SignRecently
<1> QED
  BY <1>7 DEF SignRecently, e

\* With turn length 1 and an exact window, the scan of all of Recents after the
\* deletion finds no one whom the count in verifySeal let through.
LEMMA ExpiredScan ==
  ASSUME NEW s, SnapshotOK(s), NEW n \in Nat \ {0}, s.number = n - 1, s.turnLength = 1,
         Gapless(DOMAIN s.recents, n - 1, Limit(s)), NEW v, ~SignRecently(s, v)
  PROVE  \A k \in DOMAIN Expire(s, n).recents : Expire(s, n).recents[k] # v
<1> DEFINE e == Expire(s, n)
<1>1. e.recents = Drop(s.recents, {n - (MinerHistoryCheckLen(s) + 1)})
  BY ExpireFields
<1>2. CountRecents(s, v) = 0
  BY CountedFinite DEF SignRecently
<1>3. Counted(s, v) = {}
  BY <1>2, CountedFinite, FS_EmptySet DEF CountRecents, Counted
<1> HIDE DEF e
<1>4. SUFFICES ASSUME NEW k \in DOMAIN e.recents, e.recents[k] = v PROVE FALSE
  BY DEF e
<1>5. k \in DOMAIN s.recents /\ k # n - (MinerHistoryCheckLen(s) + 1) /\ s.recents[k] = v
  BY <1>1, <1>4 DEF Drop, Restrict
<1>6. PICK b \in (n - 1 - Limit(s))..(n - 1) : DOMAIN s.recents = {j \in 1..(n - 1) : j > b}
  BY DEF Gapless
<1>7. MinerHistoryCheckLen(s) \in Nat
  BY CheckLenNat
<1>8. k > LeftHistoryBound(s)
  BY <1>5, <1>6, <1>7 DEF LeftHistoryBound, Limit
<1> QED
  BY <1>3, <1>5, <1>8 DEF Counted

\* No multiple of the epoch length lies between n % len and n.
LEMMA MultipleBelow ==
  ASSUME NEW n \in Nat, NEW len \in Nat \ {0}, NEW e \in 0..n, e % len = 0
  PROVE  e <= n - (n % len)
<1> DEFINE q == n \div len
           r == n % len
           a == e \div len
<1>1. q \in Nat /\ r \in 0..(len - 1) /\ n = len * q + r
  BY DivMod, Zenon
<1>2. a \in Nat /\ e = len * a
  BY DivMod
<1> HIDE DEF q, r, a
<1>3. len * q \in Nat /\ len * a \in Nat
  BY <1>1, <1>2
<1> SUFFICES ASSUME e > len * q PROVE FALSE
  BY <1>1, <1>2, <1>3 DEF r
<1>4. len * (a - q) > 0 /\ len * (a - q) < len
  <2>1. len * (a - q) = len * a - len * q
    BY <1>1, <1>2
  <2> QED BY <1>1, <1>2, <1>3, <2>1
<1>5. a - q # 0
  BY <1>1, <1>2, <1>4
<1> QED BY <1>1, <1>2, <1>4, <1>5, MultipleApart

\* From block e on the epoch length has been the present one, and e starts an epoch.
ListedFrom(e) ==
  /\ e \in 0..(snap.number + 1) /\ e % snap.epochLength = 0
  /\ \A k \in e..snap.number : k % snap.epochLength = 0 => chain[k].validators # {}

\* What a switch needs: every epoch block since the epoch length last changed
\* carries a list, and the length changes only where an epoch of the new one starts.
AppliedInv ==
  /\ WindowInv
  /\ ~applyError
  /\ \E e \in Nat : ListedFrom(e)

\* What an import may rely on.
LEMMA ImportFacts ==
  ASSUME WindowInv, NEW h, NEW freq, Import(h, freq)
  PROVE  LET n == snap.number + 1
         IN  /\ ~applyError
             /\ n \in 1..MaxBlock /\ n \in 0..MaxBlock /\ n \in Nat \ {0} /\ snap.number \in Nat
             /\ SnapshotOK(snap) /\ DOMAIN chain = 0..(n - 1)
             /\ VerifySeal(snap, h.signer)
             /\ chain' = [k \in 0..n |-> IF k = n THEN h ELSE chain[k]]
<1>1. /\ ~applyError /\ snap.number + 1 <= MaxBlock /\ VerifySeal(snap, h.signer)
      /\ chain' = [k \in 0..(snap.number + 1) |-> IF k = snap.number + 1 THEN h ELSE chain[k]]
  BY DEF Import
<1>2. SnapshotOK(snap) /\ DOMAIN chain = 0..snap.number
  BY <1>1 DEF WindowInv, TypeOK
<1>3. snap.number \in 0..MaxBlock
  BY <1>2 DEF SnapshotOK, Snapshots
<1>4. snap.number \in Nat /\ snap.number + 1 - 1 = snap.number
  BY <1>3
<1> QED
  BY <1>1, <1>2, <1>3, <1>4, BoundAssumption

\* The epoch length of the next snapshot.
LEMMA NextLength ==
  ASSUME WindowInv, NEW h \in Headers(snap, snap.number + 1), NEW freq, Import(h, freq), ~applyError'
  PROVE  snap'.epochLength = NextEpochLength(snap.epochLength, snap.number + 1)
<1> DEFINE n == snap.number + 1
           c == [k \in 0..n |-> IF k = n THEN h ELSE chain[k]]
           s == [snap EXCEPT !.isSnake8 = IsSnake8Enabled(n + 1)]
           a == ApplyHeader(s, n, c)
           len == IF IsSnake8Enabled(n + 1) THEN Snake8TurnLength ELSE a.turnLength
<1>1. /\ ~applyError /\ n \in 1..MaxBlock /\ n \in 0..MaxBlock /\ SnapshotOK(snap) /\ snap.number \in Nat
      /\ DOMAIN chain = 0..(n - 1)
  BY ImportFacts
<1>2. HeaderOK(h, n)
  BY <1>1, ImportedHeaderOK
<1>3. \A k \in 0..n : HeaderOK(c[k], k)
  BY <1>1, <1>2 DEF WindowInv
<1>4. CanApply(s, n, c) /\ snap' = NextSnapshot(snap, n, c)
  BY DEF Import
<1>5. SnapshotOK(s) /\ s.epochLength = snap.epochLength
  <2>1. IsSnake8Enabled(n + 1) \in BOOLEAN
    BY DEF IsSnake8Enabled
  <2> QED
    BY <1>1, <2>1, FlagFields
<1>6. snap' = Renumbered(a, n, len)
  BY <1>4 DEF NextSnapshot, Renumbered
<1> HIDE DEF c, s
<1>7. SnapshotOK(a) /\ a.epochLength = NextEpochLength(s.epochLength, n)
  BY <1>1, <1>3, <1>4, <1>5, ApplyStep
<1> HIDE DEF a
<1>8. len \in Nat \ {0}
  BY <1>7, LengthAssumption DEF SnapshotOK, Snapshots
<1> HIDE DEF n, len
<1>9. snap'.epochLength = a.epochLength
  BY <1>1, <1>6, <1>7, <1>8, NumberFields
<1> QED
  BY <1>5, <1>7, <1>9 DEF n

\* A header that passes verifySeal passes apply, and a switch finds its list.
LEMMA AcceptedApplies ==
  ASSUME AppliedInv, NEW h \in Headers(snap, snap.number + 1), NEW freq, Import(h, freq)
  PROVE  LET n == snap.number + 1
         IN  CanApply([snap EXCEPT !.isSnake8 = IsSnake8Enabled(n + 1)], n,
                      [k \in 0..n |-> IF k = n THEN h ELSE chain[k]])
<1> DEFINE n == snap.number + 1
           c == [k \in 0..n |-> IF k = n THEN h ELSE chain[k]]
           s == [snap EXCEPT !.isSnake8 = IsSnake8Enabled(n + 1)]
           e == Expire(s, n)
<1>1. /\ n \in 1..MaxBlock /\ n \in Nat \ {0} /\ SnapshotOK(snap) /\ snap.number \in Nat
      /\ DOMAIN chain = 0..(n - 1) /\ VerifySeal(snap, h.signer)
  BY ImportFacts DEF AppliedInv
<1> USE DEF AppliedInv, WindowInv
<1>2. c[n] = h /\ \A k \in 0..(n - 1) : c[k] = chain[k]
  BY <1>1
<1>3. /\ SnapshotOK(s) /\ s.isSnake8 = IsSnake8Enabled(n + 1)
      /\ s.turnLength = snap.turnLength /\ s.recents = snap.recents /\ s.validators = snap.validators
      /\ s.epochLength = snap.epochLength /\ s.number = n - 1
  <2>1. IsSnake8Enabled(n + 1) \in BOOLEAN
    BY DEF IsSnake8Enabled
  <2>2. /\ SnapshotOK(s) /\ s.isSnake8 = IsSnake8Enabled(n + 1)
        /\ s.turnLength = snap.turnLength /\ s.recents = snap.recents /\ s.validators = snap.validators
        /\ s.epochLength = snap.epochLength /\ s.number = snap.number
    BY <1>1, <2>1, FlagFields
  <2> QED
    BY <1>1, <2>2
<1> HIDE DEF s, c
<1>4. h.signer \in s.validators /\ ~SignRecently(s, h.signer)
  <2>1. MinerHistoryCheckLen(s) = MinerHistoryCheckLen(snap)
    BY <1>3 DEF MinerHistoryCheckLen
  <2>2. LeftHistoryBound(s) = LeftHistoryBound(snap)
    BY <1>1, <1>3, <2>1 DEF LeftHistoryBound
  <2>3. CountRecents(s, h.signer) = CountRecents(snap, h.signer)
    BY <1>3, <2>2 DEF CountRecents
  <2> QED
    BY <1>1, <1>3, <2>3 DEF VerifySeal, SignRecently
<1>5. SnapshotOK(e) /\ SameTurns(s, e)
  BY <1>1, <1>3, ExpireFields, Zenon
<1>6. MayApply(e, n, h.signer)
  <2>1. IsBohr(n) => ~SignRecently(e, h.signer)
    BY <1>1, <1>3, <1>4, ExpiredCount
  <2>2. ASSUME ~IsBohr(n), ~s.isSnake8
        PROVE  \A k \in DOMAIN e.recents : e.recents[k] # h.signer
    <3>1. ~snap.isSnake8
      <4>1. ~IsSnake8Enabled(n + 1)
        BY <1>3, <2>2
      <4>2. ~IsSnake8Enabled(n)
        BY <1>1, <4>1, ForkAssumption DEF IsSnake8Enabled
      <4> QED
        BY <4>2
    <3>2. snap.turnLength = 1
      BY <1>1, <2>2, <3>1, ForkAssumption DEF IsBohr
    <3>3. Gapless(DOMAIN s.recents, n - 1, Limit(s))
      BY <1>1, <1>3, <3>1 DEF RecentsIsWindow, Limit, MinerHistoryCheckLen
    <3> QED
      BY <1>1, <1>3, <1>4, <3>2, <3>3, ExpiredScan
  <2> QED
    BY <1>4, <1>5, <2>1, <2>2 DEF MayApply, SameTurns
<1>7. ASSUME Switches(e, n, s.epochLength)
      PROVE  c[n - MinerHistoryCheckLen(s)].validators # {}
  <2> DEFINE cp == n - MinerHistoryCheckLen(s)
             len == snap.epochLength
  <2>0. len \in Nat \ {0}
    BY <1>1, LengthAssumption DEF SnapshotOK, Snapshots
  <2>1. n % len = MinerHistoryCheckLen(s)
    BY <1>3, <1>5, <1>7 DEF Switches, SameTurns, MinerHistoryCheckLen
  <2>2. cp \in 0..n /\ cp % len = 0 /\ cp = n - (n % len)
    <3> HIDE DEF len
    <3>1. n % len \in 0..n /\ (n - (n % len)) % len = 0
      BY <1>1, <2>0, ModAtMost, EpochStart, Zenon
    <3>2. cp = n - (n % len)
      BY <2>1, Zenon
    <3>3. n - (n % len) \in 0..n
      BY <1>1, <3>1
    <3> QED
      BY <3>1, <3>2, <3>3, Zenon
  <2>3. CASE cp = n
    <3>1. EpochLists(snap, n) = Lists
      BY <2>2, <2>3 DEF EpochLists
    <3>2. h.validators # {}
      BY <3>1, BoundAssumption DEF Headers
    <3> QED
      BY <1>2, <2>3, <3>2
  <2>4. CASE cp # n
    <3>1. cp \in 0..(n - 1)
      BY <1>1, <2>2, <2>4
    <3>2. PICK b \in Nat : ListedFrom(b)
      BY Zenon
    <3>3. b \in 0..n /\ b % len = 0 /\ \A k \in b..(n - 1) : k % len = 0 => chain[k].validators # {}
      BY <1>1, <3>2 DEF ListedFrom
    <3> HIDE DEF len, cp
    <3>4. b <= cp
      BY <1>1, <2>0, <2>2, <3>3, MultipleBelow
    <3>5. cp \in b..(n - 1)
      BY <3>1, <3>2, <3>4
    <3> QED
      BY <1>2, <2>2, <3>1, <3>3, <3>5 DEF cp
  <2> QED
    BY <2>3, <2>4
<1>8. ASSUME Switches(e, n, s.epochLength), IsLuban(n)
      PROVE  IsLuban(n - MinerHistoryCheckLen(s))
  <2> DEFINE half == Cardinality(snap.validators) \div 2
             len  == snap.epochLength
  <2> SUFFICES ASSUME n - MinerHistoryCheckLen(s) < LubanAt PROVE FALSE
    BY <1>1, <1>3, CheckLenNat, ForkAssumption DEF IsLuban
  <2>1. n % len = MinerHistoryCheckLen(s) /\ len \in {DefaultEpochLength, LorentzEpochLength, MaxwellEpochLength}
    BY <1>1, <1>3, <1>5, <1>8 DEF Switches, SameTurns, MinerHistoryCheckLen, SnapshotOK, Snapshots
  <2>2. n \in LubanAt..MaxBlock
    BY <1>1, <1>8, BoundAssumption, ForkAssumption DEF IsLuban
  <2>3. n < BohrAt /\ n <= Snake8At /\ \A l \in Lists : n % len # Cardinality(l) \div 2
    BY <2>1, <2>2, LubanAssumption
  <2>4. snap.turnLength = 1
    <3>1. ~IsSnake8Enabled(snap.number + 1) /\ ~IsBohr(snap.number)
      BY <1>1, <2>3, ForkAssumption DEF IsBohr, IsSnake8Enabled
    <3>2. /\ snap.isSnake8 = IsSnake8Enabled(snap.number + 1)
          /\ ~snap.isSnake8 /\ snap.turnLength # 1 => IsBohr(snap.number)
      OBVIOUS
    <3> QED BY <3>1, <3>2
  <2>5. snap.validators \in Lists /\ half \in Nat
    BY <1>1, ValidatorsFinite DEF SnapshotOK, Snapshots
  <2>6. MinerHistoryCheckLen(s) = (half + 1) * 1 - 1
    BY <1>3, <2>4 DEF MinerHistoryCheckLen
  <2> HIDE DEF half, len
  <2>7. MinerHistoryCheckLen(s) = half
    BY <2>5, <2>6
  <2> QED BY <2>1, <2>3, <2>5, <2>7 DEF half
<1>9. CanApply(s, n, c)
  BY <1>2, <1>6, <1>7, <1>8 DEF CanApply
<1> QED
  BY <1>9 DEF s, c

\* AppliedInv is inductive: when the epoch length changes, the next block starts
\* an epoch of the new length.
LEMMA AppliedInvariant == Spec => []AppliedInv
<1>1. Init => AppliedInv
  <2> SUFFICES ASSUME Init PROVE AppliedInv
    OBVIOUS
  <2>1. WindowInv /\ ~applyError
    BY InitWindow DEF Init
  <2>2. snap.epochLength = DefaultEpochLength /\ snap.number = 0
    BY DEF Init, NewSnapshot
  <2>3. DOMAIN chain = {0} /\ \A k \in DOMAIN chain : chain[k].validators # {}
    BY BoundAssumption DEF Init
  <2>4. ListedFrom(0)
    BY <2>2, <2>3, LengthAssumption DEF ListedFrom
  <2> QED
    BY <2>1, <2>4 DEF AppliedInv
<1>2. AppliedInv /\ [Next]_vars => AppliedInv'
  <2> SUFFICES ASSUME AppliedInv, [Next]_vars PROVE AppliedInv'
    OBVIOUS
  <2>1. WindowInv'
    BY NextWindow DEF AppliedInv
  <2>2. CASE UNCHANGED vars
    <3>1. \A e : ListedFrom(e) => ListedFrom(e)'
      BY <2>2 DEF ListedFrom, vars
    <3> QED
      BY <2>1, <2>2, <3>1 DEF AppliedInv, vars
  <2>3. ASSUME NEW h \in Headers(snap, snap.number + 1), NEW freq \in Frequencies(snap), Import(h, freq)
        PROVE  AppliedInv'
    <3> DEFINE n == snap.number + 1
               len == snap.epochLength
    <3>0. WindowInv
      BY DEF AppliedInv
    <3>1. /\ n \in 1..MaxBlock /\ n \in Nat /\ snap.number \in Nat /\ SnapshotOK(snap)
          /\ chain' = [k \in 0..n |-> IF k = n THEN h ELSE chain[k]] /\ DOMAIN chain = 0..(n - 1)
      BY <2>3, <3>0, ImportFacts, Zenon
    <3>2. ~applyError'
      BY <2>3, AcceptedApplies, Zenon DEF Import, AppliedInv
    <3>3. snap'.epochLength = NextEpochLength(len, n) /\ snap'.number = n
      <4>1. snap'.epochLength = NextEpochLength(len, n)
        BY <2>3, <3>0, <3>2, NextLength
      <4>2. DOMAIN chain' = 0..snap'.number /\ SnapshotOK(snap')
        BY <2>1, <3>2 DEF WindowInv, TypeOK
      <4>3. snap'.number \in Nat /\ DOMAIN chain' = 0..n
        BY <3>1, <4>2 DEF SnapshotOK, Snapshots
      <4>4. snap'.number = n
        BY <3>1, <4>2, <4>3
      <4> QED BY <4>1, <4>4
    <3>4. PICK e \in Nat : ListedFrom(e)
      BY Zenon DEF AppliedInv
    <3>5. CASE snap'.epochLength = len
      <4>1. n % len = 0 => h.validators # {}
        BY BoundAssumption DEF Headers, EpochLists
      <4>2. ListedFrom(e)'
        BY <3>1, <3>3, <3>4, <3>5, <4>1 DEF ListedFrom
      <4> QED
        BY <2>1, <3>2, <4>2 DEF AppliedInv
    <3>6. CASE snap'.epochLength # len
      <4>1. (n + 1) % snap'.epochLength = 0
        BY <3>3, <3>6 DEF NextEpochLength
      <4>2. n + 1 \in Nat /\ n + 1 \in 0..(n + 1) /\ (n + 1)..n = {}
        BY <3>1
      <4>3. \E b \in Nat : ListedFrom(b)'
        <5> HIDE DEF n, len
        <5> SUFFICES /\ n + 1 \in 0..(snap'.number + 1) /\ (n + 1) % snap'.epochLength = 0
                     /\ \A k \in (n + 1)..snap'.number : k % snap'.epochLength = 0 => chain'[k].validators # {}
          BY <4>2, Zenon DEF ListedFrom
        <5> QED BY <3>3, <4>1, <4>2
      <4> QED
        BY <2>1, <3>2, <4>3 DEF AppliedInv
    <3> QED
      BY <3>5, <3>6
  <2> QED
    BY <2>2, <2>3 DEF Next
<1> QED
  BY <1>1, <1>2, PTL DEF Spec

\* AcceptedIsApplicable for every set of addresses, every sequence of lists and
\* turn lengths, and every schedule of forks, the two changes of the epoch length
\* included, in which Luban comes neither between an epoch block and its set switch
\* nor at that switch (LubanAssumption): apply takes every header that verifySeal
\* let through, and does not panic on it.
THEOREM AcceptedApplicable == Spec => []AcceptedIsApplicable
<1>1. AppliedInv => AcceptedIsApplicable
  BY DEF AppliedInv, AcceptedIsApplicable
<1> QED
  BY <1>1, AppliedInvariant, PTL

\* Without Lorentz and Maxwell there is one epoch length.
OneLengthInv ==
  /\ AppliedInv
  /\ snap.epochLength = DefaultEpochLength
  /\ \A k \in DOMAIN chain : k % DefaultEpochLength = 0 => chain[k].validators # {}

LEMMA OneLengthInvariant ==
  ASSUME LorentzAt > MaxBlock, MaxwellAt > MaxBlock
  PROVE  Spec => []OneLengthInv
<1>1. Init => snap.epochLength = DefaultEpochLength /\ \A k \in DOMAIN chain : chain[k].validators # {}
  BY BoundAssumption DEF Init, NewSnapshot
<1>2. OneLengthInv /\ AppliedInv' /\ [Next]_vars => OneLengthInv'
  <2> SUFFICES ASSUME OneLengthInv, AppliedInv', [Next]_vars PROVE OneLengthInv'
    OBVIOUS
  <2>1. CASE UNCHANGED vars
    BY <2>1 DEF OneLengthInv, vars
  <2>2. ASSUME NEW h \in Headers(snap, snap.number + 1), NEW freq \in Frequencies(snap), Import(h, freq)
        PROVE  OneLengthInv'
    <3> DEFINE n == snap.number + 1
    <3>0. WindowInv /\ ~applyError'
      BY DEF OneLengthInv, AppliedInv
    <3>1. /\ n \in 1..MaxBlock /\ snap.number \in Nat /\ DOMAIN chain = 0..(n - 1)
          /\ chain' = [k \in 0..n |-> IF k = n THEN h ELSE chain[k]]
      BY <2>2, <3>0, ImportFacts, Zenon
    <3>2. snap'.epochLength = NextEpochLength(DefaultEpochLength, n)
      BY <2>2, <3>0, NextLength DEF OneLengthInv
    <3>3. ~IsLorentz(n) /\ ~IsMaxwell(n)
      BY <3>1, ForkAssumption, BoundAssumption DEF IsLorentz, IsMaxwell
    <3>4. snap'.epochLength = DefaultEpochLength
      BY <3>2, <3>3 DEF NextEpochLength
    <3>5. n % DefaultEpochLength = 0 => h.validators # {}
      BY BoundAssumption DEF Headers, EpochLists, OneLengthInv
    <3>6. ASSUME NEW k \in DOMAIN chain', k % DefaultEpochLength = 0
          PROVE  chain'[k].validators # {}
      <4>1. k \in 0..n /\ chain'[k] = IF k = n THEN h ELSE chain[k]
        BY <3>1, <3>6
      <4>2. CASE k = n
        BY <3>5, <3>6, <4>1, <4>2
      <4>3. CASE k # n
        <5>1. k \in DOMAIN chain
          BY <3>1, <4>1, <4>3
        <5> QED BY <3>6, <4>1, <4>3, <5>1 DEF OneLengthInv
      <4> QED BY <4>2, <4>3
    <3> QED
      BY <3>4, <3>6 DEF OneLengthInv
  <2> QED
    BY <2>1, <2>2 DEF Next
<1>3. Init /\ AppliedInv => OneLengthInv
  BY <1>1 DEF OneLengthInv
<1> QED
  BY <1>2, <1>3, AppliedInvariant, PTL DEF Spec

----------------------------------------------------------------------------
(* Who is in turn, and whether Finalize slashes it fairly.                 *)

\* Sorting a finite set of addresses gives every position to one of them: the
\* number of smaller addresses is an injection into the positions.
LEMMA RankExists ==
  ASSUME NEW S \in SUBSET Nat, IsFiniteSet(S), NEW i \in 0..(Cardinality(S) - 1)
  PROVE  \E v \in S : Cardinality({w \in S : w < v}) = i
<1> DEFINE below(x) == {y \in S : y < x}
           rank == [v \in S |-> Cardinality(below(v))]
           T == 0..(Cardinality(S) - 1)
<1>1. Cardinality(S) \in Nat
  BY FS_CardinalityType
<1>2. ASSUME NEW v \in S
      PROVE  IsFiniteSet(below(v)) /\ Cardinality(below(v)) \in T
  <2>1. below(v) \in SUBSET S /\ v \notin below(v)
    OBVIOUS
  <2>2. /\ IsFiniteSet(below(v)) /\ Cardinality(below(v)) <= Cardinality(S)
        /\ Cardinality(S) = Cardinality(below(v)) => S = below(v)
    BY <2>1, FS_Subset
  <2>3. Cardinality(below(v)) \in Nat
    BY <2>2, FS_CardinalityType
  <2>4. Cardinality(S) # Cardinality(below(v))
    BY <2>1, <2>2
  <2> HIDE DEF below
  <2> QED BY <1>1, <2>2, <2>3, <2>4
<1>3. ASSUME NEW v \in S, NEW w \in S, v < w
      PROVE  Cardinality(below(v)) # Cardinality(below(w))
  <2>0. \A x \in S : x \in Nat
    OBVIOUS
  <2>1. below(v) \in SUBSET below(w) /\ v \in below(w) /\ v \notin below(v)
    <3>1. v \in Nat /\ w \in Nat /\ v < w
      BY <1>3, <2>0
    <3>2. \A y \in S : y < v => y < w
      BY <2>0, <3>1
    <3>3. ~(v < v)
      BY <3>1
    <3>4. below(v) \subseteq below(w)
      BY <3>2, Zenon
    <3>5. v \in below(w) /\ v \notin below(v)
      BY <3>1, <3>3, Zenon
    <3> QED BY <3>4, <3>5, Zenon
  <2>2. IsFiniteSet(below(w))
    BY <1>2
  <2>3. Cardinality(below(w)) = Cardinality(below(v)) => below(w) = below(v)
    BY <2>1, <2>2, FS_Subset
  <2> QED BY <2>1, <2>3
<1> HIDE DEF below
<1>4. rank \in [S -> T]
  BY <1>2
<1>5. \A v, w \in S : rank[v] = rank[w] => v = w
  <2> SUFFICES ASSUME NEW v \in S, NEW w \in S, rank[v] = rank[w], v # w PROVE FALSE
    OBVIOUS
  <2>1. v < w \/ w < v
    OBVIOUS
  <2> QED BY <1>3, <2>1
<1>6. rank \in Injection(S, T)
  BY <1>4, <1>5 DEF Injection, IsInjective
<1>7. IsFiniteSet(T) /\ Cardinality(T) = Cardinality(S)
  BY <1>1, FS_Interval
<1>8. rank \in Surjection(S, T)
  BY <1>6, <1>7, FS_Injection
<1>9. PICK v \in S : rank[v] = i
  BY <1>8, Zenon DEF Surjection
<1> QED BY <1>9, Zenon DEF below

\* inturnValidator answers a validator of the set, unless a table names another.
LEMMA InturnIsValidator ==
  ASSUME NEW s, SnapshotOK(s), NEW freq, ~s.isSnake8
  PROVE  InturnValidator(s, freq) \in s.validators
<1> DEFINE V == s.validators
           i == ((s.number + 1) \div s.turnLength) % Cardinality(V)
<1>1. V \subseteq Addr /\ V # {} /\ V \in SUBSET Nat
  BY BoundAssumption, AddrAssumption DEF SnapshotOK, Snapshots
<1>2. IsFiniteSet(V) /\ Cardinality(V) \in Nat /\ Cardinality(V) # 0
  BY <1>1, ValidatorsFinite, FS_EmptySet
<1>3. i \in 0..(Cardinality(V) - 1)
  <2>1. (s.number + 1) \in Nat /\ s.turnLength \in Nat \ {0}
    BY DEF SnapshotOK, Snapshots
  <2>2. (s.number + 1) \div s.turnLength \in Nat
    BY <2>1, DivMod
  <2> QED BY <1>2, <2>2, DivMod, Zenon
<1>4. \E v \in V : Cardinality({w \in V : w < v}) = i
  BY <1>1, <1>2, <1>3, RankExists, Zenon
<1>5. SelectValidatorRoundRobin(s) \in V
  <2>1. SelectValidatorRoundRobin(s) = CHOOSE v \in V : Cardinality({w \in V : w < v}) = i
    BY DEF SelectValidatorRoundRobin, ValidatorAt
  <2> HIDE DEF i
  <2> QED BY <1>4, <2>1, Zenon
<1> QED BY <1>5 DEF InturnValidator

\* A validator with no entry in Recents has not signed recently.
LEMMA NoEntryNotRecent ==
  ASSUME NEW s, SnapshotOK(s), NEW v, \A k \in DOMAIN s.recents : s.recents[k] # v
  PROVE  ~SignRecently(s, v)
<1>1. Counted(s, v) = {}
  BY DEF Counted
<1>2. CountRecents(s, v) = 0
  BY <1>1, FS_EmptySet DEF CountRecents, Counted
<1> QED BY <1>2 DEF SignRecently, SnapshotOK, Snapshots

\* Finalize slashes only a validator that verifySeal and apply would both have
\* let seal the block, before and after Plato, Bohr and Snake8, with any sets,
\* turn lengths and frequency tables that name a validator of the set.
LEMMA SlashedCouldSeal == Spec => [][SlashesFairly]_vars
<1>1. WindowInv /\ [Next]_vars => [SlashesFairly]_vars
  <2> SUFFICES ASSUME WindowInv, NEW h \in Headers(snap, snap.number + 1),
                      NEW freq \in Frequencies(snap), Import(h, freq), turn'.slashed,
                      snap.isSnake8 => turn'.validator \in snap.validators
               PROVE  /\ VerifySeal(snap, turn'.validator)
                      /\ MayApply(Expire(snap, snap.number + 1), snap.number + 1, turn'.validator)
    BY DEF Next, SlashesFairly
  <2> DEFINE n == snap.number + 1
             v == InturnValidator(snap, freq)
             e == Expire(snap, n)
  <2>1. n \in Nat \ {0} /\ SnapshotOK(snap) /\ snap.number \in Nat
    BY ImportFacts
  <2>2. turn'.validator = v /\ ~SignedRecentlyForSlash(snap, n, v)
    BY Zenon DEF Import, Slashed
  <2>3. v \in snap.validators
    BY <2>1, <2>2, InturnIsValidator
  <2> HIDE DEF v
  <2>4. ~SignRecently(snap, v)
    BY <2>1, <2>2, NoEntryNotRecent DEF SignedRecentlyForSlash
  <2>5. SameTurns(snap, e)
    BY <2>1, ExpireFields, Zenon
  <2>6. IsBohr(n) => ~SignRecently(e, v)
    BY <2>1, <2>4, ExpiredCount
  <2>7. ASSUME ~IsBohr(n), ~snap.isSnake8
        PROVE  \A k \in DOMAIN e.recents : e.recents[k] # v
    <3>1. snap.turnLength = 1
      BY <2>1, <2>7, ForkAssumption DEF WindowInv, IsBohr
    <3>2. Gapless(DOMAIN snap.recents, n - 1, Limit(snap))
      BY <2>1, <2>7 DEF WindowInv, RecentsIsWindow
    <3> QED BY <2>1, <2>4, <3>1, <3>2, ExpiredScan
  <2> QED BY <2>2, <2>3, <2>4, <2>5, <2>6, <2>7, Zenon DEF VerifySeal, MayApply, SameTurns
<1> QED BY <1>1, WindowInvariant, PTL DEF Spec

\* Before Snake8 a validator in turn that let another one seal is spared by
\* Finalize only if the chain shows that it sealed in the current miner history,
\* its whole turn from Plato on.
LEMMA SparedSealedRecently == Spec => [][~snap.isSnake8 => SparesFairly]_vars
<1>1. WindowInv /\ [Next]_vars => [~snap.isSnake8 => SparesFairly]_vars
  <2> DEFINE n == snap.number
             v == turn'.validator
             sealed == {k \in 1..n : k > n - Limit(snap) /\ chain[k].signer = v}
  <2> SUFFICES ASSUME WindowInv, NEW h \in Headers(snap, n + 1), NEW freq \in Frequencies(snap),
                      Import(h, freq), ~snap.isSnake8, v # chain'[n + 1].signer, ~turn'.slashed
               PROVE  Cardinality(sealed) >= IF IsPlato(n + 1) THEN snap.turnLength ELSE 1
    BY DEF Next, SparesFairly
  <2>1. /\ n \in Nat /\ SnapshotOK(snap)
        /\ chain' = [k \in 0..(n + 1) |-> IF k = n + 1 THEN h ELSE chain[k]]
    BY ImportFacts
  <2>2. SignedRecentlyForSlash(snap, n + 1, v)
    <3>1. v # h.signer
      BY <2>1
    <3>2. v = InturnValidator(snap, freq) /\ turn'.slashed = Slashed(snap, n + 1, h.signer, v)
      BY DEF Import
    <3>3. ~Slashed(snap, n + 1, h.signer, v)
      BY <3>2, Zenon
    <3> QED BY <3>1, <3>3, Zenon DEF Slashed
  <2>3. /\ Gapless(DOMAIN snap.recents, n, Limit(snap))
        /\ \A k \in DOMAIN snap.recents : snap.recents[k] = chain[k].signer
    BY DEF WindowInv, RecentsIsWindow
  <2>4. \A k \in DOMAIN snap.recents : snap.recents[k] = v => k \in sealed
    <3>1. Limit(snap) \in Nat
      BY <2>1, CheckLenNat DEF Limit
    <3> QED BY <2>1, <2>3, <3>1 DEF Gapless
  <2>5. IsFiniteSet(sealed) /\ Cardinality(sealed) \in Nat
    <3>0. n \in Int /\ 1 \in Int
      BY <2>1
    <3>1. IsFiniteSet(1..n)
      BY <3>0, FS_Interval, Zenon
    <3>2. sealed \in SUBSET (1..n)
      OBVIOUS
    <3> QED BY <3>1, <3>2, FS_Subset, FS_CardinalityType, Zenon
  <2>6. CASE IsPlato(n + 1)
    <3>1. CountRecents(snap, v) >= snap.turnLength
      BY <2>2, <2>6 DEF SignedRecentlyForSlash, SignRecently
    <3>2. Counted(snap, v) \in SUBSET sealed
      BY <2>4 DEF Counted
    <3> HIDE DEF sealed
    <3>3. Cardinality(Counted(snap, v)) <= Cardinality(sealed)
      BY <2>5, <3>2, FS_Subset
    <3>4. CountRecents(snap, v) = Cardinality(Counted(snap, v)) /\ CountRecents(snap, v) \in Nat
      BY <2>1, CountedFinite, Zenon DEF CountRecents, Counted
    <3>5. snap.turnLength \in Nat
      BY <2>1 DEF SnapshotOK, Snapshots
    <3> QED BY <2>5, <2>6, <3>1, <3>3, <3>4, <3>5
  <2>7. CASE ~IsPlato(n + 1)
    <3>1. sealed # {}
      BY <2>2, <2>4, <2>7 DEF SignedRecentlyForSlash
    <3> HIDE DEF sealed
    <3>2. Cardinality(sealed) # 0
      BY <2>5, <3>1, FS_EmptySet
    <3> QED BY <2>5, <2>7, <3>2
  <2> QED BY <2>6, <2>7
<1> QED BY <1>1, WindowInvariant, PTL DEF Spec

\* SlashingIsFair: FairSlashing for every fork schedule, set, turn length and
\* frequency table: of the validators of the set, Finalize slashes only one whose
\* own block would have been taken; before Snake8 it slashes nobody else, and spares
\* only one that had its share of the history.
THEOREM SlashingIsFair == Spec => FairSlashing
<1> QED BY SlashedCouldSeal, SparedSealedRecently, PTL DEF FairSlashing
----------------------------------------------------------------------------
(* The rest of what apply does: the attestation, RecentForkHashes, the mark *)
(* of the last switch, and which blocks Recents may name.                  *)

\* The attestation after updateAttestation, from the one before.
Joined(a, n, att) ==
  IF \/ ~IsLuban(n)
     \/ att = NoAttestation
     \/ ~IsFermi(n) /\ att.target + 1 # n
  THEN a
  ELSE IF a # NoAttestation /\ att.source + 1 # att.target THEN [a EXCEPT !.target = att.target] ELSE att

\* The part of apply that precedes a set switch.
LEMMA SignedRest ==
  ASSUME NEW s, SnapshotOK(s), NEW n \in 1..MaxBlock, NEW c, HeaderOK(c[n], n)
  PROVE  LET t == Signed(s, n, c)
         IN  /\ t.attestation = Joined(s.attestation, n, c[n].attestation)
             /\ t.forkBlocks = (s.forkBlocks \ {n - VersionHistoryCheckLen(s)}) \cup {n}
             /\ t.attestation.source < n => n \in DOMAIN t.recents
             /\ DOMAIN t.recents = {k \in (DOMAIN s.recents \ {n - Limit(s)}) \cup {n} :
                                      IsMaxwell(n) => k > t.attestation.source}
<1> DEFINE e == Expire(s, n)
           u == UpdateAttestation(e, n, c[n].attestation)
           g == RecordSigner(u, n, c[n].signer)
           t == Signed(s, n, c)
<1>0. n \in Nat /\ c[n].signer \in Addr /\ c[n].attestation \in [source : Nat, target : Nat]
  BY BoundAssumption DEF HeaderOK
<1>1. /\ SnapshotOK(e) /\ e.attestation = s.attestation
      /\ e.forkBlocks = s.forkBlocks \ {n - VersionHistoryCheckLen(s)}
  <2>1. SnapshotOK(e)
    BY <1>0, ExpireFields, Zenon
  <2> QED BY <2>1, Zenon DEF Expire, SnapshotOK, Snapshots
<1> HIDE DEF e
<1>2. /\ SnapshotOK(u) /\ u.forkBlocks = e.forkBlocks
      /\ u.attestation = Joined(e.attestation, n, c[n].attestation)
  <2>1. SnapshotOK(u)
    BY <1>0, <1>1, AttestationFields
  <2>2. e \in Snapshots(e.recents)
    BY <1>1 DEF SnapshotOK
  <2> QED BY <2>1, <2>2 DEF UpdateAttestation, Joined, Snapshots
<1> HIDE DEF u
<1>3. /\ SnapshotOK(g) /\ g.attestation = u.attestation
      /\ g.forkBlocks = u.forkBlocks \cup {n}
      /\ DOMAIN g.recents = {k \in DOMAIN u.recents \cup {n} :
                               IsMaxwell(n) => k > GetFinalizedNumber(u)}
  <2>1. /\ SnapshotOK(g)
        /\ DOMAIN g.recents = {k \in DOMAIN u.recents \cup {n} :
                                 IsMaxwell(n) => k > GetFinalizedNumber(u)}
    BY <1>0, <1>2, RecordFields
  <2>2. u \in Snapshots(u.recents)
    BY <1>2 DEF SnapshotOK
  <2>3. g.attestation = u.attestation /\ g.forkBlocks = u.forkBlocks \cup {n}
    BY <2>2 DEF RecordSigner, Snapshots
  <2> QED BY <2>1, <2>3
<1>4. /\ t.attestation = g.attestation /\ t.forkBlocks = g.forkBlocks /\ t.recents = g.recents
  <2>1. t = [g EXCEPT !.epochLength = NextEpochLength(g.epochLength, n)]
    BY DEF Signed, g, u, e
  <2> HIDE DEF g, t
  <2>2. g \in Snapshots(g.recents)
    BY <1>3 DEF SnapshotOK
  <2> QED BY <2>1, <2>2 DEF Snapshots
<1>5. u.attestation.source < n => n > GetFinalizedNumber(u)
  BY <1>0, <1>2 DEF GetFinalizedNumber, SnapshotOK, Snapshots
<1>6. DOMAIN u.recents = DOMAIN s.recents \ {n - Limit(s)}
  <2>1. e.recents = Drop(s.recents, {n - Limit(s)})
    BY <1>0, ExpireFields, Zenon DEF Limit, e
  <2>2. u.recents = e.recents
    BY <1>0, <1>1, AttestationFields DEF u
  <2> QED BY <2>1, <2>2 DEF Drop, Restrict
<1> HIDE DEF g, t
<1>7. DOMAIN t.recents = {k \in (DOMAIN s.recents \ {n - Limit(s)}) \cup {n} :
                            IsMaxwell(n) => k > t.attestation.source}
  <2>1. t.attestation.source = GetFinalizedNumber(u)
    BY <1>3, <1>4 DEF GetFinalizedNumber
  <2> QED BY <1>3, <1>4, <1>6, <2>1
<1> QED BY <1>1, <1>2, <1>3, <1>4, <1>5, <1>7 DEF t

\* What a set switch makes of s.
SwitchedTo(s, t, n, len, c) ==
  LET cp == n - MinerHistoryCheckLen(s)
  IN  /\ t.validators = c[cp].validators
      /\ t.turnLength = IF cp % len = 0 /\ IsBohr(cp) THEN c[cp].turnLength ELSE s.turnLength
      /\ t.recents = IF IsBohr(n) THEN [k \in {} |-> 0] ELSE ShrinkRecents(s, n, c[cp].validators)
      /\ t.attestation = s.attestation
      /\ t.epochKey = IF IsBohr(n) THEN n \div len ELSE s.epochKey
      /\ t.forkBlocks = s.forkBlocks \
           {n - i : i \in VersionHistoryCheckLen(t)..(VersionHistoryCheckLen(s) - 1)}

LEMMA SwitchRest ==
  ASSUME NEW s, SnapshotOK(s), NEW n, NEW len, NEW c
  PROVE  SwitchedTo(s, SwitchValidators(s, n, len, c), n, len, c)
<1> DEFINE cp == n - MinerHistoryCheckLen(s)
           h  == c[cp]
           tl == IF cp % len = 0 /\ IsBohr(cp) THEN h.turnLength ELSE s.turnLength
           r  == IF IsBohr(n) THEN [k \in {} |-> 0] ELSE ShrinkRecents(s, n, h.validators)
           key == IF IsBohr(n) THEN n \div len ELSE s.epochKey
           u == [s EXCEPT !.turnLength = tl, !.recents = r, !.epochKey = key,
                          !.validators = h.validators]
           f == s.forkBlocks \ {n - i : i \in VersionHistoryCheckLen(u)..(VersionHistoryCheckLen(s) - 1)}
           t == [u EXCEPT !.forkBlocks = f]
<1>1. s \in Snapshots(s.recents)
  BY DEF SnapshotOK
<1>2. SwitchValidators(s, n, len, c) = t
  <2> HIDE DEF tl, r, key
  <2>2. u.forkBlocks = s.forkBlocks
    BY <1>1 DEF Snapshots
  <2> QED BY <2>2 DEF SwitchValidators, tl, r, key
<1> HIDE DEF tl, r, key, f, h
<1>3. /\ t.attestation = s.attestation /\ t.epochKey = key /\ t.forkBlocks = f
      /\ t.validators = h.validators /\ t.turnLength = tl /\ t.recents = r
      /\ t.validators = u.validators /\ t.turnLength = u.turnLength
  BY <1>1 DEF Snapshots
<1>4. VersionHistoryCheckLen(t) = VersionHistoryCheckLen(u)
  BY <1>3 DEF VersionHistoryCheckLen
<1>5. t.forkBlocks = s.forkBlocks \
        {n - i : i \in VersionHistoryCheckLen(t)..(VersionHistoryCheckLen(s) - 1)}
  BY <1>3, <1>4, Zenon DEF f
<1> HIDE DEF u, t
<1>6. SwitchedTo(s, t, n, len, c)
  BY <1>3, <1>5 DEF SwitchedTo, key, tl, r, h
<1> QED BY <1>2, <1>6

\* The length of the client version history is positive.
LEMMA VersionLenNat ==
  ASSUME NEW s, SnapshotOK(s)
  PROVE  VersionHistoryCheckLen(s) \in Nat \ {0}
<1>1. Cardinality(s.validators) \in Nat \ {0}
  <2>1. s.validators # {}
    BY BoundAssumption DEF SnapshotOK, Snapshots
  <2> QED BY <2>1, ValidatorsFinite, FS_EmptySet
<1>2. s.turnLength \in Nat \ {0}
  BY DEF SnapshotOK, Snapshots
<1> QED BY <1>1, <1>2, PositiveProduct DEF VersionHistoryCheckLen

\* What all of apply makes of s.
AppliedTo(s, a, n, c) ==
  LET old == VersionHistoryCheckLen(s)
      new == VersionHistoryCheckLen(a)
  IN  /\ SnapshotOK(a)
      /\ a.attestation = Joined(s.attestation, n, c[n].attestation)
      /\ a.attestation.source < n => n \in DOMAIN a.recents \/ a.epochKey # s.epochKey
      /\ DOMAIN a.recents \subseteq DOMAIN s.recents \cup {n}
      /\ a.forkBlocks = ((s.forkBlocks \ {n - old}) \cup {n}) \ {n - i : i \in new..(old - 1)}
      /\ \/ a.turnLength = s.turnLength
         \/ \E k \in 0..n : c[k].validators # {} /\ IsBohr(k) /\ a.turnLength = c[k].turnLength
      /\ IF Switches(s, n, s.epochLength)
         THEN /\ a.validators = c[n - MinerHistoryCheckLen(s)].validators
              /\ a.epochKey = IF IsBohr(n) THEN n \div s.epochLength ELSE s.epochKey
         ELSE /\ a.validators = s.validators /\ a.epochKey = s.epochKey
              /\ a.turnLength = s.turnLength

\* A switch under the conditions of apply reads a list that is there.
LEMMA SwitchReadsList ==
  ASSUME NEW s, SnapshotOK(s), NEW n \in 1..MaxBlock, NEW c,
         \A k \in 0..n : HeaderOK(c[k], k),
         CanApply(s, n, c), Switches(s, n, s.epochLength)
  PROVE  LET cp == n - MinerHistoryCheckLen(s)
         IN  cp \in 0..n /\ c[cp].validators # {} /\ HeaderOK(c[cp], cp)
<1> DEFINE len == s.epochLength
           cp == n - MinerHistoryCheckLen(s)
<1>1. n \in Nat /\ len \in Nat \ {0} /\ MinerHistoryCheckLen(s) \in Nat
  BY BoundAssumption, LengthAssumption, CheckLenNat DEF SnapshotOK, Snapshots
<1>2. cp \in 0..n
  <2>1. n % len = MinerHistoryCheckLen(s)
    BY DEF Switches
  <2> QED BY <1>1, <2>1, ModAtMost
<1>3. SameTurns(s, Expire(s, n))
  BY <1>1, ExpireFields, Zenon
<1>4. Switches(Expire(s, n), n, len)
  BY <1>3, SwitchesSame, Zenon
<1> HIDE DEF cp
<1>5. c[cp].validators # {}
  BY <1>4 DEF CanApply, cp
<1> QED BY <1>2, <1>5 DEF cp

LEMMA ApplyRest ==
  ASSUME NEW s, SnapshotOK(s), NEW n \in 1..MaxBlock, NEW c,
         \A k \in 0..n : HeaderOK(c[k], k),
         CanApply(s, n, c)
  PROVE  AppliedTo(s, ApplyHeader(s, n, c), n, c)
<1> DEFINE t == Signed(s, n, c)
           a == ApplyHeader(s, n, c)
           len == s.epochLength
           old == VersionHistoryCheckLen(s)
           new == VersionHistoryCheckLen(a)
           cp == n - MinerHistoryCheckLen(s)
<1>0. n \in Nat /\ n \in 0..n
  BY BoundAssumption
<1>1. HeaderOK(c[n], n)
  BY <1>0
<1>2. SnapshotOK(t) /\ SameTurns(s, t) /\ DOMAIN t.recents \subseteq DOMAIN s.recents \cup {n}
  BY <1>1, SignedFields
<1>3. /\ t.attestation = Joined(s.attestation, n, c[n].attestation)
      /\ t.forkBlocks = (s.forkBlocks \ {n - old}) \cup {n}
      /\ t.attestation.source < n => n \in DOMAIN t.recents
  BY <1>1, SignedRest
<1>4. a = IF Switches(t, n, len) THEN SwitchValidators(t, n, len, c) ELSE t
  BY DEF ApplyHeader, Signed
<1>5. SnapshotOK(a)
  BY ApplyStep
<1>6. /\ VersionHistoryCheckLen(t) = old /\ old \in Nat \ {0}
      /\ MinerHistoryCheckLen(t) = MinerHistoryCheckLen(s)
      /\ Switches(t, n, len) <=> Switches(s, n, len)
  BY <1>2, SwitchesSame, VersionLenNat, Zenon DEF SameTurns, VersionHistoryCheckLen
<1> HIDE DEF t, a, len, old, new, cp
<1>7. CASE ~Switches(s, n, len)
  <2>1. a = t
    BY <1>4, <1>6, <1>7
  <2>2. new = old /\ {n - i : i \in old..(old - 1)} = {}
    BY <1>6, <2>1 DEF new
  <2>3. a.forkBlocks = ((s.forkBlocks \ {n - old}) \cup {n}) \ {n - i : i \in new..(old - 1)}
    BY <1>3, <2>1, <2>2
  <2>4. a.turnLength = s.turnLength /\ a.validators = s.validators /\ a.epochKey = s.epochKey
    BY <1>2, <2>1 DEF SameTurns
  <2>5. AppliedTo(s, a, n, c)
    BY <1>2, <1>3, <1>5, <1>7, <2>1, <2>3, <2>4, Zenon DEF AppliedTo, new, old, len
  <2> QED BY <2>5 DEF a
<1>8. CASE Switches(s, n, len)
  <2>1. a = SwitchValidators(t, n, len, c)
    BY <1>4, <1>6, <1>8
  <2>2. SwitchedTo(t, a, n, len, c)
    BY <1>2, <2>1, SwitchRest, Zenon
  <2>3. /\ a.attestation = t.attestation
        /\ a.epochKey = IF IsBohr(n) THEN n \div len ELSE s.epochKey
        /\ a.forkBlocks = t.forkBlocks \ {n - i : i \in new..(old - 1)}
        /\ a.turnLength = IF cp % len = 0 /\ IsBohr(cp) THEN c[cp].turnLength ELSE s.turnLength
        /\ a.validators = c[cp].validators
        /\ a.recents = IF IsBohr(n) THEN [k \in {} |-> 0] ELSE ShrinkRecents(t, n, c[cp].validators)
    BY <1>2, <1>6, <2>2, Zenon DEF SwitchedTo, SameTurns, new, cp
  <2>4. cp \in 0..n /\ c[cp].validators # {} /\ HeaderOK(c[cp], cp)
    BY <1>8, SwitchReadsList DEF cp, len
  <2>5. \/ a.turnLength = s.turnLength
        \/ \E k \in 0..n : c[k].validators # {} /\ IsBohr(k) /\ a.turnLength = c[k].turnLength
    BY <2>3, <2>4
  <2>6. /\ DOMAIN a.recents \subseteq DOMAIN s.recents \cup {n}
        /\ t.attestation.source < n => n \in DOMAIN a.recents \/ a.epochKey # s.epochKey
    <3>1. CASE IsBohr(n)
      <4>1. DOMAIN a.recents = {}
        BY <2>3, <3>1
      <4>2. a.epochKey # s.epochKey
        BY <1>8, <2>3, <3>1 DEF Switches
      <4> QED BY <4>1, <4>2
    <3>2. CASE ~IsBohr(n)
      <4> DEFINE lim == Cardinality(c[cp].validators) \div 2 + 1
                 was == Cardinality(t.validators) \div 2 + 1
                 gone == {n - lim - i : i \in 0..(was - lim - 1)}
      <4>1. DOMAIN a.recents = DOMAIN t.recents \ gone
        BY <2>3, <3>2, Zenon DEF ShrinkRecents, Drop, Restrict
      <4>2. Cardinality(t.validators) \in Nat
        BY <1>2, ValidatorsFinite, Zenon
      <4>3. Cardinality(c[cp].validators) \in Nat
        <5>1. c[cp].validators \in SUBSET Addr
          BY <2>4, BoundAssumption DEF HeaderOK
        <5>2. IsFiniteSet(c[cp].validators)
          BY <5>1, AddrAssumption, FS_Subset
        <5> QED BY <5>2, FS_CardinalityType, Zenon
      <4>4. lim \in Nat \ {0} /\ was \in Nat
        BY <4>2, <4>3
      <4> HIDE DEF lim, was
      <4>5. n \notin gone
        BY <1>0, <4>4
      <4> HIDE DEF gone
      <4> QED BY <1>2, <1>3, <4>1, <4>5
    <3> QED BY <3>1, <3>2
  <2>7. AppliedTo(s, a, n, c)
    BY <1>3, <1>5, <1>8, <2>3, <2>5, <2>6, Zenon DEF AppliedTo, new, old, len, cp
  <2> QED BY <2>7 DEF a
<1> QED BY <1>7, <1>8

\* What apply does to Recents: block n is entered with its signer; without a
\* switch only the entry that became too old leaves, and what is final.
HistoryKept(s, a, n, c) ==
  /\ \A k \in DOMAIN a.recents : a.recents[k] = IF k = n THEN c[n].signer ELSE s.recents[k]
  /\ ~Switches(s, n, s.epochLength) =>
       DOMAIN a.recents = {k \in (DOMAIN s.recents \ {n - Limit(s)}) \cup {n} :
                             IsMaxwell(n) => k > a.attestation.source}

LEMMA ApplyHistory ==
  ASSUME NEW s, SnapshotOK(s), NEW n \in 1..MaxBlock, NEW c, HeaderOK(c[n], n)
  PROVE  HistoryKept(s, ApplyHeader(s, n, c), n, c)
<1> DEFINE t == Signed(s, n, c)
           a == ApplyHeader(s, n, c)
           len == s.epochLength
<1>1. /\ SnapshotOK(t) /\ SameTurns(s, t)
      /\ \A k \in DOMAIN t.recents : t.recents[k] = IF k = n THEN c[n].signer ELSE s.recents[k]
  BY SignedFields
<1>2. DOMAIN t.recents = {k \in (DOMAIN s.recents \ {n - Limit(s)}) \cup {n} :
                            IsMaxwell(n) => k > t.attestation.source}
  BY SignedRest
<1>3. a = IF Switches(t, n, len) THEN SwitchValidators(t, n, len, c) ELSE t
  BY DEF ApplyHeader, Signed
<1>4. Switches(t, n, len) <=> Switches(s, n, len)
  BY <1>1, SwitchesSame
<1> HIDE DEF t, a, len
<1>5. CASE ~Switches(s, n, len)
  <2>1. a = t
    BY <1>3, <1>4, <1>5
  <2> QED BY <1>1, <1>2, <2>1 DEF HistoryKept, a
<1>6. CASE Switches(s, n, len)
  <2>1. SwitchedTo(t, a, n, len, c)
    BY <1>1, <1>3, <1>4, <1>6, SwitchRest, Zenon
  <2>2. \A k \in DOMAIN a.recents : k \in DOMAIN t.recents /\ a.recents[k] = t.recents[k]
    <3>1. CASE IsBohr(n)
      BY <2>1, <3>1 DEF SwitchedTo
    <3>2. CASE ~IsBohr(n)
      <4>1. a.recents = ShrinkRecents(t, n, c[n - MinerHistoryCheckLen(t)].validators)
        BY <2>1, <3>2 DEF SwitchedTo
      <4> QED BY <4>1 DEF ShrinkRecents, Drop, Restrict
    <3> QED BY <3>1, <3>2
  <2>3. HistoryKept(s, a, n, c)
    BY <1>1, <1>6, <2>2 DEF HistoryKept, len
  <2> QED BY <2>3 DEF a
<1> QED BY <1>5, <1>6

\* The head snapshot, with its flag set for block n + 1, is s; apply makes a of it;
\* the number and, under Snake8, the turn length of a are set.
ImportedVia(s, a, h, n) ==
  /\ AppliedTo(s, a, n, chain') /\ HistoryKept(s, a, n, chain') /\ chain'[n] = h
  /\ s.epochKey = snap.epochKey /\ s.recents = snap.recents
  /\ s.turnLength = snap.turnLength /\ s.validators = snap.validators
  /\ s.attestation = snap.attestation /\ s.forkBlocks = snap.forkBlocks
  /\ s.epochLength = snap.epochLength
  /\ snap'.number = n
  /\ snap'.turnLength = IF IsSnake8Enabled(n + 1) THEN Snake8TurnLength ELSE a.turnLength
  /\ snap'.recents = a.recents /\ snap'.validators = a.validators
  /\ snap'.attestation = a.attestation /\ snap'.forkBlocks = a.forkBlocks
  /\ snap'.epochKey = a.epochKey

\* Every import that succeeds goes that way.
LEMMA ImportApplies ==
  ASSUME WindowInv, NEW h \in Headers(snap, snap.number + 1), NEW freq, Import(h, freq), ~applyError'
  PROVE  \E s, a : ImportedVia(s, a, h, snap.number + 1)
<1> DEFINE n == snap.number + 1
           c == [k \in 0..n |-> IF k = n THEN h ELSE chain[k]]
           s == [snap EXCEPT !.isSnake8 = IsSnake8Enabled(n + 1)]
           a == ApplyHeader(s, n, c)
           len == IF IsSnake8Enabled(n + 1) THEN Snake8TurnLength ELSE a.turnLength
<1>1. /\ ~applyError /\ n \in 1..MaxBlock /\ n \in 0..MaxBlock /\ SnapshotOK(snap) /\ snap.number \in Nat
      /\ DOMAIN chain = 0..(n - 1) /\ chain' = c
  BY ImportFacts
<1>2. HeaderOK(h, n)
  BY <1>1, ImportedHeaderOK
<1>3. (\A k \in 0..n : HeaderOK(c[k], k)) /\ c[n] = h
  BY <1>1, <1>2 DEF WindowInv
<1>4. CanApply(s, n, c) /\ snap' = NextSnapshot(snap, n, c)
  BY DEF Import
<1>5. /\ SnapshotOK(s) /\ s.epochKey = snap.epochKey /\ s.recents = snap.recents
      /\ s.turnLength = snap.turnLength /\ s.validators = snap.validators
      /\ s.attestation = snap.attestation /\ s.forkBlocks = snap.forkBlocks
      /\ s.epochLength = snap.epochLength
  <2>1. IsSnake8Enabled(n + 1) \in BOOLEAN
    BY DEF IsSnake8Enabled
  <2>2. /\ SnapshotOK(s) /\ s.epochKey = snap.epochKey /\ s.recents = snap.recents
        /\ s.turnLength = snap.turnLength /\ s.validators = snap.validators
        /\ s.epochLength = snap.epochLength
    BY <1>1, <2>1, FlagFields
  <2>3. s.attestation = snap.attestation /\ s.forkBlocks = snap.forkBlocks
    BY <1>1 DEF SnapshotOK, Snapshots
  <2> QED BY <2>2, <2>3
<1>6. snap' = Renumbered(a, n, len)
  BY <1>4 DEF NextSnapshot, Renumbered
<1> HIDE DEF c, s, n
<1>7. AppliedTo(s, a, n, c)
  BY <1>1, <1>3, <1>4, <1>5, ApplyRest, Zenon
<1>70. HistoryKept(s, a, n, c)
  BY <1>1, <1>2, <1>3, <1>5, ApplyHistory, Zenon
<1> HIDE DEF a
<1>8. /\ snap'.number = n /\ snap'.turnLength = len
      /\ snap'.recents = a.recents /\ snap'.validators = a.validators
      /\ snap'.attestation = a.attestation /\ snap'.forkBlocks = a.forkBlocks
      /\ snap'.epochKey = a.epochKey
  <2>1. a \in Snapshots(a.recents)
    BY <1>7 DEF AppliedTo, SnapshotOK
  <2> HIDE DEF len
  <2> QED BY <1>6, <2>1 DEF Renumbered, Snapshots
<1>9. ImportedVia(s, a, h, n)
  BY <1>1, <1>3, <1>5, <1>7, <1>70, <1>8, Zenon DEF ImportedVia
<1> QED BY <1>9, Zenon DEF n

\* What an import that succeeds does to the history and the attestation.
LEMMA AppliedImport ==
  ASSUME WindowInv, NEW h \in Headers(snap, snap.number + 1), NEW freq, Import(h, freq), ~applyError'
  PROVE  LET n == snap.number + 1
         IN  /\ snap'.number = n
             /\ snap'.attestation = Joined(snap.attestation, n, h.attestation)
             /\ snap'.attestation.source < n =>
                  n \in DOMAIN snap'.recents \/ snap'.epochKey # snap.epochKey
             /\ DOMAIN snap'.recents \subseteq DOMAIN snap.recents \cup {n}
<1> DEFINE n == snap.number + 1
<1>1. PICK s, a : ImportedVia(s, a, h, n)
  BY ImportApplies, Zenon
<1> HIDE DEF n
<1>2. /\ a.attestation = Joined(s.attestation, n, chain'[n].attestation)
      /\ a.attestation.source < n => n \in DOMAIN a.recents \/ a.epochKey # s.epochKey
      /\ DOMAIN a.recents \subseteq DOMAIN s.recents \cup {n}
  BY <1>1, Zenon DEF ImportedVia, AppliedTo
<1>3. /\ snap'.number = n /\ chain'[n] = h
      /\ s.epochKey = snap.epochKey /\ s.recents = snap.recents /\ s.attestation = snap.attestation
      /\ snap'.recents = a.recents /\ snap'.attestation = a.attestation /\ snap'.epochKey = a.epochKey
  BY <1>1, Zenon DEF ImportedVia
<1> QED BY <1>2, <1>3 DEF n

\* And to RecentForkHashes.
LEMMA AppliedVersions ==
  ASSUME WindowInv, NEW h \in Headers(snap, snap.number + 1), NEW freq, Import(h, freq), ~applyError'
  PROVE  LET n == snap.number + 1
             old == VersionHistoryCheckLen(snap)
         IN  \E tl \in Nat \ {0} :
               /\ snap'.turnLength = IF IsSnake8Enabled(n + 1) THEN Snake8TurnLength ELSE tl
               /\ snap'.forkBlocks = ((snap.forkBlocks \ {n - old}) \cup {n}) \
                    {n - i : i \in (Cardinality(snap'.validators) * tl)..(old - 1)}
               /\ \/ tl = snap.turnLength
                  \/ \E k \in 0..n : /\ chain'[k].validators # {} /\ IsBohr(k)
                                     /\ tl = chain'[k].turnLength
<1> DEFINE n == snap.number + 1
           old == VersionHistoryCheckLen(snap)
<1>0. PICK s, a : ImportedVia(s, a, h, n)
  BY ImportApplies, Zenon
<1> HIDE DEF n
<1>1. /\ AppliedTo(s, a, n, chain')
      /\ s.turnLength = snap.turnLength /\ s.validators = snap.validators
      /\ s.forkBlocks = snap.forkBlocks
      /\ snap'.turnLength = IF IsSnake8Enabled(n + 1) THEN Snake8TurnLength ELSE a.turnLength
      /\ snap'.validators = a.validators /\ snap'.forkBlocks = a.forkBlocks
  BY <1>0, Zenon DEF ImportedVia
<1>2. a.turnLength \in Nat \ {0}
  BY <1>1 DEF AppliedTo, SnapshotOK, Snapshots
<1>3. /\ VersionHistoryCheckLen(s) = old
      /\ VersionHistoryCheckLen(a) = Cardinality(snap'.validators) * a.turnLength
  BY <1>1 DEF VersionHistoryCheckLen
<1> HIDE DEF old
<1>4. snap'.forkBlocks = ((snap.forkBlocks \ {n - old}) \cup {n}) \
        {n - i : i \in (Cardinality(snap'.validators) * a.turnLength)..(old - 1)}
  BY <1>1, <1>3, Zenon DEF AppliedTo
<1>5. \/ a.turnLength = snap.turnLength
      \/ \E k \in 0..n : chain'[k].validators # {} /\ IsBohr(k) /\ a.turnLength = chain'[k].turnLength
  BY <1>1 DEF AppliedTo
<1> QED BY <1>1, <1>2, <1>4, <1>5, Zenon DEF n, old

----------------------------------------------------------------------------
(* The chain can always grow.                                              *)

\* Recents names no block above the head, and nothing above it is finalized.
PastInv ==
  /\ WindowInv
  /\ DOMAIN snap.recents \subseteq 1..snap.number
  /\ snap.attestation.source <= snap.number

\* Whatever attestation a header carries, its source is below the header.
LEMMA JoinedSource ==
  ASSUME NEW a \in [source : Nat, target : Nat], NEW n \in Nat \ {0}, a.source < n,
         NEW att \in [source : Nat, target : Nat], att.source < n
  PROVE  Joined(a, n, att) \in [source : Nat, target : Nat] /\ Joined(a, n, att).source < n
BY DEF Joined, NoAttestation

LEMMA HeaderSource ==
  ASSUME NEW s, NEW n \in Nat \ {0}, NEW h \in Headers(s, n)
  PROVE  h.attestation \in [source : Nat, target : Nat] /\ h.attestation.source < n
<1>1. h.attestation \in Attestations(s, n)
  BY DEF Headers
<1>2. NoAttestation \in [source : Nat, target : Nat] /\ NoAttestation.source < n
  BY DEF NoAttestation
<1>3. CASE ~IsLuban(n) \/ n \notin QuorumAt
  BY <1>1, <1>2, <1>3 DEF Attestations
<1>4. CASE IsLuban(n) /\ n \in QuorumAt
  <2>1. h.attestation \in [source : 0..(n - 1), target : 0..(n - 1)]
    BY <1>1, <1>4 DEF Attestations
  <2> QED BY <2>1
<1> QED BY <1>3, <1>4

\* After an import the finalized block is below the new head.
LEMMA ImportedSource ==
  ASSUME PastInv, NEW h \in Headers(snap, snap.number + 1), NEW freq, Import(h, freq), ~applyError'
  PROVE  snap'.attestation.source < snap.number + 1
<1>1. /\ snap.number + 1 \in Nat \ {0} /\ snap.number \in Nat
      /\ snap.attestation \in [source : Nat, target : Nat]
  BY ImportFacts DEF PastInv, SnapshotOK, Snapshots
<1>2. snap.attestation.source < snap.number + 1
  BY <1>1 DEF PastInv
<1>3. snap'.attestation = Joined(snap.attestation, snap.number + 1, h.attestation)
  BY AppliedImport DEF PastInv
<1> QED BY <1>1, <1>2, <1>3, HeaderSource, JoinedSource

\* PastInv is inductive.
LEMMA PastInvariant == Spec => []PastInv
<1>1. Init => PastInv
  <2> SUFFICES ASSUME Init PROVE PastInv
    OBVIOUS
  <2>1. PICK g \in Lists :
          snap = [NewSnapshot(0, g, IsSnake8Enabled(1))
                    EXCEPT !.turnLength = IF IsSnake8Enabled(1) THEN Snake8TurnLength ELSE @]
    BY DEF Init
  <2>2. /\ DOMAIN snap.recents = {} /\ snap.number = 0
        /\ snap.attestation.source = 0
    BY <2>1 DEF NewSnapshot, NoAttestation
  <2> QED BY <2>2, InitWindow DEF PastInv
<1>2. PastInv /\ [Next]_vars => PastInv'
  <2> SUFFICES ASSUME PastInv, [Next]_vars PROVE PastInv'
    OBVIOUS
  <2>1. WindowInv'
    BY NextWindow DEF PastInv
  <2>2. CASE snap' = snap
    BY <2>1, <2>2 DEF PastInv
  <2>3. CASE snap' # snap
    <3>1. PICK h \in Headers(snap, snap.number + 1), freq \in Frequencies(snap) : Import(h, freq)
      BY <2>3 DEF Next, vars
    <3>2. ~applyError'
      BY <2>3, <3>1 DEF Import
    <3>3. snap.number \in Nat
      BY <3>1, ImportFacts DEF PastInv
    <3>4. snap'.number = snap.number + 1 /\ DOMAIN snap'.recents \subseteq DOMAIN snap.recents \cup {snap.number + 1}
      BY <3>1, <3>2, AppliedImport DEF PastInv
    <3>5. snap'.attestation.source < snap.number + 1
      BY <3>1, <3>2, ImportedSource
    <3>6. SnapshotOK(snap')
      BY <2>1 DEF WindowInv, TypeOK
    <3>7. snap'.attestation.source \in Nat
      BY <3>6 DEF SnapshotOK, Snapshots
    <3>8. DOMAIN snap'.recents \subseteq 1..snap'.number
      BY <3>3, <3>4 DEF PastInv
    <3>9. snap'.attestation.source <= snap'.number
      BY <3>3, <3>4, <3>5, <3>7
    <3> QED BY <2>1, <3>8, <3>9 DEF PastInv
  <2> QED BY <2>2, <2>3
<1> QED BY <1>1, <1>2, PTL DEF Spec

\* Cancelling a positive factor.
LEMMA CancelFactor ==
  ASSUME NEW a \in Nat, NEW b \in Nat, NEW t \in Nat \ {0}, a * t < b * t
  PROVE  a < b
<1> SUFFICES ASSUME a >= b PROVE FALSE
  OBVIOUS
<1>1. (a - b) * t >= 0
  <2> DEFINE d == a - b
  <2>1. d \in Nat
    OBVIOUS
  <2> HIDE DEF d
  <2>2. d * t >= 0
    BY <2>1
  <2> QED BY <2>2 DEF d
<1>2. (a - b) * t = a * t - b * t
  OBVIOUS
<1>3. a * t \in Int /\ b * t \in Int
  OBVIOUS
<1> QED BY <1>1, <1>2, <1>3

\* The numbered entries that t blocks each of the members of V would need do
\* not fit in fewer than |V| * t blocks.
LEMMA EntriesFit ==
  ASSUME NEW V, IsFiniteSet(V), NEW t \in Nat, NEW W, IsFiniteSet(W), NEW C,
         \A v \in V : C[v] \subseteq W /\ IsFiniteSet(C[v]) /\ Cardinality(C[v]) >= t,
         \A v, w \in V : v # w => C[v] \cap C[w] = {}
  PROVE  Cardinality(V) * t <= Cardinality(W)
<1> DEFINE P == V \X (1..t)
           entry == [v \in V |-> CHOOSE f : f \in Bijection(1..Cardinality(C[v]), C[v])]
           g == [p \in P |-> entry[p[1]][p[2]]]
<1>1. ASSUME NEW v \in V
      PROVE  /\ \A i \in 1..t : entry[v][i] \in C[v]
             /\ \A i, j \in 1..t : entry[v][i] = entry[v][j] => i = j
  <2>1. Cardinality(C[v]) \in Nat /\ ExistsBijection(1..Cardinality(C[v]), C[v])
    BY FS_CardinalityType
  <2>2. entry[v] \in Bijection(1..Cardinality(C[v]), C[v])
    BY <2>1 DEF ExistsBijection
  <2>3. 1..t \subseteq 1..Cardinality(C[v])
    BY <2>1
  <2> HIDE DEF entry
  <2> QED BY <2>2, <2>3, Zenon DEF Bijection, Injection, Surjection, IsInjective
<1> HIDE DEF entry
<1>2. g \in [P -> W]
  BY <1>1
<1>3. \A p, q \in P : g[p] = g[q] => p = q
  <2> SUFFICES ASSUME NEW p \in P, NEW q \in P, g[p] = g[q] PROVE p = q
    OBVIOUS
  <2>1. /\ p[1] \in V /\ q[1] \in V /\ p[2] \in 1..t /\ q[2] \in 1..t
        /\ p = <<p[1], p[2]>> /\ q = <<q[1], q[2]>>
    OBVIOUS
  <2>2. entry[p[1]][p[2]] \in C[p[1]] /\ entry[q[1]][q[2]] \in C[q[1]]
    BY <1>1, <2>1
  <2>3. p[1] = q[1]
    BY <2>1, <2>2
  <2> QED BY <1>1, <2>1, <2>3
<1>4. g \in Injection(P, W)
  BY <1>2, <1>3 DEF Injection, IsInjective
<1>5. Cardinality(P) <= Cardinality(W)
  BY <1>4, FS_Injection
<1>6. IsFiniteSet(1..t) /\ Cardinality(1..t) = t
  BY FS_Interval
<1>7. Cardinality(P) = Cardinality(V) * t
  BY <1>6, FS_Product, Zenon
<1> QED BY <1>5, <1>7

\* GrowthIsPossible: some validator of the current set always passes verifySeal,
\* for every size of the sets, all turn lengths and all fork schedules: blocking
\* them all takes |V| * turnLength blocks, more than the miner history has.
THEOREM GrowthIsPossible == Spec => []ChainCanGrow
<1>1. PastInv => ChainCanGrow
  <2> SUFFICES ASSUME PastInv, \A v \in snap.validators : SignRecently(snap, v)
               PROVE  FALSE
    BY DEF ChainCanGrow, VerifySeal
  <2> DEFINE V == snap.validators
             t == snap.turnLength
             M == MinerHistoryCheckLen(snap)
             W == (LeftHistoryBound(snap) + 1)..snap.number
             C == [v \in V |-> Counted(snap, v)]
             half == Cardinality(V) \div 2 + 1
  <2>1. SnapshotOK(snap)
    BY DEF PastInv, WindowInv, TypeOK
  <2>2. snap.number \in Nat /\ t \in Nat \ {0} /\ V # {}
    BY <2>1, BoundAssumption DEF SnapshotOK, Snapshots
  <2>3. IsFiniteSet(V) /\ Cardinality(V) \in Nat \ {0} /\ M \in Nat
    BY <2>1, <2>2, ValidatorsFinite, CheckLenNat, FS_EmptySet
  <2> HIDE DEF M
  <2>4. LeftHistoryBound(snap) \in Nat /\ LeftHistoryBound(snap) <= snap.number
        /\ snap.number - LeftHistoryBound(snap) <= M
    BY <2>2, <2>3 DEF LeftHistoryBound, M
  <2>5. IsFiniteSet(W) /\ Cardinality(W) <= M
    <3> DEFINE lo == LeftHistoryBound(snap) + 1
    <3>1. lo \in Int /\ snap.number \in Int /\ snap.number - lo + 1 <= M
      BY <2>2, <2>3, <2>4
    <3> HIDE DEF lo
    <3>2. /\ IsFiniteSet(lo..snap.number)
          /\ Cardinality(lo..snap.number) = IF lo > snap.number THEN 0 ELSE snap.number - lo + 1
      BY <3>1, FS_Interval
    <3>3. Cardinality(lo..snap.number) <= M
      BY <2>3, <3>1, <3>2
    <3> QED BY <3>2, <3>3 DEF lo
  <2>6. ASSUME NEW v \in V
        PROVE  C[v] \subseteq W /\ IsFiniteSet(C[v]) /\ Cardinality(C[v]) >= t
    <3>1. C[v] = Counted(snap, v)
      OBVIOUS
    <3>2. C[v] \subseteq W
      BY <2>2, <2>4, <3>1 DEF Counted, PastInv
    <3>3. Cardinality(Counted(snap, v)) >= t
      <4>1. SignRecently(snap, v)
        OBVIOUS
      <4> QED BY <4>1 DEF SignRecently, CountRecents, Counted
    <3> QED BY <2>1, <3>1, <3>2, <3>3, CountedFinite
  <2>7. \A v, w \in V : v # w => C[v] \cap C[w] = {}
    BY DEF Counted
  <2> HIDE DEF V, t, W, C
  <2>8. Cardinality(V) * t <= Cardinality(W)
    BY <2>2, <2>3, <2>5, <2>6, <2>7, EntriesFit
  <2>9. M = half * t - 1
    BY DEF M, MinerHistoryCheckLen, V, t
  <2>10. half \in Nat /\ (Cardinality(V) < half => FALSE)
    BY <2>3
  <2>11. Cardinality(W) \in Nat
    BY <2>5, FS_CardinalityType
  <2> HIDE DEF half
  <2>12. Cardinality(V) * t \in Int /\ half * t \in Int
    BY <2>2, <2>3, <2>10
  <2>13. Cardinality(V) * t < half * t
    BY <2>3, <2>5, <2>8, <2>9, <2>11, <2>12
  <2> QED BY <2>2, <2>3, <2>10, <2>13, CancelFactor
<1> QED BY <1>1, PastInvariant, PTL

\* ClearingsAreRare: a snapshot that apply makes with an empty Recents carries a
\* new mark of the last switch, for all constants: block by block the history is
\* cleared at most once per epoch.
THEOREM ClearingsAreRare == Spec => HistoryClearedOncePerEpoch
<1>1. PastInv /\ AppliedInv' /\ [Next]_vars => [ClearsOncePerEpoch]_vars
  <2> SUFFICES ASSUME PastInv, AppliedInv', Next, snap'.recents = <<>>
               PROVE  snap'.epochKey # snap.epochKey
    BY DEF ClearsOncePerEpoch
  <2>1. PICK h \in Headers(snap, snap.number + 1), freq \in Frequencies(snap) : Import(h, freq)
    BY DEF Next
  <2>2. ~applyError'
    BY DEF AppliedInv
  <2>3. snap'.attestation.source < snap.number + 1
    BY <2>1, <2>2, ImportedSource
  <2>4. snap.number + 1 \in DOMAIN snap'.recents \/ snap'.epochKey # snap.epochKey
    BY <2>1, <2>2, <2>3, AppliedImport DEF PastInv
  <2>5. DOMAIN snap'.recents = {}
    OBVIOUS
  <2> QED BY <2>4, <2>5
<1> QED BY <1>1, PastInvariant, AppliedInvariant, PTL DEF Spec, HistoryClearedOncePerEpoch
----------------------------------------------------------------------------
(* What the attestations of the whole chain say.                           *)

\* The highest element of a set of numbers.
LEMMA MaxIs ==
  ASSUME NEW S \in SUBSET Nat, NEW m \in S, \A x \in S : x <= m
  PROVE  Max(S) = m
<1>1. m \in S /\ \A x \in S : m >= x
  OBVIOUS
<1>2. Max(S) \in S /\ \A x \in S : Max(S) >= x
  BY <1>1, Zenon DEF Max
<1>3. Max(S) \in Nat /\ m \in Nat /\ Max(S) >= m /\ m >= Max(S)
  BY <1>1, <1>2, Zenon
<1> QED BY <1>3

\* Did attestation l link a block to its direct child?
Direct(l) == l.target = l.source + 1

\* Attestation a sums up the headers of c up to block n.
SumsUp(a, c, n) ==
  /\ a \in [source : Nat, target : Nat] /\ a.source <= a.target
  /\ \A k \in 0..n : c[k].attestation \in [source : Nat, target : Nat]
  /\ \A k \in 0..n : c[k].attestation.target <= a.target
  /\ \A k \in 0..n : Direct(c[k].attestation) => c[k].attestation.source <= a.source
  /\ \E k \in 0..n : c[k].attestation.target = a.target
  /\ \/ a.source = 0
     \/ \E k \in 0..n : Direct(c[k].attestation) /\ c[k].attestation.source = a.source

FoldInv == WindowInv /\ SumsUp(snap.attestation, chain, snap.number)

\* A header whose attestation was verified extends what the chain says.
LEMMA JoinedSumsUp ==
  ASSUME NEW a, NEW c, NEW d, NEW n \in Nat \ {0}, SumsUp(a, c, n - 1),
         \A k \in 0..(n - 1) : d[k] = c[k],
         NEW att \in [source : Nat, target : Nat], d[n].attestation = att,
         att # NoAttestation =>
           /\ IsLuban(n) /\ att.source < att.target /\ att.source = a.target
           /\ ~IsFermi(n) => att.target + 1 = n
  PROVE  SumsUp(Joined(a, n, att), d, n)
<1>1. \A k \in 0..n : k = n \/ k \in 0..(n - 1)
  OBVIOUS
<1>2. n \in 0..n /\ 0..(n - 1) \subseteq 0..n
  OBVIOUS
<1>3. a \in [source : Nat, target : Nat] /\ a.source <= a.target
  BY DEF SumsUp
<1>4. CASE att = NoAttestation
  <2>1. Joined(a, n, att) = a
    BY <1>4 DEF Joined
  <2>2. att.target <= a.target /\ ~Direct(att)
    BY <1>3, <1>4 DEF NoAttestation, Direct
  <2> QED BY <1>1, <1>2, <2>1, <2>2 DEF SumsUp
<1>5. CASE att # NoAttestation /\ Direct(att)
  <2>1. Joined(a, n, att) = att
    BY <1>5 DEF Joined, Direct
  <2>2. att.source < att.target /\ att.source = a.target
    BY <1>5
  <2>3. \A k \in 0..(n - 1) : /\ d[k].attestation \in [source : Nat, target : Nat]
                              /\ d[k].attestation.target <= att.target
                              /\ Direct(d[k].attestation) => d[k].attestation.source <= att.source
    BY <1>3, <2>2 DEF SumsUp
  <2>4. \A k \in 0..n : /\ d[k].attestation \in [source : Nat, target : Nat]
                        /\ d[k].attestation.target <= att.target
                        /\ Direct(d[k].attestation) => d[k].attestation.source <= att.source
    BY <1>1, <2>3
  <2> QED BY <1>2, <1>5, <2>1, <2>2, <2>4 DEF SumsUp
<1>6. CASE att # NoAttestation /\ ~Direct(att)
  <2> DEFINE b == Joined(a, n, att)
  <2>1. att.source < att.target /\ att.source = a.target
    BY <1>6
  <2>2. b \in [source : Nat, target : Nat] /\ b.source = a.source /\ b.target = att.target
    <3>1. CASE a # NoAttestation
      <4>1. b = [a EXCEPT !.target = att.target]
        BY <1>6, <3>1 DEF Joined, Direct
      <4> QED BY <1>3, <4>1
    <3>2. CASE a = NoAttestation
      <4>1. b = att
        BY <1>6, <3>2 DEF Joined
      <4>2. a.source = 0 /\ a.target = 0
        BY <3>2 DEF NoAttestation
      <4> QED BY <2>1, <4>1, <4>2
    <3> QED BY <3>1, <3>2
  <2> HIDE DEF b
  <2>3. \A k \in 0..(n - 1) : /\ d[k].attestation \in [source : Nat, target : Nat]
                              /\ d[k].attestation.target <= b.target
                              /\ Direct(d[k].attestation) => d[k].attestation.source <= b.source
    BY <1>3, <2>1, <2>2 DEF SumsUp
  <2>4. \A k \in 0..n : /\ d[k].attestation \in [source : Nat, target : Nat]
                        /\ d[k].attestation.target <= b.target
                        /\ Direct(d[k].attestation) => d[k].attestation.source <= b.source
    BY <1>1, <1>6, <2>2, <2>3
  <2>5. \/ b.source = 0
        \/ \E k \in 0..n : Direct(d[k].attestation) /\ d[k].attestation.source = b.source
    BY <1>2, <2>2 DEF SumsUp
  <2>6. b.source <= b.target
    BY <1>3, <2>1, <2>2
  <2>7. SumsUp(b, d, n)
    BY <1>2, <2>2, <2>4, <2>5, <2>6 DEF SumsUp
  <2> QED BY <2>7 DEF b
<1> QED BY <1>4, <1>5, <1>6

\* FoldInv is inductive where verifyVoteAttestation is enforced.
LEMMA FoldInvariant ==
  ASSUME \A n \in QuorumAt : IsPlato(n)
  PROVE  Spec => []FoldInv
<1>1. Init => FoldInv
  <2> SUFFICES ASSUME Init PROVE FoldInv
    OBVIOUS
  <2>1. PICK g \in Lists :
          /\ chain = [n \in {0} |-> [signer |-> 0, validators |-> g, turnLength |-> DefaultTurnLength,
                                     attestation |-> NoAttestation]]
          /\ snap = [NewSnapshot(0, g, IsSnake8Enabled(1))
                       EXCEPT !.turnLength = IF IsSnake8Enabled(1) THEN Snake8TurnLength ELSE @]
    BY DEF Init
  <2>2. snap.number = 0 /\ snap.attestation = NoAttestation /\ chain[0].attestation = NoAttestation
    BY <2>1 DEF NewSnapshot
  <2>3. SumsUp(NoAttestation, chain, 0)
    BY <2>2 DEF SumsUp, NoAttestation, Direct
  <2> QED BY <2>2, <2>3, InitWindow DEF FoldInv
<1>2. FoldInv /\ [Next]_vars => FoldInv'
  <2> SUFFICES ASSUME FoldInv, [Next]_vars PROVE FoldInv'
    OBVIOUS
  <2>1. WindowInv'
    BY NextWindow DEF FoldInv
  <2>2. CASE UNCHANGED vars
    BY <2>1, <2>2 DEF FoldInv, vars
  <2>3. ASSUME NEW h \in Headers(snap, snap.number + 1), NEW freq, Import(h, freq)
        PROVE  FoldInv'
    <3> DEFINE n == snap.number + 1
    <3>1. /\ n \in Nat \ {0} /\ snap.number = n - 1 /\ snap.number \in Nat
          /\ chain' = [k \in 0..n |-> IF k = n THEN h ELSE chain[k]]
      BY <2>3, ImportFacts DEF FoldInv
    <3>2. (\A k \in 0..(n - 1) : chain'[k] = chain[k]) /\ chain'[n] = h
      BY <3>1
    <3>3. CASE applyError'
      <4>1. snap' = snap
        BY <2>3, <3>3, Zenon DEF Import
      <4>2. SumsUp(snap.attestation, chain', snap.number)
        BY <3>1, <3>2, Zenon DEF FoldInv, SumsUp
      <4> QED BY <2>1, <4>1, <4>2 DEF FoldInv
    <3>4. CASE ~applyError'
      <4>1. snap'.number = n /\ snap'.attestation = Joined(snap.attestation, n, h.attestation)
        BY <2>3, <3>4, AppliedImport, Zenon DEF FoldInv
      <4>2. h.attestation \in [source : Nat, target : Nat] /\ h.attestation \in Attestations(snap, n)
        BY <2>3, <3>1, HeaderSource DEF Headers
      <4>3. ASSUME h.attestation # NoAttestation
            PROVE  /\ IsLuban(n) /\ h.attestation.source < h.attestation.target
                   /\ h.attestation.source = snap.attestation.target
                   /\ ~IsFermi(n) => h.attestation.target + 1 = n
        <5>1. IsLuban(n) /\ n \in QuorumAt
          BY <4>2, <4>3 DEF Attestations
        <5>2. VerifyVoteAttestation(snap, n, h.attestation)
          BY <4>2, <5>1 DEF Attestations
        <5>3. /\ h.attestation.source < h.attestation.target
              /\ h.attestation.source = snap.attestation.target
              /\ h.attestation.target \in (n - AncestorGenerationDepth(n))..(n - 1)
          BY <4>3, <5>2 DEF VerifyVoteAttestation, GetJustifiedNumber
        <5>4. ~IsFermi(n) => h.attestation.target + 1 = n
          BY <3>1, <4>2, <5>3 DEF AncestorGenerationDepth
        <5> QED BY <5>1, <5>3, <5>4
      <4>4. SumsUp(snap.attestation, chain, n - 1)
        BY <3>1 DEF FoldInv
      <4>5. SumsUp(Joined(snap.attestation, n, h.attestation), chain', n)
        BY <3>1, <3>2, <4>2, <4>3, <4>4, JoinedSumsUp, Zenon
      <4> QED BY <2>1, <4>1, <4>5 DEF FoldInv
    <3> QED BY <3>3, <3>4
  <2> QED BY <2>2, <2>3 DEF Next
<1> QED BY <1>1, <1>2, PTL DEF Spec

\* FoldIsExact: the pair that updateAttestation maintains is the highest target
\* and the highest finalized source of all attestations of the chain, as long as
\* attestations are only made once Plato enforces verifyVoteAttestation (before,
\* a bad one is logged and still applied).
THEOREM FoldIsExact ==
  ASSUME \A n \in QuorumAt : IsPlato(n)
  PROVE  Spec => []FinalityIsFold
<1>1. FoldInv /\ AppliedInv => FinalityIsFold
  <2> SUFFICES ASSUME FoldInv, AppliedInv PROVE FinalityIsFold
    OBVIOUS
  <2>0. ~applyError
    BY DEF AppliedInv
  <2> DEFINE a == snap.attestation
             links == {chain[k].attestation : k \in DOMAIN chain}
             T == {l.target : l \in links}
             S == {0} \cup {l.source : l \in {m \in links : m.target = m.source + 1}}
  <2>1. DOMAIN chain = 0..snap.number
    BY <2>0 DEF FoldInv, WindowInv, TypeOK
  <2>2. \A l \in links : /\ l \in [source : Nat, target : Nat] /\ l.target <= a.target
                         /\ l.target = l.source + 1 => l.source <= a.source
    BY <2>1 DEF FoldInv, SumsUp, Direct
  <2>3. \E l \in links : l.target = a.target
    BY <2>1 DEF FoldInv, SumsUp
  <2>4. a.source = 0 \/ \E l \in links : l.target = l.source + 1 /\ l.source = a.source
    BY <2>1 DEF FoldInv, SumsUp, Direct
  <2>5. a \in [source : Nat, target : Nat]
    BY DEF FoldInv, SumsUp
  <2> HIDE DEF links, a
  <2>6. Max(T) = a.target
    <3>1. T \subseteq Nat /\ a.target \in T /\ \A x \in T : x <= a.target
      BY <2>2, <2>3
    <3> HIDE DEF T
    <3> QED BY <3>1, MaxIs, Zenon
  <2>7. Max(S) = a.source
    <3>1. S \subseteq Nat /\ a.source \in S /\ \A x \in S : x <= a.source
      BY <2>2, <2>4, <2>5
    <3> HIDE DEF S
    <3> QED BY <3>1, MaxIs, Zenon
  <2> QED BY <2>6, <2>7 DEF FinalityIsFold, GetJustifiedNumber, GetFinalizedNumber, a, links
<1> QED BY <1>1, FoldInvariant, AppliedInvariant, PTL
----------------------------------------------------------------------------
(* RecentForkHashes                                                        *)

\* A larger factor gives a larger product.
LEMMA ProductGrows ==
  ASSUME NEW c \in Nat, NEW a \in Nat, NEW b \in Nat, a <= b
  PROVE  c * a \in Nat /\ c * a <= c * b
<1> DEFINE d == b - a
<1>1. d \in Nat /\ b = a + d
  OBVIOUS
<1> HIDE DEF d
<1>2. c * b = c * a + c * d
  BY <1>1
<1>3. c * d \in Nat /\ c * a \in Nat
  BY <1>1
<1> QED BY <1>2, <1>3

\* The two ways the code counts the entries that a shorter history loses.
LEMMA SameGone ==
  ASSUME NEW n \in Nat, NEW new \in Nat, NEW old \in Nat
  PROVE  {n - i : i \in new..(old - 1)} = {n - new - i : i \in 0..(old - new - 1)}
<1> DEFINE A == {n - i : i \in new..(old - 1)}
           B == {n - new - i : i \in 0..(old - new - 1)}
<1>1. ASSUME NEW i \in new..(old - 1) PROVE n - i \in B
  <2>1. i - new \in 0..(old - new - 1) /\ n - i = n - new - (i - new)
    OBVIOUS
  <2> QED BY <2>1
<1>2. ASSUME NEW i \in 0..(old - new - 1) PROVE n - new - i \in A
  <2>1. new + i \in new..(old - 1) /\ n - new - i = n - (new + i)
    OBVIOUS
  <2> QED BY <2>1
<1>3. A \subseteq B
  BY <1>1
<1>4. B \subseteq A
  BY <1>2
<1> QED BY <1>3, <1>4

\* ForkWindow is not inductive by itself: Snake8 overwrites the turn length, and
\* the window only stays one because no turn length before it was longer.
ForkInv ==
  /\ WindowInv
  /\ ForkWindow
  /\ snap.turnLength <= Snake8TurnLength
  /\ \A k \in DOMAIN chain : chain[k].turnLength \in Nat /\ chain[k].turnLength <= Snake8TurnLength

\* ForkInv is inductive when no turn length exceeds the one Snake8 fixes.
LEMMA ForkInvariant ==
  ASSUME \A t \in TurnLengths : t <= Snake8TurnLength
  PROVE  Spec => []ForkInv
<1>1. Init => ForkInv
  <2> SUFFICES ASSUME Init PROVE ForkInv
    OBVIOUS
  <2>0. WindowInv /\ SnapshotOK(snap)
    BY InitWindow DEF WindowInv, TypeOK
  <2>1. PICK g \in Lists :
          /\ chain = [n \in {0} |-> [signer |-> 0, validators |-> g, turnLength |-> DefaultTurnLength,
                                     attestation |-> NoAttestation]]
          /\ snap = [NewSnapshot(0, g, IsSnake8Enabled(1))
                       EXCEPT !.turnLength = IF IsSnake8Enabled(1) THEN Snake8TurnLength ELSE @]
    BY DEF Init
  <2>2. /\ snap.number = 0 /\ snap.forkBlocks = {} /\ snap.turnLength <= Snake8TurnLength
        /\ \A k \in DOMAIN chain : chain[k].turnLength \in Nat /\ chain[k].turnLength <= Snake8TurnLength
    BY <2>1, LengthAssumption DEF NewSnapshot, DefaultTurnLength
  <2>3. ForkWindow
    BY <2>0, <2>2, VersionLenNat, GaplessEmpty DEF ForkWindow
  <2> QED BY <2>0, <2>2, <2>3 DEF ForkInv
<1>2. ForkInv /\ [Next]_vars => ForkInv'
  <2> SUFFICES ASSUME ForkInv, [Next]_vars PROVE ForkInv'
    OBVIOUS
  <2>1. WindowInv' /\ SnapshotOK(snap')
    BY NextWindow, Zenon DEF ForkInv, WindowInv, TypeOK
  <2>2. CASE UNCHANGED vars
    BY <2>1, <2>2 DEF ForkInv, ForkWindow, vars
  <2>3. ASSUME NEW h \in Headers(snap, snap.number + 1), NEW freq, Import(h, freq)
        PROVE  ForkInv'
    <3> DEFINE n == snap.number + 1
               old == VersionHistoryCheckLen(snap)
    <3>0. WindowInv
      BY DEF ForkInv
    <3>1. /\ n \in Nat \ {0} /\ snap.number = n - 1 /\ snap.number \in Nat /\ SnapshotOK(snap)
          /\ chain' = [k \in 0..n |-> IF k = n THEN h ELSE chain[k]] /\ DOMAIN chain = 0..(n - 1)
      <4>1. /\ n \in Nat \ {0} /\ snap.number \in Nat /\ SnapshotOK(snap)
            /\ chain' = [k \in 0..n |-> IF k = n THEN h ELSE chain[k]] /\ DOMAIN chain = 0..(n - 1)
        BY <2>3, <3>0, ImportFacts, Zenon
      <4>2. snap.number = n - 1
        BY <4>1
      <4> QED BY <4>1, <4>2, Zenon
    <3>2. h.turnLength \in Nat /\ h.turnLength <= Snake8TurnLength
      <4>1. h.turnLength \in TurnLengths \cup {0}
        BY <2>3 DEF Headers, EpochTurnLengths
      <4>2. CASE h.turnLength = 0
        BY <4>2, LengthAssumption
      <4>3. CASE h.turnLength \in TurnLengths
        <5>1. TurnLengths \subseteq Nat
          BY BoundAssumption
        <5> QED BY <4>3, <5>1, Zenon
      <4> QED BY <4>1, <4>2, <4>3
    <3>3. \A k \in DOMAIN chain' : chain'[k].turnLength \in Nat /\ chain'[k].turnLength <= Snake8TurnLength
      <4> SUFFICES ASSUME NEW k \in 0..n
                   PROVE  chain'[k].turnLength \in Nat /\ chain'[k].turnLength <= Snake8TurnLength
        BY <3>1
      <4>1. CASE k = n
        BY <3>1, <3>2, <4>1
      <4>2. CASE k # n
        <5>1. k \in DOMAIN chain /\ chain'[k] = chain[k]
          BY <3>1, <4>2
        <5> QED BY <5>1 DEF ForkInv
      <4> QED BY <4>1, <4>2
    <3>4. CASE applyError'
      <4>1. snap' = snap
        BY <2>3, <3>4, Zenon DEF Import
      <4> QED BY <2>1, <3>3, <4>1 DEF ForkInv, ForkWindow
    <3>5. CASE ~applyError'
      <4>1. snap'.number = n
        BY <2>3, <3>5, AppliedImport DEF ForkInv
      <4>2. PICK tl \in Nat \ {0} :
              /\ snap'.turnLength = IF IsSnake8Enabled(n + 1) THEN Snake8TurnLength ELSE tl
              /\ snap'.forkBlocks = ((snap.forkBlocks \ {n - old}) \cup {n}) \
                   {n - i : i \in (Cardinality(snap'.validators) * tl)..(old - 1)}
              /\ \/ tl = snap.turnLength
                 \/ \E k \in 0..n : /\ chain'[k].validators # {} /\ IsBohr(k)
                                    /\ tl = chain'[k].turnLength
        BY <2>3, <3>5, AppliedVersions, Zenon DEF ForkInv
      <4> DEFINE new == Cardinality(snap'.validators) * tl
                 len == VersionHistoryCheckLen(snap')
                 F == (snap.forkBlocks \ {n - old}) \cup {n}
      <4>3. tl <= Snake8TurnLength
        BY <3>1, <3>3, <4>2, Zenon DEF ForkInv
      <4>4. tl <= snap'.turnLength /\ snap'.turnLength <= Snake8TurnLength
        BY <4>2, <4>3, LengthAssumption
      <4>5. old \in Nat \ {0} /\ len \in Nat /\ new \in Nat /\ new <= len
        <5>1. old \in Nat \ {0} /\ len \in Nat \ {0}
          BY <2>1, <3>1, VersionLenNat
        <5>2. Cardinality(snap'.validators) \in Nat /\ snap'.turnLength \in Nat
          BY <2>1, ValidatorsFinite DEF SnapshotOK, Snapshots
        <5>3. len = Cardinality(snap'.validators) * snap'.turnLength
          BY DEF VersionHistoryCheckLen
        <5> QED BY <4>4, <5>1, <5>2, <5>3, ProductGrows
      <4> HIDE DEF old, new, len, n
      <4>6. Gapless(F, n, old)
        <5>1. Gapless(snap.forkBlocks, n - 1, old)
          BY <3>1 DEF ForkInv, ForkWindow, old
        <5> QED BY <3>1, <4>5, <5>1, GaplessSlide
      <4> HIDE DEF F
      <4>7. {n - i : i \in new..(old - 1)} = {n - new - i : i \in 0..(old - new - 1)}
        <5>1. n \in Nat /\ new \in Nat /\ old \in Nat
          BY <3>1, <4>5
        <5> QED BY <5>1, SameGone, Zenon
      <4>8. snap'.forkBlocks = F \ {n - new - i : i \in 0..(old - new - 1)}
        BY <4>2, <4>7 DEF F, new
      <4>9. Gapless(snap'.forkBlocks, n, new)
        <5>1. n \in Nat /\ old \in Nat /\ new \in Nat
          BY <3>1, <4>5
        <5>2. Gapless(F \ {n - new - i : i \in 0..(old - new - 1)}, n, new)
          BY <4>6, <5>1, GaplessShrink, Zenon
        <5> QED BY <4>8, <5>2, Zenon
      <4>10. Gapless(snap'.forkBlocks, snap'.number, len)
        BY <3>1, <4>1, <4>5, <4>9, GaplessGrow
      <4>11. ForkWindow'
        BY <4>10 DEF ForkWindow, len
      <4> QED BY <2>1, <3>3, <4>4, <4>11 DEF ForkInv
    <3> QED BY <3>4, <3>5
  <2> QED BY <2>2, <2>3 DEF Next
<1> QED BY <1>1, <1>2, PTL DEF Spec

\* VersionWindow: RecentForkHashes, which the vote on the client version counts,
\* is a gapless run of the newest blocks and never longer than
\* versionHistoryCheckLen, through all set switches and turn lengths, when the
\* governance contract never answers a turn length above the one Snake8 fixes.
THEOREM VersionWindow ==
  ASSUME \A t \in TurnLengths : t <= Snake8TurnLength
  PROVE  Spec => []ForkWindow
<1>1. ForkInv => ForkWindow
  BY DEF ForkInv
<1> QED BY <1>1, ForkInvariant, PTL

\* BothWindows: WindowsExact for every fork schedule and every sequence of lists,
\* turn lengths and attestations: Recents (until Snake8) and RecentForkHashes
\* always hold exactly the newest blocks of the chain.
THEOREM BothWindows ==
  ASSUME \A t \in TurnLengths : t <= Snake8TurnLength
  PROVE  Spec => []WindowsExact
<1>1. RecentsIsWindow /\ ForkWindow => WindowsExact
  BY DEF WindowsExact
<1> QED BY <1>1, RecentsWindow, VersionWindow, PTL
----------------------------------------------------------------------------
(* The list of every epoch block is installed.                             *)

\* An import installs the list of the checkpoint at a switch, and nothing else.
LEMMA ImportSwitch ==
  ASSUME WindowInv, NEW h \in Headers(snap, snap.number + 1), NEW freq, Import(h, freq), ~applyError'
  PROVE  LET n == snap.number + 1
         IN  /\ snap'.number = n
             /\ IF Switches(snap, n, snap.epochLength)
                THEN /\ snap'.validators = chain'[n - MinerHistoryCheckLen(snap)].validators
                     /\ snap'.epochKey = IF IsBohr(n) THEN n \div snap.epochLength ELSE snap.epochKey
                ELSE /\ snap'.validators = snap.validators /\ snap'.epochKey = snap.epochKey
                     /\ snap'.turnLength \in {snap.turnLength, Snake8TurnLength}
<1> DEFINE n == snap.number + 1
<1>0. PICK s, a : ImportedVia(s, a, h, n)
  BY ImportApplies, Zenon
<1> HIDE DEF n
<1>1. /\ AppliedTo(s, a, n, chain')
      /\ s.epochKey = snap.epochKey /\ s.epochLength = snap.epochLength
      /\ s.turnLength = snap.turnLength /\ s.validators = snap.validators
      /\ snap'.number = n
      /\ snap'.turnLength = IF IsSnake8Enabled(n + 1) THEN Snake8TurnLength ELSE a.turnLength
      /\ snap'.validators = a.validators /\ snap'.epochKey = a.epochKey
  BY <1>0, Zenon DEF ImportedVia
<1>2. MinerHistoryCheckLen(s) = MinerHistoryCheckLen(snap)
  BY <1>1, Zenon DEF MinerHistoryCheckLen
<1>3. Switches(s, n, s.epochLength) <=> Switches(snap, n, snap.epochLength)
  BY <1>1, <1>2 DEF Switches
<1>4. CASE Switches(snap, n, snap.epochLength)
  BY <1>1, <1>2, <1>3, <1>4, Zenon DEF AppliedTo, n
<1>5. CASE ~Switches(snap, n, snap.epochLength)
  BY <1>1, <1>3, <1>5, Zenon DEF AppliedTo, n
<1> QED BY <1>4, <1>5, Zenon

\* Quotient and remainder are unique.
LEMMA DivUnique ==
  ASSUME NEW len \in Nat \ {0}, NEW q \in Nat, NEW r \in 0..(len - 1), NEW n \in Nat, n = len * q + r
  PROVE  n \div len = q /\ n % len = r
<1> DEFINE p == n \div len
           m == n % len
<1>1. p \in Nat /\ m \in 0..(len - 1) /\ n = len * p + m
  BY DivMod, Zenon
<1> HIDE DEF p, m
<1>2. len * (q - p) = m - r
  BY <1>1
<1>3. q - p = 0
  <2>1. ASSUME q - p # 0 PROVE FALSE
    <3>1. len * (q - p) >= len \/ len * (q - p) <= -len
      BY <1>1, <2>1, MultipleApart
    <3> QED BY <1>1, <1>2, <3>1
  <2> QED BY <2>1
<1>4. p = q /\ m = r
  BY <1>1, <1>2, <1>3
<1> QED BY <1>4 DEF p, m

\* One block later the remainder grows by one, or a new epoch starts.
LEMMA NextBlock ==
  ASSUME NEW len \in Nat \ {0}, NEW n \in Nat
  PROVE  IF n % len = len - 1
         THEN (n + 1) % len = 0 /\ (n + 1) \div len = (n \div len) + 1
         ELSE (n + 1) % len = (n % len) + 1 /\ (n + 1) \div len = n \div len
<1> DEFINE q == n \div len
           r == n % len
<1>1. q \in Nat /\ r \in 0..(len - 1) /\ n = len * q + r
  BY DivMod, Zenon
<1> HIDE DEF q, r
<1>2. CASE r = len - 1
  <2>0. len * (q + 1) = len * q + len /\ len * q \in Nat
    BY <1>1
  <2> DEFINE m == n + 1
             p == q + 1
             z == 0
  <2>1. p \in Nat /\ z \in 0..(len - 1) /\ m \in Nat /\ m = len * p + z
    BY <1>1, <1>2, <2>0
  <2> HIDE DEF m, p, z
  <2>2. m \div len = p /\ m % len = z
    BY <2>1, DivUnique
  <2> QED BY <1>2, <2>2 DEF q, r, m, p, z
<1>3. CASE r # len - 1
  <2>0. len * q \in Nat
    BY <1>1
  <2> DEFINE m == n + 1
             t == r + 1
  <2>1. t \in 0..(len - 1) /\ m \in Nat /\ m = len * q + t
    BY <1>1, <1>3, <2>0
  <2> HIDE DEF m, t
  <2>2. m \div len = q /\ m % len = t
    BY <1>1, <2>1, DivUnique
  <2> QED BY <1>3, <2>2 DEF q, r, m, t
<1> QED BY <1>2, <1>3

\* The epoch blocks up to n: the newest, and the one before it.
LEMMA NewestMultiples ==
  ASSUME NEW len \in Nat \ {0}, NEW n \in Nat
  PROVE  LET e == n - (n % len)
             S == {k \in 0..n : k % len = 0}
         IN  /\ e \in 0..n /\ Max(S) = e
             /\ e > 0 => e - len \in 0..n /\ (e - len) % len = 0 /\ Max(S \ {e}) = e - len
<1> DEFINE q == n \div len
           r == n % len
           e == n - r
           S == {k \in 0..n : k % len = 0}
<1>1. q \in Nat /\ r \in 0..(len - 1) /\ n = len * q + r
  BY DivMod, Zenon
<1>2. len * q \in Nat
  BY <1>1
<1>3. e % len = 0
  BY EpochStart
<1> HIDE DEF q, r
<1>4. e \in 0..n /\ e = len * q
  BY <1>1, <1>2
<1>5. ASSUME NEW k \in S PROVE k \in Nat /\ (k = e \/ k <= e - len)
  <2> DEFINE p == k \div len
  <2>1. k \in Nat /\ k <= n /\ k % len = 0
    OBVIOUS
  <2>2. p \in Nat /\ k = len * p
    BY <2>1, DivMod
  <2> HIDE DEF p
  <2>3. k - e = len * (p - q)
    BY <1>1, <1>4, <2>2
  <2>4. CASE p - q = 0
    BY <1>4, <2>1, <2>3, <2>4
  <2>5. CASE p - q # 0
    <3>1. len * (p - q) >= len \/ len * (p - q) <= -len
      BY <1>1, <2>2, <2>5, MultipleApart
    <3>2. k - e <= r /\ r < len
      BY <1>1, <2>1
    <3> QED BY <1>1, <1>4, <2>1, <2>3, <3>1, <3>2
  <2> QED BY <2>4, <2>5
<1> HIDE DEF e
<1>6. e \in S /\ S \subseteq Nat
  BY <1>3, <1>4
<1>7. Max(S) = e
  <2>1. \A k \in S : k <= e
    BY <1>4, <1>5
  <2> HIDE DEF S
  <2> QED BY <1>6, <2>1, MaxIs
<1>8. ASSUME e > 0
      PROVE  e - len \in 0..n /\ (e - len) % len = 0 /\ Max(S \ {e}) = e - len
  <2>1. q # 0
    BY <1>1, <1>4, <1>8
  <2>2. q - 1 \in Nat /\ e - len = len * (q - 1) + 0 /\ len * (q - 1) \in Nat /\ 0 \in 0..(len - 1)
    BY <1>1, <1>4, <2>1
  <2>3. e - len \in Nat
    BY <2>2
  <2>4. (e - len) % len = 0
    BY <2>2, <2>3, DivUnique
  <2>5. e - len \in S \ {e} /\ e - len \in 0..n
    BY <1>4, <2>3, <2>4
  <2>6. \A k \in S \ {e} : k <= e - len
    BY <1>5
  <2> HIDE DEF S
  <2>7. S \ {e} \in SUBSET Nat
    BY <1>6
  <2> QED BY <2>4, <2>5, <2>6, <2>7, MaxIs
<1> QED BY <1>4, <1>7, <1>8 DEF e, r
\* Every set completes a miner history within one epoch, at any turn length.
HistoryFits ==
  \A l \in Lists : (Cardinality(l) \div 2 + 1) * Snake8TurnLength <= DefaultEpochLength

\* Only epoch blocks carry a list; the set in force is the newest list, or the
\* one before it while the miner history since the epoch block is incomplete and
\* no switch has marked the epoch.
InstalledInv ==
  LET n == snap.number
      e == n - (n % DefaultEpochLength)
  IN  /\ \A k \in DOMAIN chain : k % DefaultEpochLength # 0 => chain[k].validators = {}
      /\ snap.epochKey <= n \div DefaultEpochLength
      /\ \/ snap.validators = chain[e].validators
         \/ /\ e > 0
            /\ n % DefaultEpochLength < MinerHistoryCheckLen(snap)
            /\ snap.validators = chain[e - DefaultEpochLength].validators
            /\ snap.epochKey # n \div DefaultEpochLength

\* Without a switch the miner history does not get shorter, and it always fits.
LEMMA HistoryBounds ==
  ASSUME ForkInv, HistoryFits
  PROVE  /\ MinerHistoryCheckLen(snap) \in Nat /\ MinerHistoryCheckLen(snap) < DefaultEpochLength
         /\ /\ snap'.validators = snap.validators
            /\ snap'.turnLength \in {snap.turnLength, Snake8TurnLength}
            => MinerHistoryCheckLen(snap) <= MinerHistoryCheckLen(snap')
<1> DEFINE half == Cardinality(snap.validators) \div 2 + 1
           t == snap.turnLength
<1>1. SnapshotOK(snap)
  BY DEF ForkInv, WindowInv, TypeOK
<1>2. t \in Nat \ {0} /\ t <= Snake8TurnLength /\ Snake8TurnLength \in Nat /\ snap.validators \in Lists
  BY <1>1, LengthAssumption DEF ForkInv, SnapshotOK, Snapshots
<1>3. half \in Nat
  <2>1. Cardinality(snap.validators) \in Nat
    BY <1>1, ValidatorsFinite
  <2> QED BY <2>1
<1>4. MinerHistoryCheckLen(snap) = half * t - 1
  BY DEF MinerHistoryCheckLen
<1>5. half * Snake8TurnLength <= DefaultEpochLength
  BY <1>2 DEF HistoryFits
<1> HIDE DEF half, t
<1>6. half * t \in Nat /\ half * t <= half * Snake8TurnLength /\ half * Snake8TurnLength \in Nat
  BY <1>2, <1>3, ProductGrows
<1>7. MinerHistoryCheckLen(snap) \in Nat
  BY <1>1, CheckLenNat
<1>8. MinerHistoryCheckLen(snap) < DefaultEpochLength
  BY <1>4, <1>5, <1>6, <1>7, LengthAssumption
<1>9. ASSUME snap'.validators = snap.validators, snap'.turnLength \in {snap.turnLength, Snake8TurnLength}
      PROVE  MinerHistoryCheckLen(snap) <= MinerHistoryCheckLen(snap')
  <2>1. MinerHistoryCheckLen(snap') = half * snap'.turnLength - 1
    BY <1>9 DEF MinerHistoryCheckLen, half
  <2>2. snap'.turnLength = t \/ snap'.turnLength = Snake8TurnLength
    BY <1>9 DEF t
  <2>3. MinerHistoryCheckLen(snap') = half * t - 1 \/ MinerHistoryCheckLen(snap') = half * Snake8TurnLength - 1
    BY <2>1, <2>2
  <2> QED BY <1>4, <1>6, <2>3
<1> QED BY <1>7, <1>8, <1>9

\* One import keeps the invariant.
LEMMA InstalledStep ==
  ASSUME OneLengthInv, ForkInv, OneLengthInv', ForkInv', HistoryFits, InstalledInv,
         NEW h \in Headers(snap, snap.number + 1), NEW freq, Import(h, freq)
  PROVE  InstalledInv'
<1> DEFINE L == DefaultEpochLength
           p == snap.number
           n == p + 1
           e == p - (p % L)
           f == n - (n % L)
           M == MinerHistoryCheckLen(snap)
<1>0. WindowInv /\ ~applyError' /\ snap.epochLength = L /\ L \in Nat \ {0} /\ SnapshotOK(snap')
  BY LengthAssumption, Zenon DEF OneLengthInv, AppliedInv, WindowInv, TypeOK
<1>1. /\ n \in Nat \ {0} /\ p \in Nat /\ SnapshotOK(snap)
      /\ chain' = [k \in 0..n |-> IF k = n THEN h ELSE chain[k]] /\ DOMAIN chain = 0..p
  <2>1. /\ n \in Nat \ {0} /\ p \in Nat /\ SnapshotOK(snap)
        /\ chain' = [k \in 0..n |-> IF k = n THEN h ELSE chain[k]] /\ DOMAIN chain = 0..(n - 1)
    BY <1>0, ImportFacts
  <2>2. n - 1 = p
    BY <2>1
  <2> QED BY <2>1, <2>2
<1>2. (\A k \in 0..p : chain'[k] = chain[k]) /\ chain'[n] = h /\ DOMAIN chain' = 0..n
  BY <1>1
<1>3. /\ snap'.number = n
      /\ Switches(snap, n, L) => /\ snap'.validators = chain'[n - M].validators
                                 /\ snap'.epochKey = IF IsBohr(n) THEN n \div L ELSE snap.epochKey
      /\ ~Switches(snap, n, L) => /\ snap'.validators = snap.validators
                                  /\ snap'.epochKey = snap.epochKey
                                  /\ snap'.turnLength \in {snap.turnLength, Snake8TurnLength}
  BY <1>0, ImportSwitch, Zenon
<1>4. M \in Nat /\ M < L
  BY HistoryBounds
<1>5. ~Switches(snap, n, L) => M <= MinerHistoryCheckLen(snap')
  BY <1>0, <1>3, HistoryBounds, Zenon
<1>6. /\ snap.epochKey \in Int /\ snap'.epochKey \in Int /\ MinerHistoryCheckLen(snap') \in Nat
  BY <1>0, <1>1, CheckLenNat, Zenon DEF SnapshotOK, Snapshots
<1>7. Switches(snap, n, L) <=> n % L = M /\ ~(IsBohr(n) /\ snap.epochKey = n \div L)
  BY <1>1 DEF Switches
<1>8. p % L \in 0..(L - 1) /\ n % L \in 0..(L - 1) /\ p \div L \in Nat /\ n \div L \in Nat
  BY <1>0, <1>1, DivMod, Zenon
<1>9. IF p % L = L - 1
      THEN n % L = 0 /\ n \div L = (p \div L) + 1
      ELSE n % L = (p % L) + 1 /\ n \div L = p \div L
  BY <1>0, <1>1, NextBlock, Zenon
<1>10. \A k \in DOMAIN chain' : k % L # 0 => chain'[k].validators = {}
  <2>1. n % L # 0 => h.validators = {}
    BY <1>0 DEF Headers, EpochLists
  <2>2. \A k \in 0..p : k % L # 0 => chain[k].validators = {}
    BY <1>1, Zenon DEF InstalledInv
  <2>3. \A k \in 0..n : k = n \/ k \in 0..p
    BY <1>1
  <2> QED BY <1>2, <2>1, <2>2, <2>3
<1>11. e \in 0..p /\ (e > 0 => e - L \in 0..p)
  BY <1>0, <1>1, NewestMultiples
<1>12. /\ snap.epochKey <= p \div L
       /\ \/ snap.validators = chain[e].validators
          \/ /\ e > 0 /\ p % L < M
             /\ snap.validators = chain[e - L].validators
             /\ snap.epochKey # p \div L
  BY Zenon DEF InstalledInv
<1> SUFFICES /\ snap'.epochKey <= n \div L
             /\ \/ snap'.validators = chain'[f].validators
                \/ /\ f > 0 /\ n % L < MinerHistoryCheckLen(snap')
                   /\ snap'.validators = chain'[f - L].validators
                   /\ snap'.epochKey # n \div L
  BY <1>3, <1>10, Zenon DEF InstalledInv
<1> DEFINE pr == p % L
           nr == n % L
           pq == p \div L
           nq == n \div L
           M1 == MinerHistoryCheckLen(snap')
<1> HIDE DEF L, M
<1>13. snap'.epochKey <= nq
  <2> HIDE DEF p, n
  <2>1. snap.epochKey <= nq
    BY <1>6, <1>8, <1>9, <1>12
  <2> HIDE DEF nq
  <2>2. snap'.epochKey = snap.epochKey \/ snap'.epochKey = nq
    BY <1>3 DEF nq
  <2>3. nq \in Nat
    BY <1>8 DEF nq
  <2> QED BY <2>1, <2>2, <2>3
<1>14. CASE Switches(snap, n, L)
  <2>1. n - M = f
    BY <1>7, <1>14
  <2> QED BY <1>3, <1>13, <1>14, <2>1, Zenon
<1>15. CASE ~Switches(snap, n, L) /\ p % L = L - 1
  <2>1. n % L = 0 /\ n \div L = (p \div L) + 1
    BY <1>9, <1>15
  <2>2. snap.validators = chain[e].validators
    <3>1. ~(p % L < M)
      BY <1>0, <1>4, <1>8, <1>15
    <3> QED BY <1>12, <3>1, Zenon
  <2>3. f = n /\ f > 0 /\ f - L = e
    BY <1>0, <1>1, <1>15, <2>1
  <2>4. snap'.validators = chain'[e].validators
    BY <1>2, <1>3, <1>11, <1>15, <2>2
  <2>5. snap.epochKey # n \div L
    <3>1. snap.epochKey \in Int /\ snap.epochKey <= pq /\ pq \in Nat /\ nq = pq + 1
      BY <1>6, <1>8, <1>12, <2>1, Zenon
    <3> HIDE DEF pq, nq
    <3>2. snap.epochKey # nq
      BY <3>1
    <3> QED BY <3>2 DEF nq
  <2>6. n % L < MinerHistoryCheckLen(snap')
    <3>1. M # 0
      BY <1>7, <1>15, <2>1, <2>5
    <3> QED BY <1>4, <1>5, <1>6, <1>15, <2>1, <3>1
  <2>7. snap'.epochKey # n \div L
    BY <1>3, <1>15, <2>5
  <2> QED BY <1>13, <2>3, <2>4, <2>6, <2>7, Zenon
<1>16. CASE ~Switches(snap, n, L) /\ p % L # L - 1
  <2>1. n % L = (p % L) + 1 /\ n \div L = p \div L
    BY <1>9, <1>16
  <2>2. f = e
    BY <1>1, <1>8, <2>1
  <2>3. snap'.validators = snap.validators /\ snap'.epochKey = snap.epochKey
    BY <1>3, <1>16, Zenon
  <2>4. CASE snap.validators = chain[e].validators
    <3>1. snap'.validators = chain'[f].validators
      BY <1>2, <1>11, <2>2, <2>3, <2>4, Zenon
    <3> QED BY <1>13, <3>1, Zenon
  <2>5. CASE /\ e > 0 /\ p % L < M
             /\ snap.validators = chain[e - L].validators
             /\ snap.epochKey # p \div L
    <3>1. snap.epochKey # n \div L /\ snap'.epochKey # n \div L
      BY <2>1, <2>3, <2>5, Zenon
    <3>2. n % L # M
      BY <1>7, <1>16, <3>1
    <3>3. n % L < M
      BY <1>4, <1>8, <2>1, <2>5, <3>2
    <3>4. n % L < MinerHistoryCheckLen(snap')
      BY <1>4, <1>5, <1>6, <1>8, <1>16, <3>3
    <3>5. f > 0 /\ snap'.validators = chain'[f - L].validators
      BY <1>2, <1>11, <2>2, <2>3, <2>5, Zenon
    <3> QED BY <1>13, <3>1, <3>4, <3>5
  <2> QED BY <1>12, <2>4, <2>5, Zenon
<1> QED BY <1>14, <1>15, <1>16, Zenon

\* NoListSkipped: on a network without Lorentz and Maxwell, with a Snake8 fork
\* at any block, apply installs the list of every epoch block once the old set's
\* miner history since it is complete: never early, never a wrong list, and none
\* is skipped.  The epoch must be long enough for a miner history.
THEOREM NoListSkipped ==
  ASSUME LorentzAt > MaxBlock, MaxwellAt > MaxBlock,
         \A t \in TurnLengths : t <= Snake8TurnLength,
         HistoryFits
  PROVE  Spec => []EpochSetInstalled
<1>1. Spec => []OneLengthInv
  BY OneLengthInvariant
<1>2. Spec => []ForkInv
  BY ForkInvariant
<1>3. Init => InstalledInv
  <2> SUFFICES ASSUME Init PROVE InstalledInv
    OBVIOUS
  <2>1. PICK g \in Lists :
          /\ chain = [n \in {0} |-> [signer |-> 0, validators |-> g, turnLength |-> DefaultTurnLength,
                                     attestation |-> NoAttestation]]
          /\ snap = [NewSnapshot(0, g, IsSnake8Enabled(1))
                       EXCEPT !.turnLength = IF IsSnake8Enabled(1) THEN Snake8TurnLength ELSE @]
    BY DEF Init
  <2>2. snap.number = 0 /\ snap.validators = g /\ snap.epochKey = -1
        /\ DOMAIN chain = {0} /\ chain[0].validators = g
    BY <2>1 DEF NewSnapshot, NoEpochKey
  <2>3. 0 % DefaultEpochLength = 0 /\ 0 \div DefaultEpochLength = 0
    BY LengthAssumption
  <2> QED BY <2>2, <2>3 DEF InstalledInv
<1>4. OneLengthInv /\ OneLengthInv' /\ ForkInv /\ ForkInv' /\ InstalledInv /\ [Next]_vars => InstalledInv'
  <2> SUFFICES ASSUME OneLengthInv, OneLengthInv', ForkInv, ForkInv', InstalledInv, [Next]_vars
               PROVE  InstalledInv'
    OBVIOUS
  <2>1. CASE UNCHANGED vars
    BY <2>1, Zenon DEF vars, InstalledInv, MinerHistoryCheckLen
  <2>2. CASE Next
    BY <2>2, InstalledStep DEF Next
  <2> QED BY <2>1, <2>2
<1>5. OneLengthInv /\ ForkInv /\ InstalledInv => EpochSetInstalled
  <2> SUFFICES ASSUME OneLengthInv, ForkInv, InstalledInv PROVE EpochSetInstalled
    OBVIOUS
  <2> DEFINE L == DefaultEpochLength
             n == snap.number
             e == n - (n % L)
             S == {k \in 0..n : k % L = 0}
  <2>1. SnapshotOK(snap) /\ DOMAIN chain = 0..n
    BY DEF OneLengthInv, AppliedInv, WindowInv, TypeOK
  <2>2. n \in Nat /\ L \in Nat \ {0}
    BY <2>1, LengthAssumption DEF SnapshotOK, Snapshots
  <2>3. EpochBlocks = S
    BY <2>1 DEF EpochBlocks, OneLengthInv, InstalledInv
  <2>4. Max(S) = e /\ (e > 0 => Max(S \ {e}) = e - L)
    BY <2>2, NewestMultiples, Zenon
  <2>5. n % L \in 0..(L - 1)
    BY <2>2, DivMod, Zenon
  <2>6. n - e = n % L
    BY <2>2, <2>5
  <2>7. \/ snap.validators = chain[e].validators
        \/ /\ e > 0 /\ n % L < MinerHistoryCheckLen(snap)
           /\ snap.validators = chain[e - L].validators
    BY DEF InstalledInv
  <2> HIDE DEF S, e, n, L
  <2>8. Max(EpochBlocks) = e /\ (e > 0 => Max(EpochBlocks \ {e}) = e - L)
    BY <2>3, <2>4
  <2> QED BY <2>6, <2>7, <2>8 DEF EpochSetInstalled, n
<1> QED BY <1>1, <1>2, <1>3, <1>4, <1>5, PTL DEF Spec
----------------------------------------------------------------------------
(* No validator seals more than its turns.                                 *)

\* The turn lengths that may have been in force so far.
TurnsSoFar ==
  TurnLengths \cup {DefaultTurnLength} \cup (IF snap.isSnake8 THEN {Snake8TurnLength} ELSE {})

\* Where turn lengths come from, and what an entry of Recents says, Snake8 included.
TurnInv ==
  /\ \A k \in DOMAIN chain :
       chain[k].validators # {} /\ IsBohr(k) => chain[k].turnLength \in TurnLengths \cup {DefaultTurnLength}
  /\ snap.turnLength \in TurnsSoFar
  /\ snap.isSnake8 => snap.turnLength = Snake8TurnLength
  /\ \A k \in DOMAIN snap.recents : snap.recents[k] = chain[k].signer

\* The fork flag is never taken back.
LEMMA Snake8Stays ==
  ASSUME WindowInv, WindowInv', snap.number \in Nat, snap'.number = snap.number + 1
  PROVE  /\ snap.isSnake8 => snap'.isSnake8
         /\ snap'.isSnake8 /\ ~snap.isSnake8 => snap'.number = Snake8At
         /\ TurnsSoFar \subseteq TurnsSoFar'
<1>1. /\ snap.isSnake8 = IsSnake8Enabled(snap.number + 1)
      /\ snap'.isSnake8 = IsSnake8Enabled(snap'.number + 1)
  BY DEF WindowInv
<1>2. /\ IsSnake8Enabled(snap.number + 1) <=> snap.number >= Snake8At
      /\ IsSnake8Enabled(snap'.number + 1) <=> snap'.number >= Snake8At
  BY ForkAssumption DEF IsSnake8Enabled
<1>3. snap.isSnake8 => snap'.isSnake8
  BY <1>1, <1>2, ForkAssumption
<1>4. snap'.isSnake8 /\ ~snap.isSnake8 => snap'.number = Snake8At
  BY <1>1, <1>2, ForkAssumption
<1>5. TurnsSoFar \subseteq TurnsSoFar'
  BY <1>3, Zenon DEF TurnsSoFar
<1> QED BY <1>3, <1>4, <1>5

\* What an import does to the turn length and to Recents.
LEMMA ImportedTurns ==
  ASSUME WindowInv, NEW h \in Headers(snap, snap.number + 1), NEW freq, Import(h, freq), ~applyError'
  PROVE  LET n == snap.number + 1
         IN  /\ \/ IsSnake8Enabled(n + 1) /\ snap'.turnLength = Snake8TurnLength
                \/ /\ ~IsSnake8Enabled(n + 1)
                   /\ \/ snap'.turnLength = snap.turnLength
                      \/ \E k \in 0..n : /\ chain'[k].validators # {} /\ IsBohr(k)
                                         /\ snap'.turnLength = chain'[k].turnLength
             /\ \A k \in DOMAIN snap'.recents :
                  snap'.recents[k] = IF k = n THEN h.signer ELSE snap.recents[k]
             /\ ~Switches(snap, n, snap.epochLength) =>
                  DOMAIN snap'.recents =
                    {k \in (DOMAIN snap.recents \ {n - Limit(snap)}) \cup {n} :
                       IsMaxwell(n) => k > snap'.attestation.source}
<1> DEFINE n == snap.number + 1
<1>0. PICK s, a : ImportedVia(s, a, h, n)
  BY ImportApplies, Zenon
<1> HIDE DEF n
<1>1. /\ AppliedTo(s, a, n, chain') /\ HistoryKept(s, a, n, chain') /\ chain'[n] = h
      /\ s.epochKey = snap.epochKey /\ s.epochLength = snap.epochLength
      /\ s.turnLength = snap.turnLength /\ s.validators = snap.validators
      /\ snap'.turnLength = IF IsSnake8Enabled(n + 1) THEN Snake8TurnLength ELSE a.turnLength
      /\ s.recents = snap.recents /\ snap'.recents = a.recents /\ snap'.attestation = a.attestation
  BY <1>0, Zenon DEF ImportedVia
<1>2. MinerHistoryCheckLen(s) = MinerHistoryCheckLen(snap)
  BY <1>1 DEF MinerHistoryCheckLen
<1>3. Switches(s, n, s.epochLength) <=> Switches(snap, n, snap.epochLength)
  BY <1>1, <1>2, Zenon DEF Switches
<1>4. \/ a.turnLength = snap.turnLength
      \/ \E k \in 0..n : chain'[k].validators # {} /\ IsBohr(k) /\ a.turnLength = chain'[k].turnLength
  BY <1>1, Zenon DEF AppliedTo
<1>5. \A k \in DOMAIN snap'.recents :
        snap'.recents[k] = IF k = n THEN h.signer ELSE snap.recents[k]
  BY <1>1, Zenon DEF HistoryKept
<1>6. ~Switches(snap, n, snap.epochLength) =>
        DOMAIN snap'.recents = {k \in (DOMAIN snap.recents \ {n - Limit(snap)}) \cup {n} :
                                  IsMaxwell(n) => k > snap'.attestation.source}
  <2>1. Limit(s) = Limit(snap)
    BY <1>2 DEF Limit
  <2> QED BY <1>1, <1>3, <2>1, Zenon DEF HistoryKept
<1>7. \/ IsSnake8Enabled(n + 1) /\ snap'.turnLength = Snake8TurnLength
      \/ /\ ~IsSnake8Enabled(n + 1)
         /\ \/ snap'.turnLength = snap.turnLength
            \/ \E k \in 0..n : /\ chain'[k].validators # {} /\ IsBohr(k)
                               /\ snap'.turnLength = chain'[k].turnLength
  BY <1>1, <1>4, Zenon
<1> QED BY <1>5, <1>6, <1>7, Zenon DEF n
\* TurnInv is inductive.
LEMMA TurnInvariant == Spec => []TurnInv
<1>1. Init => TurnInv
  <2> SUFFICES ASSUME Init PROVE TurnInv
    OBVIOUS
  <2>1. PICK g \in Lists :
          /\ chain = [n \in {0} |-> [signer |-> 0, validators |-> g, turnLength |-> DefaultTurnLength,
                                     attestation |-> NoAttestation]]
          /\ snap = [NewSnapshot(0, g, IsSnake8Enabled(1))
                       EXCEPT !.turnLength = IF IsSnake8Enabled(1) THEN Snake8TurnLength ELSE @]
    BY DEF Init
  <2>2. /\ snap.isSnake8 = IsSnake8Enabled(1) /\ DOMAIN snap.recents = {}
        /\ snap.turnLength = IF IsSnake8Enabled(1) THEN Snake8TurnLength ELSE DefaultTurnLength
    BY <2>1 DEF NewSnapshot
  <2>3. \A k \in DOMAIN chain : chain[k].turnLength = DefaultTurnLength
    BY <2>1
  <2> QED BY <2>2, <2>3, Zenon DEF TurnInv, TurnsSoFar
<1>2. TurnInv /\ AppliedInv /\ AppliedInv' /\ PastInv /\ [Next]_vars => TurnInv'
  <2> SUFFICES ASSUME TurnInv, AppliedInv, AppliedInv', PastInv, [Next]_vars PROVE TurnInv'
    OBVIOUS
  <2>1. CASE UNCHANGED vars
    BY <2>1 DEF TurnInv, TurnsSoFar, vars
  <2>2. ASSUME NEW h \in Headers(snap, snap.number + 1), NEW freq \in Frequencies(snap), Import(h, freq)
        PROVE  TurnInv'
    <3> DEFINE n == snap.number + 1
    <3>0. WindowInv /\ WindowInv' /\ ~applyError'
      BY DEF AppliedInv
    <3>1. /\ n \in Nat /\ snap.number \in Nat /\ DOMAIN chain = 0..(n - 1) /\ SnapshotOK(snap)
          /\ chain' = [k \in 0..n |-> IF k = n THEN h ELSE chain[k]]
      BY <2>2, <3>0, ImportFacts, Zenon
    <3>2. snap'.number = n
      BY <2>2, <3>0, AppliedImport
    <3>3. TurnsSoFar \subseteq TurnsSoFar'
      BY <3>0, <3>1, <3>2, Snake8Stays
    <3>4. h.validators # {} /\ IsBohr(n) => h.turnLength \in TurnLengths
      BY DEF Headers, EpochLists, EpochTurnLengths
    <3>5. ASSUME NEW k \in DOMAIN chain', chain'[k].validators # {}, IsBohr(k)
          PROVE  chain'[k].turnLength \in TurnLengths \cup {DefaultTurnLength}
      <4>1. k \in 0..n /\ chain'[k] = IF k = n THEN h ELSE chain[k]
        BY <3>1, <3>5
      <4>2. CASE k = n
        BY <3>4, <3>5, <4>1, <4>2
      <4>3. CASE k # n
        <5>1. k \in DOMAIN chain
          BY <3>1, <4>1, <4>3
        <5> QED BY <3>5, <4>1, <4>3, <5>1 DEF TurnInv
      <4> QED BY <4>2, <4>3
    <3>6. snap'.isSnake8 = IsSnake8Enabled(n + 1)
      BY <3>0, <3>2, Zenon DEF WindowInv
    <3>7. snap'.isSnake8 => snap'.turnLength = Snake8TurnLength
      BY <2>2, <3>0, <3>6, ImportedTurns, Zenon
    <3>8. snap'.turnLength \in TurnsSoFar'
      <4>1. CASE snap'.isSnake8
        BY <3>7, <4>1 DEF TurnsSoFar
      <4>2. CASE ~snap'.isSnake8
        <5>1. \/ snap'.turnLength = snap.turnLength
              \/ \E k \in 0..n : /\ chain'[k].validators # {} /\ IsBohr(k)
                                 /\ snap'.turnLength = chain'[k].turnLength
          BY <2>2, <3>0, <3>6, <4>2, ImportedTurns, Zenon
        <5>2. DOMAIN chain' = 0..n
          BY <3>1
        <5> HIDE DEF n
        <5>3. snap'.turnLength \in TurnsSoFar \/ snap'.turnLength \in TurnLengths \cup {DefaultTurnLength}
          BY <3>5, <5>1, <5>2, Zenon DEF TurnInv
        <5> QED BY <3>3, <5>3 DEF TurnsSoFar
      <4> QED BY <4>1, <4>2
    <3>9. ASSUME NEW k \in DOMAIN snap'.recents
          PROVE  snap'.recents[k] = chain'[k].signer
      <4>1. snap'.recents[k] = IF k = n THEN h.signer ELSE snap.recents[k]
        BY <2>2, <3>0, ImportedTurns, Zenon
      <4>2. DOMAIN snap'.recents \subseteq DOMAIN snap.recents \cup {n}
        BY <2>2, <3>0, AppliedImport, Zenon
      <4>3. CASE k = n
        BY <3>1, <4>1, <4>3
      <4>4. CASE k # n
        <5>1. k \in DOMAIN snap.recents /\ k \in 0..n
          BY <3>1, <4>2, <4>4 DEF PastInv
        <5> QED BY <3>1, <4>1, <4>4, <5>1, Zenon DEF TurnInv
      <4> QED BY <4>3, <4>4
    <3> QED BY <3>5, <3>7, <3>8, <3>9 DEF TurnInv
  <2> QED BY <2>1, <2>2 DEF Next
<1> QED BY <1>1, <1>2, AppliedInvariant, PastInvariant, PTL DEF Spec
\* The blocks after b that v sealed and that a miner history still counts.
SealedSince(b, v) ==
  {k \in (b + 1)..snap.number :
     /\ k > snap.number - Limit(snap) /\ chain[k].signer = v
     /\ IsMaxwell(snap.number) => k > GetFinalizedNumber(snap)}

\* The miner history of a set of validators that contains every address.
LongestHistory(t) == (Cardinality(Addr) \div 2 + 1) * t - 1

\* Since block b, which is the last set switch or the Snake8 fork, Recents holds
\* every block that still counts, and nobody sealed more than a turn of them.
BudgetFrom(b) ==
  /\ b \in 0..snap.number
  /\ \/ snap.isSnake8 /\ b = Snake8At
     \/ \E e \in EpochBlocks, t \in TurnsSoFar : b <= e + LongestHistory(t)
  /\ \A k \in (b + 1)..snap.number :
       k > snap.number - Limit(snap) =>
         k \in DOMAIN snap.recents \/ (IsMaxwell(snap.number) /\ k <= GetFinalizedNumber(snap))
  /\ \A v \in Addr : Cardinality(SealedSince(b, v)) <= snap.turnLength

BudgetInv == \E b : BudgetFrom(b)

\* A set of validators has no longer history than the set of all addresses.
LEMMA HistoryLongest ==
  ASSUME NEW s, SnapshotOK(s)
  PROVE  /\ LongestHistory(s.turnLength) \in Nat
         /\ MinerHistoryCheckLen(s) <= LongestHistory(s.turnLength)
<1> DEFINE t == s.turnLength
           a == Cardinality(s.validators) \div 2 + 1
           b == Cardinality(Addr) \div 2 + 1
<1>1. t \in Nat \ {0} /\ s.validators \in SUBSET Addr
  BY BoundAssumption DEF SnapshotOK, Snapshots
<1>2. /\ Cardinality(s.validators) \in Nat /\ Cardinality(Addr) \in Nat
      /\ Cardinality(s.validators) <= Cardinality(Addr)
  BY <1>1, AddrAssumption, FS_Subset, FS_CardinalityType
<1>3. a \in Nat \ {0} /\ b \in Nat \ {0} /\ a <= b
  BY <1>2
<1> HIDE DEF a, b, t
<1>4. t * a <= t * b /\ t * a \in Nat \ {0} /\ t * b \in Nat \ {0}
  BY <1>1, <1>3, ProductGrows, PositiveProduct
<1>5. a * t = t * a /\ b * t = t * b
  BY <1>1, <1>3
<1>6. MinerHistoryCheckLen(s) = a * t - 1 /\ LongestHistory(t) = b * t - 1
  BY DEF MinerHistoryCheckLen, LongestHistory, a, b, t
<1>7. LongestHistory(t) \in Nat /\ MinerHistoryCheckLen(s) <= LongestHistory(t)
  BY <1>4, <1>5, <1>6
<1> QED BY <1>7 DEF t

\* A new budget starts at a block after which nothing has been sealed yet.
LEMMA BudgetStarts ==
  ASSUME SnapshotOK(snap'), snap'.number \in Nat,
         \/ snap'.isSnake8 /\ snap'.number = Snake8At
         \/ \E e \in EpochBlocks', t \in TurnsSoFar' : snap'.number <= e + LongestHistory(t)
  PROVE  BudgetFrom(snap.number)'
<1>1. (snap'.number + 1)..snap'.number = {} /\ snap'.number \in 0..snap'.number
  OBVIOUS
<1>2. snap'.turnLength \in Nat
  BY DEF SnapshotOK, Snapshots
<1>3. ASSUME NEW v \in Addr PROVE Cardinality(SealedSince(snap.number, v)') <= snap'.turnLength
  <2>1. SealedSince(snap.number, v)' = {}
    BY <1>1 DEF SealedSince
  <2> QED BY <1>2, <2>1, FS_EmptySet
<1> QED BY <1>1, <1>3 DEF BudgetFrom

\* A header that switches nothing, after a budget that began with block b.
BudgetStep(h, freq, b) ==
  /\ WindowInv /\ PastInv /\ TurnInv /\ WindowInv' /\ ~applyError'
  /\ snap.attestation.source <= snap'.attestation.source
  /\ h \in Headers(snap, snap.number + 1) /\ Import(h, freq)
  /\ ~Switches(snap, snap.number + 1, snap.epochLength)
  /\ snap'.isSnake8 = snap.isSnake8
  /\ BudgetFrom(b)

\* Between two switches the budget goes on from the same block.
LEMMA BudgetKept ==
  ASSUME NEW h, NEW freq, NEW b, BudgetStep(h, freq, b)
  PROVE  BudgetFrom(b)'
<1> DEFINE n == snap.number
           lim == Limit(snap)
           fin == snap.attestation.source
           t == snap.turnLength
<1>a. /\ WindowInv /\ ~applyError' /\ h \in Headers(snap, snap.number + 1) /\ Import(h, freq)
      /\ ~Switches(snap, snap.number + 1, snap.epochLength)
  BY Zenon DEF BudgetStep
<1>b. TurnInv /\ WindowInv' /\ snap'.isSnake8 = snap.isSnake8
  BY Zenon DEF BudgetStep
<1>c. BudgetFrom(b) /\ fin <= snap'.attestation.source
  BY Zenon DEF BudgetStep
<1>1. /\ n \in Nat /\ DOMAIN chain = 0..n /\ SnapshotOK(snap)
      /\ chain' = [k \in 0..(n + 1) |-> IF k = n + 1 THEN h ELSE chain[k]]
  <2>1. n \in Nat /\ DOMAIN chain = 0..((n + 1) - 1)
    BY <1>a, ImportFacts
  <2>2. SnapshotOK(snap) /\ chain' = [k \in 0..(n + 1) |-> IF k = n + 1 THEN h ELSE chain[k]]
    BY <1>a, ImportFacts
  <2> QED BY <2>1, <2>2
<1>2. snap'.number = n + 1 /\ snap'.validators = snap.validators
  BY <1>a, ImportSwitch, Zenon
<1>3. snap'.turnLength = t
  <2>1. snap'.isSnake8 = IsSnake8Enabled(n + 1 + 1)
    BY <1>b, <1>2 DEF WindowInv
  <2>2. CASE snap'.isSnake8
    <3>1. snap'.turnLength = Snake8TurnLength
      BY <1>a, <2>1, <2>2, ImportedTurns, Zenon
    <3> QED BY <1>b, <2>2, <3>1, Zenon DEF TurnInv
  <2>3. CASE ~snap'.isSnake8
    <3>1. PICK s, a : ImportedVia(s, a, h, n + 1)
      BY <1>a, ImportApplies, Zenon
    <3>2. /\ AppliedTo(s, a, n + 1, chain')
          /\ s.epochKey = snap.epochKey /\ s.epochLength = snap.epochLength
          /\ s.turnLength = snap.turnLength /\ s.validators = snap.validators
          /\ snap'.turnLength = IF IsSnake8Enabled(n + 1 + 1) THEN Snake8TurnLength ELSE a.turnLength
      BY <3>1, Zenon DEF ImportedVia
    <3>3. ~Switches(s, n + 1, s.epochLength)
      BY <1>a, <3>2, Zenon DEF Switches, MinerHistoryCheckLen
    <3>4. a.turnLength = s.turnLength
      BY <3>2, <3>3, Zenon DEF AppliedTo
    <3> QED BY <2>1, <2>3, <3>2, <3>4, Zenon
  <2> QED BY <2>2, <2>3
<1>4. Limit(snap') = lim /\ lim \in Nat
  <2>1. MinerHistoryCheckLen(snap) \in Nat
    BY <1>1, CheckLenNat, Zenon
  <2>2. MinerHistoryCheckLen(snap') = MinerHistoryCheckLen(snap)
    BY <1>2, <1>3, Zenon DEF MinerHistoryCheckLen
  <2> QED BY <2>1, <2>2 DEF Limit
<1>5. t \in Nat \ {0} /\ fin \in Nat /\ snap'.attestation.source \in Nat
  <2>1. SnapshotOK(snap')
    BY <1>b, Zenon DEF WindowInv, TypeOK
  <2> QED BY <1>1, <2>1 DEF SnapshotOK, Snapshots
<1>6. b \in 0..n /\ b \in Nat
  BY <1>c, <1>1 DEF BudgetFrom
<1>7. \A k \in 0..n : chain'[k] = chain[k]
  BY <1>1
<1>8. IsMaxwell(n) => IsMaxwell(n + 1)
  BY <1>1, ForkAssumption DEF IsMaxwell
<1>9. \/ snap'.isSnake8 /\ b = Snake8At
      \/ \E e \in EpochBlocks', u \in TurnsSoFar' : b <= e + LongestHistory(u)
  <2>1. TurnsSoFar' = TurnsSoFar
    BY <1>b DEF TurnsSoFar
  <2>2. EpochBlocks \subseteq EpochBlocks'
    <3>1. \A k \in 0..n : k \in 0..(n + 1)
      BY <1>1
    <3> HIDE DEF n
    <3>2. EpochBlocks = {k \in 0..n : chain[k].validators # {}}
      BY DEF EpochBlocks, n
    <3>3. EpochBlocks' = {k \in 0..(n + 1) : chain'[k].validators # {}}
      BY <1>2 DEF EpochBlocks
    <3> QED BY <1>7, <3>1, <3>2, <3>3, Zenon
  <2>3. \/ snap.isSnake8 /\ b = Snake8At
        \/ \E e \in EpochBlocks, u \in TurnsSoFar : b <= e + LongestHistory(u)
    BY <1>c DEF BudgetFrom
  <2> QED BY <1>b, <2>1, <2>2, <2>3, Zenon
<1>10. ASSUME NEW k \in (b + 1)..n, k > n + 1 - lim
       PROVE  k \in DOMAIN snap.recents \/ (IsMaxwell(n) /\ k <= fin)
  <2>1. k > n - lim
    BY <1>1, <1>4, <1>6, <1>10
  <2> QED BY <1>c, <2>1 DEF BudgetFrom, GetFinalizedNumber
<1>11. ASSUME NEW k \in (b + 1)..(n + 1), k > n + 1 - lim
       PROVE  k \in DOMAIN snap'.recents \/ (IsMaxwell(n + 1) /\ k <= snap'.attestation.source)
  <2>1. DOMAIN snap'.recents = {j \in (DOMAIN snap.recents \ {(n + 1) - lim}) \cup {n + 1} :
                                  IsMaxwell(n + 1) => j > snap'.attestation.source}
    BY <1>a, ImportedTurns, Zenon
  <2>2. k \in Nat /\ (k # n + 1 => k \in (b + 1)..n)
    BY <1>1, <1>6
  <2>3. k \in DOMAIN snap.recents \cup {n + 1} \/ (IsMaxwell(n) /\ k <= fin)
    BY <1>10, <1>11, <2>2
  <2>4. k # (n + 1) - lim
    BY <1>1, <1>4, <1>11, <2>2
  <2>5. IsMaxwell(n) /\ k <= fin => IsMaxwell(n + 1) /\ k <= snap'.attestation.source
    <3>1. fin <= snap'.attestation.source
      BY <1>c
    <3>2. k <= fin => k <= snap'.attestation.source
      BY <1>5, <2>2, <3>1
    <3> QED BY <1>8, <3>2, Zenon
  <2>6. ~(k > snap'.attestation.source) => k <= snap'.attestation.source
    BY <1>5, <2>2
  <2> QED BY <2>1, <2>3, <2>4, <2>5, <2>6
<1>12. ASSUME NEW v \in Addr PROVE Cardinality(SealedSince(b, v)') <= t
  <2> DEFINE old == SealedSince(b, v)
             new == SealedSince(b, v)'
             stay == new \ {n + 1}
  <2>1. \A k \in new : /\ k \in (b + 1)..(n + 1) /\ k > n + 1 - lim /\ chain'[k].signer = v
                       /\ IsMaxwell(n + 1) => k > snap'.attestation.source
    <3>1. new = {k \in (b + 1)..snap'.number :
                   /\ k > snap'.number - Limit(snap') /\ chain'[k].signer = v
                   /\ IsMaxwell(snap'.number) => k > snap'.attestation.source}
      BY Zenon DEF SealedSince, GetFinalizedNumber
    <3> HIDE DEF new, n, lim
    <3> QED BY <1>1, <1>2, <1>4, <1>6, <3>1 DEF IsMaxwell
  <2>2. old = {k \in (b + 1)..n : /\ k > n - lim /\ chain[k].signer = v
                                  /\ IsMaxwell(n) => k > fin}
    BY DEF SealedSince, GetFinalizedNumber
  <2> HIDE DEF old, new
  <2>3. ASSUME NEW k \in stay
        PROVE  /\ k \in old /\ k > n + 1 - lim /\ k \in (b + 1)..n /\ chain[k].signer = v
               /\ ~(IsMaxwell(n) /\ k <= fin)
    <3>0. /\ k # n + 1 /\ k \in (b + 1)..(n + 1) /\ k > n + 1 - lim /\ chain'[k].signer = v
          /\ IsMaxwell(n + 1) => k > snap'.attestation.source
      BY <2>1, Zenon
    <3>1. k \in (b + 1)..n /\ k \in Nat /\ k > n + 1 - lim /\ k > n - lim
      BY <1>1, <1>4, <1>6, <3>0
    <3>2. chain[k].signer = v
      BY <1>1, <1>6, <1>7, <3>0, <3>1
    <3>3. IsMaxwell(n) => k > fin
      <4>1. fin <= snap'.attestation.source
        BY <1>c
      <4>2. k > snap'.attestation.source => k > fin
        BY <1>5, <3>1, <4>1
      <4> QED BY <1>8, <3>0, <4>2, Zenon
    <3> QED BY <1>5, <2>2, <3>1, <3>2, <3>3
  <2>4. IsFiniteSet(old) /\ IsFiniteSet(stay) /\ Cardinality(old) \in Nat /\ Cardinality(stay) \in Nat
    <3>1. IsFiniteSet((b + 1)..n)
      BY <1>1, <1>6, FS_Interval
    <3>2. old \in SUBSET ((b + 1)..n) /\ stay \in SUBSET ((b + 1)..n)
      BY <2>2, <2>3
    <3> QED BY <3>1, <3>2, FS_Subset, FS_CardinalityType, Zenon
  <2>5. Cardinality(old) <= t
    BY <1>c DEF BudgetFrom, old
  <2>6. CASE v # h.signer
    <3>1. n + 1 \notin new
      <4>1. chain'[n + 1] = h
        BY <1>1
      <4> QED BY <2>1, <2>6, <4>1, Zenon
    <3>2. new \in SUBSET old
      BY <2>3, <3>1
    <3>3. Cardinality(new) <= Cardinality(old) /\ Cardinality(new) \in Nat
      BY <2>4, <3>2, FS_Subset, FS_CardinalityType
    <3> QED BY <1>5, <2>4, <2>5, <3>3 DEF new
  <2>7. CASE v = h.signer
    <3>1. ~SignRecently(snap, v)
      BY <1>a, <2>7 DEF Import, VerifySeal
    <3>2. IsFiniteSet(Counted(snap, v)) /\ Cardinality(Counted(snap, v)) \in Nat
      BY <1>1, CountedFinite, FS_CardinalityType
    <3>3. Cardinality(Counted(snap, v)) < t
      BY <1>5, <3>1, <3>2 DEF SignRecently, CountRecents, Counted
    <3>4. stay \in SUBSET Counted(snap, v)
      <4> SUFFICES ASSUME NEW k \in stay PROVE k \in Counted(snap, v)
        OBVIOUS
      <4>1. k \in (b + 1)..n /\ k > n + 1 - lim /\ k \in DOMAIN snap.recents
        BY <1>10, <2>3
      <4>2. snap.recents[k] = v
        BY <1>b, <2>3, <4>1 DEF TurnInv
      <4>3. MinerHistoryCheckLen(snap) \in Nat /\ lim = MinerHistoryCheckLen(snap) + 1
        BY <1>1, CheckLenNat DEF Limit
      <4>4. k > LeftHistoryBound(snap)
        BY <1>1, <1>6, <4>1, <4>3 DEF LeftHistoryBound
      <4> QED BY <4>1, <4>2, <4>4 DEF Counted
    <3>5. Cardinality(stay) < t
      <4>1. Cardinality(stay) <= Cardinality(Counted(snap, v))
        BY <3>2, <3>4, FS_Subset
      <4> QED BY <1>5, <2>4, <3>2, <3>3, <4>1
    <3>6. new \in SUBSET (stay \cup {n + 1})
      OBVIOUS
    <3> HIDE DEF stay
    <3>7. IsFiniteSet(stay \cup {n + 1}) /\ Cardinality(stay \cup {n + 1}) <= Cardinality(stay) + 1
      <4> DEFINE m == n + 1
      <4> HIDE DEF m
      <4>1. /\ IsFiniteSet(stay \cup {m})
            /\ Cardinality(stay \cup {m}) = IF m \in stay THEN Cardinality(stay) ELSE Cardinality(stay) + 1
        BY <2>4, FS_AddElement
      <4>2. Cardinality(stay \cup {m}) <= Cardinality(stay) + 1
        BY <2>4, <4>1
      <4> QED BY <4>1, <4>2 DEF m
    <3>8. /\ Cardinality(new) <= Cardinality(stay \cup {n + 1})
          /\ Cardinality(new) \in Nat /\ Cardinality(stay \cup {n + 1}) \in Nat
      BY <3>6, <3>7, FS_Subset, FS_CardinalityType
    <3> QED BY <1>5, <2>4, <3>5, <3>7, <3>8 DEF new
  <2> QED BY <2>6, <2>7
<1>13. b \in 0..(n + 1)
  BY <1>1, <1>6
<1> HIDE DEF n, lim, fin, t
<1>14. b \in 0..snap'.number
  BY <1>2, <1>13
<1>15. \A k \in (b + 1)..snap'.number :
         k > snap'.number - Limit(snap') =>
           k \in DOMAIN snap'.recents \/ (IsMaxwell(snap'.number) /\ k <= GetFinalizedNumber(snap'))
  BY <1>1, <1>2, <1>4, <1>6, <1>11 DEF GetFinalizedNumber, IsMaxwell
<1>16. \A v \in Addr : Cardinality(SealedSince(b, v)') <= snap'.turnLength
  BY <1>3, <1>12
<1> QED BY <1>9, <1>14, <1>15, <1>16 DEF BudgetFrom
\* BudgetInv is inductive where finality never goes back.
LEMMA BudgetInvariant ==
  ASSUME \A n \in QuorumAt : IsPlato(n)
  PROVE  Spec => []BudgetInv
<1>1. Init => BudgetInv
  <2> SUFFICES ASSUME Init PROVE BudgetInv
    OBVIOUS
  <2>1. WindowInv /\ SnapshotOK(snap)
    BY InitWindow DEF WindowInv, TypeOK
  <2>2. snap.number = 0 /\ chain[0].validators # {} /\ DefaultTurnLength \in TurnsSoFar
    BY BoundAssumption DEF Init, NewSnapshot, TurnsSoFar
  <2>3. 0 \in EpochBlocks
    BY <2>2 DEF EpochBlocks
  <2>4. Cardinality(Addr) \in Nat
    BY AddrAssumption, FS_CardinalityType
  <2>5. 0 <= 0 + LongestHistory(DefaultTurnLength)
    BY <2>4 DEF LongestHistory, DefaultTurnLength
  <2>6. \E e \in EpochBlocks, t \in TurnsSoFar : snap.number <= e + LongestHistory(t)
    BY <2>2, <2>3, <2>5
  <2>7. BudgetFrom(0)
    <3>1. (0 + 1)..0 = {} /\ 0 \in 0..0 /\ snap.turnLength \in Nat
      BY <2>1 DEF SnapshotOK, Snapshots
    <3>2. ASSUME NEW v \in Addr PROVE Cardinality(SealedSince(0, v)) <= snap.turnLength
      <4>1. SealedSince(0, v) = {}
        BY <2>2, <3>1 DEF SealedSince
      <4> QED BY <3>1, <4>1, FS_EmptySet
    <3> QED BY <2>2, <2>6, <3>1, <3>2 DEF BudgetFrom
  <2> QED BY <2>7 DEF BudgetInv
<1>2. ASSUME BudgetInv, AppliedInv, AppliedInv', PastInv, TurnInv, FoldInv, FoldInv', [Next]_vars
      PROVE  BudgetInv'
  <2>1. CASE UNCHANGED vars
    <3>1. snap' = snap /\ chain' = chain
      BY <2>1 DEF vars
    <3>2. EpochBlocks' = EpochBlocks /\ TurnsSoFar' = TurnsSoFar
      BY <3>1 DEF EpochBlocks, TurnsSoFar
    <3>3. \A b, v : SealedSince(b, v)' = SealedSince(b, v)
      BY <3>1 DEF SealedSince
    <3>4. PICK b : BudgetFrom(b)
      BY <1>2, Zenon DEF BudgetInv
    <3>5. BudgetFrom(b)'
      BY <3>1, <3>2, <3>3, <3>4 DEF BudgetFrom
    <3> QED BY <3>5, Zenon DEF BudgetInv
  <2>2. ASSUME NEW h \in Headers(snap, snap.number + 1), NEW freq \in Frequencies(snap), Import(h, freq)
        PROVE  BudgetInv'
    <3> DEFINE n == snap.number + 1
    <3>0. WindowInv /\ WindowInv' /\ ~applyError'
      BY <1>2 DEF AppliedInv
    <3>1. /\ n \in Nat /\ snap.number \in Nat /\ SnapshotOK(snap) /\ SnapshotOK(snap')
          /\ DOMAIN chain' = 0..n
      <4>1. n \in Nat /\ snap.number \in Nat /\ SnapshotOK(snap)
            /\ chain' = [k \in 0..n |-> IF k = n THEN h ELSE chain[k]]
        BY <2>2, <3>0, ImportFacts, Zenon
      <4>2. SnapshotOK(snap')
        BY <3>0, Zenon DEF WindowInv, TypeOK
      <4> QED BY <4>1, <4>2
    <3>2. snap'.number = n
      BY <2>2, <3>0, AppliedImport, Zenon
    <3>3. CASE Switches(snap, n, snap.epochLength)
      <4> DEFINE e == n - MinerHistoryCheckLen(snap)
      <4>1. snap'.validators = chain'[e].validators
        BY <2>2, <3>0, <3>3, ImportSwitch, Zenon
      <4>2. chain'[e].validators # {}
        BY <3>1, <4>1, BoundAssumption DEF SnapshotOK, Snapshots
      <4>3. e \in 0..n
        <5>1. n % snap.epochLength = MinerHistoryCheckLen(snap)
          BY <3>3 DEF Switches
        <5>2. snap.epochLength \in Nat \ {0}
          BY <3>1, LengthAssumption DEF SnapshotOK, Snapshots
        <5>3. n % snap.epochLength \in 0..n
          BY <3>1, <5>2, ModAtMost
        <5> QED BY <3>1, <5>1, <5>3
      <4>4. e \in EpochBlocks'
        BY <3>2, <4>2, <4>3 DEF EpochBlocks
      <4>5. snap.turnLength \in TurnsSoFar'
        BY <1>2, <3>0, <3>1, <3>2, Snake8Stays, Zenon DEF TurnInv
      <4>6. snap'.number <= e + LongestHistory(snap.turnLength)
        <5>1. /\ LongestHistory(snap.turnLength) \in Nat /\ MinerHistoryCheckLen(snap) \in Nat
              /\ MinerHistoryCheckLen(snap) <= LongestHistory(snap.turnLength)
          BY <3>1, HistoryLongest, CheckLenNat
        <5> QED BY <3>1, <3>2, <5>1
      <4> HIDE DEF e
      <4>7. \E d \in EpochBlocks', t \in TurnsSoFar' : snap'.number <= d + LongestHistory(t)
        BY <4>4, <4>5, <4>6
      <4>8. BudgetFrom(snap.number)'
        BY <3>1, <3>2, <4>7, BudgetStarts, Zenon
      <4> QED BY <4>8 DEF BudgetInv
    <3>4. CASE ~Switches(snap, n, snap.epochLength) /\ snap'.isSnake8 # snap.isSnake8
      <4>1. snap'.isSnake8 \in BOOLEAN /\ snap.isSnake8 \in BOOLEAN
        BY <3>1 DEF SnapshotOK, Snapshots
      <4>2. snap'.isSnake8 /\ snap'.number = Snake8At
        BY <3>0, <3>1, <3>2, <3>4, <4>1, Snake8Stays
      <4>3. BudgetFrom(snap.number)'
        BY <3>1, <3>2, <4>2, BudgetStarts, Zenon
      <4> QED BY <4>3 DEF BudgetInv
    <3>5. CASE ~Switches(snap, n, snap.epochLength) /\ snap'.isSnake8 = snap.isSnake8
      <4>1. PICK b : BudgetFrom(b)
        BY <1>2, Zenon DEF BudgetInv
      <4>2. snap.attestation.source <= snap'.attestation.source
        <5>1. SumsUp(snap.attestation, chain, snap.number) /\ SumsUp(snap'.attestation, chain', n)
          BY <1>2, <3>2, Zenon DEF FoldInv
        <5>2. \A k \in 0..snap.number : k \in 0..n /\ chain'[k] = chain[k]
          BY <2>2, <3>0, <3>1, ImportFacts
        <5> HIDE DEF n
        <5>3. snap'.attestation.source \in Nat
          BY <5>1 DEF SumsUp
        <5>4. CASE snap.attestation.source = 0
          BY <5>3, <5>4
        <5>5. CASE \E k \in 0..snap.number : /\ Direct(chain[k].attestation)
                                             /\ chain[k].attestation.source = snap.attestation.source
          <6>1. PICK k \in 0..n : /\ Direct(chain'[k].attestation)
                                  /\ chain'[k].attestation.source = snap.attestation.source
            BY <5>2, <5>5, Zenon
          <6>2. chain'[k].attestation.source <= snap'.attestation.source
            BY <5>1, <6>1, Zenon DEF SumsUp
          <6> QED BY <6>1, <6>2, Zenon
        <5> QED BY <5>1, <5>4, <5>5, Zenon DEF SumsUp
      <4>3. BudgetFrom(b)'
        <5>1. BudgetStep(h, freq, b)
          BY <1>2, <2>2, <3>0, <3>5, <4>1, <4>2, Zenon DEF BudgetStep
        <5> QED BY <5>1, BudgetKept, Zenon
      <4> QED BY <4>3, Zenon DEF BudgetInv
    <3> QED BY <3>3, <3>4, <3>5
  <2> QED BY <1>2, <2>1, <2>2 DEF Next
<1>3. BudgetInv /\ AppliedInv /\ AppliedInv' /\ PastInv /\ TurnInv /\ FoldInv /\ FoldInv' /\ [Next]_vars
        => BudgetInv'
  BY <1>2
<1>4. Spec => []FoldInv
  BY FoldInvariant
<1> QED BY <1>1, <1>3, <1>4, AppliedInvariant, PastInvariant, TurnInvariant, PTL DEF Spec
\* TurnsAreBudgeted: TurnBudget for every set of addresses, every sequence of
\* lists and turn lengths and every fork schedule, where attestations are only
\* made once Plato enforces verifyVoteAttestation: SignRecently, which counts the
\* entries of Recents, counts every block that a validator really sealed.
THEOREM TurnsAreBudgeted ==
  ASSUME \A n \in QuorumAt : IsPlato(n)
  PROVE  Spec => []TurnBudget
<1>1. BudgetInv /\ AppliedInv /\ TurnInv => TurnBudget
  <2> DEFINE first == snap.number - Limit(snap) + 1
             turns == TurnLengths \cup {DefaultTurnLength, snap.turnLength}
             longest(t) == MinerHistoryCheckLen([validators |-> Addr, turnLength |-> t])
             counts(k) == IsMaxwell(snap.number) => k > GetFinalizedNumber(snap)
             sealed(v) == {k \in first..snap.number : chain[k].signer = v /\ counts(k)}
  <2> SUFFICES ASSUME BudgetInv, AppliedInv, TurnInv,
                      \A e \in EpochBlocks, t \in turns : first > e + longest(t),
                      snap.isSnake8 => first > Snake8At,
                      NEW v \in Addr
               PROVE  Cardinality(sealed(v)) <= snap.turnLength
    BY Zenon DEF TurnBudget
  <2>1. SnapshotOK(snap)
    BY DEF AppliedInv, WindowInv, TypeOK
  <2>2. snap.number \in Nat /\ Limit(snap) \in Nat /\ snap.turnLength \in Nat
    BY <2>1, CheckLenNat DEF Limit, SnapshotOK, Snapshots
  <2>3. PICK b : BudgetFrom(b)
    BY Zenon DEF BudgetInv
  <2>4. b \in 0..snap.number
    BY <2>3, Zenon DEF BudgetFrom
  <2>5. b < first
    <3>1. CASE snap.isSnake8 /\ b = Snake8At
      BY <2>2, <3>1, ForkAssumption
    <3>2. CASE \E e \in EpochBlocks, t \in TurnsSoFar : b <= e + LongestHistory(t)
      <4>1. PICK e \in EpochBlocks, t \in TurnsSoFar : b <= e + LongestHistory(t)
        BY <3>2
      <4>2. t \in turns
        BY Zenon DEF TurnsSoFar, TurnInv
      <4>3. LongestHistory(t) = longest(t)
        BY DEF LongestHistory, MinerHistoryCheckLen
      <4>5. first > e + LongestHistory(t)
        <5> HIDE DEF first, longest, turns
        <5> QED BY <4>2, <4>3
      <4>6. LongestHistory(t) \in Int /\ e \in Int
        <5>1. t \in Nat \ {0}
          BY <2>1, <4>2, BoundAssumption DEF SnapshotOK, Snapshots, DefaultTurnLength
        <5>2. Cardinality(Addr) \in Nat
          BY AddrAssumption, FS_CardinalityType, Zenon
        <5>3. \A a \in Nat : a \div 2 + 1 \in Nat \ {0}
          OBVIOUS
        <5>4. (Cardinality(Addr) \div 2 + 1) * t \in Nat \ {0}
          BY <5>1, <5>2, <5>3, PositiveProduct, Zenon
        <5> QED BY <5>4 DEF LongestHistory, EpochBlocks
      <4> DEFINE f == first
                 d == e + LongestHistory(t)
      <4>7. b \in Int /\ f \in Int /\ d \in Int /\ b <= d /\ f > d
        BY <2>2, <2>4, <4>1, <4>5, <4>6
      <4> HIDE DEF f, d
      <4>8. b < f
        BY <4>7
      <4> QED BY <4>8 DEF f
    <3> QED BY <2>3, <3>1, <3>2, Zenon DEF BudgetFrom
  <2> HIDE DEF first
  <2>6. first \in Int /\ first = snap.number - Limit(snap) + 1
    BY <2>2 DEF first
  <2>7. sealed(v) \in SUBSET SealedSince(b, v)
    <3> SUFFICES ASSUME NEW k \in sealed(v) PROVE k \in SealedSince(b, v)
      BY Zenon
    <3>1. k \in first..snap.number /\ chain[k].signer = v /\ counts(k)
      BY Zenon
    <3>2. k \in (b + 1)..snap.number /\ k > snap.number - Limit(snap)
      BY <2>2, <2>4, <2>5, <2>6, <3>1
    <3> QED BY <3>1, <3>2, Zenon DEF SealedSince
  <2> HIDE DEF sealed
  <2>8. IsFiniteSet(SealedSince(b, v)) /\ Cardinality(SealedSince(b, v)) \in Nat
    <3>1. SealedSince(b, v) \in SUBSET (0..snap.number)
      BY <2>2, <2>4 DEF SealedSince
    <3>2. snap.number \in Int /\ 0 \in Int
      BY <2>2
    <3>3. IsFiniteSet(0..snap.number)
      BY <3>2, FS_Interval, Zenon
    <3> QED BY <3>1, <3>3, FS_Subset, FS_CardinalityType, Zenon
  <2>9. Cardinality(sealed(v)) <= Cardinality(SealedSince(b, v)) /\ Cardinality(sealed(v)) \in Nat
    BY <2>7, <2>8, FS_Subset, FS_CardinalityType
  <2>10. Cardinality(SealedSince(b, v)) <= snap.turnLength
    BY <2>3 DEF BudgetFrom
  <2> QED BY <2>2, <2>8, <2>9, <2>10
<1>2. Spec => []BudgetInv
  BY BudgetInvariant
<1> QED BY <1>1, <1>2, AppliedInvariant, TurnInvariant, PTL
============================================================================
