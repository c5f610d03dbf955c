------------------------- MODULE VoteManagerProofs -------------------------
(***************************************************************************)
(* That the votes of one node never conflict, for every size of cache and  *)
(* log that leaves the room Roomy asks for, every depth of reorganisation  *)
(* and every number of restarts and errors.                                *)
(*                                                                         *)
(* The cache forgets, and the check of a head renews what it looks up, so  *)
(* that the order of use is not the order of the numbers.  But every use   *)
(* of a vote, by a lookup or by a first write, is for a number at most     *)
(* Slack below all known ones.  What the cache has forgotten is therefore  *)
(* at most Slack above each vote it has kept, the repeated ones left       *)
(* aside, and of so many votes so high some lie where a check looks.       *)
(***************************************************************************)
EXTENDS VoteManager, SequenceTheorems, FiniteSetTheorems, WellFoundedInduction, TLAPS

\* Roomy: the cache and the log have room for every vote that a check may look
\* for, for two reorganisations and for the repeated votes.
Roomy == MaxSize > 2 * MaxReorg + Scope + MaxRepeat

\* How far the number of a vote may lie below an older one's.
Slack == MaxReorg + Scope

Numbers(s) == {s[k].target : k \in DOMAIN s}

\* No two votes of s are for the same number.
Distinct(s) == \A j, k \in DOMAIN s : s[j].target = s[k].target => j = k

CacheOK(buf) == buf \in Seq(Votes) /\ Len(buf) <= MaxSize /\ Distinct(buf)

\* The cache knows the votes for the numbers N, or has forgotten them in favour
\* of later ones: a vote for a number of G is never far below those used before
\* it, and only r votes of the cache are not for a number of G.
InOrder(buf, N, G, r) ==
  /\ Numbers(buf) \subseteq N
  /\ \A k \in DOMAIN buf : buf[k].target \in G =>
       \A j \in 1..(k - 1) : buf[j].target <= buf[k].target + Slack
  /\ \A n \in N \ Numbers(buf), t \in Numbers(buf) \cap G : n <= t + Slack
  /\ Cardinality(Numbers(buf) \ G) <= r

\* Many votes of the cache are not far below a forgotten one.
Enough(buf, N) ==
  \A n \in N \ Numbers(buf) :
    Cardinality({t \in Numbers(buf) : n <= t + Slack}) >= MaxSize - MaxRepeat

\* The vote for number t is used: in its turn, or out of turn.
Tagged(N, t, G, r, H, q) ==
  \/ H = G \cup {t} /\ q = r /\ \A n \in N : n <= t + Slack
  \/ H = G \ {t} /\ q = r + 1

\* The log holds the votes for the numbers N, or has dropped them in favour of
\* later ones.  The entries at the positions F are first votes, each not far
\* below those before it; r entries are repetitions.
LogInOrder(log, N, F, r) ==
  /\ F \subseteq DOMAIN log /\ Numbers(log) \subseteq N
  /\ \A j, k \in F : log[j].target = log[k].target => j = k
  /\ \A k \in F : \A j \in 1..(k - 1) : log[j].target <= log[k].target + Slack
  /\ \A k \in F, n \in N \ Numbers(log) : n <= log[k].target + Slack
  /\ Cardinality(DOMAIN log \ F) <= r
  /\ N \subseteq Numbers(log) \/ Len(log) >= MaxSize

Targets(K) == {v.target : v \in K}

\* The votes K agree with each other, and all are for blocks up to height h.
Sound(K, h) ==
  /\ K \subseteq Votes
  /\ \A v \in K : v.target <= h
  /\ \A v, w \in K : ~Rules!Conflict(v, w)

\* The log holds votes of K, with at most r repetitions.
LogOK(log, K, r) ==
  /\ log \in Seq(K)
  /\ \E F \in SUBSET DOMAIN log : LogInOrder(log, Targets(K), F, r)

\* The cache holds votes of K, with at most r out of turn.
BufferOK(buf, K, r) ==
  /\ CacheOK(buf) /\ \A k \in DOMAIN buf : buf[k] \in K
  /\ Enough(buf, Targets(K))
  /\ \E G \in SUBSET (1..MaxNumber) : InOrder(buf, Targets(K), G, r)

Tasks == {Idle} \cup [step : {"write", "add", "put"}, vote : Votes, own : BOOLEAN]

\* Task k is at a step for a vote that is new to the node, or for one that is not.
Fresh(k, step) == k.step = step /\ k.own
Stale(k, step) == k.step = step /\ ~k.own

\* The task of a node that has journalled the votes K, at height h: a vote of
\* its own is written only if it may be cast, any other only if it is known.
TaskOK(k, K, h) ==
  /\ k \in Tasks
  /\ Fresh(k, "write") => /\ k.vote.target \notin Targets(K)
                          /\ \A w \in K : ~Rules!Conflict(k.vote, w)
  /\ Fresh(k, "write") \/ Fresh(k, "add") =>
       k.vote.target <= h /\ h <= k.vote.target + MaxReorg
  /\ k.step \in {"add", "put"} \/ Stale(k, "write") => k.vote \in K

\* The votes that the cache must answer for: all but the one on its way.
Answerable(k, K) == IF Fresh(k, "add") THEN K \ {k.vote} ELSE K

\* A vote that comes back is counted before it is in the log and in the cache.
InLog(k, r) == IF Stale(k, "write") THEN r - 1 ELSE r
InCache(k, r) == IF Stale(k, "write") \/ Stale(k, "add") THEN r - 1 ELSE r

\* A node with task k that has journalled the votes K, r of them again.
NodeOK(k, K, log, buf, h, r) ==
  /\ Sound(K, h) /\ TaskOK(k, K, h)
  /\ LogOK(log, K, InLog(k, r))
  /\ BufferOK(buf, Answerable(k, K), InCache(k, r))

\* ManagerInv: the inductive invariant.
ManagerInv ==
  /\ highest \in Nat /\ repeats \in 0..MaxRepeat
  /\ DOMAIN task = Nodes /\ DOMAIN known = Nodes /\ DOMAIN wal = Nodes /\ DOMAIN buffer = Nodes
  /\ \A i \in Nodes :
       /\ published \subseteq known[i]
       /\ NodeOK(task[i], known[i], wal[i], buffer[i], highest, repeats)

----------------------------------------------------------------------------
(* The cache                                                               *)

\* What the assumption says of the numbers.
LEMMA Sizes ==
  /\ MaxNumber \in Nat /\ Upper \in Nat /\ MaxReorg \in Nat /\ MaxReorg <= Upper
  /\ Scope \in Nat /\ MaxRepeat \in Nat /\ MaxSize \in Nat /\ Slack \in Nat
  /\ MaxSize > 0 /\ \A j \in Justifiable : j \in Nat
<1>1. Justifiable \subseteq Nat
  BY SizeAssumption, Zenon
<1>2. \A j \in Justifiable : j \in Nat
  BY <1>1, Zenon
<1> QED BY <1>2, SizeAssumption DEF Slack

\* The size of 1..n.
LEMMA IntervalSize ==
  ASSUME NEW n \in Nat
  PROVE  IsFiniteSet(1..n) /\ Cardinality(1..n) = n
<1>1. 1 \in Int /\ n \in Int
  OBVIOUS
<1>2. IsFiniteSet(1..n) /\ Cardinality(1..n) = IF 1 > n THEN 0 ELSE n - 1 + 1
  BY <1>1, FS_Interval, Zenon
<1> QED BY <1>2

\* The numbers of a vote.
LEMMA VoteFacts ==
  \A v \in Votes : v.source \in Nat /\ v.target \in Nat /\ v.source < v.target /\ v.target \in 1..MaxNumber
<1> TAKE v \in Votes
<1>1. PICK b \in Blocks : v = VoteFor(b)
  BY DEF Votes
<1>2. b.number \in 1..MaxNumber /\ b.justified \in Justifiable /\ b.justified < b.number
  BY DEF Blocks
<1>3. v.source = b.justified /\ v.target = b.number
  BY <1>1 DEF VoteFor
<1>4. b.number \in Nat /\ b.justified \in Nat
  BY <1>2, Sizes
<1> QED BY <1>2, <1>3, <1>4

\* What moving the entry k of a sequence to its end does.
LEMMA MoveToEnd ==
  ASSUME NEW S, NEW s \in Seq(S), NEW k \in 1..Len(s), NEW v \in S
  PROVE  /\ Append(RemoveAt(s, k), v) \in Seq(S)
         /\ Len(Append(RemoveAt(s, k), v)) = Len(s)
         /\ \A j \in 1..Len(s) : Append(RemoveAt(s, k), v)[j] =
              IF j < k THEN s[j] ELSE IF j < Len(s) THEN s[j + 1] ELSE v
<1> DEFINE a == SubSeq(s, 1, k - 1)
           b == SubSeq(s, k + 1, Len(s))
<1>0. Len(s) \in Nat /\ \A j \in 1..Len(s) : s[j] \in S
  BY LenProperties, ElementOfSeq
<1>1. a \in Seq(S) /\ Len(a) = k - 1 /\ \A j \in 1..(k - 1) : a[j] = s[j]
  BY <1>0, SMTT(20)
<1>2. b \in Seq(S) /\ Len(b) = Len(s) - k /\ \A j \in 1..(Len(s) - k) : b[j] = s[j + k]
  BY <1>0, SMTT(20)
<1> HIDE DEF a, b
<1> DEFINE c == a \o b
           m == Append(c, v)
           n == Len(s)
<1>3. /\ c \in Seq(S) /\ Len(c) = Len(a) + Len(b)
      /\ \A j \in 1..(Len(a) + Len(b)) : c[j] = IF j <= Len(a) THEN a[j] ELSE b[j - Len(a)]
  BY <1>1, <1>2, ConcatProperties, Zenon
<1>4. RemoveAt(s, k) = c
  BY Zenon DEF RemoveAt, a, b
<1> HIDE DEF c
<1>5. /\ m \in Seq(S) /\ Len(m) = Len(c) + 1
      /\ \A j \in 1..Len(c) : m[j] = c[j]
      /\ m[Len(c) + 1] = v
  <2>1. c \in Seq(S)
    BY <1>3, Zenon
  <2> QED BY <2>1, SMTT(20)
<1> HIDE DEF m
<1>6. n \in Nat /\ k \in 1..n /\ Len(a) = k - 1 /\ Len(b) = n - k
  BY <1>0, <1>1, <1>2, Zenon
<1>7. Len(c) = n - 1 /\ Len(m) = n /\ (k - 1) + (n - k) = n - 1 /\ (n - 1) + 1 = n
  <2>1. Len(c) = (k - 1) + (n - k) /\ Len(m) = Len(c) + 1
    BY <1>3, <1>5, <1>6, Zenon
  <2> HIDE DEF n
  <2> QED BY <1>6, <2>1
<1>8. /\ \A j \in 1..(n - 1) : c[j] = IF j <= k - 1 THEN a[j] ELSE b[j - (k - 1)]
      /\ \A j \in 1..(n - 1) : m[j] = c[j]
      /\ m[n] = v
  BY <1>3, <1>5, <1>6, <1>7, Zenon
<1>9. /\ \A j \in 1..(k - 1) : a[j] = s[j]
      /\ \A j \in 1..(n - k) : b[j] = s[j + k]
  BY <1>1, <1>2, Zenon
<1> HIDE DEF n
<1>10. ASSUME NEW j \in 1..n
       PROVE  m[j] = IF j < k THEN s[j] ELSE IF j < n THEN s[j + 1] ELSE v
  <2>1. CASE j < k
    <3>1. j \in 1..(k - 1) /\ j \in 1..(n - 1) /\ j <= k - 1
      BY <1>6, <2>1
    <3> QED BY <1>8, <1>9, <2>1, <3>1, Zenon
  <2>2. CASE ~(j < k) /\ j < n
    <3>1. j \in 1..(n - 1) /\ ~(j <= k - 1) /\ j - (k - 1) \in 1..(n - k)
          /\ (j - (k - 1)) + k = j + 1
      BY <1>6, <2>2
    <3>2. m[j] = b[j - (k - 1)] /\ b[j - (k - 1)] = s[(j - (k - 1)) + k]
      BY <1>8, <1>9, <3>1, Zenon
    <3> QED BY <2>2, <3>1, <3>2, Zenon
  <2>3. CASE ~(j < k) /\ ~(j < n)
    <3>1. j = n
      BY <1>6, <2>3
    <3> QED BY <1>8, <2>3, <3>1, Zenon
  <2> QED BY <2>1, <2>2, <2>3, Zenon
<1>11. /\ m \in Seq(S) /\ Len(m) = Len(s)
       /\ \A j \in 1..Len(s) : m[j] = IF j < k THEN s[j] ELSE IF j < Len(s) THEN s[j + 1] ELSE v
  BY <1>5, <1>7, <1>10, Zenon DEF n
<1> QED BY <1>4, <1>11, Zenon DEF m

\* A vote in the cache is where Position finds it.
LEMMA Found ==
  ASSUME NEW buf, NEW t, HasVote(buf, t)
  PROVE  Position(buf, t) \in DOMAIN buf /\ buf[Position(buf, t)].target = t
BY DEF HasVote, Position

\* Renewing a vote changes the order only.
LEMMA RenewCache ==
  ASSUME NEW buf, CacheOK(buf), NEW v \in Votes, HasVote(buf, v.target)
  PROVE  LET p == Position(buf, v.target)
             new == Renew(buf, v)
         IN  /\ CacheOK(new) /\ Len(new) = Len(buf) /\ Numbers(new) = Numbers(buf)
             /\ p \in 1..Len(buf) /\ buf[p].target = v.target
             /\ \A j \in 1..Len(buf) : new[j] =
                  IF j < p THEN buf[j] ELSE IF j < Len(buf) THEN buf[j + 1] ELSE v
<1> DEFINE p == Position(buf, v.target)
           new == Renew(buf, v)
<1>1. buf \in Seq(Votes) /\ Len(buf) \in Nat /\ DOMAIN buf = 1..Len(buf) /\ Len(buf) <= MaxSize
  BY LenProperties DEF CacheOK
<1>2. p \in 1..Len(buf) /\ buf[p].target = v.target
  BY <1>1, Found
<1> DEFINE moved == Append(RemoveAt(buf, p), v)
<1>3. new = moved
  BY DEF Renew
<1> HIDE DEF p, new
<1>10. /\ moved \in Seq(Votes) /\ Len(moved) = Len(buf)
       /\ \A j \in 1..Len(buf) : moved[j] =
            IF j < p THEN buf[j] ELSE IF j < Len(buf) THEN buf[j + 1] ELSE v
  <2> DEFINE S == Votes
  <2>1. buf \in Seq(S) /\ v \in S
    BY <1>1
  <2> HIDE DEF S
  <2>2. /\ moved \in Seq(S) /\ Len(moved) = Len(buf)
        /\ \A j \in 1..Len(buf) : moved[j] =
             IF j < p THEN buf[j] ELSE IF j < Len(buf) THEN buf[j + 1] ELSE v
    BY <1>2, <2>1, MoveToEnd
  <2> QED BY <2>2 DEF S
<1> HIDE DEF moved
<1>4. /\ new \in Seq(Votes) /\ Len(new) = Len(buf)
      /\ \A j \in 1..Len(buf) : new[j] =
           IF j < p THEN buf[j] ELSE IF j < Len(buf) THEN buf[j + 1] ELSE v
  BY <1>3, <1>10
<1>5. DOMAIN new = 1..Len(buf)
  BY <1>4, LenProperties
<1>6. \A j \in 1..Len(buf) : \E k \in 1..Len(buf) :
        /\ new[j].target = buf[k].target
        /\ k = IF j < p THEN j ELSE IF j < Len(buf) THEN j + 1 ELSE p
  BY <1>1, <1>2, <1>4
<1>7. \A k \in 1..Len(buf) : \E j \in 1..Len(buf) : new[j].target = buf[k].target
  <2> TAKE k \in 1..Len(buf)
  <2> DEFINE j == IF k < p THEN k ELSE IF k = p THEN Len(buf) ELSE k - 1
  <2>1. j \in 1..Len(buf)
    BY <1>1, <1>2
  <2>2. new[j].target = buf[k].target
    BY <1>1, <1>2, <1>4
  <2> QED BY <2>1, <2>2
<1>8. Numbers(new) = Numbers(buf)
  <2>1. Numbers(new) \subseteq Numbers(buf)
    BY <1>1, <1>5, <1>6, Zenon DEF Numbers
  <2>2. Numbers(buf) \subseteq Numbers(new)
    BY <1>1, <1>5, <1>7, Zenon DEF Numbers
  <2> QED BY <2>1, <2>2
<1>9. Distinct(new)
  <2> SUFFICES ASSUME NEW a \in 1..Len(buf), NEW b \in 1..Len(buf), new[a].target = new[b].target
               PROVE  a = b
    BY <1>5 DEF Distinct
  <2>1. \A j, k \in 1..Len(buf) : buf[j].target = buf[k].target => j = k
    BY <1>1 DEF CacheOK, Distinct
  <2> DEFINE At(j) == IF j < p THEN j ELSE IF j < Len(buf) THEN j + 1 ELSE p
  <2>2. At(a) \in 1..Len(buf) /\ At(b) \in 1..Len(buf)
    BY <1>1, <1>2
  <2>3. new[a].target = buf[At(a)].target /\ new[b].target = buf[At(b)].target
    BY <1>1, <1>2, <1>4
  <2>4. At(a) = At(b)
    BY <2>1, <2>2, <2>3, Zenon
  <2> QED BY <1>1, <1>2, <2>4
<1> QED BY <1>1, <1>2, <1>4, <1>8, <1>9 DEF CacheOK, p, new

\* A cache has as many numbers as entries.
LEMMA NumbersFinite ==
  ASSUME NEW s \in Seq(Votes)
  PROVE  /\ Numbers(s) \subseteq 1..MaxNumber /\ IsFiniteSet(Numbers(s))
         /\ Distinct(s) => Cardinality(Numbers(s)) = Len(s)
<1>1. Len(s) \in Nat /\ DOMAIN s = 1..Len(s) /\ \A k \in 1..Len(s) : s[k] \in Votes
  BY LenProperties, ElementOfSeq
<1>2. Numbers(s) \subseteq 1..MaxNumber
  BY <1>1, VoteFacts DEF Numbers
<1>3. IsFiniteSet(1..MaxNumber)
  BY Sizes, IntervalSize, Zenon
<1>4. IsFiniteSet(Numbers(s))
  BY <1>2, <1>3, FS_Subset, Zenon
<1>5. ASSUME Distinct(s) PROVE Cardinality(Numbers(s)) = Len(s)
  <2> DEFINE f == [k \in 1..Len(s) |-> s[k].target]
  <2>4. f \in [1..Len(s) -> Numbers(s)]
    BY <1>1 DEF Numbers
  <2>5. \A n \in Numbers(s) : \E k \in 1..Len(s) : f[k] = n
    BY <1>1 DEF Numbers
  <2>6. \A j, k \in 1..Len(s) : f[j] = f[k] => j = k
    BY <1>1, <1>5 DEF Distinct
  <2>1. f \in Surjection(1..Len(s), Numbers(s))
    BY <2>4, <2>5, Zenon DEF Surjection
  <2>2. f \in Injection(1..Len(s), Numbers(s))
    BY <2>4, <2>6, Zenon DEF Injection, IsInjective
  <2>3. IsFiniteSet(1..Len(s)) /\ Cardinality(1..Len(s)) = Len(s)
    BY <1>1, IntervalSize, Zenon
  <2> HIDE DEF f
  <2> QED BY <2>1, <2>2, <2>3, FS_Surjection
<1> QED BY <1>2, <1>4, <1>5

\* Using one vote leaves at most that one out of turn.
LEMMA OutOfTurn ==
  ASSUME NEW A, IsFiniteSet(A), NEW t, NEW B, B \subseteq A \cup {t}, NEW N, NEW G, NEW H,
         NEW r \in Int, NEW q, Tagged(N, t, G, r, H, q), Cardinality(A \ G) <= r
  PROVE  q \in Int /\ Cardinality(B \ H) <= q
<1>1. IsFiniteSet(A \ G) /\ Cardinality(A \ G) \in Nat
  <2>1. IsFiniteSet(A \ G)
    BY FS_Difference, Zenon
  <2> QED BY <2>1, FS_CardinalityType
<1>2. CASE H = G \cup {t} /\ q = r
  <2>1. B \ H \in SUBSET (A \ G)
    BY <1>2, Zenon
  <2>2. Cardinality(B \ H) <= Cardinality(A \ G) /\ IsFiniteSet(B \ H)
    BY <1>1, <2>1, FS_Subset, Zenon
  <2>3. Cardinality(B \ H) \in Nat
    BY <2>2, FS_CardinalityType
  <2> QED BY <1>1, <1>2, <2>2, <2>3
<1>3. CASE H = G \ {t} /\ q = r + 1
  <2> DEFINE E == A \ G
             C == E \cup {t}
  <2>1. B \ H \in SUBSET C
    BY <1>3, Zenon
  <2>2. IsFiniteSet(C) /\ Cardinality(C) <= Cardinality(A \ G) + 1
    <3> HIDE DEF E
    <3>1. IsFiniteSet(C) /\ Cardinality(C) = IF t \in E THEN Cardinality(E) ELSE Cardinality(E) + 1
      BY <1>1, FS_AddElement, Zenon DEF E
    <3>2. Cardinality(E) \in Nat
      BY <1>1 DEF E
    <3>3. Cardinality(C) <= Cardinality(E) + 1
      BY <3>1, <3>2
    <3> QED BY <3>1, <3>3 DEF E
  <2> HIDE DEF C
  <2>3. Cardinality(B \ H) <= Cardinality(C) /\ IsFiniteSet(B \ H)
    BY <2>1, <2>2, FS_Subset, Zenon
  <2>4. Cardinality(B \ H) \in Nat /\ Cardinality(C) \in Nat
    BY <2>2, <2>3, FS_CardinalityType
  <2> QED BY <1>1, <1>3, <2>2, <2>3, <2>4
<1> QED BY <1>2, <1>3 DEF Tagged

\* Renewing a vote that is there keeps the order.
LEMMA RenewKeeps ==
  ASSUME NEW buf, CacheOK(buf), NEW v \in Votes, HasVote(buf, v.target),
         NEW N \in SUBSET Nat, NEW G, NEW r \in Int, InOrder(buf, N, G, r),
         NEW H, NEW q, Tagged(N, v.target, G, r, H, q)
  PROVE  InOrder(Renew(buf, v), N, H, q)
<1> DEFINE t == v.target
           p == Position(buf, t)
           new == Renew(buf, v)
<1>1. /\ Len(new) = Len(buf) /\ Numbers(new) = Numbers(buf) /\ new \in Seq(Votes)
      /\ p \in 1..Len(buf) /\ buf[p].target = t
      /\ \A j \in 1..Len(buf) : new[j] =
           IF j < p THEN buf[j] ELSE IF j < Len(buf) THEN buf[j + 1] ELSE v
  BY RenewCache DEF CacheOK
<1>2. t \in Nat /\ Slack \in Nat
  BY VoteFacts, Sizes
<1>3. /\ Len(buf) \in Nat /\ DOMAIN buf = 1..Len(buf) /\ DOMAIN new = 1..Len(buf)
      /\ \A j \in 1..Len(buf) : buf[j].target \in Nat
  BY <1>1, VoteFacts, LenProperties, ElementOfSeq DEF CacheOK
<1>4. t \notin H \/ \A n \in N : n <= t + Slack
  BY DEF Tagged
<1>5. \A x : x \in H /\ x # t => x \in G
  BY Zenon DEF Tagged
<1>6. /\ Numbers(buf) \subseteq N
      /\ \A k \in 1..Len(buf) : buf[k].target \in G =>
           \A j \in 1..(k - 1) : buf[j].target <= buf[k].target + Slack
      /\ \A n \in N \ Numbers(buf), x \in Numbers(buf) \cap G : n <= x + Slack
      /\ Cardinality(Numbers(buf) \ G) <= r
  BY <1>3 DEF InOrder
<1>7. \A j, k \in 1..Len(buf) : buf[j].target = buf[k].target => j = k
  BY <1>3 DEF CacheOK, Distinct
<1> HIDE DEF t, p, new
<1>8. ASSUME NEW k \in 1..Len(buf), new[k].target \in H, NEW j \in 1..(k - 1)
      PROVE  new[j].target <= new[k].target + Slack
  <2>1. j \in 1..Len(buf) /\ j < k
    BY <1>3
  <2>2. CASE k = Len(buf)
    <3>1. new[k].target = t
      BY <1>1, <1>3, <2>2 DEF t
    <3>2. new[j].target \in Numbers(new)
      BY <1>3, <2>1 DEF Numbers
    <3>3. new[j].target \in N
      BY <1>1, <1>6, <3>2
    <3> QED BY <1>4, <1>8, <3>1, <3>3, Zenon
  <2>3. CASE k # Len(buf)
    <3> DEFINE k2 == IF k < p THEN k ELSE k + 1
               j2 == IF j < p THEN j ELSE j + 1
    <3>a. p \in 1..Len(buf) /\ Len(buf) \in Nat
      BY <1>1, <1>3, Zenon
    <3>0. p \in Nat /\ k \in Nat /\ j \in Nat /\ j >= 1 /\ k < Len(buf) /\ Len(buf) \in Nat
      BY <2>1, <2>3, <3>a
    <3>1. k2 \in 1..Len(buf) /\ j2 \in 1..(k2 - 1) /\ j2 \in 1..Len(buf) /\ k2 # p
      <4>1. CASE k < p
        BY <2>1, <3>0, <4>1
      <4>2. CASE ~(k < p)
        BY <2>1, <3>0, <4>2
      <4> QED BY <4>1, <4>2
    <3>2. new[k] = buf[k2] /\ new[j] = buf[j2]
      <4>1. /\ new[k] = IF k < p THEN buf[k] ELSE IF k < Len(buf) THEN buf[k + 1] ELSE v
            /\ new[j] = IF j < p THEN buf[j] ELSE IF j < Len(buf) THEN buf[j + 1] ELSE v
        BY <1>1, <2>1, Zenon
      <4>2. j < Len(buf)
        BY <2>1, <3>0
      <4> QED BY <3>0, <4>1, <4>2, Zenon
    <3> HIDE DEF k2, j2
    <3>3. buf[k2].target # t
      BY <1>1, <1>7, <3>1
    <3>4. buf[k2].target \in G
      BY <1>5, <1>8, <3>2, <3>3
    <3> QED BY <1>6, <3>1, <3>2, <3>4
  <2> QED BY <2>2, <2>3
<1>9. ASSUME NEW n \in N \ Numbers(new), NEW x \in Numbers(new) \cap H
      PROVE  n <= x + Slack
  <2>1. CASE x = t
    BY <1>4, <2>1
  <2>2. CASE x # t
    <3>1. x \in G
      BY <1>5, <2>2
    <3> QED BY <1>1, <1>6, <3>1
  <2> QED BY <2>1, <2>2
<1>10. Cardinality(Numbers(new) \ H) <= q
  <2>1. IsFiniteSet(Numbers(buf))
    BY NumbersFinite DEF CacheOK
  <2>2. Numbers(new) \subseteq Numbers(buf) \cup {t}
    BY <1>1
  <2> QED BY <1>6, <2>1, <2>2, OutOfTurn, Zenon DEF t
<1> QED BY <1>1, <1>3, <1>6, <1>8, <1>9, <1>10 DEF InOrder, new

\* Forgetting the vote that was not used for the longest time keeps the order.
LEMMA TailKeeps ==
  ASSUME NEW buf, CacheOK(buf), Len(buf) > 0,
         NEW N \in SUBSET Nat, NEW G, NEW r \in Int, InOrder(buf, N, G, r)
  PROVE  /\ CacheOK(Tail(buf)) /\ Len(Tail(buf)) = Len(buf) - 1
         /\ Numbers(Tail(buf)) \subseteq Numbers(buf) /\ InOrder(Tail(buf), N, G, r)
         /\ \A k \in DOMAIN Tail(buf) : k + 1 \in DOMAIN buf /\ Tail(buf)[k] = buf[k + 1]
<1> DEFINE new == Tail(buf)
<1>1. buf \in Seq(Votes) /\ Len(buf) \in Nat /\ DOMAIN buf = 1..Len(buf) /\ Len(buf) <= MaxSize /\ buf # <<>>
  BY LenProperties DEF CacheOK
<1>2. /\ new \in Seq(Votes) /\ Len(new) = Len(buf) - 1
      /\ \A k \in 1..(Len(buf) - 1) : new[k] = buf[k + 1]
  <2> DEFINE S == Votes
  <2>1. buf \in Seq(S)
    BY <1>1
  <2> HIDE DEF S
  <2>2. new \in Seq(S) /\ Len(new) = Len(buf) - 1 /\ \A k \in 1..Len(new) : new[k] = buf[k + 1]
    BY <1>1, <2>1, HeadTailProperties
  <2> QED BY <2>2 DEF S
<1> HIDE DEF new
<1>3. DOMAIN new = 1..(Len(buf) - 1)
  BY <1>2, LenProperties
<1>4. \A k \in 1..(Len(buf) - 1) : k + 1 \in 1..Len(buf)
  BY <1>1
<1>5. Numbers(new) \subseteq Numbers(buf)
  <2> SUFFICES ASSUME NEW k \in 1..(Len(buf) - 1) PROVE new[k].target \in Numbers(buf)
    BY <1>3, Zenon DEF Numbers
  <2>1. new[k] = buf[k + 1] /\ k + 1 \in DOMAIN buf
    BY <1>1, <1>2, <1>4
  <2> QED BY <2>1, Zenon DEF Numbers
<1>6. Distinct(new)
  <2> SUFFICES ASSUME NEW j \in 1..(Len(buf) - 1), NEW k \in 1..(Len(buf) - 1), new[j].target = new[k].target
               PROVE  j = k
    BY <1>3 DEF Distinct
  <2>1. j + 1 = k + 1
    BY <1>1, <1>2, <1>4 DEF CacheOK, Distinct
  <2> QED BY <1>1, <2>1
<1>7. CacheOK(new)
  BY <1>1, <1>2, <1>6, Sizes DEF CacheOK
<1>8. /\ Numbers(buf) \subseteq N
      /\ \A k \in 1..Len(buf) : buf[k].target \in G =>
           \A j \in 1..(k - 1) : buf[j].target <= buf[k].target + Slack
      /\ \A n \in N \ Numbers(buf), x \in Numbers(buf) \cap G : n <= x + Slack
      /\ Cardinality(Numbers(buf) \ G) <= r
  BY <1>1 DEF InOrder
<1>9. ASSUME NEW k \in 1..(Len(buf) - 1), new[k].target \in G, NEW j \in 1..(k - 1)
      PROVE  new[j].target <= new[k].target + Slack
  <2>1. k + 1 \in 1..Len(buf) /\ j + 1 \in 1..((k + 1) - 1) /\ j \in 1..(Len(buf) - 1)
    BY <1>1
  <2>2. new[k] = buf[k + 1] /\ new[j] = buf[j + 1]
    BY <1>2, <2>1
  <2> QED BY <1>8, <1>9, <2>1, <2>2
<1>10. ASSUME NEW n \in N \ Numbers(new), NEW x \in Numbers(new) \cap G
       PROVE  n <= x + Slack
  <2>1. CASE n \notin Numbers(buf)
    BY <1>5, <1>8, <2>1
  <2>2. CASE n \in Numbers(buf)
    <3>1. PICK j \in 1..Len(buf) : n = buf[j].target
      BY <1>1, <2>2 DEF Numbers
    <3>2. j = 1
      <4> SUFFICES ASSUME j # 1 PROVE FALSE
        OBVIOUS
      <4>1. j - 1 \in 1..(Len(buf) - 1) /\ (j - 1) + 1 = j
        BY <1>1
      <4>2. new[j - 1] = buf[j]
        BY <1>2, <4>1
      <4> QED BY <1>3, <3>1, <4>1, <4>2 DEF Numbers
    <3>3. PICK k \in 1..(Len(buf) - 1) : x = new[k].target
      BY <1>3 DEF Numbers
    <3>4. k + 1 \in 1..Len(buf) /\ 1 \in 1..((k + 1) - 1) /\ x = buf[k + 1].target
      BY <1>1, <1>2, <3>3
    <3> QED BY <1>8, <3>1, <3>2, <3>4
  <2> QED BY <2>1, <2>2
<1>11. Cardinality(Numbers(new) \ G) <= r
  <2>1. IsFiniteSet(Numbers(buf))
    BY <1>1, NumbersFinite
  <2>2. IsFiniteSet(Numbers(buf) \ G) /\ Numbers(new) \ G \in SUBSET (Numbers(buf) \ G)
    BY <1>5, <2>1, FS_Difference, Zenon
  <2>3. IsFiniteSet(Numbers(new) \ G) /\ Cardinality(Numbers(new) \ G) <= Cardinality(Numbers(buf) \ G)
    BY <2>2, FS_Subset, Zenon
  <2>4. Cardinality(Numbers(new) \ G) \in Nat /\ Cardinality(Numbers(buf) \ G) \in Nat
    BY <2>2, <2>3, FS_CardinalityType
  <2> QED BY <1>8, <2>3, <2>4
<1>12. InOrder(new, N, G, r)
  BY <1>3, <1>5, <1>8, <1>9, <1>10, <1>11 DEF InOrder
<1> QED BY <1>1, <1>2, <1>3, <1>4, <1>5, <1>7, <1>12 DEF new

\* A vote for a new number at the end keeps the order.
LEMMA AppendKeeps ==
  ASSUME NEW buf, CacheOK(buf), Len(buf) < MaxSize, NEW v \in Votes, v.target \notin Numbers(buf),
         NEW N \in SUBSET Nat, NEW G, NEW r \in Int, InOrder(buf, N, G, r),
         NEW H, NEW q, Tagged(N, v.target, G, r, H, q)
  PROVE  /\ CacheOK(Append(buf, v)) /\ Numbers(Append(buf, v)) = Numbers(buf) \cup {v.target}
         /\ InOrder(Append(buf, v), N \cup {v.target}, H, q)
<1> DEFINE t == v.target
           new == Append(buf, v)
<1>1. /\ buf \in Seq(Votes) /\ Len(buf) \in Nat /\ DOMAIN buf = 1..Len(buf)
      /\ Len(buf) <= MaxSize /\ Distinct(buf)
  BY LenProperties DEF CacheOK
<1>2. /\ new \in Seq(Votes) /\ Len(new) = Len(buf) + 1
      /\ \A k \in 1..Len(buf) : new[k] = buf[k]
      /\ new[Len(buf) + 1] = v
  <2> DEFINE S == Votes
  <2>1. buf \in Seq(S) /\ v \in S
    BY <1>1
  <2> HIDE DEF S
  <2>2. /\ new \in Seq(S) /\ Len(new) = Len(buf) + 1
        /\ \A k \in 1..Len(buf) : new[k] = buf[k]
        /\ new[Len(buf) + 1] = v
    BY <2>1, AppendProperties
  <2> QED BY <2>2 DEF S
<1> HIDE DEF new
<1>3. DOMAIN new = 1..(Len(buf) + 1) /\ \A k \in 1..(Len(buf) + 1) : k \in 1..Len(buf) \/ k = Len(buf) + 1
  BY <1>1, <1>2, LenProperties
<1>4. t \in Nat /\ Slack \in Nat /\ \A k \in 1..Len(buf) : buf[k].target \in Nat
  BY <1>1, VoteFacts, Sizes, ElementOfSeq
<1>5. Numbers(new) = Numbers(buf) \cup {t}
  <2>1. Numbers(new) \subseteq Numbers(buf) \cup {t}
    BY <1>1, <1>2, <1>3, Zenon DEF Numbers
  <2>2. Numbers(buf) \subseteq Numbers(new)
    <3>1. \A k \in 1..Len(buf) : k \in 1..(Len(buf) + 1)
      BY <1>1
    <3> QED BY <1>1, <1>2, <1>3, <3>1, Zenon DEF Numbers
  <2>3. t \in Numbers(new)
    <3>1. Len(buf) + 1 \in 1..(Len(buf) + 1)
      BY <1>1
    <3> QED BY <1>2, <1>3, <3>1, Zenon DEF Numbers
  <2> QED BY <2>1, <2>2, <2>3
<1>6. \A k \in 1..Len(buf) : buf[k].target # t /\ buf[k].target \in Numbers(buf)
  BY <1>1 DEF Numbers
<1>7. CacheOK(new)
  <2>1. ASSUME NEW j \in 1..(Len(buf) + 1), NEW k \in 1..(Len(buf) + 1), new[j].target = new[k].target
        PROVE  j = k
    BY <1>1, <1>2, <1>3, <1>6, <2>1, Zenon DEF Distinct
  <2>2. Distinct(new)
    BY <1>3, <2>1, Zenon DEF Distinct
  <2> QED BY <1>1, <1>2, <2>2, Sizes DEF CacheOK
<1>8. /\ Numbers(buf) \subseteq N
      /\ \A k \in 1..Len(buf) : buf[k].target \in G =>
           \A j \in 1..(k - 1) : buf[j].target <= buf[k].target + Slack
      /\ \A n \in N \ Numbers(buf), x \in Numbers(buf) \cap G : n <= x + Slack
      /\ Cardinality(Numbers(buf) \ G) <= r
  BY <1>1 DEF InOrder
<1>9. t \notin H \/ \A n \in N : n <= t + Slack
  BY DEF Tagged
<1>10. \A x : x \in H /\ x # t => x \in G
  BY Zenon DEF Tagged
<1>11. ASSUME NEW k \in 1..(Len(buf) + 1), new[k].target \in H, NEW j \in 1..(k - 1)
       PROVE  new[j].target <= new[k].target + Slack
  <2>1. j \in 1..Len(buf) /\ new[j] = buf[j] /\ buf[j].target \in N
    BY <1>1, <1>2, <1>6, <1>8
  <2>2. CASE k = Len(buf) + 1
    BY <1>2, <1>9, <1>11, <2>1, <2>2
  <2>3. CASE k \in 1..Len(buf)
    <3>1. new[k] = buf[k] /\ buf[k].target \in G
      BY <1>2, <1>6, <1>10, <1>11, <2>3
    <3> QED BY <1>8, <2>1, <2>3, <3>1
  <2> QED BY <1>3, <2>2, <2>3
<1>12. ASSUME NEW n \in (N \cup {t}) \ Numbers(new), NEW x \in Numbers(new) \cap H
       PROVE  n <= x + Slack
  <2>1. n \in N \ Numbers(buf)
    BY <1>5
  <2>2. CASE x = t
    BY <1>9, <2>1, <2>2
  <2>3. CASE x # t
    BY <1>5, <1>8, <1>10, <2>1, <2>3
  <2> QED BY <2>2, <2>3
<1>13. Cardinality(Numbers(new) \ H) <= q
  <2>1. IsFiniteSet(Numbers(buf))
    BY <1>1, NumbersFinite
  <2>2. Numbers(new) \subseteq Numbers(buf) \cup {t}
    BY <1>5
  <2> HIDE DEF t
  <2> QED BY <1>8, <2>1, <2>2, OutOfTurn, Zenon DEF t
<1>14. Numbers(new) \subseteq N \cup {t}
  BY <1>5, <1>8
<1>15. InOrder(new, N \cup {t}, H, q)
  BY <1>3, <1>11, <1>12, <1>13, <1>14, Zenon DEF InOrder
<1> QED BY <1>5, <1>7, <1>15 DEF new

\* HasVote in terms of numbers.
LEMMA HasNumber == \A buf, t : HasVote(buf, t) <=> t \in Numbers(buf)
BY Zenon DEF HasVote, Numbers

\* Add keeps the order, and forgets a vote only when the cache is full.
LEMMA AddKeeps ==
  ASSUME NEW buf, CacheOK(buf), NEW v \in Votes,
         NEW N \in SUBSET Nat, NEW G, NEW r \in Int, InOrder(buf, N, G, r),
         NEW H, NEW q, Tagged(N, v.target, G, r, H, q)
  PROVE  /\ CacheOK(Add(buf, v)) /\ InOrder(Add(buf, v), N \cup {v.target}, H, q)
         /\ \/ Numbers(Add(buf, v)) = Numbers(buf) \cup {v.target}
            \/ Len(Add(buf, v)) = MaxSize
         /\ Len(buf) <= Len(Add(buf, v))
         /\ \A k \in DOMAIN Add(buf, v) :
              Add(buf, v)[k] = v \/ \E j \in DOMAIN buf : Add(buf, v)[k] = buf[j]
<1>0. buf \in Seq(Votes) /\ Len(buf) \in Nat /\ Len(buf) <= MaxSize /\ DOMAIN buf = 1..Len(buf)
  BY LenProperties DEF CacheOK
<1>1. CASE HasVote(buf, v.target)
  <2>1. Add(buf, v) = Renew(buf, v)
    BY <1>1 DEF Add
  <2>2. InOrder(Renew(buf, v), N, H, q)
    BY <1>1, RenewKeeps
  <2> DEFINE new == Renew(buf, v)
             p == Position(buf, v.target)
  <2>3. /\ CacheOK(new) /\ Numbers(new) = Numbers(buf) /\ Len(new) = Len(buf)
        /\ \A j \in 1..Len(buf) : new[j] =
             IF j < p THEN buf[j] ELSE IF j < Len(buf) THEN buf[j + 1] ELSE v
    BY <1>1, RenewCache
  <2> HIDE DEF new, p
  <2>4. v.target \in Numbers(buf) /\ v.target \in N
    BY <1>1, HasNumber DEF InOrder
  <2>5. N \cup {v.target} = N /\ Numbers(buf) \cup {v.target} = Numbers(buf)
    BY <2>4
  <2>6. DOMAIN new = 1..Len(buf)
    BY <2>3, LenProperties DEF CacheOK
  <2>7. \A k \in 1..Len(buf) : new[k] = v \/ \E j \in 1..Len(buf) : new[k] = buf[j]
    <3> TAKE k \in 1..Len(buf)
    <3>1. CASE k < p
      BY <2>3, <3>1
    <3>2. CASE ~(k < p) /\ k < Len(buf)
      <4>1. k + 1 \in 1..Len(buf) /\ new[k] = buf[k + 1]
        BY <1>0, <2>3, <3>2
      <4> QED BY <4>1
    <3>3. CASE ~(k < p) /\ ~(k < Len(buf))
      BY <2>3, <3>3
    <3> QED BY <3>1, <3>2, <3>3
  <2>8. Len(buf) <= Len(new)
    BY <1>0, <2>3
  <2> QED BY <1>0, <2>1, <2>2, <2>3, <2>5, <2>6, <2>7, <2>8, Zenon DEF new
<1>2. CASE ~HasVote(buf, v.target)
  <2> DEFINE base == IF Len(buf) >= MaxSize THEN Tail(buf) ELSE buf
  <2>1. Add(buf, v) = Append(base, v)
    BY <1>2 DEF Add
  <2>2. v.target \notin Numbers(buf)
    BY <1>2, HasNumber
  <2>3. /\ CacheOK(base) /\ Len(base) < MaxSize /\ Numbers(base) \subseteq Numbers(buf)
        /\ InOrder(base, N, G, r)
        /\ base = buf \/ Len(base) = MaxSize - 1
        /\ \A k \in DOMAIN base : \E j \in DOMAIN buf : base[k] = buf[j]
    <3>1. CASE Len(buf) >= MaxSize
      <4>1. base = Tail(buf)
        BY <3>1
      <4>2. Len(buf) = MaxSize /\ Len(buf) > 0
        <5>1. MaxSize \in Nat /\ MaxSize > 0
          BY Sizes
        <5>2. \A l, m \in Nat : l <= m /\ l >= m => l = m
          OBVIOUS
        <5>3. Len(buf) = MaxSize
          BY <1>0, <3>1, <5>1, <5>2, Zenon
        <5> QED BY <5>1, <5>3
      <4> HIDE DEF base
      <4>3. MaxSize - 1 < MaxSize
        BY Sizes
      <4> QED BY <4>1, <4>2, <4>3, TailKeeps
    <3>2. CASE ~(Len(buf) >= MaxSize)
      <4>1. base = buf /\ Len(buf) < MaxSize
        BY <1>0, <3>2, Sizes
      <4> HIDE DEF base
      <4> QED BY <4>1
    <3> QED BY <3>1, <3>2
  <2> HIDE DEF base
  <2>4. /\ CacheOK(Append(base, v)) /\ Numbers(Append(base, v)) = Numbers(base) \cup {v.target}
        /\ InOrder(Append(base, v), N \cup {v.target}, H, q)
    BY <2>2, <2>3, AppendKeeps, Zenon
  <2>5. base \in Seq(Votes) /\ Len(base) \in Nat /\ DOMAIN base = 1..Len(base)
    BY <2>3, LenProperties DEF CacheOK
  <2>6. /\ Len(Append(base, v)) = Len(base) + 1
        /\ \A k \in 1..Len(base) : Append(base, v)[k] = base[k]
        /\ Append(base, v)[Len(base) + 1] = v
        /\ DOMAIN Append(base, v) = 1..(Len(base) + 1)
    <3> DEFINE S == Votes
    <3>1. base \in Seq(S) /\ v \in S
      BY <2>5
    <3> HIDE DEF S
    <3> QED BY <3>1
  <2>7. \A k \in DOMAIN Append(base, v) :
          Append(base, v)[k] = v \/ \E j \in DOMAIN buf : Append(base, v)[k] = buf[j]
    <3> TAKE k \in DOMAIN Append(base, v)
    <3>1. k \in 1..Len(base) \/ k = Len(base) + 1
      BY <2>5, <2>6
    <3> QED BY <2>3, <2>5, <2>6, <3>1
  <2>8. base = buf \/ Len(Append(base, v)) = MaxSize
    BY <2>3, <2>5, <2>6, Sizes
  <2>9. Len(buf) <= Len(Append(base, v))
    <3>1. Len(Append(base, v)) \in Nat
      BY <2>5, <2>6
    <3> QED BY <1>0, <2>5, <2>6, <2>8, <3>1, Sizes
  <2> QED BY <2>1, <2>4, <2>7, <2>8, <2>9
<1> QED BY <1>1, <1>2

\* A full cache in order has enough votes.
LEMMA FullIsEnough ==
  ASSUME NEW buf, CacheOK(buf), Len(buf) = MaxSize, NEW N \in SUBSET Nat, NEW G,
         NEW r \in Int, r <= MaxRepeat, InOrder(buf, N, G, r)
  PROVE  Enough(buf, N)
<1> SUFFICES ASSUME NEW n \in N \ Numbers(buf)
             PROVE  Cardinality({t \in Numbers(buf) : n <= t + Slack}) >= MaxSize - MaxRepeat
  BY DEF Enough
<1> DEFINE M == Numbers(buf)
           A == {t \in M : n <= t + Slack}
<1>1. IsFiniteSet(M) /\ Cardinality(M) = MaxSize
  BY NumbersFinite DEF CacheOK
<1>2. Cardinality(M \ G) <= r /\ \A t \in M \cap G : n <= t + Slack
  BY DEF InOrder
<1> HIDE DEF M
<1>3. M \cap G \in SUBSET A /\ A \in SUBSET M
  BY <1>2
<1> HIDE DEF A
<1>4. IsFiniteSet(A) /\ IsFiniteSet(M \cap G) /\ Cardinality(M \cap G) <= Cardinality(A)
  BY <1>1, <1>3, FS_Subset
<1>5. IsFiniteSet(M \ G) /\ Cardinality(M \ G) = Cardinality(M) - Cardinality(M \cap G)
  BY <1>1, FS_Difference, Zenon
<1>6. Cardinality(A) \in Nat /\ Cardinality(M \cap G) \in Nat /\ Cardinality(M \ G) \in Nat
  BY <1>4, <1>5, FS_CardinalityType
<1>7. Cardinality(A) >= MaxSize - MaxRepeat
  BY <1>1, <1>2, <1>4, <1>5, <1>6, Sizes
<1> QED BY <1>7 DEF A, M

\* More numbers are enough for a forgotten number.
LEMMA MoreIsEnough ==
  ASSUME NEW buf \in Seq(Votes), NEW new \in Seq(Votes), NEW N, Enough(buf, N), NEW t,
         Numbers(new) = Numbers(buf) \cup {t}
  PROVE  Enough(new, N \cup {t})
<1> SUFFICES ASSUME NEW n \in (N \cup {t}) \ Numbers(new)
             PROVE  Cardinality({x \in Numbers(new) : n <= x + Slack}) >= MaxSize - MaxRepeat
  BY DEF Enough
<1> DEFINE A == {x \in Numbers(buf) : n <= x + Slack}
           B == {x \in Numbers(new) : n <= x + Slack}
<1>1. Cardinality(A) >= MaxSize - MaxRepeat
  BY DEF Enough
<1>2. A \in SUBSET B /\ B \in SUBSET Numbers(new)
  OBVIOUS
<1>3. IsFiniteSet(Numbers(new))
  BY NumbersFinite, Zenon
<1> HIDE DEF A, B
<1>4. IsFiniteSet(B)
  BY <1>2, <1>3, FS_Subset
<1>5. IsFiniteSet(A) /\ Cardinality(A) <= Cardinality(B)
  BY <1>2, <1>4, FS_Subset
<1>6. Cardinality(A) \in Nat /\ Cardinality(B) \in Nat
  BY <1>4, <1>5, FS_CardinalityType
<1>7. Cardinality(B) >= MaxSize - MaxRepeat
  BY <1>1, <1>5, <1>6, Sizes
<1> QED BY <1>7 DEF B

----------------------------------------------------------------------------
(* Runs over the cache                                                     *)

\* A set of natural numbers has a least element.
LEMMA LeastOf ==
  ASSUME NEW S, S \subseteq Nat, S # {}
  PROVE  \E n \in S : \A m \in S : n <= m
<1> DEFINE R == OpToRel(<, Nat)
<1>1. \E n \in S : \A m \in S : ~(<<m, n>> \in R)
  BY WFMin, NatLessThanWellFounded, Zenon
<1>2. \A m, n \in S : m < n => <<m, n>> \in R
  BY DEF OpToRel
<1> HIDE DEF R
<1>3. PICK n \in S : \A m \in S : ~(<<m, n>> \in R)
  BY <1>1
<1>4. \A m \in S : ~(m < n)
  BY <1>2, <1>3, Zenon
<1> QED BY <1>3, <1>4

\* One lookup of Touch, for the numbers x, or one Add of Reload, from the log x.
Turn(touch, x, buf, k) ==
  IF touch THEN IF k \in x THEN Renew(buf, Lookup(buf, k)) ELSE buf
  ELSE Add(buf, x[k])

\* f is a run of n turns from buf on.
IsRun(f, touch, x, buf, n) == f = [k \in 0..n |-> IF k = 0 THEN buf ELSE Turn(touch, x, f[k - 1], k)]

\* The recursive functions of Touch and Reload are defined.
LEMMA RunExists ==
  ASSUME NEW n \in Nat, NEW touch, NEW x, NEW buf
  PROVE  \E f : IsRun(f, touch, x, buf, n)
<1> SUFFICES ASSUME ~\E f : IsRun(f, touch, x, buf, n) PROVE FALSE
  OBVIOUS
<1> DEFINE S == {m \in Nat : ~\E f : IsRun(f, touch, x, buf, m)}
<1>1. n \in S /\ S \subseteq Nat
  OBVIOUS
<1>2. PICK m \in S : \A j \in S : m <= j
  <2> HIDE DEF S
  <2> QED BY <1>1, LeastOf, Zenon
<1>3. m \in Nat /\ ~\E f : IsRun(f, touch, x, buf, m)
  OBVIOUS
<1>4. CASE m = 0
  <2> DEFINE f == [k \in 0..0 |-> buf]
  <2>1. \A k \in 0..0 : k = 0
    OBVIOUS
  <2>2. f = [k \in 0..0 |-> IF k = 0 THEN buf ELSE Turn(touch, x, f[k - 1], k)]
    BY <2>1
  <2> HIDE DEF f
  <2>3. IsRun(f, touch, x, buf, m)
    BY <1>4, <2>2 DEF IsRun
  <2> QED BY <1>3, <2>3
<1>5. CASE m # 0
  <2>1. m - 1 \in Nat /\ ~(m <= m - 1)
    BY <1>3, <1>5
  <2>2. m - 1 \notin S
    <3> HIDE DEF S
    <3> QED BY <1>2, <2>1
  <2>3. PICK f : IsRun(f, touch, x, buf, m - 1)
    BY <2>1, <2>2
  <2> DEFINE g == [k \in 0..m |-> IF k = m THEN Turn(touch, x, f[m - 1], m) ELSE f[k]]
  <2>4. ASSUME NEW k \in 0..m
        PROVE  g[k] = IF k = 0 THEN buf ELSE Turn(touch, x, g[k - 1], k)
    <3>0. \A j \in 0..(m - 1) : f[j] = IF j = 0 THEN buf ELSE Turn(touch, x, f[j - 1], j)
      BY <2>3 DEF IsRun
    <3>1. CASE k = m
      <4>1. m - 1 \in 0..m /\ m - 1 # m
        BY <1>3, <2>1
      <4>2. g[m - 1] = f[m - 1]
        BY <4>1
      <4> QED BY <1>5, <3>1, <4>2
    <3>2. CASE k # m
      <4>1. k \in 0..(m - 1)
        BY <1>3, <3>2
      <4>2. k # 0 => k - 1 \in 0..m /\ k - 1 # m
        BY <1>3, <4>1
      <4> QED BY <3>0, <3>2, <4>1, <4>2
    <3> QED BY <3>1, <3>2
  <2>5. g = [k \in DOMAIN g |-> g[k]] /\ DOMAIN g = 0..m
    OBVIOUS
  <2> HIDE DEF g
  <2>6. IsRun(g, touch, x, buf, m)
    BY <2>4, <2>5, Zenon DEF IsRun
  <2> QED BY <1>3, <2>6
<1> QED BY <1>4, <1>5

\* Touch is a run of lookups.
LEMMA TouchIsRun ==
  ASSUME NEW buf, NEW T
  PROVE  \E f : IsRun(f, TRUE, T, buf, MaxNumber) /\ Touch(buf, T) = f[MaxNumber]
<1> DEFINE run == CHOOSE f : f = [t \in 0..MaxNumber |->
                    IF t = 0 THEN buf
                    ELSE IF t \in T THEN Renew(f[t - 1], Lookup(f[t - 1], t)) ELSE f[t - 1]]
<1>1. \E f : f = [t \in 0..MaxNumber |->
                    IF t = 0 THEN buf
                    ELSE IF t \in T THEN Renew(f[t - 1], Lookup(f[t - 1], t)) ELSE f[t - 1]]
  <2>1. MaxNumber \in Nat
    BY Sizes
  <2>2. PICK f : IsRun(f, TRUE, T, buf, MaxNumber)
    BY <2>1, RunExists, Zenon
  <2> QED BY <2>2, Zenon DEF IsRun, Turn
<1>2. Touch(buf, T) = run[MaxNumber]
  BY Zenon DEF Touch
<1>3. run = [t \in 0..MaxNumber |->
               IF t = 0 THEN buf
               ELSE IF t \in T THEN Renew(run[t - 1], Lookup(run[t - 1], t)) ELSE run[t - 1]]
  BY <1>1, Zenon
<1> HIDE DEF run
<1>4. IsRun(run, TRUE, T, buf, MaxNumber)
  BY <1>3, Zenon DEF IsRun, Turn
<1> QED BY <1>2, <1>4, Zenon

\* Reload is a run of additions.
LEMMA ReloadIsRun ==
  ASSUME NEW log \in Seq(Votes)
  PROVE  \E f : IsRun(f, FALSE, log, <<>>, Len(log)) /\ Reload(log) = f[Len(log)]
<1> DEFINE run == CHOOSE f : f = [k \in 0..Len(log) |-> IF k = 0 THEN <<>> ELSE Add(f[k - 1], log[k])]
<1>1. \E f : f = [k \in 0..Len(log) |-> IF k = 0 THEN <<>> ELSE Add(f[k - 1], log[k])]
  <2>1. Len(log) \in Nat
    BY LenProperties
  <2>2. PICK f : IsRun(f, FALSE, log, <<>>, Len(log))
    BY <2>1, RunExists, Zenon
  <2> QED BY <2>2 DEF IsRun, Turn
<1>2. Reload(log) = run[Len(log)]
  BY Zenon DEF Reload
<1>3. run = [k \in 0..Len(log) |-> IF k = 0 THEN <<>> ELSE Add(run[k - 1], log[k])]
  BY <1>1, Zenon
<1> HIDE DEF run
<1>4. IsRun(run, FALSE, log, <<>>, Len(log))
  BY <1>3 DEF IsRun, Turn
<1> QED BY <1>2, <1>4, Zenon

\* The entries of new are entries of buf.
Among(new, buf) == \A k \in DOMAIN new : \E j \in DOMAIN buf : new[k] = buf[j]

\* The cache new has the votes of buf, still in order.
SameVotes(new, buf, N, r) ==
  /\ CacheOK(new) /\ Numbers(new) = Numbers(buf) /\ Among(new, buf)
  /\ \E G \in SUBSET (1..MaxNumber) : InOrder(new, N, G, r)

\* A lookup of a number that no known vote is far above keeps the order.
LEMMA GetKeeps ==
  ASSUME NEW buf, NEW old, NEW N \in SUBSET Nat, NEW r \in Int, SameVotes(old, buf, N, r),
         NEW t \in Numbers(buf), \A n \in N : n <= t + Slack
  PROVE  SameVotes(Renew(old, Lookup(old, t)), buf, N, r)
<1> DEFINE v == Lookup(old, t)
           new == Renew(old, v)
<1>1. CacheOK(old) /\ Numbers(old) = Numbers(buf) /\ Among(old, buf)
  BY DEF SameVotes
<1>2. HasVote(old, t)
  BY <1>1, HasNumber
<1>3. Position(old, t) \in DOMAIN old /\ v.target = t /\ v = old[Position(old, t)]
  BY <1>2, Found DEF Lookup
<1>4. v \in Votes /\ v.target = t /\ HasVote(old, v.target) /\ t \in 1..MaxNumber
  <2>1. v \in Votes
    BY <1>1, <1>3, ElementOfSeq, LenProperties DEF CacheOK
  <2> QED BY <1>2, <1>3, <2>1, VoteFacts
<1>5. PICK G \in SUBSET (1..MaxNumber) : InOrder(old, N, G, r)
  BY DEF SameVotes
<1> HIDE DEF v
<1>6. Tagged(N, v.target, G, r, G \cup {t}, r)
  BY <1>4 DEF Tagged
<1>7. InOrder(new, N, G \cup {t}, r)
  BY <1>1, <1>4, <1>5, <1>6, RenewKeeps
<1> DEFINE p == Position(old, v.target)
<1>8. /\ CacheOK(new) /\ Numbers(new) = Numbers(old) /\ Len(new) = Len(old)
      /\ \A j \in 1..Len(old) : new[j] =
           IF j < p THEN old[j] ELSE IF j < Len(old) THEN old[j + 1] ELSE v
  BY <1>1, <1>4, RenewCache
<1> HIDE DEF new, p
<1>9. DOMAIN new = 1..Len(old) /\ DOMAIN old = 1..Len(old) /\ Len(old) \in Nat
  BY <1>1, <1>8, LenProperties DEF CacheOK
<1>10. Among(new, old)
  <2> SUFFICES ASSUME NEW k \in 1..Len(old) PROVE \E j \in 1..Len(old) : new[k] = old[j]
    BY <1>9, Zenon DEF Among
  <2>1. CASE k < p
    BY <1>8, <2>1
  <2>2. CASE ~(k < p) /\ k < Len(old)
    <3>1. k + 1 \in 1..Len(old) /\ new[k] = old[k + 1]
      BY <1>8, <1>9, <2>2
    <3> QED BY <3>1
  <2>3. CASE ~(k < p) /\ ~(k < Len(old))
    <3>1. new[k] = v
      BY <1>8, <2>3
    <3> QED BY <1>3, <1>9, <3>1
  <2> QED BY <2>1, <2>2, <2>3
<1>11. Among(new, buf)
  BY <1>1, <1>10, Zenon DEF Among
<1>12. G \cup {t} \in SUBSET (1..MaxNumber)
  BY <1>4
<1>13. Numbers(new) = Numbers(buf)
  BY <1>1, <1>8
<1>14. SameVotes(new, buf, N, r)
  BY <1>7, <1>8, <1>11, <1>12, <1>13, Zenon DEF SameVotes
<1> QED BY <1>14 DEF new, v

\* The lookups of a check keep the order.
LEMMA TouchKeeps ==
  ASSUME NEW buf, CacheOK(buf), NEW N \in SUBSET Nat, NEW r \in Int,
         NEW G \in SUBSET (1..MaxNumber), InOrder(buf, N, G, r),
         NEW T \in SUBSET Numbers(buf), \A t \in T, n \in N : n <= t + Slack
  PROVE  SameVotes(Touch(buf, T), buf, N, r)
<1>1. PICK f : IsRun(f, TRUE, T, buf, MaxNumber) /\ Touch(buf, T) = f[MaxNumber]
  BY TouchIsRun, Zenon
<1>2. \A k \in 0..MaxNumber : f[k] = IF k = 0 THEN buf ELSE Turn(TRUE, T, f[k - 1], k)
  BY <1>1, Zenon DEF IsRun
<1>3. MaxNumber \in Nat
  BY Sizes
<1>4. SameVotes(buf, buf, N, r)
  BY DEF SameVotes, Among
<1> DEFINE S == {k \in 0..MaxNumber : ~SameVotes(f[k], buf, N, r)}
<1>5. S = {}
  <2> SUFFICES ASSUME S # {} PROVE FALSE
    OBVIOUS
  <2>1. S \subseteq Nat
    OBVIOUS
  <2>2. PICK m \in S : \A j \in S : m <= j
    <3> HIDE DEF S
    <3> QED BY <2>1, LeastOf, Zenon
  <2>3. m \in 0..MaxNumber /\ ~SameVotes(f[m], buf, N, r)
    OBVIOUS
  <2>4. m # 0
    BY <1>2, <1>4, <2>3, Zenon
  <2>5. m - 1 \in 0..MaxNumber /\ ~(m <= m - 1)
    BY <1>3, <2>3, <2>4
  <2>6. SameVotes(f[m - 1], buf, N, r)
    <3>1. m - 1 \notin S
      <4> HIDE DEF S
      <4> QED BY <2>2, <2>5
    <3> QED BY <2>5, <3>1
  <2>7. f[m] = IF m \in T THEN Renew(f[m - 1], Lookup(f[m - 1], m)) ELSE f[m - 1]
    BY <1>2, <2>3, <2>4 DEF Turn
  <2>8. CASE m \in T
    <3>1. m \in Numbers(buf) /\ \A n \in N : n <= m + Slack
      BY <2>8
    <3>2. SameVotes(Renew(f[m - 1], Lookup(f[m - 1], m)), buf, N, r)
      BY <2>6, <3>1, GetKeeps, Zenon
    <3> QED BY <2>3, <2>7, <2>8, <3>2
  <2>9. CASE m \notin T
    BY <2>3, <2>6, <2>7, <2>9
  <2> QED BY <2>8, <2>9
<1>6. MaxNumber \in 0..MaxNumber
  BY <1>3
<1> QED BY <1>1, <1>5, <1>6

----------------------------------------------------------------------------
(* The log                                                                 *)

Prefix(log, k) == {log[j].target : j \in 1..k}

\* The cache x after the first k entries of the log.
Loaded(x, log, F, k) ==
  /\ CacheOK(x) /\ Among(x, log)
  /\ Numbers(x) = Prefix(log, k) \/ Len(x) = MaxSize
  /\ \E G \in SUBSET {log[j].target : j \in F} :
       InOrder(x, Prefix(log, k), G, Cardinality((1..k) \ F))

\* Nothing is loaded at first.
LEMMA LoadedNone ==
  ASSUME NEW log, NEW F
  PROVE  Loaded(<<>>, log, F, 0)
<1>1. <<>> \in Seq(Votes) /\ Len(<<>>) = 0 /\ DOMAIN <<>> = {}
  OBVIOUS
<1>2. CacheOK(<<>>)
  <2>1. Distinct(<<>>)
    BY <1>1, Zenon DEF Distinct
  <2> QED BY <1>1, <2>1, Sizes DEF CacheOK
<1>3. Numbers(<<>>) = {}
  BY <1>1, Zenon DEF Numbers
<1>4. 1..0 = {}
  OBVIOUS
<1>5. Prefix(log, 0) = {} /\ (1..0) \ F = {}
  BY <1>4, Zenon DEF Prefix
<1>6. InOrder(<<>>, {}, {}, 0)
  <2>1. Cardinality({} \ {}) <= 0
    BY FS_EmptySet
  <2> QED BY <1>1, <1>3, <2>1, Zenon DEF InOrder
<1>7. {} \in SUBSET {log[j].target : j \in F} /\ Cardinality((1..0) \ F) = 0
  BY <1>5, FS_EmptySet
<1>8. Among(<<>>, log)
  BY <1>1, Zenon DEF Among
<1> QED BY <1>2, <1>3, <1>5, <1>6, <1>7, <1>8, Zenon DEF Loaded

\* One more entry of the log is loaded.
LEMMA LoadedNext ==
  ASSUME NEW log \in Seq(Votes), NEW F \in SUBSET (1..Len(log)), NEW k \in 1..Len(log), NEW x,
         \A i \in F : \A j \in 1..(i - 1) : log[j].target <= log[i].target + Slack,
         Loaded(x, log, F, k - 1)
  PROVE  Loaded(Add(x, log[k]), log, F, k)
<1> DEFINE v == log[k]
           t == v.target
           new == Add(x, v)
           N == Prefix(log, k - 1)
           r == Cardinality((1..(k - 1)) \ F)
           q == Cardinality((1..k) \ F)
<1>1. Len(log) \in Nat /\ DOMAIN log = 1..Len(log) /\ \A j \in 1..Len(log) : log[j] \in Votes
  BY LenProperties, ElementOfSeq
<1>2. v \in Votes /\ k \in Nat /\ k - 1 \in Nat /\ \A j \in 1..(k - 1) : j \in 1..Len(log)
  BY <1>1
<1>3. N \in SUBSET Nat
  BY <1>1, <1>2, VoteFacts DEF Prefix
<1>4. Prefix(log, k) = N \cup {t}
  <2>1. \A j : j \in 1..k <=> j \in 1..(k - 1) \/ j = k
    BY <1>2
  <2> QED BY <2>1, Zenon DEF Prefix
<1>5. CacheOK(x) /\ Among(x, log) /\ (Numbers(x) = N \/ Len(x) = MaxSize)
  BY DEF Loaded
<1>6. PICK G \in SUBSET {log[j].target : j \in F} : InOrder(x, N, G, r)
  BY DEF Loaded
<1>7. IsFiniteSet((1..(k - 1)) \ F) /\ r \in Nat
  <2>1. IsFiniteSet(1..(k - 1))
    BY <1>2, IntervalSize, Zenon
  <2>2. IsFiniteSet((1..(k - 1)) \ F)
    BY <2>1, FS_Difference, Zenon
  <2> QED BY <2>2, FS_CardinalityType
<1> DEFINE H == IF k \in F THEN G \cup {t} ELSE G \ {t}
<1>8. Tagged(N, t, G, r, H, q) /\ H \in SUBSET {log[j].target : j \in F}
  <2>1. CASE k \in F
    <3>1. \A j : j \in (1..k) \ F <=> j \in (1..(k - 1)) \ F
      BY <1>2, <2>1
    <3>2. (1..k) \ F = (1..(k - 1)) \ F
      BY <3>1, Zenon
    <3>3. q = r
      BY <3>2, Zenon
    <3>4. \A n \in N : n <= t + Slack
      BY <2>1 DEF Prefix
    <3>5. H = G \cup {t} /\ t \in {log[j].target : j \in F}
      BY <2>1
    <3> HIDE DEF H, q, r, N
    <3> QED BY <1>6, <3>3, <3>4, <3>5 DEF Tagged
  <2>2. CASE k \notin F
    <3> DEFINE A == (1..(k - 1)) \ F
    <3>1. \A j : j \in (1..k) \ F <=> j \in A \cup {k}
      BY <1>2, <2>2
    <3>2. (1..k) \ F = A \cup {k} /\ k \notin A
      <4>1. k \notin A
        BY <1>2
      <4> QED BY <3>1, <4>1, Zenon
    <3>3. q = r + 1
      <4> HIDE DEF A
      <4>1. Cardinality(A \cup {k}) = Cardinality(A) + 1
        BY <1>7, <3>2, FS_AddElement, Zenon DEF A
      <4> QED BY <3>2, <4>1, Zenon DEF A
    <3>5. H = G \ {t}
      BY <2>2
    <3> HIDE DEF H, q, r, N
    <3> QED BY <1>6, <3>3, <3>5 DEF Tagged
  <2> QED BY <2>1, <2>2
<1> HIDE DEF v, t, N, r, q, H
<1>9. /\ CacheOK(new) /\ InOrder(new, N \cup {t}, H, q) /\ Len(x) <= Len(new)
      /\ Numbers(new) = Numbers(x) \cup {t} \/ Len(new) = MaxSize
      /\ \A i \in DOMAIN new : new[i] = v \/ \E j \in DOMAIN x : new[i] = x[j]
  <2>1. r \in Int
    BY <1>7
  <2>2. Tagged(N, v.target, G, r, H, q)
    BY <1>8 DEF t
  <2>3. /\ CacheOK(Add(x, v)) /\ InOrder(Add(x, v), N \cup {v.target}, H, q)
        /\ \/ Numbers(Add(x, v)) = Numbers(x) \cup {v.target}
           \/ Len(Add(x, v)) = MaxSize
        /\ Len(x) <= Len(Add(x, v))
        /\ \A k_1 \in DOMAIN Add(x, v) :
             Add(x, v)[k_1] = v \/ \E j \in DOMAIN x : Add(x, v)[k_1] = x[j]
    BY <1>2, <1>3, <1>5, <1>6, <2>1, <2>2, AddKeeps, ZenonT(40)
  <2> QED BY <2>3, Zenon DEF t
<1> HIDE DEF new
<1>10. Numbers(new) = N \cup {t} \/ Len(new) = MaxSize
  <2>1. CASE Numbers(x) = N
    BY <1>9, <2>1
  <2>2. CASE Len(x) = MaxSize
    <3>1. Len(new) \in Nat /\ Len(new) <= MaxSize /\ MaxSize \in Nat
      BY <1>9, LenProperties, Sizes DEF CacheOK
    <3>2. MaxSize <= Len(new)
      BY <1>9, <2>2
    <3>3. \A l, m \in Nat : l <= m /\ m <= l => l = m
      OBVIOUS
    <3> QED BY <3>1, <3>2, <3>3, Zenon
  <2> QED BY <1>5, <2>1, <2>2
<1>11. Among(new, log)
  <2>1. \E j \in DOMAIN log : v = log[j]
    BY <1>1 DEF v
  <2> QED BY <1>5, <1>9, <2>1, ZenonT(40) DEF Among
<1>12. Loaded(new, log, F, k)
  BY <1>4, <1>8, <1>9, <1>10, <1>11, Zenon DEF Loaded, q
<1> QED BY <1>12 DEF new, v

\* The whole log.
LEMMA LoadedAll ==
  ASSUME NEW log \in Seq(Votes), NEW F \in SUBSET (1..Len(log)),
         \A i \in F : \A j \in 1..(i - 1) : log[j].target <= log[i].target + Slack
  PROVE  Loaded(Reload(log), log, F, Len(log))
<1>1. PICK f : IsRun(f, FALSE, log, <<>>, Len(log)) /\ Reload(log) = f[Len(log)]
  BY ReloadIsRun, Zenon
<1>2. \A k \in 0..Len(log) : f[k] = IF k = 0 THEN <<>> ELSE Turn(FALSE, log, f[k - 1], k)
  BY <1>1 DEF IsRun
<1>3. Len(log) \in Nat
  BY LenProperties
<1> DEFINE S == {k \in 0..Len(log) : ~Loaded(f[k], log, F, k)}
<1>4. S = {}
  <2> SUFFICES ASSUME S # {} PROVE FALSE
    OBVIOUS
  <2>1. S \subseteq Nat
    OBVIOUS
  <2>2. PICK m \in S : \A j \in S : m <= j
    <3> HIDE DEF S
    <3> QED BY <2>1, LeastOf, Zenon
  <2>3. m \in 0..Len(log) /\ ~Loaded(f[m], log, F, m)
    OBVIOUS
  <2>4. m # 0
    BY <1>2, <2>3, LoadedNone, Zenon
  <2>5. m - 1 \in 0..Len(log) /\ ~(m <= m - 1) /\ m \in 1..Len(log)
    BY <1>3, <2>3, <2>4
  <2>6. Loaded(f[m - 1], log, F, m - 1)
    <3>1. m - 1 \notin S
      <4> HIDE DEF S
      <4> QED BY <2>2, <2>5
    <3> QED BY <2>5, <3>1
  <2>7. f[m] = Add(f[m - 1], log[m])
    BY <1>2, <2>3, <2>4 DEF Turn
  <2>8. Loaded(Add(f[m - 1], log[m]), log, F, m)
    BY <2>5, <2>6, LoadedNext, Zenon
  <2> QED BY <2>3, <2>7, <2>8
<1>5. Len(log) \in 0..Len(log)
  BY <1>3
<1> QED BY <1>1, <1>4, <1>5

\* The cache that is rebuilt from a log in order is in order, and has enough.
LEMMA ReloadKeeps ==
  ASSUME NEW log \in Seq(Votes), NEW N \in SUBSET Nat, NEW F, NEW r \in Int, r <= MaxRepeat,
         LogInOrder(log, N, F, r)
  PROVE  /\ CacheOK(Reload(log)) /\ Among(Reload(log), log) /\ Enough(Reload(log), N)
         /\ \E G \in SUBSET (1..MaxNumber) : InOrder(Reload(log), N, G, r)
<1> DEFINE x == Reload(log)
           q == Cardinality((1..Len(log)) \ F)
           M == Numbers(log)
           T == {log[j].target : j \in F}
<1>1. /\ Len(log) \in Nat /\ DOMAIN log = 1..Len(log)
      /\ \A j \in 1..Len(log) : log[j] \in Votes
  BY LenProperties, ElementOfSeq
<1>2. /\ F \in SUBSET (1..Len(log)) /\ M \subseteq N
      /\ \A j, k \in F : log[j].target = log[k].target => j = k
      /\ \A k \in F : \A j \in 1..(k - 1) : log[j].target <= log[k].target + Slack
      /\ \A k \in F, n \in N \ M : n <= log[k].target + Slack
      /\ q <= r
      /\ N \subseteq M \/ Len(log) >= MaxSize
  BY <1>1 DEF LogInOrder
<1>3. Loaded(x, log, F, Len(log))
  BY <1>2, LoadedAll
<1>4. Prefix(log, Len(log)) = M
  BY <1>1 DEF Prefix, Numbers
<1>5. PICK G \in SUBSET T : InOrder(x, M, G, q)
  BY <1>3, <1>4 DEF Loaded
<1>6. CacheOK(x) /\ Among(x, log) /\ (Numbers(x) = M \/ Len(x) = MaxSize)
  BY <1>3, <1>4 DEF Loaded
<1>7. IsFiniteSet((1..Len(log)) \ F) /\ IsFiniteSet(1..Len(log)) /\ q \in Nat
      /\ Cardinality(1..Len(log)) = Len(log)
  <2>1. IsFiniteSet(1..Len(log)) /\ Cardinality(1..Len(log)) = Len(log)
    BY <1>1, IntervalSize, Zenon
  <2>2. IsFiniteSet((1..Len(log)) \ F)
    BY <2>1, FS_Difference, Zenon
  <2> QED BY <2>1, <2>2, FS_CardinalityType
<1> HIDE DEF x, M
<1>8. InOrder(x, N, G, r)
  <2>1. /\ Numbers(x) \subseteq M
        /\ \A k \in DOMAIN x : x[k].target \in G =>
             \A j \in 1..(k - 1) : x[j].target <= x[k].target + Slack
        /\ \A n \in M \ Numbers(x), t \in Numbers(x) \cap G : n <= t + Slack
        /\ Cardinality(Numbers(x) \ G) <= q
    BY <1>5, Zenon DEF InOrder
  <2>2. Numbers(x) \subseteq N
    BY <1>2, <2>1, Zenon
  <2>3. \A n \in N \ Numbers(x), t \in Numbers(x) \cap G : n <= t + Slack
    <3> SUFFICES ASSUME NEW n \in N \ Numbers(x), NEW t \in Numbers(x) \cap G
                 PROVE  n <= t + Slack
      OBVIOUS
    <3>1. CASE n \in M
      BY <2>1, <3>1, Zenon
    <3>2. CASE n \notin M
      <4>1. PICK j \in F : t = log[j].target
        BY <1>5
      <4> QED BY <1>2, <3>2, <4>1
    <3> QED BY <3>1, <3>2
  <2>4. Cardinality(Numbers(x) \ G) <= r
    <3>1. IsFiniteSet(Numbers(x))
      BY <1>6, NumbersFinite DEF CacheOK
    <3>2. IsFiniteSet(Numbers(x) \ G)
      BY <3>1, FS_Difference, Zenon
    <3>3. Cardinality(Numbers(x) \ G) \in Nat
      BY <3>2, FS_CardinalityType
    <3> HIDE DEF q
    <3> QED BY <1>2, <1>7, <2>1, <3>3
  <2> QED BY <2>1, <2>2, <2>3, <2>4, Zenon DEF InOrder
<1>9. G \in SUBSET (1..MaxNumber)
  <2>1. \A j \in F : log[j].target \in 1..MaxNumber
    BY <1>1, <1>2, VoteFacts
  <2> QED BY <1>5, <2>1
<1>10. Enough(x, N)
  <2>1. CASE Len(x) = MaxSize
    BY <1>6, <1>8, <2>1, FullIsEnough, Zenon
  <2>2. CASE Numbers(x) = M
    <3> SUFFICES ASSUME NEW n \in N \ M
                 PROVE  Cardinality({t \in M : n <= t + Slack}) >= MaxSize - MaxRepeat
      BY <2>2 DEF Enough
    <3> DEFINE A == {t \in M : n <= t + Slack}
    <3>1. Len(log) >= MaxSize
      BY <1>2
    <3>2. T \in SUBSET A /\ A \in SUBSET M
      <4>1. ASSUME NEW j \in F PROVE log[j].target \in A
        <5>1. log[j].target \in M
          BY <1>1, <1>2 DEF M, Numbers
        <5> QED BY <1>2, <5>1
      <4> QED BY <4>1
    <3>3. IsFiniteSet(M)
      BY NumbersFinite DEF M
    <3>4. IsFiniteSet(F) /\ Cardinality(F) + q = Len(log) /\ Cardinality(F) \in Nat
      <4>1. IsFiniteSet(F)
        BY <1>2, <1>7, FS_Subset, Zenon
      <4>2. (1..Len(log)) \cap F = F
        BY <1>2, Zenon
      <4> DEFINE L == 1..Len(log)
      <4>3. Cardinality(L \ F) = Cardinality(L) - Cardinality(L \cap F)
        BY <1>7, FS_Difference, Zenon
      <4>4. Cardinality(F) \in Nat
        BY <4>1, FS_CardinalityType
      <4>5. Cardinality(L) = Len(log) /\ Cardinality(L \ F) = q /\ L \cap F = F
        BY <1>7, <4>2
      <4> HIDE DEF L, q
      <4>6. \A a, b, c \in Nat : a = b - c => c + a = b
        OBVIOUS
      <4>7. q = Len(log) - Cardinality(F)
        BY <4>3, <4>5, Zenon
      <4> QED BY <1>1, <1>7, <4>1, <4>4, <4>6, <4>7, Zenon
    <3> HIDE DEF A, T, q
    <3>5. IsFiniteSet(A) /\ IsFiniteSet(T)
      BY <3>2, <3>3, FS_Subset
    <3>6. Cardinality(T) <= Cardinality(A) /\ Cardinality(T) \in Nat /\ Cardinality(A) \in Nat
      BY <3>2, <3>5, FS_Subset, FS_CardinalityType
    <3>7. Cardinality(F) <= Cardinality(T)
      <4> DEFINE f == [j \in F |-> log[j].target]
      <4>1. f \in [F -> T] /\ \A j, k \in F : f[j] = f[k] => j = k
        BY <1>2 DEF T
      <4>2. f \in Injection(F, T)
        BY <4>1, Zenon DEF Injection, IsInjective
      <4> HIDE DEF f
      <4> QED BY <3>5, <4>2, FS_Injection
    <3>8. Cardinality(A) >= MaxSize - MaxRepeat
      <4>1. MaxSize \in Nat /\ MaxRepeat \in Nat
        BY Sizes
      <4> QED BY <1>1, <1>2, <1>7, <3>1, <3>4, <3>6, <3>7, <4>1
    <3> QED BY <3>8 DEF A
  <2> QED BY <1>6, <2>1, <2>2
<1> QED BY <1>6, <1>8, <1>9, <1>10 DEF x

\* What appending to the log does.
LEMMA LogAppended ==
  ASSUME NEW log \in Seq(Votes), NEW v \in Votes
  PROVE  /\ Append(log, v) \in Seq(Votes) /\ Len(Append(log, v)) = Len(log) + 1
         /\ Len(log) \in Nat /\ DOMAIN log = 1..Len(log)
         /\ DOMAIN Append(log, v) = 1..(Len(log) + 1)
         /\ \A k \in 1..Len(log) : Append(log, v)[k] = log[k] /\ k \in 1..(Len(log) + 1)
         /\ Append(log, v)[Len(log) + 1] = v /\ Len(log) + 1 \in 1..(Len(log) + 1)
         /\ \A k \in 1..(Len(log) + 1) : k \in 1..Len(log) \/ k = Len(log) + 1
         /\ Numbers(Append(log, v)) = Numbers(log) \cup {v.target}
<1> DEFINE S == Votes
           new == Append(log, v)
<1>1. log \in Seq(S) /\ v \in S
  OBVIOUS
<1> HIDE DEF S
<1>2. /\ new \in Seq(S) /\ Len(new) = Len(log) + 1
      /\ \A k \in 1..Len(log) : new[k] = log[k]
      /\ new[Len(log) + 1] = v
      /\ Len(log) \in Nat /\ DOMAIN log = 1..Len(log) /\ DOMAIN new = 1..(Len(log) + 1)
  BY <1>1
<1>3. /\ \A k \in 1..Len(log) : k \in 1..(Len(log) + 1)
      /\ Len(log) + 1 \in 1..(Len(log) + 1)
      /\ \A k \in 1..(Len(log) + 1) : k \in 1..Len(log) \/ k = Len(log) + 1
  BY <1>2
<1> HIDE DEF new
<1>4. Numbers(new) = Numbers(log) \cup {v.target}
  <2>1. Numbers(new) \subseteq Numbers(log) \cup {v.target}
    BY <1>2, <1>3, Zenon DEF Numbers
  <2>2. Numbers(log) \subseteq Numbers(new)
    BY <1>2, <1>3, Zenon DEF Numbers
  <2>3. v.target \in Numbers(new)
    BY <1>2, <1>3, Zenon DEF Numbers
  <2> QED BY <2>1, <2>2, <2>3, Zenon
<1> QED BY <1>2, <1>3, <1>4, Zenon DEF S, new

\* A first vote at the end of the log.
LEMMA FreshKeeps ==
  ASSUME NEW log \in Seq(Votes), NEW v \in Votes, NEW N \in SUBSET Nat, NEW F, NEW r,
         LogInOrder(log, N, F, r), v.target \notin N, \A n \in N : n <= v.target + Slack
  PROVE  LogInOrder(Append(log, v), N \cup {v.target}, F \cup {Len(log) + 1}, r)
<1> DEFINE new == Append(log, v)
           t == v.target
           e == Len(log) + 1
           E == F \cup {e}
<1>1. /\ Len(new) = e /\ Len(log) \in Nat /\ DOMAIN log = 1..Len(log) /\ DOMAIN new = 1..e
      /\ \A k \in 1..Len(log) : new[k] = log[k] /\ k \in 1..e
      /\ new[e] = v /\ e \in 1..e
      /\ \A k \in 1..e : k \in 1..Len(log) \/ k = e
      /\ Numbers(new) = Numbers(log) \cup {t}
  BY LogAppended
<1>2. /\ F \subseteq 1..Len(log) /\ Numbers(log) \subseteq N
      /\ \A j, k \in F : log[j].target = log[k].target => j = k
      /\ \A k \in F : \A j \in 1..(k - 1) : log[j].target <= log[k].target + Slack
      /\ \A k \in F, n \in N \ Numbers(log) : n <= log[k].target + Slack
      /\ Cardinality((1..Len(log)) \ F) <= r
      /\ N \subseteq Numbers(log) \/ Len(log) >= MaxSize
  BY <1>1 DEF LogInOrder
<1>3. \A k \in 1..Len(log) : log[k].target \in Numbers(log) /\ log[k].target # t /\ log[k].target \in N
  BY <1>1, <1>2 DEF Numbers
<1>4. e \notin 1..Len(log) /\ e \notin F
  BY <1>1, <1>2
<1> HIDE DEF new
<1>5. E \subseteq 1..e /\ Numbers(new) \subseteq N \cup {t}
  BY <1>1, <1>2, Zenon
<1>6. \A j, k \in E : new[j].target = new[k].target => j = k
  BY <1>1, <1>2, <1>3
<1>7. ASSUME NEW k \in E, NEW j \in 1..(k - 1)
      PROVE  new[j].target <= new[k].target + Slack
  <2>1. k \in 1..e /\ j \in 1..Len(log)
    BY <1>1, <1>5
  <2>2. CASE k = e
    BY <1>1, <1>3, <2>1, <2>2, Zenon
  <2>3. CASE k \in F
    BY <1>1, <1>2, <2>1, <2>3
  <2> QED BY <2>2, <2>3
<1>8. ASSUME NEW k \in E, NEW n \in (N \cup {t}) \ Numbers(new)
      PROVE  n <= new[k].target + Slack
  <2>1. n \in N \ Numbers(log)
    BY <1>1
  <2>2. CASE k = e
    BY <1>1, <2>1, <2>2
  <2>3. CASE k \in F
    BY <1>1, <1>2, <2>1, <2>3
  <2> QED BY <2>2, <2>3
<1>9. (1..e) \ E = (1..Len(log)) \ F
  <2> HIDE DEF e
  <2> QED BY <1>1, <1>2, <1>4, Zenon
<1>10. N \cup {t} \subseteq Numbers(new) \/ Len(new) >= MaxSize
  <2>1. CASE N \subseteq Numbers(log)
    BY <1>1, <2>1, Zenon
  <2>2. CASE Len(log) >= MaxSize
    BY <1>1, <2>2, Sizes
  <2> QED BY <1>2, <2>1, <2>2
<1>11. LogInOrder(new, N \cup {t}, E, r)
  <2> HIDE DEF E, e
  <2>1. Cardinality(DOMAIN new \ E) <= r
    BY <1>1, <1>2, <1>9, Zenon
  <2> QED BY <1>1, <1>5, <1>6, <1>7, <1>8, <1>10, <2>1, Zenon DEF LogInOrder
<1> QED BY <1>11 DEF new

\* A vote that was written before, at the end of the log.
LEMMA RepeatKeeps ==
  ASSUME NEW log \in Seq(Votes), NEW v \in Votes, NEW N, NEW F, NEW r \in Int,
         LogInOrder(log, N, F, r), v.target \in N
  PROVE  LogInOrder(Append(log, v), N, F, r + 1)
<1> DEFINE new == Append(log, v)
           t == v.target
           e == Len(log) + 1
<1>1. /\ Len(new) = e /\ Len(log) \in Nat /\ DOMAIN log = 1..Len(log) /\ DOMAIN new = 1..e
      /\ \A k \in 1..Len(log) : new[k] = log[k] /\ k \in 1..e
      /\ \A k \in 1..e : k \in 1..Len(log) \/ k = e
      /\ Numbers(new) = Numbers(log) \cup {t} /\ e \in 1..e
  BY LogAppended
<1>2. /\ F \subseteq 1..Len(log) /\ Numbers(log) \subseteq N
      /\ \A j, k \in F : log[j].target = log[k].target => j = k
      /\ \A k \in F : \A j \in 1..(k - 1) : log[j].target <= log[k].target + Slack
      /\ \A k \in F, n \in N \ Numbers(log) : n <= log[k].target + Slack
      /\ Cardinality((1..Len(log)) \ F) <= r
      /\ N \subseteq Numbers(log) \/ Len(log) >= MaxSize
  BY <1>1 DEF LogInOrder
<1> HIDE DEF new
<1>3. F \subseteq 1..e /\ Numbers(new) \subseteq N
  BY <1>1, <1>2
<1>4. \A j, k \in F : new[j].target = new[k].target => j = k
  BY <1>1, <1>2
<1>5. ASSUME NEW k \in F, NEW j \in 1..(k - 1)
      PROVE  new[j].target <= new[k].target + Slack
  <2>1. k \in 1..Len(log) /\ j \in 1..Len(log)
    BY <1>1, <1>2
  <2> QED BY <1>1, <1>2, <2>1
<1>6. ASSUME NEW k \in F, NEW n \in N \ Numbers(new)
      PROVE  n <= new[k].target + Slack
  BY <1>1, <1>2
<1>7. Cardinality((1..e) \ F) <= r + 1
  <2> DEFINE A == (1..Len(log)) \ F
  <2>1. IsFiniteSet(A)
    <3>1. IsFiniteSet(1..Len(log))
      BY <1>1, IntervalSize, Zenon
    <3> QED BY <3>1, FS_Difference, Zenon
  <2>2. e \notin 1..Len(log) /\ e \notin F
    BY <1>1, <1>2
  <2>3. (1..e) \ F = A \cup {e} /\ e \notin A
    <3> HIDE DEF e
    <3> QED BY <1>1, <2>2, Zenon
  <2>4. Cardinality(A) <= r
    BY <1>2
  <2> HIDE DEF A, e
  <2>5. Cardinality(A \cup {e}) = Cardinality(A) + 1 /\ Cardinality(A) \in Nat
    BY <2>1, <2>3, FS_AddElement, FS_CardinalityType, Zenon
  <2>6. Cardinality(A) + 1 <= r + 1
    BY <2>4, <2>5
  <2> QED BY <2>3, <2>5, <2>6, Zenon
<1>8. N \subseteq Numbers(new) \/ Len(new) >= MaxSize
  <2>1. CASE N \subseteq Numbers(log)
    BY <1>1, <2>1, Zenon
  <2>2. CASE Len(log) >= MaxSize
    BY <1>1, <2>2, Sizes
  <2> QED BY <1>2, <2>1, <2>2
<1>9. LogInOrder(new, N, F, r + 1)
  <2> HIDE DEF e
  <2> QED BY <1>1, <1>3, <1>4, <1>5, <1>6, <1>7, <1>8, Zenon DEF LogInOrder
<1> QED BY <1>9 DEF new

\* Dropping the oldest entries.
LEMMA LastOfKeeps ==
  ASSUME NEW log \in Seq(Votes), NEW N, NEW F, NEW r \in Int, LogInOrder(log, N, F, r)
  PROVE  /\ LastOf(log, MaxSize) \in Seq(Votes) /\ Among(LastOf(log, MaxSize), log)
         /\ \E E : LogInOrder(LastOf(log, MaxSize), N, E, r)
<1>0. /\ Len(log) \in Nat /\ DOMAIN log = 1..Len(log) /\ MaxSize \in Nat
      /\ \A k \in 1..Len(log) : log[k] \in Votes
  BY LenProperties, ElementOfSeq, Sizes
<1>1. CASE ~(Len(log) > MaxSize)
  <2>1. LastOf(log, MaxSize) = log
    BY <1>1 DEF LastOf
  <2> QED BY <2>1, Zenon DEF Among
<1>2. CASE Len(log) > MaxSize
  <2> DEFINE d == Len(log) - MaxSize
             new == LastOf(log, MaxSize)
             E == {k \in 1..MaxSize : k + d \in F}
  <2>1. d \in Nat /\ d >= 1 /\ d + MaxSize = Len(log)
    BY <1>0, <1>2
  <2>2. new = SubSeq(log, d + 1, Len(log))
    BY <1>2, Zenon DEF LastOf
  <2> HIDE DEF d, new
  <2>3. /\ new \in Seq(Votes) /\ Len(new) = MaxSize
        /\ \A k \in 1..MaxSize : new[k] = log[k + d]
    <3> DEFINE S == Votes
    <3>1. log \in Seq(S) /\ \A k \in 1..Len(log) : log[k] \in S
      BY <1>0
    <3> HIDE DEF S
    <3>2. /\ SubSeq(log, d + 1, Len(log)) \in Seq(S)
          /\ Len(SubSeq(log, d + 1, Len(log))) = MaxSize
          /\ \A k \in 1..MaxSize : SubSeq(log, d + 1, Len(log))[k] = log[k + d]
      <4> DEFINE m == d + 1
                 n == Len(log)
                 sub == SubSeq(log, m, n)
      <4>0. Len(log) \in Nat /\ MaxSize \in Nat
        BY <1>0, Zenon
      <4>1. m \in Int /\ n \in Int /\ m <= n + 1 /\ n - m + 1 = MaxSize
            /\ \A k \in m..n : k \in 1..Len(log)
        BY <2>1, <4>0
      <4>2. \A k \in m..n : log[k] \in S
        BY <3>1, <4>1, Zenon
      <4>3. \A k \in 1..MaxSize : m + k - 1 = k + d
        BY <2>1, <4>0
      <4> HIDE DEF m, n
      <4>4. /\ sub \in Seq(S) /\ Len(sub) = IF m <= n THEN n - m + 1 ELSE 0
            /\ \A k \in 1..(n - m + 1) : sub[k] = log[m + k - 1]
        BY <4>1, <4>2, SubSeqProperties
      <4> HIDE DEF sub
      <4>5. Len(sub) = MaxSize
        BY <4>1, <4>4
      <4>6. \A k \in 1..MaxSize : sub[k] = log[k + d]
        BY <4>1, <4>3, <4>4, Zenon
      <4> QED BY <4>4, <4>5, <4>6 DEF sub, m, n
    <3> QED BY <2>2, <3>2 DEF S
  <2>4. DOMAIN new = 1..MaxSize /\ \A k \in 1..MaxSize : k + d \in 1..Len(log)
    BY <1>0, <2>1, <2>3, LenProperties
  <2>5. /\ F \subseteq 1..Len(log) /\ Numbers(log) \subseteq N
        /\ \A j, k \in F : log[j].target = log[k].target => j = k
        /\ \A k \in F : \A j \in 1..(k - 1) : log[j].target <= log[k].target + Slack
        /\ \A k \in F, n \in N \ Numbers(log) : n <= log[k].target + Slack
        /\ Cardinality((1..Len(log)) \ F) <= r
    BY <1>0 DEF LogInOrder
  <2>6. Among(new, log)
    BY <1>0, <2>3, <2>4 DEF Among
  <2>7. Numbers(new) \subseteq Numbers(log)
    BY <2>6, Zenon DEF Among, Numbers
  <2>8. \A k \in E : k \in 1..MaxSize /\ k + d \in F /\ new[k] = log[k + d]
    BY <2>3
  <2>9. \A j, k \in E : new[j].target = new[k].target => j = k
    <3> TAKE j \in E, k \in E
    <3>1. new[j].target = new[k].target => j + d = k + d
      BY <2>5, <2>8
    <3>2. j \in Nat /\ k \in Nat
      OBVIOUS
    <3> QED BY <2>1, <3>1, <3>2
  <2>10. ASSUME NEW k \in E, NEW j \in 1..(k - 1)
         PROVE  new[j].target <= new[k].target + Slack
    <3>1. j + d \in 1..((k + d) - 1) /\ j \in 1..MaxSize
      BY <1>0, <2>1
    <3> QED BY <2>3, <2>5, <2>8, <3>1, Zenon
  <2>11. ASSUME NEW k \in E, NEW n \in N \ Numbers(new)
         PROVE  n <= new[k].target + Slack
    <3>1. CASE n \notin Numbers(log)
      BY <2>5, <2>8, <3>1, Zenon
    <3>2. CASE n \in Numbers(log)
      <4>1. PICK j \in 1..Len(log) : n = log[j].target
        BY <1>0, <3>2 DEF Numbers
      <4>2. j <= d
        <5> SUFFICES ASSUME ~(j <= d) PROVE FALSE
          OBVIOUS
        <5>1. j - d \in 1..MaxSize /\ (j - d) + d = j
          BY <1>0, <2>1
        <5>2. new[j - d].target = n
          BY <2>3, <4>1, <5>1
        <5> QED BY <2>4, <5>1, <5>2 DEF Numbers
      <4>3. j \in 1..((k + d) - 1)
        BY <1>0, <2>1, <4>2
      <4> QED BY <2>5, <2>8, <4>1, <4>3, Zenon
    <3> QED BY <3>1, <3>2
  <2>12. Cardinality((1..MaxSize) \ E) <= r
    <3> DEFINE A == (1..MaxSize) \ E
               B == (1..Len(log)) \ F
               f == [k \in A |-> k + d]
    <3>1. IsFiniteSet(B)
      <4>1. IsFiniteSet(1..Len(log))
        BY <1>0, IntervalSize, Zenon
      <4> QED BY <4>1, FS_Difference, Zenon
    <3>2. \A k \in A : k + d \in B /\ k \in Nat
      BY <2>4
    <3>3. f \in [A -> B]
      BY <3>2
    <3>4. \A j, k \in A : f[j] = f[k] => j = k
      BY <2>1, <3>2
    <3>5. f \in Injection(A, B)
      BY <3>3, <3>4, Zenon DEF Injection, IsInjective
    <3>6. Cardinality(B) <= r
      BY <2>5
    <3> HIDE DEF A, B, f
    <3>7. IsFiniteSet(A) /\ Cardinality(A) <= Cardinality(B)
      BY <3>1, <3>5, FS_Injection
    <3>8. Cardinality(A) \in Nat /\ Cardinality(B) \in Nat
      BY <3>1, <3>7, FS_CardinalityType
    <3>9. Cardinality(A) <= r
      BY <3>6, <3>7, <3>8
    <3> QED BY <3>9 DEF A
  <2>13. E \subseteq DOMAIN new /\ Numbers(new) \subseteq N /\ Len(new) >= MaxSize
    BY <1>0, <2>3, <2>4, <2>5, <2>7
  <2> HIDE DEF E
  <2>14. LogInOrder(new, N, E, r)
    BY <2>4, <2>9, <2>10, <2>11, <2>12, <2>13, Zenon DEF LogInOrder
  <2> QED BY <2>3, <2>6, <2>14 DEF new
<1> QED BY <1>1, <1>2

----------------------------------------------------------------------------
(* The check                                                               *)

\* Two intervals of the lengths Slack and MaxReorg hold no more numbers.
LEMMA TwoIntervals ==
  ASSUME NEW E, NEW n \in Nat, NEW c \in Nat,
         \A t \in E : t \in (n - Slack)..(n - 1) \/ t \in (c + 1)..(c + MaxReorg)
  PROVE  IsFiniteSet(E) /\ Cardinality(E) <= 2 * MaxReorg + Scope
<1> DEFINE A == (n - Slack)..(n - 1)
           B == (c + 1)..(c + MaxReorg)
<1>1. MaxReorg \in Nat /\ Scope \in Nat /\ Slack = MaxReorg + Scope
  BY Sizes DEF Slack
<1>2. IsFiniteSet(A) /\ Cardinality(A) = Slack
  <2> DEFINE a == n - Slack
             b == n - 1
  <2>1. a \in Int /\ b \in Int /\ (a > b => Slack = 0) /\ b - a + 1 = Slack
    BY <1>1
  <2> HIDE DEF a, b
  <2>2. IsFiniteSet(a..b) /\ Cardinality(a..b) = IF a > b THEN 0 ELSE b - a + 1
    BY <2>1, FS_Interval, Zenon
  <2>3. Cardinality(a..b) = Slack
    BY <2>1, <2>2, Zenon
  <2> QED BY <2>2, <2>3 DEF a, b
<1>3. IsFiniteSet(B) /\ Cardinality(B) = MaxReorg
  <2> DEFINE a == c + 1
             b == c + MaxReorg
  <2>1. a \in Int /\ b \in Int /\ (a > b => MaxReorg = 0) /\ b - a + 1 = MaxReorg
    BY <1>1
  <2> HIDE DEF a, b
  <2>2. IsFiniteSet(a..b) /\ Cardinality(a..b) = IF a > b THEN 0 ELSE b - a + 1
    BY <2>1, FS_Interval, Zenon
  <2>3. Cardinality(a..b) = MaxReorg
    BY <2>1, <2>2, Zenon
  <2> QED BY <2>2, <2>3 DEF a, b
<1>4. E \in SUBSET (A \cup B)
  OBVIOUS
<1> HIDE DEF A, B
<1>5. /\ IsFiniteSet(A \cup B)
      /\ Cardinality(A \cup B) = Cardinality(A) + Cardinality(B) - Cardinality(A \cap B)
  BY <1>2, <1>3, FS_Union, Zenon
<1>6. IsFiniteSet(A \cap B) /\ Cardinality(A \cap B) \in Nat
  BY <1>2, FS_Intersection, FS_CardinalityType, Zenon
<1>7. IsFiniteSet(E) /\ Cardinality(E) <= Cardinality(A \cup B)
  BY <1>4, <1>5, FS_Subset, Zenon
<1>8. Cardinality(E) \in Nat /\ Cardinality(A \cup B) \in Nat
  BY <1>5, <1>7, FS_CardinalityType
<1>9. Cardinality(A \cup B) <= 2 * MaxReorg + Scope
  BY <1>1, <1>2, <1>3, <1>5, <1>6
<1> QED BY <1>1, <1>7, <1>8, <1>9

\* The cache holds votes of K, enough of them.
Guards(buf, K) ==
  /\ CacheOK(buf) /\ \A k \in DOMAIN buf : buf[k] \in K
  /\ Enough(buf, Targets(K))

\* The cache has forgotten number n only if it holds a vote between n and any
\* block that can still be announced.
LEMMA VoteBetween ==
  ASSUME Roomy, NEW h \in Nat, NEW K, Sound(K, h), NEW buf, Guards(buf, K), NEW v \in Votes,
         h <= v.target + MaxReorg, v.target \notin Numbers(buf),
         NEW n \in Targets(K) \ Numbers(buf)
  PROVE  n < v.target /\ \E t \in Numbers(buf) : n < t /\ t < v.target
<1> DEFINE T == v.target
           M == Numbers(buf)
           E == {t \in M : n <= t + Slack}
           c == IF n < T THEN T ELSE n
<1>1. MaxReorg \in Nat /\ Scope \in Nat /\ Slack \in Nat /\ MaxSize \in Nat /\ MaxRepeat \in Nat
  BY Sizes
<1>2. T \in Nat /\ n \in Nat
  BY VoteFacts DEF Sound, Targets
<1>3. ASSUME NEW t \in M PROVE t \in Nat /\ t <= h
  <2>1. PICK k \in DOMAIN buf : t = buf[k].target
    BY DEF Numbers
  <2>2. buf[k] \in K
    BY <2>1 DEF Guards
  <2> QED BY <2>1, <2>2, VoteFacts DEF Sound
<1>4. Cardinality(E) >= MaxSize - MaxRepeat
  BY DEF Guards, Enough
<1>5. T \notin M /\ n \notin M
  OBVIOUS
<1> HIDE DEF M, T
<1>6. IsFiniteSet(E)
  <2>1. IsFiniteSet(M) /\ E \in SUBSET M
    BY NumbersFinite DEF M, Guards, CacheOK
  <2> QED BY <2>1, FS_Subset, Zenon
<1>7. Cardinality(E) \in Nat /\ Cardinality(E) > 2 * MaxReorg + Scope
  <2>1. Cardinality(E) \in Nat
    BY <1>6, FS_CardinalityType
  <2> HIDE DEF E
  <2> QED BY <1>1, <1>4, <2>1 DEF Roomy
<1>8. c \in Nat /\ T <= c /\ n <= c
  BY <1>2
<1>9. \E t \in E : n < t /\ t < c
  <2> SUFFICES ASSUME \A t \in E : ~(n < t /\ t < c) PROVE FALSE
    OBVIOUS
  <2>1. ASSUME NEW t \in E
        PROVE  t \in (n - Slack)..(n - 1) \/ t \in (c + 1)..(c + MaxReorg)
    <3>1. t \in Nat /\ t <= h /\ n <= t + Slack /\ t # T /\ t # n
      BY <1>3, <1>5
    <3>2. h <= c + MaxReorg
      BY <1>1, <1>2, <1>8 DEF T
    <3>3. t # c
      BY <3>1
    <3>4. ~(n < t /\ t < c)
      OBVIOUS
    <3> HIDE DEF c, E
    <3> QED BY <1>1, <1>2, <1>8, <3>1, <3>2, <3>3, <3>4
  <2> HIDE DEF c, E
  <2>2. Cardinality(E) <= 2 * MaxReorg + Scope
    BY <1>2, <1>8, <2>1, TwoIntervals, Zenon
  <2> QED BY <1>1, <1>7, <2>2
<1>10. PICK t \in E : n < t /\ t < c
  BY <1>9
<1>11. n < T /\ c = T
  BY <1>2, <1>3, <1>10
<1> QED BY <1>10, <1>11 DEF M, T

\* The vote that a lookup of a number in the cache returns.
LEMMA LookupIn ==
  ASSUME NEW K, NEW buf, Guards(buf, K), NEW t \in Numbers(buf)
  PROVE  Lookup(buf, t) \in K /\ Lookup(buf, t).target = t /\ HasVote(buf, t)
<1>1. HasVote(buf, t)
  BY HasNumber
<1> QED BY <1>1, Found DEF Guards, Lookup

\* A vote that passes the check is new and conflicts with none of K.
LEMMA PassedIsSafe ==
  ASSUME Roomy, NEW h \in Nat, NEW K, Sound(K, h), NEW buf, Guards(buf, K), NEW v \in Votes,
         h <= v.target + MaxReorg, UnderRules(buf, v)
  PROVE  v.target \notin Targets(K) /\ \A w \in K : ~Rules!Conflict(v, w)
<1> DEFINE M == Numbers(buf)
<1>0. /\ MaxReorg \in Nat /\ Scope \in Nat /\ Upper \in Nat /\ MaxReorg <= Upper
      /\ v.target \in Nat /\ v.source \in Nat /\ v.source < v.target
  BY Sizes, VoteFacts
<1>1. v.target \notin M /\ Crossing(buf, v) = {}
  BY HasNumber DEF UnderRules
<1>2. v.target \notin Targets(K)
  <2> SUFFICES ASSUME v.target \in Targets(K) PROVE FALSE
    OBVIOUS
  <2>1. v.target < v.target
    BY <1>1, VoteBetween
  <2> QED BY <1>0, <2>1
<1>3. ASSUME NEW t \in M, t \in Nat, t \in Span(v), t < v.target
      PROVE  ~(Lookup(buf, t).source > v.source)
  <2>1. HasVote(buf, t)
    BY LookupIn
  <2> QED BY <1>1, <1>3, <2>1 DEF Crossing, Visited
<1>4. ASSUME NEW t \in M, t \in Nat, t \in Span(v), ~(t < v.target)
      PROVE  ~(Lookup(buf, t).source < v.source)
  <2>1. HasVote(buf, t)
    BY LookupIn
  <2> QED BY <1>1, <1>4, <2>1 DEF Crossing, Visited
<1>5. ASSUME NEW w \in K, Rules!Conflict(v, w) PROVE FALSE
  <2>1. /\ w \in Votes /\ w.target \in Nat /\ w.source \in Nat /\ w.source < w.target
        /\ w.target <= h
    BY VoteFacts DEF Sound
  <2>2. w.target # v.target
    BY <1>2 DEF Targets
  <2>3. \/ w.target < v.target /\ v.target <= w.target + Scope /\ v.source < w.source
        \/ v.target < w.target /\ w.target <= v.target + Scope /\ w.source < v.source
    BY <1>5, <2>2 DEF Rules!Conflict, Rules!SameHeight, Rules!Spans
  <2>4. CASE w.target \in M
    <3> DEFINE u == Lookup(buf, w.target)
    <3>1. u \in K /\ u.target = w.target
      BY <2>4, LookupIn
    <3> HIDE DEF u
    <3>2. u = w
      BY <3>1 DEF Sound, Rules!Conflict, Rules!SameHeight
    <3>3. CASE w.target < v.target
      <4>1. v.target <= w.target + Scope /\ v.source < w.source
        BY <1>0, <2>1, <2>3, <3>3
      <4>2. w.target \in Span(v)
        BY <1>0, <2>1, <3>3, <4>1 DEF Span
      <4> QED BY <1>0, <1>3, <2>1, <2>4, <3>2, <3>3, <4>1, <4>2 DEF u
    <3>4. CASE ~(w.target < v.target)
      <4>1. v.target < w.target /\ w.source < v.source
        BY <1>0, <2>1, <2>3, <3>4
      <4>2. w.target \in Span(v)
        <5>1. w.target <= v.target + Upper
          BY <1>0, <2>1
        <5>2. w.target \in (v.target + 1)..(v.target + Upper)
          BY <1>0, <2>1, <4>1, <5>1
        <5> QED BY <5>2 DEF Span
      <4> QED BY <1>0, <1>4, <2>1, <2>4, <3>2, <3>4, <4>1, <4>2 DEF u
    <3> QED BY <3>3, <3>4
  <2>5. CASE w.target \notin M
    <3>1. w.target \in Targets(K) \ M
      BY <2>5 DEF Targets
    <3>2. w.target < v.target /\ \E t \in M : w.target < t /\ t < v.target
      BY <1>1, <3>1, VoteBetween
    <3>3. PICK t \in M : w.target < t /\ t < v.target
      BY <3>2
    <3>4. v.target <= w.target + Scope /\ v.source < w.source
      BY <1>0, <2>1, <2>3, <3>2
    <3> DEFINE u == Lookup(buf, t)
    <3>5. u \in K /\ u.target = t
      BY LookupIn
    <3> HIDE DEF u
    <3>6. u.source \in Nat /\ t \in Nat
      BY <3>5, VoteFacts DEF Sound
    <3>7. ~(u.source < w.source)
      <4>1. ~Rules!Spans(u, w)
        BY <3>5 DEF Sound, Rules!Conflict
      <4>2. w.target < u.target /\ u.target <= w.target + Scope
        BY <1>0, <2>1, <3>3, <3>4, <3>5, <3>6
      <4> QED BY <4>1, <4>2 DEF Rules!Spans
    <3>8. u.source > v.source
      BY <1>0, <2>1, <3>4, <3>6, <3>7
    <3>9. t \in Span(v)
      BY <1>0, <2>1, <3>3, <3>4, <3>6 DEF Span
    <3> QED BY <1>3, <3>3, <3>6, <3>8, <3>9 DEF u
  <2> QED BY <2>4, <2>5
<1> QED BY <1>2, <1>5

----------------------------------------------------------------------------
(* The log and the cache of a node, from step to step                      *)

\* The numbers of votes are natural numbers.
LEMMA TargetsNat ==
  ASSUME NEW K \in SUBSET Votes
  PROVE  Targets(K) \in SUBSET Nat
BY VoteFacts DEF Targets

\* The numbers of one vote more.
LEMMA TargetsMore ==
  ASSUME NEW K, NEW v
  PROVE  Targets(K \cup {v}) = Targets(K) \cup {v.target}
BY DEF Targets

\* A sequence of votes of K is one of votes.
LEMMA VotesOf ==
  ASSUME NEW K \in SUBSET Votes, NEW s \in Seq(K)
  PROVE  s \in Seq(Votes) /\ \A k \in DOMAIN s : s[k] \in K
<1> DEFINE S == Votes
<1>1. K \subseteq S
  OBVIOUS
<1> HIDE DEF S
<1>2. s \in Seq(S) /\ \A k \in DOMAIN s : s[k] \in K
  BY <1>1
<1> QED BY <1>2 DEF S

\* A sequence whose entries are all in K.
LEMMA AllOf ==
  ASSUME NEW s \in Seq(Votes), NEW K, \A k \in DOMAIN s : s[k] \in K
  PROVE  s \in Seq(K)
<1> DEFINE S == Votes
<1>1. s \in Seq(S)
  OBVIOUS
<1> HIDE DEF S
<1> QED BY <1>1

\* A log with fewer repetitions is as good.
LEMMA LogMore ==
  ASSUME NEW log, NEW K, NEW r \in Int, NEW q \in Int, r <= q, LogOK(log, K, r)
  PROVE  LogOK(log, K, q)
<1>1. PICK F \in SUBSET DOMAIN log : LogInOrder(log, Targets(K), F, r)
  BY DEF LogOK
<1>2. log \in Seq(K) /\ Len(log) \in Nat /\ DOMAIN log = 1..Len(log)
  BY DEF LogOK
<1>3. IsFiniteSet(DOMAIN log \ F)
  <2>1. IsFiniteSet(DOMAIN log)
    BY <1>2, IntervalSize
  <2> QED BY <2>1, FS_Difference, Zenon
<1> DEFINE c == Cardinality(DOMAIN log \ F)
<1>4. c \in Nat
  BY <1>3, FS_CardinalityType, Zenon
<1>5. c <= r
  BY <1>1, Zenon DEF LogInOrder
<1> HIDE DEF c
<1>6. c <= q
  BY <1>4, <1>5
<1>7. LogInOrder(log, Targets(K), F, q)
  BY <1>1, <1>6, Zenon DEF LogInOrder, c
<1> QED BY <1>2, <1>7, Zenon DEF LogOK

\* A cache with fewer votes out of turn is as good.
LEMMA BufferMore ==
  ASSUME NEW buf, NEW K, NEW r \in Int, NEW q \in Int, r <= q, BufferOK(buf, K, r)
  PROVE  BufferOK(buf, K, q)
<1>1. PICK G \in SUBSET (1..MaxNumber) : InOrder(buf, Targets(K), G, r)
  BY DEF BufferOK
<1>2. IsFiniteSet(Numbers(buf) \ G)
  <2>1. IsFiniteSet(Numbers(buf))
    BY NumbersFinite, Zenon DEF BufferOK, CacheOK
  <2> QED BY <2>1, FS_Difference, Zenon
<1> DEFINE c == Cardinality(Numbers(buf) \ G)
<1>3. c \in Nat
  BY <1>2, FS_CardinalityType, Zenon
<1>4. c <= r
  BY <1>1, Zenon DEF InOrder
<1> HIDE DEF c
<1>5. c <= q
  BY <1>3, <1>4
<1>6. InOrder(buf, Targets(K), G, q)
  BY <1>1, <1>5, Zenon DEF InOrder, c
<1> QED BY <1>6, Zenon DEF BufferOK

\* The log with a first vote for its number.
LEMMA LogFresh ==
  ASSUME NEW K \in SUBSET Votes, NEW log, NEW r, LogOK(log, K, r), NEW v \in Votes,
         v.target \notin Targets(K), \A w \in K : w.target <= v.target + Slack
  PROVE  LogOK(Append(log, v), K \cup {v}, r)
<1>1. PICK F \in SUBSET DOMAIN log : LogInOrder(log, Targets(K), F, r)
  BY DEF LogOK
<1>2. log \in Seq(Votes) /\ \A k \in DOMAIN log : log[k] \in K
  BY VotesOf, Zenon DEF LogOK
<1>3. Targets(K) \in SUBSET Nat /\ \A n \in Targets(K) : n <= v.target + Slack
  BY TargetsNat DEF Targets
<1>4. LogInOrder(Append(log, v), Targets(K) \cup {v.target}, F \cup {Len(log) + 1}, r)
  BY <1>1, <1>2, <1>3, FreshKeeps, Zenon
<1>5. /\ Append(log, v) \in Seq(Votes)
      /\ \A k \in DOMAIN Append(log, v) : Append(log, v)[k] \in K \cup {v}
      /\ F \cup {Len(log) + 1} \subseteq DOMAIN Append(log, v)
  <2>1. /\ Append(log, v) \in Seq(Votes) /\ DOMAIN log = 1..Len(log)
        /\ DOMAIN Append(log, v) = 1..(Len(log) + 1)
        /\ \A k \in 1..Len(log) : Append(log, v)[k] = log[k] /\ k \in 1..(Len(log) + 1)
        /\ Append(log, v)[Len(log) + 1] = v /\ Len(log) + 1 \in 1..(Len(log) + 1)
        /\ \A k \in 1..(Len(log) + 1) : k \in 1..Len(log) \/ k = Len(log) + 1
    BY <1>2, LogAppended, Zenon
  <2> DEFINE m == Len(log)
             new == Append(log, v)
  <2> HIDE DEF m, new
  <2>2. /\ DOMAIN log = 1..m /\ DOMAIN new = 1..(m + 1)
        /\ \A k \in 1..m : new[k] = log[k] /\ k \in 1..(m + 1)
        /\ new[m + 1] = v /\ m + 1 \in 1..(m + 1)
        /\ \A k \in 1..(m + 1) : k \in 1..m \/ k = m + 1
    BY <2>1 DEF m, new
  <2>3. \A k \in DOMAIN new : new[k] \in K \cup {v}
    BY <1>2, <2>2, Zenon
  <2>4. F \cup {m + 1} \subseteq DOMAIN new
    BY <2>2, Zenon
  <2> QED BY <2>1, <2>3, <2>4 DEF m, new
<1>6. Append(log, v) \in Seq(K \cup {v})
  BY <1>5, AllOf, Zenon
<1> QED BY <1>4, <1>5, <1>6, TargetsMore, Zenon DEF LogOK

\* The log with one more repetition.
LEMMA LogRepeat ==
  ASSUME NEW K \in SUBSET Votes, NEW log, NEW r \in Int, LogOK(log, K, r), NEW v \in K
  PROVE  LogOK(Append(log, v), K, r + 1)
<1>1. PICK F \in SUBSET DOMAIN log : LogInOrder(log, Targets(K), F, r)
  BY DEF LogOK
<1>2. log \in Seq(Votes) /\ \A k \in DOMAIN log : log[k] \in K
  BY VotesOf, Zenon DEF LogOK
<1>3. v \in Votes /\ v.target \in Targets(K)
  BY DEF Targets
<1>4. LogInOrder(Append(log, v), Targets(K), F, r + 1)
  BY <1>1, <1>2, <1>3, RepeatKeeps, Zenon
<1>5. F \in SUBSET DOMAIN Append(log, v)
  BY <1>4 DEF LogInOrder
<1>6. Append(log, v) \in Seq(K)
  BY DEF LogOK
<1> QED BY <1>4, <1>5, <1>6, Zenon DEF LogOK

\* The log after its truncation.
LEMMA LogLast ==
  ASSUME NEW K \in SUBSET Votes, NEW log, NEW r \in Int, LogOK(log, K, r)
  PROVE  LogOK(LastOf(log, MaxSize), K, r)
<1> DEFINE new == LastOf(log, MaxSize)
<1>1. PICK F \in SUBSET DOMAIN log : LogInOrder(log, Targets(K), F, r)
  BY DEF LogOK
<1>2. log \in Seq(Votes) /\ \A k \in DOMAIN log : log[k] \in K
  BY VotesOf, Zenon DEF LogOK
<1>3. /\ new \in Seq(Votes) /\ Among(new, log)
      /\ \E E : LogInOrder(new, Targets(K), E, r)
  BY <1>1, <1>2, LastOfKeeps, Zenon
<1> HIDE DEF new
<1>4. PICK E : LogInOrder(new, Targets(K), E, r)
  BY <1>3, Zenon
<1>5. E \in SUBSET DOMAIN new
  BY <1>4 DEF LogInOrder
<1>6. \A k \in DOMAIN new : new[k] \in K
  BY <1>2, <1>3, Zenon DEF Among
<1>7. new \in Seq(K)
  BY <1>3, <1>6, AllOf, Zenon
<1>8. LogOK(new, K, r)
  BY <1>4, <1>5, <1>7, Zenon DEF LogOK
<1> QED BY <1>8 DEF new

\* The cache with the vote that was written.
LEMMA BufferAdd ==
  ASSUME NEW K \in SUBSET Votes, NEW buf, NEW r \in Int, BufferOK(buf, K, r), NEW v \in Votes,
         NEW q \in Int, q <= MaxRepeat,
         \/ q = r /\ \A w \in K : w.target <= v.target + Slack
         \/ q = r + 1
  PROVE  BufferOK(Add(buf, v), K \cup {v}, q)
<1> DEFINE N == Targets(K)
           new == Add(buf, v)
<1>1. PICK G \in SUBSET (1..MaxNumber) : InOrder(buf, N, G, r)
  BY DEF BufferOK
<1>2. CacheOK(buf) /\ Enough(buf, N) /\ \A k \in DOMAIN buf : buf[k] \in K
  BY Zenon DEF BufferOK
<1>3. N \in SUBSET Nat /\ v.target \in Nat /\ v.target \in 1..MaxNumber
  BY TargetsNat, VoteFacts, Zenon
<1>4. N \cup {v.target} \in SUBSET Nat
  BY <1>3, Zenon
<1>5. PICK H \in SUBSET (1..MaxNumber) : Tagged(N, v.target, G, r, H, q)
  <2>1. CASE q = r /\ \A w \in K : w.target <= v.target + Slack
    <3>1. \A n \in N : n <= v.target + Slack
      BY <2>1, Zenon DEF Targets
    <3>2. G \cup {v.target} \in SUBSET (1..MaxNumber)
      BY <1>3, Zenon
    <3>3. Tagged(N, v.target, G, r, G \cup {v.target}, q)
      BY <2>1, <3>1, Zenon DEF Tagged
    <3> QED BY <3>2, <3>3, Zenon
  <2>2. CASE q = r + 1
    <3>1. Tagged(N, v.target, G, r, G \ {v.target}, q)
      BY <2>2, Zenon DEF Tagged
    <3>2. G \ {v.target} \in SUBSET (1..MaxNumber)
      BY Zenon
    <3> QED BY <3>1, <3>2, Zenon
  <2> QED BY <2>1, <2>2
<1>6. /\ CacheOK(new) /\ InOrder(new, N \cup {v.target}, H, q)
      /\ \/ Numbers(new) = Numbers(buf) \cup {v.target}
         \/ Len(new) = MaxSize
      /\ \A k \in DOMAIN new : new[k] = v \/ \E j \in DOMAIN buf : new[k] = buf[j]
  BY <1>1, <1>2, <1>3, <1>5, AddKeeps, ZenonT(40)
<1> HIDE DEF new
<1>7. Enough(new, N \cup {v.target})
  <2>1. CASE Numbers(new) = Numbers(buf) \cup {v.target}
    BY <1>2, <1>6, <2>1, MoreIsEnough, Zenon DEF CacheOK
  <2>2. CASE Len(new) = MaxSize
    BY <1>4, <1>6, <2>2, FullIsEnough, Zenon
  <2> QED BY <1>6, <2>1, <2>2, Zenon
<1>8. \A k \in DOMAIN new : new[k] \in K \cup {v}
  BY <1>2, <1>6, Zenon
<1>9. BufferOK(new, K \cup {v}, q)
  BY <1>6, <1>7, <1>8, TargetsMore, Zenon DEF BufferOK
<1> QED BY <1>9 DEF new

\* The cache after the lookups of a check.
LEMMA BufferChecked ==
  ASSUME NEW h \in Nat, NEW K, Sound(K, h), NEW buf, NEW r \in Int, BufferOK(buf, K, r),
         NEW v \in Votes, h <= v.target + MaxReorg
  PROVE  BufferOK(Checked(buf, v), K, r)
<1>1. CASE HasVote(buf, v.target)
  BY <1>1, Zenon DEF Checked
<1>2. CASE ~HasVote(buf, v.target)
  <2> DEFINE bad == Crossing(buf, v)
             T == {t \in Visited(buf, v) : bad = {} \/ t <= Min(bad)}
             N == Targets(K)
             new == Touch(buf, T)
  <2>1. Checked(buf, v) = new
    BY <1>2, Zenon DEF Checked
  <2>2. T \in SUBSET Numbers(buf) /\ T \in SUBSET Span(v)
    BY HasNumber, Zenon DEF Visited
  <2> HIDE DEF T, bad
  <2>3. \A t \in T, n \in N : n <= t + Slack
    <3> TAKE t \in T, n \in N
    <3>1. n \in Nat /\ n <= h
      <4>1. PICK w \in K : n = w.target
        BY DEF Targets
      <4> QED BY <4>1, VoteFacts DEF Sound
    <3>2. v.target \in Nat /\ v.source \in Nat /\ v.source < v.target /\ t \in Span(v)
      BY <2>2, VoteFacts, Zenon
    <3>3. MaxReorg \in Nat /\ Scope \in Nat /\ Slack = MaxReorg + Scope /\ Upper \in Nat
      BY Sizes DEF Slack
    <3>4. t \in Nat /\ v.target <= t + Scope
      BY <3>2, <3>3 DEF Span
    <3> HIDE DEF N, new
    <3> QED BY <3>1, <3>2, <3>3, <3>4
  <2>4. PICK G \in SUBSET (1..MaxNumber) : InOrder(buf, N, G, r)
    BY DEF BufferOK
  <2>5. CacheOK(buf) /\ Enough(buf, N) /\ \A k \in DOMAIN buf : buf[k] \in K
    BY Zenon DEF BufferOK
  <2>6. N \in SUBSET Nat
    BY TargetsNat, Zenon DEF Sound
  <2>7. SameVotes(new, buf, N, r)
    BY <2>2, <2>3, <2>4, <2>5, <2>6, TouchKeeps, Zenon
  <2> HIDE DEF new
  <2>8. \A k \in DOMAIN new : new[k] \in K
    BY <2>5, <2>7, Zenon DEF SameVotes, Among
  <2>9. Enough(new, N)
    BY <2>5, <2>7, Zenon DEF SameVotes, Enough
  <2>10. BufferOK(new, K, r)
    BY <2>7, <2>8, <2>9, Zenon DEF SameVotes, BufferOK
  <2> QED BY <2>1, <2>10
<1> QED BY <1>1, <1>2

\* The cache that is filled from the log.
LEMMA BufferReload ==
  ASSUME NEW K \in SUBSET Votes, NEW log, NEW r \in Int, r <= MaxRepeat, LogOK(log, K, r)
  PROVE  BufferOK(Reload(log), K, r)
<1>1. PICK F \in SUBSET DOMAIN log : LogInOrder(log, Targets(K), F, r)
  BY DEF LogOK
<1>2. log \in Seq(Votes) /\ \A k \in DOMAIN log : log[k] \in K
  BY VotesOf, Zenon DEF LogOK
<1>3. Targets(K) \in SUBSET Nat
  BY TargetsNat, Zenon
<1>4. /\ CacheOK(Reload(log)) /\ Among(Reload(log), log) /\ Enough(Reload(log), Targets(K))
      /\ \E G \in SUBSET (1..MaxNumber) : InOrder(Reload(log), Targets(K), G, r)
  BY <1>1, <1>2, <1>3, ReloadKeeps, Zenon
<1>5. \A k \in DOMAIN Reload(log) : Reload(log)[k] \in K
  BY <1>2, <1>4, Zenon DEF Among
<1> QED BY <1>4, <1>5, Zenon DEF BufferOK

----------------------------------------------------------------------------
(* The steps of a node                                                     *)

\* A node without a task.
LEMMA IdleTask ==
  ASSUME NEW K, NEW h, NEW r
  PROVE  /\ TaskOK(Idle, K, h) /\ Answerable(Idle, K) = K
         /\ InLog(Idle, r) = r /\ InCache(Idle, r) = r
BY DEF TaskOK, Tasks, Idle, Answerable, InLog, InCache, Fresh, Stale

\* The task of a node, by its step.
LEMMA TaskCases ==
  ASSUME NEW k \in Tasks
  PROVE  \/ k = Idle /\ k.step = "idle"
         \/ /\ k.step \in {"write", "add", "put"} /\ k.vote \in Votes /\ k.own \in BOOLEAN
            /\ k = [step |-> k.step, vote |-> k.vote, own |-> k.own]
BY DEF Tasks, Idle

\* A node that gives its task up before the vote is in the log.
LEMMA StepIdle ==
  ASSUME NEW k, NEW K, NEW log, NEW buf, NEW h, NEW r \in Int, NodeOK(k, K, log, buf, h, r),
         ~Fresh(k, "add")
  PROVE  NodeOK(Idle, K, log, buf, h, r)
<1>1. /\ Sound(K, h) /\ LogOK(log, K, InLog(k, r))
      /\ BufferOK(buf, K, InCache(k, r))
  BY Zenon DEF NodeOK, Answerable
<1>2. /\ InLog(k, r) \in Int /\ InLog(k, r) <= r
      /\ InCache(k, r) \in Int /\ InCache(k, r) <= r
  BY DEF InLog, InCache
<1>3. LogOK(log, K, r) /\ BufferOK(buf, K, r)
  BY <1>1, <1>2, LogMore, BufferMore, Zenon
<1> QED BY <1>1, <1>3, IdleTask, Zenon DEF NodeOK

\* A head is announced: the node that only looks on.
LEMMA StepHigher ==
  ASSUME NEW K, NEW log, NEW buf, NEW h \in Nat, NEW r, NodeOK(Idle, K, log, buf, h, r),
         NEW g \in Nat, h <= g
  PROVE  NodeOK(Idle, K, log, buf, g, r)
<1>1. Sound(K, h)
  BY DEF NodeOK
<1>2. Sound(K, g)
  <2>1. \A v \in K : v.target \in Nat /\ v.target <= h
    BY <1>1, VoteFacts, Zenon DEF Sound
  <2>2. \A v \in K : v.target <= g
    BY <2>1
  <2> QED BY <1>1, <2>2, Zenon DEF Sound
<1> QED BY <1>2, IdleTask, Zenon DEF NodeOK

\* The cache of an idle node guards the votes it has journalled.
LEMMA IdleGuards ==
  ASSUME NEW K, NEW buf, NEW r, BufferOK(buf, K, r)
  PROVE  Guards(buf, K)
BY Zenon DEF BufferOK, Guards

\* A head is announced: the check, without a vote.
LEMMA StepChecked ==
  ASSUME NEW K, NEW log, NEW buf, NEW h \in Nat, NEW r \in Int, NodeOK(Idle, K, log, buf, h, r),
         NEW v \in Votes, h <= v.target + MaxReorg
  PROVE  NodeOK(Idle, K, log, Checked(buf, v), h, r)
<1>1. Sound(K, h) /\ BufferOK(buf, K, r)
  BY IdleTask, Zenon DEF NodeOK
<1>2. BufferOK(Checked(buf, v), K, r)
  BY <1>1, BufferChecked, Zenon
<1> QED BY <1>2, IdleTask, Zenon DEF NodeOK

\* A head is announced: the node starts to write its vote.
LEMMA StepVote ==
  ASSUME NEW K, NEW log, NEW buf, NEW h \in Nat, NEW r, NodeOK(Idle, K, log, buf, h, r),
         NEW v \in Votes, v.target <= h, h <= v.target + MaxReorg,
         v.target \notin Targets(K), \A w \in K : ~Rules!Conflict(v, w)
  PROVE  NodeOK([step |-> "write", vote |-> v, own |-> TRUE], K, log, buf, h, r)
<1> DEFINE k == [step |-> "write", vote |-> v, own |-> TRUE]
<1>1. k \in Tasks /\ k.step = "write" /\ k.vote = v /\ k.own = TRUE
  BY DEF Tasks
<1> HIDE DEF k
<1>2. ~Stale(k, "write") /\ ~Fresh(k, "add") /\ ~Stale(k, "add") /\ k.step \notin {"add", "put"}
  BY <1>1 DEF Stale, Fresh
<1>3. TaskOK(k, K, h)
  BY <1>1, <1>2, Zenon DEF TaskOK
<1>4. Answerable(k, K) = K /\ InLog(k, r) = r /\ InCache(k, r) = r
  BY <1>2, Zenon DEF Answerable, InLog, InCache
<1>5. NodeOK(k, K, log, buf, h, r)
  BY <1>3, <1>4, IdleTask, Zenon DEF NodeOK
<1> QED BY <1>5 DEF k

\* A known vote comes back from the pool.
LEMMA StepSync ==
  ASSUME NEW K, NEW log, NEW buf, NEW h, NEW r \in Int, NodeOK(Idle, K, log, buf, h, r),
         NEW v \in K
  PROVE  NodeOK([step |-> "write", vote |-> v, own |-> FALSE], K, log, buf, h, r + 1)
<1> DEFINE k == [step |-> "write", vote |-> v, own |-> FALSE]
<1>1. v \in Votes
  BY Zenon DEF NodeOK, Sound
<1>2. k \in Tasks /\ k.step = "write" /\ k.vote = v /\ k.own = FALSE
  BY <1>1 DEF Tasks
<1> HIDE DEF k
<1>3. /\ Stale(k, "write") /\ ~Fresh(k, "write") /\ ~Fresh(k, "add")
  BY <1>2 DEF Stale, Fresh
<1>4. TaskOK(k, K, h)
  <2>1. k.vote \in K
    BY <1>2
  <2> QED BY <1>2, <1>3, <2>1, Zenon DEF TaskOK
<1>5. (r + 1) - 1 = r
  OBVIOUS
<1>6. Answerable(k, K) = K /\ InLog(k, r + 1) = r /\ InCache(k, r + 1) = r
  BY <1>3, <1>5, Zenon DEF Answerable, InLog, InCache
<1>7. NodeOK(k, K, log, buf, h, r + 1)
  BY <1>4, <1>6, IdleTask, Zenon DEF NodeOK
<1> QED BY <1>7 DEF k

\* A task that is written to: its step, the rest unchanged.
LEMMA AtStep ==
  ASSUME NEW k \in Tasks, k # Idle, NEW s \in {"write", "add", "put"}
  PROVE  LET n == [k EXCEPT !.step = s]
         IN  /\ n \in Tasks /\ n.step = s /\ n.vote = k.vote /\ n.own = k.own
             /\ k.vote \in Votes /\ k.own \in BOOLEAN
<1>1. /\ k.step \in {"write", "add", "put"} /\ k.vote \in Votes /\ k.own \in BOOLEAN
      /\ k = [step |-> k.step, vote |-> k.vote, own |-> k.own]
  BY TaskCases
<1> QED BY <1>1 DEF Tasks

\* The first part of WriteVote.
LEMMA StepWrite ==
  ASSUME NEW k, NEW K, NEW log, NEW buf, NEW h \in Nat, NEW r \in Int,
         NodeOK(k, K, log, buf, h, r), k.step = "write"
  PROVE  NodeOK([k EXCEPT !.step = "add"], K \cup {k.vote}, Append(log, k.vote), buf, h, r)
<1> DEFINE v == k.vote
           n == [k EXCEPT !.step = "add"]
<1>1. Sound(K, h) /\ TaskOK(k, K, h) /\ k \in Tasks
  BY Zenon DEF NodeOK, TaskOK
<1>2. k # Idle /\ "add" \in {"write", "add", "put"}
  BY DEF Idle
<1>3. n \in Tasks /\ n.step = "add" /\ n.vote = v /\ n.own = k.own /\ v \in Votes /\ k.own \in BOOLEAN
  BY <1>1, <1>2, AtStep, Zenon
<1> HIDE DEF n
<1>4. LogOK(log, K, InLog(k, r)) /\ BufferOK(buf, Answerable(k, K), InCache(k, r))
  BY Zenon DEF NodeOK
<1>5. Answerable(k, K) = K
  BY DEF Answerable, Fresh
<1>6. K \in SUBSET Votes
  BY <1>1, Zenon DEF Sound
<1>7. CASE k.own
  <2>1. Fresh(k, "write") /\ ~Stale(k, "write") /\ ~Stale(k, "add")
    BY <1>7 DEF Fresh, Stale
  <2>2. Fresh(n, "add") /\ ~Fresh(n, "write") /\ ~Stale(n, "write") /\ ~Stale(n, "add")
    BY <1>3, <1>7 DEF Fresh, Stale
  <2>3. InLog(k, r) = r /\ InCache(k, r) = r /\ InLog(n, r) = r /\ InCache(n, r) = r
    BY <2>1, <2>2, Zenon DEF InLog, InCache
  <2>4. /\ v.target \notin Targets(K) /\ \A w \in K : ~Rules!Conflict(v, w)
        /\ v.target <= h /\ h <= v.target + MaxReorg
    BY <1>1, <2>1, Zenon DEF TaskOK
  <2>5. v \notin K
    BY <2>4, Zenon DEF Targets
  <2>6. Answerable(n, K \cup {v}) = K
    <3>1. (K \cup {v}) \ {v} = K
      BY <2>5
    <3> QED BY <1>3, <2>2, <3>1, Zenon DEF Answerable
  <2>7. \A w \in K : w.target <= v.target + Slack
    <3> TAKE w \in K
    <3>1. w.target \in Nat /\ v.target \in Nat /\ w.target <= h
      BY <1>1, <1>3, VoteFacts, Zenon DEF Sound
    <3>2. MaxReorg \in Nat /\ Scope \in Nat /\ Slack = MaxReorg + Scope
      BY Sizes DEF Slack
    <3> QED BY <2>4, <3>1, <3>2
  <2>8. LogOK(Append(log, v), K \cup {v}, r)
    BY <1>3, <1>4, <1>6, <2>3, <2>4, <2>7, LogFresh, Zenon
  <2>9. Sound(K \cup {v}, h)
    <3>1. K \cup {v} \subseteq Votes /\ \A w \in K \cup {v} : w.target <= h
      BY <1>1, <1>3, <2>4, Zenon DEF Sound
    <3>2. ASSUME NEW w \in K \cup {v}, NEW x \in K \cup {v} PROVE ~Rules!Conflict(w, x)
      <4>1. CASE w \in K /\ x \in K
        BY <1>1, <4>1, Zenon DEF Sound
      <4>2. CASE w = v /\ x \in K
        BY <2>4, <4>2, Zenon
      <4>3. CASE w \in K /\ x = v
        <5>1. ~Rules!Conflict(v, w)
          BY <2>4, <4>3, Zenon
        <5> QED BY <4>3, <5>1 DEF Rules!Conflict, Rules!SameHeight
      <4>4. CASE w = v /\ x = v
        <5>1. v.target \in Nat
          BY <1>3, VoteFacts, Zenon
        <5> QED BY <4>4, <5>1 DEF Rules!Conflict, Rules!SameHeight, Rules!Spans
      <4> QED BY <4>1, <4>2, <4>3, <4>4, Zenon
    <3> QED BY <3>1, <3>2, Zenon DEF Sound
  <2>10. TaskOK(n, K \cup {v}, h)
    <3>1. n.vote \in K \cup {v}
      BY <1>3
    <3> QED BY <1>3, <2>2, <2>4, <3>1, Zenon DEF TaskOK
  <2>11. NodeOK(n, K \cup {v}, Append(log, v), buf, h, r)
    BY <1>4, <1>5, <2>3, <2>6, <2>8, <2>9, <2>10, Zenon DEF NodeOK
  <2> QED BY <2>11 DEF n
<1>8. CASE ~k.own
  <2>1. Stale(k, "write")
    BY <1>8 DEF Stale
  <2>2. Stale(n, "add") /\ ~Stale(n, "write") /\ ~Fresh(n, "write") /\ ~Fresh(n, "add")
    BY <1>3, <1>8 DEF Fresh, Stale
  <2>3. InLog(k, r) = r - 1 /\ InCache(k, r) = r - 1 /\ InLog(n, r) = r /\ InCache(n, r) = r - 1
    BY <2>1, <2>2, Zenon DEF InLog, InCache
  <2>4. v \in K
    BY <1>1, <2>1, Zenon DEF TaskOK
  <2>5. K \cup {v} = K /\ Answerable(n, K) = K
    <3>1. K \cup {v} = K
      BY <2>4
    <3> QED BY <2>2, <3>1, Zenon DEF Answerable
  <2>6. r - 1 \in Int /\ (r - 1) + 1 = r
    OBVIOUS
  <2>7. LogOK(Append(log, v), K, r)
    <3>1. LogOK(Append(log, v), K, (r - 1) + 1)
      BY <1>4, <1>6, <2>3, <2>4, <2>6, LogRepeat, Zenon
    <3> QED BY <2>6, <3>1, Zenon
  <2>8. TaskOK(n, K, h)
    <3>1. n.vote \in K
      BY <1>3, <2>4
    <3> QED BY <1>3, <2>2, <3>1, Zenon DEF TaskOK
  <2>9. NodeOK(n, K, Append(log, v), buf, h, r)
    BY <1>1, <1>4, <1>5, <2>3, <2>5, <2>7, <2>8, Zenon DEF NodeOK
  <2> QED BY <2>5, <2>9, Zenon DEF n
<1> QED BY <1>3, <1>7, <1>8, Zenon

\* The second part of WriteVote.
LEMMA StepAdd ==
  ASSUME NEW k, NEW K, NEW log, NEW buf, NEW h \in Nat, NEW r \in Int, r <= MaxRepeat,
         NodeOK(k, K, log, buf, h, r), k.step = "add",
         NEW n, n = IF k.own THEN [k EXCEPT !.step = "put"] ELSE Idle
  PROVE  NodeOK(n, K, LastOf(log, MaxSize), Add(buf, k.vote), h, r)
<1> DEFINE v == k.vote
           A == Answerable(k, K)
<1>1. Sound(K, h) /\ TaskOK(k, K, h) /\ k \in Tasks
  BY Zenon DEF NodeOK, TaskOK
<1>2. k # Idle /\ "put" \in {"write", "add", "put"} /\ k.step \in {"add", "put"}
  BY DEF Idle
<1>3. v \in Votes /\ k.own \in BOOLEAN
  BY <1>1, <1>2, TaskCases, Zenon
<1>4. LogOK(log, K, InLog(k, r)) /\ BufferOK(buf, A, InCache(k, r)) /\ v \in K
  BY <1>1, <1>2, Zenon DEF NodeOK, TaskOK
<1>5. K \in SUBSET Votes /\ A \in SUBSET Votes /\ A \subseteq K /\ A \cup {v} = K
  <2>1. K \in SUBSET Votes
    BY <1>1, Zenon DEF Sound
  <2>2. A = K \/ A = K \ {v}
    BY Zenon DEF Answerable
  <2> HIDE DEF A, v
  <2> QED BY <1>4, <2>1, <2>2
<1> HIDE DEF A
<1>6. InLog(k, r) = r
  <2>1. ~Stale(k, "write")
    BY DEF Stale
  <2> QED BY <2>1, Zenon DEF InLog
<1>7. LogOK(LastOf(log, MaxSize), K, r)
  BY <1>4, <1>5, <1>6, LogLast, Zenon
<1>8. BufferOK(Add(buf, v), K, r)
  <2>1. CASE k.own
    <3>1. Fresh(k, "add") /\ ~Stale(k, "add") /\ ~Stale(k, "write")
      BY <2>1 DEF Fresh, Stale
    <3>2. InCache(k, r) = r
      BY <3>1, Zenon DEF InCache
    <3>3. h <= v.target + MaxReorg
      BY <1>1, <3>1, Zenon DEF TaskOK
    <3>4. \A w \in A : w.target <= v.target + Slack
      <4> TAKE w \in A
      <4>1. w \in K
        BY <1>5, Zenon
      <4>2. w.target \in Nat /\ v.target \in Nat /\ w.target <= h
        BY <1>1, <1>3, <4>1, VoteFacts, Zenon DEF Sound
      <4>3. MaxReorg \in Nat /\ Scope \in Nat /\ Slack = MaxReorg + Scope
        BY Sizes DEF Slack
      <4> QED BY <3>3, <4>2, <4>3
    <3>5. BufferOK(Add(buf, v), A \cup {v}, r)
      BY <1>3, <1>4, <1>5, <3>2, <3>4, BufferAdd, Zenon
    <3> QED BY <1>5, <3>5, Zenon
  <2>2. CASE ~k.own
    <3>1. Stale(k, "add")
      BY <2>2 DEF Stale
    <3>2. InCache(k, r) = r - 1 /\ r - 1 \in Int /\ r = (r - 1) + 1
      BY <3>1 DEF InCache
    <3>3. BufferOK(Add(buf, v), A \cup {v}, r)
      BY <1>3, <1>4, <1>5, <3>2, BufferAdd, Zenon
    <3> QED BY <1>5, <3>3, Zenon
  <2> QED BY <1>3, <2>1, <2>2, Zenon
<1>9. /\ TaskOK(n, K, h) /\ Answerable(n, K) = K /\ InLog(n, r) = r /\ InCache(n, r) = r
  <2>1. CASE k.own
    <3>1. n = [k EXCEPT !.step = "put"]
      BY <2>1
    <3>2. n \in Tasks /\ n.step = "put" /\ n.vote = v /\ n.own = k.own
      BY <1>1, <1>2, <3>1, AtStep, Zenon
    <3>3. /\ ~Fresh(n, "write") /\ ~Stale(n, "write") /\ ~Fresh(n, "add") /\ ~Stale(n, "add")
      BY <3>2 DEF Fresh, Stale
    <3>4. n.vote \in K
      BY <1>4, <3>2
    <3> QED BY <3>2, <3>3, <3>4, Zenon DEF TaskOK, Answerable, InLog, InCache
  <2>2. CASE ~k.own
    BY <2>2, IdleTask, Zenon
  <2> QED BY <1>3, <2>1, <2>2, Zenon
<1> QED BY <1>1, <1>7, <1>8, <1>9, Zenon DEF NodeOK

\* A stop, and the start that follows.
LEMMA StepRestart ==
  ASSUME NEW k, NEW K, NEW log, NEW buf, NEW h, NEW r \in Int, r <= MaxRepeat,
         NodeOK(k, K, log, buf, h, r)
  PROVE  NodeOK(Idle, K, log, Reload(log), h, r)
<1>1. Sound(K, h) /\ K \in SUBSET Votes /\ LogOK(log, K, InLog(k, r))
  BY Zenon DEF NodeOK, Sound
<1>2. InLog(k, r) \in Int /\ InLog(k, r) <= r
  BY DEF InLog
<1>3. LogOK(log, K, r)
  BY <1>1, <1>2, LogMore, Zenon
<1>4. BufferOK(Reload(log), K, r)
  BY <1>1, <1>3, BufferReload, Zenon
<1> QED BY <1>1, <1>3, <1>4, IdleTask, Zenon DEF NodeOK

----------------------------------------------------------------------------
(* The inductive invariant                                                 *)

\* One node holds the key.
Alone == \A i, j \in Nodes : i = j

\* What a step of the only node has to keep.
LEMMA OneNode ==
  ASSUME Alone, NEW i \in Nodes, highest' \in Nat, repeats' \in 0..MaxRepeat,
         DOMAIN task' = Nodes, DOMAIN known' = Nodes, DOMAIN wal' = Nodes, DOMAIN buffer' = Nodes,
         published' \subseteq known'[i],
         NodeOK(task'[i], known'[i], wal'[i], buffer'[i], highest', repeats')
  PROVE  ManagerInv'
<1>1. ASSUME NEW j \in Nodes
      PROVE  /\ published' \subseteq known'[j]
             /\ NodeOK(task'[j], known'[j], wal'[j], buffer'[j], highest', repeats')
  <2>1. j = i
    BY Zenon DEF Alone
  <2> QED BY <2>1, Zenon
<1> QED BY <1>1, Zenon DEF ManagerInv

\* What the invariant says of a node.
LEMMA NodeNow ==
  ASSUME ManagerInv, NEW i \in Nodes
  PROVE  /\ highest \in Nat /\ repeats \in 0..MaxRepeat
         /\ repeats \in Int /\ repeats <= MaxRepeat
         /\ DOMAIN task = Nodes /\ DOMAIN known = Nodes /\ DOMAIN wal = Nodes
         /\ DOMAIN buffer = Nodes
         /\ published \subseteq known[i]
         /\ NodeOK(task[i], known[i], wal[i], buffer[i], highest, repeats)
<1>1. highest \in Nat /\ repeats \in 0..MaxRepeat
  BY Zenon DEF ManagerInv
<1>2. repeats \in Int /\ repeats <= MaxRepeat
  BY <1>1, Sizes
<1> QED BY <1>1, <1>2, Zenon DEF ManagerInv

\* HandleHead keeps the invariant.
LEMMA InvHead ==
  ASSUME Roomy, Alone, ManagerInv, NEW i \in Nodes, NEW b \in Blocks, NEW able \in BOOLEAN,
         NEW onTime \in BOOLEAN, HandleHead(i, b, able, onTime)
  PROVE  ManagerInv'
<1> DEFINE v == VoteFor(b)
<1>1. v \in Votes /\ v.target = b.number /\ b.number \in Nat
  <2>1. v \in Votes /\ v.target = b.number
    BY DEF Votes, VoteFor
  <2> QED BY <2>1, VoteFacts
<1>2. highest \in Nat /\ MaxReorg \in Nat /\ b.number >= highest - MaxReorg
  BY NodeNow, Sizes DEF HandleHead
<1>3. highest' = Max({highest, b.number})
  BY DEF HandleHead
<1>4. /\ highest' \in Nat /\ highest <= highest' /\ v.target <= highest'
      /\ highest <= v.target + MaxReorg /\ highest' <= v.target + MaxReorg
  <2>1. Max({highest, b.number}) \in {highest, b.number} /\
        \A x \in {highest, b.number} : Max({highest, b.number}) >= x
    BY <1>1, <1>2 DEF Max
  <2> HIDE DEF v
  <2> QED BY <1>1, <1>2, <1>3, <2>1
<1>5. task[i] = Idle
  BY DEF HandleHead
<1>6. wal' = wal /\ published' = published /\ known' = known /\ repeats' = repeats
  BY DEF HandleHead, history
<1>7. \/ buffer' = buffer /\ task' = task
      \/ /\ buffer' = [buffer EXCEPT ![i] = Checked(@, v)]
         /\ task' = IF UnderRules(buffer[i], v) /\ onTime THEN StartWrite(i, v, TRUE) ELSE task
  BY Zenon DEF HandleHead
<1> HIDE DEF v
<1>8. /\ DOMAIN task = Nodes /\ DOMAIN known = Nodes /\ DOMAIN wal = Nodes
      /\ DOMAIN buffer = Nodes /\ repeats \in 0..MaxRepeat /\ repeats \in Int
      /\ published \subseteq known[i]
      /\ NodeOK(Idle, known[i], wal[i], buffer[i], highest, repeats)
  BY <1>5, NodeNow, Zenon
<1>9. CASE buffer' = buffer /\ task' = task
  <2>1. NodeOK(Idle, known[i], wal[i], buffer[i], highest', repeats)
    BY <1>2, <1>4, <1>8, StepHigher, Zenon
  <2>2. NodeOK(task'[i], known'[i], wal'[i], buffer'[i], highest', repeats')
    BY <1>5, <1>6, <1>9, <2>1, Zenon
  <2> QED BY <1>4, <1>6, <1>8, <1>9, <2>2, OneNode, Zenon
<1>10. CASE /\ buffer' = [buffer EXCEPT ![i] = Checked(@, v)]
            /\ task' = IF UnderRules(buffer[i], v) /\ onTime THEN StartWrite(i, v, TRUE) ELSE task
  <2>1. buffer'[i] = Checked(buffer[i], v) /\ DOMAIN buffer' = Nodes
    BY <1>8, <1>10
  <2>2. NodeOK(Idle, known[i], wal[i], buffer'[i], highest, repeats)
    BY <1>1, <1>2, <1>4, <1>8, <2>1, StepChecked, Zenon
  <2>3. NodeOK(Idle, known[i], wal[i], buffer'[i], highest', repeats)
    BY <1>2, <1>4, <2>2, StepHigher, Zenon
  <2>4. CASE UnderRules(buffer[i], v) /\ onTime
    <3>1. task' = StartWrite(i, v, TRUE)
      BY <1>10, <2>4, Zenon
    <3>2. task'[i] = [step |-> "write", vote |-> v, own |-> TRUE] /\ DOMAIN task' = Nodes
      BY <1>8, <3>1 DEF StartWrite
    <3>3. Sound(known[i], highest) /\ Guards(buffer[i], known[i])
      <4>1. Sound(known[i], highest) /\ BufferOK(buffer[i], known[i], repeats)
        BY <1>8, IdleTask, Zenon DEF NodeOK
      <4> QED BY <4>1, IdleGuards, Zenon
    <3>4. v.target \notin Targets(known[i]) /\ \A w \in known[i] : ~Rules!Conflict(v, w)
      BY <1>1, <1>2, <1>4, <2>4, <3>3, PassedIsSafe, Zenon
    <3>5. NodeOK(task'[i], known[i], wal[i], buffer'[i], highest', repeats)
      BY <1>1, <1>4, <2>3, <3>2, <3>4, StepVote, Zenon
    <3> QED BY <1>4, <1>6, <1>8, <2>1, <3>2, <3>5, OneNode, Zenon
  <2>5. CASE ~(UnderRules(buffer[i], v) /\ onTime)
    <3>1. task' = task
      BY <1>10, <2>5, Zenon
    <3>2. NodeOK(task'[i], known[i], wal[i], buffer'[i], highest', repeats)
      BY <1>5, <2>3, <3>1, Zenon
    <3> QED BY <1>4, <1>6, <1>8, <2>1, <3>1, <3>2, OneNode, Zenon
  <2> QED BY <2>4, <2>5, Zenon
<1> QED BY <1>7, <1>9, <1>10, Zenon

\* SyncVote keeps it: the vote is known, as it was published by this node.
LEMMA InvSync ==
  ASSUME Alone, ManagerInv, NEW i \in Nodes, NEW v \in published, SyncVote(i, v)
  PROVE  ManagerInv'
<1>1. /\ task[i] = Idle /\ (v \in known[i] => repeats < MaxRepeat)
      /\ repeats' = (IF v \in known[i] THEN repeats + 1 ELSE repeats)
      /\ task' = StartWrite(i, v, FALSE)
      /\ highest' = highest /\ wal' = wal /\ buffer' = buffer /\ published' = published
      /\ known' = known
  BY DEF SyncVote, chainVars, journal
<1>2. /\ DOMAIN task = Nodes /\ DOMAIN known = Nodes /\ DOMAIN wal = Nodes
      /\ DOMAIN buffer = Nodes /\ repeats \in 0..MaxRepeat /\ repeats \in Int /\ highest \in Nat
      /\ published \subseteq known[i] /\ v \in known[i]
      /\ NodeOK(Idle, known[i], wal[i], buffer[i], highest, repeats)
  BY <1>1, NodeNow, Zenon
<1>3. repeats' = repeats + 1 /\ repeats' \in 0..MaxRepeat
  <2>1. repeats' = repeats + 1 /\ repeats < MaxRepeat
    BY <1>1, <1>2, Zenon
  <2>2. MaxRepeat \in Nat /\ repeats \in 0..MaxRepeat
    BY <1>2, Sizes, Zenon
  <2>3. repeats + 1 \in 0..MaxRepeat
    BY <2>1, <2>2
  <2> QED BY <2>1, <2>3, Zenon
<1>4. task'[i] = [step |-> "write", vote |-> v, own |-> FALSE] /\ DOMAIN task' = Nodes
  BY <1>1, <1>2 DEF StartWrite
<1>5. NodeOK(task'[i], known[i], wal[i], buffer[i], highest, repeats')
  BY <1>2, <1>3, <1>4, StepSync, Zenon
<1> QED BY <1>1, <1>2, <1>3, <1>4, <1>5, OneNode, Zenon

\* JournalWrite keeps it, with and without an error.
LEMMA InvWrite ==
  ASSUME Alone, ManagerInv, NEW i \in Nodes, JournalWrite(i)
  PROVE  ManagerInv'
<1> DEFINE v == task[i].vote
<1>1. /\ task[i].step = "write"
      /\ highest' = highest /\ buffer' = buffer /\ published' = published /\ repeats' = repeats
  BY DEF JournalWrite, chainVars
<1>2. \/ /\ wal' = [wal EXCEPT ![i] = Append(@, v)]
         /\ known' = [known EXCEPT ![i] = @ \cup {v}]
         /\ task' = [task EXCEPT ![i].step = "add"]
      \/ task' = [task EXCEPT ![i] = Idle] /\ wal' = wal /\ known' = known
  BY DEF JournalWrite
<1>3. /\ DOMAIN task = Nodes /\ DOMAIN known = Nodes /\ DOMAIN wal = Nodes
      /\ DOMAIN buffer = Nodes /\ repeats \in 0..MaxRepeat /\ repeats \in Int /\ highest \in Nat
      /\ published \subseteq known[i]
      /\ NodeOK(task[i], known[i], wal[i], buffer[i], highest, repeats)
  BY NodeNow, Zenon
<1>4. CASE /\ wal' = [wal EXCEPT ![i] = Append(@, v)]
           /\ known' = [known EXCEPT ![i] = @ \cup {v}]
           /\ task' = [task EXCEPT ![i].step = "add"]
  <2>1. /\ wal'[i] = Append(wal[i], v) /\ known'[i] = known[i] \cup {v}
        /\ task'[i] = [task[i] EXCEPT !.step = "add"]
        /\ DOMAIN wal' = Nodes /\ DOMAIN known' = Nodes /\ DOMAIN task' = Nodes
    BY <1>3, <1>4
  <2>2. NodeOK(task'[i], known'[i], wal'[i], buffer[i], highest, repeats)
    <3>1. NodeOK([task[i] EXCEPT !.step = "add"], known[i] \cup {task[i].vote},
                 Append(wal[i], task[i].vote), buffer[i], highest, repeats)
      BY <1>1, <1>3, StepWrite, Zenon
    <3> QED BY <2>1, <3>1, Zenon
  <2>3. published \subseteq known'[i]
    BY <1>3, <2>1, Zenon
  <2> QED BY <1>1, <1>3, <2>1, <2>2, <2>3, OneNode, Zenon
<1>5. CASE task' = [task EXCEPT ![i] = Idle] /\ wal' = wal /\ known' = known
  <2>1. task'[i] = Idle /\ DOMAIN task' = Nodes
    BY <1>3, <1>5
  <2>2. ~Fresh(task[i], "add")
    BY <1>1 DEF Fresh
  <2>3. NodeOK(task'[i], known[i], wal[i], buffer[i], highest, repeats)
    BY <1>3, <2>1, <2>2, StepIdle, Zenon
  <2> QED BY <1>1, <1>3, <1>5, <2>1, <2>3, OneNode, Zenon
<1> QED BY <1>2, <1>4, <1>5, Zenon

\* JournalAdd keeps it.
LEMMA InvAdd ==
  ASSUME Alone, ManagerInv, NEW i \in Nodes, JournalAdd(i)
  PROVE  ManagerInv'
<1>1. /\ task[i].step = "add"
      /\ wal' = [wal EXCEPT ![i] = LastOf(@, MaxSize)]
      /\ buffer' = [buffer EXCEPT ![i] = Add(@, task[i].vote)]
      /\ task' = [task EXCEPT ![i] = IF @.own THEN [@ EXCEPT !.step = "put"] ELSE Idle]
      /\ highest' = highest /\ published' = published /\ known' = known /\ repeats' = repeats
  BY DEF JournalAdd, chainVars, history
<1>2. /\ DOMAIN task = Nodes /\ DOMAIN known = Nodes /\ DOMAIN wal = Nodes
      /\ DOMAIN buffer = Nodes /\ repeats \in 0..MaxRepeat /\ repeats \in Int /\ highest \in Nat
      /\ repeats <= MaxRepeat /\ published \subseteq known[i]
      /\ NodeOK(task[i], known[i], wal[i], buffer[i], highest, repeats)
  BY NodeNow, Zenon
<1>3. /\ wal'[i] = LastOf(wal[i], MaxSize) /\ buffer'[i] = Add(buffer[i], task[i].vote)
      /\ task'[i] = IF task[i].own THEN [task[i] EXCEPT !.step = "put"] ELSE Idle
      /\ DOMAIN wal' = Nodes /\ DOMAIN buffer' = Nodes /\ DOMAIN task' = Nodes
  BY <1>1, <1>2
<1>4. NodeOK(task'[i], known[i], wal'[i], buffer'[i], highest, repeats)
  BY <1>1, <1>2, <1>3, StepAdd, Zenon
<1> QED BY <1>1, <1>2, <1>3, <1>4, OneNode, Zenon

\* PutVote keeps it.
LEMMA InvPut ==
  ASSUME Alone, ManagerInv, NEW i \in Nodes, PutVote(i)
  PROVE  ManagerInv' /\ task[i].vote \in known[i]
<1>1. /\ task[i].step = "put" /\ task' = [task EXCEPT ![i] = Idle]
      /\ published' \in {published, published \cup {task[i].vote}}
      /\ highest' = highest /\ wal' = wal /\ buffer' = buffer /\ known' = known
      /\ repeats' = repeats
  BY DEF PutVote, chainVars, journal, history
<1>2. /\ DOMAIN task = Nodes /\ DOMAIN known = Nodes /\ DOMAIN wal = Nodes
      /\ DOMAIN buffer = Nodes /\ repeats \in 0..MaxRepeat /\ repeats \in Int /\ highest \in Nat
      /\ published \subseteq known[i]
      /\ NodeOK(task[i], known[i], wal[i], buffer[i], highest, repeats)
  BY NodeNow, Zenon
<1>3. task[i].vote \in known[i]
  <2>1. TaskOK(task[i], known[i], highest)
    BY <1>2, Zenon DEF NodeOK
  <2> QED BY <1>1, <2>1 DEF TaskOK
<1>4. task'[i] = Idle /\ DOMAIN task' = Nodes /\ published' \subseteq known[i]
  BY <1>1, <1>2, <1>3
<1>5. ~Fresh(task[i], "add")
  BY <1>1 DEF Fresh
<1>6. NodeOK(task'[i], known[i], wal[i], buffer[i], highest, repeats)
  BY <1>2, <1>4, <1>5, StepIdle, Zenon
<1> QED BY <1>1, <1>2, <1>3, <1>4, <1>6, OneNode, Zenon

\* Restart keeps it, at every step of WriteVote.
LEMMA InvRestart ==
  ASSUME Alone, ManagerInv, NEW i \in Nodes, NEW b \in Blocks \cup {Genesis}, Restart(i, b)
  PROVE  ManagerInv'
<1>1. /\ buffer' = [buffer EXCEPT ![i] = Reload(wal[i])]
      /\ task' = [task EXCEPT ![i] = Idle]
      /\ highest' = highest /\ wal' = wal /\ published' = published /\ known' = known
      /\ repeats' = repeats
  BY DEF Restart
<1>2. /\ DOMAIN task = Nodes /\ DOMAIN known = Nodes /\ DOMAIN wal = Nodes
      /\ DOMAIN buffer = Nodes /\ repeats \in 0..MaxRepeat /\ repeats \in Int /\ highest \in Nat
      /\ repeats <= MaxRepeat /\ published \subseteq known[i]
      /\ NodeOK(task[i], known[i], wal[i], buffer[i], highest, repeats)
  BY NodeNow, Zenon
<1>3. /\ task'[i] = Idle /\ buffer'[i] = Reload(wal[i])
      /\ DOMAIN task' = Nodes /\ DOMAIN buffer' = Nodes
  BY <1>1, <1>2
<1>4. NodeOK(task'[i], known[i], wal[i], buffer'[i], highest, repeats)
  BY <1>2, <1>3, StepRestart, Zenon
<1> QED BY <1>1, <1>2, <1>3, <1>4, OneNode, Zenon

\* Nothing that the invariant speaks of changes.
LEMMA InvSame ==
  ASSUME ManagerInv, UNCHANGED <<highest, journal, task, published, known, repeats>>
  PROVE  ManagerInv'
BY DEF ManagerInv, journal

\* The invariant holds at first.
LEMMA ManagerInit ==
  ASSUME Init
  PROVE  ManagerInv
<1>1. /\ highest = 0 /\ repeats = 0 /\ published = {}
      /\ wal = [i \in Nodes |-> <<>>] /\ buffer = [i \in Nodes |-> <<>>]
      /\ task = [i \in Nodes |-> Idle] /\ known = [i \in Nodes |-> {}]
  BY DEF Init
<1>2. <<>> \in Seq(Votes) /\ <<>> \in Seq({}) /\ Len(<<>>) = 0 /\ DOMAIN <<>> = {}
  OBVIOUS
<1>3. Numbers(<<>>) = {} /\ Targets({}) = {}
  BY <1>2, Zenon DEF Numbers, Targets
<1>4. Cardinality({}) = 0 /\ 0 \in Nat /\ 0 <= 0 /\ 0 <= MaxSize /\ 0 \in 0..MaxRepeat
  BY FS_EmptySet, Sizes
<1>5. Sound({}, 0)
  BY DEF Sound
<1>6. LogOK(<<>>, {}, 0)
  <2>1. {} \ {} = {} /\ {} \in SUBSET {}
    OBVIOUS
  <2>2. LogInOrder(<<>>, {}, {}, 0)
    BY <1>2, <1>3, <1>4, <2>1 DEF LogInOrder
  <2> QED BY <1>2, <1>3, <2>1, <2>2, Zenon DEF LogOK
<1>7. BufferOK(<<>>, {}, 0)
  <2>1. CacheOK(<<>>)
    BY <1>2, <1>4, Zenon DEF CacheOK, Distinct
  <2>2. Enough(<<>>, {})
    BY Zenon DEF Enough
  <2>3. {} \ {} = {} /\ {} \in SUBSET (1..MaxNumber)
    OBVIOUS
  <2>4. InOrder(<<>>, {}, {}, 0)
    BY <1>2, <1>3, <1>4, <2>3, Zenon DEF InOrder
  <2> QED BY <1>2, <1>3, <2>1, <2>2, <2>3, <2>4, Zenon DEF BufferOK
<1>8. NodeOK(Idle, {}, <<>>, <<>>, 0, 0)
  BY <1>5, <1>6, <1>7, IdleTask, Zenon DEF NodeOK
<1>9. /\ DOMAIN task = Nodes /\ DOMAIN known = Nodes /\ DOMAIN wal = Nodes /\ DOMAIN buffer = Nodes
      /\ \A i \in Nodes : wal[i] = <<>> /\ buffer[i] = <<>> /\ task[i] = Idle /\ known[i] = {}
  BY <1>1
<1>10. \A i \in Nodes : /\ published \subseteq known[i]
                        /\ NodeOK(task[i], known[i], wal[i], buffer[i], highest, repeats)
  BY <1>1, <1>8, <1>9, Zenon
<1> QED BY <1>1, <1>4, <1>9, <1>10, Zenon DEF ManagerInv

\* Every step keeps the invariant.
LEMMA ManagerNext ==
  ASSUME Roomy, Alone, ManagerInv, [Next]_vars
  PROVE  ManagerInv'
<1>1. ASSUME NEW i \in Nodes, \E b \in Blocks, able, onTime \in BOOLEAN : HandleHead(i, b, able, onTime)
      PROVE  ManagerInv'
  BY <1>1, InvHead, Zenon
<1>2. ASSUME NEW i \in Nodes, \E v \in published : SyncVote(i, v) PROVE ManagerInv'
  BY <1>2, InvSync, Zenon
<1>3. ASSUME NEW i \in Nodes, JournalWrite(i) PROVE ManagerInv'
  BY <1>3, InvWrite, Zenon
<1>4. ASSUME NEW i \in Nodes, JournalAdd(i) PROVE ManagerInv'
  BY <1>4, InvAdd, Zenon
<1>5. ASSUME NEW i \in Nodes, PutVote(i) PROVE ManagerInv'
  BY <1>5, InvPut, Zenon
<1>6. ASSUME NEW i \in Nodes, \E on \in BOOLEAN : SetMining(i, on) PROVE ManagerInv'
  BY <1>6, InvSame DEF SetMining, chainVars, history
<1>7. ASSUME NEW i \in Nodes, Downloader(i) PROVE ManagerInv'
  BY <1>7, InvSame DEF Downloader, chainVars, history
<1>8. ASSUME NEW i \in Nodes, \E b \in Blocks \cup {Genesis} : Restart(i, b) PROVE ManagerInv'
  BY <1>8, InvRestart, Zenon
<1>9. CASE UNCHANGED vars
  BY <1>9, InvSame DEF vars, chainVars, history
<1> QED BY <1>1, <1>2, <1>3, <1>4, <1>5, <1>6, <1>7, <1>8, <1>9, Zenon DEF Next

\* ManagerInvariant: with one node, and a journal with the room that Roomy asks
\* for, ManagerInv holds throughout.
THEOREM ManagerInvariant == Roomy /\ Alone /\ Spec => []ManagerInv
<1>1. Init => ManagerInv
  BY ManagerInit
<1>2. Roomy /\ Alone /\ ManagerInv /\ [Next]_vars => ManagerInv'
  BY ManagerNext
<1>3. (Roomy => Roomy') /\ (Alone => Alone')
  BY DEF Roomy, Alone
<1> QED BY <1>1, <1>2, <1>3, PTL DEF Spec

----------------------------------------------------------------------------
(* What the invariant shows                                                *)

\* A cache that guards the published votes protects them.
LEMMA GuardsProtect ==
  ASSUME Roomy, highest \in Nat, NEW K, Sound(K, highest), published \subseteq K, NEW buf, Guards(buf, K)
  PROVE  Protects(buf)
<1> SUFFICES ASSUME NEW b \in Blocks, b.number >= highest - MaxReorg,
                    NEW w \in published, Rules!Conflict(VoteFor(b), w),
                    UnderRules(buf, VoteFor(b))
             PROVE  FALSE
  BY Zenon DEF Protects
<1> DEFINE v == VoteFor(b)
<1>1. v \in Votes /\ v.target = b.number
  BY DEF Votes, VoteFor
<1>2. b.number \in Nat
  BY <1>1, VoteFacts
<1>3. highest <= v.target + MaxReorg
  BY <1>1, <1>2, Sizes
<1>4. w \in K
  BY Zenon
<1> HIDE DEF v
<1>5. UnderRules(buf, v) /\ Rules!Conflict(v, w)
  BY DEF v
<1> QED BY <1>1, <1>3, <1>4, <1>5, PassedIsSafe, Zenon

\* RestartIsSafe: a node that stops at any moment and reloads its journal
\* refuses every vote that conflicts with one it has published (NewVoteJournal
\* and UnderRules), if no other node holds the key and the journal has room.
THEOREM RestartIsSafe == Roomy /\ Alone /\ Spec => []JournalProtects
<1>1. ASSUME Roomy, ManagerInv PROVE JournalProtects
  <2> SUFFICES ASSUME NEW i \in Nodes PROVE Protects(Reload(wal[i]))
    BY Zenon DEF JournalProtects
  <2>1. /\ highest \in Nat /\ repeats \in Int /\ repeats <= MaxRepeat /\ published \subseteq known[i]
        /\ NodeOK(task[i], known[i], wal[i], buffer[i], highest, repeats)
    BY <1>1, NodeNow, Zenon
  <2>2. NodeOK(Idle, known[i], wal[i], Reload(wal[i]), highest, repeats)
    BY <2>1, StepRestart, Zenon
  <2>3. Sound(known[i], highest) /\ BufferOK(Reload(wal[i]), known[i], repeats)
    BY <2>2, IdleTask, Zenon DEF NodeOK
  <2>4. Guards(Reload(wal[i]), known[i])
    BY <2>3, IdleGuards, Zenon
  <2> QED BY <1>1, <2>1, <2>3, <2>4, GuardsProtect, Zenon
<1>2. Roomy => Roomy'
  BY DEF Roomy
<1> QED BY <1>1, <1>2, ManagerInvariant, PTL

\* A step of the node is a step of VoteRules: the vote it hands to the network
\* agrees with all those before it.
LEMMA PublishesByTheRules ==
  ASSUME ManagerInv, [Next]_vars
  PROVE  [Rules!Next]_published
<1>1. CASE published' = published
  BY <1>1
<1>2. CASE published' # published
  <2>1. PICK i \in Nodes : PutVote(i)
    BY <1>2, Zenon DEF Next, HandleHead, SyncVote, JournalWrite, JournalAdd, SetMining, Downloader,
                Restart, vars
  <2> DEFINE v == task[i].vote
  <2>2. published' = published \cup {v}
    BY <1>2, <2>1 DEF PutVote
  <2>3. /\ published \subseteq known[i]
        /\ NodeOK(task[i], known[i], wal[i], buffer[i], highest, repeats)
    BY NodeNow, Zenon
  <2>4. Sound(known[i], highest) /\ TaskOK(task[i], known[i], highest)
    BY <2>3, Zenon DEF NodeOK
  <2>5. v \in known[i]
    BY <2>1, <2>4 DEF PutVote, TaskOK
  <2>6. v \in Votes /\ \A w \in published : ~Rules!Conflict(v, w)
    BY <2>3, <2>4, <2>5, Zenon DEF Sound
  <2>7. Rules!Publish(v)
    BY <2>2, <2>6, Zenon DEF Rules!Publish
  <2> QED BY <2>6, <2>7, Zenon DEF Rules!Next
<1> QED BY <1>1, <1>2

\* KeyObeysTheRules: the votes a node publishes obey the rules 1 and 2 of
\* UnderRules, through reorganisations, errors of the log, restarts and repeated
\* votes, if no other node holds the key and the journal has room: VoteManager
\* implements VoteRules.
THEOREM KeyObeysTheRules == Roomy /\ Alone /\ Spec => VotesFollowRules
<1>1. Init => Rules!Init
  BY DEF Init, Rules!Init
<1>2. ManagerInv /\ [Next]_vars => [Rules!Next]_published
  BY PublishesByTheRules
<1> QED BY <1>1, <1>2, ManagerInvariant, PTL DEF Spec, VotesFollowRules, Rules!Spec

============================================================================
