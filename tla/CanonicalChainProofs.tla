----------------------- MODULE CanonicalChainProofs -----------------------
(***************************************************************************)
(* Proofs about CanonicalChain for every tree of blocks, all batches and   *)
(* any number of stops, crashes and rewinds.                               *)
(***************************************************************************)
EXTENDS CanonicalChain, BlockTreeProofs

----------------------------------------------------------------------------
(* The inductive invariant.                                                *)

IndexTypeInv ==
  /\ blocks \subseteq Blocks /\ headBlock \in Blocks /\ headHeader \in Blocks /\ 0 \in states
  /\ switch \in [to : Blocks, from : Blocks, base : Blocks, done : SUBSET {"markers", "lookups"}]
  /\ target \in Nat

Marked(b) == \A a \in Branch[b] : Canonical(a)

Switching == pc \in {"apply", "unmark", "head", "cut"}

\* What reorg has written so far is canonical: the branch of base, and the block
\* after it once its markers are written.
SwitchInv ==
  Switching =>
    /\ switch.to # 0
    /\ pc = "head" => switch.base = Parent[switch.to]
    /\ pc \in {"unmark", "cut"} => switch.base \in {switch.to, Parent[switch.to]}
    /\ pc = "unmark" => switch.done = {}
    /\ ~torn => Marked(switch.base)
    /\ ~torn /\ "markers" \in switch.done => \A x \in Blocks : Writing(x) => Marked(x)

IndexInv == IndexTypeInv /\ CanonFollowsHead /\ SwitchInv

----------------------------------------------------------------------------
\* The block with the highest number exists.
LEMMA HighestExists ==
  ASSUME NEW b \in Blocks, NEW S, 0 \in S
  PROVE  /\ Highest(Branch[b] \cap S) \in Branch[b] \cap S
         /\ \A c \in Branch[b] \cap S : Number[c] <= Number[Highest(Branch[b] \cap S)]
<1> DEFINE B == Branch[b] \cap S
           D == {MaxNumber - Number[a] : a \in B}
<1>1. B \subseteq Blocks /\ 0 \in B
  BY BranchIsChain DEF IsChain
<1>2. \A a \in B : Number[a] \in 0..MaxNumber
  BY <1>1, TreeAssumption
<1>3. D \subseteq Nat /\ D # {}
  BY <1>1, <1>2, TreeAssumption
<1>4. PICK n \in D : \A m \in D : n <= m
  BY <1>3, LeastNumber
<1>5. PICK a \in B : n = MaxNumber - Number[a]
  BY <1>4
<1>6. \A c \in B : Number[c] <= Number[a]
  <2> TAKE c \in B
  <2>1. MaxNumber - Number[a] <= MaxNumber - Number[c]
    BY <1>4, <1>5
  <2> QED
    BY <2>1, <1>2, TreeAssumption
<1> HIDE DEF B, D
<1>7. \E x \in B : \A c \in B : Number[c] <= Number[x]
  BY <1>5, <1>6
<1>8. Highest(B) \in B /\ \A c \in B : Number[c] <= Number[Highest(B)]
  BY <1>7 DEF Highest
<1> QED
  BY <1>8 DEF B

\* A part of a marked branch is marked.
LEMMA MarkedPart ==
  ASSUME NEW b \in Blocks, NEW a \in Branch[b], Marked(b)
  PROVE  Marked(a) /\ a \in Blocks /\ Branch[a] \subseteq Branch[b]
BY BranchIsChain DEF IsChain, Marked

\* Hashes that do not concern a branch may change.
LEMMA MarkedStays ==
  ASSUME NEW b \in Blocks, Marked(b),
         \A n \in DOMAIN canon : n <= Number[b] => n \in DOMAIN canon' /\ canon'[n] = canon[n]
  PROVE  Marked(b)'
<1>1. \A a \in Branch[b] : Number[a] <= Number[b]
  BY BranchIsChain DEF IsChain
<1> QED
  BY <1>1 DEF Marked, Canonical

\* Writing the hash of a child of a marked block marks the child.
LEMMA MarkedChild ==
  ASSUME NEW b \in Blocks \ {0}, Marked(Parent[b]),
         canon' = [n \in DOMAIN canon \cup {Number[b]} |-> IF n = Number[b] THEN b ELSE canon[n]]
  PROVE  Marked(b)' /\ Marked(Parent[b])'
<1>1. /\ Parent[b] \in Blocks /\ Number[b] = Number[Parent[b]] + 1
      /\ Branch[b] = Branch[Parent[b]] \cup {b}
      /\ Number[Parent[b]] \in Nat
  BY TreeAssumption
<1>2. \A n \in DOMAIN canon : n <= Number[Parent[b]] => n # Number[b]
  BY <1>1
<1>3. Marked(Parent[b])'
  BY <1>1, <1>2, MarkedStays
<1>4. Canonical(b)'
  BY DEF Canonical
<1> QED
  BY <1>1, <1>3, <1>4 DEF Marked

----------------------------------------------------------------------------
LEMMA IndexInitInv == IndexInit => IndexInv
<1> SUFFICES ASSUME IndexInit PROVE IndexInv
  OBVIOUS
<1>1. IndexTypeInv
  BY TreeAssumption DEF IndexInit, IndexTypeInv, NoSwitch
<1>2. Canonical(0) /\ Branch[0] = {0}
  BY TreeAssumption DEF IndexInit, Canonical
<1>3. CanonFollowsHead
  BY <1>2 DEF IndexInit, CanonFollowsHead
<1> QED
  BY <1>1, <1>3 DEF IndexInit, IndexInv, SwitchInv, Switching

\* A step that leaves hashes and head alone and ends outside of a reorganisation.
LEMMA QuietInv ==
  ASSUME IndexInv, ~Unmarked, UNCHANGED <<canon, headBlock, headHeader>>, torn' = torn,
         pc' \in {"idle", "next", "rewind"}, blocks' \subseteq Blocks, 0 \in states',
         switch' \in {switch, NoSwitch}, target' \in Nat
  PROVE  IndexInv'
<1>1. IndexTypeInv'
  BY TreeAssumption DEF IndexInv, IndexTypeInv, NoSwitch
<1>2. CanonFollowsHead'
  BY DEF IndexInv, CanonFollowsHead, Canonical
<1> QED
  BY <1>1, <1>2 DEF IndexInv, SwitchInv, Switching

\* The head's branch is canonical unless a crash tore it.
LEMMA HeadMarked ==
  ASSUME IndexInv, ~torn, ~Unmarked
  PROVE  Marked(headHeader) /\ Marked(headBlock) /\ headBlock \in Branch[headHeader]
<1>1. Marked(headHeader) /\ headBlock \in Branch[headHeader]
  BY DEF IndexInv, CanonFollowsHead, Marked
<1> QED
  BY <1>1, MarkedPart DEF IndexInv, IndexTypeInv

\* A reorganisation starts from a block that is common and therefore canonical.
LEMMA SwitchToInv ==
  ASSUME IndexInv, pc = "next", NEW b \in Blocks \ {0}, NEW loop, SwitchTo(b, loop),
         UNCHANGED <<canon, headBlock, headHeader, target, torn>>,
         blocks' \subseteq Blocks, 0 \in states'
  PROVE  IndexInv'
<1>1. ~Unmarked /\ ~Unmarked'
  BY DEF Unmarked, SwitchTo
<1>2. /\ switch' = [to |-> b, from |-> headBlock, base |-> switch'.base, done |-> {}]
      /\ switch'.base \in Branch[headBlock]
      /\ pc' = "apply" \/ (pc' = "head" /\ switch'.base = Parent[b])
  <2>1. headBlock \in Blocks /\ headBlock \in Branch[headBlock] /\ 0 \in Branch[b]
    BY BranchIsChain DEF IndexInv, IndexTypeInv, IsChain
  <2>2. Highest(Branch[headBlock] \cap Branch[b]) \in Branch[headBlock]
    BY <2>1, HighestExists
  <2> QED
    BY <2>1, <2>2 DEF SwitchTo
<1>3. Branch[headBlock] \subseteq Blocks
  BY BranchIsChain DEF IndexInv, IndexTypeInv, IsChain
<1>4. IndexTypeInv'
  BY <1>2, <1>3 DEF IndexInv, IndexTypeInv
<1>5. CanonFollowsHead'
  BY <1>1 DEF IndexInv, CanonFollowsHead, Canonical
<1>6. ~torn' => Marked(switch.base)'
  <2> SUFFICES ASSUME ~torn PROVE Marked(switch'.base)
    BY DEF Marked, Canonical
  <2> QED
    BY <1>1, <1>2, HeadMarked, MarkedPart DEF IndexInv, IndexTypeInv
<1> QED
  BY <1>2, <1>4, <1>5, <1>6 DEF IndexInv, SwitchInv

LEMMA ImportInv ==
  ASSUME IndexInv, ImportBlock
  PROVE  IndexInv'
<1>1. PICK b \in Blocks :
        SideDone(b) \/ (b # 0 /\ (SkipKnown(b) \/ WriteKnown(b) \/ Process(b) \/ Reject(b) \/ SideBlock(b)))
  BY DEF ImportBlock
<1>2. pc = "next" /\ ~Unmarked /\ IndexTypeInv
  BY DEF ImportBlock, Unmarked, IndexInv
<1>3. CASE SideDone(b)
  <2>1. pc' \in {"idle", "next"}
    BY <1>2, <1>3 DEF SideDone, Return
  <2> QED
    BY <1>2, <1>3, <2>1, QuietInv DEF SideDone, stored, history, IndexTypeInv
<1>4. CASE SkipKnown(b)
  BY <1>2, <1>4, QuietInv DEF SkipKnown, GoOn, Return, stored, history, IndexTypeInv
<1>5. CASE b # 0 /\ WriteKnown(b)
  BY <1>2, <1>5, SwitchToInv DEF WriteKnown, stored, history, IndexTypeInv
<1>6. CASE b # 0 /\ Process(b)
  <2>1. blocks' \subseteq Blocks /\ 0 \in states'
    BY <1>2, <1>6 DEF Process, WriteBlockWithState, IndexTypeInv
  <2>2. CASE SwitchTo(b, "process")
    BY <1>2, <1>6, <2>1, <2>2, SwitchToInv DEF Process, history
  <2>3. CASE GoOn(b, "process") /\ UNCHANGED switch
    BY <1>2, <1>6, <2>1, <2>3, QuietInv DEF Process, GoOn, Return, history, IndexTypeInv
  <2> QED
    BY <1>6, <2>2, <2>3 DEF Process
<1>7. CASE Reject(b)
  BY <1>2, <1>7, QuietInv DEF Reject, Return, stored, history, IndexTypeInv
<1>8. CASE SideBlock(b)
  <2>1. blocks' \subseteq Blocks
    BY <1>2, <1>8 DEF SideBlock, IndexTypeInv
  <2> QED
    BY <1>2, <1>8, <2>1, QuietInv DEF SideBlock, history, IndexTypeInv
<1> QED
  BY <1>1, <1>3, <1>4, <1>5, <1>6, <1>7, <1>8

----------------------------------------------------------------------------
\* Only one block is written at a time.
LEMMA WritingOne ==
  ASSUME IndexInv, NEW x \in Blocks, NEW y \in Blocks, Writing(x), Writing(y)
  PROVE  x = y
<1>1. CASE pc # "apply"
  BY <1>1 DEF Writing
<1>2. CASE pc = "apply"
  <2>1. /\ x \in Branch[switch.to] \ {0} /\ y \in Branch[switch.to] \ {0}
        /\ Parent[x] = switch.base /\ Parent[y] = switch.base
    BY <1>2 DEF Writing
  <2>2. Number[x] = Number[y]
    BY <2>1, TreeAssumption
  <2> QED
    BY <2>1, <2>2, BranchIsChain DEF IsChain, IndexInv, IndexTypeInv
<1> QED
  BY <1>1, <1>2

\* The block that is written is the child of base; only reorg with an ancestor
\* of the head writes base itself again.
LEMMA WritingChild ==
  ASSUME IndexInv, NEW x \in Blocks, Writing(x)
  PROVE  Switching /\ pc # "unmark" /\ x # 0 /\ (Parent[x] = switch.base \/ (pc = "cut" /\ x = switch.base))
BY DEF Writing, Switching, IndexInv, SwitchInv

LEMMA WriteMarkersInv ==
  ASSUME IndexInv, NEW x \in Blocks, WriteMarkers(x)
  PROVE  IndexInv'
<1>1. /\ Writing(x) /\ headBlock' = x /\ headHeader' = x /\ torn' = torn
      /\ blocks' = blocks /\ states' = states /\ target' = target
      /\ canon' = [n \in DOMAIN canon \cup {Number[x]} |-> IF n = Number[x] THEN x ELSE canon[n]]
  BY DEF WriteMarkers, history
<1>2. Switching /\ pc # "unmark" /\ x # 0 /\ (Parent[x] = switch.base \/ (pc = "cut" /\ x = switch.base))
  BY <1>1, WritingChild
<1>3. ASSUME ~torn PROVE Marked(x)' /\ Marked(switch.base)
                         /\ \A b \in Blocks : b = switch.base => Marked(b)'
  <2>1. Marked(switch.base)
    BY <1>2, <1>3 DEF IndexInv, SwitchInv
  <2>2. CASE Parent[x] = switch.base
    BY <1>1, <1>2, <2>1, <2>2, MarkedChild
  <2>3. CASE x = switch.base
    <3>1. Canonical(x)
      BY <2>1, <2>3, BranchIsChain DEF Marked, IsChain
    <3>2. \A n \in DOMAIN canon : n \in DOMAIN canon' /\ canon'[n] = canon[n]
      BY <1>1, <3>1 DEF Canonical
    <3> QED
      BY <2>1, <2>3, <3>2, MarkedStays
  <2> QED
    BY <1>2, <2>1, <2>2, <2>3
<1>4. x \in Branch[x]
  BY BranchIsChain DEF IsChain
<1>5. CanonFollowsHead'
  BY <1>1, <1>3, <1>4 DEF CanonFollowsHead, Marked
<1>6. CASE switch.done = {}
  <2>1. switch' = [switch EXCEPT !.done = {"markers"}] /\ pc' = pc
    BY <1>6 DEF WriteMarkers, Written
  <2>2. switch'.to = switch.to /\ switch'.base = switch.base /\ switch'.done = {"markers"}
    BY <2>1 DEF IndexInv, IndexTypeInv
  <2>3. IndexTypeInv'
    BY <1>1, <2>1 DEF IndexInv, IndexTypeInv
  <2>4. \A y \in Blocks : Writing(y)' => y = x
    BY <1>1, <2>1, <2>2, WritingOne DEF Writing
  <2>5. ~torn' => Marked(switch.base)' /\ \A y \in Blocks : Writing(y)' => Marked(y)'
    BY <1>1, <1>3, <2>2, <2>4 DEF IndexInv, IndexTypeInv, Marked
  <2> QED
    BY <1>2, <1>5, <2>1, <2>2, <2>3, <2>5 DEF IndexInv, SwitchInv, Switching
<1>7. CASE switch.done # {} /\ pc = "apply"
  <2>1. pc' = "apply" /\ switch' = [switch EXCEPT !.base = x, !.done = {}]
    BY <1>7 DEF WriteMarkers, Written
  <2>2. IndexTypeInv' /\ switch'.to = switch.to /\ switch'.base = x /\ switch'.done = {}
    BY <1>1, <2>1 DEF IndexInv, IndexTypeInv
  <2> QED
    BY <1>1, <1>2, <1>3, <1>5, <2>1, <2>2 DEF IndexInv, SwitchInv, Switching
<1>8. CASE switch.done # {} /\ pc # "apply"
  <2>1. pc' \in {"idle", "next"} /\ switch' = NoSwitch
    BY <1>8 DEF WriteMarkers, Written, GoOn, Return
  <2>2. IndexTypeInv'
    BY <1>1, <2>1, TreeAssumption DEF IndexInv, IndexTypeInv, NoSwitch
  <2> QED
    BY <1>5, <2>1, <2>2 DEF IndexInv, SwitchInv, Switching
<1> QED
  BY <1>6, <1>7, <1>8

LEMMA WriteLookupsInv ==
  ASSUME IndexInv, NEW x \in Blocks, WriteLookups(x)
  PROVE  IndexInv'
<1>1. /\ Writing(x) /\ UNCHANGED <<canon, headBlock, headHeader, blocks, states, target>>
      /\ torn' = torn /\ "lookups" \notin switch.done
  BY DEF WriteLookups, history
<1>2. Switching /\ x # 0
  BY <1>1, WritingChild
<1>3. CASE switch.done = {}
  <2>1. switch' = [switch EXCEPT !.done = {"lookups"}] /\ pc' = pc
    BY <1>3 DEF WriteLookups, Written
  <2>2. switch'.to = switch.to /\ switch'.base = switch.base /\ switch'.done = {"lookups"}
    BY <2>1 DEF IndexInv, IndexTypeInv
  <2>3. IndexTypeInv'
    BY <1>1, <2>1 DEF IndexInv, IndexTypeInv
  <2>4. CanonFollowsHead'
    BY <1>1, <1>3, <2>1, <2>2 DEF IndexInv, CanonFollowsHead, Canonical, Unmarked
  <2>5. SwitchInv'
    BY <1>1, <1>2, <2>1, <2>2, <1>3 DEF IndexInv, SwitchInv, Switching, Marked, Canonical, Writing
  <2> QED
    BY <2>3, <2>4, <2>5 DEF IndexInv
<1>4. CASE switch.done # {}
  <2>1. "markers" \in switch.done /\ ~Unmarked
    BY <1>1, <1>4 DEF IndexInv, IndexTypeInv, Unmarked
  <2>2. CASE pc = "apply"
    <3>1. pc' = "apply" /\ switch' = [switch EXCEPT !.base = x, !.done = {}]
      BY <1>4, <2>2 DEF WriteLookups, Written
    <3>2. IndexTypeInv' /\ switch'.to = switch.to /\ switch'.base = x /\ switch'.done = {}
      BY <1>1, <3>1 DEF IndexInv, IndexTypeInv
    <3>3. CanonFollowsHead'
      BY <1>1, <2>1, <3>1 DEF IndexInv, CanonFollowsHead, Canonical
    <3>4. ~torn => Marked(x)
      BY <1>1, <1>2, <2>1 DEF IndexInv, SwitchInv
    <3> QED
      BY <1>1, <1>2, <3>1, <3>2, <3>3, <3>4 DEF IndexInv, SwitchInv, Switching, Marked, Canonical
  <2>3. CASE pc # "apply"
    <3>1. pc' \in {"idle", "next"} /\ switch' = NoSwitch
      BY <1>4, <2>3 DEF WriteLookups, Written, GoOn, Return
    <3> QED
      BY <1>1, <2>1, <3>1, QuietInv DEF IndexInv, IndexTypeInv
  <2> QED
    BY <2>2, <2>3
<1> QED
  BY <1>3, <1>4

LEMMA DeleteLookupsInv ==
  ASSUME IndexInv, DeleteLookups
  PROVE  IndexInv'
<1>1. /\ UNCHANGED <<canon, headBlock, headHeader, blocks, states, target, switch>> /\ torn' = torn
      /\ pc = "apply" /\ pc' = "unmark" /\ switch.done = {}
      /\ switch.base \in {switch.to, Parent[switch.to]}
  BY DEF DeleteLookups, history
<1>2. IndexTypeInv'
  BY <1>1 DEF IndexInv, IndexTypeInv
<1>3. CanonFollowsHead'
  BY <1>1 DEF IndexInv, CanonFollowsHead, Canonical, Unmarked
<1>4. SwitchInv'
  BY <1>1 DEF IndexInv, SwitchInv, Switching, Marked, Canonical
<1> QED
  BY <1>2, <1>3, <1>4 DEF IndexInv

LEMMA DeleteMarkersInv ==
  ASSUME IndexInv, DeleteMarkers
  PROVE  IndexInv'
<1>1. /\ UNCHANGED <<headBlock, headHeader, blocks, states, target, switch>> /\ torn' = torn
      /\ pc = "unmark" /\ pc' = "cut"
  BY DEF DeleteMarkers, history
<1>2. switch.done = {} /\ switch.base \in Blocks /\ ~Unmarked
  BY <1>1 DEF IndexInv, IndexTypeInv, SwitchInv, Switching, Unmarked
<1>3. \A n \in DOMAIN canon : n <= Number[switch.base] => n \in DOMAIN canon' /\ canon'[n] = canon[n]
  BY DEF DeleteMarkers, Keep
<1>4. ASSUME ~torn PROVE Marked(switch.base)'
  <2>1. Marked(switch.base)
    BY <1>1, <1>4 DEF IndexInv, SwitchInv, Switching
  <2>2. \A b \in Blocks : b = switch.base => Marked(b)'
    BY <1>3, <2>1, MarkedStays
  <2> QED
    BY <1>1, <1>2, <2>2 DEF Marked
<1>5. IndexTypeInv'
  BY <1>1 DEF IndexInv, IndexTypeInv
<1>6. CanonFollowsHead'
  <2> SUFFICES ASSUME ~torn', ~Unmarked'
               PROVE  headBlock' \in Branch[headHeader'] /\ \A b \in Branch[headHeader'] : Canonical(b)'
    BY DEF CanonFollowsHead
  <2>1. headHeader' = switch'.base
    BY <1>1, <1>2 DEF Unmarked
  <2> QED
    BY <1>1, <1>2, <1>4, <2>1, HeadMarked DEF Marked
<1>7. SwitchInv'
  BY <1>1, <1>2, <1>4 DEF IndexInv, SwitchInv, Switching
<1> QED
  BY <1>5, <1>6, <1>7 DEF IndexInv

LEMMA RewindHeaderInv ==
  ASSUME IndexInv, RewindHeader
  PROVE  IndexInv'
<1> DEFINE p == Parent[headHeader]
<1>1. /\ UNCHANGED <<canon, blocks, states, working>> /\ torn' = torn
      /\ pc = "rewind" /\ Number[headHeader] > target /\ headHeader' = p
      /\ headBlock' = IF Number[p] <= Number[headBlock] THEN RewindHead(p, states \cup tries) ELSE headBlock
  BY DEF RewindHeader, history
<1>2. /\ headHeader # 0 /\ p \in Blocks /\ Branch[headHeader] = Branch[p] \cup {headHeader}
      /\ Number[headHeader] = Number[p] + 1 /\ Number[p] \in Nat
  BY <1>1, TreeAssumption DEF IndexInv, IndexTypeInv
<1> HIDE DEF p
<1>3. RewindHead(p, states \cup tries) \in Branch[p] /\ Branch[p] \subseteq Blocks
  BY <1>2, HighestExists, BranchIsChain DEF RewindHead, IsChain, IndexInv, IndexTypeInv
<1>4. IndexTypeInv'
  BY <1>1, <1>2, <1>3 DEF IndexInv, IndexTypeInv, working
<1>5. ASSUME ~torn PROVE headBlock' \in Branch[p] /\ Marked(p)
  <2>1. Marked(headHeader) /\ headBlock \in Branch[headHeader]
    BY <1>1, <1>5, HeadMarked DEF Unmarked
  <2>2. headBlock' \in Branch[p]
    BY <1>1, <1>2, <1>3, <2>1
  <2> QED
    BY <1>2, <2>1, <2>2 DEF Marked
<1>6. CanonFollowsHead'
  BY <1>1, <1>5 DEF CanonFollowsHead, Marked, Canonical
<1> QED
  BY <1>1, <1>4, <1>6 DEF IndexInv, SwitchInv, Switching, working

LEMMA DeleteAboveInv ==
  ASSUME IndexInv, DeleteAbove
  PROVE  IndexInv'
<1>1. /\ UNCHANGED <<headBlock, headHeader, states, switch>> /\ torn' = torn
      /\ pc = "rewind" /\ pc' = "idle" /\ target' = 0 /\ blocks' \subseteq blocks
      /\ Number[headHeader] <= target
  BY DEF DeleteAbove, history
<1>2. \A b \in Branch[headHeader] : Number[b] \in 0..target
  BY <1>1, BranchIsChain, TreeAssumption DEF IndexInv, IndexTypeInv, IsChain
<1>3. \A b \in Branch[headHeader] : Canonical(b) => Canonical(b)'
  BY <1>2 DEF DeleteAbove, Keep, Canonical
<1>4. CanonFollowsHead'
  BY <1>1, <1>3 DEF IndexInv, CanonFollowsHead, Unmarked
<1>5. IndexTypeInv'
  BY <1>1 DEF IndexInv, IndexTypeInv
<1> QED
  BY <1>1, <1>4, <1>5 DEF IndexInv, SwitchInv, Switching

\* A start takes the head block back along its branch.
LEMMA StartInv ==
  ASSUME IndexInv, 0 \in states', Start(states'), torn \/ Unmarked => torn'
  PROVE  IndexInv'
<1>1. /\ headBlock' = RewindHead(headBlock, states') /\ UNCHANGED <<blocks, canon, headHeader>>
      /\ pc' = "idle" /\ switch' = NoSwitch /\ target' = 0
  BY DEF Start
<1>2. headBlock' \in Branch[headBlock] /\ Branch[headBlock] \subseteq Blocks
  BY <1>1, HighestExists, BranchIsChain DEF RewindHead, IsChain, IndexInv, IndexTypeInv
<1>3. IndexTypeInv'
  BY <1>1, <1>2, TreeAssumption DEF IndexInv, IndexTypeInv, NoSwitch
<1>4. ASSUME ~torn' PROVE headBlock' \in Branch[headHeader] /\ Marked(headHeader)
  <2>1. Marked(headHeader) /\ headBlock \in Branch[headHeader]
    BY <1>4, HeadMarked
  <2> QED
    BY <1>2, <2>1, MarkedPart DEF IndexInv, IndexTypeInv
<1>5. CanonFollowsHead'
  BY <1>1, <1>4 DEF CanonFollowsHead, Marked, Canonical
<1> QED
  BY <1>1, <1>3, <1>5 DEF IndexInv, SwitchInv, Switching

LEMMA IndexStepInv == IndexInv /\ [IndexNext]_indexVars => IndexInv'
<1> SUFFICES ASSUME IndexInv, [IndexNext]_indexVars PROVE IndexInv'
  OBVIOUS
<1>1. ASSUME NEW s \in Batches, InsertChain(s[1], s[2]) PROVE IndexInv'
  BY <1>1, QuietInv DEF InsertChain, Unmarked, stored, history, IndexInv, IndexTypeInv
<1>2. CASE ImportBlock
  BY <1>2, ImportInv
<1>3. CASE Reorg
  BY <1>3, DeleteLookupsInv, DeleteMarkersInv, WriteMarkersInv, WriteLookupsInv DEF Reorg
<1>4. CASE Rewind
  BY <1>4, RewindHeaderInv, DeleteAboveInv DEF Rewind
<1>5. ASSUME NEW n \in 0..MaxNumber, SetHead(n) PROVE IndexInv'
  BY <1>5, QuietInv DEF SetHead, Unmarked, stored, IndexInv, IndexTypeInv
<1>6. CASE Stop
  <2>1. 0 \in states' /\ (torn \/ Unmarked => torn')
    BY <1>6 DEF Stop, Unmarked, IndexInv, IndexTypeInv
  <2> QED
    BY <1>6, <2>1, StartInv DEF Stop
<1>7. CASE Crash
  <2>1. states' = states /\ 0 \in states' /\ (torn \/ Unmarked => torn')
    BY <1>7 DEF Crash, IndexInv, IndexTypeInv
  <2> QED
    BY <1>7, <2>1, StartInv DEF Crash
<1>8. CASE UNCHANGED indexVars
  <2>1. UNCHANGED <<canon, headBlock, headHeader, blocks, states, switch, target, pc, torn>>
    BY <1>8 DEF indexVars, stored, working, history
  <2> QED
    BY <2>1 DEF IndexInv, IndexTypeInv, CanonFollowsHead, Canonical, Unmarked,
                SwitchInv, Switching, Marked, Writing
<1> QED
  BY <1>1, <1>2, <1>3, <1>4, <1>5, <1>6, <1>7, <1>8 DEF IndexNext

\* CanonMatchesHead: for every tree of blocks, all batches and any number of stops,
\* crashes and calls of SetHead, the canonical hashes follow the head: what reorg,
\* writeHeadBlock, setHead and the repair at the start write between them never
\* leaves a head with a branch that is not canonical, except by a crash between
\* reorg's deletion of hashes and the write of the new head.
THEOREM CanonMatchesHead == IndexSpec => []CanonFollowsHead
<1>1. IndexInv => CanonFollowsHead
  BY DEF IndexInv
<1> QED
  BY <1>1, IndexInitInv, IndexStepInv, PTL DEF IndexSpec

----------------------------------------------------------------------------
(* Stored blocks.                                                          *)

\* Hashes name blocks of their number; a reorganisation is about stored blocks.
StoredInv ==
  /\ 0 \in blocks
  /\ DOMAIN canon \subseteq Nat /\ \A n \in DOMAIN canon : canon[n] \in Blocks /\ Number[canon[n]] = n
  /\ Switching => switch.to \in blocks
  /\ NothingMissing

\* With a block all of its branch is stored.
LEMMA BranchStored ==
  ASSUME blocks \subseteq Blocks, 0 \in blocks, \A b \in blocks \ {0} : Parent[b] \in blocks
  PROVE  \A b \in blocks : Branch[b] \subseteq blocks
<1> DEFINE S == {Number[b] : b \in {c \in blocks : ~(Branch[c] \subseteq blocks)}}
<1> SUFFICES ASSUME S # {} PROVE FALSE
  OBVIOUS
<1>1. S \subseteq Nat
  BY TreeAssumption
<1>2. PICK n \in S : \A m \in S : n <= m
  BY <1>1, LeastNumber
<1>3. PICK b \in blocks : ~(Branch[b] \subseteq blocks) /\ Number[b] = n
  BY <1>2
<1>4. b # 0
  BY <1>3, TreeAssumption
<1>5. /\ Parent[b] \in blocks /\ Number[b] = Number[Parent[b]] + 1 /\ Number[Parent[b]] \in Nat
      /\ Branch[b] = Branch[Parent[b]] \cup {b}
  BY <1>4, TreeAssumption
<1>6. ~(Branch[Parent[b]] \subseteq blocks)
  BY <1>3, <1>5
<1>7. Number[Parent[b]] \in S
  BY <1>5, <1>6
<1> HIDE DEF S
<1> QED
  BY <1>2, <1>3, <1>5, <1>7

\* Numbers without a gap begin at 0.
LEMMA NoGap ==
  ASSUME NEW D, D \subseteq Nat, \A k \in D : k > 0 => k - 1 \in D, NEW n \in D, NEW m \in 0..n
  PROVE  m \in D
<1> DEFINE S == {k \in D : k >= m}
<1>0. n \in Nat /\ m \in Nat /\ n >= m
  OBVIOUS
<1>1. S \subseteq Nat /\ n \in S
  BY <1>0
<1>2. PICK k \in S : \A l \in S : k <= l
  BY <1>1, LeastNumber
<1>3. CASE k = m
  BY <1>3
<1>4. CASE k > m
  <2>1. k - 1 \in D /\ k - 1 >= m
    BY <1>4
  <2>2. k - 1 \in S
    BY <2>1
  <2> HIDE DEF S
  <2> QED
    BY <1>1, <1>2, <2>2
<1> QED
  BY <1>2, <1>3, <1>4

\* A step that leaves the hashes alone and stores at most blocks with a parent.
LEMMA StoredQuiet ==
  ASSUME StoredInv, blocks \subseteq blocks', \A b \in blocks' \ blocks : Parent[b] \in blocks,
         canon' = canon, torn => torn', Switching' => switch'.to \in blocks'
  PROVE  StoredInv'
BY DEF StoredInv, NothingMissing

LEMMA ImportStored ==
  ASSUME IndexInv, StoredInv, ImportBlock
  PROVE  StoredInv'
<1>1. PICK b \in Blocks :
        SideDone(b) \/ (b # 0 /\ (SkipKnown(b) \/ WriteKnown(b) \/ Process(b) \/ Reject(b) \/ SideBlock(b)))
  BY DEF ImportBlock
<1>2. pc = "next"
  BY DEF ImportBlock
<1>3. CASE SideDone(b) \/ SkipKnown(b) \/ Reject(b)
  <2>1. blocks' = blocks /\ canon' = canon /\ torn' = torn
    BY <1>3 DEF SideDone, SkipKnown, Reject, stored, history
  <2>2. ~Switching'
    BY <1>2, <1>3 DEF SideDone, SkipKnown, Reject, Return, GoOn, Switching
  <2> QED
    BY <2>1, <2>2, StoredQuiet
<1>4. CASE WriteKnown(b)
  <2>1. blocks' = blocks /\ canon' = canon /\ torn' = torn /\ b \in blocks
    BY <1>4 DEF WriteKnown, Known, stored, history
  <2>2. switch'.to = b
    BY <1>4 DEF WriteKnown, SwitchTo
  <2> QED
    BY <2>1, <2>2, StoredQuiet
<1>5. CASE Process(b)
  <2>1. blocks' = blocks \cup {b} /\ canon' = canon /\ torn' = torn /\ Parent[b] \in blocks
    BY <1>5 DEF Process, WriteBlockWithState, Ready, history
  <2>2. Switching' => switch'.to = b
    BY <1>2, <1>5 DEF Process, SwitchTo, GoOn, Return, Switching
  <2> QED
    BY <2>1, <2>2, StoredQuiet
<1>6. CASE SideBlock(b)
  <2>1. blocks' \in {blocks, blocks \cup {b}} /\ canon' = canon /\ torn' = torn /\ Parent[b] \in blocks
    BY <1>6 DEF SideBlock, Pruned, history
  <2>2. ~Switching'
    BY <1>2, <1>6 DEF SideBlock, Switching
  <2> QED
    BY <2>1, <2>2, StoredQuiet
<1> QED
  BY <1>1, <1>3, <1>4, <1>5, <1>6

\* A hash is written for a stored block, after that of its parent.
LEMMA WriteMarkersStored ==
  ASSUME IndexInv, StoredInv, NEW x \in Blocks, WriteMarkers(x)
  PROVE  StoredInv'
<1>1. /\ Writing(x) /\ torn' = torn /\ blocks' = blocks
      /\ canon' = [n \in DOMAIN canon \cup {Number[x]} |-> IF n = Number[x] THEN x ELSE canon[n]]
  BY DEF WriteMarkers, history
<1>2. Switching /\ x # 0 /\ (Parent[x] = switch.base \/ x = switch.base)
  BY <1>1, WritingChild
<1>3. x \in blocks
  <2>1. x \in Branch[switch.to]
    BY <1>1, BranchIsChain DEF Writing, IsChain, IndexInv, IndexTypeInv
  <2> QED
    BY <1>2, <2>1, BranchStored DEF StoredInv, NothingMissing, IndexInv, IndexTypeInv
<1>4. Number[x] \in Nat \ {0}
  BY <1>2, TreeAssumption
<1>5. ASSUME ~torn PROVE Number[x] - 1 \in DOMAIN canon
  <2>1. Marked(switch.base)
    BY <1>2, <1>5 DEF IndexInv, SwitchInv
  <2>2. Parent[x] \in Branch[switch.base] /\ Number[x] = Number[Parent[x]] + 1 /\ Number[Parent[x]] \in Nat
    BY <1>2, TreeAssumption, BranchIsChain DEF IsChain
  <2> QED
    BY <2>1, <2>2 DEF Marked, Canonical
<1>6. Switching' => switch'.to = switch.to
  BY <1>2 DEF WriteMarkers, Written, GoOn, Return, Switching, IndexInv, IndexTypeInv
<1>7. NothingMissing'
  BY <1>1, <1>3, <1>4, <1>5 DEF StoredInv, NothingMissing
<1> QED
  BY <1>1, <1>2, <1>4, <1>6, <1>7 DEF StoredInv

\* Without gaps above base, reorg deletes all that is above it.
LEMMA DeleteMarkersStored ==
  ASSUME IndexInv, StoredInv, DeleteMarkers
  PROVE  StoredInv'
<1> DEFINE n == Number[switch.base]
           K == {m \in DOMAIN canon : m <= n \/ \E k \in (n + 1)..m : k \notin DOMAIN canon}
<1>1. /\ UNCHANGED <<blocks, switch>> /\ torn' = torn /\ pc = "unmark" /\ canon' = Keep(canon, K)
      /\ n \in Nat
  BY TreeAssumption DEF DeleteMarkers, history, IndexInv, IndexTypeInv
<1>2. DOMAIN canon' = K /\ \A m \in K : canon'[m] = canon[m]
  BY <1>1 DEF Keep
<1>3. ASSUME ~torn PROVE \A m \in K : m <= n
  <2> SUFFICES ASSUME NEW m \in K, NEW k \in (n + 1)..m, k \notin DOMAIN canon PROVE FALSE
    OBVIOUS
  <2>1. m \in Nat /\ k \in 0..m
    BY <1>1 DEF StoredInv
  <2>2. \A l \in DOMAIN canon : l > 0 => l - 1 \in DOMAIN canon
    BY <1>3 DEF StoredInv, NothingMissing
  <2> QED
    BY <2>1, <2>2, NoGap DEF StoredInv
<1>4. \A m \in DOMAIN canon : m <= n => m \in K
  OBVIOUS
<1>5. K \subseteq DOMAIN canon
  OBVIOUS
<1> HIDE DEF K, n
<1>6. NothingMissing'
  <2> SUFFICES ASSUME ~torn, NEW m \in K
               PROVE  canon[m] \in blocks /\ (m > 0 => m - 1 \in K)
    BY <1>1, <1>2 DEF StoredInv, NothingMissing
  <2>1. m \in DOMAIN canon /\ m \in Nat /\ m <= n
    BY <1>3, <1>5 DEF StoredInv
  <2> QED
    BY <1>1, <1>4, <2>1 DEF StoredInv, NothingMissing
<1> QED
  BY <1>1, <1>2, <1>5, <1>6 DEF StoredInv, Switching

\* SetHead deletes above one number only.
LEMMA DeleteAboveStored ==
  ASSUME IndexInv, StoredInv, DeleteAbove
  PROVE  StoredInv'
<1>1. /\ torn' = torn /\ pc' = "idle" /\ blocks' = {b \in blocks : Number[b] <= target}
      /\ canon' = Keep(canon, 0..target) /\ target \in Nat
  BY DEF DeleteAbove, history, IndexInv, IndexTypeInv
<1>2. DOMAIN canon' = DOMAIN canon \cap 0..target /\ \A m \in DOMAIN canon' : canon'[m] = canon[m]
  BY <1>1 DEF Keep
<1>3. 0 \in blocks' /\ ~Switching'
  BY <1>1, TreeAssumption DEF StoredInv, Switching
<1>4. ASSUME NEW b \in blocks' \ {0} PROVE Parent[b] \in blocks'
  <2>1. b \in blocks \ {0} /\ Number[b] <= target /\ b \in Blocks
    BY <1>1 DEF IndexInv, IndexTypeInv
  <2>2. Number[b] = Number[Parent[b]] + 1 /\ Number[Parent[b]] \in Nat /\ Parent[b] \in blocks
    BY <2>1, TreeAssumption DEF StoredInv, NothingMissing
  <2> QED
    BY <1>1, <2>1, <2>2
<1>5. ASSUME ~torn, NEW m \in DOMAIN canon'
      PROVE  canon'[m] \in blocks' /\ (m > 0 => m - 1 \in DOMAIN canon')
  BY <1>1, <1>2, <1>5 DEF StoredInv, NothingMissing
<1>6. NothingMissing'
  BY <1>1, <1>4, <1>5 DEF NothingMissing
<1> QED
  BY <1>2, <1>3, <1>6 DEF StoredInv

LEMMA StoredStep == IndexInv /\ StoredInv /\ [IndexNext]_indexVars => StoredInv'
<1> SUFFICES ASSUME IndexInv, StoredInv, [IndexNext]_indexVars PROVE StoredInv'
  OBVIOUS
<1>1. CASE ImportBlock
  BY <1>1, ImportStored
<1>2. CASE DeleteLookups \/ \E x \in Blocks : WriteLookups(x)
  <2>1. blocks' = blocks /\ canon' = canon /\ torn' = torn
    BY <1>2 DEF DeleteLookups, WriteLookups, history
  <2>2. Switching' => Switching /\ switch'.to = switch.to
    <3>1. CASE DeleteLookups
      BY <3>1 DEF DeleteLookups, Switching
    <3>2. ASSUME NEW x \in Blocks, WriteLookups(x), Switching' PROVE Switching /\ switch'.to = switch.to
      <4>1. Switching
        BY <3>2, WritingChild DEF WriteLookups
      <4> QED
        BY <3>2, <4>1 DEF WriteLookups, Written, GoOn, Return, Switching, IndexInv, IndexTypeInv
    <3> QED
      BY <1>2, <3>1, <3>2
  <2> QED
    BY <2>1, <2>2, StoredQuiet DEF StoredInv
<1>3. CASE DeleteMarkers
  BY <1>3, DeleteMarkersStored
<1>4. ASSUME NEW x \in Blocks, WriteMarkers(x) PROVE StoredInv'
  BY <1>4, WriteMarkersStored
<1>5. CASE DeleteAbove
  BY <1>5, DeleteAboveStored
<1>6. CASE RewindHeader \/ (\E s \in Batches : InsertChain(s[1], s[2])) \/ (\E n \in 0..MaxNumber : SetHead(n))
  <2>1. blocks' = blocks /\ canon' = canon /\ torn' = torn /\ ~Switching'
    BY <1>6 DEF RewindHeader, InsertChain, SetHead, stored, working, history, Switching
  <2> QED
    BY <2>1, StoredQuiet
<1>7. CASE Stop \/ Crash
  <2>1. blocks' = blocks /\ canon' = canon /\ ~Switching'
    BY <1>7 DEF Stop, Crash, Start, Switching
  <2>2. torn => torn'
    BY <1>7, Zenon DEF Stop, Crash
  <2> QED
    BY <2>1, <2>2, StoredQuiet
<1>8. CASE UNCHANGED indexVars
  <2>1. UNCHANGED <<blocks, canon, torn, pc, switch>>
    BY <1>8 DEF indexVars, stored, working, history
  <2> QED
    BY <2>1, StoredQuiet DEF StoredInv, Switching
<1> QED
  BY <1>1, <1>2, <1>3, <1>4, <1>5, <1>6, <1>7, <1>8 DEF IndexNext, Reorg, Rewind

\* NothingGoesMissing: for every tree of blocks, all batches and any number of
\* stops, crashes and calls of SetHead, a stored block has its parent, and the
\* canonical hashes, those above the head included, name stored blocks without a
\* gap: what the loops of reorg and setHead (core/blockchain.go, headerchain.go)
\* take for granted when they stop at the first number without a hash.
THEOREM NothingGoesMissing == IndexSpec => []NothingMissing
<1>1. IndexInit => IndexInv /\ StoredInv
  <2>1. IndexInit => StoredInv
    BY TreeAssumption DEF IndexInit, StoredInv, NothingMissing, Switching
  <2> QED
    BY <2>1, IndexInitInv
<1>2. StoredInv => NothingMissing
  BY DEF StoredInv
<1> QED
  BY <1>1, <1>2, IndexStepInv, StoredStep, PTL DEF IndexSpec

----------------------------------------------------------------------------
(* The state of the head.                                                  *)

\* The head has its state, except while reorg writes the blocks on the way to a
\* head that has one.
HeadInv ==
  /\ ~Switching => HasState(headBlock)
  /\ Switching => HasState(switch.to)
  /\ pc \in {"head", "cut"} /\ "markers" \in switch.done => headBlock = switch.to

\* A step that leaves the head and all states, and is not about a new head.
LEMMA HeadQuiet ==
  ASSUME HeadInv, ~Switching, ~Switching', UNCHANGED <<headBlock, states, tries>>
  PROVE  HeadInv'
BY DEF HeadInv, HasState, Switching

\* The trie of a new block is in memory, and the head's one stays.
LEMMA TriesKept ==
  ASSUME NEW b \in Blocks, WriteBlockWithState(b)
  PROVE  /\ HasState(b)'
         /\ \A c \in Blocks : HasState(c) /\ Number[b] < Number[c] + TriesInMemory => HasState(c)'
<1>1. Number[b] \in Nat /\ TriesInMemory \in Nat \ {0} /\ \A c \in Blocks : Number[c] \in Nat
  BY TreeAssumption, ChainAssumption
<1>2. CASE Number[b] - TriesInMemory <= 0
  BY <1>2 DEF WriteBlockWithState, HasState
<1>3. CASE ~(Number[b] - TriesInMemory <= 0)
  <2>1. PICK flushed : /\ states' = states \cup flushed
                       /\ tries' = {c \in (tries \cup {b}) \ flushed : Number[c] > Number[b] - TriesInMemory}
    BY <1>3 DEF WriteBlockWithState
  <2>2. \A c \in Blocks : /\ c \in states \cup tries \cup {b}
                          /\ Number[b] < Number[c] + TriesInMemory
                          => c \in states' \cup tries'
    BY <1>1, <2>1
  <2> QED
    BY <1>1, <2>2 DEF HasState
<1> QED
  BY <1>2, <1>3

\* insertChain drops no state of a head that stays, if the tree lets it.
LEMMA ImportHead ==
  ASSUME SidesFit, IndexInv, HeadInv, ImportBlock
  PROVE  HeadInv'
<1>1. PICK b \in Blocks :
        SideDone(b) \/ (b # 0 /\ (SkipKnown(b) \/ WriteKnown(b) \/ Process(b) \/ Reject(b) \/ SideBlock(b)))
  BY DEF ImportBlock
<1>2. pc = "next" /\ ~Switching
  BY DEF ImportBlock, Switching
<1>3. CASE SideDone(b) \/ SkipKnown(b) \/ Reject(b) \/ SideBlock(b)
  <2>1. UNCHANGED <<headBlock, states, tries>>
    BY <1>3 DEF SideDone, SkipKnown, Reject, SideBlock, stored
  <2>2. ~Switching'
    BY <1>2, <1>3 DEF SideDone, SkipKnown, Reject, SideBlock, Return, GoOn, Switching
  <2> QED
    BY <1>2, <2>1, <2>2, HeadQuiet
<1>4. CASE WriteKnown(b)
  <2>1. UNCHANGED <<states, tries>> /\ HasState(b)
    BY <1>4 DEF WriteKnown, Known, stored
  <2>2. switch'.to = b /\ switch'.done = {} /\ Switching'
    BY <1>4 DEF WriteKnown, SwitchTo, Switching
  <2> QED
    BY <2>1, <2>2 DEF HeadInv, HasState
<1>5. CASE Process(b)
  <2>1. UNCHANGED headBlock /\ WriteBlockWithState(b)
    BY <1>5 DEF Process
  <2>2. CASE SwitchTo(b, "process")
    <3>1. switch'.to = b /\ switch'.done = {} /\ Switching'
      BY <2>2 DEF SwitchTo, Switching
    <3> QED
      BY <2>1, <3>1, TriesKept DEF HeadInv, HasState
  <2>3. CASE ~SwitchTo(b, "process")
    <3>1. PICK reorg \in Better(headBlock, b) :
            IF reorg THEN SwitchTo(b, "process") ELSE GoOn(b, "process") /\ UNCHANGED switch
      BY <1>5, Zenon DEF Process
    <3>2. ~reorg /\ GoOn(b, "process")
      BY <2>3, <3>1, Zenon
    <3>3. Number[b] < Number[headBlock] + TriesInMemory
      BY <3>1, <3>2, Zenon DEF SidesFit, IndexInv, IndexTypeInv
    <3>4. HasState(headBlock)'
      BY <1>2, <2>1, <3>3, TriesKept DEF HeadInv, IndexInv, IndexTypeInv, HasState
    <3>5. ~Switching'
      BY <3>2 DEF GoOn, Return, Switching
    <3> QED
      BY <3>4, <3>5 DEF HeadInv, Switching
  <2> QED
    BY <2>2, <2>3
<1> QED
  BY <1>1, <1>3, <1>4, <1>5

\* The last block of a reorganisation becomes the head.
LEMMA WriteHeadInv ==
  ASSUME IndexInv, HeadInv, NEW x \in Blocks, WriteMarkers(x) \/ WriteLookups(x)
  PROVE  HeadInv'
<1>1. Writing(x) /\ UNCHANGED <<states, tries>> /\ (headBlock' = x \/ UNCHANGED headBlock)
  BY DEF WriteMarkers, WriteLookups
<1>2. Switching /\ pc # "unmark" /\ HasState(switch.to)
  BY <1>1, WritingChild DEF HeadInv
<1>3. ("markers" \in switch.done \/ "markers" \in switch'.done \/ WriteMarkers(x)) /\ pc \in {"head", "cut"}
         => headBlock' = switch.to \/ (UNCHANGED headBlock /\ ~WriteMarkers(x))
  BY <1>1 DEF Writing, WriteMarkers
<1>4. CASE switch.done = {}
  <2>1. UNCHANGED pc /\ switch'.to = switch.to
        /\ switch'.done = IF WriteMarkers(x) THEN {"markers"} ELSE {"lookups"}
    <3>1. CASE WriteMarkers(x)
      BY <1>4, <3>1 DEF WriteMarkers, Written, IndexInv, IndexTypeInv
    <3>2. CASE ~WriteMarkers(x)
      BY <1>4, <3>2 DEF WriteLookups, Written, IndexInv, IndexTypeInv
    <3> QED
      BY <3>1, <3>2
  <2> QED
    BY <1>1, <1>2, <1>3, <2>1 DEF HeadInv, Switching, HasState
<1>5. CASE switch.done # {} /\ pc = "apply"
  <2>1. UNCHANGED pc /\ switch'.to = switch.to
    BY <1>5 DEF WriteMarkers, WriteLookups, Written, IndexInv, IndexTypeInv
  <2> QED
    BY <1>1, <1>2, <1>5, <2>1 DEF HeadInv, Switching, HasState
<1>6. CASE switch.done # {} /\ pc # "apply"
  <2>1. pc \in {"head", "cut"} /\ x = switch.to
    BY <1>1, <1>6 DEF Writing
  <2>2. headBlock' = switch.to
    <3>1. CASE WriteMarkers(x)
      BY <2>1, <3>1 DEF WriteMarkers
    <3>2. CASE WriteLookups(x)
      <4>1. "markers" \in switch.done /\ UNCHANGED headBlock
        BY <1>6, <3>2 DEF WriteLookups, IndexInv, IndexTypeInv
      <4> QED
        BY <2>1, <4>1 DEF HeadInv
    <3> QED
      BY <3>1, <3>2
  <2>3. ~Switching'
    BY <1>6 DEF WriteMarkers, WriteLookups, Written, GoOn, Return, Switching
  <2> QED
    BY <1>1, <1>2, <2>2, <2>3 DEF HeadInv, Switching, HasState
<1> QED
  BY <1>4, <1>5, <1>6

\* rewindHashHead finds a block with a state.
LEMMA RewoundHasState ==
  ASSUME NEW b \in Blocks, NEW present, 0 \in present
  PROVE  RewindHead(b, present) \in present /\ RewindHead(b, present) \in Branch[b]
BY HighestExists DEF RewindHead

LEMMA HeadStep == SidesFit /\ IndexInv /\ HeadInv /\ [IndexNext]_indexVars => HeadInv'
<1> SUFFICES ASSUME SidesFit, IndexInv, HeadInv, [IndexNext]_indexVars PROVE HeadInv'
  OBVIOUS
<1>1. CASE ImportBlock
  BY <1>1, ImportHead
<1>2. CASE DeleteLookups \/ DeleteMarkers
  <2>1. UNCHANGED <<headBlock, states, tries, switch>> /\ Switching /\ Switching' /\ pc' \in {"unmark", "cut"}
    BY <1>2 DEF DeleteLookups, DeleteMarkers, Switching
  <2>2. switch.done = {}
    BY <1>2 DEF DeleteLookups, DeleteMarkers, IndexInv, SwitchInv, Switching
  <2> QED
    BY <2>1, <2>2 DEF HeadInv, HasState
<1>3. ASSUME NEW x \in Blocks, WriteMarkers(x) \/ WriteLookups(x) PROVE HeadInv'
  BY <1>3, WriteHeadInv
<1>4. CASE RewindHeader
  <2> DEFINE p == Parent[headHeader]
  <2>1. /\ pc = "rewind" /\ pc' = pc /\ UNCHANGED <<states, tries>> /\ Number[headHeader] > target
        /\ headBlock' = IF Number[p] <= Number[headBlock] THEN RewindHead(p, states \cup tries) ELSE headBlock
    BY <1>4 DEF RewindHeader, working
  <2>2. p \in Blocks /\ 0 \in states \cup tries
    BY <2>1, TreeAssumption DEF IndexInv, IndexTypeInv
  <2> HIDE DEF p
  <2>3. RewindHead(p, states \cup tries) \in states \cup tries
    BY <2>2, RewoundHasState
  <2> QED
    BY <2>1, <2>3 DEF HeadInv, HasState, Switching
<1>5. CASE \/ DeleteAbove \/ (\E s \in Batches : InsertChain(s[1], s[2]))
           \/ (\E n \in 0..MaxNumber : SetHead(n))
  <2>1. ~Switching /\ ~Switching' /\ UNCHANGED <<headBlock, states, tries>>
    BY <1>5 DEF DeleteAbove, InsertChain, SetHead, stored, Switching
  <2> QED
    BY <2>1, HeadQuiet
<1>6. CASE Stop \/ Crash
  <2>1. headBlock' = RewindHead(headBlock, states') /\ pc' = "idle" /\ 0 \in states'
    BY <1>6 DEF Stop, Crash, Start, IndexInv, IndexTypeInv
  <2>2. headBlock' \in states'
    BY <2>1, RewoundHasState DEF IndexInv, IndexTypeInv
  <2> QED
    BY <2>1, <2>2 DEF HeadInv, HasState, Switching
<1>7. CASE UNCHANGED indexVars
  <2>1. UNCHANGED <<headBlock, states, tries, switch, pc>>
    BY <1>7 DEF indexVars, stored, working
  <2> QED
    BY <2>1 DEF HeadInv, HasState, Switching
<1> QED
  BY <1>1, <1>2, <1>3, <1>4, <1>5, <1>6, <1>7 DEF IndexNext, Reorg, Rewind

\* HeadKeepsState: whatever stops, crashes and rewinds happen, the head that a call
\* or a start leaves has its state, if no branch that the fork choice does not
\* prefer outgrows the head by TriesInMemory blocks or more: writeBlockWithState
\* drops the tries that are this far behind the block it writes, whether or not
\* that block becomes the head.
THEOREM HeadKeepsState ==
  ASSUME SidesFit
  PROVE  IndexSpec => []HeadHasState
<1>1. IndexInit => IndexInv /\ HeadInv
  <2>1. IndexInit => HeadInv
    BY DEF IndexInit, HeadInv, HasState, Switching
  <2> QED
    BY <2>1, IndexInitInv
<1>2. IndexInv /\ HeadInv /\ [IndexNext]_indexVars => HeadInv'
  BY HeadStep
<1>3. HeadInv => HeadHasState
  BY DEF HeadInv, HeadHasState, Switching
<1> QED
  BY <1>1, <1>2, <1>3, IndexStepInv, PTL DEF IndexSpec

----------------------------------------------------------------------------
(* Transaction lookups.                                                    *)

Found(b) == \A a \in Branch[b] : \A t \in Txs[a] : t \in DOMAIN lookup /\ lookup[t] = Number[a]

\* The blocks whose transactions have a lookup while the head changes: up to the
\* deletion of lookups those of the old branch too.
Looked ==
  Branch[switch.base] \cup (IF pc = "apply" THEN Branch[switch.from] ELSE {})
    \cup {x \in Blocks : Writing(x) /\ "lookups" \in switch.done}

SwitchFound ==
  /\ Found(switch.base)
  /\ "lookups" \in switch.done => \A x \in Blocks : Writing(x) => Found(x)
  /\ switch.base \in Branch[switch.to]
  /\ Branch[switch.from] \cap Branch[switch.to] \subseteq Branch[switch.base]
  /\ ~rewound => DOMAIN lookup = TxsOf(Looked)

HeadFound == Found(headBlock) /\ (~rewound => DOMAIN lookup = TxsOf(Branch[headBlock]))

LookupInv ==
  /\ torn => crashed
  /\ ~crashed /\ ~Switching => HeadFound
  /\ ~crashed /\ Switching => SwitchFound

\* A branch has a transaction once.
LEMMA TxOnce ==
  ASSUME NEW b \in Blocks, NEW a \in Branch[b], NEW c \in Branch[b], a # c
  PROVE  Txs[a] \cap Txs[c] = {}
<1>1. ASSUME NEW x \in Branch[b], NEW y \in Branch[b], x # y, Number[x] <= Number[y]
      PROVE  Txs[x] \cap Txs[y] = {}
  <2>1. x \in Blocks /\ y \in Blocks /\ x \in Branch[y] /\ Number[x] # Number[y]
    BY <1>1, BranchIsChain DEF IsChain
  <2>2. y # 0
    BY <1>1, <2>1, TreeAssumption
  <2>3. x \in Branch[Parent[y]]
    BY <1>1, <2>1, <2>2, TreeAssumption
  <2> QED
    BY <2>1, <2>2, <2>3, ChainAssumption
<1>2. Number[a] \in Int /\ Number[c] \in Int
  BY BranchIsChain, TreeAssumption DEF IsChain
<1>3. CASE Number[a] <= Number[c]
  BY <1>1, <1>3
<1>4. CASE Number[c] <= Number[a]
  BY <1>1, <1>4
<1> QED
  BY <1>2, <1>3, <1>4

\* What is found of a branch is found of its parts.
LEMMA FoundPart ==
  ASSUME NEW b \in Blocks, NEW a \in Branch[b], Found(b)
  PROVE  Found(a)
BY BranchIsChain DEF IsChain, Found

\* writeHeadBlock adds the lookups of one block and disturbs no other of its branch.
LEMMA LookupsAdded ==
  ASSUME NEW x \in Blocks \ {0}, Found(Parent[x]),
         lookup' = [t \in DOMAIN lookup \cup Txs[x] |-> IF t \in Txs[x] THEN Number[x] ELSE lookup[t]]
  PROVE  Found(x)' /\ Found(Parent[x])' /\ DOMAIN lookup' = DOMAIN lookup \cup Txs[x]
<1>1. Parent[x] \in Blocks /\ Branch[x] = Branch[Parent[x]] \cup {x}
  BY TreeAssumption
<1>2. \A a \in Branch[Parent[x]] : Txs[a] \cap Txs[x] = {}
  BY ChainAssumption
<1>3. Found(Parent[x])'
  BY <1>2 DEF Found
<1> QED
  BY <1>1, <1>3 DEF Found

\* After the last block but the new head, reorg deletes the lookups that the old
\* branch had and the new one has not.
LEMMA LookupsDeleted ==
  ASSUME IndexInv, SwitchFound, DeleteLookups
  PROVE  Found(switch.base)' /\ (~rewound => DOMAIN lookup' = TxsOf(Branch[switch.base]))
<1> DEFINE F == Branch[switch.from]
           B == Branch[switch.base]
           gone == TxsOf(F \ Branch[switch.to]) \ TxsOf(B \ F)
<1>1. lookup' = Keep(lookup, DOMAIN lookup \ gone) /\ pc = "apply" /\ switch.done = {} /\ switch' = switch
  BY DEF DeleteLookups
<1>2. DOMAIN lookup' = DOMAIN lookup \ gone /\ \A t \in DOMAIN lookup' : lookup'[t] = lookup[t]
  BY <1>1 DEF Keep
<1>3. /\ switch.from \in Blocks /\ switch.base \in Blocks /\ switch.to \in Blocks
      /\ B \subseteq Branch[switch.to] /\ F \cap Branch[switch.to] \subseteq B
  BY BranchIsChain DEF IsChain, IndexInv, IndexTypeInv, SwitchFound
<1>4. ASSUME NEW a \in B, NEW t \in Txs[a] PROVE t \notin gone
  <2>1. CASE a \in F
    <3>1. \A c \in F \ Branch[switch.to] : c # a
      BY <1>3
    <3>2. \A c \in F \ Branch[switch.to] : t \notin Txs[c]
      BY <1>3, <2>1, <3>1, TxOnce
    <3> QED
      BY <3>2 DEF TxsOf
  <2>2. CASE a \notin F
    BY <2>2 DEF TxsOf
  <2> QED
    BY <2>1, <2>2
<1>5. Found(switch.base)'
  BY <1>1, <1>2, <1>4 DEF Found, SwitchFound
<1>6. ASSUME ~rewound PROVE DOMAIN lookup' = TxsOf(B)
  <2>1. DOMAIN lookup = TxsOf(B \cup F)
    BY <1>1, <1>6 DEF SwitchFound, Looked
  <2>2. ASSUME NEW t \in TxsOf(B) PROVE t \in DOMAIN lookup'
    BY <1>2, <1>4, <2>1, <2>2 DEF TxsOf
  <2>3. ASSUME NEW t \in DOMAIN lookup' PROVE t \in TxsOf(B)
    <3>1. t \in TxsOf(B \cup F) /\ t \notin gone
      BY <1>2, <2>1, <2>3
    <3>2. t \in TxsOf(F \ Branch[switch.to]) => t \in TxsOf(B)
      BY <3>1 DEF TxsOf
    <3>3. t \in TxsOf(F) => t \in TxsOf(F \ Branch[switch.to]) \/ t \in TxsOf(B)
      BY <1>3 DEF TxsOf
    <3> QED
      BY <3>1, <3>2, <3>3 DEF TxsOf
  <2> QED
    BY <2>2, <2>3
<1> QED
  BY <1>5, <1>6

\* A step that leaves lookups and head, and is not about a new head.
LEMMA LookupQuiet ==
  ASSUME LookupInv, ~Switching, ~Switching', UNCHANGED <<headBlock, lookup>>,
         torn' = torn, crashed' = crashed, rewound => rewound'
  PROVE  LookupInv'
BY DEF LookupInv, HeadFound, Found

\* When the head is to change, the lookups are those of the old one.
LEMMA SwitchToFound ==
  ASSUME IndexInv, LookupInv, ~Switching, NEW b \in Blocks \ {0}, NEW loop, SwitchTo(b, loop),
         UNCHANGED <<headBlock, lookup, history>>
  PROVE  LookupInv'
<1> DEFINE F == Branch[headBlock]
<1>1. /\ headBlock \in Blocks /\ headBlock \in F /\ 0 \in Branch[b] /\ F \subseteq Blocks
      /\ Branch[b] \subseteq Blocks /\ b \in Branch[b]
  BY BranchIsChain DEF IndexInv, IndexTypeInv, IsChain
<1>2. /\ Switching' /\ switch'.to = b /\ switch'.from = headBlock /\ switch'.done = {}
      /\ switch'.base \in F /\ switch'.base \in Branch[b]
      /\ F \cap Branch[b] \subseteq Branch[switch'.base]
      /\ pc' = "apply" \/ switch'.base = headBlock
  <2>1. CASE Parent[b] = headBlock
    <3>1. headBlock \in Branch[b]
      BY <1>1, <2>1, TreeAssumption
    <3> QED
      BY <1>1, <2>1, <3>1 DEF SwitchTo, Switching
  <2>2. CASE Parent[b] # headBlock
    <3> DEFINE h == Highest(F \cap Branch[b])
    <3>1. h \in F \cap Branch[b] /\ \A c \in F \cap Branch[b] : Number[c] <= Number[h]
      BY <1>1, HighestExists
    <3>2. switch' = [to |-> b, from |-> headBlock, done |-> {}, base |-> h] /\ pc' = "apply"
      BY <2>2 DEF SwitchTo
    <3> HIDE DEF h
    <3>3. F \cap Branch[b] \subseteq Branch[h]
      BY <1>1, <3>1, BranchIsChain DEF IsChain
    <3> QED
      BY <3>1, <3>2, <3>3 DEF Switching
  <2> QED
    BY <2>1, <2>2
<1>3. torn' = torn /\ crashed' = crashed /\ rewound' = rewound
  BY DEF history
<1>4. ASSUME ~crashed PROVE SwitchFound'
  <2>1. HeadFound
    BY <1>4 DEF LookupInv
  <2>2. Found(switch.base)'
    <3>1. Found(switch'.base)
      BY <1>1, <1>2, <2>1, FoundPart DEF HeadFound
    <3> QED
      BY <3>1 DEF Found
  <2>3. Looked' = F
    <3>1. Branch[switch'.base] \subseteq F
      BY <1>1, <1>2, BranchIsChain DEF IsChain
    <3> QED
      BY <1>2, <3>1 DEF Looked
  <2> QED
    BY <1>2, <1>3, <2>1, <2>2, <2>3 DEF SwitchFound, HeadFound
<1> QED
  BY <1>2, <1>3, <1>4 DEF LookupInv

LEMMA ImportLookup ==
  ASSUME IndexInv, LookupInv, ImportBlock
  PROVE  LookupInv'
<1>1. PICK b \in Blocks :
        SideDone(b) \/ (b # 0 /\ (SkipKnown(b) \/ WriteKnown(b) \/ Process(b) \/ Reject(b) \/ SideBlock(b)))
  BY DEF ImportBlock
<1>2. pc = "next" /\ ~Switching
  BY DEF ImportBlock, Switching
<1>3. UNCHANGED <<headBlock, lookup, history>>
  BY <1>1 DEF SideDone, SkipKnown, Reject, SideBlock, WriteKnown, Process, stored
<1>4. CASE \E loop : b # 0 /\ SwitchTo(b, loop)
  BY <1>2, <1>3, <1>4, SwitchToFound
<1>5. CASE ~\E loop : b # 0 /\ SwitchTo(b, loop)
  <2>1. ~Switching'
    <3>1. CASE SideDone(b) \/ SkipKnown(b) \/ Reject(b) \/ SideBlock(b)
      BY <1>2, <3>1 DEF SideDone, SkipKnown, Reject, SideBlock, Return, GoOn, Switching
    <3>2. CASE b # 0 /\ WriteKnown(b)
      BY <1>5, <3>2, Zenon DEF WriteKnown
    <3>3. CASE b # 0 /\ Process(b)
      <4>1. GoOn(b, "process")
        BY <1>5, <3>3, Zenon DEF Process
      <4> QED
        BY <4>1 DEF GoOn, Return, Switching
    <3> QED
      BY <1>1, <3>1, <3>2, <3>3
  <2> QED
    BY <1>2, <1>3, <2>1, LookupQuiet DEF history
<1> QED
  BY <1>4, <1>5

\* The block that is written next extends what has been written.
LEMMA WritingPart ==
  ASSUME IndexInv, SwitchFound, NEW x \in Blocks, Writing(x)
  PROVE  /\ x # 0 /\ x \in Branch[switch.to] /\ Branch[x] = Branch[switch.base] \cup {x}
         /\ Found(Parent[x]) /\ Switching /\ pc \in {"apply", "head", "cut"}
<1>1. Switching /\ pc # "unmark" /\ x # 0 /\ (Parent[x] = switch.base \/ x = switch.base)
  BY WritingChild
<1>2. x \in Branch[switch.to] /\ x \in Branch[x] /\ switch.base \in Blocks
  BY BranchIsChain DEF Writing, IsChain, IndexInv, IndexTypeInv
<1>3. Parent[x] \in Branch[switch.base] /\ Branch[x] = Branch[switch.base] \cup {x}
  <2>1. Parent[x] \in Blocks /\ Branch[x] = Branch[Parent[x]] \cup {x} /\ Parent[x] \in Branch[Parent[x]]
    BY <1>1, TreeAssumption, BranchIsChain DEF IsChain
  <2> QED
    BY <1>1, <1>2, <2>1
<1>4. Found(Parent[x])
  BY <1>2, <1>3, FoundPart DEF SwitchFound
<1> QED
  BY <1>1, <1>2, <1>3, <1>4 DEF Switching

\* After its first batch the same block is written.
LEMMA FirstBatchFound ==
  ASSUME IndexInv, LookupInv, ~crashed, NEW x \in Blocks, Writing(x), NEW part \in {"markers", "lookups"},
         switch.done = {}, Written(x, part), rewound' = rewound,
         Found(x)' \/ part = "markers", Found(switch.base)',
         DOMAIN lookup' = DOMAIN lookup \cup (IF part = "lookups" THEN Txs[x] ELSE {})
  PROVE  Switching' /\ SwitchFound'
<1>1. SwitchFound
  BY WritingChild DEF LookupInv
<1>2. /\ pc' = pc /\ switch' = [switch EXCEPT !.done = {part}]
      /\ switch'.to = switch.to /\ switch'.from = switch.from /\ switch'.base = switch.base
      /\ switch'.done = {part}
  BY DEF Written, IndexInv, IndexTypeInv
<1>3. \A y \in Blocks : Writing(y)' <=> Writing(y)
  BY <1>2 DEF Writing
<1>4. \A y \in Blocks : Writing(y)' => y = x
  BY <1>3, WritingOne
<1>5. "lookups" \in switch'.done => \A y \in Blocks : Writing(y)' => Found(y)'
  <2> SUFFICES ASSUME part = "lookups", NEW y \in Blocks, Writing(y)' PROVE Found(y)'
    BY <1>2
  <2> QED
    BY <1>4
<1>6. Looked' = Looked \cup (IF part = "lookups" THEN {x} ELSE {})
  <2>1. {y \in Blocks : Writing(y)' /\ "lookups" \in switch'.done} = IF part = "lookups" THEN {x} ELSE {}
    BY <1>2, <1>3, <1>4
  <2> QED
    BY <1>2, <2>1 DEF Looked
<1>7. ~rewound => DOMAIN lookup' = TxsOf(Looked')
  <2>1. TxsOf(Looked') = TxsOf(Looked) \cup (IF part = "lookups" THEN Txs[x] ELSE {})
    BY <1>6 DEF TxsOf
  <2> QED
    BY <1>1, <2>1 DEF SwitchFound
<1> QED
  BY <1>1, <1>2, <1>5, <1>7, WritingChild DEF SwitchFound, Switching

\* After its second batch the next block of the new branch is due, or the block
\* is the head.
LEMMA SecondBatchFound ==
  ASSUME IndexInv, LookupInv, ~crashed, NEW x \in Blocks, Writing(x), NEW part, switch.done # {},
         Written(x, part), rewound' = rewound, Found(x)', pc = "apply" \/ headBlock' = x,
         ~rewound => DOMAIN lookup' = TxsOf(Looked \cup {x})
  PROVE  IF Switching' THEN SwitchFound' ELSE HeadFound'
<1>1. SwitchFound
  BY WritingChild DEF LookupInv
<1>2. /\ x # 0 /\ x \in Branch[switch.to] /\ Branch[x] = Branch[switch.base] \cup {x}
      /\ Switching /\ pc \in {"apply", "head", "cut"}
  BY <1>1, WritingPart
<1>3. {y \in Blocks : Writing(y)} = {x}
  BY WritingOne
<1>4. Looked \cup {x} = Branch[x] \cup (IF pc = "apply" THEN Branch[switch.from] ELSE {})
  BY <1>2, <1>3 DEF Looked
<1>5. CASE pc = "apply"
  <2>1. /\ pc' = "apply" /\ switch' = [switch EXCEPT !.base = x, !.done = {}]
        /\ switch'.to = switch.to /\ switch'.from = switch.from /\ switch'.base = x
        /\ switch'.done = {}
    BY <1>5 DEF Written, IndexInv, IndexTypeInv
  <2>2. Found(switch.base)'
    BY <2>1 DEF Found
  <2>3. Looked' = Branch[x] \cup Branch[switch.from]
    BY <2>1 DEF Looked
  <2> QED
    BY <1>1, <1>2, <1>4, <1>5, <2>1, <2>2, <2>3 DEF SwitchFound, Switching
<1>6. CASE pc # "apply"
  <2>1. ~Switching'
    BY <1>6 DEF Written, GoOn, Return, Switching
  <2>2. headBlock' = x /\ (~rewound => DOMAIN lookup' = TxsOf(Branch[x]))
    BY <1>4, <1>6
  <2> QED
    BY <2>1, <2>2 DEF HeadFound, Found
<1> QED
  BY <1>5, <1>6

LEMMA WriteMarkersLookup ==
  ASSUME IndexInv, LookupInv, NEW x \in Blocks, WriteMarkers(x)
  PROVE  LookupInv'
<1>1. /\ Writing(x) /\ Written(x, "markers") /\ lookup' = lookup /\ headBlock' = x
      /\ torn' = torn /\ crashed' = crashed /\ rewound' = rewound /\ "markers" \notin switch.done
  BY DEF WriteMarkers, history
<1>2. ASSUME ~crashed PROVE IF Switching' THEN SwitchFound' ELSE HeadFound'
  <2>1. SwitchFound
    BY <1>1, <1>2, WritingChild DEF LookupInv
  <2>2. CASE switch.done = {}
    <3>1. Found(switch.base)'
      <4>1. switch'.base = switch.base
        BY <1>1, <2>2 DEF Written, IndexInv, IndexTypeInv
      <4> QED
        BY <1>1, <2>1, <4>1 DEF SwitchFound, Found
    <3> QED
      BY <1>1, <1>2, <2>2, <3>1, FirstBatchFound
  <2>3. CASE switch.done # {}
    <3>1. "lookups" \in switch.done
      BY <1>1, <2>3 DEF IndexInv, IndexTypeInv
    <3>2. Found(x)' /\ x \in Looked
      BY <1>1, <2>1, <3>1 DEF SwitchFound, Found, Looked
    <3>3. ~rewound => DOMAIN lookup' = TxsOf(Looked \cup {x})
      <4>1. Looked \cup {x} = Looked
        BY <3>2
      <4> QED
        BY <1>1, <2>1, <4>1 DEF SwitchFound
    <3> QED
      BY <1>1, <1>2, <2>3, <3>2, <3>3, SecondBatchFound
  <2> QED
    BY <2>2, <2>3
<1> QED
  BY <1>1, <1>2 DEF LookupInv

LEMMA WriteLookupsLookup ==
  ASSUME IndexInv, HeadInv, LookupInv, NEW x \in Blocks, WriteLookups(x)
  PROVE  LookupInv'
<1>1. /\ Writing(x) /\ Written(x, "lookups") /\ headBlock' = headBlock
      /\ torn' = torn /\ crashed' = crashed /\ rewound' = rewound /\ "lookups" \notin switch.done
      /\ lookup' = [t \in DOMAIN lookup \cup Txs[x] |-> IF t \in Txs[x] THEN Number[x] ELSE lookup[t]]
  BY DEF WriteLookups, history
<1>2. ASSUME ~crashed PROVE IF Switching' THEN SwitchFound' ELSE HeadFound'
  <2>1. SwitchFound
    BY <1>1, <1>2, WritingChild DEF LookupInv
  <2>2. x # 0 /\ Found(Parent[x]) /\ Branch[x] = Branch[switch.base] \cup {x}
        /\ pc \in {"apply", "head", "cut"}
    BY <1>1, <2>1, WritingPart
  <2>3. Found(x)' /\ DOMAIN lookup' = DOMAIN lookup \cup Txs[x]
    BY <1>1, <2>2, LookupsAdded
  <2>4. CASE switch.done = {}
    <3>1. switch'.base = switch.base
      BY <1>1, <2>4 DEF Written, IndexInv, IndexTypeInv
    <3>2. Found(switch.base)'
      BY <2>2, <2>3, <3>1 DEF Found
    <3> QED
      BY <1>1, <1>2, <2>3, <2>4, <3>2, FirstBatchFound
  <2>5. CASE switch.done # {}
    <3>1. "markers" \in switch.done
      BY <1>1, <2>5 DEF IndexInv, IndexTypeInv
    <3>2. pc = "apply" \/ headBlock' = x
      BY <1>1, <2>2, <3>1 DEF HeadInv, Writing
    <3>3. ~rewound => DOMAIN lookup' = TxsOf(Looked \cup {x})
      <4>1. TxsOf(Looked \cup {x}) = TxsOf(Looked) \cup Txs[x]
        BY DEF TxsOf
      <4> QED
        BY <2>1, <2>3, <4>1 DEF SwitchFound
    <3> QED
      BY <1>1, <1>2, <2>3, <2>5, <3>2, <3>3, SecondBatchFound
  <2> QED
    BY <2>4, <2>5
<1> QED
  BY <1>1, <1>2 DEF LookupInv

\* Stop writes the trie of the head, so that the start after it keeps the head.
LEMMA StopKeepsHead ==
  ASSUME IndexInv, HeadInv, ~torn, Stop
  PROVE  headBlock' = headBlock
<1>1. pc \in {"idle", "next"} /\ headBlock' = RewindHead(headBlock, states') /\ states \subseteq states'
  BY DEF Stop, Start
<1>2. HasState(headBlock) /\ Canonical(headBlock) /\ headBlock \in Blocks
  <2>1. ~Switching /\ ~Unmarked
    BY <1>1 DEF Switching, Unmarked
  <2>2. Marked(headBlock)
    BY <2>1, HeadMarked
  <2> QED
    BY <2>1, <2>2, BranchIsChain DEF HeadInv, Marked, IsChain, IndexInv, IndexTypeInv
<1>3. headBlock \in states'
  <2>1. CASE headBlock \in states
    BY <1>1, <2>1
  <2>2. CASE headBlock \notin states
    <3> DEFINE top == Number[headBlock]
               kept == {top - k : k \in {j \in {0, 1, TriesInMemory - 1} : j < top}}
    <3>1. states' = states \cup (tries \cap {canon[n] : n \in kept})
      BY DEF Stop
    <3>2. headBlock # 0 /\ headBlock \in tries
      BY <1>2, <2>2 DEF HasState, IndexInv, IndexTypeInv
    <3>3. top \in Nat \ {0}
      BY <1>2, <3>2, TreeAssumption
    <3>4. top \in kept
      <4>1. 0 \in {j \in {0, 1, TriesInMemory - 1} : j < top} /\ top - 0 = top
        BY <3>3
      <4> QED
        BY <4>1
    <3> HIDE DEF kept
    <3> QED
      BY <1>2, <3>1, <3>2, <3>4 DEF Canonical
  <2> QED
    BY <2>1, <2>2
<1> DEFINE h == Highest(Branch[headBlock] \cap states')
<1>4. headBlock \in Branch[headBlock] /\ 0 \in states'
  BY <1>1, <1>2, BranchIsChain DEF IsChain, IndexInv, IndexTypeInv
<1>5. h \in Branch[headBlock] /\ Number[headBlock] <= Number[h]
  BY <1>2, <1>3, <1>4, HighestExists
<1>6. headBlock' = h
  BY <1>1 DEF RewindHead
<1> HIDE DEF h
<1>7. h \in Blocks /\ Number[h] = Number[headBlock]
  BY <1>2, <1>5, BranchIsChain, TreeAssumption DEF IsChain
<1> QED
  BY <1>2, <1>4, <1>5, <1>6, <1>7, BranchIsChain DEF IsChain

\* Only SetHead rewinds.
RewindInv == pc = "rewind" => rewound

LEMMA RewindStep == RewindInv /\ [IndexNext]_indexVars => RewindInv'
<1> SUFFICES ASSUME RewindInv, [IndexNext]_indexVars PROVE RewindInv'
  OBVIOUS
<1>1. CASE \E n \in 0..MaxNumber : SetHead(n)
  BY <1>1 DEF SetHead, RewindInv
<1>2. CASE RewindHeader \/ UNCHANGED indexVars
  BY <1>2 DEF RewindHeader, indexVars, working, history, RewindInv
<1>3. CASE ImportBlock
  <2>1. PICK b \in Blocks :
          SideDone(b) \/ SkipKnown(b) \/ WriteKnown(b) \/ Process(b) \/ Reject(b) \/ SideBlock(b)
    BY <1>3 DEF ImportBlock
  <2>2. pc = "next"
    BY <1>3 DEF ImportBlock
  <2>3. CASE SideDone(b) \/ SkipKnown(b) \/ Reject(b) \/ SideBlock(b)
    BY <2>2, <2>3 DEF SideDone, SkipKnown, Reject, SideBlock, Return, GoOn, RewindInv
  <2>4. CASE WriteKnown(b) \/ Process(b)
    BY <2>4 DEF WriteKnown, Process, SwitchTo, Return, GoOn, RewindInv
  <2> QED
    BY <2>1, <2>3, <2>4
<1>4. CASE Reorg
  <2>1. pc' # "rewind" \/ UNCHANGED <<pc, history>>
    BY <1>4 DEF Reorg, DeleteLookups, DeleteMarkers, WriteMarkers, WriteLookups, Written, Return, GoOn
  <2> QED
    BY <2>1 DEF RewindInv, history
<1>5. CASE DeleteAbove \/ Stop \/ Crash \/ \E s \in Batches : InsertChain(s[1], s[2])
  BY <1>5 DEF DeleteAbove, Stop, Crash, Start, InsertChain, RewindInv
<1> QED
  BY <1>1, <1>2, <1>3, <1>4, <1>5 DEF IndexNext, Rewind

LEMMA LookupStep ==
  IndexInv /\ HeadInv /\ RewindInv /\ LookupInv /\ [IndexNext]_indexVars => LookupInv'
<1> SUFFICES ASSUME IndexInv, HeadInv, RewindInv, LookupInv, [IndexNext]_indexVars PROVE LookupInv'
  OBVIOUS
<1>1. CASE ImportBlock
  BY <1>1, ImportLookup
<1>2. CASE DeleteLookups
  <2>1. /\ Switching /\ pc' = "unmark" /\ UNCHANGED <<switch, history>> /\ switch.done = {}
    BY <1>2 DEF DeleteLookups, Switching
  <2>2. torn' = torn /\ crashed' = crashed /\ rewound' = rewound /\ Switching'
    BY <2>1 DEF history, Switching
  <2>3. Looked' = Branch[switch.base]
    BY <2>1 DEF Looked
  <2> QED
    BY <1>2, <2>1, <2>2, <2>3, LookupsDeleted DEF LookupInv, SwitchFound
<1>3. CASE DeleteMarkers
  <2>1. /\ Switching /\ pc = "unmark" /\ pc' = "cut" /\ UNCHANGED <<switch, lookup, history>>
    BY <1>3 DEF DeleteMarkers, Switching
  <2>2. torn' = torn /\ crashed' = crashed /\ rewound' = rewound /\ Switching'
    BY <2>1 DEF history, Switching
  <2>3. switch.done = {} /\ Looked' = Looked
    BY <2>1 DEF Looked, IndexInv, SwitchInv
  <2> QED
    BY <2>1, <2>2, <2>3 DEF LookupInv, SwitchFound, Found
<1>4. ASSUME NEW x \in Blocks, WriteMarkers(x) \/ WriteLookups(x) PROVE LookupInv'
  BY <1>4, WriteMarkersLookup, WriteLookupsLookup
<1>5. CASE RewindHeader
  <2> DEFINE p == Parent[headHeader]
  <2>1. /\ pc = "rewind" /\ pc' = pc /\ lookup' = lookup /\ UNCHANGED history
        /\ Number[headHeader] > target
        /\ headBlock' = IF Number[p] <= Number[headBlock] THEN RewindHead(p, states \cup tries) ELSE headBlock
    BY <1>5 DEF RewindHeader, working
  <2>2. torn' = torn /\ crashed' = crashed /\ rewound' = rewound /\ ~Switching /\ ~Switching'
    BY <2>1 DEF history, Switching
  <2>3. /\ p \in Blocks /\ Branch[headHeader] = Branch[p] \cup {headHeader} /\ 0 \in states \cup tries
        /\ Number[headHeader] = Number[p] + 1 /\ Number[p] \in Nat
    BY <2>1, TreeAssumption DEF IndexInv, IndexTypeInv
  <2> HIDE DEF p
  <2>4. ASSUME ~crashed PROVE headBlock' \in Branch[headBlock] /\ rewound
    <3>1. ~torn /\ ~Unmarked
      BY <2>1, <2>4 DEF LookupInv, Unmarked
    <3>2. headBlock \in Branch[headHeader] /\ headBlock \in Blocks /\ headBlock \in Branch[headBlock]
      BY <3>1, HeadMarked, BranchIsChain DEF IndexInv, IndexTypeInv, IsChain
    <3>3. CASE Number[p] <= Number[headBlock]
      <4>1. headBlock' \in Branch[p]
        BY <2>1, <2>3, <3>3, RewoundHasState
      <4>2. p \in Branch[headHeader] /\ headHeader \in Blocks
        BY <2>3, BranchIsChain DEF IsChain, IndexInv, IndexTypeInv
      <4>3. p \in Branch[headBlock]
        BY <3>2, <3>3, <4>2, BranchIsChain DEF IsChain
      <4>4. Branch[p] \subseteq Branch[headBlock]
        BY <3>2, <4>3, BranchIsChain DEF IsChain
      <4> QED
        BY <2>1, <4>1, <4>4 DEF RewindInv
    <3> QED
      BY <2>1, <3>2, <3>3 DEF RewindInv
  <2> QED
    BY <2>1, <2>2, <2>4, FoundPart DEF LookupInv, HeadFound, Found, IndexInv, IndexTypeInv
<1>6. CASE \/ DeleteAbove \/ (\E s \in Batches : InsertChain(s[1], s[2]))
           \/ (\E n \in 0..MaxNumber : SetHead(n))
  <2>1. /\ ~Switching /\ ~Switching' /\ UNCHANGED <<headBlock, lookup>> /\ torn' = torn /\ crashed' = crashed
    BY <1>6 DEF DeleteAbove, InsertChain, SetHead, stored, history, Switching
  <2>2. rewound => rewound'
    BY <1>6, Zenon DEF DeleteAbove, InsertChain, SetHead, history
  <2> QED
    BY <2>1, <2>2, LookupQuiet
<1>7. CASE Stop
  <2>1. UNCHANGED <<lookup, rewound, crashed, torn>> /\ ~Switching' /\ ~Switching
    BY <1>7 DEF Stop, Start, Switching
  <2>2. ASSUME ~crashed PROVE HeadFound'
    <3>1. headBlock' = headBlock
      BY <1>7, <2>2, StopKeepsHead DEF LookupInv
    <3> QED
      BY <2>1, <2>2, <3>1 DEF LookupInv, HeadFound, Found
  <2> QED
    BY <2>1, <2>2 DEF LookupInv
<1>8. CASE Crash
  BY <1>8 DEF Crash, LookupInv
<1>9. CASE UNCHANGED indexVars
  <2>1. UNCHANGED <<headBlock, lookup, switch, pc, torn, crashed, rewound>>
    BY <1>9 DEF indexVars, stored, working, history
  <2> QED
    BY <2>1 DEF LookupInv, HeadFound, SwitchFound, Found, Looked, Writing, Switching
<1> QED
  BY <1>1, <1>2, <1>3, <1>4, <1>5, <1>6, <1>7, <1>8, <1>9 DEF IndexNext, Reorg, Rewind

\* LookupsMatchCanon: for every tree with SidesFit, all batches and any number of
\* clean stops and calls of SetHead, a transaction of the canonical chain is found
\* under the number of its block, one that a reorganisation moved to another block
\* too, and unless SetHead was called no other transaction is found: reorg deletes
\* neither too much nor too little between its writes.
THEOREM LookupsMatchCanon ==
  ASSUME SidesFit
  PROVE  IndexSpec => []LookupsFollowCanon
<1>1. IndexInit => IndexInv /\ HeadInv /\ RewindInv /\ LookupInv
  <2>1. IndexInit => HeadInv /\ RewindInv
    BY DEF IndexInit, HeadInv, HasState, Switching, RewindInv
  <2>2. IndexInit => LookupInv
    <3> SUFFICES ASSUME IndexInit PROVE LookupInv
      OBVIOUS
    <3>1. headBlock = 0 /\ DOMAIN lookup = {} /\ ~torn /\ ~Switching
      BY DEF IndexInit, Switching
    <3>2. Branch[0] = {0} /\ Txs[0] = {}
      BY TreeAssumption, ChainAssumption
    <3>3. Found(headBlock)
      BY <3>1, <3>2 DEF Found
    <3>4. TxsOf(Branch[headBlock]) = {}
      BY <3>1, <3>2 DEF TxsOf
    <3> QED
      BY <3>1, <3>3, <3>4 DEF LookupInv, HeadFound
  <2> QED
    BY <2>1, <2>2, IndexInitInv
<1>2. /\ IndexInv /\ HeadInv /\ RewindInv /\ LookupInv /\ [IndexNext]_indexVars
      => HeadInv' /\ RewindInv' /\ LookupInv'
  BY HeadStep, RewindStep, LookupStep
<1>3. LookupInv => LookupsFollowCanon
  BY DEF LookupInv, LookupsFollowCanon, HeadFound, Found, Switching
<1> QED
  BY <1>1, <1>2, <1>3, IndexStepInv, PTL DEF IndexSpec
============================================================================
