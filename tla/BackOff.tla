------------------------------ MODULE BackOff ------------------------------
(***************************************************************************)
(* How long a validator out of turn has to wait (backOffTime in            *)
(* consensus/parlia/parlia.go).  Every node computes the delay of every    *)
(* validator, its own to seal and that of others to judge a header; the    *)
(* shuffle has the block number as seed and is the same for all.           *)
(* Times are in units of wiggleTime.                                       *)
(***************************************************************************)
EXTENDS Integers, FiniteSets

CONSTANTS
  Members,         \* validator addresses, in their byte order
  InitialBackOff,  \* defaultInitialBackOffTime
  LorentzBackOff   \* lorentzInitialBackOffTime

ASSUME DelayAssumption ==
  /\ Members \subseteq Int /\ IsFiniteSet(Members)
  /\ InitialBackOff \in Nat \ {0}
  /\ LorentzBackOff \in Nat \ {0}

VARIABLES
  sealers,  \* the validators of the snapshot
  barred,   \* those that signed recently
  first,    \* the validator in turn
  fork,     \* the last fork of None, Planck, Bohr and Lorentz
  delays    \* what backOffTime returns, by validator

delayVars == <<sealers, barred, first, fork, delays>>

\* The miner history has room for whole turns of at most half of the validators.
DelayInit ==
  /\ sealers \in (SUBSET Members) \ {{}}
  /\ barred \in {r \in SUBSET sealers : 2 * Cardinality(r) <= Cardinality(sealers)}
  /\ first \in sealers
  /\ fork \in 0..3
  /\ delays = <<>>

PlanckOn  == fork >= 1
BohrOn    == fork >= 2
LorentzOn == fork >= 3

\* The validators that are shuffled.
Listed == {v \in sealers : PlanckOn => v \notin barred /\ (BohrOn => v # first)}

Index(v) == Cardinality({w \in Listed : w < v})

FirstDelay_Kept == IF LorentzOn THEN LorentzBackOff ELSE InitialBackOff

FirstDelay ==
  IF PlanckOn /\ first \in barred THEN 0
  ELSE IF LorentzOn THEN LorentzBackOff ELSE InitialBackOff

BackOffTime(v, steps) ==
  LET k == steps[Index(v)]
  IN  IF v = first \/ v \notin Listed THEN 0
      ELSE IF FirstDelay = 0 /\ LorentzOn THEN IF k = 0 THEN 0 ELSE LorentzBackOff + k - 1
      ELSE FirstDelay + k

Shuffles(n) == {f \in [0..(n - 1) -> 0..(n - 1)] : \A i, j \in 0..(n - 1) : f[i] = f[j] => i = j}

Shuffle ==
  /\ delays = <<>>
  /\ \E steps \in Shuffles(Cardinality(Listed)) :
       delays' = [v \in sealers |-> BackOffTime(v, steps)]
  /\ UNCHANGED <<sealers, barred, first, fork>>

DelaySpec == DelayInit /\ [][Shuffle]_delayVars
----------------------------------------------------------------------------
Free == sealers \ barred  \* those that may seal

\* OneSlotEach: two validators that may seal never get the same slot; a validator
\* in turn that may seal has the first one to itself; if it may not, one of the
\* others need not wait (from Planck on); and from Lorentz on the delays are
\* exactly "[2, 3, 4, ...]" or "[0, 2, 3, ...]", as backOffTime says (2 being
\* lorentzInitialBackOffTime).
OneSlotEach ==
  delays # <<>> =>
    LET others == {delays[v] : v \in Free \ {first}}
        n      == Cardinality(Free \ {first})
    IN  /\ Cardinality(others) = n
        /\ first \in Free => delays[first] = 0 /\ 0 \notin others
        /\ (PlanckOn /\ first \notin Free) => 0 \in others
        /\ LorentzOn => others =
             IF first \in Free THEN LorentzBackOff..(LorentzBackOff + n - 1)
             ELSE {0} \cup LorentzBackOff..(LorentzBackOff + n - 2)
=============================================================================
