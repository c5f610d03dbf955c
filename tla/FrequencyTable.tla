--------------------------- MODULE FrequencyTable ---------------------------
(***************************************************************************)
(* The table from which Snake8 draws the validator in turn                 *)
(* (calcFrequencyRLP and selectValidatorFromFrequencyRLP in                *)
(* consensus/parlia/snapshot.go).  Stakes become frequencies out of        *)
(* Precision; every candidate keeps a minimum; what the minimum and the    *)
(* rounding changed is taken from, or given to, the others, repeatedly.    *)
(* math/big's Div by a positive divisor rounds down, as \div does.         *)
(***************************************************************************)
EXTENDS Integers, FiniteSetsExt, Functions

CONSTANTS
  Addr,           \* validator addresses, in their byte order
  Stakes,         \* delegated amounts that may occur
  Decimals,       \* 1e18: smaller parts of a stake are cut off
  Precision,      \* validatorFrequencyPrecision
  MaxIterations   \* maxIterations of the normalization

VARIABLES
  stake,      \* what the staking contract answers for each validator
  recent,     \* validators that SignRecently excludes
  freq,       \* the frequency of each candidate
  iteration,  \* of the normalization
  phase,      \* "base", "normalize", "done", "drawn", or "error" when nobody is
              \* eligible
  inturn      \* the validator drawn for the block

vars == <<stake, recent, freq, iteration, phase, inturn>>

Init ==
  /\ stake \in [Addr -> Stakes]
  /\ recent \in SUBSET Addr
  /\ freq = <<>>
  /\ iteration = 0
  /\ phase = "base"
  /\ inturn = 0

Candidates == {a \in Addr : stake[a] # 0 /\ a \notin recent}

Amount(a) == stake[a] \div Decimals

TotalDelegated == MapThenSumSet(Amount, Candidates)

MinFreq == Precision \div (2 * Cardinality(Candidates))

AtLeastMin(f) == IF f < MinFreq THEN MinFreq ELSE f

\* Steps 1 to 3: the shares of the stake, and the minimum.
BaseFrequencies ==
  /\ phase = "base"
  /\ IF Candidates = {} \/ TotalDelegated = 0
     THEN phase' = "error" /\ UNCHANGED <<freq, iteration>>
     ELSE /\ freq' = [a \in Candidates |-> AtLeastMin((Amount(a) * Precision) \div TotalDelegated)]
          /\ iteration' = 1
          /\ phase' = "normalize"
  /\ UNCHANGED <<stake, recent, inturn>>

AboveMin == {a \in Candidates : freq[a] > MinFreq}

Adjustment == Precision - SumFunction(freq)

Adjusted(a) == freq[a] + (Adjustment * freq[a]) \div SumFunctionOnSet(freq, AboveMin)

Repeats_Never == FALSE

\* The minimum was hit again, so that the sum is still off.
Repeats == \E a \in AboveMin : Adjusted(a) < MinFreq

\* Step 4, one iteration.
Normalize ==
  /\ phase = "normalize"
  /\ IF Adjustment = 0 \/ AboveMin = {}
     THEN phase' = "done" /\ UNCHANGED <<freq, iteration>>
     ELSE /\ freq' = [a \in Candidates |-> IF a \in AboveMin THEN AtLeastMin(Adjusted(a)) ELSE freq[a]]
          /\ IF Repeats /\ iteration < MaxIterations
             THEN iteration' = iteration + 1 /\ UNCHANGED phase
             ELSE phase' = "done" /\ UNCHANGED iteration
  /\ UNCHANGED <<stake, recent, inturn>>

Cumulative(a) == SumFunctionOnSet(freq, {b \in Candidates : b <= a})

Selected_Inclusive(target) ==
  LET reached == {a \in Candidates : target <= Cumulative(a)}
  IN  IF reached = {} THEN Max(Candidates) ELSE Min(reached)

\* The candidates in address order share 0..Precision-1; the last one also
\* gets what the sum leaves open.
Selected(target) ==
  LET reached == {a \in Candidates : target < Cumulative(a)}
  IN  IF reached = {} THEN Max(Candidates) ELSE Min(reached)

\* The hash of the block number, modulo Precision, is any target.
SelectValidator(target) ==
  /\ phase = "done"
  /\ inturn' = Selected(target)
  /\ phase' = "drawn"
  /\ UNCHANGED <<stake, recent, freq, iteration>>

Next ==
  \/ BaseFrequencies
  \/ Normalize
  \/ \E target \in 0..(Precision - 1) : SelectValidator(target)

Spec == Init /\ [][Next]_vars
----------------------------------------------------------------------------
\* Normalized: calcFrequencyRLP ends with a sum that misses Precision by less
\* than one for each candidate and never exceeds it, however often the minimum
\* was hit on the way, and more stake never means a lower frequency.
Normalized ==
  phase = "done" =>
    /\ SumFunction(freq) \in (Precision - Cardinality(Candidates) + 1)..Precision
    /\ \A a, b \in Candidates : Amount(a) <= Amount(b) => freq[a] <= freq[b]

\* ShareOfTurns: over all hash values a candidate is drawn as often as its
\* frequency says, at least MinFreq times; only the last address may be drawn
\* more often, by the part the rounding lost.
ShareOfTurns ==
  phase = "done" =>
    \A a \in Candidates :
      LET turns == Cardinality({t \in 0..(Precision - 1) : Selected(t) = a})
      IN  /\ turns >= MinFreq
          /\ \/ turns = freq[a]
             \/ a = Max(Candidates) /\ turns - freq[a] \in 0..(Cardinality(Candidates) - 1)
=============================================================================
