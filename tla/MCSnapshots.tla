------------------------------ MODULE MCSnapshots --------------------------
(***************************************************************************)
(* What a snapshot says about the next block.  A behaviour picks its       *)
(* subject at the start: ParliaChain under the BSC forks with changing     *)
(* turn lengths and epoch lengths ("chain"), ParliaChain under one of      *)
(* three other schedules of forks (Chiliz before Snake8 with any sequence  *)
(* of sets, Chiliz across Snake8, the BSC forks in order with both changes *)
(* of the epoch length), the table of Snake8 (FrequencyTable), the         *)
(* goroutines that share a snapshot (SharedSnapshot), or the delays of     *)
(* validators out of turn (BackOff).  What is not its subject keeps an     *)
(* initial state.                                                          *)
(***************************************************************************)
EXTENDS ParliaChain, MCSharedSnapshot, BackOff

CONSTANTS
  Subjects,  \* the subjects to check
  Never      \* a block that no chain reaches

VARIABLES
  subject,
  otherChain, otherSnap, otherError, otherTurn,   \* ParliaChain, other schedules
  stake, recent, freq, iteration, phase, inturn   \* FrequencyTable

otherVars == <<otherChain, otherSnap, otherError, otherTurn>>
tableVars == <<stake, recent, freq, iteration, phase, inturn>>
allVars   == <<subject, vars, otherVars, tableVars, sharedVars, delayVars>>

MCAddr    == 1..3
MCLists   == {{1, 2}, {2, 3}, {3}}
MCMembers == 1..5

AllLists(A) == (SUBSET A) \ {{}}

Sets == INSTANCE ParliaChain
  WITH Addr <- 1..4, Lists <- AllLists(1..4), MaxBlock <- 11, TurnLengths <- {1}, QuorumAt <- {},
       DefaultEpochLength <- 6, LorentzEpochLength <- 500, MaxwellEpochLength <- 1000,
       Snake8TurnLength <- 50, LubanAt <- 9, PlatoAt <- Never, BohrAt <- Never,
       LorentzAt <- Never, MaxwellAt <- Never, FermiAt <- Never, Snake8At <- Never,
       chain <- otherChain, snap <- otherSnap, applyError <- otherError, turn <- otherTurn

Snake8 == INSTANCE ParliaChain
  WITH Addr <- 1..3, Lists <- {{1}, {2, 3}, {1, 2, 3}}, MaxBlock <- 12, TurnLengths <- {1},
       QuorumAt <- {}, DefaultEpochLength <- 8, LorentzEpochLength <- 500, MaxwellEpochLength <- 1000,
       Snake8TurnLength <- 2, LubanAt <- Never, PlatoAt <- Never, BohrAt <- Never,
       LorentzAt <- Never, MaxwellAt <- Never, FermiAt <- Never, Snake8At <- 2,
       chain <- otherChain, snap <- otherSnap, applyError <- otherError, turn <- otherTurn

Epochs == INSTANCE ParliaChain
  WITH Addr <- 1..3, Lists <- {{1, 2}, {3}}, MaxBlock <- 21, TurnLengths <- {1}, QuorumAt <- {12, 13},
       DefaultEpochLength <- 2, LorentzEpochLength <- 5, MaxwellEpochLength <- 10,
       Snake8TurnLength <- 50, LubanAt <- 0, PlatoAt <- 0, BohrAt <- 3,
       LorentzAt <- 5, MaxwellAt <- 11, FermiAt <- 12, Snake8At <- Never,
       chain <- otherChain, snap <- otherSnap, applyError <- otherError, turn <- otherTurn

\* A stake of 1 is below one whole token.
Table == INSTANCE FrequencyTable
  WITH Addr <- 1..4, Stakes <- {0, 1, 4, 26, 90, 174}, Decimals <- 2, Precision <- 100,
       MaxIterations <- 10

InitAll ==
  /\ subject \in Subjects
  /\ Init /\ (subject # "chain" => snap.validators = {3})
  /\ CASE subject = "snake8" -> Snake8!Init [] subject = "epochs" -> Epochs!Init
       [] OTHER -> Sets!Init /\ (subject # "sets" => otherSnap.validators = {1})
  /\ Table!Init /\ (subject # "table" => recent = {} /\ \A a \in 1..4 : stake[a] = 1)
  /\ SharedInit
  /\ DelayInit /\ (subject # "backoff" => sealers = {1} /\ fork = 0)

NextOfOther ==
  /\ \/ subject = "sets"   /\ Sets!Next
     \/ subject = "snake8" /\ Snake8!Next
     \/ subject = "epochs" /\ Epochs!Next
  /\ UNCHANGED <<subject, vars, tableVars, sharedVars, delayVars>>

NextOfOne ==
  \/ subject = "chain"   /\ Next       /\ UNCHANGED <<subject, otherVars, tableVars, sharedVars, delayVars>>
  \/ NextOfOther
  \/ subject = "table"   /\ Table!Next /\ UNCHANGED <<subject, vars, otherVars, sharedVars, delayVars>>
  \/ subject = "shared"  /\ SharedNext /\ UNCHANGED <<subject, vars, otherVars, tableVars, delayVars>>
  \/ subject = "backoff" /\ Shuffle    /\ UNCHANGED <<subject, vars, otherVars, tableVars, sharedVars>>

SpecOfOne == InitAll /\ [][NextOfOne]_allVars
----------------------------------------------------------------------------
\* What holds under the schedule at hand.
Under(sets, snake8, epochs) ==
  CASE subject = "sets" -> sets [] subject = "snake8" -> snake8
    [] subject = "epochs" -> epochs [] OTHER -> TRUE

\* OtherSchedules: before Snake8, across it, and through both changes of the epoch
\* length, every snapshot that apply makes has exact windows, takes what verifySeal
\* accepted, lets the chain grow, has the list that is due, keeps to the turn budget
\* and to the fold of the attestations, and Finalize slashes fairly (from Snake8 on,
\* the validators of the set).
OtherSchedules ==
  [][/\ Under(Sets!StepIsRight, Snake8!StepIsRight, Epochs!StepIsRight)
     /\ Under(Sets!StateIsRight, Snake8!StateIsRight, Epochs!StateIsRight)']_allVars

\* Normalized: calcFrequencyRLP ends with a sum that misses Precision by less
\* than one for each candidate and never exceeds it, and more stake never means a
\* lower frequency.
Normalized == Table!Normalized

\* ShareOfTurns: selectValidatorFromFrequencyRLP draws a candidate as often as
\* its frequency says; the last address also gets what the rounding lost.
ShareOfTurns == Table!ShareOfTurns
============================================================================
