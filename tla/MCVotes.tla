------------------------------ MODULE MCVotes ------------------------------
(***************************************************************************)
(* The two halves of a vote's way after it was received: VotePool keeps    *)
(* it, FinalityNotify announces what it finalizes.  A behaviour is about   *)
(* one of the two; the other keeps its initial state.                      *)
(***************************************************************************)
EXTENDS MCVotePool, FinalityNotify

VARIABLE part

allVars == <<part, vars, notifyVars>>

InitBoth == Init /\ NotifyInit /\ part \in {"pool", "finality"}

NextOfOne ==
  /\ \/ part = "pool" /\ Next /\ UNCHANGED notifyVars
     \/ part = "finality" /\ NotifyNext /\ UNCHANGED vars
  /\ UNCHANGED part

SpecOfOne == InitBoth /\ [][NextOfOne]_allVars /\ Fairness /\ NotifyFairness
============================================================================
