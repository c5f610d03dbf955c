---------------------------- MODULE FinalLedger ----------------------------
(***************************************************************************)
(* What fast finality promises to a user: there is one ledger of finalized *)
(* blocks, a branch of the block tree from genesis on, and it only grows   *)
(* at its end.  FastFinality implements it.                                *)
(***************************************************************************)
VARIABLES
  branches,  \* the branches of the block tree: sets of blocks from genesis on
  ledger     \* the finalized blocks

Init == branches = {{0}} /\ ledger = {0}

\* New blocks appear, and a longer branch may be finalized.
Next ==
  /\ branches \subseteq branches'
  /\ ledger \subseteq ledger'
  /\ ledger' \in branches'

Spec == Init /\ [][Next]_<<branches, ledger>>
============================================================================
