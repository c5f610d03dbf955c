-------------------------- MODULE MCVoteManager --------------------------
(* Small instances of VoteManager for TLC.                                *)
EXTENDS VoteManager
============================================================================
