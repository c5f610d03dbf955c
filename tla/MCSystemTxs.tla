---------------------------- MODULE MCSystemTxs ----------------------------
(* A small instance of SystemTxs for TLC.                                  *)
EXTENDS SystemTxs, MCTwoBranches
============================================================================
