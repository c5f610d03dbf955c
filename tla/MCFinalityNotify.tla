-------------------------- MODULE MCFinalityNotify --------------------------
(* Small instances of FinalityNotify for TLC.                              *)
EXTENDS FinalityNotify
=============================================================================
