--------------------------- MODULE MCParliaChain ---------------------------
(* A small instance of ParliaChain for TLC.                                *)
EXTENDS ParliaChain

Addr3 == 1..3
AllLists == (SUBSET Addr) \ {{}}
============================================================================
