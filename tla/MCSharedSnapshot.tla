-------------------------- MODULE MCSharedSnapshot --------------------------
(* A small instance of SharedSnapshot for TLC.                             *)
EXTENDS SharedSnapshot

\* Its own table puts validator 1 in turn for every block, the table of its
\* parent validator 2; round robin alternates.
MCTurn(n, table) == IF table = 0 THEN (n % 2) + 1 ELSE ((n - table) % 2) + 1

MCSealer == <<2, 1, 2, 1, 2>>
=============================================================================
