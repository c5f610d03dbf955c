-------------------------- MODULE MCSnapshotStore --------------------------
(* Small instances of SnapshotStore for TLC.                               *)
EXTENDS SnapshotStore

Addr3 == 1..3
Pairs == {{1, 2}, {2, 3}}
============================================================================
