----------------------------- MODULE MCSealing -----------------------------
(***************************************************************************)
(* One of three validators on three block numbers: out of turn, in turn.   *)
(***************************************************************************)
EXTENDS Sealing

CONSTANTS self, peer, other

MCLeader == [n \in 1..3 |-> IF n = 2 THEN peer ELSE IF n = 3 THEN self ELSE other]
============================================================================
