------------------------------- MODULE MCAvl -------------------------------
(***************************************************************************)
(* Keys that occur once and a key that occurs three times, in a tree deep   *)
(* enough that one removal rotates on two levels.                          *)
(***************************************************************************)
EXTENDS Avl

MCNode == 1..14
\* Twelve different keys, one of them three times.
MCkey == [n \in MCNode |-> IF n <= 12 THEN n ELSE 6]
=============================================================================
