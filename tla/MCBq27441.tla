----------------------------- MODULE MCBq27441 -----------------------------
(***************************************************************************)
(* Two values for a byte, a second of three ticks, and time for two pairs  *)
(* of commands closer than a second and one further apart.                 *)
(***************************************************************************)
EXTENDS Bq27441
=============================================================================
