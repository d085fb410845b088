------------------------------ MODULE MCBuffer ------------------------------
(***************************************************************************)
(* Three packets for two destinations and a buffer of two slots, so that   *)
(* it fills up and a dispatch finds packets of both kinds.                 *)
(***************************************************************************)
EXTENDS Buffer

MCPkts == {"p1", "p2", "p3"}
MCDsts == {"C", "D"}
MCDstOf == [p \in MCPkts |-> IF p = "p3" THEN "D" ELSE "C"]
=============================================================================
