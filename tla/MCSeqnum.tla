------------------------------ MODULE MCSeqnum ------------------------------
(***************************************************************************)
(* The three threads that touch the counter: IPv6 (route_info callback),   *)
(* AODVv2 (RREP writer) and the shell, with their RIOT priorities.         *)
(***************************************************************************)
EXTENDS Seqnum

MCThreads == {"ipv6", "aodvv2", "shell"}
MCPrio == [t \in MCThreads |->
             CASE t = "ipv6" -> 4 [] t = "aodvv2" -> 6 [] t = "shell" -> 7]
=============================================================================
