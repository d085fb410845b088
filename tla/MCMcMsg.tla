------------------------------ MODULE MCMcMsg ------------------------------
(***************************************************************************)
(* Three keys, one of them the node's own, compete for two entries; the    *)
(* stack holds either zeroes or something else when an own RREQ is built.  *)
(***************************************************************************)
EXTENDS McMsg

MCOrigs == {"A", "B", "self"}
MCTargs == {"T"}
MCOwnOrigs == {"self"}
MCSeqnums == {1, 2}
MCMetrics == {0, 1}
MCOwnSeqNoRtrs == {NoAddr, "garbage"}
=============================================================================
