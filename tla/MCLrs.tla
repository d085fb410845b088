------------------------------- MODULE MCLrs -------------------------------
(***************************************************************************)
(* A table of two slots and three destinations of the hop-count metric     *)
(* (type 3), with a clock that reaches every ageing transition.            *)
(***************************************************************************)
EXTENDS Lrs

MCAddrs == {"A", "B", "C"}
MCNextHops == {"n1"}
MCMetricTypes == {3}
MCSeqnums == {1, 2}
MCMetrics == {0}
=============================================================================
