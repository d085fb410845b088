------------------------------ MODULE ArrayScan ------------------------------
(***************************************************************************)
(* The loop every set of this code base is built on: walk a static array   *)
(* from index 0 and stop at the first slot that satisfies a condition.     *)
(* S is the set of indices that satisfy it, numbered from 1, and 0 stands  *)
(* for falling out of the loop (NULL, -1).                                 *)
(***************************************************************************)
EXTENDS Integers

First(S) == CHOOSE i \in S : \A j \in S : i <= j

FirstOrNone(S) == IF S = {} THEN 0 ELSE First(S)
=============================================================================
