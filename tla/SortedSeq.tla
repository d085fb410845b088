----------------------------- MODULE SortedSeq -----------------------------
(***************************************************************************)
(* The order avl_insert gives its list: elements are sorted by their keys, *)
(* and one whose key is there already goes right behind the first of them, *)
(* in front of any others.                                                 *)
(***************************************************************************)
EXTENDS Integers, Sequences, FiniteSets

\* The number of elements of s, whose keys are given by keys, in front of a new
\* one with key k.
KeyPlace(s, keys, k) ==
    LET same == {i \in DOMAIN s : keys[s[i]] = k}
    IN  IF same = {} THEN Cardinality({i \in DOMAIN s : keys[s[i]] < k})
        ELSE CHOOSE i \in same : \A j \in same : i <= j

InsertByKey(s, keys, e) ==
    LET at == KeyPlace(s, keys, keys[e])
    IN  SubSeq(s, 1, at) \o <<e>> \o SubSeq(s, at + 1, Len(s))

\* A loop that does step for one element of s after the other.
ForEach(step, S, s) ==
    LET after[n \in Nat] == IF n = 0 THEN S ELSE step[after[n - 1]][s[n]]
    IN  after[Len(s)]
=============================================================================
