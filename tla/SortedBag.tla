----------------------------- MODULE SortedBag -----------------------------
(***************************************************************************)
(* What a user of an AVL tree relies on: a sequence of elements in the     *)
(* order of their keys, in which elements with equal keys may or may not   *)
(* be allowed.  Nothing of the tree shows.                                 *)
(***************************************************************************)
EXTENDS SortedSeq

CONSTANTS Element, keyOf, dups

VARIABLE bag

Insert(old, new, e) ==
    /\ \A i \in DOMAIN old : old[i] # e /\ (dups \/ keyOf[old[i]] # keyOf[e])
    /\ new = InsertByKey(old, keyOf, e)

Remove(old, new, e) ==
    /\ \E i \in DOMAIN old : old[i] = e
    /\ new = SelectSeq(old, LAMBDA x : x # e)

Change(old, new) ==
    \/ new = <<>>
    \/ Len(new) = Len(old) + 1 /\ \E e \in Element : Insert(old, new, e)
    \/ Len(new) = Len(old) - 1 /\ \E e \in Element : Remove(old, new, e)

Next == \E old \in {bag}, new \in {bag'} : Change(old, new)

Spec == bag = <<>> /\ [][Next]_bag
=============================================================================
