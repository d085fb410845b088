------------------------------- MODULE AvlOps -------------------------------
(***************************************************************************)
(* The AVL tree of oonf_api/common/avl.c, which holds the message types,   *)
(* addresses, address TLV types and consumers of the RFC 5444 library.     *)
(*                                                                         *)
(* T is the memory of one tree: root and count of struct avl_tree, and the *)
(* fields parent, left, right, balance and follower of every node; next    *)
(* and prev are the list pointers of the nodes and of the tree's own HEAD. *)
(* Left and right mirror each other in the code; here the side is a        *)
(* parameter.  A read through a NULL pointer is an error of the model.     *)
(***************************************************************************)
EXTENDS OonfList, Integers

CONSTANTS Node,    \* the struct avl_node's there are
          HEAD,    \* oonf_list_head of the tree
          key,     \* the key of each node
          allow_dups

ASSUME AvlConstants ==
    /\ NULL \notin Node /\ HEAD \notin Node /\ NULL # HEAD
    /\ IsFiniteSet(Node) /\ key \in [Node -> Nat] /\ allow_dups \in BOOLEAN

avl_comp(k1, k2) == IF k1 > k2 THEN 1 ELSE IF k2 > k1 THEN -1 ELSE 0

Sides == {"left", "right"}
Other(side) == IF side = "left" THEN "right" ELSE "left"
Weight(side) == IF side = "left" THEN -1 ELSE 1   \* what a higher side adds to balance
SideOf(T, n) == IF T.left[T.parent[n]] = n THEN "left" ELSE "right"

avl_init ==
    LET none == [n \in Node |-> NULL]
    IN  [root |-> NULL, count |-> 0, parent |-> none, left |-> none, right |-> none,
         balance |-> [n \in Node |-> 0], follower |-> [n \in Node |-> FALSE],
         next |-> [e \in Node \cup {HEAD} |-> IF e = HEAD THEN HEAD ELSE NULL],
         prev |-> [e \in Node \cup {HEAD} |-> IF e = HEAD THEN HEAD ELSE NULL]]

-----------------------------------------------------------------------------
\* _avl_find_rec: the tree node with key k, or the one k would hang below.
RECURSIVE find_rec(_, _, _)
find_rec(T, n, k) ==
    LET diff == avl_comp(k, key[n])
        side == IF diff < 0 THEN "left" ELSE "right"
    IN  IF diff = 0 \/ T[side][n] = NULL THEN n ELSE find_rec(T, T[side][n], k)

avl_find(T, k) ==
    IF T.root = NULL THEN NULL
    ELSE LET n == find_rec(T, T.root, k)
         IN  IF key[n] = k THEN n ELSE NULL

\* The loops of the two functions below, w = 1 for the greatest key <= k and -1
\* for the least key >= k: back while the node is past k, then on while the next
\* one is not.
Past(w, k, n) == w * avl_comp(k, key[n]) < 0
Back(w) == IF w = 1 THEN "prev" ELSE "next"

RECURSIVE WalkBack(_, _, _, _)
WalkBack(T, n, k, w) ==
    IF ~Past(w, k, n) THEN n
    ELSE IF T[Back(-w)][HEAD] = n THEN NULL ELSE WalkBack(T, T[Back(w)][n], k, w)

RECURSIVE WalkOn(_, _, _, _)
WalkOn(T, n, k, w) ==
    IF T[Back(w)][HEAD] = n \/ Past(w, k, T[Back(-w)][n]) THEN n
    ELSE WalkOn(T, T[Back(-w)][n], k, w)

\* Mutant: the other elements with the key are not passed.
FindNearFirst(T, k, w) ==
    IF T.root = NULL THEN NULL ELSE WalkBack(T, find_rec(T, T.root, k), k, w)

FindNear(T, k, w) ==
    IF T.root = NULL THEN NULL
    ELSE LET n == WalkBack(T, find_rec(T, T.root, k), k, w)
         IN  IF n = NULL THEN NULL ELSE WalkOn(T, n, k, w)

avl_find_lessequal(T, k)    == FindNear(T, k, 1)
avl_find_greaterequal(T, k) == FindNear(T, k, -1)

\* Mutant: the first of the equal keys stands for the last.
avl_find_lastFirst(T, n) == n

\* The last node with the key of n: n, or the last of the followers behind it.
RECURSIVE avl_find_last(_, _)
avl_find_last(T, n) ==
    IF oonf_list_is_last(T, HEAD, n) \/ ~T.follower[T.next[n]] THEN n
    ELSE avl_find_last(T, T.next[n])

-----------------------------------------------------------------------------
\* Hangs n below the parent of old, in the place old has there.
PutInPlaceOf(T, old, n) ==
    IF T.parent[old] = NULL THEN [T EXCEPT !.root = n]
    ELSE IF T.left[T.parent[old]] = old THEN [T EXCEPT !.left[T.parent[old]] = n]
    ELSE [T EXCEPT !.right[T.parent[old]] = n]

\* The child of n on the other side rises and n descends to `side`.
Rotate(T, n, side) ==
    LET s     == Weight(side)
        up    == T[Other(side)][n]
        inner == T[side][up]
        moved == [PutInPlaceOf(T, n, up) EXCEPT
                    !.parent[up] = T.parent[n], !.parent[n] = up,
                    ![Other(side)][n] = inner, ![side][up] = n]
        bn    == T.balance[n] + s - (IF s * T.balance[up] < 0 THEN T.balance[up] ELSE 0)
        bup   == T.balance[up] + s + (IF s * bn > 0 THEN bn ELSE 0)
        even  == [moved EXCEPT !.balance[n] = bn, !.balance[up] = bup]
    IN  IF inner = NULL THEN even ELSE [even EXCEPT !.parent[inner] = n]

avl_rotate_right(T, n) == Rotate(T, n, "right")
avl_rotate_left(T, n)  == Rotate(T, n, "left")

\* The subtree at n has grown.
RECURSIVE post_insert(_, _)
post_insert(T, n) ==
    IF T.parent[n] = NULL THEN T
    ELSE LET p    == T.parent[n]
             side == SideOf(T, n)
             b    == T.balance[p] + Weight(side)
             U    == [T EXCEPT !.balance[p] = b]
             V    == Rotate(U, n, side)
         IN  IF b = 0 THEN U
             ELSE IF b = Weight(side) THEN post_insert(U, p)
             ELSE IF T.balance[n] = Weight(side) THEN Rotate(U, p, Other(side))
             ELSE Rotate(V, V.parent[V.parent[n]], Other(side))

insert_before(T, pos, n) == [oonf_list_add_before(T, pos, n) EXCEPT !.count = @ + 1]
insert_after(T, pos, n)  == [oonf_list_add_after(T, pos, n) EXCEPT !.count = @ + 1]

\* Mutant: the new node always goes in front of n in the list.
AddChildInFront(T, n, new, side) ==
    [insert_before(T, n, new) EXCEPT ![side][n] = new, !.parent[new] = n]

\* The new node as a child of n, in the list next to it.
AddChild(T, n, new, side) ==
    LET listed == IF side = "left" THEN insert_before(T, n, new)
                  ELSE insert_after(T, avl_find_last(T, n), new)
    IN  [listed EXCEPT ![side][n] = new, !.parent[new] = n]

Cleared(T, n) ==
    [T EXCEPT !.parent[n] = NULL, !.left[n] = NULL, !.right[n] = NULL,
              !.balance[n] = 0, !.follower[n] = FALSE]

\* The tree after avl_insert, and what it returned.
avl_insert(T, new) ==
    LET U == Cleared(T, new) IN
    IF T.root = NULL
    THEN [tree |-> [oonf_list_add_head(U, HEAD, new) EXCEPT !.root = new, !.count = 1],
          result |-> 0]
    ELSE LET n    == find_rec(T, T.root, key[new])
             diff == avl_comp(key[new], key[n])
             side == IF T.balance[n] = 1 THEN "left"
                     ELSE IF T.balance[n] = -1 THEN "right"
                     ELSE IF diff < 0 THEN "left" ELSE "right"
             hung == AddChild(U, n, new, side)
         IN  IF diff = 0 /\ ~allow_dups THEN [tree |-> U, result |-> -1]
             ELSE IF diff = 0
             THEN [tree |-> insert_after([U EXCEPT !.follower[new] = TRUE], n, new),
                   result |-> 0]
             ELSE IF T.balance[n] # 0
             THEN [tree |-> [hung EXCEPT !.balance[n] = 0], result |-> 0]
             ELSE [tree |-> post_insert([hung EXCEPT !.balance[n] = Weight(side)], n),
                   result |-> 0]

-----------------------------------------------------------------------------
RECURSIVE Lightened(_, _, _)

\* The subtree at n has become lower.
avl_post_remove(T, n) ==
    IF T.parent[n] = NULL THEN T ELSE Lightened(T, T.parent[n], SideOf(T, n))

\* The given side of p has become lower: the balance is restored from p upwards.
Lightened(T, p, side) ==
    LET far == Other(side)
        b   == T.balance[p] + Weight(far)
        U   == [T EXCEPT !.balance[p] = b]
        sib == U[far][p]
        V   == IF U.balance[sib] = Weight(far) THEN Rotate(U, p, side)
               ELSE Rotate(Rotate(U, sib, far), p, side)
    IN  IF b = 0 THEN avl_post_remove(U, p)
        ELSE IF b = Weight(far) THEN U
        ELSE IF U.balance[sib] = 0 THEN Rotate(U, p, side)
        ELSE avl_post_remove(V, V.parent[p])

RECURSIVE local_min(_, _)
local_min(T, n) == IF T.left[n] = NULL THEN n ELSE local_min(T, T.left[n])

RECURSIVE remove_worker(_, _)

\* The least node right of n leaves its place and takes that of n.
ReplaceByMin(T, n) ==
    LET min == local_min(T, T.right[n])
        U   == remove_worker(T, min)
        V   == [PutInPlaceOf(U, n, min) EXCEPT
                  !.balance[min] = U.balance[n], !.parent[min] = U.parent[n],
                  !.left[min] = U.left[n], !.right[min] = U.right[n]]
        W   == IF U.left[n] = NULL THEN V ELSE [V EXCEPT !.parent[U.left[n]] = min]
    IN  IF U.right[n] = NULL THEN W ELSE [W EXCEPT !.parent[U.right[n]] = min]

remove_worker(T, n) ==
    LET only == IF T.left[n] = NULL THEN T.right[n] ELSE T.left[n]
        gone == PutInPlaceOf(T, n, only)
    IN  IF T.left[n] # NULL /\ T.right[n] # NULL THEN ReplaceByMin(T, n)
        ELSE IF only # NULL
        THEN avl_post_remove([gone EXCEPT !.parent[only] = T.parent[n]], only)
        ELSE IF T.parent[n] = NULL THEN gone
        ELSE Lightened(gone, T.parent[n], SideOf(T, n))

\* The next node has the same key and takes the place of n in the tree.
Promote(T, n, next) ==
    LET U == [PutInPlaceOf(T, n, next) EXCEPT
                !.follower[next] = FALSE, !.balance[next] = T.balance[n],
                !.parent[next] = T.parent[n],
                !.left[next] = T.left[n], !.right[next] = T.right[n]]
        V == IF T.left[n] = NULL THEN U ELSE [U EXCEPT !.parent[T.left[n]] = next]
    IN  IF T.right[n] = NULL THEN V ELSE [V EXCEPT !.parent[T.right[n]] = next]

avl_remove_list(T, n) == [oonf_list_remove(T, n) EXCEPT !.count = @ - 1]

\* avl_remove; what is left in the fields of the removed node is dead, because
\* avl_insert clears them, and is cleared here already.
avl_remove(T, n) ==
    LET out == IF T.follower[n] THEN T
               ELSE IF /\ allow_dups /\ ~oonf_list_is_last(T, HEAD, n)
                       /\ T.follower[T.next[n]]
               THEN Promote(T, n, T.next[n])
               ELSE remove_worker(T, n)
    IN  Cleared(avl_remove_list(out, n), n)

-----------------------------------------------------------------------------
\* avl_for_each_elements_with_key: the element found and the followers after it.
RECURSIVE FollowersFrom(_, _)
FollowersFrom(T, e) ==
    IF e = HEAD \/ ~T.follower[e] THEN <<>> ELSE <<e>> \o FollowersFrom(T, T.next[e])

ElementsWithKey(T, k) ==
    LET start == avl_find(T, k)
    IN  IF start = NULL THEN <<>> ELSE <<start>> \o FollowersFrom(T, T.next[start])
=============================================================================
