-------------------------------- MODULE Avl --------------------------------
(***************************************************************************)
(* One AVL tree in use: elements are inserted and removed in any order,    *)
(* and loops run over the tree whose body may remove the current element   *)
(* (avl_for_each_element_safe and its reverse) or frees every element      *)
(* (avl_remove_all_elements).                                              *)
(***************************************************************************)
EXTENDS AvlOps

CONSTANTS LoopBound,      \* the loops are started on trees of at most this size
          FollowerBound   \* a tree in which a key occurs twice has at most this size

ASSUME AvlBounds == LoopBound \in Nat /\ FollowerBound \in Nat

VARIABLES tree,      \* struct avl_tree with the memory of its nodes
          loop,      \* the running loop: its kind, `element` and `ptr`
          todo       \* history: the elements the loop has yet to visit

vars == <<tree, loop, todo>>

Elements == Ring(tree, HEAD)
Added(n) == oonf_list_is_node_added(tree, n)   \* avl_is_node_added
NoLoop == [kind |-> "none", cur |-> HEAD, ptr |-> HEAD]

Init == tree = avl_init /\ loop = NoLoop /\ todo = <<>>

Duplicates(S) == \E m, n \in S : m # n /\ key[m] = key[n]

Insert(n) ==
    /\ loop = NoLoop /\ ~Added(n)
    /\ Duplicates({n} \cup {m \in Node : Added(m)}) => tree.count < FollowerBound
    /\ tree' = avl_insert(tree, n).tree
    /\ UNCHANGED <<loop, todo>>

Remove(n) ==
    /\ loop = NoLoop /\ Added(n)
    /\ tree' = avl_remove(tree, n)
    /\ UNCHANGED <<loop, todo>>

-----------------------------------------------------------------------------
Iterator(kind, it) == [kind |-> kind, cur |-> it.cur, ptr |-> it.ptr]

StartLoop(kind) ==
    /\ loop = NoLoop /\ tree.count <= LoopBound
    /\ LET last  == oonf_list_last_element(tree, HEAD)
           first == oonf_list_first_element(tree, HEAD)
       IN  CASE kind = "safe" ->
                  /\ loop' = Iterator(kind, RangeSafeStart(tree, first))
                  /\ todo' = Elements /\ UNCHANGED tree
             [] kind = "reverse_safe" ->
                  /\ loop' = Iterator(kind, RangeReverseSafeStart(tree, last))
                  /\ todo' = [i \in 1..Len(Elements) |-> Elements[Len(Elements) + 1 - i]]
                  /\ UNCHANGED tree
             [] kind = "remove_all" ->
                  /\ loop' = Iterator(kind, RangeSafeStart(tree, first))
                  /\ todo' = Elements
                  /\ tree' = [oonf_list_init_head(tree, HEAD) EXCEPT !.root = NULL]

\* The condition of the loop: its bound is read again on every turn.
GoesOn ==
    \/ loop.kind = "safe"
       /\ RangeSafeGoesOn(tree, loop, oonf_list_last_element(tree, HEAD))
    \/ loop.kind = "reverse_safe"
       /\ RangeReverseSafeGoesOn(tree, loop, oonf_list_first_element(tree, HEAD))
    \/ loop.kind = "remove_all" /\ tree.count > 0

\* Mutant: the turn follows the current element, which may be gone.
NextIteratorUnsafe(T) ==
    LET step == IF loop.kind = "reverse_safe" THEN "prev" ELSE "next"
        e    == IF T[step][loop.cur] = NULL THEN HEAD ELSE T[step][loop.cur]
    IN  Iterator(loop.kind, [cur |-> e, ptr |-> T[step][e]])

NextIterator(T) ==
    Iterator(loop.kind, IF loop.kind = "reverse_safe" THEN RangeReverseSafeNext(T, loop)
                        ELSE RangeSafeNext(T, loop))

\* The rest of the turn after the body left the tree as T.
Turn(T) ==
    /\ tree' = T
    /\ loop' = NextIterator(T)
    /\ todo' = IF todo = <<>> THEN <<>> ELSE Tail(todo)

BodyKeeps == loop.kind \in {"safe", "reverse_safe"} /\ GoesOn /\ Turn(tree)

BodyRemoves ==
    /\ loop.kind \in {"safe", "reverse_safe"} /\ GoesOn
    /\ Turn(avl_remove(tree, loop.cur))

\* The body frees the element; its memory is not looked at any more.
BodyFrees ==
    /\ loop.kind = "remove_all" /\ GoesOn
    /\ Turn([oonf_list_init_node(Cleared(tree, loop.cur), loop.cur)
               EXCEPT !.count = @ - 1])

LoopEnds ==
    /\ loop # NoLoop /\ ~GoesOn
    /\ loop' = NoLoop /\ todo' = <<>> /\ UNCHANGED tree

Next ==
    \/ \E n \in Node : Insert(n) \/ Remove(n)
    \/ \E kind \in {"safe", "reverse_safe", "remove_all"} : StartLoop(kind)
    \/ BodyKeeps \/ BodyRemoves \/ BodyFrees \/ LoopEnds

Spec == Init /\ [][Next]_vars

-----------------------------------------------------------------------------
RECURSIVE InOrder(_), Height(_)
InOrder(n) ==
    IF n = NULL THEN <<>> ELSE InOrder(tree.left[n]) \o <<n>> \o InOrder(tree.right[n])
Height(n) ==
    IF n = NULL THEN 0
    ELSE LET l == Height(tree.left[n])
             r == Height(tree.right[n])
         IN  1 + (IF l > r THEN l ELSE r)

InTree == {n \in Node : Added(n) /\ ~tree.follower[n]}
ChildOf(n) == {tree.left[n], tree.right[n]} \ {NULL}

(***************************************************************************)
(* PROPERTIES                                                              *)
(***************************************************************************)

\* Every field of the tree and of its nodes has its type; a balance is -1, 0
\* or 1 between two calls, although a rotation passes through -2 and 2.
TypeOK ==
    /\ tree.root \in Node \cup {NULL} /\ tree.count \in 0..Cardinality(Node)
    /\ \A f \in {"parent", "left", "right"} : tree[f] \in [Node -> Node \cup {NULL}]
    /\ tree.balance \in [Node -> -1..1] /\ tree.follower \in [Node -> BOOLEAN]
    /\ \A f \in {"next", "prev"} :
          tree[f] \in [Node \cup {HEAD} -> Node \cup {HEAD, NULL}]
    /\ loop.cur \in Node \cup {HEAD} /\ loop.ptr \in Node \cup {HEAD}

\* Whatever was inserted and removed, and by whichever rotations, the tree is
\* one tree with consistent parent pointers, each balance is the difference of
\* the heights below it, and its nodes in order are exactly the elements of
\* the list that are not followers, sorted, with every follower behind an
\* element of its own key; count is the length of the list.  The elements of a
\* tree being freed are out of it one after the other, so only the type is
\* stated for it then.
TreeAgreesWithList ==
    /\ TypeOK
    /\ LET list == Elements IN
       loop.kind # "remove_all" =>
       /\ tree.count = Len(list)
       /\ Linked(tree, {HEAD} \cup {n \in Node : Added(n)})
       /\ tree.root # NULL => tree.parent[tree.root] = NULL
       /\ InOrder(tree.root) = SelectSeq(list, LAMBDA n : ~tree.follower[n])
       /\ \A n \in InTree :
             /\ \A c \in ChildOf(n) : tree.parent[c] = n
             /\ tree.balance[n] = Height(tree.right[n]) - Height(tree.left[n])
       /\ \A i \in 1..Len(list) - 1 :
             IF tree.follower[list[i + 1]] THEN key[list[i]] = key[list[i + 1]]
             ELSE key[list[i]] < key[list[i + 1]]

\* The lookups by key, which start in the tree and end in the list, return
\* the first element with the key, the last one not above it, the first one not
\* below it, and all elements with the key.
LookupsAgree ==
    loop = NoLoop =>
    LET list == Elements
        First(s) == IF s = <<>> THEN NULL ELSE s[1]
        Final(s) == IF s = <<>> THEN NULL ELSE s[Len(s)]
    IN  \A k \in 0..1 + Cardinality(Node) :
          LET same == SelectSeq(list, LAMBDA n : key[n] = k)
          IN  /\ avl_find(tree, k) = First(same)
              /\ ElementsWithKey(tree, k) = same
              /\ avl_find_lessequal(tree, k) = Final(SelectSeq(list, LAMBDA n : key[n] <= k))
              /\ avl_find_greaterequal(tree, k) = First(SelectSeq(list, LAMBDA n : key[n] >= k))

\* A safe loop visits every element that was in the tree when it started, once
\* and in order, however many of them its body removes on the way, and
\* avl_remove_all_elements visits them all although the list is empty already.
LoopVisitsAll ==
    loop # NoLoop => IF todo = <<>> THEN ~GoesOn ELSE GoesOn /\ loop.cur = Head(todo)

\* Seen from outside, the tree is a sorted sequence of elements.
Bag == INSTANCE SortedBag WITH
         Element <- Node, keyOf <- key, dups <- allow_dups, bag <- Elements
ImplementsSortedBag == Bag!Spec
=============================================================================
