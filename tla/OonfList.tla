------------------------------ MODULE OonfList ------------------------------
(***************************************************************************)
(* Doubly linked rings (oonf_api/common/list.h).  L is any record with the *)
(* two functions next and prev from entities to entities or NULL: a list   *)
(* head and the nodes of its ring are entities of the same kind.           *)
(***************************************************************************)
EXTENDS Naturals, Sequences, FiniteSets

CONSTANT NULL

oonf_list_init_head(L, head) == [L EXCEPT !.next[head] = head, !.prev[head] = head]

oonf_list_init_node(L, node) == [L EXCEPT !.next[node] = NULL, !.prev[node] = NULL]

\* __oonf_list_add: new goes between two neighbours of a ring.
ListAdd(L, prev, next, new) ==
    [L EXCEPT !.next[new] = next, !.prev[new] = prev,
              !.prev[next] = new, !.next[prev] = new]

oonf_list_add_head(L, head, new)     == ListAdd(L, head, L.next[head], new)
oonf_list_add_tail(L, head, new)     == ListAdd(L, L.prev[head], head, new)
oonf_list_add_before(L, before, new) == ListAdd(L, L.prev[before], before, new)
oonf_list_add_after(L, after, new)   == ListAdd(L, after, L.next[after], new)

\* __oonf_list_remove: what lies between the two entities leaves the ring.
ListUnlink(L, prev, next) == [L EXCEPT !.next[prev] = next, !.prev[next] = prev]

oonf_list_remove(L, node) ==
    oonf_list_init_node(ListUnlink(L, L.prev[node], L.next[node]), node)

oonf_list_is_empty(L, head)      == L.next[head] = head /\ L.prev[head] = head
oonf_list_is_node_added(L, node) == L.next[node] # NULL /\ L.prev[node] # NULL
oonf_list_is_first(L, head, e)   == L.next[head] = e
oonf_list_is_last(L, head, e)    == L.prev[head] = e

\* The elements of from follow those of to, and from is left empty.
oonf_list_merge(L, to, from) ==
    IF oonf_list_is_empty(L, from) THEN L
    ELSE LET first == L.next[from]
             last  == L.prev[from]
             glued == ListUnlink(L, L.prev[to], first)
         IN  oonf_list_init_head(ListUnlink(glued, last, to), from)

\* oonf_list_first_element, _last_, _next_, _prev_: container_of the pointer.
oonf_list_first_element(L, head) == L.next[head]
oonf_list_last_element(L, head)  == L.prev[head]
oonf_list_next_element(L, e)     == L.next[e]
oonf_list_prev_element(L, e)     == L.prev[e]

(***************************************************************************)
(* The loop over a range safe against removal of the current element: the  *)
(* element of the body, the one saved for the next turn, the loop's        *)
(* condition.  The bound is evaluated on every turn.                       *)
(***************************************************************************)
RangeSafeStart(L, first)       == [cur |-> first, ptr |-> L.next[first]]
RangeSafeGoesOn(L, it, last)   == L.prev[it.cur] # last
RangeSafeNext(L, it)           == [cur |-> it.ptr, ptr |-> L.next[it.ptr]]
RangeReverseSafeStart(L, last) == [cur |-> last, ptr |-> L.prev[last]]
RangeReverseSafeGoesOn(L, it, first) == L.next[it.cur] # first
RangeReverseSafeNext(L, it)    == [cur |-> it.ptr, ptr |-> L.prev[it.ptr]]

-----------------------------------------------------------------------------
\* A walk through a ring goes on until it is at the head, or at a node in no ring.
GoOn(L, head) ==
    [walk \in Seq(DOMAIN L.next) |->
        LET next == L.next[IF walk = <<>> THEN head ELSE walk[Len(walk)]]
        IN  IF next \in {head, NULL} THEN walk ELSE Append(walk, next)]

\* The elements of a ring in order, from the head's next to its prev.
Ring(L, head) ==
    LET walk[k \in Nat] == IF k = 0 THEN <<>> ELSE GoOn(L, head)[walk[k - 1]]
    IN  walk[Cardinality(DOMAIN L.next)]

\* Among the entities of S the two rings of pointers are each other's inverse.
Linked(L, S) ==
    \A e \in S : /\ L.next[e] \in S /\ L.prev[L.next[e]] = e
                 /\ L.prev[e] \in S /\ L.next[L.prev[e]] = e
=============================================================================
