------------------------------ MODULE RouteMap ------------------------------
(***************************************************************************)
(* What the Local Route Set promises its user, without slots, flags or     *)
(* time: a bounded map from destinations to routes.  Learning a route      *)
(* changes the entry of its own destination only; a lookup answers with    *)
(* the route of exactly the destination asked for; any operation may       *)
(* forget other routes (they have become stale), but never alters one.     *)
(***************************************************************************)
EXTENDS Integers, FiniteSets

CONSTANTS Keys,      \* destinations: address and metric type
          Infos,     \* what is known of a route: sequence number, next hop, metric
          Capacity,  \* most routes kept at a time
          None,      \* the answer when there is no route
          Nobody     \* the destination asked for when there was no lookup

VARIABLES routes, asked, answer

vars == <<routes, asked, answer>>

Keep(S) == [k \in S |-> routes[k]]

Init == routes = <<>> /\ asked = Nobody /\ answer = None

Learn(k, info) ==
    \E S \in SUBSET (DOMAIN routes \ {k}) :
        /\ Cardinality(S) < Capacity
        /\ routes' = [x \in S \cup {k} |-> IF x = k THEN info ELSE routes[x]]
        /\ asked' = Nobody /\ answer' = None

Lookup(k) ==
    \E S \in SUBSET DOMAIN routes :
        /\ routes' = Keep(S)
        /\ asked' = k
        /\ answer' = IF k \in S THEN routes[k] ELSE None

Forget ==
    \E S \in SUBSET DOMAIN routes :
        routes' = Keep(S) /\ asked' = Nobody /\ answer' = None

Next ==
    \/ \E k \in Keys : Lookup(k)
    \/ \E k \in Keys, info \in Infos : Learn(k, info)
    \/ Forget

Spec == Init /\ [][Next]_vars
=============================================================================
