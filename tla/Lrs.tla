-------------------------------- MODULE Lrs --------------------------------
(***************************************************************************)
(* The Local Route Set (aodvv2_lrs.c) over time.  The AODVv2 thread is its *)
(* only user: it learns routes from RREQs and RREPs, and looks up next     *)
(* hops when it forwards an RREP.  No timer ages the set: a route changes  *)
(* state only when some lookup happens to pass over its slot.              *)
(***************************************************************************)
EXTENDS LrsOps

CONSTANTS Addrs,        \* destination addresses
          NextHops,     \* neighbours that can be a next hop
          MetricTypes,  \* metric types a message can carry
          Seqnums,      \* sequence numbers a message can carry
          Metrics,      \* metrics a message can carry
          MaxTime       \* bound on the time that passes

ASSUME LrsInputs ==
    /\ NoAddr \notin Addrs /\ NoAddr \notin NextHops
    /\ MetricTypes \subseteq Nat /\ Seqnums \subseteq Nat /\ Metrics \subseteq Nat
    /\ MaxTime \in Nat

VARIABLES routing_table,  \* static lrs_entry_t routing_table[]
          now,            \* xtimer_now_timex
          asked,          \* the destination of the lookup just made, <<>> if there was none
          answer,         \* the route it returned, BlankRoute for NULL
          learned         \* history: when each destination was last learned, -1 if not

vars == <<routing_table, now, asked, answer, learned>>

Keys == Addrs \X MetricTypes
LinkCost == 1   \* aodvv2_metric_link_cost(METRIC_HOP_COUNT)

Init ==
    /\ routing_table = aodvv2_lrs_init
    /\ now = 0
    /\ asked = <<>> /\ answer = BlankRoute
    /\ learned = [k \in Keys |-> -1]

(***************************************************************************)
(* The part of _cb_rreq_end_callback and _cb_rrep_end_callback that works  *)
(* on the set.                                                             *)
(***************************************************************************)
Learn(addr, mt, seqnum, metric, sender) ==
    LET node  == [addr |-> addr, seqnum |-> seqnum, metric |-> metric]
        table == LearnTable(routing_table, now, node, sender, mt, LinkCost)
        kept  == \E i \in Slots :
                    table[i].route = FillRoutingEntry(node, sender, mt, now, LinkCost)
    IN  /\ routing_table' = table
        /\ learned' = IF kept THEN [learned EXCEPT ![<<addr, mt>>] = now] ELSE learned
        /\ asked' = <<>> /\ answer' = BlankRoute
        /\ UNCHANGED now

\* Mutant: answers with the first slot when there is no route.
GetNextHopFirst(addr, mt) ==
    LET found == Found(routing_table, now, addr, mt)
        table == AfterGet(routing_table, now, addr, mt)
    IN  /\ routing_table' = table
        /\ asked' = <<addr, mt>>
        /\ answer' = table[IF found = 0 THEN 1 ELSE found].route
        /\ UNCHANGED <<now, learned>>

\* aodvv2_lrs_get_next_hop.
GetNextHop(addr, mt) ==
    LET found == Found(routing_table, now, addr, mt)
        table == AfterGet(routing_table, now, addr, mt)
    IN  /\ routing_table' = table
        /\ asked' = <<addr, mt>>
        /\ answer' = IF found = 0 THEN BlankRoute ELSE table[found].route
        /\ UNCHANGED <<now, learned>>

DeleteEntry(addr, mt) ==
    /\ routing_table' = aodvv2_lrs_delete_entry(routing_table, now, addr, mt)
    /\ learned' = [learned EXCEPT ![<<addr, mt>>] = -1]
    /\ asked' = <<>> /\ answer' = BlankRoute
    /\ UNCHANGED now

Tick ==
    /\ now < MaxTime
    /\ now' = now + 1
    /\ asked' = <<>> /\ answer' = BlankRoute
    /\ UNCHANGED <<routing_table, learned>>

Next ==
    \/ \E addr \in Addrs, mt \in MetricTypes, seqnum \in Seqnums,
          metric \in Metrics, sender \in NextHops :
            Learn(addr, mt, seqnum, metric, sender)
    \/ \E addr \in Addrs, mt \in MetricTypes :
            GetNextHop(addr, mt) \/ DeleteEntry(addr, mt)
    \/ Tick

Spec == Init /\ [][Next]_vars

-----------------------------------------------------------------------------
Routes == [addr : Addrs \cup {NoAddr}, metric_type : MetricTypes \cup {0},
           seqnum : Nat, next_hop : NextHops \cup {NoAddr}, metric : Nat,
           last_used : Nat, expiration_time : Nat, state : RouteStates]

\* The type of the variables.
TypeOK ==
    /\ routing_table \in [Slots -> [used : BOOLEAN, route : Routes]]
    /\ now \in Nat
    /\ asked \in Keys \cup {<<>>} /\ answer \in Routes
    /\ learned \in [Keys -> Nat \cup {-1}]

(***************************************************************************)
(* aodvv2_lrs_get_entry compares addresses without testing "used".  That   *)
(* is sound because a slot not in use never holds a route.                 *)
(***************************************************************************)
UnusedIsBlank == \A i \in Slots : ~routing_table[i].used => routing_table[i].route = BlankRoute

(***************************************************************************)
(* aodvv2_lrs_add_entry, "only add if we don't already know the address":  *)
(* no destination ever has two routes, although ageing on the way to an    *)
(* entry empties slots in the middle of the table.                         *)
(***************************************************************************)
OneRoutePerDestination ==
    \A i, j \in Slots :
        LET r == routing_table[i].route
            q == routing_table[j].route
        IN  (i # j /\ r.addr # NoAddr) => <<r.addr, r.metric_type>> # <<q.addr, q.metric_type>>

(***************************************************************************)
(* _reset_entry_if_stale keeps what is known of a destination for at least *)
(* MAX_SEQNUM_LIFETIME after it was last learned, whatever lookups age the *)
(* slot in between ("old sequence number information is considered no      *)
(* longer valuable" only after that time).                                 *)
(***************************************************************************)
SeqnumInfoRetained ==
    \A k \in Keys :
        (learned[k] >= 0 /\ now - learned[k] < MaxSeqnumLifetime)
            => \E i \in Slots : /\ routing_table[i].used
                                /\ routing_table[i].route.addr = k[1]
                                /\ routing_table[i].route.metric_type = k[2]

(***************************************************************************)
(* Route life cycle (the comments in _reset_entry_if_stale): a route that  *)
(* is not replaced goes Active, Idle, Expired in this order, and no route  *)
(* is Expired, or erased other than by a deletion, before its expiration   *)
(* time.                                                                   *)
(***************************************************************************)
Rank(state) == CASE state = "active" -> 0 [] state = "idle" -> 1 [] state = "expired" -> 2

LifeCycle ==
    [][\A i \in Slots :
         LET r == routing_table[i].route
             q == routing_table'[i].route
         IN  r.addr # NoAddr =>
               \/ q.addr = r.addr /\ q.state = "active" /\ q.last_used = now
               \/ /\ q.addr = r.addr /\ Rank(q.state) >= Rank(r.state)
                  /\ (q.state = "expired" => r.expiration_time <= now)
               \/ /\ q = BlankRoute
                  /\ \/ r.expiration_time <= now
                     \/ learned'[<<r.addr, r.metric_type>>] = -1]_vars

(***************************************************************************)
(* The set behaves as a map from destinations to routes (RouteMap): slots, *)
(* flags and ageing do not show, except as routes that are forgotten.      *)
(***************************************************************************)
InfoOf(r) == [seqnum |-> r.seqnum, next_hop |-> r.next_hop, metric |-> r.metric]

KnownKeys == {k \in Keys : \E i \in Slots : Matches(routing_table[i], k[1], k[2])}

RouteTo(k) == routing_table[CHOOSE i \in Slots : Matches(routing_table[i], k[1], k[2])].route

Abstract == INSTANCE RouteMap WITH
    Infos    <- [seqnum : Seqnums, next_hop : NextHops,
                 metric : {(m + LinkCost) % ByteMod : m \in Metrics}],
    Capacity <- LrsSize,
    None     <- InfoOf(BlankRoute),
    Nobody   <- <<>>,
    routes   <- [k \in KnownKeys |-> InfoOf(RouteTo(k))],
    answer   <- InfoOf(answer)

ImplementsRouteMap == Abstract!Spec

=============================================================================
