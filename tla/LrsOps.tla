------------------------------- MODULE LrsOps -------------------------------
(***************************************************************************)
(* The operations of the Local Route Set (aodvv2_lrs.c) as functions of    *)
(* the routing table and of the current time.  The table is an array of    *)
(* LrsSize slots; a slot is a Local Route and the flag "used".             *)
(*                                                                         *)
(* aodvv2_lrs_get_entry is not a pure read: on its way to the entry it     *)
(* ages every slot it passes (_reset_entry_if_stale), so it is split in    *)
(* the table it leaves (AfterGet) and the index it returns (Found).        *)
(***************************************************************************)
EXTENDS SeqnumCmp, ArrayScan, Address

CONSTANTS LrsSize,            \* CONFIG_AODVV2_MAX_ROUTING_ENTRIES
          ActiveInterval,     \* CONFIG_AODVV2_ACTIVE_INTERVAL
          MaxIdletime,        \* CONFIG_AODVV2_MAX_IDLETIME
          MaxSeqnumLifetime   \* CONFIG_AODVV2_MAX_SEQNUM_LIFETIME

ASSUME LrsAssumption ==
    /\ LrsSize \in Nat \ {0}
    /\ ActiveInterval \in Nat \ {0}
    /\ MaxIdletime \in Nat
    /\ MaxSeqnumLifetime \in Nat \ {0}

Slots == 1 .. LrsSize

\* validity_t, the lifetime given to a route when it is learned.
Validity == ActiveInterval + MaxIdletime

RouteStates == {"active", "idle", "expired"}

\* memset(.., 0, sizeof(aodvv2_local_route_t)); ROUTE_STATE_ACTIVE is 0.
BlankRoute == [addr |-> NoAddr, metric_type |-> 0, seqnum |-> 0,
               next_hop |-> NoAddr, metric |-> 0, last_used |-> 0,
               expiration_time |-> 0, state |-> "active"]

BlankSlot == [used |-> FALSE, route |-> BlankRoute]

aodvv2_lrs_init == [i \in Slots |-> BlankSlot]

-----------------------------------------------------------------------------
\* Mutant: expires an idle route without looking at its expiration time.
ResetForgetsExpiration(r, now) ==
    IF r.expiration_time = 0 \/ now < ActiveInterval
    THEN r
    ELSE IF now - r.last_used >= ActiveInterval
         THEN BlankRoute
         ELSE r

(***************************************************************************)
(* _reset_entry_if_stale on one route.  state and last_used are read       *)
(* before the Active -> Idle transition changes them, so the tests below   *)
(* it use the old values: a route leaves Active and reaches Expired in two *)
(* different calls, and a long untouched Active route is erased at once.   *)
(***************************************************************************)
ResetIfStale(r, now) ==
    IF r.expiration_time = 0 \/ now < ActiveInterval
    THEN r
    ELSE LET unused == r.state = "active" /\ now - ActiveInterval > r.last_used
             aged   == IF unused THEN [r EXCEPT !.state = "idle", !.last_used = now]
                                 ELSE r
         IN  IF now < r.expiration_time
             THEN aged
             ELSE IF now - r.last_used >= MaxSeqnumLifetime
                  THEN BlankRoute
                  ELSE IF r.state = "idle"
                       THEN [r EXCEPT !.state = "expired", !.last_used = now]
                       ELSE aged

\* Only the route is erased: the slot stays marked as used.
ResetSlot(s, now) == [s EXCEPT !.route = ResetIfStale(@, now)]

-----------------------------------------------------------------------------
\* Mutant: finds Active routes only.
MatchesActive(s, addr, mt) ==
    s.route.addr = addr /\ s.route.metric_type = mt /\ s.route.state = "active"

\* The test of aodvv2_lrs_get_entry, which does not look at "used".
Matches(s, addr, mt) == s.route.addr = addr /\ s.route.metric_type = mt

Hits(rt, now, addr, mt) == {i \in Slots : Matches(ResetSlot(rt[i], now), addr, mt)}

\* Index of the entry aodvv2_lrs_get_entry returns, 0 for NULL.
Found(rt, now, addr, mt) ==
    FirstOrNone(Hits(rt, now, addr, mt))

\* The table it leaves: every slot up to the one found has been aged.
AfterGet(rt, now, addr, mt) ==
    LET found == Found(rt, now, addr, mt)
    IN  [i \in Slots |-> IF found = 0 \/ i <= found THEN ResetSlot(rt[i], now)
                                                    ELSE rt[i]]

FreeSlots(rt) == {i \in Slots : ~rt[i].used}

\* First unused slot; nothing happens when the destination is known or every
\* slot is used.
aodvv2_lrs_add_entry(rt, now, entry) ==
    LET rt1   == AfterGet(rt, now, entry.addr, entry.metric_type)
        known == Found(rt, now, entry.addr, entry.metric_type) # 0
        free  == FreeSlots(rt1)
    IN  IF known \/ free = {}
        THEN rt1
        ELSE [rt1 EXCEPT ![First(free)] = [used |-> TRUE, route |-> entry]]

\* Mutant: marks the slot as free and leaves the route in it.
DeleteFlagOnly(rt, now, addr, mt) ==
    LET found == FirstOrNone({i \in Hits(rt, now, addr, mt) : rt[i].used})
    IN  [i \in Slots |-> IF i = found THEN [rt[i] EXCEPT !.used = FALSE] ELSE rt[i]]

\* Deletes the first slot in use that matches, ageing the slots before it.
aodvv2_lrs_delete_entry(rt, now, addr, mt) ==
    LET found == FirstOrNone({i \in Hits(rt, now, addr, mt) : rt[i].used})
    IN  [i \in Slots |-> IF i = found THEN BlankSlot
                         ELSE IF found = 0 \/ i < found THEN ResetSlot(rt[i], now)
                         ELSE rt[i]]

-----------------------------------------------------------------------------
(***************************************************************************)
(* aodvv2_lrs_offers_improvement.  The comparison is called with the new   *)
(* number as "existing" and the stored one as "received".  No code sets    *)
(* ROUTE_STATE_BROKEN, so the comparison alone decides.                    *)
(***************************************************************************)
aodvv2_lrs_offers_improvement(route, node) ==
    /\ aodvv2_seqnum_cmp(node.seqnum, route.seqnum) >= 0
    /\ ~(node.metric >= route.metric /\ route.state = "broken")
    /\ route.state # "broken"

\* aodvv2_lrs_fill_routing_entry_rreq / _rrep: "node" is OrigNode or TargNode
\* of the message.  The metric is a uint8_t.
FillRoutingEntry(node, sender, mt, now, link_cost) ==
    [addr |-> node.addr, metric_type |-> mt, seqnum |-> node.seqnum,
     next_hop |-> sender, metric |-> (node.metric + link_cost) % ByteMod,
     last_used |-> now, expiration_time |-> now + Validity, state |-> "active"]

(***************************************************************************)
(* How the reader's end callbacks use the set for the node a message       *)
(* describes: look it up, then add it, overwrite it, or give the message   *)
(* up because it offers no improvement.                                    *)
(***************************************************************************)
LearnOutcome(rt, now, node, mt) ==
    LET found == Found(rt, now, node.addr, mt)
        rt1   == AfterGet(rt, now, node.addr, mt)
    IN  IF found = 0 THEN "new"
        ELSE IF aodvv2_lrs_offers_improvement(rt1[found].route, node)
             THEN "better" ELSE "no_improvement"

LearnTable(rt, now, node, sender, mt, link_cost) ==
    LET found   == Found(rt, now, node.addr, mt)
        rt1     == AfterGet(rt, now, node.addr, mt)
        entry   == FillRoutingEntry(node, sender, mt, now, link_cost)
        outcome == LearnOutcome(rt, now, node, mt)
    IN  CASE outcome = "new"            -> aodvv2_lrs_add_entry(rt1, now, entry)
          [] outcome = "better"         -> [rt1 EXCEPT ![found].route = entry]
          [] outcome = "no_improvement" -> rt1
=============================================================================
