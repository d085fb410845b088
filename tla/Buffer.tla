------------------------------- MODULE Buffer -------------------------------
(***************************************************************************)
(* The packet buffer (aodvv2_buffer.c): packets waiting for a route.  Two  *)
(* threads use its array and no lock protects it.                          *)
(*                                                                         *)
(*   - The IPv6 thread calls aodvv2_buffer_pkt_add (through _route_info)   *)
(*     when it has no route for a packet.  Its priority is higher than     *)
(*     that of the AODVv2 thread, so its calls are single steps here.      *)
(*   - The AODVv2 thread calls aodvv2_buffer_dispatch when an RREP brings  *)
(*     a route, and can be preempted anywhere: each test of a slot, each   *)
(*     hand-over of a packet and each assignment of _pkt_del is a step.    *)
(*                                                                         *)
(* External (GNRC), from how the code uses it: a packet has a reference    *)
(* count; gnrc_pktbuf_hold adds a reference, sending or dropping a packet  *)
(* gives one back, and gnrc_netapi_dispatch_send passes one on to the IPv6 *)
(* thread or, when that thread's queue is full, gives it back.             *)
(***************************************************************************)
EXTENDS Integers, FiniteSets, ArrayScan

CONSTANTS BufSize,   \* CONFIG_AODVV2_MAX_BUFFERED_PACKETS
          Pkts,      \* the packets the node's clients send
          Dsts,      \* their destinations
          DstOf,     \* the destination of each
          NoPkt,     \* NULL
          NoDst      \* the unspecified address

ASSUME BufferAssumption ==
    /\ BufSize \in Nat \ {0}
    /\ DstOf \in [Pkts -> Dsts]
    /\ NoPkt \notin Pkts /\ NoDst \notin Dsts

VARIABLES slots,     \* static buffered_pkt_t _buffered_pkts[]
          refs,      \* reference count of each packet
          unsent,    \* packets the clients have still to send
          ip6,       \* packets handed to the IPv6 thread and not yet taken
          route,     \* destinations the node has a route for (NIB)
          disp,      \* where the AODVv2 thread is in aodvv2_buffer_dispatch
          handed,    \* history: the packet of the last hand-over
          kept       \* history: packets aodvv2_buffer_pkt_add accepted and
                     \* that were not handed over since

vars == <<slots, refs, unsent, ip6, route, disp, handed, kept>>

BufSlots == 1 .. BufSize
EmptySlot == [used |-> FALSE, pkt |-> NoPkt, dst |-> NoDst]

\* "before": the packets for the destination that were there at the call and
\* were not handed over yet.
NotDispatching == [pc |-> "idle", i |-> 1, targ |-> NoDst, before |-> {}]

Init ==
    /\ slots = [i \in BufSlots |-> EmptySlot]   \* aodvv2_buffer_init
    /\ refs = [p \in Pkts |-> 0]
    /\ unsent = Pkts
    /\ ip6 = {}
    /\ route = {}
    /\ disp = NotDispatching
    /\ handed = NoPkt
    /\ kept = {}

-----------------------------------------------------------------------------
\* Mutant: stores the packet without holding it.
PktAddNoHold(p, before) ==
    LET i == FirstOrNone({j \in BufSlots : ~slots[j].used})
    IN  IF i # 0
        THEN /\ slots' = [slots EXCEPT ![i] = [used |-> TRUE, pkt |-> p, dst |-> DstOf[p]]]
             /\ refs' = [refs EXCEPT ![p] = before - 1]
             /\ kept' = kept \cup {p}
        ELSE /\ refs' = [refs EXCEPT ![p] = before - 1]
             /\ UNCHANGED <<slots, kept>>

(***************************************************************************)
(* aodvv2_buffer_pkt_add and the release with which the IPv6 thread ends   *)
(* its attempt: the first free slot takes the packet and a reference to    *)
(* it; a full buffer takes nothing.  "before" is the reference count with  *)
(* the IPv6 thread's own reference in it.                                  *)
(***************************************************************************)
PktAdd(p, before) ==
    LET i == FirstOrNone({j \in BufSlots : ~slots[j].used})
    IN  IF i # 0
        THEN /\ slots' = [slots EXCEPT ![i] = [used |-> TRUE, pkt |-> p, dst |-> DstOf[p]]]
             /\ refs' = [refs EXCEPT ![p] = before + 1 - 1]
             /\ kept' = kept \cup {p}
        ELSE /\ refs' = [refs EXCEPT ![p] = before - 1]
             /\ UNCHANGED <<slots, kept>>

\* The IPv6 thread with packet p: transmit it if there is a route, else
\* _route_info, which buffers it (and, elsewhere, starts a discovery).
Output(p, before) ==
    IF DstOf[p] \in route
    THEN /\ refs' = [refs EXCEPT ![p] = before - 1]
         /\ UNCHANGED <<slots, kept>>
    ELSE PktAdd(p, before)

ClientSends(p) ==
    /\ p \in unsent
    /\ unsent' = unsent \ {p}
    /\ Output(p, 1)
    /\ UNCHANGED <<ip6, route, disp, handed>>

Resend(p) ==
    /\ p \in ip6
    /\ ip6' = ip6 \ {p}
    /\ Output(p, refs[p])
    /\ UNCHANGED <<unsent, route, disp, handed>>

\* The lifetime of a route in the forwarding table runs out.
RouteExpires(d) ==
    /\ d \in route
    /\ route' = route \ {d}
    /\ UNCHANGED <<slots, refs, unsent, ip6, disp, handed, kept>>

-----------------------------------------------------------------------------
InSlots(d) == {slots[i].pkt : i \in {j \in BufSlots : slots[j].used /\ slots[j].dst = d}}

\* An RREP for one of the node's RREQs: the route is in the forwarding table
\* and aodvv2_buffer_dispatch starts.
Dispatch(d) ==
    /\ disp.pc = "idle"
    /\ route' = route \cup {d}
    /\ disp' = [pc |-> "scan", i |-> 1, targ |-> d, before |-> InSlots(d)]
    /\ UNCHANGED <<slots, refs, unsent, ip6, handed, kept>>

AtSlot == disp.pc = "scan" /\ disp.i <= BufSize
Step(pc) == [disp EXCEPT !.pc = pc]
NextSlot == [disp EXCEPT !.pc = "scan", !.i = disp.i + 1]

\* Mutant: leaves the loop one slot early.
SkipLast ==
    /\ AtSlot
    /\ slots[disp.i].dst # disp.targ \/ disp.i = BufSize
    /\ disp' = NextSlot
    /\ UNCHANGED <<slots, refs, unsent, ip6, route, handed, kept>>

\* ipv6_addr_equal says no.
SkipSlot ==
    /\ AtSlot
    /\ slots[disp.i].dst # disp.targ
    /\ disp' = NextSlot
    /\ UNCHANGED <<slots, refs, unsent, ip6, route, handed, kept>>

\* It says yes: gnrc_netapi_dispatch_send, into the IPv6 thread's queue or,
\* the queue being full, nowhere.
HandOver ==
    /\ AtSlot
    /\ slots[disp.i].dst = disp.targ
    /\ LET p == slots[disp.i].pkt
       IN  /\ handed' = p
           /\ kept' = kept \ {p}
           /\ \/ ip6' = ip6 \cup ({p} \cap Pkts) /\ UNCHANGED refs
              \/ /\ refs' = IF p \in Pkts THEN [refs EXCEPT ![p] = @ - 1] ELSE refs
                 /\ UNCHANGED ip6
    /\ disp' = [disp EXCEPT !.pc = "del", !.before = @ \ {handed'}]
    /\ UNCHANGED <<slots, unsent, route>>

\* _pkt_del: its test and its three assignments.
DelUsed ==
    /\ disp.pc = "del"
    /\ IF slots[disp.i].used
       THEN /\ slots' = [slots EXCEPT ![disp.i].used = FALSE]
            /\ disp' = Step("del_pkt")
       ELSE /\ disp' = NextSlot
            /\ UNCHANGED slots
    /\ UNCHANGED <<refs, unsent, ip6, route, handed, kept>>

DelPkt ==
    /\ disp.pc = "del_pkt"
    /\ slots' = [slots EXCEPT ![disp.i].pkt = NoPkt]
    /\ disp' = Step("del_dst")
    /\ UNCHANGED <<refs, unsent, ip6, route, handed, kept>>

DelDst ==
    /\ disp.pc = "del_dst"
    /\ slots' = [slots EXCEPT ![disp.i].dst = NoDst]
    /\ disp' = NextSlot
    /\ UNCHANGED <<refs, unsent, ip6, route, handed, kept>>

Return ==
    /\ disp.pc = "scan" /\ disp.i > BufSize
    /\ disp' = NotDispatching
    /\ UNCHANGED <<slots, refs, unsent, ip6, route, handed, kept>>

DispatchStep == SkipSlot \/ HandOver \/ DelUsed \/ DelPkt \/ DelDst \/ Return

Next ==
    \/ \E p \in Pkts : ClientSends(p) \/ Resend(p)
    \/ \E d \in Dsts : RouteExpires(d) \/ Dispatch(d)
    \/ DispatchStep

Spec == Init /\ [][Next]_vars

-----------------------------------------------------------------------------
\* The type of the variables.
TypeOK ==
    /\ slots \in [BufSlots -> [used : BOOLEAN, pkt : Pkts \cup {NoPkt}, dst : Dsts \cup {NoDst}]]
    /\ refs \in [Pkts -> Nat]
    /\ unsent \subseteq Pkts /\ ip6 \subseteq Pkts /\ route \subseteq Dsts /\ kept \subseteq Pkts
    /\ disp \in [pc : {"idle", "scan", "del", "del_pkt", "del_dst"}, i : 1 .. BufSize + 1,
                 targ : Dsts \cup {NoDst}, before : SUBSET (Pkts \cup {NoPkt})]
    /\ handed \in Pkts \cup {NoPkt}

\* Slots whose packet belongs to the buffer: not the one being given away.
Owned(p) == {i \in BufSlots : /\ slots[i].used /\ slots[i].pkt = p
                              /\ ~(disp.pc = "del" /\ disp.i = i /\ handed = p)}

(***************************************************************************)
(* aodvv2_buffer_pkt_add and aodvv2_buffer_dispatch: a packet is never     *)
(* freed while the buffer or the IPv6 thread still points to it, however   *)
(* the threads interleave: it has a reference for each of them.  And       *)
(* although a dispatch tests the destination of a slot and not "used", it  *)
(* never hands NULL to GNRC.                                               *)
(***************************************************************************)
NoUseAfterFree ==
    /\ \A p \in Pkts :
           refs[p] >= Cardinality(Owned(p)) + (IF p \in ip6 THEN 1 ELSE 0)
    /\ disp.pc = "del" => handed # NoPkt

(***************************************************************************)
(* aodvv2_buffer_dispatch gives every packet for the destination that was  *)
(* buffered when it was called to the IPv6 thread before it returns.       *)
(***************************************************************************)
DispatchIsComplete == [][Return => disp.before = {}]_vars

-----------------------------------------------------------------------------
(***************************************************************************)
(* The comment in aodvv2_buffer_pkt_add, "we'll store it until we find a   *)
(* route to send it": a packet the buffer accepted is in a slot until it   *)
(* is handed over.                                                         *)
(***************************************************************************)
AcceptedIsStored == \A p \in kept : \E i \in BufSlots : slots[i].used /\ slots[i].pkt = p
=============================================================================
