------------------------------- MODULE Aodvv2 -------------------------------
(***************************************************************************)
(* Route discovery: AODVv2 routers (aodvv2.c, aodvv2_reader.c,             *)
(* aodvv2_writer.c) around their Local Route Sets and Multicast Message    *)
(* Sets, on a network of radio links that may delay, reorder and lose      *)
(* frames.                                                                 *)
(*                                                                         *)
(* Each router has an AODVv2 thread that takes one IPC message after the   *)
(* other (_event_loop): "send this RREQ / RREP" or "this packet came in".  *)
(* Handling one message is one step.  The IPv6 thread asks for a route in  *)
(* between (_route_info).                                                  *)
(*                                                                         *)
(* Node d announces its client prefix as Net[d] when it looks for a route, *)
(* and is looked for by the address Host[d] of a client.  All client       *)
(* prefixes have one length, so an address stands for itself and its       *)
(* length.  The metric type of every message is the hop count.             *)
(*                                                                         *)
(* _msg_data, into which every received message is parsed, is static.  Of  *)
(* the fields the model keeps, the next message overwrites all but the     *)
(* metric of TargNode: the reader stores the metric of an RREP in          *)
(* OrigNode's field.                                                       *)
(*                                                                         *)
(* A thread's step is atomic: the own queue is not refilled by a frame     *)
(* that comes in while an earlier one is being handled.                    *)
(***************************************************************************)
EXTENDS LrsOps, McMsgOps, Sequences, Bags, FiniteSets, Functions

CONSTANTS Nodes,         \* the routers
          Scenarios,     \* the situations to look at, see below
          Net, Host,     \* client prefix and client address of each router
          MaxMetric,     \* CONFIG_METRIC_HOP_COUNT_AODVV2_MAX
          QueueSize,     \* CONFIG_AODVV2_RFC5444_MSG_QUEUE_SIZE
          BufSize,       \* CONFIG_AODVV2_MAX_BUFFERED_PACKETS
          OwnSeqNoRtrs   \* what the uninitialised SeqNoRtr of an own RREQ may hold

(***************************************************************************)
(* A scenario is a network and what happens on it:                         *)
(*   links     pairs of routers in radio range of each other               *)
(*   senders   pairs <<n, d>>: n's clients may send a packet to Host[d]    *)
(*   packets   bound on the packets that need a route                      *)
(*   time      bound on the time that passes                               *)
(*   adds      what gnrc_ipv6_nib_ft_add may answer: TRUE is done, FALSE   *)
(*             that the NIB has no room for the entry                      *)
(***************************************************************************)
Addrs == {Net[n] : n \in Nodes} \cup {Host[n] : n \in Nodes}

ASSUME Aodvv2Assumption ==
    /\ NoAddr \notin Nodes /\ NoAddr \notin Addrs
    /\ Scenarios \subseteq [links : SUBSET (Nodes \X Nodes), senders : SUBSET (Nodes \X Nodes),
                            packets : Nat, time : Nat, adds : SUBSET BOOLEAN]
    /\ MaxMetric \in Nat \ {0} /\ MaxMetric < ByteMod
    /\ QueueSize \in Nat \ {0} /\ BufSize \in Nat \ {0}

\* Each router announces a prefix of its own, and no prefix is a client address.
ASSUME OwnPrefixes ==
    \A n, d \in Nodes : Net[n] # Host[d] /\ (Net[n] = Net[d] => n = d)

VARIABLES lrs,          \* Local Route Set of each node
          mcmsgs,       \* Multicast Message Set
          seqnum,       \* own sequence number
          targ_metric,  \* _msg_data.targ_node.metric
          queue,        \* IPC messages waiting for the AODVv2 thread
          ft,           \* forwarding table of the NIB (GNRC)
          refused,      \* history: destinations whose last ft_add the NIB refused
          waiting,      \* destinations in the slots of the packet buffer, :: in a free one
          air,          \* bag of frames sent and not yet received
          now,          \* xtimer_now_timex
          requests,     \* packets that needed a route so far
          scenario      \* the situation, the same all the time

nodeVars == <<lrs, mcmsgs, seqnum, targ_metric, queue, ft, refused, waiting>>
vars == <<nodeVars, air, now, requests, scenario>>

MetricType == 3      \* CONFIG_AODVV2_DEFAULT_METRIC
LinkCost == 1        \* aodvv2_metric_link_cost(METRIC_HOP_COUNT)

BufSlots == 1 .. BufSize

Neighbours(n) == {m \in Nodes : <<n, m>> \in scenario.links \/ <<m, n>> \in scenario.links}

\* aodvv2_rcs_is_client: what node n does route discovery for.
IsClient(n, addr) == addr = Net[n] \/ addr = Host[n]

NoRoute == [next_hop |-> NoAddr, until |-> 0]

\* A prefix route to Net[d] serves Host[d] too.
HasRoute(n, d) ==
    \E a \in {Net[d], Host[d]} : ft[n][a].next_hop # NoAddr /\ now < ft[n][a].until

\* aodvv2_init of every node.
Init ==
    /\ lrs = [n \in Nodes |-> aodvv2_lrs_init]
    /\ mcmsgs = [n \in Nodes |-> aodvv2_mcmsg_init]
    /\ seqnum = [n \in Nodes |-> 1]
    /\ targ_metric = [n \in Nodes |-> 0]
    /\ queue = [n \in Nodes |-> <<>>]
    /\ ft = [n \in Nodes |-> [a \in Addrs |-> NoRoute]]
    /\ refused = [n \in Nodes |-> {}]
    /\ waiting = [n \in Nodes |-> [i \in BufSlots |-> NoAddr]]
    /\ air = EmptyBag
    /\ now = 0
    /\ requests = 0
    /\ scenario \in Scenarios

-----------------------------------------------------------------------------
\* aodvv2_seqnum_inc.
NextSeqnum(s) == IF s >= SeqMod - 1 THEN 1 ELSE s + 1

\* What aodvv2_mcmsg_process looks at in a message.
McView(msg, rtr) ==
    [orig |-> msg.orig, targ |-> msg.targ, metric_type |-> MetricType,
     seqnum |-> msg.orig_seqnum, metric |-> msg.orig_metric, seqnortr |-> rtr]

SendRreqTo(msg) == [kind |-> "send_rreq", msg |-> msg, next_hop |-> NoAddr]
SendRrepTo(msg, next_hop) == [kind |-> "send_rrep", msg |-> msg, next_hop |-> next_hop]

\* aodvv2_find_route.  msg_send blocks while the queue is full.
aodvv2_find_route(n, targ, rtr) ==
    LET msg == [hop_limit |-> MaxMetric, orig |-> Net[n], orig_seqnum |-> seqnum[n],
                orig_metric |-> 0, targ |-> targ, targ_metric |-> 0]
    IN  /\ Len(queue[n]) < QueueSize
        /\ seqnum' = [seqnum EXCEPT ![n] = NextSeqnum(@)]
        /\ mcmsgs' = [mcmsgs EXCEPT ![n] = aodvv2_mcmsg_process(@, now, McView(msg, rtr)).mc]
        /\ queue' = [queue EXCEPT ![n] = Append(@, SendRreqTo(msg))]

FreeBuffer(n) == {i \in BufSlots : waiting[n][i] = NoAddr}

(***************************************************************************)
(* _route_info: the IPv6 thread of n has a packet of a client for Host[d]  *)
(* and no route.  The packet is buffered and a discovery starts; when the  *)
(* buffer is full the packet is dropped and nothing else happens.          *)
(***************************************************************************)
RouteInfo(n, d, rtr) ==
    /\ requests < scenario.packets
    /\ ~HasRoute(n, d)
    /\ FreeBuffer(n) # {}
    /\ requests' = requests + 1
    /\ waiting' = [waiting EXCEPT ![n][First(FreeBuffer(n))] = Host[d]]
    /\ aodvv2_find_route(n, Host[d], rtr)
    /\ UNCHANGED <<lrs, targ_metric, ft, refused, air, now, scenario>>

-----------------------------------------------------------------------------
\* The AODVv2 thread of n is about to handle an IPC message of this kind.
Handles(n, kind) == queue[n] # <<>> /\ Head(queue[n]).kind = kind
Item(n) == Head(queue[n])

\* _send_rreq: the writer's RREQ goes to every neighbour (LL-MANET-Routers).
SendRreq(n) ==
    /\ Handles(n, "send_rreq")
    /\ LET msg == Item(n).msg
           frame(m) == [type |-> "rreq", src |-> n, dst |-> m, hop_limit |-> msg.hop_limit,
                        orig |-> msg.orig, orig_seqnum |-> msg.orig_seqnum,
                        metric |-> msg.orig_metric, targ |-> msg.targ, targ_seqnum |-> 0]
       IN  air' = air (+) SetToBag({frame(m) : m \in Neighbours(n)})
    /\ queue' = [queue EXCEPT ![n] = Tail(@)]
    /\ UNCHANGED <<lrs, mcmsgs, seqnum, targ_metric, ft, refused, waiting, now, requests, scenario>>

(***************************************************************************)
(* _send_rrep: the RREP goes to the next hop alone.  TargNode's sequence   *)
(* number is the counter of the node that writes the RREP, whichever that  *)
(* is.  An RREP for no neighbour gets lost.                                *)
(***************************************************************************)
SendRrep(n) ==
    /\ Handles(n, "send_rrep")
    /\ LET msg == Item(n).msg
           frame(m) == [type |-> "rrep", src |-> n, dst |-> m, hop_limit |-> msg.hop_limit,
                        orig |-> msg.orig, orig_seqnum |-> msg.orig_seqnum,
                        metric |-> msg.targ_metric, targ |-> msg.targ,
                        targ_seqnum |-> seqnum[n]]
       IN  air' = air (+) SetToBag({frame(m) : m \in Neighbours(n) \cap {Item(n).next_hop}})
    /\ seqnum' = [seqnum EXCEPT ![n] = NextSeqnum(@)]
    /\ queue' = [queue EXCEPT ![n] = Tail(@)]
    /\ UNCHANGED <<lrs, mcmsgs, targ_metric, ft, refused, waiting, now, requests, scenario>>

-----------------------------------------------------------------------------
Read(n) == Item(n).frame

(***************************************************************************)
(* The forwarding table of a node after gnrc_ipv6_nib_ft_add, and before   *)
(* it gnrc_ipv6_nib_ft_del for a destination that is known.  A refused add *)
(* leaves no entry when the old one was deleted, and else what was there.  *)
(***************************************************************************)
FtWith(table, addr, next_hop, learn, ok) ==
    CASE ok -> [table EXCEPT ![addr] = [next_hop |-> next_hop, until |-> now + Validity]]
      [] ~ok /\ learn = "better" -> [table EXCEPT ![addr] = NoRoute]
      [] OTHER -> table

\* The NIB's answer is logged and nothing else: the handler goes on either way.
FtUpdate(n, addr, next_hop, learn) ==
    \E ok \in scenario.adds :
        /\ ft' = [ft EXCEPT ![n] = FtWith(@, addr, next_hop, learn, ok)]
        /\ refused' = [refused EXCEPT ![n] = IF ok THEN @ \ {addr} ELSE @ \cup {addr}]

\* Mutant: the hop limit is not decremented.
RreqOfKeepsLimit(n, f) ==
    [hop_limit |-> f.hop_limit, orig |-> f.orig, orig_seqnum |-> ReadSeqnum(f.orig_seqnum),
     orig_metric |-> f.metric, targ |-> f.targ, targ_metric |-> targ_metric[n]]

\* _cb_rreq_blocktlv_messagetlvs_okay, _cb_rreq_blocktlv_addresstlvs_okay: the
\* message an RREQ is read into, hop limit already decremented.
RreqOf(n, f) ==
    [hop_limit |-> f.hop_limit - 1, orig |-> f.orig, orig_seqnum |-> ReadSeqnum(f.orig_seqnum),
     orig_metric |-> f.metric, targ |-> f.targ, targ_metric |-> targ_metric[n]]

\* The checks at the start of _cb_rreq_end_callback.
RreqAcceptable(f) ==
    /\ f.hop_limit > 1
    /\ ReadSeqnum(f.orig_seqnum) # 0
    /\ MaxMetric - LinkCost > f.metric

\* aodvv2_metric_update.
Updated(msg) == [msg EXCEPT !.orig_metric = @ + 1]

OrigNode(msg) == [addr |-> msg.orig, seqnum |-> msg.orig_seqnum, metric |-> msg.orig_metric]

RreqVerdict(n) == aodvv2_mcmsg_process(mcmsgs[n], now, McView(RreqOf(n, Read(n)), NoAddr))

HasRreq(n) == Handles(n, "rcv") /\ Read(n).type = "rreq"

RreqDropped(n) ==
    /\ HasRreq(n) /\ ~RreqAcceptable(Read(n))
    /\ queue' = [queue EXCEPT ![n] = Tail(@)]
    /\ UNCHANGED <<lrs, mcmsgs, seqnum, targ_metric, ft, refused, waiting, air, now, requests, scenario>>

RreqRedundant(n) ==
    /\ HasRreq(n) /\ RreqAcceptable(Read(n))
    /\ RreqVerdict(n).result = "redundant"
    /\ mcmsgs' = [mcmsgs EXCEPT ![n] = RreqVerdict(n).mc]
    /\ queue' = [queue EXCEPT ![n] = Tail(@)]
    /\ UNCHANGED <<lrs, seqnum, targ_metric, ft, refused, waiting, air, now, requests, scenario>>

\* Mutant: the forwarded RREQ carries the metric it came with.
RreqForwardStale(n, msg, learn) ==
    IF learn = "no_improvement"
    THEN /\ queue' = [queue EXCEPT ![n] = Tail(@)]
         /\ UNCHANGED <<ft, refused, targ_metric>>
    ELSE /\ FtUpdate(n, msg.orig, Read(n).src, learn)
         /\ IF IsClient(n, msg.targ)
            THEN /\ targ_metric' = [targ_metric EXCEPT ![n] = 0]
                 /\ queue' = [queue EXCEPT ![n] =
                        Append(Tail(@), SendRrepTo([msg EXCEPT !.targ_metric = 0], Read(n).src))]
            ELSE /\ queue' = [queue EXCEPT ![n] =
                        Append(Tail(@), SendRreqTo([msg EXCEPT !.orig_metric = @ - 1]))]
                 /\ UNCHANGED targ_metric

\* Mutant: only the router that answers installs the route.
RreqInstallsAtTarget(n, msg, learn) ==
    IF learn = "no_improvement"
    THEN /\ queue' = [queue EXCEPT ![n] = Tail(@)]
         /\ UNCHANGED <<ft, refused, targ_metric>>
    ELSE IF IsClient(n, msg.targ)
         THEN /\ FtUpdate(n, msg.orig, Read(n).src, learn)
              /\ targ_metric' = [targ_metric EXCEPT ![n] = 0]
              /\ queue' = [queue EXCEPT ![n] =
                     Append(Tail(@), SendRrepTo([msg EXCEPT !.targ_metric = 0], Read(n).src))]
         ELSE /\ queue' = [queue EXCEPT ![n] = Append(Tail(@), SendRreqTo(msg))]
              /\ UNCHANGED <<ft, refused, targ_metric>>

(***************************************************************************)
(* The end of _cb_rreq_end_callback, once the route to OrigNode has been   *)
(* learned (or not): answer with an RREP, or pass the RREQ on.             *)
(***************************************************************************)
RreqContinue(n, msg, learn) ==
    IF learn = "no_improvement"
    THEN /\ queue' = [queue EXCEPT ![n] = Tail(@)]
         /\ UNCHANGED <<ft, refused, targ_metric>>
    ELSE /\ FtUpdate(n, msg.orig, Read(n).src, learn)
         /\ IF IsClient(n, msg.targ)
            THEN /\ targ_metric' = [targ_metric EXCEPT ![n] = 0]
                 /\ queue' = [queue EXCEPT ![n] =
                        Append(Tail(@), SendRrepTo([msg EXCEPT !.targ_metric = 0], Read(n).src))]
            ELSE /\ queue' = [queue EXCEPT ![n] = Append(Tail(@), SendRreqTo(msg))]
                 /\ UNCHANGED targ_metric

\* An RREQ that is not redundant.
RreqProcessed(n) ==
    /\ HasRreq(n) /\ RreqAcceptable(Read(n))
    /\ RreqVerdict(n).result = "ok"
    /\ mcmsgs' = [mcmsgs EXCEPT ![n] = RreqVerdict(n).mc]
    /\ LET msg == Updated(RreqOf(n, Read(n)))
       IN  /\ lrs' = [lrs EXCEPT ![n] =
                        LearnTable(@, now, OrigNode(msg), Read(n).src, MetricType, LinkCost)]
           /\ RreqContinue(n, msg, LearnOutcome(lrs[n], now, OrigNode(msg), MetricType))
    /\ UNCHANGED <<seqnum, waiting, air, now, requests, scenario>>

-----------------------------------------------------------------------------
\* _cb_rrep_blocktlv_messagetlvs_okay, _cb_rrep_blocktlv_addresstlvs_okay.  The
\* metric of the RREP is lost: targ_metric stays what it was.
RrepOf(n, f) ==
    [hop_limit |-> f.hop_limit - 1, orig |-> f.orig, orig_seqnum |-> ReadSeqnum(f.orig_seqnum),
     orig_metric |-> f.metric, targ |-> f.targ, targ_metric |-> targ_metric[n]]

\* Mutant: the hop limit test of an RREQ.
RrepAcceptableShort(n, f) ==
    /\ f.hop_limit > 1
    /\ ReadSeqnum(f.orig_seqnum) # 0 /\ ReadSeqnum(f.targ_seqnum) # 0
    /\ MaxMetric - LinkCost > targ_metric[n]

\* The checks at the start of _cb_rrep_end_callback.
RrepAcceptable(n, f) ==
    /\ f.hop_limit > 0
    /\ ReadSeqnum(f.orig_seqnum) # 0 /\ ReadSeqnum(f.targ_seqnum) # 0
    /\ MaxMetric - LinkCost > targ_metric[n]

TargNode(msg, f) ==
    [addr |-> msg.targ, seqnum |-> ReadSeqnum(f.targ_seqnum), metric |-> msg.targ_metric]

HasRrep(n) == Handles(n, "rcv") /\ Read(n).type = "rrep"

RrepDropped(n) ==
    /\ HasRrep(n) /\ ~RrepAcceptable(n, Read(n))
    /\ queue' = [queue EXCEPT ![n] = Tail(@)]
    /\ UNCHANGED <<lrs, mcmsgs, seqnum, targ_metric, ft, refused, waiting, air, now, requests, scenario>>

\* aodvv2_lrs_get_next_hop; NoAddr for NULL, which the caller does not test for.
NextHop(rt, addr) ==
    LET i == Found(rt, now, addr, MetricType)
    IN  IF i = 0 THEN NoAddr ELSE rt[i].route.next_hop

\* aodvv2_buffer_dispatch: the slots that held packets for the target are free.
Released(buffer, targ) == [i \in BufSlots |-> IF buffer[i] = targ THEN NoAddr ELSE buffer[i]]

\* Mutant: releases the packets without installing the route first.
RrepDispatchOnly(n, msg, rt, learn) ==
    /\ lrs' = [lrs EXCEPT ![n] = rt]
    /\ queue' = [queue EXCEPT ![n] = Tail(@)]
    /\ waiting' = [waiting EXCEPT ![n] = Released(@, msg.targ)]
    /\ UNCHANGED <<ft, refused>>

(***************************************************************************)
(* The end of _cb_rrep_end_callback on the routing table rt it has left:   *)
(* release the packets that waited for the route, or pass the RREP on.     *)
(***************************************************************************)
RrepContinue(n, msg, rt, learn) ==
    IF learn = "no_improvement"
    THEN /\ lrs' = [lrs EXCEPT ![n] = rt]
         /\ queue' = [queue EXCEPT ![n] = Tail(@)]
         /\ UNCHANGED <<ft, refused, waiting>>
    ELSE /\ FtUpdate(n, msg.targ, Read(n).src, learn)
         /\ IF IsClient(n, msg.orig)
            THEN /\ lrs' = [lrs EXCEPT ![n] = rt]
                 /\ waiting' = [waiting EXCEPT ![n] = Released(@, msg.targ)]
                 /\ queue' = [queue EXCEPT ![n] = Tail(@)]
            ELSE /\ lrs' = [lrs EXCEPT ![n] = AfterGet(rt, now, msg.orig, MetricType)]
                 /\ queue' = [queue EXCEPT ![n] =
                                Append(Tail(@), SendRrepTo(msg, NextHop(rt, msg.orig)))]
                 /\ UNCHANGED waiting

RrepProcessed(n) ==
    /\ HasRrep(n) /\ RrepAcceptable(n, Read(n))
    /\ LET f    == Read(n)
           msg  == [RrepOf(n, f) EXCEPT !.targ_metric = @ + 1]
           targ == TargNode(msg, f)
       IN  /\ targ_metric' = [targ_metric EXCEPT ![n] = msg.targ_metric]
           /\ RrepContinue(n, msg, LearnTable(lrs[n], now, targ, f.src, MetricType, LinkCost),
                           LearnOutcome(lrs[n], now, targ, MetricType))
    /\ UNCHANGED <<mcmsgs, seqnum, air, now, requests, scenario>>

Thread(n) ==
    \/ SendRreq(n) \/ SendRrep(n)
    \/ RreqDropped(n) \/ RreqRedundant(n) \/ RreqProcessed(n)
    \/ RrepDropped(n) \/ RrepProcessed(n)

-----------------------------------------------------------------------------
\* Mutant: one message too many in the queue.
DeliverOverfull(f) ==
    /\ BagIn(f, air)
    /\ air' = air (-) SetToBag({f})
    /\ queue' = [queue EXCEPT ![f.dst] = Append(@, [kind |-> "rcv", frame |-> f])]
    /\ UNCHANGED <<lrs, mcmsgs, seqnum, targ_metric, ft, refused, waiting, now, requests, scenario>>

\* GNRC passes a frame on to the AODVv2 thread, or drops it if its queue is full.
Deliver(f) ==
    /\ BagIn(f, air)
    /\ air' = air (-) SetToBag({f})
    /\ queue' = IF Len(queue[f.dst]) < QueueSize
                THEN [queue EXCEPT ![f.dst] = Append(@, [kind |-> "rcv", frame |-> f])]
                ELSE queue
    /\ UNCHANGED <<lrs, mcmsgs, seqnum, targ_metric, ft, refused, waiting, now, requests, scenario>>

Lose(f) ==
    /\ BagIn(f, air)
    /\ air' = air (-) SetToBag({f})
    /\ UNCHANGED <<nodeVars, now, requests, scenario>>

Tick ==
    /\ now < scenario.time
    /\ now' = now + 1
    /\ UNCHANGED <<nodeVars, air, requests, scenario>>

\* The routers and a medium that loses nothing.
ReliableNext ==
    \/ \E r \in scenario.senders, rtr \in OwnSeqNoRtrs : RouteInfo(r[1], r[2], rtr)
    \/ \E n \in Nodes : Thread(n)
    \/ \E f \in BagToSet(air) : Deliver(f)
    \/ Tick

Next == ReliableNext \/ \E f \in BagToSet(air) : Lose(f)

Spec == Init /\ [][Next]_vars

\* WF_vars(Thread(n)) written out: a thread can run while its queue holds a
\* message, and RIOT's scheduler lets every thread that can run do so.
ThreadRuns(n) == []<>(queue[n] = <<>>) \/ []<><<Thread(n)>>_vars

FairSpec ==
    /\ Init /\ [][ReliableNext]_vars
    /\ \A n \in Nodes : ThreadRuns(n)
    /\ WF_vars(\E f \in BagToSet(air) : Deliver(f))

-----------------------------------------------------------------------------
Frames == BagToSet(air) \cup {q.frame : q \in {r \in UNION {Range(queue[n]) : n \in Nodes} : r.kind = "rcv"}}

ToSend(kind) == {q \in UNION {Range(queue[n]) : n \in Nodes} : q.kind = kind}

Byte == 0 .. ByteMod - 1
Seqs == 0 .. SeqMod - 1
Addresses == Addrs \cup {NoAddr}

Msgs == [hop_limit : Byte, orig : Addrs, orig_seqnum : Seqs, orig_metric : Byte,
         targ : Addrs, targ_metric : Byte]

FrameType == [type : {"rreq", "rrep"}, src : Nodes, dst : Nodes, hop_limit : Byte,
              orig : Addrs, orig_seqnum : Seqs, metric : Byte, targ : Addrs, targ_seqnum : Seqs]

Routes == [addr : Addresses, metric_type : {0, MetricType}, seqnum : Seqs,
           next_hop : Nodes \cup {NoAddr}, metric : Byte, last_used : Nat,
           expiration_time : Nat, state : RouteStates]

\* The type of the variables.
TypeOK ==
    /\ \A n \in Nodes, i \in Slots :
            lrs[n][i].used \in BOOLEAN /\ lrs[n][i].route \in Routes
    /\ \A n \in Nodes, i \in McSlots :
            mcmsgs[n][i].metric \in Byte /\ mcmsgs[n][i].seqnum \in Seqs
    /\ seqnum \in [Nodes -> Seqs \ {0}]
    /\ targ_metric \in [Nodes -> Byte]
    /\ waiting \in [Nodes -> [BufSlots -> Addresses]]
    /\ \A n \in Nodes : Len(queue[n]) <= QueueSize
    /\ Frames \subseteq FrameType
    /\ \A q \in ToSend("send_rreq") \cup ToSend("send_rrep") :
            q.msg \in Msgs /\ q.next_hop \in Nodes \cup {NoAddr}
    /\ ft \in [Nodes -> [Addrs -> [next_hop : Nodes \cup {NoAddr}, until : Nat]]]
    /\ refused \in [Nodes -> SUBSET Addrs]
    /\ scenario \in Scenarios
    /\ now \in 0 .. scenario.time /\ requests \in 0 .. scenario.packets

\* A walk of at most k links leads from d to n.
Near(d, n, k) ==
    \E walk \in [0 .. k -> Nodes] :
        /\ walk[0] = d /\ walk[k] = n
        /\ \A i \in 1 .. k : walk[i] \in Neighbours(walk[i - 1]) \cup {walk[i - 1]}

KnownRoutes(n) == {lrs[n][i].route : i \in {j \in Slots : lrs[n][j].route.addr # NoAddr}}

(***************************************************************************)
(* Two fields of an RREQ bound its life, the hop limit that                *)
(* _cb_rreq_blocktlv_messagetlvs_okay decrements and the metric that       *)
(* aodvv2_metric_update increments.  Whatever path an RREQ takes, around   *)
(* loops too, they stay in step: together they are the metric limit.       *)
(***************************************************************************)
HopBudget ==
    /\ \A f \in Frames : f.type = "rreq" => f.hop_limit + f.metric = MaxMetric
    /\ \A q \in ToSend("send_rreq") : q.msg.hop_limit + q.msg.orig_metric = MaxMetric

(***************************************************************************)
(* The cost a router stores for the way back to OrigNode never understates *)
(* the distance, and the uint8_t in aodvv2_lrs_fill_routing_entry_rreq     *)
(* never wraps: RREQs are dropped at the metric limit just before that.    *)
(***************************************************************************)
MetricCoversDistance ==
    \A n, d \in Nodes : \A r \in KnownRoutes(n) :
        r.addr = Net[d] => r.metric > 0 /\ Near(d, n, r.metric - 1)

(***************************************************************************)
(* A router tells others about a route only once it has it, or its NIB has *)
(* refused it: the next hop in a forwarding table is a neighbour that      *)
(* serves the destination, or has an entry for it too, however late the    *)
(* message arrived and whatever that neighbour learned since.  Only a      *)
(* refused ft_add breaks the chain, which the code logs and passes over.   *)
(* An entry past its lifetime counts as one.                               *)
(***************************************************************************)
NextHopKnowsTheWay ==
    \A n \in Nodes, a \in Addrs :
        LET h == ft[n][a].next_hop
        IN  h # NoAddr => /\ h \in Neighbours(n)
                          /\ \/ IsClient(h, a)
                             \/ ft[h][a].next_hop # NoAddr
                             \/ a \in refused[h]

\* The packets that waited on node n for Host[d] leave the buffer.
Dispatches(n, d) == Host[d] \in Range(waiting[n]) /\ Host[d] \notin Range(waiting'[n])

(***************************************************************************)
(* Packets leave the buffer only for a router that got them a route:       *)
(* nothing a router buffered disappears before the forwarding table has a  *)
(* valid entry for its destination, or the NIB has refused that entry.     *)
(* aodvv2.h:114 wants a route on the NIB for every aodvv2_buffer_dispatch; *)
(* _cb_rrep_end_callback calls it whatever gnrc_ipv6_nib_ft_add answered.  *)
(***************************************************************************)
ReleasedAfterAdd ==
    [][\A n \in Nodes, d \in Nodes :
         Dispatches(n, d) => HasRoute(n, d)' \/ Host[d] \in refused'[n]]_vars

(***************************************************************************)
(* What route discovery is for: a packet that waits for a route, in a      *)
(* network that loses nothing, does not wait for ever.                     *)
(***************************************************************************)
PacketsAreReleased ==
    \A n, d \in Nodes : LET Waits == Host[d] \in Range(waiting[n]) IN Waits ~> ~Waits

=============================================================================
