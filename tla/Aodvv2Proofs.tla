---------------------------- MODULE Aodvv2Proofs ----------------------------
(***************************************************************************)
(* Proofs about route discovery for any number of routers, any network,    *)
(* any metric limit and any size of the queues, with frames delayed,       *)
(* reordered and lost.                                                     *)
(*                                                                         *)
(* The argument: what has to be known about an RREQ or RREP is a fact      *)
(* about every single frame and IPC message, wherever it is, for a router  *)
(* acts on what was true of the sender when it sent.  Three invariants say *)
(* it, each with what the one before gives.  IInv (FrameOk, ItemOk): the   *)
(* budget of an RREQ, and that the router it comes from serves the address *)
(* it tells others of.  A router that serves an address goes on doing so,  *)
(* since a forwarding entry is only removed when the NIB refuses the one   *)
(* that replaces it, so it does not matter how late a message is handled.  Typed: every message and every   *)
(* set of every router is of its type.  Metrics (FrameNear, ItemNear,      *)
(* NearRoutes): no metric, in a frame, a message or a route, is below the  *)
(* length of a shortest walk from the router that holds it to the address; *)
(* a hop makes a walk longer by one and a metric larger by one.            *)
(* Dispatched speaks of the last dispatch of the packet buffer alone.      *)
(***************************************************************************)
EXTENDS Aodvv2, WellFoundedInduction, TLAPS, SequenceTheorems

\* The first index of a non-empty set of indices is one of them, and no other one
\* comes before it: the numbers are well-ordered.
LEMMA FirstIsLeast ==
    ASSUME NEW S \in SUBSET Nat, S # {}
    PROVE  First(S) \in S /\ \A j \in S : First(S) <= j
  <1>1. PICK i \in S : \A j \in S : ~(<<j, i>> \in OpToRel(<, Nat))
    BY NatLessThanWellFounded, WFMin
  <1>2. ASSUME NEW j \in S PROVE i <= j
    <2>1. i \in Nat /\ j \in Nat /\ ~(<<j, i>> \in OpToRel(<, Nat))
      BY <1>1
    <2>2. QED
      BY <2>1 DEF OpToRel
  <1>3. QED
    BY <1>2 DEF First

\* The walk of an array returns 0 exactly when no slot satisfies the condition, and
\* the first one that does otherwise.
LEMMA WalkResult ==
    ASSUME NEW n \in Nat, NEW S \in SUBSET (1 .. n)
    PROVE  /\ FirstOrNone(S) \in 0 .. n
           /\ (FirstOrNone(S) = 0) <=> (S = {})
           /\ S # {} => FirstOrNone(S) \in S
           /\ \A j \in S : FirstOrNone(S) <= j
  <1>1. ASSUME S # {} PROVE First(S) \in S /\ First(S) \in 1 .. n /\ \A j \in S : First(S) <= j
    <2>1. First(S) \in S /\ \A j \in S : First(S) <= j
      BY <1>1, FirstIsLeast
    <2>2. QED
      BY <2>1
  <1>2. FirstOrNone(S) = IF S = {} THEN 0 ELSE First(S)
    BY DEF FirstOrNone
  <1>3. CASE S = {}
    BY <1>2, <1>3
  <1>4. CASE S # {}
    BY <1>1, <1>2, <1>4
  <1>5. QED
    BY <1>3, <1>4

-----------------------------------------------------------------------------

Budget(hop_limit, metric) == hop_limit \in Int /\ metric \in Int /\ hop_limit + metric = MaxMetric

\* Router n can tell others of a route to addr, or its NIB has refused the entry.
Serves(n, addr) ==
    /\ n \in Nodes /\ addr \in Addrs
    /\ IsClient(n, addr) \/ ft[n][addr].next_hop # NoAddr \/ addr \in refused[n]

FrameOk(f) ==
    /\ f.src \in Nodes /\ f.dst \in Neighbours(f.src)
    /\ f.type = "rreq" => Budget(f.hop_limit, f.metric) /\ Serves(f.src, f.orig)
    /\ f.type = "rrep" => Serves(f.src, f.targ)

\* An IPC message of the thread of n.
ItemOk(n, q) ==
    /\ q.kind = "rcv" => FrameOk(q.frame) /\ q.frame.dst = n
    /\ q.kind = "send_rreq" => Budget(q.msg.hop_limit, q.msg.orig_metric) /\ Serves(n, q.msg.orig)
    /\ q.kind = "send_rrep" => Serves(n, q.msg.targ)

\* A queue of such messages.
QueueOk(n, s) == \E S : s \in Seq(S) /\ \A q \in S : ItemOk(n, q)

Tables == [Nodes -> [Addrs -> [next_hop : Nodes \cup {NoAddr}, until : Nat]]]

Refusals == [Nodes -> SUBSET Addrs]

IInv ==
    /\ queue = [n \in Nodes |-> queue[n]] /\ \A n \in Nodes : QueueOk(n, queue[n])
    /\ \A f \in BagToSet(air) : FrameOk(f)
    /\ ft \in Tables /\ refused \in Refusals /\ now \in Nat /\ scenario \in Scenarios
    /\ NextHopKnowsTheWay

-----------------------------------------------------------------------------
\* Addresses and neighbours.
LEMMA Basics ==
    /\ \A n \in Nodes : \A a : IsClient(n, a) => a \in Addrs
    /\ \A n \in Nodes : IsClient(n, Net[n])
    /\ \A n \in Nodes : \A m \in Neighbours(n) : m \in Nodes /\ n \in Neighbours(m)
    /\ NoAddr \notin Nodes /\ MaxMetric \in Int /\ Validity \in Nat
  BY Aodvv2Assumption, LrsAssumption DEF IsClient, Addrs, Neighbours, Validity

\* What is done to queues keeps them well.
LEMMA EmptyOk == ASSUME NEW n PROVE QueueOk(n, <<>>)
  <1>1. PICK S : S = {}
    OBVIOUS
  <1>2. <<>> \in Seq(S) /\ \A q \in S : ItemOk(n, q)
    BY <1>1, EmptySeq
  <1>3. QED
    BY <1>2 DEF QueueOk

LEMMA TailOk ==
    ASSUME NEW n, NEW s, QueueOk(n, s), s # <<>>
    PROVE  ItemOk(n, Head(s)) /\ QueueOk(n, Tail(s))
  <1>1. PICK S : s \in Seq(S) /\ \A r \in S : ItemOk(n, r)
    BY DEF QueueOk
  <1>2. Head(s) \in S /\ Tail(s) \in Seq(S)
    BY <1>1, HeadTailProperties
  <1>3. QED
    BY <1>1, <1>2 DEF QueueOk

LEMMA RangeOk == ASSUME NEW n, NEW s, QueueOk(n, s), NEW q \in Range(s) PROVE ItemOk(n, q)
  <1>1. PICK S : s \in Seq(S) /\ \A r \in S : ItemOk(n, r)
    BY DEF QueueOk
  <1>2. q \in S
    BY <1>1, LenProperties DEF Range
  <1>3. QED
    BY <1>1, <1>2

\* What gnrc_ipv6_nib_ft_add does to the forwarding tables, done or refused.
LEMMA FtUpdateEffect ==
    ASSUME ft \in Tables, refused \in Refusals, now \in Nat, scenario \in Scenarios,
           NEW n \in Nodes, NEW addr \in Addrs, NEW hop \in Nodes, NEW learn,
           FtUpdate(n, addr, hop, learn)
    PROVE  /\ ft' \in Tables /\ refused' \in Refusals
           /\ \A m \in Nodes, a \in Addrs :
                 ~(m = n /\ a = addr) =>
                     ft'[m][a] = ft[m][a] /\ (a \in refused'[m] <=> a \in refused[m])
           /\ \/ ft'[n][addr] = [next_hop |-> hop, until |-> now + Validity]
              \/ addr \in refused'[n] /\ ft'[n][addr] \in {ft[n][addr], NoRoute}
  <1> DEFINE Entries == [next_hop : Nodes \cup {NoAddr}, until : Nat]
  <1>1. PICK ok \in scenario.adds :
            /\ ft' = [ft EXCEPT ![n] = FtWith(ft[n], addr, hop, learn, ok)]
            /\ refused' = [refused EXCEPT ![n] = IF ok THEN refused[n] \ {addr}
                                                       ELSE refused[n] \cup {addr}]
    BY DEF FtUpdate
  <1>2. ok \in BOOLEAN
    BY <1>1, Aodvv2Assumption
  <1> PICK made : made = [next_hop |-> hop, until |-> now + Validity]
    OBVIOUS
  <1> PICK entry : entry = IF ok THEN made ELSE IF learn = "better" THEN NoRoute ELSE ft[n][addr]
    OBVIOUS
  <1>3. made \in Entries /\ NoRoute \in Entries /\ ft[n][addr] \in Entries
        /\ ft[n] \in [Addrs -> Entries]
    BY Basics DEF NoRoute, Tables
  <1>4. FtWith(ft[n], addr, hop, learn, ok) = [ft[n] EXCEPT ![addr] = entry]
    <2>1. CASE ok
      BY <2>1 DEF FtWith
    <2>2. CASE ~ok /\ learn = "better"
      BY <2>2 DEF FtWith
    <2>3. CASE ~ok /\ learn # "better"
      <3>1. FtWith(ft[n], addr, hop, learn, ok) = ft[n]
        BY <2>3 DEF FtWith
      <3>2. entry = ft[n][addr]
        BY <2>3
      <3>3. QED
        BY <1>3, <3>1, <3>2
    <2>4. QED
      BY <1>2, <2>1, <2>2, <2>3
  <1>5. entry \in Entries /\ (ok => entry = made) /\ (~ok => entry \in {ft[n][addr], NoRoute})
    BY <1>2, <1>3
  <1>6. ft' = [ft EXCEPT ![n] = [ft[n] EXCEPT ![addr] = entry]]
    BY <1>1, <1>4
  <1>7. ft' \in Tables
    BY <1>3, <1>5, <1>6 DEF Tables
  <1>8. \A m \in Nodes, a \in Addrs :
           ft'[m][a] = IF m = n /\ a = addr THEN entry ELSE ft[m][a]
    BY <1>6 DEF Tables
  <1>9. PICK new : new = (IF ok THEN refused[n] \ {addr} ELSE refused[n] \cup {addr})
    OBVIOUS
  <1>10. new \in SUBSET Addrs /\ (~ok => addr \in new)
         /\ \A a : a # addr => (a \in new <=> a \in refused[n])
    BY <1>2, <1>9 DEF Refusals
  <1>11. /\ refused' \in Refusals
         /\ \A m \in Nodes : refused'[m] = IF m = n THEN new ELSE refused[m]
    BY <1>1, <1>9, <1>10 DEF Refusals
  <1>12. ASSUME NEW m \in Nodes, NEW a \in Addrs, ~(m = n /\ a = addr)
         PROVE  ft'[m][a] = ft[m][a] /\ (a \in refused'[m] <=> a \in refused[m])
    BY <1>8, <1>10, <1>11, <1>12
  <1>13. \/ ft'[n][addr] = made
         \/ addr \in refused'[n] /\ ft'[n][addr] \in {ft[n][addr], NoRoute}
    BY <1>2, <1>5, <1>8, <1>10, <1>11
  <1>14. \/ ft'[n][addr] = [next_hop |-> hop, until |-> now + Validity]
         \/ addr \in refused'[n] /\ ft'[n][addr] \in {ft[n][addr], NoRoute}
    BY <1>13
  <1>15. refused' \in Refusals
    BY <1>11
  <1>16. QED
    BY ONLY <1>7, <1>12, <1>14, <1>15

\* What the steps do to the forwarding tables: nothing, or the NIB is asked for
\* an entry whose next hop is a neighbour that serves the destination.
Learned(n, addr, hop) ==
    /\ n \in Nodes /\ hop \in Neighbours(n) /\ Serves(hop, addr)
    /\ \E learn : FtUpdate(n, addr, hop, learn)

TablesGrow == UNCHANGED <<ft, refused>> \/ \E n, addr, hop : Learned(n, addr, hop)

\* The router that learned of a destination serves it.
LEMMA LearnedServes ==
    ASSUME IInv, NEW n, NEW addr, NEW hop, Learned(n, addr, hop)
    PROVE  /\ n \in Nodes /\ addr \in Addrs /\ hop \in Nodes
           /\ ft' \in Tables /\ refused' \in Refusals
           /\ \A m, a : Serves(m, a) => Serves(m, a)'
           /\ Serves(n, addr)'
  <1>1. n \in Nodes /\ hop \in Nodes /\ addr \in Addrs
    BY Basics DEF Learned, Serves
  <1>2. /\ ft' \in Tables /\ refused' \in Refusals
        /\ \A m \in Nodes, a \in Addrs :
              ~(m = n /\ a = addr) =>
                  ft'[m][a] = ft[m][a] /\ (a \in refused'[m] <=> a \in refused[m])
        /\ \/ ft'[n][addr] = [next_hop |-> hop, until |-> now + Validity]
           \/ addr \in refused'[n] /\ ft'[n][addr] \in {ft[n][addr], NoRoute}
    BY <1>1, FtUpdateEffect DEF IInv, Learned
  <1>3. ft'[n][addr].next_hop # NoAddr \/ addr \in refused'[n]
    BY <1>1, <1>2, Basics
  <1>4. Serves(n, addr)'
    BY <1>1, <1>3 DEF Serves
  <1>5. ASSUME NEW m, NEW a, Serves(m, a) PROVE Serves(m, a)'
    <2>1. CASE m = n /\ a = addr
      BY <1>4, <2>1 DEF Serves
    <2>2. CASE ~(m = n /\ a = addr)
      BY <1>2, <1>5, <2>2 DEF Serves, IsClient
    <2>3. QED
      BY <2>1, <2>2
  <1>6. QED
    BY <1>1, <1>2, <1>4, <1>5

\* After that what was known of frames and messages is still so.
LEMMA GrowKeeps ==
    ASSUME IInv, TablesGrow, scenario' = scenario
    PROVE  /\ ft' \in Tables /\ refused' \in Refusals /\ NextHopKnowsTheWay'
           /\ \A n, addr : Serves(n, addr) => Serves(n, addr)'
           /\ \A f : FrameOk(f) => FrameOk(f)'
           /\ \A n, q : ItemOk(n, q) => ItemOk(n, q)'
           /\ \A n, s : QueueOk(n, s) => QueueOk(n, s)'
  <1>0. ft \in Tables /\ refused \in Refusals /\ now \in Nat /\ scenario \in Scenarios
        /\ NextHopKnowsTheWay
    BY DEF IInv
  <1>1. \A n : Neighbours(n)' = Neighbours(n)
    BY DEF Neighbours
  <1>2. /\ ft' \in Tables /\ refused' \in Refusals
        /\ \A n, addr : Serves(n, addr) => Serves(n, addr)'
    <2>1. CASE UNCHANGED <<ft, refused>>
      BY <1>0, <2>1 DEF Serves, IsClient
    <2>2. ASSUME NEW n, NEW addr, NEW hop, Learned(n, addr, hop)
          PROVE  /\ ft' \in Tables /\ refused' \in Refusals
                 /\ \A m, a : Serves(m, a) => Serves(m, a)'
      BY <2>2, LearnedServes
    <2>3. QED
      BY <2>1, <2>2 DEF TablesGrow
  <1>3. NextHopKnowsTheWay'
    <2>1. CASE UNCHANGED <<ft, refused>>
      BY <1>0, <1>1, <2>1 DEF NextHopKnowsTheWay, IsClient
    <2>2. ASSUME NEW n, NEW addr, NEW hop, Learned(n, addr, hop) PROVE NextHopKnowsTheWay'
      <3>1. n \in Nodes /\ addr \in Addrs /\ hop \in Nodes /\ hop \in Neighbours(n)
            /\ Serves(hop, addr)
        BY <2>2, LearnedServes DEF Learned
      <3>2. \A m \in Nodes, a \in Addrs :
               \/ ft'[m][a].next_hop \in {ft[m][a].next_hop, NoAddr}
               \/ m = n /\ a = addr /\ ft'[m][a].next_hop = hop
        <4>1. PICK learn : FtUpdate(n, addr, hop, learn)
          BY <2>2 DEF Learned
        <4>2. /\ \A m \in Nodes, a \in Addrs : ~(m = n /\ a = addr) => ft'[m][a] = ft[m][a]
              /\ \/ ft'[n][addr] = [next_hop |-> hop, until |-> now + Validity]
                 \/ ft'[n][addr] \in {ft[n][addr], NoRoute}
          BY <1>0, <3>1, <4>1, FtUpdateEffect
        <4>3. ft'[n][addr].next_hop \in {hop, ft[n][addr].next_hop, NoAddr}
          BY <4>2 DEF NoRoute
        <4>4. QED
          BY <4>2, <4>3
      <3>3. ASSUME NEW m \in Nodes, NEW a \in Addrs, NEW h, h = ft'[m][a].next_hop, h # NoAddr
            PROVE  h \in Neighbours(m) /\ Serves(h, a)'
        <4>1. CASE m = n /\ a = addr /\ h = hop
          BY <1>2, <3>1, <4>1
        <4>2. CASE h = ft[m][a].next_hop
          <5>1. /\ h \in Neighbours(m)
                /\ IsClient(h, a) \/ ft[h][a].next_hop # NoAddr \/ a \in refused[h]
            BY <1>0, <3>3, <4>2 DEF NextHopKnowsTheWay
          <5>2. Serves(h, a)
            BY <5>1, Basics DEF Serves
          <5>3. QED
            BY <1>2, <5>1, <5>2
        <4>3. QED
          BY <3>2, <3>3, <4>1, <4>2
      <3>4. ASSUME NEW m \in Nodes, NEW a \in Addrs, NEW h, h = ft'[m][a].next_hop, h # NoAddr
            PROVE  /\ h \in Neighbours(m)'
                   /\ IsClient(h, a) \/ ft'[h][a].next_hop # NoAddr \/ a \in refused'[h]
        BY <1>1, <3>3, <3>4 DEF Serves, IsClient
      <3>5. QED
        BY <3>4 DEF NextHopKnowsTheWay, IsClient
    <2>3. QED
      BY <2>1, <2>2 DEF TablesGrow
  <1>4. \A f : FrameOk(f) => FrameOk(f)'
    BY <1>1, <1>2 DEF FrameOk
  <1>5. \A n, q : ItemOk(n, q) => ItemOk(n, q)'
    BY <1>2, <1>4 DEF ItemOk
  <1>6. ASSUME NEW n, NEW s, QueueOk(n, s) PROVE QueueOk(n, s)'
    <2>1. PICK S : s \in Seq(S) /\ \A q \in S : ItemOk(n, q)
      BY <1>6 DEF QueueOk
    <2>2. \A q \in S : ItemOk(n, q)'
      BY <1>5, <2>1
    <2>3. QED
      BY <2>1, <2>2 DEF QueueOk
  <1>7. QED
    BY <1>2, <1>3, <1>4, <1>5, <1>6

\* A message that is well after the step, at the end of a queue.
LEMMA AppendOk ==
    ASSUME IInv, TablesGrow, scenario' = scenario,
           NEW n, NEW s, QueueOk(n, s), NEW q, ItemOk(n, q)'
    PROVE  QueueOk(n, Append(s, q))'
  <1>1. QueueOk(n, s)'
    BY GrowKeeps
  <1>2. PICK S : s \in Seq(S) /\ \A r \in S : ItemOk(n, r)'
    BY <1>1 DEF QueueOk
  <1>3. PICK T : T = S \cup {q}
    OBVIOUS
  <1>4. s \in Seq(T) /\ q \in T /\ \A r \in T : ItemOk(n, r)'
    BY <1>2, <1>3
  <1>5. Append(s, q) \in Seq(T)
    BY <1>4, AppendProperties
  <1>6. QED
    BY <1>4, <1>5 DEF QueueOk

\* A step that replaces at most one queue.
LEMMA StepOk ==
    ASSUME IInv, TablesGrow, scenario' = scenario, now' \in Nat,
           \/ queue' = queue
           \/ \E n \in Nodes : \E s : QueueOk(n, s)' /\ queue' = [queue EXCEPT ![n] = s],
           \A f \in BagToSet(air') : FrameOk(f)'
    PROVE  IInv'
  <1>1. /\ ft' \in Tables /\ refused' \in Refusals
        /\ NextHopKnowsTheWay' /\ scenario' \in Scenarios
        /\ \A n, s : QueueOk(n, s) => QueueOk(n, s)'
    BY GrowKeeps DEF IInv
  <1>2. queue' = [m \in Nodes |-> queue'[m]]
    BY DEF IInv
  <1>3. ASSUME NEW m \in Nodes PROVE QueueOk(m, queue[m])'
    <2> PICK t : t = queue'[m]
      OBVIOUS
    <2>1. QueueOk(m, queue[m])
      BY DEF IInv
    <2>2. ASSUME t = queue[m] PROVE QueueOk(m, t)'
      BY <1>1, <2>1, <2>2
    <2>3. ASSUME NEW n \in Nodes, NEW s, QueueOk(n, s)', queue' = [queue EXCEPT ![n] = s]
          PROVE  QueueOk(m, t)'
      <3>1. CASE n = m
        <4>1. t = s
          BY <2>3, <3>1 DEF IInv
        <4>2. QED
          BY <2>3, <3>1, <4>1
      <3>2. CASE n # m
        BY <2>2, <2>3, <3>2 DEF IInv
      <3>3. QED
        BY <3>1, <3>2
    <2>4. QueueOk(m, t)'
      BY <2>2, <2>3
    <2>5. QED
      BY <2>4 DEF QueueOk
  <1>4. QED
    BY <1>1, <1>2, <1>3 DEF IInv

\* The frames that are in the air after some have been sent, or taken.
LEMMA SentOk ==
    ASSUME NEW new, \A f \in BagToSet(air) : FrameOk(f)', \A f \in new : FrameOk(f)',
           air' = air (+) SetToBag(new)
    PROVE  \A f \in BagToSet(air') : FrameOk(f)'
  BY DEF BagToSet, SetToBag, (+)

LEMMA TakenOk ==
    ASSUME NEW taken, \A f \in BagToSet(air) : FrameOk(f)', air' = air (-) taken
    PROVE  \A f \in BagToSet(air') : FrameOk(f)'
  BY DEF BagToSet, (-)

-----------------------------------------------------------------------------
\* Every step preserves the invariant.
LEMMA IInvStep == IInv /\ [Next]_vars => IInv'
  <1> SUFFICES ASSUME IInv, [Next]_vars PROVE IInv'
    OBVIOUS
  <1>0. /\ \A n \in Nodes : QueueOk(n, queue[n])
        /\ \A f \in BagToSet(air) : FrameOk(f)
        /\ ft \in Tables /\ now \in Nat /\ scenario \in Scenarios
    BY DEF IInv
  <1>00. ASSUME TablesGrow, scenario' = scenario
         PROVE  /\ \A f : FrameOk(f) => FrameOk(f)'
                /\ \A n, q : ItemOk(n, q) => ItemOk(n, q)'
                /\ \A n, s : QueueOk(n, s) => QueueOk(n, s)'
                /\ \A n, a : Serves(n, a) => Serves(n, a)'
                /\ \A f \in BagToSet(air) : FrameOk(f)'
    BY <1>0, <1>00, GrowKeeps
  <1>1. ASSUME NEW r \in scenario.senders, NEW rtr, RouteInfo(r[1], r[2], rtr) PROVE IInv'
    <2> PICK n, d, item : /\ n = r[1] /\ d = r[2]
                          /\ item = SendRreqTo([hop_limit |-> MaxMetric, orig |-> Net[n],
                                                orig_seqnum |-> seqnum[n], orig_metric |-> 0,
                                                targ |-> Host[d], targ_metric |-> 0])
      OBVIOUS
    <2>1. /\ queue' = [queue EXCEPT ![n] = Append(queue[n], item)]
          /\ UNCHANGED <<air, ft, refused, now, scenario>>
      BY <1>1 DEF RouteInfo, aodvv2_find_route
    <2>2. n \in Nodes
      BY <1>0, <1>1, Aodvv2Assumption
    <2>3. ItemOk(n, item)
      BY <2>2, Basics DEF SendRreqTo, ItemOk, Budget, Serves
    <2>4. TablesGrow
      BY <2>1 DEF TablesGrow
    <2> PICK s : s = Append(queue[n], item)
      OBVIOUS
    <2>5. QueueOk(n, s)'
      <3>1. ItemOk(n, item)'
        BY <1>00, <2>1, <2>3, <2>4
      <3> PICK t : t = queue[n]
        OBVIOUS
      <3>2. QueueOk(n, t)
        BY <1>0, <2>2
      <3>3. QueueOk(n, Append(t, item))'
        BY <2>1, <2>4, <3>1, <3>2, AppendOk
      <3>4. QED
        BY <3>3
    <2>6. \A f \in BagToSet(air') : FrameOk(f)'
      BY <1>00, <2>1, <2>4
    <2>7. QED
      BY <1>0, <2>1, <2>2, <2>4, <2>5, <2>6, StepOk
  <1>2. ASSUME NEW n \in Nodes, Thread(n) PROVE IInv'
    <2> PICK item, rest : item = Item(n) /\ rest = Tail(queue[n])
      OBVIOUS
    <2>1. queue[n] # <<>> /\ UNCHANGED <<now, scenario>>
      BY <1>2 DEF Thread, SendRreq, SendRrep, RreqDropped, RreqRedundant, RreqProcessed,
                  RrepDropped, RrepProcessed, HasRreq, HasRrep, Handles
    <2>2. ItemOk(n, item) /\ QueueOk(n, rest)
      BY <1>0, <2>1, TailOk DEF Item
    <2>3. ASSUME TablesGrow, queue' = [queue EXCEPT ![n] = rest],
                 \A f \in BagToSet(air') : FrameOk(f)'
          PROVE  IInv'
      <3>1. QueueOk(n, rest)'
        BY <1>00, <2>1, <2>2, <2>3
      <3>2. QED
        BY <1>0, <2>1, <2>3, <3>1, StepOk
    <2>4. ASSUME TablesGrow, air' = air,
                 NEW q, ItemOk(n, q)', queue' = [queue EXCEPT ![n] = Append(rest, q)]
          PROVE  IInv'
      <3> PICK s : s = Append(rest, q)
        OBVIOUS
      <3>1. QueueOk(n, Append(rest, q))'
        BY <2>1, <2>2, <2>4, AppendOk
      <3>2. \A f \in BagToSet(air') : FrameOk(f)'
        BY <1>00, <2>1, <2>4
      <3>3. QueueOk(n, s)' /\ queue' = [queue EXCEPT ![n] = s]
        BY <2>4, <3>1
      <3>4. QED
        BY <1>0, <2>1, <2>4, <3>2, <3>3, StepOk
    <2>5. CASE SendRreq(n)
      <3> PICK msg : msg = item.msg
        OBVIOUS
      <3> DEFINE frame(m) == [type |-> "rreq", src |-> n, dst |-> m, hop_limit |-> msg.hop_limit,
                              orig |-> msg.orig, orig_seqnum |-> msg.orig_seqnum,
                              metric |-> msg.orig_metric, targ |-> msg.targ, targ_seqnum |-> 0]
      <3>1. /\ item.kind = "send_rreq" /\ queue' = [queue EXCEPT ![n] = rest]
            /\ air' = air (+) SetToBag({frame(m) : m \in Neighbours(n)}) /\ UNCHANGED <<ft, refused>>
        BY <2>5 DEF SendRreq, Handles, Item
      <3>2. Budget(msg.hop_limit, msg.orig_metric) /\ Serves(n, msg.orig)
        BY <2>2, <3>1 DEF ItemOk
      <3>3. TablesGrow
        BY <3>1 DEF TablesGrow
      <3>4. \A f \in {frame(m) : m \in Neighbours(n)} : FrameOk(f)
        BY <3>2 DEF FrameOk
      <3>5. \A f \in {frame(m) : m \in Neighbours(n)} : FrameOk(f)'
        <4> HIDE DEF frame
        <4>1. QED
          BY <1>00, <2>1, <3>3, <3>4
      <3>6. \A f \in BagToSet(air') : FrameOk(f)'
        BY <1>00, <2>1, <3>1, <3>3, <3>5, SentOk
      <3>7. QED
        BY <2>3, <3>1, <3>3, <3>6
    <2>6. CASE SendRrep(n)
      <3> PICK msg, hops : msg = item.msg /\ hops = Neighbours(n) \cap {item.next_hop}
        OBVIOUS
      <3> DEFINE frame(m) == [type |-> "rrep", src |-> n, dst |-> m, hop_limit |-> msg.hop_limit,
                              orig |-> msg.orig, orig_seqnum |-> msg.orig_seqnum,
                              metric |-> msg.targ_metric, targ |-> msg.targ,
                              targ_seqnum |-> seqnum[n]]
      <3>1. /\ item.kind = "send_rrep" /\ queue' = [queue EXCEPT ![n] = rest]
            /\ air' = air (+) SetToBag({frame(m) : m \in hops}) /\ UNCHANGED <<ft, refused>>
        BY <2>6 DEF SendRrep, Handles, Item
      <3>2. Serves(n, msg.targ)
        BY <2>2, <3>1 DEF ItemOk
      <3>3. TablesGrow
        BY <3>1 DEF TablesGrow
      <3> PICK new : new = {frame(m) : m \in hops}
        OBVIOUS
      <3>4. \A f \in new : FrameOk(f)
        BY <3>2 DEF FrameOk
      <3>5. \A f \in new : FrameOk(f)'
        BY <1>00, <2>1, <3>3, <3>4
      <3>6. \A f \in BagToSet(air') : FrameOk(f)'
        BY <1>00, <2>1, <3>1, <3>3, <3>5, SentOk
      <3>7. QED
        BY <2>3, <3>1, <3>3, <3>6
    <2>7. CASE RreqDropped(n) \/ RreqRedundant(n) \/ RrepDropped(n)
      <3>1. queue' = [queue EXCEPT ![n] = rest] /\ UNCHANGED <<air, ft, refused>>
        BY <2>7 DEF RreqDropped, RreqRedundant, RrepDropped
      <3>2. TablesGrow
        BY <3>1 DEF TablesGrow
      <3>3. QED
        BY <1>00, <2>1, <2>3, <3>1, <3>2
    <2>8. CASE RreqProcessed(n)
      <3> PICK f, msg, learn :
               /\ f = Read(n) /\ msg = Updated(RreqOf(n, f))
               /\ learn = LearnOutcome(lrs[n], now, OrigNode(msg), MetricType)
        OBVIOUS
      <3>1. /\ item.kind = "rcv" /\ f.type = "rreq" /\ f = item.frame /\ air' = air
            /\ RreqContinue(n, msg, learn)
        BY <2>8 DEF RreqProcessed, HasRreq, Handles, Item, Read
      <3>2. /\ Budget(f.hop_limit, f.metric) /\ Serves(f.src, f.orig)
            /\ f.src \in Neighbours(n)
        BY <2>2, <3>1, Basics DEF ItemOk, FrameOk
      <3>3. /\ msg.hop_limit = f.hop_limit - 1 /\ msg.orig_metric = f.metric + 1
            /\ msg.orig = f.orig /\ msg.targ = f.targ
        BY DEF Updated, RreqOf
      <3>4. Budget(msg.hop_limit, msg.orig_metric)
        BY <3>2, <3>3, Basics DEF Budget
      <3>5. CASE learn = "no_improvement"
        <4>1. queue' = [queue EXCEPT ![n] = rest] /\ UNCHANGED <<ft, refused>>
          BY <3>1, <3>5 DEF RreqContinue
        <4>2. TablesGrow
          BY <4>1 DEF TablesGrow
        <4>3. QED
          BY <1>00, <2>1, <2>3, <3>1, <4>1, <4>2
      <3>6. CASE learn # "no_improvement"
        <4>1. FtUpdate(n, f.orig, f.src, learn)
          BY <3>1, <3>3, <3>6 DEF RreqContinue
        <4>2. Learned(n, f.orig, f.src)
          BY <3>2, <4>1 DEF Learned
        <4>3. TablesGrow
          BY <4>2 DEF TablesGrow
        <4>4. CASE IsClient(n, msg.targ)
          <5> PICK q : q = SendRrepTo([msg EXCEPT !.targ_metric = 0], f.src)
            OBVIOUS
          <5>1. queue' = [queue EXCEPT ![n] = Append(rest, q)]
            BY <3>1, <3>6, <4>4 DEF RreqContinue
          <5>2. q.kind = "send_rrep" /\ q.msg.targ = msg.targ
            BY <3>3 DEF SendRrepTo, Updated, RreqOf
          <5>3. Serves(n, msg.targ)
            BY <4>4, Basics DEF Serves
          <5>4. ItemOk(n, q)
            BY <5>2, <5>3 DEF ItemOk
          <5>5. QED
            BY <1>00, <2>1, <2>4, <3>1, <4>3, <5>1, <5>4
        <4>5. CASE ~IsClient(n, msg.targ)
          <5> PICK q : q = SendRreqTo(msg)
            OBVIOUS
          <5>1. queue' = [queue EXCEPT ![n] = Append(rest, q)]
            BY <3>1, <3>6, <4>5 DEF RreqContinue
          <5>2. q.kind = "send_rreq" /\ q.msg = msg
            BY DEF SendRreqTo
          <5>3. Serves(n, msg.orig)'
            BY <3>3, <4>2, LearnedServes
          <5>4. ItemOk(n, q)'
            BY <3>4, <5>2, <5>3 DEF ItemOk, Budget
          <5>5. QED
            BY <2>4, <3>1, <4>3, <5>1, <5>4
        <4>6. QED
          BY <4>4, <4>5
      <3>7. QED
        BY <3>5, <3>6
    <2>9. CASE RrepProcessed(n)
      <3> PICK f, msg, rt, learn :
               /\ f = Read(n) /\ msg = [RrepOf(n, f) EXCEPT !.targ_metric = @ + 1]
               /\ rt = LearnTable(lrs[n], now, TargNode(msg, f), f.src, MetricType, LinkCost)
               /\ learn = LearnOutcome(lrs[n], now, TargNode(msg, f), MetricType)
        OBVIOUS
      <3>1. /\ item.kind = "rcv" /\ f.type = "rrep" /\ f = item.frame /\ air' = air
            /\ RrepContinue(n, msg, rt, learn)
        BY <2>9 DEF RrepProcessed, HasRrep, Handles, Item, Read
      <3>2. Serves(f.src, f.targ) /\ f.src \in Neighbours(n)
        BY <2>2, <3>1, Basics DEF ItemOk, FrameOk
      <3>3. msg.targ = f.targ
        BY DEF RrepOf
      <3>4. CASE learn = "no_improvement"
        <4>1. queue' = [queue EXCEPT ![n] = rest] /\ UNCHANGED <<ft, refused>>
          BY <3>1, <3>4 DEF RrepContinue
        <4>2. TablesGrow
          BY <4>1 DEF TablesGrow
        <4>3. QED
          BY <1>00, <2>1, <2>3, <3>1, <4>1, <4>2
      <3>5. CASE learn # "no_improvement"
        <4> PICK q : q = SendRrepTo(msg, NextHop(rt, msg.orig))
          OBVIOUS
        <4>1. /\ FtUpdate(n, f.targ, f.src, learn)
              /\ \/ queue' = [queue EXCEPT ![n] = rest]
                 \/ queue' = [queue EXCEPT ![n] = Append(rest, q)]
          BY <3>1, <3>3, <3>5 DEF RrepContinue
        <4>2. Learned(n, f.targ, f.src)
          BY <3>2, <4>1 DEF Learned
        <4>3. TablesGrow
          BY <4>2 DEF TablesGrow
        <4>4. q.kind = "send_rrep" /\ q.msg = msg
          BY DEF SendRrepTo
        <4>5. Serves(n, msg.targ)'
          BY <3>3, <4>2, LearnedServes
        <4>6. ItemOk(n, q)'
          BY <4>4, <4>5 DEF ItemOk
        <4>7. QED
          BY <1>00, <2>1, <2>3, <2>4, <3>1, <4>1, <4>3, <4>6
      <3>6. QED
        BY <3>4, <3>5
    <2>10. QED
      BY <1>2, <2>5, <2>6, <2>7, <2>8, <2>9 DEF Thread
  <1>3. ASSUME NEW f \in BagToSet(air), Deliver(f) \/ Lose(f) PROVE IInv'
    <2> PICK item, n : item = [kind |-> "rcv", frame |-> f] /\ n = f.dst
      OBVIOUS
    <2>1. /\ air' = air (-) SetToBag({f}) /\ UNCHANGED <<ft, refused, now, scenario>>
          /\ queue' = queue \/ queue' = [queue EXCEPT ![n] = Append(queue[n], item)]
      BY <1>3 DEF Deliver, Lose, nodeVars
    <2>2. TablesGrow
      BY <2>1 DEF TablesGrow
    <2>3. \A g \in BagToSet(air') : FrameOk(g)'
      BY <1>00, <2>1, <2>2, TakenOk
    <2>4. FrameOk(f) /\ n \in Nodes
      BY <1>0, Basics DEF FrameOk
    <2>5. ItemOk(n, item)'
      <3>1. ItemOk(n, item)
        BY <2>4 DEF ItemOk
      <3>2. QED
        BY <1>00, <2>1, <2>2, <3>1
    <2> PICK t, s : t = queue[n] /\ s = Append(t, item)
      OBVIOUS
    <2>6. QueueOk(n, s)'
      <3>1. QueueOk(n, t)
        BY <1>0, <2>4
      <3>2. QueueOk(n, Append(t, item))'
        BY <2>1, <2>2, <2>5, <3>1, AppendOk
      <3>3. QED
        BY <3>2
    <2>7. QED
      BY <1>0, <2>1, <2>2, <2>3, <2>4, <2>6, StepOk
  <1>4. CASE Tick \/ UNCHANGED vars
    <2>1. UNCHANGED <<air, queue, ft, refused, scenario>> /\ now' \in Nat
      BY <1>0, <1>4 DEF Tick, vars, nodeVars
    <2>2. TablesGrow
      BY <2>1 DEF TablesGrow
    <2>3. QED
      BY <1>00, <2>1, <2>2, StepOk
  <1>5. QED
    BY <1>1, <1>2, <1>3, <1>4 DEF Next, ReliableNext

\* The initial states satisfy the invariant.
LEMMA IInvInit == Init => IInv
  <1> SUFFICES ASSUME Init PROVE IInv
    OBVIOUS
  <1>1. /\ queue = [n \in Nodes |-> <<>>] /\ air = SetToBag({})
        /\ ft = [n \in Nodes |-> [a \in Addrs |-> [next_hop |-> NoAddr, until |-> 0]]]
        /\ refused = [n \in Nodes |-> {}] /\ now = 0 /\ scenario \in Scenarios
    BY DEF Init, EmptyBag, NoRoute
  <1>2. \A f \in BagToSet(air) : FrameOk(f)
    <2>1. BagToSet(SetToBag({})) = {}
      BY DEF BagToSet, SetToBag
    <2>2. BagToSet(air) = {}
      BY <1>1, <2>1
    <2>3. QED
      BY <2>2
  <1>3. queue = [n \in Nodes |-> queue[n]] /\ \A n \in Nodes : queue[n] = <<>>
    BY <1>1
  <1>4. \A n \in Nodes : QueueOk(n, queue[n])
    BY <1>3, EmptyOk
  <1>5. ft \in Tables /\ refused \in Refusals /\ now \in Nat /\ scenario \in Scenarios
        /\ NextHopKnowsTheWay
    BY <1>1 DEF Tables, Refusals, NextHopKnowsTheWay
  <1>6. QED
    BY <1>2, <1>3, <1>4, <1>5 DEF IInv

\* The invariant holds in every reachable state.
LEMMA Invariance == Spec => []IInv
  BY IInvInit, IInvStep, PTL DEF Spec

-----------------------------------------------------------------------------
(***************************************************************************)
(* Hop limit and metric of an RREQ add up to the metric limit, wherever    *)
(* the RREQ is and whatever way it took.                                   *)
(***************************************************************************)
THEOREM HopBudgetHolds == Spec => []HopBudget
  <1>1. IInv => HopBudget
    <2> SUFFICES ASSUME IInv PROVE HopBudget
      OBVIOUS
    <2>1. ASSUME NEW q \in UNION {Range(queue[n]) : n \in Nodes}
          PROVE  \E n \in Nodes : ItemOk(n, q)
      <3>1. PICK n \in Nodes : q \in Range(queue[n])
        BY <2>1
      <3>2. QueueOk(n, queue[n])
        BY DEF IInv
      <3>3. QED
        BY <3>1, <3>2, RangeOk
    <2>2. ASSUME NEW f \in Frames PROVE FrameOk(f)
      BY <2>1 DEF IInv, Frames, ItemOk
    <2>3. ASSUME NEW q \in ToSend("send_rreq")
          PROVE  Budget(q.msg.hop_limit, q.msg.orig_metric)
      BY <2>1 DEF ToSend, ItemOk
    <2>4. QED
      BY <2>2, <2>3 DEF HopBudget, FrameOk, Budget
  <1>2. QED
    BY <1>1, Invariance, PTL

(***************************************************************************)
(* The next hop of every forwarding entry is a neighbour that serves the   *)
(* destination or has a forwarding entry for it too, unless the NIB of     *)
(* that neighbour has refused it, in any network and however late and in   *)
(* whatever order RREQs and RREPs arrive.                                  *)
(***************************************************************************)
THEOREM NextHopsKnowTheWay == Spec => []NextHopKnowsTheWay
  <1>1. IInv => NextHopKnowsTheWay
    BY DEF IInv
  <1>2. QED
    BY <1>1, Invariance, PTL

-----------------------------------------------------------------------------
(***************************************************************************)
(* The types of the variables, and what the sets of a router hold.  Every  *)
(* operation of the two sets leaves in each slot what was there, aged, or  *)
(* what the message it was called with says; so one lemma per operation is *)
(* enough for both the types and the metrics.                              *)
(***************************************************************************)
LrsTables == [Slots -> [used : BOOLEAN, route : Routes]]

McEntries == [used : BOOLEAN, orig : Addresses, targ : Addresses, metric_type : {0, MetricType},
              metric : Byte, seqnum : Seqs, removal_time : Nat, seqnortr : {NoAddr}]

McTables == [McSlots -> McEntries]

\* The IPC messages.
Received == [kind : {"rcv"}, frame : FrameType]
Sends == [kind : {"send_rreq", "send_rrep"}, msg : Msgs, next_hop : Nodes \cup {NoAddr}]
Queues == Seq(Received \cup Sends)

QueuesFit == \A n \in Nodes : Len(queue[n]) <= QueueSize

Typed ==
    /\ lrs \in [Nodes -> LrsTables]
    /\ mcmsgs \in [Nodes -> McTables]
    /\ seqnum \in [Nodes -> Seqs \ {0}]
    /\ targ_metric \in [Nodes -> Byte]
    /\ queue \in [Nodes -> Queues] /\ QueuesFit
    /\ ft \in Tables /\ refused \in Refusals
    /\ waiting \in [Nodes -> [BufSlots -> Addresses]]
    /\ BagToSet(air) \subseteq FrameType
    /\ scenario \in Scenarios
    /\ now \in 0 .. scenario.time /\ requests \in 0 .. scenario.packets

\* Assigning to an element of an array.
LEMMA ExceptType ==
    ASSUME NEW D, NEW R, NEW f \in [D -> R], NEW x, NEW v, x \in D => v \in R
    PROVE  [f EXCEPT ![x] = v] \in [D -> R]
  OBVIOUS

\* The numbers there are.
LEMMA Numbers ==
    /\ 0 \in Byte /\ 0 \in Seqs /\ MaxMetric \in Byte /\ Byte \subseteq Nat /\ Seqs \subseteq Nat
    /\ Byte \subseteq Seqs /\ 1 \in Seqs \ {0}
    /\ MetricType \in Nat /\ LinkCost = 1 /\ MaxMetric \in Nat \ {0}
    /\ \A s \in Seqs : ReadSeqnum(s) \in Seqs
    /\ \A s \in Seqs \ {0} : NextSeqnum(s) \in Seqs \ {0}
    /\ \A b \in Byte : b + 1 < MaxMetric => b + 1 \in Byte
    /\ \A i \in Int : i % ByteMod \in Byte
  <1>1. /\ SeqMod \in Nat \ {0} /\ SeqMod % 2 = 0 /\ ByteMod \in Nat \ {0} /\ ByteMod <= SeqMod
        /\ MaxMetric \in Nat \ {0} /\ MaxMetric < ByteMod
    BY SeqnumCmpAssumption, Aodvv2Assumption
  <1>2. SeqMod >= 2
    BY <1>1
  <1>3. \A i \in Int : i % ByteMod \in Byte
    BY <1>1 DEF Byte
  <1>4. Byte \subseteq Seqs /\ Byte \subseteq Nat /\ Seqs \subseteq Nat
    BY <1>1 DEF Byte, Seqs
  <1>5. \A s \in Seqs \ {0} : NextSeqnum(s) \in Seqs \ {0}
    BY <1>1, <1>2 DEF NextSeqnum, Seqs
  <1>6. \A s \in Seqs : ReadSeqnum(s) \in Seqs
    <2>1. Seqs \subseteq Int
      BY <1>4
    <2>2. QED
      BY <1>3, <1>4, <2>1 DEF ReadSeqnum
  <1>7. QED
    BY <1>1, <1>2, <1>3, <1>4, <1>5, <1>6 DEF Byte, Seqs, LinkCost, MetricType

\* What an operation of the Local Route Set leaves of the route of a slot.
Kept(r, q) == q.addr = NoAddr \/ (q.addr = r.addr /\ q.metric = r.metric)

LEMMA ResetKeeps ==
    ASSUME NEW r \in Routes, NEW t \in Nat
    PROVE  ResetIfStale(r, t) \in Routes /\ Kept(r, ResetIfStale(r, t))
  <1>1. BlankRoute \in Routes
    BY Numbers DEF BlankRoute, Routes, Addresses, RouteStates
  <1> DEFINE idle    == [r EXCEPT !.state = "idle", !.last_used = t]
             expired == [r EXCEPT !.state = "expired", !.last_used = t]
  <1>2. idle \in Routes /\ expired \in Routes /\ Kept(r, idle) /\ Kept(r, expired) /\ Kept(r, r)
    BY DEF Routes, RouteStates, Kept
  <1>3. ResetIfStale(r, t) \in {r, idle, expired, BlankRoute}
    BY DEF ResetIfStale
  <1> HIDE DEF idle, expired
  <1>4. QED
    BY <1>1, <1>2, <1>3 DEF Kept, BlankRoute

LEMMA GetKeeps ==
    ASSUME NEW rt \in LrsTables, NEW t \in Nat, NEW addr, NEW mt,
           NEW qt, qt = AfterGet(rt, t, addr, mt)
    PROVE  qt \in LrsTables /\ \A i \in Slots : Kept(rt[i].route, qt[i].route)
  <1>1. ASSUME NEW i \in Slots
        PROVE  /\ ResetSlot(rt[i], t) \in [used : BOOLEAN, route : Routes]
               /\ Kept(rt[i].route, ResetSlot(rt[i], t).route)
               /\ Kept(rt[i].route, rt[i].route)
    <2>1. rt[i] \in [used : BOOLEAN, route : Routes]
      BY DEF LrsTables
    <2>2. ResetIfStale(rt[i].route, t) \in Routes /\ Kept(rt[i].route, ResetIfStale(rt[i].route, t))
      BY <2>1, ResetKeeps
    <2>3. QED
      BY <2>1, <2>2 DEF ResetSlot, Kept
  <1>2. \A i \in Slots : qt[i] \in {rt[i], ResetSlot(rt[i], t)}
    BY DEF AfterGet
  <1>3. qt = [i \in Slots |-> qt[i]]
    BY DEF AfterGet
  <1>4. QED
    BY <1>1, <1>2, <1>3 DEF LrsTables

\* aodvv2_lrs_add_entry, and the tables the reader's end callbacks leave: each
\* slot holds what it held, or the entry.
LEMMA AddKeepsOrAdds ==
    ASSUME NEW rt \in LrsTables, NEW t \in Nat, NEW e \in Routes,
           NEW qt, qt = aodvv2_lrs_add_entry(rt, t, e)
    PROVE  /\ qt \in LrsTables
           /\ \A i \in Slots : Kept(rt[i].route, qt[i].route) \/ qt[i].route = e
  <1> PICK r1, x : /\ r1 = AfterGet(rt, t, e.addr, e.metric_type) /\ x = First(FreeSlots(r1))
    OBVIOUS
  <1>1. r1 \in LrsTables /\ \A i \in Slots : Kept(rt[i].route, r1[i].route)
    BY GetKeeps
  <1>2. qt = r1 \/ qt = [r1 EXCEPT ![x] = [used |-> TRUE, route |-> e]]
    BY DEF aodvv2_lrs_add_entry
  <1>3. \A i \in Slots : qt[i] = r1[i] \/ qt[i] = [used |-> TRUE, route |-> e]
    BY <1>1, <1>2 DEF LrsTables
  <1>4. qt = [i \in Slots |-> qt[i]]
    BY <1>1, <1>2 DEF LrsTables
  <1>5. \A i \in Slots : qt[i] \in [used : BOOLEAN, route : Routes]
    <2>1. [used |-> TRUE, route |-> e] \in [used : BOOLEAN, route : Routes]
      OBVIOUS
    <2>2. \A i \in Slots : r1[i] \in [used : BOOLEAN, route : Routes]
      BY <1>1 DEF LrsTables
    <2>3. QED
      BY <1>3, <2>1, <2>2
  <1>6. QED
    BY <1>1, <1>3, <1>4, <1>5 DEF LrsTables

LEMMA LearnKeepsOrAdds ==
    ASSUME NEW rt \in LrsTables, NEW t \in Nat, NEW node, NEW sender, NEW mt,
           NEW e, e = FillRoutingEntry(node, sender, mt, t, LinkCost), e \in Routes,
           NEW qt, qt = LearnTable(rt, t, node, sender, mt, LinkCost)
    PROVE  /\ qt \in LrsTables
           /\ \A i \in Slots : Kept(rt[i].route, qt[i].route) \/ qt[i].route = e
  <1> PICK r1, f, o : /\ r1 = AfterGet(rt, t, node.addr, mt) /\ f = Found(rt, t, node.addr, mt)
                      /\ o = LearnOutcome(rt, t, node, mt)
    OBVIOUS
  <1>1. r1 \in LrsTables /\ \A i \in Slots : Kept(rt[i].route, r1[i].route)
    BY GetKeeps
  <1>2. /\ o \in {"new", "better", "no_improvement"}
        /\ qt = CASE o = "new"            -> aodvv2_lrs_add_entry(r1, t, e)
                  [] o = "better"         -> [r1 EXCEPT ![f].route = e]
                  [] o = "no_improvement" -> r1
    BY DEF LearnTable, LearnOutcome
  <1>3. CASE o = "new"
    <2>1. /\ qt \in LrsTables
          /\ \A i \in Slots : Kept(r1[i].route, qt[i].route) \/ qt[i].route = e
      BY <1>1, <1>2, <1>3, AddKeepsOrAdds
    <2>2. QED
      <3>1. ASSUME NEW i \in Slots, Kept(r1[i].route, qt[i].route)
            PROVE  Kept(rt[i].route, qt[i].route)
        <4>1. Kept(rt[i].route, r1[i].route)
          BY <1>1
        <4>2. QED
          BY <3>1, <4>1 DEF Kept
      <3>2. QED
        BY <2>1, <3>1
  <1>4. CASE o = "better"
    <2>1. qt = [r1 EXCEPT ![f].route = e]
      BY <1>2, <1>4
    <2>2. \A i \in Slots : qt[i] = r1[i] \/ qt[i] = [r1[i] EXCEPT !.route = e]
      BY <1>1, <2>1 DEF LrsTables
    <2>3. qt = [i \in Slots |-> qt[i]]
      BY <1>1, <2>1 DEF LrsTables
    <2>4. \A i \in Slots : /\ qt[i] \in [used : BOOLEAN, route : Routes]
                           /\ qt[i].route = r1[i].route \/ qt[i].route = e
      BY <1>1, <2>2 DEF LrsTables
    <2>5. QED
      BY <1>1, <2>3, <2>4 DEF LrsTables
  <1>5. CASE o = "no_improvement"
    BY <1>1, <1>2, <1>5
  <1>6. QED
    BY <1>2, <1>3, <1>4, <1>5

\* The entry a message fills.
LEMMA EntryType ==
    ASSUME NEW addr \in Addrs, NEW number \in Seqs, NEW metric \in Byte, NEW sender \in Nodes,
           NEW t \in Nat, NEW node, node = [addr |-> addr, seqnum |-> number, metric |-> metric],
           NEW e, e = FillRoutingEntry(node, sender, MetricType, t, LinkCost)
    PROVE  /\ e \in Routes /\ e.addr = addr /\ e.metric = (metric + LinkCost) % ByteMod
  <1>1. (metric + LinkCost) % ByteMod \in Byte
    BY Numbers
  <1>2. t + Validity \in Nat
    BY Basics
  <1>3. QED
    BY <1>1, <1>2 DEF FillRoutingEntry, Routes, RouteStates, Addresses

\* aodvv2_lrs_get_next_hop returns a router or NULL.
LEMMA NextHopType ==
    ASSUME NEW rt \in LrsTables, NEW addr
    PROVE  NextHop(rt, addr) \in Nodes \cup {NoAddr}
  <1>1. LrsSize \in Nat /\ Hits(rt, now, addr, MetricType) \in SUBSET (1 .. LrsSize)
    BY LrsAssumption DEF Hits, Slots
  <1>2. Found(rt, now, addr, MetricType) \in 0 .. LrsSize
    BY <1>1, WalkResult DEF Found
  <1>3. QED
    BY <1>1, <1>2 DEF NextHop, LrsTables, Routes, Slots

-----------------------------------------------------------------------------
\* aodvv2_mcmsg_process keeps the type of the Multicast Message Set.
LEMMA ProcessType ==
    ASSUME NEW mc \in McTables, NEW t \in Nat, NEW m,
           m.orig \in Addresses, m.targ \in Addresses, m.metric_type = MetricType,
           m.metric \in Byte, m.seqnum \in Seqs
    PROVE  aodvv2_mcmsg_process(mc, t, m).mc \in McTables
  <1> PICK c, mc1, until : /\ c = FindComparable(mc, t, m) /\ mc1 = AfterFind(mc, t, m)
                           /\ until = t + McLifetime
    OBVIOUS
  <1> PICK timed : timed = [mc1 EXCEPT ![c].removal_time = until]
    OBVIOUS
  <1> PICK mc2 : mc2 = [timed EXCEPT ![c].seqnum = m.seqnum, ![c].metric = m.metric]
    OBVIOUS
  <1> PICK worse : worse = FirstNoWorse(mc2, t, c)
    OBVIOUS
  <1> PICK mc3 : mc3 = [i \in McSlots |-> IF i # c /\ (worse = 0 \/ i <= worse)
                                          THEN McReset(mc2[i], t) ELSE mc2[i]]
    OBVIOUS
  <1>0. until \in Nat
    BY McMsgAssumption
  <1>1. BlankMc \in McEntries
    BY Numbers DEF BlankMc, McEntries, Addresses
  <1>2. \A e \in McEntries : McReset(e, t) \in McEntries
    BY <1>1 DEF McReset
  <1>3. mc1 \in McTables
    BY <1>2 DEF AfterFind, McTables
  <1>4. McAdd(mc1, t, m) \in McTables
    <2> PICK i : i = FirstOrNone({j \in McSlots : ~mc1[j].used})
      OBVIOUS
    <2> DEFINE add(e) == [e EXCEPT !.used = TRUE, !.orig = m.orig, !.targ = m.targ,
                                   !.metric_type = m.metric_type, !.metric = m.metric,
                                   !.seqnum = m.seqnum, !.removal_time = until]
    <2>1. \A e \in McEntries : add(e) \in McEntries
      BY <1>0 DEF McEntries
    <2>2. McAdd(mc1, t, m) = mc1 \/ McAdd(mc1, t, m) = [mc1 EXCEPT ![i] = add(mc1[i])]
      BY DEF McAdd
    <2> HIDE DEF add
    <2>3. QED
      BY <1>3, <2>1, <2>2 DEF McTables
  <1>5. timed \in McTables
    <2>1. \A e \in McEntries : [e EXCEPT !.removal_time = until] \in McEntries
      BY <1>0 DEF McEntries
    <2> PICK e : e = [mc1[c] EXCEPT !.removal_time = until]
      OBVIOUS
    <2>2. timed = [mc1 EXCEPT ![c] = e] /\ (c \in McSlots => e \in McEntries)
      BY <1>3, <2>1 DEF McTables
    <2>3. QED
      BY <1>3, <2>2, ExceptType DEF McTables
  <1>6. mc2 \in McTables
    BY <1>5 DEF McTables, McEntries
  <1>7. mc3 \in McTables
    BY <1>2, <1>6 DEF McTables
  <1>8. aodvv2_mcmsg_process(mc, t, m).mc \in {McAdd(mc1, t, m), timed, mc3}
    BY DEF aodvv2_mcmsg_process
  <1>9. QED
    BY <1>3, <1>4, <1>5, <1>7, <1>8

-----------------------------------------------------------------------------
\* The queue of a thread: what is taken out of it and put into it.
LEMMA TakeType ==
    ASSUME NEW s \in Queues, s # <<>>
    PROVE  /\ Head(s) \in Received \cup Sends
           /\ Tail(s) \in Queues /\ Len(Tail(s)) = Len(s) - 1 /\ Len(s) \in Nat
  BY HeadTailProperties, LenProperties DEF Queues

LEMMA PutType ==
    ASSUME NEW s \in Queues, NEW q \in Received \cup Sends
    PROVE  Append(s, q) \in Queues /\ Len(Append(s, q)) = Len(s) + 1 /\ Len(s) \in Nat
  BY AppendProperties, LenProperties DEF Queues

LEMMA SentType ==
    ASSUME NEW new \in SUBSET FrameType, BagToSet(air) \subseteq FrameType,
           air' = air (+) SetToBag(new)
    PROVE  BagToSet(air') \subseteq FrameType
  BY DEF BagToSet, SetToBag, (+)

LEMMA TakenType ==
    ASSUME NEW taken, BagToSet(air) \subseteq FrameType, air' = air (-) taken
    PROVE  BagToSet(air') \subseteq FrameType
  BY DEF BagToSet, (-)

\* What a scenario says.
LEMMA ScenarioType ==
    ASSUME scenario \in Scenarios
    PROVE  /\ scenario.packets \in Nat /\ scenario.time \in Nat
           /\ \A r \in scenario.senders : r[1] \in Nodes /\ r[2] \in Nodes
  BY Aodvv2Assumption

\* The addresses of a router are addresses.
LEMMA OwnAddresses ==
    /\ \A n \in Nodes : Net[n] \in Addrs /\ Host[n] \in Addrs
    /\ NoAddr \notin Addrs /\ NoAddr \in Addresses /\ Addrs \subseteq Addresses
  BY Aodvv2Assumption DEF Addrs, Addresses

\* The message an acceptable RREQ or RREP is read into.
LEMMA RreqMsgType ==
    ASSUME NEW n \in Nodes, targ_metric[n] \in Byte, NEW f \in FrameType, RreqAcceptable(f),
           NEW msg, msg = Updated(RreqOf(n, f))
    PROVE  /\ msg \in Msgs
           /\ msg.orig = f.orig /\ msg.targ = f.targ /\ msg.orig_metric = f.metric + 1
  <1>1. /\ f.hop_limit \in Byte /\ f.metric \in Byte /\ f.orig_seqnum \in Seqs
        /\ f.orig \in Addrs /\ f.targ \in Addrs
    BY DEF FrameType
  <1>2. f.hop_limit - 1 \in Byte /\ f.metric + 1 \in Byte /\ ReadSeqnum(f.orig_seqnum) \in Seqs
    <2>1. f.hop_limit - 1 \in Byte
      BY <1>1, SeqnumCmpAssumption DEF RreqAcceptable, Byte
    <2>2. f.metric + 1 < MaxMetric
      <3>1. f.metric \in Nat
        BY <1>1, Numbers
      <3>2. QED
        BY <3>1, Numbers DEF RreqAcceptable, LinkCost
    <2>3. QED
      BY <1>1, <2>1, <2>2, Numbers
  <1>3. msg = [hop_limit |-> f.hop_limit - 1, orig |-> f.orig,
               orig_seqnum |-> ReadSeqnum(f.orig_seqnum), orig_metric |-> f.metric + 1,
               targ |-> f.targ, targ_metric |-> targ_metric[n]]
    BY DEF Updated, RreqOf
  <1>4. QED
    BY <1>1, <1>2, <1>3 DEF Msgs

LEMMA RrepMsgType ==
    ASSUME NEW n \in Nodes, targ_metric[n] \in Byte, NEW f \in FrameType, RrepAcceptable(n, f),
           NEW msg, msg = [RrepOf(n, f) EXCEPT !.targ_metric = @ + 1]
    PROVE  /\ msg \in Msgs
           /\ msg.orig = f.orig /\ msg.targ = f.targ /\ msg.targ_metric \in Byte
  <1>1. /\ f.hop_limit \in Byte /\ f.metric \in Byte /\ f.orig_seqnum \in Seqs
        /\ f.orig \in Addrs /\ f.targ \in Addrs
    BY DEF FrameType
  <1>2. /\ f.hop_limit - 1 \in Byte /\ targ_metric[n] + 1 \in Byte
        /\ ReadSeqnum(f.orig_seqnum) \in Seqs
    <2>1. f.hop_limit - 1 \in Byte
      BY <1>1, SeqnumCmpAssumption DEF RrepAcceptable, Byte
    <2>2. targ_metric[n] + 1 < MaxMetric
      BY Numbers DEF RrepAcceptable
    <2>3. QED
      BY <1>1, <2>1, <2>2, Numbers
  <1>3. msg = [hop_limit |-> f.hop_limit - 1, orig |-> f.orig,
               orig_seqnum |-> ReadSeqnum(f.orig_seqnum), orig_metric |-> f.metric,
               targ |-> f.targ, targ_metric |-> targ_metric[n] + 1]
    BY DEF RrepOf
  <1>4. /\ msg.orig = f.orig /\ msg.targ = f.targ /\ msg.targ_metric \in Byte
    BY <1>2, <1>3
  <1>5. msg \in Msgs
    <2> PICK limit, number, metric :
             limit = f.hop_limit - 1 /\ number = ReadSeqnum(f.orig_seqnum) /\ metric = targ_metric[n] + 1
      OBVIOUS
    <2>1. msg = [hop_limit |-> limit, orig |-> f.orig, orig_seqnum |-> number,
                 orig_metric |-> f.metric, targ |-> f.targ, targ_metric |-> metric]
      BY <1>3
    <2>2. limit \in Byte /\ number \in Seqs /\ metric \in Byte
      BY <1>2
    <2>3. QED
      BY ONLY <1>1, <2>1, <2>2 DEF Msgs
  <1>6. QED
    BY <1>4, <1>5

\* The forwarded RREQ, the RREP that answers it, the forwarded RREP.
LEMMA SendsType ==
    ASSUME NEW msg \in Msgs
    PROVE  /\ SendRreqTo(msg) \in Sends
           /\ \A hop \in Nodes \cup {NoAddr} : SendRrepTo(msg, hop) \in Sends
           /\ [msg EXCEPT !.targ_metric = 0] \in Msgs
  BY Numbers DEF SendRreqTo, SendRrepTo, Sends, Msgs

\* Every step keeps the types.
LEMMA TypedStep == Typed /\ [Next]_vars => Typed'
  <1> SUFFICES ASSUME Typed, [Next]_vars PROVE Typed'
    OBVIOUS
  <1>0. /\ lrs \in [Nodes -> LrsTables] /\ mcmsgs \in [Nodes -> McTables]
        /\ seqnum \in [Nodes -> Seqs \ {0}] /\ targ_metric \in [Nodes -> Byte]
        /\ queue \in [Nodes -> Queues] /\ QueuesFit
        /\ ft \in Tables /\ refused \in Refusals
        /\ waiting \in [Nodes -> [BufSlots -> Addresses]]
        /\ BagToSet(air) \subseteq FrameType /\ scenario \in Scenarios
        /\ now \in 0 .. scenario.time /\ requests \in 0 .. scenario.packets
    BY DEF Typed
  <1>00. /\ now \in Nat /\ QueueSize \in Nat
         /\ scenario.packets \in Nat /\ scenario.time \in Nat
    BY <1>0, ScenarioType, Aodvv2Assumption
  <1>q. ASSUME NEW n \in Nodes, NEW s \in Queues, Len(s) <= QueueSize,
               queue' = [queue EXCEPT ![n] = s]
        PROVE  queue' \in [Nodes -> Queues] /\ QueuesFit'
    BY <1>0, <1>q DEF QueuesFit
  <1>1. ASSUME NEW r \in scenario.senders, NEW rtr, RouteInfo(r[1], r[2], rtr) PROVE Typed'
    <2> PICK n, d, msg : /\ n = r[1] /\ d = r[2]
                         /\ msg = [hop_limit |-> MaxMetric, orig |-> Net[n],
                                   orig_seqnum |-> seqnum[n], orig_metric |-> 0,
                                   targ |-> Host[d], targ_metric |-> 0]
      OBVIOUS
    <2>1. n \in Nodes /\ d \in Nodes
      BY <1>0, ScenarioType
    <2>2. msg \in Msgs
      BY <1>0, <2>1, Numbers, OwnAddresses DEF Msgs
    <2>3. /\ Len(queue[n]) < QueueSize /\ requests < scenario.packets /\ requests' = requests + 1
          /\ queue' = [queue EXCEPT ![n] = Append(queue[n], SendRreqTo(msg))]
          /\ seqnum' = [seqnum EXCEPT ![n] = NextSeqnum(seqnum[n])]
          /\ mcmsgs' = [mcmsgs EXCEPT ![n] =
                           aodvv2_mcmsg_process(mcmsgs[n], now, McView(msg, rtr)).mc]
          /\ waiting' = [waiting EXCEPT ![n][First(FreeBuffer(n))] = Host[d]]
          /\ UNCHANGED <<lrs, targ_metric, ft, refused, air, now, scenario>>
      BY <1>1 DEF RouteInfo, aodvv2_find_route
    <2>4. queue' \in [Nodes -> Queues] /\ QueuesFit'
      <3> PICK s : s = Append(queue[n], SendRreqTo(msg))
        OBVIOUS
      <3>1. s \in Queues /\ Len(s) = Len(queue[n]) + 1 /\ Len(queue[n]) \in Nat
        BY <1>0, <2>1, <2>2, SendsType, PutType
      <3>2. Len(s) <= QueueSize
        BY <1>00, <2>3, <3>1
      <3>3. queue' = [queue EXCEPT ![n] = s]
        BY <2>3
      <3>4. QED
        BY <1>q, <2>1, <3>1, <3>2, <3>3
    <2>5. seqnum' \in [Nodes -> Seqs \ {0}]
      BY <1>0, <2>1, <2>3, Numbers
    <2>6. mcmsgs' \in [Nodes -> McTables]
      <3> PICK m, mc : m = McView(msg, rtr) /\ mc = aodvv2_mcmsg_process(mcmsgs[n], now, m).mc
        OBVIOUS
      <3>1. /\ m.orig \in Addresses /\ m.targ \in Addresses /\ m.metric_type = MetricType
            /\ m.metric \in Byte /\ m.seqnum \in Seqs
        BY <2>2, OwnAddresses DEF McView, Msgs
      <3>2. mc \in McTables
        BY <1>0, <1>00, <2>1, <3>1, ProcessType
      <3>3. QED
        BY <1>0, <2>1, <2>3, <3>2, ExceptType
    <2>7. waiting' \in [Nodes -> [BufSlots -> Addresses]]
      <3> PICK x : x = First(FreeBuffer(n))
        OBVIOUS
      <3>1. [waiting[n] EXCEPT ![x] = Host[d]] \in [BufSlots -> Addresses]
        BY <1>0, <2>1, OwnAddresses
      <3>2. QED
        BY <1>0, <2>1, <2>3, <3>1
    <2>8. requests' \in 0 .. scenario'.packets
      BY <1>0, <1>00, <2>3
    <2>9. QED
      BY <1>0, <2>3, <2>4, <2>5, <2>6, <2>7, <2>8 DEF Typed
  <1>2. ASSUME NEW n \in Nodes, Thread(n) PROVE Typed'
    <2> PICK item, rest : item = Item(n) /\ rest = Tail(queue[n])
      OBVIOUS
    <2>0. /\ queue[n] # <<>> /\ UNCHANGED <<now, requests, scenario>>
      BY <1>2 DEF Thread, SendRreq, SendRrep, RreqDropped, RreqRedundant, RreqProcessed,
                  RrepDropped, RrepProcessed, HasRreq, HasRrep, Handles
    <2>1. /\ item \in Received \cup Sends /\ rest \in Queues
          /\ Len(rest) = Len(queue[n]) - 1 /\ Len(queue[n]) \in Nat /\ Len(queue[n]) <= QueueSize
      BY <1>0, <2>0, TakeType DEF Item, QueuesFit
    <2>2. ASSUME queue' = [queue EXCEPT ![n] = rest]
          PROVE  queue' \in [Nodes -> Queues] /\ QueuesFit'
      <3>1. Len(rest) <= QueueSize
        BY <1>00, <2>1
      <3>2. QED
        BY <1>q, <2>1, <2>2, <3>1
    <2>3. ASSUME NEW q \in Sends, queue' = [queue EXCEPT ![n] = Append(rest, q)]
          PROVE  queue' \in [Nodes -> Queues] /\ QueuesFit'
      <3> PICK s : s = Append(rest, q)
        OBVIOUS
      <3>1. s \in Queues /\ Len(s) = Len(rest) + 1
        BY <2>1, PutType
      <3>2. Len(s) <= QueueSize
        BY <1>00, <2>1, <3>1
      <3>3. queue' = [queue EXCEPT ![n] = s]
        BY <2>3
      <3>4. QED
        BY <1>q, <3>1, <3>2, <3>3
    <2>4. ASSUME NEW f, f = Read(n), Handles(n, "rcv")
          PROVE  /\ f \in FrameType
                 /\ f.src \in Nodes /\ f.orig \in Addrs /\ f.targ \in Addrs
                 /\ f.orig_seqnum \in Seqs /\ f.targ_seqnum \in Seqs /\ f.metric \in Byte
      BY <2>1, <2>4 DEF Handles, Item, Read, Received, Sends, FrameType
    <2>5. CASE SendRreq(n)
      <3> PICK msg : msg = item.msg
        OBVIOUS
      <3> DEFINE frame(m) == [type |-> "rreq", src |-> n, dst |-> m, hop_limit |-> msg.hop_limit,
                              orig |-> msg.orig, orig_seqnum |-> msg.orig_seqnum,
                              metric |-> msg.orig_metric, targ |-> msg.targ, targ_seqnum |-> 0]
      <3> PICK new : new = {frame(m) : m \in Neighbours(n)}
        OBVIOUS
      <3>1. /\ item.kind = "send_rreq" /\ queue' = [queue EXCEPT ![n] = rest]
            /\ air' = air (+) SetToBag(new)
            /\ UNCHANGED <<lrs, mcmsgs, seqnum, targ_metric, ft, refused, waiting>>
        BY <2>5 DEF SendRreq, Handles, Item
      <3>2. msg \in Msgs
        BY <2>1, <3>1 DEF Received, Sends
      <3>3. new \in SUBSET FrameType
        BY <3>2, Numbers, Basics DEF FrameType, Msgs
      <3>4. BagToSet(air') \subseteq FrameType
        BY <1>0, <3>1, <3>3, SentType
      <3>5. QED
        BY <1>0, <2>0, <2>2, <3>1, <3>4 DEF Typed
    <2>6. CASE SendRrep(n)
      <3> PICK msg, hops : msg = item.msg /\ hops = Neighbours(n) \cap {item.next_hop}
        OBVIOUS
      <3> DEFINE frame(m) == [type |-> "rrep", src |-> n, dst |-> m, hop_limit |-> msg.hop_limit,
                              orig |-> msg.orig, orig_seqnum |-> msg.orig_seqnum,
                              metric |-> msg.targ_metric, targ |-> msg.targ,
                              targ_seqnum |-> seqnum[n]]
      <3> PICK new : new = {frame(m) : m \in hops}
        OBVIOUS
      <3>1. /\ item.kind = "send_rrep" /\ queue' = [queue EXCEPT ![n] = rest]
            /\ air' = air (+) SetToBag(new)
            /\ seqnum' = [seqnum EXCEPT ![n] = NextSeqnum(seqnum[n])]
            /\ UNCHANGED <<lrs, mcmsgs, targ_metric, ft, refused, waiting>>
        BY <2>6 DEF SendRrep, Handles, Item
      <3>2. msg \in Msgs /\ seqnum[n] \in Seqs
        BY <1>0, <2>1, <3>1 DEF Received, Sends
      <3>3. new \in SUBSET FrameType
        BY <3>2, Basics DEF FrameType, Msgs
      <3>4. BagToSet(air') \subseteq FrameType
        BY <1>0, <3>1, <3>3, SentType
      <3>5. seqnum' \in [Nodes -> Seqs \ {0}]
        BY <1>0, <3>1, Numbers
      <3>6. QED
        BY <1>0, <2>0, <2>2, <3>1, <3>4, <3>5 DEF Typed
    <2>7. CASE RreqDropped(n) \/ RrepDropped(n)
      <3>1. /\ queue' = [queue EXCEPT ![n] = rest]
            /\ UNCHANGED <<lrs, mcmsgs, seqnum, targ_metric, ft, refused, waiting, air>>
        BY <2>7 DEF RreqDropped, RrepDropped
      <3>2. QED
        BY <1>0, <2>0, <2>2, <3>1 DEF Typed
    <2>8. ASSUME HasRreq(n) PROVE RreqVerdict(n).mc \in McTables
      <3> PICK f, m : f = Read(n) /\ m = McView(RreqOf(n, f), NoAddr)
        OBVIOUS
      <3>1. f.orig \in Addrs /\ f.targ \in Addrs /\ f.metric \in Byte /\ ReadSeqnum(f.orig_seqnum) \in Seqs
        BY <2>4, <2>8, Numbers DEF HasRreq
      <3>2. /\ m.orig \in Addresses /\ m.targ \in Addresses /\ m.metric_type = MetricType
            /\ m.metric \in Byte /\ m.seqnum \in Seqs
        BY <3>1, OwnAddresses DEF McView, RreqOf
      <3>3. QED
        BY <1>0, <1>00, <3>2, ProcessType DEF RreqVerdict
    <2>9. CASE RreqRedundant(n)
      <3>1. /\ queue' = [queue EXCEPT ![n] = rest]
            /\ HasRreq(n) /\ mcmsgs' = [mcmsgs EXCEPT ![n] = RreqVerdict(n).mc]
            /\ UNCHANGED <<lrs, seqnum, targ_metric, ft, refused, waiting, air>>
        BY <2>9 DEF RreqRedundant
      <3>2. mcmsgs' \in [Nodes -> McTables]
        BY <1>0, <2>8, <3>1
      <3>3. QED
        BY <1>0, <2>0, <2>2, <3>1, <3>2 DEF Typed
    <2>10. CASE RreqProcessed(n)
      <3> PICK f, msg, node, learn, rt :
               /\ f = Read(n) /\ msg = Updated(RreqOf(n, f)) /\ node = OrigNode(msg)
               /\ learn = LearnOutcome(lrs[n], now, node, MetricType)
               /\ rt = LearnTable(lrs[n], now, node, f.src, MetricType, LinkCost)
        OBVIOUS
      <3>1. /\ HasRreq(n) /\ RreqAcceptable(f)
            /\ mcmsgs' = [mcmsgs EXCEPT ![n] = RreqVerdict(n).mc]
            /\ lrs' = [lrs EXCEPT ![n] = rt]
            /\ RreqContinue(n, msg, learn)
            /\ UNCHANGED <<seqnum, waiting, air>>
        BY <2>10 DEF RreqProcessed
      <3>2. /\ f \in FrameType /\ f.src \in Nodes /\ f.orig \in Addrs
        BY <2>4, <3>1 DEF HasRreq
      <3>3. msg \in Msgs /\ msg.orig \in Addrs
        BY <1>0, <3>1, <3>2, RreqMsgType
      <3>4. mcmsgs' \in [Nodes -> McTables]
        BY <1>0, <2>8, <3>1
      <3>5. lrs' \in [Nodes -> LrsTables]
        <4> PICK e : e = FillRoutingEntry(node, f.src, MetricType, now, LinkCost)
          OBVIOUS
        <4>1. msg.orig_seqnum \in Seqs /\ msg.orig_metric \in Byte
          BY <3>3 DEF Msgs
        <4>2. e \in Routes
          BY <1>00, <3>2, <3>3, <4>1, EntryType DEF OrigNode
        <4>3. rt \in LrsTables
          BY <1>0, <1>00, <4>2, LearnKeepsOrAdds
        <4>4. QED
          BY <1>0, <3>1, <4>3
      <3>6. CASE learn = "no_improvement"
        <4>1. queue' = [queue EXCEPT ![n] = rest] /\ UNCHANGED <<ft, refused, targ_metric>>
          BY <3>1, <3>6 DEF RreqContinue
        <4>2. QED
          BY <1>0, <2>0, <2>2, <3>1, <3>4, <3>5, <4>1 DEF Typed
      <3>7. CASE learn # "no_improvement"
        <4>1. FtUpdate(n, msg.orig, f.src, learn)
          BY <3>1, <3>7 DEF RreqContinue
        <4>2. ft' \in Tables /\ refused' \in Refusals
          BY <1>0, <1>00, <3>2, <3>3, <4>1, FtUpdateEffect
        <4>3. targ_metric' \in [Nodes -> Byte]
          BY <1>0, <3>1, <3>7, Numbers DEF RreqContinue
        <4>4. \E q \in Sends : queue' = [queue EXCEPT ![n] = Append(rest, q)]
          <5>1. \/ queue' = [queue EXCEPT ![n] =
                               Append(rest, SendRrepTo([msg EXCEPT !.targ_metric = 0], f.src))]
                \/ queue' = [queue EXCEPT ![n] = Append(rest, SendRreqTo(msg))]
            BY <3>1, <3>7 DEF RreqContinue
          <5>2. /\ SendRrepTo([msg EXCEPT !.targ_metric = 0], f.src) \in Sends
                /\ SendRreqTo(msg) \in Sends
            BY <3>2, <3>3, SendsType
          <5>3. QED
            BY <5>1, <5>2
        <4>5. QED
          BY <1>0, <2>0, <2>3, <3>1, <3>4, <3>5, <4>2, <4>3, <4>4 DEF Typed
      <3>8. QED
        BY <3>6, <3>7
    <2>11. CASE RrepProcessed(n)
      <3> PICK f, msg, node, learn, rt :
               /\ f = Read(n) /\ msg = [RrepOf(n, f) EXCEPT !.targ_metric = @ + 1]
               /\ node = TargNode(msg, f)
               /\ learn = LearnOutcome(lrs[n], now, node, MetricType)
               /\ rt = LearnTable(lrs[n], now, node, f.src, MetricType, LinkCost)
        OBVIOUS
      <3>1. /\ HasRrep(n) /\ RrepAcceptable(n, f)
            /\ targ_metric' = [targ_metric EXCEPT ![n] = msg.targ_metric]
            /\ RrepContinue(n, msg, rt, learn)
            /\ UNCHANGED <<mcmsgs, seqnum, air>>
        BY <2>11 DEF RrepProcessed
      <3>2. /\ f \in FrameType /\ f.src \in Nodes /\ f.targ \in Addrs /\ f.targ_seqnum \in Seqs
        BY <2>4, <3>1 DEF HasRrep
      <3>3. msg \in Msgs /\ msg.targ \in Addrs /\ msg.targ_metric \in Byte
        <4>1. targ_metric[n] \in Byte
          BY <1>0
        <4>2. msg \in Msgs
          BY <3>1, <3>2, <4>1, RrepMsgType
        <4>3. QED
          BY <4>2 DEF Msgs
      <3>4. targ_metric' \in [Nodes -> Byte]
        BY <1>0, <3>1, <3>3
      <3>5. rt \in LrsTables
        <4> PICK e : e = FillRoutingEntry(node, f.src, MetricType, now, LinkCost)
          OBVIOUS
        <4>1. ReadSeqnum(f.targ_seqnum) \in Seqs
          BY <3>2, Numbers
        <4>2. e \in Routes
          BY <1>00, <3>2, <3>3, <4>1, EntryType DEF TargNode
        <4>3. QED
          BY <1>0, <1>00, <4>2, LearnKeepsOrAdds
      <3>6. AfterGet(rt, now, msg.orig, MetricType) \in LrsTables
        BY <1>00, <3>5, GetKeeps
      <3>7. lrs' \in [Nodes -> LrsTables]
        BY <1>0, <3>1, <3>5, <3>6 DEF RrepContinue
      <3>8. waiting' \in [Nodes -> [BufSlots -> Addresses]]
        <4>1. Released(waiting[n], msg.targ) \in [BufSlots -> Addresses]
          BY <1>0, OwnAddresses DEF Released
        <4>2. \/ waiting' = waiting
              \/ waiting' = [waiting EXCEPT ![n] = Released(waiting[n], msg.targ)]
          BY <3>1 DEF RrepContinue
        <4>3. QED
          BY <1>0, <4>1, <4>2
      <3>9. ft' \in Tables /\ refused' \in Refusals
        <4>1. UNCHANGED <<ft, refused>> \/ FtUpdate(n, msg.targ, f.src, learn)
          BY <3>1 DEF RrepContinue
        <4>2. CASE FtUpdate(n, msg.targ, f.src, learn)
          <5>1. f.src \in Nodes /\ msg.targ \in Addrs
            BY <3>2, <3>3 DEF Msgs
          <5>2. ft \in Tables /\ refused \in Refusals /\ now \in Nat /\ scenario \in Scenarios
            BY <1>0, <1>00
          <5>3. QED
            BY ONLY <4>2, <5>1, <5>2, FtUpdateEffect
        <4>3. QED
          BY <1>0, <4>1, <4>2
      <3>10. queue' \in [Nodes -> Queues] /\ QueuesFit'
        <4> PICK q : q = SendRrepTo(msg, NextHop(rt, msg.orig))
          OBVIOUS
        <4>1. q \in Sends
          BY <3>3, <3>5, NextHopType, SendsType
        <4>2. \/ queue' = [queue EXCEPT ![n] = rest]
              \/ queue' = [queue EXCEPT ![n] = Append(rest, q)]
          BY <3>1 DEF RrepContinue
        <4>3. CASE queue' = [queue EXCEPT ![n] = rest]
          BY <2>2, <4>3
        <4>4. CASE queue' = [queue EXCEPT ![n] = Append(rest, q)]
          BY <2>3, <4>1, <4>4
        <4>5. QED
          BY <4>2, <4>3, <4>4
      <3>11. QED
        BY <1>0, <2>0, <3>1, <3>4, <3>7, <3>8, <3>9, <3>10 DEF Typed
    <2>12. QED
      BY <1>2, <2>5, <2>6, <2>7, <2>9, <2>10, <2>11 DEF Thread
  <1>3. ASSUME NEW f \in BagToSet(air), Deliver(f) PROVE Typed'
    <2> PICK item, n : item = [kind |-> "rcv", frame |-> f] /\ n = f.dst
      OBVIOUS
    <2>1. /\ air' = air (-) SetToBag({f})
          /\ queue' = IF Len(queue[n]) < QueueSize
                      THEN [queue EXCEPT ![n] = Append(queue[n], item)] ELSE queue
          /\ UNCHANGED <<lrs, mcmsgs, seqnum, targ_metric, ft, refused, waiting, now, requests, scenario>>
      BY <1>3 DEF Deliver
    <2>2. n \in Nodes /\ item \in Received
      BY <1>0 DEF FrameType, Received
    <2>3. queue' \in [Nodes -> Queues] /\ QueuesFit'
      <3>1. CASE Len(queue[n]) < QueueSize
        <4> PICK s : s = Append(queue[n], item)
          OBVIOUS
        <4>1. s \in Queues /\ Len(s) = Len(queue[n]) + 1 /\ Len(queue[n]) \in Nat
          BY <1>0, <2>2, PutType
        <4>2. Len(s) <= QueueSize
          BY <1>00, <3>1, <4>1
        <4>3. queue' = [queue EXCEPT ![n] = s]
          BY <2>1, <3>1
        <4>4. QED
          BY <1>q, <2>2, <4>1, <4>2, <4>3
      <3>2. CASE ~(Len(queue[n]) < QueueSize)
        BY <1>0, <2>1, <3>2 DEF QueuesFit
      <3>3. QED
        BY <3>1, <3>2
    <2>4. BagToSet(air') \subseteq FrameType
      BY <1>0, <2>1, TakenType
    <2>5. QED
      BY <1>0, <2>1, <2>3, <2>4 DEF Typed
  <1>4. ASSUME NEW f \in BagToSet(air), Lose(f) PROVE Typed'
    <2>1. air' = air (-) SetToBag({f}) /\ UNCHANGED <<nodeVars, now, requests, scenario>>
      BY <1>4 DEF Lose
    <2>2. BagToSet(air') \subseteq FrameType
      BY <1>0, <2>1, TakenType
    <2>3. QED
      BY <1>0, <2>1, <2>2 DEF Typed, nodeVars, QueuesFit
  <1>5. CASE Tick
    BY <1>0, <1>00, <1>5 DEF Tick, Typed, nodeVars, QueuesFit
  <1>6. CASE UNCHANGED vars
    BY <1>0, <1>6 DEF vars, nodeVars, Typed, QueuesFit
  <1>7. QED
    BY <1>1, <1>2, <1>3, <1>4, <1>5, <1>6 DEF Next, ReliableNext

\* The initial states have the types.
LEMMA TypedInit == Init => Typed
  <1> SUFFICES ASSUME Init PROVE Typed
    OBVIOUS
  <1>1. lrs \in [Nodes -> LrsTables]
    BY Numbers DEF Init, aodvv2_lrs_init, BlankSlot, BlankRoute, LrsTables, Routes, Addresses, RouteStates
  <1>2. mcmsgs \in [Nodes -> McTables]
    BY Numbers DEF Init, aodvv2_mcmsg_init, BlankMc, McTables, McEntries, Addresses
  <1>3. seqnum \in [Nodes -> Seqs \ {0}] /\ targ_metric \in [Nodes -> Byte]
    BY Numbers DEF Init
  <1>4. queue \in [Nodes -> Queues] /\ QueuesFit
    <2>1. <<>> \in Queues /\ Len(<<>>) = 0
      BY EmptySeq DEF Queues
    <2>2. QED
      BY <2>1, Aodvv2Assumption DEF Init, QueuesFit
  <1>5. ft \in Tables /\ refused \in Refusals /\ waiting \in [Nodes -> [BufSlots -> Addresses]]
    BY OwnAddresses DEF Init, Tables, Refusals, NoRoute
  <1>6. BagToSet(air) = {}
    BY DEF Init, EmptyBag, BagToSet, SetToBag
  <1>7. scenario \in Scenarios /\ now \in 0 .. scenario.time /\ requests \in 0 .. scenario.packets
    BY ScenarioType DEF Init
  <1>8. QED
    BY <1>1, <1>2, <1>3, <1>4, <1>5, <1>6, <1>7 DEF Typed

LEMMA TypedInvariance == Spec => []Typed
  BY TypedInit, TypedStep, PTL DEF Spec

(***************************************************************************)
(* Type correctness: no metric, hop limit or sequence number a router      *)
(* keeps, queues or sends leaves its byte or its 16 bits, and no queue     *)
(* grows over its size, in any network and whatever frames arrive.         *)
(***************************************************************************)
THEOREM TypeCorrect == Spec => []TypeOK
  <1>1. Typed => TypeOK
    <2> SUFFICES ASSUME Typed PROVE TypeOK
      OBVIOUS
    <2>1. ASSUME NEW q \in UNION {Range(queue[n]) : n \in Nodes} PROVE q \in Received \cup Sends
      <3>1. PICK n \in Nodes : q \in Range(queue[n])
        BY <2>1
      <3>2. queue[n] \in Seq(Received \cup Sends)
        BY DEF Typed, Queues
      <3>3. QED
        BY <3>1, <3>2, LenProperties DEF Range
    <2>2. Frames \subseteq FrameType
      BY <2>1 DEF Frames, Typed, Received, Sends
    <2>3. \A q \in ToSend("send_rreq") \cup ToSend("send_rrep") :
             q.msg \in Msgs /\ q.next_hop \in Nodes \cup {NoAddr}
      BY <2>1 DEF ToSend, Received, Sends
    <2>4. \A n \in Nodes, i \in Slots :
             lrs[n][i].used \in BOOLEAN /\ lrs[n][i].route \in Routes
      BY DEF Typed, LrsTables
    <2>5. \A n \in Nodes, i \in McSlots :
             mcmsgs[n][i].metric \in Byte /\ mcmsgs[n][i].seqnum \in Seqs
      BY DEF Typed, McTables, McEntries
    <2>6. QED
      BY <2>2, <2>3, <2>4, <2>5 DEF TypeOK, Typed, Tables, Refusals, QueuesFit
  <1>2. QED
    BY <1>1, TypedInvariance, PTL
-----------------------------------------------------------------------------
(***************************************************************************)
(* The metrics.  A walk of f.metric links leads from OrigNode to the       *)
(* sender of an RREQ, and so one of one link more to every router that     *)
(* hears it, which is what that router writes into its route and forwards. *)
(* An RREP only makes routes to client addresses, which no prefix is.      *)
(***************************************************************************)
Hosts == {Host[d] : d \in Nodes}

RouteNear(n, r) == \A d \in Nodes : r.addr = Net[d] => r.metric > 0 /\ Near(d, n, r.metric - 1)

NearRoutes(n) == {r \in Routes : RouteNear(n, r)}

FrameNear(f) ==
    /\ f.targ \in Hosts
    /\ f.type = "rreq" => \A d \in Nodes : f.orig = Net[d] => Near(d, f.src, f.metric)

\* An IPC message of the thread of n.
ItemNear(n, q) ==
    /\ q.kind = "rcv" => FrameNear(q.frame)
    /\ q.kind # "rcv" => q.msg.targ \in Hosts
    /\ q.kind = "send_rreq" => \A d \in Nodes : q.msg.orig = Net[d] => Near(d, n, q.msg.orig_metric)

NearItems(n) == {q \in Received \cup Sends : ItemNear(n, q)}

Metrics ==
    /\ \A n \in Nodes : queue[n] \in Seq(NearItems(n))
    /\ \A f \in BagToSet(air) : FrameNear(f)
    /\ \A n \in Nodes, i \in Slots : lrs[n][i].route \in NearRoutes(n)

\* A router is zero links from itself, and one link further than its neighbour.
LEMMA NearSelf == \A n \in Nodes : Near(n, n, 0)
  <1> SUFFICES ASSUME NEW n \in Nodes PROVE Near(n, n, 0)
    OBVIOUS
  <1> DEFINE walk == [i \in 0 .. 0 |-> n]
  <1>1. walk \in [0 .. 0 -> Nodes] /\ walk[0] = n /\ 1 .. 0 = {}
    OBVIOUS
  <1> HIDE DEF walk
  <1>2. QED
    BY <1>1 DEF Near

LEMMA NearNext ==
    ASSUME NEW d, NEW m, NEW n \in Nodes, NEW k \in Nat, Near(d, m, k), n \in Neighbours(m)
    PROVE  Near(d, n, k + 1)
  <1>1. PICK walk \in [0 .. k -> Nodes] :
              /\ walk[0] = d /\ walk[k] = m
              /\ \A i \in 1 .. k : walk[i] \in Neighbours(walk[i - 1]) \cup {walk[i - 1]}
    BY DEF Near
  <1> DEFINE longer == [i \in 0 .. k + 1 |-> IF i = k + 1 THEN n ELSE walk[i]]
  <1>2. longer \in [0 .. k + 1 -> Nodes]
    OBVIOUS
  <1>3. longer[0] = d /\ longer[k] = m /\ longer[k + 1] = n
    BY <1>1
  <1>4. ASSUME NEW i \in 1 .. k + 1
        PROVE  longer[i] \in Neighbours(longer[i - 1]) \cup {longer[i - 1]}
    <2>1. CASE i = k + 1
      <3>1. longer[i] = n /\ longer[i - 1] = m
        BY <1>3, <2>1
      <3>2. QED
        BY <3>1
    <2>2. CASE i # k + 1
      <3>1. i \in 1 .. k /\ longer[i] = walk[i] /\ longer[i - 1] = walk[i - 1]
        BY <2>2
      <3>2. QED
        BY <1>1, <3>1
    <2>3. QED
      BY <2>1, <2>2
  <1> HIDE DEF longer
  <1>5. QED
    BY <1>2, <1>3, <1>4 DEF Near

\* The network stays as it is, and so do the distances.
LEMMA NearStays ==
    ASSUME UNCHANGED scenario
    PROVE  /\ \A d, n, k : Near(d, n, k) => Near(d, n, k)'
           /\ \A f : FrameNear(f) => FrameNear(f)'
           /\ \A n : NearItems(n)' = NearItems(n)
           /\ \A n : NearRoutes(n)' = NearRoutes(n)
  <1>1. \A n : Neighbours(n)' = Neighbours(n)
    BY DEF Neighbours
  <1>2. \A d, n, k : Near(d, n, k)' <=> Near(d, n, k)
    BY <1>1 DEF Near
  <1>3. \A f : FrameNear(f)' <=> FrameNear(f)
    BY <1>2 DEF FrameNear
  <1>4. \A n, q : ItemNear(n, q)' <=> ItemNear(n, q)
    BY <1>2, <1>3 DEF ItemNear
  <1>5. \A n : NearItems(n)' = NearItems(n)
    BY <1>4 DEF NearItems
  <1>6. \A n : NearRoutes(n)' = NearRoutes(n)
    <2>1. \A n, r : RouteNear(n, r)' <=> RouteNear(n, r)
      BY <1>2 DEF RouteNear
    <2>2. QED
      BY <2>1 DEF NearRoutes
  <1>7. QED
    BY <1>2, <1>3, <1>5, <1>6

\* What an operation of the Local Route Set keeps keeps its distance.
LEMMA KeptNear ==
    ASSUME NEW n, NEW r, NEW q, RouteNear(n, r), Kept(r, q)
    PROVE  RouteNear(n, q)
  <1>1. \A d \in Nodes : Net[d] # NoAddr
    BY OwnAddresses
  <1>2. QED
    BY <1>1 DEF RouteNear, Kept

\* What is done to the queue of a thread.
LEMMA NearQueue ==
    ASSUME NEW n, NEW s \in Seq(NearItems(n))
    PROVE  /\ s # <<>> => Head(s) \in NearItems(n) /\ Tail(s) \in Seq(NearItems(n))
           /\ \A q \in NearItems(n) : Append(s, q) \in Seq(NearItems(n))
  <1> PICK S : S = NearItems(n)
    OBVIOUS
  <1>1. s \in Seq(S)
    OBVIOUS
  <1>2. /\ s # <<>> => Head(s) \in S /\ Tail(s) \in Seq(S)
        /\ \A q \in S : Append(s, q) \in Seq(S)
    BY <1>1, HeadTailProperties, AppendProperties
  <1>3. QED
    BY <1>2

\* The metrics after a step that changes one queue, some routes of one router
\* and the air, each to what the distances allow.
LEMMA NearStep ==
    ASSUME Metrics, queue \in [Nodes -> Queues], lrs \in [Nodes -> LrsTables],
           UNCHANGED scenario,
           \/ queue' = queue
           \/ \E n \in Nodes : \E s \in Seq(NearItems(n)) : queue' = [queue EXCEPT ![n] = s],
           \/ lrs' = lrs
           \/ \E n \in Nodes : \E rt : /\ lrs' = [lrs EXCEPT ![n] = rt]
                                       /\ \A i \in Slots : rt[i].route \in NearRoutes(n),
           \A f \in BagToSet(air') : FrameNear(f)
    PROVE  Metrics'
  <1>1. \A n \in Nodes : queue'[n] \in Seq(NearItems(n))
    BY DEF Metrics
  <1>2. \A n \in Nodes, i \in Slots : lrs'[n][i].route \in NearRoutes(n)
    BY DEF Metrics
  <1>3. \A n \in Nodes : queue'[n] \in Seq(NearItems(n)')
    BY <1>1, NearStays
  <1>4. \A n \in Nodes, i \in Slots : lrs'[n][i].route \in NearRoutes(n)'
    BY <1>2, NearStays
  <1>5. \A f \in BagToSet(air') : FrameNear(f)'
    BY NearStays
  <1>6. QED
    BY <1>3, <1>4, <1>5 DEF Metrics

\* Looking routes up and learning one, no further away than the message says.
LEMMA GetNear ==
    ASSUME NEW n, NEW rt \in LrsTables, \A i \in Slots : rt[i].route \in NearRoutes(n),
           NEW t \in Nat, NEW addr, NEW mt, NEW qt, qt = AfterGet(rt, t, addr, mt)
    PROVE  \A i \in Slots : qt[i].route \in NearRoutes(n)
  <1>1. qt \in LrsTables /\ \A i \in Slots : Kept(rt[i].route, qt[i].route)
    BY GetKeeps
  <1>2. ASSUME NEW i \in Slots PROVE qt[i].route \in NearRoutes(n)
    <2>1. RouteNear(n, rt[i].route) /\ Kept(rt[i].route, qt[i].route) /\ qt[i].route \in Routes
      BY <1>1 DEF NearRoutes, LrsTables
    <2> PICK q : q = qt[i].route
      OBVIOUS
    <2>2. RouteNear(n, q)
      BY <2>1, KeptNear
    <2>3. QED
      BY <2>1, <2>2 DEF NearRoutes
  <1>3. QED
    BY <1>2

LEMMA LearnNear ==
    ASSUME NEW n, NEW rt \in LrsTables, \A i \in Slots : rt[i].route \in NearRoutes(n),
           NEW t \in Nat, NEW addr \in Addrs, NEW number \in Seqs, NEW metric \in Byte,
           NEW sender \in Nodes,
           \A d \in Nodes : addr = Net[d] => metric + 1 < ByteMod /\ Near(d, n, metric),
           NEW node, node = [addr |-> addr, seqnum |-> number, metric |-> metric],
           NEW qt, qt = LearnTable(rt, t, node, sender, MetricType, LinkCost)
    PROVE  \A i \in Slots : qt[i].route \in NearRoutes(n)
  <1> PICK e : e = FillRoutingEntry(node, sender, MetricType, t, LinkCost)
    OBVIOUS
  <1>1. e \in Routes /\ e.addr = addr /\ e.metric = (metric + LinkCost) % ByteMod
    BY EntryType
  <1>2. /\ qt \in LrsTables
        /\ \A i \in Slots : Kept(rt[i].route, qt[i].route) \/ qt[i].route = e
    BY <1>1, LearnKeepsOrAdds
  <1>3. ASSUME NEW d \in Nodes, addr = Net[d] PROVE e.metric > 0 /\ Near(d, n, e.metric - 1)
    <2>1. metric \in Nat /\ metric + 1 < ByteMod /\ ByteMod \in Nat /\ LinkCost = 1
      BY <1>3, Numbers, SeqnumCmpAssumption
    <2>2. (metric + 1) % ByteMod = metric + 1
      BY <2>1
    <2>3. e.metric = metric + 1 /\ e.metric - 1 = metric
      BY <1>1, <2>1, <2>2
    <2>4. QED
      BY <1>3, <2>1, <2>3
  <1>4. RouteNear(n, e)
    BY <1>1, <1>3 DEF RouteNear
  <1>5. ASSUME NEW i \in Slots PROVE qt[i].route \in NearRoutes(n)
    <2>1. RouteNear(n, rt[i].route) /\ qt[i].route \in Routes
      BY <1>2 DEF NearRoutes, LrsTables
    <2> PICK q : q = qt[i].route
      OBVIOUS
    <2>2. RouteNear(n, q)
      <3>1. CASE q = e
        BY <1>4, <3>1
      <3>2. CASE Kept(rt[i].route, q)
        BY <2>1, <3>2, KeptNear
      <3>3. QED
        BY <1>2, <3>1, <3>2
    <2>3. QED
      BY <2>1, <2>2 DEF NearRoutes
  <1>6. QED
    BY <1>5

\* What an acceptable RREQ says of the router that hears it.
LEMMA HeardNear ==
    ASSUME NEW n \in Nodes, NEW f \in FrameType, f.type = "rreq", RreqAcceptable(f), FrameNear(f),
           n \in Neighbours(f.src), NEW d \in Nodes, f.orig = Net[d]
    PROVE  Near(d, n, f.metric + 1) /\ f.metric + 2 < ByteMod
  <1>1. f.metric \in Nat /\ Near(d, f.src, f.metric)
    BY Numbers DEF FrameType, FrameNear
  <1>2. Near(d, n, f.metric + 1)
    BY <1>1, NearNext
  <1>3. f.metric + 2 < ByteMod
    BY <1>1, Aodvv2Assumption, SeqnumCmpAssumption, Numbers DEF RreqAcceptable
  <1>4. QED
    BY <1>2, <1>3

LEMMA MetricsStep == IInv /\ Typed /\ Metrics /\ [Next]_vars => Metrics'
  <1> SUFFICES ASSUME IInv, Typed, Metrics, [Next]_vars PROVE Metrics'
    OBVIOUS
  <1>0. /\ lrs \in [Nodes -> LrsTables] /\ seqnum \in [Nodes -> Seqs \ {0}]
        /\ targ_metric \in [Nodes -> Byte] /\ queue \in [Nodes -> Queues]
        /\ BagToSet(air) \subseteq FrameType /\ scenario \in Scenarios /\ now \in Nat
        /\ \A n \in Nodes : queue[n] \in Seq(NearItems(n))
        /\ \A f \in BagToSet(air) : FrameNear(f)
        /\ \A n \in Nodes, i \in Slots : lrs[n][i].route \in NearRoutes(n)
    BY DEF Typed, IInv, Metrics
  <1>1. ASSUME NEW r \in scenario.senders, NEW rtr, RouteInfo(r[1], r[2], rtr) PROVE Metrics'
    <2> PICK n, d, msg : /\ n = r[1] /\ d = r[2]
                         /\ msg = [hop_limit |-> MaxMetric, orig |-> Net[n],
                                   orig_seqnum |-> seqnum[n], orig_metric |-> 0,
                                   targ |-> Host[d], targ_metric |-> 0]
      OBVIOUS
    <2> PICK q : q = SendRreqTo(msg)
      OBVIOUS
    <2>1. n \in Nodes /\ d \in Nodes
      BY <1>0, ScenarioType
    <2>2. msg \in Msgs
      BY <1>0, <2>1, Numbers, OwnAddresses DEF Msgs
    <2>3. /\ queue' = [queue EXCEPT ![n] = Append(queue[n], q)]
          /\ UNCHANGED <<lrs, air, scenario>>
      BY <1>1 DEF RouteInfo, aodvv2_find_route
    <2>4. q \in NearItems(n)
      <3>1. q \in Sends /\ q.kind = "send_rreq" /\ q.msg = msg
        BY <2>2, SendsType DEF SendRreqTo
      <3>2. \A e \in Nodes : q.msg.orig = Net[e] => Near(e, n, q.msg.orig_metric)
        BY <2>1, <3>1, NearSelf, OwnPrefixes
      <3>3. q.msg.targ \in Hosts
        BY <2>1, <3>1 DEF Hosts
      <3>4. QED
        BY <3>1, <3>2, <3>3 DEF NearItems, ItemNear
    <2>5. Append(queue[n], q) \in Seq(NearItems(n))
      BY <1>0, <2>1, <2>4, NearQueue
    <2>6. QED
      BY <1>0, <2>1, <2>3, <2>5, NearStep
  <1>2. ASSUME NEW n \in Nodes, Thread(n) PROVE Metrics'
    <2> PICK item, rest : item = Item(n) /\ rest = Tail(queue[n])
      OBVIOUS
    <2>0. queue[n] # <<>> /\ UNCHANGED scenario
      BY <1>2 DEF Thread, SendRreq, SendRrep, RreqDropped, RreqRedundant, RreqProcessed,
                  RrepDropped, RrepProcessed, HasRreq, HasRrep, Handles
    <2>1. item \in NearItems(n) /\ rest \in Seq(NearItems(n))
      BY <1>0, <2>0, NearQueue DEF Item
    <2>2. item \in Received \cup Sends /\ ItemNear(n, item)
      BY <2>1 DEF NearItems
    <2>3. ASSUME NEW q \in NearItems(n)
          PROVE  \E s \in Seq(NearItems(n)) : [queue EXCEPT ![n] = Append(rest, q)] = [queue EXCEPT ![n] = s]
      BY <2>1, NearQueue
    <2>4. ASSUME NEW f, f = Read(n), Handles(n, "rcv")
          PROVE  /\ f \in FrameType /\ FrameNear(f) /\ f.targ \in Hosts
                 /\ f.src \in Nodes /\ f.orig \in Addrs /\ f.targ \in Addrs
                 /\ f.orig_seqnum \in Seqs /\ f.targ_seqnum \in Seqs /\ f.metric \in Byte
                 /\ n \in Neighbours(f.src)
      <3>1. ItemOk(n, item)
        BY <2>0, TailOk DEF Item, IInv
      <3>2. item.kind = "rcv" /\ item.frame = f
        BY <2>4 DEF Handles, Item, Read
      <3>3. f \in FrameType
        BY <2>2, <3>2 DEF Received, Sends
      <3>4. FrameNear(f) /\ FrameOk(f) /\ f.dst = n
        BY <2>2, <3>1, <3>2 DEF ItemNear, ItemOk
      <3>5. QED
        BY <3>3, <3>4 DEF FrameType, FrameNear, FrameOk
    <2>5. CASE SendRreq(n)
      <3> PICK msg : msg = item.msg
        OBVIOUS
      <3> DEFINE frame(m) == [type |-> "rreq", src |-> n, dst |-> m, hop_limit |-> msg.hop_limit,
                              orig |-> msg.orig, orig_seqnum |-> msg.orig_seqnum,
                              metric |-> msg.orig_metric, targ |-> msg.targ, targ_seqnum |-> 0]
      <3> PICK new : new = {frame(m) : m \in Neighbours(n)}
        OBVIOUS
      <3>1. /\ item.kind = "send_rreq" /\ queue' = [queue EXCEPT ![n] = rest]
            /\ air' = air (+) SetToBag(new) /\ UNCHANGED lrs
        BY <2>5 DEF SendRreq, Handles, Item
      <3>2. /\ msg.targ \in Hosts
            /\ \A d \in Nodes : msg.orig = Net[d] => Near(d, n, msg.orig_metric)
        BY <2>2, <3>1 DEF ItemNear
      <3>3. \A f \in new : FrameNear(f)
        BY <3>2 DEF FrameNear
      <3>4. \A f \in BagToSet(air') : FrameNear(f)
        BY <1>0, <3>1, <3>3 DEF BagToSet, SetToBag, (+)
      <3>5. QED
        BY <1>0, <2>0, <2>1, <3>1, <3>4, NearStep
    <2>6. CASE SendRrep(n)
      <3> PICK msg, hops : msg = item.msg /\ hops = Neighbours(n) \cap {item.next_hop}
        OBVIOUS
      <3> DEFINE frame(m) == [type |-> "rrep", src |-> n, dst |-> m, hop_limit |-> msg.hop_limit,
                              orig |-> msg.orig, orig_seqnum |-> msg.orig_seqnum,
                              metric |-> msg.targ_metric, targ |-> msg.targ,
                              targ_seqnum |-> seqnum[n]]
      <3> PICK new : new = {frame(m) : m \in hops}
        OBVIOUS
      <3>1. /\ item.kind = "send_rrep" /\ queue' = [queue EXCEPT ![n] = rest]
            /\ air' = air (+) SetToBag(new) /\ UNCHANGED lrs
        BY <2>6 DEF SendRrep, Handles, Item
      <3>2. msg.targ \in Hosts
        BY <2>2, <3>1 DEF ItemNear
      <3>3. \A f \in new : FrameNear(f)
        BY <3>2 DEF FrameNear
      <3>4. \A f \in BagToSet(air') : FrameNear(f)
        BY <1>0, <3>1, <3>3 DEF BagToSet, SetToBag, (+)
      <3>5. QED
        BY <1>0, <2>0, <2>1, <3>1, <3>4, NearStep
    <2>7. CASE RreqDropped(n) \/ RrepDropped(n) \/ RreqRedundant(n)
      <3>1. queue' = [queue EXCEPT ![n] = rest] /\ UNCHANGED <<lrs, air>>
        BY <2>7 DEF RreqDropped, RrepDropped, RreqRedundant
      <3>2. QED
        BY <1>0, <2>0, <2>1, <3>1, NearStep
    <2>8. CASE RreqProcessed(n)
      <3> PICK f, msg, node, learn, rt :
               /\ f = Read(n) /\ msg = Updated(RreqOf(n, f)) /\ node = OrigNode(msg)
               /\ learn = LearnOutcome(lrs[n], now, node, MetricType)
               /\ rt = LearnTable(lrs[n], now, node, f.src, MetricType, LinkCost)
        OBVIOUS
      <3>1. /\ HasRreq(n) /\ RreqAcceptable(f)
            /\ lrs' = [lrs EXCEPT ![n] = rt]
            /\ RreqContinue(n, msg, learn)
            /\ UNCHANGED air
        BY <2>8 DEF RreqProcessed
      <3>2. /\ f \in FrameType /\ f.src \in Nodes /\ f.orig \in Addrs /\ f.type = "rreq"
            /\ FrameNear(f) /\ f.targ \in Hosts /\ n \in Neighbours(f.src)
        BY <2>4, <3>1 DEF HasRreq
      <3>3. /\ msg \in Msgs /\ msg.orig = f.orig /\ msg.targ = f.targ
            /\ msg.orig_metric = f.metric + 1
        <4>1. targ_metric[n] \in Byte
          BY <1>0
        <4>2. QED
          BY <3>1, <3>2, <4>1, RreqMsgType
      <3>4. /\ msg.orig \in Addrs /\ msg.orig_seqnum \in Seqs /\ msg.orig_metric \in Byte
            /\ f.metric \in Nat
        BY <3>2, <3>3, Numbers DEF Msgs, FrameType
      <3>5. \A d \in Nodes : msg.orig = Net[d] => /\ msg.orig_metric + 1 < ByteMod
                                                  /\ Near(d, n, msg.orig_metric)
        <4>1. ASSUME NEW d \in Nodes, msg.orig = Net[d]
              PROVE  Near(d, n, f.metric + 1) /\ f.metric + 2 < ByteMod
          BY <3>1, <3>2, <3>3, <4>1, HeardNear
        <4>2. msg.orig_metric + 1 = f.metric + 2
          BY <3>3, <3>4
        <4>3. QED
          BY <3>3, <4>1, <4>2
      <3>6. \A i \in Slots : rt[i].route \in NearRoutes(n)
        <4>1. node = [addr |-> msg.orig, seqnum |-> msg.orig_seqnum, metric |-> msg.orig_metric]
          BY DEF OrigNode
        <4> PICK table, addr, number, metric, sender :
                 /\ table = lrs[n] /\ addr = msg.orig /\ number = msg.orig_seqnum
                 /\ metric = msg.orig_metric /\ sender = f.src
          OBVIOUS
        <4>2. /\ table \in LrsTables /\ \A i \in Slots : table[i].route \in NearRoutes(n)
              /\ addr \in Addrs /\ number \in Seqs /\ metric \in Byte /\ sender \in Nodes
          BY <1>0, <3>2, <3>4
        <4>3. rt = LearnTable(table, now, node, sender, MetricType, LinkCost)
          OBVIOUS
        <4>4. node = [addr |-> addr, seqnum |-> number, metric |-> metric]
          BY <4>1
        <4>5. \A d \in Nodes : addr = Net[d] => metric + 1 < ByteMod /\ Near(d, n, metric)
          BY <3>5
        <4>6. now \in Nat
          BY <1>0
        <4>7. QED
          BY <4>2, <4>3, <4>4, <4>5, <4>6, LearnNear
      <3>7. \E s \in Seq(NearItems(n)) : queue' = [queue EXCEPT ![n] = s]
        <4> PICK qp, qq : /\ qp = SendRrepTo([msg EXCEPT !.targ_metric = 0], f.src)
                          /\ qq = SendRreqTo(msg)
          OBVIOUS
        <4>1. /\ qp \in Sends /\ qp.kind = "send_rrep" /\ qp.msg.targ = msg.targ
              /\ qq \in Sends /\ qq.kind = "send_rreq" /\ qq.msg = msg
          BY <3>2, <3>3, SendsType DEF SendRrepTo, SendRreqTo, Msgs
        <4>2. qp \in NearItems(n) /\ qq \in NearItems(n)
          BY <3>2, <3>3, <3>5, <4>1 DEF NearItems, ItemNear
        <4>3. \/ queue' = [queue EXCEPT ![n] = rest]
              \/ queue' = [queue EXCEPT ![n] = Append(rest, qp)]
              \/ queue' = [queue EXCEPT ![n] = Append(rest, qq)]
          BY <3>1 DEF RreqContinue
        <4>4. QED
          BY <2>1, <2>3, <4>2, <4>3
      <3>8. QED
        BY <1>0, <2>0, <3>1, <3>6, <3>7, NearStep
    <2>9. CASE RrepProcessed(n)
      <3> PICK f, msg, node, learn, rt, rt2 :
               /\ f = Read(n) /\ msg = [RrepOf(n, f) EXCEPT !.targ_metric = @ + 1]
               /\ node = TargNode(msg, f)
               /\ learn = LearnOutcome(lrs[n], now, node, MetricType)
               /\ rt = LearnTable(lrs[n], now, node, f.src, MetricType, LinkCost)
               /\ rt2 = AfterGet(rt, now, msg.orig, MetricType)
        OBVIOUS
      <3>1. HasRrep(n) /\ RrepAcceptable(n, f) /\ RrepContinue(n, msg, rt, learn) /\ UNCHANGED air
        BY <2>9 DEF RrepProcessed
      <3>2. /\ f \in FrameType /\ f.src \in Nodes /\ f.targ \in Addrs /\ f.targ_seqnum \in Seqs
            /\ f.targ \in Hosts
        BY <2>4, <3>1 DEF HasRrep
      <3>3. msg \in Msgs /\ msg.targ = f.targ /\ msg.targ_metric \in Byte
        <4>1. targ_metric[n] \in Byte
          BY <1>0
        <4>2. msg \in Msgs
          BY <3>1, <3>2, <4>1, RrepMsgType
        <4>3. msg.targ = f.targ
          BY DEF RrepOf
        <4>4. QED
          BY <4>2, <4>3 DEF Msgs
      <3>4. rt \in LrsTables /\ \A i \in Slots : rt[i].route \in NearRoutes(n)
        <4> PICK table, addr, number, metric, sender, e :
                 /\ table = lrs[n] /\ addr = msg.targ /\ number = ReadSeqnum(f.targ_seqnum)
                 /\ metric = msg.targ_metric /\ sender = f.src
                 /\ e = FillRoutingEntry(node, sender, MetricType, now, LinkCost)
          OBVIOUS
        <4>1. /\ table \in LrsTables /\ \A i \in Slots : table[i].route \in NearRoutes(n)
              /\ addr \in Addrs /\ number \in Seqs /\ metric \in Byte /\ sender \in Nodes
          BY <1>0, <3>2, <3>3, Numbers
        <4>2. node = [addr |-> addr, seqnum |-> number, metric |-> metric]
          BY DEF TargNode
        <4>3. \A d \in Nodes : addr # Net[d]
          BY <3>2, <3>3, OwnPrefixes DEF Hosts
        <4>4. rt = LearnTable(table, now, node, sender, MetricType, LinkCost) /\ now \in Nat
          BY <1>0
        <4>5. e \in Routes
          BY <4>1, <4>2, <4>4, EntryType
        <4>6. rt \in LrsTables
          BY <4>1, <4>4, <4>5, LearnKeepsOrAdds
        <4>7. \A i \in Slots : rt[i].route \in NearRoutes(n)
          BY <4>1, <4>2, <4>3, <4>4, LearnNear
        <4>8. QED
          BY <4>6, <4>7
      <3>5. \A i \in Slots : rt2[i].route \in NearRoutes(n)
        BY <1>0, <3>4, GetNear
      <3>6. \E table : /\ lrs' = [lrs EXCEPT ![n] = table]
                       /\ \A i \in Slots : table[i].route \in NearRoutes(n)
        <4>1. lrs' = [lrs EXCEPT ![n] = rt] \/ lrs' = [lrs EXCEPT ![n] = rt2]
          BY <3>1 DEF RrepContinue
        <4>2. QED
          BY <3>4, <3>5, <4>1
      <3>7. \E s \in Seq(NearItems(n)) : queue' = [queue EXCEPT ![n] = s]
        <4> PICK q : q = SendRrepTo(msg, NextHop(rt, msg.orig))
          OBVIOUS
        <4>1. q \in Sends /\ q.kind = "send_rrep" /\ q.msg = msg
          BY <3>3, <3>4, NextHopType, SendsType DEF SendRrepTo
        <4>2. q \in NearItems(n)
          BY <3>2, <3>3, <4>1 DEF NearItems, ItemNear
        <4>3. \/ queue' = [queue EXCEPT ![n] = rest]
              \/ queue' = [queue EXCEPT ![n] = Append(rest, q)]
          BY <3>1 DEF RrepContinue
        <4>4. CASE queue' = [queue EXCEPT ![n] = rest]
          BY <2>1, <4>4
        <4>5. CASE queue' = [queue EXCEPT ![n] = Append(rest, q)]
          BY <2>3, <4>2, <4>5
        <4>6. QED
          BY <4>3, <4>4, <4>5
      <3>8. QED
        BY <1>0, <2>0, <3>1, <3>6, <3>7, NearStep
    <2>10. QED
      BY <1>2, <2>5, <2>6, <2>7, <2>8, <2>9 DEF Thread
  <1>3. ASSUME NEW f \in BagToSet(air), Deliver(f) PROVE Metrics'
    <2> PICK item, n : item = [kind |-> "rcv", frame |-> f] /\ n = f.dst
      OBVIOUS
    <2>1. /\ air' = air (-) SetToBag({f})
          /\ queue' = queue \/ queue' = [queue EXCEPT ![n] = Append(queue[n], item)]
          /\ UNCHANGED <<lrs, scenario>>
      BY <1>3 DEF Deliver
    <2>2. n \in Nodes /\ item \in NearItems(n)
      BY <1>0 DEF FrameType, Received, NearItems, ItemNear
    <2>3. Append(queue[n], item) \in Seq(NearItems(n))
      BY <1>0, <2>2, NearQueue
    <2>4. \A g \in BagToSet(air') : FrameNear(g)
      BY <1>0, <2>1 DEF BagToSet, (-)
    <2>5. QED
      BY <1>0, <2>1, <2>2, <2>3, <2>4, NearStep
  <1>4. ASSUME NEW f \in BagToSet(air), Lose(f) PROVE Metrics'
    <2>1. air' = air (-) SetToBag({f}) /\ UNCHANGED <<queue, lrs, scenario>>
      BY <1>4 DEF Lose, nodeVars
    <2>2. \A g \in BagToSet(air') : FrameNear(g)
      BY <1>0, <2>1 DEF BagToSet, (-)
    <2>3. QED
      BY <1>0, <2>1, <2>2, NearStep
  <1>5. CASE UNCHANGED <<queue, lrs, air, scenario>>
    BY <1>0, <1>5, NearStep
  <1>6. QED
    BY <1>1, <1>2, <1>3, <1>4, <1>5 DEF Next, ReliableNext, Tick, vars, nodeVars

LEMMA MetricsInit == Init => Metrics
  <1> SUFFICES ASSUME Init PROVE Metrics
    OBVIOUS
  <1>1. \A n \in Nodes : queue[n] = <<>> /\ <<>> \in Seq(NearItems(n))
    BY EmptySeq DEF Init
  <1>2. BagToSet(air) = {}
    BY DEF Init, EmptyBag, BagToSet, SetToBag
  <1>3. \A n \in Nodes, i \in Slots : lrs[n][i].route \in NearRoutes(n)
    <2>1. Typed
      BY TypedInit
    <2>2. \A n \in Nodes, i \in Slots : lrs[n][i].route \in Routes /\ lrs[n][i].route.addr = NoAddr
      BY <2>1 DEF Init, aodvv2_lrs_init, BlankSlot, BlankRoute, Typed, LrsTables
    <2>3. \A n \in Nodes, i \in Slots : RouteNear(n, lrs[n][i].route)
      BY <2>2, OwnAddresses DEF RouteNear
    <2>4. QED
      BY <2>2, <2>3 DEF NearRoutes
  <1>4. QED
    BY <1>1, <1>2, <1>3 DEF Metrics

(***************************************************************************)
(* The cost a router stores for the way back to OrigNode never understates *)
(* the distance, in any network, over any path of the RREQs: the byte in   *)
(* aodvv2_lrs_fill_routing_entry_rreq cannot wrap.                         *)
(***************************************************************************)
THEOREM MetricsCoverDistance == Spec => []MetricCoversDistance
  <1>1. Metrics => MetricCoversDistance
    BY DEF Metrics, MetricCoversDistance, KnownRoutes, NearRoutes, RouteNear
  <1>2. QED
    BY <1>1, MetricsInit, MetricsStep, Invariance, TypedInvariance, PTL DEF Spec

-----------------------------------------------------------------------------
(***************************************************************************)
(* The packet buffer.  Only an RREP empties slots, those of its target,    *)
(* and in the same step it asks for the forwarding entry of that target.   *)
(***************************************************************************)
Dispatched ==
    \A n \in Nodes, d \in Nodes :
        Dispatches(n, d) => HasRoute(n, d)' \/ Host[d] \in refused'[n]

LEMMA DispatchedStep == Typed /\ [Next]_vars => Dispatched
  <1> SUFFICES ASSUME Typed, [Next]_vars PROVE Dispatched
    OBVIOUS
  <1>0. /\ waiting \in [Nodes -> [BufSlots -> Addresses]] /\ ft \in Tables /\ now \in Nat
        /\ targ_metric \in [Nodes -> Byte] /\ queue \in [Nodes -> Queues]
        /\ BufSlots \subseteq Nat /\ scenario \in Scenarios /\ refused \in Refusals
    BY ScenarioType DEF Typed, BufSlots
  <1>1. ASSUME NEW r \in scenario.senders, NEW rtr, RouteInfo(r[1], r[2], rtr) PROVE Dispatched
    <2> PICK n, d, x, targ :
             n = r[1] /\ d = r[2] /\ x = First(FreeBuffer(n)) /\ targ = Host[d]
      OBVIOUS
    <2>1. n \in Nodes /\ d \in Nodes
      BY <1>0, ScenarioType
    <2>2. FreeBuffer(n) # {} /\ waiting' = [waiting EXCEPT ![n][x] = targ]
      BY <1>1 DEF RouteInfo
    <2>3. x \in BufSlots /\ waiting[n][x] = NoAddr
      <3>1. FreeBuffer(n) \in SUBSET Nat
        BY <1>0 DEF FreeBuffer
      <3>2. x \in FreeBuffer(n)
        BY <2>2, <3>1, FirstIsLeast
      <3>3. QED
        BY <3>2 DEF FreeBuffer
    <2>4. ASSUME NEW m \in Nodes, NEW e \in Nodes, Host[e] \in Range(waiting[m])
          PROVE  Host[e] \in Range(waiting'[m])
      <3>1. PICK i \in BufSlots : waiting[m][i] = Host[e]
        BY <1>0, <2>4 DEF Range
      <3>2. waiting[m][i] # NoAddr
        BY <3>1, OwnAddresses
      <3>3. waiting'[m][i] = Host[e] /\ i \in DOMAIN waiting'[m]
        BY <1>0, <2>1, <2>2, <2>3, <3>1, <3>2
      <3>4. QED
        BY <3>3 DEF Range
    <2>5. QED
      BY <2>4 DEF Dispatched, Dispatches
  <1>2. ASSUME NEW n \in Nodes, RrepProcessed(n) PROVE Dispatched
    <2> PICK f, msg, node, learn, rt :
             /\ f = Read(n) /\ msg = [RrepOf(n, f) EXCEPT !.targ_metric = @ + 1]
             /\ node = TargNode(msg, f)
             /\ learn = LearnOutcome(lrs[n], now, node, MetricType)
             /\ rt = LearnTable(lrs[n], now, node, f.src, MetricType, LinkCost)
      OBVIOUS
    <2> PICK buffer : buffer = Released(waiting[n], msg.targ)
      OBVIOUS
    <2>1. HasRrep(n) /\ RrepAcceptable(n, f) /\ RrepContinue(n, msg, rt, learn) /\ now' = now
      BY <1>2 DEF RrepProcessed
    <2>2. f.src \in Nodes /\ f.targ \in Addrs /\ msg.targ = f.targ
      <3>1. Head(queue[n]) \in Received \cup Sends
        BY <1>0, <2>1, TakeType DEF HasRrep, Handles
      <3>2. f \in FrameType
        BY <2>1, <3>1 DEF HasRrep, Handles, Read, Item, Received, Sends
      <3>3. QED
        BY <3>2 DEF FrameType, RrepOf
    <2>3. \/ waiting' = waiting
          \/ /\ waiting' = [waiting EXCEPT ![n] = buffer]
             /\ FtUpdate(n, msg.targ, f.src, learn)
      BY <2>1 DEF RrepContinue
    <2>4. CASE waiting' = waiting
      BY <2>4 DEF Dispatched, Dispatches
    <2>5. ASSUME waiting' = [waiting EXCEPT ![n] = buffer],
                 FtUpdate(n, msg.targ, f.src, learn),
                 NEW m \in Nodes, NEW d \in Nodes,
                 Host[d] \in Range(waiting[m]), Host[d] \notin Range(waiting'[m])
          PROVE  HasRoute(m, d)' \/ Host[d] \in refused'[m]
      <3>1. m = n
        BY <1>0, <2>5
      <3>2. PICK i \in BufSlots : waiting[n][i] = Host[d]
        BY <1>0, <2>5, <3>1 DEF Range
      <3>3. waiting'[n] = [j \in BufSlots |-> IF waiting[n][j] = msg.targ THEN NoAddr ELSE waiting[n][j]]
        BY <1>0, <2>5 DEF Released
      <3>4. msg.targ = Host[d]
        <4>1. ASSUME msg.targ # Host[d] PROVE FALSE
          <5>1. waiting'[n][i] = Host[d] /\ i \in DOMAIN waiting'[n]
            BY <3>2, <3>3, <4>1
          <5>2. QED
            BY <2>5, <3>1, <5>1 DEF Range
        <4>2. QED
          BY <4>1
      <3>5. \/ ft'[n][Host[d]] = [next_hop |-> f.src, until |-> now + Validity]
            \/ Host[d] \in refused'[n]
        BY <1>0, <2>2, <2>5, <3>4, FtUpdateEffect
      <3>6. Validity > 0 /\ Validity \in Nat
        BY LrsAssumption DEF Validity
      <3>7. CASE ft'[n][Host[d]] = [next_hop |-> f.src, until |-> now + Validity]
        <4>1. ft'[n][Host[d]].next_hop # NoAddr /\ now' < ft'[n][Host[d]].until
          BY <1>0, <2>1, <2>2, <3>6, <3>7, Basics
        <4>2. QED
          BY <3>1, <4>1 DEF HasRoute
      <3>8. QED
        BY <3>1, <3>5, <3>7
    <2>6. QED
      BY <2>3, <2>4, <2>5 DEF Dispatched, Dispatches
  <1>3. CASE waiting' = waiting
    BY <1>3 DEF Dispatched, Dispatches
  <1>4. ASSUME NEW n \in Nodes, Thread(n), ~RrepProcessed(n) PROVE waiting' = waiting
    BY <1>4 DEF Thread, SendRreq, SendRrep, RreqDropped, RreqRedundant, RreqProcessed, RrepDropped
  <1>5. QED
    BY <1>1, <1>2, <1>3, <1>4
       DEF Next, ReliableNext, Deliver, Lose, Tick, vars, nodeVars

(***************************************************************************)
(* Packets leave the buffer only for a router that got them a route: in    *)
(* any network, and whatever the discoveries of others do in between, no   *)
(* destination disappears from a packet buffer before the forwarding table *)
(* has an entry for it that has not expired, or the NIB has refused it.    *)
(***************************************************************************)
THEOREM PacketsLeaveAfterAdd == Spec => ReleasedAfterAdd
  <1>1. Spec => [][Dispatched]_vars
    BY DispatchedStep, TypedInvariance, PTL DEF Spec
  <1>2. QED
    BY <1>1 DEF Dispatched, ReleasedAfterAdd
=============================================================================
