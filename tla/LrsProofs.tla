----------------------------- MODULE LrsProofs -----------------------------
(***************************************************************************)
(* Proofs about the Local Route Set for any table size, any intervals and  *)
(* any set of destinations.                                                *)
(*                                                                         *)
(* The argument: one call of aodvv2_lrs_get_entry only ages the table      *)
(* (Aged): a slot keeps its flag, and its route either keeps its key or is *)
(* erased, and then it has not been touched for MaxSeqnumLifetime.  Every  *)
(* operation is such ageing, followed by at most one slot being filled.    *)
(* That routes pass their states in order (InOrder) needs one more fact, as *)
(* an Expired route may be erased at once: no route is Expired before its  *)
(* expiration time (OnTime).                                               *)
(*                                                                         *)
(* The map that RouteMap describes (MapOf) is the table read as a function *)
(* of the keys it holds, which Unique makes it.  Ageing drops keys, filling *)
(* a slot changes one, and the number of slots bounds the size of the map. *)
(***************************************************************************)
EXTENDS Lrs, WellFoundedInduction, TLAPS, FiniteSetTheorems

\* The first index of a non-empty set of indices is one of them, and no other one
\* comes before it: the numbers are well-ordered.
LEMMA FirstIsLeast ==
    ASSUME NEW S \in SUBSET Nat, S # {}
    PROVE  First(S) \in S /\ \A j \in S : First(S) <= j
  <1>1. PICK i \in S : \A j \in S : ~(<<j, i>> \in OpToRel(<, Nat))
    BY NatLessThanWellFounded, WFMin
  <1>2. ASSUME NEW j \in S PROVE i <= j
    <2>1. i \in Nat /\ j \in Nat /\ ~(<<j, i>> \in OpToRel(<, Nat))
      BY <1>1
    <2>2. QED
      BY <2>1 DEF OpToRel
  <1>3. QED
    BY <1>2 DEF First

\* The walk of an array returns 0 exactly when no slot satisfies the condition, and
\* the first one that does otherwise.
LEMMA WalkResult ==
    ASSUME NEW n \in Nat, NEW S \in SUBSET (1 .. n)
    PROVE  /\ FirstOrNone(S) \in 0 .. n
           /\ (FirstOrNone(S) = 0) <=> (S = {})
           /\ S # {} => FirstOrNone(S) \in S
           /\ \A j \in S : FirstOrNone(S) <= j
  <1>1. ASSUME S # {} PROVE First(S) \in S /\ First(S) \in 1 .. n /\ \A j \in S : First(S) <= j
    <2>1. First(S) \in S /\ \A j \in S : First(S) <= j
      BY <1>1, FirstIsLeast
    <2>2. QED
      BY <2>1
  <1>2. FirstOrNone(S) = IF S = {} THEN 0 ELSE First(S)
    BY DEF FirstOrNone
  <1>3. CASE S = {}
    BY <1>2, <1>3
  <1>4. CASE S # {}
    BY <1>1, <1>2, <1>4
  <1>5. QED
    BY <1>3, <1>4

-----------------------------------------------------------------------------

Tables == [Slots -> [used : BOOLEAN, route : Routes]]

SameKey(r, q) == r.addr = q.addr /\ r.metric_type = q.metric_type

\* What ageing may do to a route.
AgedRoute(r, q, t) ==
    \/ q = BlankRoute /\ t - r.last_used >= MaxSeqnumLifetime
    \/ SameKey(r, q) /\ q.last_used \in {r.last_used, t} /\ (r = BlankRoute => q = r)

\* What ageing may do to the table.
Aged(rt, qt, t) ==
    /\ qt \in Tables
    /\ \A i \in Slots : /\ qt[i].used = rt[i].used
                        /\ AgedRoute(rt[i].route, qt[i].route, t)

\* The properties of the table alone, as operators of the table.
Blank(rt) == \A i \in Slots : ~rt[i].used => rt[i].route = BlankRoute

Unique(rt) ==
    \A i, j \in Slots :
        (i # j /\ rt[i].route.addr # NoAddr) => ~SameKey(rt[i].route, rt[j].route)

Retains(rt, k, t) ==
    \E i \in Slots : /\ rt[i].used
                     /\ rt[i].route.addr = k[1]
                     /\ rt[i].route.metric_type = k[2]
                     /\ rt[i].route.last_used >= t

\* The strengthening of SeqnumInfoRetained that a step preserves: the slot
\* that remembers a destination was touched no earlier than it was learned.
Retained ==
    \A k \in Keys :
        /\ learned[k] <= now
        /\ (learned[k] >= 0 /\ now - learned[k] < MaxSeqnumLifetime)
              => Retains(routing_table, k, learned[k])

IInv == TypeOK /\ Blank(routing_table) /\ Unique(routing_table) /\ Retained

-----------------------------------------------------------------------------
\* An erased route is a route.
LEMMA BlankRouteType == BlankRoute \in Routes
  BY DEF BlankRoute, Routes, RouteStates

\* _reset_entry_if_stale keeps the type of a route and ages it.
LEMMA ResetAges ==
    ASSUME NEW r \in Routes, NEW t \in Nat
    PROVE  ResetIfStale(r, t) \in Routes /\ AgedRoute(r, ResetIfStale(r, t), t)
  <1>0. /\ ActiveInterval \in Nat /\ MaxSeqnumLifetime \in Nat
        /\ BlankRoute \in Routes /\ BlankRoute.expiration_time = 0
    BY LrsAssumption, BlankRouteType DEF BlankRoute
  <1> DEFINE idle    == [r EXCEPT !.state = "idle", !.last_used = t]
             expired == [r EXCEPT !.state = "expired", !.last_used = t]
  <1>1. idle \in Routes /\ expired \in Routes
    BY DEF Routes, RouteStates
  <1>2. SameKey(r, idle) /\ idle.last_used = t /\ SameKey(r, expired) /\ expired.last_used = t
    BY DEF SameKey, Routes
  <1>3. CASE r.expiration_time = 0 \/ t < ActiveInterval
    BY <1>3 DEF ResetIfStale, AgedRoute, SameKey
  <1>4. CASE ~(r.expiration_time = 0 \/ t < ActiveInterval)
    <2>1. r # BlankRoute
      BY <1>0, <1>4
    <2>2. \/ ResetIfStale(r, t) \in {r, idle, expired}
          \/ ResetIfStale(r, t) = BlankRoute /\ t - r.last_used >= MaxSeqnumLifetime
      BY <1>4 DEF ResetIfStale
    <2>3. QED
      BY <1>0, <1>1, <1>2, <2>1, <2>2 DEF AgedRoute, SameKey
  <1>5. QED
    BY <1>3, <1>4

\* aodvv2_lrs_get_entry only ages the table.
LEMMA GetAges ==
    ASSUME NEW rt \in Tables, NEW t \in Nat, NEW addr, NEW mt
    PROVE  Aged(rt, AfterGet(rt, t, addr, mt), t)
  <1>1. ASSUME NEW i \in Slots
        PROVE  /\ ResetSlot(rt[i], t) \in [used : BOOLEAN, route : Routes]
               /\ ResetSlot(rt[i], t).used = rt[i].used
               /\ AgedRoute(rt[i].route, ResetSlot(rt[i], t).route, t)
    <2>1. rt[i] \in [used : BOOLEAN, route : Routes]
      BY DEF Tables
    <2>2. ResetIfStale(rt[i].route, t) \in Routes /\ AgedRoute(rt[i].route, ResetIfStale(rt[i].route, t), t)
      BY <2>1, ResetAges
    <2>3. QED
      BY <2>1, <2>2 DEF ResetSlot
  <1>2. ASSUME NEW i \in Slots
        PROVE  rt[i] \in [used : BOOLEAN, route : Routes] /\ AgedRoute(rt[i].route, rt[i].route, t)
    BY DEF Tables, AgedRoute, SameKey
  <1>3. QED
    BY <1>1, <1>2 DEF Aged, AfterGet, Tables

\* Ageing keeps the properties of the table.
LEMMA AgedKeeps ==
    ASSUME NEW rt \in Tables, NEW qt, NEW t \in Nat, Aged(rt, qt, t),
           Blank(rt), Unique(rt)
    PROVE  Blank(qt) /\ Unique(qt)
  <1>1. Blank(qt)
    BY DEF Blank, Aged, AgedRoute
  <1>2. Unique(qt)
    <2> SUFFICES ASSUME NEW i \in Slots, NEW j \in Slots, i # j,
                        qt[i].route.addr # NoAddr
                 PROVE  ~SameKey(qt[i].route, qt[j].route)
      BY DEF Unique
    <2>1. SameKey(rt[i].route, qt[i].route) /\ rt[i].route.addr # NoAddr
      BY DEF Aged, AgedRoute, BlankRoute, SameKey
    <2>2. qt[j].route.addr = NoAddr \/ SameKey(rt[j].route, qt[j].route)
      BY DEF Aged, AgedRoute, BlankRoute
    <2>3. QED
      BY <2>1, <2>2 DEF Unique, SameKey
  <1>3. QED
    BY <1>1, <1>2

\* Ageing forgets no destination touched less than MaxSeqnumLifetime ago.
LEMMA AgedRetains ==
    ASSUME NEW rt \in Tables, NEW qt, NEW t \in Nat, NEW s \in Nat, NEW k,
           Aged(rt, qt, t), s <= t, t - s < MaxSeqnumLifetime, Retains(rt, k, s)
    PROVE  Retains(qt, k, s)
  <1>1. PICK i \in Slots : /\ rt[i].used /\ rt[i].route.last_used >= s
                           /\ rt[i].route.addr = k[1] /\ rt[i].route.metric_type = k[2]
    BY DEF Retains
  <1>2. rt[i].route.last_used \in Nat
    BY DEF Tables, Routes
  <1>3. ~(t - rt[i].route.last_used >= MaxSeqnumLifetime)
    BY <1>1, <1>2, LrsAssumption
  <1>4. SameKey(rt[i].route, qt[i].route) /\ qt[i].route.last_used \in {rt[i].route.last_used, t} /\ qt[i].used
    BY <1>1, <1>3 DEF Aged, AgedRoute
  <1>5. QED
    BY <1>1, <1>2, <1>4 DEF Retains, SameKey
-----------------------------------------------------------------------------
\* What aodvv2_lrs_get_entry returns: the entry asked for, or NULL when no
\* slot holds it.
LEMMA GetFinds ==
    ASSUME NEW rt \in Tables, NEW t \in Nat, NEW addr, NEW mt
    PROVE  LET f == Found(rt, t, addr, mt)
               q == AfterGet(rt, t, addr, mt)
           IN  /\ f \in 0 .. LrsSize
               /\ f = 0 => \A i \in Slots : ~Matches(q[i], addr, mt)
               /\ f # 0 => f \in Slots /\ Matches(q[f], addr, mt)
  <1> DEFINE H == Hits(rt, t, addr, mt)
             f == Found(rt, t, addr, mt)
             q == AfterGet(rt, t, addr, mt)
  <1>1. LrsSize \in Nat /\ H \in SUBSET (1 .. LrsSize)
    BY LrsAssumption DEF Hits, Slots
  <1>2. /\ f \in 0 .. LrsSize
        /\ (f = 0) <=> (H = {})
        /\ H # {} => f \in H
    BY <1>1, WalkResult DEF Found
  <1>3. \A i \in Slots : q[i] = IF f = 0 \/ i <= f THEN ResetSlot(rt[i], t) ELSE rt[i]
    BY DEF AfterGet
  <1>4. \A i \in Slots : i \in H <=> Matches(ResetSlot(rt[i], t), addr, mt)
    BY DEF Hits
  <1>5. H \subseteq Slots
    BY DEF Hits
  <1> HIDE DEF H, f, q
  <1>6. f = 0 => \A i \in Slots : ~Matches(q[i], addr, mt)
    BY <1>2, <1>3, <1>4
  <1>7. ASSUME f # 0 PROVE f \in Slots /\ Matches(q[f], addr, mt)
    <2>1. f \in H /\ f \in Slots
      BY <1>2, <1>5, <1>7
    <2>2. f <= f
      BY <1>1, <1>2
    <2>3. QED
      BY <1>3, <1>4, <2>1, <2>2
  <1>8. QED
    BY <1>2, <1>6, <1>7 DEF f, q

\* Filling the slot of a destination, or a blank slot when the destination has
\* none, keeps the properties of the table and forgets nothing.
LEMMA FillKeeps ==
    ASSUME NEW rt \in Tables, Blank(rt), Unique(rt),
           NEW i \in Slots, NEW e \in Routes, e.addr # NoAddr,
           \A j \in Slots \ {i} : ~SameKey(rt[j].route, e),
           rt[i].route = BlankRoute \/ SameKey(rt[i].route, e),
           NEW qt \in Tables, qt[i].used, qt[i].route = e,
           \A j \in Slots \ {i} : qt[j] = rt[j]
    PROVE  /\ Blank(qt) /\ Unique(qt)
           /\ \A k \in Keys, s \in Nat :
                 (Retains(rt, k, s) /\ s <= e.last_used) => Retains(qt, k, s)
  <1>2. Blank(qt)
    BY DEF Blank
  <1>3. Unique(qt)
    BY DEF Unique, SameKey
  <1>4. ASSUME NEW k \in Keys, NEW s \in Nat, Retains(rt, k, s), s <= e.last_used
        PROVE  Retains(qt, k, s)
    <2>1. PICK j \in Slots : /\ rt[j].used /\ rt[j].route.last_used >= s
                             /\ rt[j].route.addr = k[1] /\ rt[j].route.metric_type = k[2]
      BY <1>4 DEF Retains
    <2>2. CASE j # i
      BY <2>1, <2>2 DEF Retains
    <2>3. CASE j = i
      <3>1. k[1] # NoAddr
        BY LrsInputs DEF Keys
      <3>2. SameKey(rt[i].route, e)
        BY <2>1, <2>3, <3>1 DEF BlankRoute
      <3>3. e.last_used >= s
        BY <1>4 DEF Routes
      <3>4. QED
        BY <2>1, <2>3, <3>2, <3>3 DEF Retains, SameKey
    <2>4. QED
      BY <2>2, <2>3
  <1>5. QED
    BY <1>2, <1>3, <1>4

\* aodvv2_lrs_add_entry keeps the properties of the table and forgets only what
\* was not touched for MaxSeqnumLifetime.
LEMMA AddKeeps ==
    ASSUME NEW rt \in Tables, Blank(rt), Unique(rt), NEW t \in Nat,
           NEW e \in Routes, e.addr # NoAddr, e.last_used = t,
           NEW qt, qt = aodvv2_lrs_add_entry(rt, t, e)
    PROVE  /\ qt \in Tables /\ Blank(qt) /\ Unique(qt)
           /\ \A k \in Keys, s \in Nat :
                 (Retains(rt, k, s) /\ s <= t /\ t - s < MaxSeqnumLifetime) => Retains(qt, k, s)
  <1> DEFINE r1   == AfterGet(rt, t, e.addr, e.metric_type)
             f    == Found(rt, t, e.addr, e.metric_type)
             free == FreeSlots(r1)
  <1>1. Aged(rt, r1, t) /\ r1 \in Tables
    BY GetAges DEF Aged
  <1>2. Blank(r1) /\ Unique(r1)
    BY <1>1, AgedKeeps
  <1>3. \A k \in Keys, s \in Nat :
          (Retains(rt, k, s) /\ s <= t /\ t - s < MaxSeqnumLifetime) => Retains(r1, k, s)
    BY <1>1, AgedRetains
  <1>4. CASE f # 0 \/ free = {}
    BY <1>1, <1>2, <1>3, <1>4 DEF aodvv2_lrs_add_entry
  <1>5. CASE f = 0 /\ free # {}
    <2> DEFINE i == First(free)
    <2>1. free \in SUBSET Nat /\ free \subseteq Slots
      BY DEF FreeSlots, Slots
    <2>2. i \in free /\ i \in Slots
      BY <1>5, <2>1, FirstIsLeast
    <2>3. r1[i].route = BlankRoute
      BY <1>2, <2>2 DEF Blank, FreeSlots
    <2>4. \A j \in Slots : ~SameKey(r1[j].route, e)
      <3> HIDE DEF i, free, r1, f
      <3>1. \A j \in Slots : ~Matches(r1[j], e.addr, e.metric_type)
        BY <1>5, GetFinds DEF r1, f
      <3>2. QED
        BY <3>1 DEF Matches, SameKey
    <2>5. qt = [r1 EXCEPT ![i] = [used |-> TRUE, route |-> e]]
      BY <1>5 DEF aodvv2_lrs_add_entry
    <2> HIDE DEF i, r1, free
    <2>6. /\ qt \in Tables /\ qt[i].used /\ qt[i].route = e
          /\ \A j \in Slots \ {i} : qt[j] = r1[j]
      BY <1>1, <2>2, <2>5 DEF Tables
    <2>7. /\ Blank(qt) /\ Unique(qt)
          /\ \A k \in Keys, s \in Nat :
                (Retains(r1, k, s) /\ s <= e.last_used) => Retains(qt, k, s)
      BY <1>1, <1>2, <2>2, <2>3, <2>4, <2>6, FillKeeps
    <2>8. QED
      BY <1>3, <2>6, <2>7
  <1>6. QED
    BY <1>4, <1>5

\* The entry a message fills is a route to the node it describes, touched now.
LEMMA EntryType ==
    ASSUME NEW addr \in Addrs, NEW mt \in MetricTypes, NEW seqnum \in Seqnums,
           NEW metric \in Metrics, NEW sender \in NextHops, NEW t \in Nat,
           NEW node, node = [addr |-> addr, seqnum |-> seqnum, metric |-> metric],
           NEW e, e = FillRoutingEntry(node, sender, mt, t, LinkCost)
    PROVE  /\ e \in Routes
           /\ e.addr = addr /\ e.addr # NoAddr /\ e.metric_type = mt /\ e.last_used = t
  <1>1. (metric + LinkCost) % ByteMod \in Nat
    BY LrsInputs, SeqnumCmpAssumption DEF LinkCost
  <1>2. t + Validity \in Nat
    BY LrsAssumption DEF Validity
  <1>3. QED
    BY <1>1, <1>2, LrsInputs DEF FillRoutingEntry, Routes, RouteStates

\* The table part of the reader's end callbacks.
LEMMA LearnKeeps ==
    ASSUME NEW rt \in Tables, Blank(rt), Unique(rt), NEW t \in Nat,
           NEW addr \in Addrs, NEW mt \in MetricTypes, NEW seqnum \in Seqnums,
           NEW metric \in Metrics, NEW sender \in NextHops,
           NEW node, node = [addr |-> addr, seqnum |-> seqnum, metric |-> metric],
           NEW qt, qt = LearnTable(rt, t, node, sender, mt, LinkCost)
    PROVE  /\ qt \in Tables /\ Blank(qt) /\ Unique(qt)
           /\ \A k \in Keys, s \in Nat :
                 (Retains(rt, k, s) /\ s <= t /\ t - s < MaxSeqnumLifetime) => Retains(qt, k, s)
  <1> DEFINE r1 == AfterGet(rt, t, addr, mt)
             f  == Found(rt, t, addr, mt)
             e  == FillRoutingEntry(node, sender, mt, t, LinkCost)
             o  == LearnOutcome(rt, t, node, mt)
  <1>0. /\ e \in Routes
        /\ e.addr = addr /\ e.addr # NoAddr /\ e.metric_type = mt /\ e.last_used = t
    BY EntryType
  <1>1. Aged(rt, r1, t) /\ r1 \in Tables
    BY GetAges DEF Aged
  <1>2. Blank(r1) /\ Unique(r1)
    BY <1>1, AgedKeeps
  <1>3. \A k \in Keys, s \in Nat :
          (Retains(rt, k, s) /\ s <= t /\ t - s < MaxSeqnumLifetime) => Retains(r1, k, s)
    BY <1>1, AgedRetains
  <1>4. /\ o \in {"new", "better", "no_improvement"}
        /\ o # "new" => f # 0
        /\ qt = CASE o = "new"            -> aodvv2_lrs_add_entry(r1, t, e)
                  [] o = "better"         -> [r1 EXCEPT ![f].route = e]
                  [] o = "no_improvement" -> r1
    BY DEF LearnTable, LearnOutcome
  <1> HIDE DEF o
  <1>5. CASE o = "new"
    <2>1. qt = aodvv2_lrs_add_entry(r1, t, e)
      BY <1>4, <1>5
    <2>2. /\ qt \in Tables /\ Blank(qt) /\ Unique(qt)
          /\ \A k \in Keys, s \in Nat :
                (Retains(r1, k, s) /\ s <= t /\ t - s < MaxSeqnumLifetime) => Retains(qt, k, s)
      BY <1>0, <1>1, <1>2, <2>1, AddKeeps
    <2>3. QED
      BY <1>3, <2>2
  <1>6. CASE o = "better"
    <2>1. f \in Slots /\ Matches(r1[f], addr, mt)
      BY <1>4, <1>6, GetFinds
    <2>2. SameKey(r1[f].route, e)
      BY <1>0, <2>1 DEF Matches, SameKey
    <2>3. r1[f].used
      BY <1>0, <1>2, <2>1, <2>2 DEF Blank, BlankRoute, SameKey
    <2>4. \A j \in Slots \ {f} : ~SameKey(r1[j].route, e)
      BY <1>0, <1>2, <2>1, <2>2 DEF Unique, SameKey
    <2>5. qt = [r1 EXCEPT ![f].route = e]
      BY <1>4, <1>6
    <2> HIDE DEF f, r1, e
    <2>6. r1[f] \in [used : BOOLEAN, route : Routes]
      BY <1>1, <2>1 DEF Tables
    <2>7. /\ qt \in Tables /\ qt[f].used /\ qt[f].route = e
          /\ \A j \in Slots \ {f} : qt[j] = r1[j]
      <3>1. /\ r1 \in [Slots -> [used : BOOLEAN, route : Routes]] /\ f \in Slots
            /\ r1[f].used /\ e \in Routes
        BY <1>0, <1>1, <2>1, <2>3 DEF Tables
      <3>2. [r1[f] EXCEPT !.route = e] \in [used : BOOLEAN, route : Routes]
        BY ONLY <2>6, <3>1
      <3>3. QED
        BY ONLY <2>5, <2>6, <3>1, <3>2 DEF Tables
    <2>8. /\ Blank(qt) /\ Unique(qt)
          /\ \A k \in Keys, s \in Nat :
                (Retains(r1, k, s) /\ s <= e.last_used) => Retains(qt, k, s)
      BY <1>0, <1>1, <1>2, <2>1, <2>2, <2>4, <2>7, FillKeeps
    <2>9. QED
      BY <1>0, <1>3, <2>7, <2>8
  <1>7. CASE o = "no_improvement"
    BY <1>1, <1>2, <1>3, <1>4, <1>7
  <1>8. QED
    BY <1>4, <1>5, <1>6, <1>7

\* aodvv2_lrs_delete_entry removes the destination it is given and ages others.
LEMMA DeleteKeeps ==
    ASSUME NEW rt \in Tables, Blank(rt), Unique(rt), NEW t \in Nat,
           NEW addr \in Addrs, NEW mt,
           NEW qt, qt = aodvv2_lrs_delete_entry(rt, t, addr, mt)
    PROVE  /\ qt \in Tables /\ Blank(qt) /\ Unique(qt)
           /\ \A k \in Keys, s \in Nat :
                 (/\ Retains(rt, k, s) /\ s <= t /\ t - s < MaxSeqnumLifetime
                  /\ k # <<addr, mt>>) => Retains(qt, k, s)
  <1> DEFINE D  == {i \in Hits(rt, t, addr, mt) : rt[i].used}
             f  == FirstOrNone(D)
             at == [i \in Slots |-> IF f = 0 \/ i < f THEN ResetSlot(rt[i], t) ELSE rt[i]]
  <1>0. BlankSlot \in [used : BOOLEAN, route : Routes]
    BY BlankRouteType DEF BlankSlot
  <1>1. qt = [i \in Slots |-> IF i = f THEN BlankSlot ELSE at[i]]
    BY DEF aodvv2_lrs_delete_entry
  <1>2. ASSUME NEW i \in Slots
        PROVE  /\ rt[i] \in [used : BOOLEAN, route : Routes]
               /\ ResetSlot(rt[i], t) \in [used : BOOLEAN, route : Routes]
               /\ ResetSlot(rt[i], t).used = rt[i].used
               /\ AgedRoute(rt[i].route, ResetSlot(rt[i], t).route, t)
               /\ AgedRoute(rt[i].route, rt[i].route, t)
    <2>1. rt[i] \in [used : BOOLEAN, route : Routes]
      BY DEF Tables
    <2>2. ResetIfStale(rt[i].route, t) \in Routes /\ AgedRoute(rt[i].route, ResetIfStale(rt[i].route, t), t)
      BY <2>1, ResetAges
    <2>3. QED
      BY <2>1, <2>2 DEF ResetSlot, AgedRoute, SameKey
  <1>3. at \in Tables /\ Aged(rt, at, t)
    BY <1>2 DEF Aged, Tables
  <1>4. Blank(at) /\ Unique(at)
    BY <1>3, AgedKeeps
  <1>5. ASSUME f \in Slots
        PROVE  rt[f].route.addr = addr /\ rt[f].route.metric_type = mt
    <2>1. LrsSize \in Nat /\ D \in SUBSET (1 .. LrsSize)
      BY LrsAssumption DEF Hits, Slots
    <2>2. /\ (f = 0) <=> (D = {})
          /\ D # {} => f \in D
      BY <2>1, WalkResult
    <2>3. f \in D
      BY <1>5, <2>2 DEF Slots
    <2>4. Matches(ResetSlot(rt[f], t), addr, mt)
      BY <2>3 DEF Hits
    <2>5. AgedRoute(rt[f].route, ResetSlot(rt[f], t).route, t)
      BY <1>2, <1>5
    <2>6. ResetSlot(rt[f], t).route # BlankRoute
      BY <2>4, LrsInputs DEF Matches, BlankRoute
    <2>7. QED
      BY <2>4, <2>5, <2>6 DEF Matches, AgedRoute, SameKey
  <1> HIDE DEF f, at
  <1>6. qt \in Tables /\ Blank(qt)
    BY <1>0, <1>1, <1>3, <1>4 DEF Tables, Blank, BlankSlot
  <1>7. Unique(qt)
    <2>1. \A i \in Slots : qt[i].route.addr # NoAddr => qt[i] = at[i]
      BY <1>1 DEF BlankSlot, BlankRoute
    <2>2. QED
      BY <1>4, <2>1 DEF Unique, SameKey
  <1>8. ASSUME NEW k \in Keys, NEW s \in Nat, Retains(rt, k, s), s <= t,
               t - s < MaxSeqnumLifetime, k # <<addr, mt>>
        PROVE  Retains(qt, k, s)
    <2>1. Retains(at, k, s)
      BY <1>3, <1>8, AgedRetains
    <2>2. PICK i \in Slots : /\ at[i].used /\ at[i].route.last_used >= s
                             /\ at[i].route.addr = k[1] /\ at[i].route.metric_type = k[2]
      BY <2>1 DEF Retains
    <2>3. SameKey(rt[i].route, at[i].route)
      BY <1>3, <2>2, LrsInputs DEF Aged, AgedRoute, BlankRoute, Keys
    <2>4. k = <<k[1], k[2]>>
      BY DEF Keys
    <2>5. i # f
      BY <1>5, <1>8, <2>2, <2>3, <2>4 DEF SameKey
    <2>6. qt[i] = at[i]
      BY <1>1, <2>5
    <2>7. QED
      BY <2>2, <2>6 DEF Retains
  <1>9. QED
    BY <1>6, <1>7, <1>8

-----------------------------------------------------------------------------
\* The strengthened invariant is inductive.
LEMMA IInvStep == IInv /\ [Next]_vars => IInv'
  <1> SUFFICES ASSUME IInv, [Next]_vars
               PROVE  IInv'
    OBVIOUS
  <1>0. /\ routing_table \in Tables /\ now \in Nat
        /\ learned \in [Keys -> Nat \cup {-1}] /\ answer \in Routes
        /\ Blank(routing_table) /\ Unique(routing_table)
        /\ MaxSeqnumLifetime \in Nat /\ BlankRoute \in Routes
    BY LrsAssumption, BlankRouteType DEF IInv, TypeOK, Tables
  <1>1. ASSUME NEW addr \in Addrs, NEW mt \in MetricTypes, NEW seqnum \in Seqnums,
               NEW metric \in Metrics, NEW sender \in NextHops,
               Learn(addr, mt, seqnum, metric, sender)
        PROVE  IInv'
    <2> DEFINE node == [addr |-> addr, seqnum |-> seqnum, metric |-> metric]
               e    == FillRoutingEntry(node, sender, mt, now, LinkCost)
               qt   == LearnTable(routing_table, now, node, sender, mt, LinkCost)
    <2>1. /\ e.addr = addr /\ e.addr # NoAddr /\ e.metric_type = mt /\ e.last_used = now
      BY <1>0, EntryType
    <2>2. /\ qt \in Tables /\ Blank(qt) /\ Unique(qt)
          /\ \A k \in Keys, s \in Nat :
                (Retains(routing_table, k, s) /\ s <= now /\ now - s < MaxSeqnumLifetime)
                   => Retains(qt, k, s)
      BY <1>0, LearnKeeps
    <2>3. (\E i \in Slots : qt[i].route = e) => Retains(qt, <<addr, mt>>, now)
      BY <1>0, <2>1, <2>2 DEF Retains, Blank, BlankRoute
    <2>4. /\ routing_table' = qt /\ now' = now /\ asked' = <<>> /\ answer' = BlankRoute
          /\ learned' = IF \E i \in Slots : qt[i].route = e
                        THEN [learned EXCEPT ![<<addr, mt>>] = now] ELSE learned
      BY <1>1 DEF Learn
    <2> HIDE DEF qt, e
    <2>5. TypeOK'
      BY <1>0, <2>2, <2>4 DEF TypeOK, Tables, Keys
    <2>6. Retained'
      <3> SUFFICES ASSUME NEW k \in Keys
                   PROVE  /\ learned'[k] <= now
                          /\ (learned'[k] >= 0 /\ now - learned'[k] < MaxSeqnumLifetime)
                                => Retains(qt, k, learned'[k])
        BY <2>4 DEF Retained
      <3>1. CASE learned'[k] = learned[k]
        BY <1>0, <2>2, <3>1 DEF IInv, Retained
      <3>2. CASE learned'[k] # learned[k]
        <4>1. k = <<addr, mt>> /\ learned'[k] = now /\ \E i \in Slots : qt[i].route = e
          BY <1>0, <2>4, <3>2
        <4>2. QED
          BY <1>0, <2>3, <4>1
      <3>3. QED
        BY <3>1, <3>2
    <2>7. QED
      BY <2>2, <2>4, <2>5, <2>6 DEF IInv
  <1>2. ASSUME NEW addr \in Addrs, NEW mt \in MetricTypes, GetNextHop(addr, mt)
        PROVE  IInv'
    <2> DEFINE qt == AfterGet(routing_table, now, addr, mt)
               f  == Found(routing_table, now, addr, mt)
    <2>1. Aged(routing_table, qt, now) /\ qt \in Tables
      BY <1>0, GetAges DEF Aged
    <2>2. Blank(qt) /\ Unique(qt)
      BY <1>0, <2>1, AgedKeeps
    <2>3. \A k \in Keys, s \in Nat :
            (Retains(routing_table, k, s) /\ s <= now /\ now - s < MaxSeqnumLifetime)
               => Retains(qt, k, s)
      BY <1>0, <2>1, AgedRetains
    <2>4. f # 0 => f \in Slots
      BY <1>0, GetFinds
    <2>5. /\ routing_table' = qt /\ now' = now /\ learned' = learned
          /\ asked' = <<addr, mt>>
          /\ answer' = IF f = 0 THEN BlankRoute ELSE qt[f].route
      BY <1>2 DEF GetNextHop
    <2> HIDE DEF qt, f
    <2>6. TypeOK'
      BY <1>0, <2>1, <2>4, <2>5 DEF TypeOK, Tables, Keys
    <2>7. Retained'
      BY <1>0, <2>3, <2>5 DEF IInv, Retained
    <2>8. QED
      BY <2>2, <2>5, <2>6, <2>7 DEF IInv
  <1>3. ASSUME NEW addr \in Addrs, NEW mt \in MetricTypes, DeleteEntry(addr, mt)
        PROVE  IInv'
    <2> DEFINE qt == aodvv2_lrs_delete_entry(routing_table, now, addr, mt)
    <2>1. /\ qt \in Tables /\ Blank(qt) /\ Unique(qt)
          /\ \A k \in Keys, s \in Nat :
                (/\ Retains(routing_table, k, s) /\ s <= now /\ now - s < MaxSeqnumLifetime
                 /\ k # <<addr, mt>>) => Retains(qt, k, s)
      BY <1>0, DeleteKeeps
    <2>2. /\ routing_table' = qt /\ now' = now /\ asked' = <<>> /\ answer' = BlankRoute
          /\ learned' = [learned EXCEPT ![<<addr, mt>>] = -1]
      BY <1>3 DEF DeleteEntry
    <2> HIDE DEF qt
    <2>3. TypeOK'
      BY <1>0, <2>1, <2>2 DEF TypeOK, Tables, Keys
    <2>4. Retained'
      <3> SUFFICES ASSUME NEW k \in Keys
                   PROVE  /\ learned'[k] <= now
                          /\ (learned'[k] >= 0 /\ now - learned'[k] < MaxSeqnumLifetime)
                                => Retains(qt, k, learned'[k])
        BY <2>2 DEF Retained
      <3>1. CASE k = <<addr, mt>>
        BY <1>0, <2>2, <3>1
      <3>2. CASE k # <<addr, mt>>
        BY <1>0, <2>1, <2>2, <3>2 DEF IInv, Retained
      <3>3. QED
        BY <3>1, <3>2
    <2>5. QED
      BY <2>1, <2>2, <2>3, <2>4 DEF IInv
  <1>4. CASE Tick
    BY <1>0, <1>4 DEF Tick, IInv, TypeOK, Retained, Retains, Blank, Unique
  <1>5. CASE UNCHANGED vars
    BY <1>5 DEF vars, IInv, TypeOK, Retained, Retains, Blank, Unique
  <1>6. QED
    BY <1>1, <1>2, <1>3, <1>4, <1>5 DEF Next

\* The empty table satisfies the strengthened invariant.
LEMMA IInvInit == Init => IInv
  <1> SUFFICES ASSUME Init PROVE IInv
    OBVIOUS
  <1>1. \A i \in Slots : routing_table[i].route = BlankRoute /\ ~routing_table[i].used
    BY DEF Init, aodvv2_lrs_init, BlankSlot
  <1>2. TypeOK
    BY BlankRouteType DEF Init, TypeOK, aodvv2_lrs_init, BlankSlot
  <1>3. Blank(routing_table) /\ Unique(routing_table)
    BY <1>1 DEF Blank, Unique, BlankRoute
  <1>4. Retained
    BY DEF Init, Retained
  <1>5. QED
    BY <1>2, <1>3, <1>4 DEF IInv

\* The strengthened invariant holds in every reachable state.
LEMMA Invariance == Spec => []IInv
  BY IInvInit, IInvStep, PTL DEF Spec

-----------------------------------------------------------------------------
(***************************************************************************)
(* Type correctness of the routing table through all its operations.       *)
(***************************************************************************)
THEOREM TypeCorrect == Spec => []TypeOK
  <1>1. IInv => TypeOK
    BY DEF IInv
  <1>2. QED
    BY <1>1, Invariance, PTL

(***************************************************************************)
(* A slot not in use holds no route, so aodvv2_lrs_get_entry may compare   *)
(* addresses without looking at the flag.                                  *)
(***************************************************************************)
THEOREM UnusedSlotsAreBlank == Spec => []UnusedIsBlank
  <1>1. IInv => UnusedIsBlank
    BY DEF IInv, Blank, UnusedIsBlank
  <1>2. QED
    BY <1>1, Invariance, PTL

(***************************************************************************)
(* No destination has two routes, for any table size and any schedule of   *)
(* learning, looking up, deleting and ageing.                              *)
(***************************************************************************)
THEOREM RoutesAreUnique == Spec => []OneRoutePerDestination
  <1>1. IInv => OneRoutePerDestination
    BY DEF IInv, Unique, OneRoutePerDestination, SameKey
  <1>2. QED
    BY <1>1, Invariance, PTL

(***************************************************************************)
(* What was learned of a destination is kept for MAX_SEQNUM_LIFETIME, for  *)
(* any intervals: ageing never erases sequence number information early.   *)
(***************************************************************************)
THEOREM SeqnumInfoIsRetained == Spec => []SeqnumInfoRetained
  <1>1. IInv => SeqnumInfoRetained
    BY DEF IInv, Retained, Retains, SeqnumInfoRetained
  <1>2. QED
    BY <1>1, Invariance, PTL
-----------------------------------------------------------------------------
(***************************************************************************)
(* The life cycle of routes and the refinement of RouteMap.  Both follow   *)
(* from what one operation does to one slot: it ages it in order           *)
(* (InOrder), fills it with the route of the destination it held or from   *)
(* blank (Filled), or erases the route it was told to delete.              *)
(***************************************************************************)
\* Ageing in order: a route is erased no earlier than its expiration time, or
\* keeps all but its state and the time it was touched.
InOrder(r, q, t) ==
    \/ q = BlankRoute /\ r.expiration_time <= t
    \/ /\ r # BlankRoute
       /\ SameKey(r, q) /\ InfoOf(q) = InfoOf(r)
       /\ q.expiration_time = r.expiration_time
       /\ Rank(q.state) >= Rank(r.state)
       /\ q.state = "expired" => r.expiration_time <= t

AllInOrder(rt, qt, t) == \A i \in Slots : InOrder(rt[i].route, qt[i].route, t)

Filled(rt, qt, i, e) ==
    qt[i].route = e /\ (rt[i].route = BlankRoute \/ SameKey(rt[i].route, e))

\* No route is Expired before its expiration time.
Due(rt, t) ==
    \A i \in Slots : rt[i].route.state = "expired" => rt[i].route.expiration_time <= t

OnTime == Due(routing_table, now)

\* The order of the states.
LEMMA RankOrder ==
    /\ Rank("active") = 0 /\ Rank("idle") = 1 /\ Rank("expired") = 2
    /\ \A s \in RouteStates : Rank(s) \in Nat
  BY DEF Rank, RouteStates

\* Ageing twice at the same time is ageing.
LEMMA InOrderComposes ==
    ASSUME NEW r \in Routes, NEW q \in Routes, NEW p \in Routes, NEW t \in Nat,
           InOrder(r, q, t), InOrder(q, p, t)
    PROVE  InOrder(r, p, t)
  <1>1. Rank(r.state) \in Nat /\ Rank(q.state) \in Nat /\ Rank(p.state) \in Nat
    BY RankOrder DEF Routes
  <1>2. CASE q = BlankRoute
    BY <1>2 DEF InOrder, BlankRoute
  <1>3. CASE q # BlankRoute
    BY <1>1, <1>3 DEF InOrder, SameKey
  <1>4. QED
    BY <1>2, <1>3

\* _reset_entry_if_stale ages in order: Active, Idle, Expired, and the last two
\* steps no earlier than the expiration time.
LEMMA ResetInOrder ==
    ASSUME NEW r \in Routes, NEW t \in Nat,
           r.state = "expired" => r.expiration_time <= t
    PROVE  InOrder(r, ResetIfStale(r, t), t)
  <1>1. /\ r.state \in {"active", "idle", "expired"} /\ r.expiration_time \in Nat
        /\ Rank(r.state) \in Nat
    BY RankOrder DEF Routes, RouteStates
  <1>2. ActiveInterval \in Nat /\ MaxSeqnumLifetime \in Nat
    BY LrsAssumption
  <1>3. CASE r = BlankRoute
    <2>1. r.expiration_time = 0
      BY <1>3 DEF BlankRoute
    <2>2. ResetIfStale(r, t) = r
      BY <2>1 DEF ResetIfStale
    <2>3. QED
      BY <1>3, <2>1, <2>2 DEF InOrder
  <1>4. CASE r # BlankRoute
    <2> DEFINE idle    == [r EXCEPT !.state = "idle", !.last_used = t]
               expired == [r EXCEPT !.state = "expired", !.last_used = t]
    <2>1. InOrder(r, r, t)
      BY <1>1, <1>4 DEF InOrder, SameKey
    <2>2. r.state = "active" => InOrder(r, idle, t)
      <3>1. SameKey(r, idle) /\ InfoOf(idle) = InfoOf(r)
            /\ idle.expiration_time = r.expiration_time /\ idle.state = "idle"
        BY DEF Routes, SameKey, InfoOf
      <3>2. QED
        BY <1>4, <3>1, RankOrder DEF InOrder
    <2>3. (r.state = "idle" /\ t >= r.expiration_time) => InOrder(r, expired, t)
      <3>1. SameKey(r, expired) /\ InfoOf(expired) = InfoOf(r)
            /\ expired.expiration_time = r.expiration_time /\ expired.state = "expired"
        BY DEF Routes, SameKey, InfoOf
      <3>2. QED
        BY <1>1, <1>4, <3>1, RankOrder DEF InOrder
    <2>4. \/ ResetIfStale(r, t) = r
          \/ ResetIfStale(r, t) = idle /\ r.state = "active"
          \/ ResetIfStale(r, t) = expired /\ r.state = "idle" /\ t >= r.expiration_time
          \/ ResetIfStale(r, t) = BlankRoute /\ t >= r.expiration_time
      <3> HIDE DEF idle, expired
      <3>1. QED
        BY <1>1, <1>2 DEF ResetIfStale, idle, expired
    <2>5. t >= r.expiration_time => InOrder(r, BlankRoute, t)
      BY <1>1 DEF InOrder
    <2> HIDE DEF idle, expired
    <2>6. QED
      BY <2>1, <2>2, <2>3, <2>4, <2>5
  <1>5. QED
    BY <1>3, <1>4

\* Ageing in order keeps Due.
LEMMA InOrderKeepsDue ==
    ASSUME NEW rt \in Tables, NEW qt \in Tables, NEW t \in Nat, AllInOrder(rt, qt, t)
    PROVE  Due(qt, t)
  BY DEF AllInOrder, InOrder, Due, BlankRoute

\* What aodvv2_lrs_get_entry does to the slots.
LEMMA GetInOrder ==
    ASSUME NEW rt \in Tables, NEW t \in Nat, NEW addr, NEW mt, Due(rt, t),
           NEW qt, qt = AfterGet(rt, t, addr, mt)
    PROVE  qt \in Tables /\ AllInOrder(rt, qt, t) /\ Due(qt, t)
  <1>1. qt \in Tables
    BY GetAges DEF Aged
  <1>2. ASSUME NEW i \in Slots PROVE InOrder(rt[i].route, qt[i].route, t)
    <2>1. rt[i] \in [used : BOOLEAN, route : Routes]
      BY DEF Tables
    <2>2. rt[i].route \in Routes /\ ResetSlot(rt[i], t).route = ResetIfStale(rt[i].route, t)
      BY <2>1 DEF ResetSlot
    <2>3. InOrder(rt[i].route, ResetIfStale(rt[i].route, t), t)
      BY <2>2, ResetInOrder DEF Due
    <2>4. InOrder(rt[i].route, rt[i].route, t)
      <3>1. Rank(rt[i].route.state) \in Nat /\ BlankRoute.expiration_time <= t
        BY <2>2, RankOrder DEF Routes, BlankRoute
      <3>2. QED
        BY <3>1 DEF InOrder, SameKey, Due
    <2>5. QED
      BY <2>2, <2>3, <2>4 DEF AfterGet
  <1>3. AllInOrder(rt, qt, t)
    BY <1>2 DEF AllInOrder
  <1>4. QED
    BY <1>1, <1>3, InOrderKeepsDue

\* What aodvv2_lrs_add_entry does to the slots: the one it fills was unused.
LEMMA AddInOrder ==
    ASSUME NEW rt \in Tables, NEW t \in Nat, Due(rt, t), NEW e \in Routes,
           NEW qt, qt = aodvv2_lrs_add_entry(rt, t, e)
    PROVE  \/ AllInOrder(rt, qt, t)
           \/ \E i \in Slots : /\ ~rt[i].used /\ qt[i].route = e
                               /\ \A j \in Slots \ {i} : InOrder(rt[j].route, qt[j].route, t)
  <1> DEFINE r1   == AfterGet(rt, t, e.addr, e.metric_type)
             f    == Found(rt, t, e.addr, e.metric_type)
             free == FreeSlots(r1)
  <1>1. r1 \in Tables /\ AllInOrder(rt, r1, t) /\ Aged(rt, r1, t)
    BY GetInOrder, GetAges
  <1>2. CASE f # 0 \/ free = {}
    BY <1>1, <1>2 DEF aodvv2_lrs_add_entry
  <1>3. CASE f = 0 /\ free # {}
    <2> DEFINE i == First(free)
    <2>1. free \in SUBSET Nat /\ free \subseteq Slots
      BY DEF FreeSlots, Slots
    <2>2. i \in free /\ i \in Slots
      BY <1>3, <2>1, FirstIsLeast
    <2>3. ~rt[i].used
      BY <1>1, <2>2 DEF FreeSlots, Aged
    <2>4. qt = [r1 EXCEPT ![i] = [used |-> TRUE, route |-> e]]
      BY <1>3 DEF aodvv2_lrs_add_entry
    <2> HIDE DEF i, r1, free
    <2>5. qt[i].route = e /\ \A j \in Slots \ {i} : qt[j] = r1[j]
      BY <1>1, <2>2, <2>4 DEF Tables
    <2>6. QED
      BY <1>1, <2>2, <2>3, <2>5 DEF AllInOrder
  <1>4. QED
    BY <1>2, <1>3

\* What the reader's end callbacks do to the slots: all are aged, and at most
\* one receives the entry the message describes.
LEMMA LearnInOrder ==
    ASSUME NEW rt \in Tables, Blank(rt), Unique(rt), NEW t \in Nat, Due(rt, t),
           NEW addr \in Addrs, NEW mt \in MetricTypes, NEW seqnum \in Seqnums,
           NEW metric \in Metrics, NEW sender \in NextHops,
           NEW node, node = [addr |-> addr, seqnum |-> seqnum, metric |-> metric],
           NEW e, e = FillRoutingEntry(node, sender, mt, t, LinkCost),
           NEW qt, qt = LearnTable(rt, t, node, sender, mt, LinkCost)
    PROVE  \/ AllInOrder(rt, qt, t)
           \/ \E i \in Slots : /\ Filled(rt, qt, i, e)
                               /\ \A j \in Slots \ {i} : InOrder(rt[j].route, qt[j].route, t)
  <1> DEFINE r1 == AfterGet(rt, t, addr, mt)
             f  == Found(rt, t, addr, mt)
             o  == LearnOutcome(rt, t, node, mt)
  <1>0. /\ e \in Routes
        /\ e.addr = addr /\ e.addr # NoAddr /\ e.metric_type = mt /\ e.last_used = t
    BY EntryType
  <1>1. r1 \in Tables /\ AllInOrder(rt, r1, t) /\ Due(r1, t) /\ Aged(rt, r1, t)
    BY GetInOrder, GetAges
  <1>2. /\ o \in {"new", "better", "no_improvement"}
        /\ o # "new" => f # 0
        /\ qt = CASE o = "new"            -> aodvv2_lrs_add_entry(r1, t, e)
                  [] o = "better"         -> [r1 EXCEPT ![f].route = e]
                  [] o = "no_improvement" -> r1
    BY DEF LearnTable, LearnOutcome
  <1>3. qt \in Tables
    BY LearnKeeps
  <1>4. f # 0 => f \in Slots /\ Matches(r1[f], addr, mt)
    BY GetFinds
  <1> HIDE DEF o, r1, f
  <1>5. CASE o = "new"
    <2>1. qt = aodvv2_lrs_add_entry(r1, t, e)
      BY <1>2, <1>5
    <2>2. \A i \in Slots : rt[i].route \in Routes /\ r1[i].route \in Routes /\ qt[i].route \in Routes
      BY <1>1, <1>3 DEF Tables
    <2>3. \A i \in Slots : InOrder(r1[i].route, qt[i].route, t) => InOrder(rt[i].route, qt[i].route, t)
      BY <1>1, <2>2, InOrderComposes DEF AllInOrder
    <2>4. \A i \in Slots : ~r1[i].used => rt[i].route = BlankRoute
      BY <1>1 DEF Aged, Blank
    <2>5. \/ AllInOrder(r1, qt, t)
          \/ \E i \in Slots : /\ ~r1[i].used /\ qt[i].route = e
                              /\ \A j \in Slots \ {i} : InOrder(r1[j].route, qt[j].route, t)
      <3>1. e \in Routes /\ r1 \in Tables /\ Due(r1, t)
        BY <1>0, <1>1
      <3>2. QED
        BY <2>1, <3>1, AddInOrder
    <2>6. QED
      BY <2>3, <2>4, <2>5 DEF AllInOrder, Filled
  <1>6. CASE o = "better"
    <2>1. f \in Slots /\ qt[f].route = e /\ \A j \in Slots \ {f} : qt[j] = r1[j]
      BY <1>1, <1>2, <1>4, <1>6 DEF Tables
    <2>2. SameKey(rt[f].route, e)
      BY <1>0, <1>1, <1>2, <1>4, <1>6 DEF AllInOrder, InOrder, Matches, SameKey, BlankRoute
    <2>3. QED
      BY <1>1, <2>1, <2>2 DEF AllInOrder, Filled
  <1>7. CASE o = "no_improvement"
    BY <1>1, <1>2, <1>7
  <1>8. QED
    BY <1>2, <1>5, <1>6, <1>7

\* What aodvv2_lrs_delete_entry does to the slots: the route it erases is one to
\* the destination it was given.
LEMMA DeleteInOrder ==
    ASSUME NEW rt \in Tables, NEW t \in Nat, Due(rt, t), NEW addr \in Addrs, NEW mt,
           NEW qt, qt = aodvv2_lrs_delete_entry(rt, t, addr, mt)
    PROVE  \A i \in Slots :
              \/ InOrder(rt[i].route, qt[i].route, t)
              \/ /\ qt[i].route = BlankRoute
                 /\ rt[i].route.addr = addr /\ rt[i].route.metric_type = mt
  <1> DEFINE D == {i \in Hits(rt, t, addr, mt) : rt[i].used}
             f == FirstOrNone(D)
  <1>1. LrsSize \in Nat /\ D \in SUBSET (1 .. LrsSize)
    BY LrsAssumption DEF Hits, Slots
  <1>2. f # 0 => f \in D
    BY <1>1, WalkResult
  <1>3. qt = [i \in Slots |-> IF i = f THEN BlankSlot
                              ELSE IF f = 0 \/ i < f THEN ResetSlot(rt[i], t) ELSE rt[i]]
    BY DEF aodvv2_lrs_delete_entry
  <1>4. ASSUME NEW i \in Slots
        PROVE  /\ InOrder(rt[i].route, ResetSlot(rt[i], t).route, t)
               /\ InOrder(rt[i].route, rt[i].route, t)
    <2>1. rt[i] \in [used : BOOLEAN, route : Routes]
      BY DEF Tables
    <2>2. rt[i].route \in Routes /\ ResetSlot(rt[i], t).route = ResetIfStale(rt[i].route, t)
      BY <2>1 DEF ResetSlot
    <2>3. InOrder(rt[i].route, ResetIfStale(rt[i].route, t), t)
      BY <2>2, ResetInOrder DEF Due
    <2>4. Rank(rt[i].route.state) \in Nat /\ BlankRoute.expiration_time <= t
      BY <2>2, RankOrder DEF Routes, BlankRoute
    <2>5. QED
      BY <2>2, <2>3, <2>4 DEF InOrder, SameKey, Due
  <1>5. ASSUME f \in Slots PROVE rt[f].route.addr = addr /\ rt[f].route.metric_type = mt
    <2>1. Matches(ResetSlot(rt[f], t), addr, mt)
      BY <1>2, <1>5 DEF Hits, Slots
    <2>2. InOrder(rt[f].route, ResetSlot(rt[f], t).route, t)
      BY <1>4, <1>5
    <2>3. ResetSlot(rt[f], t).route # BlankRoute
      BY <2>1, LrsInputs DEF Matches, BlankRoute
    <2>4. QED
      BY <2>1, <2>2, <2>3 DEF Matches, InOrder, SameKey
  <1> HIDE DEF f
  <1>6. QED
    BY <1>3, <1>4, <1>5 DEF BlankSlot

\* The action of LifeCycle on one slot.
SlotLives(i) ==
    LET r == routing_table[i].route
        q == routing_table'[i].route
    IN  r.addr # NoAddr =>
          \/ q.addr = r.addr /\ q.state = "active" /\ q.last_used = now
          \/ /\ q.addr = r.addr /\ Rank(q.state) >= Rank(r.state)
             /\ (q.state = "expired" => r.expiration_time <= now)
          \/ /\ q = BlankRoute
             /\ \/ r.expiration_time <= now
                \/ learned'[<<r.addr, r.metric_type>>] = -1

\* A step ages, fills or deletes, and leaves no route Expired too early.
LEMMA LifeCycleStep ==
    IInv /\ OnTime /\ [Next]_vars => (\A i \in Slots : SlotLives(i)) /\ OnTime'
  <1> SUFFICES ASSUME IInv, Due(routing_table, now), [Next]_vars
               PROVE  (\A i \in Slots : SlotLives(i)) /\ Due(routing_table', now')
    BY DEF OnTime
  <1>0. /\ routing_table \in Tables /\ now \in Nat /\ routing_table' \in Tables /\ now' \in Nat
        /\ learned \in [Keys -> Nat \cup {-1}]
        /\ Blank(routing_table) /\ Unique(routing_table)
    BY IInvStep DEF IInv, TypeOK, Tables
  <1>1. ASSUME NEW i \in Slots, InOrder(routing_table[i].route, routing_table'[i].route, now)
        PROVE  SlotLives(i)
    BY <1>1 DEF InOrder, SlotLives, SameKey
  <1>2. ASSUME AllInOrder(routing_table, routing_table', now), now' = now
        PROVE  (\A i \in Slots : SlotLives(i)) /\ Due(routing_table', now')
    BY <1>0, <1>1, <1>2, InOrderKeepsDue DEF AllInOrder
  <1>3. ASSUME NEW addr \in Addrs, NEW mt \in MetricTypes, NEW seqnum \in Seqnums,
               NEW metric \in Metrics, NEW sender \in NextHops,
               Learn(addr, mt, seqnum, metric, sender)
        PROVE  (\A i \in Slots : SlotLives(i)) /\ Due(routing_table', now')
    <2> PICK node : node = [addr |-> addr, seqnum |-> seqnum, metric |-> metric]
      OBVIOUS
    <2> PICK e : e = FillRoutingEntry(node, sender, mt, now, LinkCost)
      OBVIOUS
    <2>1. routing_table' = LearnTable(routing_table, now, node, sender, mt, LinkCost) /\ now' = now
      BY <1>3 DEF Learn
    <2>2. e.last_used = now /\ e.state = "active"
      BY DEF FillRoutingEntry
    <2>3. CASE AllInOrder(routing_table, routing_table', now)
      BY <1>2, <2>1, <2>3
    <2>4. ASSUME NEW i \in Slots, Filled(routing_table, routing_table', i, e),
                 \A j \in Slots \ {i} :
                     InOrder(routing_table[j].route, routing_table'[j].route, now)
          PROVE  (\A j \in Slots : SlotLives(j)) /\ Due(routing_table', now')
      <3>1. SlotLives(i)
        BY <2>2, <2>4 DEF Filled, SlotLives, SameKey, BlankRoute
      <3>2. Due(routing_table', now)
        BY <2>2, <2>4 DEF Due, Filled, InOrder, BlankRoute
      <3>3. QED
        BY <1>1, <2>1, <2>4, <3>1, <3>2
    <2>5. QED
      BY <1>0, <2>1, <2>3, <2>4, LearnInOrder
  <1>4. ASSUME NEW addr \in Addrs, NEW mt \in MetricTypes, GetNextHop(addr, mt)
        PROVE  (\A i \in Slots : SlotLives(i)) /\ Due(routing_table', now')
    <2>1. routing_table' = AfterGet(routing_table, now, addr, mt) /\ now' = now
      BY <1>4 DEF GetNextHop
    <2>2. QED
      BY <1>0, <1>2, <2>1, GetInOrder
  <1>5. ASSUME NEW addr \in Addrs, NEW mt \in MetricTypes, DeleteEntry(addr, mt)
        PROVE  (\A i \in Slots : SlotLives(i)) /\ Due(routing_table', now')
    <2>1. /\ routing_table' = aodvv2_lrs_delete_entry(routing_table, now, addr, mt) /\ now' = now
          /\ learned' = [learned EXCEPT ![<<addr, mt>>] = -1]
      BY <1>5 DEF DeleteEntry
    <2>2. \A i \in Slots :
             \/ InOrder(routing_table[i].route, routing_table'[i].route, now)
             \/ /\ routing_table'[i].route = BlankRoute
                /\ routing_table[i].route.addr = addr /\ routing_table[i].route.metric_type = mt
      BY <1>0, <2>1, DeleteInOrder
    <2>3. learned'[<<addr, mt>>] = -1
      BY <1>0, <2>1 DEF Keys
    <2>4. \A i \in Slots : SlotLives(i)
      BY <1>1, <2>2, <2>3 DEF SlotLives
    <2>5. Due(routing_table', now')
      BY <2>1, <2>2 DEF Due, InOrder, BlankRoute
    <2>6. QED
      BY <2>4, <2>5
  <1>6. CASE Tick \/ UNCHANGED vars
    <2>1. routing_table' = routing_table /\ now' \in {now, now + 1}
      BY <1>6 DEF Tick, vars
    <2>2. \A i \in Slots : routing_table[i].route \in Routes
      BY <1>0 DEF Tables
    <2>3. ASSUME NEW i \in Slots PROVE SlotLives(i)
      BY <2>1, <2>2, RankOrder DEF SlotLives, Due, Routes
    <2>4. Due(routing_table', now')
      BY <1>0, <2>1, <2>2 DEF Due, Routes
    <2>5. QED
      BY <2>3, <2>4
  <1>7. QED
    BY <1>3, <1>4, <1>5, <1>6 DEF Next

\* No route is Expired early in any reachable state.
LEMMA DueInvariance == Spec => [](IInv /\ OnTime)
  <1>1. Init => OnTime
    BY DEF Init, OnTime, Due, aodvv2_lrs_init, BlankSlot, BlankRoute
  <1>2. QED
    BY <1>1, LifeCycleStep, IInvInit, IInvStep, PTL DEF Spec

(***************************************************************************)
(* A route that is not replaced goes Active, Idle, Expired in this order,  *)
(* for any intervals and however late it is looked up: nothing makes it    *)
(* Expired before its expiration time, and only a deletion erases it       *)
(* before then.                                                            *)
(***************************************************************************)
THEOREM RoutesLiveInOrder == Spec => LifeCycle
  <1>1. IInv /\ OnTime /\ [Next]_vars => \A i \in Slots : SlotLives(i)
    BY LifeCycleStep
  <1>2. Spec => [][\A i \in Slots : SlotLives(i)]_vars
    BY <1>1, DueInvariance, PTL DEF Spec
  <1>3. QED
    BY <1>2 DEF LifeCycle, SlotLives

-----------------------------------------------------------------------------
\* The abstract map as an operator of the table.
KnownIn(rt) == {k \in Keys : \E i \in Slots : Matches(rt[i], k[1], k[2])}

RouteIn(rt, k) == rt[CHOOSE i \in Slots : Matches(rt[i], k[1], k[2])].route

MapOf(rt) == [k \in KnownIn(rt) |-> InfoOf(RouteIn(rt, k))]

\* The map m on S, with info for the destination k.
With(m, S, k, info) == [x \in S \cup {k} |-> IF x = k THEN info ELSE m[x]]

\* A key is the pair of its parts, and its address is not the empty one.
LEMMA KeyParts == \A k \in Keys : k = <<k[1], k[2]>> /\ k[1] # NoAddr
  BY LrsInputs DEF Keys

\* The map has the information of the one slot that holds the destination.
LEMMA MapValue ==
    ASSUME NEW rt \in Tables, Unique(rt), NEW k \in Keys, NEW i \in Slots,
           Matches(rt[i], k[1], k[2])
    PROVE  k \in KnownIn(rt) /\ MapOf(rt)[k] = InfoOf(rt[i].route)
  <1>1. k \in KnownIn(rt)
    BY DEF KnownIn
  <1>2. PICK j \in Slots : /\ j = CHOOSE x \in Slots : Matches(rt[x], k[1], k[2])
                           /\ Matches(rt[j], k[1], k[2])
    OBVIOUS
  <1>3. i = j
    BY <1>2, KeyParts DEF Unique, SameKey, Matches
  <1>4. QED
    BY <1>1, <1>2, <1>3 DEF MapOf, RouteIn

\* A slot that was aged in order and still holds a destination maps it to what
\* it was mapped to before.
LEMMA AgedMaps ==
    ASSUME NEW rt \in Tables, NEW qt \in Tables, Unique(rt), Unique(qt), NEW t,
           NEW k \in Keys, NEW i \in Slots, Matches(qt[i], k[1], k[2]),
           InOrder(rt[i].route, qt[i].route, t)
    PROVE  k \in KnownIn(rt) /\ MapOf(qt)[k] = MapOf(rt)[k]
  <1>1. SameKey(rt[i].route, qt[i].route) /\ InfoOf(qt[i].route) = InfoOf(rt[i].route)
    BY KeyParts DEF InOrder, Matches, BlankRoute
  <1>2. Matches(rt[i], k[1], k[2])
    BY <1>1 DEF Matches, SameKey
  <1>3. QED
    BY <1>1, <1>2, MapValue

\* Ageing and erasing restrict the map.
LEMMA AgedRestricts ==
    ASSUME NEW rt \in Tables, NEW qt \in Tables, Unique(rt), Unique(qt), NEW t,
           \A i \in Slots : \/ InOrder(rt[i].route, qt[i].route, t)
                            \/ qt[i].route = BlankRoute
    PROVE  /\ KnownIn(qt) \subseteq KnownIn(rt)
           /\ MapOf(qt) = [k \in KnownIn(qt) |-> MapOf(rt)[k]]
  <1>1. ASSUME NEW k \in KnownIn(qt)
        PROVE  k \in KnownIn(rt) /\ MapOf(qt)[k] = MapOf(rt)[k]
    <2>1. PICK i \in Slots : Matches(qt[i], k[1], k[2])
      BY DEF KnownIn
    <2>2. k \in Keys
      BY DEF KnownIn
    <2>3. qt[i].route # BlankRoute
      BY <2>1, <2>2, KeyParts DEF Matches, BlankRoute
    <2>4. QED
      BY <2>1, <2>2, <2>3, AgedMaps
  <1>2. MapOf(qt) = [k \in KnownIn(qt) |-> MapOf(qt)[k]]
    BY DEF MapOf
  <1>3. QED
    BY <1>1, <1>2

\* The destinations other than that of slot i fit in the other slots.
LEMMA OthersFit ==
    ASSUME NEW rt \in Tables, NEW i \in Slots, NEW S,
           S \subseteq {k \in KnownIn(rt) : ~Matches(rt[i], k[1], k[2])}
    PROVE  Cardinality(S) < LrsSize
  <1> DEFINE at == [k \in S |-> CHOOSE j \in Slots : Matches(rt[j], k[1], k[2])]
             T  == Slots \ {i}
  <1>1. \A k \in S : at[k] \in Slots /\ Matches(rt[at[k]], k[1], k[2]) /\ k \in Keys
    BY DEF KnownIn
  <1>2. at \in [S -> T]
    BY <1>1
  <1>3. at \in Injection(S, T)
    <2>1. ASSUME NEW k \in S, NEW l \in S, at[k] = at[l] PROVE k = l
      <3>1. k[1] = l[1] /\ k[2] = l[2]
        BY <1>1, <2>1 DEF Matches
      <3>2. QED
        BY <1>1, <3>1, KeyParts
    <2> HIDE DEF at
    <2>2. QED
      BY <1>2, <2>1 DEF Injection, IsInjective
  <1>4. IsFiniteSet(Slots) /\ Cardinality(Slots) = LrsSize
    BY LrsAssumption, FS_Interval DEF Slots
  <1>5. IsFiniteSet(T) /\ Cardinality(T) = LrsSize - 1
    BY <1>4, FS_RemoveElement
  <1> HIDE DEF at, T
  <1>6. IsFiniteSet(S) /\ Cardinality(S) <= Cardinality(T)
    BY <1>3, <1>5, FS_Injection
  <1>7. QED
    BY <1>5, <1>6, LrsAssumption, FS_CardinalityType

\* From the table rt to qt the slot i gets the entry e of the key k, at t, and the others age.
Fills(rt, qt, t, k, e, i) ==
    /\ rt \in Tables /\ qt \in Tables /\ Unique(rt) /\ Unique(qt)
    /\ k \in Keys /\ e.addr = k[1] /\ e.metric_type = k[2]
    /\ i \in Slots /\ qt[i].route = e
    /\ \A j \in Slots \ {i} : InOrder(rt[j].route, qt[j].route, t)

\* The map of qt is that of rt without some keys, which leaves room, and with e at k.
FilledMap(rt, qt, k, e) ==
    LET S == KnownIn(qt) \ {k}
    IN  /\ S \in SUBSET (KnownIn(rt) \ {k})
        /\ Cardinality(S) < LrsSize
        /\ MapOf(qt) = With(MapOf(rt), S, k, InfoOf(e))

\* Filling a slot changes the map at its destination, in the room there is.
LEMMA FilledMaps ==
    ASSUME NEW rt, NEW qt, NEW t, NEW k, NEW e, NEW i, Fills(rt, qt, t, k, e, i)
    PROVE  FilledMap(rt, qt, k, e)
  <1> /\ rt \in Tables /\ qt \in Tables /\ Unique(rt) /\ Unique(qt)
      /\ k \in Keys /\ e.addr = k[1] /\ e.metric_type = k[2]
      /\ i \in Slots /\ qt[i].route = e
      /\ \A j \in Slots \ {i} : InOrder(rt[j].route, qt[j].route, t)
    BY DEF Fills
  <1> PICK S : S = KnownIn(qt) \ {k}
    OBVIOUS
  <1>1. Matches(qt[i], k[1], k[2])
    BY DEF Matches
  <1>2. k \in KnownIn(qt) /\ MapOf(qt)[k] = InfoOf(e)
    BY <1>1, MapValue
  <1>3. ASSUME NEW x \in S
        PROVE  x \in KnownIn(rt) /\ x # k /\ MapOf(qt)[x] = MapOf(rt)[x]
               /\ ~Matches(qt[i], x[1], x[2])
    <2>1. x \in Keys /\ x # k /\ \E j \in Slots : Matches(qt[j], x[1], x[2])
      BY DEF KnownIn
    <2>2. ~Matches(qt[i], x[1], x[2])
      BY <1>1, <2>1, KeyParts DEF Matches
    <2>3. PICK j \in Slots \ {i} : Matches(qt[j], x[1], x[2])
      BY <2>1, <2>2
    <2>4. x \in KnownIn(rt) /\ MapOf(qt)[x] = MapOf(rt)[x]
      BY <2>1, <2>3, AgedMaps
    <2>5. QED
      BY <2>1, <2>2, <2>4
  <1>4. Cardinality(S) < LrsSize
    BY <1>3, OthersFit
  <1>5. MapOf(qt) = [x \in S \cup {k} |-> MapOf(qt)[x]]
    <2>1. KnownIn(qt) = S \cup {k}
      BY <1>2
    <2>2. QED
      BY <2>1 DEF MapOf
  <1>6. QED
    BY <1>2, <1>3, <1>4, <1>5 DEF With, FilledMap

\* The empty table is the empty map.
LEMMA RefinesInit == Init => Abstract!Init
  <1> SUFFICES ASSUME Init PROVE Abstract!Init
    OBVIOUS
  <1>1. \A i \in Slots : routing_table[i].route = BlankRoute
    BY DEF Init, aodvv2_lrs_init, BlankSlot
  <1>2. KnownKeys = {}
    BY <1>1, KeyParts DEF KnownKeys, Matches, BlankRoute
  <1>3. [k \in KnownKeys |-> InfoOf(RouteTo(k))] = <<>>
    BY <1>2
  <1>4. QED
    BY <1>3 DEF Init, Abstract!Init

\* Every operation is one of the abstract map, or changes nothing it shows.
LEMMA RefinesStep ==
    IInv /\ OnTime /\ [Next]_vars => [Abstract!Next]_(Abstract!vars)
  <1> SUFFICES ASSUME IInv, OnTime, [Next]_vars
               PROVE  [Abstract!Next]_(Abstract!vars)
    OBVIOUS
  <1> DEFINE map == [k \in KnownKeys |-> InfoOf(RouteTo(k))]
  <1>0. /\ routing_table \in Tables /\ now \in Nat /\ routing_table' \in Tables
        /\ Blank(routing_table) /\ Unique(routing_table) /\ Unique(routing_table')
        /\ Due(routing_table, now)
    BY IInvStep DEF IInv, TypeOK, Tables, OnTime
  <1>1. map = MapOf(routing_table) /\ map' = MapOf(routing_table')
        /\ DOMAIN map = KnownIn(routing_table)
    BY DEF MapOf, KnownIn, RouteIn, KnownKeys, RouteTo
  <1>2. ASSUME \A i \in Slots :
                  \/ InOrder(routing_table[i].route, routing_table'[i].route, now)
                  \/ routing_table'[i].route = BlankRoute,
               asked' = <<>>, answer' = BlankRoute
        PROVE  Abstract!Next
    <2> DEFINE S == KnownIn(routing_table')
    <2>1. S \in SUBSET DOMAIN map /\ map' = [k \in S |-> map[k]]
      BY <1>0, <1>1, <1>2, AgedRestricts
    <2> HIDE DEF S, map
    <2>2. \E T \in SUBSET DOMAIN map :
             map' = [k \in T |-> map[k]] /\ asked' = <<>> /\ InfoOf(answer)' = InfoOf(BlankRoute)
      BY <1>2, <2>1
    <2>3. Abstract!Forget
      BY <2>2 DEF Abstract!Forget, Abstract!Keep, map
    <2>4. QED
      BY <2>3 DEF Abstract!Next
  <1>3. ASSUME NEW addr \in Addrs, NEW mt \in MetricTypes, NEW seqnum \in Seqnums,
               NEW metric \in Metrics, NEW sender \in NextHops,
               Learn(addr, mt, seqnum, metric, sender)
        PROVE  Abstract!Next
    <2> PICK node : node = [addr |-> addr, seqnum |-> seqnum, metric |-> metric]
      OBVIOUS
    <2> PICK e : e = FillRoutingEntry(node, sender, mt, now, LinkCost)
      OBVIOUS
    <2> PICK key : key = <<addr, mt>>
      OBVIOUS
    <2>1. /\ routing_table' = LearnTable(routing_table, now, node, sender, mt, LinkCost)
          /\ asked' = <<>> /\ answer' = BlankRoute
      BY <1>3 DEF Learn
    <2>2. key \in Keys /\ key[1] = e.addr /\ key[2] = e.metric_type
      BY DEF Keys, FillRoutingEntry
    <2>3. CASE AllInOrder(routing_table, routing_table', now)
      BY <1>2, <2>1, <2>3 DEF AllInOrder
    <2>4. ASSUME NEW i \in Slots, Filled(routing_table, routing_table', i, e),
                 \A j \in Slots \ {i} :
                     InOrder(routing_table[j].route, routing_table'[j].route, now)
          PROVE  Abstract!Next
      <3> PICK info : info = InfoOf(e)
        OBVIOUS
      <3>1. info = [seqnum |-> seqnum, next_hop |-> sender, metric |-> (metric + LinkCost) % ByteMod]
        BY DEF InfoOf, FillRoutingEntry
      <3> DEFINE S == KnownIn(routing_table') \ {key}
      <3>2. /\ S \in SUBSET (DOMAIN map \ {key}) /\ Cardinality(S) < LrsSize
            /\ map' = [x \in S \cup {key} |-> IF x = key THEN info ELSE map[x]]
        <4>1. routing_table'[i].route = e
          BY <2>4 DEF Filled
        <4>2. /\ S \in SUBSET (KnownIn(routing_table) \ {key}) /\ Cardinality(S) < LrsSize
              /\ MapOf(routing_table') = With(MapOf(routing_table), S, key, InfoOf(e))
          <5>1. Fills(routing_table, routing_table', now, key, e, i)
            BY <1>0, <2>2, <2>4, <4>1 DEF Fills
          <5>2. FilledMap(routing_table, routing_table', key, e)
            BY ONLY <5>1, FilledMaps
          <5>3. QED
            BY ONLY <5>2 DEF FilledMap
        <4> HIDE DEF S, map
        <4>3. QED
          BY <1>1, <4>2 DEF With
      <3> HIDE DEF S, map
      <3>3. \E T \in SUBSET (DOMAIN map \ {key}) :
               /\ Cardinality(T) < LrsSize
               /\ map' = [x \in T \cup {key} |-> IF x = key THEN info ELSE map[x]]
               /\ asked' = <<>> /\ InfoOf(answer)' = InfoOf(BlankRoute)
        BY <2>1, <3>2
      <3>4. Abstract!Learn(key, info)
        BY <3>3 DEF Abstract!Learn, Abstract!Cardinality, Cardinality, map
      <3>5. info \in [seqnum : Seqnums, next_hop : NextHops,
                      metric : {(m + LinkCost) % ByteMod : m \in Metrics}]
        BY <3>1
      <3>6. QED
        BY <2>2, <3>4, <3>5 DEF Abstract!Next
    <2>5. QED
      BY <1>0, <2>1, <2>3, <2>4, LearnInOrder
  <1>4. ASSUME NEW addr \in Addrs, NEW mt \in MetricTypes, GetNextHop(addr, mt)
        PROVE  Abstract!Next
    <2> PICK key : key = <<addr, mt>>
      OBVIOUS
    <2> DEFINE f == Found(routing_table, now, addr, mt)
               S == KnownIn(routing_table')
    <2>1. /\ routing_table' = AfterGet(routing_table, now, addr, mt)
          /\ asked' = key
          /\ answer' = IF f = 0 THEN BlankRoute ELSE routing_table'[f].route
      BY <1>4 DEF GetNextHop
    <2>2. key \in Keys /\ key[1] = addr /\ key[2] = mt
      BY DEF Keys
    <2>3. AllInOrder(routing_table, routing_table', now)
      BY <1>0, <2>1, GetInOrder
    <2>4. S \in SUBSET DOMAIN map /\ map' = [k \in S |-> map[k]]
      BY <1>0, <1>1, <2>3, AgedRestricts DEF AllInOrder
    <2>5. InfoOf(answer)' = IF key \in S THEN map[key] ELSE InfoOf(BlankRoute)
      <3>1. CASE f = 0
        <4>1. \A i \in Slots : ~Matches(routing_table'[i], addr, mt)
          BY <1>0, <2>1, <3>1, GetFinds
        <4>2. key \notin S
          BY <2>2, <4>1 DEF KnownIn
        <4>3. QED
          BY <2>1, <3>1, <4>2
      <3>2. CASE f # 0
        <4>1. f \in Slots /\ Matches(routing_table'[f], addr, mt)
          BY <1>0, <2>1, <3>2, GetFinds
        <4>2. key \in S /\ map'[key] = InfoOf(routing_table'[f].route)
          BY <1>0, <1>1, <2>2, <4>1, MapValue
        <4>3. map'[key] = map[key]
          BY <2>4, <4>2
        <4>4. QED
          BY <2>1, <3>2, <4>2, <4>3
      <3>3. QED
        BY <3>1, <3>2
    <2> HIDE DEF S, map, f
    <2>6. \E T \in SUBSET DOMAIN map :
             /\ map' = [k \in T |-> map[k]] /\ asked' = key
             /\ InfoOf(answer)' = IF key \in T THEN map[key] ELSE InfoOf(BlankRoute)
      BY <2>1, <2>4, <2>5
    <2>7. Abstract!Lookup(key)
      BY <2>6 DEF Abstract!Lookup, Abstract!Keep, map
    <2>8. QED
      BY <2>2, <2>7 DEF Abstract!Next
  <1>5. ASSUME NEW addr \in Addrs, NEW mt \in MetricTypes, DeleteEntry(addr, mt)
        PROVE  Abstract!Next
    <2>1. /\ routing_table' = aodvv2_lrs_delete_entry(routing_table, now, addr, mt)
          /\ asked' = <<>> /\ answer' = BlankRoute
      BY <1>5 DEF DeleteEntry
    <2>2. \A i \in Slots :
             \/ InOrder(routing_table[i].route, routing_table'[i].route, now)
             \/ routing_table'[i].route = BlankRoute
      BY <1>0, <2>1, DeleteInOrder
    <2>3. QED
      BY <1>2, <2>1, <2>2
  <1>6. CASE Tick
    <2>1. routing_table' = routing_table /\ asked' = <<>> /\ answer' = BlankRoute
      BY <1>6 DEF Tick
    <2>2. map' = [k \in KnownIn(routing_table) |-> map[k]]
      BY <1>1, <2>1 DEF MapOf
    <2> HIDE DEF map
    <2>3. \E T \in SUBSET DOMAIN map :
             map' = [k \in T |-> map[k]] /\ asked' = <<>> /\ InfoOf(answer)' = InfoOf(BlankRoute)
      BY <1>1, <2>1, <2>2
    <2>4. Abstract!Forget
      BY <2>3 DEF Abstract!Forget, Abstract!Keep, map
    <2>5. QED
      BY <2>4 DEF Abstract!Next
  <1>7. CASE UNCHANGED vars
    BY <1>7 DEF vars, Abstract!vars, KnownKeys, RouteTo
  <1>8. QED
    BY <1>3, <1>4, <1>5, <1>6, <1>7 DEF Next

(***************************************************************************)
(* The array of slots with its flags, its lazy ageing and its lookups that *)
(* write behaves as a bounded map from destinations to routes, for any     *)
(* table size, any intervals and any messages.                             *)
(***************************************************************************)
THEOREM LrsImplementsRouteMap == Spec => ImplementsRouteMap
  BY RefinesInit, RefinesStep, DueInvariance, PTL DEF Spec, ImplementsRouteMap, Abstract!Spec
=============================================================================
