---------------------------- MODULE ThreadProofs ----------------------------
(***************************************************************************)
(* Proofs about the two components that several threads use without a      *)
(* lock: the node's own sequence number, for any number of threads, any    *)
(* priorities and any range of numbers, and the packet buffer, for any     *)
(* number of slots, packets and destinations.                              *)
(*                                                                         *)
(* The sequence number exceeds its range by at most the resets that are    *)
(* still due (Pending), and each thread owes at most one.                  *)
(*                                                                         *)
(* The buffer: a slot with a destination is in use and holds a packet      *)
(* (Whole), except the one that _pkt_del is taking apart, so a dispatch    *)
(* that compares destinations only hands over packets the buffer owns; a   *)
(* packet a client has not sent yet is nowhere (Unseen), so that sending   *)
(* it cannot forget a reference.  The packets a dispatch still has to hand *)
(* over are at or behind its index (ToCome), since additions only go to    *)
(* free slots.                                                             *)
(***************************************************************************)
EXTENDS Seqnum, Buffer, WellFoundedInduction, TLAPS, FiniteSetTheorems

\* A value converted to aodvv2_seqnum_t fits it.
LEMMA ToSeqnumRange ==
    ASSUME NEW n \in Nat
    PROVE  ToSeqnum(n) \in 0 .. SeqMax
  BY SeqnumAssumption DEF ToSeqnum

\* The threads owing a reset are finitely many, so they can be counted.
LEMMA PendingFinite ==
    /\ IsFiniteSet(Pending)
    /\ Cardinality(Pending) \in Nat
  BY SeqnumAssumption, FS_Subset, FS_CardinalityType DEF Pending

(***************************************************************************)
(* Type correctness of the counter and of every thread's position, for     *)
(* aodvv2_seqnum_get and aodvv2_seqnum_inc called by any set of threads.   *)
(***************************************************************************)
THEOREM CounterTypeCorrect == SeqnumSpec => []SeqnumTypeOK
  <1>1. aodvv2_seqnum_init => SeqnumTypeOK
    BY SeqnumAssumption DEF aodvv2_seqnum_init, SeqnumTypeOK, Pcs
  <1>2. SeqnumTypeOK /\ [SeqnumNext]_seqnum_vars => SeqnumTypeOK'
    <2> SUFFICES ASSUME SeqnumTypeOK, [SeqnumNext]_seqnum_vars
                 PROVE  SeqnumTypeOK'
      OBVIOUS
    <2>1. ASSUME NEW t \in Threads, aodvv2_seqnum_get(t)
          PROVE  SeqnumTypeOK'
      BY <2>1, ToSeqnumRange DEF SeqnumTypeOK, aodvv2_seqnum_get, Pcs
    <2>2. ASSUME NEW t \in Threads, FetchAdd(t)
          PROVE  SeqnumTypeOK'
      BY <2>2 DEF SeqnumTypeOK, FetchAdd, Pcs
    <2>3. ASSUME NEW t \in Threads, Store(t)
          PROVE  SeqnumTypeOK'
      BY <2>3 DEF SeqnumTypeOK, Store, Pcs
    <2>4. CASE UNCHANGED seqnum_vars
      BY <2>4 DEF SeqnumTypeOK, seqnum_vars
    <2>5. QED
      BY <2>1, <2>2, <2>3, <2>4 DEF SeqnumNext, aodvv2_seqnum_inc
  <1>3. QED
    BY <1>1, <1>2, PTL DEF SeqnumSpec

\* One step keeps the counter within the range extended by the pending resets.
LEMMA CounterBoundStep == SeqnumTypeOK /\ CounterBound /\ [SeqnumNext]_seqnum_vars => CounterBound'
  <1> SUFFICES ASSUME SeqnumTypeOK, CounterBound, [SeqnumNext]_seqnum_vars
               PROVE  CounterBound'
    OBVIOUS
  <1>0. SeqMax \in Nat \ {0} /\ Cardinality(Pending) \in Nat
    BY SeqnumAssumption, PendingFinite
  <1>1. ASSUME NEW t \in Threads, aodvv2_seqnum_get(t)
        PROVE  CounterBound'
    <2>1. Pending' = Pending
      BY <1>1 DEF SeqnumTypeOK, Pending, aodvv2_seqnum_get
    <2>2. QED
      BY <1>1, <2>1 DEF CounterBound, aodvv2_seqnum_get
  <1>2. ASSUME NEW t \in Threads, FetchAdd(t)
        PROVE  CounterBound'
    <2>1. CASE seqnum >= SeqMax
      <3>1. Pending' = Pending \cup {t} /\ t \notin Pending
        BY <1>2, <2>1 DEF SeqnumTypeOK, Pending, FetchAdd
      <3>2. Cardinality(Pending') = Cardinality(Pending) + 1
        BY <3>1, PendingFinite, FS_AddElement
      <3>3. QED
        BY <1>0, <1>2, <3>2 DEF CounterBound, FetchAdd
    <2>2. CASE ~(seqnum >= SeqMax)
      <3>1. Pending' = Pending
        BY <1>2, <2>2 DEF SeqnumTypeOK, Pending, FetchAdd
      <3>2. QED
        BY <1>0, <1>2, <2>2, <3>1 DEF CounterBound, FetchAdd
    <2>3. QED
      BY <2>1, <2>2
  <1>3. ASSUME NEW t \in Threads, Store(t)
        PROVE  CounterBound'
    <2>1. Pending' \subseteq Pending
      BY <1>3 DEF SeqnumTypeOK, Pending, Store
    <2>2. Cardinality(Pending') \in Nat
      BY <2>1, PendingFinite, FS_Subset, FS_CardinalityType
    <2>3. QED
      BY <1>0, <1>3, <2>2 DEF CounterBound, Store
  <1>4. CASE UNCHANGED seqnum_vars
    BY <1>4 DEF CounterBound, Pending, seqnum_vars
  <1>5. QED
    BY <1>1, <1>2, <1>3, <1>4 DEF SeqnumNext, aodvv2_seqnum_inc

(***************************************************************************)
(* However the threads preempt each other inside aodvv2_seqnum_inc, the    *)
(* counter stays at least 1 and above 65535 by at most the number of       *)
(* threads preempted before their reset.                                   *)
(***************************************************************************)
THEOREM CounterBounded == SeqnumSpec => []CounterBound
  <1>1. aodvv2_seqnum_init => CounterBound
    <2> SUFFICES ASSUME aodvv2_seqnum_init PROVE CounterBound
      OBVIOUS
    <2>1. SeqMax \in Nat \ {0} /\ Cardinality(Pending) \in Nat
      BY SeqnumAssumption, PendingFinite
    <2>2. QED
      BY <2>1 DEF aodvv2_seqnum_init, CounterBound
  <1>2. QED
    BY <1>1, CounterBoundStep, CounterTypeCorrect, PTL DEF SeqnumSpec

(***************************************************************************)
(* aodvv2_seqnum_get returns 0 only while a thread is preempted between    *)
(* its fetch-and-add and its reset: with no such thread the counter is a   *)
(* valid 16-bit sequence number.                                           *)
(***************************************************************************)
THEOREM ZeroNeedsPendingReset == SeqnumSpec => ZeroOnlyDuringReset
  <1> DEFINE Ok == \A t \in Threads :
                      (got'[t] # got[t] /\ got'[t] = 0) => Pending # {}
  <1>1. SeqnumTypeOK /\ CounterBound /\ [SeqnumNext]_seqnum_vars => [Ok]_seqnum_vars
    <2> SUFFICES ASSUME SeqnumTypeOK, CounterBound, SeqnumNext, Pending = {},
                        NEW u \in Threads, got'[u] # got[u], got'[u] = 0
                 PROVE  FALSE
      BY DEF seqnum_vars
    <2>1. SeqMax \in Nat \ {0}
      BY SeqnumAssumption
    <2>2. Cardinality(Pending) = 0
      BY FS_EmptySet
    <2>3. seqnum \in 1 .. SeqMax
      BY <2>1, <2>2 DEF CounterBound
    <2>4. PICK t \in Threads : aodvv2_seqnum_get(t)
      BY DEF SeqnumNext, aodvv2_seqnum_inc, FetchAdd, Store
    <2>5. got'[u] = ToSeqnum(seqnum)
      BY <2>4 DEF SeqnumTypeOK, aodvv2_seqnum_get
    <2>6. ToSeqnum(seqnum) = seqnum
      BY <2>1, <2>3 DEF ToSeqnum
    <2>7. QED
      BY <2>3, <2>5, <2>6
  <1>2. QED
    BY <1>1, CounterTypeCorrect, CounterBounded, PTL DEF SeqnumSpec, ZeroOnlyDuringReset

-----------------------------------------------------------------------------
\* The first index of a non-empty set of indices is one of them, and no other one
\* comes before it: the numbers are well-ordered.
LEMMA FirstIsLeast ==
    ASSUME NEW S \in SUBSET Nat, S # {}
    PROVE  First(S) \in S /\ \A j \in S : First(S) <= j
  <1>1. PICK i \in S : \A j \in S : ~(<<j, i>> \in OpToRel(<, Nat))
    BY NatLessThanWellFounded, WFMin
  <1>2. ASSUME NEW j \in S PROVE i <= j
    <2>1. i \in Nat /\ j \in Nat /\ ~(<<j, i>> \in OpToRel(<, Nat))
      BY <1>1
    <2>2. QED
      BY <2>1 DEF OpToRel
  <1>3. QED
    BY <1>2 DEF First

\* The walk of an array returns 0 exactly when no slot satisfies the condition, and
\* the first one that does otherwise.
LEMMA WalkResult ==
    ASSUME NEW n \in Nat, NEW S \in SUBSET (1 .. n)
    PROVE  /\ FirstOrNone(S) \in 0 .. n
           /\ (FirstOrNone(S) = 0) <=> (S = {})
           /\ S # {} => FirstOrNone(S) \in S
           /\ \A j \in S : FirstOrNone(S) <= j
  <1>1. ASSUME S # {} PROVE First(S) \in S /\ First(S) \in 1 .. n /\ \A j \in S : First(S) <= j
    <2>1. First(S) \in S /\ \A j \in S : First(S) <= j
      BY <1>1, FirstIsLeast
    <2>2. QED
      BY <2>1
  <1>2. FirstOrNone(S) = IF S = {} THEN 0 ELSE First(S)
    BY DEF FirstOrNone
  <1>3. CASE S = {}
    BY <1>2, <1>3
  <1>4. CASE S # {}
    BY <1>1, <1>2, <1>4
  <1>5. QED
    BY <1>3, <1>4

-----------------------------------------------------------------------------

InDel == disp.pc \in {"del", "del_pkt", "del_dst"}

\* Slot j was not reached by the dispatch yet.
Ahead(j) == j > disp.i \/ (disp.pc = "scan" /\ j = disp.i)

Placed ==
    /\ InDel => disp.i \in BufSlots
    /\ disp.pc = "del" => slots[disp.i].used
    /\ disp.pc # "idle" => disp.targ \in Dsts

Whole ==
    \A j \in BufSlots : slots[j].dst # NoDst =>
        \/ slots[j].used /\ slots[j].pkt \in Pkts
        \/ disp.pc \in {"del_pkt", "del_dst"} /\ disp.i = j

Unseen == \A p \in unsent : p \notin ip6 /\ \A j \in BufSlots : slots[j].pkt # p

ToCome ==
    /\ disp.pc = "idle" => disp.before = {}
    /\ \A p \in disp.before :
          \E j \in BufSlots : /\ slots[j].used /\ slots[j].pkt = p
                              /\ slots[j].dst = disp.targ /\ Ahead(j)

IInv == TypeOK /\ Placed /\ Whole /\ Unseen /\ ToCome /\ NoUseAfterFree

-----------------------------------------------------------------------------
\* The slots that own a packet can be counted, and removing or adding one
\* changes the count by one at most.
LEMMA Counting ==
    ASSUME NEW S \in SUBSET BufSlots, NEW T \in SUBSET BufSlots, NEW i
    PROVE  /\ Cardinality(S) \in Nat
           /\ T \subseteq S => Cardinality(T) <= Cardinality(S)
           /\ T \subseteq S \cup {i} => Cardinality(T) <= Cardinality(S) + 1
           /\ (T \subseteq S \ {i} /\ i \in S) => Cardinality(T) + 1 <= Cardinality(S)
           /\ S = {} => Cardinality(S) = 0
           /\ i \in S => Cardinality(S) >= 1
  <1>1. IsFiniteSet(BufSlots)
    BY BufferAssumption, FS_Interval DEF BufSlots
  <1>2. IsFiniteSet(S) /\ IsFiniteSet(T)
    BY <1>1, FS_Subset
  <1>3. Cardinality(S) \in Nat /\ Cardinality(T) \in Nat
    BY <1>2, FS_CardinalityType
  <1>4. IsFiniteSet(S \cup {i}) /\ Cardinality(S \cup {i}) <= Cardinality(S) + 1
    <2> DEFINE m == Cardinality(S \cup {i})
    <2>1. IsFiniteSet(S \cup {i}) /\ (m = Cardinality(S) \/ m = Cardinality(S) + 1)
      BY <1>2, FS_AddElement, Zenon
    <2> HIDE DEF m
    <2>2. m <= Cardinality(S) + 1
      BY <1>3, <2>1
    <2>3. QED
      BY <2>1, <2>2 DEF m
  <1>5. IsFiniteSet(S \ {i}) /\ (i \in S => Cardinality(S \ {i}) = Cardinality(S) - 1)
    BY <1>2, FS_RemoveElement
  <1>6. T \subseteq S => Cardinality(T) <= Cardinality(S)
    BY <1>2, FS_Subset
  <1>7. T \subseteq S \cup {i} => Cardinality(T) <= Cardinality(S) + 1
    <2>1. T \subseteq S \cup {i} => Cardinality(T) <= Cardinality(S \cup {i})
      BY <1>4, FS_Subset
    <2>2. Cardinality(S \cup {i}) \in Nat
      BY <1>4, FS_CardinalityType
    <2>3. QED
      BY <1>3, <1>4, <2>1, <2>2
  <1>8. (T \subseteq S \ {i} /\ i \in S) => Cardinality(T) + 1 <= Cardinality(S)
    <2>1. T \subseteq S \ {i} => Cardinality(T) <= Cardinality(S \ {i})
      BY <1>5, FS_Subset
    <2>2. QED
      BY <1>3, <1>5, <2>1
  <1>9. S = {} => Cardinality(S) = 0
    BY FS_EmptySet
  <1>10. i \in S => Cardinality(S) >= 1
    <2>1. i \in S => Cardinality(S) # 0
      BY <1>2, FS_EmptySet
    <2>2. QED
      BY <1>3, <2>1
  <1>11. QED
    BY <1>3, <1>6, <1>7, <1>8, <1>9, <1>10

\* The reference counts cover what owns the packets.
Refs(p) == refs[p] >= Cardinality(Owned(p)) + (IF p \in ip6 THEN 1 ELSE 0)

LEMMA RefsType ==
    ASSUME TypeOK, NEW p \in Pkts
    PROVE  Owned(p) \in SUBSET BufSlots /\ refs[p] \in Nat
  BY DEF Owned, TypeOK

\* What the IPv6 thread does with a packet of which it holds a reference: it
\* disturbs neither what a dispatch relies on nor the counts.
LEMMA OutputKeeps ==
    ASSUME IInv, NEW p \in Pkts, NEW before \in Nat,
           before >= Cardinality(Owned(p)) + 1,
           Output(p, before), disp' = disp, handed' = handed
    PROVE  /\ slots' \in [BufSlots -> [used : BOOLEAN, pkt : Pkts \cup {NoPkt},
                                       dst : Dsts \cup {NoDst}]]
           /\ refs' \in [Pkts -> Nat] /\ kept' \subseteq Pkts
           /\ Placed' /\ Whole' /\ ToCome'
           /\ \A j \in BufSlots : slots'[j].pkt \in {slots[j].pkt, p}
           /\ refs'[p] >= Cardinality(Owned(p)')
           /\ \A q \in Pkts \ {p} : refs'[q] = refs[q] /\ Owned(q)' \subseteq Owned(q)
  <1> DEFINE i    == FirstOrNone({j \in BufSlots : ~slots[j].used})
             full == [used |-> TRUE, pkt |-> p, dst |-> DstOf[p]]
  <1>1. TypeOK /\ Owned(p) \in SUBSET BufSlots /\ Cardinality(Owned(p)) \in Nat
    BY RefsType, Counting DEF IInv
  <1>2. /\ refs' = [refs EXCEPT ![p] = before - 1] /\ kept' = kept
        /\ slots' = slots
        \/ /\ refs' = [refs EXCEPT ![p] = before] /\ kept' = kept \cup {p}
           /\ i # 0 /\ slots' = [slots EXCEPT ![i] = full]
    <2>1. before + 1 - 1 = before
      OBVIOUS
    <2>2. QED
      BY <2>1 DEF Output, PktAdd
  <1>3. CASE slots' = slots /\ refs' = [refs EXCEPT ![p] = before - 1] /\ kept' = kept
    <2>1. \A q : Owned(q)' = Owned(q)
      BY <1>3 DEF Owned
    <2>2. Placed' /\ Whole' /\ ToCome'
      BY <1>3 DEF IInv, Placed, InDel, Whole, ToCome, Ahead
    <2>3. QED
      BY <1>1, <1>3, <2>1, <2>2 DEF TypeOK
  <1>4. CASE /\ refs' = [refs EXCEPT ![p] = before] /\ kept' = kept \cup {p}
             /\ i # 0 /\ slots' = [slots EXCEPT ![i] = full]
    <2>1. i \in BufSlots /\ ~slots[i].used
      <3>1. {j \in BufSlots : ~slots[j].used} \in SUBSET (1 .. BufSize)
        BY DEF BufSlots
      <3>2. i \in {j \in BufSlots : ~slots[j].used}
        BY <1>4, <3>1, WalkResult, BufferAssumption
      <3>3. QED
        BY <3>2
    <2> HIDE DEF i
    <2>2. full \in [used : BOOLEAN, pkt : Pkts \cup {NoPkt}, dst : Dsts \cup {NoDst}]
      BY BufferAssumption
    <2>3. /\ slots'[i] = full
          /\ \A j \in BufSlots \ {i} : slots'[j] = slots[j]
          /\ slots' \in [BufSlots -> [used : BOOLEAN, pkt : Pkts \cup {NoPkt}, dst : Dsts \cup {NoDst}]]
      BY <1>1, <1>4, <2>1, <2>2 DEF TypeOK
    <2>4. \A j \in BufSlots : slots[j].used => slots'[j] = slots[j]
      BY <2>1, <2>3
    <2>5. Owned(p)' \subseteq Owned(p) \cup {i}
      BY <2>3 DEF Owned
    <2>6. \A q \in Pkts \ {p} : Owned(q)' \subseteq Owned(q)
      BY <2>3 DEF Owned
    <2>7. Cardinality(Owned(p)') <= Cardinality(Owned(p)) + 1
      <3>1. Owned(p)' \in SUBSET BufSlots
        BY DEF Owned
      <3>2. QED
        BY <1>1, <2>5, <3>1, Counting
    <2>8. refs' \in [Pkts -> Nat] /\ refs'[p] = before /\ \A q \in Pkts \ {p} : refs'[q] = refs[q]
      BY <1>1, <1>4 DEF TypeOK
    <2>9. Placed'
      BY <2>4 DEF IInv, Placed, InDel
    <2>10. Whole'
      BY <2>3, BufferAssumption DEF IInv, Whole
    <2>11. ToCome'
      BY <2>4 DEF IInv, ToCome, Ahead
    <2>12. refs'[p] >= Cardinality(Owned(p)')
      <3>1. Cardinality(Owned(p)') \in Nat
        <4>1. Owned(p)' \in SUBSET BufSlots
          BY DEF Owned
        <4>2. QED
          BY <4>1, Counting
      <3>2. QED
        BY <1>1, <2>7, <2>8, <3>1
    <2>13. QED
      BY <1>1, <1>4, <2>3, <2>6, <2>8, <2>9, <2>10, <2>11, <2>12 DEF TypeOK
  <1>5. QED
    BY <1>2, <1>3, <1>4

\* After such a step the counts cover everything, if ip6 changed for p only.
LEMMA RefsAfterOutput ==
    ASSUME IInv, NEW p \in Pkts, p \notin ip6', \A q \in Pkts \ {p} : q \in ip6' => q \in ip6,
           refs'[p] >= Cardinality(Owned(p)'),
           \A q \in Pkts \ {p} : refs'[q] = refs[q] /\ Owned(q)' \subseteq Owned(q)
    PROVE  \A q \in Pkts : Refs(q)'
  <1> SUFFICES ASSUME NEW q \in Pkts PROVE Refs(q)'
    OBVIOUS
  <1>1. /\ Owned(q)' \in SUBSET BufSlots /\ Cardinality(Owned(q)') \in Nat
        /\ Owned(q) \in SUBSET BufSlots /\ Cardinality(Owned(q)) \in Nat /\ refs[q] \in Nat
    <2>1. Owned(q)' \in SUBSET BufSlots
      BY DEF Owned
    <2>2. Owned(q) \in SUBSET BufSlots /\ refs[q] \in Nat
      BY RefsType DEF IInv
    <2>3. QED
      BY <2>1, <2>2, Counting
  <1>2. CASE q = p
    BY <1>1, <1>2 DEF Refs
  <1>3. CASE q # p
    <2>1. Cardinality(Owned(q)') <= Cardinality(Owned(q))
      BY <1>1, <1>3, Counting
    <2>2. Refs(q)
      BY DEF IInv, NoUseAfterFree, Refs
    <2>3. QED
      BY <1>1, <1>3, <2>1, <2>2 DEF Refs
  <1>4. QED
    BY <1>2, <1>3

-----------------------------------------------------------------------------
\* A step that gives no slot, packet or reference to anyone keeps the counts.
LEMMA RefsKept ==
    ASSUME IInv, refs' = refs, ip6' = ip6, \A q \in Pkts : Owned(q)' \subseteq Owned(q)
    PROVE  \A q \in Pkts : Refs(q)'
  <1> SUFFICES ASSUME NEW q \in Pkts PROVE Refs(q)'
    OBVIOUS
  <1>1. Owned(q)' \in SUBSET BufSlots
    BY DEF Owned
  <1>2. Owned(q) \in SUBSET BufSlots /\ refs[q] \in Nat
    BY RefsType DEF IInv
  <1>3. /\ Cardinality(Owned(q)') \in Nat /\ Cardinality(Owned(q)) \in Nat
        /\ Cardinality(Owned(q)') <= Cardinality(Owned(q))
    BY <1>1, <1>2, Counting
  <1>4. QED
    BY <1>2, <1>3 DEF IInv, NoUseAfterFree, Refs

-----------------------------------------------------------------------------
\* Every step of the two threads preserves the invariant.
LEMMA IInvStep == IInv /\ [Next]_vars => IInv'
  <1> SUFFICES ASSUME IInv, [Next]_vars PROVE IInv'
    OBVIOUS
  <1>0. TypeOK /\ Placed /\ Whole /\ Unseen /\ ToCome /\ \A q \in Pkts : Refs(q)
    BY DEF IInv, NoUseAfterFree, Refs
  <1>00. ASSUME \A q \in Pkts : Refs(q)', disp'.pc = "del" => handed' # NoPkt
         PROVE  NoUseAfterFree'
    BY <1>00 DEF NoUseAfterFree, Refs
  <1>01. disp.pc = "del" => handed # NoPkt
    BY DEF IInv, NoUseAfterFree
  <1>1. ASSUME NEW p \in Pkts, ClientSends(p) PROVE IInv'
    <2>1. /\ p \in unsent /\ unsent' = unsent \ {p} /\ Output(p, 1)
          /\ ip6' = ip6 /\ route' = route /\ disp' = disp /\ handed' = handed
      BY <1>1 DEF ClientSends
    <2>2. p \notin ip6 /\ Owned(p) = {}
      BY <1>0, <2>1 DEF Unseen, Owned
    <2>3. 1 >= Cardinality(Owned(p)) + 1
      BY <2>2, Counting
    <2>4. /\ slots' \in [BufSlots -> [used : BOOLEAN, pkt : Pkts \cup {NoPkt}, dst : Dsts \cup {NoDst}]]
          /\ refs' \in [Pkts -> Nat] /\ kept' \subseteq Pkts
          /\ Placed' /\ Whole' /\ ToCome'
          /\ \A j \in BufSlots : slots'[j].pkt \in {slots[j].pkt, p}
          /\ refs'[p] >= Cardinality(Owned(p)')
          /\ \A q \in Pkts \ {p} : refs'[q] = refs[q] /\ Owned(q)' \subseteq Owned(q)
      BY <2>1, <2>3, OutputKeeps
    <2>5. \A q \in Pkts : Refs(q)'
      BY <2>1, <2>2, <2>4, RefsAfterOutput
    <2>6. TypeOK'
      BY <1>0, <2>1, <2>4 DEF TypeOK
    <2>7. Unseen'
      BY <1>0, <2>1, <2>4 DEF Unseen
    <2>8. QED
      BY <1>00, <1>01, <2>1, <2>4, <2>5, <2>6, <2>7 DEF IInv
  <1>2. ASSUME NEW p \in Pkts, Resend(p) PROVE IInv'
    <2>1. /\ p \in ip6 /\ ip6' = ip6 \ {p} /\ Output(p, refs[p])
          /\ unsent' = unsent /\ route' = route /\ disp' = disp /\ handed' = handed
      BY <1>2 DEF Resend
    <2>2. refs[p] \in Nat /\ refs[p] >= Cardinality(Owned(p)) + 1
      BY <1>0, <2>1, RefsType DEF Refs
    <2>3. /\ slots' \in [BufSlots -> [used : BOOLEAN, pkt : Pkts \cup {NoPkt}, dst : Dsts \cup {NoDst}]]
          /\ refs' \in [Pkts -> Nat] /\ kept' \subseteq Pkts
          /\ Placed' /\ Whole' /\ ToCome'
          /\ \A j \in BufSlots : slots'[j].pkt \in {slots[j].pkt, p}
          /\ refs'[p] >= Cardinality(Owned(p)')
          /\ \A q \in Pkts \ {p} : refs'[q] = refs[q] /\ Owned(q)' \subseteq Owned(q)
      BY <2>1, <2>2, OutputKeeps
    <2>4. \A q \in Pkts : Refs(q)'
      BY <2>1, <2>3, RefsAfterOutput
    <2>5. TypeOK'
      BY <1>0, <2>1, <2>3 DEF TypeOK
    <2>6. Unseen'
      BY <1>0, <2>1, <2>3 DEF Unseen
    <2>7. QED
      BY <1>00, <1>01, <2>1, <2>3, <2>4, <2>5, <2>6 DEF IInv
  <1>3. ASSUME NEW d \in Dsts, RouteExpires(d) PROVE IInv'
    <2>1. UNCHANGED <<slots, refs, unsent, ip6, disp, handed, kept>> /\ route' \subseteq Dsts
      BY <1>0, <1>3 DEF RouteExpires, TypeOK
    <2>2. QED
      BY <2>1 DEF IInv, TypeOK, Placed, InDel, Whole, Unseen, ToCome, Ahead, NoUseAfterFree, Owned
  <1>4. ASSUME NEW d \in Dsts, Dispatch(d) PROVE IInv'
    <2>1. /\ disp.pc = "idle" /\ route' = route \cup {d}
          /\ disp' = [pc |-> "scan", i |-> 1, targ |-> d, before |-> InSlots(d)]
          /\ UNCHANGED <<slots, refs, unsent, ip6, handed, kept>>
      BY <1>4 DEF Dispatch
    <2>2. \A q : Owned(q)' = Owned(q)
      BY <2>1 DEF Owned
    <2>3. TypeOK'
      <3>1. InSlots(d) \in SUBSET (Pkts \cup {NoPkt}) /\ 1 \in 1 .. BufSize + 1
        BY <1>0, BufferAssumption DEF InSlots, TypeOK
      <3>2. QED
        BY <1>0, <2>1, <3>1 DEF TypeOK
    <2>4. Placed' /\ Whole' /\ Unseen'
      BY <1>0, <2>1 DEF Placed, InDel, Whole, Unseen
    <2>5. ToCome'
      BY <2>1 DEF ToCome, InSlots, Ahead, BufSlots
    <2>6. \A q \in Pkts : Refs(q)'
      BY <2>1, <2>2, RefsKept
    <2>7. QED
      BY <1>00, <2>1, <2>3, <2>4, <2>5, <2>6 DEF IInv
  <1>5. CASE SkipSlot
    <2>1. /\ disp.pc = "scan" /\ disp.i <= BufSize /\ slots[disp.i].dst # disp.targ
          /\ disp' = [disp EXCEPT !.pc = "scan", !.i = disp.i + 1]
          /\ UNCHANGED <<slots, refs, unsent, ip6, route, handed, kept>>
      BY <1>5 DEF SkipSlot, AtSlot, NextSlot
    <2>2. disp.i \in 1 .. BufSize + 1 /\ disp.i + 1 \in 1 .. BufSize + 1
      BY <1>0, <2>1, BufferAssumption DEF TypeOK
    <2>3. TypeOK'
      BY <1>0, <2>1, <2>2 DEF TypeOK
    <2>4. disp'.pc = "scan" /\ disp'.i = disp.i + 1 /\ disp'.targ = disp.targ /\ disp'.before = disp.before
      BY <1>0, <2>1 DEF TypeOK
    <2>5. Placed' /\ Whole' /\ Unseen'
      BY <1>0, <2>1, <2>4 DEF Placed, InDel, Whole, Unseen
    <2>6. ToCome'
      BY <1>0, <2>1, <2>2, <2>4 DEF ToCome, Ahead, BufSlots
    <2>7. \A q \in Pkts : Owned(q)' \subseteq Owned(q)
      BY <2>1, <2>4 DEF Owned
    <2>8. QED
      BY <1>00, <2>1, <2>3, <2>4, <2>5, <2>6, <2>7, RefsKept DEF IInv
  <1>6. CASE HandOver
    <2> PICK i, p : i = disp.i /\ p = slots[i].pkt
      OBVIOUS
    <2>1. /\ disp.pc = "scan" /\ i <= BufSize /\ slots[i].dst = disp.targ
          /\ handed' = p /\ kept' = kept \ {p}
          /\ \/ ip6' = ip6 \cup ({p} \cap Pkts) /\ UNCHANGED refs
             \/ /\ refs' = IF p \in Pkts THEN [refs EXCEPT ![p] = @ - 1] ELSE refs
                /\ UNCHANGED ip6
          /\ disp' = [disp EXCEPT !.pc = "del", !.before = @ \ {handed'}]
          /\ UNCHANGED <<slots, unsent, route>>
      BY <1>6 DEF HandOver, AtSlot
    <2>2. i \in BufSlots /\ disp.targ \in Dsts /\ disp.targ # NoDst
      BY <1>0, <2>1, BufferAssumption DEF TypeOK, BufSlots, Placed
    <2>3. slots[i].used /\ p \in Pkts /\ p # NoPkt
      BY <1>0, <2>1, <2>2, BufferAssumption DEF Whole
    <2>4. /\ disp'.pc = "del" /\ disp'.i = i /\ disp'.targ = disp.targ
          /\ disp'.before = disp.before \ {p}
      BY <1>0, <2>1 DEF TypeOK
    <2>5. i \in Owned(p) /\ Owned(p)' \subseteq Owned(p) \ {i}
      BY <2>1, <2>2, <2>3, <2>4 DEF Owned
    <2>6. \A q \in Pkts : Owned(q)' \subseteq Owned(q)
      BY <2>1, <2>4 DEF Owned
    <2>7. /\ Cardinality(Owned(p)) \in Nat /\ Cardinality(Owned(p)') \in Nat /\ refs[p] \in Nat
          /\ Cardinality(Owned(p)') + 1 <= Cardinality(Owned(p)) /\ Cardinality(Owned(p)) >= 1
      <3>1. Owned(p) \in SUBSET BufSlots /\ Owned(p)' \in SUBSET BufSlots /\ refs[p] \in Nat
        BY <1>0, <2>3, RefsType DEF Owned
      <3>2. QED
        BY <2>5, <3>1, Counting
    <2>8. refs[p] >= Cardinality(Owned(p)) + (IF p \in ip6 THEN 1 ELSE 0)
      BY <1>0, <2>3 DEF Refs
    <2>9. /\ refs' \in [Pkts -> Nat] /\ Refs(p)'
          /\ \A q \in Pkts \ {p} : refs'[q] = refs[q] /\ (q \in ip6' <=> q \in ip6)
      <3>1. CASE ip6' = ip6 \cup ({p} \cap Pkts) /\ UNCHANGED refs
        <4>1. refs'[p] >= Cardinality(Owned(p)') + 1
          BY <2>7, <2>8, <3>1
        <4>2. QED
          BY <1>0, <2>3, <3>1, <4>1 DEF TypeOK, Refs
      <3>2. CASE refs' = (IF p \in Pkts THEN [refs EXCEPT ![p] = @ - 1] ELSE refs) /\ UNCHANGED ip6
        <4>1. refs' = [refs EXCEPT ![p] = refs[p] - 1] /\ refs[p] - 1 \in Nat
          BY <2>3, <2>7, <2>8, <3>2
        <4>2. refs'[p] = refs[p] - 1 /\ \A q \in Pkts \ {p} : refs'[q] = refs[q]
          BY <1>0, <2>3, <4>1 DEF TypeOK
        <4>3. Refs(p)'
          BY <2>7, <2>8, <3>2, <4>2 DEF Refs
        <4>4. QED
          BY <1>0, <3>2, <4>1, <4>2, <4>3 DEF TypeOK
      <3>3. QED
        BY <2>1, <3>1, <3>2
    <2>10. ASSUME NEW q \in Pkts \ {p} PROVE Refs(q)'
      <3>1. Owned(q) \in SUBSET BufSlots /\ refs[q] \in Nat
        BY <1>0, RefsType
      <3>2. Owned(q)' \in SUBSET BufSlots
        BY DEF Owned
      <3>3. /\ Cardinality(Owned(q)) \in Nat /\ Cardinality(Owned(q)') \in Nat
            /\ Cardinality(Owned(q)') <= Cardinality(Owned(q))
        BY <2>6, <3>1, <3>2, Counting
      <3>4. Refs(q) /\ refs'[q] = refs[q] /\ (q \in ip6' <=> q \in ip6)
        BY <1>0, <2>9
      <3>5. QED
        BY <3>1, <3>3, <3>4 DEF Refs
    <2>11. TypeOK'
      BY <1>0, <2>1, <2>2, <2>3, <2>9 DEF TypeOK
    <2>12. Placed' /\ Whole'
      BY <1>0, <2>1, <2>2, <2>3, <2>4 DEF Placed, InDel, Whole
    <2>13. Unseen'
      BY <1>0, <2>1, <2>2 DEF Unseen
    <2>14. ToCome'
      BY <1>0, <2>1, <2>2, <2>4 DEF ToCome, Ahead, BufSlots, TypeOK
    <2>15. QED
      BY <1>00, <2>1, <2>3, <2>9, <2>10, <2>11, <2>12, <2>13, <2>14 DEF IInv
  <1>7. CASE DelUsed
    <2> DEFINE i == disp.i
    <2>1. /\ disp.pc = "del" /\ i \in BufSlots /\ slots[i].used
          /\ slots' = [slots EXCEPT ![i].used = FALSE]
          /\ disp' = [disp EXCEPT !.pc = "del_pkt"]
          /\ UNCHANGED <<refs, unsent, ip6, route, handed, kept>>
      BY <1>0, <1>7 DEF DelUsed, Placed, InDel, Step
    <2>2. /\ disp'.pc = "del_pkt" /\ disp'.i = i /\ disp'.targ = disp.targ /\ disp'.before = disp.before
          /\ \A j \in BufSlots \ {i} : slots'[j] = slots[j]
          /\ slots'[i] = [slots[i] EXCEPT !.used = FALSE] /\ slots'[i].pkt = slots[i].pkt
          /\ slots'[i].used = FALSE
      BY <1>0, <2>1 DEF TypeOK
    <2>3. TypeOK'
      <3>1. slots'[i] \in [used : BOOLEAN, pkt : Pkts \cup {NoPkt}, dst : Dsts \cup {NoDst}]
        <4>1. slots[i] \in [used : BOOLEAN, pkt : Pkts \cup {NoPkt}, dst : Dsts \cup {NoDst}]
          BY <1>0, <2>1 DEF TypeOK
        <4>2. QED
          BY <2>2, <4>1
      <3>2. slots' \in [BufSlots -> [used : BOOLEAN, pkt : Pkts \cup {NoPkt}, dst : Dsts \cup {NoDst}]]
        BY <1>0, <2>1, <2>2, <3>1 DEF TypeOK
      <3>3. QED
        BY <1>0, <2>1, <3>2 DEF TypeOK
    <2>4. \A q \in Pkts : Owned(q)' \subseteq Owned(q)
      BY <2>1, <2>2 DEF Owned
    <2>5. Placed' /\ Whole'
      BY <1>0, <2>1, <2>2 DEF Placed, InDel, Whole
    <2>6. Unseen'
      BY <1>0, <2>1, <2>2 DEF Unseen
    <2>7. ToCome'
      BY <1>0, <2>1, <2>2 DEF ToCome, Ahead, BufSlots
    <2>8. QED
      BY <1>00, <2>1, <2>2, <2>3, <2>4, <2>5, <2>6, <2>7, RefsKept DEF IInv
  <1>8. CASE DelPkt
    <2> DEFINE i == disp.i
    <2>1. /\ disp.pc = "del_pkt" /\ i \in BufSlots
          /\ slots' = [slots EXCEPT ![i].pkt = NoPkt]
          /\ disp' = [disp EXCEPT !.pc = "del_dst"]
          /\ UNCHANGED <<refs, unsent, ip6, route, handed, kept>>
      BY <1>0, <1>8 DEF DelPkt, Placed, InDel, Step
    <2>2. /\ disp'.pc = "del_dst" /\ disp'.i = i /\ disp'.targ = disp.targ /\ disp'.before = disp.before
          /\ \A j \in BufSlots \ {i} : slots'[j] = slots[j]
          /\ slots'[i] = [slots[i] EXCEPT !.pkt = NoPkt] /\ slots'[i].pkt = NoPkt
      BY <1>0, <2>1 DEF TypeOK
    <2>3. TypeOK'
      BY <1>0, <2>1, <2>2 DEF TypeOK
    <2>4. \A q \in Pkts : Owned(q)' \subseteq Owned(q)
      BY <2>1, <2>2, BufferAssumption DEF Owned
    <2>5. Placed' /\ Whole'
      BY <1>0, <2>1, <2>2 DEF Placed, InDel, Whole
    <2>6. Unseen'
      BY <1>0, <2>1, <2>2, BufferAssumption DEF Unseen, TypeOK
    <2>7. ToCome'
      BY <1>0, <2>1, <2>2 DEF ToCome, Ahead, BufSlots
    <2>8. QED
      BY <1>00, <2>1, <2>2, <2>3, <2>4, <2>5, <2>6, <2>7, RefsKept DEF IInv
  <1>9. CASE DelDst
    <2> DEFINE i == disp.i
    <2>1. /\ disp.pc = "del_dst" /\ i \in BufSlots
          /\ slots' = [slots EXCEPT ![i].dst = NoDst]
          /\ disp' = [disp EXCEPT !.pc = "scan", !.i = disp.i + 1]
          /\ UNCHANGED <<refs, unsent, ip6, route, handed, kept>>
      BY <1>0, <1>9 DEF DelDst, Placed, InDel, NextSlot
    <2>2. /\ disp'.pc = "scan" /\ disp'.i = i + 1 /\ disp'.targ = disp.targ /\ disp'.before = disp.before
          /\ \A j \in BufSlots \ {i} : slots'[j] = slots[j]
          /\ slots'[i].dst = NoDst /\ slots'[i].pkt = slots[i].pkt /\ slots'[i].used = slots[i].used
          /\ i + 1 \in 1 .. BufSize + 1
      BY <1>0, <2>1, BufferAssumption DEF TypeOK, BufSlots
    <2>3. TypeOK'
      BY <1>0, <2>1, <2>2 DEF TypeOK
    <2>4. \A q \in Pkts : Owned(q)' \subseteq Owned(q)
      BY <2>1, <2>2 DEF Owned
    <2>5. Placed' /\ Whole'
      BY <1>0, <2>1, <2>2 DEF Placed, InDel, Whole
    <2>6. Unseen'
      BY <1>0, <2>1, <2>2 DEF Unseen
    <2>7. ToCome'
      BY <1>0, <2>1, <2>2 DEF ToCome, Ahead, BufSlots
    <2>8. QED
      BY <1>00, <2>1, <2>2, <2>3, <2>4, <2>5, <2>6, <2>7, RefsKept DEF IInv
  <1>10. CASE Return
    <2>1. /\ disp.pc = "scan" /\ disp' = NotDispatching
          /\ UNCHANGED <<slots, refs, unsent, ip6, route, handed, kept>>
      BY <1>10 DEF Return
    <2>2. TypeOK'
      BY <1>0, <2>1, BufferAssumption DEF TypeOK, NotDispatching
    <2>3. \A q \in Pkts : Owned(q)' \subseteq Owned(q)
      BY <2>1 DEF Owned, NotDispatching
    <2>4. Placed' /\ Whole' /\ Unseen' /\ ToCome'
      BY <1>0, <2>1 DEF Placed, InDel, Whole, Unseen, ToCome, NotDispatching
    <2>5. QED
      BY <1>00, <2>1, <2>2, <2>3, <2>4, RefsKept DEF IInv, NotDispatching
  <1>11. CASE UNCHANGED vars
    BY <1>11 DEF vars, IInv, TypeOK, Placed, InDel, Whole, Unseen, ToCome, Ahead, NoUseAfterFree, Owned
  <1>12. QED
    BY <1>1, <1>2, <1>3, <1>4, <1>5, <1>6, <1>7, <1>8, <1>9, <1>10, <1>11 DEF Next, DispatchStep

\* The empty buffer satisfies the invariant.
LEMMA IInvInit == Init => IInv
  <1> SUFFICES ASSUME Init PROVE IInv
    OBVIOUS
  <1>1. TypeOK
    BY BufferAssumption DEF Init, TypeOK, EmptySlot, NotDispatching
  <1>2. Placed /\ Whole /\ Unseen /\ ToCome
    BY BufferAssumption DEF Init, Placed, InDel, Whole, Unseen, ToCome, EmptySlot, NotDispatching
  <1>3. NoUseAfterFree
    <2>1. \A p \in Pkts : Owned(p) = {} /\ refs[p] = 0 /\ p \notin ip6
      BY DEF Init, Owned, EmptySlot
    <2>2. \A p \in Pkts : Cardinality(Owned(p)) = 0
      BY <2>1, FS_EmptySet
    <2>3. QED
      BY <2>1, <2>2 DEF Init, NoUseAfterFree, NotDispatching
  <1>4. QED
    BY <1>1, <1>2, <1>3 DEF IInv

\* The invariant holds in every reachable state.
LEMMA Invariance == Spec => []IInv
  BY IInvInit, IInvStep, PTL DEF Spec

-----------------------------------------------------------------------------
(***************************************************************************)
(* Type correctness of the buffer: in particular no reference count ever   *)
(* goes below zero.                                                        *)
(***************************************************************************)
THEOREM TypeCorrect == Spec => []TypeOK
  <1>1. IInv => TypeOK
    BY DEF IInv
  <1>2. QED
    BY <1>1, Invariance, PTL

(***************************************************************************)
(* aodvv2_buffer_pkt_add and aodvv2_buffer_dispatch, preempted anywhere:   *)
(* no packet is freed while the buffer or the IPv6 thread points to it,    *)
(* and NULL is never handed over, for buffers of any size.                 *)
(***************************************************************************)
THEOREM NoPacketIsFreedInUse == Spec => []NoUseAfterFree
  <1>1. IInv => NoUseAfterFree
    BY DEF IInv
  <1>2. QED
    BY <1>1, Invariance, PTL

(***************************************************************************)
(* aodvv2_buffer_dispatch returns only when every packet for the           *)
(* destination that was buffered at the call was handed over.              *)
(***************************************************************************)
THEOREM DispatchCompletes == Spec => DispatchIsComplete
  <1>1. IInv /\ [Next]_vars => [Return => disp.before = {}]_vars
    <2> SUFFICES ASSUME IInv, Return PROVE disp.before = {}
      OBVIOUS
    <2>1. disp.pc = "scan" /\ disp.i > BufSize /\ disp.i \in Nat
      BY DEF Return, IInv, TypeOK
    <2>2. \A j \in BufSlots : ~Ahead(j)
      BY <2>1, BufferAssumption DEF Ahead, BufSlots
    <2>3. QED
      BY <2>2 DEF IInv, ToCome
  <1>2. QED
    BY <1>1, Invariance, PTL DEF Spec, DispatchIsComplete
=============================================================================
