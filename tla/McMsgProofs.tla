---------------------------- MODULE McMsgProofs ----------------------------
(***************************************************************************)
(* Proofs about the Multicast Message Set for any number of entries, any   *)
(* lifetime and any keys, numbers and metrics.                             *)
(*                                                                         *)
(* The argument: ageing erases entries and changes nothing else, wherever  *)
(* a search ends (AgeingKeeps).  For a key of another node "comparable"    *)
(* and "compatible" are the same, so an entry is added only when there is  *)
(* none of its key, and the last loop of aodvv2_mcmsg_process, which looks *)
(* for a second compatible entry, finds none.                              *)
(***************************************************************************)
EXTENDS McMsg, WellFoundedInduction, TLAPS

\* The first index of a non-empty set of indices is one of them, and no other one
\* comes before it: the numbers are well-ordered.
LEMMA FirstIsLeast ==
    ASSUME NEW S \in SUBSET Nat, S # {}
    PROVE  First(S) \in S /\ \A j \in S : First(S) <= j
  <1>1. PICK i \in S : \A j \in S : ~(<<j, i>> \in OpToRel(<, Nat))
    BY NatLessThanWellFounded, WFMin
  <1>2. ASSUME NEW j \in S PROVE i <= j
    <2>1. i \in Nat /\ j \in Nat /\ ~(<<j, i>> \in OpToRel(<, Nat))
      BY <1>1
    <2>2. QED
      BY <2>1 DEF OpToRel
  <1>3. QED
    BY <1>2 DEF First

\* The walk of an array returns 0 exactly when no slot satisfies the condition, and
\* the first one that does otherwise.
LEMMA WalkResult ==
    ASSUME NEW n \in Nat, NEW S \in SUBSET (1 .. n)
    PROVE  /\ FirstOrNone(S) \in 0 .. n
           /\ (FirstOrNone(S) = 0) <=> (S = {})
           /\ S # {} => FirstOrNone(S) \in S
           /\ \A j \in S : FirstOrNone(S) <= j
  <1>1. ASSUME S # {} PROVE First(S) \in S /\ First(S) \in 1 .. n /\ \A j \in S : First(S) <= j
    <2>1. First(S) \in S /\ \A j \in S : First(S) <= j
      BY <1>1, FirstIsLeast
    <2>2. QED
      BY <2>1
  <1>2. FirstOrNone(S) = IF S = {} THEN 0 ELSE First(S)
    BY DEF FirstOrNone
  <1>3. CASE S = {}
    BY <1>2, <1>3
  <1>4. CASE S # {}
    BY <1>1, <1>2, <1>4
  <1>5. QED
    BY <1>3, <1>4

-----------------------------------------------------------------------------

Sets == [McSlots -> Entries]
Key(e) == <<e.orig, e.targ>>
Accepts == [Keys -> Messages \cup {NoMessage}]

\* What a message that is processed looks like: the SeqNoRtr of those for a key
\* of another node is unspecified.
Arriving(m) == m \in Messages /\ (KeyOf(m) \in Foreign => m.seqnortr = NoAddr)

\* The properties of the set, as operators of the set.
Filled(mc) == \A i \in McSlots : mc[i].used => mc[i].metric_type = MetricType

Once(mc) ==
    \A i, j \in McSlots :
        (i # j /\ mc[i].used /\ mc[j].used /\ Key(mc[i]) \in Foreign)
            => Key(mc[i]) # Key(mc[j])

Agrees(mc, acc) ==
    \A i \in McSlots : (mc[i].used /\ Key(mc[i]) \in Foreign) =>
        /\ acc[Key(mc[i])] # NoMessage
        /\ mc[i].seqnum = acc[Key(mc[i])].seqnum /\ mc[i].metric = acc[Key(mc[i])].metric

Good(mc, acc) == mc \in Sets /\ Filled(mc) /\ Once(mc) /\ Agrees(mc, acc)

IInv == TypeOK /\ Good(entries, accepted)

-----------------------------------------------------------------------------
\* The fields of a message.
LEMMA MessageFields ==
    ASSUME NEW m \in Messages
    PROVE  /\ m.orig \in Origs /\ m.targ \in Targs /\ m.metric_type = MetricType
           /\ m.seqnum \in Nat /\ m.metric \in Nat
           /\ KeyOf(m) \in Keys /\ m # NoMessage /\ m.orig # NoAddr
  <1>1. PICK o \in Origs, t \in Targs, s \in Seqnums, metric \in Metrics \cup {0},
             rtr \in OwnSeqNoRtrs \cup {NoAddr} : m = Message(o, t, s, metric, rtr)
    BY DEF Messages
  <1>2. /\ m.orig = o /\ m.targ = t /\ m.metric_type = MetricType /\ m.seqnum = s
        /\ m.metric = metric
    BY <1>1 DEF Message
  <1>3. s \in Nat /\ metric \in Nat /\ o # NoAddr
    BY McMsgInputs, SeqnumCmpAssumption
  <1>4. NoMessage.orig = NoAddr
    BY DEF NoMessage, Message
  <1>5. QED
    BY <1>2, <1>3, <1>4 DEF KeyOf, Keys

\* An erased entry is an entry.
LEMMA BlankType == BlankMc \in Entries /\ ~BlankMc.used
  BY DEF BlankMc, Entries

\* Ageing, however far it gets, keeps what the set promises.
LEMMA AgeingKeeps ==
    ASSUME NEW mc, NEW acc, Good(mc, acc), NEW qc, DOMAIN qc = McSlots,
           qc = [i \in McSlots |-> qc[i]], \A i \in McSlots : qc[i] \in {mc[i], BlankMc}
    PROVE  Good(qc, acc)
  <1>1. \A i \in McSlots : qc[i] \in Entries /\ (qc[i].used => qc[i] = mc[i])
    BY BlankType DEF Good, Sets
  <1>2. qc \in Sets
    BY <1>1 DEF Sets
  <1>3. Filled(qc) /\ Once(qc) /\ Agrees(qc, acc)
    BY <1>1 DEF Good, Filled, Once, Agrees
  <1>4. QED
    BY <1>2, <1>3 DEF Good

\* What _find_comparable_entry finds for a message.
LEMMA FindResult ==
    ASSUME NEW mc, NEW acc, Good(mc, acc), NEW t \in Nat, NEW m, Arriving(m)
    PROVE  LET c  == FindComparable(mc, t, m)
               qc == AfterFind(mc, t, m)
           IN  /\ Good(qc, acc) /\ \A i \in McSlots : qc[i] \in {mc[i], BlankMc}
               /\ c # 0 => /\ c \in McSlots /\ qc[c] = mc[c] /\ qc[c].used
                           /\ Key(qc[c]) = KeyOf(m)
               /\ (c = 0 /\ KeyOf(m) \in Foreign) =>
                     \A i \in McSlots : qc[i].used => Key(qc[i]) # KeyOf(m)
  <1> DEFINE S  == {i \in McSlots : LET e == McReset(mc[i], t) IN e.used /\ Comparable(e, m)}
             c  == FindComparable(mc, t, m)
             qc == AfterFind(mc, t, m)
  <1>1. S \in SUBSET (1 .. McSize) /\ McSize \in Nat /\ c = FirstOrNone(S)
    BY McMsgAssumption DEF McSlots, FindComparable
  <1>2. (c = 0 <=> S = {}) /\ (c # 0 => c \in S)
    BY <1>1, WalkResult
  <1>3. \A i \in McSlots : McReset(mc[i], t) \in {mc[i], BlankMc}
    BY DEF McReset
  <1>4. qc = [i \in McSlots |-> IF c = 0 \/ i <= c THEN McReset(mc[i], t) ELSE mc[i]]
    BY DEF AfterFind
  <1>5. Good(qc, acc) /\ \A i \in McSlots : qc[i] \in {mc[i], BlankMc}
    <2>1. DOMAIN qc = McSlots /\ \A i \in McSlots : qc[i] \in {mc[i], BlankMc}
      BY <1>3, <1>4
    <2>2. qc = [i \in McSlots |-> qc[i]]
      BY <1>4
    <2> HIDE DEF qc
    <2>3. QED
      BY <2>1, <2>2, AgeingKeeps
  <1>6. ASSUME c # 0
        PROVE  c \in McSlots /\ qc[c] = mc[c] /\ qc[c].used /\ Key(qc[c]) = KeyOf(m)
    <2>1. c \in McSlots /\ McReset(mc[c], t).used /\ Comparable(McReset(mc[c], t), m)
      BY <1>2, <1>6
    <2>2. McReset(mc[c], t) = mc[c]
      BY <1>3, <2>1, BlankType
    <2>3. c <= c
      BY <2>1, McMsgAssumption DEF McSlots
    <2>4. qc[c] = McReset(mc[c], t)
      BY <1>4, <2>1, <2>3
    <2>5. Key(mc[c]) = KeyOf(m)
      BY <2>1, <2>2 DEF Comparable, Compatible, Key, KeyOf
    <2>6. QED
      BY <2>1, <2>2, <2>4, <2>5
  <1>7. ASSUME c = 0, KeyOf(m) \in Foreign, NEW i \in McSlots, qc[i].used,
               Key(qc[i]) = KeyOf(m)
        PROVE  FALSE
    <2>1. qc[i] = McReset(mc[i], t) /\ qc[i] \in Entries /\ qc[i].metric_type = MetricType
      BY <1>4, <1>5, <1>7 DEF Good, Sets, Filled
    <2>2. qc[i].seqnortr = NoAddr /\ m.seqnortr = NoAddr /\ m.metric_type = MetricType
      BY <1>7, <2>1, MessageFields DEF Arriving, Entries
    <2>3. Compatible(qc[i], m)
      BY <1>7, <2>1, <2>2 DEF Compatible, Key, KeyOf
    <2>4. Comparable(qc[i], m)
      BY <2>2, <2>3 DEF Comparable
    <2>5. i \in S
      BY <1>7, <2>1, <2>4
    <2>6. QED
      BY <1>2, <1>7, <2>5
  <1> HIDE DEF S, c, qc
  <1>8. QED
    BY <1>5, <1>6, <1>7 DEF c, qc
-----------------------------------------------------------------------------
\* _add, for a message of whose key the set has no entry that counts.
LEMMA AddKeeps ==
    ASSUME NEW mc, NEW acc \in Accepts, Good(mc, acc), NEW t \in Nat, NEW m, Arriving(m),
           KeyOf(m) \in Foreign => \A i \in McSlots : mc[i].used => Key(mc[i]) # KeyOf(m)
    PROVE  Good(McAdd(mc, t, m), [acc EXCEPT ![KeyOf(m)] = m])
  <1> DEFINE S    == {j \in McSlots : ~mc[j].used}
             f    == FirstOrNone(S)
             qc   == McAdd(mc, t, m)
             acc2 == [acc EXCEPT ![KeyOf(m)] = m]
             e    == [mc[f] EXCEPT !.used = TRUE, !.orig = m.orig, !.targ = m.targ,
                                   !.metric_type = m.metric_type, !.metric = m.metric,
                                   !.seqnum = m.seqnum, !.removal_time = t + McLifetime]
  <1>1. /\ m.orig \in Origs /\ m.targ \in Targs /\ m.metric_type = MetricType
        /\ m.seqnum \in Nat /\ m.metric \in Nat
        /\ KeyOf(m) \in Keys /\ m # NoMessage
    BY MessageFields DEF Arriving
  <1>2. \A k \in Keys : acc2[k] = IF k = KeyOf(m) THEN m ELSE acc[k]
    BY DEF Accepts
  <1>3. (f = 0 <=> S = {}) /\ (f # 0 => f \in S)
    <2>1. S \in SUBSET (1 .. McSize) /\ McSize \in Nat
      BY McMsgAssumption DEF McSlots
    <2>2. QED
      BY <2>1, WalkResult
  <1>4. qc = IF f = 0 THEN mc ELSE [mc EXCEPT ![f] = e]
    BY DEF McAdd
  <1>5. Foreign \subseteq Keys
    BY DEF Foreign, Keys
  <1>6. \A i \in McSlots : (mc[i].used /\ Key(mc[i]) \in Foreign) => acc2[Key(mc[i])] = acc[Key(mc[i])]
    BY <1>2, <1>5
  <1>7. CASE f = 0
    BY <1>4, <1>6, <1>7 DEF Good, Agrees
  <1>8. CASE f # 0
    <2>1. f \in McSlots /\ ~mc[f].used
      BY <1>3, <1>8
    <2>2. mc[f] \in Entries
      BY <2>1 DEF Good, Sets
    <2>3. t + McLifetime \in Nat
      BY McMsgAssumption
    <2>4. /\ e \in Entries /\ e.used /\ Key(e) = KeyOf(m) /\ e.metric_type = MetricType
          /\ e.seqnum = m.seqnum /\ e.metric = m.metric
      BY <1>1, <2>2, <2>3 DEF Entries, Key, KeyOf
    <2> HIDE DEF e, f, qc, acc2
    <2>5. qc = [mc EXCEPT ![f] = e]
      BY <1>4, <1>8
    <2>6. qc \in Sets /\ qc[f] = e /\ \A i \in McSlots \ {f} : qc[i] = mc[i]
      BY <2>1, <2>4, <2>5 DEF Good, Sets
    <2>7. Filled(qc)
      BY <2>4, <2>6 DEF Good, Filled
    <2>8. Once(qc)
      <3> SUFFICES ASSUME NEW i \in McSlots, NEW j \in McSlots, i # j, qc[i].used, qc[j].used,
                          Key(qc[i]) \in Foreign, Key(qc[i]) = Key(qc[j])
                   PROVE  FALSE
        BY DEF Once
      <3>1. CASE i # f /\ j # f
        BY <2>6, <3>1 DEF Good, Once
      <3>2. CASE i = f
        BY <2>4, <2>6, <3>2
      <3>3. CASE j = f
        BY <2>4, <2>6, <3>3
      <3>4. QED
        BY <3>1, <3>2, <3>3
    <2>9. Agrees(qc, acc2)
      <3> SUFFICES ASSUME NEW i \in McSlots, qc[i].used, Key(qc[i]) \in Foreign
                   PROVE  /\ acc2[Key(qc[i])] # NoMessage
                          /\ qc[i].seqnum = acc2[Key(qc[i])].seqnum
                          /\ qc[i].metric = acc2[Key(qc[i])].metric
        BY DEF Agrees
      <3>1. CASE i = f
        BY <1>1, <1>2, <2>4, <2>6, <3>1
      <3>2. CASE i # f
        BY <1>6, <2>6, <3>2 DEF Good, Agrees
      <3>3. QED
        BY <3>1, <3>2
    <2>10. QED
      BY <2>6, <2>7, <2>8, <2>9 DEF Good, qc, acc2
  <1>9. QED
    BY <1>7, <1>8

\* The entry found is renewed, and updated when the message is accepted.
LEMMA UpdateKeeps ==
    ASSUME NEW mc, NEW acc \in Accepts, Good(mc, acc), NEW m, Arriving(m),
           NEW c \in McSlots, mc[c].used, Key(mc[c]) = KeyOf(m),
           NEW e \in Entries, e.used, Key(e) = KeyOf(m), e.metric_type = MetricType,
           NEW acc2,
           \/ /\ acc2 = acc
              /\ KeyOf(m) \in Foreign => e.seqnum = mc[c].seqnum /\ e.metric = mc[c].metric
           \/ /\ acc2 = [acc EXCEPT ![KeyOf(m)] = m]
              /\ e.seqnum = m.seqnum /\ e.metric = m.metric
    PROVE  Good([mc EXCEPT ![c] = e], acc2)
  <1> DEFINE qc == [mc EXCEPT ![c] = e]
  <1>1. KeyOf(m) \in Keys /\ m # NoMessage
    BY MessageFields DEF Arriving
  <1>2. \/ /\ acc2 = acc
           /\ KeyOf(m) \in Foreign => e.seqnum = mc[c].seqnum /\ e.metric = mc[c].metric
        \/ /\ \A k \in Keys : acc2[k] = IF k = KeyOf(m) THEN m ELSE acc[k]
           /\ e.seqnum = m.seqnum /\ e.metric = m.metric
    BY DEF Accepts
  <1>3. qc \in Sets /\ qc[c] = e /\ \A i \in McSlots \ {c} : qc[i] = mc[i]
    BY DEF Good, Sets
  <1>4. Filled(qc)
    BY <1>3 DEF Good, Filled
  <1>5. Once(qc)
    BY <1>3 DEF Good, Once
  <1> HIDE DEF qc
  <1>6. Agrees(qc, acc2)
    <2> SUFFICES ASSUME NEW i \in McSlots, qc[i].used, Key(qc[i]) \in Foreign
                 PROVE  /\ acc2[Key(qc[i])] # NoMessage
                        /\ qc[i].seqnum = acc2[Key(qc[i])].seqnum
                        /\ qc[i].metric = acc2[Key(qc[i])].metric
      BY DEF Agrees
    <2>1. Key(qc[i]) \in Keys
      BY DEF Foreign, Keys
    <2>2. CASE i = c
      <3>1. qc[i] = e /\ Key(qc[i]) = KeyOf(m) /\ Key(mc[c]) \in Foreign
        BY <1>3, <2>2
      <3>2. /\ acc[KeyOf(m)] # NoMessage /\ mc[c].seqnum = acc[KeyOf(m)].seqnum
            /\ mc[c].metric = acc[KeyOf(m)].metric
        BY <3>1 DEF Good, Agrees
      <3>3. QED
        BY <1>1, <1>2, <3>1, <3>2
    <2>3. CASE i # c
      <3>1. qc[i] = mc[i] /\ Key(mc[i]) # KeyOf(m)
        BY <1>3, <2>3 DEF Good, Once
      <3>2. acc2[Key(mc[i])] = acc[Key(mc[i])]
        BY <1>2, <2>1, <3>1
      <3>3. QED
        BY <3>1, <3>2 DEF Good, Agrees
    <2>4. QED
      BY <2>2, <2>3
  <1>7. QED
    BY <1>3, <1>4, <1>5, <1>6 DEF Good, qc

\* The comparison of two sequence numbers is an integer.
LEMMA CmpType ==
    ASSUME NEW a \in Nat, NEW b \in Nat
    PROVE  aodvv2_seqnum_cmp(a, b) \in Int
  <1>1. SeqMod \in Nat /\ SeqMod > 0
    BY SeqnumCmpAssumption
  <1>2. (b - a) % SeqMod \in Int
    BY <1>1
  <1>3. QED
    BY <1>1, <1>2 DEF aodvv2_seqnum_cmp, ToSigned

\* aodvv2_mcmsg_process keeps what the set promises, and suppresses a message
\* for a key of another node only when it is not newer than the last accepted.
LEMMA ProcessKeeps ==
    ASSUME NEW mc, NEW acc \in Accepts, Good(mc, acc), NEW t \in Nat, NEW m, Arriving(m)
    PROVE  LET p == aodvv2_mcmsg_process(mc, t, m)
           IN  /\ Good(p.mc, IF p.result = "ok" THEN [acc EXCEPT ![KeyOf(m)] = m] ELSE acc)
               /\ (KeyOf(m) \in Foreign /\ p.result = "redundant") =>
                     /\ acc[KeyOf(m)] # NoMessage
                     /\ aodvv2_seqnum_cmp(acc[KeyOf(m)].seqnum, m.seqnum) <= 0
  <1> DEFINE c     == FindComparable(mc, t, m)
             mc1   == AfterFind(mc, t, m)
             timed == [mc1 EXCEPT ![c].removal_time = t + McLifetime]
             mc2   == [timed EXCEPT ![c].seqnum = m.seqnum, ![c].metric = m.metric]
             worse == FirstNoWorse(mc2, t, c)
             mc3   == [i \in McSlots |-> IF i # c /\ (worse = 0 \/ i <= worse)
                                         THEN McReset(mc2[i], t) ELSE mc2[i]]
             acc2  == [acc EXCEPT ![KeyOf(m)] = m]
             p     == aodvv2_mcmsg_process(mc, t, m)
  <1>1. /\ Good(mc1, acc)
        /\ c # 0 => c \in McSlots /\ mc1[c].used /\ Key(mc1[c]) = KeyOf(m)
        /\ (c = 0 /\ KeyOf(m) \in Foreign) =>
              \A i \in McSlots : mc1[i].used => Key(mc1[i]) # KeyOf(m)
    BY FindResult
  <1>2. p = IF c = 0 THEN [mc |-> McAdd(mc1, t, m), result |-> "ok"]
            ELSE IF SeqVerdict(mc1[c], m) = "redundant"
                 THEN [mc |-> timed, result |-> "redundant"]
                 ELSE [mc |-> mc3, result |-> IF worse = 0 THEN "ok" ELSE "redundant"]
    BY DEF aodvv2_mcmsg_process
  <1>3. /\ m.seqnum \in Nat /\ m.metric \in Nat /\ m.metric_type = MetricType
        /\ t + McLifetime \in Nat
    BY MessageFields, McMsgAssumption DEF Arriving
  <1>4. CASE c = 0
    <2>1. p.mc = McAdd(mc1, t, m) /\ p.result = "ok"
      BY <1>2, <1>4
    <2> HIDE DEF c, mc1, p
    <2>2. Good(McAdd(mc1, t, m), acc2)
      BY <1>1, <1>4, AddKeeps
    <2>3. QED
      BY <2>1, <2>2 DEF p
  <1>5. CASE c # 0
    <2> DEFINE e1 == [mc1[c] EXCEPT !.removal_time = t + McLifetime]
               e2 == [e1 EXCEPT !.seqnum = m.seqnum, !.metric = m.metric]
    <2>1. c \in McSlots /\ mc1[c].used /\ Key(mc1[c]) = KeyOf(m) /\ mc1 \in Sets
          /\ mc1[c] \in Entries /\ mc1[c].metric_type = MetricType
      BY <1>1, <1>5 DEF Good, Sets, Filled
    <2>2. timed = [mc1 EXCEPT ![c] = e1]
      OBVIOUS
    <2>3. mc2 = [mc1 EXCEPT ![c] = e2]
      <3>1. timed[c] = e1
        BY <2>1 DEF Sets
      <3>2. mc2 = [timed EXCEPT ![c] = [timed[c] EXCEPT !.seqnum = m.seqnum, !.metric = m.metric]]
        BY <2>1, <3>1 DEF Sets
      <3>3. QED
        BY <2>1, <2>2, <3>1, <3>2 DEF Sets
    <2>4. /\ e1 \in Entries /\ e1.used /\ Key(e1) = KeyOf(m) /\ e1.metric_type = MetricType
          /\ e1.seqnum = mc1[c].seqnum /\ e1.metric = mc1[c].metric
      BY <1>3, <2>1 DEF Entries, Key
    <2>5. /\ e2 \in Entries /\ e2.used /\ Key(e2) = KeyOf(m) /\ e2.metric_type = MetricType
          /\ e2.seqnum = m.seqnum /\ e2.metric = m.metric
      <3> HIDE DEF e1
      <3>1. QED
        BY <1>3, <2>4 DEF Entries, Key
    <2> HIDE DEF c, mc1, timed, mc2, worse, mc3, p, e1, e2
    <2>6. CASE SeqVerdict(mc1[c], m) = "redundant"
      <3>1. p.mc = timed /\ p.result = "redundant"
        BY <1>2, <1>5, <2>6
      <3>2. Good(timed, acc)
        <4>1. KeyOf(m) \in Foreign => e1.seqnum = mc1[c].seqnum /\ e1.metric = mc1[c].metric
          BY <2>4
        <4>2. Good([mc1 EXCEPT ![c] = e1], acc)
          BY <1>1, <2>1, <2>4, <4>1, UpdateKeeps
        <4>3. QED
          BY <2>2, <4>2
      <3>3. aodvv2_seqnum_cmp(mc1[c].seqnum, m.seqnum) <= 0
        <4>1. aodvv2_seqnum_cmp(mc1[c].seqnum, m.seqnum) \in Int
          <5>1. mc1[c].seqnum \in Nat
            BY <2>1 DEF Entries
          <5>2. QED
            BY <1>3, <5>1, CmpType
        <4>2. QED
          BY <2>6, <4>1 DEF SeqVerdict
      <3>4. KeyOf(m) \in Foreign => /\ acc[KeyOf(m)] # NoMessage
                                    /\ mc1[c].seqnum = acc[KeyOf(m)].seqnum
        BY <1>1, <2>1 DEF Good, Agrees
      <3>5. QED
        BY <3>1, <3>2, <3>3, <3>4 DEF p
    <2>7. CASE SeqVerdict(mc1[c], m) # "redundant"
      <3>1. p.mc = mc3 /\ p.result = IF worse = 0 THEN "ok" ELSE "redundant"
        BY <1>2, <1>5, <2>7
      <3>2. Good(mc2, acc2)
        <4>1. e2.seqnum = m.seqnum /\ e2.metric = m.metric
          BY <2>5
        <4>2. Good([mc1 EXCEPT ![c] = e2], acc2)
          BY <1>1, <2>1, <2>5, <4>1, UpdateKeeps
        <4>3. QED
          BY <2>3, <4>2
      <3>3. KeyOf(m) \notin Foreign => Good(mc2, acc)
        BY <1>1, <2>1, <2>3, <2>5, UpdateKeeps
      <3>4. \A i \in McSlots : mc3[i] \in {mc2[i], BlankMc}
        BY DEF mc3, McReset
      <3>5. DOMAIN mc3 = McSlots /\ mc3 = [i \in McSlots |-> mc3[i]]
        BY DEF mc3
      <3>6. KeyOf(m) \in Foreign => worse = 0
        <4> DEFINE S == {i \in McSlots \ {c} :
                            LET e == McReset(mc2[i], t)
                            IN  e.used /\ Compatible(mc2[c], e) /\ e.metric <= mc2[c].metric}
        <4> SUFFICES ASSUME KeyOf(m) \in Foreign, NEW i \in S PROVE FALSE
          <5>1. S = {} => worse = 0
            BY DEF worse, FirstNoWorse, FirstOrNone
          <5> HIDE DEF S
          <5>2. QED
            BY <5>1
        <4>1. i \in McSlots /\ i # c /\ McReset(mc2[i], t).used /\ Compatible(mc2[c], McReset(mc2[i], t))
          OBVIOUS
        <4>2. McReset(mc2[i], t) = mc2[i]
          BY <4>1, BlankType DEF McReset
        <4>3. mc2[c] = e2
          BY <2>1, <2>3 DEF Sets
        <4>4. Key(mc2[i]) = Key(mc2[c]) /\ mc2[i].used /\ mc2[c].used /\ Key(mc2[c]) = KeyOf(m)
          BY <2>5, <4>1, <4>2, <4>3 DEF Compatible, Key
        <4>5. QED
          BY <2>1, <3>2, <4>1, <4>4 DEF Good, Once
      <3>7. Good(mc3, IF worse = 0 THEN acc2 ELSE acc)
        <4>1. CASE worse = 0
          BY <3>2, <3>4, <3>5, <4>1, AgeingKeeps
        <4>2. CASE worse # 0
          BY <3>3, <3>4, <3>5, <3>6, <4>2, AgeingKeeps
        <4>3. QED
          BY <4>1, <4>2
      <3>8. QED
        BY <3>1, <3>6, <3>7 DEF p
    <2>8. QED
      BY <2>6, <2>7
  <1>6. QED
    BY <1>4, <1>5

-----------------------------------------------------------------------------
\* A processed message leaves the invariant intact.
LEMMA ProcessStep ==
    ASSUME IInv, NEW m, Arriving(m), Process(m)
    PROVE  IInv'
  <1> DEFINE p    == aodvv2_mcmsg_process(entries, now, m)
             acc2 == IF p.result = "ok" THEN [accepted EXCEPT ![KeyOf(m)] = m] ELSE accepted
  <1>1. accepted \in Accepts /\ now \in Nat /\ Good(entries, accepted)
    BY DEF IInv, TypeOK, Accepts
  <1>2. entries' = p.mc /\ accepted' = acc2 /\ now' = now
    BY DEF Process
  <1>3. Good(p.mc, acc2)
    BY <1>1, ProcessKeeps
  <1>4. acc2 \in Accepts
    BY <1>1 DEF Arriving, Accepts
  <1> HIDE DEF p, acc2
  <1>5. QED
    BY <1>1, <1>2, <1>3, <1>4 DEF IInv, TypeOK, Good, Sets, Accepts

\* Every step preserves the invariant.
LEMMA IInvStep == IInv /\ [Next]_vars => IInv'
  <1> SUFFICES ASSUME IInv, [Next]_vars PROVE IInv'
    OBVIOUS
  <1>1. ASSUME NEW o \in Origs, NEW t \in Targs, NEW s \in Seqnums, NEW metric \in Metrics,
               ReceiveRreq(o, t, s, metric)
        PROVE  IInv'
    <2>1. Message(o, t, s, metric, NoAddr) \in Messages
      BY DEF Messages
    <2>2. Message(o, t, s, metric, NoAddr).seqnortr = NoAddr
      BY DEF Message
    <2>3. Arriving(Message(o, t, s, metric, NoAddr))
      BY <2>1, <2>2 DEF Arriving
    <2>4. QED
      BY <1>1, <2>3, ProcessStep DEF ReceiveRreq
  <1>2. ASSUME NEW o \in OwnOrigs, NEW t \in Targs, NEW s \in Seqnums, NEW rtr \in OwnSeqNoRtrs,
               OriginateRreq(o, t, s, rtr)
        PROVE  IInv'
    <2>1. Message(o, t, s, 0, rtr) \in Messages
      BY McMsgInputs DEF Messages
    <2>2. KeyOf(Message(o, t, s, 0, rtr)) \notin Foreign
      BY DEF KeyOf, Message, Foreign
    <2>3. QED
      BY <1>2, <2>1, <2>2, ProcessStep DEF OriginateRreq, Arriving
  <1>3. CASE Tick
    BY <1>3 DEF Tick, IInv, TypeOK
  <1>4. CASE UNCHANGED vars
    BY <1>4 DEF vars, IInv, TypeOK
  <1>5. QED
    BY <1>1, <1>2, <1>3, <1>4 DEF Next

\* The empty set satisfies the invariant.
LEMMA IInvInit == Init => IInv
  BY BlankType DEF Init, IInv, TypeOK, aodvv2_mcmsg_init, Good, Sets, Filled, Once, Agrees

\* The invariant holds in every reachable state.
LEMMA Invariance == Spec => []IInv
  BY IInvInit, IInvStep, PTL DEF Spec

-----------------------------------------------------------------------------
(***************************************************************************)
(* Type correctness of the Multicast Message Set through all its           *)
(* operations.                                                             *)
(***************************************************************************)
THEOREM TypeCorrect == Spec => []TypeOK
  <1>1. IInv => TypeOK
    BY DEF IInv
  <1>2. QED
    BY <1>1, Invariance, PTL

(***************************************************************************)
(* _add never makes a second entry for an RREQ key of another node, for    *)
(* sets of any size and any schedule of messages and ageing.               *)
(***************************************************************************)
THEOREM EntriesAreUnique == Spec => []OneEntryPerKey
  <1>1. IInv => OneEntryPerKey
    BY DEF IInv, Good, Once, OneEntryPerKey, KeyAt, Key, Compatible
  <1>2. QED
    BY <1>1, Invariance, PTL

(***************************************************************************)
(* What aodvv2_mcmsg_process has stored for a key of another node is what  *)
(* it accepted last for it.                                                *)
(***************************************************************************)
THEOREM EntriesAreLastAccepted == Spec => []EntryIsLastAccepted
  <1>1. IInv => EntryIsLastAccepted
    BY DEF IInv, Good, Agrees, EntryIsLastAccepted, KeyAt, Key
  <1>2. QED
    BY <1>1, Invariance, PTL

(***************************************************************************)
(* aodvv2_mcmsg_process never takes a first RREQ of another node, or one   *)
(* newer than the last accepted for its key, for redundant.                *)
(***************************************************************************)
THEOREM FreshIsNeverRedundant == Spec => []FreshNeverRedundant
  <1>1. IInv => FreshNeverRedundant
    <2> SUFFICES ASSUME IInv, NEW m \in Messages, KeyOf(m) \in Foreign, m.seqnortr = NoAddr,
                        aodvv2_mcmsg_process(entries, now, m).result = "redundant"
                 PROVE  /\ accepted[KeyOf(m)] # NoMessage
                        /\ aodvv2_seqnum_cmp(accepted[KeyOf(m)].seqnum, m.seqnum) <= 0
      BY DEF FreshNeverRedundant
    <2>1. accepted \in Accepts /\ now \in Nat /\ Good(entries, accepted) /\ Arriving(m)
      BY DEF IInv, TypeOK, Accepts, Arriving
    <2>2. QED
      BY <2>1, ProcessKeeps
  <1>2. QED
    BY <1>1, Invariance, PTL
=============================================================================
