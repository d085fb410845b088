---------------------------- MODULE VainaProofs ----------------------------
(***************************************************************************)
(* Proofs about the VAINA server, the shell and the Router Client Set they *)
(* share, for addresses of any length, any size of the set and any prefix  *)
(* lengths a caller may pass.                                              *)
(*                                                                         *)
(* The argument: an entry in use keeps its address cut to its length       *)
(* (Canonical), so the entry that aodvv2_rcs_matches finds is one of the   *)
(* prefix asked for, and the entries of a prefix can be counted.  A call   *)
(* of the VAINA thread is one for the message it handles (Calling), and    *)
(* while it is under way the shell only fills free slots.                  *)
(***************************************************************************)
EXTENDS Vaina, WellFoundedInduction, TLAPS, FiniteSetTheorems, SequenceTheorems

\* The first index of a non-empty set of indices is one of them, and no other one
\* comes before it: the numbers are well-ordered.
LEMMA FirstIsLeast ==
    ASSUME NEW S \in SUBSET Nat, S # {}
    PROVE  First(S) \in S /\ \A j \in S : First(S) <= j
  <1>1. PICK i \in S : \A j \in S : ~(<<j, i>> \in OpToRel(<, Nat))
    BY NatLessThanWellFounded, WFMin
  <1>2. ASSUME NEW j \in S PROVE i <= j
    <2>1. i \in Nat /\ j \in Nat /\ ~(<<j, i>> \in OpToRel(<, Nat))
      BY <1>1
    <2>2. QED
      BY <2>1 DEF OpToRel
  <1>3. QED
    BY <1>2 DEF First

\* The walk of an array returns 0 exactly when no slot satisfies the condition, and
\* the first one that does otherwise.
LEMMA WalkResult ==
    ASSUME NEW n \in Nat, NEW S \in SUBSET (1 .. n)
    PROVE  /\ FirstOrNone(S) \in 0 .. n
           /\ (FirstOrNone(S) = 0) <=> (S = {})
           /\ S # {} => FirstOrNone(S) \in S
           /\ \A j \in S : FirstOrNone(S) <= j
  <1>1. ASSUME S # {} PROVE First(S) \in S /\ First(S) \in 1 .. n /\ \A j \in S : First(S) <= j
    <2>1. First(S) \in S /\ \A j \in S : First(S) <= j
      BY <1>1, FirstIsLeast
    <2>2. QED
      BY <2>1
  <1>2. FirstOrNone(S) = IF S = {} THEN 0 ELSE First(S)
    BY DEF FirstOrNone
  <1>3. CASE S = {}
    BY <1>2, <1>3
  <1>4. CASE S # {}
    BY <1>1, <1>2, <1>4
  <1>5. QED
    BY <1>3, <1>4

-----------------------------------------------------------------------------

Canonical ==
    \A i \in RcsSlots : entries[i].used =>
        entries[i].addr = ipv6_addr_init_prefix(entries[i].addr, entries[i].pfx_len)

Calling ==
    /\ call["shell"].op \in {"none", "add"}
    /\ call["vaina"].op # "none" => server.at = "process"
    /\ call["vaina"].op = "add" =>
          /\ server.msg.msg = "RCS_ADD"
          /\ call["vaina"].addr = server.msg.ip
          /\ call["vaina"].len = ClampLen(server.msg.pfx_len)
    /\ call["vaina"].op = "del" => server.msg.msg = "RCS_DEL"

IInv ==
    /\ ServerTypeOK /\ Canonical /\ NoLostUpdate /\ DelPointerStillValid
    /\ Calling /\ AcksAreTrue

SetType == [RcsSlots -> [used : BOOLEAN, addr : Addresses,
                         pfx_len : 0 .. AddrBits, cost : {0, ClientCost}]]

SameBits(a, b, l) == \A i \in 1 .. l : a[i] = b[i]

-----------------------------------------------------------------------------
\* The length that addresses share decides whether a prefix matches.
LEMMA MatchIsSameBits ==
    ASSUME NEW a \in Addresses, NEW b \in Addresses, NEW l \in 0 .. AddrBits
    PROVE  ipv6_addr_match_prefix(a, b) >= l <=> SameBits(a, b, l)
  <1> DEFINE S == {i \in 1 .. AddrBits : \A j \in 1 .. i : a[j] = b[j]}
  <1>1. ipv6_addr_match_prefix(a, b) = Cardinality(S)
    BY DEF ipv6_addr_match_prefix
  <1>2. S \in SUBSET (1 .. AddrBits) /\ AddrBits \in Nat
    BY RcsAssumption
  <1>3. IsFiniteSet(S) /\ Cardinality(S) \in Nat
    <2>1. IsFiniteSet(1 .. AddrBits)
      BY <1>2, FS_Interval
    <2> HIDE DEF S
    <2>2. IsFiniteSet(S)
      BY <1>2, <2>1, FS_Subset
    <2>3. QED
      BY <2>2, FS_CardinalityType
  <1>4. ASSUME SameBits(a, b, l) PROVE 1 .. l \in SUBSET S
    <2>1. ASSUME NEW i \in 1 .. l PROVE i \in 1 .. AddrBits /\ 1 .. i \subseteq 1 .. l
      BY <1>2
    <2>2. QED
      BY <1>4, <2>1 DEF SameBits
  <1>5. ASSUME NEW k \in 1 .. l, a[k] # b[k] PROVE S \in SUBSET (1 .. k - 1)
    BY <1>2, <1>5
  <1> HIDE DEF S
  <1>6. ASSUME SameBits(a, b, l) PROVE Cardinality(S) >= l
    <2>1. Cardinality(1 .. l) <= Cardinality(S)
      BY <1>3, <1>4, <1>6, FS_Subset
    <2>2. Cardinality(1 .. l) = l
      BY FS_Interval
    <2>3. QED
      BY <2>1, <2>2
  <1>7. ASSUME NEW k \in 1 .. l, a[k] # b[k] PROVE Cardinality(S) < l
    <2>1. IsFiniteSet(1 .. k - 1) /\ Cardinality(1 .. k - 1) = k - 1
      BY FS_Interval
    <2>2. Cardinality(S) <= k - 1
      BY <1>5, <1>7, <2>1, FS_Subset
    <2>3. QED
      BY <1>3, <2>2
  <1>8. QED
    BY <1>1, <1>3, <1>6, <1>7 DEF SameBits

\* Cutting an address to a prefix.
LEMMA InitPrefix ==
    ASSUME NEW a \in Addresses, NEW b \in Addresses, NEW l \in 0 .. AddrBits
    PROVE  /\ ipv6_addr_init_prefix(a, l) \in Addresses
           /\ SameBits(ipv6_addr_init_prefix(a, l), b, l) <=> SameBits(a, b, l)
           /\ SameBits(a, b, l) => ipv6_addr_init_prefix(a, l) = ipv6_addr_init_prefix(b, l)
           /\ ipv6_addr_init_prefix(ipv6_addr_init_prefix(a, l), l) = ipv6_addr_init_prefix(a, l)
  <1>1. ASSUME NEW x \in Addresses
        PROVE  /\ ipv6_addr_init_prefix(x, l) \in Addresses
               /\ \A i \in 1 .. AddrBits :
                     ipv6_addr_init_prefix(x, l)[i] = IF i <= l THEN x[i] ELSE 0
    BY DEF Addresses, ipv6_addr_init_prefix
  <1>2. \A i \in 1 .. l : i \in 1 .. AddrBits /\ i <= l
    BY RcsAssumption
  <1>3. SameBits(ipv6_addr_init_prefix(a, l), b, l) <=> SameBits(a, b, l)
    BY <1>1, <1>2 DEF SameBits
  <1>4. ASSUME NEW x \in Addresses, NEW y \in Addresses, SameBits(x, y, l)
        PROVE  ipv6_addr_init_prefix(x, l) = ipv6_addr_init_prefix(y, l)
    <2>1. ASSUME NEW i \in 1 .. AddrBits
          PROVE  (IF i <= l THEN x[i] ELSE 0) = (IF i <= l THEN y[i] ELSE 0)
      <3>1. CASE i <= l
        <4>1. i \in 1 .. l
          BY <3>1
        <4>2. QED
          BY <1>4, <4>1 DEF SameBits
      <3>2. CASE ~(i <= l)
        BY <3>2
      <3>3. QED
        BY <3>1, <3>2
    <2>2. QED
      BY <2>1 DEF ipv6_addr_init_prefix
  <1>5. SameBits(ipv6_addr_init_prefix(a, l), a, l)
    BY <1>1, <1>2 DEF SameBits
  <1>6. QED
    BY <1>1, <1>3, <1>4, <1>5

\* A length after the clamp.
LEMMA Clamped ==
    ASSUME NEW len \in Nat
    PROVE  /\ ClampLen(len) \in 0 .. AddrBits
           /\ ClampLen(ClampLen(len)) = ClampLen(len)
           /\ len \in 0 .. AddrBits => ClampLen(len) = len
  BY RcsAssumption DEF ClampLen

\* The prefix of an address and a length.
LEMMA PrefixType ==
    ASSUME NEW a \in Addresses, NEW len \in Nat
    PROVE  PrefixOf(a, len) \in Prefixes /\ PrefixOf(a, ClampLen(len)) = PrefixOf(a, len)
  BY Clamped DEF PrefixOf, Prefixes

\* The slots of a prefix can be counted.
LEMMA Counting ==
    ASSUME NEW S \in SUBSET RcsSlots, NEW i
    PROVE  /\ Cardinality(S) \in Nat
           /\ (Cardinality(S) = 0) <=> (S = {})
           /\ i \notin S => Cardinality(S \cup {i}) = Cardinality(S) + 1
           /\ i \in S => Cardinality(S \ {i}) = Cardinality(S) - 1
  <1>0. IsFiniteSet(RcsSlots)
    BY RcsAssumption, FS_Interval DEF RcsSlots
  <1>1. IsFiniteSet(S)
    BY <1>0, FS_Subset
  <1>2. Cardinality(S) \in Nat
    BY <1>1, FS_CardinalityType
  <1>3. (Cardinality(S) = 0) <=> (S = {})
    BY <1>1, FS_EmptySet
  <1>4. i \notin S => Cardinality(S \cup {i}) = Cardinality(S) + 1
    BY <1>1, FS_AddElement
  <1>5. i \in S => Cardinality(S \ {i}) = Cardinality(S) - 1
    BY <1>1, FS_RemoveElement
  <1>6. QED
    BY <1>2, <1>3, <1>4, <1>5

\* What aodvv2_rcs_matches finds is an entry of the prefix, and it finds one
\* if there is one.
LEMMA MatchesFindsPrefix ==
    ASSUME entries \in SetType, Canonical, NEW a \in Addresses, NEW len \in Nat
    PROVE  LET found == aodvv2_rcs_matches(entries, a, len)
               held  == Holding(PrefixOf(a, len))
           IN  /\ found \in 0 .. RcsSize
               /\ found # 0 => found \in held
               /\ found = 0 => held = {}
  <1> DEFINE l == ClampLen(len)
             M == {i \in RcsSlots :
                     /\ entries[i].used /\ entries[i].pfx_len = l
                     /\ ipv6_addr_match_prefix(entries[i].addr, a) >= entries[i].pfx_len}
  <1>1. l \in 0 .. AddrBits
    BY Clamped
  <1>2. ASSUME NEW i \in RcsSlots, entries[i].used, entries[i].pfx_len = l
        PROVE  ipv6_addr_match_prefix(entries[i].addr, a) >= l
                  <=> entries[i].addr = ipv6_addr_init_prefix(a, l)
    <2>1. entries[i].addr \in Addresses
      BY DEF SetType
    <2>2. entries[i].addr = ipv6_addr_init_prefix(entries[i].addr, l)
      BY <1>2 DEF Canonical
    <2>3. ipv6_addr_match_prefix(entries[i].addr, a) >= l <=> SameBits(entries[i].addr, a, l)
      BY <1>1, <2>1, MatchIsSameBits
    <2>4. SameBits(entries[i].addr, a, l) => entries[i].addr = ipv6_addr_init_prefix(a, l)
      BY <1>1, <2>1, <2>2, InitPrefix
    <2>5. SameBits(a, a, l)
      BY DEF SameBits
    <2>6. SameBits(ipv6_addr_init_prefix(a, l), a, l)
      BY <1>1, <2>5, InitPrefix
    <2>7. QED
      BY <2>3, <2>4, <2>6
  <1>3. M = Holding(PrefixOf(a, len))
    BY <1>2 DEF Holding, PrefixOf
  <1>4. M \in SUBSET (1 .. RcsSize) /\ RcsSize \in Nat
    BY RcsAssumption DEF RcsSlots
  <1>5. aodvv2_rcs_matches(entries, a, len) = FirstOrNone(M)
    BY DEF aodvv2_rcs_matches
  <1> HIDE DEF M
  <1>6. FirstOrNone(M) \in 0 .. RcsSize /\ (FirstOrNone(M) = 0 <=> M = {})
        /\ (M # {} => FirstOrNone(M) \in M)
    BY <1>4, WalkResult
  <1>7. QED
    BY <1>3, <1>5, <1>6

\* The free slot of aodvv2_rcs_add.
LEMMA FreeSlot ==
    LET i == FreeClientSlot(entries)
    IN  /\ i \in 0 .. RcsSize
        /\ i # 0 => i \in RcsSlots /\ ~entries[i].used
  <1> DEFINE S == {i \in RcsSlots : ~entries[i].used}
  <1>1. S \in SUBSET (1 .. RcsSize) /\ RcsSize \in Nat
    BY RcsAssumption DEF RcsSlots
  <1>2. FreeClientSlot(entries) = FirstOrNone(S)
    BY DEF FreeClientSlot
  <1>3. \A i \in S : i \in RcsSlots /\ ~entries[i].used
    OBVIOUS
  <1> HIDE DEF S
  <1>4. FirstOrNone(S) \in 0 .. RcsSize /\ (FirstOrNone(S) = 0 <=> S = {})
        /\ (S # {} => FirstOrNone(S) \in S)
    BY <1>1, WalkResult
  <1>5. QED
    BY <1>2, <1>3, <1>4

-----------------------------------------------------------------------------
\* A client stored in a free slot: the set stays canonical, the entries in
\* use are left alone and those of the new prefix are one more.
LEMMA StoreKeeps ==
    ASSUME entries \in SetType, Canonical, NEW i \in RcsSlots, ~entries[i].used,
           NEW a \in Addresses, NEW l \in 0 .. AddrBits,
           entries' = FillClient(entries, i, a, l, ClientCost)
    PROVE  /\ entries' \in SetType /\ Canonical'
           /\ \A p \in Prefixes \ {PrefixOf(a, l)} : Holding(p)' = Holding(p)
           /\ Holding(PrefixOf(a, l))' = Holding(PrefixOf(a, l)) \cup {i}
           /\ i \notin Holding(PrefixOf(a, l))
  <1> DEFINE new == [used |-> TRUE, addr |-> ipv6_addr_init_prefix(a, l), pfx_len |-> l,
                     cost |-> ClientCost]
  <1>1. /\ ipv6_addr_init_prefix(a, l) \in Addresses
        /\ ipv6_addr_init_prefix(ipv6_addr_init_prefix(a, l), l) = ipv6_addr_init_prefix(a, l)
    BY InitPrefix
  <1>2. PrefixOf(a, l) = [addr |-> ipv6_addr_init_prefix(a, l), len |-> l]
    BY Clamped DEF PrefixOf
  <1>3. entries' = [entries EXCEPT ![i] = new]
    BY DEF FillClient
  <1>4. entries' \in SetType
    BY <1>1, <1>3 DEF SetType
  <1>5. entries'[i] = new /\ \A j \in RcsSlots \ {i} : entries'[j] = entries[j]
    BY <1>3 DEF SetType
  <1>6. Canonical'
    BY <1>1, <1>5 DEF Canonical
  <1>7. ASSUME NEW p \in Prefixes, p # PrefixOf(a, l) PROVE Holding(p)' = Holding(p)
    <2>1. ~(p.addr = ipv6_addr_init_prefix(a, l) /\ p.len = l)
      BY <1>2, <1>7 DEF Prefixes
    <2>2. i \notin Holding(p) /\ i \notin Holding(p)'
      BY <1>5, <2>1 DEF Holding
    <2>3. QED
      BY <1>5, <2>2 DEF Holding
  <1>8. Holding(PrefixOf(a, l))' = Holding(PrefixOf(a, l)) \cup {i}
    BY <1>2, <1>5 DEF Holding
  <1>9. i \notin Holding(PrefixOf(a, l))
    BY DEF Holding
  <1>10. QED
    BY <1>4, <1>6, <1>7, <1>8, <1>9

\* A client of a prefix deleted: the same, the other way round.
LEMMA ClearKeeps ==
    ASSUME entries \in SetType, Canonical, NEW p \in Prefixes, NEW i \in Holding(p),
           entries' = ClearClient(entries, i)
    PROVE  /\ entries' \in SetType /\ Canonical'
           /\ \A q \in Prefixes \ {p} : Holding(q)' = Holding(q)
           /\ Holding(p)' = Holding(p) \ {i}
  <1>1. /\ i \in RcsSlots /\ entries[i].used
        /\ entries[i].addr = p.addr /\ entries[i].pfx_len = p.len
    BY DEF Holding
  <1>2. Unspecified \in Addresses
    BY DEF Unspecified, Addresses
  <1>3. entries' = [entries EXCEPT ![i] = BlankClient]
    BY DEF ClearClient
  <1>4. entries' \in SetType
    <2>1. BlankClient \in [used : BOOLEAN, addr : Addresses, pfx_len : 0 .. AddrBits,
                           cost : {0, ClientCost}]
      BY <1>2, RcsAssumption DEF BlankClient
    <2>2. QED
      BY <1>3, <2>1 DEF SetType
  <1>5. entries'[i] = BlankClient /\ ~BlankClient.used
        /\ \A j \in RcsSlots \ {i} : entries'[j] = entries[j]
    BY <1>1, <1>3 DEF SetType, BlankClient
  <1>6. Canonical'
    BY <1>5 DEF Canonical
  <1>7. ASSUME NEW q \in Prefixes, q # p PROVE Holding(q)' = Holding(q)
    <2>1. ~(q.addr = p.addr /\ q.len = p.len)
      BY <1>7 DEF Prefixes
    <2>2. i \notin Holding(q) /\ i \notin Holding(q)'
      BY <1>1, <1>5, <2>1 DEF Holding
    <2>3. QED
      BY <1>5, <2>2 DEF Holding
  <1>8. Holding(p)' = Holding(p) \ {i}
    BY <1>1, <1>5 DEF Holding
  <1>9. QED
    BY <1>4, <1>6, <1>7, <1>8

-----------------------------------------------------------------------------
Requested == [msg : Requests, seqno : {Seqno}, pfx_len : Lens, ip : Addresses]

LEMMA OneMore == ASSUME NEW a, NEW b, NEW c PROVE Len(Append(<<a, b>>, c)) < 4
  <1>1. PICK S : S = {a, b, c}
    OBVIOUS
  <1>2. <<a, b>> \in Seq(S) /\ Len(<<a, b>>) = 2 /\ c \in S
    BY <1>1
  <1>3. Len(Append(<<a, b>>, c)) = Len(<<a, b>>) + 1
    BY <1>2, AppendProperties
  <1>4. QED
    BY <1>2, <1>3

\* What is parsed from a datagram is a request of the tool.
LEMMA ParseType == ASSUME NEW d \in Datagrams PROVE Parse(d) \in Requested \cup {NoMessage}
  <1> DEFINE whole == {Serialize(m) : m \in ToolMessages}
                        \cup {<<type, Seqno>> : type \in MessageTypes \ Requests}
  <1>1. PICK w \in whole : \/ \E n \in 0 .. Len(w) : d = SubSeq(w, 1, n)
                           \/ d = Append(w, "more")
    BY DEF Datagrams
  <1>2. CASE w \in {Serialize(m) : m \in ToolMessages}
    <2>1. PICK m \in ToolMessages : w = <<m.type, Seqno, m.prefix, m.ip>>
      BY <1>2 DEF Serialize, ToolMessages
    <2>2. m.type \in Requests /\ m.prefix \in Lens /\ m.ip \in Addresses
      BY DEF ToolMessages
    <2> DEFINE S == {m.type, Seqno, m.prefix, m.ip, "more"}
    <2>3. /\ w \in Seq(S) /\ Len(w) = 4
          /\ w[1] = m.type /\ w[2] = Seqno /\ w[3] = m.prefix /\ w[4] = m.ip
          /\ \A i \in 1 .. 4 : w[i] \in S
      BY <2>1
    <2>4. ASSUME Len(d) >= 4
          PROVE  d[1] = w[1] /\ d[2] = w[2] /\ d[3] = w[3] /\ d[4] = w[4]
      <3> HIDE DEF S
      <3>1. ASSUME NEW n \in 0 .. 4, d = SubSeq(w, 1, n)
            PROVE  d[1] = w[1] /\ d[2] = w[2] /\ d[3] = w[3] /\ d[4] = w[4]
        <4>1. \A i \in 1 .. n : w[i] \in S
          BY <2>3
        <4>2. /\ Len(d) = IF 1 <= n THEN n - 1 + 1 ELSE 0
              /\ \A i \in 1 .. n - 1 + 1 : d[i] = w[1 + i - 1]
          BY <3>1, <4>1, SubSeqProperties
        <4>3. n = 4
          BY <2>4, <4>2
        <4>4. QED
          BY <4>2, <4>3
      <3>2. ASSUME d = Append(w, "more")
            PROVE  d[1] = w[1] /\ d[2] = w[2] /\ d[3] = w[3] /\ d[4] = w[4]
        <4>1. "more" \in S
          BY DEF S
        <4>2. \A i \in 1 .. 4 : d[i] = w[i]
          BY <2>3, <3>2, <4>1, AppendProperties
        <4>3. QED
          BY <4>2
      <3>3. QED
        BY <1>1, <2>3, <3>1, <3>2
    <2>5. QED
      BY <2>2, <2>3, <2>4 DEF Parse, Requested
  <1>3. CASE w \in {<<type, Seqno>> : type \in MessageTypes \ Requests}
    <2>1. PICK type \in MessageTypes \ Requests : w = <<type, Seqno>>
      BY <1>3
    <2> DEFINE S == {type, Seqno, "more"}
    <2>2. w \in Seq(S) /\ Len(w) = 2 /\ \A i \in 1 .. 2 : w[i] \in S
      BY <2>1
    <2>3. Len(d) < 4
      <3>1. "more" \in S
        OBVIOUS
      <3> HIDE DEF S
      <3>2. ASSUME NEW n \in 0 .. 2, d = SubSeq(w, 1, n) PROVE Len(d) < 4
        <4>1. \A i \in 1 .. n : w[i] \in S
          BY <2>2
        <4>2. Len(d) = IF 1 <= n THEN n - 1 + 1 ELSE 0
          BY <3>2, <4>1, SubSeqProperties
        <4>3. QED
          BY <4>2
      <3>3. ASSUME d = Append(w, "more") PROVE Len(d) < 4
        BY <2>1, <3>3, OneMore
      <3>4. QED
        BY <1>1, <2>2, <3>2, <3>3
    <2>4. QED
      BY <2>3 DEF Parse
  <1>4. QED
    BY <1>1, <1>2, <1>3

-----------------------------------------------------------------------------
\* The types of the variables, as the steps below use them.
LEMMA Typed ==
    ASSUME IInv
    PROVE  /\ entries \in SetType /\ call \in [Threads -> Calls] /\ balance \in [Prefixes -> Int]
           /\ server \in [at : {"receive", "process", "answer"}, good : BOOLEAN,
                          msg : Requested \cup {NoMessage}]
           /\ \A t \in Threads : call[t].addr \in Addresses /\ call[t].len \in 0 .. AddrBits
           /\ server.msg.msg = "RCS_ADD" \/ server.msg.msg = "RCS_DEL" =>
                 server.msg.ip \in Addresses /\ server.msg.pfx_len \in Nat
  <1>1. /\ entries \in SetType /\ call \in [Threads -> Calls] /\ balance \in [Prefixes -> Int]
        /\ server \in [at : {"receive", "process", "answer"}, good : BOOLEAN,
                       msg : Requested \cup {NoMessage}]
    BY DEF IInv, ServerTypeOK, TypeOK, SetType, Requested
  <1>2. \A t \in Threads : call[t].addr \in Addresses /\ call[t].len \in 0 .. AddrBits
    BY <1>1 DEF Calls
  <1>3. server.msg \in Requested \/ server.msg.msg = "none"
    BY <1>1 DEF NoMessage
  <1>4. QED
    BY <1>1, <1>2, <1>3, RcsInputs DEF Requested

\* The first half of aodvv2_rcs_add.
LEMMA MatchesStep ==
    ASSUME IInv, NEW t \in Threads, NEW a \in Addresses, NEW len \in Nat, AddMatches(t, a, len)
    PROVE  /\ UNCHANGED <<entries, balance>> /\ call[t] = NoCall /\ Running(t)
           /\ \/ call' = call /\ Holding(PrefixOf(a, len)) # {}
              \/ call' = [call EXCEPT ![t] = [op |-> "add", addr |-> a,
                                              len |-> ClampLen(len), found |-> 0]]
           /\ call' \in [Threads -> Calls]
  <1>1. /\ UNCHANGED <<entries, balance>> /\ call[t] = NoCall /\ Running(t)
        /\ call' = IF aodvv2_rcs_matches(entries, a, len) # 0 THEN call
                   ELSE [call EXCEPT ![t] = [op |-> "add", addr |-> a,
                                             len |-> ClampLen(len), found |-> 0]]
    BY DEF AddMatches
  <1>2. aodvv2_rcs_matches(entries, a, len) # 0 => Holding(PrefixOf(a, len)) # {}
    BY Typed, MatchesFindsPrefix DEF IInv
  <1>3. [op |-> "add", addr |-> a, len |-> ClampLen(len), found |-> 0] \in Calls
    BY Clamped, RcsAssumption DEF Calls
  <1>4. QED
    BY <1>1, <1>2, <1>3, Typed

\* Its second half.
LEMMA StoreStep ==
    ASSUME IInv, NEW t \in Threads, AddStore(t)
    PROVE  /\ entries' \in SetType /\ Canonical' /\ NoLostUpdate'
           /\ balance' \in [Prefixes -> Int]
           /\ call' = [call EXCEPT ![t] = NoCall] /\ call' \in [Threads -> Calls]
           /\ \A p \in Prefixes : Holding(p) \subseteq Holding(p)'
           /\ IF FreeClientSlot(entries) = 0 THEN entries' = entries
              ELSE \A p \in Prefixes :
                      p = PrefixOf(call[t].addr, call[t].len) => Holding(p)' # {}
  <1> PICK i, P : i = FreeClientSlot(entries) /\ P = PrefixOf(call[t].addr, call[t].len)
    OBVIOUS
  <1>1. /\ call' = [call EXCEPT ![t] = NoCall]
        /\ IF i # 0
           THEN /\ entries' = FillClient(entries, i, call[t].addr, call[t].len, ClientCost)
                /\ balance' = [balance EXCEPT ![P] = @ + 1]
           ELSE UNCHANGED <<entries, balance>>
    BY DEF AddStore
  <1>2. /\ entries \in SetType /\ Canonical /\ balance \in [Prefixes -> Int] /\ NoLostUpdate
        /\ call[t].addr \in Addresses /\ call[t].len \in 0 .. AddrBits
        /\ call \in [Threads -> Calls]
    BY Typed DEF IInv
  <1>3. call' \in [Threads -> Calls]
    <2>1. NoCall \in Calls
      BY RcsAssumption DEF NoCall, Calls, Unspecified, Addresses
    <2>2. QED
      BY <1>1, <1>2, <2>1
  <1>4. P \in Prefixes
    BY <1>2, PrefixType, RcsAssumption
  <1>5. CASE i = 0
    BY <1>1, <1>2, <1>3, <1>5 DEF Canonical, NoLostUpdate, Holding
  <1>6. CASE i # 0
    <2>1. i \in RcsSlots /\ ~entries[i].used
      BY <1>6, FreeSlot
    <2>2. /\ entries' \in SetType /\ Canonical'
          /\ \A p \in Prefixes \ {P} : Holding(p)' = Holding(p)
          /\ Holding(P)' = Holding(P) \cup {i} /\ i \notin Holding(P)
      BY <1>1, <1>2, <1>6, <2>1, StoreKeeps
    <2>3. balance' \in [Prefixes -> Int] /\ balance'[P] = balance[P] + 1
          /\ \A p \in Prefixes \ {P} : balance'[p] = balance[p]
      BY <1>1, <1>2, <1>4, <1>6
    <2>4. Cardinality(Holding(P)') = Cardinality(Holding(P)) + 1
      <3>1. Holding(P) \in SUBSET RcsSlots
        BY DEF Holding
      <3>2. QED
        BY <2>2, <3>1, Counting
    <2>5. NoLostUpdate'
      <3>1. ASSUME NEW p \in Prefixes PROVE Cardinality(Holding(p))' = balance'[p]
        <4>1. CASE p = P
          BY <1>2, <1>4, <2>3, <2>4, <4>1 DEF NoLostUpdate
        <4>2. CASE p # P
          <5>1. Holding(p)' = Holding(p) /\ balance'[p] = balance[p]
            BY <2>2, <2>3, <4>2
          <5>2. QED
            BY <1>2, <5>1 DEF NoLostUpdate
        <4>3. QED
          BY <4>1, <4>2
      <3>2. QED
        BY <3>1 DEF NoLostUpdate
    <2>6. \A p \in Prefixes : Holding(p) \subseteq Holding(p)'
      BY <2>2
    <2>7. QED
      BY <1>1, <1>3, <1>6, <2>2, <2>3, <2>5, <2>6
  <1>7. QED
    BY <1>5, <1>6

\* aodvv2_rcs_del: the entry found is cleared.
LEMMA ClearStep ==
    ASSUME IInv, DelClear
    PROVE  /\ entries' \in SetType /\ Canonical' /\ NoLostUpdate'
           /\ balance' \in [Prefixes -> Int]
           /\ call' = [call EXCEPT !["vaina"] = NoCall] /\ call' \in [Threads -> Calls]
  <1> PICK i, P : i = call["vaina"].found /\ P = PrefixOf(call["vaina"].addr, call["vaina"].len)
    OBVIOUS
  <1>1. /\ call["vaina"].op = "del"
        /\ entries' = ClearClient(entries, i)
        /\ balance' = [balance EXCEPT ![P] = @ - 1]
        /\ call' = [call EXCEPT !["vaina"] = NoCall]
    BY DEF DelClear
  <1>2. /\ entries \in SetType /\ Canonical /\ balance \in [Prefixes -> Int] /\ NoLostUpdate
        /\ call["vaina"].addr \in Addresses /\ call["vaina"].len \in 0 .. AddrBits
        /\ call \in [Threads -> Calls] /\ i \in Holding(P)
    BY <1>1, Typed DEF IInv, Threads, DelPointerStillValid
  <1>3. call' \in [Threads -> Calls]
    <2>1. NoCall \in Calls
      BY RcsAssumption DEF NoCall, Calls, Unspecified, Addresses
    <2>2. QED
      BY <1>1, <1>2, <2>1
  <1>4. P \in Prefixes
    BY <1>2, PrefixType, RcsAssumption
  <1>5. /\ entries' \in SetType /\ Canonical'
        /\ \A q \in Prefixes \ {P} : Holding(q)' = Holding(q)
        /\ Holding(P)' = Holding(P) \ {i}
    BY <1>1, <1>2, <1>4, ClearKeeps
  <1>6. balance' \in [Prefixes -> Int] /\ balance'[P] = balance[P] - 1
        /\ \A p \in Prefixes \ {P} : balance'[p] = balance[p]
    BY <1>1, <1>2, <1>4
  <1>7. Cardinality(Holding(P)') = Cardinality(Holding(P)) - 1
    <2>1. Holding(P) \in SUBSET RcsSlots
      BY DEF Holding
    <2>2. QED
      BY <1>2, <1>5, <2>1, Counting
  <1>8. NoLostUpdate'
    <2>1. ASSUME NEW p \in Prefixes PROVE Cardinality(Holding(p))' = balance'[p]
      <3>1. CASE p = P
        BY <1>2, <1>4, <1>6, <1>7, <3>1 DEF NoLostUpdate
      <3>2. CASE p # P
        <4>1. Holding(p)' = Holding(p) /\ balance'[p] = balance[p]
          BY <1>5, <1>6, <3>2
        <4>2. QED
          BY <1>2, <4>1 DEF NoLostUpdate
      <3>3. QED
        BY <3>1, <3>2
    <2>2. QED
      BY <2>1 DEF NoLostUpdate
  <1>9. QED
    BY <1>1, <1>3, <1>5, <1>6, <1>8

\* As long as the set does not change, all that is said about it stays true.
LEMMA SetUnchanged ==
    ASSUME UNCHANGED <<entries, balance>>
    PROVE  /\ Canonical' <=> Canonical
           /\ NoLostUpdate' <=> NoLostUpdate
           /\ \A p : Holding(p)' = Holding(p)
  BY DEF Canonical, NoLostUpdate, Holding

\* The parts of the invariant that the steps of a server between two calls
\* and its answers have to keep.
LEMMA Collect ==
    ASSUME entries' \in SetType, call' \in [Threads -> Calls], balance' \in [Prefixes -> Int],
           server' \in [at : {"receive", "process", "answer"}, good : BOOLEAN,
                        msg : Requested \cup {NoMessage}],
           Canonical', NoLostUpdate', DelPointerStillValid', Calling', AcksAreTrue'
    PROVE  IInv'
  BY DEF IInv, ServerTypeOK, TypeOK, SetType, Requested

\* A step of the server that leaves the set and the calls alone.
LEMMA ServerStep ==
    ASSUME IInv, UNCHANGED vars, call["vaina"].op = "none",
           server' \in [at : {"receive", "process", "answer"}, good : BOOLEAN,
                        msg : Requested \cup {NoMessage}],
           server'.at = "answer" => server'.msg.msg # "RCS_ADD"
    PROVE  IInv'
  <1>1. UNCHANGED <<entries, call, balance>>
    BY DEF vars
  <1>2. Canonical' /\ NoLostUpdate'
    BY <1>1, SetUnchanged DEF IInv
  <1>3. DelPointerStillValid' /\ Calling'
    BY <1>1 DEF IInv, DelPointerStillValid, Calling
  <1>4. AcksAreTrue'
    BY DEF AcksAreTrue, AddAcked, Known
  <1>5. QED
    BY <1>1, <1>2, <1>3, <1>4, Typed, Collect

\* Every step of the server and of the shell preserves the invariant.
LEMMA IInvStep == IInv /\ [ServerNext]_serverVars => IInv'
  <1> SUFFICES ASSUME IInv, [ServerNext]_serverVars PROVE IInv'
    OBVIOUS
  <1> DEFINE ServerType == [at : {"receive", "process", "answer"}, good : BOOLEAN,
                            msg : Requested \cup {NoMessage}]
  <1>0. /\ entries \in SetType /\ call \in [Threads -> Calls] /\ balance \in [Prefixes -> Int]
        /\ server \in ServerType
        /\ Canonical /\ NoLostUpdate /\ DelPointerStillValid /\ Calling /\ AcksAreTrue
        /\ "vaina" \in Threads /\ "shell" \in Threads /\ NoCall.op = "none"
    BY Typed DEF IInv, Threads, NoCall
  <1>1. ASSUME NEW d \in Datagrams, NEW ours \in BOOLEAN, Receive(d, ours) PROVE IInv'
    <2>1. /\ server.at = "receive" /\ UNCHANGED vars
          /\ server' = IF ours /\ Parse(d) # NoMessage
                       THEN [at |-> "process", msg |-> Parse(d), good |-> TRUE]
                       ELSE Receiving
      BY <1>1 DEF Receive
    <2>2. server' \in ServerType /\ server'.at # "answer"
      BY <2>1, ParseType DEF Receiving
    <2>3. call["vaina"].op = "none"
      BY <1>0, <2>1 DEF Calling
    <2>4. QED
      BY <2>1, <2>2, <2>3, ServerStep
  <1>2. CASE RcsAdd
    <2> PICK ip, len, P : ip = server.msg.ip /\ len = server.msg.pfx_len /\ P = PrefixOf(ip, len)
      OBVIOUS
    <2>1. /\ server.at = "process" /\ server.msg.msg = "RCS_ADD" /\ call["vaina"] = NoCall
          /\ AddMatches("vaina", ip, len)
          /\ IF call'["vaina"] = NoCall THEN AnswerWith(FALSE) ELSE UNCHANGED server
      BY <1>2 DEF RcsAdd, AtProcess
    <2>2. ip \in Addresses /\ len \in Nat
      BY <2>1, Typed
    <2>3. /\ UNCHANGED <<entries, balance>>
          /\ \/ call' = call /\ Holding(P) # {}
             \/ call' = [call EXCEPT !["vaina"] = [op |-> "add", addr |-> ip,
                                                   len |-> ClampLen(len), found |-> 0]]
          /\ call' \in [Threads -> Calls]
      BY <1>0, <2>1, <2>2, MatchesStep
    <2>4. Canonical' /\ NoLostUpdate' /\ Holding(P)' = Holding(P)
      BY <1>0, <2>3, SetUnchanged
    <2>5. CASE call' = call /\ Holding(P) # {}
      <3>1. server' = [server EXCEPT !.at = "answer", !.good = FALSE]
        BY <2>1, <2>5 DEF AnswerWith
      <3>2. server' \in ServerType /\ server'.msg = server.msg /\ server'.good = FALSE
        BY <1>0, <3>1
      <3>3. DelPointerStillValid' /\ Calling'
        BY <1>0, <2>1, <2>5 DEF DelPointerStillValid, Calling
      <3>4. AcksAreTrue'
        BY <3>2 DEF AcksAreTrue, AddAcked
      <3>5. QED
        BY <1>0, <2>3, <2>4, <3>2, <3>3, <3>4, Collect
    <2>6. CASE call' = [call EXCEPT !["vaina"] = [op |-> "add", addr |-> ip,
                                                  len |-> ClampLen(len), found |-> 0]]
      <3>1. call'["vaina"] = [op |-> "add", addr |-> ip, len |-> ClampLen(len), found |-> 0]
            /\ call'["shell"] = call["shell"]
        BY <1>0, <2>6
      <3>2. UNCHANGED server
        <4>1. call'["vaina"].op = "add"
          BY <3>1
        <4>2. call'["vaina"] # NoCall
          BY <1>0, <4>1
        <4>3. QED
          BY <2>1, <4>2
      <3>3. DelPointerStillValid' /\ Calling' /\ AcksAreTrue'
        BY <1>0, <2>1, <3>1, <3>2 DEF DelPointerStillValid, Calling, AcksAreTrue, AddAcked, Known
      <3>4. QED
        BY <1>0, <2>3, <2>4, <3>2, <3>3, Collect
    <2>7. QED
      BY <2>3, <2>5, <2>6
  <1>3. CASE RcsAddRest
    <2> PICK P, good : /\ P = PrefixOf(server.msg.ip, server.msg.pfx_len)
                       /\ good = (FreeClientSlot(entries) # 0)
      OBVIOUS
    <2>1. /\ server.at = "process" /\ server.msg.msg = "RCS_ADD"
          /\ AddStore("vaina") /\ call["vaina"].op = "add"
          /\ server' = [server EXCEPT !.at = "answer", !.good = good]
      BY <1>3 DEF RcsAddRest, AtProcess, AnswerWith, AddStore
    <2>2. P \in Prefixes /\ P = PrefixOf(call["vaina"].addr, call["vaina"].len)
      BY <1>0, <2>1, Typed, PrefixType DEF Calling
    <2>3. /\ entries' \in SetType /\ Canonical' /\ NoLostUpdate' /\ balance' \in [Prefixes -> Int]
          /\ call' = [call EXCEPT !["vaina"] = NoCall] /\ call' \in [Threads -> Calls]
          /\ IF good THEN Holding(P)' # {} ELSE entries' = entries
      BY <1>0, <2>1, <2>2, StoreStep
    <2>4. call'["vaina"] = NoCall /\ call'["shell"] = call["shell"]
      BY <1>0, <2>3
    <2>5. /\ server' \in ServerType /\ server'.msg = server.msg /\ server'.good = good
      BY <1>0, <2>1
    <2>6. DelPointerStillValid' /\ Calling'
      BY <1>0, <2>4 DEF DelPointerStillValid, Calling
    <2>7. AcksAreTrue'
      <3>1. good => Holding(PrefixOf(server.msg.ip, server.msg.pfx_len))' # {}
        BY <2>3, <2>5 DEF Holding, PrefixOf
      <3>2. QED
        BY <2>5, <3>1 DEF AcksAreTrue, AddAcked, Known
    <2>8. QED
      BY <2>3, <2>5, <2>6, <2>7, Collect
  <1>4. CASE RcsDel
    <2> PICK ip, len, found : /\ ip = server.msg.ip /\ len = server.msg.pfx_len
                              /\ found = aodvv2_rcs_matches(entries, ip, len)
      OBVIOUS
    <2>1. /\ server.at = "process" /\ server.msg.msg = "RCS_DEL" /\ call["vaina"] = NoCall
          /\ \/ DelMatches(ip, len) /\ UNCHANGED server
             \/ AnswerWith(TRUE) /\ UNCHANGED vars
      BY <1>4 DEF RcsDel, AtProcess
    <2>2. CASE AnswerWith(TRUE) /\ UNCHANGED vars
      <3>1. server' = [server EXCEPT !.at = "answer", !.good = TRUE]
        BY <2>2 DEF AnswerWith
      <3>2. server' \in ServerType /\ server'.msg = server.msg
        BY <1>0, <3>1
      <3>3. server'.msg.msg # "RCS_ADD"
        BY <2>1, <3>2
      <3>4. QED
        BY <1>0, <2>1, <2>2, <3>2, <3>3, ServerStep
    <2>3. CASE DelMatches(ip, len) /\ UNCHANGED server
      <3>1. /\ found # 0 /\ UNCHANGED <<entries, balance>>
            /\ call' = [call EXCEPT !["vaina"] = [op |-> "del", addr |-> ip,
                                                  len |-> ClampLen(len), found |-> found]]
        BY <2>3 DEF DelMatches
      <3>2. ip \in Addresses /\ len \in Nat
        BY <2>1, Typed
      <3>3. found \in 0 .. RcsSize /\ found \in Holding(PrefixOf(ip, len))
        BY <1>0, <3>1, <3>2, MatchesFindsPrefix
      <3>4. found \in Holding(PrefixOf(ip, ClampLen(len)))
        BY <3>2, <3>3, PrefixType
      <3>5. [op |-> "del", addr |-> ip, len |-> ClampLen(len), found |-> found] \in Calls
        BY <3>2, <3>3, Clamped DEF Calls
      <3>6. /\ call' \in [Threads -> Calls] /\ call'["shell"] = call["shell"]
            /\ call'["vaina"] = [op |-> "del", addr |-> ip, len |-> ClampLen(len), found |-> found]
        BY <1>0, <3>1, <3>5
      <3>7. Canonical' /\ NoLostUpdate'
        BY <1>0, <3>1, SetUnchanged
      <3>8. DelPointerStillValid'
        <4>1. found \in Holding(PrefixOf(ip, ClampLen(len)))'
          BY <3>1, <3>4 DEF Holding
        <4>2. QED
          BY <3>6, <4>1 DEF DelPointerStillValid
      <3>9. Calling' /\ AcksAreTrue'
        BY <1>0, <2>1, <2>3, <3>6 DEF Calling, AcksAreTrue, AddAcked, Known
      <3>10. QED
        BY <1>0, <2>3, <3>1, <3>6, <3>7, <3>8, <3>9, Collect
    <2>4. QED
      BY <2>1, <2>2, <2>3
  <1>5. CASE RcsDelRest
    <2>1. /\ server.at = "process" /\ server.msg.msg = "RCS_DEL" /\ DelClear
          /\ server' = [server EXCEPT !.at = "answer", !.good = TRUE]
      BY <1>5 DEF RcsDelRest, AtProcess, AnswerWith
    <2>2. /\ entries' \in SetType /\ Canonical' /\ NoLostUpdate' /\ balance' \in [Prefixes -> Int]
          /\ call' = [call EXCEPT !["vaina"] = NoCall] /\ call' \in [Threads -> Calls]
      BY <2>1, ClearStep
    <2>3. call'["vaina"] = NoCall /\ call'["shell"] = call["shell"]
      BY <1>0, <2>2
    <2>4. server' \in ServerType /\ server'.msg = server.msg
      BY <1>0, <2>1
    <2>5. DelPointerStillValid' /\ Calling' /\ AcksAreTrue'
      BY <1>0, <2>1, <2>3, <2>4 DEF DelPointerStillValid, Calling, AcksAreTrue, AddAcked, Known
    <2>6. QED
      BY <2>2, <2>4, <2>5, Collect
  <1>6. CASE NibAdd \/ NibDel
    <2>1. PICK good \in BOOLEAN :
             /\ server.at = "process" /\ server.msg.msg \in {"NIB_ADD", "NIB_DEL"}
             /\ server' = [server EXCEPT !.at = "answer", !.good = good] /\ UNCHANGED vars
      BY <1>6 DEF NibAdd, NibDel, AtProcess, AnswerWith
    <2>2. server' \in ServerType /\ server'.msg = server.msg
      BY <1>0, <2>1
    <2>3. server'.msg.msg # "RCS_ADD"
      BY <2>1, <2>2
    <2>4. call["vaina"].op = "none"
      <3>1. call["vaina"].op \in {"none", "add", "del"}
        BY <1>0 DEF Calls
      <3>2. QED
        BY <1>0, <2>1, <3>1 DEF Calling
    <2>5. QED
      BY <2>1, <2>2, <2>3, <2>4, ServerStep
  <1>7. CASE SendAck
    <2>1. server.at = "answer" /\ server' = Receiving /\ UNCHANGED vars
      BY <1>7 DEF SendAck
    <2>2. server' \in ServerType /\ server'.at # "answer"
      BY <2>1 DEF Receiving
    <2>3. call["vaina"].op = "none"
      BY <1>0, <2>1 DEF Calling
    <2>4. QED
      BY <2>1, <2>2, <2>3, ServerStep
  <1>8. ASSUME NEW addr \in Addresses, NEW len \in Lens, AddMatches("shell", addr, len),
               UNCHANGED server
        PROVE  IInv'
    <2>1. len \in Nat
      BY RcsInputs
    <2>2. /\ UNCHANGED <<entries, balance>>
          /\ \/ call' = call
             \/ call' = [call EXCEPT !["shell"] = [op |-> "add", addr |-> addr,
                                                   len |-> ClampLen(len), found |-> 0]]
          /\ call' \in [Threads -> Calls]
      BY <1>0, <1>8, <2>1, MatchesStep
    <2>3. call'["vaina"] = call["vaina"] /\ call'["shell"].op \in {"none", "add"}
      BY <1>0, <2>2 DEF Calling
    <2>4. Canonical' /\ NoLostUpdate'
      BY <1>0, <2>2, SetUnchanged
    <2>5. DelPointerStillValid'
      BY <1>0, <2>2, <2>3 DEF DelPointerStillValid, Holding
    <2>6. Calling'
      BY <1>0, <1>8, <2>3 DEF Calling
    <2>7. AcksAreTrue'
      BY <1>0, <1>8, <2>2 DEF AcksAreTrue, AddAcked, Known, Holding
    <2>8. QED
      BY <1>0, <1>8, <2>2, <2>4, <2>5, <2>6, <2>7, Collect
  <1>9. ASSUME AddStore("shell"), UNCHANGED server PROVE IInv'
    <2>1. /\ entries' \in SetType /\ Canonical' /\ NoLostUpdate' /\ balance' \in [Prefixes -> Int]
          /\ call' = [call EXCEPT !["shell"] = NoCall] /\ call' \in [Threads -> Calls]
          /\ \A p \in Prefixes : Holding(p) \subseteq Holding(p)'
          /\ FreeClientSlot(entries) = 0 => entries' = entries
      BY <1>0, <1>9, StoreStep
    <2>2. call'["vaina"] = call["vaina"] /\ call'["shell"] = NoCall
      BY <1>0, <2>1
    <2>3. DelPointerStillValid'
      <3>1. ASSUME call["vaina"].op = "del"
            PROVE  call'["vaina"].found \in
                      Holding(PrefixOf(call["vaina"].addr, call["vaina"].len))'
        <4> PICK P : P = PrefixOf(call["vaina"].addr, call["vaina"].len)
          OBVIOUS
        <4>1. P \in Prefixes
          BY <1>0, Typed, PrefixType, RcsAssumption
        <4>2. call'["vaina"].found \in Holding(P)'
          BY <1>0, <2>1, <2>2, <3>1, <4>1 DEF DelPointerStillValid
        <4>3. QED
          BY <2>2, <4>2 DEF Holding, PrefixOf
      <3>2. QED
        BY <2>2, <3>1 DEF DelPointerStillValid
    <2>4. Calling'
      BY <1>0, <1>9, <2>2 DEF Calling
    <2>5. AcksAreTrue'
      <3>1. ASSUME server.at = "answer", server.msg.msg = "RCS_ADD", server.good = TRUE
            PROVE  Holding(PrefixOf(server.msg.ip, server.msg.pfx_len))' # {}
        <4> PICK P : P = PrefixOf(server.msg.ip, server.msg.pfx_len)
          OBVIOUS
        <4>1. P \in Prefixes
          BY <3>1, Typed, PrefixType
        <4>2. Holding(P) # {}
          BY <1>0, <3>1 DEF AcksAreTrue, AddAcked, Known
        <4>3. Holding(P)' # {}
          BY <2>1, <4>1, <4>2
        <4>4. QED
          BY <1>9, <4>3 DEF Holding, PrefixOf
      <3>2. QED
        BY <1>9, <3>1 DEF AcksAreTrue, AddAcked, Known
    <2>6. QED
      BY <1>0, <1>9, <2>1, <2>3, <2>4, <2>5, Collect
  <1>10. CASE UNCHANGED serverVars
    <2>1. UNCHANGED <<entries, call, balance, server>>
      BY <1>10 DEF serverVars
    <2>2. Canonical' /\ NoLostUpdate'
      BY <1>0, <2>1, SetUnchanged
    <2>3. DelPointerStillValid' /\ Calling' /\ AcksAreTrue'
      BY <1>0, <2>1 DEF DelPointerStillValid, Calling, AcksAreTrue, AddAcked, Known, Holding
    <2>4. QED
      BY <1>0, <2>1, <2>2, <2>3, Collect
  <1>11. QED
    BY <1>1, <1>2, <1>3, <1>4, <1>5, <1>6, <1>7, <1>8, <1>9, <1>10 DEF ServerNext, Handle, Shell

\* The initial states satisfy the invariant.
LEMMA IInvInit == ServerInit => IInv
  <1> SUFFICES ASSUME ServerInit PROVE IInv
    OBVIOUS
  <1>1. /\ entries = [i \in RcsSlots |-> BlankClient] /\ call = [t \in Threads |-> NoCall]
        /\ balance = [p \in Prefixes |-> 0] /\ server = Receiving
    BY DEF ServerInit, Init, aodvv2_rcs_init
  <1>2. Unspecified \in Addresses
    BY DEF Unspecified, Addresses
  <1>3. ServerTypeOK
    BY <1>1, <1>2, RcsAssumption
    DEF ServerTypeOK, TypeOK, BlankClient, NoCall, Calls, Receiving, ClientCost
  <1>4. Canonical /\ \A p \in Prefixes : Holding(p) = {}
    BY <1>1 DEF Canonical, BlankClient, Holding
  <1>5. NoLostUpdate
    BY <1>1, <1>4, FS_EmptySet DEF NoLostUpdate
  <1>6. DelPointerStillValid /\ Calling /\ AcksAreTrue
    BY <1>1 DEF DelPointerStillValid, Calling, AcksAreTrue, AddAcked, Known, NoCall, Receiving, Threads
  <1>7. QED
    BY <1>3, <1>4, <1>5, <1>6 DEF IInv

\* The invariant holds in every reachable state.
LEMMA Invariance == ServerSpec => []IInv
  BY IInvInit, IInvStep, PTL DEF ServerSpec

-----------------------------------------------------------------------------
(***************************************************************************)
(* Type correctness of the server: the client set, the counters and the    *)
(* state of every call in progress stay in their types, so the pointer a   *)
(* call goes on with is NULL or that of a slot, whatever datagrams arrive  *)
(* and whatever other threads do meanwhile.                                *)
(***************************************************************************)
THEOREM ServerTypeCorrect == ServerSpec => []ServerTypeOK
  <1>1. IInv => ServerTypeOK
    BY DEF IInv
  <1>2. QED
    BY <1>1, Invariance, PTL

(***************************************************************************)
(* aodvv2_rcs_add and aodvv2_rcs_del from two threads: a prefix is in the  *)
(* set exactly as often as it was added and not deleted.                   *)
(***************************************************************************)
THEOREM NoUpdateIsLost == ServerSpec => []NoLostUpdate
  <1>1. IInv => NoLostUpdate
    BY DEF IInv
  <1>2. QED
    BY <1>1, Invariance, PTL

(***************************************************************************)
(* aodvv2_rcs_del: the pointer it holds without the mutex leads to an      *)
(* entry of the client to delete until that is cleared.                    *)
(***************************************************************************)
THEOREM DelPointerStaysValid == ServerSpec => []DelPointerStillValid
  <1>1. IInv => DelPointerStillValid
    BY DEF IInv
  <1>2. QED
    BY <1>1, Invariance, PTL

(***************************************************************************)
(* _vaina_thread: the client is in the set when the ACK to its addition is *)
(* sent, whatever the shell did since that was decided.                    *)
(***************************************************************************)
THEOREM AcksStayTrue == ServerSpec => []AcksAreTrue
  <1>1. IInv => AcksAreTrue
    BY DEF IInv
  <1>2. QED
    BY <1>1, Invariance, PTL

(***************************************************************************)
(* aodvv2_rcs_is_client answers for the prefixes that were added and not   *)
(* deleted, for addresses of any length.                                   *)
(***************************************************************************)
THEOREM ClientsArePrefixes == ServerSpec => []ClientsAreThePrefixes
  <1>1. IInv => ClientsAreThePrefixes
    <2> SUFFICES ASSUME IInv, NEW a \in Addresses
                 PROVE  aodvv2_rcs_is_client(entries, a) # 0
                           <=> \E p \in Prefixes : balance[p] > 0 /\ SameBits(a, p.addr, p.len)
      BY DEF ClientsAreThePrefixes, SameBits
    <2> DEFINE S == {i \in RcsSlots :
                       /\ entries[i].used
                       /\ ipv6_addr_match_prefix(entries[i].addr, a) >= entries[i].pfx_len}
    <2>1. aodvv2_rcs_is_client(entries, a) # 0 <=> S # {}
      <3>1. S \in SUBSET (1 .. RcsSize) /\ RcsSize \in Nat
        BY RcsAssumption DEF RcsSlots
      <3>2. aodvv2_rcs_is_client(entries, a) = FirstOrNone(S)
        BY DEF aodvv2_rcs_is_client
      <3> HIDE DEF S
      <3>3. QED
        BY <3>1, <3>2, WalkResult
    <2>2. entries \in SetType /\ balance \in [Prefixes -> Int] /\ Canonical /\ NoLostUpdate
      BY Typed DEF IInv
    <2>3. ASSUME NEW i \in RcsSlots, entries[i].used
          PROVE  /\ entries[i].addr \in Addresses /\ entries[i].pfx_len \in 0 .. AddrBits
                 /\ i \in S <=> SameBits(a, entries[i].addr, entries[i].pfx_len)
                 /\ [addr |-> entries[i].addr, len |-> entries[i].pfx_len] \in Prefixes
      <3>1. entries[i].addr \in Addresses /\ entries[i].pfx_len \in 0 .. AddrBits
        BY <2>2 DEF SetType
      <3>2. i \in S <=> SameBits(entries[i].addr, a, entries[i].pfx_len)
        BY <2>3, <3>1, MatchIsSameBits
      <3>3. entries[i].addr = ipv6_addr_init_prefix(entries[i].addr, entries[i].pfx_len)
        BY <2>2, <2>3 DEF Canonical
      <3>4. [addr |-> entries[i].addr, len |-> entries[i].pfx_len] \in Prefixes
        BY <3>1, <3>3 DEF Prefixes
      <3>5. QED
        BY <3>1, <3>2, <3>4 DEF SameBits
    <2>4. ASSUME NEW p \in Prefixes PROVE balance[p] > 0 <=> Holding(p) # {}
      <3>1. Holding(p) \in SUBSET RcsSlots
        BY DEF Holding
      <3>2. Cardinality(Holding(p)) \in Nat /\ (Cardinality(Holding(p)) = 0 <=> Holding(p) = {})
        BY <3>1, Counting
      <3>3. Cardinality(Holding(p)) = balance[p]
        BY <2>2 DEF NoLostUpdate
      <3>4. QED
        BY <3>2, <3>3
    <2>5. ASSUME NEW i \in S
          PROVE  \E p \in Prefixes : balance[p] > 0 /\ SameBits(a, p.addr, p.len)
      <3> PICK p : p = [addr |-> entries[i].addr, len |-> entries[i].pfx_len]
        OBVIOUS
      <3>1. i \in RcsSlots /\ entries[i].used
        OBVIOUS
      <3>2. p \in Prefixes /\ SameBits(a, p.addr, p.len)
        BY <2>3, <3>1
      <3>3. i \in Holding(p)
        BY <3>1 DEF Holding
      <3>4. QED
        BY <2>4, <3>2, <3>3
    <2>6. ASSUME NEW p \in Prefixes, balance[p] > 0, SameBits(a, p.addr, p.len) PROVE S # {}
      <3>1. PICK i : i \in Holding(p)
        BY <2>4, <2>6
      <3>2. i \in RcsSlots /\ entries[i].used /\ entries[i].addr = p.addr /\ entries[i].pfx_len = p.len
        BY <3>1 DEF Holding
      <3>3. i \in S
        BY <2>3, <2>6, <3>2
      <3>4. QED
        BY <3>3
    <2>7. QED
      BY <2>1, <2>5, <2>6
  <1>2. QED
    BY <1>1, Invariance, PTL
=============================================================================
