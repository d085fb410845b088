---------------------------- MODULE Rfc5444Proofs ----------------------------
(***************************************************************************)
(* Proofs about the RFC 5444 reader, for any packets of octets, any        *)
(* consumers registered in any order, and whatever the callbacks return;   *)
(* and about what is registered with the writer, in any order too.         *)
(*                                                                         *)
(* The parser: its loops are recursive functions, and what they compute is *)
(* found by looking at the first turn that would not do (LeastOf): the     *)
(* turns are what their definition says (TlvTurnsAre), each takes an octet *)
(* and stays in the packet (LoopGoesOn), so that a TLV block is read to    *)
(* its end, and every message brings the reader forward.                   *)
(*                                                                         *)
(* The callbacks: what a callback that returned still means depends on     *)
(* where the reader is (CallOk).  The packet was dropped: the reader is on *)
(* its way out with that result.  A message was dropped: likewise, as long *)
(* as it is the one at hand; messages are told apart by where they begin,  *)
(* which is why every message has to bring the reader forward.  An address *)
(* was dropped: it is in the set that the reader asks, or is being left.   *)
(* Every callback is then one that may follow all of the former ones.      *)
(*                                                                         *)
(* Starts and ends: the trees are in order and hold each consumer once     *)
(* (Trees), the place of the reader says whose turn it is (Turn) and so    *)
(* whose end is due (Within) and whose start may still come (Ahead); the   *)
(* callbacks made so far are counted by that (Told).  A callback for       *)
(* another leaves the counts of those it is not for, and a step that       *)
(* tells nothing changes neither what is due nor what may come.            *)
(*                                                                         *)
(* The writer: its lists share no TLV type and hold each thing once        *)
(* (SetupOk), and every message type that is there is needed (AllNeeded).  *)
(* What is taken out is gone from all lists, and nothing else is (Less);   *)
(* a loop takes out what its turns do (LoopReaches), whichever message     *)
(* types are freed on the way.                                             *)
(***************************************************************************)
EXTENDS FiniteSetTheorems, SequenceTheorems, WellFoundedInduction, TLAPS, Rfc5444

\* A non-empty set of numbers has a least element.
LEMMA LeastOf ==
    ASSUME NEW S \in SUBSET Nat, S # {}
    PROVE  \E i \in S : \A j \in S : i <= j
  <1>1. PICK i \in S : \A j \in S : ~(<<j, i>> \in OpToRel(<, Nat))
    BY NatLessThanWellFounded, WFMin
  <1>2. ASSUME NEW j \in S PROVE i <= j
    <2>1. i \in Nat /\ j \in Nat /\ ~(<<j, i>> \in OpToRel(<, Nat))
      BY <1>1
    <2>2. QED
      BY <2>1 DEF OpToRel
  <1>3. QED
    BY <1>2

-----------------------------------------------------------------------------
\* The first turns of a loop of TakeTlv from zero are the numbers of h.
Turns(h, m, zero, buf, end, eob, addr_count) ==
    \A n \in 0 .. m : h[n] = IF n = 0 THEN zero ELSE TakeTlv(buf, end, eob, addr_count, h[n - 1])

\* The turns are determined.
LEMMA TurnsUnique ==
    ASSUME NEW buf, NEW end, NEW eob, NEW addr_count, NEW zero, NEW h, NEW g, NEW l \in Nat, NEW m \in Nat,
           Turns(h, l, zero, buf, end, eob, addr_count), Turns(g, m, zero, buf, end, eob, addr_count), l <= m
    PROVE  \A n \in 0 .. l : h[n] = g[n]
  <1> DEFINE Differ == {n \in 0 .. l : h[n] # g[n]}
  <1>1. CASE Differ = {}
    BY <1>1
  <1>2. CASE Differ # {}
    <2>0. Differ \in SUBSET Nat
      OBVIOUS
    <2>1. PICK n \in Differ : \A j \in Differ : n <= j
      BY <1>2, <2>0, LeastOf
    <2>2. n \in 0 .. l /\ n \in 0 .. m /\ h[n] # g[n]
      BY <2>1
    <2>3. n # 0
      <3>1. h[0] = zero /\ g[0] = zero
        BY DEF Turns
      <3>2. QED
        BY <2>2, <3>1
    <2>4. n - 1 \in 0 .. l /\ n - 1 \notin Differ
      BY <2>1, <2>2, <2>3
    <2>5. h[n - 1] = g[n - 1]
      BY <2>4
    <2>6. QED
      BY <2>2, <2>3, <2>5 DEF Turns
  <1>3. QED
    BY <1>1, <1>2

\* There are any number of turns.
LEMMA TurnsGoOn ==
    ASSUME NEW buf, NEW end, NEW eob, NEW addr_count, NEW zero
    PROVE  \A m \in Nat : \E h : Turns(h, m, zero, buf, end, eob, addr_count)
  <1> DEFINE T(h, m) == Turns(h, m, zero, buf, end, eob, addr_count)
             Missing == {m \in Nat : ~ \E h : T(h, m)}
  <1>1. CASE Missing = {}
    BY <1>1
  <1>2. CASE Missing # {}
    <2>1. PICK m \in Missing : \A j \in Missing : m <= j
      BY <1>2, LeastOf
    <2>2. m \in Nat /\ ~ \E h : T(h, m)
      BY <2>1
    <2>3. CASE m = 0
      <3>1. T([n \in 0 .. 0 |-> zero], 0)
        BY DEF Turns
      <3>2. QED
        BY <2>2, <2>3, <3>1
    <2>4. CASE m # 0
      <3>1. m - 1 \in Nat /\ m - 1 \notin Missing
        BY <2>1, <2>2, <2>4
      <3>2. PICK h : T(h, m - 1)
        BY <3>1
      <3>3. PICK g : g = [n \in 0 .. m |-> IF n = m THEN TakeTlv(buf, end, eob, addr_count, h[m - 1])
                                           ELSE h[n]]
        OBVIOUS
      <3>4. ASSUME NEW n \in 0 .. m
            PROVE  g[n] = IF n = 0 THEN zero ELSE TakeTlv(buf, end, eob, addr_count, g[n - 1])
        <4>1. CASE n = m
          <5>1. n # 0 /\ n - 1 \in 0 .. m /\ n - 1 # m
            BY <2>2, <2>4, <4>1
          <5>2. g[n] = TakeTlv(buf, end, eob, addr_count, h[m - 1]) /\ g[n - 1] = h[m - 1]
            BY <3>3, <4>1, <5>1
          <5>3. QED
            BY <5>1, <5>2
        <4>2. CASE n # m
          <5>1. n \in 0 .. m - 1 /\ g[n] = h[n]
            BY <2>2, <3>3, <4>2
          <5>2. n # 0 => n - 1 \in 0 .. m - 1 /\ n - 1 \in 0 .. m /\ n - 1 # m
            BY <2>2, <5>1
          <5>3. n # 0 => g[n - 1] = h[n - 1]
            BY <3>3, <5>2
          <5>4. h[n] = IF n = 0 THEN zero ELSE TakeTlv(buf, end, eob, addr_count, h[n - 1])
            BY <3>2, <5>1 DEF Turns
          <5>5. QED
            BY <5>1, <5>3, <5>4
        <4>3. QED
          BY <4>1, <4>2
      <3>5. T(g, m)
        BY <3>4 DEF Turns
      <3>6. QED
        BY <2>2, <3>5
    <2>5. QED
      BY <2>3, <2>4
  <1>3. QED
    BY <1>1, <1>2

\* So the loop of _parse_tlvblock is what its definition says.
LEMMA TlvTurnsAre ==
    ASSUME NEW buf, NEW start, NEW end, NEW eob, NEW addr_count
    PROVE  \A m \in Nat : Turns(TlvTurns(buf, start, end, eob, addr_count), m,
                                [res |-> OKAY, p |-> start, stale |-> <<>>, tlvs |-> <<>>],
                                buf, end, eob, addr_count)
  <1> DEFINE Step(s) == TakeTlv(buf, end, eob, addr_count, s)
  <1> PICK zero : zero = [res |-> OKAY, p |-> start, stale |-> <<>>, tlvs |-> <<>>]
    OBVIOUS
  <1> DEFINE T(h, m) == Turns(h, m, zero, buf, end, eob, addr_count)
             IsLoop(h) == h = [n \in Nat |-> IF n = 0 THEN zero
                                ELSE Given(h[n - 1], LAMBDA s : TakeTlv(buf, end, eob, addr_count, s))]
             loop == TlvTurns(buf, start, end, eob, addr_count)
  <1>1. \A s : Given(s, LAMBDA t : TakeTlv(buf, end, eob, addr_count, t)) = Step(s)
    BY DEF Given
  <1>2. loop = CHOOSE h : IsLoop(h)
    BY Zenon DEF TlvTurns
  <1>3. \A n \in Nat : T(CHOOSE h : T(h, n), n)
    BY TurnsGoOn
  <1> PICK g : g = [n \in Nat |-> (CHOOSE h : T(h, n))[n]]
    OBVIOUS
  <1>4. ASSUME NEW n \in Nat PROVE g[n] = IF n = 0 THEN zero ELSE Step(g[n - 1])
    <2> PICK h : h = CHOOSE f : T(f, n)
      OBVIOUS
    <2>1. T(h, n) /\ g[n] = h[n] /\ n \in 0 .. n
      BY <1>3
    <2>2. h[n] = IF n = 0 THEN zero ELSE Step(h[n - 1])
      BY <2>1 DEF Turns
    <2>3. CASE n = 0
      BY <2>1, <2>2, <2>3
    <2>4. CASE n # 0
      <3>1. n - 1 \in Nat /\ n - 1 <= n /\ n - 1 \in 0 .. n - 1
        BY <2>4
      <3> PICK f : f = CHOOSE k : T(k, n - 1)
        OBVIOUS
      <3>2. T(f, n - 1) /\ g[n - 1] = f[n - 1]
        BY <1>3, <3>1
      <3>3. f[n - 1] = h[n - 1]
        BY <2>1, <3>1, <3>2, TurnsUnique
      <3>4. QED
        BY <2>1, <2>2, <2>4, <3>2, <3>3
    <2>5. QED
      BY <2>3, <2>4
  <1>5. IsLoop(g)
    <2>1. ASSUME NEW n \in Nat
          PROVE  g[n] = IF n = 0 THEN zero
                        ELSE Given(g[n - 1], LAMBDA s : TakeTlv(buf, end, eob, addr_count, s))
      BY <1>1, <1>4
    <2>2. g = [n \in Nat |-> g[n]]
      OBVIOUS
    <2>3. QED
      BY <2>1, <2>2
  <1>6. IsLoop(loop)
    <2> HIDE DEF IsLoop, loop
    <2>1. QED
      BY <1>2, <1>5
  <1>7. \A n \in Nat : loop[n] = IF n = 0 THEN zero ELSE Step(loop[n - 1])
    BY <1>1, <1>6
  <1>8. QED
    BY <1>7 DEF Turns

-----------------------------------------------------------------------------
\* What is read of a packet are numbers, behind its end too.
LEMMA ReadsNumbers ==
    ASSUME NEW buf \in Seq(Nat), NEW p \in Nat, NEW eob \in Int, eob <= Len(buf)
    PROVE  get_u8(buf, p, eob) \in Nat /\ get_u16(buf, p, eob) \in Nat
  <1>1. ASSUME NEW q \in Nat PROVE get_u8(buf, q, eob) \in Nat
    <2>1. CASE q < eob
      <3>1. q + 1 \in 1 .. Len(buf)
        BY <2>1
      <3>2. buf[q + 1] \in Nat
        BY <3>1
      <3>3. QED
        BY <2>1, <3>2 DEF get_u8
    <2>2. CASE ~(q < eob)
      BY <2>2 DEF get_u8
    <2>3. QED
      BY <2>1, <2>2
  <1>2. get_u8(buf, p, eob) \in Nat /\ get_u8(buf, p + 1, eob) \in Nat
    <2>1. p + 1 \in Nat
      OBVIOUS
    <2>2. QED
      BY <1>1, <2>1
  <1>3. QED
    BY <1>2 DEF get_u16

\* A TLV that was parsed has brought the reader forward and ends in front of eob.
LEMMA TlvEnds ==
    ASSUME NEW buf \in Seq(Nat), NEW p \in Nat, NEW eob \in Int, eob <= Len(buf),
           NEW addr_count, NEW stale, parse_tlv(buf, p, eob, addr_count, stale).res = OKAY
    PROVE  /\ parse_tlv(buf, p, eob, addr_count, stale).p \in Nat
           /\ parse_tlv(buf, p, eob, addr_count, stale).p > p
           /\ parse_tlv(buf, p, eob, addr_count, stale).p <= eob
  <1> PICK f : f = TlvFields(buf, p, eob, addr_count)
    OBVIOUS
  <1>1. f.p_val \in Nat /\ f.p_val > p
    BY DEF TlvFields
  <1>2. f.length \in Nat
    <2> DEFINE p_idx == p + 2 + (IF HasFlag(get_u8(buf, p + 1, eob), TYPEEXT) THEN 1 ELSE 0)
               p_len == p_idx + (IF HasFlag(get_u8(buf, p + 1, eob), SINGLE_IDX) THEN 1
                                 ELSE IF HasFlag(get_u8(buf, p + 1, eob), MULTI_IDX) THEN 2 ELSE 0)
    <2>1. p_len \in Nat
      OBVIOUS
    <2>2. get_u8(buf, p_len, eob) \in Nat /\ get_u16(buf, p_len, eob) \in Nat
      <3> HIDE DEF p_len
      <3>1. QED
        BY <2>1, ReadsNumbers
    <2>3. f.length \in {0, get_u8(buf, p_len, eob), get_u16(buf, p_len, eob)}
      BY DEF TlvFields
    <2>4. QED
      BY <2>2, <2>3
  <1> PICK got : got = parse_tlv(buf, p, eob, addr_count, stale)
    OBVIOUS
  <1>3. got.p = f.p_val + f.length /\ ~(f.p_val + f.length > eob)
    <2>1. got = CheckedTlv(buf, f, eob, addr_count, stale)
      BY DEF parse_tlv, Given
    <2>2. got.res = OKAY
      OBVIOUS
    <2>3. QED
      BY <2>1, <2>2 DEF CheckedTlv, Failed, OKAY, BAD_TLV_IDXFLAGS, BAD_TLV_INDEX,
             BAD_TLV_VALUEFLAGS, END_OF_BUFFER, BAD_TLV_LENGTH
  <1>4. QED
    BY <1>1, <1>2, <1>3

\* What a turn does with the TLV it has parsed.
LEMMA TlvTaken ==
    ASSUME NEW buf, NEW end, NEW eob, NEW addr_count, NEW s, s.res = OKAY, ~(s.p >= end),
           NEW got, got = parse_tlv(buf, s.p, eob, addr_count, s.stale)
    PROVE  TakeTlv(buf, end, eob, addr_count, s) = WithTlv(s, got)
  <1>1. Given(parse_tlv(buf, s.p, eob, addr_count, s.stale), LAMBDA g : WithTlv(s, g))
          = WithTlv(s, got)
    BY Zenon DEF Given
  <1>2. QED
    BY <1>1, Zenon DEF TakeTlv

\* As long as it finds no error, the loop of _parse_tlvblock stays in front of eob,
\* and takes an octet at least in every turn until it is at the end of the block.
LEMMA LoopGoesOn ==
    ASSUME NEW buf \in Seq(Nat), NEW start \in Nat, NEW end \in Nat, NEW eob \in Int,
           eob <= Len(buf), start <= eob, NEW addr_count, NEW n \in Nat,
           TlvTurns(buf, start, end, eob, addr_count)[n].res = OKAY
    PROVE  LET p == TlvTurns(buf, start, end, eob, addr_count)[n].p
           IN  p \in Nat /\ p <= eob /\ (p >= end \/ p >= start + n)
  <1> PICK turn : turn = TlvTurns(buf, start, end, eob, addr_count)
    OBVIOUS
  <1> DEFINE Fine(m) == /\ turn[m].p \in Nat /\ turn[m].p <= eob
                        /\ turn[m].p >= end \/ turn[m].p >= start + m
             Lost == {m \in Nat : turn[m].res = OKAY /\ ~Fine(m)}
  <1> PICK zero : zero = [res |-> OKAY, p |-> start, stale |-> <<>>, tlvs |-> <<>>]
    OBVIOUS
  <1>0. \A m \in Nat : Turns(turn, m, zero, buf, end, eob, addr_count)
    BY TlvTurnsAre
  <1>1. turn[0] = zero
    BY <1>0 DEF Turns
  <1>2. \A m \in Nat \ {0} : turn[m] = TakeTlv(buf, end, eob, addr_count, turn[m - 1])
    <2> SUFFICES ASSUME NEW m \in Nat \ {0}
                 PROVE  turn[m] = TakeTlv(buf, end, eob, addr_count, turn[m - 1])
      OBVIOUS
    <2>1. m \in Nat /\ m # 0 /\ m \in 0 .. m
      OBVIOUS
    <2>2. QED
      BY <1>0, <2>1 DEF Turns
  <1>3. CASE Lost = {}
    BY <1>3
  <1>4. CASE Lost # {}
    <2>1. PICK m \in Lost : \A j \in Lost : m <= j
      BY <1>4, LeastOf
    <2>2. m \in Nat /\ turn[m].res = OKAY /\ ~Fine(m)
      BY <2>1
    <2>3. m # 0
      BY <1>1, <2>2
    <2>4. m - 1 \in Nat /\ m - 1 \notin Lost
      <3>1. m - 1 \in Nat /\ ~(m <= m - 1)
        BY <2>2, <2>3
      <3>2. QED
        BY <2>1, <3>1, Zenon
    <2> PICK s : s = turn[m - 1]
      OBVIOUS
    <2>5. turn[m] = TakeTlv(buf, end, eob, addr_count, s)
      BY <1>2, <2>2, <2>3
    <2> PICK got : got = parse_tlv(buf, s.p, eob, addr_count, s.stale)
      OBVIOUS
    <2>6. CASE s.res # OKAY \/ s.p >= end
      <3>1. turn[m] = s
        BY <2>5, <2>6 DEF TakeTlv
      <3>2. s.res = OKAY /\ s.p \in Nat /\ s.p <= eob
        BY <2>2, <2>4, <3>1
      <3>3. turn[m].p = s.p /\ s.p >= end
        BY <2>6, <3>1, <3>2
      <3>4. Fine(m)
        BY <3>2, <3>3
      <3>5. QED
        BY <2>2, <3>4
    <2>7. CASE ~(s.res # OKAY \/ s.p >= end)
      <3>1. s.p \in Nat /\ s.p <= eob /\ s.p >= start + (m - 1)
        BY <2>4, <2>7
      <3>2. turn[m] = WithTlv(s, got)
        <4>1. s.res = OKAY /\ ~(s.p >= end)
          BY <2>7
        <4>2. QED
          BY <2>5, <4>1, TlvTaken
      <3>3. got.res = OKAY /\ turn[m].p = got.p
        BY <2>2, <3>2 DEF WithTlv, Failed
      <3>4. got.p \in Nat /\ got.p > s.p /\ got.p <= eob
        BY <3>1, <3>3, TlvEnds
      <3>5. got.p >= start + m
        BY <2>2, <3>1, <3>4
      <3>6. Fine(m)
        BY <3>3, <3>4, <3>5
      <3>7. QED
        BY <2>2, <3>6
    <2>8. QED
      BY <2>6, <2>7
  <1>5. QED
    BY <1>3, <1>4

\* A TLV block that was parsed has been read to the end its length field gives, and
\* not behind eob: as many turns as the block has octets are enough.
THEOREM TlvBlocksAreWhole ==
    ASSUME NEW buf \in Seq(Nat), NEW p \in Nat, NEW eob \in Int, eob <= Len(buf),
           NEW addr_count, parse_tlvblock(buf, p, eob, addr_count).res = OKAY
    PROVE  /\ parse_tlvblock(buf, p, eob, addr_count).p \in Nat
           /\ parse_tlvblock(buf, p, eob, addr_count).p >= p + 2 + get_u16(buf, p, eob)
           /\ parse_tlvblock(buf, p, eob, addr_count).p <= eob
  <1> PICK start, size, end : start = p + 2 /\ size = get_u16(buf, p, eob) /\ end = start + size
    OBVIOUS
  <1> PICK block : block = parse_tlvblock(buf, p, eob, addr_count)
    OBVIOUS
  <1>1. size \in Nat /\ start \in Nat /\ end \in Nat /\ end - start \in Nat
    <2>1. size \in Nat
      BY ReadsNumbers
    <2>2. QED
      BY <2>1
  <1>2. ~(end > eob)
    BY DEF parse_tlvblock, Failed, END_OF_BUFFER, OKAY
  <1>3. block = TlvTurns(buf, start, end, eob, addr_count)[end - start]
    BY <1>2 DEF parse_tlvblock
  <1>4. block.p \in Nat /\ block.p <= eob /\ block.p >= end
    <2> PICK n : n = end - start
      OBVIOUS
    <2>1. n \in Nat /\ TlvTurns(buf, start, end, eob, addr_count)[n].res = OKAY
      BY <1>1, <1>3
    <2>2. start <= eob /\ start + n = end
      BY <1>1, <1>2
    <2>3. block.p \in Nat /\ block.p <= eob /\ (block.p >= end \/ block.p >= start + n)
      BY <1>1, <1>3, <2>1, <2>2, LoopGoesOn, SMTT(30)
    <2>4. QED
      BY <2>2, <2>3
  <1>5. QED
    BY <1>1, <1>4

\* The messages of a packet begin in front of its end.
LEMMA HeaderEnds ==
    ASSUME NEW buf \in Seq(Nat), parse_pkt_header(buf).res = OKAY
    PROVE  parse_pkt_header(buf).p \in Nat /\ parse_pkt_header(buf).p <= Len(buf)
  <1> PICK hdr : hdr = parse_pkt_header(buf)
    OBVIOUS
  <1> PICK p, block : /\ p = 1 + (IF HasFlag(get_u8(buf, 0, Len(buf)), PKT_SEQNO) THEN 2 ELSE 0)
                      /\ block = parse_tlvblock(buf, p, Len(buf), 0)
    OBVIOUS
  <1>1. p \in Nat /\ Len(buf) \in Int /\ Len(buf) <= Len(buf)
    OBVIOUS
  <1>2. \/ hdr.p = p /\ ~(p > Len(buf))
        \/ block.res = OKAY /\ hdr.p = block.p
    <2>1. hdr = IF get_u8(buf, 0, Len(buf)) \div 16 # 0 THEN Failed(UNSUPPORTED_VERSION)
                ELSE IF p > Len(buf) THEN Failed(END_OF_BUFFER)
                ELSE IF HasFlag(get_u8(buf, 0, Len(buf)), PKT_TLV)
                THEN IF block.res # OKAY THEN Failed(block.res)
                     ELSE [res |-> OKAY, p |-> block.p, has_tlv |-> TRUE, tlvs |-> block.tlvs]
                ELSE [res |-> OKAY, p |-> p, has_tlv |-> FALSE, tlvs |-> <<>>]
      <3>1. Given(block, LAMBDA b : WithPktTlvs(b)) = WithPktTlvs(block)
        BY DEF Given
      <3>2. QED
        BY <3>1 DEF parse_pkt_header, WithPktTlvs
    <2>2. QED
      BY <2>1 DEF Failed, OKAY, UNSUPPORTED_VERSION, END_OF_BUFFER
  <1>3. block.res = OKAY => block.p \in Nat /\ block.p <= Len(buf)
    BY <1>1, TlvBlocksAreWhole
  <1>4. QED
    BY <1>1, <1>2, <1>3

\* A message that was parsed begins where the reader is, and ends behind that and
\* not behind the packet: every message brings the reader forward.
THEOREM MessagesGoForward ==
    ASSUME NEW buf \in Seq(Nat), NEW p \in Nat, parse_message(buf, p, Len(buf)).res = OKAY
    PROVE  /\ parse_message(buf, p, Len(buf)).start = p
           /\ parse_message(buf, p, Len(buf)).end \in Nat
           /\ parse_message(buf, p, Len(buf)).end > p
           /\ parse_message(buf, p, Len(buf)).end <= Len(buf)
  <1> PICK f : f = MsgFields(buf, p, Len(buf))
    OBVIOUS
  <1> PICK m : m = parse_message(buf, p, Len(buf))
    OBVIOUS
  <1> PICK block : block = parse_tlvblock(buf, f.p_tlvs, f.end, 0)
    OBVIOUS
  <1>0. Len(buf) \in Nat /\ get_u8(buf, p + 1, Len(buf)) \in Nat /\ get_u16(buf, p + 2, Len(buf)) \in Nat
    <2> PICK eob : eob = Len(buf)
      OBVIOUS
    <2>1. eob \in Int /\ eob <= Len(buf) /\ eob \in Nat /\ p + 1 \in Nat /\ p + 2 \in Nat
      OBVIOUS
    <2>2. get_u8(buf, p + 1, eob) \in Nat /\ get_u16(buf, p + 2, eob) \in Nat
      BY <2>1, ReadsNumbers
    <2>3. QED
      BY <2>1, <2>2
  <1>1. f.start = p /\ f.end \in Nat /\ f.p_tlvs \in Nat /\ f.p_tlvs >= p + 4
    <2>1. f.start = p /\ f.end = p + get_u16(buf, p + 2, Len(buf))
      BY DEF MsgFields
    <2>2. f.p_tlvs \in Nat /\ f.p_tlvs >= p + 4
      <3> PICK flags : flags = get_u8(buf, p + 1, Len(buf))
        OBVIOUS
      <3> DEFINE has(flag, n) == IF HasFlag(flags, flag) THEN n ELSE 0
      <3>1. (flags % 16) + 1 \in Nat
        BY <1>0
      <3>2. f.p_tlvs = p + 4 + has(ORIGINATOR, (flags % 16) + 1) + has(HOPLIMIT, 1)
                         + has(HOPCOUNT, 1) + has(MSG_SEQNO, 2)
        BY DEF MsgFields
      <3>3. /\ has(ORIGINATOR, (flags % 16) + 1) \in Nat /\ has(HOPLIMIT, 1) \in Nat
            /\ has(HOPCOUNT, 1) \in Nat /\ has(MSG_SEQNO, 2) \in Nat
        BY <3>1
      <3> HIDE DEF has
      <3>4. QED
        BY <3>2, <3>3
    <2>3. QED
      BY <1>0, <2>1, <2>2
  <1>2. /\ ~(f.p_tlvs > Len(buf) \/ f.end > Len(buf))
        /\ block.res = OKAY
        /\ m.start = f.start /\ m.end = f.end
    <2> PICK rest : rest = ParseBlocks(buf, block.p, f.end, f.addr_len)
      OBVIOUS
    <2>1. m = WithHeader(buf, f, Len(buf))
      BY DEF parse_message, Given
    <2>2. ~(f.p_tlvs > Len(buf) \/ f.end > Len(buf))
      BY <2>1 DEF WithHeader, Failed, OKAY, END_OF_BUFFER
    <2>3. m = WithTlvs(buf, f, block)
      <3>1. Given(parse_tlvblock(buf, f.p_tlvs, f.end, 0), LAMBDA b : WithTlvs(buf, f, b))
              = WithTlvs(buf, f, block)
        BY DEF Given
      <3>2. QED
        BY <2>1, <2>2, <3>1 DEF WithHeader
    <2>4. block.res = OKAY
      BY <2>3 DEF WithTlvs, Failed
    <2>5. m = WithBlocks(f, block, rest)
      <3>1. Given(ParseBlocks(buf, block.p, f.end, f.addr_len), LAMBDA r : WithBlocks(f, block, r))
              = WithBlocks(f, block, rest)
        BY DEF Given
      <3>2. QED
        BY <2>3, <2>4, <3>1 DEF WithTlvs
    <2>6. m.start = f.start /\ m.end = f.end
      BY <2>5 DEF WithBlocks, Failed
    <2>7. QED
      BY <2>2, <2>4, <2>6
  <1>3. f.p_tlvs + 2 <= f.end
    <2>1. f.end \in Int /\ f.end <= Len(buf) /\ f.p_tlvs \in Nat
      BY <1>0, <1>1, <1>2
    <2>2. /\ block.p \in Nat /\ block.p <= f.end
          /\ block.p >= f.p_tlvs + 2 + get_u16(buf, f.p_tlvs, f.end)
      BY <1>2, <2>1, TlvBlocksAreWhole
    <2>3. get_u16(buf, f.p_tlvs, f.end) \in Nat
      BY <2>1, ReadsNumbers
    <2>4. QED
      BY <1>1, <2>2, <2>3
  <1>4. m.start = p /\ m.end \in Nat /\ m.end > p /\ m.end <= Len(buf)
    <2>1. m.end = f.end /\ ~(f.end > Len(buf)) /\ m.start = p
      BY <1>1, <1>2
    <2>2. f.end \in Nat /\ f.p_tlvs \in Nat /\ f.p_tlvs >= p + 4 /\ Len(buf) \in Nat
      BY <1>0, <1>1
    <2>3. f.end > p
      BY <1>3, <2>2
    <2>4. f.end <= Len(buf)
      BY <2>1, <2>2
    <2>5. QED
      BY <2>1, <2>2, <2>3, <2>4
  <1>5. QED
    BY <1>4

-----------------------------------------------------------------------------
\* The reader is at a message, or at an address of one.
InMessage == \/ rd.phase \in {"message", "message_end", "address", "address_end", "cleanup"}
             \/ rd.phase \in {"tlvs", "shown"} /\ sched.b # 0
InAddress == \/ rd.phase = "address_end"
             \/ rd.phase \in {"tlvs", "shown"} /\ sched.b > 1

\* The message or address is left with a result.
Leaving == rd.phase \in {"shown", "address_end", "message_end", "cleanup"}

\* The variables that are records are.
Records ==
    /\ rd = [phase |-> rd.phase, buf |-> rd.buf, ptr |-> rd.ptr, has_tlv |-> rd.has_tlv,
             started |-> rd.started, result |-> rd.result, k |-> rd.k, b |-> rd.b, i |-> rd.i,
             same_order |-> rd.same_order, res |-> rd.res,
             do_not_forward |-> rd.do_not_forward, drops |-> rd.drops]
    /\ sched = [c |-> sched.c, b |-> sched.b, i |-> sched.i, t |-> sched.t, e |-> sched.e,
                failed |-> sched.failed]
    /\ dropped = [addr |-> dropped.addr, tlv |-> dropped.tlv]

\* Where the reader is.
Place ==
    /\ Records
    /\ rd.buf \in Seq(Nat) /\ rd.ptr \in Nat /\ rd.b \in Nat /\ sched.b \in Nat
    /\ rd.res \in OKAY .. DROP_PACKET
    /\ rd.phase \in {"idle", "refused"} => calls = <<>> /\ forwards = <<>>
    /\ InMessage => msg.start = rd.ptr /\ msg.end \in Nat /\ msg.end > rd.ptr
    /\ rd.phase = "address" \/ InAddress => rd.b > 0
    /\ InAddress => /\ <<rd.b, rd.i>> \notin dropped.addr
                    /\ rd.phase # "address_end" => /\ sched.b = rd.b + 1 /\ sched.i = rd.i
                                                   /\ sched.c = tree.msg[rd.k]

\* What a callback that has returned means for where the reader is.
CallOk(x) ==
    /\ x.at \in Nat /\ x.b \in Nat /\ x.res \in OKAY .. DROP_PACKET
    /\ x.at <= rd.ptr
    /\ x.b > 0 /\ x.at = rd.ptr => InMessage
    /\ x.res = DROP_PACKET => \/ Leaving /\ rd.res = DROP_PACKET
                              \/ rd.phase = "messages" /\ rd.result # OKAY
                              \/ rd.phase = "packet_end"
    /\ x.b > 0 /\ x.at = rd.ptr /\ x.res >= DROP_MSG_BUT_FORWARD => Leaving /\ rd.res >= x.res
    /\ x.b > 1 /\ x.at = rd.ptr /\ x.res = DROP_ADDRESS =>
          \/ <<x.b - 1, x.i>> \in dropped.addr
          \/ /\ rd.phase \in {"shown", "address_end"} /\ InAddress /\ rd.res >= DROP_ADDRESS
             /\ rd.b = x.b - 1 /\ rd.i = x.i /\ tree.msg[rd.k] = x.c
          \/ rd.phase \in {"message_end", "cleanup"} /\ rd.res # OKAY
    /\ x.b > 0 => \A j \in DOMAIN forwards :
                     forwards[j].at = x.at => x.res \notin {DROP_MESSAGE, DROP_PACKET}

\* Callback x may follow callback y.
MayFollow(x, y) ==
    LET same == y.at = x.at /\ y.b > 0 /\ x.b > 0
    IN  /\ y.res = DROP_PACKET => x.cb = "end"
        /\ y.res \in {DROP_MESSAGE, DROP_MSG_BUT_FORWARD} /\ same => x.cb = "end"
        /\ y.res = DROP_ADDRESS /\ same /\ y.b > 1 /\ y.b = x.b /\ y.i = x.i => x.c = y.c

IsSeq(s) == \E S : s \in Seq(S)

CallsOk ==
    /\ IsSeq(calls)
    /\ \A k \in DOMAIN calls : CallOk(calls[k])
    /\ \A k \in 1 .. Len(calls) - 1 : MayFollow(calls[Len(calls)], calls[k])

ForwardsOk ==
    /\ IsSeq(forwards)
    /\ \A k \in DOMAIN forwards : forwards[k].at \in Nat /\ forwards[k].at < rd.ptr
    /\ \A j, k \in DOMAIN forwards : forwards[j].at = forwards[k].at => j = k

IInv == Place /\ CallsOk /\ ForwardsOk

-----------------------------------------------------------------------------
\* The results of rfc5444_result, from the least to the worst.
LEMMA Numbers ==
    /\ OKAY = 0 /\ DROP_TLV = 1 /\ DROP_ADDRESS = 2 /\ DROP_MSG_BUT_FORWARD = 3
    /\ DROP_MESSAGE = 4 /\ DROP_PACKET = 5
  BY DEF OKAY, DROP_TLV, DROP_ADDRESS, DROP_MSG_BUT_FORWARD, DROP_MESSAGE, DROP_PACKET

\* What a callback returns is one of them.
LEMMA VerdictRange == Verdicts \subseteq OKAY .. DROP_PACKET
  BY ReaderAssumption, Numbers DEF Verdicts

\* The histories are sequences, and grow at their end.
LEMMA Appended ==
    ASSUME NEW s, IsSeq(s), NEW e
    PROVE  /\ IsSeq(Append(s, e)) /\ Len(s) \in Nat /\ DOMAIN s = 1 .. Len(s)
           /\ Len(Append(s, e)) = Len(s) + 1 /\ DOMAIN Append(s, e) = 1 .. Len(s) + 1
           /\ \A k \in DOMAIN s : Append(s, e)[k] = s[k]
           /\ Append(s, e)[Len(s) + 1] = e
  <1>1. PICK S : s \in Seq(S)
    BY DEF IsSeq
  <1>2. PICK T : T = S \cup {e}
    OBVIOUS
  <1>3. s \in Seq(T) /\ e \in T
    BY <1>1, <1>2
  <1>4. Append(s, e) \in Seq(T) /\ Len(Append(s, e)) = Len(s) + 1
    BY <1>3
  <1>5. QED
    BY <1>3, <1>4 DEF IsSeq

\* An empty history is one.
LEMMA EmptyIsSeq == IsSeq(<<>>)
  <1>1. <<>> \in Seq({})
    OBVIOUS
  <1>2. QED
    BY <1>1 DEF IsSeq

\* A step that stays at its message keeps the invariant when it has a place, when
\* what it means holds for every callback before and, if it makes a callback, for
\* that one, and when that one may follow.
MakesCall(e) == calls' = Append(calls, e) /\ CallOk(e)' /\ \A y : CallOk(y) => MayFollow(e, y)

\* So the history of the callbacks stays in order.
LEMMA CallsGrow ==
    ASSUME CallsOk, calls' = calls \/ \E e : MakesCall(e), \A y : CallOk(y) => CallOk(y)'
    PROVE  CallsOk'
  <1>1. CASE calls' = calls
    BY <1>1 DEF CallsOk
  <1>2. ASSUME NEW e, MakesCall(e) PROVE CallsOk'
    <2>1. /\ IsSeq(calls') /\ Len(calls) \in Nat /\ DOMAIN calls = 1 .. Len(calls)
          /\ Len(calls') = Len(calls) + 1 /\ DOMAIN calls' = 1 .. Len(calls) + 1
          /\ \A k \in DOMAIN calls : calls'[k] = calls[k]
          /\ calls'[Len(calls) + 1] = e
      BY <1>2, Appended DEF CallsOk, MakesCall
    <2>2. ASSUME NEW k \in DOMAIN calls' PROVE CallOk(calls[k])'
      <3> PICK x : x = calls'[k]
        OBVIOUS
      <3>1. CASE k \in DOMAIN calls
        <4>1. CallOk(calls[k]) /\ x = calls[k]
          BY <2>1, <3>1 DEF CallsOk
        <4>2. CallOk(x)'
          BY <4>1
        <4>3. QED
          BY <4>2 DEF CallOk
      <3>2. CASE k \notin DOMAIN calls
        <4>1. x = e
          BY <2>1, <3>2
        <4>2. CallOk(x)'
          BY <1>2, <4>1 DEF MakesCall
        <4>3. QED
          BY <4>2 DEF CallOk
      <3>3. QED
        BY <3>1, <3>2
    <2>3. ASSUME NEW k \in 1 .. Len(calls') - 1 PROVE MayFollow(calls'[Len(calls')], calls'[k])
      <3>1. k \in DOMAIN calls /\ calls'[k] = calls[k] /\ calls'[Len(calls')] = e
        BY <2>1
      <3>2. CallOk(calls[k])
        BY <3>1 DEF CallsOk
      <3>3. QED
        BY <1>2, <3>1, <3>2 DEF MakesCall
    <2>4. QED
      BY <2>1, <2>2, <2>3 DEF CallsOk
  <1>3. QED
    BY <1>1, <1>2

\* And so does the reader.
LEMMA Stays ==
    ASSUME IInv, Place', forwards' = forwards, rd'.ptr = rd.ptr,
           calls' = calls \/ \E e : MakesCall(e), \A y : CallOk(y) => CallOk(y)'
    PROVE  IInv'
  <1>1. CallsOk'
    BY CallsGrow DEF IInv
  <1>2. ForwardsOk'
    BY DEF IInv, ForwardsOk
  <1>3. QED
    BY <1>1, <1>2 DEF IInv

-----------------------------------------------------------------------------
\* Steps without a callback.

\* No callback was made for the packet, or there is none.
LEMMA NoPacket ==
    ASSUME NEW r, r.phase \in {"idle", "refused", "packet"}, r.buf \in Seq(Nat), r.ptr \in Nat,
           r.b \in Nat, r.res = OKAY, sched'.b \in Nat,
           calls' = <<>>, forwards' = <<>>, rd' = r, Records'
    PROVE  IInv'
  <1>1. Place'
    BY Numbers DEF Place, InMessage, InAddress
  <1>2. calls' \in Seq({}) /\ forwards' \in Seq({}) /\ Len(calls') = 0
    OBVIOUS
  <1>3. CallsOk' /\ ForwardsOk'
    BY <1>2 DEF CallsOk, ForwardsOk, IsSeq
  <1>4. QED
    BY <1>1, <1>3 DEF IInv

\* Registrations do not disturb what is read: nothing is.
LEMMA RegisterStep == IInv /\ Register => IInv'
  <1> SUFFICES ASSUME IInv, Register PROVE IInv'
    OBVIOUS
  <1>1. /\ rd.phase = "idle" /\ rd' = rd /\ sched' = sched /\ dropped' = dropped
        /\ calls' = calls /\ forwards' = forwards /\ msg' = msg
    BY DEF Register
  <1>2. Place'
    BY <1>1 DEF IInv, Place, Records, InMessage, InAddress
  <1>3. ASSUME NEW y, CallOk(y) PROVE CallOk(y)'
    BY <1>1, <1>3 DEF CallOk, InMessage, InAddress, Leaving
  <1>4. QED
    BY <1>1, <1>2, <1>3, Stays

\* Octets are numbers.
LEMMA SeqMono ==
    ASSUME NEW S, NEW T, S \subseteq T, NEW s \in Seq(S)
    PROVE  s \in Seq(T)
  <1>1. Len(s) \in Nat /\ DOMAIN s = 1 .. Len(s)
    OBVIOUS
  <1>2. \A k \in 1 .. Len(s) : s[k] \in S
    OBVIOUS
  <1>3. QED
    BY <1>1, <1>2

\* A packet is taken: nothing was called for it.
LEMMA ReadStep == IInv /\ ReadAny => IInv'
  <1> SUFFICES ASSUME IInv, ReadAny PROVE IInv'
    OBVIOUS
  <1>1. PICK buf \in Seq(0..255), drops \in 0..MaxDrops : HandlePacket(buf, drops)
    BY DEF ReadAny
  <1> PICK hdr : hdr = parse_pkt_header(buf)
    OBVIOUS
  <1>2. /\ rd.phase = "idle" /\ sched' = sched /\ dropped' = dropped
        /\ calls' = calls /\ forwards' = forwards /\ calls = <<>> /\ forwards = <<>>
        /\ sched.b \in Nat
    BY <1>1 DEF HandlePacket, IInv, Place
  <1>a. buf \in Seq(Nat)
    <2>1. 0..255 \subseteq Nat
      OBVIOUS
    <2>2. QED
      BY <2>1, SeqMono, ZenonT(60)
  <1>3. \/ hdr.res # OKAY /\ rd' = [AtRest EXCEPT !.phase = "refused", !.result = hdr.res]
        \/ hdr.res = OKAY /\ rd' = [AtRest EXCEPT !.phase = "packet", !.buf = buf, !.ptr = hdr.p,
                                       !.has_tlv = hdr.has_tlv, !.k = 1, !.drops = drops]
    BY <1>1 DEF HandlePacket
  <1>4. Records'
    BY <1>2, <1>3 DEF Records, AtRest, IInv, Place
  <1>5. CASE hdr.res # OKAY
    <2>1. /\ rd'.phase = "refused" /\ rd'.buf = <<>> /\ rd'.ptr = 0 /\ rd'.b = 0 /\ rd'.res = OKAY
      BY <1>3, <1>5 DEF AtRest
    <2> PICK r : r = rd'
      OBVIOUS
    <2>2. r.buf \in Seq(Nat) /\ r.ptr \in Nat /\ r.b \in Nat /\ r.phase = "refused" /\ r.res = OKAY
      BY <2>1
    <2>3. sched'.b \in Nat /\ calls' = <<>> /\ forwards' = <<>>
      BY <1>2
    <2>4. QED
      BY <1>4, <2>2, <2>3, NoPacket
  <1>6. CASE hdr.res = OKAY
    <2>1. hdr.p \in Nat
      BY <1>a, <1>6, HeaderEnds
    <2>2. /\ rd'.phase = "packet" /\ rd'.buf = buf /\ rd'.ptr = hdr.p /\ rd'.b = 0 /\ rd'.res = OKAY
      BY <1>3, <1>6 DEF AtRest
    <2>3. QED
      BY <1>a, <1>2, <1>4, <2>1, <2>2, NoPacket
  <1>7. QED
    BY <1>5, <1>6

\* The packet is given back, and the histories end.
LEMMA PacketDoneStep == IInv /\ PacketDone => IInv'
  <1> SUFFICES ASSUME IInv, PacketDone PROVE IInv'
    OBVIOUS
  <1>1. /\ rd' = AtRest /\ sched' = NoSched /\ dropped' = [addr |-> {}, tlv |-> {}]
        /\ calls' = <<>> /\ forwards' = <<>>
    BY DEF PacketDone
  <1>2. Records' /\ sched'.b \in Nat
    BY <1>1 DEF Records, AtRest, NoSched
  <1>3. /\ AtRest.phase = "idle" /\ AtRest.buf \in Seq(Nat) /\ AtRest.ptr \in Nat /\ AtRest.b \in Nat
        /\ AtRest.res = OKAY
    BY DEF AtRest
  <1>4. QED
    BY <1>1, <1>2, <1>3, NoPacket

\* A packet consumer was shown the TLV block of the packet.
LEMMA PacketBlockShownStep == IInv /\ PacketBlockShown => IInv'
  <1> SUFFICES ASSUME IInv, PacketBlockShown PROVE IInv'
    OBVIOUS
  <1> USE Numbers
  <1>1. /\ rd.phase = "shown" /\ sched.b = 0
        /\ sched' = sched /\ dropped' = dropped /\ calls' = calls /\ forwards' = forwards
        /\ rd' = [rd EXCEPT !.result = rd.res, !.k = @ + 1,
                        !.phase = IF rd.res = OKAY THEN "packet" ELSE "packet_end"]
        /\ Place
    BY DEF PacketBlockShown, IInv
  <1>2. /\ rd'.phase = (IF rd.res = OKAY THEN "packet" ELSE "packet_end")
        /\ rd'.buf = rd.buf /\ rd'.ptr = rd.ptr /\ rd'.b = rd.b /\ rd'.res = rd.res /\ Records'
    BY <1>1 DEF Place, Records
  <1>3. Place'
    BY <1>1, <1>2 DEF Place, InMessage, InAddress
  <1>4. ASSUME NEW y, CallOk(y) PROVE CallOk(y)'
    BY <1>1, <1>2, <1>4 DEF CallOk, InMessage, InAddress, Leaving
  <1>5. QED
    BY <1>1, <1>2, <1>3, <1>4, Stays

\* A consumer that is not for the message is passed over.
LEMMA SkipConsumerStep == IInv /\ SkipConsumer => IInv'
  <1> SUFFICES ASSUME IInv, SkipConsumer PROVE IInv'
    OBVIOUS
  <1> USE Numbers
  <1>1. /\ rd.phase = "message" /\ rd' = [rd EXCEPT !.k = @ + 1] /\ msg' = msg
        /\ sched' = sched /\ dropped' = dropped /\ calls' = calls /\ forwards' = forwards
        /\ Place
    BY DEF SkipConsumer, IInv
  <1>2. /\ rd'.phase = "message"
        /\ rd'.buf = rd.buf /\ rd'.ptr = rd.ptr /\ rd'.b = rd.b /\ rd'.res = rd.res /\ Records'
    BY <1>1 DEF Place, Records
  <1>3. Place'
    BY <1>1, <1>2 DEF Place, InMessage, InAddress
  <1>4. ASSUME NEW y, CallOk(y) PROVE CallOk(y)'
    BY <1>1, <1>2, <1>4 DEF CallOk, InMessage, InAddress, Leaving
  <1>5. QED
    BY <1>1, <1>2, <1>3, <1>4, Stays

\* The end callbacks of an order begin, without a result that counts.
LEMMA EndOfOrderStep == IInv /\ EndOfOrder => IInv'
  <1> SUFFICES ASSUME IInv, EndOfOrder PROVE IInv'
    OBVIOUS
  <1> USE Numbers
  <1>1. /\ rd.phase = "message"
        /\ rd' = [rd EXCEPT !.phase = "message_end", !.i = rd.same_order[2]]
        /\ msg' = msg /\ tree' = tree /\ sched' = sched /\ dropped' = dropped
        /\ calls' = calls /\ forwards' = forwards
        /\ Place
    BY DEF EndOfOrder, IInv
  <1>2. /\ rd'.phase = "message_end" /\ rd'.b = rd.b
        /\ rd'.buf = rd.buf /\ rd'.ptr = rd.ptr /\ rd'.res = rd.res /\ Records'
    BY <1>1 DEF Place, Records
  <1>3. Place'
    BY <1>1, <1>2 DEF Place, InMessage, InAddress
  <1>4. ASSUME NEW y, CallOk(y) PROVE CallOk(y)'
    BY <1>1, <1>2, <1>4 DEF CallOk, InMessage, InAddress, Leaving
  <1>5. QED
    BY <1>1, <1>2, <1>3, <1>4, Stays

\* A consumer was shown the TLV block of the message, and may have dropped it.
LEMMA MessageBlockShownStep == IInv /\ MessageBlockShown => IInv'
  <1> SUFFICES ASSUME IInv, MessageBlockShown PROVE IInv'
    OBVIOUS
  <1> USE Numbers
  <1>1. /\ rd.phase = "shown" /\ sched.b = 1
        /\ rd' = IF rd.res = OKAY THEN [rd EXCEPT !.phase = "message", !.k = @ + 1]
                 ELSE [rd EXCEPT !.phase = "message_end", !.i = rd.same_order[2]]
        /\ msg' = msg /\ tree' = tree /\ sched' = sched /\ dropped' = dropped
        /\ calls' = calls /\ forwards' = forwards
        /\ Place
    BY DEF MessageBlockShown, IInv
  <1>2. /\ rd'.phase = (IF rd.res = OKAY THEN "message" ELSE "message_end") /\ rd'.b = rd.b
        /\ rd'.buf = rd.buf /\ rd'.ptr = rd.ptr /\ rd'.res = rd.res /\ Records'
    BY <1>1 DEF Place, Records
  <1>3. Place'
    BY <1>1, <1>2 DEF Place, InMessage, InAddress
  <1>4. ASSUME NEW y, CallOk(y) PROVE CallOk(y)'
    BY <1>1, <1>2, <1>4 DEF CallOk, InMessage, InAddress, Leaving
  <1>5. QED
    BY <1>1, <1>2, <1>3, <1>4, Stays

\* An address consumer begins with the first address.
LEMMA BeginAddressesStep == IInv /\ BeginAddresses => IInv'
  <1> SUFFICES ASSUME IInv, BeginAddresses PROVE IInv'
    OBVIOUS
  <1> USE Numbers
  <1>1. /\ rd.phase = "message"
        /\ rd' = [rd EXCEPT !.phase = "address", !.b = 1, !.i = 0]
        /\ msg' = msg /\ tree' = tree /\ sched' = sched /\ dropped' = dropped
        /\ calls' = calls /\ forwards' = forwards
        /\ Place
    BY DEF BeginAddresses, IInv
  <1>2. /\ rd'.phase = "address" /\ rd'.b = 1
        /\ rd'.buf = rd.buf /\ rd'.ptr = rd.ptr /\ rd'.res = rd.res /\ Records'
    BY <1>1 DEF Place, Records
  <1>3. Place'
    BY <1>1, <1>2 DEF Place, InMessage, InAddress
  <1>4. ASSUME NEW y, CallOk(y) PROVE CallOk(y)'
    BY <1>1, <1>2, <1>4 DEF CallOk, InMessage, InAddress, Leaving
  <1>5. QED
    BY <1>1, <1>2, <1>3, <1>4, Stays

\* An address consumer was shown all addresses.
LEMMA EndAddressesStep == IInv /\ EndAddresses => IInv'
  <1> SUFFICES ASSUME IInv, EndAddresses PROVE IInv'
    OBVIOUS
  <1> USE Numbers
  <1>1. /\ rd.phase = "address"
        /\ rd' = [rd EXCEPT !.phase = "message", !.k = @ + 1]
        /\ msg' = msg /\ tree' = tree /\ sched' = sched /\ dropped' = dropped
        /\ calls' = calls /\ forwards' = forwards
        /\ Place
    BY DEF EndAddresses, IInv
  <1>2. /\ rd'.phase = "message" /\ rd'.b = rd.b
        /\ rd'.buf = rd.buf /\ rd'.ptr = rd.ptr /\ rd'.res = rd.res /\ Records'
    BY <1>1 DEF Place, Records
  <1>3. Place'
    BY <1>1, <1>2 DEF Place, InMessage, InAddress
  <1>4. ASSUME NEW y, CallOk(y) PROVE CallOk(y)'
    BY <1>1, <1>2, <1>4 DEF CallOk, InMessage, InAddress, Leaving
  <1>5. QED
    BY <1>1, <1>2, <1>3, <1>4, Stays

-----------------------------------------------------------------------------
\* Messages begin and end.
LEMMA ParseMessageStep == IInv /\ ParseMessage => IInv'
  <1> SUFFICES ASSUME IInv, ParseMessage PROVE IInv'
    OBVIOUS
  <1> USE Numbers
  <1> PICK m : m = parse_message(rd.buf, rd.ptr, Len(rd.buf))
    OBVIOUS
  <1>1. /\ rd.phase \in {"packet", "messages"} /\ sched' = sched /\ tree' = tree
        /\ calls' = calls /\ forwards' = forwards /\ Place
    BY DEF ParseMessage, IInv
  <1>2. \/ /\ rd' = [rd EXCEPT !.phase = "packet_end"]
           /\ dropped' = dropped /\ msg' = msg
        \/ /\ dropped' = [dropped EXCEPT !.addr = {}, !.tlv = {x \in @ : x[1] = 0}]
           /\ rd' = [rd EXCEPT !.phase = "packet_end", !.result = m.res]
        \/ /\ dropped' = [dropped EXCEPT !.addr = {}, !.tlv = {x \in @ : x[1] = 0}]
           /\ m.res = OKAY /\ rd.result = OKAY /\ msg' = m
           /\ rd' = [rd EXCEPT !.phase = "message", !.res = OKAY, !.k = 1,
                               !.same_order = <<>>, !.do_not_forward = FALSE]
    BY DEF ParseMessage
  <1>3. \/ rd'.phase = "packet_end" /\ rd'.res = rd.res
        \/ rd'.phase = "message" /\ rd'.res = OKAY /\ m.res = OKAY /\ rd.result = OKAY /\ msg' = m
    BY <1>1, <1>2 DEF Place, Records
  <1>4. rd'.buf = rd.buf /\ rd'.ptr = rd.ptr /\ rd'.b = rd.b /\ Records'
    BY <1>1, <1>2 DEF Place, Records
  <1>5. m.res = OKAY => m.start = rd.ptr /\ m.end \in Nat /\ m.end > rd.ptr
    <2> PICK buf, p : buf = rd.buf /\ p = rd.ptr
      OBVIOUS
    <2>1. buf \in Seq(Nat) /\ p \in Nat
      BY <1>1 DEF Place
    <2>2. QED
      BY <2>1, MessagesGoForward
  <1>6. Place'
    BY <1>1, <1>3, <1>4, <1>5 DEF Place, InMessage, InAddress
  <1>7. ASSUME NEW y, CallOk(y) PROVE CallOk(y)'
    BY <1>1, <1>3, <1>4, <1>7 DEF CallOk, InMessage, InAddress, Leaving
  <1>8. QED
    BY <1>1, <1>4, <1>6, <1>7, Stays

\* A message is left behind, and forwarded if nobody dropped it.
LEMMA EndMessageStep == IInv /\ EndMessage => IInv'
  <1> SUFFICES ASSUME IInv, EndMessage PROVE IInv'
    OBVIOUS
  <1> USE Numbers
  <1>1. /\ rd.phase \in {"cleanup", "message"} /\ sched' = sched /\ tree' = tree /\ msg' = msg
        /\ dropped' = dropped /\ calls' = calls /\ Place /\ CallsOk /\ ForwardsOk
        /\ rd' = [rd EXCEPT !.phase = "messages", !.ptr = msg.end,
                        !.result = IF rd.res = DROP_PACKET THEN rd.res ELSE OKAY]
    BY DEF EndMessage, IInv
  <1>2. msg.start = rd.ptr /\ msg.end \in Nat /\ msg.end > rd.ptr /\ rd.ptr \in Nat
    BY <1>1 DEF Place, InMessage
  <1>3. /\ rd'.phase = "messages" /\ rd'.ptr = msg.end
        /\ rd'.result = (IF rd.res = DROP_PACKET THEN rd.res ELSE OKAY)
        /\ rd'.buf = rd.buf /\ rd'.b = rd.b /\ rd'.res = rd.res /\ Records'
    BY <1>1 DEF Place, Records
  <1>4. Place'
    BY <1>1, <1>2, <1>3 DEF Place, InMessage, InAddress
  <1>5. \/ forwards' = forwards
        \/ /\ \E f : f.at = rd.ptr /\ forwards' = Append(forwards, f)
           /\ rd.res \in {OKAY, DROP_MSG_BUT_FORWARD}
    <2> PICK f : f = [at |-> msg.start, octets |-> Octets(rd.buf, msg.start, msg.end - msg.start)]
      OBVIOUS
    <2>1. f.at = rd.ptr
      BY <1>2
    <2>2. forwards' = IF ~Forwarded THEN forwards ELSE Append(forwards, f)
      BY DEF EndMessage
    <2>3. QED
      BY <2>1, <2>2 DEF Forwarded
  <1>6. ASSUME NEW y, CallOk(y), forwards' = forwards PROVE CallOk(y)'
    BY <1>1, <1>2, <1>3, <1>6 DEF CallOk, InMessage, InAddress, Leaving
  <1>7. CASE forwards' = forwards
    <2>1. CallsOk'
      BY <1>1, <1>6, <1>7, CallsGrow
    <2>2. ForwardsOk'
      BY <1>1, <1>2, <1>3, <1>7 DEF ForwardsOk
    <2>3. QED
      BY <1>4, <2>1, <2>2 DEF IInv
  <1>8. ASSUME NEW f, f.at = rd.ptr, forwards' = Append(forwards, f),
               rd.res \in {OKAY, DROP_MSG_BUT_FORWARD}
        PROVE  IInv'
    <2>1. /\ IsSeq(forwards') /\ Len(forwards) \in Nat /\ DOMAIN forwards = 1 .. Len(forwards)
          /\ DOMAIN forwards' = 1 .. Len(forwards) + 1
          /\ \A k \in DOMAIN forwards : forwards'[k] = forwards[k]
          /\ forwards'[Len(forwards) + 1] = f
      BY <1>1, <1>8, Appended DEF ForwardsOk
    <2>2. \A k \in DOMAIN forwards' : \/ k \in DOMAIN forwards /\ forwards'[k] = forwards[k]
                                      \/ k = Len(forwards) + 1 /\ forwards'[k] = f
      BY <2>1
    <2>3. ForwardsOk'
      <3>1. \A k \in DOMAIN forwards : forwards[k].at \in Nat /\ forwards[k].at < rd.ptr
        BY <1>1 DEF ForwardsOk
      <3>2. \A k \in DOMAIN forwards' : forwards'[k].at \in Nat /\ forwards'[k].at < rd'.ptr
        BY <1>2, <1>3, <1>8, <2>2, <3>1
      <3>3. ASSUME NEW j \in DOMAIN forwards', NEW k \in DOMAIN forwards',
                   forwards'[j].at = forwards'[k].at
            PROVE  j = k
        <4>1. CASE j \in DOMAIN forwards /\ k \in DOMAIN forwards
          BY <1>1, <2>1, <3>3, <4>1 DEF ForwardsOk
        <4>2. CASE j \notin DOMAIN forwards \/ k \notin DOMAIN forwards
          BY <1>2, <1>8, <2>2, <3>1, <3>3, <4>2
        <4>3. QED
          BY <4>1, <4>2
      <3>4. QED
        BY <2>1, <3>2, <3>3 DEF ForwardsOk
    <2>4. ASSUME NEW y, CallOk(y) PROVE CallOk(y)'
      <3>1. y.b > 0 /\ y.at = rd.ptr => y.res \notin {DROP_MESSAGE, DROP_PACKET}
        BY <1>8, <2>4 DEF CallOk, Leaving
      <3>2. y.b > 0 => \A j \in DOMAIN forwards' :
                          forwards'[j].at = y.at => y.res \notin {DROP_MESSAGE, DROP_PACKET}
        BY <1>8, <2>2, <2>4, <3>1 DEF CallOk
      <3>3. QED
        BY <1>1, <1>2, <1>3, <2>4, <3>2 DEF CallOk, InMessage, InAddress, Leaving
    <2>5. CallsOk'
      BY <1>1, <2>4, CallsGrow
    <2>6. QED
      BY <1>4, <2>3, <2>5 DEF IInv
  <1>9. QED
    BY <1>5, <1>7, <1>8

-----------------------------------------------------------------------------
\* Steps with a callback.

\* A block that begins to be shown is the one asked for.
LEMMA Scheduled ==
    ASSUME NEW who, NEW b, NEW i, Schedule(who, b, i)
    PROVE  /\ sched'.c = who /\ sched'.b = b /\ sched'.i = i
           /\ sched' = [c |-> sched'.c, b |-> sched'.b, i |-> sched'.i, t |-> sched'.t,
                        e |-> sched'.e, failed |-> sched'.failed]
  <1>1. sched' = [c |-> who, b |-> b, i |-> i, t |-> IF tlvs'[b] = <<>> THEN 0 ELSE 1,
                  e |-> FirstEntry(who), failed |-> FALSE]
    BY DEF Schedule
  <1>2. QED
    BY <1>1

\* start_callback of a packet consumer.
LEMMA PacketConsumerStep == IInv /\ PacketConsumer => IInv'
  <1> SUFFICES ASSUME IInv, PacketConsumer PROVE IInv'
    OBVIOUS
  <1> USE Numbers
  <1> PICK who : who = tree.pkt[rd.k]
    OBVIOUS
  <1> DEFINE tlv_block == rd.has_tlv /\ (consumer[who].tlv_callback \/ consumer[who].block_callback)
  <1>0. PICK r \in IF consumer[who].start_callback THEN Verdicts ELSE {OKAY} :
          /\ IF consumer[who].start_callback THEN Call("start", who, 0, 0, r) ELSE UNCHANGED calls
          /\ rd' = [rd EXCEPT !.started = rd.k, !.drops = Drops(r), !.result = r,
                          !.k = IF r = OKAY /\ ~tlv_block THEN @ + 1 ELSE @,
                          !.phase = IF r # OKAY THEN "packet_end"
                                    ELSE IF tlv_block THEN "tlvs" ELSE "packet"]
          /\ IF r = OKAY /\ tlv_block THEN Schedule(who, 0, 0) ELSE UNCHANGED <<sched, found>>
    BY DEF PacketConsumer
  <1>1. /\ r \in OKAY .. DROP_PACKET
        /\ \/ calls' = calls
           \/ calls' = Append(calls, [at |-> rd.ptr, cb |-> "start", c |-> who, b |-> 0, i |-> 0,
                                      res |-> r])
        /\ rd' = [rd EXCEPT !.started = rd.k, !.drops = Drops(r), !.result = r,
                          !.k = IF r = OKAY /\ ~tlv_block THEN @ + 1 ELSE @,
                          !.phase = IF r # OKAY THEN "packet_end"
                                    ELSE IF tlv_block THEN "tlvs" ELSE "packet"]
        /\ IF r = OKAY /\ tlv_block THEN Schedule(who, 0, 0) ELSE sched' = sched
    BY <1>0, VerdictRange DEF Call
  <1>2. /\ rd.phase = "packet" /\ msg' = msg /\ tree' = tree /\ dropped' = dropped
        /\ forwards' = forwards /\ Place
    BY DEF PacketConsumer, IInv
  <1>3. /\ rd'.phase = (IF r # OKAY THEN "packet_end" ELSE IF tlv_block THEN "tlvs" ELSE "packet")
        /\ rd'.buf = rd.buf /\ rd'.ptr = rd.ptr /\ rd'.b = rd.b /\ rd'.res = rd.res
        /\ rd' = [phase |-> rd'.phase, buf |-> rd'.buf, ptr |-> rd'.ptr, has_tlv |-> rd'.has_tlv,
                  started |-> rd'.started, result |-> rd'.result, k |-> rd'.k, b |-> rd'.b,
                  i |-> rd'.i, same_order |-> rd'.same_order, res |-> rd'.res,
                  do_not_forward |-> rd'.do_not_forward, drops |-> rd'.drops]
    BY <1>1, <1>2 DEF Place, Records
  <1>4. (rd'.phase = "tlvs" => sched'.b = 0) /\ sched'.b \in Nat /\ Records'
    <2>1. CASE r = OKAY /\ tlv_block
      <3>1. Schedule(who, 0, 0)
        BY <1>1, <2>1
      <3>2. /\ sched'.b = 0
            /\ sched' = [c |-> sched'.c, b |-> sched'.b, i |-> sched'.i, t |-> sched'.t,
                         e |-> sched'.e, failed |-> sched'.failed]
        BY <3>1, Scheduled
      <3>3. dropped' = [addr |-> dropped'.addr, tlv |-> dropped'.tlv]
        BY <1>2 DEF Place, Records
      <3>4. QED
        BY ONLY <1>3, <3>2, <3>3 DEF Records
    <2>2. CASE ~(r = OKAY /\ tlv_block)
      BY <1>1, <1>2, <1>3, <2>2 DEF Place, Records
    <2>3. QED
      BY <2>1, <2>2
  <1>5. Place'
    <2>1. rd'.phase \in {"packet_end", "tlvs", "packet"}
      BY ONLY <1>3
    <2>2. ~InMessage' /\ ~InAddress'
      BY ONLY <1>4, <2>1 DEF InMessage, InAddress
    <2>3. /\ rd'.buf \in Seq(Nat) /\ rd'.ptr \in Nat /\ rd'.b \in Nat
          /\ rd'.res \in OKAY .. DROP_PACKET
      BY ONLY <1>2, <1>3 DEF Place
    <2>4. QED
      BY ONLY <1>4, <2>1, <2>2, <2>3 DEF Place
  <1>6. ASSUME NEW y, CallOk(y) PROVE CallOk(y)'
    BY <1>1, <1>2, <1>3, <1>4, <1>6 DEF CallOk, InMessage, InAddress, Leaving
  <1>7. calls' = calls \/ \E e : MakesCall(e)
    <2> PICK e : e = [at |-> rd.ptr, cb |-> "start", c |-> who, b |-> 0, i |-> 0, res |-> r]
      OBVIOUS
    <2>1. e.at = rd.ptr /\ e.b = 0 /\ e.res = r
      OBVIOUS
    <2>2. CallOk(e)'
      <3>1. rd'.ptr = rd.ptr /\ rd.ptr \in Nat /\ r \in OKAY .. DROP_PACKET
        BY <1>1, <1>2, <1>3 DEF Place
      <3>2. r # OKAY => rd'.phase = "packet_end"
        BY <1>3
      <3>3. QED
        BY ONLY <2>1, <3>1, <3>2, Numbers DEF CallOk
    <2>3. \A y : CallOk(y) => MayFollow(e, y)
      BY <1>2, <2>1 DEF CallOk, MayFollow, Leaving
    <2>4. QED
      BY <1>1, <2>2, <2>3 DEF MakesCall
  <1>8. QED
    BY <1>2, <1>3, <1>5, <1>6, <1>7, Stays

\* end_callback of a packet consumer.
LEMMA PacketEndStep == IInv /\ PacketEnd => IInv'
  <1> SUFFICES ASSUME IInv, PacketEnd PROVE IInv'
    OBVIOUS
  <1> USE Numbers
  <1> PICK who : who = tree.pkt[rd.started]
    OBVIOUS
  <1>1. /\ rd.phase = "packet_end" /\ rd' = [rd EXCEPT !.started = @ - 1]
        /\ msg' = msg /\ tree' = tree /\ sched' = sched /\ dropped' = dropped
        /\ forwards' = forwards /\ Place
        /\ \/ calls' = calls
           \/ calls' = Append(calls, [at |-> rd.ptr, cb |-> "end", c |-> who, b |-> 0, i |-> 0,
                                      res |-> OKAY])
    BY DEF PacketEnd, Call, IInv
  <1>2. /\ rd'.phase = "packet_end" /\ rd'.b = rd.b
        /\ rd'.buf = rd.buf /\ rd'.ptr = rd.ptr /\ rd'.res = rd.res /\ Records'
    BY <1>1 DEF Place, Records
  <1>3. Place'
    BY <1>1, <1>2 DEF Place, InMessage, InAddress
  <1>4. ASSUME NEW y, CallOk(y) PROVE CallOk(y)'
    BY <1>1, <1>2, <1>4 DEF CallOk, InMessage, InAddress, Leaving
  <1>5. calls' = calls \/ \E e : MakesCall(e)
    <2> PICK e : e = [at |-> rd.ptr, cb |-> "end", c |-> who, b |-> 0, i |-> 0, res |-> OKAY]
      OBVIOUS
    <2>1. e.at = rd.ptr /\ e.cb = "end" /\ e.b = 0 /\ e.res = OKAY
      OBVIOUS
    <2>2. CallOk(e)'
      BY <1>1, <1>2, <2>1 DEF CallOk, Place
    <2>3. \A y : CallOk(y) => MayFollow(e, y)
      BY <2>1 DEF MayFollow
    <2>4. QED
      BY <1>1, <2>2, <2>3 DEF MakesCall
  <1>6. QED
    BY <1>1, <1>2, <1>3, <1>4, <1>5, Stays

\* start_callback of a message consumer.
LEMMA MessageConsumerStep == IInv /\ MessageConsumer => IInv'
  <1> SUFFICES ASSUME IInv, MessageConsumer PROVE IInv'
    OBVIOUS
  <1> USE Numbers
  <1> PICK who : who = tree.msg[rd.k]
    OBVIOUS
  <1>0. PICK r \in IF consumer[who].start_callback THEN Verdicts ELSE {OKAY} :
          /\ IF consumer[who].start_callback THEN Call("start", who, 1, 0, r) ELSE UNCHANGED calls
          /\ rd' = [rd EXCEPT !.res = r, !.drops = Drops(r),
                          !.same_order = IF @ = <<>> THEN <<rd.k, rd.k>> ELSE <<@[1], rd.k>>,
                          !.phase = IF r = OKAY THEN "tlvs" ELSE "message_end", !.i = rd.k]
          /\ IF r = OKAY THEN Schedule(who, 1, 0) ELSE UNCHANGED <<sched, found>>
    BY DEF MessageConsumer
  <1>1. /\ r \in OKAY .. DROP_PACKET
        /\ \/ calls' = calls
           \/ calls' = Append(calls, [at |-> rd.ptr, cb |-> "start", c |-> who, b |-> 1, i |-> 0,
                                      res |-> r])
        /\ rd' = [rd EXCEPT !.res = r, !.drops = Drops(r),
                          !.same_order = IF @ = <<>> THEN <<rd.k, rd.k>> ELSE <<@[1], rd.k>>,
                          !.phase = IF r = OKAY THEN "tlvs" ELSE "message_end", !.i = rd.k]
        /\ IF r = OKAY THEN Schedule(who, 1, 0) ELSE sched' = sched
    BY <1>0, VerdictRange DEF Call
  <1>2. /\ rd.phase = "message" /\ msg' = msg /\ tree' = tree /\ dropped' = dropped
        /\ forwards' = forwards /\ Place /\ ForwardsOk
    BY DEF MessageConsumer, IInv
  <1>3. /\ rd'.phase = (IF r = OKAY THEN "tlvs" ELSE "message_end")
        /\ rd'.buf = rd.buf /\ rd'.ptr = rd.ptr /\ rd'.b = rd.b /\ rd'.res = r
        /\ rd' = [phase |-> rd'.phase, buf |-> rd'.buf, ptr |-> rd'.ptr, has_tlv |-> rd'.has_tlv,
                  started |-> rd'.started, result |-> rd'.result, k |-> rd'.k, b |-> rd'.b,
                  i |-> rd'.i, same_order |-> rd'.same_order, res |-> rd'.res,
                  do_not_forward |-> rd'.do_not_forward, drops |-> rd'.drops]
    BY <1>1, <1>2 DEF Place, Records
  <1>4. (rd'.phase = "tlvs" => sched'.b = 1) /\ sched'.b \in Nat /\ Records'
    <2>1. CASE r = OKAY
      BY <1>1, <1>2, <1>3, <2>1, Scheduled DEF Place, Records
    <2>2. CASE r # OKAY
      BY <1>1, <1>2, <1>3, <2>2 DEF Place, Records
    <2>3. QED
      BY <2>1, <2>2
  <1>5. Place'
    BY <1>1, <1>2, <1>3, <1>4 DEF Place, InMessage, InAddress
  <1>6. ASSUME NEW y, CallOk(y) PROVE CallOk(y)'
    BY <1>1, <1>2, <1>3, <1>4, <1>6 DEF CallOk, InMessage, InAddress, Leaving
  <1>7. calls' = calls \/ \E e : MakesCall(e)
    <2> PICK e : e = [at |-> rd.ptr, cb |-> "start", c |-> who, b |-> 1, i |-> 0, res |-> r]
      OBVIOUS
    <2>1. e.at = rd.ptr /\ e.b = 1 /\ e.res = r
      OBVIOUS
    <2>2. \A j \in DOMAIN forwards' : forwards'[j].at # e.at
      BY <1>2, <2>1 DEF ForwardsOk, Place
    <2>3. CallOk(e)'
      BY <1>1, <1>2, <1>3, <1>4, <2>1, <2>2 DEF CallOk, Place, InMessage, Leaving
    <2>4. \A y : CallOk(y) => MayFollow(e, y)
      BY <1>2, <2>1 DEF CallOk, MayFollow, Leaving
    <2>5. QED
      BY <1>1, <2>3, <2>4 DEF MakesCall
  <1>8. QED
    BY <1>2, <1>3, <1>5, <1>6, <1>7, Stays

\* The worse of two results is a result, and no better than either.
LEMMA WorseIs ==
    ASSUME NEW r \in OKAY .. DROP_PACKET, NEW s \in OKAY .. DROP_PACKET
    PROVE  Worse(r, s) \in OKAY .. DROP_PACKET /\ Worse(r, s) >= r /\ Worse(r, s) >= s
  BY Numbers DEF Worse

\* end_callback of a message consumer: the worst result is kept.
LEMMA MessageEndStep == IInv /\ MessageEnd => IInv'
  <1> SUFFICES ASSUME IInv, MessageEnd PROVE IInv'
    OBVIOUS
  <1> USE Numbers
  <1> PICK who : who = tree.msg[rd.i]
    OBVIOUS
  <1> DEFINE called == consumer[who].end_callback /\ ~consumer[who].addrblock_consumer /\ OfMessage(who)
  <1>0. PICK r \in IF called THEN Verdicts ELSE {OKAY} :
          /\ IF called THEN Call("end", who, 1, 0, r) ELSE UNCHANGED calls
          /\ rd' = [rd EXCEPT !.res = Worse(r, @), !.drops = Drops(r), !.i = @ - 1,
                          !.same_order = IF rd.i = rd.same_order[1] THEN <<>> ELSE @,
                          !.phase = IF rd.i > rd.same_order[1] THEN "message_end"
                                    ELSE IF Worse(r, rd.res) = OKAY THEN "message" ELSE "cleanup"]
    BY DEF MessageEnd
  <1>1. /\ r \in OKAY .. DROP_PACKET
        /\ \/ calls' = calls
           \/ calls' = Append(calls, [at |-> rd.ptr, cb |-> "end", c |-> who, b |-> 1, i |-> 0,
                                      res |-> r])
    BY <1>0, VerdictRange DEF Call
  <1>2. /\ rd.phase = "message_end" /\ msg' = msg /\ tree' = tree /\ dropped' = dropped
        /\ sched' = sched /\ forwards' = forwards /\ Place /\ ForwardsOk
    BY DEF MessageEnd, IInv
  <1>3. /\ rd'.phase \in {"message_end", "message", "cleanup"}
        /\ rd'.phase = "message" => rd'.res = OKAY
        /\ rd'.buf = rd.buf /\ rd'.ptr = rd.ptr /\ rd'.b = rd.b /\ rd'.res = Worse(r, rd.res)
        /\ Records'
    BY <1>0, <1>2 DEF Place, Records
  <1>4. rd'.res \in OKAY .. DROP_PACKET /\ rd'.res >= r /\ rd'.res >= rd.res
    BY <1>1, <1>2, <1>3, WorseIs DEF Place
  <1>5. Place'
    BY <1>2, <1>3, <1>4 DEF Place, InMessage, InAddress
  <1>6. ASSUME NEW y, CallOk(y) PROVE CallOk(y)'
    BY <1>2, <1>3, <1>4, <1>6 DEF CallOk, Place, InMessage, InAddress, Leaving
  <1>7. calls' = calls \/ \E e : MakesCall(e)
    <2> PICK e : e = [at |-> rd.ptr, cb |-> "end", c |-> who, b |-> 1, i |-> 0, res |-> r]
      OBVIOUS
    <2>1. e.at = rd.ptr /\ e.cb = "end" /\ e.b = 1 /\ e.res = r
      OBVIOUS
    <2>2. \A j \in DOMAIN forwards' : forwards'[j].at # e.at
      BY <1>2, <2>1 DEF ForwardsOk, Place
    <2>3. CallOk(e)'
      BY <1>1, <1>2, <1>3, <1>4, <2>1, <2>2 DEF CallOk, Place, InMessage, Leaving
    <2>4. \A y : CallOk(y) => MayFollow(e, y)
      BY <2>1 DEF MayFollow
    <2>5. QED
      BY <1>1, <2>3, <2>4 DEF MakesCall
  <1>8. QED
    BY <1>2, <1>3, <1>5, <1>6, <1>7, Stays

\* start_callback for an address that nobody has dropped.
LEMMA StartAddressStep == IInv /\ StartAddress => IInv'
  <1> SUFFICES ASSUME IInv, StartAddress PROVE IInv'
    OBVIOUS
  <1> USE Numbers
  <1> PICK who : who = tree.msg[rd.k]
    OBVIOUS
  <1>1. /\ rd.phase = "address" /\ msg' = msg /\ tree' = tree /\ dropped' = dropped
        /\ forwards' = forwards /\ Place /\ ForwardsOk /\ rd.b > 0 /\ rd.b \in Nat
    BY DEF StartAddress, IInv, Place
  <1>2. CASE <<rd.b, rd.i>> \in dropped.addr
    <2>1. rd' = NextAddress(rd) /\ calls' = calls /\ sched' = sched
      BY <1>2 DEF StartAddress
    <2>2. /\ rd'.phase = "address" /\ rd'.b \in {rd.b, rd.b + 1}
          /\ rd'.buf = rd.buf /\ rd'.ptr = rd.ptr /\ rd'.res = rd.res /\ Records'
      BY <1>1, <2>1 DEF Place, Records, NextAddress
    <2>3. Place'
      BY <1>1, <2>1, <2>2 DEF Place, InMessage, InAddress
    <2>4. ASSUME NEW y, CallOk(y) PROVE CallOk(y)'
      BY <1>1, <2>1, <2>2, <2>4 DEF CallOk, InMessage, InAddress, Leaving
    <2>5. QED
      BY <1>1, <2>1, <2>2, <2>3, <2>4, Stays
  <1>3. CASE <<rd.b, rd.i>> \notin dropped.addr
    <2>0. PICK r \in IF consumer[who].start_callback THEN Verdicts ELSE {OKAY} :
            /\ IF consumer[who].start_callback THEN Call("start", who, rd.b + 1, rd.i, r)
               ELSE UNCHANGED calls
            /\ rd' = [rd EXCEPT !.res = r, !.drops = Drops(r),
                         !.phase = IF r = OKAY THEN "tlvs" ELSE "address_end"]
            /\ IF r = OKAY THEN Schedule(who, rd.b + 1, rd.i) ELSE UNCHANGED <<sched, found>>
      BY <1>3 DEF StartAddress
    <2>1. /\ r \in OKAY .. DROP_PACKET
          /\ \/ calls' = calls
             \/ calls' = Append(calls, [at |-> rd.ptr, cb |-> "start", c |-> who, b |-> rd.b + 1,
                                        i |-> rd.i, res |-> r])
          /\ IF r = OKAY THEN Schedule(who, rd.b + 1, rd.i) ELSE sched' = sched
      BY <2>0, VerdictRange DEF Call
    <2>2. /\ rd'.phase = (IF r = OKAY THEN "tlvs" ELSE "address_end")
          /\ rd'.buf = rd.buf /\ rd'.ptr = rd.ptr /\ rd'.b = rd.b /\ rd'.i = rd.i
          /\ rd'.k = rd.k /\ rd'.res = r
          /\ rd' = [phase |-> rd'.phase, buf |-> rd'.buf, ptr |-> rd'.ptr,
                    has_tlv |-> rd'.has_tlv, started |-> rd'.started, result |-> rd'.result,
                    k |-> rd'.k, b |-> rd'.b, i |-> rd'.i, same_order |-> rd'.same_order,
                    res |-> rd'.res, do_not_forward |-> rd'.do_not_forward, drops |-> rd'.drops]
      BY <2>0, <1>1 DEF Place, Records
    <2>3. /\ rd'.phase = "tlvs" => sched'.b = rd.b + 1 /\ sched'.i = rd.i /\ sched'.c = who
          /\ sched'.b \in Nat /\ Records'
      <3>1. CASE r = OKAY
        BY <1>1, <2>1, <2>2, <3>1, Scheduled DEF Place, Records
      <3>2. CASE r # OKAY
        BY <1>1, <2>1, <2>2, <3>2 DEF Place, Records
      <3>3. QED
        BY <3>1, <3>2
    <2>4. Place'
      BY <1>1, <1>3, <2>1, <2>2, <2>3 DEF Place, InMessage, InAddress
    <2>5. ASSUME NEW y, CallOk(y) PROVE CallOk(y)'
      BY <1>1, <2>1, <2>2, <2>3, <2>5 DEF CallOk, InMessage, InAddress, Leaving
    <2>6. calls' = calls \/ \E e : MakesCall(e)
      <3> PICK e : e = [at |-> rd.ptr, cb |-> "start", c |-> who, b |-> rd.b + 1, i |-> rd.i,
                        res |-> r]
        OBVIOUS
      <3>1. e.at = rd.ptr /\ e.c = who /\ e.b = rd.b + 1 /\ e.i = rd.i /\ e.res = r
        OBVIOUS
      <3>2. \A j \in DOMAIN forwards' : forwards'[j].at # e.at
        BY <1>1, <3>1 DEF ForwardsOk, Place
      <3>3. CallOk(e)'
        BY <1>1, <2>1, <2>2, <2>3, <3>1, <3>2 DEF CallOk, Place, InMessage, InAddress, Leaving
      <3>4. \A y : CallOk(y) => MayFollow(e, y)
        BY <1>1, <1>3, <3>1 DEF CallOk, MayFollow, InAddress, Leaving
      <3>5. QED
        BY <2>1, <3>3, <3>4 DEF MakesCall
    <2>7. QED
      BY <1>1, <2>2, <2>4, <2>5, <2>6, Stays
  <1>4. QED
    BY <1>2, <1>3

\* end_callback for an address: that it was dropped is recorded, a worse result is kept.
LEMMA EndAddressStep == IInv /\ EndAddress => IInv'
  <1> SUFFICES ASSUME IInv, EndAddress PROVE IInv'
    OBVIOUS
  <1> USE Numbers
  <1> PICK who : who = tree.msg[rd.k]
    OBVIOUS
  <1>1. /\ InAddress /\ rd.phase \in {"address_end", "shown"} /\ msg' = msg /\ tree' = tree
        /\ sched' = sched /\ forwards' = forwards /\ Place /\ ForwardsOk
        /\ rd.b > 0 /\ rd.b \in Nat /\ rd.res \in OKAY .. DROP_PACKET
        /\ <<rd.b, rd.i>> \notin dropped.addr
    BY DEF EndAddress, IInv, Place, InAddress
  <1>0. PICK r \in IF consumer[who].end_callback THEN Verdicts ELSE {OKAY} :
          /\ IF consumer[who].end_callback THEN Call("end", who, rd.b + 1, rd.i, r)
             ELSE UNCHANGED calls
          /\ dropped' = IF Worse(r, rd.res) = DROP_ADDRESS
                        THEN [dropped EXCEPT !.addr = @ \cup {<<rd.b, rd.i>>}] ELSE dropped
          /\ rd' = IF Worse(r, rd.res) \in {OKAY, DROP_ADDRESS}
                   THEN NextAddress([rd EXCEPT !.drops = Drops(r), !.res = OKAY])
                   ELSE [[rd EXCEPT !.drops = Drops(r), !.res = OKAY] EXCEPT
                           !.res = Worse(r, rd.res),
                           !.phase = IF rd.same_order = <<>> THEN "cleanup" ELSE "message_end",
                           !.i = IF rd.same_order = <<>> THEN 0 ELSE rd.same_order[2]]
    BY DEF EndAddress
  <1>2. /\ r \in OKAY .. DROP_PACKET
        /\ \/ calls' = calls
           \/ calls' = Append(calls, [at |-> rd.ptr, cb |-> "end", c |-> who, b |-> rd.b + 1,
                                      i |-> rd.i, res |-> r])
    BY <1>0, VerdictRange DEF Call
  <1> PICK worst : worst = Worse(r, rd.res)
    OBVIOUS
  <1>3. worst \in OKAY .. DROP_PACKET /\ worst >= r /\ worst >= rd.res
    BY <1>1, <1>2, WorseIs
  <1>4. /\ IF worst \in {OKAY, DROP_ADDRESS}
           THEN rd'.phase = "address" /\ rd'.b \in {rd.b, rd.b + 1} /\ rd'.res = OKAY
           ELSE rd'.phase \in {"cleanup", "message_end"} /\ rd'.b = rd.b /\ rd'.res = worst
        /\ rd'.buf = rd.buf /\ rd'.ptr = rd.ptr
        /\ rd' = [phase |-> rd'.phase, buf |-> rd'.buf, ptr |-> rd'.ptr, has_tlv |-> rd'.has_tlv,
                  started |-> rd'.started, result |-> rd'.result, k |-> rd'.k, b |-> rd'.b,
                  i |-> rd'.i, same_order |-> rd'.same_order, res |-> rd'.res,
                  do_not_forward |-> rd'.do_not_forward, drops |-> rd'.drops]
    <2> PICK rest : rest = [rd EXCEPT !.drops = Drops(r), !.res = OKAY]
      OBVIOUS
    <2>1. /\ rest.buf = rd.buf /\ rest.ptr = rd.ptr /\ rest.b = rd.b /\ rest.res = OKAY
          /\ rest = [phase |-> rest.phase, buf |-> rest.buf, ptr |-> rest.ptr,
                     has_tlv |-> rest.has_tlv, started |-> rest.started, result |-> rest.result,
                     k |-> rest.k, b |-> rest.b, i |-> rest.i, same_order |-> rest.same_order,
                     res |-> rest.res, do_not_forward |-> rest.do_not_forward,
                     drops |-> rest.drops]
      BY <1>1 DEF Place, Records
    <2>2. CASE worst \in {OKAY, DROP_ADDRESS}
      <3>1. rd' = NextAddress(rest)
        BY <1>0, <2>2
      <3>2. QED
        BY <2>1, <2>2, <3>1 DEF NextAddress
    <2>3. CASE worst \notin {OKAY, DROP_ADDRESS}
      <3>1. rd' = [rest EXCEPT !.res = worst,
                     !.phase = IF rd.same_order = <<>> THEN "cleanup" ELSE "message_end",
                     !.i = IF rd.same_order = <<>> THEN 0 ELSE rd.same_order[2]]
        BY <1>0, <2>3
      <3>2. QED
        BY <2>1, <2>3, <3>1
    <2>4. QED
      BY <2>2, <2>3
  <1>5. /\ dropped' = [addr |-> dropped'.addr, tlv |-> dropped'.tlv]
        /\ dropped'.addr = IF worst = DROP_ADDRESS THEN dropped.addr \cup {<<rd.b, rd.i>>}
                           ELSE dropped.addr
    BY <1>0, <1>1 DEF Place, Records
  <1>6. Records'
    BY <1>1, <1>4, <1>5 DEF Place, Records
  <1>7. Place'
    BY <1>1, <1>3, <1>4, <1>6 DEF Place, InMessage, InAddress
  <1>8. ASSUME NEW y, CallOk(y) PROVE CallOk(y)'
    <2>1. InMessage /\ (y.b > 0 /\ y.at = rd.ptr => InMessage')
      BY <1>1, <1>4 DEF InMessage, InAddress
    <2>2. y.res = DROP_PACKET => rd'.phase \in {"cleanup", "message_end"} /\ rd'.res = DROP_PACKET
      BY <1>1, <1>3, <1>4, <1>8 DEF CallOk
    <2>3. y.b > 0 /\ y.at = rd.ptr /\ y.res >= DROP_MSG_BUT_FORWARD =>
            rd'.phase \in {"cleanup", "message_end"} /\ rd'.res >= y.res
      BY <1>1, <1>3, <1>4, <1>8 DEF CallOk
    <2>4. y.b > 1 /\ y.at = rd.ptr /\ y.res = DROP_ADDRESS =>
            \/ <<y.b - 1, y.i>> \in dropped'.addr
            \/ rd'.phase \in {"message_end", "cleanup"} /\ rd'.res # OKAY
      BY <1>1, <1>3, <1>4, <1>5, <1>8 DEF CallOk
    <2>5. QED
      BY <1>1, <1>4, <1>8, <2>1, <2>2, <2>3, <2>4 DEF CallOk, Leaving
  <1>9. calls' = calls \/ \E e : MakesCall(e)
    <2> PICK e : e = [at |-> rd.ptr, cb |-> "end", c |-> who, b |-> rd.b + 1, i |-> rd.i, res |-> r]
      OBVIOUS
    <2>1. /\ e.at = rd.ptr /\ e.cb = "end" /\ e.c = who /\ e.b = rd.b + 1 /\ e.i = rd.i /\ e.res = r
      OBVIOUS
    <2>2. \A j \in DOMAIN forwards' : forwards'[j].at # e.at
      BY <1>1, <2>1 DEF ForwardsOk, Place
    <2>3. CallOk(e)'
      <3>1. InMessage'
        BY <1>4 DEF InMessage
      <3>2. r > DROP_ADDRESS => rd'.phase \in {"cleanup", "message_end"} /\ rd'.res >= r
        BY <1>2, <1>3, <1>4
      <3>3. r = DROP_ADDRESS => \/ <<rd.b, rd.i>> \in dropped'.addr
                                \/ rd'.phase \in {"message_end", "cleanup"} /\ rd'.res # OKAY
        BY <1>3, <1>4, <1>5
      <3>4. rd.ptr \in Nat
        BY <1>1 DEF Place
      <3>5. e.at \in Nat /\ e.b \in Nat /\ e.b - 1 = rd.b
        BY <1>1, <2>1, <3>4
      <3>6. rd'.res \in OKAY .. DROP_PACKET
        BY <1>3, <1>4
      <3>7. QED
        BY <1>2, <1>4, <2>1, <2>2, <3>1, <3>2, <3>3, <3>5, <3>6 DEF CallOk, Leaving
    <2>4. \A y : CallOk(y) => MayFollow(e, y)
      BY <1>1, <2>1 DEF CallOk, MayFollow
    <2>5. QED
      BY <1>2, <2>3, <2>4 DEF MakesCall
  <1>10. QED
    BY <1>1, <1>4, <1>7, <1>8, <1>9, Stays

\* Showing a TLV block does not change what is shown to whom.
LEMMA Advanced ==
    ASSUME Records, NEW match, Advance(match)
    PROVE  /\ sched'.c = sched.c /\ sched'.b = sched.b /\ sched'.i = sched.i
           /\ sched' = [c |-> sched'.c, b |-> sched'.b, i |-> sched'.i, t |-> sched'.t,
                        e |-> sched'.e, failed |-> sched'.failed]
  <1>1. PICK t1, e1, f1 : sched' = [sched EXCEPT !.t = t1, !.e = e1, !.failed = f1]
    BY DEF Advance
  <1>2. QED
    BY <1>1 DEF Records

\* A callback for the block under way, which may leave it.
LEMMA ShowingStep ==
    ASSUME IInv, rd.phase = "tlvs", msg' = msg, tree' = tree, forwards' = forwards,
           NEW cb, NEW r \in OKAY .. DROP_PACKET,
           \/ calls' = calls
           \/ calls' = Append(calls, [at |-> rd.ptr, cb |-> cb, c |-> sched.c, b |-> sched.b,
                                      i |-> sched.i, res |-> r]),
           \/ rd'.phase = "tlvs" /\ r \in {OKAY, DROP_TLV} /\ rd'.res = rd.res
           \/ rd'.phase = "shown" /\ rd'.res = (IF r = DROP_TLV THEN OKAY ELSE r),
           rd'.buf = rd.buf, rd'.ptr = rd.ptr, rd'.b = rd.b, rd'.i = rd.i, rd'.k = rd.k,
           sched'.c = sched.c, sched'.b = sched.b, sched'.i = sched.i,
           dropped'.addr = dropped.addr, Records'
    PROVE  IInv'
  <1> USE Numbers
  <1>1. Place /\ ForwardsOk /\ rd'.res \in OKAY .. DROP_PACKET
    BY DEF IInv, Place
  <1>2. (InMessage' <=> InMessage) /\ (InAddress' <=> InAddress)
    BY DEF InMessage, InAddress
  <1>3. Place'
    BY <1>1, <1>2 DEF Place
  <1>4. ASSUME NEW y, CallOk(y) PROVE CallOk(y)'
    BY <1>2, <1>4 DEF CallOk, Leaving
  <1>5. calls' = calls \/ \E e : MakesCall(e)
    <2> PICK e : e = [at |-> rd.ptr, cb |-> cb, c |-> sched.c, b |-> sched.b, i |-> sched.i,
                      res |-> r]
      OBVIOUS
    <2>1. e.at = rd.ptr /\ e.c = sched.c /\ e.b = sched.b /\ e.i = sched.i /\ e.res = r
      OBVIOUS
    <2>2. \A j \in DOMAIN forwards' : forwards'[j].at # e.at
      BY <1>1, <2>1 DEF ForwardsOk, Place
    <2>3. sched.b > 1 => /\ InAddress /\ InAddress' /\ rd.b = sched.b - 1 /\ rd.i = sched.i
                         /\ tree.msg[rd.k] = sched.c /\ <<rd.b, rd.i>> \notin dropped.addr
      BY <1>1, <1>2 DEF Place, InAddress
    <2>4. e.at \in Nat /\ e.b \in Nat
      BY <1>1, <2>1 DEF Place
    <2>5. sched.b > 0 => InMessage'
      BY <1>2 DEF InMessage
    <2>6. r > DROP_TLV => rd'.phase = "shown" /\ rd'.res = r
      OBVIOUS
    <2>7. CallOk(e)'
      BY <2>1, <2>2, <2>3, <2>4, <2>5, <2>6 DEF CallOk, Leaving
    <2>8. ASSUME NEW y, CallOk(y) PROVE MayFollow(e, y)
      <3>1. y.res # DROP_PACKET
        BY <2>8 DEF CallOk, Leaving
      <3>2. y.b > 0 /\ y.at = rd.ptr => y.res \in OKAY .. DROP_ADDRESS
        BY <2>8 DEF CallOk, Leaving
      <3>3. y.b > 1 /\ y.at = rd.ptr /\ y.res = DROP_ADDRESS => <<y.b - 1, y.i>> \in dropped.addr
        BY <2>8 DEF CallOk
      <3>4. QED
        BY <2>1, <2>3, <3>1, <3>2, <3>3 DEF MayFollow
    <2>9. QED
      BY <2>7, <2>8 DEF MakesCall
  <1>6. QED
    BY <1>3, <1>4, <1>5, Stays

\* tlv_callback.
LEMMA ScheduleTurnStep == IInv /\ ScheduleTurn => IInv'
  <1> SUFFICES ASSUME IInv, ScheduleTurn PROVE IInv'
    OBVIOUS
  <1> USE Numbers
  <1>1. /\ rd.phase = "tlvs" /\ msg' = msg /\ tree' = tree /\ forwards' = forwards /\ Records
        /\ rd.res \in OKAY .. DROP_PACKET
    BY DEF ScheduleTurn, IInv, Place
  <1>2. \/ /\ \E match : Advance(match)
           /\ UNCHANGED <<rd, dropped, calls>>
        \/ \E r \in Verdicts :
             /\ Call("tlv", sched.c, sched.b, sched.i, r)
             /\ \/ /\ r \in {OKAY, DROP_TLV}
                   /\ rd' = [rd EXCEPT !.drops = Drops(r)]
                   /\ dropped' = IF r = OKAY THEN dropped
                                 ELSE [dropped EXCEPT !.tlv = @ \cup
                                         {<<sched.b, sched.t, sched.i>>}]
                   /\ \E match : Advance(match)
                \/ /\ r \notin {OKAY, DROP_TLV}
                   /\ rd' = [rd EXCEPT !.drops = Drops(r), !.res = r, !.phase = "shown"]
                   /\ UNCHANGED <<sched, found, dropped>>
    BY DEF ScheduleTurn
  <1>3. CASE (\E match : Advance(match)) /\ UNCHANGED <<rd, dropped, calls>>
    <2>1. /\ sched'.c = sched.c /\ sched'.b = sched.b /\ sched'.i = sched.i /\ Records'
      BY <1>1, <1>3, Advanced DEF Records
    <2>2. /\ rd' = rd /\ calls' = calls /\ dropped' = dropped
      BY <1>3
    <2>3. OKAY \in OKAY .. DROP_PACKET
      OBVIOUS
    <2>4. QED
      BY <1>1, <2>1, <2>2, <2>3, ShowingStep
  <1>4. ASSUME NEW r \in Verdicts, Call("tlv", sched.c, sched.b, sched.i, r),
               r \in {OKAY, DROP_TLV}, rd' = [rd EXCEPT !.drops = Drops(r)],
               dropped' = IF r = OKAY THEN dropped
                          ELSE [dropped EXCEPT !.tlv = @ \cup {<<sched.b, sched.t, sched.i>>}],
               NEW match, Advance(match)
        PROVE  IInv'
    <2>1. /\ sched'.c = sched.c /\ sched'.b = sched.b /\ sched'.i = sched.i
          /\ sched' = [c |-> sched'.c, b |-> sched'.b, i |-> sched'.i, t |-> sched'.t,
                       e |-> sched'.e, failed |-> sched'.failed]
      BY <1>1, <1>4, Advanced
    <2>2. /\ rd'.phase = "tlvs" /\ rd'.res = rd.res
          /\ rd'.buf = rd.buf /\ rd'.ptr = rd.ptr /\ rd'.b = rd.b /\ rd'.i = rd.i /\ rd'.k = rd.k
          /\ dropped'.addr = dropped.addr /\ Records'
      BY <1>1, <1>4, <2>1 DEF Records
    <2>3. calls' = Append(calls, [at |-> rd.ptr, cb |-> "tlv", c |-> sched.c, b |-> sched.b,
                                  i |-> sched.i, res |-> r])
      BY <1>4 DEF Call
    <2>4. r \in OKAY .. DROP_PACKET
      BY VerdictRange
    <2>5. QED
      BY <1>1, <1>4, <2>1, <2>2, <2>3, <2>4, ShowingStep
  <1>5. ASSUME NEW r \in Verdicts, Call("tlv", sched.c, sched.b, sched.i, r),
               r \notin {OKAY, DROP_TLV},
               rd' = [rd EXCEPT !.drops = Drops(r), !.res = r, !.phase = "shown"],
               UNCHANGED <<sched, found, dropped>>
        PROVE  IInv'
    <2>1. /\ rd'.phase = "shown" /\ rd'.res = r
          /\ rd'.buf = rd.buf /\ rd'.ptr = rd.ptr /\ rd'.b = rd.b /\ rd'.i = rd.i /\ rd'.k = rd.k
          /\ sched' = sched /\ dropped' = dropped /\ Records'
      BY <1>1, <1>5 DEF Records
    <2>2. calls' = Append(calls, [at |-> rd.ptr, cb |-> "tlv", c |-> sched.c, b |-> sched.b,
                                  i |-> sched.i, res |-> r])
      BY <1>5 DEF Call
    <2>3. r \in OKAY .. DROP_PACKET
      BY VerdictRange
    <2>4. QED
      BY <1>1, <1>5, <2>1, <2>2, <2>3, ShowingStep
  <1>6. QED
    BY <1>2, <1>3, <1>4, <1>5

\* block_callback and block_callback_failed_constraints.
LEMMA ScheduleVerdictStep == IInv /\ ScheduleVerdict => IInv'
  <1> SUFFICES ASSUME IInv, ScheduleVerdict PROVE IInv'
    OBVIOUS
  <1> USE Numbers
  <1> DEFINE cb == IF sched.failed THEN "failed" ELSE "block"
             called == IF sched.failed THEN consumer[sched.c].block_callback_failed_constraints
                       ELSE consumer[sched.c].block_callback
  <1>1. /\ rd.phase = "tlvs" /\ msg' = msg /\ tree' = tree /\ forwards' = forwards
        /\ sched' = sched /\ Records
    BY DEF ScheduleVerdict, IInv, Place
  <1>2. \/ rd' = [rd EXCEPT !.phase = "shown", !.res = OKAY] /\ UNCHANGED <<calls, dropped>>
        \/ \E r \in Verdicts, prevent \in BOOLEAN : \E D :
             /\ Call(cb, sched.c, sched.b, sched.i, r)
             /\ dropped' = [dropped EXCEPT !.tlv = @ \cup
                                {<<sched.b, found[e][1], sched.i>> : e \in D}]
             /\ rd' = [rd EXCEPT !.phase = "shown", !.res = IF r = DROP_TLV THEN OKAY ELSE r,
                                 !.do_not_forward = @ \/ prevent,
                                 !.drops = IF prevent THEN @ + 1 ELSE Drops(r)]
    <2>1. CASE ~called
      BY <2>1 DEF ScheduleVerdict
    <2>2. CASE called
      <3>1. PICK r \in Verdicts, prevent \in BOOLEAN,
                 D \in SUBSET (IF RingCloses(sched.c)
                               THEN {e \in ToSet(Ring(lists, sched.c)) : found[e] # <<>>} ELSE {}) :
              /\ Call(cb, sched.c, sched.b, sched.i, r)
              /\ dropped' = [dropped EXCEPT !.tlv = @ \cup
                                 {<<sched.b, found[e][1], sched.i>> : e \in D}]
              /\ rd' = [rd EXCEPT !.phase = "shown", !.res = IF r = DROP_TLV THEN OKAY ELSE r,
                                  !.do_not_forward = @ \/ prevent,
                                  !.drops = IF prevent THEN @ + 1 ELSE Drops(r)]
        BY <2>2, ZenonT(60) DEF ScheduleVerdict
      <3>2. QED
        BY <3>1, Zenon
    <2>3. QED
      BY <2>1, <2>2
  <1>3. CASE rd' = [rd EXCEPT !.phase = "shown", !.res = OKAY] /\ UNCHANGED <<calls, dropped>>
    <2>1. /\ rd'.phase = "shown" /\ rd'.res = OKAY
          /\ rd'.buf = rd.buf /\ rd'.ptr = rd.ptr /\ rd'.b = rd.b /\ rd'.i = rd.i /\ rd'.k = rd.k
          /\ dropped' = dropped /\ calls' = calls /\ Records'
      BY <1>1, <1>3 DEF Records
    <2>2. OKAY \in OKAY .. DROP_PACKET
      OBVIOUS
    <2>3. QED
      BY <1>1, <2>1, <2>2, ShowingStep
  <1>4. ASSUME NEW r \in Verdicts, NEW prevent \in BOOLEAN, NEW D,
               Call(cb, sched.c, sched.b, sched.i, r),
               dropped' = [dropped EXCEPT !.tlv = @ \cup
                              {<<sched.b, found[e][1], sched.i>> : e \in D}],
               rd' = [rd EXCEPT !.phase = "shown", !.res = IF r = DROP_TLV THEN OKAY ELSE r,
                                !.do_not_forward = @ \/ prevent,
                                !.drops = IF prevent THEN @ + 1 ELSE Drops(r)]
        PROVE  IInv'
    <2>1. /\ rd'.phase = "shown" /\ rd'.res = (IF r = DROP_TLV THEN OKAY ELSE r)
          /\ rd'.buf = rd.buf /\ rd'.ptr = rd.ptr /\ rd'.b = rd.b /\ rd'.i = rd.i /\ rd'.k = rd.k
          /\ dropped'.addr = dropped.addr /\ Records'
      BY <1>1, <1>4 DEF Records
    <2>2. calls' = Append(calls, [at |-> rd.ptr, cb |-> cb, c |-> sched.c, b |-> sched.b,
                                  i |-> sched.i, res |-> r])
      BY <1>4 DEF Call
    <2>3. r \in OKAY .. DROP_PACKET
      BY VerdictRange
    <2>4. QED
      BY <1>1, <2>1, <2>2, <2>3, ShowingStep
  <1>5. QED
    BY <1>2, <1>3, <1>4

-----------------------------------------------------------------------------
\* The invariant holds before the first registration.
LEMMA InitOk == ReaderInit => IInv
  <1> SUFFICES ASSUME ReaderInit PROVE IInv
    OBVIOUS
  <1> USE Numbers
  <1>1. /\ rd = AtRest /\ sched = NoSched /\ dropped = [addr |-> {}, tlv |-> {}]
        /\ calls = <<>> /\ forwards = <<>>
    BY DEF ReaderInit
  <1>2. /\ rd.phase = "idle" /\ rd.buf = <<>> /\ rd.ptr = 0 /\ rd.b = 0 /\ rd.res = OKAY
        /\ sched.b = 0 /\ Records
    BY <1>1 DEF AtRest, NoSched, Records
  <1>3. Place
    BY <1>1, <1>2 DEF Place, InMessage, InAddress
  <1>4. CallsOk /\ ForwardsOk
    <2>1. IsSeq(calls) /\ IsSeq(forwards) /\ DOMAIN calls = {} /\ DOMAIN forwards = {} /\ Len(calls) = 0
      BY <1>1, EmptyIsSeq
    <2>2. QED
      BY <2>1 DEF CallsOk, ForwardsOk
  <1>5. QED
    BY <1>3, <1>4 DEF IInv

\* It depends on the variables of the reader alone.
LEMMA NothingOk == IInv /\ UNCHANGED rvars => IInv'
  <1> SUFFICES ASSUME IInv, UNCHANGED rvars PROVE IInv'
    OBVIOUS
  <1>1. /\ tree' = tree /\ rd' = rd /\ msg' = msg /\ sched' = sched /\ dropped' = dropped
        /\ calls' = calls /\ forwards' = forwards
    BY DEF rvars
  <1>2. Place'
    BY <1>1 DEF IInv, Place, Records, InMessage, InAddress
  <1>3. ASSUME NEW y, CallOk(y) PROVE CallOk(y)'
    BY <1>1, <1>3 DEF CallOk, InMessage, InAddress, Leaving
  <1>4. QED
    BY <1>1, <1>2, <1>3, Stays

\* Every step keeps it.
LEMMA NextOk == IInv /\ [Register \/ ReadAny \/ ReaderStep]_rvars => IInv'
  BY RegisterStep, ReadStep, ScheduleTurnStep, ScheduleVerdictStep, PacketConsumerStep,
     PacketBlockShownStep, ParseMessageStep, SkipConsumerStep, EndOfOrderStep,
     MessageConsumerStep, MessageBlockShownStep, MessageEndStep, BeginAddressesStep,
     StartAddressStep, EndAddressStep, EndAddressesStep, EndMessageStep, PacketEndStep,
     PacketDoneStep, NothingOk
  DEF ReaderStep

\* It says more than the property.
LEMMA KeepsDrops == IInv => DropsHold
  <1> SUFFICES ASSUME IInv PROVE DropsHold
    OBVIOUS
  <1>1. ASSUME calls # <<>>, NEW k \in 1 .. Len(calls) - 1
        PROVE  MayFollow(calls[Len(calls)], calls[k])
    BY <1>1 DEF IInv, CallsOk
  <1>2. \A j, k \in DOMAIN forwards : forwards[j].at = forwards[k].at => j = k
    BY DEF IInv, ForwardsOk
  <1>3. ASSUME NEW k \in DOMAIN forwards, NEW j \in DOMAIN calls,
               calls[j].at = forwards[k].at, calls[j].b > 0
        PROVE  calls[j].res \notin {DROP_MESSAGE, DROP_PACKET}
    <2>1. CallOk(calls[j])
      BY DEF IInv, CallsOk
    <2>2. QED
      BY <1>3, <2>1 DEF CallOk
  <1>4. QED
    BY <1>1, <1>2, <1>3 DEF DropsHold, MayFollow

\* What one consumer drops no later one is shown, and a message that was dropped
\* for others is not forwarded, nor one twice: whatever packets are read, whatever
\* consumers are registered, in whatever order, and whatever they return.
THEOREM DropsAreKept == ReaderSpec => []DropsHold
  <1>1. ReaderSpec => []IInv
    BY InitOk, NextOk, PTL DEF ReaderSpec
  <1>2. QED
    BY <1>1, KeepsDrops, PTL

-----------------------------------------------------------------------------
\* The reader is at a TLV block, or somewhere among the addresses of a message.
InBlock     == rd.phase \in {"tlvs", "shown"}
InAddresses == rd.phase = "address" \/ InAddress

\* Consumer x takes part in the message at hand, as a message consumer.
Handles(x) == OfMessage(x) /\ ~consumer[x].addrblock_consumer
OrderAt(j) == consumer[tree.msg[j]].order

\* The packet, message or address y.at, y.b, y.i, shown to consumer y.c.
IsContext(y) == y.c \in Consumers /\ y.at \in Nat /\ y.b \in Nat /\ y.i \in Nat

\* The last of the consumers of an order that was started and was not ended.
Top == IF rd.phase = "message_end" THEN rd.i ELSE rd.same_order[2]

\* The start of y was told, and its end is due.
Within(y) ==
    \/ y.b = 0 /\ \E j \in 1 .. rd.started : y.c = tree.pkt[j]
    \/ /\ y.b = 1 /\ y.at = rd.ptr /\ y.i = 0 /\ InMessage /\ rd.same_order # <<>> /\ Handles(y.c)
       /\ \E j \in rd.same_order[1] .. Top : y.c = tree.msg[j]
    \/ /\ y.b > 1 /\ y.at = rd.ptr /\ InAddress
       /\ y.c = tree.msg[rd.k] /\ y.b = rd.b + 1 /\ y.i = rd.i

\* The first consumer of the message that was shown nothing of it, unless the
\* message is being left.
From  == IF rd.phase \in {"message", "message_end"} THEN rd.k ELSE rd.k + 1
Going == InMessage /\ rd.phase # "cleanup" /\ (rd.phase = "message_end" => rd.res = OKAY)
Later(y, b, i) == y.b - 1 > b \/ (y.b - 1 = b /\ y.i > i)

\* The start of y may still come.
Ahead(y) ==
    \/ /\ y.b = 0 /\ (rd.phase = "packet" \/ (InBlock /\ sched.b = 0))
       /\ \E j \in rd.started + 1 .. Len(tree.pkt) : y.c = tree.pkt[j]
    \/ /\ y.b > 0 /\ y.at = rd.ptr /\ Going
       /\ \E j \in From .. Len(tree.msg) : y.c = tree.msg[j]
    \/ /\ y.b > 1 /\ y.at = rd.ptr /\ InAddresses /\ y.c = tree.msg[rd.k]
       /\ Later(y, rd.b, rd.i) \/ (rd.phase = "address" /\ y.b - 1 = rd.b /\ y.i = rd.i)

\* What was told of y is what the place of the reader says.
Told(y) ==
    /\ Within(y) => Count("start", Context(y)) = 1 /\ Count("end", Context(y)) = 0
    /\ ~Within(y) => Count("start", Context(y)) = Count("end", Context(y))
    /\ Ahead(y) => Count("start", Context(y)) = 0 /\ Count("end", Context(y)) = 0

\* The trees hold each consumer once, in order, and none that is not registered.
Kept(x, w) == \E m \in 1 .. done :
                 /\ Registrations[m].add /\ Registrations[m].c = x /\ Registrations[m].where = w
                 /\ \A l \in m + 1 .. done : ~ /\ ~Registrations[l].add
                                               /\ Registrations[l].c = x
                                               /\ Registrations[l].where = w
TreeOk(w) ==
    /\ tree[w] \in Seq(Consumers)
    /\ \A j, k \in DOMAIN tree[w] : tree[w][j] = tree[w][k] => j = k
    /\ \A j, k \in DOMAIN tree[w] : j < k => ConsumerKey[tree[w][j]] <= ConsumerKey[tree[w][k]]
    /\ \A j \in DOMAIN tree[w] : Kept(tree[w][j], w)
Trees == /\ tree = [pkt |-> tree.pkt, msg |-> tree.msg]
         /\ done \in 0 .. Len(Registrations)
         /\ TreeOk("pkt") /\ TreeOk("msg")

\* Whose turn it is in a packet, in a message, and at its addresses.
PacketTurn ==
    /\ rd.started \in 0 .. Len(tree.pkt)
    /\ rd.phase \in {"idle", "refused"} => rd.started = 0
    /\ rd.phase = "packet" => rd.k = rd.started + 1
    /\ InBlock /\ sched.b = 0 => /\ rd.k \in 1 .. Len(tree.pkt) /\ rd.started = rd.k
                                 /\ sched.c = tree.pkt[rd.k] /\ sched.i = 0
MessageTurn ==
    /\ InMessage => rd.k \in 1 .. Len(tree.msg) + 1
    /\ InBlock /\ sched.b = 1 =>
          /\ rd.k <= Len(tree.msg) /\ Handles(tree.msg[rd.k])
          /\ sched.c = tree.msg[rd.k] /\ sched.i = 0
          /\ rd.same_order # <<>> /\ rd.same_order[2] = rd.k
    /\ InMessage /\ rd.same_order # <<>> =>
          /\ rd.same_order[1] \in 1 .. Len(tree.msg)
          /\ rd.same_order[2] \in rd.same_order[1] .. Len(tree.msg)
          /\ OrderAt(rd.same_order[1]) = OrderAt(rd.same_order[2])
    /\ (rd.phase = "message" \/ InAddresses) /\ rd.same_order # <<>> =>
          /\ rd.same_order[2] < rd.k
          /\ \A j \in rd.same_order[2] + 1 .. rd.k - 1 : ~Handles(tree.msg[j])
    /\ rd.phase = "message_end" => /\ rd.same_order # <<>>
                                   /\ rd.i \in rd.same_order[1] .. rd.same_order[2]
                                   /\ rd.res = OKAY => rd.same_order[2] < rd.k
    /\ rd.phase = "cleanup" => rd.same_order = <<>>
AddressTurn ==
    InAddresses => /\ rd.k <= Len(tree.msg) /\ OfMessage(tree.msg[rd.k])
                   /\ consumer[tree.msg[rd.k]].addrblock_consumer /\ rd.i \in Nat
                   /\ rd.same_order # <<>> => OrderAt(rd.k) = OrderAt(rd.same_order[2])
Turn == PacketTurn /\ MessageTurn /\ AddressTurn

\* What EndsFollowStarts says of callback x, when it was the last.
Open(y) == Count("start", Context(y)) > Count("end", Context(y))
LastOk(x) ==
    /\ Brackets(x.c) => /\ Count("start", Context(x)) = 1
                        /\ Count("end", Context(x)) = (IF x.cb = "end" THEN 1 ELSE 0)
    /\ x.b > 0 => \A k \in DOMAIN calls :
          Brackets(calls[k].c) /\ Open(calls[k]) /\ calls[k].b > 0 =>
             consumer[calls[k].c].order = consumer[x.c].order

AllTold == \A y : IsContext(y) /\ Brackets(y.c) => Told(y)
History == /\ \A k \in DOMAIN calls : IsContext(calls[k])
           /\ calls # <<>> => LastOk(calls[Len(calls)])

BInv == Trees /\ Turn /\ AllTold /\ History

-----------------------------------------------------------------------------
\* Callbacks are for the same if they agree in what Context shows.
LEMMA SameContext ==
    ASSUME NEW x, NEW y, Context(x) = Context(y)
    PROVE  /\ x.c = y.c /\ (x.b = 0 <=> y.b = 0)
           /\ x.b # 0 => x.at = y.at /\ x.b = y.b /\ x.i = y.i
  <1>1. CASE x.b = 0 /\ y.b = 0
    BY <1>1 DEF Context
  <1>2. CASE x.b # 0 /\ y.b # 0
    <2>1. <<x.c, x.at, x.b, x.i>> = <<y.c, y.at, y.b, y.i>>
      BY <1>2 DEF Context
    <2>2. QED
      BY <1>2, <2>1
  <1>3. ASSUME NEW v, NEW w, v.b = 0, w.b # 0 PROVE Context(v) # Context(w)
    <2>1. Len(Context(v)) = 1 /\ Len(Context(w)) = 4
      BY <1>3 DEF Context
    <2>2. QED
      BY <2>1
  <1>4. QED
    BY <1>1, <1>2, <1>3

\* The callbacks that are counted.
Counted(cb, ctx) == {k \in DOMAIN calls : calls[k].cb = cb /\ Context(calls[k]) = ctx}

\* They are finitely many.
LEMMA CountedFinite ==
    ASSUME IsSeq(calls), NEW cb, NEW ctx
    PROVE  IsFiniteSet(Counted(cb, ctx)) /\ Count(cb, ctx) \in Nat /\ Count(cb, ctx) = Cardinality(Counted(cb, ctx))
  <1>1. Len(calls) \in Nat /\ DOMAIN calls = 1 .. Len(calls)
    BY Appended
  <1>2. IsFiniteSet(1 .. Len(calls))
    BY <1>1, FS_Interval
  <1>3. Counted(cb, ctx) \subseteq 1 .. Len(calls)
    BY <1>1 DEF Counted
  <1>4. IsFiniteSet(Counted(cb, ctx))
    BY <1>2, <1>3, FS_Subset
  <1>5. Count(cb, ctx) = Cardinality(Counted(cb, ctx))
    BY DEF Count, Counted
  <1>6. QED
    BY <1>4, <1>5, FS_CardinalityType

\* A callback counts for what it is for.
LEMMA CountGrows ==
    ASSUME IsSeq(calls), NEW e, calls' = Append(calls, e), NEW cb, NEW ctx
    PROVE  Count(cb, ctx)' = Count(cb, ctx) + (IF e.cb = cb /\ Context(e) = ctx THEN 1 ELSE 0)
  <1> PICK n : n = Len(calls) + 1
    OBVIOUS
  <1>1. /\ Len(calls) \in Nat /\ DOMAIN calls = 1 .. Len(calls) /\ DOMAIN calls' = 1 .. Len(calls) + 1
        /\ \A k \in DOMAIN calls : calls'[k] = calls[k]
        /\ calls'[n] = e
    BY Appended
  <1> PICK C, D : C = Counted(cb, ctx) /\ D = {k \in DOMAIN calls' : calls'[k].cb = cb /\ Context(calls'[k]) = ctx}
    OBVIOUS
  <1>2. IsFiniteSet(C) /\ Cardinality(C) \in Nat /\ Count(cb, ctx) = Cardinality(C)
    BY CountedFinite
  <1>3. Count(cb, ctx)' = Cardinality(D)
    BY DEF Count, Context
  <1>4. n \notin C
    BY <1>1 DEF Counted
  <1>5. D = IF e.cb = cb /\ Context(e) = ctx THEN C \cup {n} ELSE C
    BY <1>1 DEF Counted
  <1>6. Cardinality(C \cup {n}) = Cardinality(C) + 1
    BY <1>2, <1>4, FS_AddElement
  <1>7. CASE e.cb = cb /\ Context(e) = ctx
    <2>1. D = C \cup {n}
      BY <1>5, <1>7
    <2>2. QED
      BY <1>2, <1>3, <1>6, <1>7, <2>1
  <1>8. CASE ~(e.cb = cb /\ Context(e) = ctx)
    <2>1. D = C
      BY <1>5, <1>8
    <2>2. Count(cb, ctx)' = Count(cb, ctx) /\ Count(cb, ctx) \in Nat
      BY <1>2, <1>3, <2>1
    <2>3. (IF e.cb = cb /\ Context(e) = ctx THEN 1 ELSE 0) = 0
      BY <1>8
    <2>4. QED
      BY <2>2, <2>3
  <1>9. QED
    BY <1>7, <1>8

\* Without a callback nothing is counted.
LEMMA CountStays ==
    ASSUME calls' = calls, NEW cb, NEW ctx
    PROVE  Count(cb, ctx)' = Count(cb, ctx)
  BY DEF Count, Context

\* Nothing was told of what no callback was for.
LEMMA CountNone ==
    ASSUME NEW cb, NEW ctx, \A k \in DOMAIN calls : Context(calls[k]) # ctx
    PROVE  Count(cb, ctx) = 0
  <1>1. {k \in DOMAIN calls : calls[k].cb = cb /\ Context(calls[k]) = ctx} = {}
    OBVIOUS
  <1>2. QED
    BY <1>1, FS_EmptySet DEF Count

-----------------------------------------------------------------------------
\* Nothing becomes due or may still come that was not or might not before.
Frame(y) == (Within(y)' <=> Within(y)) /\ (Ahead(y)' => Ahead(y))
\* It is not due, and nothing was told of it.
Fresh(y) == ~Within(y)' /\ \A k \in DOMAIN calls : Context(calls[k]) # Context(y)

\* A step without a callback keeps what was told, when the place of the reader
\* means the same as before.
LEMMA QuietTold ==
    ASSUME calls' = calls, AllTold, \A y : IsContext(y) /\ Brackets(y.c) => Frame(y) \/ Fresh(y)
    PROVE  AllTold'
  <1> SUFFICES ASSUME NEW y, IsContext(y), Brackets(y.c) PROVE Told(y)'
    BY DEF AllTold, IsContext, Brackets
  <1>1. Told(y)
    BY DEF AllTold
  <1>2. /\ Count("start", Context(y))' = Count("start", Context(y))
        /\ Count("end", Context(y))' = Count("end", Context(y))
    BY DEF Count, Context
  <1>3. CASE Frame(y)
    BY <1>1, <1>2, <1>3 DEF Told, Frame
  <1>4. CASE Fresh(y)
    <2>1. Count("start", Context(y)) = 0 /\ Count("end", Context(y)) = 0
      BY <1>4, CountNone DEF Fresh
    <2>2. QED
      BY <1>2, <1>4, <2>1 DEF Told, Fresh
  <1>5. QED
    BY <1>3, <1>4

\* Callback e brings the reader from one place to the next.
Moves(e) ==
    /\ e.cb = "start" => Ahead(e) /\ Within(e)'
    /\ e.cb = "end"   => Within(e) /\ ~Within(e)'
    /\ e.cb \notin {"start", "end"} => Within(e) /\ Within(e)'
    /\ ~Ahead(e)'

\* Where the reader is depends on what Context shows.
LEMMA OfContext ==
    ASSUME NEW x, NEW y, IsContext(x), IsContext(y), Context(x) = Context(y)
    PROVE  /\ Within(x) <=> Within(y)
           /\ Ahead(x) <=> Ahead(y)
  BY SameContext DEF Within, Ahead, Later, IsContext

\* So it keeps what was told, and is itself as EndsFollowStarts wants it.
LEMMA CallTold ==
    ASSUME IsSeq(calls), AllTold, NEW e, calls' = Append(calls, e), IsContext(e),
           Brackets(e.c) => Moves(e),
           \A y : IsContext(y) /\ Brackets(y.c) /\ Context(y) # Context(e) => Frame(y)
    PROVE  /\ AllTold'
           /\ Brackets(e.c) => /\ Count("start", Context(e))' = 1
                               /\ Count("end", Context(e))' = (IF e.cb = "end" THEN 1 ELSE 0)
  <1>0. ASSUME NEW y
        PROVE  /\ Count("start", Context(y))' = Count("start", Context(y))
                     + (IF e.cb = "start" /\ Context(e) = Context(y) THEN 1 ELSE 0)
               /\ Count("end", Context(y))' = Count("end", Context(y))
                     + (IF e.cb = "end" /\ Context(e) = Context(y) THEN 1 ELSE 0)
               /\ Count("start", Context(y)) \in Nat /\ Count("end", Context(y)) \in Nat
    <2> PICK ctx : ctx = Context(y)
      OBVIOUS
    <2>1. /\ Count("start", ctx)' = Count("start", ctx) + (IF e.cb = "start" /\ Context(e) = ctx THEN 1 ELSE 0)
          /\ Count("end", ctx)' = Count("end", ctx) + (IF e.cb = "end" /\ Context(e) = ctx THEN 1 ELSE 0)
          /\ Count("start", ctx) \in Nat /\ Count("end", ctx) \in Nat
      BY CountGrows, CountedFinite
    <2>2. QED
      BY <2>1 DEF Context, Count
  <1>1. ASSUME Brackets(e.c), NEW y, IsContext(y), Context(y) = Context(e), Told(y)
        PROVE  Told(y)' /\ Count("start", Context(y))' = 1
               /\ Count("end", Context(y))' = (IF e.cb = "end" THEN 1 ELSE 0)
    <2>1. Moves(e) /\ (Within(e) <=> Within(y)) /\ (Ahead(e) <=> Ahead(y))
      BY <1>1, OfContext
    <2>2. (Within(e)' <=> Within(y)') /\ (Ahead(e)' <=> Ahead(y)')
      <3>1. y.c = e.c /\ (y.b = 0 <=> e.b = 0) /\ (y.b # 0 => y.at = e.at /\ y.b = e.b /\ y.i = e.i)
        BY <1>1, SameContext
      <3>2. Within(e)' <=> Within(y)'
        BY <1>1, <3>1 DEF Within, IsContext
      <3>3. Ahead(e)' <=> Ahead(y)'
        BY <1>1, <3>1 DEF Ahead, Later, IsContext
      <3>4. QED
        BY <3>2, <3>3
    <2>3. QED
      BY <1>0, <1>1, <2>1, <2>2 DEF Told, Moves
  <1>2. ASSUME NEW y, IsContext(y), Brackets(y.c) PROVE Told(y)'
    <2>1. Told(y)
      BY <1>2 DEF AllTold
    <2>2. CASE Context(y) = Context(e)
      <3>1. Brackets(e.c)
        BY <1>2, <2>2, SameContext
      <3>2. QED
        BY <1>1, <1>2, <2>1, <2>2, <3>1
    <2>3. CASE Context(y) # Context(e)
      <3>1. Frame(y)
        BY <1>2, <2>3
      <3>2. QED
        BY <1>0, <2>1, <2>3, <3>1 DEF Told, Frame
    <2>4. QED
      BY <2>2, <2>3
  <1>3. AllTold'
    BY <1>2 DEF AllTold, IsContext, Brackets
  <1>4. ASSUME Brackets(e.c)
        PROVE  /\ Count("start", Context(e))' = 1
               /\ Count("end", Context(e))' = (IF e.cb = "end" THEN 1 ELSE 0)
    <2>1. Told(e)
      BY <1>4 DEF AllTold
    <2>2. QED
      BY <1>1, <1>4, <2>1
  <1>5. QED
    BY <1>3, <1>4

-----------------------------------------------------------------------------
\* The keys of consumers are numbers, and sort them by their order.
LEMMA KeysAre ==
    /\ \A x \in Consumers : ConsumerKey[x] \in Int
    /\ \A x, y \in Consumers : ConsumerKey[x] <= ConsumerKey[y] => consumer[x].order <= consumer[y].order
    /\ \A x \in Consumers : consumer[x].order \in Int
  <1>1. \A x \in Consumers : consumer[x].order \in Int
    BY RegistrationsAssumption
  <1>2. \A x \in Consumers : ConsumerKey[x] = 2 * consumer[x].order + (IF consumer[x].addrblock_consumer THEN 1 ELSE 0)
    BY DEF ConsumerKey
  <1>3. QED
    BY <1>1, <1>2

\* A sequence in the order of its keys, without repetitions.
InOrder(s, S, keys) ==
    /\ s \in Seq(S)
    /\ \A j, k \in DOMAIN s : s[j] = s[k] => j = k
    /\ \A j, k \in DOMAIN s : j < k => keys[s[j]] <= keys[s[k]]

\* A piece of a sequence.
LEMMA PieceOf ==
    ASSUME NEW S, NEW s \in Seq(S), NEW m \in 1 .. Len(s) + 1, NEW n \in m - 1 .. Len(s)
    PROVE  /\ SubSeq(s, m, n) \in Seq(S) /\ Len(SubSeq(s, m, n)) = n - m + 1
           /\ \A j \in 1 .. n - m + 1 : SubSeq(s, m, n)[j] = s[m - 1 + j]
  <1>1. Len(s) \in Nat /\ m \in Int /\ n \in Int
    OBVIOUS
  <1>2. \A i \in m .. n : s[i] \in S
    <2> SUFFICES ASSUME NEW i \in m .. n PROVE s[i] \in S
      OBVIOUS
    <2>1. i \in 1 .. Len(s)
      BY <1>1
    <2>2. QED
      BY <2>1, ElementOfSeq
  <1>3. /\ SubSeq(s, m, n) \in Seq(S)
        /\ Len(SubSeq(s, m, n)) = IF m <= n THEN n - m + 1 ELSE 0
        /\ \A i \in 1 .. n - m + 1 : SubSeq(s, m, n)[i] = s[m + i - 1]
    BY <1>1, <1>2, SubSeqProperties
  <1>4. Len(SubSeq(s, m, n)) = n - m + 1
    BY <1>1, <1>3
  <1>5. \A j \in 1 .. n - m + 1 : m + j - 1 = m - 1 + j
    BY <1>1
  <1>6. QED
    BY <1>3, <1>4, <1>5

\* A sequence with something put in behind the first at elements.
Put(s, at, x) == SubSeq(s, 1, at) \o <<x>> \o SubSeq(s, at + 1, Len(s))

\* All others stay in their order.
LEMMA Spliced ==
    ASSUME NEW S, NEW s \in Seq(S), NEW at \in 0 .. Len(s), NEW x \in S
    PROVE  /\ Put(s, at, x) \in Seq(S)
           /\ Len(Put(s, at, x)) = Len(s) + 1
           /\ \A j \in 1 .. at : Put(s, at, x)[j] = s[j]
           /\ Put(s, at, x)[at + 1] = x
           /\ \A j \in at + 2 .. Len(s) + 1 : Put(s, at, x)[j] = s[j - 1]
  <1>0. PICK n : n \in Nat /\ n = Len(s)
    OBVIOUS
  <1>1. PICK l, m : l = at + 1 /\ m = n - at
    OBVIOUS
  <1>a. /\ at \in Nat /\ at <= n /\ l \in Nat /\ m \in Nat /\ 1 \in Nat /\ l + m = n + 1
        /\ at + 1 = l /\ n - at = m /\ n - l + 1 = m /\ at - 1 + 1 = at /\ l + 1 = at + 2
        /\ l - 1 = at /\ l - at = 1
        /\ l \in 1 .. n + 1 /\ n \in l - 1 .. n /\ at \in 1 - 1 .. n /\ 1 \in 1 .. n + 1
        /\ l \in l .. l /\ l \in 1 .. l
    BY <1>0, <1>1
  <1>b. /\ \A j \in 1 .. at : 1 - 1 + j = j /\ j \in 1 .. l
        /\ \A j \in l + 1 .. n + 1 : j - l \in 1 .. m /\ at + (j - l) = j - 1
    BY <1>0, <1>1
  <1>2. PICK u, v : u = SubSeq(s, 1, at) /\ v = SubSeq(s, l, n)
    OBVIOUS
  <1>3. u \in Seq(S) /\ Len(u) = at /\ \A j \in 1 .. at : u[j] = s[j]
    <2>0. 1 \in 1 .. Len(s) + 1 /\ at \in 1 - 1 .. Len(s)
      BY <1>0, <1>a
    <2>1. /\ u \in Seq(S) /\ Len(u) = at - 1 + 1
          /\ \A j \in 1 .. at - 1 + 1 : u[j] = s[1 - 1 + j]
      BY <1>2, <2>0, PieceOf
    <2>2. QED
      BY <1>a, <1>b, <2>1
  <1>4. v \in Seq(S) /\ Len(v) = m /\ \A j \in 1 .. m : v[j] = s[at + j]
    <2>1. /\ v \in Seq(S) /\ Len(v) = n - l + 1
          /\ \A j \in 1 .. n - l + 1 : v[j] = s[l - 1 + j]
      BY <1>0, <1>2, <1>a, PieceOf
    <2>2. QED
      BY <1>a, <2>1
  <1>5. <<x>> \in Seq(S) /\ Len(<<x>>) = 1 /\ <<x>>[1] = x
    OBVIOUS
  <1>6. PICK w : w = u \o <<x>>
    OBVIOUS
  <1>7. /\ w \in Seq(S) /\ Len(w) = l
        /\ \A j \in 1 .. at : w[j] = u[j]
        /\ \A j \in l .. l : w[j] = <<x>>[j - at]
    <2>1. u \in Seq(S) /\ <<x>> \in Seq(S) /\ at \in Nat /\ 1 \in Nat /\ Len(u) = at /\ Len(<<x>>) = 1
      BY <1>3, <1>5, <1>a
    <2>2. /\ u \o <<x>> \in Seq(S) /\ Len(u \o <<x>>) = at + 1
          /\ \A j \in 1 .. at : (u \o <<x>>)[j] = u[j]
          /\ \A j \in at + 1 .. at + 1 : (u \o <<x>>)[j] = <<x>>[j - at]
      BY <2>1
    <2>3. QED
      BY <1>6, <1>a, <2>2
  <1>8. w[l] = x
    BY <1>5, <1>7, <1>a
  <1>9. /\ w \o v \in Seq(S) /\ Len(w \o v) = l + m
        /\ \A j \in 1 .. l : (w \o v)[j] = w[j]
        /\ \A j \in l + 1 .. l + m : (w \o v)[j] = v[j - l]
    <2>1. w \in Seq(S) /\ v \in Seq(S) /\ l \in Nat /\ m \in Nat /\ Len(w) = l /\ Len(v) = m
      BY <1>4, <1>7, <1>a
    <2> PICK z : z = w \o v
      OBVIOUS
    <2>2. /\ z \in Seq(S) /\ Len(z) = l + m
          /\ \A j \in 1 .. l + m : z[j] = IF j <= l THEN w[j] ELSE v[j - l]
      BY <2>1, ConcatProperties
    <2>3. \A j \in 1 .. l : z[j] = w[j]
      BY <2>1, <2>2
    <2>4. \A j \in l + 1 .. l + m : z[j] = v[j - l]
      BY <2>1, <2>2
    <2>5. QED
      BY <2>2, <2>3, <2>4
  <1> PICK t : t = Put(s, at, x)
    OBVIOUS
  <1>10. /\ t \in Seq(S) /\ Len(t) = n + 1
         /\ \A j \in 1 .. l : t[j] = w[j]
         /\ \A j \in l + 1 .. n + 1 : t[j] = v[j - l]
    <2>1. t = w \o v
      BY <1>0, <1>2, <1>6, <1>a DEF Put
    <2>2. QED
      BY <1>9, <1>a, <2>1
  <1>11. \A j \in 1 .. at : t[j] = s[j]
    BY <1>3, <1>7, <1>10, <1>b
  <1>12. t[l] = x
    BY <1>8, <1>10, <1>a
  <1>13. \A j \in l + 1 .. n + 1 : t[j] = s[j - 1]
    BY <1>4, <1>10, <1>b
  <1>14. QED
    BY <1>0, <1>10, <1>11, <1>12, <1>13, <1>a

\* A sequence without one of its elements.
LEMMA Shortened ==
    ASSUME NEW S, NEW s \in Seq(S), NEW at \in 1 .. Len(s)
    PROVE  /\ RemoveAt(s, at) \in Seq(S)
           /\ Len(RemoveAt(s, at)) = Len(s) - 1
           /\ \A j \in 1 .. at - 1 : RemoveAt(s, at)[j] = s[j]
           /\ \A j \in at .. Len(s) - 1 : RemoveAt(s, at)[j] = s[j + 1]
  <1>0. PICK n : n \in Nat /\ n = Len(s)
    OBVIOUS
  <1>1. PICK k, l, m : k = at - 1 /\ l = at + 1 /\ m = n - at
    OBVIOUS
  <1>a. /\ at \in Nat /\ k \in Nat /\ l \in Nat /\ m \in Nat /\ k + m = n - 1 /\ k + 1 = at
        /\ at + 1 = l /\ at - 1 = k /\ n - l + 1 = m /\ k - 1 + 1 = k /\ l - 1 = at
        /\ l \in 1 .. n + 1 /\ n \in l - 1 .. n /\ k \in 1 - 1 .. n /\ 1 \in 1 .. n + 1
    BY <1>0, <1>1
  <1>b. /\ \A j \in 1 .. k : 1 - 1 + j = j
        /\ \A j \in at .. n - 1 : j - k \in 1 .. m /\ at + (j - k) = j + 1
    BY <1>0, <1>1
  <1>2. PICK u, v : u = SubSeq(s, 1, k) /\ v = SubSeq(s, l, n)
    OBVIOUS
  <1>3. u \in Seq(S) /\ Len(u) = k /\ \A j \in 1 .. k : u[j] = s[j]
    <2>1. /\ u \in Seq(S) /\ Len(u) = k - 1 + 1
          /\ \A j \in 1 .. k - 1 + 1 : u[j] = s[1 - 1 + j]
      BY <1>0, <1>2, <1>a, PieceOf
    <2>2. QED
      BY <1>a, <1>b, <2>1
  <1>4. v \in Seq(S) /\ Len(v) = m /\ \A j \in 1 .. m : v[j] = s[at + j]
    <2>1. /\ v \in Seq(S) /\ Len(v) = n - l + 1
          /\ \A j \in 1 .. n - l + 1 : v[j] = s[l - 1 + j]
      BY <1>0, <1>2, <1>a, PieceOf
    <2>2. QED
      BY <1>a, <2>1
  <1>5. /\ u \o v \in Seq(S) /\ Len(u \o v) = k + m
        /\ \A j \in 1 .. k : (u \o v)[j] = u[j]
        /\ \A j \in k + 1 .. k + m : (u \o v)[j] = v[j - k]
    <2>1. u \in Seq(S) /\ v \in Seq(S) /\ k \in Nat /\ m \in Nat /\ Len(u) = k /\ Len(v) = m
      BY <1>3, <1>4, <1>a
    <2> PICK z : z = u \o v
      OBVIOUS
    <2>2. /\ z \in Seq(S) /\ Len(z) = k + m
          /\ \A j \in 1 .. k + m : z[j] = IF j <= k THEN u[j] ELSE v[j - k]
      BY <2>1, ConcatProperties
    <2>3. \A j \in 1 .. k : z[j] = u[j]
      BY <2>1, <2>2
    <2>4. \A j \in k + 1 .. k + m : z[j] = v[j - k]
      BY <2>1, <2>2
    <2>5. QED
      BY <2>2, <2>3, <2>4
  <1> PICK t : t = RemoveAt(s, at)
    OBVIOUS
  <1>6. /\ t \in Seq(S) /\ Len(t) = n - 1
        /\ \A j \in 1 .. k : t[j] = u[j]
        /\ \A j \in at .. n - 1 : t[j] = v[j - k]
    <2>1. t = u \o v
      BY <1>0, <1>2, <1>a DEF RemoveAt
    <2>2. QED
      BY <1>5, <1>a, <2>1
  <1>7. \A j \in 1 .. k : t[j] = s[j]
    BY <1>3, <1>6
  <1>8. \A j \in at .. n - 1 : t[j] = s[j + 1]
    BY <1>4, <1>6, <1>b
  <1>9. QED
    BY <1>0, <1>6, <1>7, <1>8, <1>a

\* A sequence in the order of its keys.
Sorted(s, S, keys) == s \in Seq(S) /\ \A j, k \in DOMAIN s : j < k => keys[s[j]] <= keys[s[k]]

\* What avl_insert finds has no later key in front of it and no earlier one behind.
LEMMA PlaceFound ==
    ASSUME NEW S, NEW keys, \A y \in S : keys[y] \in Int,
           NEW s, Sorted(s, S, keys), NEW x \in S
    PROVE  LET at == KeyPlace(s, keys, keys[x])
           IN  /\ at \in 0 .. Len(s)
               /\ \A j \in 1 .. at : keys[s[j]] <= keys[x]
               /\ \A j \in at + 1 .. Len(s) : keys[x] <= keys[s[j]]
  <1> PICK at, key : at = KeyPlace(s, keys, keys[x]) /\ key = keys[x]
    OBVIOUS
  <1> PICK same, less : /\ same = {i \in DOMAIN s : keys[s[i]] = key}
                        /\ less = {i \in DOMAIN s : keys[s[i]] < key}
    OBVIOUS
  <1>1. /\ Len(s) \in Nat /\ DOMAIN s = 1 .. Len(s) /\ key \in Int
        /\ \A j \in 1 .. Len(s) : keys[s[j]] \in Int
    <2>1. Len(s) \in Nat /\ DOMAIN s = 1 .. Len(s) /\ \A j \in 1 .. Len(s) : s[j] \in S
      BY DEF Sorted
    <2>2. QED
      BY <2>1
  <1>2. \A j, k \in 1 .. Len(s) : j < k => keys[s[j]] <= keys[s[k]]
    BY <1>1 DEF Sorted
  <1>3. at = IF same = {} THEN Cardinality(less) ELSE CHOOSE i \in same : \A j \in same : i <= j
    BY DEF KeyPlace
  <1>4. CASE same = {}
    <2> PICK more : more = {i \in 1 .. Len(s) : key < keys[s[i]]}
      OBVIOUS
    <2>1. \A j \in 1 .. Len(s) : j \in less \/ j \in more
      BY <1>1, <1>4
    <2>2. ASSUME NEW m \in 0 .. Len(s), less = 1 .. m PROVE at = m
      <3>1. m \in Int /\ m \in Nat /\ 1 \in Int
        BY <1>1
      <3>2. Cardinality(1 .. m) = IF 1 > m THEN 0 ELSE m - 1 + 1
        BY <3>1, FS_Interval
      <3>3. at = Cardinality(1 .. m)
        BY <1>3, <1>4, <2>2
      <3>4. QED
        BY <3>1, <3>2, <3>3
    <2>3. CASE more = {}
      <3>1. less = 1 .. Len(s)
        BY <1>1, <2>1, <2>3
      <3>2. at = Len(s)
        BY <1>1, <2>2, <3>1
      <3>3. QED
        BY <1>1, <3>1, <3>2
    <2>4. CASE more # {}
      <3>1. PICK u \in more : \A j \in more : u <= j
        <4>1. more \in SUBSET Nat
          OBVIOUS
        <4>2. QED
          BY <2>4, <4>1, LeastOf
      <3>2. u \in 1 .. Len(s)
        OBVIOUS
      <3>3. less = 1 .. u - 1
        <4>1. \A j \in 1 .. u - 1 : j \in less
          BY <1>1, <2>1, <3>1, <3>2
        <4>2. \A j \in less : j \in 1 .. u - 1
          BY <1>1, <1>2, <3>1, <3>2
        <4>3. QED
          BY <4>1, <4>2
      <3>4. u - 1 \in 0 .. Len(s)
        BY <1>1, <3>2
      <3>5. at = u - 1
        BY <2>2, <3>3, <3>4
      <3>6. \A j \in at + 1 .. Len(s) : key <= keys[s[j]]
        <4> SUFFICES ASSUME NEW j \in at + 1 .. Len(s) PROVE key <= keys[s[j]]
          OBVIOUS
        <4>1. j \in 1 .. Len(s) /\ j \notin less
          BY <1>1, <3>2, <3>3, <3>5
        <4>2. j \in more
          BY <2>1, <4>1
        <4>3. QED
          BY <1>1, <4>1, <4>2
      <3>7. QED
        BY <1>1, <3>3, <3>4, <3>5, <3>6
    <2>5. QED
      BY <2>3, <2>4
  <1>5. CASE same # {}
    <2>1. \E i \in same : \A j \in same : i <= j
      <3>1. same \in SUBSET Nat
        BY <1>1
      <3>2. QED
        BY <1>5, <3>1, LeastOf
    <2>2. at \in same
      BY <1>3, <1>5, <2>1
    <2>3. QED
      BY <1>1, <1>2, <2>2
  <1>6. QED
    BY <1>4, <1>5

\* InsertByKey keeps the order, and adds what it was given.
LEMMA Inserted ==
    ASSUME NEW S, NEW keys, \A y \in S : keys[y] \in Int,
           NEW s, InOrder(s, S, keys), NEW x \in S, \A j \in DOMAIN s : s[j] # x
    PROVE  /\ InOrder(InsertByKey(s, keys, x), S, keys)
           /\ \A j \in DOMAIN InsertByKey(s, keys, x) :
                 \/ InsertByKey(s, keys, x)[j] = x
                 \/ \E k \in DOMAIN s : InsertByKey(s, keys, x)[j] = s[k]
  <1>0. PICK at, t : at = KeyPlace(s, keys, keys[x]) /\ t = InsertByKey(s, keys, x)
    OBVIOUS
  <1>1. /\ at \in 0 .. Len(s)
        /\ \A j \in 1 .. at : keys[s[j]] <= keys[x]
        /\ \A j \in at + 1 .. Len(s) : keys[x] <= keys[s[j]]
    <2>1. Sorted(s, S, keys)
      BY DEF InOrder, Sorted
    <2>2. QED
      BY <1>0, <2>1, PlaceFound
  <1>2. /\ s \in Seq(S) /\ Len(s) \in Nat /\ DOMAIN s = 1 .. Len(s)
        /\ \A j \in 1 .. Len(s) : s[j] \in S
        /\ \A j, k \in 1 .. Len(s) : s[j] = s[k] => j = k
        /\ \A j, k \in 1 .. Len(s) : j < k => keys[s[j]] <= keys[s[k]]
    BY DEF InOrder
  <1>5. /\ t \in Seq(S) /\ Len(t) = Len(s) + 1
        /\ \A j \in 1 .. at : t[j] = s[j]
        /\ t[at + 1] = x
        /\ \A j \in at + 2 .. Len(s) + 1 : t[j] = s[j - 1]
    <2>1. t = Put(s, at, x)
      BY <1>0 DEF InsertByKey, Put
    <2>2. s \in Seq(S) /\ at \in 0 .. Len(s)
      BY <1>1, <1>2
    <2>3. Put(s, at, x) \in Seq(S)
      BY <2>2, Spliced
    <2>4. Len(Put(s, at, x)) = Len(s) + 1
      BY <2>2, Spliced
    <2>5. \A j \in 1 .. at : Put(s, at, x)[j] = s[j]
      BY <2>2, Spliced
    <2>6. Put(s, at, x)[at + 1] = x
      BY <2>2, Spliced
    <2>7. \A j \in at + 2 .. Len(s) + 1 : Put(s, at, x)[j] = s[j - 1]
      BY <2>2, Spliced
    <2>8. QED
      BY <2>1, <2>3, <2>4, <2>5, <2>6, <2>7
  <1>6. DOMAIN t = 1 .. Len(s) + 1
    BY <1>5
  <1>a. \A j \in 1 .. Len(s) + 1 : j \in 1 .. at \/ j = at + 1 \/ j \in at + 2 .. Len(s) + 1
    BY <1>1, <1>2
  <1>b. /\ \A j \in 1 .. at : j \in 1 .. Len(s)
        /\ \A j \in at + 2 .. Len(s) + 1 : j - 1 \in 1 .. Len(s) /\ j - 1 \in at + 1 .. Len(s)
    BY <1>1, <1>2
  <1>who. \A j \in 1 .. Len(s) : s[j] # x
    BY <1>2
  <1>7. ASSUME NEW j \in 1 .. Len(s) + 1, NEW k \in 1 .. Len(s) + 1, t[j] = t[k]
        PROVE  j = k
    <2>0. \A l \in 1 .. Len(s) + 1 : t[l] = x => l = at + 1
      BY <1>5, <1>a, <1>b, <1>who
    <2>1. CASE j = at + 1 \/ k = at + 1
      BY <1>5, <1>7, <2>0, <2>1
    <2>2. CASE j # at + 1 /\ k # at + 1
      <3>1. PICK l \in 1 .. Len(s) : t[j] = s[l] /\ (IF j <= at THEN l = j ELSE l = j - 1)
        BY <1>1, <1>5, <1>a, <1>b, <2>2
      <3>2. PICK m \in 1 .. Len(s) : t[k] = s[m] /\ (IF k <= at THEN m = k ELSE m = k - 1)
        BY <1>1, <1>5, <1>a, <1>b, <2>2
      <3>3. l = m
        BY <1>2, <1>7, <3>1, <3>2
      <3>4. QED
        BY <1>1, <2>2, <3>1, <3>2, <3>3
    <2>3. QED
      BY <2>1, <2>2
  <1>8. ASSUME NEW j \in 1 .. Len(s) + 1, NEW k \in 1 .. Len(s) + 1, j < k
        PROVE  keys[t[j]] <= keys[t[k]]
    <2>1. CASE j = at + 1
      <3>1. k \in at + 2 .. Len(s) + 1
        BY <1>1, <1>2, <1>8, <2>1
      <3>2. QED
        BY <1>1, <1>5, <1>b, <2>1, <3>1
    <2>2. CASE k = at + 1
      <3>1. j \in 1 .. at
        BY <1>1, <1>2, <1>8, <2>2
      <3>2. QED
        BY <1>1, <1>5, <2>2, <3>1
    <2>3. CASE j # at + 1 /\ k # at + 1
      <3>1. PICK l \in 1 .. Len(s) : t[j] = s[l] /\ (IF j <= at THEN l = j ELSE l = j - 1)
        BY <1>1, <1>5, <1>a, <1>b, <2>3
      <3>2. PICK m \in 1 .. Len(s) : t[k] = s[m] /\ (IF k <= at THEN m = k ELSE m = k - 1)
        BY <1>1, <1>5, <1>a, <1>b, <2>3
      <3>3. l < m
        BY <1>1, <1>8, <2>3, <3>1, <3>2
      <3>4. QED
        BY <1>2, <3>1, <3>2, <3>3
    <2>4. QED
      BY <2>1, <2>2, <2>3
  <1>9. ASSUME NEW j \in 1 .. Len(s) + 1
        PROVE  t[j] = x \/ \E k \in DOMAIN s : t[j] = s[k]
    BY <1>2, <1>5, <1>a, <1>b
  <1>10. QED
    BY <1>0, <1>2, <1>5, <1>6, <1>7, <1>8, <1>9 DEF InOrder

\* RemoveAt keeps the order, and leaves all but what it takes.
LEMMA Removed ==
    ASSUME NEW S, NEW keys, NEW s, InOrder(s, S, keys), NEW n \in DOMAIN s
    PROVE  /\ InOrder(RemoveAt(s, n), S, keys)
           /\ \A j \in DOMAIN RemoveAt(s, n) :
                 RemoveAt(s, n)[j] # s[n] /\ \E k \in DOMAIN s : RemoveAt(s, n)[j] = s[k]
  <1>0. PICK t, len : t = RemoveAt(s, n) /\ len = Len(s)
    OBVIOUS
  <1>1. /\ s \in Seq(S) /\ len \in Nat /\ DOMAIN s = 1 .. len
        /\ \A j \in 1 .. len : s[j] \in S
        /\ \A j, k \in 1 .. len : s[j] = s[k] => j = k
        /\ \A j, k \in 1 .. len : j < k => keys[s[j]] <= keys[s[k]]
        /\ n \in 1 .. len
    BY <1>0 DEF InOrder
  <1>2. /\ t \in Seq(S) /\ Len(t) = len - 1
        /\ \A j \in 1 .. n - 1 : t[j] = s[j]
        /\ \A j \in n .. len - 1 : t[j] = s[j + 1]
    <2>1. s \in Seq(S) /\ len = Len(s) /\ n \in 1 .. Len(s)
      BY <1>0, <1>1
    <2>2. RemoveAt(s, n) \in Seq(S)
      BY <2>1, Shortened
    <2>3. Len(RemoveAt(s, n)) = Len(s) - 1
      BY <2>1, Shortened
    <2>4. \A j \in 1 .. n - 1 : RemoveAt(s, n)[j] = s[j]
      BY <2>1, Shortened
    <2>5. \A j \in n .. Len(s) - 1 : RemoveAt(s, n)[j] = s[j + 1]
      BY <2>1, Shortened
    <2>6. QED
      BY <1>0, <2>1, <2>2, <2>3, <2>4, <2>5
  <1>3. DOMAIN t = 1 .. len - 1
    BY <1>1, <1>2
  <1>4. ASSUME NEW j \in 1 .. len - 1
        PROVE  \E l \in 1 .. len : t[j] = s[l] /\ l # n /\ (IF j < n THEN l = j ELSE l = j + 1)
    <2>1. CASE j < n
      <3>1. j \in 1 .. n - 1 /\ j \in 1 .. len /\ j # n
        BY <1>1, <2>1
      <3>2. QED
        BY <1>2, <2>1, <3>1
    <2>2. CASE ~(j < n)
      <3>1. j \in n .. len - 1 /\ j + 1 \in 1 .. len /\ j + 1 # n
        BY <1>1, <2>2
      <3>2. QED
        BY <1>2, <2>2, <3>1
    <2>3. QED
      BY <2>1, <2>2
  <1>6. ASSUME NEW j \in 1 .. len - 1, NEW k \in 1 .. len - 1
        PROVE  (t[j] = t[k] => j = k) /\ (j < k => keys[t[j]] <= keys[t[k]])
    <2>1. PICK l \in 1 .. len : t[j] = s[l] /\ (IF j < n THEN l = j ELSE l = j + 1)
      BY <1>4
    <2>2. PICK m \in 1 .. len : t[k] = s[m] /\ (IF k < n THEN m = k ELSE m = k + 1)
      BY <1>4
    <2>3. (l = m => j = k) /\ (j < k => l < m)
      BY <1>1, <2>1, <2>2
    <2>4. QED
      BY <1>1, <2>1, <2>2, <2>3
  <1>8. \A j \in 1 .. len - 1 : t[j] # s[n] /\ \E k \in DOMAIN s : t[j] = s[k]
    BY <1>1, <1>4
  <1>9. QED
    BY <1>0, <1>2, <1>3, <1>6, <1>8 DEF InOrder

-----------------------------------------------------------------------------
\* Between two consumers of the same order in the tree all are of that order.
LEMMA SameOrder ==
    ASSUME TreeOk("msg"), NEW lo \in 1 .. Len(tree.msg), NEW hi \in lo .. Len(tree.msg),
           OrderAt(lo) = OrderAt(hi), NEW j \in lo .. hi
    PROVE  OrderAt(j) = OrderAt(hi)
  <1> PICK s : s = tree.msg
    OBVIOUS
  <1>1. s \in Seq(Consumers) /\ Len(s) \in Nat /\ DOMAIN s = 1 .. Len(s)
    BY DEF TreeOk
  <1>2. lo \in DOMAIN s /\ hi \in DOMAIN s /\ j \in DOMAIN s /\ lo <= j /\ j <= hi
    BY <1>1
  <1>3. s[lo] \in Consumers /\ s[hi] \in Consumers /\ s[j] \in Consumers
    BY <1>1, <1>2
  <1>4. ASSUME NEW k \in DOMAIN s, NEW l \in DOMAIN s, k <= l, s[k] \in Consumers, s[l] \in Consumers
        PROVE  consumer[s[k]].order <= consumer[s[l]].order
    <2>1. CASE k = l
      BY <1>4, <2>1, KeysAre
    <2>2. CASE k # l
      <3>1. k < l
        BY <1>1, <1>4, <2>2
      <3>2. ConsumerKey[s[k]] <= ConsumerKey[s[l]]
        BY <3>1 DEF TreeOk
      <3>3. QED
        BY <1>4, <3>2, KeysAre
    <2>3. QED
      BY <2>1, <2>2
  <1>5. consumer[s[lo]].order <= consumer[s[j]].order /\ consumer[s[j]].order <= consumer[s[hi]].order
    BY <1>2, <1>3, <1>4
  <1>6. QED
    BY <1>3, <1>5, KeysAre DEF OrderAt

\* The consumers of tree w are told apart by their places.
LEMMA OnePlace ==
    ASSUME NEW w, TreeOk(w)
    PROVE  /\ Len(tree[w]) \in Nat
           /\ \A j \in 1 .. Len(tree[w]) : tree[w][j] \in Consumers
           /\ \A j, k \in 1 .. Len(tree[w]) : tree[w][j] = tree[w][k] => j = k
  <1> PICK s : s = tree[w]
    OBVIOUS
  <1>1. s \in Seq(Consumers)
    BY DEF TreeOk
  <1>2. Len(s) \in Nat /\ DOMAIN s = 1 .. Len(s) /\ \A j \in 1 .. Len(s) : s[j] \in Consumers
    BY <1>1
  <1>3. QED
    BY <1>2 DEF TreeOk

\* Of what the start of a callback is due, in a message, has the order at hand.
LEMMA DueOrder ==
    ASSUME Trees, Turn, NEW y, Within(y), y.b > 0, y.b \in Nat
    PROVE  \/ InMessage /\ rd.same_order # <<>> /\ consumer[y.c].order = OrderAt(rd.same_order[2])
           \/ InAddress /\ consumer[y.c].order = OrderAt(rd.k)
  <1>1. CASE y.b = 1
    <2>1. /\ InMessage /\ rd.same_order # <<>>
          /\ \E j \in rd.same_order[1] .. Top : y.c = tree.msg[j]
      BY <1>1 DEF Within
    <2> PICK lo, hi : lo = rd.same_order[1] /\ hi = rd.same_order[2]
      OBVIOUS
    <2>2. lo \in 1 .. Len(tree.msg) /\ hi \in lo .. Len(tree.msg) /\ OrderAt(lo) = OrderAt(hi)
      BY <2>1 DEF Turn, MessageTurn
    <2>3. Top \in Int /\ Top <= hi
      <3>1. Len(tree.msg) \in Nat
        BY OnePlace DEF Trees
      <3>2. rd.phase = "message_end" => rd.i \in lo .. hi
        BY DEF Turn, MessageTurn
      <3>3. QED
        BY <2>2, <3>1, <3>2 DEF Top
    <2>4. PICK j \in lo .. hi : y.c = tree.msg[j]
      BY <2>1, <2>2, <2>3
    <2>5. OrderAt(j) = OrderAt(hi)
      BY <2>2, SameOrder DEF Trees
    <2>6. QED
      BY <2>1, <2>4, <2>5 DEF OrderAt
  <1>2. CASE y.b # 1
    BY <1>2 DEF Within, OrderAt
  <1>3. QED
    BY <1>1, <1>2

\* Neither the trees nor the registrations change while a packet is read.
LEMMA TreesStay ==
    ASSUME Trees, tree' = tree, done' = done
    PROVE  Trees'
  BY DEF Trees, TreeOk, Kept

-----------------------------------------------------------------------------
\* A step without a callback keeps the invariant.
LEMMA QuietKeeps ==
    ASSUME BInv, calls' = calls, Trees', Turn',
           \A y : IsContext(y) /\ Brackets(y.c) => Frame(y) \/ Fresh(y)
    PROVE  BInv'
  <1>1. AllTold'
    BY QuietTold DEF BInv
  <1>2. History'
    BY ZenonT(60) DEF BInv, History, LastOk, Open, Count, Context, IsContext, Brackets
  <1>3. QED
    BY <1>1, <1>2 DEF BInv

\* The order that may be open is the order of e.
InTurn(e) ==
    e.b > 0 => /\ InMessage /\ rd.same_order # <<>> => consumer[e.c].order = OrderAt(rd.same_order[2])
               /\ InAddress => consumer[e.c].order = OrderAt(rd.k)

\* What is due is so after a step too.
Due == \A y : Within(y) /\ y.b > 0 /\ y.b \in Nat =>
          \/ InMessage /\ rd.same_order # <<>> /\ consumer[y.c].order = OrderAt(rd.same_order[2])
          \/ InAddress /\ consumer[y.c].order = OrderAt(rd.k)
LEMMA DueNow == Trees /\ Turn => Due
  BY DueOrder DEF Due
LEMMA DueNext == Trees' /\ Turn' => Due'
  BY DueNow, PTL

\* So are the numbers of callbacks numbers.
CountsAre == \A cb, ctx : Count(cb, ctx) \in Nat
LEMMA CountsNow == IsSeq(calls) => CountsAre
  BY CountedFinite DEF CountsAre
LEMMA CountsNext == IsSeq(calls)' => CountsAre'
  BY CountsNow, PTL

\* A callback keeps the invariant when it brings the reader from one place to the
\* next and is that of a consumer whose turn it is.
LEMMA CallKeeps ==
    ASSUME BInv, IsSeq(calls), Trees', Turn', NEW e, calls' = Append(calls, e), IsContext(e),
           Brackets(e.c) => Moves(e),
           \A y : IsContext(y) /\ Brackets(y.c) /\ Context(y) # Context(e) => Frame(y),
           InTurn(e)'
    PROVE  BInv'
  <1>1. /\ AllTold'
        /\ Brackets(e.c) => /\ Count("start", Context(e))' = 1
                            /\ Count("end", Context(e))' = (IF e.cb = "end" THEN 1 ELSE 0)
    BY CallTold DEF BInv
  <1>2. /\ IsSeq(calls') /\ Len(calls) \in Nat /\ DOMAIN calls = 1 .. Len(calls)
        /\ Len(calls') = Len(calls) + 1 /\ DOMAIN calls' = 1 .. Len(calls) + 1
        /\ \A k \in DOMAIN calls : calls'[k] = calls[k]
        /\ calls'[Len(calls) + 1] = e
    BY Appended
  <1>3. calls'[Len(calls')] = e
    BY <1>2
  <1>4. \A k \in DOMAIN calls' : IsContext(calls'[k])
    <2>1. \A k \in DOMAIN calls : IsContext(calls[k])
      BY DEF BInv, History
    <2>2. QED
      BY <1>2, <2>1
  <1>5. ASSUME NEW y, IsContext(y), Brackets(y.c), Open(y)', y.b > 0, e.b > 0
        PROVE  consumer[y.c].order = consumer[e.c].order
    <2>1. Told(y)'
      BY <1>1, <1>5 DEF AllTold, IsContext, Brackets
    <2>2. Within(y)'
      <3> PICK ctx : ctx = Context(y)
        OBVIOUS
      <3>1. CountsAre'
        <4>1. IsSeq(calls)'
          BY <1>2 DEF IsSeq
        <4>2. QED
          BY <4>1, CountsNext
      <3>2. Count("start", ctx)' \in Nat /\ Count("end", ctx)' \in Nat
        BY <3>1, Zenon DEF CountsAre
      <3>3. Count("start", ctx)' > Count("end", ctx)'
        BY <1>5 DEF Open, Count, Context
      <3>4. ~Within(y)' => Count("start", ctx)' = Count("end", ctx)'
        BY <2>1 DEF Told, Count, Context
      <3>5. QED
        BY <3>2, <3>3, <3>4
    <2>3. \/ /\ InMessage' /\ rd'.same_order # <<>>
             /\ consumer[y.c].order = consumer[tree'.msg[rd'.same_order[2]]].order
          \/ InAddress' /\ consumer[y.c].order = consumer[tree'.msg[rd'.k]].order
      <3>1. y.b \in Nat
        BY <1>5 DEF IsContext
      <3>2. QED
        BY <1>5, <2>2, <3>1, DueNext DEF Due, OrderAt
    <2>4. QED
      BY <1>5, <2>3 DEF InTurn, OrderAt
  <1>6. LastOk(e)'
    <2>1. ASSUME e.b > 0, NEW k \in DOMAIN calls', Brackets(calls'[k].c), Open(calls[k])', calls'[k].b > 0
          PROVE  consumer[calls'[k].c].order = consumer[e.c].order
      <3> PICK y : y = calls'[k]
        OBVIOUS
      <3>1. IsContext(y) /\ Brackets(y.c) /\ y.b > 0
        BY <1>4, <2>1
      <3>2. Open(y)'
        BY <2>1 DEF Open, Count, Context
      <3>3. QED
        BY <1>5, <2>1, <3>1, <3>2
    <2>2. QED
      BY <1>1, <2>1 DEF LastOk, Brackets, Context, Count
  <1>7. History'
    <2> PICK x : x = calls'[Len(calls')]
      OBVIOUS
    <2>0. LastOk(x)'
      BY <1>3, <1>6
    <2>1. LastOk(calls[Len(calls)])'
      BY <2>0 DEF LastOk, Brackets, Context, Count, Open
    <2>2. QED
      BY <1>4, <2>1 DEF History, IsContext
  <1>8. QED
    BY <1>1, <1>7 DEF BInv

-----------------------------------------------------------------------------
\* Steps without a callback.

\* A packet consumer was shown the TLV block of the packet.
LEMMA PacketBlockShownKeeps == IInv /\ BInv /\ PacketBlockShown => BInv'
  <1> SUFFICES ASSUME IInv, BInv, PacketBlockShown PROVE BInv'
    OBVIOUS
  <1>1. /\ rd.phase = "shown" /\ sched.b = 0 /\ tree' = tree /\ done' = done /\ msg' = msg
        /\ sched' = sched /\ calls' = calls
        /\ rd' = [rd EXCEPT !.result = rd.res, !.k = @ + 1,
                            !.phase = IF rd.res = OKAY THEN "packet" ELSE "packet_end"]
    BY DEF PacketBlockShown
  <1>2. /\ rd'.phase \in {"packet", "packet_end"} /\ rd'.k = rd.k + 1 /\ rd'.started = rd.started
        /\ rd'.ptr = rd.ptr
    BY <1>1 DEF IInv, Place, Records
  <1>3. ~InMessage /\ ~InMessage' /\ ~InAddress /\ ~InAddress' /\ ~InAddresses' /\ InBlock /\ ~InBlock'
    BY <1>1, <1>2 DEF InMessage, InAddress, InAddresses, InBlock
  <1>4. Turn'
    BY <1>1, <1>2, <1>3 DEF BInv, Turn, PacketTurn, MessageTurn, AddressTurn
  <1>5. ASSUME NEW y PROVE Frame(y)
    <2>1. Within(y)' <=> Within(y)
      BY <1>1, <1>2, <1>3 DEF Within
    <2>2. Ahead(y)' => Ahead(y)
      BY <1>1, <1>2, <1>3 DEF Ahead, Going
    <2>3. QED
      BY <2>1, <2>2 DEF Frame
  <1>6. Trees'
    BY <1>1, TreesStay DEF BInv
  <1>7. QED
    BY <1>1, <1>4, <1>5, <1>6, QuietKeeps

\* The next message is parsed: it was not told of.
LEMMA ParseMessageKeeps == IInv /\ BInv /\ ParseMessage => BInv'
  <1> SUFFICES ASSUME IInv, BInv, ParseMessage PROVE BInv'
    OBVIOUS
  <1> PICK m : m = parse_message(rd.buf, rd.ptr, Len(rd.buf))
    OBVIOUS
  <1>1. /\ rd.phase \in {"packet", "messages"} /\ sched' = sched /\ tree' = tree /\ done' = done
        /\ calls' = calls /\ Place
        /\ rd.phase = "packet" => rd.k > Len(tree.pkt)
    BY DEF ParseMessage, IInv
  <1>2. \/ rd' = [rd EXCEPT !.phase = "packet_end"]
        \/ rd' = [rd EXCEPT !.phase = "packet_end", !.result = m.res]
        \/ rd' = [rd EXCEPT !.phase = "message", !.res = OKAY, !.k = 1,
                            !.same_order = <<>>, !.do_not_forward = FALSE]
    BY DEF ParseMessage
  <1>3. /\ \/ rd'.phase = "packet_end"
           \/ rd'.phase = "message" /\ rd'.k = 1 /\ rd'.same_order = <<>>
        /\ rd'.started = rd.started /\ rd'.ptr = rd.ptr
    BY <1>1, <1>2 DEF Place, Records
  <1>4. ~InMessage /\ ~InAddress /\ ~InAddress' /\ ~InAddresses' /\ ~InBlock'
    BY <1>1, <1>3 DEF InMessage, InAddress, InAddresses, InBlock
  <1>5. Turn'
    <2>1. Len(tree.msg) \in Nat
      BY OnePlace DEF BInv, Trees
    <2>2. PacketTurn'
      BY <1>1, <1>3, <1>4 DEF BInv, Turn, PacketTurn
    <2>3. MessageTurn'
      BY <1>1, <1>3, <1>4, <2>1 DEF MessageTurn, InMessage
    <2>4. AddressTurn'
      BY <1>4 DEF AddressTurn
    <2>5. QED
      BY <2>2, <2>3, <2>4 DEF Turn
  <1>6. ASSUME NEW y, IsContext(y) PROVE Frame(y) \/ Fresh(y)
    <2>1. Within(y)' <=> Within(y)
      BY <1>1, <1>3, <1>4 DEF Within, InMessage
    <2>2. CASE y.b = 0
      BY <1>1, <1>3, <1>4, <2>1, <2>2 DEF Ahead, Frame
    <2>3. CASE y.b # 0 /\ y.at = rd.ptr
      <3>1. ~Within(y)
        BY <1>4, <2>3 DEF Within
      <3>2. ASSUME NEW k \in DOMAIN calls, Context(calls[k]) = Context(y) PROVE FALSE
        <4> PICK x : x = calls[k]
          OBVIOUS
        <4>1. CallOk(x)
          BY DEF IInv, CallsOk
        <4>2. x.b # 0 /\ x.at = rd.ptr /\ x.b = y.b
          BY <2>3, <3>2, SameContext
        <4>3. x.b > 0
          BY <4>1, <4>2 DEF CallOk
        <4>4. QED
          BY <1>4, <4>1, <4>2, <4>3 DEF CallOk
      <3>3. QED
        BY <2>1, <3>1, <3>2 DEF Fresh
    <2>4. CASE y.b # 0 /\ y.at # rd.ptr
      BY <1>1, <1>3, <1>4, <2>1, <2>4 DEF Ahead, Frame, IsContext
    <2>5. QED
      BY <2>2, <2>3, <2>4
  <1>7. Trees'
    BY <1>1, TreesStay DEF BInv
  <1>8. QED
    BY <1>1, <1>5, <1>6, <1>7, QuietKeeps

\* A consumer of other messages is passed over.
LEMMA SkipConsumerKeeps == IInv /\ BInv /\ SkipConsumer => BInv'
  <1> SUFFICES ASSUME IInv, BInv, SkipConsumer PROVE BInv'
    OBVIOUS
  <1>1. /\ rd.phase = "message" /\ rd.k <= Len(tree.msg) /\ ~OfMessage(tree.msg[rd.k])
        /\ tree' = tree /\ done' = done /\ msg' = msg /\ sched' = sched /\ calls' = calls
        /\ rd' = [rd EXCEPT !.k = @ + 1]
    BY DEF SkipConsumer
  <1>2. /\ rd'.phase = "message" /\ rd'.k = rd.k + 1 /\ rd'.started = rd.started
        /\ rd'.ptr = rd.ptr /\ rd'.same_order = rd.same_order
    BY <1>1 DEF IInv, Place, Records
  <1>3. InMessage /\ InMessage' /\ ~InAddress /\ ~InAddress' /\ ~InAddresses' /\ ~InBlock' /\ ~InBlock
    BY <1>1, <1>2 DEF InMessage, InAddress, InAddresses, InBlock
  <1>4. Turn'
    <2>1. Len(tree.msg) \in Nat
      BY OnePlace DEF BInv, Trees
    <2>2. PacketTurn'
      BY <1>1, <1>2, <1>3 DEF BInv, Turn, PacketTurn
    <2>3. MessageTurn'
      <3>1. \A x : Handles(x)' <=> Handles(x)
        BY <1>1 DEF Handles, OfMessage
      <3>2. ~Handles(tree.msg[rd.k])
        BY <1>1 DEF Handles
      <3>3. MessageTurn
        BY DEF BInv, Turn
      <3>4. rd.k \in 1 .. Len(tree.msg) + 1
        BY <1>3, <3>3 DEF MessageTurn
      <3>5. rd.same_order # <<>> =>
              /\ rd.same_order[1] \in 1 .. Len(tree.msg)
              /\ rd.same_order[2] \in rd.same_order[1] .. Len(tree.msg)
              /\ OrderAt(rd.same_order[1]) = OrderAt(rd.same_order[2])
              /\ rd.same_order[2] < rd.k
              /\ \A j \in rd.same_order[2] + 1 .. rd.k - 1 : ~Handles(tree.msg[j])
        BY <1>1, <1>3, <3>3 DEF MessageTurn
      <3>6. rd.same_order # <<>> =>
              /\ rd.same_order[2] < rd.k + 1
              /\ \A j \in rd.same_order[2] + 1 .. rd.k : ~Handles(tree.msg[j])
        BY <2>1, <3>2, <3>4, <3>5
      <3>7. QED
        BY <1>1, <1>2, <1>3, <2>1, <3>1, <3>4, <3>5, <3>6 DEF MessageTurn, OrderAt
    <2>4. AddressTurn'
      BY <1>3 DEF AddressTurn
    <2>5. QED
      BY <2>2, <2>3, <2>4 DEF Turn
  <1>5. ASSUME NEW y PROVE Frame(y)
    <2>1. Within(y)' <=> Within(y)
      BY <1>1, <1>2, <1>3 DEF Within, Handles, OfMessage, Top
    <2>2. Ahead(y)' => Ahead(y)
      <3>1. Len(tree.msg) \in Nat /\ rd.k \in Int
        BY <1>3, OnePlace DEF BInv, Trees, Turn, MessageTurn
      <3>2. \A j \in rd.k + 1 .. Len(tree.msg) : j \in rd.k .. Len(tree.msg)
        BY <3>1
      <3>3. QED
        BY <1>1, <1>2, <1>3, <3>2 DEF Ahead, Going, From, InAddresses
    <2>3. QED
      BY <2>1, <2>2 DEF Frame
  <1>6. Trees'
    BY <1>1, TreesStay DEF BInv
  <1>7. QED
    BY <1>1, <1>4, <1>5, <1>6, QuietKeeps

\* What is known of the place in the loop of _handle_message.
LEMMA InLoop ==
    ASSUME IInv, BInv, rd.phase = "message" \/ InAddresses
    PROVE  /\ InMessage /\ Len(tree.msg) \in Nat /\ rd.k \in 1 .. Len(tree.msg) + 1 /\ rd.ptr \in Nat
           /\ rd.same_order # <<>> =>
                /\ rd.same_order[1] \in 1 .. Len(tree.msg)
                /\ rd.same_order[2] \in rd.same_order[1] .. Len(tree.msg)
                /\ OrderAt(rd.same_order[1]) = OrderAt(rd.same_order[2])
                /\ rd.same_order[2] < rd.k
                /\ \A j \in rd.same_order[2] + 1 .. rd.k - 1 : ~Handles(tree.msg[j])
  <1>1. MessageTurn /\ Place
    BY DEF BInv, Turn, IInv
  <1>2. InMessage
    BY <1>1 DEF InMessage, InAddresses, InAddress, Place
  <1>3. Len(tree.msg) \in Nat
    BY OnePlace DEF BInv, Trees
  <1>4. QED
    BY <1>1, <1>2, <1>3 DEF MessageTurn, Place

\* The end callbacks of an order begin.
LEMMA EndOfOrderKeeps == IInv /\ BInv /\ EndOfOrder => BInv'
  <1> SUFFICES ASSUME IInv, BInv, EndOfOrder PROVE BInv'
    OBVIOUS
  <1>1. /\ rd.phase = "message" /\ rd.same_order # <<>>
        /\ tree' = tree /\ done' = done /\ msg' = msg /\ sched' = sched /\ calls' = calls
        /\ rd' = [rd EXCEPT !.phase = "message_end", !.i = rd.same_order[2]]
    BY DEF EndOfOrder
  <1>2. /\ rd'.phase = "message_end" /\ rd'.i = rd.same_order[2] /\ rd'.k = rd.k
        /\ rd'.started = rd.started /\ rd'.ptr = rd.ptr /\ rd'.same_order = rd.same_order
        /\ rd'.res = rd.res
    BY <1>1 DEF IInv, Place, Records
  <1>3. InMessage /\ InMessage' /\ ~InAddress /\ ~InAddress' /\ ~InAddresses' /\ ~InBlock' /\ ~InBlock
    BY <1>1, <1>2 DEF InMessage, InAddress, InAddresses, InBlock
  <1>4. /\ Len(tree.msg) \in Nat /\ rd.k \in 1 .. Len(tree.msg) + 1
        /\ rd.same_order[1] \in 1 .. Len(tree.msg)
        /\ rd.same_order[2] \in rd.same_order[1] .. Len(tree.msg)
        /\ OrderAt(rd.same_order[1]) = OrderAt(rd.same_order[2])
        /\ rd.same_order[2] < rd.k
    BY <1>1, InLoop
  <1>5. Turn'
    <2>1. PacketTurn'
      BY <1>1, <1>2, <1>3 DEF BInv, Turn, PacketTurn
    <2>2. MessageTurn'
      BY <1>1, <1>2, <1>3, <1>4 DEF MessageTurn, OrderAt
    <2>3. AddressTurn'
      BY <1>3 DEF AddressTurn
    <2>4. QED
      BY <2>1, <2>2, <2>3 DEF Turn
  <1>6. ASSUME NEW y PROVE Frame(y)
    <2>1. Within(y)' <=> Within(y)
      BY <1>1, <1>2, <1>3 DEF Within, Handles, OfMessage, Top
    <2>2. Ahead(y)' => Ahead(y)
      BY <1>1, <1>2, <1>3 DEF Ahead, Going, From, InAddresses
    <2>3. QED
      BY <2>1, <2>2 DEF Frame
  <1>7. Trees'
    BY <1>1, TreesStay DEF BInv
  <1>8. QED
    BY <1>1, <1>5, <1>6, <1>7, QuietKeeps

\* A message consumer was shown the TLV block of the message.
LEMMA MessageBlockShownKeeps == IInv /\ BInv /\ MessageBlockShown => BInv'
  <1> SUFFICES ASSUME IInv, BInv, MessageBlockShown PROVE BInv'
    OBVIOUS
  <1>1. /\ rd.phase = "shown" /\ sched.b = 1
        /\ tree' = tree /\ done' = done /\ msg' = msg /\ sched' = sched /\ calls' = calls
        /\ rd' = IF rd.res = OKAY THEN [rd EXCEPT !.phase = "message", !.k = @ + 1]
                 ELSE [rd EXCEPT !.phase = "message_end", !.i = rd.same_order[2]]
    BY DEF MessageBlockShown
  <1>2. /\ rd'.started = rd.started /\ rd'.ptr = rd.ptr /\ rd'.same_order = rd.same_order
        /\ rd'.res = rd.res
        /\ \/ rd.res = OKAY /\ rd'.phase = "message" /\ rd'.k = rd.k + 1
           \/ /\ rd.res # OKAY /\ rd'.phase = "message_end" /\ rd'.k = rd.k
              /\ rd'.i = rd.same_order[2]
    BY <1>1 DEF IInv, Place, Records
  <1>3. /\ InMessage /\ InMessage' /\ ~InAddress /\ ~InAddress' /\ ~InAddresses' /\ ~InBlock' /\ InBlock
    BY <1>1, <1>2 DEF InMessage, InAddress, InAddresses, InBlock
  <1>4. /\ Len(tree.msg) \in Nat /\ rd.k \in 1 .. Len(tree.msg) /\ rd.same_order # <<>>
        /\ rd.same_order[1] \in 1 .. Len(tree.msg)
        /\ rd.same_order[2] \in rd.same_order[1] .. Len(tree.msg)
        /\ OrderAt(rd.same_order[1]) = OrderAt(rd.same_order[2])
        /\ rd.same_order[2] = rd.k
    <2>1. MessageTurn
      BY DEF BInv, Turn
    <2>2. Len(tree.msg) \in Nat
      BY OnePlace DEF BInv, Trees
    <2>3. QED
      BY <1>1, <1>3, <2>1, <2>2 DEF MessageTurn
  <1>5. Turn'
    <2>1. PacketTurn'
      BY <1>1, <1>2, <1>3 DEF BInv, Turn, PacketTurn
    <2>2. MessageTurn'
      BY <1>1, <1>2, <1>3, <1>4, SMTT(30) DEF MessageTurn, OrderAt
    <2>3. AddressTurn'
      BY <1>3 DEF AddressTurn
    <2>4. QED
      BY <2>1, <2>2, <2>3 DEF Turn
  <1>6. ASSUME NEW y PROVE Frame(y)
    <2>1. Within(y)' <=> Within(y)
      BY <1>1, <1>2, <1>3 DEF Within, Handles, OfMessage, Top
    <2>2. Ahead(y)' => Ahead(y)
      BY <1>1, <1>2, <1>3 DEF Ahead, Going, From, InAddresses
    <2>3. QED
      BY <2>1, <2>2 DEF Frame
  <1>7. Trees'
    BY <1>1, TreesStay DEF BInv
  <1>8. QED
    BY <1>1, <1>5, <1>6, <1>7, QuietKeeps

\* Of a consumer that is no later than those that were shown the message, at a
\* later place, the order is theirs.
LEMMA NotLater ==
    ASSUME IInv, BInv, rd.phase = "message", rd.k <= Len(tree.msg), ~LaterOrder(tree.msg[rd.k]),
           rd.same_order # <<>>
    PROVE  OrderAt(rd.k) = OrderAt(rd.same_order[2])
  <1> PICK s, hi, k : s = tree.msg /\ hi = rd.same_order[2] /\ k = rd.k
    OBVIOUS
  <1>1. /\ Len(s) \in Nat /\ k \in 1 .. Len(s) /\ hi \in 1 .. Len(s) /\ hi < k
        /\ rd.same_order[1] \in 1 .. Len(s)
    BY InLoop
  <1>2. s \in Seq(Consumers) /\ DOMAIN s = 1 .. Len(s) /\ s[hi] \in Consumers /\ s[k] \in Consumers
    <2>1. s \in Seq(Consumers)
      BY DEF BInv, Trees, TreeOk
    <2>2. QED
      BY <1>1, <2>1
  <1>3. ConsumerKey[s[hi]] <= ConsumerKey[s[k]]
    BY <1>1, <1>2 DEF BInv, Trees, TreeOk
  <1>4. consumer[s[hi]].order <= consumer[s[k]].order
    BY <1>2, <1>3, KeysAre
  <1>5. ~(consumer[s[k]].order > consumer[s[hi]].order)
    BY DEF LaterOrder
  <1>6. consumer[s[hi]].order \in Int /\ consumer[s[k]].order \in Int
    BY <1>2, KeysAre
  <1>7. QED
    BY <1>4, <1>5, <1>6 DEF OrderAt

\* An address consumer begins with the addresses of the message.
LEMMA BeginAddressesKeeps == IInv /\ BInv /\ BeginAddresses => BInv'
  <1> SUFFICES ASSUME IInv, BInv, BeginAddresses PROVE BInv'
    OBVIOUS
  <1> PICK who : who = tree.msg[rd.k]
    OBVIOUS
  <1>1. /\ rd.phase = "message" /\ rd.k <= Len(tree.msg)
        /\ OfMessage(who) /\ ~LaterOrder(who) /\ consumer[who].addrblock_consumer
        /\ tree' = tree /\ done' = done /\ msg' = msg /\ sched' = sched /\ calls' = calls
        /\ rd' = [rd EXCEPT !.phase = "address", !.b = 1, !.i = 0]
    BY DEF BeginAddresses
  <1>2. /\ rd'.phase = "address" /\ rd'.i = 0 /\ rd'.b = 1 /\ rd'.k = rd.k
        /\ rd'.started = rd.started /\ rd'.ptr = rd.ptr /\ rd'.same_order = rd.same_order
    BY <1>1 DEF IInv, Place, Records
  <1>3. /\ InMessage /\ InMessage' /\ ~InAddress /\ ~InAddress' /\ InAddresses' /\ ~InAddresses
        /\ ~InBlock' /\ ~InBlock
    BY <1>1, <1>2 DEF InMessage, InAddress, InAddresses, InBlock
  <1>4. /\ Len(tree.msg) \in Nat /\ rd.k \in 1 .. Len(tree.msg)
        /\ rd.same_order # <<>> =>
             /\ rd.same_order[1] \in 1 .. Len(tree.msg)
             /\ rd.same_order[2] \in rd.same_order[1] .. Len(tree.msg)
             /\ OrderAt(rd.same_order[1]) = OrderAt(rd.same_order[2])
             /\ rd.same_order[2] < rd.k
             /\ \A j \in rd.same_order[2] + 1 .. rd.k - 1 : ~Handles(tree.msg[j])
             /\ OrderAt(rd.k) = OrderAt(rd.same_order[2])
    BY <1>1, InLoop, NotLater
  <1>5. Turn'
    <2>1. PacketTurn'
      BY <1>1, <1>2, <1>3 DEF BInv, Turn, PacketTurn
    <2>2. MessageTurn'
      BY <1>1, <1>2, <1>3, <1>4 DEF MessageTurn, OrderAt, Handles, OfMessage
    <2>3. AddressTurn'
      BY <1>1, <1>2, <1>4 DEF AddressTurn, OrderAt, OfMessage
    <2>4. QED
      BY <2>1, <2>2, <2>3 DEF Turn
  <1>6. ASSUME NEW y, IsContext(y) PROVE Frame(y)
    <2>1. Within(y)' <=> Within(y)
      BY <1>1, <1>2, <1>3 DEF Within, Handles, OfMessage, Top
    <2>2. Ahead(y)' => Ahead(y)
      <3>1. /\ rd.k \in rd.k .. Len(tree.msg)
            /\ \A j \in rd.k + 1 .. Len(tree.msg) : j \in rd.k .. Len(tree.msg)
        BY <1>4
      <3>2. Ahead(y)' => y.b > 0 /\ y.at = rd.ptr /\ \E j \in rd.k .. Len(tree.msg) : y.c = tree.msg[j]
        <4>1. CASE y.b = 0
          <5>1. ~(y.b > 0) /\ ~(y.b > 1)
            BY <4>1
          <5>2. QED
            BY <1>2, <1>3, <5>1 DEF Ahead
        <4>2. CASE y.b # 0
          <5>1. y.b > 0
            BY <1>6, <4>2 DEF IsContext
          <5>2. QED
            BY <1>1, <1>2, <1>3, <3>1, <5>1 DEF Ahead, From
        <4>3. QED
          BY <4>1, <4>2
      <3>3. QED
        BY <1>1, <1>3, <3>2 DEF Ahead, Going, From
    <2>3. QED
      BY <2>1, <2>2 DEF Frame
  <1>7. Trees'
    BY <1>1, TreesStay DEF BInv
  <1>8. QED
    BY <1>1, <1>5, <1>6, <1>7, QuietKeeps

\* An address consumer is done with the addresses of the message.
LEMMA EndAddressesKeeps == IInv /\ BInv /\ EndAddresses => BInv'
  <1> SUFFICES ASSUME IInv, BInv, EndAddresses PROVE BInv'
    OBVIOUS
  <1>1. /\ rd.phase = "address" /\ tree' = tree /\ done' = done /\ msg' = msg /\ sched' = sched
        /\ calls' = calls /\ rd' = [rd EXCEPT !.phase = "message", !.k = @ + 1]
    BY DEF EndAddresses
  <1>2. /\ rd'.phase = "message" /\ rd'.k = rd.k + 1 /\ rd'.started = rd.started
        /\ rd'.ptr = rd.ptr /\ rd'.same_order = rd.same_order
    BY <1>1 DEF IInv, Place, Records
  <1>3. InMessage /\ InMessage' /\ ~InAddress /\ ~InAddress' /\ ~InAddresses' /\ InAddresses /\ ~InBlock' /\ ~InBlock
    BY <1>1, <1>2 DEF InMessage, InAddress, InAddresses, InBlock
  <1>4. /\ Len(tree.msg) \in Nat /\ rd.k \in 1 .. Len(tree.msg) /\ ~Handles(tree.msg[rd.k])
        /\ rd.same_order # <<>> =>
             /\ rd.same_order[1] \in 1 .. Len(tree.msg)
             /\ rd.same_order[2] \in rd.same_order[1] .. Len(tree.msg)
             /\ OrderAt(rd.same_order[1]) = OrderAt(rd.same_order[2])
             /\ rd.same_order[2] < rd.k
             /\ \A j \in rd.same_order[2] + 1 .. rd.k - 1 : ~Handles(tree.msg[j])
    <2>1. rd.k <= Len(tree.msg) /\ ~Handles(tree.msg[rd.k])
      BY <1>3 DEF BInv, Turn, AddressTurn, Handles
    <2>2. QED
      BY <1>3, <2>1, InLoop
  <1>5. Turn'
    <2>1. PacketTurn'
      BY <1>1, <1>2, <1>3 DEF BInv, Turn, PacketTurn
    <2>2. MessageTurn'
      <3>1. \A x : Handles(x)' <=> Handles(x)
        BY <1>1 DEF Handles, OfMessage
      <3>2. rd.same_order # <<>> =>
              /\ rd.same_order[2] < rd.k + 1
              /\ \A j \in rd.same_order[2] + 1 .. rd.k : ~Handles(tree.msg[j])
        BY <1>4
      <3>3. QED
        BY <1>1, <1>2, <1>3, <1>4, <3>1, <3>2 DEF MessageTurn, OrderAt
    <2>3. AddressTurn'
      BY <1>3 DEF AddressTurn
    <2>4. QED
      BY <2>1, <2>2, <2>3 DEF Turn
  <1>6. ASSUME NEW y PROVE Frame(y)
    <2>1. Within(y)' <=> Within(y)
      BY <1>1, <1>2, <1>3 DEF Within, Handles, OfMessage, Top
    <2>2. Ahead(y)' => Ahead(y)
      BY <1>1, <1>2, <1>3 DEF Ahead, Going, From
    <2>3. QED
      BY <2>1, <2>2 DEF Frame
  <1>7. Trees'
    BY <1>1, TreesStay DEF BInv
  <1>8. QED
    BY <1>1, <1>5, <1>6, <1>7, QuietKeeps

\* The message is left behind: nothing of it is due.
LEMMA EndMessageKeeps == IInv /\ BInv /\ EndMessage => BInv'
  <1> SUFFICES ASSUME IInv, BInv, EndMessage PROVE BInv'
    OBVIOUS
  <1>1. /\ rd.phase \in {"cleanup", "message"} /\ sched' = sched /\ tree' = tree /\ done' = done
        /\ msg' = msg /\ calls' = calls
        /\ rd.phase = "message" => rd.same_order = <<>>
        /\ rd' = [rd EXCEPT !.phase = "messages", !.ptr = msg.end,
                        !.result = IF rd.res = DROP_PACKET THEN rd.res ELSE OKAY]
    BY DEF EndMessage
  <1>2. rd'.phase = "messages" /\ rd'.started = rd.started
    BY <1>1 DEF IInv, Place, Records
  <1>3. /\ ~InMessage' /\ ~InAddress /\ ~InAddress' /\ ~InAddresses' /\ ~InBlock'
        /\ rd.same_order = <<>>
    BY <1>1, <1>2 DEF InMessage, InAddress, InAddresses, InBlock, BInv, Turn, MessageTurn
  <1>4. Turn'
    BY <1>1, <1>2, <1>3 DEF BInv, Turn, PacketTurn, MessageTurn, AddressTurn
  <1>5. ASSUME NEW y PROVE Frame(y)
    <2>1. Within(y)' <=> Within(y)
      BY <1>1, <1>2, <1>3 DEF Within
    <2>2. ~Ahead(y)'
      BY <1>2, <1>3 DEF Ahead, Going
    <2>3. QED
      BY <2>1, <2>2 DEF Frame
  <1>6. Trees'
    BY <1>1, TreesStay DEF BInv
  <1>7. QED
    BY <1>1, <1>4, <1>5, <1>6, QuietKeeps

\* A packet is taken: nothing was told.
LEMMA ReadKeeps == IInv /\ BInv /\ ReadAny => BInv'
  <1> SUFFICES ASSUME IInv, BInv, ReadAny PROVE BInv'
    OBVIOUS
  <1>1. PICK buf \in Seq(0..255), drops \in 0..MaxDrops : HandlePacket(buf, drops)
    BY DEF ReadAny
  <1> PICK hdr : hdr = parse_pkt_header(buf)
    OBVIOUS
  <1>2. /\ rd.phase = "idle" /\ sched' = sched /\ tree' = tree /\ done' = done
        /\ calls' = calls /\ calls = <<>>
    BY <1>1 DEF HandlePacket, IInv, Place
  <1>3. \/ rd' = [AtRest EXCEPT !.phase = "refused", !.result = hdr.res]
        \/ rd' = [AtRest EXCEPT !.phase = "packet", !.buf = buf, !.ptr = hdr.p,
                                !.has_tlv = hdr.has_tlv, !.k = 1, !.drops = drops]
    BY <1>1, ZenonT(60) DEF HandlePacket
  <1>4. rd'.phase \in {"refused", "packet"} /\ rd'.started = 0 /\ (rd'.phase = "packet" => rd'.k = 1)
    BY <1>3, ZenonT(60) DEF AtRest
  <1>5. ~InMessage' /\ ~InAddress' /\ ~InAddresses' /\ ~InBlock'
    BY <1>4 DEF InMessage, InAddress, InAddresses, InBlock
  <1>6. Turn'
    <2>1. Len(tree.pkt) \in Nat
      BY OnePlace DEF BInv, Trees
    <2>2. QED
      BY <1>2, <1>4, <1>5, <2>1 DEF Turn, PacketTurn, MessageTurn, AddressTurn
  <1>7. ASSUME NEW y PROVE Fresh(y)
    <2>1. ~Within(y)'
      BY <1>4, <1>5 DEF Within
    <2>2. QED
      BY <1>2, <2>1 DEF Fresh
  <1>8. Trees'
    BY <1>2, TreesStay DEF BInv
  <1>9. QED
    BY <1>2, <1>6, <1>7, <1>8, QuietKeeps

\* Nothing was told yet.
LEMMA NothingTold ==
    ASSUME calls' = <<>>, Trees', Turn', rd'.phase = "idle"
    PROVE  BInv'
  <1>1. ASSUME NEW cb, NEW y PROVE Count(cb, Context(y))' = 0
    <2>1. {k \in DOMAIN calls' : calls'[k].cb = cb /\ Context(calls'[k]) = Context(y)} = {}
      OBVIOUS
    <2>2. QED
      BY <2>1, FS_EmptySet DEF Count, Context
  <1>2. ASSUME NEW y PROVE ~Within(y)'
    <2>1. ~InMessage' /\ ~InAddress' /\ rd'.started = 0
      BY DEF InMessage, InAddress, Turn, PacketTurn
    <2>2. QED
      BY <2>1 DEF Within
  <1>3. AllTold'
    <2>1. ASSUME NEW y PROVE Told(y)'
      BY <1>1, <1>2 DEF Told
    <2>2. QED
      BY <2>1 DEF AllTold, IsContext, Brackets
  <1>4. History'
    BY DEF History
  <1>5. QED
    BY <1>3, <1>4 DEF BInv

\* The packet is given back, and the histories end.
LEMMA PacketDoneKeeps == IInv /\ BInv /\ PacketDone => BInv'
  <1> SUFFICES ASSUME IInv, BInv, PacketDone PROVE BInv'
    OBVIOUS
  <1>1. rd' = AtRest /\ calls' = <<>> /\ tree' = tree /\ done' = done
    BY DEF PacketDone
  <1>2. rd'.phase = "idle" /\ rd'.started = 0
    BY <1>1 DEF AtRest
  <1>3. ~InMessage' /\ ~InAddress' /\ ~InAddresses' /\ ~InBlock'
    BY <1>2 DEF InMessage, InAddress, InAddresses, InBlock
  <1>4. Turn'
    <2>1. Len(tree.pkt) \in Nat
      BY OnePlace DEF BInv, Trees
    <2>2. QED
      BY <1>1, <1>2, <1>3, <2>1 DEF Turn, PacketTurn, MessageTurn, AddressTurn
  <1>5. Trees'
    BY <1>1, TreesStay DEF BInv
  <1>6. QED
    BY <1>1, <1>2, <1>4, <1>5, NothingTold

\* What a step leaves alone.
LEMMA NothingKeeps == BInv /\ UNCHANGED rvars => BInv'
  <1> SUFFICES ASSUME BInv, UNCHANGED rvars PROVE BInv'
    OBVIOUS
  <1>1. /\ tree' = tree /\ done' = done /\ rd' = rd /\ msg' = msg /\ sched' = sched
        /\ calls' = calls
    BY DEF rvars
  <1>2. /\ InMessage' = InMessage /\ InAddress' = InAddress /\ InAddresses' = InAddresses
        /\ InBlock' = InBlock
    BY <1>1 DEF InMessage, InAddress, InAddresses, InBlock
  <1>3. Turn'
    <2>1. PacketTurn'
      BY <1>1, <1>2 DEF BInv, Turn, PacketTurn
    <2>2. MessageTurn'
      BY <1>1, <1>2 DEF BInv, Turn, MessageTurn, Handles, OfMessage, OrderAt
    <2>3. AddressTurn'
      BY <1>1, <1>2 DEF BInv, Turn, AddressTurn, OfMessage, OrderAt
    <2>4. QED
      BY <2>1, <2>2, <2>3 DEF Turn
  <1>4. ASSUME NEW y PROVE Frame(y)
    <2>1. Within(y)' <=> Within(y)
      BY <1>1, <1>2 DEF Within, Handles, OfMessage, Top
    <2>2. Ahead(y)' => Ahead(y)
      BY <1>1, <1>2 DEF Ahead, Going, From
    <2>3. QED
      BY <2>1, <2>2 DEF Frame
  <1>5. Trees'
    BY <1>1, TreesStay DEF BInv
  <1>6. QED
    BY <1>1, <1>3, <1>4, <1>5, QuietKeeps

-----------------------------------------------------------------------------
\* Steps with a callback.

\* A callback for the block under way, which is in the middle of what it is for.
LEMMA ShowingKeeps ==
    ASSUME IInv, BInv, rd.phase = "tlvs", rd'.phase \in {"tlvs", "shown"},
           msg' = msg, tree' = tree, done' = done, NEW cb, cb \notin {"start", "end"}, NEW r,
           \/ calls' = calls
           \/ calls' = Append(calls, [at |-> rd.ptr, cb |-> cb, c |-> sched.c, b |-> sched.b,
                                      i |-> sched.i, res |-> r]),
           rd'.ptr = rd.ptr, rd'.b = rd.b, rd'.i = rd.i, rd'.k = rd.k, rd'.started = rd.started,
           rd'.same_order = rd.same_order,
           sched'.c = sched.c, sched'.b = sched.b, sched'.i = sched.i
    PROVE  BInv'
  <1>1. Place /\ Turn /\ Trees /\ IsSeq(calls)
    BY DEF IInv, BInv, CallsOk
  <1>2. /\ (InMessage' <=> InMessage) /\ (InAddress' <=> InAddress) /\ (InAddresses' <=> InAddresses)
        /\ InBlock' /\ InBlock
    BY DEF InMessage, InAddress, InAddresses, InBlock
  <1>3. /\ Len(tree.pkt) \in Nat /\ Len(tree.msg) \in Nat
        /\ \A j \in 1 .. Len(tree.pkt) : tree.pkt[j] \in Consumers
        /\ \A j \in 1 .. Len(tree.msg) : tree.msg[j] \in Consumers
        /\ \A j, k \in 1 .. Len(tree.pkt) : tree.pkt[j] = tree.pkt[k] => j = k
        /\ \A j, k \in 1 .. Len(tree.msg) : tree.msg[j] = tree.msg[k] => j = k
    BY <1>1, OnePlace DEF Trees
  <1>4. Turn'
    <2>1. PacketTurn'
      BY <1>1, <1>2 DEF Turn, PacketTurn
    <2>2. MessageTurn'
      BY <1>1, <1>2 DEF Turn, MessageTurn, Handles, OfMessage, OrderAt
    <2>3. AddressTurn'
      BY <1>1, <1>2 DEF Turn, AddressTurn, OfMessage, OrderAt
    <2>4. QED
      BY <2>1, <2>2, <2>3 DEF Turn
  <1>5. ASSUME NEW y PROVE (Within(y)' <=> Within(y)) /\ (Ahead(y)' <=> Ahead(y))
    <2>1. Within(y)' <=> Within(y)
      BY <1>2 DEF Within, Handles, OfMessage, Top
    <2>2. Ahead(y)' <=> Ahead(y)
      BY <1>2 DEF Ahead, Going, From
    <2>3. QED
      BY <2>1, <2>2
  <1>6. Trees'
    BY <1>1, TreesStay
  <1>7. CASE calls' = calls
    BY <1>4, <1>5, <1>6, <1>7, QuietKeeps DEF Frame
  <1>8. CASE calls' # calls
    <2> PICK e : e = [at |-> rd.ptr, cb |-> cb, c |-> sched.c, b |-> sched.b,
                      i |-> sched.i, res |-> r]
      OBVIOUS
    <2>1. /\ e.at = rd.ptr /\ e.cb = cb /\ e.c = sched.c /\ e.b = sched.b /\ e.i = sched.i
          /\ calls' = Append(calls, e)
      BY <1>8
    <2>2. IsContext(e) /\ Within(e) /\ ~Ahead(e) /\ InTurn(e)'
      <3>1. CASE sched.b = 0
        <4>1. /\ rd.k \in 1 .. Len(tree.pkt) /\ rd.started = rd.k
              /\ sched.c = tree.pkt[rd.k] /\ sched.i = 0
          BY <1>1, <1>2, <3>1 DEF Turn, PacketTurn
        <4>2. IsContext(e)
          BY <1>1, <1>3, <2>1, <3>1, <4>1 DEF IsContext, Place
        <4>3. Within(e)
          <5>1. rd.k \in 1 .. rd.started
            BY <1>3, <4>1
          <5>2. QED
            BY <2>1, <3>1, <4>1, <5>1 DEF Within
        <4>4. ~Ahead(e)
          <5>1. \A j \in rd.started + 1 .. Len(tree.pkt) : tree.pkt[j] # e.c
            BY <1>3, <2>1, <4>1
          <5>2. ~(e.b > 0) /\ ~(e.b > 1)
            BY <2>1, <3>1
          <5>3. QED
            BY <5>1, <5>2 DEF Ahead
        <4>5. InTurn(e)'
          BY <2>1, <3>1 DEF InTurn
        <4>6. QED
          BY <4>2, <4>3, <4>4, <4>5
      <3>2. CASE sched.b = 1
        <4>1. InMessage /\ ~InAddress /\ ~InAddresses
          BY <3>2 DEF InMessage, InAddress, InAddresses
        <4>2. /\ rd.k \in 1 .. Len(tree.msg) /\ Handles(tree.msg[rd.k])
              /\ sched.c = tree.msg[rd.k] /\ sched.i = 0
              /\ rd.same_order # <<>> /\ rd.same_order[2] = rd.k
              /\ rd.same_order[1] \in 1 .. Len(tree.msg)
              /\ rd.same_order[2] \in rd.same_order[1] .. Len(tree.msg)
          BY <1>1, <1>2, <1>3, <3>2, <4>1 DEF Turn, MessageTurn
        <4>3. IsContext(e)
          BY <1>1, <1>3, <2>1, <3>2, <4>2 DEF IsContext, Place
        <4>4. Within(e)
          <5>1. Top = rd.k /\ rd.k \in rd.same_order[1] .. Top
            BY <1>3, <4>2 DEF Top
          <5>2. QED
            BY <2>1, <3>2, <4>1, <4>2, <5>1 DEF Within
        <4>5. ~Ahead(e)
          <5>1. From = rd.k + 1
            BY DEF From
          <5>2. \A j \in rd.k + 1 .. Len(tree.msg) : tree.msg[j] # e.c
            BY <1>3, <2>1, <4>2
          <5>3. e.b # 0 /\ ~(e.b > 1)
            BY <2>1, <3>2
          <5>4. QED
            BY <5>1, <5>2, <5>3 DEF Ahead
        <4>6. InTurn(e)'
          BY <1>2, <2>1, <3>2, <4>1, <4>2 DEF InTurn, OrderAt
        <4>7. QED
          BY <4>3, <4>4, <4>5, <4>6
      <3>3. CASE sched.b # 0 /\ sched.b # 1
        <4>1. sched.b \in Nat /\ sched.b > 1
          BY <1>1, <3>3 DEF Place
        <4>2. InMessage /\ InAddress /\ InAddresses
          BY <4>1 DEF InMessage, InAddress, InAddresses
        <4>3. /\ sched.b = rd.b + 1 /\ sched.i = rd.i /\ sched.c = tree.msg[rd.k] /\ rd.b \in Nat
          BY <1>1, <4>2 DEF Place
        <4>4. /\ rd.k \in 1 .. Len(tree.msg) /\ rd.i \in Nat
              /\ rd.same_order # <<>> => OrderAt(rd.k) = OrderAt(rd.same_order[2])
          BY <1>1, <1>3, <4>2 DEF Turn, MessageTurn, AddressTurn
        <4>5. IsContext(e)
          BY <1>1, <1>3, <2>1, <4>1, <4>3, <4>4 DEF IsContext, Place
        <4>6. Within(e)
          BY <2>1, <4>1, <4>2, <4>3 DEF Within
        <4>7. ~Ahead(e)
          <5>1. From = rd.k + 1
            BY DEF From
          <5>2. \A j \in rd.k + 1 .. Len(tree.msg) : tree.msg[j] # e.c
            BY <1>3, <2>1, <4>3, <4>4
          <5>3. e.b # 0 /\ ~Later(e, rd.b, rd.i)
            BY <2>1, <4>1, <4>3, <4>4 DEF Later
          <5>4. QED
            BY <5>1, <5>2, <5>3 DEF Ahead
        <4>8. InTurn(e)'
          BY <1>2, <2>1, <4>3, <4>4 DEF InTurn, OrderAt
        <4>9. QED
          BY <4>5, <4>6, <4>7, <4>8
      <3>4. QED
        BY <3>1, <3>2, <3>3
    <2>3. Moves(e)
      BY <1>5, <2>1, <2>2 DEF Moves
    <2>4. QED
      BY <1>1, <1>4, <1>5, <1>6, <2>1, <2>2, <2>3, CallKeeps DEF Frame
  <1>9. QED
    BY <1>7, <1>8

\* tlv_callback.
LEMMA ScheduleTurnKeeps == IInv /\ BInv /\ ScheduleTurn => BInv'
  <1> SUFFICES ASSUME IInv, BInv, ScheduleTurn PROVE BInv'
    OBVIOUS
  <1>1. /\ rd.phase = "tlvs" /\ msg' = msg /\ tree' = tree /\ done' = done /\ Records
    BY DEF ScheduleTurn, IInv, Place
  <1>2. \/ /\ \E match : Advance(match)
           /\ UNCHANGED <<rd, dropped, calls>>
        \/ \E r :
             /\ Call("tlv", sched.c, sched.b, sched.i, r)
             /\ \/ /\ rd' = [rd EXCEPT !.drops = Drops(r)]
                   /\ \E match : Advance(match)
                \/ /\ rd' = [rd EXCEPT !.drops = Drops(r), !.res = r, !.phase = "shown"]
                   /\ UNCHANGED sched
    BY DEF ScheduleTurn
  <1>3. sched'.c = sched.c /\ sched'.b = sched.b /\ sched'.i = sched.i
    BY <1>1, <1>2, Advanced DEF Records
  <1>4. /\ rd'.phase \in {"tlvs", "shown"} /\ rd'.ptr = rd.ptr /\ rd'.b = rd.b /\ rd'.i = rd.i
        /\ rd'.k = rd.k /\ rd'.started = rd.started /\ rd'.same_order = rd.same_order
    BY <1>1, <1>2 DEF Records
  <1>5. PICK r : \/ calls' = calls
                 \/ calls' = Append(calls, [at |-> rd.ptr, cb |-> "tlv", c |-> sched.c, b |-> sched.b,
                                            i |-> sched.i, res |-> r])
    BY <1>2 DEF Call
  <1>6. "tlv" \notin {"start", "end"}
    OBVIOUS
  <1>7. QED
    BY <1>1, <1>3, <1>4, <1>5, <1>6, ShowingKeeps

\* block_callback and block_callback_failed_constraints.
LEMMA ScheduleVerdictKeeps == IInv /\ BInv /\ ScheduleVerdict => BInv'
  <1> SUFFICES ASSUME IInv, BInv, ScheduleVerdict PROVE BInv'
    OBVIOUS
  <1> PICK cb : cb = IF sched.failed THEN "failed" ELSE "block"
    OBVIOUS
  <1>1. /\ rd.phase = "tlvs" /\ msg' = msg /\ tree' = tree /\ done' = done /\ sched' = sched /\ Records
    BY DEF ScheduleVerdict, IInv, Place
  <1>2. \/ rd' = [rd EXCEPT !.phase = "shown", !.res = OKAY] /\ UNCHANGED calls
        \/ \E r, prevent :
             /\ Call(cb, sched.c, sched.b, sched.i, r)
             /\ rd' = [rd EXCEPT !.phase = "shown", !.res = IF r = DROP_TLV THEN OKAY ELSE r,
                                 !.do_not_forward = @ \/ prevent,
                                 !.drops = IF prevent THEN @ + 1 ELSE Drops(r)]
    <2> DEFINE called == IF sched.failed THEN consumer[sched.c].block_callback_failed_constraints
                         ELSE consumer[sched.c].block_callback
    <2>1. CASE ~called
      BY <2>1 DEF ScheduleVerdict
    <2>2. CASE called
      <3>1. PICK r \in Verdicts, prevent \in BOOLEAN,
                 D \in SUBSET (IF RingCloses(sched.c)
                               THEN {e \in ToSet(Ring(lists, sched.c)) : found[e] # <<>>} ELSE {}) :
              /\ Call(cb, sched.c, sched.b, sched.i, r)
              /\ rd' = [rd EXCEPT !.phase = "shown", !.res = IF r = DROP_TLV THEN OKAY ELSE r,
                                  !.do_not_forward = @ \/ prevent,
                                  !.drops = IF prevent THEN @ + 1 ELSE Drops(r)]
        BY <2>2, ZenonT(60) DEF ScheduleVerdict
      <3>2. QED
        BY <3>1, Zenon
    <2>3. QED
      BY <2>1, <2>2
  <1>4. /\ rd'.phase \in {"tlvs", "shown"} /\ rd'.ptr = rd.ptr /\ rd'.b = rd.b /\ rd'.i = rd.i
        /\ rd'.k = rd.k /\ rd'.started = rd.started /\ rd'.same_order = rd.same_order
    BY <1>1, <1>2, ZenonT(60) DEF Records
  <1>5. PICK r : \/ calls' = calls
                 \/ calls' = Append(calls, [at |-> rd.ptr, cb |-> cb, c |-> sched.c, b |-> sched.b,
                                            i |-> sched.i, res |-> r])
    BY <1>2 DEF Call
  <1>6. cb \notin {"start", "end"} /\ sched'.c = sched.c /\ sched'.b = sched.b /\ sched'.i = sched.i
    BY <1>1
  <1>7. QED
    BY <1>1, <1>4, <1>5, <1>6, ShowingKeeps

\* start_callback of a packet consumer.
LEMMA PacketConsumerKeeps == IInv /\ BInv /\ PacketConsumer => BInv'
  <1> SUFFICES ASSUME IInv, BInv, PacketConsumer PROVE BInv'
    OBVIOUS
  <1> PICK who : who = tree.pkt[rd.k]
    OBVIOUS
  <1> DEFINE tlv_block == rd.has_tlv /\ (consumer[who].tlv_callback \/ consumer[who].block_callback)
  <1>0. PICK r \in IF consumer[who].start_callback THEN Verdicts ELSE {OKAY} :
          /\ IF consumer[who].start_callback THEN Call("start", who, 0, 0, r) ELSE UNCHANGED calls
          /\ rd' = [rd EXCEPT !.started = rd.k, !.drops = Drops(r), !.result = r,
                          !.k = IF r = OKAY /\ ~tlv_block THEN @ + 1 ELSE @,
                          !.phase = IF r # OKAY THEN "packet_end"
                                    ELSE IF tlv_block THEN "tlvs" ELSE "packet"]
          /\ IF r = OKAY /\ tlv_block THEN Schedule(who, 0, 0) ELSE UNCHANGED <<sched, found>>
    BY DEF PacketConsumer
  <1>1. /\ rd.phase = "packet" /\ rd.k <= Len(tree.pkt)
        /\ msg' = msg /\ tree' = tree /\ done' = done /\ Place /\ IsSeq(calls)
    BY DEF PacketConsumer, IInv, CallsOk
  <1>2. /\ rd'.started = rd.k /\ rd'.ptr = rd.ptr
        /\ \/ rd'.phase = "packet_end"
           \/ rd'.phase = "packet" /\ rd'.k = rd.k + 1
           \/ /\ rd'.phase = "tlvs" /\ rd'.k = rd.k
              /\ sched'.b = 0 /\ sched'.c = who /\ sched'.i = 0
    BY <1>0, <1>1, Scheduled DEF Place, Records
  <1>3. /\ Len(tree.pkt) \in Nat /\ rd.k \in 1 .. Len(tree.pkt) /\ rd.k = rd.started + 1
        /\ rd.started \in 0 .. Len(tree.pkt)
        /\ \A j \in 1 .. Len(tree.pkt) : tree.pkt[j] \in Consumers
        /\ \A j, k \in 1 .. Len(tree.pkt) : tree.pkt[j] = tree.pkt[k] => j = k
    <2>1. /\ Len(tree.pkt) \in Nat
          /\ \A j \in 1 .. Len(tree.pkt) : tree.pkt[j] \in Consumers
          /\ \A j, k \in 1 .. Len(tree.pkt) : tree.pkt[j] = tree.pkt[k] => j = k
      BY OnePlace DEF BInv, Trees
    <2>2. rd.k = rd.started + 1 /\ rd.started \in 0 .. Len(tree.pkt)
      BY <1>1 DEF BInv, Turn, PacketTurn
    <2>3. QED
      BY <1>1, <2>1, <2>2
  <1>4. ~InMessage /\ ~InMessage' /\ ~InAddress /\ ~InAddress' /\ ~InAddresses' /\ ~InBlock
        /\ (InBlock' => rd'.phase = "tlvs")
    BY <1>1, <1>2 DEF InMessage, InAddress, InAddresses, InBlock
  <1>5. Turn'
    <2>1. PacketTurn'
      BY <1>1, <1>2, <1>3, <1>4 DEF PacketTurn
    <2>2. MessageTurn' /\ AddressTurn'
      BY <1>2, <1>4 DEF MessageTurn, AddressTurn
    <2>3. QED
      BY <2>1, <2>2 DEF Turn
  <1>6. ASSUME NEW y, IsContext(y), y.b # 0 \/ y.c # who PROVE Frame(y)
    <2>1. CASE y.b = 0
      <3>1. Within(y) <=> \E j \in 1 .. rd.started : y.c = tree.pkt[j]
        BY <2>1 DEF Within
      <3>2. Within(y)' <=> \E j \in 1 .. rd.k : y.c = tree.pkt[j]
        BY <1>1, <1>2, <2>1 DEF Within
      <3>3. Within(y)' <=> Within(y)
        BY <1>3, <1>6, <2>1, <3>1, <3>2
      <3>4. ~(y.b > 0) /\ ~(y.b > 1)
        BY <2>1
      <3>5. Ahead(y) <=> \E j \in rd.started + 1 .. Len(tree.pkt) : y.c = tree.pkt[j]
        BY <1>1, <2>1, <3>4 DEF Ahead
      <3>6. Ahead(y)' => \E j \in rd.k + 1 .. Len(tree.pkt) : y.c = tree.pkt[j]
        BY <1>1, <1>2, <2>1, <3>4 DEF Ahead
      <3>7. QED
        BY <1>3, <3>3, <3>5, <3>6 DEF Frame
    <2>2. CASE y.b # 0
      BY <1>4, <2>2 DEF Frame, Within, Ahead, Going
    <2>3. QED
      BY <2>1, <2>2
  <1>7. Trees'
    BY <1>1, TreesStay DEF BInv
  <1>8. CASE ~consumer[who].start_callback
    <2>1. calls' = calls /\ \A y : Brackets(y.c) => y.c # who
      BY <1>0, <1>8 DEF Brackets
    <2>2. QED
      BY <1>5, <1>6, <1>7, <2>1, QuietKeeps
  <1>9. CASE consumer[who].start_callback
    <2> PICK e : e = [at |-> rd.ptr, cb |-> "start", c |-> who, b |-> 0, i |-> 0, res |-> r]
      OBVIOUS
    <2>1. /\ e.at = rd.ptr /\ e.cb = "start" /\ e.c = who /\ e.b = 0 /\ e.i = 0
          /\ calls' = Append(calls, e)
      BY <1>0, <1>9 DEF Call
    <2>2. IsContext(e)
      BY <1>1, <1>3, <2>1 DEF IsContext, Place
    <2>3. ~(e.b > 0) /\ ~(e.b > 1)
      BY <2>1
    <2>4. Ahead(e)
      <3>1. rd.k \in rd.started + 1 .. Len(tree.pkt)
        BY <1>3
      <3>2. QED
        BY <1>1, <2>1, <3>1 DEF Ahead
    <2>5. Within(e)'
      <3>1. rd.k \in 1 .. rd'.started
        BY <1>2, <1>3
      <3>2. QED
        BY <1>1, <2>1, <3>1 DEF Within
    <2>6. ~Ahead(e)'
      <3>1. ASSUME NEW j \in rd.k + 1 .. Len(tree.pkt) PROVE tree.pkt[j] # who
        <4>1. j \in 1 .. Len(tree.pkt) /\ rd.k \in 1 .. Len(tree.pkt) /\ j # rd.k
          BY <1>3
        <4>2. tree.pkt[j] # tree.pkt[rd.k]
          BY <1>3, <4>1
        <4>3. QED
          BY <4>2
      <3>2. QED
        BY <1>1, <1>2, <2>1, <2>3, <3>1 DEF Ahead
    <2>7. Moves(e) /\ InTurn(e)'
      BY <2>1, <2>3, <2>4, <2>5, <2>6 DEF Moves, InTurn
    <2>8. ASSUME NEW y, Context(y) # Context(e) PROVE y.b # 0 \/ y.c # who
      BY <2>1, <2>8 DEF Context
    <2>9. QED
      BY <1>1, <1>5, <1>6, <1>7, <2>1, <2>2, <2>7, <2>8, CallKeeps
  <1>10. QED
    BY <1>8, <1>9

\* end_callback of a packet consumer.
LEMMA PacketEndKeeps == IInv /\ BInv /\ PacketEnd => BInv'
  <1> SUFFICES ASSUME IInv, BInv, PacketEnd PROVE BInv'
    OBVIOUS
  <1> PICK who : who = tree.pkt[rd.started]
    OBVIOUS
  <1>1. /\ rd.phase = "packet_end" /\ rd.started > 0 /\ rd' = [rd EXCEPT !.started = @ - 1]
        /\ msg' = msg /\ tree' = tree /\ done' = done /\ sched' = sched /\ Place /\ IsSeq(calls)
        /\ IF consumer[who].end_callback THEN Call("end", who, 0, 0, OKAY) ELSE UNCHANGED calls
    BY DEF PacketEnd, IInv, CallsOk
  <1>2. rd'.phase = "packet_end" /\ rd'.started = rd.started - 1 /\ rd'.ptr = rd.ptr
    BY <1>1 DEF Place, Records
  <1>3. /\ Len(tree.pkt) \in Nat /\ rd.started \in 1 .. Len(tree.pkt)
        /\ \A j \in 1 .. Len(tree.pkt) : tree.pkt[j] \in Consumers
        /\ \A j, k \in 1 .. Len(tree.pkt) : tree.pkt[j] = tree.pkt[k] => j = k
    <2>1. /\ Len(tree.pkt) \in Nat
          /\ \A j \in 1 .. Len(tree.pkt) : tree.pkt[j] \in Consumers
          /\ \A j, k \in 1 .. Len(tree.pkt) : tree.pkt[j] = tree.pkt[k] => j = k
      BY OnePlace DEF BInv, Trees
    <2>2. rd.started \in 0 .. Len(tree.pkt)
      BY DEF BInv, Turn, PacketTurn
    <2>3. QED
      BY <1>1, <2>1, <2>2
  <1>4. ~InMessage /\ ~InMessage' /\ ~InAddress /\ ~InAddress' /\ ~InAddresses' /\ ~InBlock'
    BY <1>1, <1>2 DEF InMessage, InAddress, InAddresses, InBlock
  <1>5. Turn'
    BY <1>1, <1>2, <1>3, <1>4 DEF Turn, PacketTurn, MessageTurn, AddressTurn
  <1>6. \A y : ~Ahead(y)'
    BY <1>2, <1>4 DEF Ahead, Going
  <1>7. ASSUME NEW y, IsContext(y), y.b # 0 \/ y.c # who PROVE Frame(y)
    <2>1. CASE y.b = 0
      <3>1. Within(y) <=> \E j \in 1 .. rd.started : y.c = tree.pkt[j]
        BY <2>1 DEF Within
      <3>2. Within(y)' <=> \E j \in 1 .. rd.started - 1 : y.c = tree.pkt[j]
        BY <1>1, <1>2, <2>1 DEF Within
      <3>3. QED
        BY <1>3, <1>6, <1>7, <2>1, <3>1, <3>2 DEF Frame
    <2>2. CASE y.b # 0
      BY <1>4, <1>6, <2>2 DEF Frame, Within
    <2>3. QED
      BY <2>1, <2>2
  <1>8. Trees'
    BY <1>1, TreesStay DEF BInv
  <1>9. CASE ~consumer[who].end_callback
    <2>1. calls' = calls /\ \A y : Brackets(y.c) => y.c # who
      BY <1>1, <1>9 DEF Brackets
    <2>2. QED
      BY <1>5, <1>7, <1>8, <2>1, QuietKeeps
  <1>10. CASE consumer[who].end_callback
    <2> PICK e : e = [at |-> rd.ptr, cb |-> "end", c |-> who, b |-> 0, i |-> 0, res |-> OKAY]
      OBVIOUS
    <2>1. /\ e.at = rd.ptr /\ e.cb = "end" /\ e.c = who /\ e.b = 0 /\ e.i = 0
          /\ calls' = Append(calls, e)
      BY <1>1, <1>10 DEF Call
    <2>2. IsContext(e)
      BY <1>1, <1>3, <2>1 DEF IsContext, Place
    <2>3. Within(e)
      BY <1>3, <2>1 DEF Within
    <2>4. ~Within(e)'
      <3>1. \A j \in 1 .. rd.started - 1 : tree.pkt[j] # who
        BY <1>3
      <3>2. e.b # 1 /\ ~(e.b > 1)
        BY <2>1
      <3>3. QED
        BY <1>1, <1>2, <2>1, <3>1, <3>2 DEF Within
    <2>5. Moves(e) /\ InTurn(e)'
      BY <1>6, <2>1, <2>3, <2>4 DEF Moves, InTurn
    <2>6. ASSUME NEW y, Context(y) # Context(e) PROVE y.b # 0 \/ y.c # who
      BY <2>1, <2>6 DEF Context
    <2>7. QED
      BY <1>1, <1>5, <1>7, <1>8, <2>1, <2>2, <2>5, <2>6, CallKeeps
  <1>11. QED
    BY <1>9, <1>10

\* The consumers of messages are told apart by their places.
LEMMA MessagePlaces ==
    ASSUME BInv
    PROVE  /\ Len(tree.msg) \in Nat
           /\ \A j \in 1 .. Len(tree.msg) : tree.msg[j] \in Consumers
           /\ \A j, k \in 1 .. Len(tree.msg) : tree.msg[j] = tree.msg[k] => j = k
  BY OnePlace DEF BInv, Trees

\* start_callback of a message consumer.
LEMMA MessageConsumerKeeps == IInv /\ BInv /\ MessageConsumer => BInv'
  <1> SUFFICES ASSUME IInv, BInv, MessageConsumer PROVE BInv'
    OBVIOUS
  <1> PICK who : who = tree.msg[rd.k]
    OBVIOUS
  <1>0. PICK r \in IF consumer[who].start_callback THEN Verdicts ELSE {OKAY} :
          /\ IF consumer[who].start_callback THEN Call("start", who, 1, 0, r) ELSE UNCHANGED calls
          /\ rd' = [rd EXCEPT !.res = r, !.drops = Drops(r),
                          !.same_order = IF @ = <<>> THEN <<rd.k, rd.k>> ELSE <<@[1], rd.k>>,
                          !.phase = IF r = OKAY THEN "tlvs" ELSE "message_end", !.i = rd.k]
          /\ IF r = OKAY THEN Schedule(who, 1, 0) ELSE UNCHANGED <<sched, found>>
    BY DEF MessageConsumer
  <1>1. /\ rd.phase = "message" /\ rd.k <= Len(tree.msg)
        /\ OfMessage(who) /\ ~LaterOrder(who) /\ ~consumer[who].addrblock_consumer
        /\ msg' = msg /\ tree' = tree /\ done' = done /\ Place /\ IsSeq(calls)
    BY DEF MessageConsumer, IInv, CallsOk
  <1> PICK lo : lo = IF rd.same_order = <<>> THEN rd.k ELSE rd.same_order[1]
    OBVIOUS
  <1>2. /\ rd'.started = rd.started /\ rd'.ptr = rd.ptr /\ rd'.k = rd.k /\ rd'.i = rd.k
        /\ rd'.res = r /\ rd'.same_order = <<lo, rd.k>>
        /\ \/ /\ r # OKAY /\ rd'.phase = "message_end"
           \/ /\ r = OKAY /\ rd'.phase = "tlvs"
              /\ sched'.b = 1 /\ sched'.c = who /\ sched'.i = 0
    BY <1>0, <1>1, Scheduled DEF Place, Records
  <1>3. /\ InMessage /\ InMessage' /\ ~InAddress /\ ~InAddress' /\ ~InAddresses /\ ~InAddresses'
        /\ ~InBlock /\ (InBlock' => rd'.phase = "tlvs")
    BY <1>1, <1>2 DEF InMessage, InAddress, InAddresses, InBlock
  <1>4. /\ Len(tree.msg) \in Nat /\ rd.k \in 1 .. Len(tree.msg)
        /\ rd.same_order # <<>> =>
             /\ rd.same_order[1] \in 1 .. Len(tree.msg)
             /\ rd.same_order[2] \in rd.same_order[1] .. Len(tree.msg)
             /\ OrderAt(rd.same_order[1]) = OrderAt(rd.same_order[2])
             /\ rd.same_order[2] < rd.k
             /\ \A j \in rd.same_order[2] + 1 .. rd.k - 1 : ~Handles(tree.msg[j])
             /\ OrderAt(rd.k) = OrderAt(rd.same_order[2])
    BY <1>1, InLoop, NotLater
  <1>5. /\ \A j \in 1 .. Len(tree.msg) : tree.msg[j] \in Consumers
        /\ \A j, k \in 1 .. Len(tree.msg) : tree.msg[j] = tree.msg[k] => j = k
    BY MessagePlaces
  <1>6. /\ rd'.same_order # <<>> /\ rd'.same_order[1] = lo /\ rd'.same_order[2] = rd.k
        /\ lo \in 1 .. rd.k /\ OrderAt(lo) = OrderAt(rd.k)
    BY <1>2, <1>4
  <1>7. Handles(who) /\ \A x : Handles(x)' <=> Handles(x)
    BY <1>1 DEF Handles, OfMessage
  <1>8. Turn'
    <2>1. PacketTurn'
      BY <1>1, <1>2, <1>3 DEF BInv, Turn, PacketTurn
    <2>2. MessageTurn'
      <3>1. lo \in 1 .. Len(tree.msg) /\ rd.k \in lo .. Len(tree.msg) /\ rd.k \in lo .. rd.k
            /\ rd.k \in 1 .. Len(tree.msg) + 1
        BY <1>4, <1>6
      <3>2. QED
        BY <1>1, <1>2, <1>3, <1>6, <1>7, <3>1 DEF MessageTurn, OrderAt
    <2>3. AddressTurn'
      BY <1>3 DEF AddressTurn
    <2>4. QED
      BY <2>1, <2>2, <2>3 DEF Turn
  <1>9. Top' = rd.k
    BY <1>2, <1>6 DEF Top
  <1>10. ASSUME NEW y, IsContext(y), ~(y.b = 1 /\ y.at = rd.ptr /\ y.i = 0 /\ y.c = who)
         PROVE  Frame(y)
    <2>1. Within(y)' <=> Within(y)
      <3>1. CASE y.b = 1 /\ y.at = rd.ptr /\ y.i = 0 /\ Handles(y.c)
        <4>1. Within(y)' <=> \E j \in lo .. rd.k : y.c = tree.msg[j]
          BY <1>1, <1>2, <1>3, <1>6, <1>7, <1>9, <3>1 DEF Within
        <4>2. ASSUME NEW j \in lo .. rd.k, y.c = tree.msg[j]
              PROVE  rd.same_order # <<>> /\ j \in rd.same_order[1] .. rd.same_order[2]
          <5>1. j # rd.k
            BY <1>10, <3>1, <4>2
          <5>2. rd.same_order # <<>>
            BY <1>4, <4>2, <5>1
          <5>3. ~(j \in rd.same_order[2] + 1 .. rd.k - 1)
            BY <1>4, <3>1, <4>2, <5>2
          <5>4. QED
            BY <1>4, <4>2, <5>1, <5>2, <5>3
        <4>3. rd.same_order # <<>> => \A j \in rd.same_order[1] .. rd.same_order[2] : j \in lo .. rd.k
          BY <1>4
        <4>4. Within(y) <=> /\ rd.same_order # <<>>
                            /\ \E j \in rd.same_order[1] .. rd.same_order[2] : y.c = tree.msg[j]
          BY <1>1, <1>3, <3>1 DEF Within, Top
        <4>5. QED
          BY <4>1, <4>2, <4>3, <4>4
      <3>2. CASE ~(y.b = 1 /\ y.at = rd.ptr /\ y.i = 0 /\ Handles(y.c))
        BY <1>1, <1>2, <1>3, <1>7, <3>2 DEF Within
      <3>3. QED
        BY <3>1, <3>2
    <2>2. Ahead(y)' => Ahead(y)
      <3>1. CASE y.b = 0
        <4>1. ~(y.b > 0) /\ ~(y.b > 1)
          BY <3>1
        <4>2. QED
          BY <1>2, <1>3, <4>1 DEF Ahead
      <3>2. CASE y.b # 0
        <4>1. \A j \in rd.k + 1 .. Len(tree.msg) : j \in rd.k .. Len(tree.msg)
          BY <1>4
        <4>2. Ahead(y)' => y.b > 0 /\ y.at = rd.ptr /\ \E j \in rd.k .. Len(tree.msg) : y.c = tree.msg[j]
          BY <1>1, <1>2, <1>3, <3>2, <4>1 DEF Ahead, Going, From
        <4>3. QED
          BY <1>1, <1>3, <4>2 DEF Ahead, Going, From
      <3>3. QED
        BY <3>1, <3>2
    <2>3. QED
      BY <2>1, <2>2 DEF Frame
  <1>11. Trees'
    BY <1>1, TreesStay DEF BInv
  <1>12. CASE ~consumer[who].start_callback
    <2>1. calls' = calls /\ \A y : Brackets(y.c) => y.c # who
      BY <1>0, <1>12 DEF Brackets
    <2>2. QED
      BY <1>8, <1>10, <1>11, <2>1, QuietKeeps
  <1>13. CASE consumer[who].start_callback
    <2> PICK e : e = [at |-> rd.ptr, cb |-> "start", c |-> who, b |-> 1, i |-> 0, res |-> r]
      OBVIOUS
    <2>1. /\ e.at = rd.ptr /\ e.cb = "start" /\ e.c = who /\ e.b = 1 /\ e.i = 0
          /\ calls' = Append(calls, e)
      BY <1>0, <1>13 DEF Call
    <2>2. IsContext(e)
      BY <1>1, <1>4, <1>5, <2>1 DEF IsContext, Place
    <2>3. e.b # 0 /\ e.b > 0 /\ ~(e.b > 1)
      BY <2>1
    <2>4. Ahead(e)
      <3>1. rd.k \in rd.k .. Len(tree.msg)
        BY <1>4
      <3>2. QED
        BY <1>1, <1>3, <2>1, <2>3, <3>1 DEF Ahead, Going, From
    <2>5. Within(e)'
      <3>1. rd.k \in lo .. rd.k
        BY <1>4, <1>6
      <3>2. QED
        BY <1>1, <1>2, <1>3, <1>6, <1>7, <1>9, <2>1, <3>1 DEF Within
    <2>6. ~Ahead(e)'
      <3>1. \A j \in rd.k + 1 .. Len(tree.msg) : tree.msg[j] # who
        BY <1>4, <1>5
      <3>2. QED
        BY <1>1, <1>2, <2>1, <2>3, <3>1 DEF Ahead, Going, From
    <2>7. Moves(e)
      BY <2>1, <2>4, <2>5, <2>6 DEF Moves
    <2>8. InTurn(e)'
      BY <1>1, <1>3, <1>6, <2>1 DEF InTurn, OrderAt
    <2>9. ASSUME NEW y, Context(y) # Context(e)
          PROVE  ~(y.b = 1 /\ y.at = rd.ptr /\ y.i = 0 /\ y.c = who)
      BY <2>1, <2>9 DEF Context
    <2>10. QED
      BY <1>1, <1>8, <1>10, <1>11, <2>1, <2>2, <2>7, <2>8, <2>9, CallKeeps
  <1>14. QED
    BY <1>12, <1>13

\* end_callback of a message consumer.
LEMMA MessageEndKeeps == IInv /\ BInv /\ MessageEnd => BInv'
  <1> SUFFICES ASSUME IInv, BInv, MessageEnd PROVE BInv'
    OBVIOUS
  <1> USE Numbers
  <1> PICK who, i, lo, hi : who = tree.msg[rd.i] /\ i = rd.i /\ lo = rd.same_order[1] /\ hi = rd.same_order[2]
    OBVIOUS
  <1> DEFINE called == consumer[who].end_callback /\ ~consumer[who].addrblock_consumer /\ OfMessage(who)
  <1>0. PICK r \in IF called THEN Verdicts ELSE {OKAY} :
          /\ IF called THEN Call("end", who, 1, 0, r) ELSE UNCHANGED calls
          /\ rd' = [rd EXCEPT !.res = Worse(r, @), !.drops = Drops(r), !.i = @ - 1,
                          !.same_order = IF rd.i = rd.same_order[1] THEN <<>> ELSE @,
                          !.phase = IF rd.i > rd.same_order[1] THEN "message_end"
                                    ELSE IF Worse(r, rd.res) = OKAY THEN "message" ELSE "cleanup"]
    BY DEF MessageEnd
  <1>1. /\ rd.phase = "message_end" /\ msg' = msg /\ tree' = tree /\ done' = done /\ sched' = sched
        /\ Place /\ IsSeq(calls) /\ r \in OKAY .. DROP_PACKET /\ rd.res \in OKAY .. DROP_PACKET
    BY <1>0, VerdictRange DEF MessageEnd, IInv, CallsOk, Place
  <1>2. /\ rd'.started = rd.started /\ rd'.ptr = rd.ptr /\ rd'.k = rd.k /\ rd'.i = i - 1
        /\ rd'.res = Worse(r, rd.res)
        /\ rd'.same_order = (IF i = lo THEN <<>> ELSE rd.same_order)
        /\ rd'.phase = (IF i > lo THEN "message_end"
                        ELSE IF Worse(r, rd.res) = OKAY THEN "message" ELSE "cleanup")
    BY <1>0, <1>1 DEF Place, Records
  <1>3. /\ InMessage /\ InMessage' /\ ~InAddress /\ ~InAddress' /\ ~InAddresses /\ ~InAddresses'
        /\ ~InBlock /\ ~InBlock'
    BY <1>1, <1>2 DEF InMessage, InAddress, InAddresses, InBlock
  <1>4. /\ Len(tree.msg) \in Nat /\ rd.k \in 1 .. Len(tree.msg) + 1 /\ rd.same_order # <<>>
        /\ lo \in 1 .. Len(tree.msg) /\ hi \in lo .. Len(tree.msg) /\ i \in lo .. hi
        /\ OrderAt(lo) = OrderAt(hi)
        /\ rd.res = OKAY => hi < rd.k
        /\ \A j \in 1 .. Len(tree.msg) : tree.msg[j] \in Consumers
        /\ \A j, k \in 1 .. Len(tree.msg) : tree.msg[j] = tree.msg[k] => j = k
    <2>1. MessageTurn
      BY DEF BInv, Turn
    <2>2. QED
      BY <1>1, <1>3, <2>1, MessagePlaces DEF MessageTurn
  <1>5. Worse(r, rd.res) = OKAY => rd.res = OKAY
    BY <1>1, WorseIs
  <1>6. \A x : Handles(x)' <=> Handles(x)
    BY <1>1 DEF Handles, OfMessage
  <1>7. Turn'
    <2>1. PacketTurn'
      BY <1>1, <1>2, <1>3 DEF BInv, Turn, PacketTurn
    <2>2. MessageTurn'
      <3>1. CASE i = lo
        BY <1>1, <1>2, <1>3, <1>4, <3>1 DEF MessageTurn
      <3>2. CASE i # lo
        <4>1. i > lo /\ i - 1 \in lo .. hi
          BY <1>4, <3>2
        <4>2. rd'.phase = "message_end" /\ rd'.same_order = rd.same_order
          BY <1>2, <3>2, <4>1
        <4>3. QED
          BY <1>1, <1>2, <1>3, <1>4, <1>5, <4>1, <4>2 DEF MessageTurn, OrderAt
      <3>3. QED
        BY <3>1, <3>2
    <2>3. AddressTurn'
      BY <1>3 DEF AddressTurn
    <2>4. QED
      BY <2>1, <2>2, <2>3 DEF Turn
  <1>8. ASSUME NEW y
        PROVE  /\ Within(y) <=> \/ y.b = 0 /\ \E j \in 1 .. rd.started : y.c = tree.pkt[j]
                                \/ /\ y.b = 1 /\ y.at = rd.ptr /\ y.i = 0 /\ Handles(y.c)
                                   /\ \E j \in lo .. i : y.c = tree.msg[j]
               /\ Within(y)' <=> \/ y.b = 0 /\ \E j \in 1 .. rd.started : y.c = tree.pkt[j]
                                 \/ /\ y.b = 1 /\ y.at = rd.ptr /\ y.i = 0 /\ Handles(y.c)
                                    /\ \E j \in lo .. i - 1 : y.c = tree.msg[j]
    <2>1. Within(y) <=> \/ y.b = 0 /\ \E j \in 1 .. rd.started : y.c = tree.pkt[j]
                        \/ /\ y.b = 1 /\ y.at = rd.ptr /\ y.i = 0 /\ Handles(y.c)
                           /\ \E j \in lo .. i : y.c = tree.msg[j]
      BY <1>1, <1>3, <1>4 DEF Within, Top
    <2>2. CASE i = lo
      <3>1. ~ \E j \in lo .. i - 1 : y.c = tree.msg[j]
        BY <1>4, <2>2
      <3>2. rd'.same_order = <<>>
        BY <1>2, <2>2
      <3>3. QED
        BY <1>1, <1>2, <1>3, <2>1, <3>1, <3>2 DEF Within
    <2>3. CASE i # lo
      <3>1. i > lo
        BY <1>4, <2>3
      <3>2. rd'.same_order = rd.same_order /\ Top' = i - 1
        BY <1>2, <2>3, <3>1 DEF Top
      <3>3. QED
        BY <1>1, <1>2, <1>3, <1>4, <1>6, <2>1, <3>2 DEF Within
    <2>4. QED
      BY <2>2, <2>3
  <1>9. ASSUME NEW y PROVE Ahead(y)' => Ahead(y)
    <2>1. Going' => Going
      BY <1>1, <1>2, <1>3, <1>5 DEF Going
    <2>2. From = rd.k /\ (Going' => From' = rd.k)
      BY <1>1, <1>2 DEF From, Going
    <2>3. QED
      BY <1>1, <1>2, <1>3, <2>1, <2>2 DEF Ahead
  <1>10. ASSUME NEW y, IsContext(y), ~(y.b = 1 /\ y.at = rd.ptr /\ y.i = 0 /\ y.c = who /\ Handles(y.c))
         PROVE  Frame(y)
    <2>1. ASSUME y.b = 1, y.at = rd.ptr, y.i = 0, Handles(y.c)
          PROVE  (\E j \in lo .. i : y.c = tree.msg[j]) <=> (\E j \in lo .. i - 1 : y.c = tree.msg[j])
      <3>1. y.c # tree.msg[i]
        BY <1>10, <2>1
      <3>2. \A j \in lo .. i : j = i \/ j \in lo .. i - 1
        BY <1>4
      <3>3. \A j \in lo .. i - 1 : j \in lo .. i
        BY <1>4
      <3>4. QED
        BY <3>1, <3>2, <3>3
    <2>2. Within(y)' <=> Within(y)
      BY <1>8, <2>1
    <2>3. QED
      BY <1>9, <2>2 DEF Frame
  <1>11. Trees'
    BY <1>1, TreesStay DEF BInv
  <1>12. CASE ~called
    <2>1. calls' = calls
      BY <1>0, <1>12
    <2>2. ASSUME NEW y, Brackets(y.c) PROVE ~(y.c = who /\ Handles(y.c))
      BY <1>12, <2>2 DEF Brackets, Handles
    <2>3. QED
      BY <1>7, <1>10, <1>11, <2>1, <2>2, QuietKeeps
  <1>13. CASE called
    <2> PICK e : e = [at |-> rd.ptr, cb |-> "end", c |-> who, b |-> 1, i |-> 0, res |-> r]
      OBVIOUS
    <2>1. /\ e.at = rd.ptr /\ e.cb = "end" /\ e.c = who /\ e.b = 1 /\ e.i = 0
          /\ calls' = Append(calls, e) /\ Handles(who)
      BY <1>0, <1>13 DEF Call, Handles
    <2>2. IsContext(e)
      <3>1. i \in 1 .. Len(tree.msg)
        BY <1>4
      <3>2. QED
        BY <1>1, <1>4, <2>1, <3>1 DEF IsContext, Place
    <2>3. Within(e)
      <3>1. i \in lo .. i
        BY <1>4
      <3>2. QED
        BY <1>8, <2>1, <3>1
    <2>4. ~Within(e)'
      <3>1. \A j \in lo .. i - 1 : tree.msg[j] # who
        <4>1. \A j \in lo .. i - 1 : j \in 1 .. Len(tree.msg) /\ i \in 1 .. Len(tree.msg) /\ j # i
          BY <1>4, SMTT(30)
        <4>2. QED
          BY <1>4, <4>1
      <3>2. QED
        BY <1>8, <2>1, <3>1
    <2>5. ~Ahead(e)'
      <3>1. Going' => rd.res = OKAY /\ From' = rd.k
        BY <1>1, <1>2, <1>3, <1>5 DEF Going, From
      <3>2. rd.res = OKAY => \A j \in rd.k .. Len(tree.msg) : tree.msg[j] # who
        <4>1. rd.res = OKAY => \A j \in rd.k .. Len(tree.msg) :
                                  j \in 1 .. Len(tree.msg) /\ i \in 1 .. Len(tree.msg) /\ j # i
          BY <1>4
        <4>2. QED
          BY <1>4, <4>1
      <3>3. e.b # 0
        BY <2>1
      <3>4. QED
        BY <1>1, <1>2, <1>3, <2>1, <3>1, <3>2, <3>3 DEF Ahead
    <2>6. Moves(e)
      BY <2>1, <2>3, <2>4, <2>5 DEF Moves
    <2>7. InTurn(e)'
      <3>1. OrderAt(i) = OrderAt(hi)
        BY <1>4, SameOrder DEF BInv, Trees
      <3>2. rd'.same_order # <<>> => rd'.same_order[2] = hi
        BY <1>2
      <3>3. QED
        BY <1>1, <1>3, <2>1, <3>1, <3>2 DEF InTurn, OrderAt
    <2>8. ASSUME NEW y, Context(y) # Context(e)
          PROVE  ~(y.b = 1 /\ y.at = rd.ptr /\ y.i = 0 /\ y.c = who /\ Handles(y.c))
      BY <2>1, <2>8 DEF Context
    <2>9. QED
      BY <1>1, <1>7, <1>10, <1>11, <2>1, <2>2, <2>6, <2>7, <2>8, CallKeeps
  <1>14. QED
    BY <1>12, <1>13

\* What is known of the place among the addresses of a message.
LEMMA AmongAddresses ==
    ASSUME IInv, BInv, InAddresses
    PROVE  /\ InMessage /\ rd.k \in 1 .. Len(tree.msg) /\ rd.i \in Nat /\ rd.b \in Nat /\ rd.b > 0
           /\ rd.ptr \in Nat /\ OfMessage(tree.msg[rd.k])
           /\ consumer[tree.msg[rd.k]].addrblock_consumer
           /\ rd.same_order # <<>> => OrderAt(rd.k) = OrderAt(rd.same_order[2])
  <1>1. /\ InMessage /\ Len(tree.msg) \in Nat /\ rd.k \in 1 .. Len(tree.msg) + 1 /\ rd.ptr \in Nat
    BY InLoop
  <1>2. rd.b \in Nat /\ rd.b > 0
    BY DEF IInv, Place, InAddresses
  <1>3. /\ rd.k <= Len(tree.msg) /\ OfMessage(tree.msg[rd.k])
        /\ consumer[tree.msg[rd.k]].addrblock_consumer /\ rd.i \in Nat
        /\ rd.same_order # <<>> => OrderAt(rd.k) = OrderAt(rd.same_order[2])
    BY DEF BInv, Turn, AddressTurn
  <1>4. QED
    BY <1>1, <1>2, <1>3

\* Going on to the next address, or to an address that is shown, brings nothing
\* back: what may still come might have come before.
LEMMA AddressesGoOn ==
    ASSUME IInv, BInv, InAddresses, InAddresses', tree' = tree, msg' = msg, rd'.ptr = rd.ptr,
           rd'.k = rd.k, rd'.same_order = rd.same_order, rd'.started = rd.started,
           InBlock' => sched'.b # 0, rd'.phase # "packet",
           \/ rd'.b = rd.b /\ rd'.i = rd.i /\ rd.phase = "address" /\ rd'.phase # "address"
           \/ rd'.b = rd.b /\ rd'.i = rd.i + 1
           \/ rd'.b = rd.b + 1 /\ rd'.i = 0,
           NEW y, IsContext(y)
    PROVE  Ahead(y)' => Ahead(y)
  <1>1. /\ InMessage /\ rd.k \in 1 .. Len(tree.msg) /\ rd.i \in Nat /\ rd.b \in Nat
    BY AmongAddresses
  <1>2. /\ rd.phase \notin {"message", "message_end", "cleanup"}
        /\ rd'.phase \notin {"message", "message_end", "cleanup"}
    BY DEF InAddresses, InAddress
  <1>3. CASE y.b = 0
    <2>1. ~(y.b > 0) /\ ~(y.b > 1)
      BY <1>3
    <2>2. QED
      BY <2>1 DEF Ahead
  <1>4. CASE y.b # 0
    <2>1. From = rd.k + 1 /\ From' = rd.k + 1 /\ Going
      BY <1>1, <1>2 DEF From, Going
    <2>2. Ahead(y)' => \/ /\ y.b > 0 /\ y.at = rd.ptr
                          /\ \E j \in rd.k + 1 .. Len(tree.msg) : y.c = tree.msg[j]
                       \/ /\ y.b > 1 /\ y.at = rd.ptr /\ y.c = tree.msg[rd.k]
                          /\ \/ Later(y, rd'.b, rd'.i)
                             \/ rd'.phase = "address" /\ y.b - 1 = rd'.b /\ y.i = rd'.i
      BY <1>4, <2>1 DEF Ahead, Later
    <2>3. ASSUME y.b > 1,
                 Later(y, rd'.b, rd'.i) \/ (rd'.phase = "address" /\ y.b - 1 = rd'.b /\ y.i = rd'.i)
          PROVE  Later(y, rd.b, rd.i) \/ (rd.phase = "address" /\ y.b - 1 = rd.b /\ y.i = rd.i)
      BY <1>1, <2>3 DEF Later, IsContext
    <2>4. ASSUME y.b > 0, y.at = rd.ptr, \E j \in rd.k + 1 .. Len(tree.msg) : y.c = tree.msg[j]
          PROVE  Ahead(y)
      BY <2>1, <2>4 DEF Ahead
    <2>5. ASSUME y.b > 1, y.at = rd.ptr, y.c = tree.msg[rd.k],
                 Later(y, rd.b, rd.i) \/ (rd.phase = "address" /\ y.b - 1 = rd.b /\ y.i = rd.i)
          PROVE  Ahead(y)
      BY <2>5 DEF Ahead
    <2>6. ASSUME Ahead(y)' PROVE Ahead(y)
      <3>1. CASE y.b > 0 /\ y.at = rd.ptr /\ \E j \in rd.k + 1 .. Len(tree.msg) : y.c = tree.msg[j]
        BY <2>4, <3>1
      <3>2. CASE /\ y.b > 1 /\ y.at = rd.ptr /\ y.c = tree.msg[rd.k]
                 /\ \/ Later(y, rd'.b, rd'.i)
                    \/ rd'.phase = "address" /\ y.b - 1 = rd'.b /\ y.i = rd'.i
        <4>1. Later(y, rd.b, rd.i) \/ (rd.phase = "address" /\ y.b - 1 = rd.b /\ y.i = rd.i)
          BY <2>3, <3>2
        <4>2. QED
          BY <2>5, <3>2, <4>1
      <3>3. QED
        BY <2>2, <2>6, <3>1, <3>2
    <2>7. QED
      BY <2>6
  <1>5. QED
    BY <1>3, <1>4

\* start_callback for an address that nobody has dropped.
LEMMA StartAddressKeeps == IInv /\ BInv /\ StartAddress => BInv'
  <1> SUFFICES ASSUME IInv, BInv, StartAddress PROVE BInv'
    OBVIOUS
  <1> PICK who : who = tree.msg[rd.k]
    OBVIOUS
  <1>1. /\ rd.phase = "address" /\ msg' = msg /\ tree' = tree /\ done' = done
        /\ Place /\ Records /\ IsSeq(calls)
    BY DEF StartAddress, IInv, CallsOk, Place
  <1>2. InMessage /\ InAddresses /\ ~InAddress /\ ~InBlock
    BY <1>1 DEF InMessage, InAddresses, InAddress, InBlock
  <1>3. /\ rd.k \in 1 .. Len(tree.msg) /\ rd.i \in Nat /\ rd.b \in Nat /\ rd.b > 0
        /\ rd.ptr \in Nat /\ OfMessage(who) /\ consumer[who].addrblock_consumer
        /\ rd.same_order # <<>> => OrderAt(rd.k) = OrderAt(rd.same_order[2])
    BY <1>2, AmongAddresses
  <1>4. /\ Len(tree.msg) \in Nat
        /\ \A j \in 1 .. Len(tree.msg) : tree.msg[j] \in Consumers
        /\ \A j, k \in 1 .. Len(tree.msg) : tree.msg[j] = tree.msg[k] => j = k
    BY MessagePlaces
  <1>5. Trees'
    BY <1>1, TreesStay DEF BInv
  <1>6. ASSUME rd'.phase \in {"address", "tlvs", "address_end"}, rd'.phase = "tlvs" => sched'.b > 1,
               rd'.ptr = rd.ptr, rd'.k = rd.k, rd'.same_order = rd.same_order, rd'.started = rd.started,
               rd'.b = rd.b \/ rd'.b = rd.b + 1, rd'.i \in Nat,
               sched'.b \in Nat
        PROVE  /\ Turn' /\ InAddresses' /\ InMessage' /\ (InBlock' => sched'.b # 0)
               /\ (InAddress' <=> rd'.phase # "address")
    <2>1. /\ InAddresses' /\ InMessage' /\ (InBlock' => sched'.b # 0 /\ sched'.b # 1)
          /\ (InAddress' <=> rd'.phase # "address")
      BY <1>6 DEF InAddresses, InAddress, InMessage, InBlock
    <2>2. PacketTurn'
      BY <1>1, <1>6, <2>1 DEF BInv, Turn, PacketTurn
    <2>3. MessageTurn'
      <3>1. /\ rd.k \in 1 .. Len(tree.msg) + 1
            /\ rd.same_order # <<>> =>
                 /\ rd.same_order[1] \in 1 .. Len(tree.msg)
                 /\ rd.same_order[2] \in rd.same_order[1] .. Len(tree.msg)
                 /\ OrderAt(rd.same_order[1]) = OrderAt(rd.same_order[2])
                 /\ rd.same_order[2] < rd.k
                 /\ \A j \in rd.same_order[2] + 1 .. rd.k - 1 : ~Handles(tree.msg[j])
        BY <1>2, InLoop
      <3>2. rd'.phase \notin {"message_end", "cleanup"}
        BY <1>6
      <3>3. QED
        BY <1>1, <1>6, <2>1, <3>1, <3>2 DEF MessageTurn, OrderAt, Handles, OfMessage
    <2>4. AddressTurn'
      <3>1. rd.k <= Len(tree.msg)
        BY <1>3, <1>4
      <3>2. QED
        BY <1>1, <1>3, <1>6, <3>1 DEF AddressTurn, OrderAt, OfMessage
    <2>5. QED
      BY <2>1, <2>2, <2>3, <2>4 DEF Turn
  <1>7. CASE <<rd.b, rd.i>> \in dropped.addr
    <2>1. rd' = NextAddress(rd) /\ calls' = calls /\ sched' = sched
      BY <1>7 DEF StartAddress
    <2>2. /\ rd'.phase = "address" /\ rd'.ptr = rd.ptr /\ rd'.k = rd.k
          /\ rd'.same_order = rd.same_order /\ rd'.started = rd.started
          /\ \/ rd'.b = rd.b /\ rd'.i = rd.i + 1
             \/ rd'.b = rd.b + 1 /\ rd'.i = 0
      BY <1>1, <2>1 DEF NextAddress, Records
    <2>3. rd'.i \in Nat /\ (rd'.b = rd.b \/ rd'.b = rd.b + 1)
      BY <1>3, <2>2
    <2>4. sched'.b \in Nat
      BY <1>1, <2>1 DEF Place
    <2>5. /\ Turn' /\ InAddresses' /\ InMessage' /\ (InBlock' => sched'.b # 0)
          /\ (InAddress' <=> rd'.phase # "address")
      BY <1>6, <2>2, <2>3, <2>4
    <2>6. ASSUME NEW y, IsContext(y) PROVE Frame(y)
      <3>1. Ahead(y)' => Ahead(y)
        BY <1>1, <1>2, <2>2, <2>5, <2>6, AddressesGoOn
      <3>2. Within(y)' <=> Within(y)
        BY <1>1, <1>2, <2>2, <2>5 DEF Within, Handles, OfMessage, Top
      <3>3. QED
        BY <3>1, <3>2 DEF Frame
    <2>7. QED
      BY <1>5, <2>1, <2>5, <2>6, QuietKeeps
  <1>8. CASE ~(<<rd.b, rd.i>> \in dropped.addr)
    <2>0. PICK r \in IF consumer[who].start_callback THEN Verdicts ELSE {OKAY} :
            /\ IF consumer[who].start_callback THEN Call("start", who, rd.b + 1, rd.i, r)
               ELSE UNCHANGED calls
            /\ rd' = [rd EXCEPT !.res = r, !.drops = Drops(r),
                               !.phase = IF r = OKAY THEN "tlvs" ELSE "address_end"]
            /\ IF r = OKAY THEN Schedule(who, rd.b + 1, rd.i) ELSE UNCHANGED <<sched, found>>
      BY <1>8 DEF StartAddress
    <2>1. /\ rd'.phase \in {"tlvs", "address_end"} /\ rd'.ptr = rd.ptr /\ rd'.k = rd.k /\ rd'.b = rd.b
          /\ rd'.i = rd.i /\ rd'.same_order = rd.same_order /\ rd'.started = rd.started
          /\ rd'.phase = "tlvs" => sched'.b = rd.b + 1
          /\ sched'.b = rd.b + 1 \/ sched'.b = sched.b
      BY <1>1, <2>0, Scheduled DEF Records
    <2>2. sched'.b \in Nat /\ (rd'.phase = "tlvs" => sched'.b > 1)
      BY <1>1, <1>3, <2>1 DEF Place
    <2>3. /\ Turn' /\ InAddresses' /\ InMessage' /\ (InBlock' => sched'.b # 0)
          /\ InAddress'
      BY <1>3, <1>6, <2>1, <2>2
    <2>4. ASSUME NEW y, IsContext(y) PROVE Ahead(y)' => Ahead(y)
      <3>1. /\ rd'.b = rd.b /\ rd'.i = rd.i /\ rd.phase = "address" /\ rd'.phase # "address"
            /\ rd'.phase # "packet"
        BY <1>1, <2>1
      <3>2. QED
        BY <1>1, <1>2, <2>1, <2>3, <2>4, <3>1, AddressesGoOn
    <2>5. ASSUME NEW y, IsContext(y), ~(y.b = rd.b + 1 /\ y.at = rd.ptr /\ y.i = rd.i /\ y.c = who)
          PROVE  Frame(y)
      <3>1. Within(y)' <=> Within(y)
        BY <1>1, <1>2, <2>1, <2>3, <2>5 DEF Within, Handles, OfMessage, Top
      <3>2. QED
        BY <2>4, <2>5, <3>1 DEF Frame
    <2>6. CASE ~consumer[who].start_callback
      <3>1. calls' = calls /\ \A y : Brackets(y.c) => y.c # who
        BY <2>0, <2>6 DEF Brackets
      <3>2. QED
        BY <1>5, <2>3, <2>5, <3>1, QuietKeeps
    <2>7. CASE consumer[who].start_callback
      <3> PICK e : e = [at |-> rd.ptr, cb |-> "start", c |-> who, b |-> rd.b + 1, i |-> rd.i, res |-> r]
        OBVIOUS
      <3>1. /\ e.at = rd.ptr /\ e.cb = "start" /\ e.c = who /\ e.b = rd.b + 1 /\ e.i = rd.i
            /\ calls' = Append(calls, e)
        BY <2>0, <2>7 DEF Call
      <3>2. IsContext(e) /\ e.b > 1 /\ e.b # 0 /\ e.b - 1 = rd.b
        BY <1>3, <1>4, <3>1 DEF IsContext
      <3>3. Ahead(e)
        BY <1>1, <1>2, <3>1, <3>2 DEF Ahead
      <3>4. Within(e)'
        BY <1>1, <2>1, <2>3, <3>1, <3>2 DEF Within
      <3>5. ~Ahead(e)'
        <4>1. \A j \in rd.k + 1 .. Len(tree.msg) : tree.msg[j] # who
          BY <1>3, <1>4
        <4>2. From' = rd.k + 1
          BY <2>1 DEF From
        <4>3. ~Later(e, rd.b, rd.i)
          BY <1>3, <3>1 DEF Later
        <4>4. ~Later(e, rd.b, rd.i)'
          BY <2>1, <4>3 DEF Later
        <4>5. QED
          BY <1>1, <2>1, <3>1, <3>2, <4>1, <4>2, <4>4 DEF Ahead, Later
      <3>6. Moves(e)
        BY <3>1, <3>3, <3>4, <3>5 DEF Moves
      <3>7. InTurn(e)'
        BY <1>1, <1>3, <2>1, <3>1 DEF InTurn, OrderAt
      <3>8. ASSUME NEW y, Context(y) # Context(e)
            PROVE  ~(y.b = rd.b + 1 /\ y.at = rd.ptr /\ y.i = rd.i /\ y.c = who)
        BY <3>1, <3>8 DEF Context
      <3>9. QED
        BY <1>1, <1>5, <2>3, <2>5, <3>1, <3>2, <3>6, <3>7, <3>8, CallKeeps
    <2>8. QED
      BY <2>6, <2>7
  <1>9. QED
    BY <1>7, <1>8

\* end_callback for an address.
LEMMA EndAddressKeeps == IInv /\ BInv /\ EndAddress => BInv'
  <1> SUFFICES ASSUME IInv, BInv, EndAddress PROVE BInv'
    OBVIOUS
  <1> PICK who : who = tree.msg[rd.k]
    OBVIOUS
  <1>0. PICK r \in IF consumer[who].end_callback THEN Verdicts ELSE {OKAY} :
          /\ IF consumer[who].end_callback THEN Call("end", who, rd.b + 1, rd.i, r) ELSE UNCHANGED calls
          /\ rd' = IF Worse(r, rd.res) \in {OKAY, DROP_ADDRESS}
                   THEN NextAddress([rd EXCEPT !.drops = Drops(r), !.res = OKAY])
                   ELSE [[rd EXCEPT !.drops = Drops(r), !.res = OKAY]
                           EXCEPT !.res = Worse(r, rd.res),
                                  !.phase = IF rd.same_order = <<>> THEN "cleanup"
                                            ELSE "message_end",
                                  !.i = IF rd.same_order = <<>> THEN 0 ELSE rd.same_order[2]]
    BY DEF EndAddress
  <1>1. /\ InAddress /\ msg' = msg /\ tree' = tree /\ done' = done /\ sched' = sched
        /\ Place /\ Records /\ IsSeq(calls)
    BY DEF EndAddress, IInv, CallsOk, Place, InAddress
  <1>2. InMessage /\ InAddresses /\ rd.phase \notin {"message", "message_end", "cleanup", "address"}
    BY <1>1 DEF InMessage, InAddresses, InAddress, Place
  <1>3. /\ rd.k \in 1 .. Len(tree.msg) /\ rd.i \in Nat /\ rd.b \in Nat /\ rd.b > 0
        /\ rd.ptr \in Nat /\ OfMessage(who) /\ consumer[who].addrblock_consumer
        /\ rd.same_order # <<>> => OrderAt(rd.k) = OrderAt(rd.same_order[2])
    BY <1>2, AmongAddresses
  <1>4. /\ Len(tree.msg) \in Nat
        /\ \A j \in 1 .. Len(tree.msg) : tree.msg[j] \in Consumers
        /\ \A j, k \in 1 .. Len(tree.msg) : tree.msg[j] = tree.msg[k] => j = k
    BY MessagePlaces
  <1>5. /\ rd.k \in 1 .. Len(tree.msg) + 1
        /\ rd.same_order # <<>> =>
             /\ rd.same_order[1] \in 1 .. Len(tree.msg)
             /\ rd.same_order[2] \in rd.same_order[1] .. Len(tree.msg)
             /\ OrderAt(rd.same_order[1]) = OrderAt(rd.same_order[2])
             /\ rd.same_order[2] < rd.k
             /\ \A j \in rd.same_order[2] + 1 .. rd.k - 1 : ~Handles(tree.msg[j])
    BY <1>2, InLoop
  <1>6. /\ rd'.ptr = rd.ptr /\ rd'.k = rd.k /\ rd'.same_order = rd.same_order /\ rd'.started = rd.started
        /\ \/ /\ rd'.phase = "address"
              /\ \/ rd'.b = rd.b /\ rd'.i = rd.i + 1
                 \/ rd'.b = rd.b + 1 /\ rd'.i = 0
           \/ rd'.phase = "cleanup" /\ rd.same_order = <<>> /\ rd'.res # OKAY
           \/ /\ rd'.phase = "message_end" /\ rd.same_order # <<>> /\ rd'.res # OKAY
              /\ rd'.i = rd.same_order[2]
    <2> PICK rest : rest = [rd EXCEPT !.drops = Drops(r), !.res = OKAY]
      OBVIOUS
    <2>1. /\ rest.ptr = rd.ptr /\ rest.k = rd.k /\ rest.same_order = rd.same_order
          /\ rest.started = rd.started /\ rest.b = rd.b /\ rest.i = rd.i
          /\ rest = [phase |-> rest.phase, buf |-> rest.buf, ptr |-> rest.ptr, has_tlv |-> rest.has_tlv,
                     started |-> rest.started, result |-> rest.result, k |-> rest.k, b |-> rest.b,
                     i |-> rest.i, same_order |-> rest.same_order, res |-> rest.res,
                     do_not_forward |-> rest.do_not_forward, drops |-> rest.drops]
      BY <1>1 DEF Records
    <2>2. CASE Worse(r, rd.res) \in {OKAY, DROP_ADDRESS}
      <3>1. rd' = NextAddress(rest)
        BY <1>0, <2>2
      <3>2. QED
        BY <2>1, <3>1 DEF NextAddress
    <2>3. CASE ~(Worse(r, rd.res) \in {OKAY, DROP_ADDRESS})
      <3>1. rd' = [rest EXCEPT !.res = Worse(r, rd.res),
                               !.phase = IF rd.same_order = <<>> THEN "cleanup" ELSE "message_end",
                               !.i = IF rd.same_order = <<>> THEN 0 ELSE rd.same_order[2]]
        BY <1>0, <2>3
      <3>2. QED
        BY <2>1, <2>3, <3>1
    <2>4. QED
      BY <2>2, <2>3
  <1>7. /\ InMessage' /\ ~InAddress' /\ ~InBlock' /\ (InAddresses' <=> rd'.phase = "address")
    BY <1>6 DEF InMessage, InAddresses, InAddress, InBlock
  <1>8. Turn'
    <2>1. PacketTurn'
      BY <1>1, <1>6, <1>7 DEF BInv, Turn, PacketTurn
    <2>2. MessageTurn'
      <3>1. rd.same_order # <<>> => rd.same_order[2] \in rd.same_order[1] .. rd.same_order[2]
        BY <1>4, <1>5
      <3>2. QED
        BY <1>1, <1>5, <1>6, <1>7, <3>1 DEF MessageTurn, OrderAt, Handles, OfMessage
    <2>3. AddressTurn'
      <3>1. rd.k <= Len(tree.msg)
        BY <1>3, <1>4
      <3>2. rd'.phase = "address" => rd'.i \in Nat
        BY <1>3, <1>6
      <3>3. QED
        BY <1>1, <1>3, <1>6, <1>7, <3>1, <3>2 DEF AddressTurn, OrderAt, OfMessage
    <2>4. QED
      BY <2>1, <2>2, <2>3 DEF Turn
  <1>9. ASSUME NEW y, IsContext(y) PROVE Ahead(y)' => Ahead(y)
    <2>1. CASE rd'.phase = "address"
      <3>1. /\ InAddresses' /\ rd'.phase # "packet" /\ (InBlock' => sched'.b # 0)
            /\ \/ rd'.b = rd.b /\ rd'.i = rd.i + 1
               \/ rd'.b = rd.b + 1 /\ rd'.i = 0
        BY <1>6, <1>7, <2>1
      <3>2. QED
        BY <1>1, <1>2, <1>6, <1>9, <3>1, AddressesGoOn
    <2>2. CASE rd'.phase # "address"
      BY <1>6, <1>7, <2>2 DEF Ahead, Going
    <2>3. QED
      BY <2>1, <2>2
  <1>10. ASSUME NEW y, IsContext(y), ~(y.b = rd.b + 1 /\ y.at = rd.ptr /\ y.i = rd.i /\ y.c = who)
         PROVE  Frame(y)
    <2>1. rd.same_order # <<>> => Top' = Top
      BY <1>2, <1>6 DEF Top
    <2>2. Within(y)' <=> Within(y)
      BY <1>1, <1>2, <1>6, <1>7, <1>10, <2>1 DEF Within, Handles, OfMessage
    <2>3. QED
      BY <1>9, <1>10, <2>2 DEF Frame
  <1>11. Trees'
    BY <1>1, TreesStay DEF BInv
  <1>12. CASE ~consumer[who].end_callback
    <2>1. calls' = calls /\ \A y : Brackets(y.c) => y.c # who
      BY <1>0, <1>12 DEF Brackets
    <2>2. QED
      BY <1>8, <1>10, <1>11, <2>1, QuietKeeps
  <1>13. CASE consumer[who].end_callback
    <2> PICK e : e = [at |-> rd.ptr, cb |-> "end", c |-> who, b |-> rd.b + 1, i |-> rd.i, res |-> r]
      OBVIOUS
    <2>1. /\ e.at = rd.ptr /\ e.cb = "end" /\ e.c = who /\ e.b = rd.b + 1 /\ e.i = rd.i
          /\ calls' = Append(calls, e)
      BY <1>0, <1>13 DEF Call
    <2>2. IsContext(e) /\ e.b > 1 /\ e.b # 0 /\ e.b # 1 /\ e.b - 1 = rd.b
      BY <1>3, <1>4, <2>1 DEF IsContext
    <2>3. Within(e)
      BY <1>1, <2>1, <2>2 DEF Within
    <2>4. ~Within(e)'
      BY <1>7, <2>2 DEF Within
    <2>5. ~Ahead(e)'
      <3>1. CASE rd'.phase = "address"
        <4>1. \A j \in rd.k + 1 .. Len(tree.msg) : tree.msg[j] # who
          BY <1>3, <1>4
        <4>2. From' = rd.k + 1
          BY <1>6, <3>1 DEF From
        <4>3. ~(e.b - 1 > rd'.b) /\ ~(e.b - 1 = rd'.b /\ e.i > rd'.i) /\ ~(e.b - 1 = rd'.b /\ e.i = rd'.i)
          BY <1>3, <1>6, <2>1, <2>2, <3>1
        <4>4. QED
          BY <1>1, <1>6, <1>7, <2>1, <2>2, <4>1, <4>2, <4>3 DEF Ahead, Later
      <3>2. CASE rd'.phase # "address"
        BY <1>6, <1>7, <2>2, <3>2 DEF Ahead, Going
      <3>3. QED
        BY <3>1, <3>2
    <2>6. Moves(e)
      BY <2>1, <2>3, <2>4, <2>5 DEF Moves
    <2>7. InTurn(e)'
      BY <1>1, <1>3, <1>6, <1>7, <2>1 DEF InTurn, OrderAt
    <2>8. ASSUME NEW y, Context(y) # Context(e)
          PROVE  ~(y.b = rd.b + 1 /\ y.at = rd.ptr /\ y.i = rd.i /\ y.c = who)
      BY <2>1, <2>8 DEF Context
    <2>9. QED
      BY <1>1, <1>8, <1>10, <1>11, <2>1, <2>2, <2>6, <2>7, <2>8, CallKeeps
  <1>14. QED
    BY <1>12, <1>13

-----------------------------------------------------------------------------
\* Registrations.

\* Who is in a tree stays there unless it is removed from it.
LEMMA KeptOn ==
    ASSUME NEW x, NEW w, Kept(x, w), done \in Nat, done' = done + 1,
           ~(~Registrations[done + 1].add /\ Registrations[done + 1].c = x /\ Registrations[done + 1].where = w)
    PROVE  Kept(x, w)'
  <1>1. PICK m \in 1 .. done :
          /\ Registrations[m].add /\ Registrations[m].c = x /\ Registrations[m].where = w
          /\ \A l \in m + 1 .. done : ~ /\ ~Registrations[l].add
                                        /\ Registrations[l].c = x
                                        /\ Registrations[l].where = w
    BY DEF Kept
  <1>2. m \in 1 .. done + 1
    OBVIOUS
  <1>3. ASSUME NEW l \in m + 1 .. done + 1
        PROVE  ~ /\ ~Registrations[l].add
                 /\ Registrations[l].c = x
                 /\ Registrations[l].where = w
    <2>1. CASE l = done + 1
      BY <2>1
    <2>2. CASE l # done + 1
      <3>1. l \in m + 1 .. done
        BY <2>2
      <3>2. QED
        BY <1>1, <3>1
    <2>3. QED
      BY <2>1, <2>2
  <1>4. QED
    BY <1>1, <1>2, <1>3 DEF Kept

\* The consumer that is added is in neither tree, as it has one node for both: at
\* least it is not in the one it is added to.
LEMMA NotYetThere ==
    ASSUME NEW n \in DOMAIN Registrations, done = n - 1, Registrations[n].add,
           NEW w, w = Registrations[n].where, TreeOk(w), NEW j \in DOMAIN tree[w]
    PROVE  tree[w][j] # Registrations[n].c
  <1> SUFFICES ASSUME tree[w][j] = Registrations[n].c PROVE FALSE
    OBVIOUS
  <1>1. Kept(tree[w][j], w)
    BY DEF TreeOk
  <1>2. PICK m \in 1 .. done :
          /\ Registrations[m].add /\ Registrations[m].c = tree[w][j] /\ Registrations[m].where = w
          /\ \A l \in m + 1 .. done : ~ /\ ~Registrations[l].add
                                        /\ Registrations[l].c = tree[w][j]
                                        /\ Registrations[l].where = w
    BY <1>1 DEF Kept
  <1>3. DOMAIN Registrations = 1 .. Len(Registrations) /\ Len(Registrations) \in Nat
    BY RegistrationsAssumption
  <1>4. m \in DOMAIN Registrations /\ m < n
    BY <1>3
  <1>5. PICK l \in m + 1 .. n - 1 : /\ ~Registrations[l].add
                                    /\ Registrations[l].c = Registrations[m].c
                                    /\ Registrations[l].where = Registrations[m].where
    BY <1>2, <1>4, RegistrationsAssumption
  <1>6. QED
    BY <1>2, <1>5

\* The trees stay in order.
LEMMA RegisterTrees ==
    ASSUME Trees, Register
    PROVE  Trees'
  <1> PICK n, who, w : n = done + 1 /\ who = Registrations[n].c /\ w = Registrations[n].where
    OBVIOUS
  <1>1. /\ done \in 0 .. Len(Registrations) /\ done < Len(Registrations) /\ done' = n
        /\ tree = [pkt |-> tree.pkt, msg |-> tree.msg]
        /\ TreeOk("pkt") /\ TreeOk("msg")
    BY DEF Register, Trees
  <1>2. Len(Registrations) \in Nat /\ DOMAIN Registrations = 1 .. Len(Registrations)
    BY RegistrationsAssumption
  <1>3. /\ n \in DOMAIN Registrations /\ done \in Nat /\ n \in 0 .. Len(Registrations) /\ done = n - 1
    BY <1>1, <1>2
  <1>4. who \in Consumers /\ w \in {"pkt", "msg"} /\ TreeOk(w)
    <2> PICK S : S = [add : BOOLEAN, c : Consumers, where : {"pkt", "msg"}, entries : Seq(Entries)]
      OBVIOUS
    <2>1. Registrations \in Seq(S)
      BY RegistrationsAssumption
    <2>2. Registrations[n] \in S
      BY <1>2, <1>3, <2>1, ElementOfSeq
    <2>3. who \in Consumers /\ w \in {"pkt", "msg"}
      BY <2>2
    <2>4. QED
      BY <1>1, <2>3
  <1>5. \/ /\ Registrations[n].add
           /\ tree' = [tree EXCEPT ![w] = InsertByKey(@, ConsumerKey, who)]
        \/ /\ ~Registrations[n].add
           /\ tree' = IF who \notin ToSet(tree[w]) THEN tree
                      ELSE [tree EXCEPT ![w] =
                              RemoveAt(@, CHOOSE k \in DOMAIN tree[w] : tree[w][k] = who)]
    BY DEF Register, AddConsumer, RemoveConsumer
  <1>6. InOrder(tree[w], Consumers, ConsumerKey) /\ \A j \in DOMAIN tree[w] : Kept(tree[w][j], w)
    BY <1>4 DEF TreeOk, InOrder
  <1>7. ASSUME NEW v \in {"pkt", "msg"}, InOrder(tree'[v], Consumers, ConsumerKey),
               \A j \in DOMAIN tree'[v] : \A x : x = tree'[v][j] =>
                  \/ Kept(x, v)'
                  \/ \E k \in DOMAIN tree[v] :
                        x = tree[v][k]
                        /\ ~(~Registrations[n].add /\ Registrations[n].c = tree[v][k]
                             /\ Registrations[n].where = v)
        PROVE  TreeOk(v)'
    <2>1. TreeOk(v)
      BY <1>1
    <2>2. ASSUME NEW j \in DOMAIN tree'[v], NEW x, x = tree'[v][j] PROVE Kept(x, v)'
      <3>1. CASE Kept(x, v)'
        BY <3>1
      <3>2. CASE \E k \in DOMAIN tree[v] :
                    x = tree[v][k]
                    /\ ~(~Registrations[n].add /\ Registrations[n].c = tree[v][k]
                         /\ Registrations[n].where = v)
        <4>1. Kept(x, v)
          BY <2>1, <3>2 DEF TreeOk
        <4>2. Kept(x, v)'
          BY <1>1, <1>3, <3>2, <4>1, KeptOn
        <4>3. QED
          BY <4>2
      <3>3. QED
        BY <1>7, <2>2, <3>1, <3>2
    <2>3. \A j \in DOMAIN tree'[v] : Kept(tree[v][j], v)'
      BY <2>2 DEF Kept
    <2>4. QED
      BY <1>7, <2>3 DEF TreeOk, InOrder
  <1>8. tree' = [pkt |-> tree'.pkt, msg |-> tree'.msg] /\ \A v \in {"pkt", "msg"} : v # w => tree'[v] = tree[v]
    BY <1>1, <1>4, <1>5
  <1>9. ASSUME NEW v \in {"pkt", "msg"}, v # w PROVE TreeOk(v)'
    <2>1. tree'[v] = tree[v] /\ InOrder(tree[v], Consumers, ConsumerKey)
      BY <1>1, <1>8, <1>9 DEF TreeOk, InOrder
    <2>2. QED
      BY <1>7, <1>9, <2>1
  <1>10. TreeOk(w)'
    <2> PICK t : t = tree'[w]
      OBVIOUS
    <2>1. CASE Registrations[n].add
      <3>1. t = InsertByKey(tree[w], ConsumerKey, who)
        BY <1>1, <1>4, <1>5, <2>1
      <3>2. \A j \in DOMAIN tree[w] : tree[w][j] # who
        BY <1>3, <1>4, <2>1, NotYetThere
      <3>3. /\ InOrder(t, Consumers, ConsumerKey)
            /\ \A j \in DOMAIN t : t[j] = who \/ \E k \in DOMAIN tree[w] : t[j] = tree[w][k]
        BY <1>4, <1>6, <3>1, <3>2, Inserted, KeysAre
      <3>4. Kept(who, w)'
        <4>1. n \in 1 .. done' /\ \A l \in n + 1 .. done' : FALSE
          BY <1>1, <1>3
        <4>2. QED
          BY <2>1, <4>1 DEF Kept
      <3>5. ASSUME NEW j \in DOMAIN t, NEW x, x = t[j]
            PROVE  \/ Kept(x, w)'
                   \/ \E k \in DOMAIN tree[w] :
                         x = tree[w][k]
                         /\ ~(~Registrations[n].add /\ Registrations[n].c = tree[w][k]
                              /\ Registrations[n].where = w)
        <4>1. CASE x = who
          BY <3>4, <4>1 DEF Kept
        <4>2. CASE x # who
          BY <2>1, <3>3, <3>5, <4>2
        <4>3. QED
          BY <4>1, <4>2
      <3>6. QED
        BY <1>4, <1>7, <3>3, <3>5
    <2>2. CASE ~Registrations[n].add /\ who \notin ToSet(tree[w])
      <3>1. t = tree[w] /\ InOrder(t, Consumers, ConsumerKey)
        BY <1>5, <1>6, <2>2
      <3>2. \A j \in DOMAIN tree[w] : tree[w][j] # who
        BY <2>2 DEF ToSet
      <3>3. tree'[w] = tree[w] /\ InOrder(tree'[w], Consumers, ConsumerKey)
        BY <3>1
      <3>4. ASSUME NEW j \in DOMAIN tree'[w], NEW x, x = tree'[w][j]
            PROVE  \E k \in DOMAIN tree[w] :
                      x = tree[w][k]
                      /\ ~(~Registrations[n].add /\ Registrations[n].c = tree[w][k]
                           /\ Registrations[n].where = w)
        <4>1. j \in DOMAIN tree[w] /\ x = tree[w][j] /\ tree[w][j] # who
          BY <3>2, <3>3, <3>4
        <4>2. QED
          BY <4>1
      <3>5. QED
        BY <1>4, <1>7, <3>3, <3>4
    <2>3. CASE ~Registrations[n].add /\ who \in ToSet(tree[w])
      <3>1. PICK k : k = CHOOSE i \in DOMAIN tree[w] : tree[w][i] = who
        OBVIOUS
      <3>2. k \in DOMAIN tree[w] /\ tree[w][k] = who
        BY <2>3, <3>1 DEF ToSet
      <3>3. t = RemoveAt(tree[w], k)
        BY <1>1, <1>4, <1>5, <2>3, <3>1
      <3>4. /\ InOrder(t, Consumers, ConsumerKey)
            /\ \A j \in DOMAIN t : t[j] # who /\ \E i \in DOMAIN tree[w] : t[j] = tree[w][i]
        BY <1>6, <3>2, <3>3, Removed, KeysAre
      <3>5. QED
        BY <1>4, <1>7, <3>4
    <2>4. QED
      BY <2>1, <2>2, <2>3
  <1>11. TreeOk("pkt")' /\ TreeOk("msg")'
    BY <1>4, <1>9, <1>10
  <1>12. QED
    BY <1>1, <1>3, <1>8, <1>11 DEF Trees

LEMMA RegisterKeeps == IInv /\ BInv /\ Register => BInv'
  <1> SUFFICES ASSUME IInv, BInv, Register PROVE BInv'
    OBVIOUS
  <1>1. /\ rd.phase = "idle" /\ rd' = rd /\ calls' = calls /\ calls = <<>>
    BY DEF Register, IInv, Place
  <1>2. Trees'
    BY RegisterTrees DEF BInv
  <1>3. ~InMessage' /\ ~InAddresses' /\ ~InBlock'
    BY <1>1 DEF InMessage, InAddress, InAddresses, InBlock
  <1>4. Turn'
    <2>1. tree'.pkt \in Seq(Consumers)
      BY <1>2 DEF Trees, TreeOk
    <2>2. Len(tree'.pkt) \in Nat
      BY <2>1
    <2>3. rd.started = 0
      BY <1>1 DEF BInv, Turn, PacketTurn
    <2>4. PacketTurn'
      BY <1>1, <1>3, <2>2, <2>3 DEF PacketTurn
    <2>5. MessageTurn' /\ AddressTurn'
      BY <1>1, <1>3 DEF MessageTurn, AddressTurn
    <2>6. QED
      BY <2>4, <2>5 DEF Turn
  <1>5. QED
    BY <1>1, <1>2, <1>4, NothingTold

-----------------------------------------------------------------------------
\* Before the first registration nothing is registered, and nothing told.
LEMMA NothingKept == ReaderInit => BInv
  <1> SUFFICES ASSUME ReaderInit PROVE BInv
    OBVIOUS
  <1>1. /\ rd.phase = "idle" /\ rd.started = 0 /\ calls = <<>> /\ done = 0
        /\ tree = [pkt |-> <<>>, msg |-> <<>>]
    BY DEF ReaderInit, AtRest
  <1>2. ~InMessage /\ ~InAddress /\ ~InAddresses /\ ~InBlock
    BY <1>1 DEF InMessage, InAddress, InAddresses, InBlock
  <1>3. Trees
    <2>1. Len(Registrations) \in Nat
      BY RegistrationsAssumption
    <2>2. tree = [pkt |-> tree.pkt, msg |-> tree.msg] /\ tree.pkt = <<>> /\ tree.msg = <<>>
      BY <1>1
    <2>3. <<>> \in Seq(Consumers) /\ DOMAIN <<>> = {}
      OBVIOUS
    <2>4. TreeOk("pkt") /\ TreeOk("msg")
      BY <2>2, <2>3 DEF TreeOk
    <2>5. QED
      BY <1>1, <2>1, <2>2, <2>4 DEF Trees
  <1>4. Turn
    <2>1. Len(tree.pkt) = 0
      BY <1>1
    <2>2. QED
      BY <1>1, <1>2, <2>1 DEF Turn, PacketTurn, MessageTurn, AddressTurn
  <1>5. AllTold
    <2>1. \A k \in DOMAIN calls : FALSE
      BY <1>1
    <2>2. ASSUME NEW y, IsContext(y) PROVE Told(y)
      <3>1. Count("start", Context(y)) = 0 /\ Count("end", Context(y)) = 0
        BY <2>1, CountNone
      <3>2. ~Within(y)
        BY <1>1, <1>2 DEF Within
      <3>3. QED
        BY <3>1, <3>2 DEF Told
    <2>3. QED
      BY <2>2 DEF AllTold
  <1>6. History
    BY <1>1 DEF History
  <1>7. QED
    BY <1>3, <1>4, <1>5, <1>6 DEF BInv

\* Every step keeps what was told in step with the place of the reader.
LEMMA StepKeeps == IInv /\ BInv /\ [Register \/ ReadAny \/ ReaderStep]_rvars => BInv'
  BY RegisterKeeps, ReadKeeps, ScheduleTurnKeeps, ScheduleVerdictKeeps, PacketConsumerKeeps,
     PacketBlockShownKeeps, ParseMessageKeeps, SkipConsumerKeeps, EndOfOrderKeeps,
     MessageConsumerKeeps, MessageBlockShownKeeps, MessageEndKeeps, BeginAddressesKeeps,
     StartAddressKeeps, EndAddressKeeps, EndAddressesKeeps, EndMessageKeeps, PacketEndKeeps,
     PacketDoneKeeps, NothingKeeps
  DEF ReaderStep

\* That is what the property asks for.
LEMMA KeepsEnds == IInv /\ BInv => EndsFollowStarts
  <1> SUFFICES ASSUME IInv, BInv, calls # <<>> PROVE EndsFollowStarts
    BY DEF EndsFollowStarts
  <1>1. CountsAre
    BY CountsNow DEF IInv, CallsOk
  <1>2. ASSUME NEW k \in DOMAIN calls, Brackets(calls[k].c), ~Within(calls[k])
        PROVE  ~(Count("start", Context(calls[k])) > Count("end", Context(calls[k])))
    <2> PICK y : y = calls[k]
      OBVIOUS
    <2>1. Told(y)
      BY <1>2 DEF BInv, AllTold, History
    <2>2. Count("start", Context(y)) = Count("end", Context(y)) /\ Count("end", Context(y)) \in Nat
      BY <1>1, <1>2, <2>1 DEF Told, CountsAre
    <2>3. QED
      BY <2>2
  <1>3. LastOk(calls[Len(calls)])
    BY DEF BInv, History
  <1>4. rd.phase = "messages" => \A k \in DOMAIN calls :
           Brackets(calls[k].c) /\ calls[k].b > 0 => ~(Count("start", Context(calls[k])) > Count("end", Context(calls[k])))
    <2> SUFFICES ASSUME rd.phase = "messages", NEW k \in DOMAIN calls, Brackets(calls[k].c), calls[k].b > 0
                 PROVE  ~(Count("start", Context(calls[k])) > Count("end", Context(calls[k])))
      OBVIOUS
    <2>1. calls[k].b # 0
      BY DEF BInv, History, IsContext
    <2>2. ~InMessage /\ ~InAddress
      BY DEF InMessage, InAddress
    <2>3. ~Within(calls[k])
      BY <2>1, <2>2 DEF Within
    <2>4. QED
      BY <1>2, <2>3
  <1>5. rd.phase = "packet_end" /\ rd.started = 0 => \A k \in DOMAIN calls :
           Brackets(calls[k].c) => ~(Count("start", Context(calls[k])) > Count("end", Context(calls[k])))
    <2> SUFFICES ASSUME rd.phase = "packet_end", rd.started = 0, NEW k \in DOMAIN calls, Brackets(calls[k].c)
                 PROVE  ~(Count("start", Context(calls[k])) > Count("end", Context(calls[k])))
      OBVIOUS
    <2>1. ~InMessage /\ ~InAddress
      BY DEF InMessage, InAddress
    <2>2. ~Within(calls[k])
      BY <2>1 DEF Within
    <2>3. QED
      BY <1>2, <2>2
  <1>6. QED
    BY <1>3, <1>4, <1>5 DEF EndsFollowStarts, LastOk, Open

\* Who was told of the start of a packet, message or address is told of its end,
\* once and after all else, and an order of consumers is done with a message before
\* the next begins: whatever packets are read, whoever is registered in whatever
\* order, and whatever the callbacks return.
THEOREM EndsAreTold == ReaderSpec => []EndsFollowStarts
  <1>1. IInv /\ BInv /\ [Register \/ ReadAny \/ ReaderStep]_rvars => (IInv /\ BInv)'
    BY NextOk, StepKeeps
  <1>2. ReaderSpec => [](IInv /\ BInv)
    BY InitOk, NothingKept, <1>1, PTL DEF ReaderSpec
  <1>3. QED
    BY <1>2, KeepsEnds, PTL

-----------------------------------------------------------------------------
\* The first turns of a loop over s (ForEach) from S are the elements of h.
Passes(h, m, step, S, s) ==
    \A n \in 0 .. m : h[n] = IF n = 0 THEN S ELSE step[h[n - 1]][s[n]]

\* They are determined.
LEMMA PassesUnique ==
    ASSUME NEW step, NEW S, NEW s, NEW h, NEW g, NEW l \in Nat, NEW m \in Nat,
           Passes(h, l, step, S, s), Passes(g, m, step, S, s), l <= m
    PROVE  \A n \in 0 .. l : h[n] = g[n]
  <1> DEFINE Differ == {n \in 0 .. l : h[n] # g[n]}
  <1>1. CASE Differ = {}
    BY <1>1
  <1>2. CASE Differ # {}
    <2>0. Differ \in SUBSET Nat
      OBVIOUS
    <2>1. PICK n \in Differ : \A j \in Differ : n <= j
      BY <1>2, <2>0, LeastOf
    <2>2. n \in 0 .. l /\ n \in 0 .. m /\ h[n] # g[n]
      BY <2>1
    <2>3. n # 0
      BY <2>2 DEF Passes
    <2>4. n - 1 \in 0 .. l /\ n - 1 \notin Differ
      BY <2>1, <2>2, <2>3
    <2>5. h[n - 1] = g[n - 1]
      BY <2>4
    <2>6. QED
      BY <2>2, <2>3, <2>5 DEF Passes
  <1>3. QED
    BY <1>1, <1>2

\* There are any number of them.
LEMMA PassesGoOn ==
    ASSUME NEW step, NEW S, NEW s
    PROVE  \A m \in Nat : \E h : Passes(h, m, step, S, s)
  <1> DEFINE T(h, m) == Passes(h, m, step, S, s)
             Missing == {m \in Nat : ~ \E h : T(h, m)}
  <1>1. CASE Missing = {}
    BY <1>1
  <1>2. CASE Missing # {}
    <2>1. PICK m \in Missing : \A j \in Missing : m <= j
      BY <1>2, LeastOf
    <2>2. m \in Nat /\ ~ \E h : T(h, m)
      BY <2>1
    <2>3. CASE m = 0
      <3>1. T([n \in 0 .. 0 |-> S], 0)
        BY DEF Passes
      <3>2. QED
        BY <2>2, <2>3, <3>1
    <2>4. CASE m # 0
      <3>1. m - 1 \in Nat /\ m - 1 \notin Missing
        BY <2>1, <2>2, <2>4
      <3>2. PICK h : T(h, m - 1)
        BY <3>1
      <3>3. PICK g : g = [n \in 0 .. m |-> IF n = m THEN step[h[m - 1]][s[m]] ELSE h[n]]
        OBVIOUS
      <3>4. ASSUME NEW n \in 0 .. m
            PROVE  g[n] = IF n = 0 THEN S ELSE step[g[n - 1]][s[n]]
        <4>1. CASE n = m
          <5>1. n # 0 /\ n - 1 \in 0 .. m /\ n - 1 # m
            BY <2>2, <2>4, <4>1
          <5>2. g[n] = step[h[m - 1]][s[m]] /\ g[n - 1] = h[m - 1]
            BY <3>3, <4>1, <5>1
          <5>3. QED
            BY <4>1, <5>1, <5>2
        <4>2. CASE n # m
          <5>1. n \in 0 .. m - 1 /\ g[n] = h[n]
            BY <2>2, <3>3, <4>2
          <5>2. n # 0 => n - 1 \in 0 .. m - 1 /\ n - 1 \in 0 .. m /\ n - 1 # m
            BY <2>2, <5>1
          <5>3. n # 0 => g[n - 1] = h[n - 1]
            BY <3>3, <5>2
          <5>4. h[n] = IF n = 0 THEN S ELSE step[h[n - 1]][s[n]]
            BY <3>2, <5>1 DEF Passes
          <5>5. QED
            BY <5>1, <5>3, <5>4
        <4>3. QED
          BY <4>1, <4>2
      <3>5. T(g, m)
        BY <3>4 DEF Passes
      <3>6. QED
        BY <2>2, <3>5
    <2>5. QED
      BY <2>3, <2>4
  <1>3. QED
    BY <1>1, <1>2

\* What holds before a loop, and is taken along by each of its turns (Good[n] after
\* n of them), holds when it is done.
LEMMA LoopReaches ==
    ASSUME NEW step, NEW S, NEW s, Len(s) \in Nat, NEW Good, S \in Good[0],
           \A n \in 1 .. Len(s) : \A U \in Good[n - 1] : step[U][s[n]] \in Good[n]
    PROVE  ForEach(step, S, s) \in Good[Len(s)]
  <1> DEFINE T(h, m) == Passes(h, m, step, S, s)
             IsLoop(h) == h = [n \in Nat |-> IF n = 0 THEN S ELSE step[h[n - 1]][s[n]]]
             loop == CHOOSE h : IsLoop(h)
  <1>2. ForEach(step, S, s) = loop[Len(s)]
    BY Zenon DEF ForEach
  <1>3. \A n \in Nat : T(CHOOSE h : T(h, n), n)
    BY PassesGoOn
  <1> PICK g : g = [n \in Nat |-> (CHOOSE h : T(h, n))[n]]
    OBVIOUS
  <1>4. ASSUME NEW n \in Nat PROVE g[n] = IF n = 0 THEN S ELSE step[g[n - 1]][s[n]]
    <2> PICK h : h = CHOOSE f : T(f, n)
      OBVIOUS
    <2>1. T(h, n) /\ g[n] = h[n] /\ n \in 0 .. n
      BY <1>3
    <2>2. h[n] = IF n = 0 THEN S ELSE step[h[n - 1]][s[n]]
      BY <2>1 DEF Passes
    <2>3. CASE n = 0
      BY <2>1, <2>2, <2>3
    <2>4. CASE n # 0
      <3>1. n - 1 \in Nat /\ n - 1 <= n /\ n - 1 \in 0 .. n - 1
        BY <2>4
      <3> PICK f : f = CHOOSE k : T(k, n - 1)
        OBVIOUS
      <3>2. T(f, n - 1) /\ g[n - 1] = f[n - 1]
        BY <1>3, <3>1
      <3>3. f[n - 1] = h[n - 1]
        BY <2>1, <3>1, <3>2, PassesUnique
      <3>4. QED
        BY <2>1, <2>2, <2>4, <3>2, <3>3
    <2>5. QED
      BY <2>3, <2>4
  <1>5. IsLoop(g)
    <2>1. g = [n \in Nat |-> g[n]]
      OBVIOUS
    <2>2. QED
      BY <1>4, <2>1
  <1>6. IsLoop(loop)
    <2> HIDE DEF IsLoop
    <2>1. QED
      BY <1>5
  <1>7. loop[0] = S /\ \A n \in 1 .. Len(s) : loop[n] = step[loop[n - 1]][s[n]]
    <2> HIDE DEF loop
    <2>1. \A n \in Nat : loop[n] = IF n = 0 THEN S ELSE step[loop[n - 1]][s[n]]
      BY <1>6
    <2>2. QED
      BY <2>1
  <1> HIDE DEF loop
  <1> DEFINE Bad == {n \in 0 .. Len(s) : loop[n] \notin Good[n]}
  <1>8. CASE Bad = {}
    BY <1>2, <1>8
  <1>9. CASE Bad # {}
    <2>0. Bad \in SUBSET Nat
      OBVIOUS
    <2>1. PICK n \in Bad : \A j \in Bad : n <= j
      BY <1>9, <2>0, LeastOf
    <2>2. n \in 0 .. Len(s) /\ loop[n] \notin Good[n] /\ n # 0
      BY <1>7, <2>1
    <2>3. n \in 1 .. Len(s) /\ n - 1 \in 0 .. Len(s) /\ n - 1 \notin Bad
      BY <2>1, <2>2
    <2>4. loop[n - 1] \in Good[n - 1]
      BY <2>3
    <2>5. step[loop[n - 1]][s[n]] \in Good[n]
      BY <2>3, <2>4
    <2>6. QED
      BY <1>7, <2>2, <2>3, <2>5
  <1>10. QED
    BY <1>8, <1>9

-----------------------------------------------------------------------------
\* The lists of address TLV types: each type is in them once.
Unsorted == [t \in TlvTypes |-> 0]
Once(s) == InOrder(s, TlvTypes, Unsorted)

\* What is taken out of a list is gone, and nothing else is.
LEMMA WithoutIs ==
    ASSUME NEW S, NEW keys, NEW s, InOrder(s, S, keys), NEW e
    PROVE  /\ InOrder(Without(s, e), S, keys)
           /\ Members(Without(s, e)) = Members(s) \ {e}
  <1>1. CASE e \notin Members(s)
    BY <1>1 DEF Without
  <1>2. CASE e \in Members(s)
    <2>a. PICK at : at = CHOOSE k \in DOMAIN s : s[k] = e
      OBVIOUS
    <2>1. at \in DOMAIN s /\ s[at] = e
      BY <1>2, <2>a DEF Members
    <2>b. PICK t, len : t = RemoveAt(s, at) /\ len = Len(s)
      OBVIOUS
    <2>2. Without(s, e) = t
      BY <1>2, <2>a, <2>b DEF Without
    <2>3. InOrder(t, S, keys)
      BY <2>1, <2>b, Removed
    <2>5. s \in Seq(S) /\ len \in Nat /\ DOMAIN s = 1 .. len /\ at \in 1 .. len
      BY <2>1, <2>b DEF InOrder
    <2>6. /\ t \in Seq(S) /\ Len(t) = len - 1
          /\ \A j \in 1 .. at - 1 : t[j] = s[j]
          /\ \A j \in at .. len - 1 : t[j] = s[j + 1]
      <3>1. s \in Seq(S) /\ at \in 1 .. Len(s)
        BY <2>5, <2>b
      <3>2. Len(RemoveAt(s, at)) = Len(s) - 1
        BY <3>1, Shortened
      <3>3. \A j \in 1 .. at - 1 : RemoveAt(s, at)[j] = s[j]
        BY <3>1, Shortened
      <3>4. \A j \in at .. Len(s) - 1 : RemoveAt(s, at)[j] = s[j + 1]
        BY <3>1, Shortened
      <3>5. RemoveAt(s, at) \in Seq(S)
        BY <3>1, Shortened
      <3>6. QED
        BY <2>b, <3>2, <3>3, <3>4, <3>5
    <2>7. DOMAIN t = 1 .. len - 1
      <3>1. DOMAIN t = 1 .. Len(t)
        BY <2>6
      <3>2. QED
        BY <2>6, <3>1
    <2>4. ASSUME NEW j \in 1 .. len - 1 PROVE t[j] # e /\ \E k \in 1 .. len : t[j] = s[k]
      <3>1. \A k \in 1 .. len : k # at => s[k] # e
        BY <2>1, <2>5 DEF InOrder
      <3>2. CASE j < at
        <4>1. j \in 1 .. at - 1 /\ j \in 1 .. len /\ j # at
          BY <2>5, <3>2
        <4>2. QED
          BY <2>6, <3>1, <4>1
      <3>3. CASE ~(j < at)
        <4>1. j \in at .. len - 1 /\ j + 1 \in 1 .. len /\ j + 1 # at
          BY <2>5, <3>3
        <4>2. t[j] = s[j + 1]
          BY <2>6, <4>1
        <4>3. QED
          BY <3>1, <4>1, <4>2
      <3>4. QED
        BY <3>2, <3>3
    <2>8. ASSUME NEW k \in DOMAIN s, s[k] # e PROVE \E j \in DOMAIN t : t[j] = s[k]
      <3>1. k \in 1 .. len /\ k # at
        BY <2>1, <2>5, <2>8
      <3>2. CASE k < at
        <4>1. k \in 1 .. at - 1 /\ k \in 1 .. len - 1
          BY <2>5, <3>1, <3>2
        <4>2. QED
          BY <2>6, <2>7, <4>1
      <3>3. CASE ~(k < at)
        <4>1. k - 1 \in at .. len - 1 /\ k - 1 \in 1 .. len - 1 /\ (k - 1) + 1 = k
          BY <2>5, <3>1, <3>3
        <4>2. t[k - 1] = s[k]
          BY <2>6, <4>1
        <4>3. QED
          BY <2>7, <4>1, <4>2
      <3>4. QED
        BY <3>2, <3>3
    <2>9. Members(t) = Members(s) \ {e}
      <3>1. ASSUME NEW x \in Members(t) PROVE x \in Members(s) \ {e}
        BY <2>4, <2>5, <2>7 DEF Members
      <3>2. ASSUME NEW x \in Members(s) \ {e} PROVE x \in Members(t)
        BY <2>8 DEF Members
      <3>3. QED
        BY <3>1, <3>2
    <2>10. QED
      BY <2>2, <2>3, <2>9
  <1>3. QED
    BY <1>1, <1>2

\* A list with no element is empty.
LEMMA NoMembers ==
    ASSUME NEW S, NEW s \in Seq(S), Members(s) = {}
    PROVE  s = <<>>
  <1>1. Len(s) \in Nat /\ DOMAIN s = 1 .. Len(s)
    OBVIOUS
  <1>2. Len(s) = 0
    <2>1. CASE Len(s) # 0
      <3>1. 1 \in DOMAIN s
        BY <1>1, <2>1
      <3>2. QED
        BY <3>1 DEF Members
    <2>2. QED
      BY <2>1
  <1>3. QED
    BY <1>2

\* Lists that share no type make one.
LEMMA Joined ==
    ASSUME NEW s, Once(s), NEW t, Once(t), Members(s) \cap Members(t) = {}
    PROVE  Once(s \o t) /\ Members(s \o t) = Members(s) \cup Members(t)
  <1> PICK u, m, n : u = s \o t /\ m = Len(s) /\ n = Len(t)
    OBVIOUS
  <1>1. /\ s \in Seq(TlvTypes) /\ t \in Seq(TlvTypes) /\ m \in Nat /\ n \in Nat
        /\ DOMAIN s = 1 .. m /\ DOMAIN t = 1 .. n
    BY DEF Once, InOrder
  <1>2. /\ u \in Seq(TlvTypes) /\ Len(u) = m + n
        /\ \A j \in 1 .. m + n : u[j] = IF j <= m THEN s[j] ELSE t[j - m]
    BY <1>1, ConcatProperties
  <1>3. DOMAIN u = 1 .. m + n
    BY <1>1, <1>2
  <1>4. /\ \A j \in 1 .. m : j \in 1 .. m + n /\ u[j] = s[j]
        /\ \A j \in 1 .. n : m + j \in 1 .. m + n /\ u[m + j] = t[j]
    <2>1. \A j \in 1 .. m : j \in 1 .. m + n /\ j <= m
      BY <1>1
    <2>2. \A j \in 1 .. n : m + j \in 1 .. m + n /\ ~(m + j <= m) /\ (m + j) - m = j
      BY <1>1
    <2>3. QED
      BY <1>2, <2>1, <2>2
  <1>5. \A j \in 1 .. m + n : j \in 1 .. m \/ (j - m \in 1 .. n /\ ~(j <= m))
    BY <1>1
  <1>6. ASSUME NEW j \in 1 .. m + n, NEW k \in 1 .. m + n, u[j] = u[k] PROVE j = k
    <2>1. CASE j \in 1 .. m /\ k \in 1 .. m
      <3>1. j \in DOMAIN s /\ k \in DOMAIN s
        BY <1>1, <2>1
      <3>2. s[j] = s[k]
        BY <1>4, <1>6, <2>1
      <3>3. QED
        BY <3>1, <3>2 DEF Once, InOrder
    <2>2. CASE ~(j <= m) /\ ~(k <= m)
      <3>1. j - m \in DOMAIN t /\ k - m \in DOMAIN t /\ t[j - m] = t[k - m]
        BY <1>1, <1>2, <1>5, <1>6, <2>2
      <3>2. j - m = k - m
        BY <3>1 DEF Once, InOrder
      <3>3. QED
        BY <1>1, <3>2
    <2>3. ASSUME NEW x \in 1 .. m, NEW y \in 1 .. m + n, ~(y <= m) PROVE u[x] # u[y]
      <3>1. u[x] \in Members(s)
        BY <1>1, <1>4 DEF Members
      <3>2. u[y] \in Members(t)
        <4>1. y - m \in DOMAIN t /\ u[y] = t[y - m]
          BY <1>1, <1>2, <1>5, <2>3
        <4>2. QED
          BY <4>1 DEF Members
      <3>3. QED
        BY <3>1, <3>2
    <2>4. QED
      BY <1>5, <1>6, <2>1, <2>2, <2>3
  <1>7. ASSUME NEW j \in DOMAIN u, NEW k \in DOMAIN u PROVE Unsorted[u[j]] <= Unsorted[u[k]]
    <2>1. u[j] \in TlvTypes /\ u[k] \in TlvTypes
      BY <1>2, <1>3, <1>7, ElementOfSeq
    <2>2. QED
      BY <2>1 DEF Unsorted
  <1>8. Once(u)
    BY <1>2, <1>3, <1>6, <1>7 DEF Once, InOrder
  <1>9. Members(u) = Members(s) \cup Members(t)
    <2>1. ASSUME NEW x \in Members(u) PROVE x \in Members(s) \cup Members(t)
      BY <1>1, <1>2, <1>3, <1>5 DEF Members
    <2>2. ASSUME NEW x \in Members(s) PROVE x \in Members(u)
      BY <1>1, <1>3, <1>4 DEF Members
    <2>3. ASSUME NEW x \in Members(t) PROVE x \in Members(u)
      <3>1. PICK j \in 1 .. n : x = t[j]
        BY <1>1 DEF Members
      <3>2. m + j \in DOMAIN u /\ u[m + j] = x
        BY <1>3, <1>4, <3>1
      <3>3. QED
        BY <3>2 DEF Members
    <2>4. QED
      BY <2>1, <2>2, <2>3
  <1>10. QED
    BY <1>8, <1>9

\* So a new type can be appended to a list.
LEMMA AppendedOnce ==
    ASSUME NEW s, Once(s), NEW t \in TlvTypes, t \notin Members(s)
    PROVE  /\ Once(Append(s, t)) /\ Members(Append(s, t)) = Members(s) \cup {t}
           /\ Append(s, t) # <<>>
  <1> PICK u : u = <<t>>
    OBVIOUS
  <1>1. u \in Seq(TlvTypes) /\ Len(u) = 1 /\ DOMAIN u = 1 .. 1 /\ u[1] = t
    OBVIOUS
  <1>2. Once(u) /\ Members(u) = {t}
    BY <1>1 DEF Once, InOrder, Members, Unsorted
  <1>3. s \in Seq(TlvTypes)
    BY DEF Once, InOrder
  <1>4. Append(s, t) = s \o u
    BY <1>3
  <1>5. Once(s \o u) /\ Members(s \o u) = Members(s) \cup {t}
    BY <1>2, Joined
  <1>6. Members(<<>>) = {}
    BY DEF Members
  <1>7. QED
    BY <1>4, <1>5, <1>6

\* The types of a provider are such a list, and so is an empty one.
LEMMA OnceAtFirst ==
    /\ Once(<<>>) /\ Members(<<>>) = {}
    /\ \A p \in Providers : Once(tlvtypes_of[p])
  <1>1. <<>> \in Seq(TlvTypes) /\ DOMAIN <<>> = {}
    OBVIOUS
  <1>2. ASSUME NEW p \in Providers PROVE Once(tlvtypes_of[p])
    <2> PICK s : s = tlvtypes_of[p]
      OBVIOUS
    <2>1. s \in Seq(TlvTypes) /\ \A j, k \in DOMAIN s : s[j] = s[k] => j = k
      BY WriterAssumption
    <2>2. ASSUME NEW j \in DOMAIN s PROVE Unsorted[s[j]] = 0
      BY <2>1, <2>2, ElementOfSeq DEF Unsorted
    <2>3. QED
      BY <2>1, <2>2 DEF Once, InOrder
  <1>3. QED
    BY <1>1, <1>2 DEF Once, InOrder, Members

\* What is inserted is there.
LEMMA InsertedIsThere ==
    ASSUME NEW S, NEW keys, \A y \in S : keys[y] \in Int,
           NEW s, InOrder(s, S, keys), NEW x \in S
    PROVE  InsertByKey(s, keys, x) # <<>>
  <1>1. PICK at, t : at = KeyPlace(s, keys, keys[x]) /\ t = InsertByKey(s, keys, x)
    OBVIOUS
  <1>2. at \in 0 .. Len(s)
    <2>1. Sorted(s, S, keys)
      BY DEF InOrder, Sorted
    <2>2. QED
      BY <1>1, <2>1, PlaceFound
  <1>3. s \in Seq(S) /\ Len(s) \in Nat
    BY DEF InOrder
  <1>4. t = Put(s, at, x)
    BY <1>1 DEF InsertByKey, Put
  <1>5. Len(t) = Len(s) + 1
    BY <1>2, <1>3, <1>4, Spliced
  <1>6. QED
    BY <1>1, <1>3, <1>5

-----------------------------------------------------------------------------
\* What is registered for a message type, and when it has to be there.
ProvidersOf(m) == {p \in Providers : msg_type[p] = m}
MsgOk(M, m) ==
    /\ M \in MsgSetups /\ (M.exists \/ M = FreeMessage)
    /\ InOrder(M.providers, ProvidersOf(m), priority) /\ Once(M.tlvtypes)
Needed(M) == M.registered \/ M.providers # <<>> \/ M.tlvtypes # <<>>

\* The invariant of what is registered.
TypesOf(S, m) == Members(S.msgs[m].tlvtypes)
SetupOk(S) ==
    /\ S \in Setups /\ Once(S.tlvtypes)
    /\ \A m \in MsgTypes : MsgOk(S.msgs[m], m) /\ TypesOf(S, m) \cap Members(S.tlvtypes) = {}
    /\ \A m, n \in MsgTypes : m # n => TypesOf(S, m) \cap TypesOf(S, n) = {}
AllNeeded(S) == \A m \in MsgTypes : S.msgs[m].exists => Needed(S.msgs[m])

\* Another message type in place of one.
WithMessage(S, m, M) == [S EXCEPT !.msgs[m] = M]
Others(S, T, m) ==
    /\ \A n \in MsgTypes : n # m => T.msgs[n] = S.msgs[n]
    /\ T.tlvtypes = S.tlvtypes /\ T.targets = S.targets /\ T.pkthandlers = S.pkthandlers

\* Nothing else changes.
LEMMA MessagePut ==
    ASSUME NEW S \in Setups, NEW m \in MsgTypes, NEW M \in MsgSetups, NEW T, T = WithMessage(S, m, M)
    PROVE  T \in Setups /\ T.msgs[m] = M /\ Others(S, T, m)
  BY DEF WithMessage, Others, Setups

\* The others stay in order when the new one shares no type with them.
LEMMA MessagePutOk ==
    ASSUME NEW S, SetupOk(S), NEW m \in MsgTypes, NEW M, MsgOk(M, m),
           Members(M.tlvtypes) \cap Members(S.tlvtypes) = {},
           \A n \in MsgTypes : n # m => Members(M.tlvtypes) \cap TypesOf(S, n) = {},
           NEW T, T = WithMessage(S, m, M)
    PROVE  SetupOk(T) /\ T.msgs[m] = M /\ Others(S, T, m)
  <1>1. S \in Setups /\ M \in MsgSetups
    BY DEF SetupOk, MsgOk
  <1>2. T \in Setups /\ T.msgs[m] = M /\ Others(S, T, m)
    BY <1>1, MessagePut
  <1>3. Once(T.tlvtypes) /\ T.tlvtypes = S.tlvtypes
    BY <1>2 DEF SetupOk, Others
  <1>4. \A n \in MsgTypes : T.msgs[n] = IF n = m THEN M ELSE S.msgs[n]
    BY <1>2 DEF Others
  <1>5. \A n \in MsgTypes : TypesOf(T, n) = IF n = m THEN Members(M.tlvtypes) ELSE TypesOf(S, n)
    BY <1>4 DEF TypesOf
  <1>6. \A n \in MsgTypes : MsgOk(T.msgs[n], n) /\ TypesOf(T, n) \cap Members(T.tlvtypes) = {}
    BY <1>3, <1>4, <1>5 DEF SetupOk
  <1>7. \A n, l \in MsgTypes : n # l => TypesOf(T, n) \cap TypesOf(T, l) = {}
    BY <1>5 DEF SetupOk
  <1>8. QED
    BY <1>2, <1>3, <1>6, <1>7 DEF SetupOk

\* A new message type, and one that is not there.
LEMMA FreshOk ==
    ASSUME NEW m \in MsgTypes
    PROVE  MsgOk(FreeMessage, m) /\ MsgOk(NewMessage, m)
  <1>1. FreeMessage \in MsgSetups /\ NewMessage \in MsgSetups /\ NewMessage.exists
    <2>1. <<>> \in Seq(Providers) /\ <<>> \in Seq(TlvTypes)
      OBVIOUS
    <2>2. QED
      BY <2>1 DEF FreeMessage, NewMessage, MsgSetups
  <1>2. /\ FreeMessage.providers = <<>> /\ FreeMessage.tlvtypes = <<>>
        /\ NewMessage.providers = <<>> /\ NewMessage.tlvtypes = <<>>
    BY DEF FreeMessage, NewMessage
  <1>3. <<>> \in Seq(ProvidersOf(m)) /\ DOMAIN <<>> = {}
    OBVIOUS
  <1>4. InOrder(<<>>, ProvidersOf(m), priority)
    BY <1>3 DEF InOrder
  <1>5. QED
    BY <1>1, <1>2, <1>4, OnceAtFirst DEF MsgOk

\* _get_message makes a message type when it is missing.
LEMMA Got ==
    ASSUME NEW S, SetupOk(S), NEW m \in MsgTypes, NEW T, T = get_message(S, m)
    PROVE  /\ SetupOk(T) /\ Others(S, T, m) /\ T.msgs[m].exists
           /\ T.msgs[m] = S.msgs[m] \/ T.msgs[m] = NewMessage
           /\ \A n \in MsgTypes : TypesOf(T, n) = TypesOf(S, n)
  <1>1. MsgOk(S.msgs[m], m) /\ S \in Setups
    BY DEF SetupOk
  <1>2. CASE S.msgs[m].exists
    <2>1. T = S
      BY <1>2 DEF get_message, Existing
    <2>2. QED
      BY <1>2, <2>1 DEF Others
  <1>3. CASE ~S.msgs[m].exists
    <2>1. T = WithMessage(S, m, NewMessage)
      BY <1>3 DEF get_message, Existing, WithMessage
    <2>2. S.msgs[m] = FreeMessage
      BY <1>1, <1>3 DEF MsgOk
    <2>3. Members(NewMessage.tlvtypes) = {} /\ TypesOf(S, m) = {} /\ NewMessage.exists
      BY <2>2, OnceAtFirst DEF TypesOf, NewMessage, FreeMessage
    <2>4. SetupOk(T) /\ T.msgs[m] = NewMessage /\ Others(S, T, m)
      BY <2>1, <2>3, FreshOk, MessagePutOk
    <2>5. \A n \in MsgTypes : TypesOf(T, n) = TypesOf(S, n)
      BY <2>3, <2>4 DEF Others, TypesOf
    <2>6. QED
      BY <2>3, <2>4, <2>5
  <1>4. QED
    BY <1>2, <1>3

\* _lazy_free_message leaves a message type that is needed, or frees it.
LEMMA Freed ==
    ASSUME NEW S, SetupOk(S), NEW m \in MsgTypes, NEW T, T = lazy_free_message(S, m)
    PROVE  /\ SetupOk(T) /\ Others(S, T, m)
           /\ T.msgs[m].exists => T.msgs[m] = S.msgs[m] /\ Needed(T.msgs[m])
           /\ ~Needed(S.msgs[m]) => T.msgs[m] = FreeMessage
           /\ T.msgs[m].registered = S.msgs[m].registered
           /\ T.msgs[m].providers = S.msgs[m].providers /\ T.msgs[m].tlvtypes = S.msgs[m].tlvtypes
  <1>1. MsgOk(S.msgs[m], m) /\ S \in Setups /\ S.msgs[m] \in MsgSetups
    BY DEF SetupOk, MsgOk
  <1>0. /\ FreeMessage.registered = FALSE /\ FreeMessage.exists = FALSE
        /\ FreeMessage.providers = <<>> /\ FreeMessage.tlvtypes = <<>>
    BY DEF FreeMessage
  <1>2. CASE Needed(S.msgs[m])
    <2>1. T = S
      BY <1>2 DEF lazy_free_message, Needed
    <2>2. QED
      BY <1>2, <2>1 DEF Others
  <1>3. CASE ~Needed(S.msgs[m])
    <2>1. T = WithMessage(S, m, FreeMessage)
      BY <1>3 DEF lazy_free_message, Needed, WithMessage
    <2>2. Members(FreeMessage.tlvtypes) = {}
      BY <1>0, OnceAtFirst
    <2>3. SetupOk(T) /\ T.msgs[m] = FreeMessage /\ Others(S, T, m)
      BY <2>1, <2>2, FreshOk, MessagePutOk
    <2>4. S.msgs[m].registered = FALSE /\ S.msgs[m].providers = <<>> /\ S.msgs[m].tlvtypes = <<>>
      BY <1>1, <1>3 DEF Needed, MsgSetups
    <2>5. QED
      BY <1>0, <2>3, <2>4
  <1>4. QED
    BY <1>2, <1>3

\* T is what is left of S when the address TLV types E and the content providers P
\* are unregistered.
ProvidersIn(S, m) == Members(S.msgs[m].providers)
Less(S, T, E, P) ==
    /\ SetupOk(T) /\ T.targets = S.targets /\ T.pkthandlers = S.pkthandlers
    /\ Members(T.tlvtypes) = Members(S.tlvtypes) \ E
    /\ \A m \in MsgTypes :
          /\ T.msgs[m].registered = S.msgs[m].registered
          /\ ProvidersIn(T, m) = ProvidersIn(S, m) \ P
          /\ TypesOf(T, m) = TypesOf(S, m) \ E
          /\ T.msgs[m].exists => S.msgs[m].exists /\ (Needed(S.msgs[m]) => Needed(T.msgs[m]))

\* rfc5444_writer_unregister_addrtlvtype takes a type out of the list it is in.
LEMMA TypeGone ==
    ASSUME NEW S, SetupOk(S), NEW t \in TlvTypes, NEW T, T = unregister_addrtlvtype(S, t)
    PROVE  Less(S, T, {t}, {})
  <1>1. S \in Setups
    BY DEF SetupOk
  <1>2. CASE t \in Members(S.tlvtypes)
    <2>1. T = [S EXCEPT !.tlvtypes = Without(@, t)]
      BY <1>2 DEF unregister_addrtlvtype
    <2>2. Once(Without(S.tlvtypes, t)) /\ Members(Without(S.tlvtypes, t)) = Members(S.tlvtypes) \ {t}
      BY WithoutIs DEF SetupOk, Once
    <2>3. Without(S.tlvtypes, t) \in Seq(TlvTypes)
      BY <2>2 DEF Once, InOrder
    <2>4. /\ T \in Setups /\ T.msgs = S.msgs /\ T.targets = S.targets /\ T.pkthandlers = S.pkthandlers
          /\ T.tlvtypes = Without(S.tlvtypes, t)
      BY <1>1, <2>1, <2>3 DEF Setups
    <2>5. \A m \in MsgTypes : TypesOf(T, m) = TypesOf(S, m) /\ t \notin TypesOf(S, m)
      BY <1>2, <2>4 DEF TypesOf, SetupOk
    <2>6. SetupOk(T)
      BY <2>2, <2>4, <2>5 DEF SetupOk
    <2>7. QED
      BY <2>2, <2>4, <2>5, <2>6 DEF Less, ProvidersIn
  <1>3. CASE t \notin Members(S.tlvtypes) /\ ~TlvTypeAdded(S, t)
    <2>1. T = S
      BY <1>3 DEF unregister_addrtlvtype
    <2>2. ASSUME NEW m \in MsgTypes PROVE t \notin TypesOf(S, m)
      <3>1. CASE S.msgs[m].exists
        BY <1>3, <3>1 DEF TlvTypeAdded, Existing, TypesOf
      <3>2. CASE ~S.msgs[m].exists
        <4>1. S.msgs[m] = FreeMessage
          BY <3>2 DEF SetupOk, MsgOk
        <4>2. QED
          BY <4>1, OnceAtFirst DEF TypesOf, FreeMessage
      <3>3. QED
        BY <3>1, <3>2
    <2>3. QED
      BY <1>3, <2>1, <2>2 DEF Less
  <1>4. CASE t \notin Members(S.tlvtypes) /\ TlvTypeAdded(S, t)
    <2>0. PICK m : m = CHOOSE x \in Existing(S) : t \in Members(S.msgs[x].tlvtypes)
      OBVIOUS
    <2>1. m \in Existing(S) /\ t \in Members(S.msgs[m].tlvtypes)
      BY <1>4, <2>0 DEF TlvTypeAdded
    <2>2. m \in MsgTypes /\ S.msgs[m].exists /\ t \in TypesOf(S, m)
      BY <2>1 DEF Existing, TypesOf
    <2>3. PICK M : M = [S.msgs[m] EXCEPT !.tlvtypes = Without(@, t)]
      OBVIOUS
    <2>4. PICK U : U = WithMessage(S, m, M)
      OBVIOUS
    <2>5. T = lazy_free_message(U, m)
      <3>1. T = lazy_free_message([S EXCEPT !.msgs[m].tlvtypes = Without(@, t)], m)
        BY <1>4, <2>0 DEF unregister_addrtlvtype
      <3>2. [S EXCEPT !.msgs[m].tlvtypes = Without(@, t)] = U
        BY <2>3, <2>4 DEF WithMessage
      <3>3. QED
        BY <3>1, <3>2
    <2>6. MsgOk(S.msgs[m], m) /\ S.msgs[m] \in MsgSetups
      BY <2>2 DEF SetupOk, MsgOk
    <2>7. /\ Once(Without(S.msgs[m].tlvtypes, t))
          /\ Members(Without(S.msgs[m].tlvtypes, t)) = TypesOf(S, m) \ {t}
      BY <2>6, WithoutIs DEF MsgOk, Once, TypesOf
    <2>8. Without(S.msgs[m].tlvtypes, t) \in Seq(TlvTypes)
      BY <2>7 DEF Once, InOrder
    <2>9. /\ M \in MsgSetups /\ M.tlvtypes = Without(S.msgs[m].tlvtypes, t)
          /\ M.providers = S.msgs[m].providers /\ M.registered = S.msgs[m].registered /\ M.exists
      BY <2>2, <2>3, <2>6, <2>8 DEF MsgSetups
    <2>10. MsgOk(M, m)
      BY <2>6, <2>7, <2>9 DEF MsgOk
    <2>11. Members(M.tlvtypes) = TypesOf(S, m) \ {t}
      BY <2>7, <2>9
    <2>12. /\ Members(M.tlvtypes) \cap Members(S.tlvtypes) = {}
           /\ \A n \in MsgTypes : n # m => Members(M.tlvtypes) \cap TypesOf(S, n) = {} /\ t \notin TypesOf(S, n)
      BY <2>2, <2>11 DEF SetupOk
    <2>13. SetupOk(U) /\ U.msgs[m] = M /\ Others(S, U, m)
      BY <2>2, <2>4, <2>10, <2>12, MessagePutOk
    <2>14. /\ SetupOk(T) /\ Others(U, T, m)
           /\ T.msgs[m].exists => T.msgs[m] = M /\ Needed(T.msgs[m])
           /\ T.msgs[m].registered = M.registered
           /\ T.msgs[m].providers = M.providers /\ T.msgs[m].tlvtypes = M.tlvtypes
      BY <2>2, <2>5, <2>13, Freed
    <2>15. Others(S, T, m)
      BY <2>13, <2>14 DEF Others
    <2>16. TypesOf(T, m) = TypesOf(S, m) \ {t}
      BY <2>11, <2>14 DEF TypesOf
    <2>17. ASSUME NEW n \in MsgTypes, n # m
           PROVE  T.msgs[n] = S.msgs[n] /\ TypesOf(T, n) = TypesOf(S, n) \ {t}
      BY <2>12, <2>15, <2>17 DEF Others, TypesOf
    <2>18. Members(T.tlvtypes) = Members(S.tlvtypes) \ {t}
      BY <1>4, <2>15 DEF Others
    <2>19. T.targets = S.targets /\ T.pkthandlers = S.pkthandlers
      BY <2>15 DEF Others
    <2>20. ASSUME NEW n \in MsgTypes
           PROVE  /\ T.msgs[n].registered = S.msgs[n].registered
                  /\ ProvidersIn(T, n) = ProvidersIn(S, n) \ {}
                  /\ TypesOf(T, n) = TypesOf(S, n) \ {t}
                  /\ T.msgs[n].exists => S.msgs[n].exists /\ (Needed(S.msgs[n]) => Needed(T.msgs[n]))
      BY <2>2, <2>9, <2>14, <2>16, <2>17 DEF ProvidersIn
    <2>21. QED
      BY <2>14, <2>18, <2>19, <2>20 DEF Less
  <1>5. QED
    BY <1>2, <1>3, <1>4

\* All of some types, one after the other.
LEMMA LessMore ==
    ASSUME NEW S, NEW T, NEW U, NEW E, NEW F, NEW P, NEW Q, Less(S, T, E, P), Less(T, U, F, Q)
    PROVE  Less(S, U, E \cup F, P \cup Q)
  <1>1. ASSUME NEW m \in MsgTypes
        PROVE  /\ U.msgs[m].registered = S.msgs[m].registered
               /\ ProvidersIn(U, m) = ProvidersIn(S, m) \ (P \cup Q)
               /\ TypesOf(U, m) = TypesOf(S, m) \ (E \cup F)
               /\ U.msgs[m].exists => S.msgs[m].exists /\ (Needed(S.msgs[m]) => Needed(U.msgs[m]))
    BY DEF Less
  <1>2. /\ SetupOk(U) /\ U.targets = S.targets /\ U.pkthandlers = S.pkthandlers
        /\ Members(U.tlvtypes) = Members(S.tlvtypes) \ (E \cup F)
    BY DEF Less
  <1>3. QED
    BY <1>1, <1>2 DEF Less

\* Nothing is left out at first.
LEMMA LessNothing == ASSUME NEW S, SetupOk(S) PROVE Less(S, S, {}, {})
  BY DEF Less

\* The first elements of a sequence.
FirstOf(s, n) == {s[j] : j \in 1 .. n}

\* They are one more with the next.
LEMMA FirstOnes ==
    ASSUME NEW s, NEW n \in Nat, n - 1 \in Nat
    PROVE  FirstOf(s, n) = FirstOf(s, n - 1) \cup {s[n]}
  <1>1. \A j \in 1 .. n : j \in 1 .. n - 1 \/ j = n
    OBVIOUS
  <1>2. (\A j \in 1 .. n - 1 : j \in 1 .. n) /\ n \in 1 .. n
    OBVIOUS
  <1>3. QED
    BY <1>1, <1>2 DEF FirstOf

\* A loop over types takes all of them out.
LEMMA TypesGone ==
    ASSUME NEW S, SetupOk(S), NEW types \in Seq(TlvTypes), NEW T, T = unregister_tlvtypes(S, types)
    PROVE  Less(S, T, Members(types), {})
  <1>1. PICK step : step = [U \in Setups |-> [t \in TlvTypes |-> unregister_addrtlvtype(U, t)]]
    OBVIOUS
  <1>2. PICK Good : Good = [n \in Nat |-> {U \in Setups : Less(S, U, FirstOf(types, n), {})}]
    OBVIOUS
  <1>3. Len(types) \in Nat /\ S \in Setups /\ DOMAIN types = 1 .. Len(types)
    BY DEF SetupOk
  <1>4. S \in Good[0]
    <2>1. FirstOf(types, 0) = {}
      BY DEF FirstOf
    <2>2. Less(S, S, FirstOf(types, 0), {})
      BY <2>1, LessNothing
    <2>3. QED
      BY <1>2, <1>3, <2>2
  <1>5. ASSUME NEW n \in 1 .. Len(types), NEW U \in Good[n - 1] PROVE step[U][types[n]] \in Good[n]
    <2>1. PICK t : t = types[n]
      OBVIOUS
    <2>2. PICK V : V = unregister_addrtlvtype(U, t)
      OBVIOUS
    <2>3. n \in Nat /\ n - 1 \in Nat
      BY <1>3
    <2>4. U \in Setups /\ Less(S, U, FirstOf(types, n - 1), {})
      BY <1>2, <2>3
    <2>5. t \in TlvTypes
      BY <1>3, <2>1, ElementOfSeq
    <2>6. Less(U, V, {t}, {})
      <3>1. SetupOk(U)
        BY <2>4 DEF Less
      <3>2. QED
        BY <2>2, <2>5, <3>1, TypeGone
    <2>7. FirstOf(types, n) = FirstOf(types, n - 1) \cup {t}
      BY <2>1, <2>3, FirstOnes
    <2>8. Less(S, V, FirstOf(types, n), {})
      BY <2>4, <2>6, <2>7, LessMore
    <2>9. V \in Setups
      BY <2>8 DEF Less, SetupOk
    <2>10. step[U][t] = V
      BY <1>1, <2>2, <2>4, <2>5
    <2>11. QED
      BY <1>2, <2>1, <2>3, <2>8, <2>9, <2>10
  <1>6. T = ForEach(step, S, types)
    BY <1>1 DEF unregister_tlvtypes
  <1>7. T \in Good[Len(types)]
    BY <1>3, <1>4, <1>5, <1>6, LoopReaches
  <1>8. Less(S, T, FirstOf(types, Len(types)), {})
    BY <1>2, <1>3, <1>7
  <1>9. Members(types) = FirstOf(types, Len(types))
    BY <1>3 DEF Members, FirstOf
  <1>10. QED
    BY <1>8, <1>9

\* rfc5444_writer_unregister_content_provider takes a provider out with its types.
LEMMA ProviderGone ==
    ASSUME NEW S, SetupOk(S), NEW p \in Providers, ProviderAdded(S, p), NEW types \in Seq(TlvTypes),
           NEW T, T = unregister_content_provider(S, p, types)
    PROVE  Less(S, T, Members(types), {p})
  <1>1. PICK m, U : m = msg_type[p] /\ U = unregister_tlvtypes(S, types)
    OBVIOUS
  <1>2. PICK M, V : M = [U.msgs[m] EXCEPT !.providers = Without(@, p)] /\ V = WithMessage(U, m, M)
    OBVIOUS
  <1>3. m \in MsgTypes /\ p \in ProvidersIn(S, m)
    BY <1>1, WriterAssumption DEF ProviderAdded, ProvidersIn
  <1>4. Less(S, U, Members(types), {})
    BY <1>1, TypesGone
  <1>5. SetupOk(U) /\ MsgOk(U.msgs[m], m) /\ U.msgs[m] \in MsgSetups
    BY <1>3, <1>4 DEF Less, SetupOk, MsgOk
  <1>6. p \in ProvidersIn(U, m)
    BY <1>3, <1>4 DEF Less
  <1>7. U.msgs[m].exists
    BY <1>5, <1>6, OnceAtFirst DEF MsgOk, FreeMessage, ProvidersIn
  <1>8. T = lazy_free_message(V, m)
    <2>1. T = lazy_free_message([U EXCEPT !.msgs[m].providers = Without(@, p)], m)
      BY <1>1 DEF unregister_content_provider
    <2>2. [U EXCEPT !.msgs[m].providers = Without(@, p)] = V
      BY <1>2 DEF WithMessage
    <2>3. QED
      BY <2>1, <2>2
  <1>9. /\ InOrder(Without(U.msgs[m].providers, p), ProvidersOf(m), priority)
        /\ Members(Without(U.msgs[m].providers, p)) = ProvidersIn(U, m) \ {p}
    BY <1>5, WithoutIs DEF MsgOk, ProvidersIn
  <1>10. Without(U.msgs[m].providers, p) \in Seq(Providers)
    <2>1. ProvidersOf(m) \subseteq Providers
      BY DEF ProvidersOf
    <2>2. QED
      BY <1>9, <2>1 DEF InOrder
  <1>11. /\ M \in MsgSetups /\ M.providers = Without(U.msgs[m].providers, p)
         /\ M.tlvtypes = U.msgs[m].tlvtypes /\ M.registered = U.msgs[m].registered /\ M.exists
    BY <1>2, <1>5, <1>7, <1>10 DEF MsgSetups
  <1>12. MsgOk(M, m)
    BY <1>5, <1>9, <1>11 DEF MsgOk
  <1>13. /\ Members(M.tlvtypes) \cap Members(U.tlvtypes) = {}
         /\ \A n \in MsgTypes : n # m => Members(M.tlvtypes) \cap TypesOf(U, n) = {}
    BY <1>3, <1>5, <1>11 DEF SetupOk, TypesOf
  <1>14. SetupOk(V) /\ V.msgs[m] = M /\ Others(U, V, m)
    <2>1. m \in MsgTypes /\ SetupOk(U) /\ V = WithMessage(U, m, M)
      BY <1>2, <1>3, <1>5
    <2>2. QED
      BY <1>12, <1>13, <2>1, MessagePutOk
  <1>15. /\ SetupOk(T) /\ Others(V, T, m)
         /\ T.msgs[m].exists => T.msgs[m] = M /\ Needed(T.msgs[m])
         /\ T.msgs[m].registered = M.registered
         /\ T.msgs[m].providers = M.providers /\ T.msgs[m].tlvtypes = M.tlvtypes
    BY <1>3, <1>8, <1>14, Freed
  <1>16. Others(U, T, m)
    BY <1>14, <1>15 DEF Others
  <1>17. /\ ProvidersIn(T, m) = ProvidersIn(U, m) \ {p} /\ TypesOf(T, m) = TypesOf(U, m)
    BY <1>9, <1>11, <1>15 DEF ProvidersIn, TypesOf
  <1>18. ASSUME NEW n \in MsgTypes, n # m PROVE p \notin ProvidersIn(U, n)
    <2>1. InOrder(U.msgs[n].providers, ProvidersOf(n), priority)
      BY <1>5, <1>18 DEF SetupOk, MsgOk
    <2>2. ProvidersIn(U, n) \subseteq ProvidersOf(n)
      <3>1. U.msgs[n].providers \in Seq(ProvidersOf(n))
        BY <2>1 DEF InOrder
      <3>2. QED
        BY <3>1, ElementOfSeq DEF ProvidersIn, Members
    <2>3. p \notin ProvidersOf(n)
      BY <1>1, <1>18 DEF ProvidersOf
    <2>4. QED
      BY <2>2, <2>3
  <1>19. ASSUME NEW n \in MsgTypes, n # m
         PROVE  /\ T.msgs[n] = U.msgs[n] /\ ProvidersIn(T, n) = ProvidersIn(U, n) \ {p}
                /\ TypesOf(T, n) = TypesOf(U, n)
    BY <1>16, <1>18, <1>19 DEF Others, ProvidersIn, TypesOf
  <1>20. ASSUME NEW n \in MsgTypes
         PROVE  /\ T.msgs[n].registered = U.msgs[n].registered
                /\ ProvidersIn(T, n) = ProvidersIn(U, n) \ {p}
                /\ TypesOf(T, n) = TypesOf(U, n) \ {}
                /\ T.msgs[n].exists => U.msgs[n].exists /\ (Needed(U.msgs[n]) => Needed(T.msgs[n]))
    BY <1>7, <1>11, <1>15, <1>17, <1>19
  <1>21. Less(U, T, {}, {p})
    BY <1>15, <1>16, <1>20 DEF Less, Others
  <1>22. Members(types) \cup {} = Members(types) /\ {} \cup {p} = {p}
    OBVIOUS
  <1>23. QED
    BY <1>4, <1>21, <1>22, LessMore

\* Without a provider, nothing happens.
LEMMA NoProvider ==
    ASSUME NEW S, SetupOk(S), NEW p \in Providers, ~ProviderAdded(S, p), NEW types,
           NEW T, T = unregister_content_provider(S, p, types)
    PROVE  Less(S, T, {}, {p}) /\ T = S
  <1>1. T = S
    BY DEF unregister_content_provider
  <1>2. ASSUME NEW n \in MsgTypes PROVE p \notin ProvidersIn(S, n)
    <2>1. MsgOk(S.msgs[n], n)
      BY DEF SetupOk
    <2>2. CASE ~S.msgs[n].exists
      BY <2>1, <2>2, OnceAtFirst DEF MsgOk, FreeMessage, ProvidersIn
    <2>3. CASE S.msgs[n].exists /\ n = msg_type[p]
      BY <2>3 DEF ProviderAdded, Existing, ProvidersIn
    <2>4. CASE n # msg_type[p]
      <3>1. S.msgs[n].providers \in Seq(ProvidersOf(n))
        BY <2>1 DEF MsgOk, InOrder
      <3>2. ProvidersIn(S, n) \subseteq ProvidersOf(n)
        BY <3>1, ElementOfSeq DEF ProvidersIn, Members
      <3>3. QED
        BY <2>4, <3>2 DEF ProvidersOf
    <2>5. QED
      BY <2>2, <2>3, <2>4
  <1>3. QED
    BY <1>1, <1>2 DEF Less

\* All of some content providers, whose types stay.
LEMMA ProvidersGone ==
    ASSUME NEW S, SetupOk(S), NEW providers \in Seq(Providers),
           NEW T, T = unregister_providers(S, providers)
    PROVE  Less(S, T, {}, Members(providers))
  <1>1. PICK step : step = [U \in Setups |-> [p \in Providers |-> unregister_content_provider(U, p, <<>>)]]
    OBVIOUS
  <1>2. PICK Good : Good = [n \in Nat |-> {U \in Setups : Less(S, U, {}, FirstOf(providers, n))}]
    OBVIOUS
  <1>3. Len(providers) \in Nat /\ S \in Setups /\ DOMAIN providers = 1 .. Len(providers)
    BY DEF SetupOk
  <1>4. S \in Good[0]
    <2>1. FirstOf(providers, 0) = {}
      BY DEF FirstOf
    <2>2. Less(S, S, {}, FirstOf(providers, 0))
      BY <2>1, LessNothing
    <2>3. QED
      BY <1>2, <1>3, <2>2
  <1>5. ASSUME NEW n \in 1 .. Len(providers), NEW U \in Good[n - 1] PROVE step[U][providers[n]] \in Good[n]
    <2>1. PICK p : p = providers[n]
      OBVIOUS
    <2>2. PICK V : V = unregister_content_provider(U, p, <<>>)
      OBVIOUS
    <2>3. n \in Nat /\ n - 1 \in Nat
      BY <1>3
    <2>4. U \in Setups /\ Less(S, U, {}, FirstOf(providers, n - 1))
      BY <1>2, <2>3
    <2>5. p \in Providers
      BY <1>3, <2>1, ElementOfSeq
    <2>6. Less(U, V, {}, {p})
      <3>1. SetupOk(U)
        BY <2>4 DEF Less
      <3>2. <<>> \in Seq(TlvTypes) /\ Members(<<>>) = {}
        BY OnceAtFirst
      <3>3. CASE ProviderAdded(U, p)
        <4>1. Less(U, V, Members(<<>>), {p})
          BY <2>2, <2>5, <3>1, <3>2, <3>3, ProviderGone
        <4>2. QED
          BY <3>2, <4>1
      <3>4. CASE ~ProviderAdded(U, p)
        BY <2>2, <2>5, <3>1, <3>4, NoProvider
      <3>5. QED
        BY <3>3, <3>4
    <2>7. FirstOf(providers, n) = FirstOf(providers, n - 1) \cup {p}
      BY <2>1, <2>3, FirstOnes
    <2>8. Less(S, V, {}, FirstOf(providers, n))
      <3>1. Less(S, V, {} \cup {}, FirstOf(providers, n - 1) \cup {p})
        BY <2>4, <2>6, LessMore
      <3>2. {} \cup {} = {}
        OBVIOUS
      <3>3. QED
        BY <2>7, <3>1, <3>2
    <2>9. V \in Setups
      BY <2>8 DEF Less, SetupOk
    <2>10. step[U][p] = V
      BY <1>1, <2>2, <2>4, <2>5
    <2>11. QED
      BY <1>2, <2>1, <2>3, <2>8, <2>9, <2>10
  <1>6. T = ForEach(step, S, providers)
    BY <1>1 DEF unregister_providers
  <1>7. T \in Good[Len(providers)]
    BY <1>3, <1>4, <1>5, <1>6, LoopReaches
  <1>8. Less(S, T, {}, FirstOf(providers, Len(providers)))
    BY <1>2, <1>3, <1>7
  <1>9. Members(providers) = FirstOf(providers, Len(providers))
    BY <1>3 DEF Members, FirstOf
  <1>10. QED
    BY <1>8, <1>9

-----------------------------------------------------------------------------
\* Each operation keeps what is registered in order.
Fine(S) == SetupOk(S) /\ AllNeeded(S)

\* What is left is in order.
LEMMA FineLess == ASSUME NEW S, Fine(S), NEW T, NEW E, NEW P, Less(S, T, E, P) PROVE Fine(T)
  BY DEF Fine, AllNeeded, Less

\* A change of one message type.
LEMMA FineOthers ==
    ASSUME NEW S, Fine(S), NEW T, SetupOk(T), NEW m \in MsgTypes, Others(S, T, m),
           T.msgs[m].exists => Needed(T.msgs[m])
    PROVE  Fine(T)
  BY DEF Fine, AllNeeded, Others

\* A type that is in no list yet.
LEMMA NotAdded ==
    ASSUME NEW S, SetupOk(S), NEW t, ~TlvTypeAdded(S, t)
    PROVE  t \notin Members(S.tlvtypes) /\ \A m \in MsgTypes : t \notin TypesOf(S, m)
  <1>1. ASSUME NEW m \in MsgTypes PROVE t \notin TypesOf(S, m)
    <2>1. CASE S.msgs[m].exists
      BY <2>1 DEF TlvTypeAdded, Existing, TypesOf
    <2>2. CASE ~S.msgs[m].exists
      <3>1. S.msgs[m] = FreeMessage
        BY <2>2 DEF SetupOk, MsgOk
      <3>2. QED
        BY <3>1, OnceAtFirst DEF TypesOf, FreeMessage
    <2>3. QED
      BY <2>1, <2>2
  <1>2. QED
    BY <1>1 DEF TlvTypeAdded

\* rfc5444_writer_register_message makes a message type needed.
LEMMA MessageRegistered ==
    ASSUME NEW S, Fine(S), NEW m \in MsgTypes, NEW specific \in BOOLEAN,
           NEW T, T = register_message(S, m, specific)
    PROVE  Fine(T)
  <1>1. PICK got : got = get_message(S, m)
    OBVIOUS
  <1>2. /\ SetupOk(got) /\ Others(S, got, m) /\ got.msgs[m].exists
        /\ got.msgs[m] = S.msgs[m] \/ got.msgs[m] = NewMessage
    BY <1>1, Got DEF Fine
  <1>3. CASE got.msgs[m].registered
    <2>1. T = got
      BY <1>1, <1>3 DEF register_message
    <2>2. QED
      BY <1>2, <1>3, <2>1, FineOthers DEF Needed
  <1>4. CASE ~got.msgs[m].registered
    <2>1. PICK M : M = [got.msgs[m] EXCEPT !.registered = TRUE, !.target_specific = specific]
      OBVIOUS
    <2>2. T = WithMessage(got, m, M)
      <3>1. T = [got EXCEPT !.msgs[m].registered = TRUE, !.msgs[m].target_specific = specific]
        BY <1>1, <1>4 DEF register_message
      <3>2. got.msgs \in [MsgTypes -> MsgSetups]
        BY <1>2 DEF SetupOk, Setups
      <3>3. QED
        BY <2>1, <3>1, <3>2 DEF WithMessage
    <2>3. MsgOk(got.msgs[m], m) /\ got.msgs[m] \in MsgSetups
      BY <1>2 DEF SetupOk, MsgOk
    <2>4. /\ M \in MsgSetups /\ M.registered /\ M.exists /\ M.tlvtypes = got.msgs[m].tlvtypes
          /\ M.providers = got.msgs[m].providers
      BY <1>2, <2>1, <2>3 DEF MsgSetups
    <2>5. MsgOk(M, m)
      BY <2>3, <2>4 DEF MsgOk
    <2>6. /\ Members(M.tlvtypes) \cap Members(got.tlvtypes) = {}
          /\ \A n \in MsgTypes : n # m => Members(M.tlvtypes) \cap TypesOf(got, n) = {}
      BY <1>2, <2>4 DEF SetupOk, TypesOf
    <2>7. SetupOk(T) /\ T.msgs[m] = M /\ Others(got, T, m)
      <3>1. SetupOk(got)
        BY <1>2
      <3>2. QED
        BY <2>2, <2>5, <2>6, <3>1, MessagePutOk
    <2>8. Others(S, T, m)
      BY <1>2, <2>7 DEF Others
    <2>9. QED
      BY <2>4, <2>7, <2>8, FineOthers DEF Needed
  <1>5. QED
    BY <1>3, <1>4

\* rfc5444_writer_unregister_message frees it unless it is needed otherwise.
LEMMA MessageUnregistered ==
    ASSUME NEW S, Fine(S), NEW m \in MsgTypes, NEW T, T = unregister_message(S, m)
    PROVE  /\ Fine(T) /\ Others(S, T, m)
           /\ S.msgs[m].providers = <<>> /\ S.msgs[m].tlvtypes = <<>> => ~T.msgs[m].exists
  <1>1. SetupOk(S) /\ MsgOk(S.msgs[m], m) /\ S.msgs[m] \in MsgSetups
    BY DEF Fine, SetupOk, MsgOk
  <1>2. CASE ~S.msgs[m].exists
    <2>1. T = S
      BY <1>2 DEF unregister_message, Existing
    <2>2. QED
      BY <1>2, <2>1 DEF Others
  <1>3. CASE S.msgs[m].exists
    <2>1. PICK M, U : M = [S.msgs[m] EXCEPT !.registered = FALSE] /\ U = WithMessage(S, m, M)
      OBVIOUS
    <2>2. T = lazy_free_message(U, m)
      <3>1. T = lazy_free_message([S EXCEPT !.msgs[m].registered = FALSE], m)
        BY <1>3 DEF unregister_message, Existing
      <3>2. QED
        BY <2>1, <3>1 DEF WithMessage
    <2>3. /\ M \in MsgSetups /\ M.registered = FALSE /\ M.exists /\ M.tlvtypes = S.msgs[m].tlvtypes
          /\ M.providers = S.msgs[m].providers
      BY <1>1, <1>3, <2>1 DEF MsgSetups
    <2>4. MsgOk(M, m)
      BY <1>1, <2>3 DEF MsgOk
    <2>5. /\ Members(M.tlvtypes) \cap Members(S.tlvtypes) = {}
          /\ \A n \in MsgTypes : n # m => Members(M.tlvtypes) \cap TypesOf(S, n) = {}
      BY <1>1, <2>3 DEF SetupOk, TypesOf
    <2>6. SetupOk(U) /\ U.msgs[m] = M /\ Others(S, U, m)
      <3>1. SetupOk(S) /\ U = WithMessage(S, m, M)
        BY <1>1, <2>1
      <3>2. QED
        BY <2>4, <2>5, <3>1, MessagePutOk
    <2>7. /\ SetupOk(T) /\ Others(U, T, m)
          /\ T.msgs[m].exists => T.msgs[m] = M /\ Needed(T.msgs[m])
      BY <2>2, <2>6, Freed
    <2>8. Others(S, T, m)
      BY <2>6, <2>7 DEF Others
    <2>9. Fine(T)
      BY <2>7, <2>8, FineOthers
    <2>10. S.msgs[m].providers = <<>> /\ S.msgs[m].tlvtypes = <<>> => ~T.msgs[m].exists
      BY <2>3, <2>7 DEF Needed
    <2>11. QED
      BY <2>8, <2>9, <2>10
  <1>4. QED
    BY <1>2, <1>3

\* A generic TLV type.
LEMMA GenericTypeRegistered ==
    ASSUME NEW S, Fine(S), NEW t \in TlvTypes, ~TlvTypeAdded(S, t),
           NEW T, T = register_generic_tlvtype(S, t)
    PROVE  Fine(T)
  <1>1. SetupOk(S) /\ S \in Setups /\ Once(S.tlvtypes)
    BY DEF Fine, SetupOk
  <1>2. t \notin Members(S.tlvtypes) /\ \A m \in MsgTypes : t \notin TypesOf(S, m)
    BY <1>1, NotAdded
  <1>3. PICK s : s = Append(S.tlvtypes, t)
    OBVIOUS
  <1>4. Once(s) /\ Members(s) = Members(S.tlvtypes) \cup {t}
    BY <1>1, <1>2, <1>3, AppendedOnce
  <1>5. s \in Seq(TlvTypes)
    BY <1>4 DEF Once, InOrder
  <1>6. T = [S EXCEPT !.tlvtypes = s]
    BY <1>3 DEF register_generic_tlvtype
  <1>7. T \in Setups /\ T.msgs = S.msgs /\ T.tlvtypes = s
    BY <1>1, <1>5, <1>6 DEF Setups
  <1>8. \A m \in MsgTypes : TypesOf(T, m) = TypesOf(S, m)
    BY <1>7 DEF TypesOf
  <1>9. \A m \in MsgTypes : MsgOk(T.msgs[m], m) /\ TypesOf(T, m) \cap Members(T.tlvtypes) = {}
    BY <1>1, <1>2, <1>4, <1>7, <1>8 DEF SetupOk
  <1>10. \A m, n \in MsgTypes : m # n => TypesOf(T, m) \cap TypesOf(T, n) = {}
    BY <1>1, <1>8 DEF SetupOk
  <1>11. SetupOk(T)
    BY <1>4, <1>7, <1>9, <1>10 DEF SetupOk
  <1>12. QED
    BY <1>7, <1>11 DEF Fine, AllNeeded

\* A TLV type of one message type.
LEMMA MessageTypeRegistered ==
    ASSUME NEW S, Fine(S), NEW t \in TlvTypes, NEW m \in MsgTypes, ~TlvTypeAdded(S, t),
           NEW T, T = register_msg_tlvtype(S, t, m)
    PROVE  Fine(T)
  <1>1. PICK got, M : got = get_message(S, m) /\ M = [got.msgs[m] EXCEPT !.tlvtypes = Append(@, t)]
    OBVIOUS
  <1>2. SetupOk(S)
    BY DEF Fine
  <1>3. t \notin Members(S.tlvtypes) /\ \A n \in MsgTypes : t \notin TypesOf(S, n)
    BY <1>2, NotAdded
  <1>4. /\ SetupOk(got) /\ Others(S, got, m) /\ got.msgs[m].exists
        /\ \A n \in MsgTypes : TypesOf(got, n) = TypesOf(S, n)
    BY <1>1, <1>2, Got
  <1>5. t \notin Members(got.tlvtypes) /\ \A n \in MsgTypes : t \notin TypesOf(got, n)
    BY <1>3, <1>4 DEF Others
  <1>6. MsgOk(got.msgs[m], m) /\ got.msgs[m] \in MsgSetups
    BY <1>4 DEF SetupOk, MsgOk
  <1>7. PICK s : s = Append(got.msgs[m].tlvtypes, t)
    OBVIOUS
  <1>8. Once(s) /\ Members(s) = TypesOf(got, m) \cup {t} /\ s # <<>>
    <2>1. Once(got.msgs[m].tlvtypes) /\ t \notin Members(got.msgs[m].tlvtypes)
      BY <1>5, <1>6 DEF MsgOk, TypesOf
    <2>2. QED
      BY <1>7, <2>1, AppendedOnce DEF TypesOf
  <1>9. s \in Seq(TlvTypes)
    BY <1>8 DEF Once, InOrder
  <1>10. M \in MsgSetups /\ M.tlvtypes = s /\ M.exists /\ M.providers = got.msgs[m].providers
    BY <1>1, <1>4, <1>6, <1>7, <1>9 DEF MsgSetups
  <1>11. MsgOk(M, m)
    BY <1>6, <1>8, <1>10 DEF MsgOk
  <1>12. /\ Members(M.tlvtypes) \cap Members(got.tlvtypes) = {}
         /\ \A n \in MsgTypes : n # m => Members(M.tlvtypes) \cap TypesOf(got, n) = {}
    <2>1. Members(M.tlvtypes) = TypesOf(got, m) \cup {t}
      BY <1>8, <1>10
    <2>2. QED
      BY <1>4, <1>5, <2>1 DEF SetupOk
  <1>13. T = WithMessage(got, m, M)
    BY <1>1 DEF register_msg_tlvtype, WithMessage
  <1>14. SetupOk(T) /\ T.msgs[m] = M /\ Others(got, T, m)
    <2>1. SetupOk(got)
      BY <1>4
    <2>2. QED
      BY <1>11, <1>12, <1>13, <2>1, MessagePutOk
  <1>15. Others(S, T, m)
    BY <1>4, <1>14 DEF Others
  <1>16. QED
    BY <1>8, <1>10, <1>14, <1>15, FineOthers DEF Needed

\* A content provider, with types that are in no list yet.
LEMMA ProviderRegistered ==
    ASSUME NEW S, Fine(S), NEW p \in Providers, ~ProviderAdded(S, p),
           NEW types, Once(types), \A t \in Members(types) : ~TlvTypeAdded(S, t),
           NEW T, T = register_msgcontentprovider(S, p, types)
    PROVE  Fine(T)
  <1>1. PICK m, got : m = msg_type[p] /\ got = get_message(S, m)
    OBVIOUS
  <1>2. PICK s, l : s = got.msgs[m].tlvtypes \o types /\ l = InsertByKey(got.msgs[m].providers, priority, p)
    OBVIOUS
  <1>3. PICK M : M = [got.msgs[m] EXCEPT !.tlvtypes = s, !.providers = l]
    OBVIOUS
  <1>4. m \in MsgTypes /\ SetupOk(S) /\ p \in ProvidersOf(m)
    BY <1>1, WriterAssumption DEF Fine, ProvidersOf
  <1>5. ASSUME NEW t \in Members(types)
        PROVE  t \notin Members(S.tlvtypes) /\ \A n \in MsgTypes : t \notin TypesOf(S, n)
    BY <1>4, NotAdded
  <1>6. /\ SetupOk(got) /\ Others(S, got, m) /\ got.msgs[m].exists
        /\ got.msgs[m] = S.msgs[m] \/ got.msgs[m] = NewMessage
        /\ \A n \in MsgTypes : TypesOf(got, n) = TypesOf(S, n)
    BY <1>1, <1>4, Got
  <1>7. /\ Members(types) \cap Members(got.tlvtypes) = {}
        /\ \A n \in MsgTypes : Members(types) \cap TypesOf(got, n) = {}
    BY <1>5, <1>6 DEF Others
  <1>8. MsgOk(got.msgs[m], m) /\ got.msgs[m] \in MsgSetups
    BY <1>4, <1>6 DEF SetupOk, MsgOk
  <1>9. Once(s) /\ Members(s) = TypesOf(got, m) \cup Members(types)
    <2>1. Once(got.msgs[m].tlvtypes) /\ Members(got.msgs[m].tlvtypes) \cap Members(types) = {}
      BY <1>4, <1>7, <1>8 DEF MsgOk, TypesOf
    <2>2. QED
      BY <1>2, <2>1, Joined DEF TypesOf
  <1>10. s \in Seq(TlvTypes)
    BY <1>9 DEF Once, InOrder
  <1>11. InOrder(l, ProvidersOf(m), priority) /\ l # <<>>
    <2>1. InOrder(got.msgs[m].providers, ProvidersOf(m), priority)
      BY <1>8 DEF MsgOk
    <2>2. \A q \in ProvidersOf(m) : priority[q] \in Int
      BY WriterAssumption DEF ProvidersOf
    <2>3. ASSUME NEW j \in DOMAIN got.msgs[m].providers PROVE got.msgs[m].providers[j] # p
      <3>1. CASE got.msgs[m] = NewMessage
        BY <2>3, <3>1, OnceAtFirst DEF NewMessage, FreeMessage, Members
      <3>2. CASE got.msgs[m] = S.msgs[m]
        <4>1. p \notin Members(S.msgs[m].providers)
          BY <1>1, <1>4, <1>6, <3>2 DEF ProviderAdded, Existing
        <4>2. QED
          BY <2>3, <3>2, <4>1 DEF Members
      <3>3. QED
        BY <1>6, <3>1, <3>2
    <2>4. InOrder(l, ProvidersOf(m), priority)
      BY <1>2, <1>4, <2>1, <2>2, <2>3, Inserted
    <2>5. l # <<>>
      BY <1>2, <1>4, <2>1, <2>2, InsertedIsThere
    <2>6. QED
      BY <2>4, <2>5
  <1>12. l \in Seq(Providers)
    <2>1. ProvidersOf(m) \subseteq Providers
      BY DEF ProvidersOf
    <2>2. QED
      BY <1>11, <2>1 DEF InOrder
  <1>13. M \in MsgSetups /\ M.tlvtypes = s /\ M.exists /\ M.providers = l
    BY <1>3, <1>6, <1>8, <1>10, <1>12 DEF MsgSetups
  <1>14. MsgOk(M, m)
    BY <1>9, <1>11, <1>13 DEF MsgOk
  <1>15. /\ Members(M.tlvtypes) \cap Members(got.tlvtypes) = {}
         /\ \A n \in MsgTypes : n # m => Members(M.tlvtypes) \cap TypesOf(got, n) = {}
    <2>1. Members(M.tlvtypes) = TypesOf(got, m) \cup Members(types)
      BY <1>9, <1>13
    <2>2. QED
      BY <1>4, <1>6, <1>7, <2>1 DEF SetupOk
  <1>16. T = WithMessage(got, m, M)
    <2>1. T = [got EXCEPT !.msgs[m].tlvtypes = s, !.msgs[m].providers = l]
      <3>1. T = [got EXCEPT !.msgs[m].tlvtypes = @ \o types,
                            !.msgs[m].providers = InsertByKey(@, priority, p)]
        BY <1>1 DEF register_msgcontentprovider
      <3>2. got.msgs \in [MsgTypes -> MsgSetups] /\ got \in Setups
        BY <1>6 DEF SetupOk, Setups
      <3>3. QED
        BY <1>2, <1>4, <3>1, <3>2 DEF MsgSetups, Setups
    <2>2. got.msgs \in [MsgTypes -> MsgSetups]
      BY <1>6 DEF SetupOk, Setups
    <2>3. QED
      BY <1>3, <1>4, <2>1, <2>2 DEF WithMessage
  <1>17. SetupOk(T) /\ T.msgs[m] = M /\ Others(got, T, m)
    <2>1. SetupOk(got) /\ m \in MsgTypes
      BY <1>4, <1>6
    <2>2. QED
      BY <1>14, <1>15, <1>16, <2>1, MessagePutOk
  <1>18. Others(S, T, m)
    BY <1>6, <1>17 DEF Others
  <1>19. T.msgs[m].exists => Needed(T.msgs[m])
    BY <1>11, <1>13, <1>17 DEF Needed
  <1>20. QED
    BY <1>4, <1>17, <1>18, <1>19, FineOthers

\* Targets and packet handlers have nothing to do with message types.
LEMMA OtherListsChange ==
    ASSUME NEW S, Fine(S), NEW T, T \in Setups, T.msgs = S.msgs, T.tlvtypes = S.tlvtypes
    PROVE  Fine(T)
  BY DEF Fine, SetupOk, AllNeeded, TypesOf

-----------------------------------------------------------------------------
\* What is left of S when something is cleaned up.
Reduced(S, T) ==
    /\ Fine(T) /\ T.targets = S.targets /\ T.pkthandlers = S.pkthandlers
    /\ Members(T.tlvtypes) \subseteq Members(S.tlvtypes)
    /\ \A m \in MsgTypes : T.msgs[m].exists => S.msgs[m].exists

\* The message type is freed although each of its providers and TLV types might
\* free it before: it is marked as registered meanwhile.
LEMMA MessageCleaned ==
    ASSUME NEW S, Fine(S), NEW m \in MsgTypes, S.msgs[m].exists, NEW T, T = cleanup_message(S, m)
    PROVE  Reduced(S, T) /\ ~T.msgs[m].exists
  <1>1. PICK M, kept : /\ M = [S.msgs[m] EXCEPT !.registered = TRUE]
                       /\ kept = [S EXCEPT !.msgs[m].registered = TRUE]
    OBVIOUS
  <1>2. PICK bare, U : /\ bare = unregister_providers(kept, kept.msgs[m].providers)
                       /\ U = unregister_tlvtypes(bare, bare.msgs[m].tlvtypes)
    OBVIOUS
  <1>3. T = unregister_message(U, m)
    BY <1>1, <1>2 DEF cleanup_message
  <1>4. SetupOk(S) /\ MsgOk(S.msgs[m], m) /\ S.msgs[m] \in MsgSetups
    BY DEF Fine, SetupOk, MsgOk
  <1>5. /\ M \in MsgSetups /\ M.registered /\ M.exists /\ M.tlvtypes = S.msgs[m].tlvtypes
        /\ M.providers = S.msgs[m].providers
    BY <1>1, <1>4 DEF MsgSetups
  <1>6. kept = WithMessage(S, m, M)
    BY <1>1 DEF WithMessage
  <1>7. SetupOk(kept) /\ kept.msgs[m] = M /\ Others(S, kept, m)
    <2>1. MsgOk(M, m)
      BY <1>4, <1>5 DEF MsgOk
    <2>2. /\ Members(M.tlvtypes) \cap Members(S.tlvtypes) = {}
          /\ \A n \in MsgTypes : n # m => Members(M.tlvtypes) \cap TypesOf(S, n) = {}
      BY <1>4, <1>5 DEF SetupOk, TypesOf
    <2>3. SetupOk(S)
      BY <1>4
    <2>4. QED
      BY <1>6, <2>1, <2>2, <2>3, MessagePutOk
  <1>8. Fine(kept)
    BY <1>5, <1>7, FineOthers DEF Needed
  <1>9. kept.msgs[m].providers \in Seq(Providers)
    BY <1>5, <1>7 DEF MsgSetups
  <1>10. Less(kept, bare, {}, ProvidersIn(kept, m))
    BY <1>2, <1>7, <1>9, ProvidersGone DEF ProvidersIn
  <1>11. SetupOk(bare) /\ bare.msgs[m].tlvtypes \in Seq(TlvTypes)
    BY <1>10 DEF Less, SetupOk, MsgOk, Once, InOrder
  <1>12. Less(bare, U, TypesOf(bare, m), {})
    BY <1>2, <1>11, TypesGone DEF TypesOf
  <1>13. SetupOk(U) /\ Fine(U)
    <2>1. Fine(bare)
      BY <1>8, <1>10, FineLess
    <2>2. Fine(U)
      BY <1>12, <2>1, FineLess
    <2>3. QED
      BY <2>2 DEF Fine
  <1>14. U.msgs[m].providers = <<>>
    <2>1. ProvidersIn(U, m) = {}
      BY <1>10, <1>12 DEF Less
    <2>2. U.msgs[m].providers \in Seq(ProvidersOf(m))
      BY <1>13 DEF SetupOk, MsgOk, InOrder
    <2>3. QED
      BY <2>1, <2>2, NoMembers DEF ProvidersIn
  <1>15. U.msgs[m].tlvtypes = <<>>
    <2>1. TypesOf(U, m) = {}
      BY <1>12 DEF Less
    <2>2. U.msgs[m].tlvtypes \in Seq(TlvTypes)
      BY <1>13 DEF SetupOk, MsgOk, Once, InOrder
    <2>3. QED
      BY <2>1, <2>2, NoMembers DEF TypesOf
  <1>16. Fine(T) /\ Others(U, T, m) /\ ~T.msgs[m].exists
    BY <1>3, <1>13, <1>14, <1>15, MessageUnregistered
  <1>17. T.targets = S.targets /\ T.pkthandlers = S.pkthandlers
    BY <1>7, <1>10, <1>12, <1>16 DEF Others, Less
  <1>18. Members(T.tlvtypes) \subseteq Members(S.tlvtypes)
    <2>1. S.tlvtypes = kept.tlvtypes /\ T.tlvtypes = U.tlvtypes
      BY <1>7, <1>16 DEF Others
    <2>2. Members(bare.tlvtypes) \subseteq Members(kept.tlvtypes)
      BY <1>10 DEF Less
    <2>3. Members(U.tlvtypes) \subseteq Members(bare.tlvtypes)
      BY <1>12 DEF Less
    <2>4. QED
      BY <2>1, <2>2, <2>3
  <1>19. ASSUME NEW n \in MsgTypes, T.msgs[n].exists PROVE S.msgs[n].exists
    <2>1. n # m
      BY <1>16, <1>19
    <2>2. T.msgs[n] = U.msgs[n] /\ kept.msgs[n] = S.msgs[n]
      BY <1>7, <1>16, <2>1 DEF Others
    <2>3. (U.msgs[n].exists => bare.msgs[n].exists) /\ (bare.msgs[n].exists => kept.msgs[n].exists)
      BY <1>10, <1>12 DEF Less
    <2>4. QED
      BY <1>19, <2>2, <2>3
  <1>20. QED
    BY <1>16, <1>17, <1>18, <1>19 DEF Reduced

\* rfc5444_writer_cleanup goes through all message types, and nothing is left.
LEMMA AllCleaned ==
    ASSUME NEW S, Fine(S)
    PROVE  writer_cleanup(S) = setup_init
  <1>1. PICK R, U : /\ R = [S EXCEPT !.pkthandlers = <<>>, !.targets = <<>>]
                    /\ U = unregister_tlvtypes(R, S.tlvtypes)
    OBVIOUS
  <1>2. PICK step, numbers :
           /\ step = [T \in Setups |-> [m \in 0 .. MaxMsgType |->
                         IF m \in Existing(T) THEN cleanup_message(T, m) ELSE T]]
           /\ numbers = [n \in 1 .. MaxMsgType + 1 |-> n - 1]
    OBVIOUS
  <1>3. writer_cleanup(S) = ForEach(step, U, numbers)
    BY <1>1, <1>2 DEF writer_cleanup
  <1>4. PICK last : last = MaxMsgType + 1
    OBVIOUS
  <1>5. /\ MaxMsgType \in Nat /\ last \in Nat /\ MsgTypes \subseteq 0 .. MaxMsgType
    BY <1>4, WriterAssumption
  <1>6. /\ numbers \in Seq(Int) /\ Len(numbers) = last
        /\ \A n \in 1 .. last : numbers[n] = n - 1
    BY <1>2, <1>4, <1>5
  <1>7. S \in Setups /\ S.tlvtypes \in Seq(TlvTypes) /\ SetupOk(S)
    BY DEF Fine, SetupOk, Setups
  <1>8. /\ R \in Setups /\ R.msgs = S.msgs /\ R.tlvtypes = S.tlvtypes
        /\ R.targets = <<>> /\ R.pkthandlers = <<>>
    <2>1. <<>> \in Seq(Targets) /\ <<>> \in Seq(Handlers)
      OBVIOUS
    <2>2. R = [S EXCEPT !.pkthandlers = <<>>, !.targets = <<>>]
      BY <1>1
    <2>3. QED
      BY <1>7, <2>1, <2>2 DEF Setups
  <1>9. Fine(R)
    BY <1>8, OtherListsChange
  <1>10. Less(R, U, Members(S.tlvtypes), {})
    BY <1>1, <1>7, <1>9, TypesGone DEF Fine
  <1>11. /\ Fine(U) /\ Members(U.tlvtypes) = {}
         /\ U.targets = <<>> /\ U.pkthandlers = <<>>
    <2>1. Fine(U)
      BY <1>9, <1>10, FineLess
    <2>2. Members(U.tlvtypes) = {}
      BY <1>8, <1>10 DEF Less
    <2>3. QED
      BY <1>8, <1>10, <2>1, <2>2 DEF Less
  <1> DEFINE Clean(T, n) == /\ Fine(T) /\ Members(T.tlvtypes) = {}
                            /\ T.targets = <<>> /\ T.pkthandlers = <<>>
                            /\ \A m \in MsgTypes : m < n => ~T.msgs[m].exists
  <1>12. PICK Good : Good = [n \in Nat |-> {T \in Setups : Clean(T, n)}]
    OBVIOUS
  <1>13. \A T : Fine(T) => T \in Setups
    BY DEF Fine, SetupOk
  <1>14. U \in Good[0]
    <2>1. \A m \in MsgTypes : ~(m < 0)
      BY <1>5
    <2>2. Clean(U, 0)
      BY <1>11, <2>1
    <2>3. QED
      BY <1>11, <1>12, <1>13, <2>2
  <1>15. ASSUME NEW n \in 1 .. last, NEW T \in Good[n - 1] PROVE step[T][numbers[n]] \in Good[n]
    <2>1. PICK m : m = n - 1
      OBVIOUS
    <2>2. n \in Nat /\ m \in Nat /\ numbers[n] = m /\ m \in 0 .. MaxMsgType
      BY <1>4, <1>5, <1>6, <2>1
    <2>3. T \in Setups /\ Clean(T, m)
      BY <1>12, <2>1, <2>2
    <2>4. PICK V : V = step[T][m]
      OBVIOUS
    <2>5. V = IF m \in Existing(T) THEN cleanup_message(T, m) ELSE T
      BY <1>2, <2>2, <2>3, <2>4
    <2>6. Clean(V, n)
      <3>1. ASSUME NEW x \in MsgTypes, x < n PROVE x < m \/ x = m
        <4>1. x \in Nat
          BY <1>5
        <4>2. x < m + 1
          BY ONLY <2>1, <2>2, <3>1
        <4>3. QED
          BY ONLY <2>2, <4>1, <4>2
      <3>2. CASE m \in Existing(T)
        <4>1. m \in MsgTypes /\ T.msgs[m].exists /\ V = cleanup_message(T, m) /\ Fine(T)
          BY <2>3, <2>5, <3>2 DEF Existing
        <4>2. Reduced(T, V) /\ ~V.msgs[m].exists
          BY <4>1, MessageCleaned
        <4>3. Fine(V) /\ Members(V.tlvtypes) = {} /\ V.targets = <<>> /\ V.pkthandlers = <<>>
          BY <2>3, <4>2 DEF Reduced
        <4>4. ASSUME NEW x \in MsgTypes, x < n PROVE ~V.msgs[x].exists
          BY <2>3, <3>1, <4>2, <4>4 DEF Reduced
        <4>5. QED
          BY <4>3, <4>4
      <3>3. CASE m \notin Existing(T)
        <4>1. V = T
          BY <2>5, <3>3
        <4>2. \A x \in MsgTypes : x < n => ~T.msgs[x].exists
          BY <2>3, <3>1, <3>3 DEF Existing
        <4>3. QED
          BY <2>3, <4>1, <4>2
      <3>4. QED
        BY <3>2, <3>3
    <2>7. QED
      BY <1>12, <1>13, <2>2, <2>4, <2>6
  <1>16. ForEach(step, U, numbers) \in Good[last]
    BY <1>5, <1>6, <1>14, <1>15, LoopReaches
  <1>17. PICK W : W = writer_cleanup(S)
    OBVIOUS
  <1>18. W \in Setups /\ Clean(W, last)
    BY <1>3, <1>5, <1>12, <1>16, <1>17
  <1>19. \A m \in MsgTypes : W.msgs[m] = FreeMessage
    <2>1. \A m \in MsgTypes : m < last
      BY <1>4, <1>5
    <2>2. QED
      BY <1>18, <2>1 DEF Fine, SetupOk, MsgOk
  <1>20. W.tlvtypes = <<>>
    <2>1. W.tlvtypes \in Seq(TlvTypes) /\ Members(W.tlvtypes) = {}
      BY <1>18 DEF Fine, SetupOk, Setups
    <2>2. QED
      BY <2>1, NoMembers
  <1>21. W.msgs = [m \in MsgTypes |-> FreeMessage]
    BY <1>18, <1>19 DEF Setups
  <1>22. W = [msgs |-> [m \in MsgTypes |-> FreeMessage], tlvtypes |-> <<>>,
              targets |-> <<>>, pkthandlers |-> <<>>]
    BY <1>18, <1>20, <1>21 DEF Setups
  <1>23. QED
    BY <1>17, <1>22 DEF setup_init

-----------------------------------------------------------------------------
\* At first nothing is registered.
LEMMA EmptySetup == Fine(setup_init)
  <1> PICK S : S = setup_init
    OBVIOUS
  <1>1. <<>> \in Seq(TlvTypes) /\ <<>> \in Seq(Targets) /\ <<>> \in Seq(Handlers)
    OBVIOUS
  <1>2. \A m \in MsgTypes : FreeMessage \in MsgSetups /\ MsgOk(FreeMessage, m)
    BY FreshOk DEF MsgOk
  <1>3. /\ S \in Setups /\ S.tlvtypes = <<>> /\ \A m \in MsgTypes : S.msgs[m] = FreeMessage
    BY <1>1, <1>2 DEF setup_init, Setups
  <1>4. FreeMessage.tlvtypes = <<>> /\ FreeMessage.exists = FALSE
    BY DEF FreeMessage
  <1>5. \A m \in MsgTypes : TypesOf(S, m) = {}
    BY <1>3, <1>4, OnceAtFirst DEF TypesOf
  <1>6. SetupOk(S)
    BY <1>2, <1>3, <1>5, OnceAtFirst DEF SetupOk
  <1>7. AllNeeded(S)
    BY <1>3, <1>4 DEF AllNeeded
  <1>8. QED
    BY <1>6, <1>7 DEF Fine

\* A list stays one when something is taken out.
LEMMA WithoutIn ==
    ASSUME NEW S, NEW s \in Seq(S), NEW e
    PROVE  Without(s, e) \in Seq(S)
  <1>1. CASE e \notin Members(s)
    BY <1>1 DEF Without
  <1>2. CASE e \in Members(s)
    <2>1. PICK at : at = CHOOSE k \in DOMAIN s : s[k] = e
      OBVIOUS
    <2>2. at \in DOMAIN s
      BY <1>2, <2>1 DEF Members
    <2>3. at \in 1 .. Len(s)
      BY <2>2
    <2>4. Without(s, e) = RemoveAt(s, at)
      BY <1>2, <2>1 DEF Without
    <2>5. RemoveAt(s, at) \in Seq(S)
      BY <2>3, Shortened
    <2>6. QED
      BY <2>4, <2>5
  <1>3. QED
    BY <1>1, <1>2

\* Registering and unregistering, in any order.
LEMMA SetupStepFine == Fine(setup) /\ SetupStep => Fine(setup')
  <1> SUFFICES ASSUME Fine(setup), SetupStep PROVE Fine(setup')
    OBVIOUS
  <1>0. SetupOk(setup) /\ setup \in Setups
    BY DEF Fine, SetupOk
  <1>1. ASSUME NEW m \in MsgTypes, RegisterMessage(m) PROVE Fine(setup')
    <2>1. setup' = register_message(setup, m, target_specific[m])
      BY <1>1 DEF RegisterMessage, Setup, Replace
    <2>2. target_specific[m] \in BOOLEAN
      BY WriterAssumption
    <2>3. QED
      BY <2>1, <2>2, MessageRegistered
  <1>2. ASSUME NEW m \in MsgTypes, UnregisterMessage(m) PROVE Fine(setup')
    <2>1. setup' = unregister_message(setup, m)
      BY <1>2 DEF UnregisterMessage, Setup, Replace
    <2>2. QED
      BY <2>1, MessageUnregistered
  <1>3. ASSUME NEW p \in Providers, RegisterProvider(p) PROVE Fine(setup')
    <2>1. /\ setup' = register_msgcontentprovider(setup, p, tlvtypes_of[p])
          /\ ~ProviderAdded(setup, p)
          /\ \A t \in Members(tlvtypes_of[p]) : ~TlvTypeAdded(setup, t)
      BY <1>3 DEF RegisterProvider, Setup, Replace
    <2>2. Once(tlvtypes_of[p])
      BY OnceAtFirst
    <2>3. QED
      BY <2>1, <2>2, ProviderRegistered
  <1>4. ASSUME NEW p \in Providers, UnregisterProvider(p) PROVE Fine(setup')
    <2>1. setup' = unregister_content_provider(setup, p, tlvtypes_of[p])
      BY <1>4 DEF UnregisterProvider, Setup, Replace
    <2>2. tlvtypes_of[p] \in Seq(TlvTypes)
      BY WriterAssumption
    <2>3. CASE ProviderAdded(setup, p)
      <3>1. Less(setup, setup', Members(tlvtypes_of[p]), {p})
        BY <1>0, <2>1, <2>2, <2>3, ProviderGone
      <3>2. QED
        BY <3>1, FineLess
    <2>4. CASE ~ProviderAdded(setup, p)
      <3>1. setup' = setup
        BY <2>1, <2>4 DEF unregister_content_provider
      <3>2. QED
        BY <3>1
    <2>5. QED
      BY <2>3, <2>4
  <1>5. ASSUME NEW t \in TlvTypes, t \in DOMAIN own_tlvtypes, RegisterTlvType(t) PROVE Fine(setup')
    <2>1. /\ ~TlvTypeAdded(setup, t)
          /\ setup' = IF own_tlvtypes[t] = -1 THEN register_generic_tlvtype(setup, t)
                      ELSE register_msg_tlvtype(setup, t, own_tlvtypes[t])
      BY <1>5 DEF RegisterTlvType, Setup, Replace
    <2>2. CASE own_tlvtypes[t] = -1
      BY <2>1, <2>2, GenericTypeRegistered
    <2>3. CASE own_tlvtypes[t] # -1
      <3>1. own_tlvtypes[t] \in MsgTypes
        BY <1>5, <2>3, WriterAssumption
      <3>2. QED
        BY <2>1, <2>3, <3>1, MessageTypeRegistered
    <2>4. QED
      BY <2>2, <2>3
  <1>6. ASSUME NEW t \in TlvTypes, UnregisterTlvType(t) PROVE Fine(setup')
    <2>1. setup' = unregister_addrtlvtype(setup, t)
      BY <1>6 DEF UnregisterTlvType, Setup, Replace
    <2>2. Less(setup, setup', {t}, {})
      BY <1>0, <2>1, TypeGone
    <2>3. QED
      BY <2>2, FineLess
  <1>7. ASSUME NEW t \in Targets, RegisterTarget(t) \/ UnregisterTarget(t) PROVE Fine(setup')
    <2>1. PICK s : s \in Seq(Targets) /\ setup' = [setup EXCEPT !.targets = s]
      <3>1. setup.targets \in Seq(Targets)
        BY <1>0 DEF Setups
      <3>2. CASE RegisterTarget(t)
        <4>1. setup' = [setup EXCEPT !.targets = Append(setup.targets, t)]
          BY <3>2 DEF RegisterTarget, Setup, Replace, register_target
        <4>2. Append(setup.targets, t) \in Seq(Targets)
          BY <3>1
        <4>3. QED
          BY <4>1, <4>2
      <3>3. CASE UnregisterTarget(t)
        <4>1. setup' = [setup EXCEPT !.targets = Without(setup.targets, t)]
          BY <3>3 DEF UnregisterTarget, Setup, Replace, unregister_target
        <4>2. Without(setup.targets, t) \in Seq(Targets)
          BY <3>1, WithoutIn
        <4>3. QED
          BY <4>1, <4>2
      <3>4. QED
        BY <1>7, <3>2, <3>3
    <2>2. setup' \in Setups /\ setup'.msgs = setup.msgs /\ setup'.tlvtypes = setup.tlvtypes
      BY <1>0, <2>1 DEF Setups
    <2>3. QED
      BY <2>2, OtherListsChange
  <1>8. ASSUME NEW h \in Handlers, RegisterPkthandler(h) \/ UnregisterPkthandler(h) PROVE Fine(setup')
    <2>1. PICK s : s \in Seq(Handlers) /\ setup' = [setup EXCEPT !.pkthandlers = s]
      <3>1. setup.pkthandlers \in Seq(Handlers)
        BY <1>0 DEF Setups
      <3>2. CASE RegisterPkthandler(h)
        <4>1. setup' = [setup EXCEPT !.pkthandlers = Append(setup.pkthandlers, h)]
          BY <3>2 DEF RegisterPkthandler, Setup, Replace, register_pkthandler
        <4>2. Append(setup.pkthandlers, h) \in Seq(Handlers)
          BY <3>1
        <4>3. QED
          BY <4>1, <4>2
      <3>3. CASE UnregisterPkthandler(h)
        <4>1. setup' = [setup EXCEPT !.pkthandlers = Without(setup.pkthandlers, h)]
          BY <3>3 DEF UnregisterPkthandler, Setup, Replace, unregister_pkthandler
        <4>2. Without(setup.pkthandlers, h) \in Seq(Handlers)
          BY <3>1, WithoutIn
        <4>3. QED
          BY <4>1, <4>2
      <3>4. QED
        BY <1>8, <3>2, <3>3
    <2>2. setup' \in Setups /\ setup'.msgs = setup.msgs /\ setup'.tlvtypes = setup.tlvtypes
      BY <1>0, <2>1 DEF Setups
    <2>3. QED
      BY <2>2, OtherListsChange
  <1>9. CASE WriterCleanup
    <2>1. setup' = writer_cleanup(setup)
      BY <1>9 DEF WriterCleanup, Replace
    <2>2. QED
      BY <2>1, AllCleaned, EmptySetup
  <1>10. QED
    BY <1>1, <1>2, <1>3, <1>4, <1>5, <1>6, <1>7, <1>8, <1>9 DEF SetupStep

\* Nothing else registers anything.
LEMMA NextFine == Fine(setup) /\ [Next]_vars => Fine(setup')
  <1> SUFFICES ASSUME Fine(setup), [Next]_vars PROVE Fine(setup')
    OBVIOUS
  <1>1. CASE Write
    <2>1. \/ SetupStep
          \/ \E plan \in plans : CreateMessage(plan) \/ CreateRefused(plan)
          \/ \E t \in Targets, force \in BOOLEAN : Flush(t, force)
      BY <1>1 DEF Write
    <2>2. ASSUME NEW plan \in plans, CreateMessage(plan) \/ CreateRefused(plan) PROVE setup' = setup
      BY <2>2 DEF CreateMessage, CreateRefused
    <2>3. ASSUME NEW t \in Targets, NEW force \in BOOLEAN, Flush(t, force) PROVE setup' = setup
      BY <2>3 DEF Flush
    <2>4. QED
      BY <2>1, <2>2, <2>3, SetupStepFine
  <1>2. CASE Create
    <2>1. CreationStep
      BY <1>2 DEF Create
    <2>2. setup' = setup
      BY <2>1 DEF CreationStep, SkipAddress, TakeAddress, LastAddress, FinalizeFragment, EndCreation
    <2>3. QED
      BY <2>2
  <1>3. CASE SetReaderUp \/ ReadForeign \/ ReadSent \/ UNCHANGED vars
    <2>1. setup' = setup
      BY <1>3 DEF SetReaderUp, ReadForeign, ReadSent, vars, wvars
    <2>2. QED
      BY <2>1
  <1>4. CASE Read
    <2>1. setup' = setup
      BY <1>4 DEF Read, ForwardMsg, wvars
    <2>2. QED
      BY <2>1
  <1>5. QED
    BY <1>1, <1>2, <1>3, <1>4 DEF Next

\* A set has one element at most when all its elements are the same.
LEMMA AtMostOne ==
    ASSUME NEW A, \A x, y \in A : x = y
    PROVE  Cardinality(A) <= 1
  <1>1. CASE A = {}
    BY <1>1, FS_EmptySet
  <1>2. CASE A # {}
    <2>1. PICK x : x \in A
      BY <1>2
    <2>2. A = {x}
      BY <2>1
    <2>3. QED
      BY <2>2, FS_Singleton
  <1>3. QED
    BY <1>1, <1>2

\* In order, message types come and go as they should.
LEMMA FineTypes == Fine(setup) => TypesComeAndGo
  <1> SUFFICES ASSUME Fine(setup) PROVE TypesComeAndGo
    OBVIOUS
  <1>1. PICK S : S = setup
    OBVIOUS
  <1>2. SetupOk(S) /\ AllNeeded(S)
    BY <1>1 DEF Fine
  <1>3. ASSUME NEW m \in Existing(S)
        PROVE  LET msgtype == S.msgs[m]
               IN  /\ msgtype.registered \/ msgtype.providers # <<>> \/ msgtype.tlvtypes # <<>>
                   /\ \A j, k \in DOMAIN msgtype.providers :
                         j < k => priority[msgtype.providers[j]] <= priority[msgtype.providers[k]]
                   /\ \A p \in Members(msgtype.providers) : msg_type[p] = m
    <2>1. m \in MsgTypes /\ S.msgs[m].exists
      BY <1>3 DEF Existing
    <2>2. InOrder(S.msgs[m].providers, ProvidersOf(m), priority)
      BY <1>2, <2>1 DEF SetupOk, MsgOk
    <2>3. S.msgs[m].registered \/ S.msgs[m].providers # <<>> \/ S.msgs[m].tlvtypes # <<>>
      BY <1>2, <2>1 DEF AllNeeded, Needed
    <2>4. \A j, k \in DOMAIN S.msgs[m].providers :
             j < k => priority[S.msgs[m].providers[j]] <= priority[S.msgs[m].providers[k]]
      BY <2>2 DEF InOrder
    <2>5. \A p \in Members(S.msgs[m].providers) : msg_type[p] = m
      <3>1. S.msgs[m].providers \in Seq(ProvidersOf(m))
        BY <2>2 DEF InOrder
      <3>2. Members(S.msgs[m].providers) \subseteq ProvidersOf(m)
        BY <3>1, ElementOfSeq DEF Members
      <3>3. QED
        BY <3>2 DEF ProvidersOf
    <2>6. QED
      BY <2>3, <2>4, <2>5
  <1>4. ASSUME NEW t \in TlvTypes
        PROVE  Cardinality({<<-1, k>> : k \in {j \in DOMAIN S.tlvtypes : S.tlvtypes[j] = t}}
                  \cup UNION {{<<m, k>> : k \in {j \in DOMAIN S.msgs[m].tlvtypes :
                                                    S.msgs[m].tlvtypes[j] = t}}
                                : m \in Existing(S)}) <= 1
    <2>1. PICK G : G = {<<-1, k>> : k \in {j \in DOMAIN S.tlvtypes : S.tlvtypes[j] = t}}
      OBVIOUS
    <2>2. PICK H : H = UNION {{<<m, k>> : k \in {j \in DOMAIN S.msgs[m].tlvtypes :
                                                    S.msgs[m].tlvtypes[j] = t}}
                                : m \in Existing(S)}
      OBVIOUS
    <2>3. \A x \in G : \E k \in DOMAIN S.tlvtypes : x = <<-1, k>> /\ S.tlvtypes[k] = t
      BY <2>1
    <2>4. \A x \in H : \E m \in Existing(S) : \E k \in DOMAIN S.msgs[m].tlvtypes :
                          x = <<m, k>> /\ S.msgs[m].tlvtypes[k] = t
      BY <2>2
    <2>5. \A m \in Existing(S) : m \in MsgTypes
      BY DEF Existing
    <2>6. ASSUME NEW x \in G, NEW y \in G PROVE x = y
      <3>1. \A j, k \in DOMAIN S.tlvtypes : S.tlvtypes[j] = S.tlvtypes[k] => j = k
        BY <1>2 DEF SetupOk, Once, InOrder
      <3>2. QED
        BY <2>3, <3>1
    <2>7. ASSUME NEW x \in G, NEW y \in H PROVE FALSE
      <3>1. t \in Members(S.tlvtypes)
        BY <2>3 DEF Members
      <3>2. PICK m \in Existing(S) : \E k \in DOMAIN S.msgs[m].tlvtypes : S.msgs[m].tlvtypes[k] = t
        BY <2>4
      <3>3. t \in TypesOf(S, m)
        BY <3>2 DEF TypesOf, Members
      <3>4. TypesOf(S, m) \cap Members(S.tlvtypes) = {}
        BY <1>2, <2>5 DEF SetupOk
      <3>5. QED
        BY <3>1, <3>3, <3>4
    <2>8. ASSUME NEW x \in H, NEW y \in H PROVE x = y
      <3>1. PICK m \in Existing(S) : \E k \in DOMAIN S.msgs[m].tlvtypes :
               x = <<m, k>> /\ S.msgs[m].tlvtypes[k] = t
        BY <2>4
      <3>2. PICK n \in Existing(S) : \E k \in DOMAIN S.msgs[n].tlvtypes :
               y = <<n, k>> /\ S.msgs[n].tlvtypes[k] = t
        BY <2>4
      <3>3. t \in TypesOf(S, m) /\ t \in TypesOf(S, n)
        BY <3>1, <3>2 DEF TypesOf, Members
      <3>4. m = n
        BY <1>2, <2>5, <3>3 DEF SetupOk
      <3>5. \A j, k \in DOMAIN S.msgs[m].tlvtypes :
               S.msgs[m].tlvtypes[j] = S.msgs[m].tlvtypes[k] => j = k
        BY <1>2, <2>5 DEF SetupOk, MsgOk, Once, InOrder
      <3>6. QED
        BY <3>1, <3>2, <3>4, <3>5
    <2>9. \A x, y \in G \cup H : x = y
      BY <2>6, <2>7, <2>8
    <2>10. QED
      BY <2>1, <2>2, <2>9, AtMostOne
  <1>5. writer_cleanup(S) = setup_init
    BY <1>1, AllCleaned
  <1>6. QED
    BY <1>1, <1>3, <1>4, <1>5 DEF TypesComeAndGo

\* A message type exists exactly as long as something is registered for it, its
\* content providers are in the order of their priorities, and no address TLV type
\* is registered twice, whatever is registered and unregistered in whichever order;
\* rfc5444_writer_cleanup frees all that is registered, although each of a message
\* type's providers and TLV types could be the last that keeps it (rfc5444_writer.c).
THEOREM TypesAreInOrder == Spec => []TypesComeAndGo
  <1>1. Init => Fine(setup)
    BY EmptySetup DEF Init, WriterInit
  <1>2. Fine(setup) /\ [Next]_vars => Fine(setup)'
    BY NextFine
  <1>3. QED
    BY <1>1, <1>2, FineTypes, PTL DEF Spec
=============================================================================
