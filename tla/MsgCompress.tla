---------------------------- MODULE MsgCompress ----------------------------
(***************************************************************************)
(* Address compression of the message generator (rfc5444_msg_generator.c). *)
(* The addresses of a message fragment are packed into address blocks that *)
(* share a head.  For every head length i the generator keeps a session,   *)
(* acs[i]: what the fragment costs if the block being written has a head   *)
(* of i octets.  Once an address is in, the cheapest session says where    *)
(* the block that ends with the address before it has begun.               *)
(*                                                                         *)
(* An address a is a record of its octets, its prefix length and its TLVs  *)
(* in the order of their types.  frag is the list of the addresses of the  *)
(* fragment: `index` appears in differences only, and the position in frag *)
(* stands for it.                                                          *)
(***************************************************************************)
EXTENDS TlvWriter, FiniteSets, SequencesExt

CONSTANTS AddrLen,   \* msg_addr_len
          NoAddress  \* NULL

ASSUME AddrLenAssumption == AddrLen \in 1..16

Heads == 0..AddrLen - 1
Index(frag, a) == CHOOSE p \in DOMAIN frag : frag[p] = a

Full == 8 * AddrLen   \* the prefix length that need not be written
Folded(f(_, _), base, s) ==
    FoldLeft(LAMBDA acc, x : Given(acc, LAMBDA y : f(y, x)), base, s)
Total(f(_), s) == FoldLeft(LAMBDA sum, x : sum + f(x), 0, s)

\* The TLV of the same type on the address before, if there is one.
TypeOf(t) == <<t.type, t.ext>>
OfType(a, tt) == SelectSeq(a.tlvs, LAMBDA t : TypeOf(t) = tt)

\* tlv->_same_length and tlv->_same_value; last is NoAddress in front.
SameValue(t, last) ==
    last # NoAddress /\ OfType(last, TypeOf(t)) # <<>> /\ OfType(last, TypeOf(t))[1].value = t.value
SameLength(t, last) ==
    /\ last # NoAddress /\ OfType(last, TypeOf(t)) # <<>>
    /\ Len(OfType(last, TypeOf(t))[1].value) = Len(t.value)

CommonHead(a, b) ==
    Cardinality({i \in 1..AddrLen : \A j \in 1..i : a.bytes[j] = b.bytes[j]})

-----------------------------------------------------------------------------
\* memset(acs, 0, ...); the entry for a head of all octets is never written.
NoSession == [ptr |-> NoAddress, total |-> 0, current |-> 0,
              multiplen |-> FALSE, closed |-> FALSE]

\* Sessions, and per TLV type and head length how many addresses the TLV being
\* written covers and whether their values differ.
SessionInit(types) ==
    [acs |-> [i \in 0..AddrLen |-> NoSession],
     count |-> [tt \in types |-> [i \in Heads |-> 0]],
     multi |-> [tt \in types |-> [i \in Heads |-> FALSE]],
     same_prefixlen |-> 1]

\* _close_addrblock: the cheapest session with at least the common head says
\* where the block that ends with last begins.  blk holds _block_start,
\* _block_headlen and _block_multiple_prefixlen of the addresses.
Cheapest(acs, common) ==
    CHOOSE b \in {common} \cup {i \in Heads : i > common} :
       /\ \A i \in {common} \cup {j \in Heads : j > common} :
             acs[b].total < acs[i].total \/ (acs[b].total = acs[i].total /\ b <= i)

close_addrblock_block(acs, blk, last, common) ==
    LET best == Cheapest(acs, common)
    IN  IF ~acs[best].closed \/ blk[last].start = NoAddress
        THEN [blk EXCEPT ![last] = [start |-> acs[best].ptr, headlen |-> best,
                                    multiplen |-> acs[best].multiplen]]
        ELSE blk

close_addrblock_acs(acs, common) ==
    [i \in DOMAIN acs |-> IF i \in Heads /\ i > common
                          THEN [acs[i] EXCEPT !.total = acs[Cheapest(acs, common)].total]
                          ELSE acs[i]]

-----------------------------------------------------------------------------
\* Mutant: the index fields are forgotten.
TlvCostNoIndex(t) ==
    2 + (IF t.ext > 0 THEN 1 ELSE 0) + Len(t.value)
      + (IF Len(t.value) > 255 THEN 2 ELSE IF Len(t.value) > 0 THEN 1 ELSE 0)

\* What TLV t costs in a block of its own.
TlvCost(t) ==
    4 + (IF t.ext > 0 THEN 1 ELSE 0) + Len(t.value)
      + (IF Len(t.value) > 255 THEN 2 ELSE IF Len(t.value) > 0 THEN 1 ELSE 0)

\* What it adds to the TLV of the address before in session i.
ContinueTlvCost(s, i, t, last) ==
    IF ~SameLength(t, last) THEN TlvCost(t)
    ELSE IF s.multi[TypeOf(t)][i] THEN Len(t.value)
    ELSE IF ~SameValue(t, last) THEN Len(t.value) * s.count[TypeOf(t)][i]
    ELSE 0

\* _compress_address: frag ends with the address a that is taken up; head is what
\* it has in common with the address before, same counts equal prefix lengths, and
\* acs are the sessions once a block with a longer head is closed.
NewCost(a, i) ==
    2 + (IF i > 0 THEN 1 ELSE 0) + AddrLen + (IF a.plen # Full THEN 1 ELSE 0)
      + 2 + Total(TlvCost, a.tlvs)
GoOnCost(s, acs, frag, last, same, i) ==
    LET a == frag[Len(frag)]
        prefix == IF acs[i].multiplen THEN 1
                  ELSE IF same = 1 THEN Index(frag, acs[i].ptr) - Len(frag) + 1 ELSE 0
    IN  AddrLen - i + prefix + Total(LAMBDA t : ContinueTlvCost(s, i, t, last), a.tlvs)

\* A block cannot go on with the first address or another head (ends), and does
\* not when it is cheaper to begin a new one (closed).
Compressed(s, acs, frag, last, same, ends) ==
    LET a    == frag[Len(frag)]
        base == acs[AddrLen - 1].total
        mine == {TypeOf(a.tlvs[k]) : k \in DOMAIN a.tlvs}
    IN  Given([i \in Heads |-> IF ends[i] THEN 0 ELSE GoOnCost(s, acs, frag, last, same, i)],
              LAMBDA go_on :
        Given([i \in Heads |-> ends[i] \/ acs[i].total + go_on[i] > base + NewCost(a, i)],
              LAMBDA closed :
        LET step(i) ==
                IF closed[i]
                THEN [ptr |-> a, total |-> base, current |-> NewCost(a, i), multiplen |-> FALSE,
                      closed |-> last # NoAddress]
                ELSE [acs[i] EXCEPT !.current = go_on[i], !.closed = FALSE,
                                    !.multiplen = @ \/ same = 1]
            restart(tt, i) == closed[i] \/ ~SameLength(OfType(a, tt)[1], last)
        IN  [acs |-> [i \in DOMAIN acs |-> IF i \in Heads THEN step(i) ELSE acs[i]],
             count |-> [tt \in DOMAIN s.count |-> [i \in Heads |->
                           IF tt \notin mine THEN s.count[tt][i]
                           ELSE IF restart(tt, i) THEN 1 ELSE s.count[tt][i] + 1]],
             multi |-> [tt \in DOMAIN s.multi |-> [i \in Heads |->
                           IF tt \notin mine THEN s.multi[tt][i]
                           ELSE ~restart(tt, i) /\ (s.multi[tt][i]
                                                    \/ ~SameValue(OfType(a, tt)[1], last))]],
             same_prefixlen |-> same]))

compress_address(s, frag) ==
    LET a    == frag[Len(frag)]
        last == frag[Len(frag) - 1]
        head == CommonHead(a, last)
    IN  IF Len(frag) = 1
        THEN Compressed(s, s.acs, frag, NoAddress, s.same_prefixlen, [i \in Heads |-> TRUE])
        ELSE Given(close_addrblock_acs(s.acs, head), LAMBDA acs :
                Compressed(s, acs, frag, last,
                           IF a.plen = last.plen THEN s.same_prefixlen + 1 ELSE 1,
                           [i \in Heads |-> head < i]))

compress_address_blk(s, frag, blk) ==
    IF Len(frag) = 1 THEN blk
    ELSE LET last == frag[Len(frag) - 1]
         IN  close_addrblock_block(s.acs, blk, last, CommonHead(frag[Len(frag)], last))

\* The head length of the cheapest session in which the address still fits, -1
\* if there is none; a block holds at most 255 addresses.
best_head(s, frag, max_msg_size) ==
    LET size(i) == s.acs[i].total + s.acs[i].current
        fit == {i \in Heads : size(i) <= max_msg_size
                              /\ Len(frag) - Index(frag, s.acs[i].ptr) <= 254}
    IN  IF fit = {} THEN -1
        ELSE CHOOSE b \in fit : \A i \in fit : size(b) < size(i) \/ (size(b) = size(i) /\ b <= i)

\* The address is in: its cost is part of the total.
AddCost(s) ==
    [s EXCEPT !.acs = [i \in DOMAIN @ |->
        IF i \in Heads THEN [@[i] EXCEPT !.total = @ + s.acs[i].current, !.current = 0]
        ELSE @[i]]]
=============================================================================
