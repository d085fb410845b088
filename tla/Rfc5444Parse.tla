---------------------------- MODULE Rfc5444Parse ----------------------------
(***************************************************************************)
(* Parsing of RFC 5444 packets (rfc5444_reader.c).  buf is the received    *)
(* packet, a position p the number of octets before it, and eob where the  *)
(* part that may be read ends.                                             *)
(*                                                                         *)
(* After the end the code reads zeros, advances no more and remembers the  *)
(* error.  Here positions go on: one past the end is that error, and the   *)
(* checks on the way see the same zeros.                                   *)
(***************************************************************************)
EXTENDS MsgEncode, SortedSeq

\* enum rfc5444_result
DROP_PACKET          == 5
DROP_MESSAGE         == 4
DROP_MSG_BUT_FORWARD == 3
DROP_ADDRESS         == 2
DROP_TLV             == 1
OKAY                 == 0
UNSUPPORTED_VERSION  == -1
END_OF_BUFFER        == -2
BAD_TLV_IDXFLAGS     == -3
BAD_TLV_VALUEFLAGS   == -4
BAD_TLV_LENGTH       == -5
EMPTY_ADDRBLOCK      == -7
BAD_MSG_TAILFLAGS    == -8
BAD_MSG_PREFIXFLAGS  == -9
MTU_TOO_SMALL        == -12
NO_MSGCREATOR        == -13
BAD_ADDR_HEAD_LENGTH == -18
BAD_ADDR_TAIL_LENGTH == -19
BAD_TLV_INDEX        == -20

\* Flags of the packet octet.
PKT_SEQNO == 8
PKT_TLV   == 4

\* _rfc5444_get_u8, _rfc5444_get_u16
get_u8(buf, p, eob)  == IF p < eob THEN buf[p + 1] ELSE 0
get_u16(buf, p, eob) == 256 * get_u8(buf, p, eob) + get_u8(buf, p + 1, eob)
Octets(buf, p, n)    == SubSeq(buf, p + 1, p + n)

\* What a parser returns after an error.
Failed(res) == [res |-> res, p |-> 0]

-----------------------------------------------------------------------------
\* The fixed fields of _parse_tlv.  Without an index the TLV is for all
\* addresses, and without addresses for index 0 to 255.
TlvFields(buf, p, eob, addr_count) ==
    LET flags  == get_u8(buf, p + 1, eob)
        p_idx  == p + 2 + (IF HasFlag(flags, TYPEEXT) THEN 1 ELSE 0)
        one    == HasFlag(flags, SINGLE_IDX)
        two    == HasFlag(flags, MULTI_IDX)
        p_len  == p_idx + (IF one THEN 1 ELSE IF two THEN 2 ELSE 0)
        p_val  == p_len + (IF ~HasFlag(flags, VALUE) THEN 0
                           ELSE IF HasFlag(flags, EXTVALUE) THEN 2 ELSE 1)
    IN  [type   |-> get_u8(buf, p, eob),
         ext    |-> IF HasFlag(flags, TYPEEXT) THEN get_u8(buf, p + 2, eob) ELSE 0,
         index1 |-> IF one \/ two THEN get_u8(buf, p_idx, eob) ELSE 0,
         index2 |-> IF one THEN get_u8(buf, p_idx, eob)
                    ELSE IF two THEN get_u8(buf, p_idx + 1, eob) ELSE (addr_count - 1) % 256,
         length |-> IF p_val = p_len THEN 0
                    ELSE IF p_val = p_len + 1 THEN get_u8(buf, p_len, eob)
                    ELSE get_u16(buf, p_len, eob),
         flags  |-> flags, p_val |-> p_val]

\* _parse_tlv.  stale is the value of the TLV before in the block: a TLV without
\* a value leaves single_value as it is, as does one with many values until it is
\* shown to a consumer.  A TLV whose values are for no address (index1 one above
\* index2, modulo 256) is not defined: its length is divided by zero.
CheckedTlv(buf, f, eob, addr_count, stale) ==
    LET count == (f.index2 - f.index1 + 1) % 256
        many  == HasFlag(f.flags, MULTIVALUE) /\ (f.length = 0 \/ count # 1)
        value == Octets(buf, f.p_val, f.length)
    IN  IF HasFlag(f.flags, SINGLE_IDX) /\ HasFlag(f.flags, MULTI_IDX)
        THEN Failed(BAD_TLV_IDXFLAGS)
        ELSE IF addr_count > 0 /\ (f.index1 >= addr_count \/ f.index2 >= addr_count)
        THEN Failed(BAD_TLV_INDEX)
        ELSE IF HasFlag(f.flags, EXTVALUE) /\ ~HasFlag(f.flags, VALUE)
        THEN Failed(BAD_TLV_VALUEFLAGS)
        ELSE IF f.p_val + f.length > eob
        THEN Failed(END_OF_BUFFER)
        ELSE IF f.length > 0 /\ many /\ f.length % count # 0
        THEN Failed(BAD_TLV_LENGTH)
        ELSE [res |-> OKAY, p |-> f.p_val + f.length,
              tlv |-> [type |-> f.type, ext |-> f.ext, index1 |-> f.index1,
                       index2 |-> f.index2, multi |-> many, values |-> value,
                       length |-> IF many /\ f.length > 0 THEN f.length \div count
                                  ELSE f.length,
                       single |-> IF many \/ f.length = 0 THEN stale ELSE value]]

parse_tlv(buf, p, eob, addr_count, stale) ==
    Given(TlvFields(buf, p, eob, addr_count),
          LAMBDA f : CheckedTlv(buf, f, eob, addr_count, stale))

\* The value for address i of a TLV with many values.
ValueFor(tlv, i) ==
    SubSeq(tlv.values, (i - tlv.index1) * tlv.length + 1, (i + 1 - tlv.index1) * tlv.length)

\* entry->_order, the key of the tree the TLVs of a block are kept in.
intorder(t) == 256 * t.type + t.ext
InsertTlv(tlvs, t) == InsertByKey(tlvs, [v \in ToSet(tlvs) \cup {t} |-> intorder(v)], t)

\* The block with one more TLV, if it could be parsed.
WithTlv(s, got) ==
    IF got.res # OKAY THEN Failed(got.res)
    ELSE [res |-> OKAY, p |-> got.p, stale |-> got.tlv.single,
          tlvs |-> InsertTlv(s.tlvs, got.tlv)]

\* A turn of the loop of _parse_tlvblock.  A TLV may run past the end of its
\* block, not past eob.
TakeTlv(buf, end, eob, addr_count, s) ==
    IF s.res # OKAY \/ s.p >= end THEN s
    ELSE Given(parse_tlv(buf, s.p, eob, addr_count, s.stale), LAMBDA got : WithTlv(s, got))

\* The loop: where it is after n turns.
TlvTurns(buf, start, end, eob, addr_count) ==
    LET turn[n \in Nat] ==
            IF n = 0 THEN [res |-> OKAY, p |-> start, stale |-> <<>>, tlvs |-> <<>>]
            ELSE Given(turn[n - 1], LAMBDA s : TakeTlv(buf, end, eob, addr_count, s))
    IN  turn

\* A turn takes an octet at least.
parse_tlvblock(buf, p, eob, addr_count) ==
    LET start == p + 2
        end   == start + get_u16(buf, p, eob)
    IN  IF end > eob THEN Failed(END_OF_BUFFER)
        ELSE TlvTurns(buf, start, end, eob, addr_count)[end - start]

-----------------------------------------------------------------------------
\* The fixed fields of _parse_addrblock; mid_len is an octet.
AddrFields(buf, p, eob, addr_len) ==
    LET flags  == get_u8(buf, p + 1, eob)
        head   == IF HasFlag(flags, HEAD_FLAG) THEN get_u8(buf, p + 2, eob) ELSE 0
        p_tail == p + 2 + (IF HasFlag(flags, HEAD_FLAG) THEN 1 + head ELSE 0)
        has_tail == HasFlag(flags, FULLTAIL) \/ HasFlag(flags, ZEROTAIL)
        tail   == IF has_tail THEN get_u8(buf, p_tail, eob) ELSE 0
        p_mid  == p_tail + (IF has_tail THEN 1 ELSE 0)
                    + (IF HasFlag(flags, FULLTAIL) THEN tail ELSE 0)
        mid    == (addr_len - head - tail) % 256
        p_plen == p_mid + mid * get_u8(buf, p, eob)
    IN  [num |-> get_u8(buf, p, eob), flags |-> flags, head |-> head, p_tail |-> p_tail,
         tail |-> tail, p_mid |-> p_mid, mid |-> mid, p_plen |-> p_plen,
         p_end |-> p_plen + (IF HasFlag(flags, SINGLEPLEN) THEN 1
                             ELSE IF HasFlag(flags, MULTIPLEN) THEN get_u8(buf, p, eob) ELSE 0)]

\* The addresses of a block with their prefix lengths, as
\* schedule_msgaddr_consumer assembles them.  The length of a ZEROTAIL is not
\* checked: where head and tail are longer than the address, the code's mid_len
\* wraps and its copy leaves the array, and this sequence is longer than addr_len.
Addresses(buf, p, f, addr_len) ==
    [i \in 1..f.num |->
        [bytes |-> Octets(buf, p + 3, f.head)
                     \o Octets(buf, f.p_mid + f.mid * (i - 1), f.mid)
                     \o (IF HasFlag(f.flags, FULLTAIL) THEN Octets(buf, f.p_tail + 1, f.tail)
                         ELSE [k \in 1..f.tail |-> 0]),
         plen  |-> IF HasFlag(f.flags, MULTIPLEN) THEN buf[f.p_plen + i]
                   ELSE IF HasFlag(f.flags, SINGLEPLEN) THEN buf[f.p_plen + 1]
                   ELSE 8 * addr_len]]

\* _parse_addrblock
parse_addrblock(buf, p, eob, addr_len) ==
    Given(AddrFields(buf, p, eob, addr_len), LAMBDA f :
        LET bad(n) == n < 1 \/ n >= addr_len IN
        IF f.num = 0 THEN Failed(EMPTY_ADDRBLOCK)
        ELSE IF HasFlag(f.flags, HEAD_FLAG) /\ bad(f.head) THEN Failed(BAD_ADDR_HEAD_LENGTH)
        ELSE IF f.p_tail > eob THEN Failed(END_OF_BUFFER)
        ELSE IF HasFlag(f.flags, FULLTAIL) /\ HasFlag(f.flags, ZEROTAIL)
        THEN Failed(BAD_MSG_TAILFLAGS)
        ELSE IF HasFlag(f.flags, FULLTAIL) /\ bad(f.tail) THEN Failed(BAD_ADDR_TAIL_LENGTH)
        ELSE IF f.p_plen > eob THEN Failed(END_OF_BUFFER)
        ELSE IF HasFlag(f.flags, SINGLEPLEN) /\ HasFlag(f.flags, MULTIPLEN)
        THEN Failed(BAD_MSG_PREFIXFLAGS)
        ELSE IF f.p_end > eob THEN Failed(END_OF_BUFFER)
        ELSE [res |-> OKAY, p |-> f.p_end, addrs |-> Addresses(buf, p, f, addr_len)])

\* The rest of a message: address blocks, each with its TLV block.
WithBlock(s, got, block) ==
    IF block.res # OKAY THEN Failed(block.res)
    ELSE [res |-> OKAY, p |-> block.p,
          blocks |-> Append(s.blocks, [addrs |-> got.addrs, tlvs |-> block.tlvs])]

WithAddresses(buf, end, s, got) ==
    IF got.res # OKAY THEN Failed(got.res)
    ELSE Given(parse_tlvblock(buf, got.p, end, Len(got.addrs)),
               LAMBDA block : WithBlock(s, got, block))

TakeBlock(buf, end, addr_len, s) ==
    IF s.res # OKAY \/ s.p >= end THEN s
    ELSE Given(parse_addrblock(buf, s.p, end, addr_len),
               LAMBDA got : WithAddresses(buf, end, s, got))

\* The loop: where it is after n turns.  A turn takes an octet at least.
BlockTurns(buf, start, end, addr_len) ==
    LET turn[n \in Nat] ==
            IF n = 0 THEN [res |-> OKAY, p |-> start, blocks |-> <<>>]
            ELSE Given(turn[n - 1], LAMBDA s : TakeBlock(buf, end, addr_len, s))
    IN  turn

ParseBlocks(buf, p, end, addr_len) ==
    BlockTurns(buf, p, end, addr_len)[IF p < end THEN end - p ELSE 0]

-----------------------------------------------------------------------------
\* The header of a message in _handle_message.
MsgFields(buf, p, eob) ==
    LET flags    == get_u8(buf, p + 1, eob)
        has(flag, n) == IF HasFlag(flags, flag) THEN n ELSE 0
        addr_len == (flags % 16) + 1
        p_limit  == p + 4 + has(ORIGINATOR, addr_len)
        p_count  == p_limit + has(HOPLIMIT, 1)
        p_seqno  == p_count + has(HOPCOUNT, 1)
    IN  [type |-> get_u8(buf, p, eob), addr_len |-> addr_len, start |-> p,
         end |-> p + get_u16(buf, p + 2, eob),
         header |-> [originator |-> When(p_limit <= eob,
                                         Octets(buf, p + 4, has(ORIGINATOR, addr_len))),
                     hoplimit |-> When(HasFlag(flags, HOPLIMIT), <<get_u8(buf, p_limit, eob)>>),
                     hopcount |-> When(HasFlag(flags, HOPCOUNT), <<get_u8(buf, p_count, eob)>>),
                     seqno |-> When(HasFlag(flags, MSG_SEQNO), U16(get_u16(buf, p_seqno, eob)))],
         p_tlvs |-> p_seqno + has(MSG_SEQNO, 2)]

\* The part of _handle_message before the consumers: the header, the TLVs of the
\* message, its address blocks.
WithBlocks(f, block, rest) ==
    IF rest.res # OKAY THEN Failed(rest.res)
    ELSE [res |-> OKAY, type |-> f.type, start |-> f.start, end |-> f.end,
          header |-> f.header, addr_len |-> f.addr_len,
          tlvs |-> block.tlvs, blocks |-> rest.blocks]

WithTlvs(buf, f, block) ==
    IF block.res # OKAY THEN Failed(block.res)
    ELSE Given(ParseBlocks(buf, block.p, f.end, f.addr_len),
               LAMBDA rest : WithBlocks(f, block, rest))

WithHeader(buf, f, eob) ==
    IF f.p_tlvs > eob \/ f.end > eob THEN Failed(END_OF_BUFFER)
    ELSE Given(parse_tlvblock(buf, f.p_tlvs, f.end, 0), LAMBDA block : WithTlvs(buf, f, block))

parse_message(buf, p, eob) ==
    Given(MsgFields(buf, p, eob), LAMBDA f : WithHeader(buf, f, eob))

\* The packet header in rfc5444_reader_handle_packet.
WithPktTlvs(block) ==
    IF block.res # OKAY THEN Failed(block.res)
    ELSE [res |-> OKAY, p |-> block.p, has_tlv |-> TRUE, tlvs |-> block.tlvs]

parse_pkt_header(buf) ==
    LET eob   == Len(buf)
        first == get_u8(buf, 0, eob)
        p     == 1 + (IF HasFlag(first, PKT_SEQNO) THEN 2 ELSE 0)
    IN  IF first \div 16 # 0 THEN Failed(UNSUPPORTED_VERSION)
        ELSE IF p > eob THEN Failed(END_OF_BUFFER)
        ELSE IF HasFlag(first, PKT_TLV)
        THEN Given(parse_tlvblock(buf, p, eob, 0), LAMBDA block : WithPktTlvs(block))
        ELSE [res |-> OKAY, p |-> p, has_tlv |-> FALSE, tlvs |-> <<>>]

\* All messages of a packet that is parsed to its end.
MessagesOf(buf) ==
    LET from[p \in Nat] ==
            IF p >= Len(buf) THEN <<>>
            ELSE Given(parse_message(buf, p, Len(buf)), LAMBDA got :
                     IF got.res # OKAY THEN <<got>> ELSE <<got>> \o from[got.end])
    IN  Given(parse_pkt_header(buf), LAMBDA hdr :
            IF hdr.res # OKAY THEN <<hdr>> ELSE from[hdr.p])
=============================================================================
