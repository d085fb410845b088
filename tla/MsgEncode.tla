----------------------------- MODULE MsgEncode -----------------------------
(***************************************************************************)
(* The octets of a message fragment (rfc5444_msg_generator.c): its address *)
(* blocks with the TLVs of their addresses, and its header.                *)
(***************************************************************************)
EXTENDS MsgCompress

\* Flags of the address block octet and of the message octet.
HEAD_FLAG   == 128
FULLTAIL    == 64
ZEROTAIL    == 32
SINGLEPLEN  == 16
MULTIPLEN   == 8
ORIGINATOR  == 128
HOPLIMIT    == 64
HOPCOUNT    == 32
MSG_SEQNO   == 16

\* The blocks of a fragment, found from its last address backwards: where each
\* begins and ends, with the head length and the kind of prefix lengths its last
\* address remembers.
Blocks(frag, blk) ==
    LET Back[p \in 0..Len(frag)] ==
            IF p = 0 THEN <<>>
            ELSE LET b == blk[frag[p]]
                     first == Index(frag, b.start)
                 IN  Append(Back[first - 1], [first |-> first, last |-> p,
                              headlen |-> b.headlen, multiplen |-> b.multiplen])
    IN  Back[Len(frag)]

\* The first address of each block gets what the last one remembered.
AfterBlocks(frag, blk) ==
    FoldLeft(LAMBDA b, block : [b EXCEPT ![frag[block.first]].headlen = block.headlen,
                                         ![frag[block.first]].multiplen = block.multiplen],
             blk, Blocks(frag, blk))

\* _write_addresstlv: the TLVs of type tt on the addresses from..to of a block;
\* same says that they have one value.
write_addresstlv(frag, block, tt, run) ==
    LET Value(p) == OfType(frag[p], tt)[1].value
        values == IF run.same THEN Value(run.from)
                  ELSE FoldLeft(LAMBDA octets, k : octets \o Value(run.from + k - 1), <<>>,
                                [k \in 1..run.to - run.from + 1 |-> k])
        all    == run.from = block.first /\ run.to = block.last
        single == ~all /\ run.from = run.to
        length == Len(values)
    IN  <<tt[1], Flag(tt[2] > 0, TYPEEXT) + Flag(single, SINGLE_IDX)
                   + Flag(~all /\ ~single, MULTI_IDX) + Flag(~run.same, MULTIVALUE)
                   + Flag(length > 255, EXTVALUE) + Flag(length > 0, VALUE)>>
        \o When(tt[2] > 0, <<tt[2]>>)
        \o When(~all, <<run.from - block.first>>)
        \o When(~all /\ ~single, <<run.to - block.first>>)
        \o When(length > 255, <<length \div 256>>)
        \o When(length > 0, <<length % 256>>)
        \o values

\* Mutant: the run forgets that an earlier value of it was different.
TakeUpLastValue(w, frag, block, p, t) ==
    LET tt  == TypeOf(t)
        run == w.run[tt]
        new == [from |-> p, to |-> p, same |-> TRUE]
    IN  IF run.to = 0
        THEN [w EXCEPT !.active = Append(@, tt), !.run[tt] = new]
        ELSE IF run.to # p - 1 \/ Len(OfType(frag[run.to], tt)[1].value) # Len(t.value)
        THEN [w EXCEPT !.out = @ \o write_addresstlv(frag, block, tt, run), !.run[tt] = new]
        ELSE [w EXCEPT !.run[tt] = [from |-> run.from, to |-> p,
                                    same |-> SameValue(t, frag[p - 1])]]

\* _write_addresstlvs takes up TLV t of the address at p: it lengthens the run of
\* its type, or the run is written and a new one begins, or the type gets active.
TakeUp(w, frag, block, p, t) ==
    LET tt  == TypeOf(t)
        run == w.run[tt]
        new == [from |-> p, to |-> p, same |-> TRUE]
    IN  IF run.to = 0
        THEN [w EXCEPT !.active = Append(@, tt), !.run[tt] = new]
        ELSE IF run.to # p - 1 \/ Len(OfType(frag[run.to], tt)[1].value) # Len(t.value)
        THEN [w EXCEPT !.out = @ \o write_addresstlv(frag, block, tt, run), !.run[tt] = new]
        ELSE [w EXCEPT !.run[tt] = [from |-> run.from, to |-> p,
                                    same |-> run.same /\ SameValue(t, frag[p - 1])]]

write_addresstlvs(frag, block, types) ==
    LET none == [from |-> 0, to |-> 0, same |-> TRUE]
        At(w, p) == Folded(LAMBDA v, t : TakeUp(v, frag, block, p, t), w, frag[p].tlvs)
        end == Folded(LAMBDA w, k : At(w, block.first + k - 1),
                      [out |-> <<>>, active |-> <<>>, run |-> [tt \in types |-> none]],
                      [k \in 1..block.last - block.first + 1 |-> k])
    IN  Given(end, LAMBDA w :
            FoldLeft(LAMBDA out, tt : out \o write_addresstlv(frag, block, tt, w.run[tt]),
                     w.out, w.active))

\* The octets at the end that all addresses of a block have in common; one octet
\* of each address is always left.
TailLen(frag, block) ==
    LET limit == AddrLen - block.headlen - 1
        agree(n) == \A p \in block.first..block.last, i \in 1..n :
                       frag[p].bytes[AddrLen + 1 - i] = frag[block.first].bytes[AddrLen + 1 - i]
    IN  CHOOSE n \in 0..limit : agree(n) /\ (n = limit \/ ~agree(n + 1))

\* One address block of _write_addresses with its TLV block.
write_addrblock(frag, block, types) ==
    LET one   == block.first = block.last
        head  == IF one THEN 0 ELSE block.headlen
        tail  == IF one THEN 0 ELSE TailLen(frag, block)
        a     == frag[block.first]
        mine  == [k \in 1..block.last - block.first + 1 |-> frag[block.first + k - 1]]
        ztail == tail > 0 /\ \A i \in AddrLen - tail + 1..AddrLen : a.bytes[i] = 0
        single == ~block.multiplen /\ a.plen # Full
        block_tlvs == write_addresstlvs(frag, block, types)
    IN  <<Len(mine), Flag(head > 0, HEAD_FLAG) + Flag(ztail, ZEROTAIL)
                       + Flag(tail > 0 /\ ~ztail, FULLTAIL)
                       + Flag(block.multiplen, MULTIPLEN) + Flag(single, SINGLEPLEN)>>
        \o When(head > 0, <<head>> \o SubSeq(a.bytes, 1, head))
        \o When(tail > 0, <<tail>>)
        \o When(tail > 0 /\ ~ztail, SubSeq(a.bytes, AddrLen - tail + 1, AddrLen))
        \o FoldLeft(LAMBDA out, x : out \o SubSeq(x.bytes, head + 1, AddrLen - tail), <<>>, mine)
        \o When(single, <<a.plen>>)
        \o When(block.multiplen, [k \in DOMAIN mine |-> mine[k].plen])
        \o U16(Len(block_tlvs)) \o block_tlvs

write_addresses(frag, blk, types) ==
    FoldLeft(LAMBDA out, block : out \o write_addrblock(frag, block, types), <<>>,
             Blocks(frag, blk))

-----------------------------------------------------------------------------
\* The optional fields of a message header: none is <<>>, a field that is there
\* its octets.
HeaderFields(h) == h.originator \o h.hoplimit \o h.hopcount \o h.seqno

\* rfc5444_writer_set_msg_header: the octets the header will take.
set_msg_header(h) == 6 + Len(HeaderFields(h))

\* _write_msgheader: d is the message's TLV space, the size counts it all.
write_msgheader(type, h, d, bin_addr_size) ==
    LET tlvsize == Len(d.added) + Len(d.set)
    IN  <<type, AddrLen - 1 + Flag(h.originator # <<>>, ORIGINATOR)
                  + Flag(h.hoplimit # <<>>, HOPLIMIT) + Flag(h.hopcount # <<>>, HOPCOUNT)
                  + Flag(h.seqno # <<>>, MSG_SEQNO)>>
        \o U16(d.header + tlvsize + bin_addr_size)
        \o HeaderFields(h) \o U16(tlvsize)
=============================================================================
