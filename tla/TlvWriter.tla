----------------------------- MODULE TlvWriter -----------------------------
(***************************************************************************)
(* Octets of RFC 5444 packets and the TLV space of a message or packet     *)
(* under construction (rfc5444_tlv_writer.c).  The space d lies in one     *)
(* buffer: `header` octets, the octets of the TLVs added, and `allocated`  *)
(* octets which are filled with TLVs set later; all within max.            *)
(***************************************************************************)
EXTENDS Integers, Sequences

\* The flags of the TLV octet.
TYPEEXT    == 128
SINGLE_IDX == 64
MULTI_IDX  == 32
VALUE      == 16
EXTVALUE   == 8
MULTIVALUE == 4

HasFlag(octet, flag) == (octet \div flag) % 2 = 1
Flag(cond, flag) == IF cond THEN flag ELSE 0
U16(n) == <<n \div 256, n % 256>>
When(cond, octets) == IF cond THEN octets ELSE <<>>

\* Op(x) for an x that is evaluated once, as by assigning it to a variable.
Given(x, Op(_)) == CHOOSE result \in {Op(y) : y \in {x}} : TRUE

\* _rfc5444_tlv_writer_init
tlv_writer_init(max) ==
    [header |-> 0, added |-> <<>>, allocated |-> 0, set |-> <<>>, max |-> max]

calc_tlv_size(has_ext, length) ==
    2 + (IF has_ext THEN 1 ELSE 0) + length
      + (IF length > 255 THEN 2 ELSE IF length > 0 THEN 1 ELSE 0)

\* _write_tlv as its callers use it, for all indices (0 to 255).
write_tlv(type, ext, value) ==
    <<type, Flag(ext > 0, TYPEEXT) + Flag(Len(value) > 255, EXTVALUE)
              + Flag(Len(value) > 0, VALUE)>>
    \o When(ext > 0, <<ext>>)
    \o When(Len(value) > 255, <<Len(value) \div 256>>)
    \o When(Len(value) > 0, <<Len(value) % 256>> \o value)

Fits(d, s) == d.header + Len(d.added) + d.allocated + s <= d.max

\* Each of the three calls leaves d alone when there is not enough space for it
\* (RFC5444_MTU_TOO_SMALL).
tlv_writer_add(d, type, ext, value) ==
    IF Fits(d, calc_tlv_size(ext # 0, Len(value)))
    THEN [d EXCEPT !.added = @ \o write_tlv(type, ext, value)] ELSE d

tlv_writer_allocate(d, has_ext, length) ==
    IF Fits(d, calc_tlv_size(has_ext, length))
    THEN [d EXCEPT !.allocated = @ + calc_tlv_size(has_ext, length)] ELSE d

tlv_writer_set(d, type, ext, value) ==
    IF d.allocated - Len(d.set) >= calc_tlv_size(ext # 0, Len(value))
    THEN [d EXCEPT !.set = @ \o write_tlv(type, ext, value)] ELSE d
=============================================================================
