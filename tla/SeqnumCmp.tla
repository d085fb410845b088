------------------------------ MODULE SeqnumCmp ------------------------------
(***************************************************************************)
(* Comparison of sequence numbers (net/aodvv2/seqnum.h) and the part of a  *)
(* sequence number that survives the journey through an RFC 5444 TLV.      *)
(***************************************************************************)
EXTENDS Integers

CONSTANTS SeqMod,    \* 65536: values of aodvv2_seqnum_t
          ByteMod    \* 256: values of one byte

ASSUME SeqnumCmpAssumption ==
    /\ SeqMod \in Nat \ {0} /\ SeqMod % 2 = 0
    /\ ByteMod \in Nat \ {0} /\ ByteMod <= SeqMod

\* Conversion of a difference to int16_t, two's complement.
ToSigned(d) ==
    LET m == d % SeqMod
    IN  IF m >= SeqMod \div 2 THEN m - SeqMod ELSE m

\* < 0: received is older, > 0: received is newer, 0: they are equal.
aodvv2_seqnum_cmp(existing, received) == ToSigned(received - existing)

\* The writer puts both bytes of a SeqNum on the wire; the reader takes
\* *tlv->single_value, the first one, which is the low byte on the
\* little-endian boards the firmware runs on.
ReadSeqnum(n) == n % ByteMod
=============================================================================
