------------------------------- MODULE RcsOps -------------------------------
(***************************************************************************)
(* The Router Client Set (aodvv2_rcs.c): the prefixes this router does     *)
(* route discovery for.  Each operator is what one function, or the part   *)
(* of it under the set's mutex, does to the array of entries.              *)
(*                                                                         *)
(* An address is AddrBits bits; IPv6 has 128.                              *)
(***************************************************************************)
EXTENDS Integers, FiniteSets, ArrayScan

CONSTANTS AddrBits,   \* 128
          RcsSize     \* CONFIG_AODVV2_RCS_ENTRIES

ASSUME RcsAssumption == AddrBits \in Nat \ {0} /\ RcsSize \in Nat \ {0}

RcsSlots == 1 .. RcsSize
Addresses == [1 .. AddrBits -> {0, 1}]
Unspecified == [i \in 1 .. AddrBits |-> 0]

\* RIOT's ipv6_addr_init_prefix: the first len bits, then zeroes.
ipv6_addr_init_prefix(addr, len) == [i \in 1 .. AddrBits |-> IF i <= len THEN addr[i] ELSE 0]

\* RIOT's ipv6_addr_match_prefix: the number of leading bits two addresses share.
ipv6_addr_match_prefix(a, b) ==
    Cardinality({i \in 1 .. AddrBits : \A j \in 1 .. i : a[j] = b[j]})

BlankClient == [used |-> FALSE, addr |-> Unspecified, pfx_len |-> 0, cost |-> 0]

aodvv2_rcs_init == [i \in RcsSlots |-> BlankClient]

\* Mutant: trusts the length it is given.
NoClamp(len) == len

\* "if (pfx_len > 128) pfx_len = 128", at the start of add, del and matches.
ClampLen(len) == IF len > AddrBits THEN AddrBits ELSE len

\* aodvv2_rcs_matches: the entry with this prefix, 0 for NULL.
aodvv2_rcs_matches(es, addr, len) ==
    FirstOrNone({i \in RcsSlots :
        /\ es[i].used /\ es[i].pfx_len = ClampLen(len)
        /\ ipv6_addr_match_prefix(es[i].addr, addr) >= es[i].pfx_len})

\* Mutant: one bit more than the prefix must match.
IsClientStrict(es, addr) ==
    FirstOrNone({i \in RcsSlots :
        es[i].used /\ ipv6_addr_match_prefix(es[i].addr, addr) > es[i].pfx_len})

\* aodvv2_rcs_is_client: the first entry whose prefix holds the address.
aodvv2_rcs_is_client(es, addr) ==
    FirstOrNone({i \in RcsSlots :
        es[i].used /\ ipv6_addr_match_prefix(es[i].addr, addr) >= es[i].pfx_len})

\* The free slot aodvv2_rcs_add uses, 0 when the set is full.
FreeClientSlot(es) == FirstOrNone({i \in RcsSlots : ~es[i].used})

\* What aodvv2_rcs_add writes to that slot.
FillClient(es, i, addr, len, cost) ==
    [es EXCEPT ![i] = [used |-> TRUE, addr |-> ipv6_addr_init_prefix(addr, len),
                       pfx_len |-> len, cost |-> cost]]

\* Mutant: clears the data but leaves the slot in use.
ClearDataOnly(es, i) == [es EXCEPT ![i] = [BlankClient EXCEPT !.used = TRUE]]

\* What aodvv2_rcs_del does to the entry it found.
ClearClient(es, i) == [es EXCEPT ![i] = BlankClient]
=============================================================================
