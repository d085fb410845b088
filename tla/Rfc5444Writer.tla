---------------------------- MODULE Rfc5444Writer ----------------------------
(***************************************************************************)
(* The RFC 5444 writer (rfc5444_writer.c, rfc5444_msg_generator.c,         *)
(* rfc5444_pkt_generator.c): messages are made of what their content       *)
(* providers contribute, split into fragments that fit into a packet of    *)
(* each target, and collected until the target is flushed.                 *)
(*                                                                         *)
(* What the callbacks of a message contribute is fixed when its creation   *)
(* begins, its plan: the target selector, the header, TLVs per provider    *)
(* that are added, allocated and set at the end, and the addresses.        *)
(* Post-processors and processors of forwarded messages are not modelled.  *)
(***************************************************************************)
EXTENDS Rfc5444Parse, WriterSetup

CONSTANTS has_seqno,     \* of each target: its packets have a sequence number
          msg_size,      \* size of the message buffer
          addrtlv_size,  \* size of the buffer for values of address TLVs
          plans,         \* the messages that may be created
          FullSetups,    \* what is registered when messages are created and packets sent
          MaxMessages,   \* bound: messages created or forwarded before others are created
          MaxAir         \* bound: packets sent to a target before it is no longer flushed

SeqnoOfPacket == 258

VARIABLES setup,   \* what is registered
          target,  \* the packet under construction for each target
          c,       \* the message creation under way
          created, \* number of messages created and forwarded
          air,     \* history: the packets sent to each target
          made,    \* history: the messages put into packets of each target
          sent     \* history: the fragments of the last message, with its plan
wvars == <<setup, target, c, created, air, made, sent>>

NoCreation == [state |-> "none"]
NothingSent == [plan |-> <<>>, fragments |-> <<>>, result |-> OKAY]
NewTarget(t) == [d |-> tlv_writer_init(packet_size[t]), bin |-> <<>>, flushed |-> TRUE]

\* rfc5444_writer_init, and the targets before they are registered.
WriterInit ==
    /\ setup = setup_init /\ target = [t \in Targets |-> NewTarget(t)]
    /\ c = NoCreation /\ created = 0
    /\ air = [t \in Targets |-> <<>>] /\ made = [t \in Targets |-> <<>>]
    /\ sent = NothingSent

-----------------------------------------------------------------------------
\* Registering happens between messages; here, before the first packet is begun.
Replace(S) == /\ c.state = "none" /\ setup' = S
              /\ UNCHANGED <<target, c, created, air, made, sent>>
Setup(S) == /\ created = 0 /\ \A t \in Targets : air[t] = <<>> /\ target[t].flushed
            /\ Replace(S)

RegisterMessage(m)   == Setup(register_message(setup, m, target_specific[m]))
UnregisterMessage(m) == Setup(unregister_message(setup, m))
RegisterProvider(p) ==
    /\ ~ProviderAdded(setup, p) /\ \A t \in Members(tlvtypes_of[p]) : ~TlvTypeAdded(setup, t)
    /\ Setup(register_msgcontentprovider(setup, p, tlvtypes_of[p]))
UnregisterProvider(p) == Setup(unregister_content_provider(setup, p, tlvtypes_of[p]))
RegisterTlvType(t) ==
    /\ ~TlvTypeAdded(setup, t)
    /\ Setup(IF own_tlvtypes[t] = -1 THEN register_generic_tlvtype(setup, t)
             ELSE register_msg_tlvtype(setup, t, own_tlvtypes[t]))
UnregisterTlvType(t) == Setup(unregister_addrtlvtype(setup, t))
RegisterTarget(t)    == t \notin Members(setup.targets) /\ Setup(register_target(setup, t))
UnregisterTarget(t)  == Setup(unregister_target(setup, t))
RegisterPkthandler(h) ==
    h \notin Members(setup.pkthandlers) /\ Setup(register_pkthandler(setup, h))
UnregisterPkthandler(h) == Setup(unregister_pkthandler(setup, h))
WriterCleanup == Replace(writer_cleanup(setup))

SetupStep ==
    \/ \E m \in MsgTypes : RegisterMessage(m) \/ UnregisterMessage(m)
    \/ \E p \in Providers : RegisterProvider(p) \/ UnregisterProvider(p)
    \/ \E t \in TlvTypes :
          (t \in DOMAIN own_tlvtypes /\ RegisterTlvType(t)) \/ UnregisterTlvType(t)
    \/ \E t \in Targets : RegisterTarget(t) \/ UnregisterTarget(t)
    \/ \E h \in Handlers : RegisterPkthandler(h) \/ UnregisterPkthandler(h)
    \/ WriterCleanup

-----------------------------------------------------------------------------
\* rfc5444_writer_set_pkt_header assumes that there will be a TLV block.
set_pkt_header(t) == 3 + (IF has_seqno[t] THEN 2 ELSE 0)

\* The TLVs a handler or provider contributes to a TLV space.
AddTlvs(d, p) ==
    LET added == Folded(LAMBDA e, v : tlv_writer_add(e, v.type, v.ext, v.value), d, p.adds)
    IN  Folded(LAMBDA e, v : tlv_writer_allocate(e, v.ext, v.length), added, p.allocs)
SetTlvs(d, p) == Folded(LAMBDA e, v : tlv_writer_set(e, v.type, v.ext, v.value), d, p.sets)

\* _rfc5444_writer_begin_packet
begin_packet(t) ==
    [d |-> Folded(LAMBDA d, h : AddTlvs(d, pkt_plan[h]),
                  [tlv_writer_init(packet_size[t]) EXCEPT !.header = set_pkt_header(t)],
                  setup.pkthandlers),
     bin |-> <<>>, flushed |-> FALSE]

\* What rfc5444_writer_flush makes of the packet: handlers are asked backwards,
\* and a TLV block without TLVs is left out.
FinishedPkt(t, x) ==
    LET d == Folded(LAMBDA e, h : SetTlvs(e, pkt_plan[h]), x.d, Reverse(setup.pkthandlers))
    IN  Given(d.added \o d.set, LAMBDA block :
            <<Flag(has_seqno[t], PKT_SEQNO) + Flag(block # <<>>, PKT_TLV)>>
            \o When(has_seqno[t], U16(SeqnoOfPacket)) \o When(block # <<>>, U16(Len(block)))
            \o block \o x.bin)

\* Mutant: the messages of the packet are not forgotten.
FlushedKeepsMessages(x) == [x EXCEPT !.d.set = <<>>, !.flushed = TRUE]

\* rfc5444_writer_flush: nothing, or the packet is sent.
Flushed(x) == [x EXCEPT !.d.set = <<>>, !.bin = <<>>, !.flushed = TRUE]
Flush(t, force) ==
    LET x == IF target[t].flushed THEN begin_packet(t) ELSE target[t]
    IN  /\ c.state = "none" /\ setup \in FullSetups /\ t \in Members(setup.targets)
        /\ Len(air[t]) < MaxAir /\ (~target[t].flushed \/ force)
        /\ air' = [air EXCEPT ![t] = Append(@, FinishedPkt(t, x))]
        /\ target' = [target EXCEPT ![t] = Flushed(x)]
        /\ UNCHANGED <<setup, c, created, made, sent>>

-----------------------------------------------------------------------------
\* rfc5444_writer_add_addrtlv: no second TLV of a type, and only values for which
\* the buffer has space.
AddAddrTlv(m, tlv) ==
    IF (\E k \in DOMAIN m.tlvs : TypeOf(m.tlvs[k]) = TypeOf(tlv))
         \/ m.used + Len(tlv.value) > addrtlv_size
    THEN m
    ELSE [m EXCEPT !.used = @ + Len(tlv.value), !.tlvs = InsertTlv(@, tlv)]

\* rfc5444_writer_add_address with the TLVs for the address: one that is there may
\* become mandatory, but stays in the list it is in.
SameAddress(a, b) == a.bytes = b.bytes /\ a.plen = b.plen
AddAddress(m, call) ==
    LET same == SelectSeq(m.mandatory \o m.others, LAMBDA x : SameAddress(x, call))
        Updated(list, a) == [k \in DOMAIN list |-> IF SameAddress(list[k], a) THEN a ELSE list[k]]
        New(there) == same = <<>> /\ (call.mandatory <=> there)
    IN  Given(Folded(AddAddrTlv, [tlvs |-> IF same = <<>> THEN <<>> ELSE same[1].tlvs,
                                  used |-> m.used], call.tlvs), LAMBDA got :
        Given([bytes |-> call.bytes, plen |-> call.plen, tlvs |-> got.tlvs], LAMBDA a :
            [used |-> got.used,
             mandatory |-> Updated(m.mandatory, a) \o When(New(TRUE), <<a>>),
             others    |-> Updated(m.others, a) \o When(New(FALSE), <<a>>),
             always    |-> m.always \cup (IF call.mandatory THEN {<<a.bytes, a.plen>>} ELSE {})]))
Contributed(calls) ==
    Folded(AddAddress, [mandatory |-> <<>>, others |-> <<>>, always |-> {}, used |-> 0], calls)

\* The message of a plan for the targets T, before its addresses are packed.
\* target holds the packets that were begun for it.
Creation(plan, T, more) ==
    LET room(t) == packet_size[t] - (target'[t].d.header + Len(target'[t].d.added)
                                       + target'[t].d.allocated)
        space == CHOOSE n \in {msg_size} \cup {room(t) : t \in T} :
                    \A t \in T : n <= msg_size /\ n <= room(t)
    IN  Given(Folded(LAMBDA e, p : AddTlvs(e, plan.provider[p]),
                     [tlv_writer_init(space) EXCEPT !.header = set_msg_header(plan.header)],
                     setup.msgs[plan.type].providers), LAMBDA d :
        Given(Contributed(plan.addrs), LAMBDA got :
        Given(got.mandatory \o got.others, LAMBDA list :
        [state |-> IF list = <<>> THEN "last" ELSE "address", plan |-> plan, T |-> T,
         more |-> more, d |-> d, list |-> list, always |-> got.always,
         at |-> 1, first_processed |-> 1, frag |-> <<>>, whole |-> TRUE,
         s |-> SessionInit({}), blk |-> [a \in Members(list) |->
                  [start |-> NoAddress, headlen |-> 0, multiplen |-> FALSE]],
         done |-> {}, non_mandatory |-> 0, last_processed |-> NoAddress,
         max |-> d.max - d.header - d.allocated - Len(d.added)])))

\* The targets a creation is for get a packet, unless theirs has one.
BeginPackets(T) ==
    target' = [t \in Targets |-> IF t \in T /\ target[t].flushed THEN begin_packet(t)
                                 ELSE target[t]]

\* rfc5444_writer_create_message for a type that is registered.  A target specific
\* message is created once per target.  addMessageHeader may refuse the message, the
\* result of which is OKAY, so that the loop over the targets goes on.
Selected(plan) == SelectSeq(setup.targets, LAMBDA t : t \in plan.select)
CreateMessage(plan) ==
    LET specific == setup.msgs[plan.type].target_specific
        T == IF specific /\ ~plan.refused THEN {Selected(plan)[1]} ELSE plan.select
    IN  /\ c.state = "none" /\ created < MaxMessages
        /\ setup \in FullSetups /\ Selected(plan) # <<>>
        /\ created' = created + 1
        /\ BeginPackets(T)
        /\ IF plan.refused THEN c' = c /\ sent' = NothingSent
           ELSE /\ c' = Creation(plan, T, IF specific THEN Tail(Selected(plan)) ELSE <<>>)
                /\ sent' = [NothingSent EXCEPT !.plan = plan]
        /\ UNCHANGED <<setup, air, made>>

\* Nothing happens without a target or a message type.
CreateRefused(plan) ==
    /\ c.state = "none"
    /\ setup.targets = <<>> \/ plan.type \notin Existing(setup)
    /\ sent' = [NothingSent EXCEPT !.result = IF setup.targets = <<>> THEN OKAY ELSE NO_MSGCREATOR]
    /\ UNCHANGED <<setup, target, c, created, air, made>>

-----------------------------------------------------------------------------
\* The loop over the addresses.  A mandatory address is in each fragment, any
\* other is skipped once it was in one.
Mandatory(a) == <<a.bytes, a.plen>> \in c.always
AddrTlvTypes(list) ==
    UNION {{TypeOf(list[k].tlvs[j]) : j \in DOMAIN list[k].tlvs} : k \in DOMAIN list}

SkipAddress ==
    /\ c.state = "address" /\ c.at <= Len(c.list)
    /\ c.list[c.at] \in c.done /\ ~Mandatory(c.list[c.at])
    /\ c' = [c EXCEPT !.at = @ + 1]
    /\ UNCHANGED <<setup, target, created, air, made, sent>>

\* The address is in the fragment.
Accepted(s, frag, blk) ==
    LET a == c.list[c.at]
        counts == a \notin c.done /\ ~Mandatory(a)
    IN  [c EXCEPT !.s = AddCost(s), !.frag = frag, !.blk = blk, !.last_processed = a,
                  !.first_processed = IF Len(frag) = 1 THEN c.at ELSE @,
                  !.done = @ \cup {a}, !.at = @ + 1,
                  !.non_mandatory = @ + (IF counts THEN 1 ELSE 0)]

\* There is no space for it: the fragment is finished without it, and the next
\* one begins again with the first address of this one.
Overfull(s, frag, blk) ==
    LET first == IF Len(frag) = 1 THEN c.at ELSE c.first_processed
    IN  [c EXCEPT !.state = "fragment", !.whole = FALSE, !.at = first, !.first_processed = first,
                  !.blk = close_addrblock_block(s.acs, blk, c.last_processed, 0)]

TakeAddress ==
    /\ c.state = "address" /\ c.at <= Len(c.list)
    /\ c.list[c.at] \notin c.done \/ Mandatory(c.list[c.at])
    /\ \E frag \in {Append(c.frag, c.list[c.at])} :
       \E s0 \in {IF c.frag = <<>> THEN SessionInit(AddrTlvTypes(c.list)) ELSE c.s} :
       \E blk \in {compress_address_blk(s0, frag, c.blk)}, s \in {compress_address(s0, frag)} :
             IF best_head(s, frag, c.max) # -1
             THEN c' = Accepted(s, frag, blk) /\ UNCHANGED sent
             ELSE IF c.non_mandatory = 0
             THEN c' = NoCreation /\ sent' = [sent EXCEPT !.result = MTU_TOO_SMALL]
             ELSE c' = Overfull(s, frag, blk) /\ UNCHANGED sent
    /\ UNCHANGED <<setup, target, created, air, made>>

\* The last address is in.
LastAddress ==
    /\ c.state = "address" /\ c.at > Len(c.list)
    /\ c' = [c EXCEPT !.state = "last",
                      !.blk = close_addrblock_block(c.s.acs, @, c.last_processed, 0)]
    /\ UNCHANGED <<setup, target, created, air, made, sent>>

\* _finalize_message_fragment: the octets of the message.
Fragment ==
    Given(Folded(LAMBDA e, p : SetTlvs(e, c.plan.provider[p]), [c.d EXCEPT !.set = <<>>],
                 Reverse(setup.msgs[c.plan.type].providers)), LAMBDA d :
    Given(write_addresses(c.frag, c.blk, AddrTlvTypes(c.list)), LAMBDA body :
        write_msgheader(c.plan.type, c.plan.header, d, Len(body)) \o d.added \o d.set \o body))

\* Mutant: the messages that are in the packet do not count.
TooFullAlone(x, m) == x.d.header + Len(x.d.added) + Len(x.d.set) + Len(m) > x.d.max

\* A packet that has no space for the message is sent and a new one begun.
TooFull(x, m) == x.d.header + Len(x.d.added) + Len(x.d.set) + Len(x.bin) + Len(m) > x.d.max

FinalizeFragment ==
    /\ c.state \in {"fragment", "last"}
    /\ \E m \in {Fragment} :
         LET full == {t \in c.T : TooFull(target[t], m)}
             packet(t) == IF t \in full THEN begin_packet(t) ELSE target[t]
         IN  /\ air' = [t \in Targets |->
                           IF t \in full THEN Append(air[t], FinishedPkt(t, target[t])) ELSE air[t]]
             /\ target' = [t \in Targets |-> IF t \in c.T THEN [packet(t) EXCEPT !.bin = @ \o m]
                                             ELSE target[t]]
             /\ made' = [t \in Targets |-> IF t \in c.T THEN Append(made[t], m) ELSE made[t]]
             /\ sent' = [sent EXCEPT !.fragments = Append(@, m)]
    /\ c' = IF c.state = "last" THEN [c EXCEPT !.state = "end"]
            ELSE [c EXCEPT !.state = "address", !.frag = <<>>, !.blk = AfterBlocks(c.frag, @)]
    /\ UNCHANGED <<setup, created>>

\* Mutant: an address that is freed stays in the tree, and the loop that frees
\* them begins again.
EndCreationLoops ==
    /\ c.state = "end" /\ UNCHANGED <<setup, target, c, created, air, made, sent>>

\* The addresses are freed.  A target specific message is created for the next
\* target.
EndCreation ==
    /\ c.state = "end"
    /\ IF c.more = <<>>
       THEN /\ c' = NoCreation
            /\ UNCHANGED <<target, sent>>
       ELSE /\ BeginPackets({Head(c.more)})
            /\ c' = Creation(c.plan, {Head(c.more)}, Tail(c.more))
            /\ sent' = [NothingSent EXCEPT !.plan = c.plan]
    /\ UNCHANGED <<setup, created, air, made>>

CreationStep == SkipAddress \/ TakeAddress \/ LastAddress \/ FinalizeFragment \/ EndCreation

-----------------------------------------------------------------------------
\* rfc5444_writer_forward_msg, first part: packets without space for the message
\* are sent; w.ok says that it fits into a packet of all targets so far.
MakeSpace(w, t, m) ==
    LET room(x) == x.d.max - (x.d.header + Len(x.d.added) + x.d.allocated + Len(x.bin))
        full == ~w.target[t].flushed /\ Len(m) > room(w.target[t])
        x    == IF full \/ w.target[t].flushed THEN begin_packet(t) ELSE w.target[t]
    IN  IF ~w.ok THEN w
        ELSE [target |-> [w.target EXCEPT ![t] = x], ok |-> Len(m) <= room(x),
              air |-> IF full THEN [w.air EXCEPT ![t] = Append(@, FinishedPkt(t, w.target[t]))]
                      ELSE w.air]

\* Hop limit and hop count of message octets m are moved by one.
Hopped(m) ==
    LET f == MsgFields(m, 0, Len(m))
        at_limit == 4 + Len(f.header.originator) + 1
        at_count == at_limit + Len(f.header.hoplimit)
    IN  [k \in DOMAIN m |->
            IF f.header.hoplimit # <<>> /\ k = at_limit THEN m[k] - 1
            ELSE IF f.header.hopcount # <<>> /\ k = at_count THEN (m[k] + 1) % 256
            ELSE m[k]]

\* rfc5444_writer_forward_msg; S are the targets its forward_target_selector takes.
ForwardMsg(m, S) ==
    LET f == MsgFields(m, 0, Len(m))
        w == Folded(LAMBDA v, t : MakeSpace(v, t, m), [target |-> target, air |-> air, ok |-> TRUE],
                    SelectSeq(setup.targets, LAMBDA t : t \in S))
        goes == w.ok /\ (f.header.hoplimit = <<>> \/ f.header.hoplimit[1] > 1)
    IN  /\ c.state = "none"
        /\ IF f.type \notin Existing(setup) THEN UNCHANGED <<target, air, made>>
           ELSE /\ air' = w.air
                /\ target' = [t \in Targets |-> IF goes /\ t \in S
                                 THEN [w.target[t] EXCEPT !.bin = @ \o Hopped(m)] ELSE w.target[t]]
                /\ made' = [t \in Targets |-> IF goes /\ t \in S THEN Append(made[t], Hopped(m))
                                              ELSE made[t]]
        /\ created' = created + 1
        /\ UNCHANGED <<setup, c, sent>>
=============================================================================
