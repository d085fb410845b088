---------------------------- MODULE Rfc5444Reader ----------------------------
(***************************************************************************)
(* The RFC 5444 reader (rfc5444_reader.c): a packet is parsed, and the     *)
(* registered consumers are shown its TLVs, its messages and their         *)
(* addresses by callbacks.  What a callback returns may drop the TLV, the  *)
(* address, the message or the packet for the consumers that come later.   *)
(*                                                                         *)
(* Every callback is a step of its own, with any result.  The TLV blocks   *)
(* under way are numbered: 0 is that of the packet, 1 that of the message, *)
(* b + 1 that of the message's address block b.                            *)
(***************************************************************************)
EXTENDS Rfc5444Parse, OonfList

CONSTANTS consumer,      \* rfc5444_reader_tlvblock_consumer: a function of records
          entry,         \* rfc5444_reader_tlvblock_consumer_entry: likewise
          Registrations, \* the calls that set the reader up, in their order
          Results,       \* what callbacks may return besides RFC5444_OKAY
          MaxDrops       \* bound: times a callback does not let all pass, per packet

Consumers == DOMAIN consumer
Entries   == DOMAIN entry

\* Callbacks return one of the results of rfc5444_result that drop something.
ASSUME ReaderAssumption ==
    /\ Results \subseteq {DROP_TLV, DROP_ADDRESS, DROP_MSG_BUT_FORWARD, DROP_MESSAGE, DROP_PACKET}
    /\ MaxDrops \in Nat

\* A consumer has one node for both trees: avl_insert writes over one that is in a
\* tree, and avl_remove takes it from the tree it is told. So a consumer is added
\* again, or removed from elsewhere, only after it was removed from where it was.
ASSUME RegistrationsAssumption ==
    /\ Registrations \in Seq([add : BOOLEAN, c : Consumers, where : {"pkt", "msg"},
                              entries : Seq(Entries)])
    /\ \A m, n \in DOMAIN Registrations :
          LET r == Registrations[m]
              s == Registrations[n]
          IN  m < n /\ r.add /\ r.c = s.c /\ (s.add \/ s.where # r.where) =>
                 \E l \in m + 1 .. n - 1 : /\ ~Registrations[l].add
                                           /\ Registrations[l].c = r.c
                                           /\ Registrations[l].where = r.where
    /\ \A c \in Consumers : consumer[c].order \in Int

\* The entries of a consumer are the elements of one array, which consumers may have
\* in common (those of RREP and RREQ addresses in aodvv2_reader.c do).  An entry
\* for all extensions of a type has none of its own.
ASSUME EntriesAssumption ==
    /\ IsFiniteSet(Consumers) /\ IsFiniteSet(Entries) /\ Consumers \cap Entries = {}
    /\ NULL \notin Consumers \cup Entries
    /\ \A e \in Entries : /\ entry[e].type \in 0..255 /\ entry[e].type_ext \in 0..255
                          /\ entry[e].match_type_ext \in BOOLEAN
                          /\ ~entry[e].match_type_ext => entry[e].type_ext = 0
    /\ \A m, n \in DOMAIN Registrations :
          LET r == Registrations[m]
              s == Registrations[n]
          IN  r.add /\ s.add =>
                 /\ IsInjective(r.entries)
                 /\ \/ r.entries = s.entries
                    \/ ToSet(r.entries) \cap ToSet(s.entries) = {}

VARIABLES lists,    \* the rings of _consumer_list and _node
          tree,     \* packet_consumer and message_consumer in order
          done,     \* number of registrations made
          rd,       \* the packet being read, and where the reader is
          msg,      \* the message being read
          tlvs,     \* the TLVs of the blocks under way
          sched,    \* the TLV block being shown to a consumer
          found,    \* cons_entry->tlv and the chain of next_entry behind it
          dropped,  \* dropAddr and int_drop_tlv
          calls,    \* history: the callbacks of this packet
          forwards  \* history: the messages of this packet given to forward_message
rvars == <<lists, tree, done, rd, msg, tlvs, sched, found, dropped, calls, forwards>>

NoMessage == [res |-> OKAY, type |-> 0, blocks |-> <<>>]
NoSched   == [c |-> NULL, b |-> 0, i |-> 0, t |-> 0, e |-> NULL, failed |-> FALSE]
AtRest    == [phase |-> "idle", buf |-> <<>>, ptr |-> 0, has_tlv |-> FALSE, started |-> 0,
              result |-> OKAY, k |-> 0, b |-> 0, i |-> 0, same_order |-> <<>>, res |-> OKAY,
              do_not_forward |-> FALSE, drops |-> 0]

\* rfc5444_reader_init, and the consumers as static variables.
ReaderInit ==
    /\ lists = [next |-> [x \in Consumers \cup Entries |-> NULL],
                prev |-> [x \in Consumers \cup Entries |-> NULL]]
    /\ tree = [pkt |-> <<>>, msg |-> <<>>]
    /\ done = 0 /\ rd = AtRest /\ msg = NoMessage /\ tlvs = [b \in {0} |-> <<>>]
    /\ sched = NoSched /\ found = [e \in Entries |-> <<>>]
    /\ dropped = [addr |-> {}, tlv |-> {}] /\ calls = <<>> /\ forwards = <<>>

-----------------------------------------------------------------------------
\* _consumer_avl_comp orders by the order, address consumers later.
ConsumerKey[c \in Consumers] == 2 * consumer[c].order + (IF consumer[c].addrblock_consumer THEN 1 ELSE 0)

\* _calc_tlvconsumer_intorder
EntryKey(e) == 256 * entry[e].type + entry[e].type_ext

\* What the pointers of the rings may be.
Entities == Consumers \cup Entries
Rings    == [next : [Entities -> Entities \cup {NULL}], prev : [Entities -> Entities \cup {NULL}]]

\* One turn of the loop in _add_consumer: entry e goes behind the last entry of
\* the ring that does not come later than itself.
AddEntry(L, c, e) ==
    LET before == {x \in ToSet(Ring(L, c)) : EntryKey(x) <= EntryKey(e)}
        last   == CHOOSE x \in before : \A y \in before \ {x} :
                     \E m, n \in DOMAIN Ring(L, c) : m < n /\ Ring(L, c)[m] = y /\ Ring(L, c)[n] = x
    IN  IF oonf_list_is_empty(L, c) THEN oonf_list_add_tail(L, c, e)
        ELSE IF before = {} THEN oonf_list_add_head(L, c, e)
        ELSE oonf_list_add_after(L, last, e)

\* _add_consumer
AddConsumer(c, where, entries) ==
    /\ lists' = ForEach([L \in Rings |-> [e \in Entries |-> AddEntry(L, c, e)]],
                        oonf_list_init_head(lists, c), entries)
    /\ tree' = [tree EXCEPT ![where] = InsertByKey(@, ConsumerKey, c)]

\* _free_consumer: the node of c is taken out, if it is in the tree.
RemoveConsumer(c, where) ==
    /\ tree' = IF c \notin ToSet(tree[where]) THEN tree
               ELSE [tree EXCEPT ![where] =
                       RemoveAt(@, CHOOSE k \in DOMAIN tree[where] : tree[where][k] = c)]
    /\ UNCHANGED lists

Register ==
    /\ rd.phase = "idle" /\ done < Len(Registrations)
    /\ done' = done + 1
    /\ LET r == Registrations[done + 1]
       IN  IF r.add THEN AddConsumer(r.c, r.where, r.entries) ELSE RemoveConsumer(r.c, r.where)
    /\ UNCHANGED <<rd, msg, tlvs, sched, found, dropped, calls, forwards>>

-----------------------------------------------------------------------------
\* What a callback may return: anything but RFC5444_OKAY at most MaxDrops times.
Verdicts == {OKAY} \cup (IF rd.drops < MaxDrops THEN Results ELSE {})
Drops(r) == rd.drops + (IF r = OKAY THEN 0 ELSE 1)
Call(cb, c, b, i, r) ==
    calls' = Append(calls, [at |-> rd.ptr, cb |-> cb, c |-> c, b |-> b, i |-> i, res |-> r])
Worse(r, s) == IF r > s THEN r ELSE s

\* The start of _schedule_tlvblock: block b is shown to c for address i.
FirstEntry(c) == IF oonf_list_is_empty(lists, c) THEN NULL
                 ELSE oonf_list_first_element(lists, c)
Schedule(c, b, i) ==
    LET e == FirstEntry(c)
    IN  /\ sched' = [c |-> c, b |-> b, i |-> i, t |-> IF tlvs'[b] = <<>> THEN 0 ELSE 1,
                     e |-> e, failed |-> FALSE]
        /\ found' = IF e = NULL THEN found ELSE [found EXCEPT ![e] = <<>>]

\* _compare_tlvtypes; t is 0 and e NULL behind the last.
compare_tlvtypes(t, e) ==
    IF e = NULL THEN (IF t = 0 THEN 0 ELSE -1)
    ELSE IF t = 0 THEN 1
    ELSE LET tlv == tlvs[sched.b][t]
         IN  IF entry[e].match_type_ext THEN intorder(tlv) - EntryKey(e)
             ELSE tlv.type - entry[e].type

\* Mutant: the TLV is shown although it was dropped for this address.
IndexMatchDropped ==
    /\ sched.t # 0
    /\ LET tlv == tlvs[sched.b][sched.t] IN tlv.index1 <= sched.i /\ sched.i <= tlv.index2

IndexMatch ==
    /\ sched.t # 0 /\ <<sched.b, sched.t, sched.i>> \notin dropped.tlv
    /\ LET tlv == tlvs[sched.b][sched.t] IN tlv.index1 <= sched.i /\ sched.i <= tlv.index2

BadLength(e, tlv) ==
    entry[e].match_length /\ (tlv.length < entry[e].min_length \/ tlv.length > entry[e].max_length)

\* The rest of a turn of the loop through the two sorted lists.
Advance(match) ==
    LET t == sched.t
        e == sched.e
        at == compare_tlvtypes(t, e) >= 0
        t1 == IF t = 0 \/ compare_tlvtypes(t, e) > 0 THEN t
              ELSE IF t = Len(tlvs[sched.b]) THEN 0 ELSE t + 1
        moves == compare_tlvtypes(t1, e) > 0
        e1 == IF ~moves THEN e
              ELSE IF oonf_list_is_last(lists, sched.c, e) THEN NULL
              ELSE oonf_list_next_element(lists, e)
        lacks == (at \/ moves) /\ entry[e].mandatory /\ ~match
        chain == IF at /\ match THEN [found EXCEPT ![e] = Append(@, t)] ELSE found
    IN  /\ sched' = [sched EXCEPT !.t = t1, !.e = e1,
                        !.failed = \/ @ \/ lacks
                                   \/ (at /\ match /\ BadLength(e, tlvs[sched.b][t]))]
        /\ found' = IF moves /\ e1 # NULL THEN [chain EXCEPT ![e1] = <<>>] ELSE chain

\* A turn of _schedule_tlvblock: tlv_callback may drop the TLV, which goes on, or
\* more, which leaves the block at once.
ScheduleTurn ==
    /\ rd.phase = "tlvs" /\ (sched.t # 0 \/ sched.e # NULL)
    /\ tlvs' = IF IndexMatch /\ tlvs[sched.b][sched.t].multi
               THEN [tlvs EXCEPT ![sched.b][sched.t].single =
                                    ValueFor(tlvs[sched.b][sched.t], sched.i)]
               ELSE tlvs
    /\ LET fits == IndexMatch /\ sched.e # NULL /\ compare_tlvtypes(sched.t, sched.e) = 0
       IN  IF ~IndexMatch \/ ~consumer[sched.c].tlv_callback
           THEN Advance(fits) /\ UNCHANGED <<rd, dropped, calls>>
           ELSE \E r \in Verdicts :
                  /\ Call("tlv", sched.c, sched.b, sched.i, r)
                  /\ IF r \in {OKAY, DROP_TLV}
                     THEN /\ rd' = [rd EXCEPT !.drops = Drops(r)]
                          /\ dropped' = IF r = OKAY THEN dropped
                                        ELSE [dropped EXCEPT !.tlv = @ \cup
                                                {<<sched.b, sched.t, sched.i>>}]
                          /\ Advance(fits /\ r = OKAY)
                     ELSE /\ rd' = [rd EXCEPT !.drops = Drops(r), !.res = r, !.phase = "shown"]
                          /\ UNCHANGED <<sched, found, dropped>>
    /\ UNCHANGED <<lists, tree, done, msg, forwards>>

\* The ring of a consumer whose entries another consumer uses too does not come
\* back to its head, and cannot be searched for entries with the drop flag.
RingCloses(c) == FirstEntry(c) = NULL \/ oonf_list_next_element(lists, lists.prev[c]) = c

\* The callback for the block.  With RFC5444_DROP_TLV go entries that the callback
\* marked: the first TLV of each is dropped.
ScheduleVerdict ==
    LET cb == IF sched.failed THEN "failed" ELSE "block"
        c  == sched.c
        have == IF RingCloses(c) THEN {e \in ToSet(Ring(lists, c)) : found[e] # <<>>} ELSE {}
        called == IF sched.failed THEN consumer[c].block_callback_failed_constraints
                  ELSE consumer[c].block_callback
    IN  /\ rd.phase = "tlvs" /\ sched.t = 0 /\ sched.e = NULL
        /\ IF ~called
           THEN /\ rd' = [rd EXCEPT !.phase = "shown", !.res = OKAY]
                /\ UNCHANGED <<calls, dropped>>
           ELSE \E r \in Verdicts, prevent \in BOOLEAN, D \in SUBSET have :
                  /\ prevent => rd.drops < MaxDrops /\ r = OKAY /\ sched.b = 1
                  /\ r = DROP_TLV <=> D # {}
                  /\ Call(cb, c, sched.b, sched.i, r)
                  /\ dropped' = [dropped EXCEPT !.tlv = @ \cup
                                    {<<sched.b, found[e][1], sched.i>> : e \in D}]
                  /\ rd' = [rd EXCEPT !.phase = "shown", !.res = IF r = DROP_TLV THEN OKAY ELSE r,
                                      !.do_not_forward = @ \/ prevent,
                                      !.drops = IF prevent THEN @ + 1 ELSE Drops(r)]
        /\ UNCHANGED <<lists, tree, done, msg, tlvs, sched, found, forwards>>

-----------------------------------------------------------------------------
\* rfc5444_reader_handle_packet up to the consumers.  A packet whose header is
\* bad is given back at once.  drops is how often a callback has not let pass
\* what it was shown: MaxDrops for a packet that all of them let pass.
HandlePacket(buf, drops) ==
    /\ rd.phase = "idle" /\ done = Len(Registrations)
    /\ \E hdr \in {parse_pkt_header(buf)} :
          IF hdr.res # OKAY
          THEN /\ rd' = [AtRest EXCEPT !.phase = "refused", !.result = hdr.res]
               /\ UNCHANGED tlvs
          ELSE /\ rd' = [AtRest EXCEPT !.phase = "packet", !.buf = buf, !.ptr = hdr.p,
                                       !.has_tlv = hdr.has_tlv, !.k = 1, !.drops = drops]
               /\ tlvs' = [b \in {0} |-> hdr.tlvs]
    /\ UNCHANGED <<lists, tree, done, msg, sched, found, dropped, calls, forwards>>

\* The packet consumers are started one after the other.
PacketConsumer ==
    LET c == tree.pkt[rd.k]
        tlv_block == rd.has_tlv /\ (consumer[c].tlv_callback \/ consumer[c].block_callback)
    IN  /\ rd.phase = "packet" /\ rd.k <= Len(tree.pkt)
        /\ UNCHANGED tlvs
        /\ \E r \in IF consumer[c].start_callback THEN Verdicts ELSE {OKAY} :
             /\ IF consumer[c].start_callback THEN Call("start", c, 0, 0, r) ELSE UNCHANGED calls
             /\ rd' = [rd EXCEPT !.started = rd.k, !.drops = Drops(r), !.result = r,
                          !.k = IF r = OKAY /\ ~tlv_block THEN @ + 1 ELSE @,
                          !.phase = IF r # OKAY THEN "packet_end"
                                    ELSE IF tlv_block THEN "tlvs" ELSE "packet"]
             /\ IF r = OKAY /\ tlv_block THEN Schedule(c, 0, 0) ELSE UNCHANGED <<sched, found>>
        /\ UNCHANGED <<lists, tree, done, msg, dropped, forwards>>

PacketBlockShown ==
    /\ rd.phase = "shown" /\ sched.b = 0
    /\ rd' = [rd EXCEPT !.result = rd.res, !.k = @ + 1,
                        !.phase = IF rd.res = OKAY THEN "packet" ELSE "packet_end"]
    /\ UNCHANGED <<lists, tree, done, msg, tlvs, sched, found, dropped, calls, forwards>>

\* The next message is parsed, or there is none.
ParseMessage ==
    /\ rd.phase \in {"packet", "messages"} /\ (rd.phase = "packet" => rd.k > Len(tree.pkt))
    /\ IF rd.result # OKAY \/ rd.ptr >= Len(rd.buf)
       THEN /\ rd' = [rd EXCEPT !.phase = "packet_end"]
            /\ UNCHANGED <<msg, tlvs, dropped>>
       ELSE \E m \in {parse_message(rd.buf, rd.ptr, Len(rd.buf))} :
              /\ dropped' = [dropped EXCEPT !.addr = {}, !.tlv = {x \in @ : x[1] = 0}]
              /\ IF m.res # OKAY
                 THEN /\ rd' = [rd EXCEPT !.phase = "packet_end", !.result = m.res]
                      /\ UNCHANGED <<msg, tlvs>>
                 ELSE /\ rd' = [rd EXCEPT !.phase = "message", !.res = OKAY, !.k = 1,
                                          !.same_order = <<>>, !.do_not_forward = FALSE]
                      /\ msg' = m
                      /\ tlvs' = [b \in 0..Len(m.blocks) + 1 |->
                                     IF b = 0 THEN tlvs[0] ELSE IF b = 1 THEN m.tlvs
                                     ELSE m.blocks[b - 1].tlvs]
    /\ UNCHANGED <<lists, tree, done, sched, found, calls, forwards>>

-----------------------------------------------------------------------------
\* The loop of _handle_message over the message and address consumers.
OfMessage(c)  == consumer[c].default_msg_consumer \/ consumer[c].msg_id = msg.type
\* Mutant: the ends wait for all consumers of the message.
LaterOrderNever(c) == consumer[c].order < 0

LaterOrder(c) == rd.same_order # <<>>
                   /\ consumer[c].order > consumer[tree.msg[rd.same_order[2]]].order

SkipConsumer ==
    /\ rd.phase = "message" /\ rd.k <= Len(tree.msg) /\ ~OfMessage(tree.msg[rd.k])
    /\ rd' = [rd EXCEPT !.k = @ + 1]
    /\ UNCHANGED <<lists, tree, done, msg, tlvs, sched, found, dropped, calls, forwards>>

\* All consumers of one order were shown the message, or all consumers there are.
EndOfOrder ==
    /\ rd.phase = "message" /\ rd.same_order # <<>>
    /\ \/ rd.k > Len(tree.msg)
       \/ rd.k <= Len(tree.msg) /\ OfMessage(tree.msg[rd.k]) /\ LaterOrder(tree.msg[rd.k])
    /\ rd' = [rd EXCEPT !.phase = "message_end", !.i = rd.same_order[2]]
    /\ UNCHANGED <<lists, tree, done, msg, tlvs, sched, found, dropped, calls, forwards>>

\* schedule_msgtlv_consumer
MessageConsumer ==
    LET c == tree.msg[rd.k]
    IN  /\ rd.phase = "message" /\ rd.k <= Len(tree.msg)
        /\ OfMessage(c) /\ ~LaterOrder(c) /\ ~consumer[c].addrblock_consumer
        /\ UNCHANGED tlvs
        /\ \E r \in IF consumer[c].start_callback THEN Verdicts ELSE {OKAY} :
             /\ IF consumer[c].start_callback THEN Call("start", c, 1, 0, r) ELSE UNCHANGED calls
             /\ rd' = [rd EXCEPT !.res = r, !.drops = Drops(r),
                          !.same_order = IF @ = <<>> THEN <<rd.k, rd.k>> ELSE <<@[1], rd.k>>,
                          !.phase = IF r = OKAY THEN "tlvs" ELSE "message_end", !.i = rd.k]
             /\ IF r = OKAY THEN Schedule(c, 1, 0) ELSE UNCHANGED <<sched, found>>
        /\ UNCHANGED <<lists, tree, done, msg, dropped, forwards>>

MessageBlockShown ==
    /\ rd.phase = "shown" /\ sched.b = 1
    /\ rd' = IF rd.res = OKAY THEN [rd EXCEPT !.phase = "message", !.k = @ + 1]
             ELSE [rd EXCEPT !.phase = "message_end", !.i = rd.same_order[2]]
    /\ UNCHANGED <<lists, tree, done, msg, tlvs, sched, found, dropped, calls, forwards>>

\* schedule_end_message_cbs: backwards through the consumers of one order.  After
\* that the next order follows, or the message is finished.
MessageEnd ==
    LET c == tree.msg[rd.i]
        called == consumer[c].end_callback /\ ~consumer[c].addrblock_consumer /\ OfMessage(c)
    IN  /\ rd.phase = "message_end"
        /\ \E r \in IF called THEN Verdicts ELSE {OKAY} :
             /\ IF called THEN Call("end", c, 1, 0, r) ELSE UNCHANGED calls
             /\ rd' = [rd EXCEPT !.res = Worse(r, @), !.drops = Drops(r), !.i = @ - 1,
                          !.same_order = IF rd.i = rd.same_order[1] THEN <<>> ELSE @,
                          !.phase = IF rd.i > rd.same_order[1] THEN "message_end"
                                    ELSE IF Worse(r, rd.res) = OKAY THEN "message" ELSE "cleanup"]
        /\ UNCHANGED <<lists, tree, done, msg, tlvs, sched, found, dropped, forwards>>

-----------------------------------------------------------------------------
\* schedule_msgaddr_consumer: address i (from 0) of block b, and so on.
BeginAddresses ==
    LET c == tree.msg[rd.k]
    IN  /\ rd.phase = "message" /\ rd.k <= Len(tree.msg)
        /\ OfMessage(c) /\ ~LaterOrder(c) /\ consumer[c].addrblock_consumer
        /\ rd' = [rd EXCEPT !.phase = "address", !.b = 1, !.i = 0]
        /\ UNCHANGED <<lists, tree, done, msg, tlvs, sched, found, dropped, calls, forwards>>

NextAddress(r) ==
    IF rd.i + 1 < Len(msg.blocks[rd.b].addrs) THEN [r EXCEPT !.phase = "address", !.i = @ + 1]
    ELSE [r EXCEPT !.phase = "address", !.b = @ + 1, !.i = 0]

\* start_callback for an address, unless the address was dropped.
StartAddress ==
    LET c == tree.msg[rd.k]
    IN  /\ rd.phase = "address" /\ rd.b <= Len(msg.blocks)
        /\ UNCHANGED tlvs
        /\ IF <<rd.b, rd.i>> \in dropped.addr
           THEN rd' = NextAddress(rd) /\ UNCHANGED <<calls, sched, found>>
           ELSE \E r \in IF consumer[c].start_callback THEN Verdicts ELSE {OKAY} :
                  /\ IF consumer[c].start_callback THEN Call("start", c, rd.b + 1, rd.i, r)
                     ELSE UNCHANGED calls
                  /\ rd' = [rd EXCEPT !.res = r, !.drops = Drops(r),
                               !.phase = IF r = OKAY THEN "tlvs" ELSE "address_end"]
                  /\ IF r = OKAY THEN Schedule(c, rd.b + 1, rd.i) ELSE UNCHANGED <<sched, found>>
        /\ UNCHANGED <<lists, tree, done, msg, dropped, forwards>>

\* end_callback, and what the worst of the results of the address means.
EndAddress ==
    LET c == tree.msg[rd.k]
    IN  /\ rd.phase = "address_end" \/ (rd.phase = "shown" /\ sched.b > 1)
        /\ \E r \in IF consumer[c].end_callback THEN Verdicts ELSE {OKAY} :
             LET worst == Worse(r, rd.res)
                 rest  == [rd EXCEPT !.drops = Drops(r), !.res = OKAY]
             IN  /\ IF consumer[c].end_callback THEN Call("end", c, rd.b + 1, rd.i, r)
                    ELSE UNCHANGED calls
                 /\ dropped' = IF worst = DROP_ADDRESS
                               THEN [dropped EXCEPT !.addr = @ \cup {<<rd.b, rd.i>>}] ELSE dropped
                 /\ rd' = IF worst \in {OKAY, DROP_ADDRESS} THEN NextAddress(rest)
                          ELSE [rest EXCEPT !.res = worst,
                                  !.phase = IF rd.same_order = <<>> THEN "cleanup"
                                            ELSE "message_end",
                                  !.i = IF rd.same_order = <<>> THEN 0 ELSE rd.same_order[2]]
        /\ UNCHANGED <<lists, tree, done, msg, tlvs, sched, found, forwards>>

EndAddresses ==
    /\ rd.phase = "address" /\ rd.b > Len(msg.blocks)
    /\ rd' = [rd EXCEPT !.phase = "message", !.k = @ + 1]
    /\ UNCHANGED <<lists, tree, done, msg, tlvs, sched, found, dropped, calls, forwards>>

-----------------------------------------------------------------------------
\* Mutant: a message that was dropped here is forwarded.
ForwardedDropped == /\ rd.res # DROP_PACKET /\ ~rd.do_not_forward
                    /\ msg.header.hoplimit # <<>> /\ msg.header.hoplimit[1] > 1

\* The end of _handle_message: the message may be forwarded; no result but
\* RFC5444_DROP_PACKET stops the reading of the packet.
Forwarded == /\ rd.res \in {OKAY, DROP_MSG_BUT_FORWARD} /\ ~rd.do_not_forward
             /\ msg.header.hoplimit # <<>> /\ msg.header.hoplimit[1] > 1
EndMessage ==
    /\ \/ rd.phase = "cleanup"
       \/ rd.phase = "message" /\ rd.k > Len(tree.msg) /\ rd.same_order = <<>>
    /\ forwards' = IF ~Forwarded THEN forwards
                   ELSE Append(forwards, [at |-> msg.start, octets |->
                                             Octets(rd.buf, msg.start, msg.end - msg.start)])
    /\ rd' = [rd EXCEPT !.phase = "messages", !.ptr = msg.end,
                        !.result = IF rd.res = DROP_PACKET THEN rd.res ELSE OKAY]
    /\ UNCHANGED <<lists, tree, done, msg, tlvs, sched, found, dropped, calls>>

\* The end callbacks of the packet consumers that were started, backwards; their
\* results do not matter.
PacketEnd ==
    LET c == tree.pkt[rd.started]
    IN  /\ rd.phase = "packet_end" /\ rd.started > 0
        /\ rd' = [rd EXCEPT !.started = @ - 1]
        /\ IF consumer[c].end_callback THEN Call("end", c, 0, 0, OKAY) ELSE UNCHANGED calls
        /\ UNCHANGED <<lists, tree, done, msg, tlvs, sched, found, dropped, forwards>>

\* The TLVs are freed and the caller gets the result: what the entries of the
\* consumers still point to is not used again, and the histories end.
PacketDone ==
    /\ \/ rd.phase = "packet_end" /\ rd.started = 0
       \/ rd.phase = "refused"
    /\ rd' = AtRest /\ msg' = NoMessage /\ tlvs' = [b \in {0} |-> <<>>] /\ sched' = NoSched
    /\ found' = [e \in Entries |-> <<>>] /\ dropped' = [addr |-> {}, tlv |-> {}]
    /\ calls' = <<>> /\ forwards' = <<>>
    /\ UNCHANGED <<lists, tree, done>>

ReaderStep ==
    \/ ScheduleTurn \/ ScheduleVerdict \/ PacketConsumer \/ PacketBlockShown \/ ParseMessage
    \/ SkipConsumer \/ EndOfOrder \/ MessageConsumer \/ MessageBlockShown \/ MessageEnd
    \/ BeginAddresses \/ StartAddress \/ EndAddress \/ EndAddresses \/ EndMessage \/ PacketEnd
    \/ PacketDone
\* The reader by itself, of which any packets of octets are asked.
ReadAny == \E buf \in Seq(0..255), drops \in 0..MaxDrops : HandlePacket(buf, drops)

ReaderSpec == ReaderInit /\ [][Register \/ ReadAny \/ ReaderStep]_rvars

-----------------------------------------------------------------------------
\* The packet, message or address a callback was for.
Context(x) == IF x.b = 0 THEN <<x.c>> ELSE <<x.c, x.at, x.b, x.i>>
Count(cb, ctx) == Cardinality({k \in DOMAIN calls : calls[k].cb = cb /\ Context(calls[k]) = ctx})
Brackets(x) == consumer[x].start_callback /\ consumer[x].end_callback

\* A consumer that is told of the start of a packet, message or address is told of
\* its end, once and after all callbacks for it, whoever drops it in between; and
\* the consumers of an order are done with a message before the next order begins.
EndsFollowStarts ==
    calls # <<>> =>
       LET x == calls[Len(calls)]
           Open(y) == Count("start", Context(y)) > Count("end", Context(y))
       IN  /\ Brackets(x.c) => /\ Count("start", Context(x)) = 1
                               /\ Count("end", Context(x)) = (IF x.cb = "end" THEN 1 ELSE 0)
           /\ x.b > 0 => \A k \in DOMAIN calls :
                 Brackets(calls[k].c) /\ Open(calls[k]) /\ calls[k].b > 0 =>
                    consumer[calls[k].c].order = consumer[x.c].order
           /\ rd.phase = "messages" => \A k \in DOMAIN calls :
                 Brackets(calls[k].c) /\ calls[k].b > 0 => ~Open(calls[k])
           /\ rd.phase = "packet_end" /\ rd.started = 0 => \A k \in DOMAIN calls :
                 Brackets(calls[k].c) => ~Open(calls[k])

\* What one consumer drops no later one is shown: after a packet or message was
\* dropped only ends are told, a dropped address is not shown to others, and a
\* dropped message is not forwarded, unless it was dropped for this node only;
\* nothing is forwarded twice.
DropsHold ==
    /\ calls # <<>> =>
          LET x == calls[Len(calls)]
          IN  \A k \in 1..Len(calls) - 1 :
                 LET y == calls[k]
                     same == y.at = x.at /\ y.b > 0 /\ x.b > 0
                 IN  /\ y.res = DROP_PACKET => x.cb = "end"
                     /\ y.res \in {DROP_MESSAGE, DROP_MSG_BUT_FORWARD} /\ same => x.cb = "end"
                     /\ y.res = DROP_ADDRESS /\ same /\ y.b > 1 /\ y.b = x.b /\ y.i = x.i =>
                           x.c = y.c
    /\ \A k \in DOMAIN forwards :
          /\ \A j \in DOMAIN forwards : forwards[j].at = forwards[k].at => j = k
          /\ \A j \in DOMAIN calls : calls[j].at = forwards[k].at /\ calls[j].b > 0 =>
                calls[j].res \notin {DROP_MESSAGE, DROP_PACKET}
=============================================================================
