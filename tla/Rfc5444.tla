------------------------------- MODULE Rfc5444 -------------------------------
(***************************************************************************)
(* The RFC 5444 writer and reader of a node together.  The packets that    *)
(* the writer sends are read by nodes with the same reader, and come back  *)
(* to it; besides, packets of other implementations are read.  A message   *)
(* that the reader forwards goes to rfc5444_writer_forward_msg, as         *)
(* rfc5444_reader.h and rfc5444_msg_generator.c intend forward_message to  *)
(* be used.  Both parts run on one thread: a packet is read or a message   *)
(* created from beginning to end.                                          *)
(***************************************************************************)
EXTENDS Rfc5444Writer, Rfc5444Reader

CONSTANTS Packets,        \* packets of other implementations
          forward_select  \* targets forward_target_selector takes, per message type

vars == <<wvars, rvars>>

Init == WriterInit /\ ReaderInit

WriterIdle == c.state = "none"
ReaderIdle == rd.phase = "idle"

\* The writer works, the reader is at rest.
Write ==
    /\ ReaderIdle /\ done = Len(Registrations)
    /\ \/ SetupStep \/ \E plan \in plans : CreateMessage(plan) \/ CreateRefused(plan)
       \/ \E t \in Targets, force \in BOOLEAN : Flush(t, force)
    /\ UNCHANGED rvars
Create == CreationStep /\ UNCHANGED rvars
SetReaderUp == Register /\ UNCHANGED wvars

\* A packet of another implementation, whose messages may be dropped, is read
\* before any packet was sent; a packet of the writer at any time.
ReadForeign ==
    /\ WriterIdle /\ created = 0 /\ setup \in FullSetups
    /\ \A t \in Targets : made[t] = <<>> /\ air[t] = <<>>
    /\ \E buf \in Packets : HandlePacket(buf, 0)
    /\ UNCHANGED wvars
ReadSent ==
    /\ WriterIdle /\ setup.targets # <<>> /\ created < MaxMessages
    /\ \E t \in Targets : air[t] # <<>> /\ HandlePacket(Last(air[t]), MaxDrops)
    /\ UNCHANGED wvars

\* A step of the reader; forward_message is called in the step that ends a message.
Read ==
    /\ ReaderStep
    /\ IF rd.phase \in {"cleanup", "message"} /\ Len(forwards') > Len(forwards)
       THEN ForwardMsg(forwards'[Len(forwards')].octets, forward_select[msg.type])
       ELSE UNCHANGED wvars

Next == Write \/ Create \/ SetReaderUp \/ ReadForeign \/ ReadSent \/ Read

\* The thread goes on with what it has begun.
Spec == Init /\ [][Next]_vars /\ WF_wvars(CreationStep) /\ WF_rvars(ReaderStep)

-----------------------------------------------------------------------------
Octet == 0..255
\* The packets under construction are octets within the size of the target, and
\* the reader is never at two places.
TypeOK ==
    /\ \A t \in Targets : /\ target[t].flushed => target[t].bin = <<>>
                          /\ ToSet(target[t].bin) \subseteq Octet
                          /\ target[t].d.max = packet_size[t]
    /\ c.state \in {"none", "address", "fragment", "last", "end"} /\ created \in Nat
    /\ c.state # "none" => Len(c.frag) <= Len(c.list) /\ c.at \in 1..Len(c.list) + 1
    /\ ReaderIdle \/ WriterIdle
    /\ rd.phase \in {"packet", "messages", "packet_end"} => msg = NoMessage \/ rd.ptr > 0
    /\ rd.phase = "tlvs" => sched.t \in 0..Len(tlvs[sched.b])
    /\ rd.started <= Len(tree.pkt) /\ rd.drops <= MaxDrops

\* A message type exists exactly as long as something is registered for it, its
\* content providers are in the order of their priorities, and no address TLV type
\* is registered twice (_get_message, _lazy_free_message).  Whatever is registered,
\* rfc5444_writer_cleanup frees it all, although freeing one thing may free others
\* on the way.
TypesComeAndGo ==
    /\ \A m \in Existing(setup) :
          LET msgtype == setup.msgs[m]
          IN  /\ msgtype.registered \/ msgtype.providers # <<>> \/ msgtype.tlvtypes # <<>>
              /\ \A j, k \in DOMAIN msgtype.providers :
                    j < k => priority[msgtype.providers[j]] <= priority[msgtype.providers[k]]
              /\ \A p \in Members(msgtype.providers) : msg_type[p] = m
    /\ \A t \in TlvTypes :
          Cardinality({<<-1, k>> : k \in {j \in DOMAIN setup.tlvtypes : setup.tlvtypes[j] = t}}
             \cup UNION {{<<m, k>> : k \in {j \in DOMAIN setup.msgs[m].tlvtypes :
                                               setup.msgs[m].tlvtypes[j] = t}}
                           : m \in Existing(setup)}) <= 1
    /\ writer_cleanup(setup) = setup_init

-----------------------------------------------------------------------------
\* What the reader finds in the fragments that were made of a message.
Parsed == [n \in DOMAIN sent.fragments |->
              parse_message(sent.fragments[n], 0, Len(sent.fragments[n]))]
TlvOf(v, i) == [type |-> v.type, ext |-> v.ext,
                value |-> IF v.multi THEN ValueFor(v, i) ELSE v.values]
Spot(n, b, i) == [n |-> n, b |-> b, i |-> i]
Places(parsed) == UNION {UNION {{Spot(n, b, i) : i \in DOMAIN parsed[n].blocks[b].addrs}
                                  : b \in DOMAIN parsed[n].blocks} : n \in DOMAIN parsed}
\* Address a with its prefix length and its TLVs is at place x.
IsAt(parsed, a, x) ==
    LET block == parsed[x.n].blocks[x.b]
        mine  == SelectSeq(block.tlvs, LAMBDA v : v.index1 < x.i /\ x.i <= v.index2 + 1)
    IN  /\ SameAddress(a, block.addrs[x.i])
        /\ Len(mine) = Len(a.tlvs)
        /\ {TlvOf(mine[k], x.i - 1) : k \in DOMAIN mine} = ToSet(a.tlvs)

\* The fragments of a message, read again, have its header and its message TLVs
\* each, a mandatory address in each fragment and any other address in exactly
\* one, with its prefix length and all its TLVs, and nothing else: the heads,
\* tails and value lists of the compression lose nothing.
RoundTrip ==
    c.state = "end" => \A parsed \in {Parsed} :
       /\ \A n \in DOMAIN parsed : parsed[n].res = OKAY
       /\ \A n \in DOMAIN parsed :
             /\ parsed[n].type = c.plan.type /\ parsed[n].header = c.plan.header
             /\ parsed[n].end = Len(sent.fragments[n])
             /\ {TlvOf(v, 0) : v \in ToSet(parsed[n].tlvs)} = c.plan.tlvs
       /\ \A k \in DOMAIN c.list :
             LET at == {x \in Places(parsed) : IsAt(parsed, c.list[k], x)}
             IN  /\ Cardinality(at) = Cardinality({x.n : x \in at})
                 /\ IF Mandatory(c.list[k]) THEN {x.n : x \in at} = DOMAIN parsed
                    ELSE Cardinality(at) = 1
       /\ \A x \in Places(parsed) : \E k \in DOMAIN c.list : IsAt(parsed, c.list[k], x)

\* A fragment whose addresses have one prefix length takes no more than the space
\* that was found for it in the packets of its targets, although its size is only
\* estimated address by address; it is alone if and only if it is called so.
FragmentsFit ==
    c.state = "end" =>
       /\ (\A j, k \in DOMAIN c.list : c.list[j].plen = c.list[k].plen) =>
             \A n \in DOMAIN sent.fragments : Len(sent.fragments[n]) <= c.d.max
       /\ c.whole <=> Len(sent.fragments) = 1

\* The packets sent to a target and the one under construction carry the messages
\* that were put into them, each once and in order, and a packet handler that
\* allocates no space keeps none of them above the target's packet_size.
PacketsCarryAll ==
    ReaderIdle /\ WriterIdle => \A t \in Targets :
       LET OctetsOf(buf) == FoldLeft(LAMBDA out, m :
                                out \o IF m.res = OKAY THEN Octets(buf, m.start, m.end - m.start)
                                       ELSE <<-1>>, <<>>, MessagesOf(buf))
       IN  /\ FoldLeft(LAMBDA out, buf : out \o OctetsOf(buf), <<>>, air[t]) \o target[t].bin
                = FlattenSeq(made[t])
           /\ setup \in FullSetups
                /\ (\A h \in Members(setup.pkthandlers) : pkt_plan[h].allocs = <<>>) =>
                 /\ \A n \in DOMAIN air[t] : Len(air[t][n]) <= packet_size[t]
                 /\ target[t].d.header + Len(target[t].d.added) + Len(target[t].bin)
                      <= target[t].d.max

-----------------------------------------------------------------------------
\* The entries a consumer was registered with.
EntriesOf(x) ==
    LET r == {k \in 1..done : Registrations[k].c = x /\ Registrations[k].add}
    IN  Registrations[CHOOSE k \in r : \A j \in r : j <= k].entries
FitsEntry(e, v) == v.type = entry[e].type /\ (entry[e].match_type_ext => v.ext = entry[e].type_ext)
\* Entry number k of x is the first, in the order of the TLVs, that TLV v fits.
TakenBy(x, k, v) ==
    LET es == EntriesOf(x)
    IN  /\ FitsEntry(es[k], v)
        /\ \A j \in DOMAIN es : FitsEntry(es[j], v) =>
              EntryKey(es[k]) < EntryKey(es[j]) \/ (EntryKey(es[k]) = EntryKey(es[j]) /\ k <= j)

\* s is the set S in increasing order.
Increasing(s, S) == s \in Seq(S) /\ ToSet(s) = S /\ \A j, k \in DOMAIN s : j < k => s[j] < s[k]

\* When a TLV block was compared with the entries of a consumer, each entry has
\* exactly the TLVs of its type for this address that nobody dropped, in order and
\* with the address' own value; the block is taken for complete only when no
\* mandatory TLV is missing and no length is wrong (_schedule_tlvblock).
BlockShownRight ==
    rd.phase = "tlvs" /\ sched.t = 0 /\ sched.e = NULL =>
       LET block == tlvs[sched.b]
           es    == EntriesOf(sched.c)
           Shown(k) == {n \in DOMAIN block :
                          /\ TakenBy(sched.c, k, block[n])
                          /\ block[n].index1 <= sched.i /\ sched.i <= block[n].index2
                          /\ <<sched.b, n, sched.i>> \notin dropped.tlv}
       IN  \A k \in DOMAIN es :
              /\ Increasing(found[es[k]], Shown(k))
              /\ \A n \in Shown(k) : block[n].length > 0 =>
                    block[n].single = (IF block[n].multi THEN ValueFor(block[n], sched.i)
                                       ELSE block[n].values)
              /\ ~sched.failed =>
                    /\ entry[es[k]].mandatory => Shown(k) # {}
                    /\ \A n \in Shown(k) : ~BadLength(es[k], block[n])

\* Every message that is begun is finished and every packet read to its end.
WorkEnds == []<>(WriterIdle /\ ReaderIdle)
=============================================================================
