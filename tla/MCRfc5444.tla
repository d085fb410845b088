------------------------------ MODULE MCRfc5444 ------------------------------
(***************************************************************************)
(* Two targets, one with room for little more than a message with two      *)
(* addresses; message type 1 is sent to both, 2 to each with a message of  *)
(* its own.  Addresses have three octets, so that heads of one and two     *)
(* octets compete.                                                         *)
(***************************************************************************)
EXTENDS Rfc5444, TLC

MCpacket_size == "t1" :> 58 @@ "t2" :> 90
MChas_seqno   == "t1" :> FALSE @@ "t2" :> TRUE
Bare  == [adds |-> <<>>, allocs |-> <<>>, sets |-> <<>>]
PktTlv == [type |-> 5, ext |-> 0, value |-> <<1>>]
MsgTlv == [type |-> 6, ext |-> 2, value |-> <<3>>]
\* One handler adds a TLV, the other allocates the space and sets it in the end.
MCpkt_plan == "h1" :> [Bare EXCEPT !.adds = <<PktTlv>>]
              @@ "h2" :> [Bare EXCEPT !.allocs = <<[ext |-> FALSE, length |-> 1]>>,
                                      !.sets = <<PktTlv>>]
MCmsg_type == "p1" :> 1 @@ "p2" :> 1 @@ "p3" :> 2
MCpriority == "p1" :> 20 @@ "p2" :> 10 @@ "p3" :> 10
MCtarget_specific == 1 :> FALSE @@ 2 :> TRUE
MCtlvtypes_of  == "p1" :> <<"s", "m">> @@ "p2" :> <<>> @@ "p3" :> <<>>
MCown_tlvtypes == "g" :> -1

Message(r, p, types) == [exists |-> TRUE, registered |-> r, target_specific |-> FALSE,
                         providers |-> p, tlvtypes |-> types]
MCSetup(handlers) ==
    [msgs |-> 1 :> Message(TRUE, <<"p2", "p1">>, <<"s", "m">>)
              @@ 2 :> [Message(TRUE, <<"p3">>, <<>>) EXCEPT !.target_specific = TRUE],
     tlvtypes |-> <<"g">>, targets |-> <<"t1", "t2">>, pkthandlers |-> handlers]
MCFullSetups == {MCSetup(<<"h1">>), MCSetup(<<"h1", "h2">>)}

-----------------------------------------------------------------------------
A1 == <<10, 1, 0>>  A2 == <<10, 1, 1>>  A3 == <<10, 2, 1>>  A4 == <<11, 2, 0>>  A5 == <<11, 3, 0>>
Seqnum(n) == [type |-> 0, ext |-> 0, value |-> <<0, n>>]
Metric(n) == [type |-> 3, ext |-> 3, value |-> <<n>>]
Address(bytes, must, types) == [bytes |-> bytes, plen |-> 24, mandatory |-> must, tlvs |-> types]
NoProvider == [p \in DOMAIN MCmsg_type |-> Bare]
Hops(n) == [originator |-> <<>>, hoplimit |-> <<n>>, hopcount |-> <<>>, seqno |-> <<>>]

\* A request: both addresses are mandatory.
Rreq == [type |-> 1, select |-> {"t1", "t2"}, refused |-> FALSE, header |-> Hops(5),
         provider |-> NoProvider, tlvs |-> {},
         addrs |-> <<Address(A1, TRUE, <<Seqnum(7), Metric(1)>>), Address(A4, TRUE, <<>>)>>]
\* One mandatory address, and others for more than one fragment, whose TLVs have
\* values that change and types that pause.
Long == [Rreq EXCEPT !.header.originator = A5, !.header.hopcount = <<255>>,
                     !.header.seqno = <<1, 2>>,
    !.addrs = <<Address(A1, TRUE, <<Metric(1)>>), Address(A2, FALSE, <<Metric(2), Seqnum(7)>>),
                Address(A3, FALSE, <<Seqnum(8), Metric(2)>>), Address(A4, FALSE, <<Metric(2)>>),
                Address(A5, FALSE, <<Seqnum(8)>>), Address(A2, FALSE, <<Metric(9)>>)>>]
\* The same for each target alone, with other prefix lengths.
OtherPrefixes == [Rreq EXCEPT !.type = 2, !.header.hoplimit = <<>>,
    !.addrs = <<[Address(A1, TRUE, <<Metric(1)>>) EXCEPT !.plen = 16], Address(A2, FALSE, <<>>),
                [Address(A3, FALSE, <<Metric(1)>>) EXCEPT !.plen = 16],
                [Address(A4, FALSE, <<Seqnum(7)>>) EXCEPT !.plen = 16]>>]
\* Message TLVs, added and set in the end; no address.
Tlvs == [Rreq EXCEPT !.addrs = <<>>, !.select = {"t2"}, !.tlvs = {MsgTlv, PktTlv},
    !.provider["p2"] = [Bare EXCEPT !.adds = <<MsgTlv>>],
    !.provider["p1"] = [Bare EXCEPT !.allocs = <<[ext |-> TRUE, length |-> 1]>>,
                                    !.sets = <<PktTlv>>]]
Refused == [Rreq EXCEPT !.refused = TRUE]
RefusedEach == [OtherPrefixes EXCEPT !.refused = TRUE]
\* The mandatory addresses alone do not fit into a packet.
TooBig == [Rreq EXCEPT !.header.hoplimit = <<>>,
    !.addrs = <<Address(A1, TRUE, <<Seqnum(7), Metric(1)>>), Address(A3, TRUE, <<Seqnum(7)>>),
                Address(A4, TRUE, <<Metric(1)>>), Address(A5, TRUE, <<Seqnum(9), Metric(2)>>)>>]
MCplans == {Rreq, Long, OtherPrefixes, Tlvs, Refused, RefusedEach, TooBig}
MCforward_select == 1 :> {"t2"} @@ 2 :> {"t1", "t2"}

-----------------------------------------------------------------------------
\* Consumers as those of AODVv2, request and reply, whose address consumers have
\* one array of entries, entry 2 of it a gap; and others with all that the reader
\* knows: for packets, for every message, later ones, and one that goes away.
Plain == [order |-> 0, default_msg_consumer |-> FALSE, msg_id |-> 0, addrblock_consumer |-> FALSE,
          start_callback |-> FALSE, end_callback |-> FALSE, tlv_callback |-> FALSE,
          block_callback |-> FALSE, block_callback_failed_constraints |-> FALSE]
Rrep1 == [Plain EXCEPT !.msg_id = 2, !.block_callback = TRUE, !.end_callback = TRUE]
RrepAddress == [Plain EXCEPT !.msg_id = 2, !.addrblock_consumer = TRUE, !.block_callback = TRUE]
Both == [Plain EXCEPT !.start_callback = TRUE, !.end_callback = TRUE]
MCconsumer ==
    "rrep" :> Rrep1 @@ "rrepaddr" :> RrepAddress
    @@ "rreq" :> [Rrep1 EXCEPT !.msg_id = 1] @@ "rreqaddr" :> [RrepAddress EXCEPT !.msg_id = 1]
    @@ "pkt" :> [Both EXCEPT !.block_callback = TRUE]
    @@ "pkt2" :> [Both EXCEPT !.order = 1] @@ "quiet" :> [Plain EXCEPT !.order = 1]
    @@ "gone" :> [Plain EXCEPT !.default_msg_consumer = TRUE, !.tlv_callback = TRUE]
    @@ "first" :> [Both EXCEPT !.default_msg_consumer = TRUE]
    @@ "later" :> [Both EXCEPT !.order = 1, !.msg_id = 1, !.addrblock_consumer = TRUE,
                               !.tlv_callback = TRUE, !.block_callback = TRUE,
                               !.block_callback_failed_constraints = TRUE]
AnyTlv == [type |-> 0, type_ext |-> 0, match_type_ext |-> FALSE, mandatory |-> FALSE,
                match_length |-> FALSE, min_length |-> 0, max_length |-> 0]
MCentry ==
    "e0" :> AnyTlv @@ "e1" :> [AnyTlv EXCEPT !.type = 1] @@ "e2" :> AnyTlv
    @@ "e3" :> [AnyTlv EXCEPT !.type = 3]
    @@ "p5" :> [AnyTlv EXCEPT !.type = 5, !.mandatory = TRUE]
    @@ "l3" :> [AnyTlv EXCEPT !.type = 3, !.type_ext = 3, !.match_type_ext = TRUE,
                                   !.mandatory = TRUE]
    @@ "l0" :> [AnyTlv EXCEPT !.match_length = TRUE, !.min_length = 2, !.max_length = 2]
Shared == <<"e0", "e1", "e2", "e3">>
Adding(x, w, entries) == [add |-> TRUE, c |-> x, where |-> w, entries |-> entries]
MCRegistrations ==
    <<Adding("first", "msg", <<>>), Adding("rrep", "msg", <<>>), Adding("rrepaddr", "msg", Shared),
      Adding("gone", "msg", <<>>), Adding("quiet", "pkt", <<>>), Adding("rreq", "msg", <<>>),
      Adding("rreqaddr", "msg", Shared),
      Adding("later", "msg", <<"l3", "l0">>), Adding("pkt2", "pkt", <<>>),
      Adding("pkt", "pkt", <<"p5">>),
      [Adding("gone", "msg", <<>>) EXCEPT !.add = FALSE]>>
MCResults == {DROP_TLV, DROP_ADDRESS, DROP_MSG_BUT_FORWARD, DROP_MESSAGE, DROP_PACKET}

-----------------------------------------------------------------------------
\* Packets of others.  Block(addresses) is an address block, Msg a message.
Sized(body) == U16(Len(body)) \o body
MsgOf(type, flags, fields, types, rest) ==
    LET body == fields \o Sized(types) \o rest
    IN  <<type, flags + 2>> \o U16(4 + Len(body)) \o body
\* Two addresses 10.1.x with a zero tail and a prefix length each, three TLVs: one
\* with a value for each, two of one type of which one is for the second only, and
\* one without a value.
Rich == <<2, 128 + 32 + 8, 1, 10, 1, 1, 2, 24, 16>>
          \o Sized(<<3, 128 + 16 + 4, 3, 2, 7, 8>> \o <<0, 64 + 16, 1, 2, 0, 4>>
                   \o <<0, 64, 0>> \o <<1, 0>>)
\* One address with a full tail, whose metric has another extension.
Poor == <<1, 64 + 16, 2, 2, 1, 10, 16>> \o Sized(<<3, 128 + 16, 1, 1, 7>>)
\* Two messages in a packet with a TLV, the second without a hop limit.
Good == <<4>> \o Sized(<<5, 16, 1, 9>>)
          \o MsgOf(1, 64, <<2>>, <<6, 16, 1, 1>>, Rich) \o MsgOf(2, 0, <<>>, <<>>, Poor)
\* Nothing is registered for the type of the first message.  The second has two
\* kinds of tail, no address, or a TLV for an address that is not there.
Broken(rest) == <<0>> \o MsgOf(9, 64, <<3>>, <<>>, Poor) \o MsgOf(2, 0, <<>>, <<>>, rest)
MCPackets == {Good, <<16>>, <<8, 1>>, <<4, 0, 2, 5, 8>>, SubSeq(Good, 1, 30),
              Broken(<<1, 64 + 32, 1, 1, 10, 16, 0, 0>>), Broken(<<0, 0>>),
              Broken(<<1, 0, 10, 1, 1>> \o Sized(<<3, 64, 1>>))}
=============================================================================
