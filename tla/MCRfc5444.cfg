SPECIFICATION Spec
CONSTANTS
    NULL = NULL
    NoAddress = NoAddress
    AddrLen = 3
    msg_type <- MCmsg_type
    priority <- MCpriority
    packet_size <- MCpacket_size
    MaxMsgType = 2
    has_seqno <- MChas_seqno
    msg_size = 60
    addrtlv_size = 20
    pkt_plan <- MCpkt_plan
    plans <- MCplans
    target_specific <- MCtarget_specific
    tlvtypes_of <- MCtlvtypes_of
    own_tlvtypes <- MCown_tlvtypes
    FullSetups <- MCFullSetups
    MaxMessages = 2
    MaxAir = 2
    consumer <- MCconsumer
    entry <- MCentry
    Registrations <- MCRegistrations
    Results <- MCResults
    MaxDrops = 1
    Packets <- MCPackets
    forward_select <- MCforward_select
INVARIANTS TypeOK TypesComeAndGo RoundTrip FragmentsFit PacketsCarryAll BlockShownRight EndsFollowStarts DropsHold
PROPERTIES WorkEnds
