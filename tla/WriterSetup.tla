---------------------------- MODULE WriterSetup ----------------------------
(***************************************************************************)
(* What is registered with an RFC 5444 writer (rfc5444_writer.c): targets, *)
(* packet handlers, and message types with their content providers and the *)
(* address TLV types they use.  A message type comes to be with the first  *)
(* thing registered for it and is freed with the last.                     *)
(*                                                                         *)
(* S is a record with the fields msgs (a function from the message types,  *)
(* of which some exist), tlvtypes (the generic ones), targets, pkthandlers.*)
(***************************************************************************)
EXTENDS SortedSeq, SequencesExt

CONSTANTS packet_size,     \* of each target
          pkt_plan,        \* TLVs of each packet handler: added, allocated, set
          msg_type,        \* of each content provider
          priority,        \* of each content provider
          tlvtypes_of,     \* the address TLV types each content provider registers
          own_tlvtypes,    \* the other address TLV types, with a message type or -1 for all
          target_specific, \* of each message type
          MaxMsgType       \* the greatest message type; 255 in the code

Members(s) == {s[i] : i \in DOMAIN s}
Targets   == DOMAIN packet_size
Handlers  == DOMAIN pkt_plan
Providers == DOMAIN msg_type
MsgTypes  == DOMAIN target_specific
TlvTypes  == DOMAIN own_tlvtypes \cup UNION {Members(tlvtypes_of[p]) : p \in Providers}

\* The address TLV types of a provider are the elements of one array.
ASSUME WriterAssumption ==
    /\ MaxMsgType \in Nat /\ MsgTypes \subseteq 0..MaxMsgType
    /\ msg_type \in [Providers -> MsgTypes] /\ priority \in [Providers -> Int]
    /\ own_tlvtypes \in [DOMAIN own_tlvtypes -> {-1} \cup MsgTypes]
    /\ target_specific \in [MsgTypes -> BOOLEAN]
    /\ tlvtypes_of \in [Providers -> Seq(TlvTypes)]
    /\ \A p \in Providers : \A j, k \in DOMAIN tlvtypes_of[p] :
          tlvtypes_of[p][j] = tlvtypes_of[p][k] => j = k

MsgSetups == [exists : BOOLEAN, registered : BOOLEAN, target_specific : BOOLEAN,
              providers : Seq(Providers), tlvtypes : Seq(TlvTypes)]
Setups == [msgs : [MsgTypes -> MsgSetups], tlvtypes : Seq(TlvTypes),
           targets : Seq(Targets), pkthandlers : Seq(Handlers)]

\* The node of e is taken out, if it is in the list.
Without(s, e) == IF e \notin Members(s) THEN s
                 ELSE RemoveAt(s, CHOOSE k \in DOMAIN s : s[k] = e)

\* A message type that is not in _msgcreators, and a new one.
FreeMessage == [exists |-> FALSE, registered |-> FALSE, target_specific |-> FALSE,
                providers |-> <<>>, tlvtypes |-> <<>>]
NewMessage  == [FreeMessage EXCEPT !.exists = TRUE]
Existing(S) == {m \in MsgTypes : S.msgs[m].exists}

setup_init == [msgs |-> [m \in MsgTypes |-> FreeMessage], tlvtypes |-> <<>>,
               targets |-> <<>>, pkthandlers |-> <<>>]

\* _get_message: an existing message type, or a new one.
get_message(S, m) ==
    IF m \in Existing(S) THEN S ELSE [S EXCEPT !.msgs[m] = NewMessage]

\* _lazy_free_message; no address is left behind between two messages.
lazy_free_message(S, m) ==
    LET msg == S.msgs[m]
    IN  IF ~msg.registered /\ msg.tlvtypes = <<>> /\ msg.providers = <<>>
        THEN [S EXCEPT !.msgs[m] = FreeMessage]
        ELSE S

\* _register_addrtlvtype asserts that t is in no list yet.
TlvTypeAdded(S, t) ==
    t \in Members(S.tlvtypes) \/ \E m \in Existing(S) : t \in Members(S.msgs[m].tlvtypes)

register_generic_tlvtype(S, t) == [S EXCEPT !.tlvtypes = Append(@, t)]
register_msg_tlvtype(S, t, m) ==
    [get_message(S, m) EXCEPT !.msgs[m].tlvtypes = Append(@, t)]

unregister_addrtlvtype(S, t) ==
    IF t \in Members(S.tlvtypes) THEN [S EXCEPT !.tlvtypes = Without(@, t)]
    ELSE IF ~TlvTypeAdded(S, t) THEN S
    ELSE LET m == CHOOSE x \in Existing(S) : t \in Members(S.msgs[x].tlvtypes)
         IN  lazy_free_message([S EXCEPT !.msgs[m].tlvtypes = Without(@, t)], m)

register_msgcontentprovider(S, p, types) ==
    LET m == msg_type[p]
        got == get_message(S, m)
    IN  [got EXCEPT !.msgs[m].tlvtypes = @ \o types,
                    !.msgs[m].providers = InsertByKey(@, priority, p)]

unregister_tlvtypes(S, types) ==
    ForEach([T \in Setups |-> [t \in TlvTypes |-> unregister_addrtlvtype(T, t)]], S, types)

ProviderAdded(S, p) ==
    msg_type[p] \in Existing(S) /\ p \in Members(S.msgs[msg_type[p]].providers)

\* Mutant: the message type stays when its last provider goes.
UnregisterProviderOnly(S, p, types) ==
    IF ~ProviderAdded(S, p) THEN S
    ELSE [unregister_tlvtypes(S, types) EXCEPT !.msgs[msg_type[p]].providers = Without(@, p)]

unregister_content_provider(S, p, types) ==
    IF ~ProviderAdded(S, p) THEN S
    ELSE LET m == msg_type[p]
             T == unregister_tlvtypes(S, types)
         IN  lazy_free_message([T EXCEPT !.msgs[m].providers = Without(@, p)], m)

\* Their address TLV types stay.
unregister_providers(S, providers) ==
    ForEach([T \in Setups |-> [p \in Providers |-> unregister_content_provider(T, p, <<>>)]],
            S, providers)

\* NULL, and no change, when the type was registered before.
register_message(S, m, if_specific) ==
    LET got == get_message(S, m)
    IN  IF got.msgs[m].registered THEN got
        ELSE [got EXCEPT !.msgs[m].registered = TRUE,
                         !.msgs[m].target_specific = if_specific]

unregister_message(S, m) ==
    IF m \notin Existing(S) THEN S
    ELSE lazy_free_message([S EXCEPT !.msgs[m].registered = FALSE], m)

register_target(S, t)       == [S EXCEPT !.targets = Append(@, t)]
unregister_target(S, t)     == [S EXCEPT !.targets = Without(@, t)]
register_pkthandler(S, h)   == [S EXCEPT !.pkthandlers = Append(@, h)]
unregister_pkthandler(S, h) == [S EXCEPT !.pkthandlers = Without(@, h)]

\* A message type that is cleaned up is marked registered so that it stays until
\* its providers and TLV types are gone.
cleanup_message(S, m) ==
    LET kept == [S EXCEPT !.msgs[m].registered = TRUE]
        bare == unregister_providers(kept, kept.msgs[m].providers)
    IN  unregister_message(unregister_tlvtypes(bare, bare.msgs[m].tlvtypes), m)

\* rfc5444_writer_cleanup, through the message types in order.
writer_cleanup(S) ==
    ForEach([T \in Setups |-> [m \in 0..MaxMsgType |->
                IF m \in Existing(T) THEN cleanup_message(T, m) ELSE T]],
            unregister_tlvtypes([S EXCEPT !.pkthandlers = <<>>, !.targets = <<>>], S.tlvtypes),
            [n \in 1..MaxMsgType + 1 |-> n - 1])
=============================================================================
