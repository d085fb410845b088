------------------------------- MODULE Vaina -------------------------------
(***************************************************************************)
(* The VAINA server (vaina.c) and the command line tool that talks to it   *)
(* over the SLIP line.  The server thread receives a datagram, parses it,  *)
(* changes the Router Client Set or the NIB, and answers with an ACK or a  *)
(* NACK.  It is the VAINA thread of Rcs: its calls are steps of that       *)
(* module, and the shell can preempt it between any two steps.             *)
(*                                                                         *)
(* The line loses, repeats and delays datagrams, other programs of the     *)
(* host can send any, and the tool does not wait for an answer: what       *)
(* arrives next is any datagram whatever happened before.                  *)
(***************************************************************************)
EXTENDS Rcs, Sequences

VARIABLE server   \* the position of _vaina_thread, the message it handles
                  \* and good_ack

serverVars == <<entries, call, balance, server>>

Requests == {"RCS_ADD", "RCS_DEL", "NIB_ADD", "NIB_DEL"}
MessageTypes == Requests \cup {"ACK", "NACK"}

\* VainaClient::craft_seqno: the tool makes a client, and a 0, per invocation.
Seqno == 0

\* Message::serialize: type, sequence number, prefix length and address.
Serialize(m) ==
    IF m.type \in Requests THEN <<m.type, Seqno, m.prefix, m.ip>> ELSE <<>>

\* The messages the tool has code for.  Its command line calls the deletions
\* "sub", which handle_matches does not know, so in effect it sends additions;
\* deletions come from other programs.
ToolMessages == [type : Requests, prefix : Lens, ip : Addresses]

\* What may arrive: a message of the tool, cut off anywhere or followed by
\* more, or one of a type that is not a request.
Datagrams ==
    LET whole == {Serialize(m) : m \in ToolMessages}
                   \cup {<<type, Seqno>> : type \in MessageTypes \ Requests}
    IN  UNION {{SubSeq(d, 1, n) : n \in 0 .. Len(d)} \cup {Append(d, "more")} : d \in whole}

NoMessage == [msg |-> "none", seqno |-> 0, pfx_len |-> 0, ip |-> Unspecified]

\* _parse_msg: a request that is long enough, or nothing.
Parse(d) ==
    IF Len(d) >= 4 /\ d[1] \in Requests
    THEN [msg |-> d[1], seqno |-> d[2], pfx_len |-> d[3], ip |-> d[4]]
    ELSE NoMessage

Receiving == [at |-> "receive", msg |-> NoMessage, good |-> TRUE]

ServerInit == Init /\ server = Receiving

\* What the server does when it has handled its message.
AnswerWith(good) == server' = [server EXCEPT !.at = "answer", !.good = good]

AtProcess(type) == server.at = "process" /\ server.msg.msg = type /\ Running("vaina")

-----------------------------------------------------------------------------
\* sock_udp_recv and the checks up to _process_msg: datagrams of another
\* interface, empty ones and those that do not parse are dropped.
Receive(d, ours) ==
    /\ server.at = "receive" /\ Running("vaina")
    /\ server' = IF ours /\ Parse(d) # NoMessage
                 THEN [at |-> "process", msg |-> Parse(d), good |-> TRUE]
                 ELSE Receiving
    /\ UNCHANGED vars

\* VAINA_MSG_RCS_ADD, first half of aodvv2_rcs_add: NULL when the client is
\* known, which is answered with a NACK.
RcsAdd ==
    /\ AtProcess("RCS_ADD") /\ call["vaina"] = NoCall
    /\ AddMatches("vaina", server.msg.ip, server.msg.pfx_len)
    /\ IF call'["vaina"] = NoCall THEN AnswerWith(FALSE) ELSE UNCHANGED server

\* Mutant: answers without a look at what aodvv2_rcs_add returned.
RcsAddRestBlind ==
    AtProcess("RCS_ADD") /\ AddStore("vaina") /\ AnswerWith(TRUE)

\* Mutant: waits for a free slot.
RcsAddRestWaits ==
    /\ AtProcess("RCS_ADD") /\ FreeClientSlot(entries) # 0
    /\ AddStore("vaina") /\ AnswerWith(TRUE)

\* Its second half: NULL when the set is full.
RcsAddRest ==
    AtProcess("RCS_ADD") /\ AddStore("vaina") /\ AnswerWith(FreeClientSlot(entries) # 0)

\* VAINA_MSG_RCS_DEL, first half of aodvv2_rcs_del.  A client that is not in
\* the set is not an error.
RcsDel ==
    /\ AtProcess("RCS_DEL") /\ call["vaina"] = NoCall
    /\ \/ DelMatches(server.msg.ip, server.msg.pfx_len) /\ UNCHANGED server
       \/ /\ aodvv2_rcs_matches(entries, server.msg.ip, server.msg.pfx_len) = 0
          /\ AnswerWith(TRUE) /\ UNCHANGED vars

\* Its second half.
RcsDelRest == AtProcess("RCS_DEL") /\ DelClear /\ AnswerWith(TRUE)

\* The NIB requests: one call of RIOT's forwarding table, which refuses a new
\* entry when it has no room.
NibAdd == AtProcess("NIB_ADD") /\ (AnswerWith(TRUE) \/ AnswerWith(FALSE)) /\ UNCHANGED vars
NibDel == AtProcess("NIB_DEL") /\ AnswerWith(TRUE) /\ UNCHANGED vars

\* _send_ack; whether the answer leaves the node makes no difference to it.
SendAck ==
    /\ server.at = "answer" /\ Running("vaina")
    /\ server' = Receiving /\ UNCHANGED vars

\* The main thread: "aodvv2 rcs add", where a length below 1 is not accepted.
Shell ==
    /\ \/ \E addr \in Addresses, len \in Lens \ {0} : AddMatches("shell", addr, len)
       \/ AddStore("shell")
    /\ UNCHANGED server

Handle == RcsAdd \/ RcsAddRest \/ RcsDel \/ RcsDelRest \/ NibAdd \/ NibDel \/ SendAck

ServerNext == (\E d \in Datagrams, ours \in BOOLEAN : Receive(d, ours)) \/ Handle \/ Shell

(***************************************************************************)
(* A shell command ends.  The VAINA thread makes no step during one, but   *)
(* the shell then waits for the next line somebody types: the VAINA thread *)
(* gets the processor again and again, and strong fairness is what a       *)
(* scheduler by priorities then guarantees it.                             *)
(***************************************************************************)
ServerSpec ==
    /\ ServerInit /\ [][ServerNext]_serverVars
    /\ WF_serverVars(AddStore("shell") /\ UNCHANGED server)
    /\ SF_serverVars(Handle)

-----------------------------------------------------------------------------
\* The types of the variables of Rcs and of the server.
ServerTypeOK ==
    /\ TypeOK
    /\ server \in [at : {"receive", "process", "answer"}, good : BOOLEAN,
                   msg : [msg : Requests, seqno : {Seqno}, pfx_len : Lens, ip : Addresses]
                            \cup {NoMessage}]

\* The request to add a client is about to be answered with an ACK.
AddAcked == server.at = "answer" /\ server.msg.msg = "RCS_ADD" /\ server.good

Known == Holding(PrefixOf(server.msg.ip, server.msg.pfx_len)) # {}

(***************************************************************************)
(* _vaina_thread: an ACK to "add" is sent only when the client is in the   *)
(* set, between whichever steps of it the shell ran and whether the set    *)
(* was full when its turn came.  A NACK says less than the "client set is  *)
(* full" of vaina.c:118: aodvv2_rcs_add returns NULL for a client that the *)
(* set has already, too, so nothing is claimed of it.                      *)
(***************************************************************************)
AcksAreTrue == AddAcked => Known

(***************************************************************************)
(* _vaina_thread answers every request it parses, on every path through    *)
(* the client set, and is back to receive the next one.                    *)
(***************************************************************************)
RequestIsAnswered == server.at = "process" ~> server.at = "receive"
=============================================================================
