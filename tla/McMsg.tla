------------------------------- MODULE McMsg -------------------------------
(***************************************************************************)
(* The Multicast Message Set over time.  RREQs come from the reader        *)
(* (AODVv2 thread) and from aodvv2_find_route (IPv6 and shell threads).    *)
(*                                                                         *)
(* The reader's message is a static, zeroed structure, so its SeqNoRtr is  *)
(* unspecified.  aodvv2_find_route leaves the SeqNoRtr of its message, an  *)
(* automatic variable, uninitialised: OwnSeqNoRtrs is the set of values    *)
(* the stack may hold there.  Only RREQs for the node's own clients        *)
(* (OwnOrigs) are built that way, so what the set promises is stated for   *)
(* the RREQs of the other nodes.                                           *)
(***************************************************************************)
EXTENDS McMsgOps

CONSTANTS Origs, Targs,   \* prefixes an RREQ can carry
          OwnOrigs,       \* those that are clients of this node
          Seqnums,        \* its sequence numbers
          Metrics,        \* its metrics
          OwnSeqNoRtrs,   \* SeqNoRtr of a message built by aodvv2_find_route
          MaxTime         \* bound on the time that passes

ASSUME McMsgInputs ==
    /\ NoAddr \notin Origs /\ OwnOrigs \subseteq Origs
    /\ Seqnums \subseteq 0 .. SeqMod - 1 /\ Metrics \subseteq Nat
    /\ MaxTime \in Nat

VARIABLES entries,  \* static internal_entry_t _entries[]
          now,      \* xtimer_now_timex
          accepted  \* history: the last message accepted for each key

vars == <<entries, now, accepted>>

MetricType == 3   \* CONFIG_AODVV2_DEFAULT_METRIC, METRIC_HOP_COUNT

Keys == Origs \X Targs
Foreign == (Origs \ OwnOrigs) \X Targs
KeyOf(m) == <<m.orig, m.targ>>

Message(o, t, s, metric, rtr) ==
    [orig |-> o, targ |-> t, metric_type |-> MetricType, seqnum |-> s,
     metric |-> metric, seqnortr |-> rtr]

Messages == {Message(o, t, s, metric, rtr) :
                o \in Origs, t \in Targs, s \in Seqnums, metric \in Metrics \cup {0},
                rtr \in OwnSeqNoRtrs \cup {NoAddr}}

NoMessage == Message(NoAddr, NoAddr, 0, 0, NoAddr)

Init ==
    /\ entries = aodvv2_mcmsg_init
    /\ now = 0
    /\ accepted = [k \in Keys |-> NoMessage]

Process(m) ==
    LET p == aodvv2_mcmsg_process(entries, now, m)
    IN  /\ entries' = p.mc
        /\ accepted' = IF p.result = "ok" THEN [accepted EXCEPT ![KeyOf(m)] = m]
                                          ELSE accepted
        /\ UNCHANGED now

\* From _cb_rreq_end_callback.
ReceiveRreq(o, t, s, metric) == Process(Message(o, t, s, metric, NoAddr))

\* From aodvv2_find_route, for a client; the metric of a new RREQ is 0.
OriginateRreq(o, t, s, rtr) == Process(Message(o, t, s, 0, rtr))

Tick ==
    /\ now < MaxTime
    /\ now' = now + 1
    /\ UNCHANGED <<entries, accepted>>

Next ==
    \/ \E o \in Origs, t \in Targs, s \in Seqnums, metric \in Metrics :
            ReceiveRreq(o, t, s, metric)
    \/ \E o \in OwnOrigs, t \in Targs, s \in Seqnums, rtr \in OwnSeqNoRtrs :
            OriginateRreq(o, t, s, rtr)
    \/ Tick

Spec == Init /\ [][Next]_vars

-----------------------------------------------------------------------------
Entries == [used : BOOLEAN, orig : Origs \cup {NoAddr}, targ : Targs \cup {NoAddr},
            metric_type : {0, MetricType}, metric : Nat, seqnum : Nat,
            removal_time : Nat, seqnortr : {NoAddr}]

\* The type of the variables.
TypeOK ==
    /\ entries \in [McSlots -> Entries]
    /\ now \in Nat
    /\ accepted \in [Keys -> Messages \cup {NoMessage}]

KeyAt(i) == <<entries[i].orig, entries[i].targ>>

(***************************************************************************)
(* _add is reached only when no comparable entry was found: there are      *)
(* never two entries for one RREQ key of another node, although stale      *)
(* entries are removed only as far as each search gets.                    *)
(***************************************************************************)
OneEntryPerKey ==
    \A i, j \in McSlots :
        (i # j /\ entries[i].used /\ entries[j].used /\ KeyAt(i) \in Foreign)
            => ~Compatible(entries[i], entries[j])

(***************************************************************************)
(* aodvv2_mcmsg_process keeps what it accepted: an entry holds the         *)
(* sequence number and the metric of the last RREQ accepted for its key,   *)
(* whatever redundant RREQs refreshed its timestamps in between.           *)
(***************************************************************************)
EntryIsLastAccepted ==
    \A i \in McSlots : (entries[i].used /\ KeyAt(i) \in Foreign) =>
        LET a == accepted[KeyAt(i)]
        IN  /\ a # NoMessage
            /\ entries[i].seqnum = a.seqnum /\ entries[i].metric = a.metric

(***************************************************************************)
(* No RREQ of another node is taken for redundant wrongly: in every        *)
(* reachable state the first RREQ for a key, and one newer than the last   *)
(* accepted for it, would be accepted.                                     *)
(***************************************************************************)
FreshNeverRedundant ==
    \A m \in Messages :
        (KeyOf(m) \in Foreign /\ m.seqnortr = NoAddr
             /\ aodvv2_mcmsg_process(entries, now, m).result = "redundant") =>
            LET a == accepted[KeyOf(m)]
            IN  a # NoMessage /\ aodvv2_seqnum_cmp(a.seqnum, m.seqnum) <= 0

=============================================================================
