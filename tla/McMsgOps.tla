------------------------------ MODULE McMsgOps ------------------------------
(***************************************************************************)
(* The Multicast Message Set (aodvv2_mcmsg.c) as functions of the set and  *)
(* of the current time: it decides whether an RREQ is worth processing or  *)
(* redundant.  aodvv2_mcmsg_process holds the set's mutex from its first   *)
(* to its last statement, so one call is one step.                         *)
(*                                                                         *)
(* OrigPrefix stands for the prefix and its length.                        *)
(***************************************************************************)
EXTENDS SeqnumCmp, ArrayScan, Address

CONSTANTS McSize,      \* CONFIG_AODVV2_MCMSG_MAX_ENTRIES
          McLifetime   \* CONFIG_AODVV2_MAX_SEQNUM_LIFETIME

ASSUME McMsgAssumption == McSize \in Nat \ {0} /\ McLifetime \in Nat

McSlots == 1 .. McSize

\* memset(.., 0, ..) of an entry.
BlankMc == [used |-> FALSE, orig |-> NoAddr, targ |-> NoAddr, metric_type |-> 0,
            metric |-> 0, seqnum |-> 0, removal_time |-> 0, seqnortr |-> NoAddr]

aodvv2_mcmsg_init == [i \in McSlots |-> BlankMc]

\* _reset_entry_if_stale.
McReset(e, now) == IF e.used /\ now > e.removal_time THEN BlankMc ELSE e

\* _is_compatible, of an entry and a message.
Compatible(e, m) ==
    e.orig = m.orig /\ e.targ = m.targ /\ e.metric_type = m.metric_type

\* _is_comparable: a SeqNoRtr on either side must be the same on both.
Comparable(e, m) ==
    /\ Compatible(e, m)
    /\ e.seqnortr # NoAddr \/ m.seqnortr # NoAddr => e.seqnortr = m.seqnortr

\* _find_comparable_entry: the index it returns (0 for NULL) and the set it
\* leaves, aged up to that entry.
FindComparable(mc, now, m) ==
    FirstOrNone({i \in McSlots : LET e == McReset(mc[i], now) IN e.used /\ Comparable(e, m)})

AfterFind(mc, now, m) ==
    LET c == FindComparable(mc, now, m)
    IN  [i \in McSlots |-> IF c = 0 \/ i <= c THEN McReset(mc[i], now) ELSE mc[i]]

\* _add: the first free entry; SeqNoRtr is not copied.  Nothing when full.
McAdd(mc, now, m) ==
    LET i == FirstOrNone({j \in McSlots : ~mc[j].used})
    IN  IF i = 0 THEN mc
        ELSE [mc EXCEPT ![i] = [@ EXCEPT !.used = TRUE, !.orig = m.orig, !.targ = m.targ,
                                         !.metric_type = m.metric_type, !.metric = m.metric,
                                         !.seqnum = m.seqnum, !.removal_time = now + McLifetime]]

\* Mutant: stored and received numbers swapped.
SeqVerdictSwapped(e, m) ==
    LET seqcmp == aodvv2_seqnum_cmp(m.seqnum, e.seqnum)
    IN  IF seqcmp < 0 \/ (seqcmp = 0 /\ e.metric = m.metric) THEN "redundant" ELSE "ok"

\* The verdict on a message from its comparable entry alone.
SeqVerdict(e, m) ==
    LET seqcmp == aodvv2_seqnum_cmp(e.seqnum, m.seqnum)
    IN  IF seqcmp < 0 \/ (seqcmp = 0 /\ e.metric = m.metric) THEN "redundant" ELSE "ok"

\* The last loop: the first other entry that is compatible and no worse.
FirstNoWorse(mc, now, c) ==
    FirstOrNone({i \in McSlots \ {c} :
                    LET e == McReset(mc[i], now)
                    IN  e.used /\ Compatible(mc[c], e) /\ e.metric <= mc[c].metric})

\* Mutant: never looks for an entry to update.
ProcessAlwaysAdds(mc, now, m) ==
    LET mc1 == AfterFind(mc, now, m)
    IN  [mc |-> McAdd(mc1, now, m), result |-> "ok"]

\* The set aodvv2_mcmsg_process leaves and the verdict it returns.
aodvv2_mcmsg_process(mc, now, m) ==
    LET c     == FindComparable(mc, now, m)
        mc1   == AfterFind(mc, now, m)
        timed == [mc1 EXCEPT ![c].removal_time = now + McLifetime]
        mc2   == [timed EXCEPT ![c].seqnum = m.seqnum, ![c].metric = m.metric]
        worse == FirstNoWorse(mc2, now, c)
        mc3   == [i \in McSlots |-> IF i # c /\ (worse = 0 \/ i <= worse)
                                    THEN McReset(mc2[i], now) ELSE mc2[i]]
    IN  IF c = 0 THEN [mc |-> McAdd(mc1, now, m), result |-> "ok"]
        ELSE IF SeqVerdict(mc1[c], m) = "redundant"
             THEN [mc |-> timed, result |-> "redundant"]
             ELSE [mc |-> mc3, result |-> IF worse = 0 THEN "ok" ELSE "redundant"]
=============================================================================
