------------------------------- MODULE Seqnum -------------------------------
(***************************************************************************)
(* The node's own sequence number (aodvv2_seqnum.c): one atomic counter,   *)
(* read and incremented by several RIOT threads without a common lock.     *)
(*                                                                         *)
(* A caller reads the counter and then increments it (aodvv2.c,            *)
(* aodvv2_writer.c, shell_extended/seqnum_get.c).  Each atomic operation   *)
(* is one step here, so a thread can be preempted between reading and      *)
(* incrementing, and between the fetch-and-add that leaves the range and   *)
(* the store that brings the counter back to 1.                            *)
(***************************************************************************)
EXTENDS Integers, FiniteSets

CONSTANTS Threads,   \* the threads that use the counter
          Prio,      \* RIOT priority of a thread: a smaller number runs first
          SeqMax     \* 65535, the largest aodvv2_seqnum_t

ASSUME SeqnumAssumption ==
    /\ IsFiniteSet(Threads)
    /\ Prio \in [Threads -> Nat]
    /\ SeqMax \in Nat \ {0}

VARIABLES seqnum,    \* static atomic_uint_fast32_t seqnum
          pc,        \* where each thread is in its get / increment sequence
          got        \* the value the thread's last aodvv2_seqnum_get returned

seqnum_vars == <<seqnum, pc, got>>

\* Conversion to aodvv2_seqnum_t (uint16_t): what does not fit is cut off.
ToSeqnum(n) == n % (SeqMax + 1)

Pcs == {"idle", "inc", "store"}

-----------------------------------------------------------------------------
\* The scheduler is preemptive with fixed priorities: none of the operations
\* blocks, so a thread runs only while every thread of higher priority is idle.
Running(t) == \A u \in Threads : Prio[u] < Prio[t] => pc[u] = "idle"

aodvv2_seqnum_init ==
    /\ seqnum = 1
    /\ pc = [t \in Threads |-> "idle"]
    /\ got = [t \in Threads |-> 1]

\* Mutant: the 32-bit counter is handed out uncut.
GetUncut(t) ==
    /\ pc[t] = "idle" /\ Running(t)
    /\ got' = [got EXCEPT ![t] = seqnum]
    /\ pc' = [pc EXCEPT ![t] = "inc"]
    /\ UNCHANGED seqnum

\* An increment follows, except for the last reading of the shell command.
aodvv2_seqnum_get(t) ==
    /\ pc[t] = "idle" /\ Running(t)
    /\ got' = [got EXCEPT ![t] = ToSeqnum(seqnum)]
    /\ \E next \in {"inc", "idle"} : pc' = [pc EXCEPT ![t] = next]
    /\ UNCHANGED seqnum

\* Mutant: tests for the end of the range one increment too late.
IncLateTest(t) ==
    /\ pc[t] = "inc" /\ Running(t)
    /\ seqnum' = seqnum + 1
    /\ pc' = [pc EXCEPT ![t] = IF seqnum > SeqMax THEN "store" ELSE "idle"]
    /\ UNCHANGED got

\* atomic_fetch_add and the test of the value it returns.
FetchAdd(t) ==
    /\ pc[t] = "inc" /\ Running(t)
    /\ seqnum' = seqnum + 1
    /\ pc' = [pc EXCEPT ![t] = IF seqnum >= SeqMax THEN "store" ELSE "idle"]
    /\ UNCHANGED got

\* Mutant: starts the next round at 0.
StoreZero(t) ==
    /\ pc[t] = "store" /\ Running(t)
    /\ seqnum' = 0
    /\ pc' = [pc EXCEPT ![t] = "idle"]
    /\ UNCHANGED got

\* atomic_store of the first sequence number.
Store(t) ==
    /\ pc[t] = "store" /\ Running(t)
    /\ seqnum' = 1
    /\ pc' = [pc EXCEPT ![t] = "idle"]
    /\ UNCHANGED got

aodvv2_seqnum_inc(t) == FetchAdd(t) \/ Store(t)

SeqnumNext == \E t \in Threads : aodvv2_seqnum_get(t) \/ aodvv2_seqnum_inc(t)

SeqnumSpec == aodvv2_seqnum_init /\ [][SeqnumNext]_seqnum_vars

-----------------------------------------------------------------------------
\* Threads that have pushed the counter out of range and not yet reset it.
Pending == {t \in Threads : pc[t] = "store"}

\* The type of the variables.
SeqnumTypeOK ==
    /\ seqnum \in Nat
    /\ pc \in [Threads -> Pcs]
    /\ got \in [Threads -> 0 .. SeqMax]

(***************************************************************************)
(* aodvv2_seqnum_inc: the counter never drops to 0, and however the        *)
(* threads preempt each other it exceeds the 16-bit range by at most the   *)
(* number of threads preempted before their reset (so the 32-bit counter   *)
(* itself can never overflow).                                             *)
(***************************************************************************)
CounterBound == seqnum \in 1 .. SeqMax + Cardinality(Pending)

(***************************************************************************)
(* aodvv2_seqnum_get: 0, which a receiver takes for "no sequence number",  *)
(* is handed out only while some thread is preempted between its fetch-    *)
(* and-add and its reset.                                                  *)
(***************************************************************************)
ZeroOnlyDuringReset ==
    [][\A t \in Threads :
         (got'[t] # got[t] /\ got'[t] = 0) => Pending # {}]_seqnum_vars
=============================================================================
