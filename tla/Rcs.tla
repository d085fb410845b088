-------------------------------- MODULE Rcs --------------------------------
(***************************************************************************)
(* The Router Client Set used by two threads at a time.  The VAINA thread  *)
(* adds and deletes clients for the host behind the SLIP line; the shell   *)
(* (the main thread, of higher priority) adds clients too.                 *)
(*                                                                         *)
(* aodvv2_rcs_add and aodvv2_rcs_del first call aodvv2_rcs_matches, which  *)
(* takes and releases the mutex, and lock it again to change the set: each *)
(* is two steps, and the VAINA thread can be preempted by the shell        *)
(* between them.  It cannot itself run while a shell command is under way. *)
(***************************************************************************)
EXTENDS RcsOps

CONSTANTS Lens       \* prefix lengths a caller may pass

ASSUME RcsInputs == Lens \subseteq Nat

VARIABLES entries,   \* static internal_entry_t _entries[]
          call,      \* the call each thread is in
          balance    \* history: calls that added a prefix minus calls that
                     \* deleted it

vars == <<entries, call, balance>>

Threads == {"vaina", "shell"}
ClientCost == 1   \* what both callers pass

Prefixes == {[addr |-> ipv6_addr_init_prefix(a, l), len |-> l] :
                a \in Addresses, l \in 0 .. AddrBits}

PrefixOf(addr, len) == [addr |-> ipv6_addr_init_prefix(addr, ClampLen(len)), len |-> ClampLen(len)]

NoCall == [op |-> "none", addr |-> Unspecified, len |-> 0, found |-> 0]

Init ==
    /\ entries = aodvv2_rcs_init
    /\ call = [t \in Threads |-> NoCall]
    /\ balance = [p \in Prefixes |-> 0]

\* The VAINA thread runs only while the shell waits for a line.
Running(t) == t = "vaina" => call["shell"] = NoCall

-----------------------------------------------------------------------------
\* Entry of aodvv2_rcs_add: clamp the length and look for the client; when it
\* is there, the call ends and returns NULL.
AddMatches(t, addr, len) ==
    /\ call[t] = NoCall /\ Running(t)
    /\ call' = IF aodvv2_rcs_matches(entries, addr, len) # 0 THEN call
               ELSE [call EXCEPT ![t] = [op |-> "add", addr |-> addr,
                                         len |-> ClampLen(len), found |-> 0]]
    /\ UNCHANGED <<entries, balance>>

\* Mutant: writes the first slot without looking whether it is free.
AddAtLast(t) ==
    LET c == call[t]
    IN  /\ c.op = "add" /\ Running(t)
        /\ entries' = FillClient(entries, 1, c.addr, c.len, ClientCost)
        /\ balance' = [balance EXCEPT ![PrefixOf(c.addr, c.len)] = @ + 1]
        /\ call' = [call EXCEPT ![t] = NoCall]

\* The rest of it, under the mutex: fill the first free slot, or give up.
AddStore(t) ==
    LET c == call[t]
        i == FreeClientSlot(entries)
    IN  /\ c.op = "add" /\ Running(t)
        /\ IF i # 0
           THEN /\ entries' = FillClient(entries, i, c.addr, c.len, ClientCost)
                /\ balance' = [balance EXCEPT ![PrefixOf(c.addr, c.len)] = @ + 1]
           ELSE UNCHANGED <<entries, balance>>   \* NULL
        /\ call' = [call EXCEPT ![t] = NoCall]

\* aodvv2_rcs_del, which only the VAINA thread calls: find the client.
DelMatches(addr, len) ==
    LET found == aodvv2_rcs_matches(entries, addr, len)
    IN  /\ call["vaina"] = NoCall /\ Running("vaina")
        /\ found # 0
        /\ call' = [call EXCEPT !["vaina"] = [op |-> "del", addr |-> addr,
                                              len |-> ClampLen(len), found |-> found]]
        /\ UNCHANGED <<entries, balance>>

\* Then clear, under the mutex, the entry the pointer found before leads to.
DelClear ==
    LET c == call["vaina"]
    IN  /\ c.op = "del" /\ Running("vaina")
        /\ entries' = ClearClient(entries, c.found)
        /\ balance' = [balance EXCEPT ![PrefixOf(c.addr, c.len)] = @ - 1]
        /\ call' = [call EXCEPT !["vaina"] = NoCall]

Next ==
    \/ \E t \in Threads : \/ \E addr \in Addresses, len \in Lens : AddMatches(t, addr, len)
                          \/ AddStore(t)
    \/ \E addr \in Addresses, len \in Lens : DelMatches(addr, len)
    \/ DelClear

Spec == Init /\ [][Next]_vars

-----------------------------------------------------------------------------
Calls == [op : {"none", "add", "del"}, addr : Addresses, len : 0 .. AddrBits,
          found : 0 .. RcsSize]

\* The type of the variables.
TypeOK ==
    /\ entries \in [RcsSlots -> [used : BOOLEAN, addr : Addresses,
                                 pfx_len : 0 .. AddrBits, cost : {0, ClientCost}]]
    /\ call \in [Threads -> Calls]
    /\ balance \in [Prefixes -> Int]

Holding(p) == {i \in RcsSlots : entries[i].used /\ entries[i].addr = p.addr
                                                /\ entries[i].pfx_len = p.len}

(***************************************************************************)
(* aodvv2_rcs_add and aodvv2_rcs_del: no update is lost or applied to      *)
(* another client, although both act on what aodvv2_rcs_matches saw before *)
(* the mutex was released: at any time the set holds a prefix exactly as   *)
(* often as it was added and not deleted.                                  *)
(***************************************************************************)
NoLostUpdate == \A p \in Prefixes : Cardinality(Holding(p)) = balance[p]

(***************************************************************************)
(* aodvv2_rcs_is_client, against the definition of a prefix: an address is *)
(* a client's exactly when the first bits of it are those of some prefix   *)
(* in the set, for every length from 0 to the whole address.               *)
(***************************************************************************)
ClientsAreThePrefixes ==
    \A a \in Addresses :
        aodvv2_rcs_is_client(entries, a) # 0
            <=> \E p \in Prefixes : /\ balance[p] > 0
                                    /\ \A i \in 1 .. p.len : a[i] = p.addr[i]

(***************************************************************************)
(* aodvv2_rcs_del uses the pointer it got before it locks the mutex again: *)
(* it still leads to an entry of the client to delete, since no other      *)
(* thread deletes.                                                         *)
(***************************************************************************)
DelPointerStillValid ==
    call["vaina"].op = "del" =>
        call["vaina"].found \in Holding(PrefixOf(call["vaina"].addr, call["vaina"].len))

=============================================================================
