# Specifications of the Turpial radio firmware

TLA+ specifications of the network layer in `src/sys/net/aodvv2` and of the code
around it: the AODVv2 route discovery protocol on top of RIOT's GNRC stack, the
RFC 5444 library that carries its messages (`src/sys/oonf_api`), the VAINA
configuration server and the shell commands that act on the same state. TLC checks small instances, TLAPS proves the theorems for every value of the
constants.

    tlc -workers 2 -config MCLrs.cfg MCLrs     # one run
    tlapm LrsProofs.tla                        # one module of proofs

`PROJECT.json` lists the components, runs, mutants, hazards and theorems, and
maps every definition to the lines it translates.

## 1. The system

### Threads

RIOT schedules threads preemptively with fixed priorities (a smaller number runs
first) and has no time slicing, so a thread is preempted only by one of a
smaller number, at any instruction.

| thread   | priority | what it does here |
|----------|----------|-------------------|
| IPv6     | 4 (GNRC) | sends and forwards packets; calls `_route_info` when the NIB has no route |
| AODVv2   | 6        | `_event_loop`: RFC 5444 packets and requests to send RREQs and RREPs |
| main     | 7        | the shell |
| VAINA    | 9        | UDP server that adds and deletes router clients and NIB entries |

### Components

**Own sequence number** (`aodvv2_seqnum.c`). One atomic 32-bit counter cut to 16
bits when it is read. Operations: init, get, inc; get and inc are separate calls,
and inc is a fetch-and-add followed by a store at the end of the range. Used by
three threads without a lock. Correct when the counter keeps its range through
every preemption and never hands out 0, which means "no number" on the wire.

**Local Route Set** (`aodvv2_lrs.c`). An array of 16 slots, each a route and a
flag. Operations: add, delete, get, get next hop, offers-improvement, fill from
an RREQ or RREP. There is no timer: a lookup ages the slots it passes
(Active, Idle, Expired, erased). Only the AODVv2 thread uses it. Correct when a
destination has one route, what was learned is kept long enough and then ages in
order, and slots do not show: a bounded map.

**Multicast Message Set** (`aodvv2_mcmsg.c`). An array of 16 entries under a
mutex; one operation, `process`, decides whether an RREQ is redundant. Called by
the AODVv2 thread for RREQs received and by the IPv6 and shell threads for RREQs
originated. Correct when an RREQ key has one entry, the entry says what was
accepted last, nothing new is suppressed and nothing old gets through.

**Router Client Set** (`aodvv2_rcs.c`). An array of 2 prefixes under a mutex;
add, delete, exact match, prefix membership. Add and delete are two
critical sections each. Used by the VAINA and shell threads (add), VAINA
(delete), IPv6 and AODVv2 (membership). Correct when no update is lost, a client
is there once, and membership is membership in one of the prefixes.

**Packet buffer** (`aodvv2_buffer.c`). An array of 10 packets that wait for a
route. The IPv6 thread adds, the AODVv2 thread dispatches; there is no lock.
Correct when a packet accepted stays until it is handed over, is handed over
when the route comes, and is never used after it was freed.

**Route discovery** (`aodvv2.c`, `aodvv2_reader.c`, `aodvv2_writer.c`,
`aoddv2_metric.c`). State: the sets above, the thread's message queue (32), the
static `_msg_data` a message is parsed into, the NIB's forwarding table. A packet
without a route is buffered and an RREQ is flooded; every router that accepts it
installs the way back and passes it on; the router of the target answers with an
RREP that travels the way back; each router it passes installs the way forward;
the origin releases the packets. The NIB may refuse an entry, which the handlers
log and pass over. Correct when every next hop can go on, metrics do not lie,
messages die, and the packets get out.

**RFC 5444 reader** (`rfc5444_reader.c`). Parses packets: messages, address
blocks with shared heads and tails, TLV blocks. State: the consumers registered,
each with its TLV entries, and where in the packet it is. Every consumer is
called back for the packet, message or address it is registered for, in the order
of its number, and what a callback returns drops a TLV, an address, the message
or the packet for those that come later. `aodvv2_reader.c` registers two
consumers for each message type. Correct when a consumer sees the TLVs that are
its own, every start has an end, what is dropped stays dropped, a message is
forwarded at most once, and no packet, however malformed, keeps it from returning.

**RFC 5444 writer** (`rfc5444_writer.c`, `rfc5444_msg_generator.c`,
`rfc5444_pkt_generator.c`, `rfc5444_tlv_writer.c`). State: what is registered
(targets, packet handlers, message types, content providers, address TLV types),
the message under construction and a packet under construction per target. A
message's addresses are compressed into blocks and split into fragments that fit
the packets of all its targets; a packet is sent when it is full or flushed.
`aodvv2_writer.c` registers the content providers. Correct when the reader gets
back what was put in, fragments fit, packets carry each message once and in
order, and registrations leave nothing behind.

**Linked lists** (`list.h`) and **AVL trees** (`avl.c`, `avl.h`). Intrusive
structures that hold all of the above: message types, addresses, consumers. A
tree is also a list in the order of its keys, and elements with equal keys follow
each other in it without being nodes of the tree. Correct when tree and list
agree, the tree is balanced, and loops that remove elements visit the rest.

The rest of the library is conversions of addresses, text buffers, bitmaps and
debug output, and has no state.

**VAINA server and client** (`vaina.c`, `dist/tools/vaina`). A datagram per
request, a datagram with ACK or NACK back; the client tool sends and does not
wait. The server changes the Router Client Set and the NIB, as the thread of
lowest priority. Correct when every request is answered and the answer is true.

**BQ27441 driver** (`bq27441.c`). Reads and writes the battery gauge's registers
over I2C, a byte at a time, and keeps two time stamps to space commands out. The
firmware does not use it yet. Correct when a word returned is a reading, and the
bus is given back soon on every path.

**Address conversion**, **MANET group**, **shell**,
**start-up**, **board**: see the components in `PROJECT.json`.

### Where it is hard

- preemption inside unlocked or twice-locked operations: sequence number, packet
  buffer, client set;
- arrays that are aged lazily, by searches that stop half way: route set,
  message set;
- frames lost, delayed and reordered, and every router hearing its own flood back
  from its neighbours;
- values at their limits: 8-bit metrics, hop limits, sequence numbers that wrap,
  tables, queues and the buffer when they are full;
- static and uninitialised message fields that carry values from one message to
  the next;
- sizes that are estimated address by address while the compression of the
  addresses before is not yet decided, and buffers for them that are just full;
- callbacks in the middle of loops over consumers, TLVs and addresses that end or
  shorten these loops;
- discoveries that are started once and must come to an end.

`PROJECT.json` lists these one by one, at their lines, under "hazards".

## 2. Modules

| module | models | state | actions |
|--------|--------|-------|---------|
| `Address`, `ArrayScan`, `SeqnumCmp` | "no address"; the array loops as the least index that qualifies; `aodvv2_seqnum_cmp` and the byte of a number that survives the wire | | |
| `Seqnum` | own sequence number | counter, each thread's position, what it read | get; fetch-and-add; store |
| `LrsOps` | the route set's functions, pure | | |
| `Lrs` | the route set over time | table, clock, last question and answer, when each destination was learned | Learn, GetNextHop, DeleteEntry, Tick |
| `RouteMap` | what the route set promises: a bounded map | routes, question, answer | Learn, Lookup, Forget |
| `McMsgOps`, `McMsg` | message set | entries, clock, last message accepted per key | ReceiveRreq, OriginateRreq, Tick |
| `RcsOps`, `Rcs` | client set, two threads | entries, the call each thread is in | AddMatches, AddStore, DelMatches, DelClear |
| `Vaina` | the VAINA server as a thread of `Rcs`, and the datagrams | that of `Rcs`; the server's position, message and answer | Receive, RcsAdd, RcsAddRest, RcsDel, RcsDelRest, NibAdd, NibDel, SendAck, Shell |
| `Buffer` | packet buffer, two threads, reference counts | slots, references, where the dispatch is | ClientSends, Resend, Dispatch and one action per access of the dispatching thread |
| `Aodvv2` | routers on a network | per router: `LrsOps` and `McMsgOps` tables, counter, queue, forwarding table, waiting packets; frames in the air; destinations whose last entry the NIB refused | RouteInfo, SendRreq, SendRrep, Rreq{Dropped, Redundant, Processed}, Rrep{Dropped, Processed}, Deliver, Lose, Tick |
| `OonfList` | `list.h` on any memory of next and prev pointers | | |
| `AvlOps` | `avl.c`: insertion, removal, rotations and lookups, pure; left and right are one text with the side as a parameter | | |
| `Avl` | a tree in use | the tree's memory, the running loop, what it has to visit | Insert, Remove, the steps of the safe loops in both directions and of `avl_remove_all_elements` |
| `SortedSeq`, `SortedBag` | what a tree promises: a sequence sorted by keys | the sequence | Insert, Remove, clear |
| `TlvWriter` | TLV spaces of messages and packets, octets of a TLV | | |
| `WriterSetup` | registration with the writer and its lazy release | | |
| `MsgCompress` | address compression: a session for every head length, what each costs, where the cheapest block began | | |
| `MsgEncode` | octets of address blocks, their TLVs and the message header | | |
| `Rfc5444Writer` | the writer | what is registered, the message under construction, a packet per target, packets sent | SetupStep, CreateMessage, CreateRefused, CreationStep (address by address, fragment by fragment), Flush, ForwardMsg |
| `Rfc5444Parse` | parsing of headers, TLV and address blocks, pure | | |
| `Rfc5444Reader` | the reader | rings of consumers and entries, the packet and position, the TLV blocks, the calls made so far | Register, HandlePacket, ReaderStep (a callback, or the parsing between two) |
| `Rfc5444` | writer and reader on one thread; packets sent are read again | both | Write, Create, SetReaderUp, ReadForeign, ReadSent, Read |
| `Bq27441` | the battery gauge driver | clock, time stamps, transfers left, the one on the bus, the gauge's registers | Call, Acquire, ReadByte, WriteByte, Fail, Finish, Use, Tick, Measure |
| `ThreadProofs` (of `Seqnum` and `Buffer`), `LrsProofs`, `McMsgProofs`, `VainaProofs`, `Aodvv2Proofs`, `Bq27441Proofs`, `Rfc5444Proofs`, `Rfc5444ShownProofs` | theorems | | |
| `MC*` | instances for TLC | | |

The functions of the two tables are written once, in `LrsOps` and `McMsgOps`,
without variables. `Lrs` and `McMsg` drive them with every input; `Aodvv2` uses
the same definitions, so the component runs, the composition and the proofs are
about one text. `_reset_entry_if_stale` is part of the operators that search,
because in the code it is part of the search.

Granularity. A step is what runs without another user of the same state getting
in between: one atomic operation in `Seqnum`; one critical section in `Rcs` and `Vaina`; one call in `Lrs` (one user) and
`McMsg` (one mutex around the call); one access to a slot in `Buffer`, on the side
of the lower-priority thread only; one byte on the bus in `Bq27441`; one IPC
message in `Aodvv2`; one operation on the tree in `Avl`, loops element by
element; one callback in `Rfc5444Reader` and one address or fragment in the
writer, for both run on one thread and only callbacks can come in between.

The writer and the reader work on octets, because what could go wrong in them is
in the octets: heads, tails, index ranges, lengths and flags. `RoundTrip` compares
what the writer was given with what `Rfc5444Parse` finds in its output, so each
is the other's reference.

Definitions named "Mutant" are not part of a specification: each is a plausible
mistake in the definition below it, and shows that some property would notice it.

`Aodvv2` keeps the code's peculiarities: the sequence number of TargNode is the
counter of whichever router writes the RREP; the metric of an RREP is read into
OrigNode's field, so TargNode's is what the last message left in the static
structure; an RREP goes on with the hop limit the RREQ had left; `SeqNoRtr` of an
own RREQ is whatever the stack holds; a failed lookup of the next hop is used
anyway; a `gnrc_ipv6_nib_ft_add` that fails is logged, and the handler forwards
the message or dispatches the packets as if it had not (`FtUpdate`). Where a known
destination is updated the old entry is deleted first, so a refused add leaves the
router without one. A scenario says whether its NIB may refuse (`adds`); `refused`
is a history variable, and no step's guard reads it.

## 3. Runs

All sizes are the constants of the `.cfg` files. `avl` and `rfc5444` take about two
minutes, the others less.

| run | states | what it shows |
|-----|--------|---------------|
| `seqnum` | 3 370 | three threads with the priorities above, counter range of 4: `CounterBound` through every preemption at the wrap; `ZeroOnlyDuringReset`, 0 only inside a reset |
| `lrs` | 66 000 | three destinations, two slots, six time units: `UnusedIsBlank`, `OneRoutePerDestination`, `SeqnumInfoRetained`, `LifeCycle`, and the refinement `ImplementsRouteMap` |
| `mcmsg` | 91 000 | three keys, two entries, one of the keys the node's own with stack garbage: `OneEntryPerKey`, `EntryIsLastAccepted`, `FreshNeverRedundant` |
| `vaina` | 54 000 | the server on any sequence of datagrams, whole, cut off or of other types, and the shell; addresses of two bits: `NoLostUpdate`, `ClientsAreThePrefixes`, `DelPointerStillValid`, `AcksAreTrue`, `RequestIsAnswered` |
| `bq27441` | 576 000 | any sequence of the driver's functions, errors at any byte, a gauge that changes between bytes; a second of three ticks: `GoodWordsAreReadings`, `BusIsReleased` |
| `buffer` | 24 000 | three packets, two destinations, two slots, preemption at every access: `NoUseAfterFree`, which includes that no NULL is handed over, `DispatchIsComplete` |
| `discovery` | 121 000 | routers in six scenarios with loss and reordering, in two of them with a NIB that may refuse any entry: `TypeOK`, `HopBudget`, `MetricCoversDistance`, `NextHopKnowsTheWay`, `ReleasedAfterAdd` |
| `release` | 4 800 | nothing lost, two routers' first discoveries in all interleavings: `PacketsAreReleased` |
| `avl` | 130 000 | fourteen elements, three of them with one key, in every order of insertions, removals and loops: `TreeAgreesWithList` (order, links, balances, followers), `LookupsAgree` (find, less or equal, greater or equal), `LoopVisitsAll`, and the refinement `ImplementsSortedBag` |
| `rfc5444` | 66 000 | two targets, three content providers, seven consumers of the types `aodvv2_reader.c` uses and of others, packets of the writer and malformed ones: `TypesComeAndGo`, which includes that a cleanup frees everything, `RoundTrip`, `FragmentsFit`, `PacketsCarryAll`, `BlockShownRight`, `EndsFollowStarts`, `DropsHold`, `WorkEnds` |

Two runs end in a counterexample to something a comment or header of the
repository says:

| run | what goes wrong |
|-----|-----------------|
| `second_discovery` | `aodvv2_lrs_offers_improvement` passes existing and received number in the wrong order, so a router's second RREQ, which is newer, is refused by all that know its first, the target included; the packet waits for ever |
| `buffer_lost` | a packet added between two assignments of `_pkt_del` is wiped out |

Other places where the models do what the code does and a reader might expect
otherwise: `aodvv2_buffer_dispatch` is to be called when a route to the target is
on the NIB (`aodvv2.h:114`), and `_cb_rrep_end_callback` calls it after a
`gnrc_ipv6_nib_ft_add` that failed as well (`aodvv2_reader.c:246`, in the scenarios
with `MayRefuse`), so packets leave the buffer without a route; NULL of
`aodvv2_rcs_add` is to mean that the set is full (`rcs.h:85`), which `vaina.c:118`
makes a NACK of, but a client that is in the set already gives NULL too, so a
request that is repeated because its ACK was lost is refused; erasing a stale route keeps the slot's `used` flag
(`aodvv2_lrs.c:176`), and no add takes the slot again; with the route set full, an
RREP is passed on with the NULL that `aodvv2_lrs_get_next_hop` returned
(`aodvv2_reader.c:290`, which `aodvv2.c:147` asserts not to be); an RREP goes on
with the hop limit the RREQ had left; a route past its expiration time is returned once more before it
becomes Expired (the state is read before the Active to Idle transition); an RREQ
with a worse metric than the stored one of the same number is accepted; a route
to OrigNode is replaced by a longer one of the same number; a route carries
numbers of routers other than its destination; a route learned from an RREP has
an arbitrary metric; two threads that add the same client between each other's
search and insertion add it twice, and it takes two deletions; the VAINA tool
names its deletions `sub` (`cli.yml`) and looks for `del` (`rcs.rs`, `nib.rs`),
so it sends none; `_cmd_wait_time` sleeps as long as two commands were apart and
not the rest of the second, and never again once two are more than a second
apart; `_bq27441_write_regs` writes both bytes of a word to one register. No run claims anything about these; the properties are stated so as to be
true beside them, and say where (for instance `MetricCoversDistance`, which is
about RREQs).

In the RFC 5444 library:

- *Writer.* A fragment whose addresses differ in their prefix lengths may be
  larger than was estimated, which is why `FragmentsFit` is about addresses of one
  length. `non_mandatory` is not set back for the next fragment
  (`rfc5444_msg_generator.c:340`), so mandatory addresses that fill a fragment of
  their own would be repeated without end. Two neighbouring addresses with equal
  octets and different prefix lengths share a head of the whole address, for which
  there is no session. An address added again as mandatory keeps its place in the
  list of those that are not. The check of the packet's size looks at TLVs that
  are set and not at space allocated, hence the premise of `PacketsCarryAll` on
  handlers that allocate none. `rfc5444_writer_forward_msg` copies from the
  writer's message buffer where the message it was given is meant
  (`rfc5444_msg_generator.c:525`).
- *Reader.* The length of a ZEROTAIL is not checked (`rfc5444_reader.c:851`), so in
  a malformed block the copies of head, middle and tail may go beyond the octets of
  the address; the model gives a longer sequence there, and no packet of the run
  has such a block. A mandatory TLV counts as missing when a later TLV of its type is for
  other addresses. A TLV without a value leaves `single_value` as it was, where
  `rfc5444_reader.h:84` says NULL. A TLV with one value for each of 256 addresses
  divides by an index count that wrapped to 0. The consumers of RREQs and RREPs
  in `aodvv2_reader.c` share one array of entries: registering the second moves the
  entries into its ring, the first one's no longer closes, and only a `DROP_TLV`,
  which no callback of this firmware returns, would follow it.

### Bounds, and why they are enough

- *Tables of two slots or entries, three keys.* A table is full, has a hole in
  front of and behind an entry, and a key finds no room. Nothing in the code
  depends on the size otherwise.
- *Time.* In `lrs` the intervals are 1 (active), 1 (idle) and 3 (sequence
  numbers), the clock goes to 6: every ageing transition, an erasure, and a new
  route after it. In `mcmsg` the lifetime is 2 and the clock goes to 4.
- *Sequence numbers.* `SeqMod` is small and numbers are compared as signed values
  of that width, so comparisons across the wrap occur. Runs of `Aodvv2` have a
  byte of 4 or 5 values and numbers of more than one byte, so that a number can
  lose its upper part on the wire, and can be 0 there.
- *Metrics.* The limit is one less than the byte's modulus, as 254 and 256 are
  close in the firmware: the sum in `aodvv2_lrs_fill_routing_entry_rreq` is next
  to its wrap-around.
- *Two values of a byte and three ticks to a second* in `bq27441`: a word changes
  in one byte or both, and commands are closer than a second, a second apart, and
  further.
- *Three or four routers.* A line has a relay and two hops, the
  triangle two ways between any two routers, the diamond two relays of one flood
  and its redundant copies. `Scenarios` fix who sends and how
  many packets; the interleavings, losses and delays are free.
- *A NIB that refuses.* `CrowdedFlood` (triangle, one packet) and `CrowdedAgeing`
  (line, expired routes that are learned again) let every `ft_add` fail or not: one
  for a new destination, and one that was to replace an entry. In the other
  scenarios, and in `release` and `second_discovery`, whose liveness presumes it,
  the NIB has room.
- *Queue of two messages* in `discovery`: frames are dropped at a full queue, and
  `_route_info` blocks. In `release` it is long enough to drop nothing.
- *Fourteen elements* in `avl`: a removal that rotates on two levels needs twelve;
  a key that occurs three times has a follower in the middle. Loops are started on
  trees of up to two elements and duplicates kept in trees of up to five: a loop
  looks one element ahead only.
- *Addresses of three octets, messages of up to 60, message types up to 2* (255 in
  the code) in `rfc5444`: heads of one
  and two octets compete, blocks end for the better one, and messages take one
  fragment or several. Two messages are created per run of the writer, so one is
  appended to a packet, or the packet is sent to make room. Every callback may
  return every result, one of a packet's callbacks something other than OKAY.
- *Addresses of two bits* in `vaina`: prefixes of length 0, 1 and, from a length
  that is too large, the whole address; pairs of them contain each other.

Deadlock is checked except in the runs of `Aodvv2`, where a network whose
packets are spent is at rest.

### Fairness

`vaina` assumes that a shell command ends and that the VAINA thread, which stands
still during one, goes on when the shell waits for the next line: strong fairness
of its steps, for shell commands may come for ever. `bq27441` assumes that the
thread in the driver runs on. `rfc5444` assumes that the thread goes on with the
message it creates and the packet it reads (weak fairness of `CreationStep` and
`ReaderStep`): nothing in them blocks. `avl` has no liveness property. Of the runs of `Aodvv2`, `release` and
`second_discovery` assume fairness. `ThreadRuns(n)` says that an
AODVv2 thread whose queue is never empty again goes on handling messages: the
loop of `_event_loop` blocks only on the empty queue, and threads of higher
priority only run for as long as a frame or a packet takes. It is weak fairness
of `Thread(n)` written out with the condition under which that action is
enabled, which TLC evaluates faster. Weak fairness of `Deliver`, and leaving
`Lose` out, is the assumption of a radio link that works: liveness is claimed
for that case alone. Nothing is assumed of the clients or of time.

## 4. Proofs

`ThreadProofs`, in two parts. For `Seqnum`, any finite set of threads, priorities and
range:

- `CounterTypeCorrect`, `CounterBounded`, `ZeroNeedsPendingReset`. The invariant adds to
  the types that the counter is at least 1 and above its range by no more than
  the number of threads on their way to a reset. It is inductive because a
  fetch-and-add that leaves the range makes its thread one of these; the lemma on
  how the cardinality of that set changes is proved from the library's theorems
  on finite sets.

The modules about arrays begin with the lemmas `FirstIsLeast` and `WalkResult`, what the loop
over a static array returns, from the well-ordering of the naturals in
`WellFoundedInduction`.

`LrsProofs`, for any table size, lifetimes, addresses, numbers and metrics:

- `TypeCorrect`, `UnusedSlotsAreBlank`, `RoutesAreUnique`,
  `SeqnumInfoIsRetained`. `OneRoutePerDestination` is not inductive: a slot
  marked free that still held a route would be found by lookups and overwritten
  by an add. `IInv` is therefore the types, `Blank`, `Unique` and `Retained`;
  `Retained` speaks of `last_used`, which the ageing may only advance, instead of
  the presence of the route. Every table operation is first reduced to "some
  slots were aged and at most one was changed" (`AgedRoute`, `Aged`), and lemmas
  say what ageing and filling a slot preserve; the proof of the step has one part
  per action.
- `RoutesLiveInOrder` (the action property `LifeCycle`). The same reduction, with
  what ageing does to a route's state (`InOrder`), and one more invariant,
  `OnTime`: no route is Expired before its expiration time. Without it a lookup
  could erase an Expired route early.
- `LrsImplementsRouteMap`: the table implements `RouteMap`. The mapping turns the
  slots into a function of the keys they hold, which `Unique` justifies. Ageing
  maps to forgetting, filling a slot to `Learn`, a lookup to `Lookup`; that a
  learned route fits in the abstract capacity is a pigeonhole argument: the other
  keys have a slot each, and none of these is the one that was filled
  (`OthersFit`).

`McMsgProofs`, for any table size, lifetime, addresses and numbers:

- `TypeCorrect`, `EntriesAreUnique`, `EntriesAreLastAccepted`,
  `FreshIsNeverRedundant`. Entries of other nodes' messages are comparable exactly
  when their keys are equal, and ageing keeps or clears an entry and changes
  nothing else; so `process` either updates the one comparable entry or stores
  into a slot when there is none. The node's own entries, whose `SeqNoRtr` is
  arbitrary, are outside of the uniqueness and have to be kept apart throughout.

`VainaProofs`, for any number of clients, address length and shell threads; every
step of the server is one of a thread of `Rcs`:

- `NoUpdateIsLost`, `ClientsArePrefixes`, `DelPointerStaysValid`, `AcksStayTrue`.
  That a client set is what the calls have made it is not inductive by itself: an
  addition that found no match stores later, when another thread may have added.
  The invariant adds that stored prefixes are canonical, counts the entries per
  prefix, and says what each thread in the middle of a call has established that
  others cannot undo: only the server deletes, and others only fill free slots.
- `ServerTypeCorrect`: the types of the set, of the calls and of the server.

`ThreadProofs` again, for `Buffer` with any number of slots, packets and destinations:

- `TypeCorrect`, `NoPacketIsFreedInUse`, `DispatchCompletes`. The invariant says
  that a slot is whole unless the dispatching thread is between two accesses to
  it, that every slot's packet has a reference of its own, and that the slots the
  dispatch has passed hold nothing for its destination but what came after it.

`Bq27441Proofs`, for any times and register contents:

- `TypeCorrect`, `WordsAreReadings`: the transfers left and the bytes read belong
  to the function under way, and a byte read was in the gauge when it was read.

`Aodvv2Proofs`, for any network, number of routers, packets and messages:

- `HopBudgetHolds`, `NextHopsKnowTheWay`. Both invariants are about every frame in
  the air and every message in a queue, for a router acts on what it was sent when
  the sender was in another state. `NextHopsKnowTheWay` rests on a relation that
  only grows: a router that serves an originator goes on to do so, because an entry
  of its forwarding table is replaced, and goes only when the NIB refuses the one
  that was to replace it. So a frame that promised the way when it was sent still
  does when it arrives, however late, but for a destination that its sender's NIB
  has refused (`refused`): there the code announces a route that it does not have,
  and the property says that this is the only place where the chain breaks. It
  counts entries past their expiration, as an entry stays in the table until it is
  replaced.
- `TypeCorrect`: the tables of all routers, the frames, the IPC messages and the
  packet buffers stay in their types, on top of the invariant above. A number from
  a frame is cut to what the wire carries before it is stored, and a metric that
  would not fit in its octet is refused by the checks on the hop limit and the
  metric limit; both are needed.
- `MetricsCoverDistance`: no route of the Local Route Set is cheaper than a
  shortest walk in the network. A property of the tables of all routers, proved
  from facts about single messages as well (`Metrics`): what a frame says of its
  sender was true of a walk (`Near`), and the router that hears it is one link
  further (`NearNext`), as the network of a run is fixed.
- `PacketsLeaveAfterAdd` (the action property `ReleasedAfterAdd`): packets leave a
  buffer only in a step after which there is a route to their destination, or in
  which the NIB has refused one. Without the second part it is not true of the code (`aodvv2.h:114`, section 3).

`Rfc5444Proofs`, in two parts. For the specification `ReaderSpec`: the reader by
itself, given any packets of octets, with any consumers registered and removed in
any order and callbacks that return anything:

- `TlvBlocksAreWhole`, `MessagesGoForward`. The loops of the parser are recursive
  functions, defined by CHOOSE like every such function, so it is proved first that
  there is a function of that kind (`TlvTurnsAre`, from the existence and uniqueness
  of every finite number of turns) and then, by looking at the first turn that
  would break it, that every turn takes an octet and stays in front of the end. The
  model gives the loop as many turns as the block has octets, which this shows to
  be enough.
- `DropsAreKept` (`DropsHold`). The property speaks of pairs of callbacks and is not
  inductive. `CallOk` says what a callback that has returned still means for where
  the reader is: after RFC5444_DROP_PACKET it is leaving with that result, or past
  the messages; after a dropped message it is leaving that message with a result as
  bad, if it is still there; a dropped address is in the set the reader asks, or is
  being left by the consumer that dropped it. Every callback to come is then
  one that may follow. Messages are told apart by where they begin, so the proof
  needs that each ends behind its beginning. The reader's part of `Rfc5444` is made
  of the steps of `ReaderSpec`, which leaves open where packets come from.
- `EndsAreTold` (`EndsFollowStarts`). The property counts callbacks, and says nothing
  of the place of the reader; what makes it true is where the reader is in the tree
  of consumers. The inductive invariant `BInv` has that in four parts: the trees are
  sorted and hold each consumer once (`Trees`); the counters of the reader point
  into them as the loops have left them, where a consumer that was passed over is
  one that handles no message (`Turn`); every context that is open has had its start
  and no end, every other one as many ends as starts, and one that is still ahead
  neither (`Told`); the last callback was one that was allowed (`History`). It
  needs `RegistrationsAssumption`: a consumer has one node, which `avl_insert`
  writes over when it is in a tree and `avl_remove` takes from the tree it is told,
  so that whoever adds a consumer twice without removing it has broken the tree
  before any packet is read. `aodvv2_reader.c` adds each of its consumers once.

For the whole of `Rfc5444`, any targets, providers, TLV types and message types:

- `TypesAreInOrder` (`TypesComeAndGo`). The invariant `Fine` is in two parts:
  every list holds its elements once and no two lists share one, providers are in
  their order and with the type they are for (`SetupOk`), and every message type
  that exists is needed (`AllNeeded`). That a cleanup frees everything is about
  three nested loops whose bodies may free what the outer ones walk through. Each
  is followed by a relation that its turns add up in (`Less`: some TLV types and
  providers are gone from all lists, all else is as it was, and a message type
  that is left was there before, and needed if it was then), with `LoopReaches` saying
  what a loop does whose every turn goes from one set of things done to the next. A
  message type is marked registered while its lists are emptied, without which
  the last element would free it in the middle; the outer loop sees the numbers of
  the message types and finds those that are still there.

`Rfc5444ShownProofs`, of `ReaderSpec` as well and on top of the invariants of
`Rfc5444Proofs`:

- `BlocksAreShownRight` (`BlockShownRight`): which entry of a consumer is shown
  which TLVs, in which order and with which values, but for the value of a TLV that
  has none. Of a block that is taken for complete it says that no mandatory
  TLV is missing and no length is wrong; the converse is not claimed. The property speaks of the
  moment when a TLV block has been compared; the invariant `SInv`, on top of the two
  above, says how it came to that. `ListsOk`: from every consumer that was
  registered the pointers lead through its entries in the order of their keys.
  Insertion keeps that (`IsRing`, `IsSort`: one entry at a time goes behind the last
  that does not come later), and so does the registration of another consumer with
  the same array: it makes the same chain again, of which the first consumer has the
  start and no longer the end, so `Chain` asks nothing of the last pointer.
  `BlocksOk`: the TLVs of a block are in the order of their types and extensions,
  which follows from the insertion of each as it is parsed, through the three loops
  of the parser. `Merging`: the loop of `_schedule_tlvblock` is a merge of the two
  (`Merged`): each TLV that was passed is with the first entry that it fits, if that
  is not ahead and the TLV is for the address and not dropped; no TLV that is ahead
  fits an entry that was passed. The turns that are not plain are those where the
  TLV goes on and the entry stays or the other way round (`Compared`, `MergeTurn`):
  entries with equal keys, of which the first takes all; an entry for all extensions
  in front of one for the same type; a TLV for other addresses between two for this
  one. `EntriesAssumption` is what the entries must be: those of a consumer are the
  elements of one array, which two consumers share or have nothing in common, as
  `rfc5444_reader_add_message_consumer` is given it (`aodvv2_reader.c` shares one),
  types are octets (`rfc5444_reader.h`, line 269), and an entry that is for all
  extensions has 0 in the field for one. With another number there it would come
  behind entries for lower extensions, at which the merge passes TLVs that are for
  it.

The assumptions are those named in the modules (`SeqnumAssumption`,
`SeqnumCmpAssumption`, `LrsAssumption`, `LrsInputs`, `McMsgAssumption`,
`McMsgInputs`, `RcsAssumption`, `RcsInputs`, `BufferAssumption`,
`Bq27441Assumption`, `Aodvv2Assumption`, `OwnPrefixes`, `ReaderAssumption`,
`RegistrationsAssumption`, `EntriesAssumption`, `WriterAssumption`): positive sizes
and intervals, the null address not among the addresses, inputs that are natural
numbers, an octet that is no larger than a sequence number, callbacks that return
one of the results the library names, consumers that are in one tree at a time,
entries as above, TLV types of a provider that are elements of one array.
`OwnPrefixes` is the one about a deployment: every router announces a prefix of its
own, as its client set is configured, and no destination of a packet equals a
prefix; the distances of `MetricCoversDistance` mean nothing without it. TLC evaluates the assumptions
in every run.

Model-checked only:

- liveness (`PacketsAreReleased`, `RequestIsAnswered`, `BusIsReleased`,
  `WorkEnds`), which is out of the reach of the proof system;
- the trees (`TreeAgreesWithList`, `LookupsAgree`, `LoopVisitsAll`,
  `ImplementsSortedBag`): nodes point to each other, and what a descent or a
  rotation does to a whole tree takes recursion and induction over it (`AvlOps`
  declares RECURSIVE operators, and no module with a theorem reaches one);
- the messages of the RFC 5444 writer, and what it writes, read again (`TypeOK`,
  `RoundTrip`, `FragmentsFit`, `PacketsCarryAll`): the octets of a packet are the
  result of nested loops over types, TLVs and addresses, whose induction over data
  is longer than the code.

Every other property of the passing runs is proved.

## 5. Not modelled

- Failure of `malloc` and `gnrc_pktbuf_add` (that of `gnrc_ipv6_nib_ft_add` is
  modelled, in `Aodvv2` and in `Vaina`), and the queue of the AODVv2 thread
  filling up while a message is handled (a handler is one step). The hazards this
  leaves without a property are in `PROJECT.json`.
- Prefix lengths that differ between the messages for one address: a prefix is
  one value in `McMsg` and `Aodvv2`.
- Of the RFC 5444 writer: post-processors and processors of forwarded messages,
  which this firmware does not register; several TLVs of one type for one address;
  addresses with equal octets and different prefix lengths.
- Of the library: printing, text buffers, bitmaps, conversions of addresses, and
  the comparators of `avl_comp.c` other than that of numbers, which are pure.
- `Aodvv2` carries messages as records and not as the octets of `Rfc5444`. What
  the wire loses of a field (the upper part of a number) is part of `Aodvv2`.
- Changes of the topology, restarts of a router: the code keeps nothing across one.
- The lock of RIOT's NIB, whose source is not part of the repository.
- The contents of the NIB in `Vaina`: its requests are calls that may be refused.
- Address conversion, the MANET group, start-up, the board.

## 6. Plan

In the order of what the system depends on most:

1. Done: the sets, the sequence number, the buffer, the composition, the VAINA
   server, the battery gauge; lists, trees, the RFC 5444 reader and writer and
   their composition; proofs of every safety invariant of the sets, the buffer,
   the server, the gauge and the composition, of the life cycle of routes, of the
   refinement of `RouteMap`, of every safety invariant of the RFC 5444 reader, and
   of what is registered with the writer.
2. `Queue`: the AODVv2 thread's message queue with frames that arrive while a
   message is handled, `msg_send` to itself that fails, ownership of the messages
   on the heap.
3. `Aodvv2` with prefix lengths, and with routers that restart (all tables lost,
   the counter back at 1) among others that do not.
4. Proofs: the types of the RFC 5444 writer, on top of `Fine`.
