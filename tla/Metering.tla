------------------------------ MODULE Metering ------------------------------
(***************************************************************************)
(* From a packet to a per-application total.                               *)
(*                                                                         *)
(* Kernel side (crates/netusage-ebpf): every packet adds its length to the *)
(* entry of its socket in the RX_BYTES or the TX_BYTES map.  The add is a  *)
(* load and a store (or a miss and an insert), so the adds of two CPUs may *)
(* overlap; both maps are LRU maps, so an insert may evict other sockets.  *)
(*                                                                         *)
(* Daemon side (crates/netusaged, aggregator.rs and the loop of            *)
(* supervisor.rs): every interval the daemon reads RX_BYTES, then          *)
(* TX_BYTES, entry by entry while the kernel keeps counting, and credits   *)
(* to the application of each socket what its counter grew since the       *)
(* previous reading.                                                       *)
(*                                                                         *)
(* A counter is a natural and 0 is "no entry": a packet has a length, so   *)
(* an entry that exists is never 0, and the daemon reads an absent entry   *)
(* as 0 (`unwrap_or(0)`).                                                  *)
(***************************************************************************)
EXTENDS Naturals, FiniteSets, Functions

CONSTANTS
  Cpus,        \* CPUs that run the eBPF programs
  Cookies,     \* socket cookies
  Keys,        \* application keys, SYSTEM_OTHER_KEY among them
  Other,       \* SYSTEM_OTHER_KEY, the fallback of an unresolved cookie
  Capacity,    \* TRAFFIC_MAP_CAPACITY, entries of each map
  Lengths,     \* packet lengths
  MaxPackets   \* bound: packets that arrive in a behaviour

ASSUME MeteringAssumption ==
  /\ Other \in Keys
  /\ IsFiniteSet(Keys) /\ IsFiniteSet(Cookies)
  /\ Capacity \in Nat \ {0}
  /\ Lengths \subseteq Nat \ {0}
  /\ MaxPackets \in Nat

Dirs == {"rx", "tx"}

\* One entry of one map: <<"rx", c>> is the entry of cookie c in RX_BYTES.
Entries == Dirs \X Cookies

\* An add between its load and its store: `base` is what it found (0: a miss).
Adds == [cpu : Cpus, entry : Entries, base : Nat, bytes : Nat]

VARIABLES
  counters,    \* RX_BYTES and TX_BYTES
  adds,        \* the adds in progress, at most one on a CPU
  pc,          \* what the supervisor loop is doing
  todo,        \* cookies the step in progress has not handled yet
  snap,        \* the readings of this cycle (`samples`)
  prev,        \* Aggregator::prev, 0 for a cookie it does not hold
  owner,       \* what `resolve` answers: the key of a cookie
  listed,      \* the keys of Aggregator::totals
  totals,      \* Aggregator::totals
  packets,     \* number of packets so far (for the bound)
  delivered,   \* history: bytes the programs were asked to add to an entry
  credited,    \* history: bytes the aggregator credited out of an entry
  lossy        \* history: entries that were evicted or whose adds overlapped

kernelVars == <<counters, adds, packets, delivered, lossy>>
daemonVars == <<pc, todo, snap, prev, listed, totals, credited>>
vars == <<kernelVars, daemonVars, owner>>

TypeOK ==
  /\ counters \in [Entries -> Nat]
  /\ adds \subseteq Adds
  /\ pc \in {"rx", "tx", "aggregate", "sleep"}
  /\ todo \subseteq Cookies
  /\ snap \in [Entries -> Nat]
  /\ prev \in [Entries -> Nat]
  /\ owner \in [Cookies -> Keys]
  /\ listed \subseteq Keys
  /\ totals \in [Keys \X Dirs -> Nat]
  /\ packets \in 0 .. MaxPackets
  /\ delivered \in [Entries -> Nat]
  /\ credited \in [Entries -> Nat]
  /\ lossy \subseteq Entries

Init ==
  /\ counters = [e \in Entries |-> 0]
  /\ adds = {}
  /\ pc = "sleep"
  /\ todo = {}
  /\ snap = [e \in Entries |-> 0]
  /\ prev = [e \in Entries |-> 0]
  /\ owner = [c \in Cookies |-> Other]
  /\ listed = {}
  /\ totals = [kd \in Keys \X Dirs |-> 0]
  /\ packets = 0
  /\ delivered = [e \in Entries |-> 0]
  /\ credited = [e \in Entries |-> 0]
  /\ lossy = {}

-----------------------------------------------------------------------------
(* The kernel side.                                                        *)

\* The adds in progress on entry e.
AddsOn(e) == {a \in adds : a.entry = e}

\* The other entries of e's map.
Siblings(e) == {x \in Entries : x[1] = e[1] /\ x # e}

\* A packet of n bytes runs a program on a CPU, up to its look-up of entry e.
BeginAdd(cpu, e, n) ==
  /\ packets < MaxPackets
  /\ \A a \in adds : a.cpu # cpu
  /\ adds' = adds \cup
       {[cpu |-> cpu, entry |-> e, base |-> counters[e], bytes |-> n]}
  /\ packets' = packets + 1
  /\ delivered' = [delivered EXCEPT ![e] = @ + n]
  /\ lossy' = IF AddsOn(e) = {} THEN lossy ELSE lossy \cup {e}
  /\ UNCHANGED <<counters, daemonVars, owner>>

\* What an insert into e's map may evict: any entries nobody is adding to (the
\* kernel evicts in batches, approximately the coldest), and enough of them.
Evictions(e) ==
  {gone \in SUBSET {x \in Siblings(e) : counters[x] > 0 /\ AddsOn(x) = {}} :
     Cardinality({x \in Siblings(e) \ gone : counters[x] > 0}) < Capacity}

\* The program stores what it loaded plus the length, over whatever another
\* CPU stored meanwhile.
StoreHit(a) ==
  /\ a.base > 0
  /\ counters' = [counters EXCEPT ![a.entry] = a.base + a.bytes]
  /\ UNCHANGED lossy

\* The program found no entry: `insert` with BPF_ANY creates or overwrites it.
InsertMiss(a) ==
  /\ a.base = 0
  /\ \E gone \in IF counters[a.entry] = 0 THEN Evictions(a.entry) ELSE {{}} :
       /\ counters' = [x \in Entries |->
                         IF x = a.entry THEN a.bytes
                         ELSE IF x \in gone THEN 0 ELSE counters[x]]
       /\ lossy' = lossy \cup gone

FinishAdd(a) ==
  /\ StoreHit(a) \/ InsertMiss(a)
  /\ adds' = adds \ {a}
  /\ UNCHANGED <<packets, delivered, daemonVars, owner>>

-----------------------------------------------------------------------------
(* The daemon side.                                                        *)

\* The interval is over and the next cycle begins.  The interval is seconds
\* and an add is nanoseconds: some instant of the sleep has no add in progress.
Wake ==
  /\ pc = "sleep"
  /\ adds = {}
  /\ pc' = "rx"
  /\ todo' = Cookies
  /\ snap' = [e \in Entries |-> 0]
  /\ UNCHANGED <<kernelVars, prev, listed, totals, credited, owner>>

\* read_map reads one entry of the map of this pass.
ReadEntry(c) ==
  /\ pc \in Dirs
  /\ c \in todo
  /\ snap' = [snap EXCEPT ![<<pc, c>>] = counters[<<pc, c>>]]
  /\ todo' = todo \ {c}
  /\ UNCHANGED <<kernelVars, pc, prev, listed, totals, credited, owner>>

\* Fault: the sample keeps the keys of the RX_BYTES reading alone.
RxOnlyLive == {c \in Cookies : snap[<<"rx", c>>] > 0}

\* The cookies of the sample: those with an entry in either reading.
Live == {c \in Cookies : snap[<<"rx", c>>] > 0 \/ snap[<<"tx", c>>] > 0}

\* RX_BYTES is read before TX_BYTES; then the cookie map is locked.
EndMap ==
  /\ pc \in Dirs
  /\ todo = {}
  /\ \/ pc = "rx" /\ pc' = "tx" /\ todo' = Cookies
     \/ pc = "tx" /\ pc' = "aggregate" /\ todo' = Live
  /\ UNCHANGED <<kernelVars, snap, prev, listed, totals, credited, owner>>

\* Fault: a smaller reading is taken for a counter that started again.
ResetDelta(e) == IF snap[e] >= prev[e] THEN snap[e] - prev[e] ELSE snap[e]

\* Fault: a plain subtraction.
PlainDelta(e) == snap[e] - prev[e]

\* rx.saturating_sub(prev_rx)
Delta(e) == IF snap[e] >= prev[e] THEN snap[e] - prev[e] ELSE 0

\* Fault: a socket without an application is not added to any total.
CreditKnown(c) ==
  [kd \in Keys \X Dirs |->
     IF kd[1] = owner[c] /\ owner[c] # Other
       THEN totals[kd] + Delta(<<kd[2], c>>) ELSE totals[kd]]

\* The totals with the growth of cookie c added to what c resolves to.
Credit(c) ==
  [kd \in Keys \X Dirs |->
     IF kd[1] = owner[c]
       THEN totals[kd] + Delta(<<kd[2], c>>) ELSE totals[kd]]

\* Fault: the readings of a cookie add up.
SumOfReadings(c) ==
  [e \in Entries |-> IF e[2] = c THEN prev[e] + snap[e] ELSE prev[e]]

\* self.prev.insert: the reading of cookie c replaces the previous one.
Remembered(c) == [e \in Entries |-> IF e[2] = c THEN snap[e] ELSE prev[e]]

\* One turn of the loop of Aggregator::sample.
AggregateOne(c) ==
  /\ pc = "aggregate"
  /\ c \in todo
  /\ todo' = todo \ {c}
  /\ listed' = listed \cup {owner[c]}
  /\ totals' = Credit(c)
  /\ prev' = Remembered(c)
  /\ credited' = [e \in Entries |->
                    IF e[2] = c THEN credited[e] + Delta(e) ELSE credited[e]]
  /\ UNCHANGED <<kernelVars, pc, snap, owner>>

\* prev.retain: the cookies absent from the sample are forgotten.
EndSample ==
  /\ pc = "aggregate"
  /\ todo = {}
  /\ prev' = [e \in Entries |-> IF e[2] \in Live THEN prev[e] ELSE 0]
  /\ pc' = "sleep"
  /\ UNCHANGED <<kernelVars, todo, snap, listed, totals, credited, owner>>

\* The resolver thread, the backfill or the pruning changes what a cookie
\* resolves to; none can while the aggregator holds the lock.
Reassign(c, k) ==
  /\ pc # "aggregate"
  /\ owner[c] # k
  /\ owner' = [owner EXCEPT ![c] = k]
  /\ UNCHANGED <<kernelVars, daemonVars>>

Kernel ==
  \/ \E cpu \in Cpus, e \in Entries, n \in Lengths : BeginAdd(cpu, e, n)
  \/ \E a \in adds : FinishAdd(a)

Daemon ==
  \/ Wake
  \/ \E c \in Cookies : ReadEntry(c)
  \/ EndMap
  \/ \E c \in Cookies : AggregateOne(c)
  \/ EndSample

Next == Kernel \/ Daemon \/ \E c \in Cookies, k \in Keys : Reassign(c, k)

Spec == Init /\ [][Next]_vars

-----------------------------------------------------------------------------
(* Properties.                                                             *)

\* No byte is credited twice: whatever was evicted, re-created, overwritten by
\* an overlapping add or read in the middle of one, an application is never
\* credited more than its sockets carried (`saturating_sub` in
\* Aggregator::sample, and the pruning of `prev`).
NoByteCountedTwice == \A e \in Entries : credited[e] <= delivered[e]

\* Every loss has one of the two causes the code accepts (the LRU eviction and
\* the non-atomic add of maps.rs).  The entry of a socket that met neither holds
\* every byte but those of the one add in progress, is credited exactly up to
\* the last reading, and, once a cycle is over, up to this cycle's reading.
SteadyIsExact ==
  \A e \in Entries \ lossy :
    /\ AddsOn(e) = {} => counters[e] = delivered[e]
    /\ \A a \in AddsOn(e) : /\ AddsOn(e) = {a}
                            /\ counters[e] = a.base
                            /\ counters[e] + a.bytes = delivered[e]
    /\ credited[e] = prev[e]
    /\ pc = "sleep" => prev[e] = snap[e]

\* The per-application totals are the credits of the sockets, whoever a socket
\* resolved to at each reading: an identity that arrives late, changes or is
\* pruned moves no byte that was counted and drops none ("Nunca se pierde del
\* total", docs/app-attribution.md).
TotalsAreTheCredits ==
  \A d \in Dirs :
    SumFunction([k \in Keys |-> totals[<<k, d>>]])
      = SumFunction([c \in Cookies |-> credited[<<d, c>>]])

-----------------------------------------------------------------------------
(* Why no byte is counted twice: an inductive strengthening.               *)

\* The values entry e has or is about to have.
Values(e) == {counters[e]} \cup {a.base + a.bytes : a \in AddsOn(e)}

\* Entry e is still to be read, or has been read and is still to be credited.
Unread(e) ==
  \/ pc = "rx" /\ (e[1] = "tx" \/ e[2] \in todo)
  \/ pc = "tx" /\ e[1] = "tx" /\ e[2] \in todo

Read(e) ==
  \/ pc = "rx" /\ e[1] = "rx" /\ e[2] \notin todo
  \/ pc = "tx" /\ (e[1] = "rx" \/ e[2] \notin todo)
  \/ pc = "aggregate" /\ (e[2] \in todo \/ e[2] \notin Live)

\* No value of an entry exceeds what was credited of it by more than what is
\* left to credit, seen from the previous reading, from any value a reading may
\* still find, and from the reading just made.  A reading that finds less than
\* the previous one is harmless because of the last two.
NothingAhead ==
  \A e \in Entries :
    /\ credited[e] <= delivered[e]
    /\ \A x \in Values(e) : credited[e] + x <= delivered[e] + prev[e]
    /\ Unread(e) => \A x, y \in Values(e) :
                      credited[e] + x <= delivered[e] + y
    /\ Read(e) => /\ credited[e] + snap[e] <= delivered[e] + prev[e]
                  /\ \A x \in Values(e) :
                       credited[e] + x <= delivered[e] + snap[e]

\* Why a steady entry is exact: its readings only grow, so the saturating
\* subtraction never saturates and nothing is forgotten with `prev`.
SteadyGrows ==
  \A e \in Entries \ lossy :
    /\ prev[e] <= counters[e]
    /\ Read(e) => prev[e] <= snap[e] /\ snap[e] <= counters[e]
    /\ pc = "aggregate" /\ ~Read(e) => prev[e] = snap[e]
=============================================================================
