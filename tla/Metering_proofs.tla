-------------------------- MODULE Metering_proofs --------------------------
(* Proofs about Metering, for any number of CPUs, sockets, applications and *)
(* packets and any capacity of the maps.                                    *)
EXTENDS Metering, SumTheorems, TLAPS

\* The state of the model keeps its shape: in particular the saturating
\* subtraction of Aggregator::sample keeps every total a natural.
THEOREM TypeCorrect == Spec => []TypeOK
<1>1. Init => TypeOK
  BY MeteringAssumption DEF Init, TypeOK
<1>2. TypeOK /\ [Next]_vars => TypeOK'
  <2> SUFFICES ASSUME TypeOK, [Next]_vars PROVE TypeOK'
    OBVIOUS
  <2> USE MeteringAssumption DEF TypeOK, Entries, Dirs
  <2>1. ASSUME NEW cpu \in Cpus, NEW e \in Entries, NEW n \in Lengths,
               BeginAdd(cpu, e, n)
        PROVE  TypeOK'
    <3>1. [cpu |-> cpu, entry |-> e, base |-> counters[e], bytes |-> n] \in Adds
      BY DEF Adds
    <3> QED BY <2>1, <3>1 DEF BeginAdd, daemonVars
  <2>2. ASSUME NEW a \in adds, FinishAdd(a)
        PROVE  TypeOK'
    <3>1. a.entry \in Entries /\ a.base \in Nat /\ a.bytes \in Nat
      BY DEF Adds
    <3>2. counters' \in [Entries -> Nat] /\ lossy' \subseteq Entries
      <4>1. CASE StoreHit(a)
        BY <3>1, <4>1 DEF StoreHit
      <4>2. CASE InsertMiss(a)
        BY <3>1, <4>2 DEF InsertMiss, Evictions, Siblings
      <4> QED BY <2>2, <4>1, <4>2 DEF FinishAdd
    <3> QED BY <2>2, <3>2 DEF FinishAdd, daemonVars
  <2>3. CASE Wake
    BY <2>3 DEF Wake, kernelVars
  <2>4. ASSUME NEW c \in Cookies, ReadEntry(c)
        PROVE  TypeOK'
    BY <2>4 DEF ReadEntry, kernelVars
  <2>5. CASE EndMap
    BY <2>5 DEF EndMap, kernelVars, Live
  <2>6. ASSUME NEW c \in Cookies, AggregateOne(c)
        PROVE  TypeOK'
    <3>1. \A e \in Entries : Delta(e) \in Nat
      BY DEF Delta
    <3>2. totals' \in [Keys \X Dirs -> Nat]
      <4>1. \A kd \in Keys \X Dirs : <<kd[2], c>> \in Entries
        OBVIOUS
      <4> QED BY <2>6, <3>1, <4>1 DEF AggregateOne, Remembered, Credit
    <3>3. credited' \in [Entries -> Nat] /\ prev' \in [Entries -> Nat]
      BY <2>6, <3>1 DEF AggregateOne, Remembered
    <3> QED BY <2>6, <3>2, <3>3 DEF AggregateOne, Remembered, kernelVars
  <2>7. CASE EndSample
    BY <2>7 DEF EndSample, kernelVars
  <2>8. ASSUME NEW c \in Cookies, NEW k \in Keys, Reassign(c, k)
        PROVE  TypeOK'
    BY <2>8 DEF Reassign, kernelVars, daemonVars
  <2>9. CASE UNCHANGED vars
    BY <2>9 DEF vars, kernelVars, daemonVars
  <2> QED
    BY <2>1, <2>2, <2>3, <2>4, <2>5, <2>6, <2>7, <2>8, <2>9
       DEF Next, Kernel, Daemon
<1> QED BY <1>1, <1>2, PTL DEF Spec
-----------------------------------------------------------------------------
(* How a step changes the values an entry has or is about to have.         *)

LEMMA AddTypes ==
  ASSUME TypeOK, NEW a \in adds
  PROVE  /\ a.entry \in Entries /\ a.base \in Nat /\ a.bytes \in Nat
         /\ a.base + a.bytes \in Nat
BY DEF TypeOK, Adds

LEMMA ValuesAreNaturals ==
  ASSUME TypeOK, NEW e \in Entries
  PROVE  Values(e) \subseteq Nat /\ counters[e] \in Values(e)
BY AddTypes DEF Values, AddsOn, TypeOK

LEMMA BeginAddValues ==
  ASSUME TypeOK, NEW cpu \in Cpus, NEW e \in Entries, NEW n \in Lengths,
         BeginAdd(cpu, e, n), NEW x \in Entries
  PROVE  Values(x)' = IF x = e THEN Values(x) \cup {counters[x] + n}
                               ELSE Values(x)
<1> DEFINE new == [cpu |-> cpu, entry |-> e, base |-> counters[e], bytes |-> n]
<1>1. adds' = adds \cup {new} /\ counters' = counters
  BY DEF BeginAdd
<1>2. new.entry = e /\ new.base + new.bytes = counters[e] + n
  OBVIOUS
<1> HIDE DEF new
<1> QED BY <1>1, <1>2 DEF Values, AddsOn

\* The store of a hit publishes a value that was pending; an insert publishes
\* its own, and an evicted entry, to which nobody is adding, is left with 0.
LEMMA FinishAddValues ==
  ASSUME TypeOK, NEW a \in adds, FinishAdd(a), NEW x \in Entries
  PROVE  Values(x)' \subseteq Values(x) \/ Values(x)' = {0}
<1>1. adds' = adds \ {a}
  BY DEF FinishAdd
<1>2. AddsOn(x)' \subseteq AddsOn(x)
  BY <1>1 DEF AddsOn
<1>3. CASE counters'[x] \in Values(x)
  BY <1>2, <1>3 DEF Values
<1>4. CASE counters'[x] \notin Values(x)
  <2>1. counters' \in [Entries -> Nat]
    <3>1. CASE StoreHit(a)
      BY <3>1, AddTypes DEF StoreHit, TypeOK
    <3>2. CASE InsertMiss(a)
      BY <3>2, AddTypes DEF InsertMiss, TypeOK
    <3> QED BY <3>1, <3>2 DEF FinishAdd
  <2>2. a.entry # x
    <3> SUFFICES ASSUME a.entry = x PROVE counters'[x] \in Values(x)
      BY <1>4
    <3>1. a.base + a.bytes \in Values(x)
      BY DEF Values, AddsOn
    <3>2. CASE StoreHit(a)
      BY <3>1, <3>2 DEF StoreHit, TypeOK
    <3>3. CASE InsertMiss(a)
      BY <3>1, <3>3, AddTypes DEF InsertMiss, TypeOK
    <3> QED BY <3>2, <3>3 DEF FinishAdd
  <2>3. counters[x] \in Values(x)
    BY DEF Values
  <2>4. CASE StoreHit(a)
    BY <1>4, <2>2, <2>3, <2>4, AddTypes DEF StoreHit, TypeOK
  <2>5. CASE InsertMiss(a)
    <3>1. PICK gone \in IF counters[a.entry] = 0 THEN Evictions(a.entry)
                        ELSE {{}} :
            counters' = [y \in Entries |->
                           IF y = a.entry THEN a.bytes
                           ELSE IF y \in gone THEN 0 ELSE counters[y]]
      BY <2>5 DEF InsertMiss
    <3>2. x \in gone
      BY <1>4, <2>2, <2>3, <3>1
    <3>3. counters'[x] = 0 /\ AddsOn(x) = {}
      BY <2>2, <3>1, <3>2 DEF Evictions
    <3> QED BY <1>2, <3>3 DEF Values
  <2> QED BY <2>4, <2>5 DEF FinishAdd
<1> QED BY <1>3, <1>4
-----------------------------------------------------------------------------
(* No byte is counted twice.                                               *)

\* NothingAhead, for one entry.
Ahead(e) ==
  /\ credited[e] <= delivered[e]
  /\ \A x \in Values(e) : credited[e] + x <= delivered[e] + prev[e]
  /\ Unread(e) => \A x, y \in Values(e) :
                    credited[e] + x <= delivered[e] + y
  /\ Read(e) => /\ credited[e] + snap[e] <= delivered[e] + prev[e]
                /\ \A x \in Values(e) :
                     credited[e] + x <= delivered[e] + snap[e]

LEMMA KernelKeeps ==
  ASSUME TypeOK, NothingAhead, Kernel
  PROVE  NothingAhead'
<1> SUFFICES ASSUME NEW e \in Entries PROVE Ahead(e)'
  BY DEF NothingAhead, Ahead, Entries, Dirs
<1>1. Ahead(e)
  BY DEF NothingAhead, Ahead
<1>2. /\ credited' = credited /\ prev' = prev /\ snap' = snap
      /\ Unread(e)' = Unread(e) /\ Read(e)' = Read(e)
  BY DEF Kernel, BeginAdd, FinishAdd, daemonVars, Unread, Read, Live
<1>3. /\ credited[e] \in Nat /\ prev[e] \in Nat /\ snap[e] \in Nat
      /\ delivered[e] \in Nat /\ counters[e] \in Nat
  BY DEF TypeOK
<1>4. Values(e) \subseteq Nat /\ counters[e] \in Values(e)
  BY ValuesAreNaturals
<1>5. ASSUME NEW cpu \in Cpus, NEW f \in Entries, NEW n \in Lengths,
             BeginAdd(cpu, f, n)
      PROVE  Ahead(e)'
  <2>1. n \in Nat
    BY MeteringAssumption
  <2>2. CASE e = f
    <3>1. delivered'[e] = delivered[e] + n
      BY <1>5, <2>2 DEF BeginAdd, TypeOK
    <3>2. Values(e)' = Values(e) \cup {counters[e] + n}
      BY <1>5, <2>2, BeginAddValues
    <3> QED BY <1>1, <1>2, <1>3, <1>4, <2>1, <3>1, <3>2 DEF Ahead
  <2>3. CASE e # f
    <3>1. delivered'[e] = delivered[e]
      BY <1>5, <2>3 DEF BeginAdd, TypeOK
    <3>2. Values(e)' = Values(e)
      BY <1>5, <2>3, BeginAddValues
    <3> QED BY <1>1, <1>2, <3>1, <3>2 DEF Ahead
  <2> QED BY <2>2, <2>3
<1>6. ASSUME NEW a \in adds, FinishAdd(a)
      PROVE  Ahead(e)'
  <2>1. delivered' = delivered
    BY <1>6 DEF FinishAdd
  <2>2. Values(e)' \subseteq Values(e) \/ Values(e)' = {0}
    BY <1>6, FinishAddValues
  <2>3. CASE Values(e)' \subseteq Values(e)
    BY <1>1, <1>2, <2>1, <2>3 DEF Ahead
  <2>4. CASE Values(e)' = {0}
    BY <1>1, <1>2, <1>3, <2>1, <2>4 DEF Ahead
  <2> QED BY <2>2, <2>3, <2>4
<1> QED BY <1>5, <1>6 DEF Kernel

LEMMA DaemonKeeps ==
  ASSUME TypeOK, NothingAhead, Daemon
  PROVE  NothingAhead'
<1> SUFFICES ASSUME NEW e \in Entries PROVE Ahead(e)'
  BY DEF NothingAhead, Ahead, Entries, Dirs
<1>1. Ahead(e)
  BY DEF NothingAhead, Ahead
<1>2. Values(e)' = Values(e) /\ delivered' = delivered
  BY DEF Daemon, Wake, ReadEntry, EndMap, AggregateOne, Remembered, EndSample,
      kernelVars,
         Values, AddsOn
<1>3. /\ credited[e] \in Nat /\ prev[e] \in Nat /\ snap[e] \in Nat
      /\ delivered[e] \in Nat /\ counters[e] \in Nat
      /\ Values(e) \subseteq Nat /\ counters[e] \in Values(e)
  BY ValuesAreNaturals DEF TypeOK
<1>4. e[1] \in Dirs /\ e[2] \in Cookies /\ e = <<e[1], e[2]>>
  BY DEF Entries
<1>5. CASE Wake
  <2>1. Values(e) = {counters[e]}
    BY <1>5 DEF Wake, Values, AddsOn
  <2>2. credited' = credited /\ prev' = prev /\ ~Read(e)'
    BY <1>4, <1>5 DEF Wake, Read
  <2> QED BY <1>1, <1>2, <1>3, <2>1, <2>2 DEF Ahead
<1>6. ASSUME NEW c \in Cookies, ReadEntry(c)
      PROVE  Ahead(e)'
  <2>1. credited' = credited /\ prev' = prev /\ pc' = pc
    BY <1>6 DEF ReadEntry
  <2>2. CASE e = <<pc, c>>
    <3>1. snap'[e] = counters[e] /\ Unread(e) /\ ~Unread(e)'
      BY <1>6, <2>2 DEF ReadEntry, TypeOK, Unread, Dirs
    <3> QED BY <1>1, <1>2, <1>3, <2>1, <3>1 DEF Ahead
  <2>3. CASE e # <<pc, c>>
    <3>1. snap'[e] = snap[e]
      BY <1>6, <2>3 DEF ReadEntry, TypeOK
    <3>2. Unread(e)' = Unread(e) /\ Read(e)' = Read(e)
      BY <1>4, <1>6, <2>1, <2>3 DEF ReadEntry, Unread, Read, Dirs
    <3> QED BY <1>1, <1>2, <2>1, <3>1, <3>2 DEF Ahead
  <2> QED BY <2>2, <2>3
<1>7. CASE EndMap
  <2>1. credited' = credited /\ prev' = prev /\ snap' = snap
    BY <1>7 DEF EndMap
  <2>2. (Unread(e)' => Unread(e)) /\ (Read(e)' => Read(e))
    BY <1>4, <1>7, <2>1 DEF EndMap, Unread, Read, Live, Dirs
  <2> QED BY <1>1, <1>2, <2>1, <2>2 DEF Ahead
<1>8. ASSUME NEW c \in Cookies, AggregateOne(c)
      PROVE  Ahead(e)'
  <2>1. snap' = snap /\ ~Unread(e)'
    BY <1>8 DEF AggregateOne, Remembered, Unread
  <2>2. CASE e[2] = c
    <3>1. /\ credited'[e] = credited[e] + Delta(e)
          /\ prev'[e] = snap[e]
      BY <1>8, <2>2 DEF AggregateOne, Remembered
    <3>2. Read(e)
      BY <1>8, <2>2 DEF AggregateOne, Remembered, Read
    <3>3. CASE snap[e] >= prev[e]
      <4>1. Delta(e) = snap[e] - prev[e]
        BY <3>3 DEF Delta
      <4> QED BY <1>1, <1>2, <1>3, <2>1, <3>1, <3>2, <3>3, <4>1 DEF Ahead
    <3>4. CASE ~(snap[e] >= prev[e])
      <4>1. Delta(e) = 0
        BY <3>4 DEF Delta
      <4> QED BY <1>1, <1>2, <1>3, <2>1, <3>1, <3>2, <4>1 DEF Ahead
    <3> QED BY <3>3, <3>4
  <2>3. CASE e[2] # c
    <3>1. credited'[e] = credited[e] /\ prev'[e] = prev[e]
      BY <1>8, <2>3 DEF AggregateOne, Remembered
    <3>2. Read(e)' => Read(e)
      BY <1>8, <2>1, <2>3 DEF AggregateOne, Remembered, Read, Live
    <3> QED BY <1>1, <1>2, <2>1, <3>1, <3>2 DEF Ahead
  <2> QED BY <2>2, <2>3
<1>9. CASE EndSample
  <2>1. credited' = credited /\ ~Unread(e)' /\ ~Read(e)'
    BY <1>9 DEF EndSample, Unread, Read
  <2>2. CASE e[2] \in Live
    BY <1>1, <1>2, <1>9, <2>1, <2>2 DEF EndSample, Ahead
  <2>3. CASE e[2] \notin Live
    <3>1. prev'[e] = 0 /\ Read(e)
      BY <1>9, <2>3 DEF EndSample, Read
    <3>2. snap[e] = 0
      BY <1>3, <1>4, <2>3 DEF Live, TypeOK, Dirs
    <3> QED BY <1>1, <1>2, <1>3, <2>1, <3>1, <3>2 DEF Ahead
  <2> QED BY <2>2, <2>3
<1> QED BY <1>5, <1>6, <1>7, <1>8, <1>9 DEF Daemon

\* The strengthening is invariant.
THEOREM NothingAheadInvariant == Spec => []NothingAhead
<1>1. Init => NothingAhead
  BY DEF Init, NothingAhead, Values, AddsOn, Unread, Read
<1>2. TypeOK /\ NothingAhead /\ [Next]_vars => NothingAhead'
  <2> SUFFICES ASSUME TypeOK, NothingAhead, [Next]_vars
               PROVE  NothingAhead'
    OBVIOUS
  <2>1. ASSUME NEW c \in Cookies, NEW k \in Keys, Reassign(c, k)
        PROVE  NothingAhead'
    BY <2>1 DEF Reassign, kernelVars, daemonVars, NothingAhead, Values, AddsOn,
                Unread, Read, Live
  <2>2. CASE UNCHANGED vars
    BY <2>2 DEF vars, kernelVars, daemonVars, NothingAhead, Values, AddsOn,
                Unread, Read, Live
  <2> QED BY <2>1, <2>2, KernelKeeps, DaemonKeeps DEF Next
<1> QED BY <1>1, <1>2, TypeCorrect, PTL DEF Spec

\* No application is ever credited more bytes than its sockets carried, however
\* adds overlap, entries are evicted and readings fall between the two.
THEOREM NoByteTwice == Spec => []NoByteCountedTwice
<1>1. NothingAhead => NoByteCountedTwice
  BY DEF NothingAhead, NoByteCountedTwice
<1> QED BY <1>1, NothingAheadInvariant, PTL
-----------------------------------------------------------------------------
(* A socket that met no loss is accounted for exactly.                     *)

\* SteadyIsExact and SteadyGrows, for one entry.
Exact(e) ==
  /\ AddsOn(e) = {} => counters[e] = delivered[e]
  /\ \A a \in AddsOn(e) : /\ AddsOn(e) = {a}
                          /\ counters[e] = a.base
                          /\ counters[e] + a.bytes = delivered[e]
  /\ credited[e] = prev[e]
  /\ pc = "sleep" => prev[e] = snap[e]
  /\ prev[e] <= counters[e]
  /\ Read(e) => prev[e] <= snap[e] /\ snap[e] <= counters[e]
  /\ pc = "aggregate" /\ ~Read(e) => prev[e] = snap[e]

SteadyInv == \A e \in Entries \ lossy : Exact(e)

LEMMA KernelKeepsSteady ==
  ASSUME TypeOK, SteadyInv, Kernel
  PROVE  SteadyInv'
<1> SUFFICES ASSUME NEW e \in Entries \ lossy' PROVE Exact(e)'
  BY DEF SteadyInv, Entries, Dirs
<1>1. /\ credited' = credited /\ prev' = prev /\ snap' = snap /\ pc' = pc
      /\ Read(e)' = Read(e) /\ lossy \subseteq lossy'
  BY DEF Kernel, BeginAdd, FinishAdd, StoreHit, InsertMiss, daemonVars, Read,
         Live
<1>2. Exact(e)
  BY <1>1 DEF SteadyInv
<1>3. /\ credited[e] \in Nat /\ prev[e] \in Nat /\ snap[e] \in Nat
      /\ delivered[e] \in Nat /\ counters[e] \in Nat
  BY DEF TypeOK
<1>4. ASSUME NEW cpu \in Cpus, NEW f \in Entries, NEW n \in Lengths,
             BeginAdd(cpu, f, n)
      PROVE  Exact(e)'
  <2> DEFINE new == [cpu |-> cpu, entry |-> f, base |-> counters[f], bytes |-> n]
  <2>1. adds' = adds \cup {new} /\ counters' = counters
    BY <1>4 DEF BeginAdd
  <2>2. CASE e = f
    <3>1. AddsOn(e) = {}
      BY <1>4, <2>2 DEF BeginAdd
    <3>2. AddsOn(e)' = {new} /\ new.base = counters[e] /\ new.bytes = n
      BY <2>1, <2>2, <3>1 DEF AddsOn
    <3>3. delivered'[e] = delivered[e] + n
      BY <1>4, <2>2 DEF BeginAdd, TypeOK
    <3> QED BY <1>1, <1>2, <1>3, <2>1, <3>1, <3>2, <3>3 DEF Exact
  <2>3. CASE e # f
    <3>1. delivered'[e] = delivered[e]
      BY <1>4, <2>3 DEF BeginAdd, TypeOK
    <3>2. AddsOn(e)' = AddsOn(e)
      BY <2>1, <2>3 DEF AddsOn
    <3> QED BY <1>1, <1>2, <2>1, <3>1, <3>2 DEF Exact
  <2> QED BY <2>2, <2>3
<1>5. ASSUME NEW a \in adds, FinishAdd(a)
      PROVE  Exact(e)'
  <2>1. delivered' = delivered /\ adds' = adds \ {a}
    BY <1>5 DEF FinishAdd
  <2>2. /\ a.entry \in Entries /\ a.base \in Nat /\ a.bytes \in Nat
    BY AddTypes
  <2>3. CASE a.entry = e
    <3>1. /\ AddsOn(e) = {a} /\ counters[e] = a.base
          /\ counters[e] + a.bytes = delivered[e]
      BY <1>2, <2>3 DEF Exact, AddsOn
    <3>2. AddsOn(e)' = {}
      BY <2>1, <3>1 DEF AddsOn
    <3>3. counters'[e] = a.base + a.bytes
      <4>1. CASE StoreHit(a)
        BY <2>3, <4>1 DEF StoreHit, TypeOK
      <4>2. CASE InsertMiss(a)
        BY <2>2, <2>3, <4>2 DEF InsertMiss, TypeOK
      <4> QED BY <1>5, <4>1, <4>2 DEF FinishAdd
    <3> QED BY <1>1, <1>2, <1>3, <2>1, <2>2, <3>1, <3>2, <3>3 DEF Exact
  <2>4. CASE a.entry # e
    <3>1. AddsOn(e)' = AddsOn(e)
      BY <2>1, <2>4 DEF AddsOn
    <3>2. counters'[e] = counters[e]
      <4>1. CASE StoreHit(a)
        BY <2>4, <4>1 DEF StoreHit, TypeOK
      <4>2. CASE InsertMiss(a)
        BY <2>4, <4>2 DEF InsertMiss, TypeOK
      <4> QED BY <1>5, <4>1, <4>2 DEF FinishAdd
    <3> QED BY <1>1, <1>2, <2>1, <3>1, <3>2 DEF Exact
  <2> QED BY <2>3, <2>4
<1> QED BY <1>4, <1>5 DEF Kernel

LEMMA DaemonKeepsSteady ==
  ASSUME TypeOK, SteadyInv, Daemon
  PROVE  SteadyInv'
<1>1. /\ lossy' = lossy /\ counters' = counters /\ delivered' = delivered
      /\ adds' = adds
  BY DEF Daemon, Wake, ReadEntry, EndMap, AggregateOne, Remembered, EndSample,
      kernelVars
<1> SUFFICES ASSUME NEW e \in Entries \ lossy PROVE Exact(e)'
  BY <1>1 DEF SteadyInv, Entries, Dirs
<1>2. Exact(e) /\ AddsOn(e)' = AddsOn(e)
  BY <1>1 DEF SteadyInv, AddsOn
<1>3. /\ credited[e] \in Nat /\ prev[e] \in Nat /\ snap[e] \in Nat
      /\ delivered[e] \in Nat /\ counters[e] \in Nat
  BY DEF TypeOK
<1>4. e[1] \in Dirs /\ e[2] \in Cookies /\ e = <<e[1], e[2]>>
  BY DEF Entries
<1>5. CASE Wake
  <2>1. /\ credited' = credited /\ prev' = prev /\ pc' = "rx" /\ ~Read(e)'
    BY <1>4, <1>5 DEF Wake, Read
  <2> QED BY <1>1, <1>2, <2>1 DEF Exact
<1>6. ASSUME NEW c \in Cookies, ReadEntry(c)
      PROVE  Exact(e)'
  <2>1. credited' = credited /\ prev' = prev /\ pc' = pc /\ pc \in Dirs
    BY <1>6 DEF ReadEntry
  <2>2. CASE e = <<pc, c>>
    <3>1. snap'[e] = counters[e]
      BY <1>6, <2>2 DEF ReadEntry, TypeOK
    <3> QED BY <1>1, <1>2, <1>3, <2>1, <3>1 DEF Exact, Dirs
  <2>3. CASE e # <<pc, c>>
    <3>1. snap'[e] = snap[e]
      BY <1>6, <2>3 DEF ReadEntry, TypeOK
    <3>2. Read(e)' = Read(e)
      BY <1>4, <1>6, <2>1, <2>3 DEF ReadEntry, Read, Dirs
    <3> QED BY <1>1, <1>2, <2>1, <3>1, <3>2 DEF Exact, Dirs
  <2> QED BY <2>2, <2>3
<1>7. CASE EndMap
  <2>1. /\ credited' = credited /\ prev' = prev /\ snap' = snap
        /\ pc' # "sleep"
    BY <1>7 DEF EndMap
  <2>2. Read(e)' => Read(e)
    BY <1>4, <1>7, <2>1 DEF EndMap, Read, Live, Dirs
  <2>3. pc' = "aggregate" => Read(e)'
    BY <1>4, <1>7, <2>1 DEF EndMap, Read, Live, Dirs
  <2> QED BY <1>1, <1>2, <2>1, <2>2, <2>3 DEF Exact
<1>8. ASSUME NEW c \in Cookies, AggregateOne(c)
      PROVE  Exact(e)'
  <2>1. snap' = snap /\ pc' = pc /\ pc = "aggregate" /\ todo' = todo \ {c}
    BY <1>8 DEF AggregateOne, Remembered
  <2>2. CASE e[2] = c
    <3>1. Read(e) /\ credited'[e] = credited[e] + Delta(e) /\ prev'[e] = snap[e]
      BY <1>8, <2>2 DEF AggregateOne, Remembered, Read
    <3>2. prev[e] <= snap[e] /\ snap[e] <= counters[e]
      BY <1>2, <3>1 DEF Exact
    <3>3. Delta(e) = snap[e] - prev[e]
      BY <1>3, <3>2 DEF Delta
    <3> QED BY <1>1, <1>2, <1>3, <2>1, <3>1, <3>2, <3>3 DEF Exact
  <2>3. CASE e[2] # c
    <3>1. credited'[e] = credited[e] /\ prev'[e] = prev[e]
      BY <1>8, <2>3 DEF AggregateOne, Remembered
    <3>2. Read(e)' = Read(e)
      BY <2>1, <2>3 DEF Read, Live
    <3> QED BY <1>1, <1>2, <2>1, <3>1, <3>2 DEF Exact
  <2> QED BY <2>2, <2>3
<1>9. CASE EndSample
  <2>1. /\ credited' = credited /\ snap' = snap /\ pc = "aggregate"
        /\ todo = {} /\ pc' = "sleep" /\ ~Read(e)'
    BY <1>9 DEF EndSample, Read
  <2>2. CASE e[2] \in Live
    <3>1. prev'[e] = prev[e] /\ ~Read(e)
      BY <1>9, <2>1, <2>2 DEF EndSample, Read
    <3> QED BY <1>1, <1>2, <2>1, <3>1 DEF Exact
  <2>3. CASE e[2] \notin Live
    <3>1. prev'[e] = 0 /\ Read(e)
      BY <1>9, <2>3 DEF EndSample, Read
    <3>2. snap[e] = 0
      BY <1>3, <1>4, <2>3 DEF Live, TypeOK, Dirs
    <3> QED BY <1>1, <1>2, <1>3, <2>1, <3>1, <3>2 DEF Exact
  <2> QED BY <2>2, <2>3
<1> QED BY <1>5, <1>6, <1>7, <1>8, <1>9 DEF Daemon

LEMMA SteadyInvariant == Spec => []SteadyInv
<1>1. Init => SteadyInv
  BY DEF Init, SteadyInv, Exact, AddsOn, Read
<1>2. TypeOK /\ SteadyInv /\ [Next]_vars => SteadyInv'
  <2> SUFFICES ASSUME TypeOK, SteadyInv, [Next]_vars
               PROVE  SteadyInv'
    OBVIOUS
  <2>1. ASSUME NEW c \in Cookies, NEW k \in Keys, Reassign(c, k)
        PROVE  SteadyInv'
    BY <2>1 DEF Reassign, kernelVars, daemonVars, SteadyInv, Exact, AddsOn,
                Read, Live
  <2>2. CASE UNCHANGED vars
    BY <2>2 DEF vars, kernelVars, daemonVars, SteadyInv, Exact, AddsOn, Read,
                Live
  <2> QED BY <2>1, <2>2, KernelKeepsSteady, DaemonKeepsSteady DEF Next
<1> QED BY <1>1, <1>2, TypeCorrect, PTL DEF Spec

\* A socket whose entries were never evicted and whose adds never overlapped
\* loses nothing: it is credited exactly what each reading found.
THEOREM SteadyExact == Spec => []SteadyIsExact
<1>1. SteadyInv => SteadyIsExact
  BY DEF SteadyInv, Exact, SteadyIsExact
<1> QED BY <1>1, SteadyInvariant, PTL

\* The readings of a socket that met no loss only grow.
THEOREM SteadyOnlyGrows == Spec => []SteadyGrows
<1>1. SteadyInv => SteadyGrows
  BY DEF SteadyInv, Exact, SteadyGrows
<1> QED BY <1>1, SteadyInvariant, PTL

-----------------------------------------------------------------------------
(* What the sockets are credited is what the applications are.             *)

\* The totals of the keys in a direction, and the credits of the sockets.
OfKeys(d) == [k \in Keys |-> totals[<<k, d>>]]
OfCookies(d) == [c \in Cookies |-> credited[<<d, c>>]]

LEMMA Balance ==
  TotalsAreTheCredits
    <=> \A d \in Dirs : SumFunctionOnSet(OfKeys(d), Keys)
                          = SumFunctionOnSet(OfCookies(d), Cookies)
BY DEF TotalsAreTheCredits, SumFunction, OfKeys, OfCookies

\* A turn of the loop adds the growth of one socket to one key.
LEMMA AggregateBalances ==
  ASSUME TypeOK, TotalsAreTheCredits, NEW c \in Cookies, AggregateOne(c)
  PROVE  TotalsAreTheCredits'
<1> SUFFICES ASSUME NEW d \in Dirs
             PROVE  SumFunctionOnSet(OfKeys(d)', Keys)
                      = SumFunctionOnSet(OfCookies(d)', Cookies)
  BY Balance DEF TotalsAreTheCredits, SumFunction, OfKeys, OfCookies
<1> DEFINE k == owner[c]
           n == Delta(<<d, c>>)
<1>1. IsFiniteSet(Keys) /\ IsFiniteSet(Cookies) /\ k \in Keys
  BY MeteringAssumption DEF TypeOK
<1>2. \A x \in Cookies : <<d, x>> \in Entries
  BY DEF Entries
<1>3. n \in Nat
  BY <1>2 DEF Delta, TypeOK
<1>4. /\ \A x \in Keys : OfKeys(d)[x] \in Nat
      /\ \A x \in Cookies : OfCookies(d)[x] \in Nat
  BY <1>2 DEF OfKeys, OfCookies, TypeOK
<1> HIDE DEF n
<1>5. \A x \in Keys :
        OfKeys(d)'[x] = IF x = k THEN OfKeys(d)[x] + n ELSE OfKeys(d)[x]
  BY DEF OfKeys, AggregateOne, Credit, n
<1>6. \A x \in Cookies :
        OfCookies(d)'[x]
          = IF x = c THEN OfCookies(d)[x] + n ELSE OfCookies(d)[x]
  BY <1>2 DEF OfCookies, AggregateOne, n
<1> HIDE DEF k
<1>7. SumFunctionOnSet(OfKeys(d)', Keys) + OfKeys(d)[k]
        = SumFunctionOnSet(OfKeys(d), Keys) + OfKeys(d)'[k]
  BY <1>1, <1>3, <1>4, <1>5, SumUpdate
<1>8. SumFunctionOnSet(OfCookies(d)', Cookies) + OfCookies(d)[c]
        = SumFunctionOnSet(OfCookies(d), Cookies) + OfCookies(d)'[c]
  BY <1>1, <1>3, <1>4, <1>6, SumUpdate
<1>9. /\ SumFunctionOnSet(OfKeys(d), Keys) \in Nat
      /\ SumFunctionOnSet(OfCookies(d), Cookies) \in Nat
      /\ SumFunctionOnSet(OfKeys(d)', Keys) \in Nat
      /\ SumFunctionOnSet(OfCookies(d)', Cookies) \in Nat
  BY <1>1, <1>3, <1>4, <1>5, <1>6, SumNatural
<1>10. SumFunctionOnSet(OfKeys(d), Keys)
         = SumFunctionOnSet(OfCookies(d), Cookies)
  BY Balance
<1> QED BY <1>1, <1>3, <1>4, <1>5, <1>6, <1>7, <1>8, <1>9, <1>10

\* No byte is lost or added between the sockets and the applications.
THEOREM TotalsBalance == Spec => []TotalsAreTheCredits
<1>1. Init => TotalsAreTheCredits
  <2> SUFFICES ASSUME Init, NEW d \in Dirs
               PROVE  SumFunctionOnSet(OfKeys(d), Keys)
                        = SumFunctionOnSet(OfCookies(d), Cookies)
    BY Balance
  <2>1. /\ \A k \in Keys : OfKeys(d)[k] = 0
        /\ \A c \in Cookies : OfCookies(d)[c] = 0
    BY DEF Init, OfKeys, OfCookies, Entries
  <2> QED BY <2>1, MeteringAssumption, SumZero
<1>2. TypeOK /\ TotalsAreTheCredits /\ [Next]_vars => TotalsAreTheCredits'
  <2> SUFFICES ASSUME TypeOK, TotalsAreTheCredits, [Next]_vars
               PROVE  TotalsAreTheCredits'
    OBVIOUS
  <2>1. CASE \E c \in Cookies : AggregateOne(c)
    BY <2>1, AggregateBalances
  <2>2. CASE UNCHANGED <<totals, credited>>
    BY <2>2 DEF TotalsAreTheCredits
  <2> QED BY <2>1, <2>2
          DEF Next, Kernel, Daemon, BeginAdd, FinishAdd, Wake, ReadEntry,
              EndMap, EndSample, Reassign, vars, daemonVars
<1> QED BY <1>1, <1>2, TypeCorrect, PTL DEF Spec

-----------------------------------------------------------------------------
(* The machine.                                                            *)

\* All applications together have no more than all sockets carried; and, if no
\* entry was lost, what the cycle that ended has read.
MachineTotals ==
  \A d \in Dirs :
    LET used == SumFunction([k \in Keys |-> totals[<<k, d>>]])
    IN /\ used <= SumFunction([c \in Cookies |-> delivered[<<d, c>>]])
       /\ lossy = {} /\ pc = "sleep" =>
            used = SumFunction([c \in Cookies |-> snap[<<d, c>>]])

\* The usage of the machine, as the sum of its applications, is never more than
\* its traffic, whatever is evicted, overwritten or renamed, and is exact where
\* nothing was (docs/app-attribution.md: "Nunca se pierde del total").
THEOREM MachineIsTheSum == Spec => []MachineTotals
<1>1. TypeOK /\ NoByteCountedTwice /\ SteadyIsExact /\ TotalsAreTheCredits
        => MachineTotals
  <2> SUFFICES ASSUME TypeOK, NoByteCountedTwice, SteadyIsExact,
                      TotalsAreTheCredits, NEW d \in Dirs
               PROVE  LET used == SumFunction([k \in Keys |-> totals[<<k, d>>]])
                      IN /\ used <= SumFunction([c \in Cookies |-> delivered[<<d, c>>]])
                         /\ lossy = {} /\ pc = "sleep" =>
                              used = SumFunction([c \in Cookies |-> snap[<<d, c>>]])
    BY DEF MachineTotals
  <2> DEFINE used == SumFunction([k \in Keys |-> totals[<<k, d>>]])
             carried == [c \in Cookies |-> delivered[<<d, c>>]]
             found == [c \in Cookies |-> snap[<<d, c>>]]
             credits == OfCookies(d)
  <2>1. \A c \in Cookies : <<d, c>> \in Entries
    BY DEF Entries
  <2>2. IsFiniteSet(Cookies)
    BY MeteringAssumption
  <2>3. used = SumFunctionOnSet(credits, Cookies)
    BY Balance DEF SumFunction, OfKeys
  <2>4. SumFunction(carried) = SumFunctionOnSet(carried, Cookies)
        /\ SumFunction(found) = SumFunctionOnSet(found, Cookies)
    BY DEF SumFunction
  <2>5. \A c \in Cookies : /\ credits[c] \in Nat /\ carried[c] \in Nat
                           /\ credits[c] <= carried[c]
    BY <2>1 DEF OfCookies, TypeOK, NoByteCountedTwice
  <2>6. ASSUME lossy = {}, pc = "sleep"
        PROVE  \A c \in Cookies : credits[c] = found[c]
    BY <2>1, <2>6 DEF OfCookies, SteadyIsExact
  <2> HIDE DEF used, carried, found, credits
  <2>7. used <= SumFunction(carried)
    BY <2>2, <2>3, <2>4, <2>5, SumMonotone
  <2>8. lossy = {} /\ pc = "sleep" => used = SumFunction(found)
    BY <2>2, <2>3, <2>4, <2>6, SumSame
  <2> QED BY <2>7, <2>8 DEF used, carried, found
<1> QED BY <1>1, TypeCorrect, NoByteTwice, SteadyExact, TotalsBalance, PTL
=============================================================================
