------------------------- MODULE CookieMap_proofs -------------------------
(* Proofs about CookieMap, for any sockets, processes and applications, any *)
(* ring and any number of exits, execs and spawns.                          *)
EXTENDS CookieMap, TLAPS, SequenceTheorems

LEMMA RingTail ==
  ASSUME NEW r \in Seq(Births), r # <<>>
  PROVE  /\ Head(r) \in Births
         /\ Tail(r) \in Seq(Births)
         /\ Len(r) \in Nat /\ Len(r) >= 1
         /\ Len(Tail(r)) = Len(r) - 1
         /\ r[1] = Head(r)
         /\ \A i \in 1 .. Len(r) : i # 1 =>
              i - 1 \in 1 .. Len(Tail(r)) /\ Tail(r)[i - 1] = r[i]
         /\ \A i \in 1 .. Len(Tail(r)) :
              i + 1 \in 1 .. Len(r) /\ Tail(r)[i] = r[i + 1]
OBVIOUS

LEMMA RingAppend ==
  ASSUME NEW r \in Seq(Births), NEW b \in Births
  PROVE  /\ Append(r, b) \in Seq(Births)
         /\ Len(r) \in Nat
         /\ Len(Append(r, b)) = Len(r) + 1
         /\ Append(r, b)[Len(r) + 1] = b
         /\ \A i \in 1 .. Len(r) : Append(r, b)[i] = r[i]
OBVIOUS

\* The state keeps its shape: an identity in the map is always a program that
\* resolve_pid answered, never the absence of one.
THEOREM TypeCorrect == Spec => []TypeOK
<1>1. Init => TypeOK
  <2>1. <<>> \in Seq(Births)
    OBVIOUS
  <2> SUFFICES ASSUME Init PROVE TypeOK
    OBVIOUS
  <2>2. /\ ring \in Seq(Births) /\ taken \subseteq Births
        /\ named \subseteq [cookie : Cookies, app : Apps]
    BY <2>1 DEF Init
  <2>3. changes \in 0 .. MaxChanges
    BY CookieMapAssumption DEF Init
  <2>4. failed \in BOOLEAN /\ ran \in [Cookies -> SUBSET Apps]
    BY DEF Init
  <2> QED BY <2>2, <2>3, <2>4 DEF Init, TypeOK
<1>2. TypeOK /\ [Next]_vars => TypeOK'
  <2> SUFFICES ASSUME TypeOK, [Next]_vars PROVE TypeOK'
    OBVIOUS
  <2> USE CookieMapAssumption DEF TypeOK
  <2>1. ASSUME World PROVE TypeOK'
    <3>1. ASSUME NEW c \in Cookies, NEW p \in Pids, OpenSocket(c, p)
          PROVE  TypeOK'
      <4>1. ring' \in Seq(Births)
        <5>1. [cookie |-> c, pid |-> p] \in Births
          BY DEF Births
        <5>2. Append(ring, [cookie |-> c, pid |-> p]) \in Seq(Births)
          BY <5>1, RingAppend
        <5> QED BY <3>1, <5>2 DEF OpenSocket, Announce
      <4>2. origin' \in
              [Cookies -> {"none", "preexisting", "announced", "silent"}]
        BY <3>1 DEF OpenSocket, Announce
      <4>3. holder' \in [Cookies -> Pids \cup {None}] /\ open' \subseteq Cookies
        BY <3>1 DEF OpenSocket
      <4> QED BY <3>1, <4>1, <4>2, <4>3
              DEF OpenSocket, resolverVars, mapVars, loopVars
    <3>2. ASSUME NEW c \in Cookies, NEW p \in Pids, AcceptSocket(c, p)
          PROVE  TypeOK'
      BY <3>2 DEF AcceptSocket, resolverVars, mapVars, loopVars
    <3>3. ASSUME NEW c \in Cookies, CloseSocket(c) PROVE TypeOK'
      BY <3>3 DEF CloseSocket, resolverVars, mapVars, loopVars
    <3>4. ASSUME NEW c \in Cookies, Traffic(c) PROVE TypeOK'
      BY <3>4 DEF Traffic, resolverVars, mapVars, loopVars
    <3>5. ASSUME NEW c \in Cookies, EvictCookie(c) PROVE TypeOK'
      BY <3>5 DEF EvictCookie, resolverVars, mapVars, loopVars
    <3>6. ASSUME NEW p \in Pids, NEW a \in Apps, RunProgram(p, a) PROVE TypeOK'
      BY <3>6 DEF RunProgram, resolverVars, mapVars, loopVars
    <3>7. ASSUME NEW p \in Pids, Exit(p) PROVE TypeOK'
      BY <3>7 DEF Exit, resolverVars, mapVars, loopVars
    <3> QED BY <2>1, <3>1, <3>2, <3>3, <3>4, <3>5, <3>6, <3>7 DEF World
  <2>2. ASSUME Resolver PROVE TypeOK'
    <3>1. CASE TakeBirth
      BY <3>1, RingTail DEF TakeBirth, ParseBirth, worldVars, mapVars, loopVars
    <3>2. CASE ResolveBirth
      <4>1. PICK b \in taken : named' = ResolvePid(b)
        BY <3>2 DEF ResolveBirth
      <4>2. b.cookie \in Cookies /\ b.pid \in Pids
        BY DEF Births
      <4>3. proc[b.pid] # None => proc[b.pid] \in Apps
        BY <4>2
      <4>4. named' \subseteq [cookie : Cookies, app : Apps]
        BY <4>1, <4>2, <4>3 DEF ResolvePid
      <4> QED BY <3>2, <4>4 DEF ResolveBirth, worldVars, mapVars, loopVars
    <3>3. CASE InsertBirth
      BY <3>3 DEF InsertBirth, worldVars, loopVars
    <3> QED BY <2>2, <3>1, <3>2, <3>3 DEF Resolver
  <2>3. ASSUME Supervisor PROVE TypeOK'
    <3> USE DEF worldVars, resolverVars, mapVars
    <3>1. CASE Attach
      BY <3>1 DEF Attach
    <3>2. CASE \E listed \in SUBSET open : DumpSockets(listed)
      BY <3>2 DEF DumpSockets
    <3>3. CASE DumpFails
      BY <3>3 DEF DumpFails
    <3>4. CASE MapInodes
      BY <3>4 DEF MapInodes
    <3>5. ASSUME NEW c \in Cookies, BackfillOne(c) PROVE TypeOK'
      BY <3>5 DEF BackfillOne, Backfillable
    <3>6. CASE EndBackfill
      BY <3>6 DEF EndBackfill
    <3>7. ASSUME NEW c \in Cookies, ReadCookie(c) PROVE TypeOK'
      BY <3>7 DEF ReadCookie
    <3>8. CASE EndRead
      BY <3>8 DEF EndRead
    <3>9. CASE Prune
      BY <3>9 DEF Prune, SeenAfterPrune
    <3> QED BY <2>3, <3>1, <3>2, <3>3, <3>4, <3>5, <3>6, <3>7, <3>8, <3>9
            DEF Supervisor
  <2>4. CASE UNCHANGED vars
    BY <2>4 DEF vars, worldVars, resolverVars, mapVars, loopVars
  <2> QED BY <2>1, <2>2, <2>3, <2>4 DEF Next
<1> QED BY <1>1, <1>2, PTL DEF Spec
-----------------------------------------------------------------------------
(* The annotations of the pruning stay within the map.                      *)

\* seen_in_ebpf never holds a cookie the map does not: its size is bounded by
\* the map's, however births, backfill and pruning interleave.
THEOREM SeenStaysInMap == Spec => []SeenInMap
<1>1. Init => SeenInMap
  BY DEF Init, SeenInMap
<1>2. TypeOK /\ SeenInMap /\ [Next]_vars => SeenInMap'
  <2> SUFFICES ASSUME TypeOK, SeenInMap, [Next]_vars PROVE SeenInMap'
    OBVIOUS
  <2>1. ASSUME World PROVE SeenInMap'
    BY <2>1 DEF World, OpenSocket, AcceptSocket, CloseSocket, Traffic,
                EvictCookie, RunProgram, Exit, mapVars, loopVars, SeenInMap
  <2>2. ASSUME Resolver PROVE SeenInMap'
    <3>1. seen' = seen
      BY <2>2 DEF Resolver, TakeBirth, ResolveBirth, InsertBirth, loopVars
    <3>2. \A c \in Cookies : cmap[c] # None => cmap'[c] # None
      <4>1. CASE InsertBirth
        <5>1. PICK n \in named : cmap' = [cmap EXCEPT ![n.cookie] = n.app]
          BY <4>1 DEF InsertBirth
        <5>2. n.app \in Apps
          BY DEF TypeOK
        <5> QED BY <5>1, <5>2, CookieMapAssumption DEF TypeOK
      <4>2. CASE TakeBirth \/ ResolveBirth
        BY <4>2 DEF TakeBirth, ResolveBirth, mapVars
      <4> QED BY <2>2, <4>1, <4>2 DEF Resolver
    <3> QED BY <3>1, <3>2 DEF SeenInMap, TypeOK
  <2>3. ASSUME Supervisor PROVE SeenInMap'
    <3>1. CASE Prune
      BY <3>1 DEF Prune, SeenAfterPrune, SeenInMap
    <3>2. ASSUME NEW c \in Cookies, BackfillOne(c) PROVE SeenInMap'
      <4>1. seen' = seen
        BY <3>2 DEF BackfillOne
      <4>2. \A d \in Cookies : cmap[d] # None => cmap'[d] # None
        BY <3>2 DEF BackfillOne, Backfillable, mapVars, TypeOK
      <4> QED BY <4>1, <4>2 DEF SeenInMap, TypeOK
    <3>3. ASSUME \/ Attach \/ DumpFails \/ MapInodes
                 \/ \E listed \in SUBSET open : DumpSockets(listed)
                 \/ EndBackfill \/ EndRead
                 \/ \E c \in Cookies : ReadCookie(c)
          PROVE  SeenInMap'
      BY <3>3 DEF Attach, DumpSockets, DumpFails, MapInodes, EndBackfill,
                  EndRead, ReadCookie, mapVars, SeenInMap
    <3> QED BY <2>3, <3>1, <3>2, <3>3 DEF Supervisor
  <2>4. CASE UNCHANGED vars
    BY <2>4 DEF vars, mapVars, loopVars, SeenInMap
  <2> QED BY <2>1, <2>2, <2>3, <2>4 DEF Next
<1> QED BY <1>1, <1>2, TypeCorrect, PTL DEF Spec

\* A birth event is never overridden by the backfill, for any interleaving of the
\* resolver thread and the supervisor.
THEOREM BirthIsFinal == Spec => BirthWins
<1> DEFINE Step == \A c \in Cookies :
                     via[c] = "birth" => cmap'[c] = None \/ via'[c] = "birth"
           Named == \A c \in Cookies : via[c] = "birth" => cmap[c] # None
<1>1. Init => Named
  BY DEF Init
<1>2. TypeOK /\ Named /\ [Next]_vars => Named' /\ [Step]_vars
  <2> SUFFICES ASSUME TypeOK, Named, [Next]_vars PROVE Named' /\ Step
    OBVIOUS
  <2>1. CASE InsertBirth
    <3>1. PICK n \in named : /\ cmap' = [cmap EXCEPT ![n.cookie] = n.app]
                             /\ via' = [via EXCEPT ![n.cookie] = "birth"]
      BY <2>1 DEF InsertBirth
    <3>2. n.app \in Apps
      BY DEF TypeOK
    <3> QED BY <3>1, <3>2, CookieMapAssumption DEF TypeOK
  <2>2. ASSUME NEW c \in Cookies, BackfillOne(c) PROVE Named' /\ Step
    BY <2>2 DEF BackfillOne, Backfillable, mapVars, TypeOK
  <2>3. CASE Prune
    BY <2>3 DEF Prune, TypeOK
  <2>4. CASE UNCHANGED mapVars
    BY <2>4 DEF mapVars
  <2>5. \/ InsertBirth \/ (\E c \in Cookies : BackfillOne(c)) \/ Prune
        \/ UNCHANGED mapVars
    <3>1. CASE World
      BY <3>1 DEF World, OpenSocket, AcceptSocket, CloseSocket, Traffic,
                  EvictCookie, RunProgram, Exit
    <3>2. CASE Resolver
      BY <3>2 DEF Resolver, TakeBirth, ResolveBirth
    <3>3. CASE Supervisor
      BY <3>3 DEF Supervisor, Attach, DumpSockets, DumpFails, MapInodes,
                  EndBackfill, EndRead, ReadCookie
    <3>4. CASE UNCHANGED vars
      BY <3>4 DEF vars
    <3> QED BY <3>1, <3>2, <3>3, <3>4 DEF Next
  <2> QED BY <2>1, <2>2, <2>3, <2>4, <2>5
<1> QED BY <1>1, <1>2, TypeCorrect, PTL DEF Spec, BirthWins
-----------------------------------------------------------------------------
(* No socket falls through.                                                *)

\* A cookie is open, announced or enumerated, and not yet confirmed.
Covered(c) ==
  \/ origin[c] = "silent"
  \/ origin[c] = "preexisting" /\ failed
  \/ cmap[c] # None
  \/ OnTheWay(c)
  \/ c \in sampled

\* What is in the ring is a birth event.
LEMMA RingElement ==
  ASSUME NEW r \in Seq(Births), NEW i \in 1 .. Len(r)
  PROVE  /\ r[i] \in Births /\ r[i].cookie \in Cookies /\ r[i].pid \in Pids
<1>1. r[i] \in Births
  BY ElementOfSeq
<1> QED BY <1>1 DEF Births

LEMMA WorldCustody ==
  ASSUME TypeOK, Custody, World
  PROVE  Custody'
<1> USE CookieMapAssumption DEF TypeOK, Custody
<1>1. ASSUME NEW c \in Cookies, NEW p \in Pids, OpenSocket(c, p)
      PROVE  Custody'
  <2> DEFINE b == [cookie |-> c, pid |-> p]
  <2>1. /\ open' = open \cup {c} /\ holder' = [holder EXCEPT ![c] = p]
        /\ proc' = proc /\ taken' = taken /\ named' = named /\ pc' = pc
        /\ todo' = todo /\ inodePid' = inodePid /\ seen' = seen
        /\ sample' = sample /\ sampled' = sampled
        /\ origin[c] = "none" /\ proc[p] # None
    BY <1>1 DEF OpenSocket, resolverVars, loopVars
  <2>2. /\ \A d \in Cookies : d # c => origin'[d] = origin[d]
        /\ origin'[c] # "none"
    BY <1>1 DEF OpenSocket, Announce
  <2>3. \A d \in Cookies : d # c => holder'[d] = holder[d]
    BY <2>1
  <2>4. holder'[c] = p
    BY <2>1
  <2>5. \A i \in 1 .. Len(ring') :
          /\ origin'[ring'[i].cookie] # "none"
          /\ ring'[i].pid = holder'[ring'[i].cookie]
    <3>1. \A i \in 1 .. Len(ring) :
            /\ ring[i] \in Births /\ ring[i].cookie \in Cookies
            /\ ring[i].cookie # c
      <4> SUFFICES ASSUME NEW i \in 1 .. Len(ring)
                   PROVE  /\ ring[i] \in Births /\ ring[i].cookie \in Cookies
                          /\ ring[i].cookie # c
        OBVIOUS
      <4>1. ring \in Seq(Births)
        OBVIOUS
      <4>2. ring[i] \in Births /\ ring[i].cookie \in Cookies
        BY <4>1, RingElement
      <4>3. origin[ring[i].cookie] # "none"
        OBVIOUS
      <4> QED BY <2>1, <4>2, <4>3
    <3>2. CASE ring' = ring
      BY <2>2, <2>3, <3>1, <3>2
    <3>3. CASE ring' # ring
      <4>1. b \in Births /\ b.cookie = c /\ b.pid = p
        BY DEF Births
      <4>5. ring' = Append(ring, b)
        BY <1>1, <3>3 DEF OpenSocket, Announce
      <4>2. /\ Len(ring) \in Nat
            /\ Len(ring') = Len(ring) + 1
            /\ ring'[Len(ring) + 1] = b
            /\ \A i \in 1 .. Len(ring) : ring'[i] = ring[i]
        BY <4>5, <4>1, RingAppend
      <4> HIDE DEF b
      <4> SUFFICES ASSUME NEW i \in 1 .. Len(ring')
                   PROVE  /\ origin'[ring'[i].cookie] # "none"
                          /\ ring'[i].pid = holder'[ring'[i].cookie]
        OBVIOUS
      <4>3. CASE i = Len(ring) + 1
        BY <2>2, <2>4, <4>1, <4>2, <4>3
      <4>4. CASE i \in 1 .. Len(ring)
        BY <2>2, <2>3, <3>1, <4>2, <4>4
      <4> QED BY <4>2, <4>3, <4>4
    <3> QED BY <3>2, <3>3
  <2>6. \A x \in taken : x.cookie \in Cookies /\ x.cookie # c
    BY <2>1 DEF Births
  <2>7. \A d \in open : d # c
    BY <2>1
  <2>8. pc \in {"inodes", "insert"} => \A d \in todo : d # c
    BY <2>1
  <2> QED BY <2>1, <2>2, <2>3, <2>4, <2>5, <2>6, <2>7, <2>8
<1>2. ASSUME NEW c \in Cookies, NEW p \in Pids, AcceptSocket(c, p)
      PROVE  Custody'
  <2>1. /\ open' = open \cup {c} /\ holder' = [holder EXCEPT ![c] = p]
        /\ proc' = proc /\ taken' = taken /\ named' = named /\ pc' = pc
        /\ todo' = todo /\ inodePid' = inodePid /\ seen' = seen
        /\ sample' = sample /\ sampled' = sampled /\ ring' = ring
        /\ origin[c] = "none" /\ proc[p] # None
    BY <1>2 DEF AcceptSocket, resolverVars, loopVars
  <2>2. /\ \A d \in Cookies : d # c => origin'[d] = origin[d]
        /\ origin'[c] # "none"
    BY <1>2 DEF AcceptSocket
  <2>3. \A d \in Cookies : d # c => holder'[d] = holder[d]
    BY <2>1
  <2>4. holder'[c] = p
    BY <2>1
  <2>5. \A i \in 1 .. Len(ring) :
          ring[i].cookie \in Cookies /\ ring[i].cookie # c
    <3> SUFFICES ASSUME NEW i \in 1 .. Len(ring)
                 PROVE  ring[i].cookie \in Cookies /\ ring[i].cookie # c
      OBVIOUS
    <3>1. ring \in Seq(Births)
      OBVIOUS
    <3>2. ring[i].cookie \in Cookies
      BY <3>1, RingElement
    <3>3. origin[ring[i].cookie] # "none"
      OBVIOUS
    <3> QED BY <2>1, <3>2, <3>3
  <2>6. \A x \in taken : x.cookie \in Cookies /\ x.cookie # c
    BY <2>1 DEF Births
  <2>7. pc \in {"inodes", "insert"} => \A d \in todo : d # c
    BY <2>1
  <2> QED BY <2>1, <2>2, <2>3, <2>4, <2>5, <2>6, <2>7
<1>3. ASSUME NEW c \in Cookies, CloseSocket(c) PROVE Custody'
  BY <1>3 DEF CloseSocket, resolverVars, loopVars
<1>4. ASSUME NEW c \in Cookies, Traffic(c) PROVE Custody'
  BY <1>4 DEF Traffic, resolverVars, loopVars
<1>5. ASSUME NEW c \in Cookies, EvictCookie(c) PROVE Custody'
  BY <1>5 DEF EvictCookie, resolverVars, loopVars
<1>6. ASSUME NEW p \in Pids, NEW a \in Apps, RunProgram(p, a) PROVE Custody'
  BY <1>6 DEF RunProgram, resolverVars, loopVars
<1>7. ASSUME NEW p \in Pids, Exit(p) PROVE Custody'
  BY <1>7 DEF Exit, resolverVars, loopVars
<1> QED BY <1>1, <1>2, <1>3, <1>4, <1>5, <1>6, <1>7 DEF World

LEMMA ResolverCustody ==
  ASSUME TypeOK, Custody, Resolver
  PROVE  Custody'
<1> USE DEF TypeOK, Custody
<1>1. /\ UNCHANGED worldVars /\ UNCHANGED loopVars
  BY DEF Resolver, TakeBirth, ResolveBirth, InsertBirth
<1>2. CASE TakeBirth
  <2>1. /\ ring # <<>> /\ named' = {} /\ ring' = Tail(ring)
        /\ taken' = {Head(ring)}
    BY <1>2 DEF TakeBirth, ParseBirth
  <2>2. /\ origin[Head(ring).cookie] # "none"
        /\ Head(ring).pid = holder[Head(ring).cookie]
    BY <2>1, RingTail
  <2>3. \A i \in 1 .. Len(ring') : /\ origin[ring'[i].cookie] # "none"
                                   /\ ring'[i].pid = holder[ring'[i].cookie]
    BY <2>1, RingTail
  <2> QED BY <1>1, <2>1, <2>2, <2>3 DEF worldVars, loopVars
<1>3. CASE ResolveBirth
  <2>1. PICK b \in taken : named' = ResolvePid(b)
    BY <1>3 DEF ResolveBirth
  <2>2. taken' = {} /\ ring' = ring /\ \A n \in named' : named' = {n}
    BY <1>3, <2>1 DEF ResolveBirth, ResolvePid
  <2> QED BY <1>1, <2>2 DEF worldVars, loopVars
<1>4. CASE InsertBirth
  <2>1. taken' = taken /\ ring' = ring /\ named' = {}
    BY <1>4 DEF InsertBirth
  <2> QED BY <1>1, <2>1 DEF worldVars, loopVars
<1> QED BY <1>2, <1>3, <1>4 DEF Resolver

LEMMA SupervisorCustody ==
  ASSUME TypeOK, Custody, Supervisor
  PROVE  Custody'
<1> USE DEF TypeOK, Custody
<1>1. UNCHANGED <<worldVars, ring, resolverVars>>
  BY DEF Supervisor, Attach, DumpSockets, DumpFails, MapInodes, BackfillOne,
         EndBackfill, ReadCookie, EndRead, Prune
<1>2. /\ open' = open /\ origin' = origin /\ holder' = holder /\ proc' = proc
      /\ ring' = ring /\ taken' = taken /\ named' = named
  BY <1>1 DEF worldVars, resolverVars
<1>3. /\ pc' \in {"inodes", "insert"} => \A c \in todo' : origin[c] # "none"
      /\ pc' = "insert" => \A c \in todo' \cap open : inodePid'[c] = holder[c]
      /\ seen' \cup sample' \subseteq sampled'
  <2>1. CASE Attach
    BY <2>1 DEF Attach
  <2>2. CASE \E listed \in SUBSET open : DumpSockets(listed)
    BY <2>2 DEF DumpSockets
  <2>3. CASE DumpFails
    BY <2>3 DEF DumpFails
  <2>4. CASE MapInodes
    BY <2>4 DEF MapInodes
  <2>5. ASSUME NEW c \in Cookies, BackfillOne(c) PROVE <1>3
    BY <2>5 DEF BackfillOne
  <2>6. CASE EndBackfill
    BY <2>6 DEF EndBackfill
  <2>7. ASSUME NEW c \in Cookies, ReadCookie(c) PROVE <1>3
    BY <2>7 DEF ReadCookie
  <2>8. CASE EndRead
    BY <2>8 DEF EndRead
  <2>9. CASE Prune
    BY <2>9 DEF Prune, SeenAfterPrune
  <2> QED BY <2>1, <2>2, <2>3, <2>4, <2>5, <2>6, <2>7, <2>8, <2>9
          DEF Supervisor
<1> QED BY <1>2, <1>3

\* Whatever an identity is made from is in order at every step.
THEOREM CustodyInvariant == Spec => []Custody
<1>1. Init => Custody
  <2>1. Len(<<>>) = 0
    OBVIOUS
  <2> QED BY <2>1 DEF Init, Custody
<1>2. TypeOK /\ Custody /\ [Next]_vars => Custody'
  <2> SUFFICES ASSUME TypeOK, Custody, [Next]_vars PROVE Custody'
    OBVIOUS
  <2>1. CASE UNCHANGED vars
    BY <2>1 DEF vars, worldVars, resolverVars, mapVars, loopVars, Custody
  <2> QED BY <2>1, WorldCustody, ResolverCustody, SupervisorCustody DEF Next
<1> QED BY <1>1, <1>2, TypeCorrect, PTL DEF Spec
\* A socket the machine leaves alone stays covered, and a new one is covered.
LEMMA WorldCovers ==
  ASSUME TypeOK, Custody, NoSocketFallsThrough, World
  PROVE  NoSocketFallsThrough'
<1> USE CookieMapAssumption
<1>1. ASSUME NEW c \in Cookies, NEW p \in Pids, OpenSocket(c, p)
      PROVE  NoSocketFallsThrough'
  <2> DEFINE b == [cookie |-> c, pid |-> p]
  <2>1. /\ open' = open \cup {c} /\ taken' = taken /\ named' = named
        /\ cmap' = cmap /\ pc' = pc /\ todo' = todo /\ sampled' = sampled
        /\ failed' = failed
        /\ origin \in [Cookies -> {"none", "preexisting", "announced", "silent"}]
        /\ open \subseteq Cookies
    BY <1>1 DEF OpenSocket, resolverVars, loopVars, mapVars, TypeOK
  <2>2. \A d \in Cookies : d # c => origin'[d] = origin[d]
    BY <1>1 DEF OpenSocket, Announce, TypeOK
  <2>3. /\ \A d \in Cookies : InRing(d) => InRing(d)'
        /\ ring' # ring => InRing(c)'
    <3>1. CASE ring' = ring
      BY <3>1 DEF InRing
    <3>2. CASE ring' # ring
      <4>1. ring' = Append(ring, b)
        BY <1>1, <3>2 DEF OpenSocket, Announce
      <4>2. b \in Births /\ b.cookie = c
        BY DEF Births
      <4>3. ring \in Seq(Births)
        BY DEF TypeOK
      <4>4. /\ Len(ring) \in Nat
            /\ Len(ring') = Len(ring) + 1
            /\ ring'[Len(ring) + 1] = b
            /\ \A i \in 1 .. Len(ring) : ring'[i] = ring[i]
        BY <4>1, <4>2, <4>3, RingAppend
      <4> HIDE DEF b
      <4>5. InRing(c)'
        BY <4>2, <4>4 DEF InRing
      <4>6. ASSUME NEW d \in Cookies, InRing(d) PROVE InRing(d)'
        <5>1. PICK i \in 1 .. Len(ring) : ring[i].cookie = d
          BY <4>6 DEF InRing
        <5>2. i \in 1 .. Len(ring') /\ ring'[i].cookie = d
          BY <4>4, <5>1
        <5> QED BY <5>2 DEF InRing
      <4> QED BY <4>5, <4>6
    <3> QED BY <3>1, <3>2
  <2>4. ring' = ring => \/ origin'[c] = "silent"
                        \/ origin'[c] = "preexisting" /\ pc = "start"
    <3>1. CASE Attached /\ Announce(c, p)
      <4>1. CASE Len(ring) < RingCapacity
        <5>1. ring \in Seq(Births) /\ b \in Births
          BY DEF TypeOK, Births
        <5>2. ring' = Append(ring, b)
          BY <3>1, <4>1 DEF Announce
        <5>3. Len(ring') = Len(ring) + 1 /\ Len(ring) \in Nat
          BY <5>1, <5>2, RingAppend
        <5> QED BY <5>3
      <4>2. CASE ~(Len(ring) < RingCapacity)
        BY <3>1, <4>2, <2>1 DEF Announce
      <4> QED BY <4>1, <4>2
    <3>2. CASE ~Attached
      BY <1>1, <3>2, <2>1 DEF OpenSocket, Attached
    <3> QED BY <1>1, <3>1, <3>2 DEF OpenSocket
  <2>5. ASSUME NEW d \in open', d # c PROVE Covered(d)'
    <3>1. d \in open /\ d \in Cookies /\ Covered(d)
      BY <2>1, <2>5 DEF NoSocketFallsThrough, Covered
    <3> QED BY <2>1, <2>2, <2>3, <2>5, <3>1 DEF Covered, OnTheWay
  <2>6. Covered(c)'
    BY <2>1, <2>3, <2>4 DEF Covered, OnTheWay
  <2> QED BY <2>5, <2>6 DEF NoSocketFallsThrough, Covered
<1>2. ASSUME NEW c \in Cookies, NEW p \in Pids, AcceptSocket(c, p)
      PROVE  NoSocketFallsThrough'
  BY <1>2 DEF AcceptSocket, resolverVars, loopVars, mapVars, TypeOK, InRing,
              NoSocketFallsThrough, OnTheWay
<1>3. ASSUME open' \subseteq open, UNCHANGED origin, UNCHANGED ring,
             UNCHANGED resolverVars, UNCHANGED mapVars, UNCHANGED loopVars
      PROVE  NoSocketFallsThrough'
  BY <1>3 DEF resolverVars, loopVars, mapVars, InRing, NoSocketFallsThrough,
              OnTheWay
<1>4. \/ \E c \in Cookies, p \in Pids : OpenSocket(c, p)
      \/ \E c \in Cookies, p \in Pids : AcceptSocket(c, p)
      \/ /\ open' \subseteq open /\ UNCHANGED origin /\ UNCHANGED ring
         /\ UNCHANGED resolverVars /\ UNCHANGED mapVars /\ UNCHANGED loopVars
  BY DEF World, CloseSocket, Traffic, EvictCookie, RunProgram, Exit
<1> QED BY <1>1, <1>2, <1>3, <1>4

\* An event is in the ring, with the resolver, or in the map.
LEMMA ResolverCovers ==
  ASSUME TypeOK, Custody, NoSocketFallsThrough, Resolver
  PROVE  NoSocketFallsThrough'
<1> USE CookieMapAssumption
<1>1. /\ open' = open /\ origin' = origin /\ pc' = pc /\ todo' = todo
      /\ sampled' = sampled /\ failed' = failed /\ open \subseteq Cookies
      /\ cmap \in [Cookies -> Apps \cup {None}]
  BY DEF Resolver, TakeBirth, ResolveBirth, InsertBirth, worldVars, loopVars,
         TypeOK
<1> SUFFICES ASSUME NEW c \in open PROVE Covered(c)'
  BY <1>1 DEF NoSocketFallsThrough, Covered
<1>2. Covered(c) /\ c \in Cookies
  BY <1>1 DEF NoSocketFallsThrough, Covered
<1>3. CASE TakeBirth
  <2>1. /\ cmap' = cmap /\ named' = named /\ taken = {} /\ ring # <<>>
        /\ ring' = Tail(ring) /\ taken' = {Head(ring)}
    BY <1>3 DEF TakeBirth, ParseBirth, mapVars
  <2>2. ASSUME InRing(c) PROVE InRing(c)' \/ \E b \in taken' : b.cookie = c
    <3>1. PICK i \in 1 .. Len(ring) : ring[i].cookie = c
      BY <2>2 DEF InRing
    <3>2. ring \in Seq(Births)
      BY DEF TypeOK
    <3>3. /\ Head(ring) = ring[1] /\ Len(ring') = Len(ring) - 1
          /\ Len(ring) \in Nat
          /\ \A j \in 1 .. Len(ring') : ring'[j] = ring[j + 1]
      BY <2>1, <3>2, RingTail
    <3>4. CASE i = 1
      BY <2>1, <3>1, <3>3, <3>4
    <3>5. CASE i # 1
      <4>1. i - 1 \in 1 .. Len(ring') /\ (i - 1) + 1 = i
        BY <3>3, <3>5
      <4>2. ring'[i - 1].cookie = c
        BY <3>1, <3>3, <4>1
      <4> QED BY <4>1, <4>2 DEF InRing
    <3> QED BY <3>4, <3>5
  <2> QED BY <1>1, <1>2, <2>1, <2>2 DEF Covered, OnTheWay
<1>4. CASE ResolveBirth
  <2>1. PICK b \in taken : /\ taken' = {} /\ named' = ResolvePid(b)
                           /\ ring' = ring /\ cmap' = cmap
    BY <1>4 DEF ResolveBirth, mapVars
  <2>2. named = {} /\ taken = {b} /\ b.pid = holder[b.cookie]
    BY <2>1 DEF Custody
  <2>3. b.cookie = c => \E n \in named' : n.cookie = c
    BY <2>1, <2>2 DEF Custody, ResolvePid
  <2> QED BY <1>1, <1>2, <2>1, <2>2, <2>3 DEF Covered, OnTheWay, InRing
<1>5. CASE InsertBirth
  <2>1. PICK n \in named : /\ named' = {} /\ taken' = taken /\ ring' = ring
                           /\ cmap' = [cmap EXCEPT ![n.cookie] = n.app]
    BY <1>5 DEF InsertBirth
  <2>2. named = {n} /\ n.app # None /\ n.cookie \in Cookies
    BY <2>1 DEF Custody, TypeOK
  <2>3. /\ n.cookie = c => cmap'[c] # None
        /\ cmap[c] # None => cmap'[c] # None
    BY <1>1, <1>2, <2>1, <2>2
  <2> QED BY <1>1, <1>2, <2>1, <2>2, <2>3 DEF Covered, OnTheWay, InRing
<1> QED BY <1>3, <1>4, <1>5 DEF Resolver

\* The backfill inserts every open socket it enumerated, and the pruning removes
\* only what some sample showed.
LEMMA SupervisorCovers ==
  ASSUME TypeOK, Custody, NoSocketFallsThrough, Supervisor
  PROVE  NoSocketFallsThrough'
<1> USE CookieMapAssumption
<1>1. /\ open' = open /\ origin' = origin /\ ring' = ring
      /\ taken' = taken /\ named' = named
  BY DEF Supervisor, Attach, DumpSockets, DumpFails, MapInodes, BackfillOne,
         EndBackfill, ReadCookie, EndRead, Prune, worldVars, resolverVars
<1>2. /\ open \subseteq Cookies /\ cmap \in [Cookies -> Apps \cup {None}]
      /\ proc \in [Pids -> Apps \cup {None}]
  BY DEF TypeOK
<1> SUFFICES ASSUME NEW c \in open PROVE Covered(c)'
  BY <1>1 DEF NoSocketFallsThrough, Covered
<1>3. Covered(c) /\ c \in Cookies
  BY <1>2 DEF NoSocketFallsThrough, Covered
<1> USE DEF Covered, OnTheWay, InRing
<1>4. CASE Attach
  BY <1>1, <1>3, <1>4 DEF Attach, mapVars
<1>5. CASE \E listed \in SUBSET open : DumpSockets(listed)
  BY <1>1, <1>3, <1>5 DEF DumpSockets, mapVars
<1>6. CASE DumpFails
  BY <1>1, <1>3, <1>6 DEF DumpFails, mapVars
<1>7. CASE MapInodes
  BY <1>1, <1>3, <1>7 DEF MapInodes, mapVars
<1>8. ASSUME NEW d \in Cookies, BackfillOne(d) PROVE Covered(c)'
  <2>1. /\ pc = "insert" /\ pc' = pc /\ todo' = todo \ {d}
        /\ sampled' = sampled /\ failed' = failed
    BY <1>8 DEF BackfillOne
  <2>2. cmap[c] # None => cmap'[c] # None
    BY <1>2, <1>3, <1>8 DEF BackfillOne, Backfillable, mapVars
  <2>3. c \in todo /\ c = d => cmap'[c] # None
    <3>1. c \in todo => inodePid[c] = holder[c]
      BY <2>1 DEF Custody
    <3>2. holder[c] # None /\ proc[holder[c]] # None
      BY DEF Custody
    <3> QED BY <1>2, <1>3, <1>8, <2>2, <3>1, <3>2 DEF BackfillOne, Backfillable
  <2> QED BY <1>1, <1>3, <2>1, <2>2, <2>3
<1>9. CASE EndBackfill
  BY <1>1, <1>3, <1>9 DEF EndBackfill, mapVars
<1>10. ASSUME NEW d \in Cookies, ReadCookie(d) PROVE Covered(c)'
  BY <1>1, <1>3, <1>10 DEF ReadCookie, mapVars
<1>11. CASE EndRead
  BY <1>1, <1>3, <1>11 DEF EndRead, mapVars
<1>12. CASE Prune
  <2>1. /\ pc = "prune" /\ sampled' = sampled /\ failed' = failed
        /\ cmap' = [d \in Cookies |-> IF Retained(d) THEN cmap[d] ELSE None]
    BY <1>12 DEF Prune
  <2>2. cmap[c] # None => cmap'[c] # None \/ c \in sampled
    BY <1>3, <2>1 DEF Retained, Custody
  <2> QED BY <1>1, <1>3, <2>1, <2>2
<1> QED BY <1>4, <1>5, <1>6, <1>7, <1>8, <1>9, <1>10, <1>11, <1>12
        DEF Supervisor

\* Announcing before enumerating, and inserting without overwriting, leave no gap
\* for any number of sockets, processes and ring slots.
THEOREM NoSocketFalls == Spec => []NoSocketFallsThrough
<1>1. Init => NoSocketFallsThrough
  BY DEF Init, NoSocketFallsThrough
<1>2. TypeOK /\ Custody /\ NoSocketFallsThrough /\ [Next]_vars
        => NoSocketFallsThrough'
  <2> SUFFICES ASSUME TypeOK, Custody, NoSocketFallsThrough, [Next]_vars
               PROVE  NoSocketFallsThrough'
    OBVIOUS
  <2>1. CASE UNCHANGED vars
    BY <2>1 DEF vars, worldVars, resolverVars, mapVars, loopVars,
                NoSocketFallsThrough, OnTheWay, InRing
  <2> QED BY <2>1, WorldCovers, ResolverCovers, SupervisorCovers DEF Next
<1> QED BY <1>1, <1>2, TypeCorrect, CustodyInvariant, PTL DEF Spec
\* The pruning never takes the identity of a socket that is only idle.
THEOREM IdleIsKept == Spec => IdleKeepIdentity
<1> DEFINE Step == \A c \in Cookies :
                     cmap[c] # None /\ cmap'[c] = None =>
                       c \in sampled /\ c \notin sample
<1>1. TypeOK /\ Custody /\ [Next]_vars => Step
  <2> SUFFICES ASSUME TypeOK, Custody, [Next]_vars PROVE Step
    OBVIOUS
  <2>1. CASE InsertBirth
    <3>1. PICK n \in named : cmap' = [cmap EXCEPT ![n.cookie] = n.app]
      BY <2>1 DEF InsertBirth
    <3>2. n.app \in Apps
      BY DEF TypeOK
    <3> QED BY <3>1, <3>2, CookieMapAssumption DEF TypeOK
  <2>2. ASSUME NEW c \in Cookies, BackfillOne(c) PROVE Step
    BY <2>2 DEF BackfillOne, Backfillable, mapVars, TypeOK
  <2>3. CASE Prune
    BY <2>3 DEF Prune, Retained, Custody
  <2>4. CASE UNCHANGED mapVars
    BY <2>4 DEF mapVars
  <2>5. \/ InsertBirth \/ (\E c \in Cookies : BackfillOne(c)) \/ Prune
        \/ UNCHANGED mapVars
    <3>1. CASE World
      BY <3>1 DEF World, OpenSocket, AcceptSocket, CloseSocket, Traffic,
                  EvictCookie, RunProgram, Exit
    <3>2. CASE Resolver
      BY <3>2 DEF Resolver, TakeBirth, ResolveBirth
    <3>3. CASE Supervisor
      BY <3>3 DEF Supervisor, Attach, DumpSockets, DumpFails, MapInodes,
                  EndBackfill, EndRead, ReadCookie
    <3>4. CASE UNCHANGED vars
      BY <3>4 DEF vars
    <3> QED BY <3>1, <3>2, <3>3, <3>4 DEF Next
  <2> QED BY <2>1, <2>2, <2>3, <2>4, <2>5
<1> QED BY <1>1, TypeCorrect, CustodyInvariant, PTL DEF Spec, IdleKeepIdentity
-----------------------------------------------------------------------------
(* Whose name a socket gets.                                               *)

LEMMA WorldProvenance ==
  ASSUME TypeOK, Custody, Provenance, World
  PROVE  Provenance'
<1> USE CookieMapAssumption DEF TypeOK, Provenance
<1>1. inodePid' = inodePid /\ named' = named
  BY DEF World, OpenSocket, AcceptSocket, CloseSocket, Traffic, EvictCookie,
         RunProgram, Exit, loopVars, resolverVars
<1>2. \A n \in named : n.cookie \in Cookies
  OBVIOUS
<1>3. ASSUME NEW c \in Cookies, NEW p \in Pids,
             OpenSocket(c, p) \/ AcceptSocket(c, p)
      PROVE  Provenance'
  <2>1. /\ origin[c] = "none" /\ proc[p] # None /\ proc' = proc
        /\ holder' = [holder EXCEPT ![c] = p]
        /\ ran' = [ran EXCEPT ![c] = {proc[p]}]
    BY <1>3 DEF OpenSocket, AcceptSocket
  <2>2. /\ \A d \in Cookies : d # c => origin'[d] = origin[d]
        /\ origin'[c] # "none"
    BY <1>3 DEF OpenSocket, AcceptSocket, Announce
  <2>3. \A d \in Cookies : /\ holder'[d] = IF d = c THEN p ELSE holder[d]
                           /\ ran'[d] = IF d = c THEN {proc[p]} ELSE ran[d]
    BY <2>1
  <2> QED BY <1>1, <1>2, <2>1, <2>2, <2>3
<1>4. CASE UNCHANGED <<proc, origin, holder, ran>>
  BY <1>1, <1>4
<1>5. ASSUME NEW p \in Pids, NEW a \in Apps, RunProgram(p, a)
      PROVE  Provenance'
  <2>1. /\ proc' = [proc EXCEPT ![p] = a]
        /\ ran' = [c \in Cookies |->
                     IF holder[c] = p THEN ran[c] \cup {a} ELSE ran[c]]
        /\ origin' = origin /\ holder' = holder
    BY <1>5 DEF RunProgram
  <2> QED BY <1>1, <1>2, <2>1
<1>6. ASSUME NEW p \in Pids, Exit(p) PROVE Provenance'
  <2>1. /\ proc' = [proc EXCEPT ![p] = None] /\ ran' = ran
        /\ origin' = origin /\ holder' = holder
    BY <1>6 DEF Exit
  <2> QED BY <1>1, <1>2, <2>1
<1>7. \/ \E c \in Cookies, p \in Pids : OpenSocket(c, p) \/ AcceptSocket(c, p)
      \/ UNCHANGED <<proc, origin, holder, ran>>
      \/ \E p \in Pids, a \in Apps : RunProgram(p, a)
      \/ \E p \in Pids : Exit(p)
  BY DEF World, CloseSocket, Traffic, EvictCookie
<1> QED BY <1>3, <1>4, <1>5, <1>6, <1>7

\* The resolver asks for the pid of the event, which is the creator's.
LEMMA ResolverProvenance ==
  ASSUME TypeOK, Custody, Provenance, Resolver
  PROVE  Provenance'
<1> USE CookieMapAssumption DEF TypeOK, Provenance
<1>1. /\ proc' = proc /\ origin' = origin /\ holder' = holder /\ ran' = ran
      /\ inodePid' = inodePid
  BY DEF Resolver, TakeBirth, ResolveBirth, InsertBirth, worldVars, loopVars
<1>2. \A n \in named' : n.app \in ran[n.cookie] /\ origin[n.cookie] # "none"
  <2>1. CASE TakeBirth \/ InsertBirth
    BY <2>1 DEF TakeBirth, InsertBirth
  <2>2. CASE ResolveBirth
    <3>1. PICK b \in taken : named' = ResolvePid(b)
      BY <2>2 DEF ResolveBirth
    <3>2. b.cookie \in Cookies /\ b.pid \in Pids
      BY DEF Births
    <3>3. origin[b.cookie] # "none" /\ b.pid = holder[b.cookie]
      BY DEF Custody
    <3>4. proc[b.pid] \in ran[b.cookie] \cup {None}
      BY <3>2, <3>3
    <3> QED BY <3>1, <3>3, <3>4 DEF ResolvePid
  <2> QED BY <2>1, <2>2 DEF Resolver
<1> QED BY <1>1, <1>2

\* The scan finds the creators of what is open.
LEMMA SupervisorProvenance ==
  ASSUME TypeOK, Custody, Provenance, Supervisor
  PROVE  Provenance'
<1> USE CookieMapAssumption DEF TypeOK, Provenance
<1>1. /\ proc' = proc /\ origin' = origin /\ holder' = holder /\ ran' = ran
      /\ named' = named
  BY DEF Supervisor, Attach, DumpSockets, DumpFails, MapInodes, BackfillOne,
         EndBackfill, ReadCookie, EndRead, Prune, worldVars, resolverVars
<1>2. CASE inodePid' = inodePid
  BY <1>1, <1>2
<1>3. CASE MapInodes
  <2>1. inodePid' = [c \in Cookies |-> IF c \in open THEN holder[c] ELSE None]
    BY <1>3 DEF MapInodes
  <2> QED BY <1>1, <2>1 DEF Custody
<1> QED BY <1>2, <1>3 DEF Supervisor, Attach, DumpSockets, DumpFails,
        BackfillOne, EndBackfill, ReadCookie, EndRead, Prune

LEMMA ProvenanceInvariant == Spec => []Provenance
<1>1. Init => Provenance
  BY DEF Init, Provenance
<1>2. TypeOK /\ Custody /\ Provenance /\ [Next]_vars => Provenance'
  <2> SUFFICES ASSUME TypeOK, Custody, Provenance, [Next]_vars
               PROVE  Provenance'
    OBVIOUS
  <2>1. CASE UNCHANGED vars
    BY <2>1 DEF vars, worldVars, resolverVars, mapVars, loopVars, Provenance
  <2> QED BY <2>1, WorldProvenance, ResolverProvenance, SupervisorProvenance
          DEF Next
<1> QED BY <1>1, <1>2, TypeCorrect, CustodyInvariant, PTL DEF Spec

\* A socket is never named after a program that did not run under its creator's
\* pid since it exists, for any number of pids and of changes of what they run.
THEOREM NameIsOfThePid == Spec => []NamedByItsPid
<1>1. Init => NamedByItsPid
  BY DEF Init, NamedByItsPid
<1>2. TypeOK /\ Custody /\ Provenance /\ NamedByItsPid /\ [Next]_vars
        => NamedByItsPid'
  <2> SUFFICES ASSUME TypeOK, Custody, Provenance, NamedByItsPid, [Next]_vars
               PROVE  NamedByItsPid'
    OBVIOUS
  <2> USE CookieMapAssumption DEF TypeOK, NamedByItsPid
  <2>1. ASSUME World PROVE NamedByItsPid'
    <3>1. cmap' = cmap
      BY <2>1 DEF World, OpenSocket, AcceptSocket, CloseSocket, Traffic,
                  EvictCookie, RunProgram, Exit, mapVars
    <3>2. \A c \in Cookies : ran[c] \subseteq ran'[c]
      <4>1. ASSUME NEW c \in Cookies, NEW p \in Pids,
                   OpenSocket(c, p) \/ AcceptSocket(c, p)
            PROVE  <3>2
        <5>1. origin[c] = "none" /\ ran' = [ran EXCEPT ![c] = {proc[p]}]
          BY <4>1 DEF OpenSocket, AcceptSocket
        <5> QED BY <5>1 DEF Provenance
      <4>2. ASSUME NEW p \in Pids, NEW a \in Apps, RunProgram(p, a) PROVE <3>2
        BY <4>2 DEF RunProgram
      <4>3. CASE UNCHANGED ran
        BY <4>3
      <4> QED BY <2>1, <4>1, <4>2, <4>3
              DEF World, CloseSocket, Traffic, EvictCookie, Exit
    <3> QED BY <3>1, <3>2
  <2>2. ASSUME Resolver PROVE NamedByItsPid'
    <3>1. ran' = ran
      BY <2>2 DEF Resolver, TakeBirth, ResolveBirth, InsertBirth, worldVars
    <3>2. CASE InsertBirth
      <4>1. PICK n \in named : cmap' = [cmap EXCEPT ![n.cookie] = n.app]
        BY <3>2 DEF InsertBirth
      <4>2. n.app \in ran[n.cookie]
        BY DEF Provenance
      <4> QED BY <3>1, <4>1, <4>2
    <3>3. CASE TakeBirth \/ ResolveBirth
      BY <3>1, <3>3 DEF TakeBirth, ResolveBirth, mapVars
    <3> QED BY <2>2, <3>2, <3>3 DEF Resolver
  <2>3. ASSUME Supervisor PROVE NamedByItsPid'
    <3>1. ran' = ran
      BY <2>3 DEF Supervisor, Attach, DumpSockets, DumpFails, MapInodes,
                  BackfillOne, EndBackfill, ReadCookie, EndRead, Prune, worldVars
    <3>2. ASSUME NEW c \in Cookies, BackfillOne(c) PROVE NamedByItsPid'
      <4>1. CASE Backfillable(c)
        <5>1. cmap' = [cmap EXCEPT ![c] = proc[inodePid[c]]]
          BY <3>2, <4>1 DEF BackfillOne
        <5>2. proc[inodePid[c]] \in ran[c]
          BY <4>1 DEF Backfillable, Provenance
        <5> QED BY <3>1, <5>1, <5>2
      <4>2. CASE ~Backfillable(c)
        BY <3>1, <3>2, <4>2 DEF BackfillOne, mapVars
      <4> QED BY <4>1, <4>2
    <3>3. CASE Prune
      BY <3>1, <3>3 DEF Prune
    <3>4. CASE cmap' = cmap
      BY <3>1, <3>4
    <3> QED BY <2>3, <3>2, <3>3, <3>4
            DEF Supervisor, Attach, DumpSockets, DumpFails, MapInodes,
                EndBackfill, ReadCookie, EndRead, mapVars
  <2>4. CASE UNCHANGED vars
    BY <2>4 DEF vars, worldVars, mapVars
  <2> QED BY <2>1, <2>2, <2>3, <2>4 DEF Next
<1> QED BY <1>1, <1>2, TypeCorrect, CustodyInvariant, ProvenanceInvariant, PTL
        DEF Spec
=============================================================================
