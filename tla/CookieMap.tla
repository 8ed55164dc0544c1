----------------------------- MODULE CookieMap -----------------------------
(***************************************************************************)
(* Which application a socket belongs to.                                  *)
(*                                                                         *)
(* The eBPF program on sock_create announces every new socket, with the    *)
(* pid of its creator, in the ring buffer SOCK_BIRTH.  A resolver thread   *)
(* (resolver.rs) drains the ring, looks the pid up in /proc and fills the  *)
(* map cookie -> identity.  At start the daemon also enumerates the        *)
(* sockets that are already open (backfill.rs).  The supervisor loop       *)
(* (supervisor.rs) forgets the cookies that left the traffic maps.         *)
(*                                                                         *)
(* Processes exec, exit and are replaced under the same pid meanwhile.     *)
(***************************************************************************)
EXTENDS Naturals, Sequences

CONSTANTS
  Cookies,      \* socket cookies, never reused
  Pids,         \* process ids, reused
  Apps,         \* identities: what resolve_pid answers for a program
  None,         \* no process, no identity
  RingCapacity, \* events that fit in SOCK_BIRTH
  MaxChanges    \* bound: exits, execs and spawns in a behaviour

ASSUME CookieMapAssumption ==
  /\ None \notin Apps
  /\ None \notin Pids
  /\ RingCapacity \in Nat
  /\ MaxChanges \in Nat

Births == [cookie : Cookies, pid : Pids]

VARIABLES
  proc,       \* the program each pid runs, None when there is no process
  changes,    \* exits, execs and spawns so far (for the bound)
  origin,     \* how each socket came to be (see OpenSocket)
  holder,     \* the pid that created the socket
  open,       \* sockets that are open
  counted,    \* cookies with an entry in RX_BYTES or TX_BYTES
  ring,       \* SOCK_BIRTH
  taken,      \* the event the resolver took and has not resolved (at most one)
  named,      \* the identity it resolved and has not inserted (at most one)
  cmap,       \* CookieMap, None for a cookie it does not hold
  pc,         \* what the supervisor is doing
  todo,       \* cookies the step in progress has not handled yet
  inodePid,   \* inode_to_pid of the backfill
  sample,     \* cookies of the sample being read
  seen,       \* seen_in_ebpf
  via,        \* history: what the identity in cmap came from
  orphans,    \* history: cookies whose creator exited
  ran,        \* history: what ran under the creator's pid since the creation
  sampled,    \* history: cookies that appeared in some sample
  failed      \* history: the enumeration failed or was cut short

worldVars == <<proc, changes, origin, holder, open, counted, orphans, ran>>
resolverVars == <<taken, named>>
mapVars == <<cmap, via>>
loopVars == <<pc, todo, inodePid, sample, seen, sampled, failed>>
vars == <<worldVars, ring, resolverVars, mapVars, loopVars>>

TypeOK ==
  /\ proc \in [Pids -> Apps \cup {None}]
  /\ changes \in 0 .. MaxChanges
  /\ origin \in [Cookies -> {"none", "preexisting", "announced", "silent"}]
  /\ holder \in [Cookies -> Pids \cup {None}]
  /\ open \subseteq Cookies
  /\ counted \subseteq Cookies
  /\ ring \in Seq(Births)
  /\ taken \subseteq Births
  /\ named \subseteq [cookie : Cookies, app : Apps]
  /\ cmap \in [Cookies -> Apps \cup {None}]
  /\ pc \in {"start", "dump", "inodes", "insert", "read", "prune"}
  /\ todo \subseteq Cookies
  /\ inodePid \in [Cookies -> Pids \cup {None}]
  /\ sample \subseteq Cookies
  /\ seen \subseteq Cookies
  /\ via \in [Cookies -> {"none", "birth", "backfill"}]
  /\ orphans \subseteq Cookies
  /\ ran \in [Cookies -> SUBSET Apps]
  /\ sampled \subseteq Cookies
  /\ failed \in BOOLEAN

Init ==
  /\ proc \in [Pids -> Apps \cup {None}]
  /\ changes = 0
  /\ origin = [c \in Cookies |-> "none"]
  /\ holder = [c \in Cookies |-> None]
  /\ open = {}
  /\ counted = {}
  /\ ring = <<>>
  /\ taken = {}
  /\ named = {}
  /\ cmap = [c \in Cookies |-> None]
  /\ pc = "start"
  /\ todo = {}
  /\ inodePid = [c \in Cookies |-> None]
  /\ sample = {}
  /\ seen = {}
  /\ via = [c \in Cookies |-> "none"]
  /\ orphans = {}
  /\ ran = [c \in Cookies |-> {}]
  /\ sampled = {}
  /\ failed = FALSE

-----------------------------------------------------------------------------
(* The machine: processes, sockets and the eBPF programs.                  *)

\* Fault: the programs are attached after the backfill.
AttachedLate == pc \in {"read", "prune"}

\* The programs count and announce once attach_all has run.
Attached == pc # "start"

\* Fault: the event carries the thread id (the low half of pid_tgid).
AnnounceThread(c, p) ==
  /\ ring' = Append(ring, [cookie |-> c, pid |-> None])
  /\ origin' = [origin EXCEPT ![c] = "announced"]

\* Fault: the pid is that of whoever the CPU was running.
AnnounceCurrent(c, p) ==
  IF Len(ring) < RingCapacity
    THEN /\ \E q \in Pids : ring' = Append(ring, [cookie |-> c, pid |-> q])
         /\ origin' = [origin EXCEPT ![c] = "announced"]
    ELSE /\ origin' = [origin EXCEPT ![c] = "silent"]
         /\ UNCHANGED ring

\* emit_sock_birth: the event, if the ring has room; otherwise it is dropped.
Announce(c, p) ==
  IF Len(ring) < RingCapacity
    THEN /\ ring' = Append(ring, [cookie |-> c, pid |-> p])
         /\ origin' = [origin EXCEPT ![c] = "announced"]
    ELSE /\ origin' = [origin EXCEPT ![c] = "silent"]
         /\ UNCHANGED ring

\* A process creates a socket: announced once the daemon is attached.
OpenSocket(c, p) ==
  /\ origin[c] = "none"
  /\ proc[p] # None
  /\ open' = open \cup {c}
  /\ holder' = [holder EXCEPT ![c] = p]
  /\ ran' = [ran EXCEPT ![c] = {proc[p]}]
  /\ \/ Attached /\ Announce(c, p)
     \/ ~Attached /\ origin' = [origin EXCEPT ![c] = "preexisting"]
        /\ UNCHANGED ring
  /\ UNCHANGED <<proc, changes, counted, orphans, resolverVars, mapVars,
                 loopVars>>

\* A connection accepted from a listening socket does not run sock_create.
AcceptSocket(c, p) ==
  /\ Attached
  /\ origin[c] = "none"
  /\ proc[p] # None
  /\ open' = open \cup {c}
  /\ holder' = [holder EXCEPT ![c] = p]
  /\ ran' = [ran EXCEPT ![c] = {proc[p]}]
  /\ origin' = [origin EXCEPT ![c] = "silent"]
  /\ UNCHANGED <<proc, changes, counted, orphans, ring, resolverVars,
                 mapVars, loopVars>>

CloseSocket(c) ==
  /\ c \in open
  /\ open' = open \ {c}
  /\ UNCHANGED <<proc, changes, origin, holder, counted, orphans, ran, ring,
                 resolverVars, mapVars, loopVars>>

\* A packet of a socket, which may outlive its descriptor: it has an entry.
Traffic(c) ==
  /\ Attached
  /\ origin[c] # "none"
  /\ c \notin counted
  /\ counted' = counted \cup {c}
  /\ UNCHANGED <<proc, changes, origin, holder, open, orphans, ran, ring,
                 resolverVars, mapVars, loopVars>>

\* The LRU maps evict the last entry of a cookie.  Nothing else removes one: the
\* entries of a closed socket stay until then.
EvictCookie(c) ==
  /\ c \in counted
  /\ counted' = counted \ {c}
  /\ UNCHANGED <<proc, changes, origin, holder, open, orphans, ran, ring,
                 resolverVars, mapVars, loopVars>>

\* A process starts under a free pid, or execs another program.
RunProgram(p, a) ==
  /\ changes < MaxChanges
  /\ proc[p] # a
  /\ changes' = changes + 1
  /\ proc' = [proc EXCEPT ![p] = a]
  /\ ran' = [c \in Cookies |->
               IF holder[c] = p THEN ran[c] \cup {a} ELSE ran[c]]
  /\ UNCHANGED <<origin, holder, open, counted, orphans, ring, resolverVars,
                 mapVars, loopVars>>

\* A process exits and its sockets are closed.
Exit(p) ==
  /\ changes < MaxChanges
  /\ proc[p] # None
  /\ changes' = changes + 1
  /\ proc' = [proc EXCEPT ![p] = None]
  /\ open' = {c \in open : holder[c] # p}
  /\ orphans' = orphans \cup {c \in Cookies : holder[c] = p}
  /\ UNCHANGED <<origin, holder, counted, ran, ring, resolverVars, mapVars,
                 loopVars>>

World ==
  \/ \E c \in Cookies, p \in Pids : OpenSocket(c, p)
  \/ \E c \in Cookies, p \in Pids : AcceptSocket(c, p)
  \/ \E c \in Cookies : CloseSocket(c)
  \/ \E c \in Cookies : Traffic(c)
  \/ \E c \in Cookies : EvictCookie(c)
  \/ \E p \in Pids, a \in Apps : RunProgram(p, a)
  \/ \E p \in Pids : Exit(p)
-----------------------------------------------------------------------------
(* The resolver thread.                                                    *)

\* Fault: parse_birth takes every record for a truncated one.
ParsesNone(event) == {}

\* parse_birth: the event, as the eBPF program wrote it.
ParseBirth(event) == {event}

\* ring.next() and parse_birth.
TakeBirth ==
  /\ Attached
  /\ ring # <<>>
  /\ taken = {} /\ named = {}
  /\ taken' = ParseBirth(Head(ring))
  /\ ring' = Tail(ring)
  /\ UNCHANGED <<worldVars, named, mapVars, loopVars>>

\* Fault: a process that is gone is resolved all the same.
ResolvesGone(b) ==
  {[cookie |-> b.cookie, app |-> proc[b.pid]]}

\* Fault: a process that runs another program by now is taken for gone.
ResolvesUnchanged(b) ==
  IF proc[b.pid] = None \/ ran[b.cookie] # {proc[b.pid]} THEN {}
  ELSE {[cookie |-> b.cookie, app |-> proc[b.pid]]}

\* resolve_pid: the program the pid runs NOW; nothing if the process is gone.
ResolvePid(b) ==
  IF proc[b.pid] = None THEN {}
  ELSE {[cookie |-> b.cookie, app |-> proc[b.pid]]}

ResolveBirth ==
  \E b \in taken :
    /\ taken' = {}
    /\ named' = ResolvePid(b)
    /\ UNCHANGED <<worldVars, ring, mapVars, loopVars>>

\* cookie_map.lock().insert(..): it overwrites.  The backfill holds the lock
\* while it inserts.
InsertBirth ==
  \E n \in named :
    /\ pc # "insert"
    /\ named' = {}
    /\ cmap' = [cmap EXCEPT ![n.cookie] = n.app]
    /\ via' = [via EXCEPT ![n.cookie] = "birth"]
    /\ UNCHANGED <<worldVars, ring, taken, loopVars>>

Resolver == TakeBirth \/ ResolveBirth \/ InsertBirth

-----------------------------------------------------------------------------
(* The supervisor: start, backfill and loop.                               *)

\* attach_all, then the ring is handed to the resolver thread.
Attach ==
  /\ pc = "start"
  /\ pc' = "dump"
  /\ UNCHANGED <<worldVars, ring, resolverVars, mapVars, todo, inodePid,
                 sample, seen, sampled, failed>>

\* dump_all_sockets: sock_diag lists the open sockets.  A receive that fails
\* ends the list early, and nobody is told.
DumpSockets(listed) ==
  /\ pc = "dump"
  /\ pc' = "inodes"
  /\ todo' = listed
  /\ failed' = (listed # open)
  /\ UNCHANGED <<worldVars, ring, resolverVars, mapVars, inodePid, sample,
                 seen, sampled>>

\* sock_diag fails: the daemon warns and goes on without backfill.
DumpFails ==
  /\ pc = "dump"
  /\ pc' = "read"
  /\ todo' = Cookies
  /\ failed' = TRUE
  /\ UNCHANGED <<worldVars, ring, resolverVars, mapVars, inodePid, sample,
                 seen, sampled>>

\* build_inode_pid_map scans the descriptors of every process.
MapInodes ==
  /\ pc = "inodes"
  /\ pc' = "insert"
  /\ inodePid' = [c \in Cookies |-> IF c \in open THEN holder[c] ELSE None]
  /\ UNCHANGED <<worldVars, ring, resolverVars, mapVars, todo, sample, seen,
                 sampled, failed>>

\* Fault: the backfill inserts over what a birth event put there.
OverwritingBackfill(c) == inodePid[c] # None /\ proc[inodePid[c]] # None

\* The backfill inserts c: it is not in the map, its inode has a process, and
\* the process still exists.
Backfillable(c) ==
  cmap[c] = None /\ inodePid[c] # None /\ proc[inodePid[c]] # None

\* One turn of the loop of backfill, under the lock.
BackfillOne(c) ==
  /\ pc = "insert"
  /\ c \in todo
  /\ todo' = todo \ {c}
  /\ IF Backfillable(c)
       THEN /\ cmap' = [cmap EXCEPT ![c] = proc[inodePid[c]]]
            /\ via' = [via EXCEPT ![c] = "backfill"]
       ELSE UNCHANGED mapVars
  /\ UNCHANGED <<worldVars, ring, resolverVars, pc, inodePid, sample, seen,
                 sampled, failed>>

EndBackfill ==
  /\ pc = "insert"
  /\ todo = {}
  /\ pc' = "read"
  /\ todo' = Cookies
  /\ UNCHANGED <<worldVars, ring, resolverVars, mapVars, inodePid, sample,
                 seen, sampled, failed>>

\* read_counters meets c, or not, while it goes through the maps.
ReadCookie(c) ==
  /\ pc = "read"
  /\ c \in todo
  /\ todo' = todo \ {c}
  /\ sample' = IF c \in counted THEN sample \cup {c} ELSE sample
  /\ sampled' = IF c \in counted THEN sampled \cup {c} ELSE sampled
  /\ UNCHANGED <<worldVars, ring, resolverVars, mapVars, pc, inodePid, seen,
                 failed>>

\* The sample is complete; the aggregator reads cmap and changes nothing here.
EndRead ==
  /\ pc = "read"
  /\ todo = {}
  /\ pc' = "prune"
  /\ UNCHANGED <<worldVars, ring, resolverVars, mapVars, todo, inodePid,
                 sample, seen, sampled, failed>>

\* Fault: every cookie without counters is pruned, seen or not.
PrunesIdle(c) == c \in sample

\* map.retain: a cookie stays if it was never confirmed or is in the sample.
Retained(c) == c \notin seen \cup sample \/ c \in sample

\* Fault: confirmed cookies are remembered for ever.
SeenForEver == seen \cup sample

\* seen_in_ebpf after the pruning: the confirmed cookies the map still holds.
SeenAfterPrune == {c \in seen \cup sample : cmap'[c] # None}

\* prune_cookie_map, under the lock; then the loop sleeps and starts again.
Prune ==
  /\ pc = "prune"
  /\ pc' = "read"
  /\ todo' = Cookies
  /\ sample' = {}
  /\ cmap' = [c \in Cookies |-> IF Retained(c) THEN cmap[c] ELSE None]
  /\ via' = [c \in Cookies |-> IF Retained(c) THEN via[c] ELSE "none"]
  /\ seen' = SeenAfterPrune
  /\ UNCHANGED <<worldVars, ring, resolverVars, inodePid, sampled, failed>>

Supervisor ==
  \/ Attach
  \/ \E listed \in SUBSET open : DumpSockets(listed)
  \/ DumpFails
  \/ MapInodes
  \/ \E c \in Cookies : BackfillOne(c)
  \/ EndBackfill
  \/ \E c \in Cookies : ReadCookie(c)
  \/ EndRead
  \/ Prune

Next == World \/ Resolver \/ Supervisor

Spec == Init /\ [][Next]_vars

\* The resolver polls its ring every IDLE_POLL and the supervisor never stops;
\* the lock is free between the insertions of the backfill and of each pruning.
FairSpec == Spec /\ WF_vars(Resolver) /\ WF_vars(Supervisor)

-----------------------------------------------------------------------------
(* Properties.                                                             *)

\* backfill.rs: "un evento de nacimiento reciente es más fiable que el
\* backfill".  Once a birth event named a cookie, the backfill does not rename
\* it, whichever order the two threads reach the map in.
BirthWins ==
  [][\A c \in Cookies :
       via[c] = "birth" => cmap'[c] = None \/ via'[c] = "birth"]_vars

\* supervisor.rs: a socket that is only idle keeps its identity.  A cookie
\* leaves the map only after some sample showed it and the current one does not.
IdleKeepIdentity ==
  [][\A c \in Cookies :
       cmap[c] # None /\ cmap'[c] = None => c \in sampled /\ c \notin sample]_vars

\* seen_in_ebpf cannot outgrow the map it annotates: "para que el set no crezca
\* sin límite a lo largo de sesiones largas".
SeenInMap == \A c \in seen : cmap[c] # None

InRing(c) == \E i \in 1 .. Len(ring) : ring[i].cookie = c

\* The cookie is somewhere on its way into the map.
OnTheWay(c) ==
  \/ InRing(c)
  \/ \E b \in taken : b.cookie = c
  \/ \E n \in named : n.cookie = c
  \/ origin[c] = "preexisting" /\ pc \in {"start", "dump"}
  \/ pc \in {"inodes", "insert"} /\ c \in todo

\* Announcing, attaching before enumerating and not overwriting leave no gap: an
\* open socket that was announced, or was open before the daemon attached, is in
\* the map or on its way, unless it was confirmed and then evicted.
NoSocketFallsThrough ==
  \A c \in open :
    \/ origin[c] = "silent"
    \/ origin[c] = "preexisting" /\ failed
    \/ cmap[c] # None
    \/ OnTheWay(c)
    \/ c \in sampled

\* An announced socket gets an identity, unless its process exits first
\* ("procesos efímeros que mueren antes de resolverse", docs/app-attribution.md).
AnnouncedIsNamed ==
  \A c \in Cookies :
    InRing(c) ~> (cmap[c] # None \/ c \in orphans)

\* Whichever thread names a socket, and whatever execs, exits or takes over the
\* pid between the event or the scan and the look at /proc: the name is of a
\* program that ran under the pid of the creator since the socket exists, so it is
\* the creator's own as long as the creator is there (resolver.rs:47,
\* backfill.rs:68).
NamedByItsPid == \A c \in Cookies : cmap[c] # None => cmap[c] \in ran[c]

\* supervisor.rs:94-96: prune_cookie_map "elimina del mapa compartido las cookies
\* que ya no aparecen en los contadores [...] si ya habían aparecido en algún
\* muestreo anterior".
PruneForgetsTheDead ==
  [][pc = "prune" /\ pc' = "read" =>
       \A c \in sampled \ sample : cmap'[c] = None]_vars
-----------------------------------------------------------------------------
(* Why: what the way into the map relies on.                               *)

\* The creator of an open socket is running; an event names the creator; what
\* the backfill is about to insert for an open socket is its creator; the
\* resolver handles one event at a time; a cookie is pruned only if sampled.
Custody ==
  /\ \A c \in open : /\ origin[c] # "none"
                     /\ holder[c] # None
                     /\ proc[holder[c]] # None
  /\ \A i \in 1 .. Len(ring) : /\ origin[ring[i].cookie] # "none"
                               /\ ring[i].pid = holder[ring[i].cookie]
  /\ \A b \in taken : /\ origin[b.cookie] # "none"
                      /\ b.pid = holder[b.cookie]
                      /\ taken = {b} /\ named = {}
  /\ \A n \in named : named = {n}
  /\ pc \in {"inodes", "insert"} => \A c \in todo : origin[c] # "none"
  /\ pc = "insert" => \A c \in todo \cap open : inodePid[c] = holder[c]
  /\ seen \cup sample \subseteq sampled

\* What a name is made from: what runs under the pid of a creator has run since,
\* a name that is resolved was of such a program, and the backfill knows of a
\* socket its creator or nothing, also of one that was closed meanwhile.
Provenance ==
  /\ \A c \in Cookies :
       /\ origin[c] # "none" <=> holder[c] # None
       /\ holder[c] # None => proc[holder[c]] \in ran[c] \cup {None}
       /\ origin[c] = "none" => ran[c] = {}
  /\ \A n \in named : n.app \in ran[n.cookie] /\ origin[n.cookie] # "none"
  /\ \A c \in Cookies : inodePid[c] # None =>
       inodePid[c] = holder[c] /\ origin[c] # "none"
=============================================================================
