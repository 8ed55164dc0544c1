# netusage: formal model

netusage tells a Linux user how many bytes each application sends and receives.
eBPF programs count the traffic of every socket, a privileged daemon
(`netusaged`) attributes sockets to applications and stores the usage in SQLite,
and a terminal interface shows it by period. This directory holds TLA+ modules
translated from that code, the TLC configurations that check them and the
proofs that TLAPS checks. Paths below are relative to `src/crates/`.

    tlc -workers 2 -config MCMetering.cfg MCMetering
    tlapm Metering_proofs.tla

Each component has a module, an MC module that gives its constants values, and, if
it has theorems, a module `*_proofs` that extends it.

## Parts of the system

| Part | Source | State | Operations | Talks to |
|---|---|---|---|---|
| eBPF counters | `netusage-ebpf/src/{main,maps,packet}.rs` | `RX_BYTES`, `TX_BYTES` (LRU maps), `SOCK_BIRTH` (ring) | count a packet, announce a socket | the maps, read by the daemon |
| Aggregator | `netusaged/src/aggregator.rs` | `prev`, `totals` | `sample`, `read_counters` | the maps, the cookie map |
| Socket attribution | `netusaged/src/{resolver,backfill,attach}.rs`, the loop of `supervisor.rs` | `CookieMap`, `seen_in_ebpf` | resolve a birth, backfill, prune | ring, sock_diag, `/proc` |
| Process identity | `netusaged/src/identity.rs` | none | `resolve_pid` | `/proc`, `.desktop` files |
| Sampler | `netusaged/src/{sampler,counters}.rs` | `DeltaTracker.last`, `last_retention_ts` | `tick` | aggregator, store |
| Usage store | `netusage-store/src/{store,apps,samples,retention,aggregate,delete}.rs` | tables `apps`, `samples`, `daily` | register, insert, compact and purge, query, delete | SQLite, shared by processes |
| Periods | `netusage-store/src/period.rs` | none | bounds of today, week, month, last month | clock, time zone |
| Configuration | `netusage-store/src/config.rs`, `netusaged/src/configure.rs` | table `config` | first run, `config set`, load | store |
| `clear` | `netusaged/src/clear.rs` | the period previewed | preview, confirm, delete | store |
| Schema | `netusage-store/src/schema.rs` | `user_version` | migrate | store |
| Startup, preflight, degraded modes | `netusage-common/src/preflight/`, `netusaged/src/{main,check,degraded,privileges,cgroup}.rs` | none | decide to run, degrade or stop | kernel |
| IPC | `netusage-ipc/src/`, `netusaged/src/ipc_server.rs` | the socket file | handshake, totals, usage per application | its clients, store |
| Interface | `netusage-tui/src/{app,update,state,event,data,sort}.rs` | list, summary, selection, period, modes | keys, ticks, refresh, quit | store |
| Release check | `netusage-tui/src/release/` | cache file | look up, compare | network |
| Presentation, loading, packaging | `ui/`, `format.rs`, `loader.rs`, `cli.rs`, `build.rs` | none | pure input and output | |

### What is hard, and what makes each part correct

*Counters and aggregator.* The add to a map entry is a load and a store, so two
CPUs may overlap on one entry; the maps evict the entries of other sockets; the
daemon reads RX and then TX, entry by entry, while the kernel counts. Correct
means: no byte is ever credited twice; every loss is an eviction or an overlap;
the totals per application are the credits of their sockets, whatever each
socket resolved to when it was read.

*Attribution.* Three threads of control (the kernel's ring, the resolver and the
supervisor with backfill and pruning) fill and empty one map while processes
exec, exit and reuse pids. Correct means: no socket falls between the ring and
the enumeration; a socket has the name of a program of its creator's pid; a birth event is not renamed by the backfill; an idle socket
keeps its identity; the set of confirmed cookies does not outgrow the map.

*Sampler.* Each of several database accesses of a tick may fail after the tracker
has moved on, and the daemon may die anywhere. Correct means: nothing is
persisted twice, and all that was counted is persisted except what a failed tick
had taken.

*Store.* The daemon's retention, `clear` and `config set` run in different
processes over the same tables, and the configuration in use differs between
them. Correct means: every period shows what was inserted in it and not cleared;
compaction is invisible; the tables stay bounded; retries succeed in the end.

*Periods.* Local midnight may not exist or exist twice, and a billing day may be
past the end of a month. Correct means: all instants of a period see the same
period, and what the last month is now was the month then.

*Configuration and schema.* Any number of processes open the file, and each
checks before it acts: the version before the migration, the configuration before
the first run, the whole row before `config set` saves it. Correct means: the
version tells what tables there are; the row can always be used; a setting is lost
only by two processes that overlap or by a query that failed.

*Startup.* The daemon opens the database, then the socket, then asks what the
machine allows; it may die at each step and systemd starts it again. Three checks
(`--check`, `--check --json`, `--selftest-load`) and the interface judge the same
machine by other code. Correct means: a daemon measures only where all of them
passed, and what `--check --json` announces of a machine is what happens there; the
degraded mode measures where it is announced; a daemon that gives up has left a
database the interface can open; on a machine that allows it the service comes up.

*IPC.* One thread for each connection, and peers that stall, send garbage, do not
read or go. Correct means: an answer is to the request and of the present
database; nobody waits for ever for the sake of somebody else; no thread outlives
its peer; no query follows a handshake with another version.

*Interface.* A selection kept as an index over a list that changes, two queries
for one screen, loads that fail, a refresh that competes with keys, and a thread
that looks for releases. Correct means: the parts of the screen agree; the screen
follows the database under any keys; a release that is known is told.

## Modules

### Metering

`counters` holds both LRU maps, with 0 for no entry (a packet has a length, and
the daemon reads an absent entry as 0). An add of `maps.rs` is two steps:
`BeginAdd` (look-up) and `FinishAdd`, which is `StoreHit` (`*v += n`) or
`InsertMiss` (`insert`, which may evict any entries nobody is adding to, and
evicts enough of them). `Wake`, `ReadEntry`, `EndMap`, `AggregateOne` and
`EndSample` are the daemon's cycle: `read_counters` over RX then TX, then the
loop of `Aggregator::sample` under the lock of the cookie map, then
`prev.retain`. `Reassign` stands for whatever changes what a cookie resolves to;
`CookieMap` has the detail. `delivered`, `credited` and `lossy` are history.

### CookieMap

The processes and sockets of the machine, the ring, the resolver thread
(`TakeBirth`, `ResolveBirth`, `InsertBirth`), the start of the supervisor
(`Attach`, `DumpSockets` or `DumpFails`, `MapInodes`, `BackfillOne`,
`EndBackfill`) and its loop (`ReadCookie`, `EndRead`, `Prune`). The backfill and
the pruning hold the lock of the map, each as the code does. A socket is
`preexisting`, `announced`, or `silent`: accepted from a listener, which does not
run `sock_create`, or dropped by a full ring. `ran` is history: what ran under the
pid of a socket's creator since the socket exists.

### Sampler

`Sample` is the aggregator seen from outside. `TickRegisters` and `TickFails` are
the loop that registers applications and takes deltas, to its end or to the
application whose registration fails (in the order of `sort_by_total`); `Insert`
and `InsertFails` the transaction; `Start` and `Stop` the process.

### Ledger

What Sampler promises, without its totals, readings and batch: a counted byte is
`pending` until `Record` moves everything pending of every application into
`recorded`, or `GiveUp` drops everything pending of some. `KeepsPromise` in Sampler
instantiates it with `pending <- Pending`, the batch plus what the tracker has not
read, and `recorded <- persisted`. `Sample` is a `Count`, `Insert` a `Record`;
`TickRegisters` gives up the baselines, `TickFails` the deltas it had taken,
`InsertFails` and `Stop` everything.

### Periods

`period.rs`: an instant is a number of ticks, a time zone gives the offset of the
local clock at each instant, so that the clock may skip a local hour or repeat
it. `StartOfDay` takes the first hour that exists and the earliest instant that
shows it. Months are given by their first days, of any lengths; `CycleDate`
clamps the billing day.

### Retention

`samples` and `daily` of all applications, the daemon (`StartDaemon`,
`BeginTick`, `Insert`, `RetentionSelect`, `RetentionCommit`, `TickFails`,
`StopDaemon`) and the two commands (`AskClear`, `ConfirmClear`, `CancelClear`,
`SetConfig`). `RetentionSelect` is apart from `RetentionCommit` because the code
reads the old samples before it begins the transaction. `Shown` is
`usage_by_app`. A period is evaluated through the sets `Earlier` and `Within`, the
keys before and in each period: they are the bounds of `Periods`, tabulated.
`OldByDay` is what the `SELECT` adds up. What Periods asks of a calendar for the
results to hold (`DaysInOrder`, `WeeksFit`, `InReach`) is at its end.

### Settings

The database file (`version`, `tables`, and `row`, a `StoreConfig` or none) and the processes that open it:
daemons, `config set`, `config show` and commands that only open it, each at its
place in `pc`. `ReadVersion`, `NewerVersion`, `Migrate` and `MigrateLate` are
`migrate` of `schema.rs`, whose look at the version is outside its transaction;
`ConfigExists`, `FirstRun` and `FirstRunFallsBack` are `ensure_first_run_config`;
`LoadConfig` and `LoadFails` are `load_config`, which takes any error of its query
for an empty table; `SetConfig` and `SetRefused` are the end of `config set`, with
its bounds (`Kept`) and the validation of the zone. `Die` is a kill or an access
that fails. `expected`, `stale` and `disturbed` are history: what the finished
commands amount to one after another, who decides on a row that has changed, and
whether such a one has saved.

### Preflight

The checks of a machine and of a set of privileges, as operators. A machine has a
kernel version, cgroup v2 or not, BTF or not, and a release that is `plain`, `odd`
or `opaque`: two parsers read it, `ParseRelease` (`kernel.rs`, for the checks) and
`KernelVersion` (`privileges.rs`, for the daemon's privileges), and an `odd` one
only the first can read. The operators: `KernelCheck`, `CgroupCheck`, `BtfCheck`, `CapsCheck`
and `IsApt` (`--check`), `EnvReport` and `JsonApt` (`--check --json`), `NoteFrom`
(the interface), `EnsureMinimum` and `Decide` (the daemon), `ObjectLoads` (what the
kernel asks for to load the object: its real version, BTF and privileges).

### Startup

Extends Settings and Preflight. A daemon goes on to `RemoveOld` and `Bind` (or
`BindInVain`) of `ipc_server::spawn`, then `CheckPrivileges`, `CheckEnvironment`
and `LoadAndAttach`, each of which may end it. `path` is whose socket the file is
and `listening` who accepts: a second daemon takes the path of the first. `Restart`
is systemd, after which the runtime directory is empty.

`VerdictsAgree` says what each verdict is worth. To come up, a daemon needs a machine
that every check passes; to give up, one that fails the self test. `apt` of
`--check` and the exit code of `--check --json` promise no more than that: kernels from
4.10 to 5.7 are apt, and so is a machine without privileges. What holds both ways
is the promise of `per_app` and `caps_ok` (`Promised`), on a machine whose release
both parsers read; on an `odd` one the daemon refuses the three capabilities,
which the checks call enough. What is announced of the kernels from 4.10 to 5.7 is
`NoPerAppMeasures`, which does not hold (below).

### Tui

`state` is an `AppState`, its summary one of `Summaries`. The list is sorted by rank:
in each place the row that as many precede as there are places before. A turn of `run_loop` is `Loop` (the message of the release
thread, then a load if the connection is `loading`), the fetch (`FetchTotal`,
`FetchList`, `FetchFails`, `Explain`: two queries, between which the database may
change), the wait for a key (`Key` or `Timeout`, then the refresh if it is due) and
`EndTurn`. `Press` is `map_key` and `update`. What the screen shows is derived of
the state: `Panel`, `Highlighted`, `Detailed`. The release thread is `ReadCache`,
`Answered` or `Unanswered`, and `Tell`. `Change` is any other process that creates,
writes or locks the database.

### Ipc

`Spawn` and `Stop` are the daemon, `Accept` and `AcceptFails` its loop; a thread is
`ReadRequest` or `ReadFails`, `Handle`, `Write` or `WriteFails`. `up` and `down` are
the two directions of a connection, of a bounded number of frames; a frame is a
request, a part of one, or bad. `Connect`, `Ask`, `Receive` and `Disconnected` are
`client.rs`; strangers send and read whatever the socket lets them. A daemon may
come back in another version (`speaks`).

## Runs

| Run | Bounds | Shows | States, time |
|---|---|---|---|
| `MCMetering` | 2 CPUs, 2 cookies, 2 keys, maps of one entry, 4 packets | No byte twice; steady entries exact; totals are the credits; both inductive invariants | 1,545,000, 2–3 min |
| `MCCookieMap` | 1 socket, 2 pids, 2 programs, 4 process changes | No gap between ring and backfill; a socket has the name of a program of its creator's pid; a birth wins; idle sockets keep their name; `seen` within the map; a creator that stays is named whatever it execs | 304,000, 40 s |
| `MCCookieMap_prune` | 1 socket | *Violation:* a dead cookie may never be pruned | |
| `MCSampler` | 2 applications, 3 bytes each, 2 failures, 2 starts | Nothing persisted twice; exact unless a failed tick took it; every step is one of Ledger | 37,000, 5 s |
| `MCSampler_baseline` | no failure, one start | *Violation:* the first cycle of an application is not persisted | |
| `MCRetention` | 6 ticks (the clock is changed twice, the month twice), 2 billing days, 2 bytes, 1 failure, 1 command | Every period exact; instants of a period agree; compaction invisible; tables bounded; old samples are compacted in the end | 209,000, 100 s |
| `MCRetention_clear` | 8 ticks, one configuration | *Violation:* a clear is undone by a retention under way | |
| `MCRetention_config` | 8 ticks, two configurations | *Violation:* the daemon purges by a configuration that was replaced | |
| `MCStartup` | the service, a second daemon and a `config set`; 8 machines with their privileges; a new and a newer database; 3 requests; 1 fault | Schema and configuration usable; lost updates only by overlap; what the verdicts promise; a database is left; the service comes up | 453,000, 2 min |
| `MCStartup_degraded` | kernel 5.7, as root | *Violation:* the mode without applications does not measure | |
| `MCTui` | 2 applications, 2 contents, 1 change, 2 releases, 2 machines, refresh of one tick | The screen agrees with itself, follows the database, tells a known release | 367,000, 100 s |
| `MCIpc` | 1 client, 1 stranger, 2 versions, 2 contents and none, one frame each way | Answers are to the request; same version; nobody waits for ever; threads end | 165,000, 80 s |

The bounds are chosen so that what is hard happens. One entry per map makes
every second socket evict the first, and four packets are enough to evict a
socket, bring it back within one cycle and read it in the middle. In CookieMap
four process changes let a creator exec and exit and its pid be reused by a process
that execs, while another pid runs a program that could be mistaken for it. The
map keeps its cookies apart, and they meet only in the ring: with one socket it is
never full, but a socket that is dropped is from then on in the state of one that
was accepted. The theorems are of any number of sockets and any capacity. In
Sampler two failures let a retry fail. In the Retention runs a day is two ticks;
the clock skips half of one day and repeats half of another, months have one to
three days, and one billing day does not exist in the first month of the
behaviour, so that the six to eight ticks span a change of month, a change of the last
month, a compaction and a purge.

In Startup three processes are what the races need: two that migrate or configure
at once and a third that changes what they decided on; one fault at any place
gives a failed first save, a query that fails, a kill in the middle of the start
and an accept loop that ends. That two `config set` undo each other only by an overlap
is a case of the theorem `NothingElseLost`; the run has one. The machines stand on
both sides of 4.10 and 5.8, with releases that one parser or none can read and each
requirement missing; the requests hold an invalid zone and values out of range. In Tui the second application overtakes the
first and the list grows from one row to two, or the database appears, or becomes
unreadable, between any two steps; one change is enough to tear a fetch and one tick
to make a refresh due at any turn. In Ipc one frame of buffer makes every second
write wait, so that a stranger that does not read holds its thread; the client may
meet a daemon before, after and between two starts. Two contents tell an answer
from an earlier one; a stranger sends one of the two queries, as good as the other.

Every property of a passing run has a mutant in `PROJECT.json`: a plausible bug
in a mapped definition, written in the module as an operator whose comment
begins with `Fault:`, under which TLC finds the property violated. These
operators are not used by any specification. `ScreenAgrees`, a conjunction of three
parts, has a mutant for each part, and `VerdictsAgree` one for the verdict of `--check`
and one for what `--check --json` announces.

### What the violations mean

* `MCCookieMap_prune`: the supervisor confirms a cookie (`seen_in_ebpf`) from the
  counters, and after each pruning keeps the confirmation only of cookies that
  are in the map. A cookie that is counted before the resolver inserts it loses
  its confirmation, and if its entry is evicted before the next sample it is
  never pruned, though the comment says that what was sampled once and is gone
  is removed.
* `MCStartup_degraded`: `decide` answers `NoPerApp` for kernels before 5.8, and the daemon
  warns that it will measure the total of the system; `docs/kernel-matrix.md:26` says
  so of kernels from 4.10 to 5.7 as root. But the one object there is holds a ring
  buffer, which needs 5.8, and `LoadAndAttach` ends the daemon; the service is
  restarted for ever. `--check` calls the machine apt all along.
* `MCSampler_baseline`: `DeltaTracker` answers 0 for the first reading so as not to
  persist traffic from before the start, but the totals it reads begin at zero
  with the daemon: what is dropped is traffic of this run, once per application.
* `MCRetention_clear`: the `SELECT` of the rollup is not in the transaction. A
  `clear` that commits in between is undone when the rollup is written.
* `MCRetention_config`: the daemon loads the configuration at start only. After
  `config set` changes the billing day it purges rows that the interface shows.

Two limits that the code documents are in the models but are not findings: a
pid reused before its event is resolved names the wrong program, and two CPUs
that overlap on an entry lose one of the adds.

### Observations

Behaviour that the models show and that no line of the repository promises
otherwise, so that it is not a violation:

* A second daemon, started by hand on the same database, removes the socket file of
  the first, which goes on serving a socket nobody can reach (`RemoveOld`:
  `path` and `listening` disagree until the first is started again).
* `privileges.rs` takes a release it cannot parse for an old kernel, and refuses
  capabilities that are enough; `kernel.rs` may have parsed it.
* Two `config set` at once lose one of the changes; a first save that fails for
  another reason than the zone leaves `UTC`, and no later start looks again
  (`FirstRunFallsBack`).
* The daemon ignores `sample_interval_secs`: its loop sleeps a fixed interval.
* `Esc` with a detail that is hidden by the panel of a lost connection closes the
  detail first, and quits only when it is pressed again.
* The socket is served by one loop that ends at the first connection it cannot
  accept (`AcceptFails`); those that wait are disconnected and the daemon goes on
  without a socket.

## Fairness

* Metering states none: its run is of safety properties.
* CookieMap: the resolver polls its ring every `IDLE_POLL` and the supervisor loops;
  neither waits for the other but for the lock, which is held for one insertion
  pass or one pruning.
* Retention: the loop ticks after an error as after a success, and systemd starts a
  daemon that died. The clock is not fair: nothing is claimed if time stands still.
* Startup: a process that runs goes on until it ends (weak fairness of `Proceed`), the
  service is started, and `Restart=on-failure` with `RestartSec=2s`
  (`packaging/systemd/netusaged.service`) starts it again; its starts are
  more than two seconds apart, within systemd's default of five in ten seconds. Commands need not be run, and faults are
  bounded: a service that is killed for ever does not come up.
* Tui: `poll` waits no longer than until the next refresh, so the loop goes on
  whether or not a key comes: the fairness is of the loop with keys, not of any key. The
  request of the release thread has a timeout. Time passes.
* Ipc: each thread that is not blocked goes on, as does the client. Strangers, failures,
  starts and stops are owed nothing: the waits end without them.

## Proofs

Every safety invariant and every action property that a passing run checks is a
theorem. It holds for every value of the constants that satisfies the `ASSUME` of
the module, and four theorems of Retention have one more hypothesis, below. What
an invariant had to be strengthened by stands in the module, in a section "Why", or
in the proofs.

| Module | Theorems | Inductive invariant |
|---|---|---|
| `Metering_proofs` | types; `NoByteCountedTwice`, `SteadyIsExact`, `SteadyGrows`, `TotalsAreTheCredits`; `MachineIsTheSum` | `NothingAhead`, `SteadyInv` |
| `CookieMap_proofs` | types; `SeenInMap`, `BirthWins`, `NoSocketFallsThrough`, `IdleKeepIdentity`, `NamedByItsPid` | `Custody`, `Provenance` |
| `Sampler_proofs` | types; `NothingInvented`, `ExactUnlessDropped`; `KeepsPromise`, the refinement of Ledger | `Accounted`, `AllRead` |
| `Retention_proofs` | types; `TablesBounded`; with `CalendarInOrder`: `PeriodsExact`, `PeriodsAgree`, `RetentionInvisible`, `OnlyTheRaceBringsBack` | `Conserved`, `NothingMore`, `RollupCurrent`, `ClocksInOrder`, `SamplesAtInstants` |
| `Startup_proofs` | types; `SchemaAgrees`, `ConfigUsable`, `LostOnlyByOverlap`, `DiagnosisPossible`, `VerdictsAgree` | `Knowledge`, `DatabaseFirst`, `Found` |
| `Tui_proofs` | types; `ScreenAgrees`; `StaysUpToDate` | `TotalFetched`, `WaitsLoaded`, `SummaryDrawn`, `SentIsNews` |
| `Ipc_proofs` | types; `SameVersion`, `AnswersTheRequest`; `NoClientIsBlocked`, `GoneThreadsRunDown` | `OneMessage` |
| `SumTheorems` | lemmas about sums over finite sets | |

* *Metering.* That no byte is credited twice is not inductive: it depends on the
  reading in progress and on adds that have loaded and not stored. `NothingAhead`
  bounds the distance between any value an entry has or may get and what was
  credited of it, by what the next credit will take off: the previous reading, any
  value a reading may still find, and the reading just made. `SteadyGrows` says
  that the readings of an entry that met neither eviction nor overlap only grow.
  `TotalsAreTheCredits` is inductive once the sums can be reasoned about: a turn of
  the loop adds the same growth to one key and to one socket.
  `MachineIsTheSum` combines the two: all applications together have at most what
  was delivered, and, with nothing lost and no turn under way, exactly what was read.
* *CookieMap.* `Custody` says who holds the identity of a socket on its way (ring,
  resolver, enumeration) and that the creator it names is running while the socket
  is open. `Provenance` adds what the names are made from, also for sockets that were
  closed meanwhile: the pid of an event or of the scan is the creator's, and what it
  runs has run since the socket exists. `NamedByItsPid` follows.
* *Sampler.* `Accounted` says where the bytes of an application are in every state
  of a tick. For the refinement it gives the arithmetic of each step, and `AllRead`
  that a batch that is complete holds everything that is unread, so that an insert
  records all that is pending. `StepKeepsPromise` has one step per action.
* *Retention.* `PeriodsExact` is not inductive: a clear takes one period out of
  another, a change of the configuration changes what the periods are, and time
  moves them. `Conserved` says the same of every set of keys that holds days whole
  (`DaySets`): an instant is in it with the start of its day. Compaction moves
  bytes within a day, so it changes no such sum; a clear takes the same keys out of
  both sides; and `SpanIsWhole` shows that the bounds of `period.rs` make every
  period such a set. `RollupCurrent` says that what was added up before the
  transaction is still in the table. `PeriodsAgree` is about the calendar alone:
  `CyclesAscend`, `CycleOfDay`, `Weeks` and `LastMonthFirst` place the days of a
  cycle clamped to short months, `StartIsOfDay` and `BeforeTheDay` carry days over to
  instants through changes of the clock. `RetentionInvisible` adds that what is
  purged is before every period (`LastMonthFirst`, and `WeeksFit` for the week).
  `OnlyTheRaceBringsBack` is what the violation of `ClearedStaysCleared` leaves true:
  without a clear that met a rollup no period shows more than was inserted and not
  cleared (`NothingMore`), so that race is the only way back for a cleared byte. It
  has one more hypothesis, `SameTimezone`: the configurations differ in their billing
  day and not in their time zone, which would put old samples on other days.
* *Startup.* What a process decided on may have changed when it writes, so the
  invariant says what each place of each process relies on: `Knowledge` that a
  process that is not `stale` decided on the row there is and that what it saves can
  be used; `DatabaseFirst` that whoever is past the database has left it usable;
  `Found` what a daemon has learnt of the machine where it is. `VerdictsAgree`
  then follows from the checks compared as operators (`ChecksAgree`): where both
  parsers read the release, `Promised` is equivalent to all that the daemon asks for.
* *Tui.* `TotalFetched` ties the first query to the second: unless the database
  changed between them, the total is the one of the period and content of the list.
  `ListSum` shows that sorting keeps every row once (`Sorted`: the places are a
  bijection, for names are different) and that the applications left out have no
  bytes. `SummaryDrawn` holds where the loop waits and also where it comes back to
  draw without loading, which is what keeps the selection within the list.
  `StaysUpToDate` is the safety half of `FollowsDatabase`: a screen that shows the
  database goes on showing it while the database stays as it is. That it comes to
  show it is left to fairness.
* *Ipc.* `OneMessage` says where the one message of a waiting client is: not read,
  handled, to be written, on its way back, or gone with the connection; an answer in
  any of these places is due. Without it nothing excludes an answer that is left
  of an earlier request. From it follows that a client and its thread never wait for
  each other (`NoClientIsBlocked`): whatever a client waits for, the client, `serve`
  or its own thread can go on without any stranger. `GoneThreadsRunDown` gives a
  thread whose peer has gone three steps at most (`StepsLeft`), during which the
  peer cannot come back (`BacklogIsServed`: who waits to be accepted has no thread).
  With these, `NobodyWaitsForEver` and `ThreadsEnd` leave only fairness to TLC.

Sums over sets (`SumFunctionOnSet`) are recursive functions over sets, which the
provers do not expand. `SumTheorems` derives what is needed (a set without one of
its elements, an update, a sum of two functions, a split, a renaming, a grouping)
from the definition by taking a smallest finite set that is a counterexample.
That needs the summed sets to be finite: `IsFiniteSet(Apps)` and the like
are assumptions of the modules.

`CalendarInOrder` is the hypothesis of `PeriodsExact`, `PeriodsAgree`,
`RetentionInvisible` and `OnlyTheRaceBringsBack`; `MCRetention` has TLC evaluate it for its calendar, which
skips and repeats hours. It says three things of a calendar. `DaysInOrder`: a
change of the clock does not take the local date back. Changes at midnight or later
qualify, also those of zones that go from 24:00 to 23:00; one from after midnight to
before it (`America/St_Johns` until 2011, at 00:01) does not, and there the theorem
would be false: the instants shown twice are samples of one day and rows of another.
`WeeksFit`: a month has at least six days, if a week has seven. `InReach`: there
are months and days enough around each instant for its periods to have bounds.

Model-checked only: the liveness properties (`AnnouncedIsNamed`, `StaleSamplesGo`,
`ComesUp`, `FollowsDatabase`, `KnownReleaseTold`, `NobodyWaitsForEver`,
`ThreadsEnd`), which are out of the prover's reach, and of course the violations.

## Assumptions and abstractions

* A packet is its length; header parsing is left out. The counters do not wrap:
  they are 64 bits wide.
* A socket has one holder, and its exit closes it. Descriptors passed to other
  processes are left out. The daemon has the capabilities to see all of `/proc`.
* A transaction is atomic and a crash is of the process, not of the power
  (`synchronous=NORMAL` may lose the last transactions with the power).
* Upload and download are one byte count in Sampler and Retention: the code treats
  both columns alike.
* A request or an answer of the IPC is delivered whole or in part and in order: it is
  a stream socket. A client that connects while nobody accepts is refused; one in
  the backlog when the daemon ends is disconnected.
* A release is a number, and a cached tag is fresh or not (it does not age within a
  session); GitHub's latest release does not go back below one that is known.
* What the terminal draws at other instants than the wait for a key is not modelled:
  the loop draws once per turn.
* The clock only advances. `read_counters` returning an error ends the daemon,
  which is `Stop`.
* The limitation "sockets preexistentes" of `docs/app-attribution.md` and of the
  header of `resolver.rs` predates the backfill; the model follows the code.
* Sockets that no event announces (accepted, dropped by a full ring, cut off the
  enumeration) have no way to a name, and `NoSocketFallsThrough` exempts them. That their
  bytes are counted, under `SYSTEM_OTHER`, is part of `TotalsAreTheCredits`, which says
  that no byte is lost or doubled whatever a socket resolves to, and not that it
  goes to the right application: that is a matter of the names, in CookieMap.
* An entry of a map that an add is under way on is not evicted meanwhile.

## Not modelled

* Process identity beyond the look-up of what a pid runs: how a name is made of an
  executable, a script of a command line or a `.desktop` file (`identity.rs`) is text
  processing without state but for an index that is built once.
* Drawing, colours and formats (`ui/`, `format.rs`, `vpn.rs`), the tables of `report`
  and `monitor`, the parsing of arguments: output of values computed elsewhere.
* The parsing of packets, and of sock_diag messages beyond where they end.
* Build scripts and packages.

## Plan

1. *Done:* all modules, runs and the refinement of Ledger by Sampler; every safety
   invariant and action property of the passing runs as a theorem.
2. *Done:* the safety halves of `FollowsDatabase`, `NobodyWaitsForEver`, `ThreadsEnd`
   and (with `TablesBounded`) `StaleSamplesGo`; what the violation of
   `ClearedStaysCleared` leaves true.
3. Next: what the other violations leave true: which dead cookies a pruning leaves in
   the map (those whose identity came after their last sample), which takes a history
   of the samples each identity was in; and the safety half of `AnnouncedIsNamed`.
