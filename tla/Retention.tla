----------------------------- MODULE Retention -----------------------------
(***************************************************************************)
(* The usage tables and who changes them.                                  *)
(*                                                                         *)
(* The daemon inserts fine samples and, once a day, compacts the old ones  *)
(* into one row per application and local day and purges what no period of *)
(* the interface reaches (retention.rs).  `netusaged clear` deletes the    *)
(* rows of a period (clear.rs, delete.rs) and `netusaged config set`       *)
(* changes the configuration that says where periods begin (configure.rs); *)
(* both run in processes of their own while the daemon works.  The         *)
(* interface adds up both tables over a period (aggregate.rs).             *)
(*                                                                         *)
(* Time is counted in ticks; Periods says what they make.                  *)
(***************************************************************************)
EXTENDS Periods, FiniteSets, Functions

CONSTANTS
  Apps,         \* rows of the table apps
  Now0,         \* when the behaviour begins
  MaxNow,       \* bound: when it ends
  MaxBytes,     \* bound: bytes inserted in a behaviour
  MaxFailures,  \* bound: failed transactions and crashes in a behaviour
  MaxCommands   \* bound: clear and config commands in a behaviour

ASSUME RetentionAssumption ==
  /\ Now0 \in Nat /\ MaxNow \in Nat /\ MaxNow >= Now0
  /\ Now0 .. MaxNow \subseteq Instants
  /\ IsFiniteSet(Apps) /\ IsFiniteSet(Configs)
  /\ MaxBytes \in Nat /\ MaxFailures \in Nat /\ MaxCommands \in Nat

Times == Now0 .. MaxNow

VARIABLES
  now,       \* the clock
  config,    \* table config
  samples,   \* table samples: bytes by application and instant, 0 for no row
  daily,     \* table daily: bytes by application and start of day
  pc,        \* what the daemon is doing
  cfg,       \* Sampler.config
  lastRet,   \* Sampler.last_retention_ts
  tickNow,   \* the instant of the tick in progress
  rollup,    \* old samples added up in memory, by application and start of day
  asked,     \* the clear command that waits for its confirmation (at most one)
  failures,  \* failed transactions and crashes so far (for the bound)
  commands,  \* commands so far (for the bound)
  truth,     \* history: bytes inserted and not cleared, at their own instant
  purged,    \* history: the keys that were purged
  raced      \* history: a clear ran while a rollup was in memory

tables == <<samples, daily>>
daemon == <<pc, cfg, lastRet, tickNow, rollup>>
bounds == <<failures, commands>>
history == <<truth, purged, raced>>
vars == <<now, config, tables, daemon, asked, bounds, history>>

\* What a row can be keyed with: an instant, or the start of its day.
DayStarts == {<<c, t, DayStart(c, t)>> : c \in Configs, t \in Times}
Keys == Times \cup {s[3] : s \in DayStarts}
Nothing == [a \in Apps |-> [t \in Keys |-> 0]]

TypeOK ==
  /\ now \in Times
  /\ config \in Configs
  /\ samples \in [Apps -> [Keys -> Nat]]
  /\ daily \in [Apps -> [Keys -> Nat]]
  /\ pc \in {"down", "idle", "insert", "select", "commit"}
  /\ cfg \in Configs
  /\ lastRet \in {0} \cup Times
  /\ tickNow \in Times
  /\ rollup \in [Apps -> [Keys -> Nat]]
  /\ asked \subseteq Periods \X Times /\ Cardinality(asked) <= 1
  /\ failures \in 0 .. MaxFailures
  /\ commands \in 0 .. MaxCommands
  /\ truth \in [Apps -> [Keys -> Nat]]
  /\ purged \subseteq Keys
  /\ raced \in BOOLEAN

Init ==
  /\ now = Now0
  /\ config \in Configs
  /\ samples = Nothing /\ daily = Nothing
  /\ pc = "down" /\ cfg = config /\ lastRet = 0 /\ tickNow = Now0
  /\ rollup = Nothing
  /\ asked = {}
  /\ failures = 0 /\ commands = 0
  /\ truth = Nothing /\ purged = {} /\ raced = FALSE

-----------------------------------------------------------------------------
(* aggregate.rs: what the interface shows.                                 *)

\* The keys of the rows before each period, and in it, seen at each instant.
Earlier ==
  UNION {{<<p, c, t, k>> : k \in {k \in Keys : k < StartOf(p, c, t)}} :
         p \in Periods, c \in Configs, t \in Times}
Within ==
  (UNION {{<<p, c, t, k>> : k \in {k \in Keys : k < EndOf(p, c, t)}} :
          p \in Periods, c \in Configs, t \in Times}) \ Earlier

Span(p, c, t) == {k \in Keys : <<p, c, t, k>> \in Within}

Total(table, a, S) ==
  SumFunctionOnSet(table[a], {t \in S : table[a][t] # 0})

\* usage_by_app: both tables over the period.
Shown(p, a) ==
  LET rows == Span(p, config, now)
  IN Total(samples, a, rows) + Total(daily, a, rows)

-----------------------------------------------------------------------------
(* The daemon.                                                             *)

\* main.rs: the configuration is loaded once, and no retention has run.
StartDaemon ==
  /\ pc = "down"
  /\ pc' = "idle"
  /\ cfg' = config
  /\ lastRet' = 0
  /\ UNCHANGED <<now, config, tables, tickNow, rollup, asked, bounds, history>>

\* The daemon stops between two transactions, or in one, which is rolled back.
StopDaemon ==
  /\ pc # "down"
  /\ failures < MaxFailures
  /\ failures' = failures + 1
  /\ pc' = "down"
  /\ lastRet' = 0 /\ tickNow' = Now0 /\ rollup' = Nothing
  /\ UNCHANGED <<now, config, tables, cfg, asked, commands, history>>

\* Sampler.tick reads the clock once.
BeginTick ==
  /\ pc = "idle"
  /\ pc' = "insert"
  /\ tickNow' = now
  /\ UNCHANGED <<now, config, tables, cfg, lastRet, rollup, asked, bounds,
                 history>>

\* RETENTION_INTERVAL_SECS: 24 hours.
RetentionDue == tickNow - lastRet >= Day

\* The tick returns; its clock reading is gone.
EndTick == pc' = "idle" /\ tickNow' = Now0

\* insert_samples: rows of the same instant add up.
Insert(bytes) ==
  /\ pc = "insert"
  /\ SumFunction([b \in Apps |-> Total(truth, b, Keys)])
       + SumFunction(bytes) <= MaxBytes
  /\ samples' = [a \in Apps |-> [samples[a] EXCEPT ![tickNow] = @ + bytes[a]]]
  /\ truth' = [a \in Apps |-> [truth[a] EXCEPT ![tickNow] = @ + bytes[a]]]
  /\ IF RetentionDue THEN pc' = "select" /\ UNCHANGED tickNow ELSE EndTick
  /\ UNCHANGED <<now, config, daily, cfg, lastRet, rollup, asked, bounds,
                 purged, raced>>

\* run_retention: samples before the cutoff are compacted, and nothing that the
\* last month or a later period shows is purged.
FineCutoff == tickNow - cfg.fine * Day

\* Fault: the current month only is kept.
PurgesLastMonth(k) == <<"month", cfg, tickNow, k>> \in Earlier

Purges(k) == <<"last month", cfg, tickNow, k>> \in Earlier

\* The samples before the cutoff, by the day they are to be compacted into.
OldByDay ==
  LET old == {t \in Times : t < FineCutoff}
  IN [a \in Apps |-> [d \in Keys |->
       Total(samples, a, {t \in old : <<cfg, t, d>> \in DayStarts})]]

\* The SELECT of the samples, outside the transaction.
RetentionSelect ==
  /\ pc = "select"
  /\ pc' = "commit"
  /\ rollup' = OldByDay
  /\ UNCHANGED <<now, config, tables, cfg, lastRet, tickNow, asked, bounds,
                 history>>

\* Fault: the samples that were compacted stay.
KeepsCompacted(t) == Purges(t)

\* DELETE FROM samples: what was compacted, and what is not shown.
Deleted(t) == t < FineCutoff \/ Purges(t)

\* The transaction.
RetentionCommit ==
  /\ pc = "commit"
  /\ EndTick
  /\ samples' = [a \in Apps |-> [t \in Keys |->
                  IF Deleted(t) THEN 0 ELSE samples[a][t]]]
  /\ daily' = [a \in Apps |-> [d \in Keys |->
                IF Purges(d) THEN 0 ELSE daily[a][d] + rollup[a][d]]]
  /\ purged' = purged \cup {k \in Keys : Purges(k)}
  /\ lastRet' = tickNow
  /\ rollup' = Nothing
  /\ UNCHANGED <<now, config, cfg, asked, bounds, truth, raced>>

\* Fault: the attempt counts as a retention.
AttemptCounts == tickNow

\* Fault: the clock is set back for an early retry.
SetBack == tickNow - Day

\* The instant of the last retention after a failed tick.
LastAfterFailure == lastRet

\* An access to the database fails: tick returns the error, with nothing of the
\* step in the database, and the loop goes on.
TickFails ==
  /\ pc \in {"insert", "select", "commit"}
  /\ failures < MaxFailures
  /\ failures' = failures + 1
  /\ EndTick
  /\ lastRet' = LastAfterFailure
  /\ rollup' = Nothing
  /\ UNCHANGED <<now, config, tables, cfg, asked, commands, history>>

Daemon ==
  \/ StartDaemon
  \/ BeginTick
  \/ \E bytes \in [Apps -> 0 .. 1] : Insert(bytes)
  \/ RetentionSelect
  \/ RetentionCommit
  \/ TickFails

-----------------------------------------------------------------------------
(* The commands.                                                           *)

\* clear::run reads the clock, previews the period and asks.
AskClear(p) ==
  /\ asked = {}
  /\ commands < MaxCommands
  /\ commands' = commands + 1
  /\ asked' = {<<p, now>>}
  /\ UNCHANGED <<now, config, tables, daemon, failures, history>>

\* What is left of a table.
Without(table, a, S) == [t \in Keys |-> IF t \in S THEN 0 ELSE table[a][t]]

\* delete_period: the rows of the period asked for, under the configuration of
\* now, in one transaction.
ConfirmClear ==
  \E q \in asked :
    LET S == Span(q[1], config, q[2]) IN
    /\ asked' = {}
    /\ samples' = [a \in Apps |-> Without(samples, a, S)]
    /\ daily' = [a \in Apps |-> Without(daily, a, S)]
    /\ truth' = [a \in Apps |-> Without(truth, a, S)]
    /\ raced' = (raced \/ pc = "commit")
    /\ UNCHANGED <<now, config, daemon, bounds, purged>>

CancelClear ==
  /\ asked # {}
  /\ asked' = {}
  /\ UNCHANGED <<now, config, tables, daemon, bounds, history>>

\* config set: the daemon keeps the configuration it loaded.
SetConfig(c) ==
  /\ c # config
  /\ commands < MaxCommands
  /\ commands' = commands + 1
  /\ config' = c
  /\ UNCHANGED <<now, tables, daemon, asked, failures, history>>

PassTime ==
  /\ now < MaxNow
  /\ now' = now + 1
  /\ UNCHANGED <<config, tables, daemon, asked, bounds, history>>

Next ==
  \/ Daemon
  \/ StopDaemon
  \/ \E p \in Periods : AskClear(p)
  \/ ConfirmClear
  \/ CancelClear
  \/ \E c \in Configs : SetConfig(c)
  \/ PassTime

Spec == Init /\ [][Next]_vars

\* The loop never stops by itself and systemd starts the daemon again.
FairSpec == Spec /\ WF_vars(Daemon)

-----------------------------------------------------------------------------
(* Why the tables keep what they promise: the inductive invariant.         *)

\* What the calendar must be for the periods to be exact.
CalendarInOrder ==
  /\ DaysInOrder
  /\ WeeksFit
  /\ \A c \in Configs, t \in Times : InReach(c, t)

\* The readings of the clock follow each other.
ClocksInOrder ==
  /\ lastRet <= now
  /\ pc \in {"insert", "select", "commit"} => lastRet <= tickNow /\ tickNow <= now

\* A sample has an instant of its own; only a row of daily has the start of a
\* day before the first instant.
SamplesAtInstants ==
  \A a \in Apps, k \in Keys \ Times : samples[a][k] = 0 /\ truth[a][k] = 0

\* What the daemon added up is still in the table when it commits, unless a
\* clear came between.
RollupCurrent == pc = "commit" /\ ~raced => rollup = OldByDay

\* The sets of keys that hold a day whole: an instant with the start of its day.
DaySets == {S \in SUBSET Keys : \A s \in DayStarts : s[2] \in S <=> s[3] \in S}

\* In such a set the two tables hold together what was inserted and not cleared.
\* This is PeriodsExact for every set a period could be; of the periods alone it
\* would not be inductive, for a clear takes one period out of another.
Conserved ==
  ~raced =>
    \A S \in DaySets, a \in Apps :
      S \cap purged = {} =>
        Total(samples, a, S) + Total(daily, a, S) = Total(truth, a, S)

\* And in any other, purged or not, no more than that.
NothingMore ==
  ~raced =>
    \A S \in DaySets, a \in Apps :
      Total(samples, a, S) + Total(daily, a, S) <= Total(truth, a, S)

-----------------------------------------------------------------------------
(* Properties.                                                             *)

SameTimezone == \A c, d \in Configs : c.tz = d.tz

\* aggregate.rs: the two tables together "para no perder ni duplicar tras la
\* compactación".  Whatever fails, restarts or is reconfigured, a period shows
\* exactly what was inserted in it and not cleared, unless the period was purged
\* or a clear met a rollup (see ClearedStaysCleared).
PeriodsExact ==
  ~raced /\ SameTimezone =>
    \A p \in Periods, a \in Apps :
      \/ Shown(p, a) = Total(truth, a, Span(p, config, now))
      \/ Span(p, config, now) \cap purged # {}

\* period.rs: the ranges are "deterministas y de duración correcta".  Two
\* instants of a period see the same period, through changes of the clock and
\* short months, and what the last month is now was the month then.
PeriodsAgree ==
  \A t \in Times :
    /\ t \in Span("today", config, now) <=>
         LocalDay(config, t) = LocalDay(config, now)
    /\ \A p \in {"week", "month"} :
         t \in Span(p, config, now) => Span(p, config, t) = Span(p, config, now)
    /\ t \in Span("last month", config, now) =>
         Span("month", config, t) = Span("last month", config, now)

Compacts == pc = "commit" /\ lastRet' # lastRet

\* A retention changes nothing the interface shows, if the daemon has the
\* configuration the interface has.
RetentionInvisible ==
  [][Compacts /\ cfg = config /\ ~raced =>
       \A p \in Periods, a \in Apps : Shown(p, a)' = Shown(p, a)]_vars

\* retention.rs: the tables stay bounded.  After a retention no sample is left
\* that it should have compacted, and no day that it should have purged.
TablesBounded ==
  pc # "down" /\ lastRet # 0 =>
    \A a \in Apps, t \in Keys :
      /\ samples[a][t] = 0 \/ t >= lastRet - cfg.fine * Day
      /\ daily[a][t] = 0 \/ <<"last month", cfg, lastRet, t>> \notin Earlier

SomeStale ==
  \E a \in Apps, t \in Keys :
    samples[a][t] > 0 /\ t < now - cfg.fine * Day - Day

\* Samples a day older than the retention are compacted in the end, though the
\* retention fails and is retried, or the daemon stops.
StaleSamplesGo == SomeStale ~> (~SomeStale \/ pc = "down")

\* retention.rs:5: "Todo en una transacción".  Nothing reappears that a clear
\* deleted.
ClearedStaysCleared ==
  \A p \in Periods, a \in Apps :
    Shown(p, a) <= Total(truth, a, Span(p, config, now))

\* README.md:99-100: the daemon keeps "lo que la interfaz muestra: el mes en curso
\* y el mes anterior".
RetentionKeepsShown ==
  [][Compacts /\ ~raced =>
       \A p \in Periods, a \in Apps : Shown(p, a)' = Shown(p, a)]_vars
=============================================================================
