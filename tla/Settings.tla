------------------------------ MODULE Settings ------------------------------
(***************************************************************************)
(* The database file as the processes that open it for writing find it:    *)
(* the schema and its migration (schema.rs), the one row of the table      *)
(* config (config.rs), the configuration of the first run and              *)
(* `netusaged config` (configure.rs).                                      *)
(*                                                                         *)
(* The daemon, `config set`, `config show` and the commands that only open *)
(* the database (report, clear) are processes of their own: SQLite makes a *)
(* statement or a transaction atomic, and nothing holds between two.       *)
(***************************************************************************)
EXTENDS Naturals

CONSTANTS
  Openers,    \* processes that open the database for writing
  Job,        \* what each is: "run", "set", "show" or "report"
  Requests,   \* what `config set` may be asked: some fields and their values
  Names,      \* what a time zone may be called
  Zones,      \* the names that are IANA's
  Detected,   \* what detect_local_timezone may answer: a name, or None
  Versions,   \* schema versions the database may have at the beginning
  None,       \* no configuration, no name
  MaxFaults   \* bound: processes killed and accesses that fail

\* MIGRATIONS.len()
Target == 1

\* StoreConfig, and its default.
StoreConfig ==
  [sample_interval_secs : Nat, cycle_start_day : Nat,
   week_start : {"Monday", "Sunday"}, timezone : Names,
   fine_retention_days : Nat]

Default == [sample_interval_secs |-> 2, cycle_start_day |-> 1,
            week_start |-> "Monday", timezone |-> "UTC",
            fine_retention_days |-> 14]

\* A request is some fields of a configuration.
ASSUME SettingsAssumption ==
  /\ Job \in [Openers -> {"run", "set", "show", "report"}]
  /\ \A r \in Requests :
       /\ DOMAIN r \subseteq DOMAIN Default
       /\ [f \in DOMAIN Default |-> IF f \in DOMAIN r THEN r[f] ELSE Default[f]]
            \in StoreConfig
  /\ "UTC" \in Zones /\ Zones \subseteq Names
  /\ None \notin Names /\ None \notin StoreConfig
  /\ Detected \subseteq Names \cup {None}
  /\ Versions \subseteq Nat
  /\ MaxFaults \in Nat

VARIABLES
  version,    \* PRAGMA user_version
  tables,     \* the tables exist
  row,        \* the configuration in the table config, or None
  local,      \* the name the system gives its time zone, or None
  pc,         \* where each process is
  cfg,        \* the configuration a `config set` has in memory, or None
  request,    \* what each `config set` was asked
  faults,     \* faults so far (for the bound)
  expected,   \* history: what the commands that finished amount to, or None
  stale,      \* history: processes that know less than the table
  disturbed   \* history: one of them saved

file == <<version, tables, row>>
settingsHistory == <<expected, stale, disturbed>>
settingsVars == <<file, local, pc, cfg, request, faults, settingsHistory>>

SettingsInit ==
  /\ version \in Versions
  /\ tables = (version # 0)
  /\ row = IF version > Target THEN Default ELSE None
  /\ local \in Detected
  /\ pc = [p \in Openers |-> "off"]
  /\ cfg = [p \in Openers |-> None]
  /\ request \in [{p \in Openers : Job[p] = "set"} -> Requests]
  /\ faults = 0
  /\ expected = row /\ stale = {} /\ disturbed = FALSE

Goto(p, place) == pc' = [pc EXCEPT ![p] = place]

\* The process returns an error: main prints it and exits with code 1.
Exit(p, place) ==
  /\ Goto(p, place)
  /\ cfg' = [cfg EXCEPT ![p] = None]
  /\ stale' = stale \ {p}

-----------------------------------------------------------------------------
(* Store::open                                                             *)

Start(p) ==
  /\ pc[p] = "off"
  /\ Goto(p, "open")
  /\ UNCHANGED <<file, local, cfg, request, faults, settingsHistory>>

\* Fault: the configuration is left to the command.
SkipsFirstRun(p) == IF Job[p] = "run" THEN "socket" ELSE "exists"

\* report and clear have no business with the configuration.
Opened(p) == IF Job[p] = "report" THEN "done" ELSE "exists"

\* migrate reads the version, before it begins a transaction.
ReadVersion(p) ==
  /\ pc[p] = "open"
  /\ version <= Target
  /\ Goto(p, IF version = Target THEN Opened(p) ELSE "migrate")
  /\ UNCHANGED <<file, local, cfg, request, faults, settingsHistory>>

NewerVersion(p) ==
  /\ pc[p] = "open"
  /\ version > Target
  /\ Exit(p, "failed")
  /\ UNCHANGED <<file, local, request, faults, expected, disturbed>>

\* Fault: the new version is not written.
LeavesVersion == version

\* The version the migration leaves.
Migrated == Target

\* One transaction creates the tables and writes the version.
Migrate(p) ==
  /\ pc[p] = "migrate"
  /\ ~tables
  /\ tables' = TRUE
  /\ version' = Migrated
  /\ Goto(p, Opened(p))
  /\ UNCHANGED <<row, local, cfg, request, faults, settingsHistory>>

\* Another process migrated meanwhile: CREATE TABLE fails.
MigrateLate(p) ==
  /\ pc[p] = "migrate"
  /\ tables
  /\ Exit(p, "failed")
  /\ UNCHANGED <<file, local, request, faults, expected, disturbed>>

-----------------------------------------------------------------------------
(* The row.                                                                *)

\* load_config and save_config refuse a name that is not IANA's.
ValidZone(c) == c.timezone \in Zones

\* Those that have read the row and have yet to save what they make of it.
Deciding == {p \in Openers : pc[p] \in {"first run", "save"}}

\* save_config: what one process writes, the others do not know.
Save(p, c, asked) ==
  /\ row' = c
  /\ expected' = asked
  /\ disturbed' = (disturbed \/ p \in stale)
  /\ stale' = (stale \cup Deciding) \ {p}

\* config_exists
ConfigExists(p) ==
  /\ pc[p] = "exists"
  /\ Goto(p, IF row # None THEN "load" ELSE "first run")
  /\ stale' = stale \ {p}
  /\ UNCHANGED <<file, local, cfg, request, faults, expected, disturbed>>

\* The configuration of the first run: the detected zone if it is valid.
FirstConfig ==
  IF local \in Zones THEN [Default EXCEPT !.timezone = local] ELSE Default

\* ensure_first_run_config saves it.
FirstRun(p) ==
  /\ pc[p] = "first run"
  /\ Save(p, FirstConfig, IF expected = None THEN FirstConfig ELSE expected)
  /\ Goto(p, "load")
  /\ UNCHANGED <<version, tables, local, cfg, request, faults>>

\* The first attempt fails for another reason than the zone, and the default is
\* saved all the same.
FirstRunFallsBack(p) ==
  /\ pc[p] = "first run"
  /\ local \in Zones
  /\ faults < MaxFaults
  /\ faults' = faults + 1
  /\ Save(p, Default, IF expected = None THEN Default ELSE expected)
  /\ Goto(p, "load")
  /\ UNCHANGED <<version, tables, local, cfg, request>>

\* What the processes do once they have the configuration.
Loaded(p) ==
  CASE Job[p] = "run" -> "socket"
    [] Job[p] = "set" -> "save"
    [] Job[p] = "show" -> "done"

\* Fault: a command starts from the defaults.
KeepsDefault(p, c) ==
  cfg' = [cfg EXCEPT ![p] = IF Job[p] = "set" THEN Default ELSE None]

\* What is shown is gone; what the daemon does with its own is in Retention.
Keep(p, c) == cfg' = [cfg EXCEPT ![p] = IF Job[p] = "set" THEN c ELSE None]

\* load_config: the row, or the default if there is none or the query fails.
LoadConfig(p) ==
  /\ pc[p] = "load"
  /\ LET c == IF row = None THEN Default ELSE row IN
     /\ ValidZone(c)
     /\ Keep(p, c)
  /\ Goto(p, Loaded(p))
  /\ stale' = stale \ {p}
  /\ UNCHANGED <<file, local, request, faults, expected, disturbed>>

LoadFails(p) ==
  /\ pc[p] = "load"
  /\ faults < MaxFaults
  /\ faults' = faults + 1
  /\ Keep(p, Default)
  /\ Goto(p, Loaded(p))
  /\ stale' = IF Job[p] = "set" THEN stale \cup {p} ELSE stale
  /\ UNCHANGED <<file, local, request, expected, disturbed>>

-----------------------------------------------------------------------------
(* config set                                                              *)

Between(x, low, high) == IF x < low THEN low ELSE IF x > high THEN high ELSE x

\* Fault: the day is taken as it is given.
AsGiven(field, value) == value

\* What is kept of a value that was given.
Kept(field, value) ==
  CASE field = "cycle_start_day" -> Between(value, 1, 28)
    [] field = "sample_interval_secs" -> IF value < 1 THEN 1 ELSE value
    [] OTHER -> value

\* Fault: what is not given is lost.
OnlyGiven(c, given) == [f \in DOMAIN given |-> Kept(f, given[f])]

\* The changes of a request to a configuration.
Change(c, given) ==
  [f \in DOMAIN c |-> IF f \in DOMAIN given THEN Kept(f, given[f]) ELSE c[f]]

\* The whole configuration is saved.
SetConfig(p) ==
  /\ pc[p] = "save"
  /\ LET c == Change(cfg[p], request[p]) IN
     /\ ValidZone(c)
     /\ Save(p, c, IF expected = None THEN c ELSE Change(expected, request[p]))
  /\ Goto(p, "done")
  /\ cfg' = [cfg EXCEPT ![p] = None]
  /\ UNCHANGED <<version, tables, local, request, faults>>

SetRefused(p) ==
  /\ pc[p] = "save"
  /\ ~ValidZone(Change(cfg[p], request[p]))
  /\ Exit(p, "failed")
  /\ UNCHANGED <<file, local, request, faults, expected, disturbed>>

-----------------------------------------------------------------------------
\* The process is killed, or an access to the database fails.  A transaction in
\* progress is rolled back.
Die(p) ==
  /\ faults < MaxFaults
  /\ faults' = faults + 1
  /\ Exit(p, "failed")
  /\ UNCHANGED <<file, local, request, expected, disturbed>>

\* What a process does by itself once it runs, until it has its configuration.
SettingsStep(p) ==
  \/ ReadVersion(p) \/ NewerVersion(p) \/ Migrate(p) \/ MigrateLate(p)
  \/ ConfigExists(p) \/ FirstRun(p) \/ LoadConfig(p)
  \/ SetConfig(p) \/ SetRefused(p)

SettingsFault(p) == FirstRunFallsBack(p) \/ LoadFails(p)

-----------------------------------------------------------------------------
(* Properties.                                                             *)

\* schema.rs: the version tells what tables there are, whoever migrates, fails
\* or dies; no process gets past the opening of a database without its tables.
SchemaAgrees ==
  /\ tables <=> version # 0
  /\ \A p \in Openers :
       pc[p] \in {"exists", "first run", "load", "save"} =>
         version = Target

\* What the calendar and the sampler rely on: a billing day every month has, an
\* interval that is not zero and a zone that can be resolved (config.rs:41,
\* configure.rs:87).
Usable(c) ==
  /\ c.cycle_start_day \in 1 .. 28
  /\ c.sample_interval_secs > 0
  /\ ValidZone(c)

\* Whoever saves it and whatever was asked, the row is one they can use.
ConfigUsable == row # None => Usable(row)

\* Only two processes that overlap, or a query that fails, lose a setting:
\* otherwise the row is what the commands that finished amount to, one after
\* another.
LostOnlyByOverlap == ~disturbed => row = expected

-----------------------------------------------------------------------------
(* Why: what a process relies on at each place.                            *)

Knowledge ==
  \A p \in Openers :
    /\ pc[p] \in {"exists", "first run", "load"} => Job[p] # "report"
    /\ pc[p] \in {"load", "save"} => row # None
    /\ pc[p] = "save" => Job[p] = "set" /\ cfg[p] # None
    /\ cfg[p] # None => Usable(cfg[p])
    /\ p \notin stale => /\ pc[p] = "first run" => row = None
                         /\ pc[p] = "save" => cfg[p] = row
=============================================================================
