--------------------------- MODULE Startup_proofs ---------------------------
(***************************************************************************)
(* What starting leaves behind, for any number of daemons and commands on  *)
(* one database, whatever they are asked, whatever the machine and however *)
(* often they fail or die.                                                 *)
(***************************************************************************)
EXTENDS Startup, TLAPS

-----------------------------------------------------------------------------
(* Configurations.                                                         *)

\* What the first run saves is a usable configuration.
LEMMA FirstIsUsable ==
  ASSUME local \in Detected
  PROVE  /\ Default \in StoreConfig /\ Usable(Default)
         /\ FirstConfig \in StoreConfig /\ Usable(FirstConfig)
<1> USE SettingsAssumption DEF StoreConfig, Default, Usable, ValidZone
<1>1. Default \in StoreConfig /\ Usable(Default)
  OBVIOUS
<1>2. CASE local \in Zones
  <2>1. local \in Names
    BY <1>2
  <2> QED BY <1>1, <1>2, <2>1 DEF FirstConfig
<1>3. CASE local \notin Zones
  BY <1>1, <1>3 DEF FirstConfig
<1> QED BY <1>1, <1>2, <1>3

\* A request changes a configuration into a configuration.
LEMMA ChangeFits ==
  ASSUME NEW c \in StoreConfig, NEW given \in Requests
  PROVE  Change(c, given) \in StoreConfig
<1> DEFINE full == [f \in DOMAIN Default |->
                      IF f \in DOMAIN given THEN given[f] ELSE Default[f]]
<1>1. full \in StoreConfig
  BY SettingsAssumption
<1>2. \A f \in DOMAIN Default : f \in DOMAIN given => given[f] = full[f]
  OBVIOUS
<1>3. Change(c, given) = [f \in DOMAIN Default |->
             IF f \in DOMAIN given THEN Kept(f, full[f]) ELSE c[f]]
  BY <1>2 DEF Change, StoreConfig, Default
<1> HIDE DEF full
<1> QED BY <1>1, <1>3 DEF StoreConfig, Default, Kept, Between

\* What `config set` makes of a usable configuration is usable, but for the
\* zone, which save_config looks at.
LEMMA ChangeIsUsable ==
  ASSUME NEW c \in StoreConfig, Usable(c), NEW given \in Requests,
         ValidZone(Change(c, given))
  PROVE  Usable(Change(c, given))
<1> DEFINE full == [f \in DOMAIN Default |->
                      IF f \in DOMAIN given THEN given[f] ELSE Default[f]]
<1>1. /\ full.sample_interval_secs \in Nat /\ full.cycle_start_day \in Nat
      /\ c.sample_interval_secs \in Nat /\ c.cycle_start_day \in Nat
  <2>1. full \in StoreConfig
    BY SettingsAssumption
  <2> HIDE DEF full
  <2> QED BY <2>1 DEF StoreConfig
<1>2. \A f \in DOMAIN Default : f \in DOMAIN given => given[f] = full[f]
  OBVIOUS
<1>3. \A f \in {"sample_interval_secs", "cycle_start_day"} :
        Change(c, given)[f]
          = IF f \in DOMAIN given THEN Kept(f, full[f]) ELSE c[f]
  BY <1>2 DEF Change, StoreConfig, Default
<1> HIDE DEF full
<1> QED BY <1>1, <1>3 DEF Usable, Kept, Between

-----------------------------------------------------------------------------
(* The invariant.                                                          *)

\* Each part needs others: what is saved is usable because what a process has in
\* memory is, and it has it because of the row it found.
IInv ==
  /\ TypeOK /\ SchemaAgrees /\ ConfigUsable /\ Knowledge /\ LostOnlyByOverlap
  /\ DatabaseFirst /\ Found

\* The steps that leave the file and the books alone, and take a process to a
\* place for which it knows enough.
LEMMA Moved ==
  ASSUME IInv, NEW p \in Openers, NEW place,
         UNCHANGED <<file, local, request, expected, disturbed, scene>>,
         TypeOK',
         pc' = [pc EXCEPT ![p] = place],
         place \in {"exists", "first run", "load", "save"} =>
           version = Target,
         place \in {"exists", "first run", "load"} => Job[p] # "report",
         place \in {"load", "save"} => row # None,
         place = "save" => Job[p] = "set" /\ cfg'[p] # None,
         cfg'[p] # None => Usable(cfg'[p]),
         \A q \in Openers \ {p} : cfg'[q] = cfg[q] /\ (q \in stale => q \in stale'),
         p \notin stale' => /\ place = "first run" => row = None
                            /\ place = "save" => cfg'[p] = row,
         place \in {"socket", "bind", "privileges", "environment", "object",
                    "up"} \cup Refusals =>
           p \in Daemons /\ version = Target /\ row # None,
         place \in {"environment", "object", "up"} \cup Refusals => Found'
  PROVE  IInv'
<1> USE DEF IInv
<1>1. pc \in [Openers -> Ended \cup
       {"open", "migrate", "exists", "first run", "load", "save", "socket",
        "bind", "privileges", "environment", "object", "up"}]
  BY DEF TypeOK
<1>2. \A q \in Openers : pc'[q] = IF q = p THEN place ELSE pc[q]
  BY <1>1
<1>3. /\ version' = version /\ tables' = tables /\ row' = row
      /\ expected' = expected /\ disturbed' = disturbed /\ scene' = scene
  BY DEF file
<1>4. SchemaAgrees'
  BY <1>2, <1>3 DEF SchemaAgrees
<1>5. ConfigUsable' /\ LostOnlyByOverlap'
  <2>1. ConfigUsable'
    BY <1>3 DEF ConfigUsable, Usable, ValidZone
  <2>2. LostOnlyByOverlap
    OBVIOUS
  <2>3. disturbed' = disturbed /\ row' = row /\ expected' = expected
    BY <1>3
  <2>4. LostOnlyByOverlap'
    BY ONLY <2>2, <2>3, Zenon DEF LostOnlyByOverlap
  <2> QED BY <2>1, <2>4
<1>6. Knowledge'
  <2> SUFFICES ASSUME NEW q \in Openers PROVE Knowledge!(q)'
    BY DEF Knowledge
  <2>1. CASE q = p
    BY <2>1, <1>2, <1>3 DEF Usable, ValidZone
  <2>2. CASE q # p
    BY <2>2, <1>2, <1>3 DEF Knowledge, Usable, ValidZone
  <2> QED BY <2>1, <2>2
<1>7. DatabaseFirst'
  BY <1>2, <1>3 DEF DatabaseFirst
<1>8. CASE place \notin {"environment", "object", "up"} \cup Refusals
  <2> SUFFICES ASSUME NEW q \in Daemons PROVE Found!(q)'
    BY <1>4, <1>5, <1>6, <1>7 DEF Found
  <2> QED BY <1>2, <1>3, <1>8 DEF Found, Daemons, Refusals, machine, power
<1> QED BY <1>4, <1>5, <1>6, <1>7, <1>8

\* A fault more is within the bound.
LEMMA OneMore ==
  ASSUME TypeOK, faults < MaxFaults
  PROVE  faults + 1 \in 0 .. MaxFaults
<1>1. MaxFaults \in Nat
  BY SettingsAssumption
<1>2. faults \in 0 .. MaxFaults
  BY DEF TypeOK
<1> QED BY ONLY <1>1, <1>2, faults < MaxFaults

-----------------------------------------------------------------------------
(* Step by step: what every process does to the file.                      *)

LEMMA OpenSteps ==
  ASSUME IInv, NEW p \in Openers, UNCHANGED startupVars,
         Start(p) \/ ReadVersion(p) \/ NewerVersion(p) \/ MigrateLate(p)
  PROVE  IInv'
<1> USE DEF IInv, startupVars, settingsHistory
<1>1. CASE Start(p)
  <2>1. TypeOK'
    BY <1>1 DEF TypeOK, Start, Goto, file
  <2> QED BY <1>1, <2>1, Moved DEF Start, Goto, Knowledge, TypeOK, Refusals
<1>2. CASE ReadVersion(p)
  <2>1. TypeOK'
    BY <1>2 DEF TypeOK, ReadVersion, Goto, file, Opened, Ended
  <2>2. Opened(p) \in {"done", "exists"} /\ (Opened(p) = "exists" => Job[p] # "report")
    BY DEF Opened
  <2> QED BY <1>2, <2>1, <2>2, Moved DEF ReadVersion, Goto, Knowledge, TypeOK, Refusals
<1>3. CASE NewerVersion(p)
  <2>1. TypeOK'
    BY <1>3 DEF TypeOK, NewerVersion, Exit, Goto, file, Ended
  <2> QED BY <1>3, <2>1, Moved DEF NewerVersion, Exit, Goto, Knowledge, TypeOK, Refusals
<1>4. CASE MigrateLate(p)
  <2>1. TypeOK'
    BY <1>4 DEF TypeOK, MigrateLate, Exit, Goto, file, Ended
  <2> QED BY <1>4, <2>1, Moved DEF MigrateLate, Exit, Goto, Knowledge, TypeOK, Refusals
<1> QED BY <1>1, <1>2, <1>3, <1>4

\* The migration: nobody is past the opening of a database without tables.
LEMMA MigrateStep ==
  ASSUME IInv, NEW p \in Openers, UNCHANGED startupVars, Migrate(p)
  PROVE  IInv'
<1> USE DEF IInv, startupVars, settingsHistory
<1>1. /\ version' = Target /\ tables' = TRUE /\ row' = row
      /\ expected' = expected /\ disturbed' = disturbed /\ stale' = stale
      /\ cfg' = cfg /\ local' = local /\ request' = request
      /\ faults' = faults /\ scene' = scene
      /\ path' = path /\ listening' = listening
  BY DEF Migrate, Migrated
<1>2. version = 0 /\ version # Target
  <2>1. ~tables /\ (tables <=> version # 0)
    BY DEF Migrate, SchemaAgrees
  <2>2. version = 0
    BY ONLY <2>1, Zenon
  <2> QED BY ONLY <2>2 DEF Target
<1>3. \A q \in Openers : pc'[q] = IF q = p THEN Opened(p) ELSE pc[q]
  BY DEF Migrate, Goto, TypeOK
<1>4. Opened(p) \in {"done", "exists"} /\ (Opened(p) = "exists" => Job[p] # "report")
  BY DEF Opened
<1>5. TypeOK'
  BY <1>1, <1>4 DEF TypeOK, Migrate, Goto, Ended
<1>6. SchemaAgrees'
  <2>1. version' # 0
    BY <1>1 DEF Target
  <2>2. tables' <=> version' # 0
    BY ONLY <1>1, <2>1, Zenon
  <2> QED BY <1>1, <2>2 DEF SchemaAgrees
<1>7. ConfigUsable'
  BY <1>1 DEF ConfigUsable, Usable, ValidZone
<1>8. LostOnlyByOverlap'
  <2>1. LostOnlyByOverlap
    OBVIOUS
  <2> QED BY ONLY <1>1, <2>1, Zenon DEF LostOnlyByOverlap
<1>9. Knowledge'
  <2> SUFFICES ASSUME NEW q \in Openers PROVE Knowledge!(q)'
    BY DEF Knowledge
  <2> QED BY <1>1, <1>3, <1>4 DEF Knowledge, Migrate, Usable, ValidZone
<1>10. DatabaseFirst'
  BY <1>1, <1>2, <1>3, <1>4 DEF DatabaseFirst, Refusals
<1>11. Found'
  <2> SUFFICES ASSUME NEW q \in Daemons PROVE Found!(q)'
    BY DEF Found
  <2> QED BY <1>1, <1>3, <1>4 DEF Found, Daemons, machine, power
<1> QED BY <1>5, <1>6, <1>7, <1>8, <1>9, <1>10, <1>11

LEMMA ReadSteps ==
  ASSUME IInv, NEW p \in Openers, UNCHANGED startupVars,
         ConfigExists(p) \/ LoadConfig(p) \/ LoadFails(p)
  PROVE  IInv'
<1> USE DEF IInv, startupVars, settingsHistory
<1>1. CASE ConfigExists(p)
  <2>1. TypeOK'
    BY <1>1 DEF TypeOK, ConfigExists, Goto, file
  <2> QED BY <1>1, <2>1, Moved
          DEF ConfigExists, Goto, Knowledge, SchemaAgrees, TypeOK, Refusals
<1>2. ASSUME pc[p] = "load"
      PROVE  /\ Job[p] # "report" /\ row # None /\ version = Target
             /\ row \in StoreConfig /\ Usable(row)
             /\ Loaded(p) = IF Job[p] = "run" THEN "socket"
                            ELSE IF Job[p] = "set" THEN "save" ELSE "done"
             /\ Loaded(p) = "socket" => p \in Daemons
  BY <1>2, SettingsAssumption
     DEF Knowledge, SchemaAgrees, ConfigUsable, TypeOK, Loaded, Daemons
<1>3. CASE LoadConfig(p)
  <2>1. /\ pc[p] = "load" /\ pc' = [pc EXCEPT ![p] = Loaded(p)]
        /\ cfg' = [cfg EXCEPT ![p] = IF Job[p] = "set" THEN row ELSE None]
        /\ stale' = stale \ {p}
        /\ UNCHANGED <<file, local, request, faults, expected, disturbed>>
    BY <1>2, <1>3 DEF LoadConfig, Goto, Keep
  <2>2. TypeOK'
    BY <1>2, <2>1 DEF TypeOK, file, Ended
  <2> QED BY <1>2, <2>1, <2>2, Moved, SettingsAssumption DEF TypeOK, Refusals
<1>4. CASE LoadFails(p)
  <2>1. /\ pc[p] = "load" /\ pc' = [pc EXCEPT ![p] = Loaded(p)]
        /\ cfg' = [cfg EXCEPT ![p] = IF Job[p] = "set" THEN Default ELSE None]
        /\ stale' = IF Job[p] = "set" THEN stale \cup {p} ELSE stale
        /\ faults < MaxFaults /\ faults' = faults + 1
        /\ UNCHANGED <<file, local, request, expected, disturbed>>
    BY <1>4 DEF LoadFails, Goto, Keep
  <2>2. Default \in StoreConfig /\ Usable(Default)
    BY FirstIsUsable DEF TypeOK
  <2>3. Loaded(p) \in {"socket", "save", "done"}
    BY <1>2, <2>1
  <2>4. /\ faults' \in 0 .. MaxFaults /\ stale' \subseteq Openers
        /\ cfg' \in [Openers -> StoreConfig \cup {None}]
    BY <2>1, <2>2, OneMore DEF TypeOK
  <2>5. TypeOK'
    BY <2>1, <2>3, <2>4 DEF TypeOK, file, Ended
  <2>6. /\ Job[p] # "report" /\ row # None /\ version = Target
        /\ Loaded(p) = "save" => Job[p] = "set"
        /\ Loaded(p) = "socket" => p \in Daemons
    BY <1>2, <2>1
  <2>7. /\ cfg'[p] # None => Usable(cfg'[p])
        /\ Loaded(p) = "save" => p \in stale' /\ cfg'[p] # None
        /\ \A q \in Openers \ {p} :
             cfg'[q] = cfg[q] /\ (q \in stale => q \in stale')
    BY <2>1, <2>2, <2>6, SettingsAssumption DEF TypeOK
  <2> QED BY <2>1, <2>3, <2>5, <2>6, <2>7, Moved DEF Refusals
<1> QED BY <1>1, <1>3, <1>4

\* A process saves a usable configuration.  It is what it ought to be unless the
\* process knows less than the table, or one that did saved before.
LEMMA Saved ==
  ASSUME IInv, NEW p \in Openers, NEW c \in StoreConfig, Usable(c),
         NEW asked \in StoreConfig, NEW place \in {"load", "done"},
         pc[p] \in {"first run", "save"},
         Save(p, c, asked),
         ~disturbed /\ p \notin stale => asked = c,
         pc' = [pc EXCEPT ![p] = place],
         cfg' = [cfg EXCEPT ![p] = IF place = "load" THEN cfg[p] ELSE None],
         place = "load" => Job[p] # "report",
         faults' \in 0 .. MaxFaults,
         UNCHANGED <<version, tables, local, request, startupVars>>
  PROVE  IInv'
<1> USE DEF IInv, startupVars
<1>1. /\ row' = c /\ expected' = asked
      /\ disturbed' = (disturbed \/ p \in stale)
      /\ stale' = (stale \cup Deciding) \ {p}
  BY DEF Save
<1>2. c # None /\ asked # None
  BY SettingsAssumption
<1>3. \A q \in Openers : /\ pc'[q] = IF q = p THEN place ELSE pc[q]
                         /\ cfg'[q] = IF q = p /\ place = "done" THEN None
                                      ELSE cfg[q]
  BY DEF TypeOK
<1>4. TypeOK'
  BY <1>1 DEF TypeOK, Ended, Deciding
<1>5. SchemaAgrees'
  BY <1>3 DEF SchemaAgrees
<1>6. ConfigUsable'
  BY <1>1 DEF ConfigUsable, Usable, ValidZone
<1>7. LostOnlyByOverlap'
  <2>1. CASE disturbed \/ p \in stale
    <3>1. disturbed'
      BY ONLY <1>1, <2>1, Zenon
    <3> QED BY ONLY <3>1, Zenon DEF LostOnlyByOverlap
  <2>2. CASE ~(disturbed \/ p \in stale)
    <3>1. ~disturbed /\ p \notin stale
      BY ONLY <2>2, Zenon
    <3>2. row' = expected'
      BY <1>1, <3>1
    <3> QED BY ONLY <3>2, Zenon DEF LostOnlyByOverlap
  <2> QED BY <2>1, <2>2
<1>8. Knowledge'
  <2> SUFFICES ASSUME NEW q \in Openers PROVE Knowledge!(q)'
    BY DEF Knowledge
  <2>1. q # p /\ q \notin stale' => pc[q] \notin {"first run", "save"}
    BY <1>1 DEF Deciding
  <2> QED BY <1>1, <1>2, <1>3, <2>1 DEF Knowledge, Usable, ValidZone
<1>9. DatabaseFirst'
  BY <1>1, <1>2, <1>3 DEF DatabaseFirst, Refusals
<1>10. Found'
  <2> SUFFICES ASSUME NEW q \in Daemons PROVE Found!(q)'
    BY DEF Found
  <2> QED BY <1>3 DEF Found, Daemons, machine, power
<1> QED BY <1>4, <1>5, <1>6, <1>7, <1>8, <1>9, <1>10

LEMMA SaveSteps ==
  ASSUME IInv, NEW p \in Openers, UNCHANGED startupVars,
         FirstRun(p) \/ FirstRunFallsBack(p) \/ SetConfig(p) \/ SetRefused(p)
  PROVE  IInv'
<1> USE DEF IInv
<1>1. /\ Default \in StoreConfig /\ Usable(Default)
      /\ FirstConfig \in StoreConfig /\ Usable(FirstConfig)
  BY FirstIsUsable DEF TypeOK
\* Whoever is about to save the first configuration either knows that there is
\* none, or does not know what the table knows.
<1>2. ASSUME pc[p] = "first run", NEW c \in StoreConfig,
             ~disturbed /\ p \notin stale
      PROVE  (IF expected = None THEN c ELSE expected) = c
  BY <1>2 DEF Knowledge, LostOnlyByOverlap
<1>3. \A c \in StoreConfig :
        (IF expected = None THEN c ELSE expected) \in StoreConfig
  BY DEF TypeOK
<1>4. pc[p] = "first run" => Job[p] # "report" /\ cfg = [cfg EXCEPT ![p] = cfg[p]]
  BY DEF Knowledge, TypeOK
<1>5. CASE FirstRun(p)
  <2> DEFINE c == FirstConfig
             asked == IF expected = None THEN c ELSE expected
  <2>1. /\ pc[p] = "first run" /\ Save(p, c, asked)
        /\ pc' = [pc EXCEPT ![p] = "load"]
        /\ UNCHANGED <<version, tables, local, cfg, request, faults>>
    BY <1>5 DEF FirstRun, Goto
  <2>2. ~disturbed /\ p \notin stale => asked = c
    BY <1>1, <1>2, <2>1
  <2>3. asked \in StoreConfig
    BY <1>1, <1>3
  <2>4. faults' \in 0 .. MaxFaults
    BY <2>1 DEF TypeOK
  <2> HIDE DEF c, asked
  <2> QED BY <1>1, <1>4, <2>1, <2>2, <2>3, <2>4, Saved DEF c
<1>6. CASE FirstRunFallsBack(p)
  <2> DEFINE c == Default
             asked == IF expected = None THEN c ELSE expected
  <2>1. /\ pc[p] = "first run" /\ Save(p, c, asked)
        /\ pc' = [pc EXCEPT ![p] = "load"]
        /\ faults < MaxFaults /\ faults' = faults + 1
        /\ UNCHANGED <<version, tables, local, cfg, request>>
    BY <1>6 DEF FirstRunFallsBack, Goto
  <2>2. ~disturbed /\ p \notin stale => asked = c
    BY <1>1, <1>2, <2>1
  <2>3. asked \in StoreConfig
    BY <1>1, <1>3
  <2>4. faults' \in 0 .. MaxFaults
    BY <2>1, OneMore
  <2> HIDE DEF c, asked
  <2> QED BY <1>1, <1>4, <2>1, <2>2, <2>3, <2>4, Saved DEF c
<1>7. ASSUME pc[p] = "save"
      PROVE  /\ Job[p] = "set" /\ request[p] \in Requests
             /\ cfg[p] \in StoreConfig /\ Usable(cfg[p])
             /\ p \notin stale => cfg[p] = row
  BY <1>7 DEF Knowledge, TypeOK
<1>8. CASE SetConfig(p)
  <2> DEFINE c == Change(cfg[p], request[p])
             asked == IF expected = None THEN c
                      ELSE Change(expected, request[p])
  <2>1. /\ pc[p] = "save" /\ ValidZone(c) /\ Save(p, c, asked)
        /\ pc' = [pc EXCEPT ![p] = "done"]
        /\ cfg' = [cfg EXCEPT ![p] = None]
        /\ UNCHANGED <<version, tables, local, request, faults>>
    BY <1>8 DEF SetConfig, Goto
  <2>2. c \in StoreConfig /\ Usable(c)
    BY <1>7, <2>1, ChangeFits, ChangeIsUsable
  <2>3. asked \in StoreConfig
    BY <1>7, <2>1, <2>2, ChangeFits DEF TypeOK
  <2>4. ASSUME ~disturbed, p \notin stale PROVE asked = c
    <3>1. expected = row
      BY <2>4 DEF LostOnlyByOverlap
    <3> QED BY <1>7, <2>1, <2>4, <3>1
  <2>5. faults' \in 0 .. MaxFaults
    BY <2>1 DEF TypeOK
  <2> HIDE DEF c, asked
  <2> QED BY <2>1, <2>2, <2>3, <2>4, <2>5, Saved
<1>9. CASE SetRefused(p)
  <2>1. TypeOK'
    BY <1>9 DEF TypeOK, SetRefused, Exit, Goto, file, Ended, startupVars
  <2> QED BY <1>9, <2>1, Moved
          DEF SetRefused, Exit, Goto, TypeOK, Refusals, startupVars
<1> QED BY <1>5, <1>6, <1>8, <1>9

LEMMA DieStep ==
  ASSUME IInv, NEW p \in Openers, Dies(p)
  PROVE  IInv'
<1> USE DEF IInv, Dies, Die
<1>1. TypeOK'
  BY OneMore DEF TypeOK, Exit, Goto, file, Ended
<1> QED BY <1>1, Moved DEF Exit, Goto, TypeOK, Refusals


-----------------------------------------------------------------------------
(* What the daemon alone does.                                             *)

LEMMA SocketSteps ==
  ASSUME IInv, NEW p \in Openers, p \in Daemons,
         RemoveOld(p) \/ Bind(p) \/ BindInVain(p) \/ AcceptFails(p)
  PROVE  IInv'
<1> USE DEF IInv, database, settingsHistory
<1>1. CASE RemoveOld(p)
  <2>1. TypeOK'
    BY <1>1 DEF TypeOK, RemoveOld, Goto, file
  <2> QED BY <1>1, <2>1, Moved
          DEF RemoveOld, Goto, Knowledge, DatabaseFirst, TypeOK, Refusals
<1>2. CASE Bind(p)
  <2>1. TypeOK'
    BY <1>2 DEF TypeOK, Bind, Goto, file
  <2> QED BY <1>2, <2>1, Moved
          DEF Bind, Goto, Knowledge, DatabaseFirst, TypeOK, Refusals
<1>3. CASE BindInVain(p)
  <2>1. TypeOK'
    BY <1>3, OneMore DEF TypeOK, BindInVain, Goto, file
  <2> QED BY <1>3, <2>1, Moved
          DEF BindInVain, Goto, Knowledge, DatabaseFirst, TypeOK, Refusals
<1>4. CASE AcceptFails(p)
  <2>1. TypeOK'
    BY <1>4, OneMore DEF TypeOK, AcceptFails, file
  <2>2. pc' = [pc EXCEPT ![p] = pc[p]]
    BY <1>4 DEF AcceptFails, TypeOK
  <2>3. Found'
    BY <1>4 DEF AcceptFails, Found, machine, power
  <2> QED BY <1>4, <2>1, <2>2, <2>3, Moved
          DEF AcceptFails, Knowledge, DatabaseFirst, SchemaAgrees
<1> QED BY <1>1, <1>2, <1>3, <1>4

\* Both ends of a requirement.
Stays(p, place) ==
  /\ Goto(p, place)
  /\ UNCHANGED <<database, cfg, faults, scene, path, listening>>

Ends(p, place) ==
  /\ Leave(p, place)
  /\ UNCHANGED <<file, local, request, faults, expected, disturbed, scene,
                 path>>

\* The daemon learns one thing more of the machine, or ends.
LEMMA MachineSteps ==
  ASSUME IInv, NEW p \in Openers, p \in Daemons,
         CheckPrivileges(p) \/ CheckEnvironment(p) \/ LoadAndAttach(p)
  PROVE  IInv'
<1> USE DEF IInv
<1>1. ASSUME NEW place, Stays(p, place) \/ Ends(p, place)
      PROVE  /\ scene' = scene
             /\ \A q \in Openers : pc'[q] = IF q = p THEN place ELSE pc[q]
  BY <1>1 DEF Stays, Ends, Leave, Exit, Goto, TypeOK
<1>2. ASSUME NEW place \in {"environment", "object", "up"} \cup Refusals,
             pc[p] \in {"privileges", "environment", "object"}, Found',
             Stays(p, place) \/ (place \in Refusals /\ Ends(p, place))
      PROVE  IInv'
  <2>1. version = Target /\ row # None
    BY <1>2 DEF DatabaseFirst
  <2>2. CASE Stays(p, place)
    <3>1. TypeOK'
      BY <1>2, <2>2 DEF TypeOK, Stays, Goto, file, database, settingsHistory,
                        Ended
    <3> QED BY <1>2, <2>1, <2>2, <3>1, Moved
            DEF Stays, Goto, Knowledge, database, settingsHistory, Refusals
  <2>3. CASE place \in Refusals /\ Ends(p, place)
    <3>1. TypeOK'
      BY <2>3 DEF TypeOK, Ends, Leave, Exit, Goto, file, Ended
    <3> QED BY <1>2, <2>1, <2>3, <3>1, Moved
            DEF Ends, Leave, Exit, Goto, TypeOK, Refusals
  <2> QED BY <1>2, <2>2, <2>3
<1>3. CASE CheckPrivileges(p)
  <2> DEFINE privileged == EnsureMinimum(machine, power[p])
  <2>1. /\ pc[p] = "privileges"
        /\ Requires(p, privileged, "environment", "refused")
    BY <1>3 DEF CheckPrivileges
  <2>2. CASE privileged
    <3>1. Stays(p, "environment")
      BY <2>1, <2>2 DEF Requires, Stays, database, settingsHistory
    <3>2. Found'
      <4> SUFFICES ASSUME NEW q \in Daemons PROVE Found!(q)'
        BY DEF Found
      <4>1. /\ scene' = scene
            /\ pc'[q] = IF q = p THEN "environment" ELSE pc[q]
        BY <1>1, <3>1 DEF Daemons
      <4> QED BY <2>1, <2>2, <4>1 DEF Found, machine, power
    <3> QED BY <1>2, <2>1, <3>1, <3>2 DEF Refusals
  <2>3. CASE ~privileged
    <3>1. Ends(p, "refused")
      BY <2>1, <2>3 DEF Requires, Ends
    <3>2. Found'
      <4> SUFFICES ASSUME NEW q \in Daemons PROVE Found!(q)'
        BY DEF Found
      <4>1. /\ scene' = scene
            /\ pc'[q] = IF q = p THEN "refused" ELSE pc[q]
        BY <1>1, <3>1 DEF Daemons
      <4> QED BY <2>1, <2>3, <4>1 DEF Found, machine, power
    <3> QED BY <1>2, <2>1, <3>1, <3>2 DEF Refusals
  <2> QED BY <2>2, <2>3
<1>4. CASE CheckEnvironment(p)
  <2> DEFINE fit == Decide(EnvReport(machine, power[p])) # "Disabled"
  <2>1. /\ pc[p] = "environment"
        /\ Requires(p, fit, "object", "unfit")
    BY <1>4 DEF CheckEnvironment
  <2>2. CASE fit
    <3>1. Stays(p, "object")
      BY <2>1, <2>2 DEF Requires, Stays, database, settingsHistory
    <3>2. Found'
      <4> SUFFICES ASSUME NEW q \in Daemons PROVE Found!(q)'
        BY DEF Found
      <4>1. /\ scene' = scene
            /\ pc'[q] = IF q = p THEN "object" ELSE pc[q]
        BY <1>1, <3>1 DEF Daemons
      <4> QED BY <2>1, <2>2, <4>1 DEF Found, machine, power
    <3> QED BY <1>2, <2>1, <3>1, <3>2 DEF Refusals
  <2>3. CASE ~fit
    <3>1. Ends(p, "unfit")
      BY <2>1, <2>3 DEF Requires, Ends
    <3>2. Found'
      <4> SUFFICES ASSUME NEW q \in Daemons PROVE Found!(q)'
        BY DEF Found
      <4>1. /\ scene' = scene
            /\ pc'[q] = IF q = p THEN "unfit" ELSE pc[q]
        BY <1>1, <3>1 DEF Daemons
      <4> QED BY <2>1, <2>3, <4>1 DEF Found, machine, power
    <3> QED BY <1>2, <2>1, <3>1, <3>2 DEF Refusals
  <2> QED BY <2>2, <2>3
<1>5. CASE LoadAndAttach(p)
  <2> DEFINE loads == CgroupRoot(machine) /\ ObjectLoads(machine, power[p])
  <2>1. /\ pc[p] = "object"
        /\ Requires(p, loads, "up", "not loaded")
    BY <1>5 DEF LoadAndAttach
  <2>2. CASE loads
    <3>1. Stays(p, "up")
      BY <2>1, <2>2 DEF Requires, Stays, database, settingsHistory
    <3>2. Found'
      <4> SUFFICES ASSUME NEW q \in Daemons PROVE Found!(q)'
        BY DEF Found
      <4>1. /\ scene' = scene
            /\ pc'[q] = IF q = p THEN "up" ELSE pc[q]
        BY <1>1, <3>1 DEF Daemons
      <4> QED BY <2>1, <2>2, <4>1 DEF Found, machine, power
    <3> QED BY <1>2, <2>1, <3>1, <3>2 DEF Refusals
  <2>3. CASE ~loads
    <3>1. Ends(p, "not loaded")
      BY <2>1, <2>3 DEF Requires, Ends
    <3>2. Found'
      <4> SUFFICES ASSUME NEW q \in Daemons PROVE Found!(q)'
        BY DEF Found
      <4>1. /\ scene' = scene
            /\ pc'[q] = IF q = p THEN "not loaded" ELSE pc[q]
        BY <1>1, <3>1 DEF Daemons
      <4> QED BY <2>1, <2>3, <4>1 DEF Found, machine, power
    <3> QED BY <1>2, <2>1, <3>1, <3>2 DEF Refusals
  <2> QED BY <2>2, <2>3
<1> QED BY <1>3, <1>4, <1>5

LEMMA RestartStep ==
  ASSUME IInv, Restart
  PROVE  IInv'
<1> USE DEF IInv, Restart, database, settingsHistory
<1>1. Managed \in Openers
  BY StartupAssumption DEF Daemons
<1>2. TypeOK'
  BY DEF TypeOK, Goto, file
<1> QED BY <1>1, <1>2, Moved DEF Goto, Knowledge, TypeOK, Refusals

-----------------------------------------------------------------------------
(* The theorems.                                                           *)

LEMMA Inductive == Spec => []IInv
<1>1. Init => IInv
  <2> SUFFICES ASSUME Init PROVE IInv
    OBVIOUS
  <2> USE DEF Init, SettingsInit
  <2>1. Default \in StoreConfig /\ Usable(Default)
    BY FirstIsUsable
  <2>2. TypeOK
    <3>1. MaxFaults \in Nat
      BY SettingsAssumption
    <3>2. tables \in BOOLEAN /\ {row, expected} \subseteq StoreConfig \cup {None}
      BY <2>1
    <3>3. faults \in 0 .. MaxFaults
      BY <3>1
    <3> QED BY <3>2, <3>3 DEF TypeOK, Ended
  <2>3. SchemaAgrees
    BY DEF SchemaAgrees
  <2>4. ConfigUsable /\ LostOnlyByOverlap
    BY <2>1 DEF ConfigUsable, LostOnlyByOverlap
  <2>5. Knowledge /\ DatabaseFirst /\ Found
    BY DEF Knowledge, DatabaseFirst, Found, Daemons, Refusals
  <2> QED BY <2>2, <2>3, <2>4, <2>5 DEF IInv
<1>2. IInv /\ [Next]_vars => IInv'
  <2> SUFFICES ASSUME IInv, [Next]_vars PROVE IInv'
    OBVIOUS
  <2>1. ASSUME NEW p \in Openers, Begin(p) PROVE IInv'
    BY <2>1, OpenSteps DEF Begin
  <2>2. ASSUME NEW p \in Openers, Proceed(p) PROVE IInv'
    <3>1. CASE SettingsStep(p) /\ UNCHANGED startupVars
      BY <3>1, OpenSteps, MigrateStep, ReadSteps, SaveSteps DEF SettingsStep
    <3>2. CASE RemoveOld(p) \/ Bind(p)
      <4>1. p \in Daemons
        BY <3>2 DEF IInv, DatabaseFirst, RemoveOld, Bind
      <4> QED BY <3>2, <4>1, SocketSteps
    <3>3. CASE CheckPrivileges(p) \/ CheckEnvironment(p) \/ LoadAndAttach(p)
      <4>1. p \in Daemons
        BY <3>3 DEF IInv, DatabaseFirst, CheckPrivileges, CheckEnvironment,
                    LoadAndAttach
      <4> QED BY <3>3, <4>1, MachineSteps
    <3> QED BY <2>2, <3>1, <3>2, <3>3 DEF Proceed
  <2>3. ASSUME NEW p \in Openers, Fault(p) PROVE IInv'
    <3>1. BindInVain(p) \/ AcceptFails(p) => p \in Daemons
      BY DEF IInv, DatabaseFirst, TypeOK, BindInVain, AcceptFails
    <3> QED BY <2>3, <3>1, ReadSteps, SaveSteps, DieStep, SocketSteps
            DEF Fault, SettingsFault
  <2>4. CASE Restart
    BY <2>4, RestartStep
  <2>5. CASE UNCHANGED vars
    BY <2>5 DEF vars, settingsVars, startupVars, settingsHistory, file, IInv,
                TypeOK, SchemaAgrees, ConfigUsable, Usable, ValidZone,
                Knowledge, LostOnlyByOverlap, DatabaseFirst, Found, machine,
                power
  <2> QED BY <2>1, <2>2, <2>3, <2>4, <2>5 DEF Next
<1> QED BY <1>1, <1>2, PTL DEF Spec

\* The state keeps its shape: in particular the row is a whole configuration.
THEOREM TypeCorrect == Spec => []TypeOK
BY Inductive, PTL DEF IInv

\* The version tells what tables there are, and who is past the opening has them.
THEOREM SchemaTold == Spec => []SchemaAgrees
BY Inductive, PTL DEF IInv

\* The configuration of the table can always be used.
THEOREM AlwaysUsable == Spec => []ConfigUsable
BY Inductive, PTL DEF IInv

\* No setting is lost but by an overlap or a failed query.
THEOREM NothingElseLost == Spec => []LostOnlyByOverlap
BY Inductive, PTL DEF IInv

\* A daemon that gives up leaves a database that can be opened.
THEOREM AlwaysDiagnosable == Spec => []DiagnosisPossible
<1>1. IInv => DiagnosisPossible
  <2> SUFFICES ASSUME IInv, NEW p \in Daemons, pc[p] \in Refusals
               PROVE  tables /\ version = Target /\ row # None
    BY DEF DiagnosisPossible
  <2>1. version = Target /\ row # None /\ version # 0
    BY DEF IInv, DatabaseFirst, Daemons, Target
  <2>2. tables
    BY <2>1 DEF IInv, SchemaAgrees
  <2> QED BY <2>1, <2>2
<1> QED BY <1>1, Inductive, PTL

\* What the checks say of a machine against what a daemon finds on it: whatever
\* the kernel, how its release reads, the mounts and the privileges.
LEMMA ChecksAgree ==
  ASSUME NEW m, m.cgroup2 \in BOOLEAN, m.btf \in BOOLEAN, NEW privileges
  PROVE  LET report == EnvReport(m, privileges)
             privileged == EnsureMinimum(m, privileges)
             fit == Decide(report) # "Disabled"
             loads == CgroupRoot(m) /\ ObjectLoads(m, privileges)
         IN /\ loads => IsApt(m, privileges) /\ JsonApt(report)
            /\ ~fit => ~loads /\ NoteFrom(EnvReport(m, {}), None) = "unfit"
            /\ m.release = "plain" =>
                 (Promised(m, privileges) <=> privileged /\ fit /\ loads)
<1> DEFINE report == EnvReport(m, privileges)
           privileged == EnsureMinimum(m, privileges)
           fit == Decide(report) # "Disabled"
           loads == CgroupRoot(m) /\ ObjectLoads(m, privileges)
<1>1. ASSUME loads PROVE IsApt(m, privileges) /\ JsonApt(report)
  <2>1. m.cgroup2 /\ m.btf /\ AtLeast(m.kernel, 5, 8)
    BY <1>1 DEF CgroupRoot, ObjectLoads
  <2>2. KernelCheck(m) # "Fail" /\ CapsCheck(privileges) # "Fail"
    BY <2>1 DEF KernelCheck, ParseRelease, CapsCheck
  <2>3. CgroupCheck(m) = "Ok" /\ BtfCheck(m) = "Ok"
    BY <2>1 DEF CgroupCheck, BtfCheck
  <2> QED BY <2>1, <2>2, <2>3 DEF IsApt, JsonApt, EnvReport
<1>2. ASSUME ~fit
      PROVE  ~loads /\ NoteFrom(EnvReport(m, {}), None) = "unfit"
  <2>1. ~m.cgroup2 \/ ~m.btf
    BY <1>2 DEF Decide, EnvReport
  <2> QED BY <2>1 DEF CgroupRoot, ObjectLoads, NoteFrom, EnvReport
\* A plain release reads the same to both parsers.
<1>3. ASSUME m.release = "plain"
      PROVE  Promised(m, privileges) <=> privileged /\ fit /\ loads
  <2>1. /\ SupportsBpfCaps(m) <=> AtLeast(m.kernel, 5, 8)
        /\ KernelSupportsBpfCaps(m) <=> AtLeast(m.kernel, 5, 8)
    BY <1>3 DEF SupportsBpfCaps, KernelSupportsBpfCaps, ParseRelease,
                KernelVersion
  <2>2. Promised(m, privileges) <=> /\ m.cgroup2 /\ m.btf
                                    /\ AtLeast(m.kernel, 5, 8)
                                    /\ Sufficient(privileges)
    BY <2>1 DEF Promised, EnvReport
  <2>3. ASSUME Promised(m, privileges) PROVE privileged /\ fit /\ loads
    <3>1. privileged /\ loads
      BY <2>1, <2>2, <2>3
         DEF EnsureMinimum, Sufficient, CgroupRoot, ObjectLoads, BpfCaps
    <3>2. fit
      BY <2>2, <2>3 DEF Decide, EnvReport
    <3> QED BY <3>1, <3>2
  <2>4. ASSUME privileged, loads PROVE Promised(m, privileges)
    BY <2>1, <2>2, <2>4 DEF EnsureMinimum, Sufficient, CgroupRoot, ObjectLoads
  <2> QED BY <2>3, <2>4
<1> QED BY <1>1, <1>2, <1>3

\* A daemon that came up was called apt, and one that gave up fails the self test.
\* Where both parsers read the release, exactly the daemons that were promised
\* applications and have the privileges come up.
THEOREM VerdictsAlwaysAgree == Spec => []VerdictsAgree
<1>1. IInv => VerdictsAgree
  <2> SUFFICES ASSUME IInv, NEW p \in Daemons PROVE VerdictsAgree!(p)
    BY DEF VerdictsAgree
  <2> DEFINE report == EnvReport(machine, power[p])
             privileged == EnsureMinimum(machine, power[p])
             fit == Decide(report) # "Disabled"
             loads == CgroupRoot(machine) /\ ObjectLoads(machine, power[p])
  <2>1. machine.cgroup2 \in BOOLEAN /\ machine.btf \in BOOLEAN
    BY StartupAssumption DEF IInv, TypeOK, machine
  <2>2. /\ loads => IsApt(machine, power[p]) /\ JsonApt(report)
        /\ ~fit => ~loads /\ NoteFrom(EnvReport(machine, {}), None) = "unfit"
        /\ machine.release = "plain" =>
             (Promised(machine, power[p]) <=> privileged /\ fit /\ loads)
    BY <2>1, ChecksAgree
  <2>3. Found!(p)
    BY DEF IInv, Found
  <2>4. /\ pc[p] = "up" => privileged /\ fit /\ loads
        /\ pc[p] \in Refusals => ~privileged \/ ~fit \/ ~loads
        /\ pc[p] = "unfit" => ~fit
    BY <2>3 DEF Refusals
  <2>5. SelftestLoads(machine, power[p]) <=> privileged /\ loads
    BY DEF SelftestLoads
  <2> QED BY <2>2, <2>4, <2>5
<1> QED BY <1>1, Inductive, PTL
=============================================================================
