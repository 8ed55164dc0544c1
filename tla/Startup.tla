------------------------------ MODULE Startup ------------------------------
(***************************************************************************)
(* How the daemon starts (main.rs), beside the other processes that open   *)
(* its database: the database first, then the socket (ipc_server.rs), then *)
(* what the machine and the privileges allow, then the eBPF object and its *)
(* programs.  The service is started again by systemd when it fails; a     *)
(* second daemon may be started by hand on the same database.              *)
(***************************************************************************)
EXTENDS Settings, Preflight

CONSTANTS
  Managed,   \* the daemon of the service
  Scenes     \* [scene]: a machine (see Preflight), the
             \* privileges of each daemon, and the daemons that may write in
             \* the directory of the socket

Daemons == {p \in Openers : Job[p] = "run"}

ASSUME StartupAssumption ==
  /\ Managed \in Daemons
  /\ \A s \in Scenes :
       /\ s.machine.release \in {"plain", "odd", "opaque"}
       /\ s.machine.cgroup2 \in BOOLEAN /\ s.machine.btf \in BOOLEAN
       /\ s.power \in [Daemons -> SUBSET Privileges]
       /\ s.writers \subseteq Daemons

VARIABLES
  scene,      \* where all this happens
  path,       \* the daemon whose socket the file is, or None for no file
  listening   \* the daemons that accept connections

startupVars == <<scene, path, listening>>
vars == <<settingsVars, startupVars>>

\* The daemon ends for want of privileges, by its decision, or as it loads.
Refusals == {"refused", "unfit", "not loaded"}
Ended == {"off", "done", "failed"} \cup Refusals

TypeOK ==
  /\ version \in Versions \cup {Target}
  /\ tables \in BOOLEAN
  /\ {row, expected} \subseteq StoreConfig \cup {None}
  /\ local \in Detected
  /\ pc \in [Openers -> Ended \cup
       {"open", "migrate", "exists", "first run", "load", "save", "socket",
        "bind", "privileges", "environment", "object", "up"}]
  /\ cfg \in [Openers -> StoreConfig \cup {None}]
  /\ request \in [{p \in Openers : Job[p] = "set"} -> Requests]
  /\ faults \in 0 .. MaxFaults
  /\ stale \subseteq Openers /\ disturbed \in BOOLEAN
  /\ scene \in Scenes
  /\ listening \subseteq Daemons
  /\ path \in Daemons \cup {None}

Init ==
  /\ SettingsInit
  /\ scene \in Scenes
  /\ path = None /\ listening = {}

machine == scene.machine
power == scene.power

\* The configuration is in the sampler from here on.
database == <<file, local, request, settingsHistory>>

-----------------------------------------------------------------------------
(* ipc_server::spawn: whatever fails, the daemon goes on without a socket.  *)

\* A file that is there is removed, if the daemon may.
RemoveOld(p) ==
  /\ pc[p] = "socket"
  /\ Goto(p, "bind")
  /\ path' = IF p \in scene.writers THEN None ELSE path
  /\ UNCHANGED <<database, cfg, faults, scene, listening>>

Bind(p) ==
  /\ pc[p] = "bind"
  /\ Goto(p, "privileges")
  /\ IF path = None /\ p \in scene.writers
     THEN path' = p /\ listening' = listening \cup {p}
     ELSE UNCHANGED <<path, listening>>
  /\ UNCHANGED <<database, cfg, faults, scene>>

\* The permissions cannot be set: the listener is dropped, and the file stays.
BindInVain(p) ==
  /\ pc[p] = "bind"
  /\ path = None /\ p \in scene.writers
  /\ faults < MaxFaults
  /\ faults' = faults + 1
  /\ Goto(p, "privileges")
  /\ path' = p
  /\ UNCHANGED <<database, cfg, scene, listening>>

\* serve ends at the first connection it cannot accept, for want of descriptors
\* or of memory; the daemon goes on.
AcceptFails(p) ==
  /\ p \in listening
  /\ faults < MaxFaults
  /\ faults' = faults + 1
  /\ listening' = listening \ {p}
  /\ UNCHANGED <<database, pc, cfg, scene, path>>

-----------------------------------------------------------------------------
(* The machine.                                                            *)

\* The process ends; the file of its socket stays.
Leave(p, place) == Exit(p, place) /\ listening' = listening \ {p}

\* Either the daemon goes on to the next step or it returns an error.
Requires(p, condition, next, refusal) ==
  /\ IF condition
     THEN Goto(p, next) /\ UNCHANGED <<cfg, stale, listening>>
     ELSE Leave(p, refusal)
  /\ UNCHANGED <<file, local, request, faults, expected, disturbed, scene,
                 path>>

CheckPrivileges(p) ==
  /\ pc[p] = "privileges"
  /\ Requires(p, EnsureMinimum(machine, power[p]), "environment", "refused")

\* Only Disabled stops the daemon.
CheckEnvironment(p) ==
  /\ pc[p] = "environment"
  /\ Requires(p, Decide(EnvReport(machine, power[p])) # "Disabled",
              "object", "unfit")

\* cgroup_v2_root, loader::load and attach_all.
LoadAndAttach(p) ==
  /\ pc[p] = "object"
  /\ Requires(p, CgroupRoot(machine) /\ ObjectLoads(machine, power[p]),
              "up", "not loaded")

-----------------------------------------------------------------------------
(* The processes.                                                          *)

\* What a daemon or a command does by itself.
Proceed(p) ==
  \/ SettingsStep(p) /\ UNCHANGED startupVars
  \/ RemoveOld(p) \/ Bind(p)
  \/ CheckPrivileges(p) \/ CheckEnvironment(p) \/ LoadAndAttach(p)

Begin(p) == Start(p) /\ UNCHANGED startupVars

\* The daemon is killed, or an access to the database, to a map or to a file
\* fails.
Dies(p) ==
  /\ pc[p] \notin Ended
  /\ Die(p)
  /\ listening' = listening \ {p}
  /\ UNCHANGED <<scene, path>>

\* Restart=on-failure.  The directory of the socket goes with the service and
\* comes back empty.
Restart ==
  /\ pc[Managed] \in {"failed"} \cup Refusals
  /\ Goto(Managed, "open")
  /\ path' = None
  /\ UNCHANGED <<database, cfg, faults, scene, listening>>

Fault(p) ==
  \/ SettingsFault(p) /\ UNCHANGED startupVars
  \/ Dies(p)
  \/ BindInVain(p)
  \/ AcceptFails(p)

Next ==
  \/ \E p \in Openers : Begin(p) \/ Proceed(p) \/ Fault(p)
  \/ Restart

Spec == Init /\ [][Next]_vars

\* Processes go on until they end, the service is started, and systemd starts it
\* again.  Nobody has to run a command.
FairSpec ==
  /\ Spec
  /\ \A p \in Openers : WF_vars(Proceed(p))
  /\ WF_vars(Begin(Managed))
  /\ WF_vars(Restart)

-----------------------------------------------------------------------------
(* Properties.                                                             *)

\* selftest.rs: the daemon's own load, for an answer.
SelftestLoads(m, privileges) ==
  /\ EnsureMinimum(m, privileges)
  /\ CgroupRoot(m)
  /\ ObjectLoads(m, privileges)

\* main.rs:103-108: a daemon that finds the machine unfit or lacks privileges has
\* left a database the interface can open, whatever other processes did.
DiagnosisPossible ==
  \A p \in Daemons :
    pc[p] \in Refusals => tables /\ version = Target /\ row # None

\* --check --json announces applications, and enough privileges: the mode Full.
Promised(m, privileges) ==
  EnvReport(m, privileges).per_app /\ EnvReport(m, privileges).caps_ok

\* What each check says of the machine against what the daemon finds there.
\* Whoever measures was called apt by --check and --check --json, and
\* --selftest-load succeeds; whoever gives up fails --selftest-load.  To be apt
\* promises nothing: the promise that is kept, both ways, is that of per_app
\* and caps_ok (env.rs), wherever both parsers read the release.  So a daemon
\* gives up on a machine called apt only for want of privileges or on a kernel
\* before 5.8, which NoPerAppMeasures is about.  The interface says unfit of
\* the machine a daemon ends for.
VerdictsAgree ==
  \A p \in Daemons :
    /\ pc[p] = "up" =>
         /\ IsApt(machine, power[p])
         /\ JsonApt(EnvReport(machine, power[p]))
         /\ SelftestLoads(machine, power[p])
    /\ pc[p] \in Refusals => ~SelftestLoads(machine, power[p])
    /\ machine.release = "plain" =>
         /\ pc[p] = "up" => Promised(machine, power[p])
         /\ pc[p] \in Refusals => ~Promised(machine, power[p])
    /\ pc[p] = "unfit" => NoteFrom(EnvReport(machine, {}), None) = "unfit"

\* docs/kernel-matrix.md:26, of NoPerApp (kernels 4.10 to 5.7): "Solo consumo
\* total del sistema (sin `RingBuf`). Requiere root."  A daemon that runs as root
\* in this mode is not stopped by the object it loads.
NoPerAppMeasures ==
  \A p \in Daemons :
    /\ Decide(EnvReport(machine, power[p])) = "NoPerApp"
    /\ AtLeast(machine.kernel, 4, 10)
    /\ "root" \in power[p]
    => pc[p] # "not loaded"

\* On a machine that allows it the service comes up, and comes up again, although
\* it dies, or another process migrates or configures the database at the same
\* time.
ComesUp ==
  version <= Target /\ SelftestLoads(machine, power[Managed])
    ~> pc[Managed] = "up"

-----------------------------------------------------------------------------
(* Why: what a daemon has found at each place.                             *)

\* Only daemons get past the database, and there is one.
DatabaseFirst ==
  \A p \in Openers :
    pc[p] \in {"socket", "bind", "privileges", "environment", "object", "up"}
             \cup Refusals =>
      p \in Daemons /\ version = Target /\ row # None

Found ==
  \A p \in Daemons :
    LET privileged == EnsureMinimum(machine, power[p])
        fit == Decide(EnvReport(machine, power[p])) # "Disabled"
        loads == CgroupRoot(machine) /\ ObjectLoads(machine, power[p])
    IN /\ pc[p] \in {"environment", "object", "up"} => privileged
       /\ pc[p] \in {"object", "up"} => fit
       /\ pc[p] = "up" => loads
       /\ pc[p] = "refused" => ~privileged
       /\ pc[p] = "unfit" => ~fit
       /\ pc[p] = "not loaded" => ~loads
=============================================================================
