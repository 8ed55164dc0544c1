------------------------------ MODULE Sampler ------------------------------
(***************************************************************************)
(* What of the counted traffic reaches the database.                       *)
(*                                                                         *)
(* The aggregator keeps, for each application, the bytes counted since the *)
(* daemon started.  On every cycle the sampler (sampler.rs) registers the  *)
(* applications, turns the totals into deltas (counters.rs) and inserts    *)
(* the deltas in one transaction (samples.rs).  Any of its accesses to the *)
(* database can fail: the error is logged and the loop goes on.  The       *)
(* daemon can be killed at any moment, and systemd starts it again.        *)
(***************************************************************************)
EXTENDS Naturals

CONSTANTS
  Apps,         \* application keys
  MaxBytes,     \* bound: bytes counted for one application in a behaviour
  MaxFailures,  \* bound: failed database accesses in a behaviour
  MaxStarts     \* bound: starts of the daemon in a behaviour

ASSUME SamplerAssumption ==
  MaxBytes \in Nat /\ MaxFailures \in Nat /\ MaxStarts \in Nat \ {0}

VARIABLES
  pc,         \* what the daemon is doing
  total,      \* Aggregator.totals
  listed,     \* applications Aggregator.totals has an entry for
  cached,     \* Store.app_cache
  last,       \* DeltaTracker.last
  tracked,    \* applications DeltaTracker.last has an entry for
  batch,      \* deltas of the tick in progress
  persisted,  \* bytes in the database
  failures,   \* failed accesses so far (for the bound)
  starts,     \* starts so far (for the bound)
  counted,    \* history: bytes counted, in every run
  before,     \* history: bytes in the database when this run began
  base,       \* history: total at the first reading of the run
  lossy,      \* history: applications a failed tick of this run took bytes of
  skipped     \* history: applications the last tick did not reach

runVars == <<total, listed, cached, last, tracked>>
historyVars == <<counted, before>>
vars == <<pc, runVars, batch, persisted, failures, starts, historyVars, base,
          lossy, skipped>>

Zero == [a \in Apps |-> 0]

TypeOK ==
  /\ pc \in {"down", "read", "tick", "insert"}
  /\ total \in [Apps -> Nat]
  /\ listed \subseteq Apps
  /\ cached \subseteq Apps
  /\ last \in [Apps -> Nat]
  /\ tracked \subseteq Apps
  /\ batch \in [Apps -> Nat]
  /\ persisted \in [Apps -> Nat]
  /\ failures \in 0 .. MaxFailures
  /\ starts \in 0 .. MaxStarts
  /\ counted \in [Apps -> Nat]
  /\ before \in [Apps -> Nat]
  /\ base \in [Apps -> Nat]
  /\ lossy \subseteq Apps
  /\ skipped \subseteq Apps

Init ==
  /\ pc = "down"
  /\ total = Zero /\ listed = {} /\ cached = {} /\ last = Zero /\ tracked = {}
  /\ batch = Zero
  /\ persisted = Zero
  /\ failures = 0 /\ starts = 0
  /\ counted = Zero /\ before = Zero /\ base = Zero
  /\ lossy = {} /\ skipped = {}

-----------------------------------------------------------------------------
(* The daemon.                                                             *)

\* Sampler::new, with an aggregator, a tracker and a cache that are empty.
Start ==
  /\ pc = "down"
  /\ starts < MaxStarts
  /\ starts' = starts + 1
  /\ pc' = "read"
  /\ total' = Zero /\ listed' = {} /\ cached' = {} /\ last' = Zero
  /\ tracked' = {}
  /\ batch' = Zero
  /\ before' = persisted
  /\ base' = Zero /\ lossy' = {} /\ skipped' = {}
  /\ UNCHANGED <<persisted, failures, counted>>

\* The daemon is killed, or the maps cannot be read: a transaction in progress
\* is rolled back.  Bound: not in the last run.
Stop ==
  /\ pc # "down"
  /\ starts < MaxStarts
  /\ pc' = "down"
  /\ UNCHANGED <<runVars, batch, persisted, failures, starts, historyVars,
                 base, lossy, skipped>>

\* Aggregator.sample credits what the kernel counted to the applications of the
\* cookies read.  An entry can appear with nothing in it: a cookie that was known
\* under another application and has been idle since.
Sample(bytes, apps) ==
  /\ pc = "read"
  /\ pc' = "tick"
  /\ \A a \in Apps : bytes[a] > 0 => a \in apps
  /\ \A a \in Apps : counted[a] + bytes[a] <= MaxBytes
  /\ total' = [a \in Apps |-> total[a] + bytes[a]]
  /\ listed' = listed \cup apps
  /\ counted' = [a \in Apps |-> counted[a] + bytes[a]]
  /\ UNCHANGED <<cached, last, tracked, batch, persisted, failures, starts,
                 before, base, lossy, skipped>>

\* Fault: the subtraction is the other way round.
DeltaBackwards(a) == IF a \notin tracked THEN 0 ELSE last[a] - total[a]

\* DeltaTracker.delta: nothing at the first reading, which is the baseline; the
\* increase since the last reading; everything if the total went down.
Delta(a) ==
  IF a \notin tracked THEN 0
  ELSE IF total[a] >= last[a] THEN total[a] - last[a] ELSE total[a]

\* Fault: the reading is not remembered.
ForgetsReading(done) ==
  [a \in Apps |-> IF a \in done \ tracked THEN total[a] ELSE last[a]]

\* Fault: every reading is remembered before the applications are registered.
RemembersAll(done) == [a \in Apps |-> IF a \in listed THEN total[a] ELSE last[a]]

\* The readings DeltaTracker remembers once the applications of done were read.
Readings(done) == [a \in Apps |-> IF a \in done THEN total[a] ELSE last[a]]

\* upsert_app and delta, for the applications of done.
TakeDeltas(done) ==
  /\ cached' = cached \cup done
  /\ tracked' = tracked \cup done
  /\ last' = Readings(done)
  /\ base' = [a \in Apps |-> IF a \in done \ tracked THEN total[a] ELSE base[a]]
  /\ skipped' = listed \ done

\* Every application is registered.
TickRegisters ==
  /\ pc = "tick"
  /\ pc' = "insert"
  /\ TakeDeltas(listed)
  /\ batch' = [a \in Apps |-> IF a \in listed THEN Delta(a) ELSE 0]
  /\ UNCHANGED <<total, listed, persisted, failures, starts, historyVars, lossy>>

\* sort_by_total: the applications before f in the list.
Before(done, f) ==
  /\ done \subseteq listed \ {f}
  /\ \A a \in done : total[a] >= total[f]
  /\ \A a \in listed : total[a] > total[f] => a \in done

\* upsert_app fails for f, which is not cached: tick returns the error, and the
\* deltas taken from the applications before f are dropped.
TickFails(f, done) ==
  /\ pc = "tick"
  /\ failures < MaxFailures
  /\ f \in listed \ cached
  /\ Before(done, f)
  /\ pc' = "read"
  /\ failures' = failures + 1
  /\ TakeDeltas(done)
  /\ lossy' = lossy \cup {a \in done : Delta(a) > 0}
  /\ UNCHANGED <<total, listed, batch, persisted, starts, historyVars>>

\* The rows of the tick are added to the table.
Inserted == [a \in Apps |-> persisted[a] + batch[a]]

\* insert_samples commits.
Insert ==
  /\ pc = "insert"
  /\ pc' = "read"
  /\ persisted' = Inserted
  /\ batch' = Zero
  /\ UNCHANGED <<runVars, failures, starts, historyVars, base, lossy, skipped>>

\* Fault: the rows inserted before the failure stay.
FailsHalfway ==
  /\ pc = "insert"
  /\ failures < MaxFailures
  /\ pc' = "read"
  /\ failures' = failures + 1
  /\ \E some \in SUBSET Apps :
       persisted' = [a \in Apps |-> IF a \in some THEN Inserted[a] ELSE persisted[a]]
  /\ lossy' = lossy \cup {a \in Apps : batch[a] > 0}
  /\ batch' = Zero
  /\ UNCHANGED <<runVars, starts, historyVars, base, skipped>>

\* insert_samples fails: nothing is inserted.
InsertFails ==
  /\ pc = "insert"
  /\ failures < MaxFailures
  /\ pc' = "read"
  /\ failures' = failures + 1
  /\ lossy' = lossy \cup {a \in Apps : batch[a] > 0}
  /\ batch' = Zero
  /\ UNCHANGED <<runVars, persisted, starts, historyVars, base, skipped>>

\* Bound: one more byte for each application and cycle.
Next ==
  \/ Start
  \/ Stop
  \/ \E bytes \in [Apps -> 0 .. 1], apps \in SUBSET Apps : Sample(bytes, apps)
  \/ TickRegisters
  \/ \E f \in Apps, done \in SUBSET Apps : TickFails(f, done)
  \/ Insert
  \/ InsertFails

Spec == Init /\ [][Next]_vars
-----------------------------------------------------------------------------
(* Properties.                                                             *)

\* Whatever fails and however often the daemon restarts, the database never
\* holds more than was counted: no byte is persisted twice.
NothingInvented == \A a \in Apps : persisted[a] <= counted[a]

\* In a run, the database gains what was counted since the first reading, for
\* every application no failed tick took bytes of.  One that a failed tick did
\* not reach loses nothing: the next tick makes up for it.
ExactUnlessDropped ==
  pc = "read" =>
    \A a \in tracked \ lossy :
      a \notin skipped =>
        persisted[a] + base[a] = before[a] + total[a]

\* counters.rs:7-8: the first reading is a baseline "para no atribuir al arranque
\* tráfico acumulado previo": what it leaves out was counted before the run, so
\* that all the run counted is persisted when no access failed.
BaselineIsPrevious ==
  pc = "read" /\ failures = 0 =>
    \A a \in tracked : persisted[a] = before[a] + total[a]
-----------------------------------------------------------------------------
(* Why: where the bytes of an application are.                             *)

\* What the readings hold is in the database, or in the batch, or was dropped.
Accounted ==
  pc # "down" =>
    /\ tracked \subseteq listed /\ cached = tracked
    /\ \A a \in Apps :
         /\ last[a] <= total[a]
         /\ base[a] <= last[a]
         /\ persisted[a] + batch[a] + base[a] <= before[a] + last[a]
         /\ before[a] + total[a] <= counted[a]
         /\ a \in tracked \ lossy =>
              persisted[a] + batch[a] + base[a] = before[a] + last[a]
         /\ a \notin tracked =>
              last[a] = 0 /\ base[a] = 0 /\ persisted[a] = before[a]
         /\ pc # "insert" => batch[a] = 0
         /\ pc \in {"read", "insert"} /\ a \in tracked \ skipped =>
              last[a] = total[a]
-----------------------------------------------------------------------------
(* The promise.                                                            *)

\* What is still to be recorded: the batch, and what the tracker has not read.
\* Nothing of it survives the daemon.
Pending ==
  [a \in Apps |-> IF pc = "down" THEN 0 ELSE batch[a] + (total[a] - last[a])]

Promise == INSTANCE Ledger WITH pending <- Pending, recorded <- persisted

\* The sampler, its tracker and the insert keep the promise of Ledger: every
\* insert records exactly what is pending, of all applications at once; what a
\* failed tick, a baseline or a restart gives up is all that is pending of an
\* application and is never recorded later.
KeepsPromise == Promise!Spec

\* Why it records all of it: when the batch is complete, nothing is unread.
AllRead ==
  pc # "down" =>
    \A a \in Apps :
      /\ a \notin listed => total[a] = 0
      /\ pc = "insert" => last[a] = total[a]
=============================================================================
