-------------------------------- MODULE Tui --------------------------------
(***************************************************************************)
(* The interface (netusage-tui): the loop of app.rs, the state and its     *)
(* transitions (state.rs, update.rs, event.rs), what it reads of the       *)
(* database (data.rs) and what it draws (ui), with the thread that looks   *)
(* for a new release (release).                                            *)
(*                                                                         *)
(* The database is written by other processes while the interface reads    *)
(* it.  Where periods begin and end is in Periods.                         *)
(***************************************************************************)
EXTENDS Preflight, Integers, Sequences, FiniteSets, Functions

CONSTANTS
  Apps,        \* applications, numbered in the order of their names
  Contents,    \* states of the database
  Held,        \* the bytes it then holds, by period and application
  Machines,    \* machines the interface runs on (see Preflight)
  Refresh,     \* ticks between two refreshes
  Current,     \* this release; releases are numbered, and 0 is no version
  MaxRelease,  \* bound: the last release
  Files,       \* what a session may find of the last release seen: [tag, fresh]
  MaxChanges,  \* bound: changes of the database in a behaviour
  None         \* no summary, no message, no release

Period == {"today", "week", "month", "last month"}

\* AppUsage and PeriodSummary
Usages == [app : Apps, total : Nat]
Summaries == [period : Period, total : Nat, apps : Seq(Usages)]

ASSUME TuiAssumption ==
  /\ Apps \subseteq Nat /\ IsFiniteSet(Apps)
  /\ Held \in [Contents -> [Period -> [Apps -> Nat]]]
  /\ Contents \cap {"absent", "unreadable"} = {}
  /\ Refresh \in Nat \ {0}
  /\ MaxRelease \in Nat /\ Current \in 1 .. MaxRelease
  /\ Files \subseteq [tag : 0 .. MaxRelease, fresh : BOOLEAN]
  /\ MaxChanges \in Nat
  /\ None \notin Nat \cup Summaries

VARIABLES
  db,        \* a content, "absent" or "unreadable"
  changes,   \* changes of the database so far (for the bound)
  pc,        \* where the loop is
  due,       \* the data are loaded for the refresh, at the end of a turn
  fetched,   \* usage_total of a fetch in progress, or None
  elapsed,   \* ticks since the last refresh, up to Refresh
  state,     \* AppState
  torn,      \* history: the database changed between the two queries
  thread,    \* where the release check is
  known,     \* what it knows: a release, or None
  channel,   \* the message that is still to be received, or None
  cache      \* the file of the last release seen: [tag, fresh], or None

environment == <<db, changes>>
loopVars == <<pc, due, fetched, elapsed, state, torn>>
releaseVars == <<thread, known, channel, cache>>
vars == <<environment, loopVars, releaseVars>>

-----------------------------------------------------------------------------
(* data.rs                                                                 *)

\* usage_total
TotalOf(content, p) == SumFunction(Held[content][p])

\* Fault: the applications of the month.
MonthRows(content, p) ==
  {[app |-> a, total |-> Held[content]["month"][a]] :
     a \in {a \in Apps : Held[content][p][a] > 0}}

\* usage_by_app: an application without samples in the period has no row.
Rows(content, p) ==
  {[app |-> a, total |-> Held[content][p][a]] :
     a \in {a \in Apps : Held[content][p][a] > 0}}

\* sort_by_usage: by total, and by name.
Precedes(r, s) == r.total > s.total \/ (r.total = s.total /\ r.app < s.app)

\* In each place the row that as many precede as there are places before.
SortByUsage(rows) ==
  [i \in 1 .. Cardinality(rows) |->
     CHOOSE r \in rows : Cardinality({s \in rows : Precedes(s, r)}) = i - 1]

SumOf(apps) == SumFunction([i \in DOMAIN apps |-> apps[i].total])

\* PeriodSummary
Summary(p, total, content) ==
  [period |-> p, total |-> total, apps |-> SortByUsage(Rows(content, p))]

-----------------------------------------------------------------------------
(* state.rs and update.rs                                                  *)

\* Where the periods are in the interface, and their neighbours.
All == <<"today", "week", "month", "last month">>
Position(p) == CHOOSE i \in 1 .. 4 : All[i] = p
NextOf(p) == All[(Position(p) % 4) + 1]
PrevOf(p) == All[((Position(p) + 2) % 4) + 1]

AppCount(s) == IF s.summary = None THEN 0 ELSE Len(s.summary.apps)

\* Fault: the selection stays where it is.
Unclamped(i, count) == i

\* Fault: the last row, though there may be none.
LastRow(i, count) == IF i >= count THEN count - 1 ELSE i

\* set_summary: the selection in a list of another length.
Clamped(i, count) ==
  IF count = 0 THEN 0 ELSE IF i >= count THEN count - 1 ELSE i

DataLoaded(s, summary) ==
  [s EXCEPT !.summary = summary,
            !.selected = Clamped(@, Len(summary.apps)),
            !.connection = "ready"]

\* What was shown stays in memory.
DataFailed(s, reason) == [s EXCEPT !.connection = reason]

\* NextPeriod, PrevPeriod, Refresh: the data are loaded before anything is drawn.
Show(s, p) == [s EXCEPT !.period = p, !.connection = "loading"]

Keys == {"q", "Esc", "Tab", "h", "j", "k", "Enter", "r", "other"}

\* map_key and update
Press(s, key) ==
  CASE key = "Esc" /\ s.show_detail -> [s EXCEPT !.show_detail = FALSE]
    [] key = "q" \/ (key = "Esc" /\ ~s.show_detail) ->
         [s EXCEPT !.should_quit = TRUE]
    [] key = "Enter" -> [s EXCEPT !.show_detail = ~@]
    [] key = "Tab" -> Show(s, NextOf(s.period))
    [] key = "h" -> Show(s, PrevOf(s.period))
    [] key = "r" -> Show(s, s.period)
    [] key = "j" /\ s.selected + 1 < AppCount(s) -> [s EXCEPT !.selected = @ + 1]
    [] key = "k" /\ s.selected > 0 -> [s EXCEPT !.selected = @ - 1]
    [] OTHER -> s

-----------------------------------------------------------------------------
(* ui: what is on the screen.                                              *)

Hints == {"environment", "absent", "unreadable"}

Panel(s) == s.connection \in Hints

\* app_list: the row that is highlighted, or None.
Highlighted(s) ==
  IF AppCount(s) = 0 THEN None
  ELSE LET last == AppCount(s) - 1
       IN s.summary.apps[1 + IF s.selected < last THEN s.selected ELSE last]

\* detail: the row of selected_app.
Detailed(s) ==
  IF s.selected < AppCount(s) THEN s.summary.apps[s.selected + 1] ELSE None

-----------------------------------------------------------------------------

AppState ==
  [period : Period, summary : Summaries \cup {None}, selected : Nat,
   connection : {"loading", "ready"} \cup Hints,
   should_quit : BOOLEAN, show_detail : BOOLEAN,
   update_note : 0 .. MaxRelease \cup {None},
   degraded_note : {None, "unfit", "no per app"}]

TypeOK ==
  /\ db \in Contents \cup {"absent", "unreadable"}
  /\ changes \in 0 .. MaxChanges
  /\ pc \in {"loop", "fetch", "list", "failed", "poll", "gone"}
  /\ due \in BOOLEAN
  /\ fetched \in Nat \cup {None}
  /\ elapsed \in 0 .. Refresh
  /\ state \in AppState
  /\ torn \in BOOLEAN
  /\ thread \in {"disabled", "read", "ask", "tell", "done"}
  /\ {known, channel} \subseteq 0 .. MaxRelease \cup {None}
  /\ cache = None \/ cache \in [tag : 0 .. MaxRelease, fresh : BOOLEAN]

\* AppState::new, with the note of the environment; the check of the release is
\* disabled or begins.
Init ==
  /\ db \in Contents \cup {"absent", "unreadable"}
  /\ changes = 0
  /\ pc = "loop" /\ due = FALSE /\ fetched = None /\ elapsed = 0
  /\ \E p \in Period, m \in Machines :
       state = [period |-> p, summary |-> None, selected |-> 0,
                connection |-> "loading", should_quit |-> FALSE,
                show_detail |-> FALSE, update_note |-> None,
                degraded_note |-> NoteFrom(EnvReport(m, {}), None)]
  /\ torn = FALSE
  /\ thread \in {"disabled", "read"}
  /\ known = None /\ channel = None
  /\ cache \in Files \cup {None}

-----------------------------------------------------------------------------
(* The loop.                                                               *)

\* What the thread has sent is received, once.  Then comes the screen, and the
\* wait for a key.
Loop ==
  /\ pc = "loop"
  /\ IF state.update_note = None /\ channel # None
     THEN state' = [state EXCEPT !.update_note = channel] /\ channel' = None
     ELSE UNCHANGED <<state, channel>>
  /\ pc' = IF state.connection = "loading" THEN "fetch" ELSE "poll"
  /\ UNCHANGED <<environment, due, fetched, elapsed, torn, thread, known, cache>>

\* The order to quit is obeyed at the end of a turn, after a refresh.
EndTurn(s) == pc' = IF s.should_quit THEN "gone" ELSE "loop"

\* fetch: the database is opened and asked for the total.
FetchTotal ==
  /\ pc = "fetch"
  /\ IF db \in Contents
     THEN fetched' = TotalOf(db, state.period) /\ pc' = "list"
     ELSE pc' = "failed" /\ UNCHANGED fetched
  /\ torn' = FALSE
  /\ UNCHANGED <<environment, due, elapsed, state, releaseVars>>

\* load returns: to the screen, or to the end of a turn with a refresh.
Loaded(s) ==
  /\ state' = s
  /\ IF due THEN EndTurn(s) /\ due' = FALSE /\ elapsed' = 0
     ELSE pc' = "poll" /\ UNCHANGED <<due, elapsed>>

\* The second query.
FetchList ==
  /\ pc = "list"
  /\ db \in Contents
  /\ Loaded(DataLoaded(state, Summary(state.period, fetched, db)))
  /\ fetched' = None
  /\ UNCHANGED <<environment, torn, releaseVars>>

FetchFails ==
  /\ pc = "list"
  /\ db \notin Contents
  /\ pc' = "failed"
  /\ fetched' = None
  /\ UNCHANGED <<environment, due, elapsed, state, torn, releaseVars>>

\* connection_hint looks for the file after the failure.
Explain ==
  /\ pc = "failed"
  /\ Loaded(DataFailed(state,
              IF state.degraded_note # None THEN "environment"
              ELSE IF db = "absent" THEN "absent" ELSE "unreadable"))
  /\ UNCHANGED <<environment, fetched, torn, releaseVars>>

\* Fault: a database that could not be read waits for the key r.
DueIfReady(s) == elapsed = Refresh /\ s.connection = "ready"

RefreshDue(s) == elapsed = Refresh

\* The rest of the turn, once poll returns.
Turn(s) ==
  /\ pc = "poll"
  /\ state' = s
  /\ IF RefreshDue(s) THEN pc' = "fetch" /\ due' = TRUE
     ELSE EndTurn(s) /\ UNCHANGED due
  /\ UNCHANGED <<environment, fetched, elapsed, torn, releaseVars>>

\* A key is pressed, or poll returns without one at the next refresh.
Key(key) == Turn(Press(state, key))

Timeout == elapsed = Refresh /\ Turn(state)

\* The terminal cannot be drawn or read: run_loop returns the error.
TerminalFails ==
  /\ pc = "poll"
  /\ pc' = "gone"
  /\ UNCHANGED <<environment, due, fetched, elapsed, state, torn, releaseVars>>

-----------------------------------------------------------------------------
(* The thread of the release check.  It dies with the interface.           *)

\* Fault: the same release is news.
NotOlder(tag) == tag >= Current

\* is_newer: a tag that is no version is not.
IsNewer(tag) == tag > Current

\* check: the banner of the latest release known, if it is newer.
Tell ==
  /\ thread = "tell"
  /\ pc # "gone"
  /\ thread' = "done"
  /\ channel' = IF known # None /\ IsNewer(known) THEN known ELSE None
  /\ UNCHANGED <<environment, loopVars, known, cache>>

\* resolve_latest_tag: a fresh file spares the request.
ReadCache ==
  /\ thread = "read"
  /\ pc # "gone"
  /\ known' = IF cache = None THEN None ELSE cache.tag
  /\ thread' = IF cache # None /\ cache.fresh THEN "tell" ELSE "ask"
  /\ UNCHANGED <<environment, loopVars, channel, cache>>

\* GitHub gives the tag of the latest release, which no older one follows; the
\* file is written if it can be.
Answered(tag, written) ==
  /\ thread = "ask"
  /\ pc # "gone"
  /\ known # None => tag >= known
  /\ known' = tag
  /\ thread' = "tell"
  /\ cache' = IF written THEN [tag |-> tag, fresh |-> TRUE] ELSE cache
  /\ UNCHANGED <<environment, loopVars, channel>>

\* Fault: without an answer nothing is known.
ForgetsStale == None

\* What is known without an answer: what the file said, however old.
Fallback == known

\* No answer in time, or one that is not understood.
Unanswered ==
  /\ thread = "ask"
  /\ pc # "gone"
  /\ known' = Fallback
  /\ thread' = "tell"
  /\ UNCHANGED <<environment, loopVars, channel, cache>>

-----------------------------------------------------------------------------
\* Time passes at any moment, up to where it makes a difference.
PassTime ==
  /\ pc # "gone"
  /\ elapsed < Refresh
  /\ elapsed' = elapsed + 1
  /\ UNCHANGED <<environment, pc, due, fetched, state, torn, releaseVars>>

\* Another process creates, changes or locks the database.
Change(content) ==
  /\ changes < MaxChanges
  /\ changes' = changes + 1
  /\ content # db
  /\ db' = content
  /\ torn' = (torn \/ pc = "list")
  /\ UNCHANGED <<pc, due, fetched, elapsed, state, releaseVars>>

Interface ==
  \/ Loop
  \/ FetchTotal \/ FetchList \/ FetchFails \/ Explain
  \/ Timeout

Release ==
  \/ ReadCache
  \/ \E tag \in 0 .. MaxRelease, written \in BOOLEAN : Answered(tag, written)
  \/ Unanswered
  \/ Tell

Next ==
  \/ Interface
  \/ \E key \in Keys : Key(key)
  \/ TerminalFails
  \/ Release
  \/ PassTime
  \/ \E content \in Contents \cup {"unreadable"} : Change(content)

Spec == Init /\ [][Next]_vars

\* The loop waits for a key no longer than the refresh, the request of the thread
\* has a timeout, and time passes.  Nobody has to press a key.
FairSpec ==
  /\ Spec
  /\ WF_vars(Interface \/ \E key \in Keys : Key(key))
  /\ WF_vars(Release)
  /\ WF_vars(PassTime)

-----------------------------------------------------------------------------
(* Why the screen agrees: the inductive invariant.                         *)

\* Between the two queries the total is the one of the period that is shown, and
\* of the database as it is, unless that has changed.
TotalFetched ==
  pc = "list" =>
    /\ fetched \in Nat
    /\ ~torn => db \in Contents /\ fetched = TotalOf(db, state.period)

\* The loop only waits for a key with the data loaded, or a panel that says why
\* not.
WaitsLoaded == pc = "poll" => state.connection # "loading"

\* What the loop draws, whether it waits already or comes back to draw it again.
SummaryDrawn ==
  pc \in {"loop", "poll"} /\ state.connection = "ready" =>
    /\ state.summary # None
    /\ state.summary.period = state.period
    /\ AppCount(state) = 0 \/ state.selected < AppCount(state)
    /\ ~torn => state.summary.total = SumOf(state.summary.apps)

\* What the thread has sent is what it knows in the end.
SentIsNews ==
  channel # None => thread = "done" /\ channel > Current /\ channel = known

-----------------------------------------------------------------------------
(* Properties.  What is on the screen is the state while the loop polls.   *)

\* The period in the title and the tabs is the one of the figures, whatever key
\* was pressed, however the loading went; the detail is of the row that is
\* highlighted, although the list has changed its length and its order since the
\* row was selected (state.rs:71).
FiguresAgree ==
  pc = "poll" /\ ~Panel(state) =>
    /\ state.connection = "ready"
    /\ state.summary.period = state.period
    /\ state.show_detail => Detailed(state) = Highlighted(state)

\* The total is the sum of the list, unless another process wrote between the
\* two queries of the last fetch (data.rs:42).
SumsAgree ==
  pc = "poll" /\ ~Panel(state) /\ ~torn =>
    state.summary.total = SumOf(state.summary.apps)

\* A banner only announces a release that is newer than this one, one the file
\* or GitHub told of; a session that does not check shows none.
BannerIsNews ==
  state.update_note # None =>
    /\ thread = "done"
    /\ state.update_note > Current
    /\ state.update_note = known

\* Nothing on the screen contradicts the rest of it or what the thread knows.
ScreenAgrees == FiguresAgree /\ SumsAgree /\ BannerIsNews

\* The database, as the screen would show it.
UpToDate ==
  pc = "poll" /\
  IF db \in Contents
  THEN /\ state.connection = "ready"
       /\ state.summary =
            Summary(state.period, TotalOf(db, state.period), db)
  ELSE Panel(state)

\* Whatever keys are pressed, and however many, the interface shows what the
\* database holds once it stays as it is: a torn reading does not last, a
\* database that appears or becomes readable is shown without being asked for.
FollowsDatabase == ~UpToDate ~> UpToDate \/ pc = "gone"

\* release/mod.rs:69: "Sin red, cae al último dato cacheado".  A newer release
\* that the file told of is announced, with an answer or without.
KnownReleaseTold ==
  known # None /\ IsNewer(known) ~> state.update_note # None \/ pc = "gone"

=============================================================================
