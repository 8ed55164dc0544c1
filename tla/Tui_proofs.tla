----------------------------- MODULE Tui_proofs -----------------------------
(***************************************************************************)
(* What is proved about the interface, for every database it may read, any *)
(* number of applications and every release.                               *)
(***************************************************************************)
EXTENDS Tui, SumTheorems, TLAPS

LEMMA Constants ==
  /\ Apps \subseteq Nat /\ IsFiniteSet(Apps)
  /\ Held \in [Contents -> [Period -> [Apps -> Nat]]]
  /\ Refresh \in Nat \ {0}
  /\ MaxRelease \in Nat /\ Current \in 1 .. MaxRelease
  /\ MaxChanges \in Nat
  /\ None \notin Nat /\ None \notin Summaries
BY TuiAssumption

-----------------------------------------------------------------------------
(* The list of applications.                                               *)

\* A part of a finite set is smaller.
LEMMA Smaller ==
  ASSUME NEW S, IsFiniteSet(S), NEW T \in SUBSET S, T # S
  PROVE  /\ IsFiniteSet(T) /\ Cardinality(T) \in Nat
         /\ Cardinality(T) < Cardinality(S)
<1>1. /\ IsFiniteSet(T) /\ Cardinality(T) <= Cardinality(S)
      /\ Cardinality(S) # Cardinality(T)
  BY FS_Subset
<1>2. Cardinality(T) \in Nat /\ Cardinality(S) \in Nat
  BY <1>1, FS_CardinalityType
<1> QED BY <1>1, <1>2

\* A row has its own place: the number of rows that precede it.
Place(rows, r) == Cardinality({s \in rows : Precedes(s, r)})

\* Rows of different applications precede each other one way or the other.
LEMMA PlacesDiffer ==
  ASSUME NEW rows \in SUBSET Usages, IsFiniteSet(rows),
         \A r, s \in rows : r.app = s.app => r = s
  PROVE  /\ \A r \in rows : Place(rows, r) \in 0 .. Cardinality(rows) - 1
         /\ \A r, s \in rows : Place(rows, r) = Place(rows, s) => r = s
<1> DEFINE before(r) == {s \in rows : Precedes(s, r)}
<1>1. \A r \in rows : r.total \in Nat /\ r.app \in Nat
  BY Constants DEF Usages
<1>2. \A r, s \in rows : r = s \/ Precedes(r, s) \/ Precedes(s, r)
  BY <1>1 DEF Precedes
<1>3. \A r \in rows : ~Precedes(r, r)
  BY <1>1 DEF Precedes
<1>4. \A r, s, t \in rows : Precedes(r, s) /\ Precedes(s, t) => Precedes(r, t)
  BY <1>1 DEF Precedes
<1>5. Cardinality(rows) \in Nat
  BY FS_CardinalityType
<1>6. ASSUME NEW r \in rows
      PROVE  /\ IsFiniteSet(before(r))
             /\ Cardinality(before(r)) \in 0 .. Cardinality(rows) - 1
  <2>1. before(r) \in SUBSET rows /\ before(r) # rows
    BY <1>3
  <2> HIDE DEF before
  <2> QED BY <1>5, <2>1, Smaller
<1>7. ASSUME NEW r \in rows, NEW s \in rows, Precedes(r, s)
      PROVE  Cardinality(before(r)) < Cardinality(before(s))
  <2>1. before(r) \in SUBSET before(s) /\ before(r) # before(s)
    BY <1>3, <1>4, <1>7
  <2>2. IsFiniteSet(before(s))
    BY <1>6
  <2> HIDE DEF before
  <2> QED BY <2>1, <2>2, Smaller
<1>8. \A r \in rows : Place(rows, r) = Cardinality(before(r))
  BY DEF Place
<1> HIDE DEF before
<1>9. ASSUME NEW r \in rows, NEW s \in rows, Place(rows, r) = Place(rows, s)
      PROVE  r = s
  <2>1. Cardinality(before(r)) = Cardinality(before(s))
    BY <1>8, <1>9
  <2>2. Cardinality(before(r)) \in Nat
    BY <1>5, <1>6
  <2>3. ~Precedes(r, s) /\ ~Precedes(s, r)
    BY <1>7, <2>1, <2>2
  <2> QED BY <1>2, <2>3
<1> QED BY <1>5, <1>6, <1>8, <1>9

\* The sorted list holds every row once.
LEMMA Sorted ==
  ASSUME NEW rows \in SUBSET Usages, IsFiniteSet(rows),
         \A r, s \in rows : r.app = s.app => r = s
  PROVE  /\ Cardinality(rows) \in Nat
         /\ SortByUsage(rows) \in Seq(Usages)
         /\ DOMAIN SortByUsage(rows) = 1 .. Cardinality(rows)
         /\ SortByUsage(rows) \in Bijection(1 .. Cardinality(rows), rows)
<1> DEFINE n == Cardinality(rows)
           place == [r \in rows |-> Place(rows, r) + 1]
           apps == SortByUsage(rows)
<1>1. n \in Nat
  BY FS_CardinalityType
<1>2. place \in Injection(rows, 1 .. n)
  <2>1. /\ \A r \in rows : Place(rows, r) \in 0 .. n - 1
        /\ \A r, s \in rows : Place(rows, r) = Place(rows, s) => r = s
    BY PlacesDiffer
  <2> HIDE DEF n
  <2>2. \A r \in rows : place[r] \in 1 .. n
    BY <1>1, <2>1
  <2>3. \A r, s \in rows : place[r] = place[s] => r = s
    BY <1>1, <2>1
  <2>4. place \in [rows -> 1 .. n]
    BY <2>2
  <2> QED BY <2>3, <2>4 DEF Injection, IsInjective
<1>3. IsFiniteSet(1 .. n) /\ Cardinality(1 .. n) = n
  <2> HIDE DEF n
  <2> QED BY <1>1, FS_Interval
<1>4. place \in Surjection(rows, 1 .. n)
  <2> HIDE DEF place
  <2> QED BY <1>2, <1>3, FS_Injection
<1>5. ASSUME NEW i \in 1 .. n PROVE \E r \in rows : Place(rows, r) = i - 1
  <2>1. PICK r \in rows : place[r] = i
    BY <1>4 DEF Surjection
  <2>2. place[r] = Place(rows, r) + 1
    OBVIOUS
  <2>3. Place(rows, r) \in Int
    BY PlacesDiffer, <1>1
  <2> HIDE DEF n, place
  <2>4. Place(rows, r) = i - 1
    BY <1>1, <2>1, <2>2, <2>3
  <2> QED BY <2>4
<1>6. \A i \in 1 .. n : apps[i] \in rows /\ Place(rows, apps[i]) = i - 1
  BY <1>5 DEF SortByUsage, Place
<1>7. apps \in [1 .. n -> rows] /\ DOMAIN apps = 1 .. n
  BY <1>6 DEF SortByUsage
<1>8. \A i, j \in 1 .. n : apps[i] = apps[j] => i = j
  <2> HIDE DEF n, apps
  <2> QED BY <1>1, <1>6
<1>9. \A r \in rows : \E i \in 1 .. n : apps[i] = r
  <2>1. ASSUME NEW r \in rows PROVE apps[place[r]] = r /\ place[r] \in 1 .. n
    <3>1. place[r] \in 1 .. n /\ place[r] = Place(rows, r) + 1
      BY <1>2 DEF Injection
    <3>2. Place(rows, r) \in Int
      BY PlacesDiffer, <1>1
    <3>3. Place(rows, apps[place[r]]) = Place(rows, r) /\ apps[place[r]] \in rows
      <4> HIDE DEF n, apps, place
      <4> QED BY <1>1, <1>6, <3>1, <3>2
    <3> HIDE DEF n, apps, place
    <3> QED BY <3>1, <3>3, PlacesDiffer
  <2> QED BY <2>1
<1> HIDE DEF n, apps, place
<1>10. apps \in Bijection(1 .. n, rows)
  BY <1>7, <1>8, <1>9 DEF Bijection, Injection, Surjection, IsInjective
<1>11. apps \in Seq(Usages)
  BY <1>1, <1>7
<1> QED BY <1>1, <1>7, <1>10, <1>11 DEF n, apps

LEMMA RowsTypes ==
  ASSUME NEW content \in Contents, NEW p \in Period
  PROVE  /\ Held[content][p] \in [Apps -> Nat]
         /\ Rows(content, p) \in SUBSET Usages
         /\ IsFiniteSet(Rows(content, p))
         /\ \A r, s \in Rows(content, p) : r.app = s.app => r = s
         /\ \A a \in Apps : Held[content][p][a] > 0 <=>
              [app |-> a, total |-> Held[content][p][a]] \in Rows(content, p)
         /\ \A r \in Rows(content, p) :
              r.app \in Apps /\ r.total = Held[content][p][r.app] /\ r.total > 0
<1> DEFINE f == Held[content][p]
           held == {a \in Apps : f[a] > 0}
           row == [a \in held |-> [app |-> a, total |-> f[a]]]
           rows == Rows(content, p)
<1>1. f \in [Apps -> Nat]
  BY Constants
<1>2. rows \in SUBSET Usages
  BY <1>1 DEF Rows, Usages
<1>3. \A r \in rows : r.app \in Apps /\ r.total = f[r.app] /\ r.total > 0
  BY DEF Rows
<1>4. \A r, s \in rows : r.app = s.app => r = s
  BY <1>3 DEF Rows
<1>5. \A a \in Apps : f[a] > 0 <=> [app |-> a, total |-> f[a]] \in rows
  BY <1>3 DEF Rows
<1>6. IsFiniteSet(rows)
  <2>1. IsFiniteSet(held)
    BY Constants, FS_Subset
  <2>2. row \in Surjection(held, rows)
    BY DEF Rows, Surjection
  <2> HIDE DEF row, held, rows
  <2> QED BY <2>1, <2>2, FS_Surjection
<1> QED BY <1>1, <1>2, <1>3, <1>4, <1>5, <1>6

\* The list has a row for every application with bytes, and no other bytes.
LEMMA ListSum ==
  ASSUME NEW content \in Contents, NEW p \in Period
  PROVE  /\ SortByUsage(Rows(content, p)) \in Seq(Usages)
         /\ TotalOf(content, p) \in Nat
         /\ SumOf(SortByUsage(Rows(content, p))) = TotalOf(content, p)
<1> DEFINE f == Held[content][p]
           held == {a \in Apps : f[a] > 0}
           rows == Rows(content, p)
           n == Cardinality(rows)
           apps == SortByUsage(rows)
           b == [i \in 1 .. n |-> apps[i].app]
           g == [i \in DOMAIN apps |-> apps[i].total]
<1>1. /\ f \in [Apps -> Nat] /\ rows \in SUBSET Usages /\ IsFiniteSet(rows)
      /\ \A r, s \in rows : r.app = s.app => r = s
      /\ \A a \in Apps : f[a] > 0 <=> [app |-> a, total |-> f[a]] \in rows
      /\ \A r \in rows : r.app \in Apps /\ r.total = f[r.app] /\ r.total > 0
  BY RowsTypes
<1>2. /\ n \in Nat /\ apps \in Seq(Usages) /\ DOMAIN apps = 1 .. n
      /\ apps \in Bijection(1 .. n, rows)
  <2> HIDE DEF rows
  <2> QED BY <1>1, Sorted
<1> HIDE DEF rows, n, apps, f
<1>3. /\ \A i \in 1 .. n : apps[i] \in rows
      /\ \A i, j \in 1 .. n : apps[i] = apps[j] => i = j
      /\ \A r \in rows : \E i \in 1 .. n : apps[i] = r
  BY <1>2 DEF Bijection, Injection, Surjection, IsInjective
<1>4. b \in Bijection(1 .. n, held)
  <2>1. \A i \in 1 .. n : b[i] \in held
    BY <1>1, <1>3
  <2>2. \A i, j \in 1 .. n : b[i] = b[j] => i = j
    BY <1>1, <1>3
  <2>3. ASSUME NEW a \in held PROVE \E i \in 1 .. n : b[i] = a
    <3>1. [app |-> a, total |-> f[a]] \in rows
      BY <1>1
    <3>2. PICK i \in 1 .. n : apps[i] = [app |-> a, total |-> f[a]]
      BY <1>3, <3>1
    <3> QED BY <3>2
  <2>4. b \in [1 .. n -> held]
    BY <2>1
  <2> HIDE DEF b, held
  <2> QED BY <2>2, <2>3, <2>4 DEF Bijection, Injection, Surjection, IsInjective
<1>5. \A i \in 1 .. n : g[i] = f[b[i]] /\ g[i] \in Nat
  BY <1>1, <1>2, <1>3
<1>6. SumFunctionOnSet(g, 1 .. n) = SumFunctionOnSet(f, held)
  <2>1. IsFiniteSet(1 .. n)
    BY <1>2, FS_Interval
  <2> DEFINE places == 1 .. n
  <2>2. IsFiniteSet(places) /\ b \in Bijection(places, held)
    BY <1>4, <2>1
  <2>3. \A i \in places : g[i] = f[b[i]] /\ g[i] \in Nat
    BY <1>5
  <2> HIDE DEF b, g, held, places
  <2>4. SumFunctionOnSet(g, places) = SumFunctionOnSet(f, held)
    BY <2>2, <2>3, SumReindex
  <2> QED BY <2>4 DEF places
<1>7. SumOf(apps) = SumFunctionOnSet(g, 1 .. n)
  <2>1. DOMAIN g = 1 .. n
    BY <1>2
  <2> QED BY <2>1 DEF SumOf, SumFunction
<1>8. /\ IsFiniteSet(Apps) /\ IsFiniteSet(held) /\ IsFiniteSet(Apps \ held)
      /\ held \in SUBSET Apps
      /\ \A a \in Apps : f[a] \in Nat
      /\ \A a \in Apps \ held : f[a] = 0
  BY <1>1, Constants, FS_Subset
<1> HIDE DEF held
<1>9. /\ SumFunctionOnSet(f, Apps)
           = SumFunctionOnSet(f, held) + SumFunctionOnSet(f, Apps \ held)
      /\ SumFunctionOnSet(f, Apps \ held) = 0
      /\ SumFunctionOnSet(f, held) \in Nat
      /\ SumFunctionOnSet(f, Apps) \in Nat
  <2>1. SumFunctionOnSet(f, Apps)
           = SumFunctionOnSet(f, held) + SumFunctionOnSet(f, Apps \ held)
    BY <1>8, SumSplit
  <2>2. SumFunctionOnSet(f, Apps \ held) = 0
    BY <1>8, SumZero
  <2>3. SumFunctionOnSet(f, held) \in Nat /\ SumFunctionOnSet(f, Apps) \in Nat
    BY <1>8, SumNatural
  <2> QED BY <2>1, <2>2, <2>3
<1>10. TotalOf(content, p) = SumFunctionOnSet(f, Apps)
  BY <1>1 DEF TotalOf, SumFunction, f
<1>11. SumOf(apps) = TotalOf(content, p)
  BY <1>6, <1>7, <1>9, <1>10
<1> QED BY <1>2, <1>9, <1>10, <1>11 DEF apps, rows

-----------------------------------------------------------------------------
(* Types.                                                                  *)

\* Keys and loads make states of the interface of such states.
LEMMA PressTypes ==
  ASSUME NEW s \in AppState, NEW key \in Keys
  PROVE  Press(s, key) \in AppState
<1>1. \A p \in Period : NextOf(p) \in Period /\ PrevOf(p) \in Period
  <2>1. All[1] = "today" /\ All[2] = "week" /\ All[3] = "month"
        /\ All[4] = "last month"
    BY DEF All
  <2>2. \A i \in 1 .. 4 : All[i] \in Period
    <3>1. \A i \in 1 .. 4 : i = 1 \/ i = 2 \/ i = 3 \/ i = 4
      OBVIOUS
    <3> QED BY <2>1, <3>1 DEF Period
  <2>3. ASSUME NEW p \in Period PROVE Position(p) \in 1 .. 4
    <3>1. 1 \in 1 .. 4 /\ 2 \in 1 .. 4 /\ 3 \in 1 .. 4 /\ 4 \in 1 .. 4
      OBVIOUS
    <3>2. \E i \in 1 .. 4 : All[i] = p
      BY <2>1, <3>1 DEF Period
    <3> QED BY <3>2 DEF Position
  <2>4. \A i \in 1 .. 4 : (i % 4) + 1 \in 1 .. 4 /\ ((i + 2) % 4) + 1 \in 1 .. 4
    OBVIOUS
  <2> QED BY <2>2, <2>3, <2>4 DEF NextOf, PrevOf
<1>2. s.period \in Period /\ s.selected \in Nat /\ s.show_detail \in BOOLEAN
  BY DEF AppState
<1>3. \A p \in Period : Show(s, p) \in AppState
  BY DEF Show, AppState
<1>4. [s EXCEPT !.show_detail = FALSE] \in AppState
      /\ [s EXCEPT !.should_quit = TRUE] \in AppState
  BY DEF AppState
<1>5. [s EXCEPT !.show_detail = ~@] \in AppState
  BY DEF AppState
<1>6. \A n \in Nat : [s EXCEPT !.selected = n] \in AppState
  BY DEF AppState
<1>7. s.selected + 1 \in Nat /\ (s.selected > 0 => s.selected - 1 \in Nat)
  BY <1>2
<1> QED BY <1>1, <1>2, <1>3, <1>4, <1>5, <1>6, <1>7 DEF Press, Keys

LEMMA LoadTypes ==
  ASSUME NEW s \in AppState
  PROVE  /\ \A summary \in Summaries : DataLoaded(s, summary) \in AppState
         /\ \A reason \in Hints : DataFailed(s, reason) \in AppState
<1>1. ASSUME NEW summary \in Summaries PROVE DataLoaded(s, summary) \in AppState
  <2>1. Len(summary.apps) \in Nat
    BY DEF Summaries
  <2>2. Clamped(s.selected, Len(summary.apps)) \in Nat
    <3>1. s.selected \in Nat
      BY DEF AppState
    <3> QED BY <2>1, <3>1 DEF Clamped
  <2> QED BY <2>2 DEF DataLoaded, AppState
<1>2. \A reason \in Hints : DataFailed(s, reason) \in AppState
  BY DEF DataFailed, AppState
<1> QED BY <1>1, <1>2

\* A list fetched after its total makes a summary.
LEMMA SummaryTypes ==
  ASSUME NEW content \in Contents, NEW p \in Period, NEW total \in Nat
  PROVE  Summary(p, total, content) \in Summaries
BY ListSum DEF Summary, Summaries

LEMMA TypeStep ==
  ASSUME TypeOK, TotalFetched, [Next]_vars
  PROVE  TypeOK'
<1>1. \A n \in 0 .. Refresh : n < Refresh => n + 1 \in 0 .. Refresh
  BY Constants
<1>2. \A n \in 0 .. MaxChanges : n < MaxChanges => n + 1 \in 0 .. MaxChanges
  BY Constants
<1>3. 0 \in 0 .. Refresh /\ TRUE \in BOOLEAN /\ FALSE \in BOOLEAN
  BY Constants
<1> USE DEF TypeOK, environment, loopVars, releaseVars
<1>4. CASE Loop
  <2>1. state' \in AppState
    BY <1>4 DEF Loop, AppState
  <2>2. channel' \in 0 .. MaxRelease \cup {None}
    BY <1>4 DEF Loop
  <2>3. pc' \in {"fetch", "poll"}
    BY <1>4 DEF Loop
  <2> QED BY <1>4, <2>1, <2>2, <2>3 DEF Loop
<1>5. CASE FetchTotal
  <2>1. fetched' \in Nat \cup {None} /\ pc' \in {"list", "failed"}
    <3>1. db \in Contents => TotalOf(db, state.period) \in Nat
      BY ListSum DEF AppState
    <3> QED BY <1>5, <3>1 DEF FetchTotal
  <2> QED BY <1>3, <1>5, <2>1 DEF FetchTotal
<1>6. ASSUME NEW s \in AppState, Loaded(s)
      PROVE  /\ state' \in AppState
             /\ pc' \in {"loop", "poll", "gone"}
             /\ due' \in BOOLEAN /\ elapsed' \in 0 .. Refresh
  BY <1>3, <1>6 DEF Loaded, EndTurn
<1>7. CASE FetchList
  <2>1. Summary(state.period, fetched, db) \in Summaries
    BY <1>7, SummaryTypes DEF FetchList, TotalFetched, AppState
  <2>2. DataLoaded(state, Summary(state.period, fetched, db)) \in AppState
    BY <2>1, LoadTypes
  <2>3. /\ state' \in AppState
        /\ pc' \in {"loop", "poll", "gone"}
        /\ due' \in BOOLEAN /\ elapsed' \in 0 .. Refresh
    BY <1>6, <1>7, <2>2 DEF FetchList
  <2> QED BY <1>7, <2>3 DEF FetchList
<1>8. CASE FetchFails
  BY <1>8 DEF FetchFails
<1>9. CASE Explain
  <2>1. PICK reason \in Hints : Loaded(DataFailed(state, reason))
    BY <1>9 DEF Explain, Hints
  <2>2. /\ state' \in AppState
        /\ pc' \in {"loop", "poll", "gone"}
        /\ due' \in BOOLEAN /\ elapsed' \in 0 .. Refresh
    BY <1>6, <2>1, LoadTypes
  <2> QED BY <1>9, <2>2 DEF Explain
<1>10. ASSUME NEW s \in AppState, Turn(s) PROVE TypeOK'
  <2>1. state' \in AppState /\ pc' \in {"fetch", "loop", "gone"} /\ due' \in BOOLEAN
    BY <1>3, <1>10 DEF Turn, EndTurn
  <2> QED BY <1>10, <2>1 DEF Turn
<1>11. CASE Timeout
  BY <1>10, <1>11 DEF Timeout
<1>12. ASSUME NEW key \in Keys, Key(key) PROVE TypeOK'
  BY <1>10, <1>12, PressTypes DEF Key
<1>13. CASE TerminalFails
  BY <1>13 DEF TerminalFails
<1>14. CASE Tell
  BY <1>14 DEF Tell
<1>15. CASE ReadCache
  <2>1. known' \in 0 .. MaxRelease \cup {None} /\ thread' \in {"tell", "ask"}
    BY <1>15 DEF ReadCache
  <2> QED BY <1>15, <2>1 DEF ReadCache
<1>16. ASSUME NEW tag \in 0 .. MaxRelease, NEW written \in BOOLEAN,
              Answered(tag, written)
       PROVE  TypeOK'
  <2>1. cache' = None \/ cache' \in [tag : 0 .. MaxRelease, fresh : BOOLEAN]
    BY <1>3, <1>16 DEF Answered
  <2> QED BY <1>16, <2>1 DEF Answered
<1>17. CASE Unanswered
  BY <1>17 DEF Unanswered, Fallback
<1>18. CASE PassTime
  BY <1>1, <1>18 DEF PassTime
<1>19. ASSUME NEW content \in Contents \cup {"unreadable"}, Change(content)
       PROVE  TypeOK'
  <2>1. db' \in Contents \cup {"absent", "unreadable"}
        /\ changes' \in 0 .. MaxChanges
    BY <1>2, <1>19 DEF Change
  <2>2. torn' \in BOOLEAN
    BY <1>19 DEF Change
  <2> QED BY <1>19, <2>1, <2>2 DEF Change
<1>20. CASE UNCHANGED vars
  BY <1>20 DEF vars
<1> QED BY <1>4, <1>5, <1>7, <1>8, <1>9, <1>11, <1>12, <1>13, <1>14, <1>15,
           <1>16, <1>17, <1>18, <1>19, <1>20
        DEF Next, Interface, Release

-----------------------------------------------------------------------------
(* What the loop draws.                                                    *)

\* The selection stays in the list, however its length has changed.
LEMMA ClampedInList ==
  ASSUME NEW i \in Nat, NEW count \in Nat
  PROVE  count = 0 \/ Clamped(i, count) < count
BY DEF Clamped

LEMMA Counts ==
  ASSUME NEW s \in AppState
  PROVE  s.selected \in Nat /\ AppCount(s) \in Nat
<1>1. s.selected \in Nat /\ s.summary \in Summaries \cup {None}
  BY DEF AppState
<1>2. CASE s.summary \in Summaries
  <2>1. s.summary.apps \in Seq(Usages)
    BY <1>2 DEF Summaries
  <2>2. Len(s.summary.apps) \in Nat
    BY <2>1
  <2> QED BY <1>1, <2>2 DEF AppCount
<1>3. CASE s.summary = None
  BY <1>1, <1>3 DEF AppCount
<1> QED BY <1>1, <1>2, <1>3

\* A key asks for the data of another period, or leaves what is drawn alone but
\* for the row that is selected, which stays in the list.
LEMMA PressKeepsDrawing ==
  ASSUME NEW s \in AppState, NEW key \in Keys
  PROVE  LET t == Press(s, key) IN
         \/ t.connection = "loading"
         \/ /\ t.connection = s.connection /\ t.summary = s.summary
            /\ t.period = s.period
            /\ \/ t.selected = s.selected
               \/ t.selected < AppCount(s)
               \/ s.selected > 0 /\ t.selected = s.selected - 1
<1> DEFINE t == Press(s, key)
<1>1. \A p : Show(s, p).connection = "loading"
  BY DEF Show, AppState
<1>2. ASSUME NEW n \in Nat
      PROVE  LET u == [s EXCEPT !.selected = n] IN
             /\ u.connection = s.connection /\ u.summary = s.summary
             /\ u.period = s.period /\ u.selected = n
  BY DEF AppState
<1>3. s.selected \in Nat /\ (s.selected > 0 => s.selected - 1 \in Nat)
  <2>1. s.selected \in Nat
    BY DEF AppState
  <2> QED BY <2>1
<1>4. CASE key \in {"Tab", "h", "r"}
  BY <1>1, <1>4 DEF Press
<1>5. CASE key = "j"
  BY <1>2, <1>3, <1>5 DEF Press
<1>6. CASE key = "k"
  BY <1>2, <1>3, <1>6 DEF Press
<1>7. CASE key \in {"Esc", "q", "Enter", "other"}
  BY <1>7 DEF Press, AppState
<1> QED BY <1>4, <1>5, <1>6, <1>7 DEF Keys

\* Neither does a key change what the banner says.
LEMMA PressKeepsNote ==
  ASSUME NEW s \in AppState, NEW key \in Keys
  PROVE  Press(s, key).update_note = s.update_note
BY DEF Press, Show, AppState

\* The inductive invariant.
IInv ==
  /\ TypeOK
  /\ TotalFetched
  /\ WaitsLoaded
  /\ SummaryDrawn
  /\ SentIsNews
  /\ BannerIsNews

LEMMA IInvInit == Init => IInv
<1> SUFFICES ASSUME Init PROVE IInv
  OBVIOUS
<1>1. 0 \in 0 .. MaxChanges /\ 0 \in 0 .. Refresh /\ 0 \in Nat
  BY Constants
<1>2. PICK p \in Period, m \in Machines :
        state = [period |-> p, summary |-> None, selected |-> 0,
                 connection |-> "loading", should_quit |-> FALSE,
                 show_detail |-> FALSE, update_note |-> None,
                 degraded_note |-> NoteFrom(EnvReport(m, {}), None)]
  BY DEF Init
<1>3. NoteFrom(EnvReport(m, {}), None) \in {None, "unfit", "no per app"}
  BY DEF NoteFrom
<1>4. state \in AppState
  BY <1>1, <1>2, <1>3 DEF AppState
<1>5. cache = None \/ cache \in [tag : 0 .. MaxRelease, fresh : BOOLEAN]
  BY TuiAssumption DEF Init
<1>6. TypeOK
  BY <1>1, <1>4, <1>5 DEF Init, TypeOK
<1>7. state.connection = "loading" /\ state.update_note = None
  BY <1>2
<1> QED BY <1>6, <1>7 DEF IInv, Init, TotalFetched, WaitsLoaded, SummaryDrawn,
              SentIsNews, BannerIsNews

LEMMA TotalFetchedStep ==
  ASSUME TypeOK, TotalFetched, [Next]_vars
  PROVE  TotalFetched'
<1> USE DEF TotalFetched, environment, loopVars, releaseVars
<1>1. CASE Loop
  BY <1>1 DEF Loop
<1>2. CASE FetchTotal
  <2>1. db \in Contents => TotalOf(db, state.period) \in Nat
    BY ListSum DEF TypeOK, AppState
  <2> QED BY <1>2, <2>1 DEF FetchTotal, TotalOf
<1>3. ASSUME NEW s, Loaded(s) PROVE pc' # "list"
  BY <1>3 DEF Loaded, EndTurn
<1>4. CASE FetchList \/ FetchFails \/ Explain
  BY <1>3, <1>4 DEF FetchList, FetchFails, Explain
<1>5. ASSUME NEW s, Turn(s) PROVE pc' # "list"
  BY <1>5 DEF Turn, EndTurn
<1>6. CASE Timeout \/ TerminalFails \/ \E key \in Keys : Key(key)
  BY <1>5, <1>6 DEF Timeout, TerminalFails, Key
<1>7. CASE Release \/ PassTime \/ UNCHANGED vars
  BY <1>7 DEF Release, Tell, ReadCache, Answered, Unanswered, PassTime, vars,
              TotalOf
<1>8. ASSUME NEW content \in Contents \cup {"unreadable"}, Change(content)
      PROVE  TotalFetched'
  BY <1>8 DEF Change
<1> QED BY <1>1, <1>2, <1>4, <1>6, <1>7, <1>8 DEF Next, Interface

LEMMA WaitsLoadedStep ==
  ASSUME TypeOK, WaitsLoaded, [Next]_vars
  PROVE  WaitsLoaded'
<1> USE DEF WaitsLoaded, environment, loopVars, releaseVars
<1>1. state \in AppState
  BY DEF TypeOK
<1>2. CASE Loop
  <2>1. state'.connection = state.connection
    BY <1>1, <1>2 DEF Loop, AppState
  <2> QED BY <1>2, <2>1 DEF Loop
<1>3. CASE FetchTotal \/ FetchFails
  BY <1>3 DEF FetchTotal, FetchFails
<1>4. CASE FetchList
  <2>1. state'.connection = "ready"
    BY <1>1, <1>4 DEF FetchList, Loaded, DataLoaded, AppState
  <2> QED BY <2>1
<1>5. CASE Explain
  <2>1. state'.connection \in Hints
    BY <1>1, <1>5 DEF Explain, Loaded, DataFailed, AppState, Hints
  <2> QED BY <2>1 DEF Hints
<1>6. ASSUME NEW s, Turn(s) PROVE pc' # "poll"
  BY <1>6 DEF Turn, EndTurn
<1>7. CASE Timeout \/ TerminalFails \/ \E key \in Keys : Key(key)
  BY <1>6, <1>7 DEF Timeout, TerminalFails, Key
<1>8. CASE Release \/ PassTime \/ UNCHANGED vars
  BY <1>8 DEF Release, Tell, ReadCache, Answered, Unanswered, PassTime, vars
<1>9. CASE \E content \in Contents \cup {"unreadable"} : Change(content)
  BY <1>9 DEF Change
<1> QED BY <1>2, <1>3, <1>4, <1>5, <1>7, <1>8, <1>9 DEF Next, Interface

\* What is drawn is drawn again, if no other summary comes and no fetch ends.
LEMMA DrawnAgain ==
  ASSUME TypeOK, SummaryDrawn,
         pc \in {"loop", "poll"},
         state'.connection = "loading" \/
           /\ state'.connection = state.connection
           /\ state'.summary = state.summary
           /\ state'.period = state.period
           /\ \/ state'.selected = state.selected
              \/ state'.selected < AppCount(state)
              \/ state.selected > 0 /\ state'.selected = state.selected - 1,
         torn' = torn
  PROVE  SummaryDrawn'
<1> SUFFICES ASSUME state'.connection = "ready" PROVE SummaryDrawn'
  BY DEF SummaryDrawn
<1>1. /\ state.connection = "ready" /\ state'.summary = state.summary
      /\ state'.period = state.period
      /\ \/ state'.selected = state.selected
         \/ state'.selected < AppCount(state)
         \/ state.selected > 0 /\ state'.selected = state.selected - 1
  OBVIOUS
<1>2. /\ state.summary # None
      /\ state.summary.period = state.period
      /\ AppCount(state) = 0 \/ state.selected < AppCount(state)
      /\ ~torn => state.summary.total = SumOf(state.summary.apps)
  BY <1>1 DEF SummaryDrawn
<1>3. AppCount(state') = AppCount(state)
  BY <1>1 DEF AppCount
<1>4. state.selected \in Nat /\ AppCount(state) \in Nat
  BY Counts DEF TypeOK
<1>5. AppCount(state') = 0 \/ state'.selected < AppCount(state')
  BY <1>1, <1>2, <1>3, <1>4
<1>6. ~torn' => state'.summary.total = SumOf(state'.summary.apps)
  BY <1>1, <1>2 DEF SumOf
<1> QED BY <1>1, <1>2, <1>5, <1>6 DEF SummaryDrawn, AppCount

LEMMA SummaryDrawnStep ==
  ASSUME TypeOK, TotalFetched, SummaryDrawn, [Next]_vars
  PROVE  SummaryDrawn'
<1> USE DEF environment, loopVars, releaseVars
<1>1. state \in AppState
  BY DEF TypeOK
<1>2. CASE Loop
  <2>1. /\ state'.connection = state.connection /\ state'.summary = state.summary
        /\ state'.period = state.period /\ state'.selected = state.selected
    BY <1>1, <1>2 DEF Loop, AppState
  <2>2. pc = "loop" /\ torn' = torn
    BY <1>2 DEF Loop
  <2> QED BY <2>1, <2>2, DrawnAgain
<1>3. CASE FetchTotal \/ FetchFails
  BY <1>3 DEF FetchTotal, FetchFails, SummaryDrawn
<1>4. CASE FetchList
  <2> DEFINE summary == Summary(state.period, fetched, db)
  <2>1. state' = DataLoaded(state, summary) /\ torn' = torn
    BY <1>4 DEF FetchList, Loaded
  <2>2. /\ db \in Contents /\ state.period \in Period /\ state.selected \in Nat
        /\ fetched \in Nat
        /\ ~torn => fetched = TotalOf(db, state.period)
    BY <1>1, <1>4 DEF FetchList, TotalFetched, AppState
  <2>3. summary \in Summaries
    BY <2>2, SummaryTypes
  <2>4. /\ summary.period = state.period /\ summary.total = fetched
        /\ summary.apps = SortByUsage(Rows(db, state.period))
    BY DEF Summary
  <2>5. SumOf(SortByUsage(Rows(db, state.period))) = TotalOf(db, state.period)
    BY <2>2, ListSum
  <2>6. Len(summary.apps) \in Nat /\ summary # None
    BY <2>3, Constants DEF Summaries
  <2> HIDE DEF summary
  <2>7. /\ state'.summary = summary /\ state'.period = state.period
        /\ state'.selected = Clamped(state.selected, Len(summary.apps))
    BY <1>1, <2>1 DEF DataLoaded, AppState
  <2>8. AppCount(state') = Len(summary.apps)
    BY <2>6, <2>7 DEF AppCount
  <2>9. AppCount(state') = 0 \/ state'.selected < AppCount(state')
    BY <2>2, <2>6, <2>7, <2>8, ClampedInList
  <2>10. ~torn' => state'.summary.total = SumOf(state'.summary.apps)
    BY <2>1, <2>2, <2>4, <2>5, <2>7
  <2> QED BY <2>4, <2>6, <2>7, <2>9, <2>10 DEF SummaryDrawn, AppCount, SumOf
<1>5. CASE Explain
  <2>1. state'.connection \in Hints
    BY <1>1, <1>5 DEF Explain, Loaded, DataFailed, AppState, Hints
  <2> QED BY <2>1 DEF Hints, SummaryDrawn
<1>6. CASE Timeout
  BY <1>6, DrawnAgain DEF Timeout, Turn
<1>7. ASSUME NEW key \in Keys, Key(key) PROVE SummaryDrawn'
  <2>1. state' = Press(state, key) /\ pc = "poll" /\ torn' = torn
    BY <1>7 DEF Key, Turn
  <2> QED BY <1>1, <2>1, PressKeepsDrawing, DrawnAgain
<1>8. CASE TerminalFails
  BY <1>8 DEF TerminalFails, SummaryDrawn
<1>9. CASE Release \/ PassTime \/ UNCHANGED vars
  BY <1>9 DEF Release, Tell, ReadCache, Answered, Unanswered, PassTime, vars,
              SummaryDrawn, AppCount, SumOf
<1>10. ASSUME NEW content \in Contents \cup {"unreadable"}, Change(content)
       PROVE  SummaryDrawn'
  BY <1>10 DEF Change, SummaryDrawn, AppCount, SumOf
<1> QED BY <1>2, <1>3, <1>4, <1>5, <1>6, <1>7, <1>8, <1>9, <1>10
        DEF Next, Interface

-----------------------------------------------------------------------------
(* The news of a release.                                                  *)

LEMMA NewsStep ==
  ASSUME TypeOK, SentIsNews, BannerIsNews, [Next]_vars
  PROVE  SentIsNews' /\ BannerIsNews'
<1> USE DEF SentIsNews, BannerIsNews, environment, loopVars, releaseVars
<1>1. state \in AppState
  BY DEF TypeOK
<1>2. CASE Loop
  <2>1. CASE state.update_note = None /\ channel # None
    <3>1. state'.update_note = channel /\ channel' = None
      BY <1>1, <1>2, <2>1 DEF Loop, AppState
    <3> QED BY <1>2, <2>1, <3>1 DEF Loop
  <2>2. CASE ~(state.update_note = None /\ channel # None)
    BY <1>2, <2>2 DEF Loop
  <2> QED BY <2>1, <2>2
<1>3. ASSUME state'.update_note = state.update_note,
             UNCHANGED releaseVars
      PROVE  SentIsNews' /\ BannerIsNews'
  BY <1>3
<1>4. CASE FetchTotal \/ FetchFails \/ TerminalFails \/ PassTime \/ Timeout
  BY <1>4 DEF FetchTotal, FetchFails, TerminalFails, PassTime, Timeout, Turn
<1>5. CASE FetchList \/ Explain
  <2>1. state'.update_note = state.update_note
    BY <1>1, <1>5 DEF FetchList, Explain, Loaded, DataLoaded, DataFailed, AppState
  <2>2. UNCHANGED releaseVars
    BY <1>5 DEF FetchList, Explain
  <2> QED BY <1>3, <2>1, <2>2
<1>6. ASSUME NEW key \in Keys, Key(key) PROVE SentIsNews' /\ BannerIsNews'
  <2>1. state'.update_note = state.update_note
    BY <1>1, <1>6, PressKeepsNote DEF Key, Turn
  <2>2. UNCHANGED releaseVars
    BY <1>6 DEF Key, Turn
  <2> QED BY <1>3, <2>1, <2>2
<1>7. CASE Tell
  <2>1. state' = state /\ known' = known /\ thread = "tell" /\ thread' = "done"
    BY <1>7 DEF Tell
  <2>2. channel' # None => channel' = known /\ channel' > Current
    BY <1>7 DEF Tell, IsNewer
  <2> QED BY <2>1, <2>2
<1>8. ASSUME thread \in {"read", "ask"}, state' = state, channel' = channel
      PROVE  SentIsNews' /\ BannerIsNews'
  BY <1>8
<1>9. CASE ReadCache \/ Unanswered
  BY <1>8, <1>9 DEF ReadCache, Unanswered
<1>10. CASE \E tag \in 0 .. MaxRelease, written \in BOOLEAN : Answered(tag, written)
  BY <1>8, <1>10 DEF Answered
<1>11. CASE \E content \in Contents \cup {"unreadable"} : Change(content)
  BY <1>11 DEF Change
<1>12. CASE UNCHANGED vars
  BY <1>12 DEF vars
<1> QED BY <1>2, <1>4, <1>5, <1>6, <1>7, <1>9, <1>10, <1>11, <1>12
        DEF Next, Interface, Release

-----------------------------------------------------------------------------
(* The theorems.                                                           *)

LEMMA Invariant == Spec => []IInv
<1>1. Init => IInv
  BY IInvInit
<1>2. IInv /\ [Next]_vars => IInv'
  <2> SUFFICES ASSUME IInv, [Next]_vars PROVE IInv'
    OBVIOUS
  <2>1. TypeOK /\ TotalFetched /\ WaitsLoaded /\ SummaryDrawn
        /\ SentIsNews /\ BannerIsNews
    BY DEF IInv
  <2>2. TypeOK' /\ TotalFetched'
    BY <2>1, TypeStep, TotalFetchedStep
  <2>3. WaitsLoaded' /\ SummaryDrawn'
    BY <2>1, WaitsLoadedStep, SummaryDrawnStep
  <2>4. SentIsNews' /\ BannerIsNews'
    BY <2>1, NewsStep
  <2> QED BY <2>2, <2>3, <2>4 DEF IInv
<1> QED BY <1>1, <1>2, PTL DEF Spec

\* Every variable keeps its type: the selection never goes below zero, the list
\* that is drawn is a list of applications with their bytes, and what is known of
\* a release is a release.
THEOREM TypeCorrect == Spec => []TypeOK
<1>1. IInv => TypeOK
  BY DEF IInv
<1> QED BY <1>1, Invariant, PTL

\* While the interface waits for a key, the figures are those of the period in
\* the title, their total is the sum of the list unless another process wrote
\* between the two queries, the detail is of the row that is highlighted, and a
\* banner announces a newer release the thread knows of (app.rs, update.rs,
\* state.rs, release/mod.rs).
THEOREM ScreenAlwaysAgrees == Spec => []ScreenAgrees
<1>1. IInv => ScreenAgrees
  <2> SUFFICES ASSUME IInv PROVE ScreenAgrees
    OBVIOUS
  <2>1. state \in AppState /\ WaitsLoaded /\ SummaryDrawn /\ BannerIsNews
    BY DEF IInv, TypeOK
  <2>2. ASSUME pc = "poll", ~Panel(state)
        PROVE  /\ state.connection = "ready"
               /\ state.summary # None
               /\ state.summary.period = state.period
               /\ AppCount(state) = 0 \/ state.selected < AppCount(state)
               /\ ~torn => state.summary.total = SumOf(state.summary.apps)
    <3>1. state.connection = "ready"
      BY <2>1, <2>2 DEF WaitsLoaded, Panel, AppState
    <3> QED BY <2>1, <2>2, <3>1 DEF SummaryDrawn
  <2>3. ASSUME pc = "poll", ~Panel(state)
        PROVE  Detailed(state) = Highlighted(state)
    <3>1. state.selected \in Nat /\ AppCount(state) \in Nat
      BY <2>1, Counts
    <3>2. CASE AppCount(state) = 0
      BY <3>1, <3>2 DEF Detailed, Highlighted
    <3>3. CASE state.selected < AppCount(state)
      <4>1. CASE state.selected < AppCount(state) - 1
        BY <3>1, <3>3, <4>1 DEF Detailed, Highlighted
      <4>2. CASE state.selected = AppCount(state) - 1
        BY <3>1, <3>3, <4>2 DEF Detailed, Highlighted
      <4> QED BY <3>1, <3>3, <4>1, <4>2
    <3> QED BY <2>2, <2>3, <3>2, <3>3
  <2> QED BY <2>1, <2>2, <2>3 DEF ScreenAgrees, FiguresAgree, SumsAgree
<1> QED BY <1>1, Invariant, PTL

-----------------------------------------------------------------------------
(* A database that stays as it is.                                         *)

\* What the loop has read so far, and draws, is the database as it is now.
ShowsDatabase ==
  /\ pc = "list" => db \in Contents /\ fetched = TotalOf(db, state.period)
  /\ pc = "failed" => db \notin Contents
  /\ pc \in {"loop", "poll"} =>
       /\ state.connection = "ready" =>
            /\ db \in Contents
            /\ state.summary = Summary(state.period, TotalOf(db, state.period), db)
       /\ state.connection \in Hints => db \notin Contents

\* Once the screen shows the database it shows it at every wait, whatever keys are
\* pressed and however often it is read again, as long as the database stays as it
\* is: no step of the interface, of its refresh or of the release thread takes
\* ShowsDatabase away, and ShowsDatabase is UpToDate where the loop waits.  With
\* FollowsDatabase, which says that it gets there.
THEOREM StaysUpToDate ==
  Spec => /\ [](pc = "poll" => (ShowsDatabase <=> UpToDate))
          /\ [][ShowsDatabase /\ db' = db => ShowsDatabase']_vars
<1>1. IInv => (pc = "poll" => (ShowsDatabase <=> UpToDate))
  <2> SUFFICES ASSUME TypeOK, WaitsLoaded, pc = "poll"
               PROVE  ShowsDatabase <=> UpToDate
    BY DEF IInv
  <2>1. state.connection = "ready" \/ state.connection \in Hints
    BY DEF TypeOK, AppState, WaitsLoaded
  <2> QED BY <2>1 DEF ShowsDatabase, UpToDate, Panel, Hints
<1>2. IInv /\ [Next]_vars => (ShowsDatabase /\ db' = db => ShowsDatabase')
  <2> SUFFICES ASSUME IInv, [Next]_vars, ShowsDatabase, db' = db PROVE ShowsDatabase'
    OBVIOUS
  <2>1. TypeOK /\ state \in AppState
    BY DEF IInv, TypeOK
  <2> USE DEF environment, loopVars, releaseVars
  <2>2. ASSUME pc \in {"loop", "poll"},
               state'.connection = "loading" \/
                 /\ state'.connection = state.connection
                 /\ state'.summary = state.summary
                 /\ state'.period = state.period,
               pc' \notin {"list", "failed"}
        PROVE  ShowsDatabase'
    <3>1. CASE state'.connection = "loading"
      BY <2>2, <3>1 DEF ShowsDatabase, Hints
    <3>2. CASE /\ state'.connection = state.connection
               /\ state'.summary = state.summary
               /\ state'.period = state.period
      BY <2>2, <3>2 DEF ShowsDatabase, Summary, TotalOf, Rows
    <3> QED BY <2>2, <3>1, <3>2
  <2>3. CASE Loop
    <3>1. /\ state'.connection = state.connection /\ state'.summary = state.summary
          /\ state'.period = state.period
      BY <2>1, <2>3 DEF Loop, AppState
    <3>2. pc = "loop" /\ pc' \in {"fetch", "poll"}
      BY <2>3 DEF Loop
    <3> QED BY <2>2, <3>1, <3>2
  <2>4. CASE FetchTotal
    BY <2>4 DEF FetchTotal, ShowsDatabase, TotalOf
  <2>5. CASE FetchList
    <3> DEFINE summary == Summary(state.period, fetched, db)
    <3>1. /\ db \in Contents /\ fetched = TotalOf(db, state.period)
      BY <2>5 DEF FetchList, ShowsDatabase
    <3>2. state' = DataLoaded(state, summary)
      BY <2>5 DEF FetchList, Loaded
    <3> HIDE DEF summary
    <3>3. /\ state'.summary = summary /\ state'.period = state.period
          /\ state'.connection = "ready"
      BY <2>1, <3>2 DEF DataLoaded, AppState
    <3>4. pc' \in {"loop", "poll", "gone"}
      BY <2>5 DEF FetchList, Loaded, EndTurn
    <3>5. summary = Summary(state.period, TotalOf(db, state.period), db)
      BY <3>1 DEF summary
    <3>6. Summary(state.period, TotalOf(db, state.period), db)
            = Summary(state.period, TotalOf(db, state.period), db)'
      BY <3>3 DEF Summary, TotalOf, Rows
    <3> QED BY <3>1, <3>3, <3>4, <3>5, <3>6 DEF ShowsDatabase, Hints
  <2>6. CASE FetchFails
    BY <2>6 DEF FetchFails, ShowsDatabase
  <2>7. CASE Explain
    <3>1. state'.connection \in Hints
      BY <2>1, <2>7 DEF Explain, Loaded, DataFailed, AppState, Hints
    <3>2. db \notin Contents
      BY <2>7 DEF Explain, ShowsDatabase
    <3>3. pc' \in {"loop", "poll", "gone"}
      BY <2>7 DEF Explain, Loaded, EndTurn
    <3> QED BY <3>1, <3>2, <3>3 DEF ShowsDatabase, Hints
  <2>8. ASSUME NEW s, Turn(s) PROVE pc = "poll" /\ pc' \notin {"list", "failed"}
    BY <2>8 DEF Turn, EndTurn
  <2>9. CASE Timeout
    <3>1. Turn(state) /\ state' = state
      BY <2>9 DEF Timeout, Turn
    <3> QED BY <2>2, <2>8, <3>1
  <2>10. ASSUME NEW key \in Keys, Key(key) PROVE ShowsDatabase'
    <3>1. state' = Press(state, key) /\ Turn(Press(state, key))
      BY <2>10 DEF Key, Turn
    <3> QED BY <2>1, <2>2, <2>8, <3>1, PressKeepsDrawing
  <2>11. CASE TerminalFails
    BY <2>11 DEF TerminalFails, ShowsDatabase
  <2>12. CASE Release \/ PassTime \/ UNCHANGED vars
    BY <2>12 DEF Release, Tell, ReadCache, Answered, Unanswered, PassTime, vars,
                 ShowsDatabase, Summary, TotalOf, Rows
  <2>13. CASE \E content \in Contents \cup {"unreadable"} : Change(content)
    BY <2>13 DEF Change
  <2> QED BY <2>3, <2>4, <2>5, <2>6, <2>7, <2>9, <2>10, <2>11, <2>12, <2>13
          DEF Next, Interface
<1> QED BY <1>1, <1>2, Invariant, PTL DEF Spec
=============================================================================
