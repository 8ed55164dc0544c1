-------------------------- MODULE Retention_proofs --------------------------
(***************************************************************************)
(* What is proved about the usage tables, for every calendar, every set of *)
(* configurations and every bound.                                         *)
(***************************************************************************)
EXTENDS Retention, SumTheorems, TLAPS

-----------------------------------------------------------------------------
(* Days.                                                                   *)

\* A set of instants has a first.
LEMMA MinFirst ==
  ASSUME NEW S \in SUBSET Nat, S # {}
  PROVE  Min(S) \in S /\ \A t \in S : Min(S) <= t
<1>1. PICK n \in S : TRUE
  OBVIOUS
<1> DEFINE bad == {0 .. m : m \in {m \in S : m <= n}}
<1>2. PICK T \in bad : \A U \in SUBSET T : U # T => U \notin bad
  <2>1. bad \in SUBSET SUBSET (0 .. n) /\ bad # {}
    <3>1. 0 .. n \in bad
      BY <1>1
    <3> QED BY <3>1
  <2>2. IsFiniteSet(0 .. n)
    BY FS_Interval
  <2> HIDE DEF bad
  <2> QED BY <2>1, <2>2, MinimalSet
<1>3. PICK m \in S : m <= n /\ T = 0 .. m
  OBVIOUS
<1>4. \A t \in S : m <= t
  <2>1. SUFFICES ASSUME NEW t \in S, t < m PROVE FALSE
    OBVIOUS
  <2>2. 0 .. t \in bad /\ 0 .. t \in SUBSET T /\ 0 .. t # T
    BY <1>3, <2>1
  <2> QED BY <1>2, <2>2
<1> QED BY <1>4 DEF Min

\* The day of a local time, and its hour.
LEMMA DayAndHour ==
  ASSUME NEW x \in Int, NEW d \in Int
  PROVE  /\ x \div Day \in Int
         /\ x \div Day = d <=> \E h \in 0 .. Day - 1 : x = d * Day + h
<1>1. Day \in Nat \ {0}
  BY PeriodsAssumption
<1> QED BY <1>1

\* What the calendar is made of.
LEMMA CalendarTypes ==
  ASSUME NEW c \in Configs
  PROVE  /\ Instants \subseteq Nat
         /\ Day \in Nat \ {0}
         /\ c.tz \in DOMAIN Offset
         /\ \A t \in Instants : LocalTime(c, t) \in Int /\ LocalDay(c, t) \in Int
<1>1. /\ Instants \subseteq Nat /\ Day \in Nat \ {0}
      /\ \A zone \in DOMAIN Offset : Offset[zone] \in [Instants -> Int]
      /\ c.tz \in DOMAIN Offset
  BY PeriodsAssumption
<1>2. \A t \in Instants : LocalTime(c, t) \in Int
  BY <1>1 DEF LocalTime
<1> QED BY <1>1, <1>2, DayAndHour DEF LocalDay

\* A day that is there starts at an instant of its own.
LEMMA StartIsOfDay ==
  ASSUME NEW c \in Configs, NEW u \in Instants
  PROVE  /\ StartOfDay(c, LocalDay(c, u)) \in Instants
         /\ LocalDay(c, StartOfDay(c, LocalDay(c, u))) = LocalDay(c, u)
<1> DEFINE d == LocalDay(c, u)
           hours == {h \in 0 .. Day - 1 : ShownAt(c, d, h) # {}}
<1>1. d \in Int /\ Instants \subseteq Nat /\ Day \in Nat \ {0}
      /\ \A t \in Instants : LocalTime(c, t) \in Int
  BY CalendarTypes
<1>2. PICK g \in 0 .. Day - 1 : LocalTime(c, u) = d * Day + g
  <2>1. LocalTime(c, u) \div Day = d
    BY DEF LocalDay
  <2> HIDE DEF d
  <2> QED BY <1>1, <2>1, DayAndHour
<1>3. u \in ShownAt(c, d, g)
  BY <1>2 DEF ShownAt
<1>4. FirstHour(c, d) \in hours
  <2>1. hours \in SUBSET Nat /\ hours # {}
    BY <1>1, <1>2, <1>3
  <2>2. Min(hours) \in hours
    <3> HIDE DEF hours
    <3> QED BY <2>1, MinFirst
  <2> QED BY <2>2 DEF FirstHour
<1>5. FirstHour(c, d) \in 0 .. Day - 1 /\ ShownAt(c, d, FirstHour(c, d)) # {}
  BY <1>4
<1>6. StartOfDay(c, d) \in ShownAt(c, d, FirstHour(c, d))
  <2>1. ShownAt(c, d, FirstHour(c, d)) \in SUBSET Nat
    BY <1>1 DEF ShownAt
  <2> QED BY <1>5, <2>1, MinFirst DEF StartOfDay
<1> HIDE DEF d
<1>7. StartOfDay(c, d) \in Instants
      /\ LocalTime(c, StartOfDay(c, d)) = d * Day + FirstHour(c, d)
  BY <1>6 DEF ShownAt
<1>8. LocalDay(c, StartOfDay(c, d)) = d
  BY <1>1, <1>5, <1>7, DayAndHour DEF LocalDay
<1> QED BY <1>7, <1>8 DEF d

\* The instants before the start of a day are those of the days before.
LEMMA BeforeTheDay ==
  ASSUME DaysInOrder, NEW c \in Configs, NEW u \in Instants, NEW t \in Instants
  PROVE  t < StartOfDay(c, LocalDay(c, u)) <=> LocalDay(c, t) < LocalDay(c, u)
<1> DEFINE s == StartOfDay(c, LocalDay(c, u))
<1>1. s \in Instants /\ LocalDay(c, s) = LocalDay(c, u)
  BY StartIsOfDay
<1>2. Instants \subseteq Nat /\ \A v \in Instants : LocalDay(c, v) \in Int
  BY CalendarTypes
<1>3. \A v, w \in Instants : v <= w => LocalDay(c, v) <= LocalDay(c, w)
  BY DEF DaysInOrder
<1>4. LocalDay(c, t) = LocalDay(c, u) => s <= t
  <2> DEFINE d == LocalDay(c, t)
             first == ShownAt(c, d, FirstHour(c, d))
  <2>1. PICK v \in first : v <= t
    BY DEF DaysInOrder
  <2>2. first \in SUBSET Nat
    BY <1>2 DEF ShownAt
  <2>3. Min(first) \in first /\ Min(first) <= v
    <3> HIDE DEF first
    <3> QED BY <2>1, <2>2, MinFirst
  <2>4. StartOfDay(c, d) = Min(first)
    BY DEF StartOfDay
  <2>5. Min(first) \in Nat /\ v \in Nat /\ t \in Nat
    <3> HIDE DEF first
    <3> QED BY <1>2, <2>1, <2>2, <2>3
  <2>6. Min(first) <= t
    <3> HIDE DEF first
    <3> QED BY <2>1, <2>3, <2>5
  <2> QED BY <2>4, <2>6
<1>5. t < s <=> LocalDay(c, t) < LocalDay(c, u)
  <2> HIDE DEF s
  <2> QED BY <1>1, <1>2, <1>3, <1>4
<1> QED BY <1>5

-----------------------------------------------------------------------------
(* Keys, and sums of rows.                                                 *)

LEMMA KeysTypes ==
  /\ Times \subseteq Nat /\ Times \subseteq Instants /\ Times \subseteq Keys
  /\ Now0 \in Times
  /\ IsFiniteSet(Keys)
  /\ \A c \in Configs, t \in Times : DayStart(c, t) \in Keys
<1>1. /\ Now0 \in Nat /\ MaxNow \in Nat /\ Now0 <= MaxNow
      /\ Times \subseteq Instants
      /\ IsFiniteSet(Configs)
  BY RetentionAssumption DEF Times
<1>2. Times \subseteq Nat /\ Now0 \in Times
  BY <1>1 DEF Times
<1>3. IsFiniteSet(Times)
  BY <1>1, FS_Interval DEF Times
<1> DEFINE start == [q \in Configs \X Times |-> DayStart(q[1], q[2])]
           starts == {start[q] : q \in Configs \X Times}
<1>4. Keys = Times \cup starts
  <2>1. ASSUME NEW s \in DayStarts PROVE s[3] \in starts
    <3>1. PICK c \in Configs, t \in Times : s = <<c, t, DayStart(c, t)>>
      BY DEF DayStarts
    <3>2. <<c, t>> \in Configs \X Times /\ start[<<c, t>>] = s[3]
      BY <3>1
    <3> QED BY <3>2
  <2>2. ASSUME NEW q \in Configs \X Times
        PROVE  \E s \in DayStarts : s[3] = start[q]
    <3>1. <<q[1], q[2], DayStart(q[1], q[2])>> \in DayStarts
      BY DEF DayStarts
    <3> QED BY <3>1
  <2> HIDE DEF start
  <2> QED BY <2>1, <2>2 DEF Keys
<1>5. IsFiniteSet(starts)
  <2>1. IsFiniteSet(Configs \X Times)
    BY <1>1, <1>3, FS_Product
  <2>2. start \in Surjection(Configs \X Times, starts)
    BY DEF Surjection
  <2> HIDE DEF start, starts
  <2> QED BY <2>1, <2>2, FS_Surjection
<1>6. IsFiniteSet(Keys)
  <2> HIDE DEF starts
  <2> QED BY <1>3, <1>4, <1>5, FS_Union
<1>7. ASSUME NEW c \in Configs, NEW t \in Times PROVE DayStart(c, t) \in Keys
  <2>1. <<c, t>> \in Configs \X Times /\ start[<<c, t>>] = DayStart(c, t)
    OBVIOUS
  <2> HIDE DEF start
  <2> QED BY <1>4, <2>1
<1> QED BY <1>1, <1>2, <1>4, <1>6, <1>7

Tables == [Apps -> [Keys -> Nat]]

\* Rows of zero bytes count for nothing.
LEMMA TotalIsSum ==
  ASSUME NEW table \in Tables, NEW a \in Apps, NEW S \in SUBSET Keys
  PROVE  /\ Total(table, a, S) = SumFunctionOnSet(table[a], S)
         /\ Total(table, a, S) \in Nat
<1> DEFINE f == table[a]
           some == {t \in S : f[t] # 0}
<1>1. IsFiniteSet(S) /\ \A t \in S : f[t] \in Nat
  BY KeysTypes, FS_Subset DEF Tables
<1>2. IsFiniteSet(some) /\ IsFiniteSet(S \ some) /\ some \in SUBSET S
  BY <1>1, FS_Subset
<1>3. \A t \in S \ some : f[t] = 0
  OBVIOUS
<1>4. Total(table, a, S) = SumFunctionOnSet(f, some)
  BY DEF Total
<1> HIDE DEF some, f
<1>5. SumFunctionOnSet(f, S \ some) = 0
  BY <1>2, <1>3, SumZero
<1>6. SumFunctionOnSet(f, S)
        = SumFunctionOnSet(f, some) + SumFunctionOnSet(f, S \ some)
  BY <1>1, <1>2, SumSplit
<1>7. SumFunctionOnSet(f, some) \in Nat
  BY <1>1, <1>2, SumNatural
<1> QED BY <1>4, <1>5, <1>6, <1>7 DEF f

\* The triples of DayStarts, and the sets that hold days whole.
LEMMA WholeDays ==
  /\ \A c \in Configs, t \in Times : \A d :
       <<c, t, d>> \in DayStarts <=> d = DayStart(c, t)
  /\ \A S : S \in DaySets <=>
       /\ S \in SUBSET Keys
       /\ \A c \in Configs, t \in Times : t \in S <=> DayStart(c, t) \in S
<1>1. \A s : s \in DayStarts <=>
               \E c \in Configs, t \in Times : s = <<c, t, DayStart(c, t)>>
  BY DEF DayStarts
<1>2. \A c \in Configs, t \in Times : \A d :
        <<c, t, d>> \in DayStarts <=> d = DayStart(c, t)
  BY <1>1
<1>3. ASSUME NEW S
      PROVE  (\A s \in DayStarts : s[2] \in S <=> s[3] \in S) <=>
             \A c \in Configs, t \in Times : t \in S <=> DayStart(c, t) \in S
  <2>1. \A c \in Configs, t \in Times :
          \E s \in DayStarts : s[2] = t /\ s[3] = DayStart(c, t)
    <3>1. \A c \in Configs, t \in Times : <<c, t, DayStart(c, t)>> \in DayStarts
      BY <1>1
    <3> QED BY <3>1
  <2>2. \A s \in DayStarts : \E c \in Configs, t \in Times :
          s[2] = t /\ s[3] = DayStart(c, t)
    BY <1>1
  <2> QED BY <2>1, <2>2
<1> QED BY <1>2, <1>3 DEF DaySets

\* Every key is an instant.
LEMMA KeysNatural == Keys \subseteq Instants /\ Keys \subseteq Nat
<1>1. \A s \in DayStarts : s[3] \in Instants
  <2>1. \A c \in Configs, t \in Times : DayStart(c, t) \in Instants
    BY KeysTypes, StartIsOfDay DEF DayStart
  <2> QED BY <2>1 DEF DayStarts
<1>2. Instants \subseteq Nat
  BY PeriodsAssumption
<1> QED BY <1>1, <1>2, KeysTypes DEF Keys

-----------------------------------------------------------------------------
(* Types.                                                                  *)

\* Inserting, clearing, adding up and committing leave tables of bytes.
LEMMA TableTypes ==
  ASSUME TypeOK
  PROVE  /\ Nothing \in Tables
         /\ OldByDay \in Tables
         /\ \A table \in Tables : \A S :
              [a \in Apps |-> Without(table, a, S)] \in Tables
         /\ \A table \in Tables, bytes \in [Apps -> 0 .. 1] :
              [a \in Apps |-> [table[a] EXCEPT ![tickNow] = @ + bytes[a]]]
                \in Tables
<1>1. tickNow \in Keys /\ samples \in Tables
  BY KeysTypes DEF TypeOK, Tables
<1>2. Nothing \in Tables
  BY DEF Nothing, Tables
<1>3. OldByDay \in Tables
  <2>1. \A a \in Apps, d \in Keys :
          Total(samples, a, {t \in {t \in Times : t < FineCutoff} :
                               <<cfg, t, d>> \in DayStarts}) \in Nat
    <3>1. \A d : {t \in {t \in Times : t < FineCutoff} :
                    <<cfg, t, d>> \in DayStarts} \in SUBSET Keys
      BY KeysTypes
    <3> QED BY <1>1, <3>1, TotalIsSum
  <2> QED BY <2>1 DEF OldByDay, Tables
<1>4. ASSUME NEW table \in Tables, NEW S
      PROVE  [a \in Apps |-> Without(table, a, S)] \in Tables
  BY DEF Without, Tables
<1>5. ASSUME NEW table \in Tables, NEW bytes \in [Apps -> 0 .. 1]
      PROVE  [a \in Apps |-> [table[a] EXCEPT ![tickNow] = @ + bytes[a]]]
               \in Tables
  BY <1>1 DEF Tables
<1> QED BY <1>2, <1>3, <1>4, <1>5

LEMMA OneAtMost ==
  Cardinality({}) <= 1 /\ \A x : Cardinality({x}) <= 1
BY FS_EmptySet, FS_Singleton

LEMMA TypeStep ==
  ASSUME TypeOK, [Next]_vars
  PROVE  TypeOK'
<1>1. /\ MaxFailures \in Nat /\ MaxCommands \in Nat
      /\ Now0 \in Nat /\ MaxNow \in Nat
  BY RetentionAssumption
<1>2. /\ samples \in Tables /\ daily \in Tables /\ rollup \in Tables
      /\ truth \in Tables
      /\ failures \in Nat /\ commands \in Nat /\ Now0 \in Times
  BY <1>1, KeysTypes DEF TypeOK, Tables
<1>3. \A n \in 0 .. MaxFailures : n < MaxFailures => n + 1 \in 0 .. MaxFailures
  BY <1>1
<1>4. \A n \in 0 .. MaxCommands : n < MaxCommands => n + 1 \in 0 .. MaxCommands
  BY <1>1
<1> USE DEF TypeOK, Tables, tables, daemon, bounds, history
<1>5. CASE StartDaemon
  BY <1>2, <1>5 DEF StartDaemon
<1>6. CASE BeginTick
  BY <1>2, <1>6 DEF BeginTick
<1>7. ASSUME NEW bytes \in [Apps -> 0 .. 1], Insert(bytes) PROVE TypeOK'
  <2>1. samples' \in Tables /\ truth' \in Tables
    BY <1>2, <1>7, TableTypes DEF Insert
  <2>2. pc' \in {"idle", "select"} /\ tickNow' \in Times
    BY <1>2, <1>7 DEF Insert, EndTick
  <2> QED BY <1>2, <1>7, <2>1, <2>2 DEF Insert
<1>8. CASE RetentionSelect
  <2>1. rollup' \in Tables
    BY <1>8, TableTypes DEF RetentionSelect
  <2> QED BY <1>8, <2>1 DEF RetentionSelect
<1>9. CASE RetentionCommit
  <2>1. samples' \in Tables /\ daily' \in Tables /\ rollup' \in Tables
    BY <1>2, <1>9, TableTypes DEF RetentionCommit
  <2>2. purged' \subseteq Keys
    BY <1>9 DEF RetentionCommit
  <2> QED BY <1>2, <1>9, <2>1, <2>2 DEF RetentionCommit, EndTick
<1>10. CASE TickFails
  <2>1. rollup' \in Tables
    BY <1>10, TableTypes DEF TickFails
  <2> QED BY <1>2, <1>3, <1>10, <2>1 DEF TickFails, EndTick, LastAfterFailure
<1>11. CASE StopDaemon
  <2>1. rollup' \in Tables
    BY <1>11, TableTypes DEF StopDaemon
  <2> QED BY <1>2, <1>3, <1>11, <2>1 DEF StopDaemon
<1>12. ASSUME NEW p \in Periods, AskClear(p) PROVE TypeOK'
  <2>1. asked' \subseteq Periods \X Times /\ Cardinality(asked') <= 1
    <3>1. asked' = {<<p, now>>} /\ <<p, now>> \in Periods \X Times
      BY <1>12 DEF AskClear
    <3>2. Cardinality({<<p, now>>}) <= 1
      BY OneAtMost
    <3> QED BY <3>1, <3>2
  <2>2. commands' \in 0 .. MaxCommands
    BY <1>4, <1>12 DEF AskClear
  <2> QED BY <1>12, <2>1, <2>2 DEF AskClear
<1>13. CASE ConfirmClear
  <2>1. PICK S :
          /\ samples' = [a \in Apps |-> Without(samples, a, S)]
          /\ daily' = [a \in Apps |-> Without(daily, a, S)]
          /\ truth' = [a \in Apps |-> Without(truth, a, S)]
    BY <1>13 DEF ConfirmClear
  <2>2. samples' \in Tables /\ daily' \in Tables /\ truth' \in Tables
    BY <1>2, <2>1, TableTypes
  <2> QED BY <1>13, <2>2, OneAtMost DEF ConfirmClear
<1>14. CASE CancelClear
  BY <1>14, OneAtMost DEF CancelClear
<1>15. ASSUME NEW c \in Configs, SetConfig(c) PROVE TypeOK'
  BY <1>4, <1>15 DEF SetConfig
<1>16. CASE PassTime
  BY <1>1, <1>16 DEF PassTime, Times
<1>17. CASE UNCHANGED vars
  BY <1>17 DEF vars
<1> QED BY <1>5, <1>6, <1>7, <1>8, <1>9, <1>10, <1>11, <1>12, <1>13, <1>14,
           <1>15, <1>16, <1>17 DEF Next, Daemon

\* Retention.TypeOK holds throughout: every table stays a table of bytes.
THEOREM TypeCorrect == Spec => []TypeOK
<1>1. Init => TypeOK
  <2>1. SUFFICES ASSUME Init PROVE TypeOK
    OBVIOUS
  <2>2. MaxFailures \in Nat /\ MaxCommands \in Nat
    BY RetentionAssumption
  <2>3. Nothing \in Tables /\ Now0 \in Times
    BY KeysTypes DEF Nothing, Tables
  <2>4. failures \in 0 .. MaxFailures /\ commands \in 0 .. MaxCommands
    BY <2>1, <2>2 DEF Init
  <2>5. samples \in Tables /\ daily \in Tables /\ rollup \in Tables
        /\ truth \in Tables
    BY <2>1, <2>3 DEF Init
  <2>6. asked \subseteq Periods \X Times /\ Cardinality(asked) <= 1
    BY <2>1, OneAtMost DEF Init
  <2> QED BY <2>1, <2>3, <2>4, <2>5, <2>6 DEF Init, TypeOK, Tables
<1>2. TypeOK /\ [Next]_vars => TypeOK'
  BY TypeStep
<1> QED BY <1>1, <1>2, PTL DEF Spec

-----------------------------------------------------------------------------
(* The tables stay bounded.                                                *)

LEMMA ClocksStep ==
  ASSUME TypeOK, ClocksInOrder, [Next]_vars
  PROVE  ClocksInOrder'
<1>1. now \in Nat /\ tickNow \in Nat /\ lastRet \in Nat
  BY KeysTypes DEF TypeOK
<1> USE DEF ClocksInOrder, tables, daemon, bounds, history
<1>5. CASE StartDaemon
  BY <1>1, <1>5 DEF StartDaemon
<1>6. CASE BeginTick
  <2>1. pc' = "insert" /\ tickNow' = now /\ now' = now /\ lastRet' = lastRet
    BY <1>6 DEF BeginTick
  <2> QED BY <1>1, <2>1
<1>7. ASSUME NEW bytes \in [Apps -> 0 .. 1], Insert(bytes) PROVE ClocksInOrder'
  BY <1>7 DEF Insert, EndTick
<1>8. CASE RetentionSelect
  BY <1>8 DEF RetentionSelect
<1>9. CASE RetentionCommit
  BY <1>9 DEF RetentionCommit, EndTick
<1>10. CASE TickFails
  BY <1>1, <1>10 DEF TickFails, EndTick, LastAfterFailure
<1>11. CASE StopDaemon
  <2>1. pc' = "down" /\ now' = now /\ lastRet' = 0
    BY <1>11 DEF StopDaemon
  <2> QED BY <1>1, <2>1
<1>12. ASSUME NEW p \in Periods, AskClear(p) PROVE ClocksInOrder'
  BY <1>12 DEF AskClear
<1>13. CASE ConfirmClear
  BY <1>13 DEF ConfirmClear
<1>14. CASE CancelClear
  BY <1>14 DEF CancelClear
<1>15. ASSUME NEW c \in Configs, SetConfig(c) PROVE ClocksInOrder'
  BY <1>15 DEF SetConfig
<1>16. CASE PassTime
  <2>1. now' = now + 1 /\ UNCHANGED <<pc, lastRet, tickNow>>
    BY <1>16 DEF PassTime
  <2> QED BY <1>1, <2>1
<1>17. CASE UNCHANGED vars
  BY <1>17 DEF vars
<1> QED BY <1>5, <1>6, <1>7, <1>8, <1>9, <1>10, <1>11, <1>12, <1>13, <1>14,
           <1>15, <1>16, <1>17 DEF Next, Daemon

LEMMA CutoffFacts ==
  \A n, t, kept \in Nat : /\ n <= t => t >= n - kept
                          /\ ~(t < n - kept) => t >= n - kept
OBVIOUS

LEMMA BoundedStep ==
  ASSUME TypeOK, ClocksInOrder, TablesBounded, [Next]_vars
  PROVE  TablesBounded'
<1>1. now \in Nat /\ tickNow \in Nat /\ lastRet \in Nat /\ cfg \in Configs
  BY KeysTypes DEF TypeOK
<1> DEFINE kept == cfg.fine * Day
<1>2. kept \in Nat
  <2>1. Day \in Nat /\ cfg.fine \in Nat
    BY <1>1, PeriodsAssumption
  <2> QED BY <2>1
<1>3. \A a \in Apps, t \in Keys : samples[a][t] \in Nat /\ daily[a][t] \in Nat
  BY DEF TypeOK
<1> USE DEF TablesBounded, tables, daemon, bounds, history
<1>5. CASE StartDaemon
  BY <1>5 DEF StartDaemon
<1>6. CASE BeginTick
  BY <1>6 DEF BeginTick
<1>7. ASSUME NEW bytes \in [Apps -> 0 .. 1], Insert(bytes) PROVE TablesBounded'
  <2>1. \A a \in Apps, t \in Keys :
          t # tickNow => samples'[a][t] = samples[a][t]
    BY <1>7 DEF Insert, TypeOK
  <2>2. tickNow >= lastRet - kept
    <3>1. lastRet <= tickNow
      BY <1>7 DEF Insert, ClocksInOrder
    <3> HIDE DEF kept
    <3> QED BY <1>1, <1>2, <3>1, CutoffFacts
  <2>3. pc # "down" /\ UNCHANGED <<lastRet, cfg, daily>>
    BY <1>7 DEF Insert
  <2> QED BY <2>1, <2>2, <2>3
<1>8. CASE RetentionSelect
  BY <1>8 DEF RetentionSelect
<1>9. CASE RetentionCommit
  <2>1. lastRet' = tickNow /\ cfg' = cfg
    BY <1>9 DEF RetentionCommit
  <2>2. ASSUME NEW a \in Apps, NEW t \in Keys
        PROVE  /\ samples'[a][t] = IF Deleted(t) THEN 0 ELSE samples[a][t]
               /\ Purges(t) => daily'[a][t] = 0
    BY <1>9 DEF RetentionCommit
  <2>3. \A t \in Keys : ~(t < tickNow - kept) => t >= tickNow - kept
    <3> HIDE DEF kept
    <3> QED BY <1>1, <1>2, KeysNatural, CutoffFacts
  <2>4. \A a \in Apps, t \in Keys : samples'[a][t] = 0 \/ t >= tickNow - kept
    BY <2>2, <2>3 DEF Deleted, FineCutoff
  <2> QED BY <2>1, <2>2, <2>4 DEF Purges
<1>10. CASE TickFails
  BY <1>10 DEF TickFails, EndTick, LastAfterFailure
<1>11. CASE StopDaemon
  BY <1>11 DEF StopDaemon
<1>12. ASSUME NEW p \in Periods, AskClear(p) PROVE TablesBounded'
  BY <1>12 DEF AskClear
<1>13. CASE ConfirmClear
  <2>1. PICK S :
          /\ samples' = [a \in Apps |-> Without(samples, a, S)]
          /\ daily' = [a \in Apps |-> Without(daily, a, S)]
    BY <1>13 DEF ConfirmClear
  <2>2. \A a \in Apps, t \in Keys :
          /\ samples[a][t] = 0 => samples'[a][t] = 0
          /\ daily[a][t] = 0 => daily'[a][t] = 0
    BY <2>1 DEF Without
  <2>3. UNCHANGED <<pc, lastRet, cfg>>
    BY <1>13 DEF ConfirmClear
  <2> QED BY <2>2, <2>3
<1>14. CASE CancelClear
  BY <1>14 DEF CancelClear
<1>15. ASSUME NEW c \in Configs, SetConfig(c) PROVE TablesBounded'
  BY <1>15 DEF SetConfig
<1>16. CASE PassTime
  BY <1>16 DEF PassTime
<1>17. CASE UNCHANGED vars
  BY <1>17 DEF vars
<1> QED BY <1>5, <1>6, <1>7, <1>8, <1>9, <1>10, <1>11, <1>12, <1>13, <1>14,
           <1>15, <1>16, <1>17 DEF Next, Daemon

\* Retention.TablesBounded holds throughout: while the daemon that ran a
\* retention lives, no sample is older than it should be, nor any day, whatever
\* is inserted, cleared or reconfigured and whichever later retention fails.
THEOREM AlwaysBounded == Spec => []TablesBounded
<1> DEFINE IInv == ClocksInOrder /\ TablesBounded
<1>1. Init => IInv
  <2>1. SUFFICES ASSUME Init PROVE IInv
    OBVIOUS
  <2>2. now \in Nat /\ lastRet = 0 /\ pc = "down"
    BY <2>1, KeysTypes DEF Init
  <2> QED BY <2>2 DEF ClocksInOrder, TablesBounded
<1>2. TypeOK /\ IInv /\ [Next]_vars => IInv'
  BY ClocksStep, BoundedStep
<1>3. IInv => TablesBounded
  OBVIOUS
<1> HIDE DEF IInv
<1> QED BY <1>1, <1>2, <1>3, TypeCorrect, PTL DEF Spec

-----------------------------------------------------------------------------
(* The periods take days whole.                                            *)

\* What Earlier and Within hold.
LEMMA EarlierWithin ==
  ASSUME NEW p \in Periods, NEW c \in Configs, NEW t \in Times, NEW k \in Keys
  PROVE  /\ <<p, c, t, k>> \in Earlier <=> k < StartOf(p, c, t)
         /\ k \in Span(p, c, t) <=> k < EndOf(p, c, t) /\ ~(k < StartOf(p, c, t))
<1>1. <<p, c, t, k>> \in Earlier <=> k < StartOf(p, c, t)
  <2>1. ASSUME k < StartOf(p, c, t) PROVE <<p, c, t, k>> \in Earlier
    <3> DEFINE rows(q, e, u) ==
                 {<<q, e, u, l>> : l \in {l \in Keys : l < StartOf(q, e, u)}}
    <3>1. <<p, c, t, k>> \in rows(p, c, t)
      BY <2>1
    <3> DEFINE sets == {rows(q, e, u) :
                          q \in Periods, e \in Configs, u \in Times}
    <3>2. rows(p, c, t) \in sets
      <4> HIDE DEF rows
      <4> QED OBVIOUS
    <3>3. <<p, c, t, k>> \in UNION sets
      <4> HIDE DEF rows, sets
      <4> QED BY <3>1, <3>2
    <3> QED BY <3>3 DEF Earlier
  <2>2. ASSUME <<p, c, t, k>> \in Earlier PROVE k < StartOf(p, c, t)
    <3>1. PICK q \in Periods, e \in Configs, u \in Times :
            <<p, c, t, k>> \in {<<q, e, u, l>> :
                                  l \in {l \in Keys : l < StartOf(q, e, u)}}
      BY <2>2 DEF Earlier
    <3> QED BY <3>1
  <2> QED BY <2>1, <2>2
<1> DEFINE all == UNION {{<<q, e, u, l>> : l \in {l \in Keys : l < EndOf(q, e, u)}} :
                         q \in Periods, e \in Configs, u \in Times}
<1>2. <<p, c, t, k>> \in all <=> k < EndOf(p, c, t)
  <2>1. ASSUME k < EndOf(p, c, t) PROVE <<p, c, t, k>> \in all
    <3> DEFINE rows(q, e, u) ==
                 {<<q, e, u, l>> : l \in {l \in Keys : l < EndOf(q, e, u)}}
    <3>1. <<p, c, t, k>> \in rows(p, c, t)
      BY <2>1
    <3> DEFINE sets == {rows(q, e, u) :
                          q \in Periods, e \in Configs, u \in Times}
    <3>2. rows(p, c, t) \in sets
      <4> HIDE DEF rows
      <4> QED OBVIOUS
    <3>3. <<p, c, t, k>> \in UNION sets
      <4> HIDE DEF rows, sets
      <4> QED BY <3>1, <3>2
    <3> QED BY <3>3
  <2>2. ASSUME <<p, c, t, k>> \in all PROVE k < EndOf(p, c, t)
    <3>1. PICK q \in Periods, e \in Configs, u \in Times :
            <<p, c, t, k>> \in {<<q, e, u, l>> :
                                  l \in {l \in Keys : l < EndOf(q, e, u)}}
      BY <2>2
    <3> QED BY <3>1
  <2> QED BY <2>1, <2>2
<1>3. Within = all \ Earlier
  BY DEF Within
<1> HIDE DEF all
<1> QED BY <1>1, <1>2, <1>3 DEF Span

\* One zone, one day.
LEMMA SameDays ==
  ASSUME SameTimezone, NEW c \in Configs, NEW e \in Configs, NEW t \in Instants
  PROVE  LocalDay(c, t) = LocalDay(e, t) /\ DayStart(c, t) = DayStart(e, t)
<1>1. c.tz = e.tz
  BY DEF SameTimezone
<1>2. \A u : LocalTime(c, u) = LocalTime(e, u)
  BY <1>1 DEF LocalTime
<1>3. LocalDay(c, t) = LocalDay(e, t)
  BY <1>2 DEF LocalDay
<1>4. \A d, h : ShownAt(c, d, h) = ShownAt(e, d, h)
  BY <1>2 DEF ShownAt
<1>5. \A d : FirstHour(c, d) = FirstHour(e, d)
  BY <1>4 DEF FirstHour
<1>6. \A d : StartOfDay(c, d) = StartOfDay(e, d)
  BY <1>4, <1>5 DEF StartOfDay
<1> QED BY <1>3, <1>6 DEF DayStart

\* An instant is before the first instant of a day with the start of its own day.
LEMMA SameSide ==
  ASSUME DaysInOrder, NEW c \in Configs, NEW t \in Times, NEW d,
         d \in {LocalDay(c, u) : u \in Instants}
  PROVE  t < StartOfDay(c, d) <=> DayStart(c, t) < StartOfDay(c, d)
<1>1. PICK u \in Instants : d = LocalDay(c, u)
  OBVIOUS
<1>2. t \in Instants
  BY KeysTypes
<1>3. DayStart(c, t) \in Instants /\ LocalDay(c, DayStart(c, t)) = LocalDay(c, t)
  BY <1>2, StartIsOfDay DEF DayStart
<1>4. t < StartOfDay(c, d) <=> LocalDay(c, t) < LocalDay(c, u)
  BY <1>1, <1>2, BeforeTheDay
<1>5. DayStart(c, t) < StartOfDay(c, d) <=> LocalDay(c, t) < LocalDay(c, u)
  BY <1>1, <1>3, BeforeTheDay
<1> QED BY <1>4, <1>5

LEMMA SpanHoldsDays ==
  ASSUME CalendarInOrder,
         NEW p \in Periods, NEW c \in Configs, NEW t \in Times, NEW k \in Times
  PROVE  k \in Span(p, c, t) <=> DayStart(c, k) \in Span(p, c, t)
<1>1. /\ FirstDay(p, c, LocalDay(c, t)) \in {LocalDay(c, u) : u \in Instants}
      /\ NextDay(p, c, LocalDay(c, t)) \in {LocalDay(c, u) : u \in Instants}
  BY DEF CalendarInOrder, InReach
<1>2. k \in Keys /\ DayStart(c, k) \in Keys
  BY KeysTypes
<1>3. k < StartOf(p, c, t) <=> DayStart(c, k) < StartOf(p, c, t)
  BY <1>1, SameSide DEF CalendarInOrder, StartOf
<1>4. k < EndOf(p, c, t) <=> DayStart(c, k) < EndOf(p, c, t)
  BY <1>1, SameSide DEF CalendarInOrder, EndOf
<1> QED BY <1>2, <1>3, <1>4, EarlierWithin

LEMMA SpanIsWhole ==
  ASSUME CalendarInOrder, SameTimezone,
         NEW p \in Periods, NEW c \in Configs, NEW t \in Times
  PROVE  Span(p, c, t) \in DaySets
<1>1. ASSUME NEW e \in Configs, NEW k \in Times
      PROVE  k \in Span(p, c, t) <=> DayStart(e, k) \in Span(p, c, t)
  <2>1. DayStart(e, k) = DayStart(c, k)
    BY KeysTypes, SameDays
  <2> QED BY <2>1, SpanHoldsDays
<1> QED BY <1>1, WholeDays DEF Span

-----------------------------------------------------------------------------
(* What a step does to the sums of rows.                                   *)

More(table, t, bytes) ==
  [b \in Apps |-> [table[b] EXCEPT ![t] = @ + bytes[b]]]

\* Bytes inserted count in the sets that hold the instant.
LEMMA TotalInserted ==
  ASSUME NEW table \in Tables, NEW a \in Apps, NEW S \in SUBSET Keys,
         NEW bytes \in [Apps -> 0 .. 1], NEW t \in Keys
  PROVE  Total(More(table, t, bytes), a, S)
           = Total(table, a, S) + IF t \in S THEN bytes[a] ELSE 0
<1> DEFINE new == More(table, t, bytes)
<1>1. new \in Tables
  BY DEF Tables, More
<1>2. /\ new[a][t] = table[a][t] + bytes[a]
      /\ \A k \in Keys \ {t} : new[a][k] = table[a][k]
      /\ bytes[a] \in Nat
      /\ \A k \in Keys : table[a][k] \in Nat /\ new[a][k] \in Nat
  BY <1>1 DEF Tables, More
<1> HIDE DEF new
<1>3. /\ Total(new, a, S) = SumFunctionOnSet(new[a], S)
      /\ Total(table, a, S) = SumFunctionOnSet(table[a], S)
      /\ SumFunctionOnSet(new[a], S) \in Nat /\ SumFunctionOnSet(table[a], S) \in Nat
      /\ IsFiniteSet(S)
  BY <1>1, TotalIsSum, KeysTypes, FS_Subset
<1>4. CASE t \notin S
  <2>1. \A k \in S : new[a][k] = table[a][k]
    BY <1>2, <1>4
  <2>2. SumFunctionOnSet(new[a], S) = SumFunctionOnSet(table[a], S)
    BY <1>3, <2>1, SumSame
  <2> QED BY <1>3, <1>4, <2>2 DEF new
<1>5. CASE t \in S
  <2>1. SumFunctionOnSet(new[a], S) + table[a][t]
          = SumFunctionOnSet(table[a], S) + new[a][t]
    <3>1. /\ \A k \in S : table[a][k] \in Nat /\ new[a][k] \in Nat
          /\ \A k \in S \ {t} : new[a][k] = table[a][k]
      BY <1>2
    <3> QED BY <1>3, <1>5, <3>1, SumUpdate
  <2>2. SumFunctionOnSet(new[a], S) = SumFunctionOnSet(table[a], S) + bytes[a]
    BY <1>2, <1>3, <2>1
  <2> QED BY <1>3, <1>5, <2>2 DEF new
<1> QED BY <1>4, <1>5

\* Rows deleted count for nothing.
LEMMA TotalWithout ==
  ASSUME NEW table \in Tables, NEW a \in Apps, NEW S \in SUBSET Keys, NEW T
  PROVE  Total([b \in Apps |-> Without(table, b, T)], a, S)
           = Total(table, a, S \ T)
<1> DEFINE new == [b \in Apps |-> Without(table, b, T)]
<1>1. new \in Tables
  BY DEF Without, Tables
<1>2. /\ \A k \in S \cap T : new[a][k] = 0
      /\ \A k \in S \ T : new[a][k] = table[a][k]
      /\ \A k \in S : new[a][k] \in Nat
  BY <1>1 DEF Without, Tables
<1> HIDE DEF new
<1>3. /\ Total(new, a, S) = SumFunctionOnSet(new[a], S)
      /\ Total(table, a, S \ T) = SumFunctionOnSet(table[a], S \ T)
      /\ SumFunctionOnSet(table[a], S \ T) \in Nat
      /\ IsFiniteSet(S) /\ IsFiniteSet(S \cap T) /\ IsFiniteSet(S \ T)
  <2>1. S \ T \in SUBSET Keys /\ S \cap T \in SUBSET Keys
    OBVIOUS
  <2> QED BY <1>1, <2>1, TotalIsSum, KeysTypes, FS_Subset
<1>4. SumFunctionOnSet(new[a], S) = SumFunctionOnSet(new[a], S \cap T)
                                      + SumFunctionOnSet(new[a], S \ T)
  <2>1. S \cap T \in SUBSET S /\ S \ (S \cap T) = S \ T
    OBVIOUS
  <2> QED BY <1>2, <1>3, <2>1, SumSplit
<1>5. SumFunctionOnSet(new[a], S \cap T) = 0
  BY <1>2, <1>3, SumZero
<1>6. SumFunctionOnSet(new[a], S \ T) = SumFunctionOnSet(table[a], S \ T)
  BY <1>2, <1>3, SumSame
<1> QED BY <1>3, <1>4, <1>5, <1>6 DEF new

\* What is added up by day is what was in the samples of those days.
LEMMA TotalOldByDay ==
  ASSUME TypeOK, SamplesAtInstants, NEW a \in Apps, NEW S \in SUBSET Keys,
         \A t \in Times : t \in S <=> DayStart(cfg, t) \in S
  PROVE  SumFunctionOnSet(OldByDay[a], S)
           = SumFunctionOnSet(samples[a], {k \in S : k < FineCutoff})
<1> DEFINE f == samples[a]
           T == {t \in Times : t < FineCutoff}
           g == [t \in T |-> DayStart(cfg, t)]
           old == {k \in S : k < FineCutoff}
<1>1. /\ samples \in Tables /\ cfg \in Configs
      /\ S \in SUBSET Keys /\ T \in SUBSET Keys /\ old \in SUBSET Keys
      /\ T \subseteq Times
  BY WholeDays, KeysTypes DEF TypeOK, Tables
<1>2. IsFiniteSet(S) /\ IsFiniteSet(T) /\ IsFiniteSet(old)
  BY <1>1, KeysTypes, FS_Subset
<1>3. \A k \in Keys : f[k] \in Nat
  BY <1>1 DEF Tables
<1>4. ASSUME NEW d \in S
      PROVE  OldByDay[a][d] = SumFunctionOnSet(f, {t \in T : g[t] = d})
  <2>1. OldByDay[a][d] = Total(samples, a, {t \in T : <<cfg, t, d>> \in DayStarts})
    BY <1>1 DEF OldByDay
  <2>2. {t \in T : <<cfg, t, d>> \in DayStarts} = {t \in T : g[t] = d}
    BY <1>1, WholeDays
  <2>3. {t \in T : g[t] = d} \in SUBSET Keys
    BY <1>1
  <2> HIDE DEF T, g
  <2> QED BY <1>1, <2>1, <2>2, <2>3, TotalIsSum
<1>5. {t \in T : g[t] \in S} = S \cap T
  BY <1>1, WholeDays
<1>6. /\ S \cap T \in SUBSET old
      /\ \A k \in old \ (S \cap T) : f[k] = 0
  BY <1>1 DEF SamplesAtInstants
<1> HIDE DEF f, T, g, old
<1>7. SumFunctionOnSet(OldByDay[a], S) = SumFunctionOnSet(f, {t \in T : g[t] \in S})
  <2>1. \A t \in T : f[t] \in Nat
    BY <1>1, <1>3
  <2> DEFINE h == OldByDay[a]
             group == [d \in S |-> {t \in T : g[t] = d}]
             all == {t \in T : g[t] \in S}
  <2>2. /\ \A d \in S : group[d] = {t \in T : g[t] = d}
        /\ \A d \in S : h[d] = SumFunctionOnSet(f, group[d])
        /\ all = {t \in T : g[t] \in S}
    BY <1>4
  <2> HIDE DEF h, group, all
  <2>3. SumFunctionOnSet(h, S) = SumFunctionOnSet(f, all)
    BY <1>2, <2>1, <2>2, SumGroups
  <2> QED BY <2>3 DEF h, all
<1>8. SumFunctionOnSet(f, old) = SumFunctionOnSet(f, S \cap T)
                                   + SumFunctionOnSet(f, old \ (S \cap T))
  BY <1>1, <1>2, <1>3, <1>6, SumSplit
<1>9. SumFunctionOnSet(f, old \ (S \cap T)) = 0
  BY <1>2, <1>6, FS_Subset, SumZero
<1>10. SumFunctionOnSet(f, S \cap T) \in Nat
  BY <1>1, <1>2, <1>3, FS_Subset, SumNatural
<1> QED BY <1>5, <1>7, <1>8, <1>9, <1>10 DEF f, old

-----------------------------------------------------------------------------
(* The periods are exact.                                                  *)

\* Actions that leave alone what the sums are made of.
LEMMA SameSums ==
  ASSUME UNCHANGED <<tables, truth, purged, raced>>
  PROVE  /\ SamplesAtInstants => SamplesAtInstants'
         /\ Conserved => Conserved'
BY DEF tables, SamplesAtInstants, Conserved, Total

LEMMA AtInstantsStep ==
  ASSUME TypeOK, SamplesAtInstants, [Next]_vars
  PROVE  SamplesAtInstants'
<1> USE DEF tables, daemon, bounds, history
<1>1. CASE UNCHANGED <<tables, truth, purged, raced>>
  BY <1>1, SameSums
<1>2. ASSUME NEW bytes \in [Apps -> 0 .. 1], Insert(bytes)
      PROVE  SamplesAtInstants'
  <2>1. \A a \in Apps, k \in Keys \ {tickNow} :
          samples'[a][k] = samples[a][k] /\ truth'[a][k] = truth[a][k]
    BY <1>2 DEF Insert, TypeOK
  <2>2. tickNow \in Times
    BY DEF TypeOK
  <2> QED BY <2>1, <2>2 DEF SamplesAtInstants
<1>3. CASE RetentionCommit
  <2>1. \A a \in Apps, k \in Keys : samples[a][k] = 0 => samples'[a][k] = 0
    BY <1>3 DEF RetentionCommit
  <2>2. truth' = truth
    BY <1>3 DEF RetentionCommit
  <2> QED BY <2>1, <2>2 DEF SamplesAtInstants
<1>4. CASE ConfirmClear
  <2>1. PICK S :
          /\ samples' = [a \in Apps |-> Without(samples, a, S)]
          /\ truth' = [a \in Apps |-> Without(truth, a, S)]
    BY <1>4 DEF ConfirmClear
  <2>2. \A a \in Apps, k \in Keys : /\ samples[a][k] = 0 => samples'[a][k] = 0
                                    /\ truth[a][k] = 0 => truth'[a][k] = 0
    BY <2>1 DEF Without
  <2> QED BY <2>2 DEF SamplesAtInstants
<1> QED BY <1>1, <1>2, <1>3, <1>4
        DEF Next, Daemon, StartDaemon, BeginTick, RetentionSelect, TickFails,
            StopDaemon, AskClear, CancelClear, SetConfig, PassTime, vars

LEMMA RollupStep ==
  ASSUME RollupCurrent, [Next]_vars
  PROVE  RollupCurrent'
<1> USE DEF RollupCurrent, tables, daemon, bounds, history
<1>1. CASE pc' # "commit"
  BY <1>1
<1>2. CASE UNCHANGED <<pc, samples, rollup, tickNow, cfg, raced>>
  BY <1>2 DEF OldByDay, Total, FineCutoff
<1>3. CASE RetentionSelect
  <2>1. rollup' = OldByDay /\ UNCHANGED <<samples, tickNow, cfg>>
    BY <1>3 DEF RetentionSelect
  <2>2. OldByDay' = OldByDay
    BY <2>1 DEF OldByDay, Total, FineCutoff
  <2> QED BY <2>1, <2>2
<1>4. CASE ConfirmClear
  BY <1>4 DEF ConfirmClear
<1> QED BY <1>1, <1>2, <1>3, <1>4
        DEF Next, Daemon, StartDaemon, BeginTick, Insert, RetentionCommit,
            EndTick, TickFails, StopDaemon, AskClear, CancelClear, SetConfig,
            PassTime, vars

LEMMA InsertConserves ==
  ASSUME TypeOK, Conserved, NEW bytes \in [Apps -> 0 .. 1], Insert(bytes)
  PROVE  Conserved'
<1>1. SUFFICES ASSUME ~raced, NEW S \in DaySets, NEW a \in Apps,
                      S \cap purged = {}
               PROVE  Total(samples', a, S) + Total(daily', a, S)
                        = Total(truth', a, S)
  <2>1. daily' = daily /\ purged' = purged /\ raced' = raced
    BY DEF Insert
  <2> QED BY <2>1 DEF Conserved, Total
<1>2. /\ samples \in Tables /\ daily \in Tables /\ truth \in Tables
      /\ tickNow \in Keys /\ S \in SUBSET Keys
  BY WholeDays, KeysTypes DEF TypeOK, Tables
<1>3. Total(samples, a, S) + Total(daily, a, S) = Total(truth, a, S)
  BY <1>1 DEF Conserved
<1>4. /\ samples' = More(samples, tickNow, bytes)
      /\ truth' = More(truth, tickNow, bytes)
      /\ daily' = daily
  BY DEF Insert, More
<1> DEFINE more == IF tickNow \in S THEN bytes[a] ELSE 0
<1>5. /\ Total(samples', a, S) = Total(samples, a, S) + more
      /\ Total(truth', a, S) = Total(truth, a, S) + more
  BY <1>2, <1>4, TotalInserted
<1>6. more \in Nat
  OBVIOUS
<1>7. /\ Total(samples, a, S) \in Nat /\ Total(daily, a, S) \in Nat
      /\ Total(truth, a, S) \in Nat
  BY <1>2, TotalIsSum
<1> HIDE DEF more
<1> QED BY <1>3, <1>4, <1>5, <1>6, <1>7

LEMMA ClearConserves ==
  ASSUME CalendarInOrder, SameTimezone, TypeOK, Conserved, ConfirmClear
  PROVE  Conserved'
<1>1. PICK q \in asked :
        LET T == Span(q[1], config, q[2])
        IN /\ samples' = [a \in Apps |-> Without(samples, a, T)]
           /\ daily' = [a \in Apps |-> Without(daily, a, T)]
           /\ truth' = [a \in Apps |-> Without(truth, a, T)]
           /\ raced' = (raced \/ pc = "commit")
           /\ purged' = purged
  BY DEF ConfirmClear
<1> DEFINE T == Span(q[1], config, q[2])
<1>2. T \in DaySets
  <2>1. q[1] \in Periods /\ q[2] \in Times /\ config \in Configs
    BY DEF TypeOK
  <2> QED BY <2>1, SpanIsWhole
<1> HIDE DEF T
<1>3. SUFFICES ASSUME ~raced, NEW S \in DaySets, NEW a \in Apps,
                      S \cap purged = {}
               PROVE  Total(samples', a, S) + Total(daily', a, S)
                        = Total(truth', a, S)
  BY <1>1 DEF Conserved
<1>4. S \ T \in DaySets /\ (S \ T) \cap purged = {}
  BY <1>2, <1>3, WholeDays
<1>5. Total(samples, a, S \ T) + Total(daily, a, S \ T) = Total(truth, a, S \ T)
  BY <1>3, <1>4 DEF Conserved
<1>6. /\ samples \in Tables /\ daily \in Tables /\ truth \in Tables
      /\ S \in SUBSET Keys
  BY WholeDays DEF TypeOK, Tables
<1>7. /\ samples' = [b \in Apps |-> Without(samples, b, T)]
      /\ daily' = [b \in Apps |-> Without(daily, b, T)]
      /\ truth' = [b \in Apps |-> Without(truth, b, T)]
  BY <1>1 DEF T
<1>8. /\ Total(samples', a, S) = Total(samples, a, S \ T)
      /\ Total(daily', a, S) = Total(daily, a, S \ T)
      /\ Total(truth', a, S) = Total(truth, a, S \ T)
  BY <1>6, <1>7, TotalWithout
<1> QED BY <1>5, <1>8

\* In a set that keeps its rows, what the transaction deletes from the samples
\* it adds to the days.
LEMMA CommitMoves ==
  ASSUME TypeOK, SamplesAtInstants, RollupCurrent, RetentionCommit, ~raced,
         NEW S \in SUBSET Keys, \A t \in Times : t \in S <=> DayStart(cfg, t) \in S,
         \A k \in S : ~Purges(k), NEW a \in Apps
  PROVE  Total(samples', a, S) + Total(daily', a, S)
           = Total(samples, a, S) + Total(daily, a, S)
<1>1. /\ samples \in Tables /\ daily \in Tables /\ rollup \in Tables
      /\ S \in SUBSET Keys
  BY WholeDays DEF TypeOK, Tables
<1>2. samples' \in Tables /\ daily' \in Tables
  <2>1. TypeOK'
    BY TypeStep DEF Next, Daemon
  <2> QED BY <2>1 DEF TypeOK, Tables
<1>3. rollup = OldByDay
  BY DEF RollupCurrent, RetentionCommit
<1> DEFINE old == {k \in S : k < FineCutoff}
<1>4. \A k \in S :
        /\ samples'[a][k] = IF k < FineCutoff THEN 0 ELSE samples[a][k]
        /\ daily'[a][k] = daily[a][k] + rollup[a][k]
  BY <1>1 DEF RetentionCommit, Deleted
<1>5. /\ \A k \in old : samples'[a][k] = 0
      /\ \A k \in S \ old : samples'[a][k] = samples[a][k]
      /\ \A k \in S : /\ samples'[a][k] \in Nat /\ samples[a][k] \in Nat
                      /\ daily[a][k] \in Nat /\ rollup[a][k] \in Nat
      /\ old \in SUBSET S
  BY <1>1, <1>2, <1>4 DEF Tables
<1> DEFINE sum(f, R) == SumFunctionOnSet(f, R)
<1>6. sum(rollup[a], S) = sum(samples[a], old)
  BY <1>3, TotalOldByDay
<1> HIDE DEF old
<1>7. IsFiniteSet(S) /\ IsFiniteSet(old) /\ IsFiniteSet(S \ old)
  BY <1>1, <1>5, KeysTypes, FS_Subset
<1>8. sum(samples'[a], S) = sum(samples'[a], old) + sum(samples'[a], S \ old)
  BY <1>5, <1>7, SumSplit
<1>9. sum(samples[a], S) = sum(samples[a], old) + sum(samples[a], S \ old)
  BY <1>5, <1>7, SumSplit
<1>10. sum(samples'[a], old) = 0
  BY <1>5, <1>7, SumZero
<1>11. sum(samples'[a], S \ old) = sum(samples[a], S \ old)
  BY <1>5, <1>7, SumSame
<1>12. sum(daily'[a], S) = sum(daily[a], S) + sum(rollup[a], S)
  BY <1>4, <1>5, <1>7, SumPlus
<1>13. /\ sum(samples[a], old) \in Nat /\ sum(samples[a], S \ old) \in Nat
       /\ sum(daily[a], S) \in Nat
  BY <1>5, <1>7, SumNatural
<1>14. /\ Total(samples', a, S) = sum(samples'[a], S)
       /\ Total(daily', a, S) = sum(daily'[a], S)
       /\ Total(samples, a, S) = sum(samples[a], S)
       /\ Total(daily, a, S) = sum(daily[a], S)
  BY <1>1, <1>2, TotalIsSum
<1> HIDE DEF sum
<1> QED BY <1>6, <1>8, <1>9, <1>10, <1>11, <1>12, <1>13, <1>14

LEMMA CommitConserves ==
  ASSUME TypeOK, SamplesAtInstants, RollupCurrent, Conserved, RetentionCommit
  PROVE  Conserved'
<1>1. /\ truth' = truth /\ raced' = raced
      /\ purged' = purged \cup {k \in Keys : Purges(k)}
  BY DEF RetentionCommit
<1>2. SUFFICES ASSUME ~raced, NEW S \in DaySets, NEW a \in Apps,
                      S \cap purged' = {}
               PROVE  Total(samples', a, S) + Total(daily', a, S)
                        = Total(truth, a, S)
  BY <1>1 DEF Conserved, Total
<1>3. S \cap purged = {} /\ \A k \in S : ~Purges(k)
  BY <1>1, <1>2, WholeDays
<1>4. Total(samples, a, S) + Total(daily, a, S) = Total(truth, a, S)
  BY <1>2, <1>3 DEF Conserved
<1>5. S \in SUBSET Keys /\ \A t \in Times : t \in S <=> DayStart(cfg, t) \in S
  BY WholeDays DEF TypeOK
<1> QED BY <1>2, <1>3, <1>4, <1>5, CommitMoves

LEMMA TotalOfNothing ==
  ASSUME NEW S \in DaySets, NEW a \in Apps
  PROVE  Total(Nothing, a, S) = 0
<1> DEFINE f == Nothing[a]
<1>1. S \in SUBSET Keys /\ IsFiniteSet(S)
  BY WholeDays, KeysTypes, FS_Subset
<1>2. Nothing \in Tables /\ \A k \in S : f[k] = 0
  BY <1>1 DEF Nothing, Tables
<1>3. Total(Nothing, a, S) = SumFunctionOnSet(f, S)
  BY <1>1, <1>2, TotalIsSum
<1> HIDE DEF f
<1> QED BY <1>1, <1>2, <1>3, SumZero

Exact == SamplesAtInstants /\ RollupCurrent /\ Conserved

LEMMA ExactStep ==
  ASSUME CalendarInOrder, SameTimezone, TypeOK, Exact, [Next]_vars
  PROVE  Exact'
<1>1. SamplesAtInstants' /\ RollupCurrent'
  BY AtInstantsStep, RollupStep DEF Exact
<1>2. CASE UNCHANGED <<tables, truth, purged, raced>>
  BY <1>1, <1>2, SameSums DEF Exact
<1>3. Conserved'
  BY <1>2, SameSums, InsertConserves, ClearConserves, CommitConserves
     DEF Exact, Next, Daemon, StartDaemon, BeginTick, RetentionSelect, TickFails,
         StopDaemon, AskClear, CancelClear, SetConfig, PassTime, vars, tables,
         daemon, bounds, history
<1> QED BY <1>1, <1>3 DEF Exact

LEMMA ExactShown ==
  ASSUME CalendarInOrder, SameTimezone, TypeOK, Exact
  PROVE  PeriodsExact
<1>1. now \in Times /\ config \in Configs
  BY DEF TypeOK
<1>2. \A p \in Periods : Span(p, config, now) \in DaySets
  BY <1>1, SpanIsWhole
<1> QED BY <1>2 DEF Exact, Conserved, PeriodsExact, Shown

\* Retention.PeriodsExact holds throughout, where the calendar is in order: the
\* tables together show of a period exactly what was inserted in it and not
\* cleared, whatever is compacted, fails, restarts, is cleared or reconfigured
\* in between, unless the period was purged or a clear met a rollup.
THEOREM AlwaysExact ==
  ASSUME CalendarInOrder
  PROVE  Spec => []PeriodsExact
<1>1. CASE SameTimezone
  <2>1. Init => Exact
    <3>1. SUFFICES ASSUME Init PROVE Exact
      OBVIOUS
    <3>2. /\ samples = Nothing /\ daily = Nothing /\ truth = Nothing
          /\ pc = "down"
      BY <3>1 DEF Init
    <3>3. \A a \in Apps, k \in Keys : Nothing[a][k] = 0
      BY DEF Nothing
    <3>4. ASSUME NEW S \in DaySets, NEW a \in Apps PROVE Total(Nothing, a, S) = 0
      BY TotalOfNothing
    <3> QED BY <3>2, <3>3, <3>4
            DEF Exact, SamplesAtInstants, RollupCurrent, Conserved
  <2>2. TypeOK /\ Exact /\ [Next]_vars => Exact'
    BY <1>1, ExactStep
  <2>3. TypeOK /\ Exact => PeriodsExact
    BY <1>1, ExactShown
  <2> QED BY <2>1, <2>2, <2>3, TypeCorrect, PTL DEF Spec
<1>2. CASE ~SameTimezone
  <2>1. PeriodsExact
    BY <1>2 DEF PeriodsExact
  <2> QED BY <2>1, PTL
<1> QED BY <1>1, <1>2

-----------------------------------------------------------------------------
(* Nothing comes back.                                                     *)

\* The transaction adds to the days no more than it deletes from the samples,
\* whatever it purges.
LEMMA CommitAddsNothing ==
  ASSUME TypeOK, SamplesAtInstants, RollupCurrent, RetentionCommit, ~raced,
         NEW S \in SUBSET Keys, \A t \in Times : t \in S <=> DayStart(cfg, t) \in S,
         NEW a \in Apps
  PROVE  Total(samples', a, S) + Total(daily', a, S)
           <= Total(samples, a, S) + Total(daily, a, S)
<1>1. /\ samples \in Tables /\ daily \in Tables /\ rollup \in Tables
      /\ S \in SUBSET Keys
  BY WholeDays DEF TypeOK, Tables
<1>2. samples' \in Tables /\ daily' \in Tables
  <2>1. TypeOK'
    BY TypeStep DEF Next, Daemon
  <2> QED BY <2>1 DEF TypeOK, Tables
<1>3. rollup = OldByDay
  BY DEF RollupCurrent, RetentionCommit
<1> DEFINE old == {k \in S : k < FineCutoff}
           sum(f, R) == SumFunctionOnSet(f, R)
           moved == [k \in S |-> daily[a][k] + rollup[a][k]]
<1>4. /\ \A k \in S : samples[a][k] \in Nat /\ samples'[a][k] \in Nat
      /\ \A k \in S : daily[a][k] \in Nat /\ daily'[a][k] \in Nat
      /\ \A k \in S : rollup[a][k] \in Nat
  BY <1>1, <1>2 DEF Tables
<1>5. \A k \in old : samples'[a][k] = 0
  BY <1>1 DEF RetentionCommit, Deleted
<1>6. \A k \in S : samples'[a][k] <= samples[a][k]
  <2>1. \A k \in S : samples'[a][k] = 0 \/ samples'[a][k] = samples[a][k]
    BY <1>1 DEF RetentionCommit
  <2> QED BY <1>4, <2>1
<1>7. \A k \in S : /\ moved[k] = daily[a][k] + rollup[a][k] /\ moved[k] \in Nat
                   /\ daily'[a][k] <= moved[k]
  <2>1. \A k \in S : daily'[a][k] = 0 \/ daily'[a][k] = daily[a][k] + rollup[a][k]
    BY <1>1 DEF RetentionCommit
  <2> QED BY <1>4, <2>1
<1>8. sum(rollup[a], S) = sum(samples[a], old)
  BY <1>3, TotalOldByDay
<1>9. /\ IsFiniteSet(S) /\ IsFiniteSet(old) /\ IsFiniteSet(S \ old)
      /\ old \in SUBSET S
  BY <1>1, KeysTypes, FS_Subset
<1> HIDE DEF old, moved
<1>10. sum(samples'[a], S) = sum(samples'[a], old) + sum(samples'[a], S \ old)
  BY <1>4, <1>9, SumSplit
<1>11. sum(samples[a], S) = sum(samples[a], old) + sum(samples[a], S \ old)
  BY <1>4, <1>9, SumSplit
<1>12. sum(samples'[a], old) = 0
  BY <1>5, <1>9, SumZero
<1>13. sum(samples'[a], S \ old) <= sum(samples[a], S \ old)
  BY <1>4, <1>6, <1>9, SumMonotone
<1>14. sum(daily'[a], S) <= sum(moved, S)
  BY <1>4, <1>7, <1>9, SumMonotone
<1>15. sum(moved, S) = sum(daily[a], S) + sum(rollup[a], S)
  BY <1>4, <1>7, <1>9, SumPlus
<1>16. /\ sum(samples[a], old) \in Nat /\ sum(samples[a], S \ old) \in Nat
       /\ sum(samples'[a], S \ old) \in Nat
       /\ sum(daily[a], S) \in Nat /\ sum(daily'[a], S) \in Nat
  BY <1>4, <1>9, SumNatural
<1>17. /\ Total(samples', a, S) = sum(samples'[a], S)
       /\ Total(daily', a, S) = sum(daily'[a], S)
       /\ Total(samples, a, S) = sum(samples[a], S)
       /\ Total(daily, a, S) = sum(daily[a], S)
  BY <1>1, <1>2, TotalIsSum
<1> HIDE DEF sum
<1> QED BY <1>8, <1>10, <1>11, <1>12, <1>13, <1>14, <1>15, <1>16, <1>17

LEMMA NothingMoreStep ==
  ASSUME CalendarInOrder, SameTimezone, TypeOK, SamplesAtInstants, RollupCurrent,
         NothingMore, [Next]_vars
  PROVE  NothingMore'
<1>1. CASE UNCHANGED <<tables, truth, raced>>
  BY <1>1 DEF tables, NothingMore, Total
<1>2. ASSUME NEW bytes \in [Apps -> 0 .. 1], Insert(bytes) PROVE NothingMore'
  <2>1. SUFFICES ASSUME ~raced, NEW S \in DaySets, NEW a \in Apps
                 PROVE  Total(samples', a, S) + Total(daily', a, S)
                          <= Total(truth', a, S)
    <3>1. raced' = raced
      BY <1>2 DEF Insert
    <3> QED BY <3>1 DEF NothingMore, Total
  <2>2. /\ samples \in Tables /\ daily \in Tables /\ truth \in Tables
        /\ tickNow \in Keys /\ S \in SUBSET Keys
    BY WholeDays, KeysTypes DEF TypeOK, Tables
  <2>3. Total(samples, a, S) + Total(daily, a, S) <= Total(truth, a, S)
    BY <2>1 DEF NothingMore
  <2>4. /\ samples' = More(samples, tickNow, bytes)
        /\ truth' = More(truth, tickNow, bytes)
        /\ daily' = daily
    BY <1>2 DEF Insert, More
  <2> DEFINE more == IF tickNow \in S THEN bytes[a] ELSE 0
  <2>5. /\ Total(samples', a, S) = Total(samples, a, S) + more
        /\ Total(truth', a, S) = Total(truth, a, S) + more
    BY <2>2, <2>4, TotalInserted
  <2>6. more \in Nat
    OBVIOUS
  <2>7. /\ Total(samples, a, S) \in Nat /\ Total(daily, a, S) \in Nat
        /\ Total(truth, a, S) \in Nat
    BY <2>2, TotalIsSum
  <2> HIDE DEF more
  <2> QED BY <2>3, <2>4, <2>5, <2>6, <2>7
<1>3. CASE ConfirmClear
  <2>1. PICK q \in asked :
          LET T == Span(q[1], config, q[2])
          IN /\ samples' = [a \in Apps |-> Without(samples, a, T)]
             /\ daily' = [a \in Apps |-> Without(daily, a, T)]
             /\ truth' = [a \in Apps |-> Without(truth, a, T)]
             /\ raced' = (raced \/ pc = "commit")
    BY <1>3 DEF ConfirmClear
  <2> DEFINE T == Span(q[1], config, q[2])
  <2>2. T \in DaySets
    <3>1. q[1] \in Periods /\ q[2] \in Times /\ config \in Configs
      BY DEF TypeOK
    <3> QED BY <3>1, SpanIsWhole
  <2> HIDE DEF T
  <2>3. SUFFICES ASSUME ~raced, NEW S \in DaySets, NEW a \in Apps
                 PROVE  Total(samples', a, S) + Total(daily', a, S)
                          <= Total(truth', a, S)
    BY <2>1 DEF NothingMore
  <2>4. S \ T \in DaySets
    BY <2>2, WholeDays
  <2>5. Total(samples, a, S \ T) + Total(daily, a, S \ T) <= Total(truth, a, S \ T)
    BY <2>3, <2>4 DEF NothingMore
  <2>6. /\ samples \in Tables /\ daily \in Tables /\ truth \in Tables
        /\ S \in SUBSET Keys
    BY WholeDays DEF TypeOK, Tables
  <2>7. /\ samples' = [b \in Apps |-> Without(samples, b, T)]
        /\ daily' = [b \in Apps |-> Without(daily, b, T)]
        /\ truth' = [b \in Apps |-> Without(truth, b, T)]
    BY <2>1 DEF T
  <2>8. /\ Total(samples', a, S) = Total(samples, a, S \ T)
        /\ Total(daily', a, S) = Total(daily, a, S \ T)
        /\ Total(truth', a, S) = Total(truth, a, S \ T)
    BY <2>6, <2>7, TotalWithout
  <2> QED BY <2>5, <2>8
<1>4. CASE RetentionCommit
  <2>1. SUFFICES ASSUME ~raced, NEW S \in DaySets, NEW a \in Apps
                 PROVE  Total(samples', a, S) + Total(daily', a, S)
                          <= Total(truth, a, S)
    <3>1. truth' = truth /\ raced' = raced
      BY <1>4 DEF RetentionCommit
    <3> QED BY <3>1 DEF NothingMore, Total
  <2>2. S \in SUBSET Keys /\ \A t \in Times : t \in S <=> DayStart(cfg, t) \in S
    BY WholeDays DEF TypeOK
  <2>3. Total(samples', a, S) + Total(daily', a, S)
          <= Total(samples, a, S) + Total(daily, a, S)
    BY <1>4, <2>1, <2>2, CommitAddsNothing
  <2>4. Total(samples, a, S) + Total(daily, a, S) <= Total(truth, a, S)
    BY <2>1 DEF NothingMore
  <2>5. /\ samples \in Tables /\ daily \in Tables /\ truth \in Tables
        /\ samples' \in Tables /\ daily' \in Tables
    <3>1. TypeOK'
      BY TypeStep
    <3> QED BY <3>1 DEF TypeOK, Tables
  <2>6. /\ Total(samples, a, S) \in Nat /\ Total(daily, a, S) \in Nat
        /\ Total(truth, a, S) \in Nat
        /\ Total(samples', a, S) \in Nat /\ Total(daily', a, S) \in Nat
    BY <2>2, <2>5, TotalIsSum
  <2> QED BY <2>3, <2>4, <2>6
<1> QED BY <1>1, <1>2, <1>3, <1>4
        DEF Next, Daemon, StartDaemon, BeginTick, RetentionSelect, TickFails,
            StopDaemon, AskClear, CancelClear, SetConfig, PassTime, vars, tables,
            daemon, bounds, history

\* Nothing that a clear deleted is shown again, in whatever period, unless a clear
\* met a rollup: the race of MCRetention_clear is the only way to break
\* Retention.ClearedStaysCleared, for commands and daemons of one time zone, where
\* the calendar is in order.
THEOREM OnlyTheRaceBringsBack ==
  ASSUME CalendarInOrder, SameTimezone
  PROVE  Spec => [](~raced => ClearedStaysCleared)
<1> DEFINE IInv == SamplesAtInstants /\ RollupCurrent /\ NothingMore
<1>1. Init => IInv
  <2>1. SUFFICES ASSUME Init PROVE IInv
    OBVIOUS
  <2>2. /\ samples = Nothing /\ daily = Nothing /\ truth = Nothing
        /\ pc = "down"
    BY <2>1 DEF Init
  <2>3. \A a \in Apps, k \in Keys : Nothing[a][k] = 0
    BY DEF Nothing
  <2>4. ASSUME NEW S \in DaySets, NEW a \in Apps PROVE Total(Nothing, a, S) = 0
    BY TotalOfNothing
  <2> QED BY <2>2, <2>3, <2>4 DEF SamplesAtInstants, RollupCurrent, NothingMore
<1>2. TypeOK /\ IInv /\ [Next]_vars => IInv'
  BY AtInstantsStep, RollupStep, NothingMoreStep
<1>3. TypeOK /\ IInv => (~raced => ClearedStaysCleared)
  <2>1. SUFFICES ASSUME TypeOK, NothingMore, ~raced PROVE ClearedStaysCleared
    OBVIOUS
  <2>2. \A p \in Periods : Span(p, config, now) \in DaySets
    BY <2>1, SpanIsWhole DEF TypeOK
  <2> QED BY <2>1, <2>2 DEF NothingMore, ClearedStaysCleared, Shown
<1> HIDE DEF IInv
<1> QED BY <1>1, <1>2, <1>3, TypeCorrect, PTL DEF Spec

-----------------------------------------------------------------------------
(* Months and billing cycles.                                              *)

\* The first days of the months are days, in order.
LEMMA MonthsAscend ==
  /\ Len(FirstDays) \in Nat
  /\ \A i \in 1 .. Len(FirstDays) : FirstDays[i] \in Nat
  /\ \A i, j \in 1 .. Len(FirstDays) : i < j => FirstDays[i] < FirstDays[j]
<1>1. /\ Len(FirstDays) \in Nat
      /\ \A i \in 1 .. Len(FirstDays) : FirstDays[i] \in Nat
      /\ \A m \in 2 .. Len(FirstDays) : FirstDays[m - 1] < FirstDays[m]
  BY PeriodsAssumption
<1>2. ASSUME NEW i \in 1 .. Len(FirstDays), NEW j \in 1 .. Len(FirstDays), i < j
      PROVE  FirstDays[i] < FirstDays[j]
  <2> DEFINE bad == {k \in i + 1 .. Len(FirstDays) :
                       ~(FirstDays[i] < FirstDays[k])}
  <2>1. SUFFICES ASSUME bad # {} PROVE FALSE
    BY <1>1, <1>2
  <2>2. bad \in SUBSET Nat
    BY <1>1
  <2>3. PICK k \in bad : \A l \in bad : k <= l
    <3> HIDE DEF bad
    <3> QED BY <2>1, <2>2, MinFirst
  <2>4. k \in i + 1 .. Len(FirstDays) /\ ~(FirstDays[i] < FirstDays[k])
    OBVIOUS
  <2>5. FirstDays[k - 1] < FirstDays[k]
    BY <1>1, <2>4
  <2>6. k - 1 = i \/ FirstDays[i] < FirstDays[k - 1]
    <3>1. k - 1 \notin bad
      <4> HIDE DEF bad
      <4> QED BY <2>2, <2>3
    <3> QED BY <1>1, <2>4, <3>1
  <2>7. FirstDays[i] \in Nat /\ FirstDays[k - 1] \in Nat /\ FirstDays[k] \in Nat
    BY <1>1, <2>4
  <2> QED BY <2>4, <2>5, <2>6, <2>7
<1> QED BY <1>1, <1>2

LEMMA MonthTypes ==
  ASSUME NEW m \in Months
  PROVE  /\ m \in 1 .. Len(FirstDays) /\ m + 1 \in 1 .. Len(FirstDays)
         /\ FirstDays[m] \in Nat /\ FirstDays[m + 1] \in Nat
         /\ FirstDays[m] < FirstDays[m + 1]
         /\ Length(m) = FirstDays[m + 1] - FirstDays[m] /\ Length(m) \in Nat \ {0}
<1>1. m \in 1 .. Len(FirstDays) /\ m + 1 \in 1 .. Len(FirstDays)
  BY MonthsAscend DEF Months
<1>2. /\ FirstDays[m] \in Nat /\ FirstDays[m + 1] \in Nat
      /\ FirstDays[m] < FirstDays[m + 1]
  BY <1>1, MonthsAscend
<1> QED BY <1>1, <1>2 DEF Length

\* A day is of one month.
LEMMA MonthUnique ==
  ASSUME NEW m \in Months, NEW d \in FirstDays[m] .. FirstDays[m + 1] - 1
  PROVE  MonthOf(d) = m
<1>1. ASSUME NEW n \in Months, d \in FirstDays[n] .. FirstDays[n + 1] - 1
      PROVE  n = m
  <2>1. /\ FirstDays[m] \in Nat /\ FirstDays[m + 1] \in Nat
        /\ FirstDays[n] \in Nat /\ FirstDays[n + 1] \in Nat
        /\ n \in 1 .. Len(FirstDays) /\ n + 1 \in 1 .. Len(FirstDays)
        /\ m \in 1 .. Len(FirstDays) /\ m + 1 \in 1 .. Len(FirstDays)
    BY MonthTypes
  <2>2. n + 1 < m => FirstDays[n + 1] < FirstDays[m]
    BY <2>1, MonthsAscend
  <2>3. m + 1 < n => FirstDays[m + 1] < FirstDays[n]
    BY <2>1, MonthsAscend
  <2>4. FirstDays[n] <= d /\ d < FirstDays[n + 1] /\ FirstDays[m] <= d
        /\ d < FirstDays[m + 1] /\ d \in Int
    BY <1>1, <2>1
  <2> QED BY <2>1, <2>2, <2>3, <2>4, MonthsAscend
<1>2. MonthOf(d) \in Months /\ d \in FirstDays[MonthOf(d)] .. FirstDays[MonthOf(d) + 1] - 1
  BY DEF MonthOf
<1> QED BY <1>1, <1>2

\* The billing day of a month is a day of that month.
LEMMA CycleDates ==
  ASSUME NEW c \in Configs, NEW m \in Months
  PROVE  /\ CycleDate(c, m) \in FirstDays[m] .. FirstDays[m + 1] - 1
         /\ MonthOf(CycleDate(c, m)) = m
         /\ CycleDate(c, m) = FirstDays[m] - 1
                                + IF c.cycle <= Length(m) THEN c.cycle ELSE Length(m)
<1>1. c.cycle \in Nat \ {0}
  BY PeriodsAssumption
<1>2. /\ FirstDays[m] \in Nat /\ FirstDays[m + 1] \in Nat
      /\ Length(m) = FirstDays[m + 1] - FirstDays[m] /\ Length(m) \in Nat \ {0}
  BY MonthTypes
<1> DEFINE both == {c.cycle, Length(m)}
<1>3. Min(both) \in both /\ \A x \in both : Min(both) <= x
  <2>1. both \in SUBSET Nat /\ both # {}
    BY <1>1, <1>2
  <2> HIDE DEF both
  <2> QED BY <2>1, MinFirst
<1>4. Min(both) = IF c.cycle <= Length(m) THEN c.cycle ELSE Length(m)
  BY <1>1, <1>2, <1>3
<1>5. CycleDate(c, m) = FirstDays[m] + Min(both) - 1
  BY DEF CycleDate
<1> HIDE DEF both
<1>6. CycleDate(c, m) = FirstDays[m] - 1
                          + IF c.cycle <= Length(m) THEN c.cycle ELSE Length(m)
  BY <1>1, <1>2, <1>4, <1>5
<1>7. CycleDate(c, m) \in FirstDays[m] .. FirstDays[m + 1] - 1
  BY <1>1, <1>2, <1>6
<1> QED BY <1>6, <1>7, MonthUnique

\* Of two months of l and k days, on the billing days v and w.
LEMMA CycleLength ==
  ASSUME NEW f \in Nat, NEW g \in Nat, NEW l \in Nat, NEW k \in Nat,
         NEW v \in Nat, NEW w \in Nat, NEW week \in Nat,
         g >= f + l, l >= week - 1, k >= week - 1, v <= l, w >= v \/ w = k
  PROVE  f - 1 + v <= g - 1 + w - (week - 1)
OBVIOUS

\* Billing days follow each other, in cycles no shorter than a week less a day.
LEMMA CyclesAscend ==
  ASSUME NEW c \in Configs, NEW m \in Months, NEW n \in Months, m < n
  PROVE  /\ CycleDate(c, m) < CycleDate(c, n)
         /\ WeeksFit => CycleDate(c, m) <= CycleDate(c, n) - (WeekDays - 1)
<1>1. /\ FirstDays[m] \in Nat /\ FirstDays[m + 1] \in Nat /\ FirstDays[n] \in Nat
      /\ m + 1 \in 1 .. Len(FirstDays) /\ n \in 1 .. Len(FirstDays)
      /\ Length(m) = FirstDays[m + 1] - FirstDays[m]
      /\ Length(m) \in Nat /\ Length(n) \in Nat
  BY MonthTypes
<1>2. /\ FirstDays[m + 1] <= FirstDays[n] /\ m \in Nat /\ n \in Nat
  BY <1>1, MonthsAscend DEF Months
<1>3. c.cycle \in Nat \ {0} /\ WeekDays \in Nat \ {0}
  BY PeriodsAssumption
<1> DEFINE a == IF c.cycle <= Length(m) THEN c.cycle ELSE Length(m)
           b == IF c.cycle <= Length(n) THEN c.cycle ELSE Length(n)
<1>4. /\ CycleDate(c, m) = FirstDays[m] - 1 + a
      /\ CycleDate(c, n) = FirstDays[n] - 1 + b
  BY CycleDates
<1>5. /\ CycleDate(c, m) \in FirstDays[m] .. FirstDays[m + 1] - 1
      /\ CycleDate(c, n) \in FirstDays[n] .. FirstDays[n + 1] - 1
  BY CycleDates
<1>6. CycleDate(c, m) < CycleDate(c, n)
  BY <1>1, <1>2, <1>5
<1>7. /\ a \in Nat /\ b \in Nat /\ a <= Length(m)
      /\ b >= a \/ b = Length(n)
  BY <1>1, <1>3
<1>8. ASSUME WeeksFit
      PROVE  CycleDate(c, m) <= CycleDate(c, n) - (WeekDays - 1)
  <2>1. Length(m) >= WeekDays - 1 /\ Length(n) >= WeekDays - 1
    BY <1>8 DEF WeeksFit
  <2>2. FirstDays[n] >= FirstDays[m] + Length(m)
    BY <1>1, <1>2
  <2> HIDE DEF a, b
  <2>3. FirstDays[m] - 1 + a <= FirstDays[n] - 1 + b - (WeekDays - 1)
    BY <1>1, <1>3, <1>7, <2>1, <2>2, CycleLength
  <2> QED BY <1>1, <1>3, <1>4, <1>7, <2>3
<1> QED BY <1>6, <1>8

\* Day d is of the cycle that begins in month n.
InCycle(c, n, d) ==
  /\ n \in 2 .. Len(FirstDays) - 2
  /\ CycleDate(c, n) <= d /\ d < CycleDate(c, n + 1)

\* A day is of one cycle, and the cycle of a day is as the code says.
LEMMA CycleUnique ==
  ASSUME NEW c \in Configs, NEW d \in Int, NEW n, NEW k,
         InCycle(c, n, d), InCycle(c, k, d)
  PROVE  n = k
<1>1. /\ n \in Int /\ k \in Int /\ n \in Months /\ n + 1 \in Months
      /\ k \in Months /\ k + 1 \in Months
  BY MonthsAscend DEF InCycle, Months
<1>2. /\ CycleDate(c, n) \in Int /\ CycleDate(c, n + 1) \in Int
      /\ CycleDate(c, k) \in Int /\ CycleDate(c, k + 1) \in Int
  BY <1>1, CycleDates
<1>3. n + 1 < k => CycleDate(c, n + 1) < CycleDate(c, k)
  BY <1>1, CyclesAscend
<1>4. k + 1 < n => CycleDate(c, k + 1) < CycleDate(c, n)
  BY <1>1, CyclesAscend
<1> QED BY <1>1, <1>2, <1>3, <1>4 DEF InCycle

LEMMA CycleOfDay ==
  ASSUME NEW c \in Configs, NEW m \in 3 .. Len(FirstDays) - 2,
         NEW d \in FirstDays[m] .. FirstDays[m + 1] - 1
  PROVE  \E n \in 2 .. Len(FirstDays) - 2 :
           /\ InCycle(c, n, d)
           /\ FirstDay("month", c, d) = CycleDate(c, n)
           /\ NextDay("month", c, d) = CycleDate(c, n + 1)
           /\ FirstDay("last month", c, d) = CycleDate(c, n - 1)
           /\ NextDay("last month", c, d) = CycleDate(c, n)
<1>1. m - 1 \in Months /\ m \in Months /\ m + 1 \in Months /\ m \in Int
  BY MonthsAscend DEF Months
<1>2. /\ MonthOf(d) = m /\ d \in Int
      /\ FirstDays[m] \in Nat /\ FirstDays[m + 1] \in Nat
  BY <1>1, MonthUnique, MonthTypes
<1> DEFINE n == IF d >= CycleDate(c, m) THEN m ELSE m - 1
<1>3. /\ n \in 2 .. Len(FirstDays) - 2 /\ n \in Months
      /\ CycleStart(c, d) = CycleDate(c, n)
  BY <1>1, <1>2, MonthsAscend DEF CycleStart
<1>4. MonthOf(CycleStart(c, d)) = n
  BY <1>3, CycleDates
<1>5. CycleDate(c, n) <= d /\ d < CycleDate(c, n + 1)
  <2>1. CycleDate(c, m) \in Int
    BY <1>1, CycleDates, MonthTypes
  <2>2. CASE d >= CycleDate(c, m)
    <3>1. CycleDate(c, m + 1) >= FirstDays[m + 1] /\ CycleDate(c, m + 1) \in Int
      BY <1>1, CycleDates, MonthTypes
    <3> QED BY <1>2, <2>1, <2>2, <3>1
  <2>3. CASE ~(d >= CycleDate(c, m))
    <3>1. n = m - 1 /\ n + 1 = m
      BY <1>1, <2>3
    <3>2. FirstDays[m - 1] \in Nat /\ m - 1 + 1 = m
      BY <1>1, MonthTypes
    <3>3. CycleDate(c, m - 1) <= FirstDays[m] - 1 /\ CycleDate(c, m - 1) \in Int
      BY <1>1, <1>2, <3>2, CycleDates
    <3> QED BY <1>2, <2>1, <2>3, <3>1, <3>3
  <2> QED BY <2>2, <2>3
<1> HIDE DEF n
<1>6. /\ InCycle(c, n, d)
      /\ FirstDay("month", c, d) = CycleDate(c, n)
      /\ NextDay("month", c, d) = CycleDate(c, n + 1)
      /\ FirstDay("last month", c, d) = CycleDate(c, n - 1)
      /\ NextDay("last month", c, d) = CycleDate(c, n)
  BY <1>3, <1>4, <1>5 DEF InCycle, FirstDay, NextDay, CycleEnd
<1> QED BY <1>3, <1>6

\* The week of a day begins less than a week before it, and the days until the
\* next are of the same week.
LEMMA Weeks ==
  ASSUME NEW c \in Configs, NEW d \in Int
  PROVE  /\ WeekStart(c, d) \in Int
         /\ WeekStart(c, d) <= d /\ d - (WeekDays - 1) <= WeekStart(c, d)
         /\ \A e \in Int : WeekStart(c, d) <= e /\ e < WeekStart(c, d) + WeekDays
                             => WeekStart(c, e) = WeekStart(c, d)
<1>1. WeekDays \in Nat \ {0} /\ c.week \in Nat
  BY PeriodsAssumption
<1>2. \A x \in Int : /\ x % WeekDays \in 0 .. WeekDays - 1
                     /\ x \div WeekDays \in Int
                     /\ x = WeekDays * (x \div WeekDays) + (x % WeekDays)
  BY <1>1
<1>3. \A q \in Int, r \in 0 .. WeekDays - 1 : (WeekDays * q + r) % WeekDays = r
  BY <1>1
<1> DEFINE x == d + WeekDays - c.week
           q == x \div WeekDays
           rest == x % WeekDays
<1>4. /\ q \in Int /\ rest \in 0 .. WeekDays - 1 /\ x = WeekDays * q + rest
      /\ WeekStart(c, d) = d - rest
  <2>1. x \in Int
    BY <1>1
  <2>2. WeekStart(c, d) = d - rest
    BY DEF WeekStart
  <2> HIDE DEF x
  <2> QED BY <1>2, <2>1, <2>2
<1>5. ASSUME NEW e \in Int, WeekStart(c, d) <= e, e < WeekStart(c, d) + WeekDays
      PROVE  WeekStart(c, e) = WeekStart(c, d)
  <2> DEFINE r == e - WeekStart(c, d)
  <2> HIDE DEF q, rest
  <2>1. WeekDays * q \in Int
    BY <1>1, <1>4
  <2>2. r \in 0 .. WeekDays - 1 /\ e + WeekDays - c.week = WeekDays * q + r
    BY <1>1, <1>4, <1>5, <2>1
  <2>3. (WeekDays * q + r) % WeekDays = r
    BY <1>3, <1>4, <2>2
  <2> QED BY <1>1, <2>2, <2>3 DEF WeekStart
<1>6. /\ WeekStart(c, d) \in Int
      /\ WeekStart(c, d) <= d /\ d - (WeekDays - 1) <= WeekStart(c, d)
  <2> HIDE DEF x, q, rest
  <2> QED BY <1>1, <1>4
<1> QED BY <1>5, <1>6

-----------------------------------------------------------------------------
(* The periods agree with each other.                                      *)

LEMMA DaysShown ==
  ASSUME CalendarInOrder, NEW c \in Configs, NEW t \in Times
  PROVE  /\ t \in Instants /\ LocalDay(c, t) \in Int
         /\ \A p \in Periods :
              /\ FirstDay(p, c, LocalDay(c, t)) \in {LocalDay(c, u) : u \in Instants}
              /\ NextDay(p, c, LocalDay(c, t)) \in {LocalDay(c, u) : u \in Instants}
         /\ \A d \in {LocalDay(c, u) : u \in Instants} : d \in Int
         /\ \E m \in 3 .. Len(FirstDays) - 2 :
              LocalDay(c, t) \in FirstDays[m] .. FirstDays[m + 1] - 1
BY KeysTypes, CalendarTypes DEF CalendarInOrder, InReach

\* An instant is in a period if its day is.
LEMMA SpanByDays ==
  ASSUME CalendarInOrder,
         NEW p \in Periods, NEW c \in Configs, NEW t \in Times, NEW k \in Times
  PROVE  k \in Span(p, c, t) <=>
           /\ FirstDay(p, c, LocalDay(c, t)) <= LocalDay(c, k)
           /\ LocalDay(c, k) < NextDay(p, c, LocalDay(c, t))
<1> DEFINE first == FirstDay(p, c, LocalDay(c, t))
           next == NextDay(p, c, LocalDay(c, t))
<1>1. PICK u \in Instants, v \in Instants :
        first = LocalDay(c, u) /\ next = LocalDay(c, v)
  BY DaysShown
<1>2. k \in Instants /\ k \in Keys /\ DaysInOrder
  BY KeysTypes DEF CalendarInOrder
<1>3. k < StartOf(p, c, t) <=> LocalDay(c, k) < first
  BY <1>1, <1>2, BeforeTheDay DEF StartOf
<1>4. k < EndOf(p, c, t) <=> LocalDay(c, k) < next
  BY <1>1, <1>2, BeforeTheDay DEF EndOf
<1>5. first \in Int /\ next \in Int /\ LocalDay(c, k) \in Int
  BY <1>1, <1>2, CalendarTypes
<1>6. k \in Span(p, c, t) <=> k < EndOf(p, c, t) /\ ~(k < StartOf(p, c, t))
  BY <1>2, EarlierWithin
<1> HIDE DEF first, next
<1>7. k \in Span(p, c, t) <=> first <= LocalDay(c, k) /\ LocalDay(c, k) < next
  BY <1>3, <1>4, <1>5, <1>6
<1> QED BY <1>7 DEF first, next

\* Periods between the same days hold the same keys.
LEMMA SameSpan ==
  ASSUME NEW p \in Periods, NEW q \in Periods, NEW c \in Configs,
         NEW t \in Times, NEW u \in Times,
         FirstDay(p, c, LocalDay(c, t)) = FirstDay(q, c, LocalDay(c, u)),
         NextDay(p, c, LocalDay(c, t)) = NextDay(q, c, LocalDay(c, u))
  PROVE  Span(p, c, t) = Span(q, c, u)
<1>1. StartOf(p, c, t) = StartOf(q, c, u) /\ EndOf(p, c, t) = EndOf(q, c, u)
  BY DEF StartOf, EndOf
<1>2. \A k \in Keys : k \in Span(p, c, t) <=> k \in Span(q, c, u)
  BY <1>1, EarlierWithin
<1>3. Span(p, c, t) \subseteq Keys /\ Span(q, c, u) \subseteq Keys
  BY DEF Span
<1> QED BY <1>2, <1>3

LEMMA SpansAgree ==
  ASSUME CalendarInOrder, NEW c \in Configs, NEW n \in Times, NEW t \in Times
  PROVE  /\ t \in Span("today", c, n) <=> LocalDay(c, t) = LocalDay(c, n)
         /\ \A p \in {"week", "month"} :
              t \in Span(p, c, n) => Span(p, c, t) = Span(p, c, n)
         /\ t \in Span("last month", c, n) =>
              Span("month", c, t) = Span("last month", c, n)
<1> DEFINE d == LocalDay(c, n)
           e == LocalDay(c, t)
<1>1. d \in Int /\ e \in Int
  BY DaysShown
<1>2. {"today", "week", "month", "last month"} = Periods
  BY DEF Periods
<1>3. t \in Span("today", c, n) <=> e = d
  <2>1. FirstDay("today", c, d) = d /\ NextDay("today", c, d) = d + 1
    BY DEF FirstDay, NextDay
  <2>2. t \in Span("today", c, n) <=> d <= e /\ e < d + 1
    BY <1>2, <2>1, SpanByDays
  <2> HIDE DEF d, e
  <2> QED BY <1>1, <2>2
<1>4. ASSUME t \in Span("week", c, n) PROVE Span("week", c, t) = Span("week", c, n)
  <2>1. \A x : /\ FirstDay("week", c, x) = WeekStart(c, x)
               /\ NextDay("week", c, x) = WeekStart(c, x) + WeekDays
    BY DEF FirstDay, NextDay
  <2>2. WeekStart(c, d) <= e /\ e < WeekStart(c, d) + WeekDays
    BY <1>2, <1>4, <2>1, SpanByDays
  <2>3. WeekStart(c, e) = WeekStart(c, d)
    <3> HIDE DEF d, e
    <3> QED BY <1>1, <2>2, Weeks
  <2>4. /\ FirstDay("week", c, e) = FirstDay("week", c, d)
        /\ NextDay("week", c, e) = NextDay("week", c, d)
        /\ "week" \in Periods
    BY <1>2, <2>1, <2>3
  <2> QED BY <2>4, SameSpan
<1>5. PICK k \in 2 .. Len(FirstDays) - 2 :
        /\ InCycle(c, k, d)
        /\ FirstDay("month", c, d) = CycleDate(c, k)
        /\ NextDay("month", c, d) = CycleDate(c, k + 1)
        /\ FirstDay("last month", c, d) = CycleDate(c, k - 1)
        /\ NextDay("last month", c, d) = CycleDate(c, k)
  BY DaysShown, CycleOfDay
<1>6. PICK l \in 2 .. Len(FirstDays) - 2 :
        /\ InCycle(c, l, e)
        /\ FirstDay("month", c, e) = CycleDate(c, l)
        /\ NextDay("month", c, e) = CycleDate(c, l + 1)
  BY DaysShown, CycleOfDay
<1>7. ASSUME t \in Span("month", c, n) PROVE Span("month", c, t) = Span("month", c, n)
  <2>1. InCycle(c, k, e)
    BY <1>2, <1>5, <1>7, SpanByDays DEF InCycle
  <2>2. l = k
    BY <1>1, <1>6, <2>1, CycleUnique
  <2>3. /\ FirstDay("month", c, e) = FirstDay("month", c, d)
        /\ NextDay("month", c, e) = NextDay("month", c, d)
        /\ "month" \in Periods
    BY <1>2, <1>5, <1>6, <2>2
  <2> QED BY <2>3, SameSpan
<1>8. ASSUME t \in Span("last month", c, n)
      PROVE  Span("month", c, t) = Span("last month", c, n)
  <2>1. CycleDate(c, k - 1) <= e /\ e < CycleDate(c, k)
    BY <1>2, <1>5, <1>8, SpanByDays
  <2>2. l \in Months /\ k - 1 \in Months /\ k \in Months /\ l \in Int /\ k \in Int
    BY MonthsAscend DEF Months
  <2>3. l = k - 1
    <3>1. CycleDate(c, l) <= e /\ e < CycleDate(c, l + 1) /\ l + 1 \in Months
      BY <1>6, MonthsAscend DEF InCycle, Months
    <3>2. /\ CycleDate(c, l) \in Int /\ CycleDate(c, l + 1) \in Int
          /\ CycleDate(c, k) \in Int /\ CycleDate(c, k - 1) \in Int
      BY <2>2, <3>1, CycleDates
    <3>3. k < l => CycleDate(c, k) < CycleDate(c, l)
      BY <2>2, CyclesAscend
    <3>4. l + 1 < k - 1 => CycleDate(c, l + 1) < CycleDate(c, k - 1)
      BY <2>2, <3>1, CyclesAscend
    <3> HIDE DEF e
    <3> QED BY <1>1, <2>1, <2>2, <3>1, <3>2, <3>3, <3>4
  <2>4. l + 1 = k
    BY <2>2, <2>3
  <2>5. /\ FirstDay("month", c, e) = FirstDay("last month", c, d)
        /\ NextDay("month", c, e) = NextDay("last month", c, d)
        /\ "month" \in Periods /\ "last month" \in Periods
    BY <1>2, <1>5, <1>6, <2>3, <2>4
  <2> QED BY <2>5, SameSpan
<1> QED BY <1>3, <1>4, <1>7, <1>8

\* Retention.PeriodsAgree holds throughout, where the calendar is in order: two
\* instants of a week or a cycle see the same one, and the last month is the
\* month its own instants saw, for every billing day and every change of clock.
THEOREM AlwaysAgree ==
  ASSUME CalendarInOrder
  PROVE  Spec => []PeriodsAgree
<1>1. TypeOK => PeriodsAgree
  BY SpansAgree DEF TypeOK, PeriodsAgree
<1> QED BY <1>1, TypeCorrect, PTL

-----------------------------------------------------------------------------
(* A retention changes nothing that is shown.                              *)

\* The start of a day is not before the start of an earlier day.
LEMMA StartsAscend ==
  ASSUME DaysInOrder, NEW c \in Configs, NEW u \in Instants, NEW v \in Instants,
         LocalDay(c, u) <= LocalDay(c, v)
  PROVE  StartOfDay(c, LocalDay(c, u)) <= StartOfDay(c, LocalDay(c, v))
<1> DEFINE s == StartOfDay(c, LocalDay(c, v))
           r == StartOfDay(c, LocalDay(c, u))
<1>1. s \in Instants /\ r \in Instants /\ LocalDay(c, s) = LocalDay(c, v)
  BY StartIsOfDay
<1>2. Instants \subseteq Nat /\ \A w \in Instants : LocalDay(c, w) \in Int
  BY CalendarTypes
<1>3. s < r <=> LocalDay(c, s) < LocalDay(c, u)
  BY <1>1, BeforeTheDay
<1> HIDE DEF s, r
<1>4. r <= s
  BY <1>1, <1>2, <1>3
<1> QED BY <1>4 DEF s, r

\* The last month begins no later than any period seen since.
LEMMA LastMonthFirst ==
  ASSUME CalendarInOrder, NEW c \in Configs, NEW t \in Times, NEW n \in Times, t <= n,
         NEW p \in Periods
  PROVE  StartOf("last month", c, t) <= StartOf(p, c, n)
<1> DEFINE d == LocalDay(c, t)
           e == LocalDay(c, n)
<1>1. d \in Int /\ e \in Int /\ d <= e
  BY DaysShown DEF CalendarInOrder, DaysInOrder
<1>2. PICK k \in 2 .. Len(FirstDays) - 2 :
        InCycle(c, k, d) /\ FirstDay("last month", c, d) = CycleDate(c, k - 1)
  BY DaysShown, CycleOfDay
<1>3. PICK l \in 2 .. Len(FirstDays) - 2 :
        /\ InCycle(c, l, e)
        /\ FirstDay("month", c, e) = CycleDate(c, l)
        /\ FirstDay("last month", c, e) = CycleDate(c, l - 1)
  BY DaysShown, CycleOfDay
<1>4. /\ k \in Int /\ l \in Int /\ k \in Months /\ k + 1 \in Months /\ k - 1 \in Months
      /\ l \in Months /\ l - 1 \in Months
  BY MonthsAscend DEF Months
<1>5. /\ CycleDate(c, k - 1) \in Int /\ CycleDate(c, l - 1) \in Int
      /\ CycleDate(c, k) \in Int /\ CycleDate(c, l) \in Int
      /\ CycleDate(c, k + 1) \in Int /\ CycleDate(c, l + 1) \in Int
  <2>1. l + 1 \in Months
    BY MonthsAscend DEF Months
  <2> QED BY <1>4, <2>1, CycleDates
<1>6. k <= l
  <2>1. SUFFICES ASSUME l < k PROVE FALSE
    BY <1>4
  <2>2. l + 1 = k \/ CycleDate(c, l + 1) < CycleDate(c, k)
    <3>1. l + 1 \in Months
      BY MonthsAscend DEF Months
    <3> QED BY <1>4, <2>1, <3>1, CyclesAscend
  <2>3. CycleDate(c, k) <= d /\ e < CycleDate(c, l + 1)
    BY <1>2, <1>3 DEF InCycle
  <2> HIDE DEF d, e
  <2> QED BY <1>1, <1>5, <2>2, <2>3
<1>7. CycleDate(c, k - 1) <= CycleDate(c, l - 1)
  <2>1. k - 1 < l - 1 => CycleDate(c, k - 1) < CycleDate(c, l - 1)
    BY <1>4, CyclesAscend
  <2> QED BY <1>4, <1>5, <1>6, <2>1
<1>8. CycleDate(c, l - 1) < CycleDate(c, l)
      /\ CycleDate(c, l - 1) <= CycleDate(c, l) - (WeekDays - 1)
  BY <1>4, CyclesAscend DEF CalendarInOrder
<1>9. CycleDate(c, l) <= e
  BY <1>3 DEF InCycle
<1>10. CycleDate(c, k - 1) <= FirstDay(p, c, e)
  <2> DEFINE x == CycleDate(c, k - 1)
             y == CycleDate(c, l - 1)
             z == CycleDate(c, l)
  <2>1. x \in Int /\ y \in Int /\ z \in Int /\ e \in Int
        /\ x <= y /\ y < z /\ y <= z - (WeekDays - 1) /\ z <= e
    BY <1>1, <1>5, <1>7, <1>8, <1>9
  <2>2. FirstDay("month", c, e) = z /\ FirstDay("last month", c, e) = y
    BY <1>3
  <2>3. /\ FirstDay("today", c, e) = e
        /\ FirstDay("week", c, e) = WeekStart(c, e)
    BY DEF FirstDay
  <2>4. WeekStart(c, e) \in Int /\ e - (WeekDays - 1) <= WeekStart(c, e)
    BY <1>1, Weeks
  <2>5. WeekDays \in Nat
    BY PeriodsAssumption
  <2> HIDE DEF e, x, y, z
  <2>6. x <= e /\ x <= WeekStart(c, e) /\ x <= z /\ x <= y
    BY <2>1, <2>4, <2>5
  <2>7. x <= FirstDay(p, c, e)
    BY <2>2, <2>3, <2>6 DEF Periods
  <2> QED BY <2>7 DEF x
<1>11. PICK u \in Instants, v \in Instants :
         FirstDay("last month", c, d) = LocalDay(c, u) /\ FirstDay(p, c, e) = LocalDay(c, v)
  BY DaysShown DEF Periods
<1>12. LocalDay(c, u) <= LocalDay(c, v)
  BY <1>2, <1>10, <1>11
<1> QED BY <1>11, <1>12, StartsAscend DEF CalendarInOrder, StartOf

LEMMA CommitInvisible ==
  ASSUME CalendarInOrder, TypeOK, ClocksInOrder, SamplesAtInstants, RollupCurrent,
         RetentionCommit, cfg = config, ~raced, NEW p \in Periods, NEW a \in Apps
  PROVE  Shown(p, a)' = Shown(p, a)
<1> DEFINE S == Span(p, config, now)
<1>1. config \in Configs /\ now \in Times /\ tickNow \in Times /\ S \in SUBSET Keys
  BY DEF TypeOK, Span
<1>2. \A t \in Times : t \in S <=> DayStart(cfg, t) \in S
  BY <1>1, SpanHoldsDays
<1>3. ASSUME NEW k \in S PROVE ~Purges(k)
  <2> DEFINE from == StartOf(p, config, now)
             kept == StartOf("last month", config, tickNow)
  <2>1. k \in Keys /\ ~(k < from)
    BY <1>1, <1>3, EarlierWithin
  <2>2. "last month" \in Periods
    BY DEF Periods
  <2>3. kept <= from
    <3>1. tickNow <= now
      BY DEF ClocksInOrder, RetentionCommit
    <3> QED BY <1>1, <3>1, LastMonthFirst
  <2>4. ASSUME NEW q \in Periods, NEW t \in Times
        PROVE  StartOf(q, config, t) \in Instants
    BY <1>1, DaysShown, StartIsOfDay DEF StartOf
  <2>5. from \in Nat /\ kept \in Nat /\ k \in Nat
    <3>1. from \in Instants /\ kept \in Instants
      BY <1>1, <2>2, <2>4
    <3>2. Instants \subseteq Nat
      BY PeriodsAssumption
    <3> QED BY <2>1, <3>1, <3>2, KeysNatural
  <2>6. Purges(k) <=> k < kept
    BY <1>1, <2>1, <2>2, EarlierWithin DEF Purges
  <2> HIDE DEF from, kept
  <2> QED BY <2>1, <2>3, <2>5, <2>6
<1> HIDE DEF S
<1>4. Total(samples', a, S) + Total(daily', a, S)
        = Total(samples, a, S) + Total(daily, a, S)
  BY <1>1, <1>2, <1>3, CommitMoves
<1>5. config' = config /\ now' = now
  BY DEF RetentionCommit
<1> QED BY <1>4, <1>5 DEF Shown, S

\* Retention.RetentionInvisible holds, where the calendar is in order: when the
\* daemon has the configuration of the interface, no period shows a byte more or
\* less after a retention, neither by compaction nor by purging, for every
\* billing day, first day of the week and length of the fine samples.
THEOREM NeverVisible ==
  ASSUME CalendarInOrder
  PROVE  Spec => RetentionInvisible
<1> DEFINE IInv == ClocksInOrder /\ SamplesAtInstants /\ RollupCurrent
           Same == Compacts /\ cfg = config /\ ~raced =>
                     \A p \in Periods, a \in Apps : Shown(p, a)' = Shown(p, a)
<1>1. Init => IInv
  <2>1. SUFFICES ASSUME Init PROVE IInv
    OBVIOUS
  <2>2. /\ samples = Nothing /\ truth = Nothing
        /\ pc = "down" /\ lastRet = 0 /\ now \in Nat
    BY <2>1, KeysTypes DEF Init
  <2>3. \A a \in Apps, k \in Keys : Nothing[a][k] = 0
    BY DEF Nothing
  <2> QED BY <2>2, <2>3 DEF ClocksInOrder, SamplesAtInstants, RollupCurrent
<1>2. TypeOK /\ IInv /\ [Next]_vars => IInv'
  BY ClocksStep, AtInstantsStep, RollupStep
<1>3. TypeOK /\ IInv /\ [Next]_vars => [Same]_vars
  <2>1. SUFFICES ASSUME TypeOK, IInv, Next PROVE Same
    OBVIOUS
  <2>2. SUFFICES ASSUME Compacts, cfg = config, ~raced,
                        NEW p \in Periods, NEW a \in Apps
                 PROVE  Shown(p, a)' = Shown(p, a)
    OBVIOUS
  <2>3. CASE RetentionCommit
    BY <2>1, <2>2, <2>3, CommitInvisible
  <2>4. CASE UNCHANGED <<tables, config, now>>
    BY <2>4 DEF Shown, Total, tables
  <2>5. RetentionCommit \/ UNCHANGED <<tables, config, now>>
    BY <2>1, <2>2
       DEF Compacts, Next, Daemon, StartDaemon, BeginTick, Insert,
           RetentionSelect, TickFails, LastAfterFailure, EndTick, StopDaemon,
           AskClear, ConfirmClear, CancelClear, SetConfig, PassTime, tables,
           daemon, bounds, history
  <2> QED BY <2>3, <2>4, <2>5
<1> HIDE DEF IInv, Same
<1>4. RetentionInvisible <=> [][Same]_vars
  BY PTL DEF RetentionInvisible, Same
<1> QED BY <1>1, <1>2, <1>3, <1>4, TypeCorrect, PTL DEF Spec
=============================================================================
