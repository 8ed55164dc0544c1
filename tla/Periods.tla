------------------------------ MODULE Periods ------------------------------
(***************************************************************************)
(* Where the periods of the interface begin and end (period.rs).           *)
(*                                                                         *)
(* An instant is a number of ticks; a time zone gives the offset of the    *)
(* local clock at every instant, so that a change of the clock can skip a  *)
(* local time or repeat it.  The tick is the step local_start_of_day_epoch *)
(* tries, one hour.  Days and months are numbered from the first month of  *)
(* the calendar; where months begin is given: the calendar is chrono's.     *)
(***************************************************************************)
EXTENDS Integers, Sequences, FiniteSetsExt

CONSTANTS
  Instants,     \* the instants that are considered, in ticks
  Offset,       \* what the local clock of a zone is ahead of UTC, by instant
  Day,          \* ticks in a day without a clock change
  WeekDays,     \* days in a week
  FirstDays,    \* the first day of each month
  Configs       \* configurations: [tz, cycle, week, fine], see StoreConfig

ASSUME PeriodsAssumption ==
  /\ Instants \subseteq Nat
  /\ \A zone \in DOMAIN Offset : Offset[zone] \in [Instants -> Int]
  /\ Day \in Nat \ {0} /\ WeekDays \in Nat \ {0}
  /\ FirstDays \in Seq(Nat)
  /\ \A m \in 2 .. Len(FirstDays) : FirstDays[m - 1] < FirstDays[m]
  /\ Configs \subseteq
       [tz : DOMAIN Offset, cycle : Nat \ {0}, week : Nat, fine : Nat]

\* Period
Periods == {"today", "week", "month", "last month"}

Months == 1 .. Len(FirstDays) - 1

\* days_in_month, and the month of a day.
Length(m) == FirstDays[m + 1] - FirstDays[m]
MonthOf(d) == CHOOSE m \in Months : d \in FirstDays[m] .. FirstDays[m + 1] - 1

-----------------------------------------------------------------------------
(* Days.                                                                   *)

\* What the local clock shows, counted from the first day, and its day.
LocalTime(c, t) == t + Offset[c.tz][t]
LocalDay(c, t) == LocalTime(c, t) \div Day

\* The instants at which the local clock shows hour h of day d: none if the
\* clock skips it, two if it repeats it.
ShownAt(c, d, h) == {t \in Instants : LocalTime(c, t) = d * Day + h}

\* The first hour of the day that exists.
FirstHour(c, d) == Min({h \in 0 .. Day - 1 : ShownAt(c, d, h) # {}})

\* Fault: the latest instant that shows it.
LatestStart(c, d) == Max(ShownAt(c, d, FirstHour(c, d)))

\* local_start_of_day_epoch: the earliest instant that shows it.
StartOfDay(c, d) == Min(ShownAt(c, d, FirstHour(c, d)))

\* Fault: the bucket is the instant's day in UTC.
DayStartUTC(c, t) == (t \div Day) * Day

\* day_start_epoch
DayStart(c, t) == StartOfDay(c, LocalDay(c, t))

-----------------------------------------------------------------------------
(* Weeks, billing cycles and periods.                                      *)

\* week_start_date
WeekStart(c, d) == d - ((d + WeekDays - c.week) % WeekDays)

\* cycle_date: the billing day of a month, or its last day if it is shorter.
CycleDate(c, m) == FirstDays[m] + Min({c.cycle, Length(m)}) - 1

\* month_cycle: the first day of the cycle of a day, and of the next cycle.
CycleStart(c, d) ==
  LET m == MonthOf(d)
  IN IF d >= CycleDate(c, m) THEN CycleDate(c, m) ELSE CycleDate(c, m - 1)

CycleEnd(c, d) == CycleDate(c, MonthOf(CycleStart(c, d)) + 1)

\* bounds: the first day of a period, and the first day after it.
FirstDay(p, c, d) ==
  CASE p = "today" -> d
    [] p = "week" -> WeekStart(c, d)
    [] p = "month" -> CycleStart(c, d)
    [] p = "last month" -> CycleDate(c, MonthOf(CycleStart(c, d)) - 1)

NextDay(p, c, d) ==
  CASE p = "today" -> d + 1
    [] p = "week" -> WeekStart(c, d) + WeekDays
    [] p = "month" -> CycleEnd(c, d)
    [] p = "last month" -> CycleStart(c, d)

\* bounds: the instants at which the period of instant t starts and ends.
StartOf(p, c, t) == StartOfDay(c, FirstDay(p, c, LocalDay(c, t)))
EndOf(p, c, t) == StartOfDay(c, NextDay(p, c, LocalDay(c, t)))

-----------------------------------------------------------------------------
(* What is asked of a calendar, where a result depends on it.              *)

\* No change of the clock takes the local date back, and no instant of a day
\* comes before its first hour.  A zone that turns the clock back over midnight,
\* from after it to before it, is not like that.
DaysInOrder ==
  \A c \in Configs :
    /\ \A t, u \in Instants : t <= u => LocalDay(c, t) <= LocalDay(c, u)
    /\ \A t \in Instants :
         LET d == LocalDay(c, t) IN \E u \in ShownAt(c, d, FirstHour(c, d)) : u <= t

\* A week is at most a day longer than a month: the week of an instant begins in
\* the cycle before its own at the earliest.
WeeksFit == \A m \in Months : Length(m) >= WeekDays - 1

\* There are two months before an instant and one after it, and the days on which
\* its periods begin and end exist.
InReach(c, t) ==
  /\ \E m \in 3 .. Len(FirstDays) - 2 :
       LocalDay(c, t) \in FirstDays[m] .. FirstDays[m + 1] - 1
  /\ LET shown == {LocalDay(c, u) : u \in Instants}
     IN \A p \in Periods : /\ FirstDay(p, c, LocalDay(c, t)) \in shown
                           /\ NextDay(p, c, LocalDay(c, t)) \in shown
=============================================================================
