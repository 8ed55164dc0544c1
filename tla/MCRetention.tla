---------------------------- MODULE MCRetention ----------------------------
(* Instances of Retention for TLC. *)
EXTENDS Retention

\* A day is two ticks.  The clock skips the first half of day 5, and repeats
\* the first half of day 7: day 5 lasts a tick and day 7 three.
Horizon == 0 .. 23
Clock == [local |-> [t \in Horizon |-> IF t \in 10 .. 13 THEN 1 ELSE 0]]

\* Months of two, two, one, two, three and two days.  The behaviour begins in
\* the third.
Firsts == <<0, 2, 4, 5, 7, 10, 12>>

\* A billing day every month has, and one the third month does not have.
First == [tz |-> "local", cycle |-> 1, week |-> 0, fine |-> 1]
Second == [tz |-> "local", cycle |-> 2, week |-> 0, fine |-> 1]

\* The instances meet what the theorems ask of a calendar.
ASSUME MCCalendar == CalendarInOrder

OneConfig == {First}
TwoConfigs == {First, Second}
=============================================================================
