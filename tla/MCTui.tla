------------------------------- MODULE MCTui -------------------------------
(* Instances of Tui for TLC. *)
EXTENDS Tui

\* The first application of a month, and the next day, with a second one that has
\* overtaken it.
Bytes(today, month, before) ==
  [p \in Period |-> CASE p = "today" -> today
                      [] p = "last month" -> before
                      [] OTHER -> month]

Course == {"today", "tomorrow"}
CourseHeld ==
  [c \in Course |->
     CASE c = "today" -> Bytes(<<1, 0>>, <<1, 0>>, <<0, 0>>)
       [] c = "tomorrow" -> Bytes(<<0, 1>>, <<1, 3>>, <<0, 0>>)]

Machine(kernel, cgroup2) ==
  [kernel |-> kernel, release |-> "plain", cgroup2 |-> cgroup2, btf |-> TRUE]

Found == {[tag |-> 2, fresh |-> TRUE], [tag |-> 2, fresh |-> FALSE]}

Some == {Machine(<<6, 1>>, TRUE), Machine(<<6, 1>>, FALSE)}
=============================================================================
