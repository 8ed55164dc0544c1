----------------------------- MODULE MCStartup -----------------------------
(* Instances of Startup for TLC. *)
EXTENDS Startup, TLC

CONSTANTS service, second, setter

Jobs == service :> "run" @@ second :> "run" @@ setter :> "set"

\* A zone that is not one, values out of range, and two changes that do not
\* meet.
Asked == {[timezone |-> "Mars/Phobos"],
          [timezone |-> "Havana"],
          [cycle_start_day |-> 31, sample_interval_secs |-> 0]}

Caps == service :> BpfCaps @@ second :> {"root"}
Rootless == service :> BpfCaps @@ second :> {}
Roots == service :> {"root"} @@ second :> {"CAP_SYS_ADMIN", "CAP_NET_ADMIN"}

Machine(kernel, release, cgroup2, btf) ==
  [kernel |-> kernel, release |-> release, cgroup2 |-> cgroup2, btf |-> btf]

Scene(m, given, w) == [machine |-> m, power |-> given, writers |-> w]

\* Kernels on both sides of 4.10 and 5.8, each kind of release, each hard
\* requirement missing, and a directory not everybody may write in.
Some ==
  {Scene(Machine(<<5, 8>>, "plain", TRUE, TRUE), Caps, Daemons),
   Scene(Machine(<<6, 1>>, "plain", TRUE, TRUE), Rootless, Daemons),
   Scene(Machine(<<6, 1>>, "plain", TRUE, FALSE), Caps, {service}),
   Scene(Machine(<<6, 1>>, "plain", FALSE, TRUE), Caps, {}),
   Scene(Machine(<<5, 7>>, "plain", TRUE, TRUE), Roots, Daemons),
   Scene(Machine(<<4, 9>>, "plain", TRUE, TRUE), Roots, {second}),
   Scene(Machine(<<6, 1>>, "odd", TRUE, TRUE), Roots, {service}),
   Scene(Machine(<<6, 1>>, "opaque", TRUE, TRUE), Caps, {service})}

\* The last kernel without ring buffers.
Old == {Scene(Machine(<<5, 7>>, "plain", TRUE, TRUE), Roots, Daemons)}
=============================================================================
