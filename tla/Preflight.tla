----------------------------- MODULE Preflight -----------------------------
(***************************************************************************)
(* What the daemon asks of the machine before it loads anything            *)
(* (netusage-common/src/preflight, privileges.rs, degraded.rs), and what   *)
(* `netusaged --check` says of the same machine (check.rs).                *)
(*                                                                         *)
(* A machine is a record:                                                  *)
(*   kernel   <<major, minor>>, what the kernel is                         *)
(*   release  how its release string reads, in uname and in osrelease:     *)
(*            "plain" to both parsers, "odd" (a suffix that is not set off *)
(*            by a dot or a dash, 6.1+) to that of kernel.rs alone,        *)
(*            "opaque" to neither                                          *)
(*   cgroup2  /sys/fs/cgroup is a cgroup v2 mount                          *)
(*   btf      the kernel has its BTF file                                  *)
(* and the privileges of a process the set of what it has of Privileges.   *)
(***************************************************************************)
EXTENDS Naturals

Privileges == {"root", "CAP_BPF", "CAP_PERFMON", "CAP_NET_ADMIN",
               "CAP_SYS_ADMIN"}
BpfCaps == {"CAP_BPF", "CAP_PERFMON", "CAP_NET_ADMIN"}

\* The order of versions: (major, minor) >= (m, n).
AtLeast(kernel, m, n) ==
  /\ kernel # <<>>
  /\ \/ kernel[1] > m
     \/ kernel[1] = m /\ kernel[2] >= n

\* kernel::parse_release splits at whatever is not a digit.
ParseRelease(machine) ==
  IF machine.release = "opaque" THEN <<>> ELSE machine.kernel

\* privileges::kernel_version splits at dots and dashes.
KernelVersion(machine) ==
  IF machine.release = "plain" THEN machine.kernel ELSE <<>>

\* kernel::supports_bpf_caps, and the same question of privileges.rs: a release
\* that cannot be parsed is an old one.
SupportsBpfCaps(machine) == AtLeast(ParseRelease(machine), 5, 8)
KernelSupportsBpfCaps(machine) == AtLeast(KernelVersion(machine), 5, 8)

-----------------------------------------------------------------------------
(* The checks, and the verdict of --check.                                 *)

CgroupCheck(machine) == IF machine.cgroup2 THEN "Ok" ELSE "Fail"

BtfCheck(machine) == IF machine.btf THEN "Ok" ELSE "Fail"

\* Fault: major and minor are compared one by one.
PartByPart(machine) ==
  LET version == ParseRelease(machine)
  IN IF version = <<>> THEN "Warn"
     ELSE IF version[1] >= 5 /\ version[2] >= 8 THEN "Ok"
     ELSE "Fail"

\* kernel::check and classify: a release that cannot be parsed is a warning.
KernelCheck(machine) ==
  LET version == ParseRelease(machine)
  IN IF version = <<>> THEN "Warn"
     ELSE IF AtLeast(version, 5, 8) THEN "Ok"
     ELSE IF AtLeast(version, 4, 10) THEN "Warn"
     ELSE "Fail"

\* Fault: root does not count.
FullCaps(privileges) == BpfCaps \subseteq privileges

\* Privileges::is_sufficient
Sufficient(privileges) == "root" \in privileges \/ BpfCaps \subseteq privileges

\* caps::classify: never a failure, --check may run without privileges.
CapsCheck(privileges) == IF Sufficient(privileges) THEN "Ok" ELSE "Warn"

\* Report::is_apt of run_all: warnings do not count.
IsApt(machine, privileges) ==
  "Fail" \notin {CgroupCheck(machine), BtfCheck(machine), KernelCheck(machine),
                 CapsCheck(privileges)}

\* EnvReport::gather
EnvReport(machine, privileges) ==
  [cgroup_v2 |-> machine.cgroup2,
   btf       |-> machine.btf,
   per_app   |-> machine.cgroup2 /\ machine.btf /\ SupportsBpfCaps(machine),
   caps_ok   |-> Sufficient(privileges)]

\* run_json: --check --json succeeds.
JsonApt(report) == report.cgroup_v2 /\ report.btf

\* health.rs: the note of the interface about its environment, or none.
NoteFrom(report, none) ==
  IF ~report.cgroup_v2 \/ ~report.btf THEN "unfit"
  ELSE IF ~report.per_app THEN "no per app" ELSE none

-----------------------------------------------------------------------------
(* What the daemon decides by.                                             *)

\* degraded::decide
Decide(report) ==
  IF ~report.cgroup_v2 \/ ~report.btf THEN "Disabled"
  ELSE IF report.per_app THEN "Full" ELSE "NoPerApp"

\* privileges::ensure_minimum
EnsureMinimum(machine, privileges) ==
  IF KernelSupportsBpfCaps(machine)
  THEN BpfCaps \subseteq privileges \/ "root" \in privileges
  ELSE \/ "root" \in privileges
       \/ {"CAP_SYS_ADMIN", "CAP_NET_ADMIN"} \subseteq privileges

\* cgroup_v2_root: the file cgroup.controllers, which is there if the mount is
\* of cgroup v2.
CgroupRoot(machine) == machine.cgroup2

\* Ebpf::load creates every map of the object, the ring buffer of the births
\* among them, which kernels have since 5.8, and asks for BTF to relocate.  The
\* kernel takes CAP_SYS_ADMIN for CAP_BPF and CAP_PERFMON.
ObjectLoads(machine, privileges) ==
  /\ AtLeast(machine.kernel, 5, 8)
  /\ machine.btf
  /\ \/ "root" \in privileges
     \/ /\ "CAP_NET_ADMIN" \in privileges
        /\ "CAP_SYS_ADMIN" \in privileges \/ BpfCaps \subseteq privileges
=============================================================================
