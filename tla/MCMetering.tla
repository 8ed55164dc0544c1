----------------------------- MODULE MCMetering -----------------------------
(* Instances of Metering for TLC. *)
EXTENDS Metering, TLC

\* The CPUs are interchangeable.
CpuSymmetry == Permutations(Cpus)
=============================================================================
