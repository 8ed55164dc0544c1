------------------------------- MODULE Ledger -------------------------------
(***************************************************************************)
(* What the daemon promises of the bytes it counts, without the totals,    *)
(* readings, deltas and rows it keeps to do so: a counted byte is pending  *)
(* until everything that is pending is recorded at once, or until all that *)
(* is pending of its application is given up.  Nothing is recorded that is *)
(* not pending, and what was given up or recorded never comes back.        *)
(***************************************************************************)
EXTENDS Naturals

CONSTANT Apps   \* application keys

VARIABLES
  counted,    \* bytes counted of each application, ever
  pending,    \* those that may still be recorded
  recorded    \* those the database holds

Init ==
  /\ counted = [a \in Apps |-> 0]
  /\ pending = [a \in Apps |-> 0]
  /\ recorded = [a \in Apps |-> 0]

\* Bytes are counted, and all of them are pending.
Count ==
  /\ counted' \in [Apps -> Nat]
  /\ \A a \in Apps : counted[a] <= counted'[a]
  /\ pending' = [a \in Apps |-> pending[a] + (counted'[a] - counted[a])]
  /\ UNCHANGED recorded

\* One transaction.
Record ==
  /\ recorded' = [a \in Apps |-> recorded[a] + pending[a]]
  /\ pending' = [a \in Apps |-> 0]
  /\ UNCHANGED counted

\* A failure, a restart, or a first reading.
GiveUp(lost) ==
  /\ pending' = [a \in Apps |-> IF a \in lost THEN 0 ELSE pending[a]]
  /\ UNCHANGED <<counted, recorded>>

Next ==
  \/ Count
  \/ Record
  \/ \E lost \in SUBSET Apps : GiveUp(lost)

Spec == Init /\ [][Next]_<<counted, pending, recorded>>
=============================================================================
