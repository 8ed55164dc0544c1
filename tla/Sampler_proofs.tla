--------------------------- MODULE Sampler_proofs ---------------------------
(***************************************************************************)
(* What the persistence keeps, for any applications, traffic, failures and *)
(* restarts.                                                               *)
(***************************************************************************)
EXTENDS Sampler, TLAPS

\* The state keeps its shape: in particular no delta is negative.
THEOREM TypeCorrect == Spec => []TypeOK
<1> USE SamplerAssumption
<1>1. Init => TypeOK
  BY DEF Init, TypeOK, Zero
<1>2. TypeOK /\ [Next]_vars => TypeOK'
  <2> SUFFICES ASSUME TypeOK, [Next]_vars PROVE TypeOK'
    OBVIOUS
  <2> USE DEF TypeOK
  <2>1. CASE Start
    BY <2>1 DEF Start, Zero
  <2>2. CASE Stop
    BY <2>2 DEF Stop, runVars, historyVars
  <2>3. ASSUME NEW bytes \in [Apps -> 0 .. 1], NEW apps \in SUBSET Apps,
               Sample(bytes, apps)
        PROVE  TypeOK'
    <3>1. /\ [a \in Apps |-> total[a] + bytes[a]] \in [Apps -> Nat]
          /\ [a \in Apps |-> counted[a] + bytes[a]] \in [Apps -> Nat]
      OBVIOUS
    <3> QED BY <2>3, <3>1 DEF Sample
  <2>4. CASE TickRegisters
    <3>1. \A a \in Apps : Delta(a) \in Nat
      BY DEF Delta
    <3> QED BY <2>4, <3>1 DEF TickRegisters, TakeDeltas, Readings, historyVars
  <2>5. ASSUME NEW f \in Apps, NEW done \in SUBSET Apps, TickFails(f, done)
        PROVE  TypeOK'
    BY <2>5 DEF TickFails, TakeDeltas, Readings, historyVars
  <2>6. CASE Insert
    BY <2>6 DEF Insert, Inserted, Zero, runVars, historyVars
  <2>7. CASE InsertFails
    BY <2>7 DEF InsertFails, Zero, runVars, historyVars
  <2>8. CASE UNCHANGED vars
    BY <2>8 DEF vars, runVars, historyVars
  <2> QED BY <2>1, <2>2, <2>3, <2>4, <2>5, <2>6, <2>7, <2>8 DEF Next
<1> QED BY <1>1, <1>2, PTL DEF Spec

-----------------------------------------------------------------------------
(* The books.                                                              *)

\* A delta is what the last reading lacks.
LEMMA DeltaOf ==
  ASSUME TypeOK, Accounted, pc # "down", NEW a \in Apps
  PROVE  /\ a \notin tracked => Delta(a) = 0
         /\ a \in tracked => last[a] + Delta(a) = total[a]
         /\ Delta(a) \in Nat
BY DEF Delta, TypeOK, Accounted

\* Both ends of a tick account for what was read.
LEMMA TickAccounted ==
  ASSUME TypeOK, Accounted, NothingInvented,
         \/ TickRegisters
         \/ \E f \in Apps, done \in SUBSET Apps : TickFails(f, done)
  PROVE  Accounted' /\ NothingInvented'
<1>1. CASE TickRegisters
  <2>1. /\ pc = "tick" /\ pc' = "insert" /\ total' = total /\ listed' = listed
        /\ cached' = cached \cup listed /\ tracked' = tracked \cup listed
        /\ persisted' = persisted /\ counted' = counted /\ before' = before
        /\ lossy' = lossy /\ skipped' = {}
    BY <1>1 DEF TickRegisters, TakeDeltas, historyVars
  <2>2. \A a \in Apps :
          /\ last'[a] = IF a \in listed THEN total[a] ELSE last[a]
          /\ base'[a] = IF a \in listed \ tracked THEN total[a] ELSE base[a]
          /\ batch'[a] = IF a \in listed THEN Delta(a) ELSE 0
    BY <1>1 DEF TickRegisters, TakeDeltas, Readings
  <2>3. ASSUME NEW a \in Apps
        PROVE  /\ {total[a], last[a], base[a], batch[a], persisted[a],
                   before[a], counted[a], Delta(a)} \subseteq Nat
               /\ a \notin tracked => /\ Delta(a) = 0 /\ last[a] = 0
                                     /\ base[a] = 0 /\ persisted[a] = before[a]
               /\ a \in tracked => last[a] + Delta(a) = total[a]
               /\ last[a] <= total[a] /\ base[a] <= last[a] /\ batch[a] = 0
               /\ persisted[a] + base[a] <= before[a] + last[a]
               /\ before[a] + total[a] <= counted[a]
               /\ a \in tracked \ lossy =>
                    persisted[a] + base[a] = before[a] + last[a]
    BY <2>1, DeltaOf DEF TypeOK, Accounted
  <2>4. ASSUME NEW a \in Apps
        PROVE  /\ last'[a] <= total'[a]
               /\ base'[a] <= last'[a]
               /\ persisted'[a] + batch'[a] + base'[a] <= before'[a] + last'[a]
               /\ before'[a] + total'[a] <= counted'[a]
               /\ a \notin tracked' => /\ last'[a] = 0 /\ base'[a] = 0
                                      /\ persisted'[a] = before'[a]
               /\ pc' # "insert" => batch'[a] = 0
               /\ a \in tracked' \ skipped' => last'[a] = total'[a]
    <3>1. CASE a \in listed
      BY <2>1, <2>2, <2>3, <3>1
    <3>2. CASE a \notin listed
      BY <2>1, <2>2, <2>3, <3>2 DEF Accounted
    <3> QED BY <3>1, <3>2
  <2>5. ASSUME NEW a \in tracked' \ lossy', a \in Apps
        PROVE  persisted'[a] + batch'[a] + base'[a] = before'[a] + last'[a]
    <3>1. CASE a \in listed /\ a \in tracked
      BY <2>1, <2>2, <2>3, <2>5, <3>1
    <3>2. CASE a \in listed /\ a \notin tracked
      BY <2>1, <2>2, <2>3, <2>5, <3>2
    <3>3. CASE a \notin listed
      BY <2>1, <2>2, <2>3, <2>5, <3>3
    <3> QED BY <3>1, <3>2, <3>3
  <2>6. tracked' \subseteq listed' /\ cached' = tracked'
    BY <2>1 DEF Accounted
  <2>7. NothingInvented'
    BY <2>1 DEF NothingInvented
  <2>8. tracked' \subseteq Apps
    BY <2>1, <2>6 DEF TypeOK
  <2> QED BY <2>4, <2>5, <2>6, <2>7, <2>8 DEF Accounted
<1>2. ASSUME NEW f \in Apps, NEW done \in SUBSET Apps, TickFails(f, done)
      PROVE  Accounted' /\ NothingInvented'
  <2>1. /\ pc = "tick" /\ pc' = "read" /\ total' = total /\ listed' = listed
        /\ cached' = cached \cup done /\ tracked' = tracked \cup done
        /\ persisted' = persisted /\ counted' = counted /\ before' = before
        /\ batch' = batch /\ skipped' = listed \ done /\ done \subseteq listed
        /\ lossy' = lossy \cup {a \in done : Delta(a) > 0}
    BY <1>2 DEF TickFails, TakeDeltas, Before, historyVars
  <2>2. \A a \in Apps :
          /\ last'[a] = IF a \in done THEN total[a] ELSE last[a]
          /\ base'[a] = IF a \in done \ tracked THEN total[a] ELSE base[a]
    BY <1>2 DEF TickFails, TakeDeltas, Readings
  <2>3. ASSUME NEW a \in Apps
        PROVE  /\ {total[a], last[a], base[a], batch[a], persisted[a],
                   before[a], counted[a], Delta(a)} \subseteq Nat
               /\ a \notin tracked => /\ Delta(a) = 0 /\ last[a] = 0
                                     /\ base[a] = 0 /\ persisted[a] = before[a]
               /\ a \in tracked => last[a] + Delta(a) = total[a]
               /\ last[a] <= total[a] /\ base[a] <= last[a] /\ batch[a] = 0
               /\ persisted[a] + base[a] <= before[a] + last[a]
               /\ before[a] + total[a] <= counted[a]
               /\ a \in tracked \ lossy =>
                    persisted[a] + base[a] = before[a] + last[a]
    BY <2>1, DeltaOf DEF TypeOK, Accounted
  <2>4. ASSUME NEW a \in Apps
        PROVE  /\ last'[a] <= total'[a]
               /\ base'[a] <= last'[a]
               /\ persisted'[a] + batch'[a] + base'[a] <= before'[a] + last'[a]
               /\ before'[a] + total'[a] <= counted'[a]
               /\ a \notin tracked' => /\ last'[a] = 0 /\ base'[a] = 0
                                      /\ persisted'[a] = before'[a]
               /\ pc' # "insert" => batch'[a] = 0
               /\ a \in tracked' \ skipped' => last'[a] = total'[a]
    <3>1. CASE a \in done
      BY <2>1, <2>2, <2>3, <3>1
    <3>2. CASE a \notin done
      BY <2>1, <2>2, <2>3, <3>2 DEF Accounted
    <3> QED BY <3>1, <3>2
  <2>5. ASSUME NEW a \in tracked' \ lossy', a \in Apps
        PROVE  persisted'[a] + batch'[a] + base'[a] = before'[a] + last'[a]
    <3>1. CASE a \in done /\ a \in tracked
      BY <2>1, <2>2, <2>3, <2>5, <3>1
    <3>2. CASE a \in done /\ a \notin tracked
      BY <2>1, <2>2, <2>3, <2>5, <3>2
    <3>3. CASE a \notin done
      BY <2>1, <2>2, <2>3, <2>5, <3>3
    <3> QED BY <3>1, <3>2, <3>3
  <2>6. tracked' \subseteq listed' /\ cached' = tracked'
    BY <2>1 DEF Accounted
  <2>7. NothingInvented'
    BY <2>1 DEF NothingInvented
  <2>8. tracked' \subseteq Apps
    BY <2>1, <2>6 DEF TypeOK
  <2> QED BY <2>4, <2>5, <2>6, <2>7, <2>8 DEF Accounted
<1> QED BY <1>1, <1>2

\* Every byte counted in a run is in one place: not read yet, in the baseline, in
\* the batch, in the database, or dropped by a failure.
THEOREM BooksBalance == Spec => [](Accounted /\ NothingInvented)
<1> USE SamplerAssumption
<1>1. Init => Accounted /\ NothingInvented
  BY DEF Init, Accounted, NothingInvented, Zero
<1>2. TypeOK /\ Accounted /\ NothingInvented /\ [Next]_vars
        => Accounted' /\ NothingInvented'
  <2> SUFFICES ASSUME TypeOK, Accounted, NothingInvented, [Next]_vars
               PROVE  Accounted' /\ NothingInvented'
    OBVIOUS
  <2>1. CASE Start
    BY <2>1 DEF Start, Zero, TypeOK, Accounted, NothingInvented
  <2>2. CASE Stop
    BY <2>2 DEF Stop, historyVars, Accounted, NothingInvented
  <2>3. ASSUME NEW bytes \in [Apps -> 0 .. 1], NEW apps \in SUBSET Apps,
               Sample(bytes, apps)
        PROVE  Accounted' /\ NothingInvented'
    <3>1. \A a \in Apps : /\ total'[a] = total[a] + bytes[a]
                          /\ counted'[a] = counted[a] + bytes[a]
                          /\ bytes[a] \in Nat
      BY <2>3 DEF Sample
    <3> QED BY <2>3, <3>1 DEF Sample, TypeOK, Accounted, NothingInvented
  <2>4. CASE TickRegisters
    BY <2>4, TickAccounted
  <2>5. ASSUME NEW f \in Apps, NEW done \in SUBSET Apps, TickFails(f, done)
        PROVE  Accounted' /\ NothingInvented'
    BY <2>5, TickAccounted
  <2>6. CASE Insert
    <3>1. \A a \in Apps : persisted'[a] = persisted[a] + batch[a] /\ batch'[a] = 0
      BY <2>6 DEF Insert, Inserted, Zero
    <3> QED BY <2>6, <3>1 DEF Insert, runVars, historyVars, TypeOK, Accounted,
                              NothingInvented
  <2>7. CASE InsertFails
    <3>1. \A a \in Apps : batch'[a] = 0
      BY <2>7 DEF InsertFails, Zero
    <3> QED BY <2>7, <3>1 DEF InsertFails, runVars, historyVars, TypeOK,
                              Accounted, NothingInvented
  <2>8. CASE UNCHANGED vars
    BY <2>8 DEF vars, runVars, historyVars, Accounted, NothingInvented
  <2> QED BY <2>1, <2>2, <2>3, <2>4, <2>5, <2>6, <2>7, <2>8 DEF Next
<1> QED BY <1>1, <1>2, TypeCorrect, PTL DEF Spec

\* No byte reaches the database twice, whatever fails and restarts.
THEOREM NeverInvents == Spec => []NothingInvented
BY BooksBalance, PTL

\* What a run counted is in the database, but for the baseline, unless a failed
\* tick had already taken it.
THEOREM ExactWithoutFailures == Spec => []ExactUnlessDropped
<1>1. TypeOK /\ Accounted => ExactUnlessDropped
  BY DEF TypeOK, Accounted, ExactUnlessDropped
<1> QED BY <1>1, TypeCorrect, BooksBalance, PTL
-----------------------------------------------------------------------------
(* The promise.                                                            *)

\* A complete batch holds all that is unread.
LEMMA BatchIsComplete == Spec => []AllRead
<1>1. Init => AllRead
  BY DEF Init, AllRead
<1>2. TypeOK /\ Accounted /\ AllRead /\ [Next]_vars => AllRead'
  <2> SUFFICES ASSUME TypeOK, Accounted, AllRead, [Next]_vars PROVE AllRead'
    OBVIOUS
  <2> USE DEF AllRead
  <2>1. CASE Start
    BY <2>1 DEF Start, Zero
  <2>2. CASE Stop
    BY <2>2 DEF Stop
  <2>3. ASSUME NEW bytes \in [Apps -> 0 .. 1], NEW apps \in SUBSET Apps,
               Sample(bytes, apps)
        PROVE  AllRead'
    BY <2>3 DEF Sample, TypeOK
  <2>4. CASE TickRegisters
    <3>1. \A a \in Apps : last[a] \in Nat /\ total[a] \in Nat /\ last[a] <= total[a]
      BY <2>4 DEF TickRegisters, TypeOK, Accounted
    <3>2. /\ pc = "tick" /\ total' = total /\ listed' = listed
          /\ \A a \in Apps :
               last'[a] = IF a \in listed THEN total[a] ELSE last[a]
      BY <2>4 DEF TickRegisters, TakeDeltas, Readings
    <3> QED BY <3>1, <3>2
  <2>5. ASSUME NEW f \in Apps, NEW done \in SUBSET Apps, TickFails(f, done)
        PROVE  AllRead'
    BY <2>5 DEF TickFails
  <2>6. CASE Insert
    BY <2>6 DEF Insert, runVars
  <2>7. CASE InsertFails
    BY <2>7 DEF InsertFails, runVars
  <2>8. CASE UNCHANGED vars
    BY <2>8 DEF vars, runVars
  <2> QED BY <2>1, <2>2, <2>3, <2>4, <2>5, <2>6, <2>7, <2>8 DEF Next
<1> QED BY <1>1, <1>2, TypeCorrect, BooksBalance, PTL DEF Spec

\* Each step of the sampler is a step of the ledger, or none.
LEMMA StepKeepsPromise ==
  ASSUME TypeOK, TypeOK', Accounted, Accounted', AllRead, [Next]_vars
  PROVE  [Promise!Next]_<<counted, Pending, persisted>>
<1> USE SamplerAssumption
<1> DEFINE GivesUp == \E lost \in SUBSET Apps : Promise!GiveUp(lost)
<1>1. \A a \in Apps : /\ total[a] \in Nat /\ last[a] \in Nat /\ batch[a] \in Nat
                      /\ pc # "down" => last[a] <= total[a]
                      /\ Pending[a] = IF pc = "down" THEN 0
                                      ELSE batch[a] + (total[a] - last[a])
  BY DEF TypeOK, Accounted, Pending
<1>2. CASE Start
  BY <1>2 DEF Start, Pending, Zero
<1>3. CASE Stop
  <2>1. Promise!GiveUp(Apps)
    BY <1>3 DEF Stop, historyVars, Pending, Promise!GiveUp
  <2> QED BY <2>1 DEF Promise!Next
<1>4. ASSUME NEW bytes \in [Apps -> 0 .. 1], NEW apps \in SUBSET Apps,
             Sample(bytes, apps)
      PROVE  Promise!Count
  <2>1. \A a \in Apps : /\ total'[a] = total[a] + bytes[a]
                        /\ counted'[a] = counted[a] + bytes[a]
                        /\ bytes[a] \in Nat /\ counted[a] \in Nat
    BY <1>4 DEF Sample, TypeOK
  <2>2. \A a \in Apps : counted[a] <= counted'[a]
    BY <2>1
  <2>3. ASSUME NEW a \in Apps
        PROVE  batch[a] + (total'[a] - last[a])
                 = batch[a] + (total[a] - last[a]) + (counted'[a] - counted[a])
    BY <1>1, <2>1
  <2>4. Pending' = [a \in Apps |-> Pending[a] + (counted'[a] - counted[a])]
    BY <1>1, <1>4, <2>3 DEF Sample, Pending
  <2> QED BY <1>4, <2>2, <2>4 DEF Sample, TypeOK, Promise!Count
<1>5. CASE TickRegisters
  <2> DEFINE lost == listed \ tracked
  <2>1. /\ pc = "tick" /\ pc' = "insert" /\ total' = total
        /\ persisted' = persisted /\ counted' = counted
    BY <1>5 DEF TickRegisters, TakeDeltas, historyVars
  <2>2. \A a \in Apps :
          /\ last'[a] = IF a \in listed THEN total[a] ELSE last[a]
          /\ batch'[a] = IF a \in listed THEN Delta(a) ELSE 0
    BY <1>5 DEF TickRegisters, TakeDeltas, Readings
  <2>3. ASSUME NEW a \in Apps
        PROVE  batch'[a] + (total[a] - last'[a])
                 = IF a \in lost THEN 0 ELSE Pending[a]
    <3>1. batch[a] = 0 /\ Delta(a) \in Nat
          /\ (a \notin tracked => Delta(a) = 0)
          /\ (a \in tracked => last[a] + Delta(a) = total[a])
      BY <2>1, DeltaOf DEF Accounted
    <3> QED BY <1>1, <2>1, <2>2, <3>1
  <2>4. Pending' = [a \in Apps |-> IF a \in lost THEN 0 ELSE Pending[a]]
    BY <2>1, <2>3 DEF Pending
  <2>5. Promise!GiveUp(lost)
    BY <2>1, <2>4 DEF Promise!GiveUp
  <2>6. lost \in SUBSET Apps
    BY DEF TypeOK
  <2> QED BY <2>5, <2>6 DEF Promise!Next
<1>6. ASSUME NEW f \in Apps, NEW done \in SUBSET Apps, TickFails(f, done)
      PROVE  GivesUp
  <2>1. /\ pc = "tick" /\ pc' = "read" /\ total' = total /\ batch' = batch
        /\ persisted' = persisted /\ counted' = counted
    BY <1>6 DEF TickFails, TakeDeltas, historyVars
  <2>2. \A a \in Apps : last'[a] = IF a \in done THEN total[a] ELSE last[a]
    BY <1>6 DEF TickFails, TakeDeltas, Readings
  <2>3. ASSUME NEW a \in Apps
        PROVE  batch[a] + (total[a] - last'[a])
                 = IF a \in done THEN 0 ELSE Pending[a]
    <3>1. batch[a] = 0
      BY <2>1 DEF Accounted
    <3> QED BY <1>1, <2>1, <2>2, <3>1
  <2>4. Pending' = [a \in Apps |-> IF a \in done THEN 0 ELSE Pending[a]]
    BY <2>1, <2>3 DEF Pending
  <2> QED BY <2>1, <2>4 DEF Promise!GiveUp
<1>7. CASE Insert
  <2>1. /\ pc = "insert" /\ pc' = "read" /\ total' = total /\ last' = last
        /\ counted' = counted /\ persisted' = Inserted /\ batch' = Zero
    BY <1>7 DEF Insert, runVars, historyVars
  <2>2. \A a \in Apps : Pending[a] = batch[a]
    BY <1>1, <2>1 DEF AllRead
  <2>3. persisted' = [a \in Apps |-> persisted[a] + Pending[a]]
    BY <2>1, <2>2 DEF Inserted
  <2>4. \A a \in Apps : Zero[a] + (total[a] - last[a]) = 0
    BY <1>1, <2>1 DEF AllRead, Zero
  <2>5. Pending' = [a \in Apps |-> 0]
    BY <2>1, <2>4 DEF Pending
  <2>6. Promise!Record
    BY <2>1, <2>3, <2>5 DEF Promise!Record
  <2> QED BY <2>6 DEF Promise!Next
<1>8. CASE InsertFails
  <2>1. /\ pc = "insert" /\ pc' = "read" /\ total' = total /\ last' = last
        /\ counted' = counted /\ persisted' = persisted /\ batch' = Zero
    BY <1>8 DEF InsertFails, runVars, historyVars
  <2>2. \A a \in Apps : Zero[a] + (total[a] - last[a]) = 0
    BY <1>1, <2>1 DEF AllRead, Zero
  <2>3. Pending' = [a \in Apps |-> IF a \in Apps THEN 0 ELSE Pending[a]]
    BY <2>1, <2>2 DEF Pending
  <2>4. Promise!GiveUp(Apps)
    BY <2>1, <2>3 DEF Promise!GiveUp
  <2> QED BY <2>4 DEF Promise!Next
<1>9. CASE UNCHANGED vars
  BY <1>9 DEF vars, runVars, historyVars, Pending
<1> QED BY <1>2, <1>3, <1>4, <1>5, <1>6, <1>7, <1>8, <1>9 DEF Next, Promise!Next

\* The sampler implements the ledger.
THEOREM SamplerImplementsLedger == Spec => KeepsPromise
<1>1. Init => Promise!Init
  BY DEF Init, Zero, Pending, Promise!Init
<1>2. TypeOK /\ TypeOK' /\ Accounted /\ Accounted' /\ AllRead /\ [Next]_vars
        => [Promise!Next]_<<counted, Pending, persisted>>
  BY StepKeepsPromise
<1> QED BY <1>1, <1>2, TypeCorrect, BooksBalance, BatchIsComplete, PTL
        DEF Spec, KeepsPromise, Promise!Spec
=============================================================================
