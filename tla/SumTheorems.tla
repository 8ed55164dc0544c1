---------------------------- MODULE SumTheorems ----------------------------
(***************************************************************************)
(* What the models rely on of a sum over a finite set, SumFunctionOnSet of *)
(* the community module Functions.  It folds a function by a recursion     *)
(* over the subsets of the set, which the induction of these lemmas goes   *)
(* along: a set of counterexamples has a member that is minimal.           *)
(***************************************************************************)
EXTENDS Integers, FiniteSets, Functions, FiniteSetTheorems,
        WellFoundedInduction, TLAPS

-----------------------------------------------------------------------------
(* Induction and recursion.                                                *)

\* A set of finite sets that is not empty has a member none of whose proper
\* subsets is in it.
LEMMA MinimalSet ==
  ASSUME NEW S, IsFiniteSet(S), NEW bad \in SUBSET SUBSET S, bad # {}
  PROVE  \E T \in bad : \A U \in SUBSET T : U # T => U \notin bad
<1>1. bad \subseteq FiniteSubsetsOf(S)
  BY FS_Subset DEF FiniteSubsetsOf
<1>2. PICK T \in bad : \A U \in bad : <<U, T>> \notin StrictSubsetOrdering(S)
  BY <1>1, FS_StrictSubsetOrderingWellFounded, WFMin
<1> QED BY <1>2 DEF StrictSubsetOrdering

\* The element the fold begins with.
Picked(s) == CHOOSE x \in s : TRUE

\* The function of the recursion.
Sums(f, S, g) ==
  g = [s \in SUBSET S |-> IF s = {} THEN 0
                          ELSE f[Picked(s)] + g[s \ {Picked(s)}]]

\* The fold by its definition.
LEMMA SumUnfold ==
  ASSUME NEW f, NEW S
  PROVE  SumFunctionOnSet(f, S) = (CHOOSE g : Sums(f, S, g))[S]
BY DEF SumFunctionOnSet, FoldFunctionOnSet, MapThenFoldSet, Sums, Picked

\* What the recursion promises.
Recursive(f, S) ==
  SumFunctionOnSet(f, S) = IF S = {} THEN 0
                ELSE f[Picked(S)] + SumFunctionOnSet(f, S \ {Picked(S)})

\* There is a function of the recursion over every finite set, and it gives the
\* subsets of the set their own sums.
LEMMA SumRecursive ==
  ASSUME NEW f, NEW S, IsFiniteSet(S)
  PROVE  Recursive(f, S)
<1> DEFINE bad == {T \in SUBSET S : ~Recursive(f, T)}
<1>1. SUFFICES ASSUME bad # {} PROVE FALSE
  OBVIOUS
<1>2. PICK T \in bad : \A U \in SUBSET T : U # T => U \notin bad
  <2>1. bad \in SUBSET SUBSET S
    OBVIOUS
  <2> HIDE DEF bad
  <2> QED BY <1>1, <2>1, MinimalSet
<1>3. \A U \in SUBSET T : U # T => Recursive(f, U)
  BY <1>2
<1>4. \A s : s # {} => Picked(s) \in s
  BY DEF Picked
<1> DEFINE G == [s \in SUBSET T |-> IF s = {} THEN 0
                  ELSE f[Picked(s)] + SumFunctionOnSet(f, s \ {Picked(s)})]
<1>5. \A U \in SUBSET T : U # T => G[U] = SumFunctionOnSet(f, U)
  BY <1>3 DEF Recursive
<1>6. \A s \in SUBSET T : s # {} => /\ s \ {Picked(s)} \in SUBSET T
                                    /\ s \ {Picked(s)} # T
  BY <1>4
<1>7. Sums(f, T, G)
  <2>1. \A s \in SUBSET T : G[s] = IF s = {} THEN 0
                          ELSE f[Picked(s)] + G[s \ {Picked(s)}]
    BY <1>5, <1>6
  <2> QED BY <2>1 DEF Sums
<1> DEFINE h == CHOOSE g : Sums(f, T, g)
<1>8. Sums(f, T, h)
  BY <1>7
<1>9. SumFunctionOnSet(f, T) = h[T]
  BY SumUnfold
<1> HIDE DEF h, G, bad
<1>10. \A s \in SUBSET T : h[s] = IF s = {} THEN 0
                                  ELSE f[Picked(s)] + h[s \ {Picked(s)}]
  BY <1>8 DEF Sums
<1>11. \A U \in SUBSET T : U # T => h[U] = SumFunctionOnSet(f, U)
  <2> DEFINE odd == {U \in SUBSET T : U # T /\ h[U] # SumFunctionOnSet(f, U)}
  <2>1. SUFFICES ASSUME odd # {} PROVE FALSE
    OBVIOUS
  <2>2. PICK U \in odd : \A V \in SUBSET U : V # U => V \notin odd
    <3>1. odd \in SUBSET SUBSET T /\ IsFiniteSet(T)
      BY <1>2, FS_Subset DEF bad
    <3> HIDE DEF odd
    <3> QED BY <2>1, <3>1, MinimalSet
  <2>3. U \in SUBSET T /\ U # T /\ h[U] # SumFunctionOnSet(f, U)
    OBVIOUS
  <2>4. \A V \in SUBSET U : V # U => h[V] = SumFunctionOnSet(f, V)
    BY <2>2, <2>3
  <2> HIDE DEF odd
  <2>5. U # {} => h[U \ {Picked(U)}] = SumFunctionOnSet(f, U \ {Picked(U)})
    BY <1>4, <2>4
  <2> QED BY <1>3, <1>10, <2>3, <2>5 DEF Recursive
<1>12. T # {} => h[T \ {Picked(T)}] = SumFunctionOnSet(f, T \ {Picked(T)})
  BY <1>6, <1>11
<1>13. Recursive(f, T)
  BY <1>9, <1>10, <1>12 DEF Recursive
<1> QED BY <1>2, <1>13 DEF bad

-----------------------------------------------------------------------------
(* The sum.                                                                *)

\* A sum of naturals is one.
LEMMA SumNatural ==
  ASSUME NEW S, IsFiniteSet(S), NEW f, \A x \in S : f[x] \in Nat
  PROVE  SumFunctionOnSet(f, S) \in Nat
<1> DEFINE bad == {T \in SUBSET S : SumFunctionOnSet(f, T) \notin Nat}
<1> SUFFICES ASSUME bad # {} PROVE FALSE
  OBVIOUS
<1>1. PICK T \in bad : \A U \in SUBSET T : U # T => U \notin bad
  <2>1. bad \in SUBSET SUBSET S
    OBVIOUS
  <2> HIDE DEF bad
  <2> QED BY <2>1, MinimalSet
<1>2. IsFiniteSet(T)
  BY FS_Subset
<1>3. Recursive(f, T)
  BY <1>2, SumRecursive
<1>4. T # {} => Picked(T) \in T
  BY DEF Picked
<1>5. T # {} => SumFunctionOnSet(f, T \ {Picked(T)}) \in Nat
  BY <1>1, <1>4
<1> QED BY <1>3, <1>4, <1>5 DEF Recursive

\* Any term may be taken first.
LEMMA SumRemove ==
  ASSUME NEW S, IsFiniteSet(S), NEW f, \A x \in S : f[x] \in Nat, NEW x \in S
  PROVE  SumFunctionOnSet(f, S) = f[x] + SumFunctionOnSet(f, S \ {x})
<1> DEFINE sum(T) == SumFunctionOnSet(f, T)
           bad == {T \in SUBSET S : \E y \in T : sum(T) # f[y] + sum(T \ {y})}
<1> SUFFICES ASSUME bad # {} PROVE FALSE
  OBVIOUS
<1>1. PICK T \in bad : \A U \in SUBSET T : U # T => U \notin bad
  <2>1. bad \in SUBSET SUBSET S
    OBVIOUS
  <2> HIDE DEF bad
  <2> QED BY <2>1, MinimalSet
<1>2. PICK y \in T : sum(T) # f[y] + sum(T \ {y})
  OBVIOUS
<1> DEFINE z == Picked(T)
<1>3. z \in T /\ z \in S /\ y \in S
  BY <1>2 DEF Picked
<1>4. \A U \in SUBSET T : IsFiniteSet(U)
  BY FS_Subset
<1>5. \A U \in SUBSET T : sum(U) \in Nat
  BY <1>4, SumNatural
<1> HIDE DEF z
<1>6. sum(T) = f[z] + sum(T \ {z})
  BY <1>3, <1>4, SumRecursive DEF Recursive, z
<1>7. z # y
  BY <1>2, <1>6
<1>8. sum(T \ {z}) = f[y] + sum((T \ {z}) \ {y})
  BY <1>1, <1>2, <1>3, <1>7
<1>9. sum(T \ {y}) = f[z] + sum((T \ {y}) \ {z})
  BY <1>1, <1>2, <1>3, <1>7
<1>10. (T \ {z}) \ {y} = (T \ {y}) \ {z}
  OBVIOUS
<1>11. sum((T \ {z}) \ {y}) \in Nat /\ f[y] \in Nat /\ f[z] \in Nat
  BY <1>3, <1>5
<1> HIDE DEF sum
<1> QED BY <1>2, <1>6, <1>8, <1>9, <1>10, <1>11

\* The sum of nothing.
LEMMA SumEmpty ==
  ASSUME NEW f
  PROVE  SumFunctionOnSet(f, {}) = 0
BY SumRecursive, FS_EmptySet DEF Recursive

\* Only the terms matter.
LEMMA SumSame ==
  ASSUME NEW S, IsFiniteSet(S), NEW f, NEW g, \A x \in S : f[x] = g[x]
  PROVE  SumFunctionOnSet(f, S) = SumFunctionOnSet(g, S)
<1> DEFINE bad == {T \in SUBSET S :
                     SumFunctionOnSet(f, T) # SumFunctionOnSet(g, T)}
<1> SUFFICES ASSUME bad # {} PROVE FALSE
  OBVIOUS
<1>1. PICK T \in bad : \A U \in SUBSET T : U # T => U \notin bad
  <2>1. bad \in SUBSET SUBSET S
    OBVIOUS
  <2> HIDE DEF bad
  <2> QED BY <2>1, MinimalSet
<1>2. Recursive(f, T) /\ Recursive(g, T)
  BY FS_Subset, SumRecursive
<1>3. T # {} => Picked(T) \in T
  BY DEF Picked
<1>4. T # {} => SumFunctionOnSet(f, T \ {Picked(T)})
                  = SumFunctionOnSet(g, T \ {Picked(T)})
  BY <1>1, <1>3
<1> QED BY <1>2, <1>3, <1>4 DEF Recursive

\* The sum of zeros.
LEMMA SumZero ==
  ASSUME NEW S, IsFiniteSet(S), NEW f, \A x \in S : f[x] = 0
  PROVE  SumFunctionOnSet(f, S) = 0
<1> DEFINE bad == {T \in SUBSET S : SumFunctionOnSet(f, T) # 0}
<1> SUFFICES ASSUME bad # {} PROVE FALSE
  OBVIOUS
<1>1. PICK T \in bad : \A U \in SUBSET T : U # T => U \notin bad
  <2>1. bad \in SUBSET SUBSET S
    OBVIOUS
  <2> HIDE DEF bad
  <2> QED BY <2>1, MinimalSet
<1>2. Recursive(f, T)
  BY FS_Subset, SumRecursive
<1>3. T # {} => Picked(T) \in T
  BY DEF Picked
<1>4. T # {} => SumFunctionOnSet(f, T \ {Picked(T)}) = 0
  BY <1>1, <1>3
<1> QED BY <1>2, <1>3, <1>4 DEF Recursive

\* One term changes.
LEMMA SumUpdate ==
  ASSUME NEW S, IsFiniteSet(S), NEW f, NEW g, NEW x \in S,
         \A y \in S : f[y] \in Nat /\ g[y] \in Nat,
         \A y \in S \ {x} : g[y] = f[y]
  PROVE  SumFunctionOnSet(g, S) + f[x] = SumFunctionOnSet(f, S) + g[x]
<1>1. IsFiniteSet(S \ {x})
  BY FS_Subset
<1>2. SumFunctionOnSet(f, S \ {x}) = SumFunctionOnSet(g, S \ {x})
  BY <1>1, SumSame
<1>3. /\ SumFunctionOnSet(f, S) = f[x] + SumFunctionOnSet(f, S \ {x})
      /\ SumFunctionOnSet(g, S) = g[x] + SumFunctionOnSet(g, S \ {x})
  BY SumRemove
<1>4. SumFunctionOnSet(f, S \ {x}) \in Nat
  BY <1>1, SumNatural
<1> QED BY <1>2, <1>3, <1>4

\* The sum of two functions.
LEMMA SumPlus ==
  ASSUME NEW S, IsFiniteSet(S), NEW f, NEW g, NEW h,
         \A x \in S : f[x] \in Nat /\ g[x] \in Nat /\ h[x] = f[x] + g[x]
  PROVE  SumFunctionOnSet(h, S)
           = SumFunctionOnSet(f, S) + SumFunctionOnSet(g, S)
<1> DEFINE bad == {T \in SUBSET S :
                     SumFunctionOnSet(h, T)
                       # SumFunctionOnSet(f, T) + SumFunctionOnSet(g, T)}
<1> SUFFICES ASSUME bad # {} PROVE FALSE
  OBVIOUS
<1>1. PICK T \in bad : \A U \in SUBSET T : U # T => U \notin bad
  <2>1. bad \in SUBSET SUBSET S
    OBVIOUS
  <2> HIDE DEF bad
  <2> QED BY <2>1, MinimalSet
<1>2. Recursive(f, T) /\ Recursive(g, T) /\ Recursive(h, T)
  BY FS_Subset, SumRecursive
<1>3. T # {} => Picked(T) \in T
  BY DEF Picked
<1>4. T # {} => SumFunctionOnSet(h, T \ {Picked(T)})
                  = SumFunctionOnSet(f, T \ {Picked(T)})
                      + SumFunctionOnSet(g, T \ {Picked(T)})
  BY <1>1, <1>3
<1>5. T # {} => /\ SumFunctionOnSet(f, T \ {Picked(T)}) \in Nat
                /\ SumFunctionOnSet(g, T \ {Picked(T)}) \in Nat
  <2>1. IsFiniteSet(T \ {Picked(T)})
    BY FS_Subset
  <2> QED BY <2>1, SumNatural
<1>6. T # {} => /\ f[Picked(T)] \in Nat /\ g[Picked(T)] \in Nat
                /\ h[Picked(T)] = f[Picked(T)] + g[Picked(T)]
  BY <1>3
<1>7. SumFunctionOnSet(h, T)
        # SumFunctionOnSet(f, T) + SumFunctionOnSet(g, T)
  OBVIOUS
<1> HIDE DEF bad
<1>8. CASE T = {}
  BY <1>2, <1>7, <1>8 DEF Recursive
<1>9. CASE T # {}
  BY <1>2, <1>4, <1>5, <1>6, <1>7, <1>9 DEF Recursive
<1> QED BY <1>8, <1>9

\* Smaller terms, a smaller sum.
LEMMA SumMonotone ==
  ASSUME NEW S, IsFiniteSet(S), NEW f, NEW g,
         \A x \in S : f[x] \in Nat /\ g[x] \in Nat /\ f[x] <= g[x]
  PROVE  SumFunctionOnSet(f, S) <= SumFunctionOnSet(g, S)
<1> DEFINE rest == [x \in S |-> g[x] - f[x]]
<1>1. \A x \in S : rest[x] \in Nat /\ g[x] = f[x] + rest[x]
  OBVIOUS
<1> HIDE DEF rest
<1>2. SumFunctionOnSet(g, S) = SumFunctionOnSet(f, S) + SumFunctionOnSet(rest, S)
  BY <1>1, SumPlus
<1>3. SumFunctionOnSet(f, S) \in Nat /\ SumFunctionOnSet(rest, S) \in Nat
  BY <1>1, SumNatural
<1> QED BY <1>2, <1>3

\* Two parts.
LEMMA SumSplit ==
  ASSUME NEW S, IsFiniteSet(S), NEW P \in SUBSET S, NEW f,
         \A x \in S : f[x] \in Nat
  PROVE  SumFunctionOnSet(f, S)
           = SumFunctionOnSet(f, P) + SumFunctionOnSet(f, S \ P)
<1> DEFINE bad == {T \in SUBSET P :
                     SumFunctionOnSet(f, T \cup (S \ P))
                       # SumFunctionOnSet(f, T) + SumFunctionOnSet(f, S \ P)}
<1>1. SUFFICES ASSUME bad # {} PROVE FALSE
  <2>1. P \notin bad /\ P \cup (S \ P) = S
    BY <1>1
  <2> QED BY <2>1
<1>2. PICK T \in bad : \A U \in SUBSET T : U # T => U \notin bad
  <2>1. IsFiniteSet(P) /\ bad \in SUBSET SUBSET P
    BY FS_Subset
  <2> HIDE DEF bad
  <2> QED BY <1>1, <2>1, MinimalSet
<1>3. /\ SumFunctionOnSet(f, S \ P) \in Nat
      /\ \A U \in SUBSET S : IsFiniteSet(U) /\ SumFunctionOnSet(f, U) \in Nat
  BY FS_Subset, SumNatural
<1>4. T # {}
  BY <1>3, SumEmpty
<1>5. PICK x \in T : TRUE
  BY <1>4
<1>6. /\ SumFunctionOnSet(f, (T \ {x}) \cup (S \ P))
           = SumFunctionOnSet(f, T \ {x}) + SumFunctionOnSet(f, S \ P)
  BY <1>2
<1>7. SumFunctionOnSet(f, T) = f[x] + SumFunctionOnSet(f, T \ {x})
  BY <1>3, SumRemove
<1>8. /\ T \cup (S \ P) \in SUBSET S /\ x \in T \cup (S \ P)
      /\ (T \cup (S \ P)) \ {x} = (T \ {x}) \cup (S \ P)
  OBVIOUS
<1>9. SumFunctionOnSet(f, T \cup (S \ P))
        = f[x] + SumFunctionOnSet(f, (T \ {x}) \cup (S \ P))
  <2> DEFINE W == T \cup (S \ P)
  <2>1. IsFiniteSet(W) /\ x \in W /\ \A y \in W : f[y] \in Nat
    BY <1>3, <1>8
  <2> HIDE DEF W
  <2>2. SumFunctionOnSet(f, W) = f[x] + SumFunctionOnSet(f, W \ {x})
    BY <2>1, SumRemove
  <2> QED BY <1>8, <2>2 DEF W
<1>10. f[x] \in Nat /\ SumFunctionOnSet(f, T \ {x}) \in Nat
  BY <1>3
<1> QED BY <1>3, <1>6, <1>7, <1>9, <1>10

\* The terms may be numbered otherwise.
LEMMA SumReindex ==
  ASSUME NEW I, IsFiniteSet(I), NEW J, NEW b \in Bijection(I, J), NEW f, NEW g,
         \A i \in I : f[i] = g[b[i]] /\ f[i] \in Nat
  PROVE  SumFunctionOnSet(f, I) = SumFunctionOnSet(g, J)
<1> DEFINE image(T) == {b[i] : i \in T}
           bad == {T \in SUBSET I :
                     SumFunctionOnSet(f, T) # SumFunctionOnSet(g, image(T))}
<1>1. /\ image(I) = J
      /\ \A i, j \in I : b[i] = b[j] => i = j
      /\ \A i \in I : b[i] \in J
  BY DEF Bijection, Injection, Surjection, IsInjective
<1>2. \A T \in SUBSET I : IsFiniteSet(image(T)) /\ IsFiniteSet(T)
  <2>1. IsFiniteSet(J)
    BY FS_Bijection DEF ExistsBijection
  <2>2. \A T \in SUBSET I : image(T) \subseteq J
    BY <1>1
  <2> HIDE DEF image
  <2> QED BY <2>1, <2>2, FS_Subset
<1>3. SUFFICES ASSUME bad # {} PROVE FALSE
  BY <1>1
<1>4. PICK T \in bad : \A U \in SUBSET T : U # T => U \notin bad
  <2>1. bad \in SUBSET SUBSET I
    OBVIOUS
  <2> HIDE DEF bad
  <2> QED BY <1>3, <2>1, MinimalSet
<1>5. T # {}
  <2>1. image({}) = {}
    OBVIOUS
  <2> QED BY <2>1, SumEmpty
<1>6. PICK i \in T : TRUE
  BY <1>5
<1>7. SumFunctionOnSet(f, T \ {i}) = SumFunctionOnSet(g, image(T \ {i}))
  BY <1>4
<1>8. image(T \ {i}) = image(T) \ {b[i]}
  BY <1>1
<1>9. SumFunctionOnSet(f, T) = f[i] + SumFunctionOnSet(f, T \ {i})
  BY <1>2, SumRemove
<1>10. SumFunctionOnSet(g, image(T)) = g[b[i]] + SumFunctionOnSet(g, image(T) \ {b[i]})
  <2>1. b[i] \in image(T) /\ \A y \in image(T) : g[y] \in Nat
    OBVIOUS
  <2> HIDE DEF image
  <2> QED BY <1>2, <2>1, SumRemove
<1> QED BY <1>7, <1>8, <1>9, <1>10

\* A sum may be added up group by group: g[t] is the group of t, and h the sums
\* of the groups.
LEMMA SumGroups ==
  ASSUME NEW S, IsFiniteSet(S), NEW T, IsFiniteSet(T), NEW f, NEW g, NEW h,
         \A t \in T : f[t] \in Nat,
         NEW group, \A d \in S : group[d] = {t \in T : g[t] = d},
         \A d \in S : h[d] = SumFunctionOnSet(f, group[d]),
         NEW all, all = {t \in T : g[t] \in S}
  PROVE  SumFunctionOnSet(h, S) = SumFunctionOnSet(f, all)
<1> DEFINE of(U) == {t \in T : g[t] \in U}
           bad == {U \in SUBSET S :
                     SumFunctionOnSet(h, U) # SumFunctionOnSet(f, of(U))}
<1>1. SUFFICES ASSUME bad # {} PROVE FALSE
  OBVIOUS
<1>2. PICK U \in bad : \A V \in SUBSET U : V # U => V \notin bad
  <2>1. bad \in SUBSET SUBSET S
    OBVIOUS
  <2> HIDE DEF bad
  <2> QED BY <1>1, <2>1, MinimalSet
<1>3. \A V \in SUBSET T : IsFiniteSet(V) /\ SumFunctionOnSet(f, V) \in Nat
  BY FS_Subset, SumNatural
<1>4. IsFiniteSet(U) /\ \A d \in U : h[d] \in Nat
  <2>1. \A d \in S : group[d] \in SUBSET T
    OBVIOUS
  <2> QED BY <1>3, <2>1, FS_Subset
<1>5. U # {}
  <2>1. of({}) = {}
    OBVIOUS
  <2> QED BY <2>1, SumEmpty
<1>6. PICK d \in U : TRUE
  BY <1>5
<1>7. SumFunctionOnSet(h, U \ {d}) = SumFunctionOnSet(f, of(U \ {d}))
  BY <1>2
<1>8. SumFunctionOnSet(h, U) = h[d] + SumFunctionOnSet(h, U \ {d})
  BY <1>4, SumRemove
<1>9. /\ h[d] = SumFunctionOnSet(f, of({d}))
      /\ of(U) \ of({d}) = of(U \ {d})
      /\ of({d}) \in SUBSET of(U)
      /\ of(U) \in SUBSET T
  <2>1. of({d}) = group[d]
    OBVIOUS
  <2> QED BY <2>1
<1>10. SumFunctionOnSet(f, of(U))
         = SumFunctionOnSet(f, of({d})) + SumFunctionOnSet(f, of(U) \ of({d}))
  <2>1. IsFiniteSet(of(U)) /\ \A t \in of(U) : f[t] \in Nat
    BY <1>3, <1>9
  <2>2. of({d}) \in SUBSET of(U)
    BY <1>9
  <2> HIDE DEF of
  <2> QED BY <2>1, <2>2, SumSplit
<1> QED BY <1>7, <1>8, <1>9, <1>10
=============================================================================
