---------------------------- MODULE SumTheorems ----------------------------
(***************************************************************************)
(* Sums over finite sets: what SumFunctionOnSet computes, for every finite *)
(* set.  It is a fold whose order is unspecified, so the first thing to    *)
(* show is that there is such a fold, and that the order does not matter.  *)
(* The inductions are over the finite subsets of a set, ordered by strict  *)
(* inclusion, and each is an appeal to a least counterexample.             *)
(***************************************************************************)
EXTENDS Integers, Functions, FiniteSetTheorems, TLAPS

\* The element the fold takes next, and the table it fills in.
Pick(s) == CHOOSE x \in s : TRUE
IsTable(g, f, S) ==
  g = [s \in SUBSET S |-> IF s = {} THEN 0 ELSE f[Pick(s)] + g[s \ {Pick(s)}]]

\* A nonempty set has the element that is picked.
LEMMA Picked ==
  ASSUME NEW s, s # {}
  PROVE  Pick(s) \in s
BY DEF Pick

\* A set of finite sets has a member no other member is a strict subset of.
LEMMA Least ==
  ASSUME NEW S, IsFiniteSet(S), NEW Bad \in SUBSET SUBSET S, Bad # {}
  PROVE  \E T \in Bad : \A U \in Bad : U \subseteq T => U = T
<1>1. FiniteSubsetsOf(S) = SUBSET S
  BY FS_FiniteSubsetsOfFinite
<1>2. IsWellFoundedOn(StrictSubsetOrdering(S), SUBSET S)
  BY <1>1, FS_StrictSubsetOrderingWellFounded
<1>3. PICK T \in Bad : \A U \in Bad : ~(<<U, T>> \in StrictSubsetOrdering(S))
  BY <1>2, WFMin
<1>4. \A U \in Bad : U \subseteq T => U = T
  BY <1>3 DEF StrictSubsetOrdering
<1> QED  BY <1>4

\* There is at most one table.
LEMMA TableUnique ==
  ASSUME NEW f, NEW S, IsFiniteSet(S), NEW g, NEW h, IsTable(g, f, S), IsTable(h, f, S)
  PROVE  g = h
<1> DEFINE Bad == {s \in SUBSET S : g[s] # h[s]}
<1>1. Bad = {}
  <2> SUFFICES ASSUME Bad # {} PROVE FALSE
    OBVIOUS
  <2>0. Bad \in SUBSET SUBSET S
    OBVIOUS
  <2>1. PICK s \in Bad : \A u \in Bad : u \subseteq s => u = s
    <3> HIDE DEF Bad
    <3> QED  BY <2>0, Least
  <2>2. CASE s = {}
    BY <2>2 DEF IsTable
  <2>3. CASE s # {}
    <3>1. PICK x : x = Pick(s)
      OBVIOUS
    <3>2. x \in s /\ s \ {x} \in SUBSET S /\ s \ {x} # s /\ s \ {x} \subseteq s
      BY <2>3, <3>1, Picked
    <3>3. g[s \ {x}] = h[s \ {x}]
      BY <2>1, <3>2
    <3>4. g[s] = f[x] + g[s \ {x}] /\ h[s] = f[x] + h[s \ {x}]
      BY <2>3, <3>1 DEF IsTable
    <3> QED  BY <3>3, <3>4
  <2> QED  BY <2>2, <2>3
<1>2. \A s \in SUBSET S : g[s] = h[s]
  BY <1>1
<1> QED  BY <1>2 DEF IsTable

\* The sum of a set, and the table of the sums of its subsets.
Sum(f, S) == SumFunctionOnSet(f, S)
Table(f, S) == [s \in SUBSET S |-> Sum(f, s)]

\* What the definition says of a sum.
LEMMA SumChosen ==
  ASSUME NEW f, NEW S
  PROVE  Sum(f, S) = (CHOOSE g : IsTable(g, f, S))[S]
BY DEF Sum, SumFunctionOnSet, FoldFunctionOnSet, MapThenFoldSet, IsTable, Pick

\* A table of a set with the right entries for its strict subsets gives the set its sum.
LEMMA TableExtends ==
  ASSUME NEW f, NEW T, IsFiniteSet(T),
         \A u \in SUBSET T : u # T => IsTable(Table(f, u), f, u)
  PROVE  IsTable(Table(f, T), f, T)
<1> DEFINE h == [s \in SUBSET T |->
                   IF s = {} THEN 0 ELSE f[Pick(s)] + Sum(f, s \ {Pick(s)})]
<1>1. ASSUME NEW u \in SUBSET T, u # T
      PROVE  Sum(f, u) = h[u]
  <2>1. Table(f, u)[u] = Sum(f, u)
    BY DEF Table
  <2>2. CASE u = {}
    BY <1>1, <2>1, <2>2 DEF IsTable
  <2>3. CASE u # {}
    <3>1. u \ {Pick(u)} \in SUBSET u
      OBVIOUS
    <3>2. Table(f, u)[u] = f[Pick(u)] + Table(f, u)[u \ {Pick(u)}]
      BY <1>1, <2>3 DEF IsTable
    <3>3. Table(f, u)[u \ {Pick(u)}] = Sum(f, u \ {Pick(u)})
      BY <3>1 DEF Table
    <3> QED  BY <2>1, <2>3, <3>2, <3>3
  <2> QED  BY <2>2, <2>3
<1>2. IsTable(h, f, T)
  <2>1. ASSUME NEW s \in SUBSET T, s # {}
        PROVE  h[s \ {Pick(s)}] = Sum(f, s \ {Pick(s)})
    <3>1. s \ {Pick(s)} \in SUBSET T /\ s \ {Pick(s)} # T
      BY <2>1, Picked
    <3> QED  BY <3>1, <1>1
  <2>2. \A s \in SUBSET T : h[s] = IF s = {} THEN 0 ELSE f[Pick(s)] + h[s \ {Pick(s)}]
    BY <2>1
  <2>3. h = [s \in SUBSET T |-> h[s]]
    OBVIOUS
  <2> HIDE DEF h
  <2>4. h = [s \in SUBSET T |-> IF s = {} THEN 0 ELSE f[Pick(s)] + h[s \ {Pick(s)}]]
    BY <2>2, <2>3
  <2> QED  BY <2>4 DEF IsTable
<1> HIDE DEF h
<1>3. IsTable(CHOOSE g : IsTable(g, f, T), f, T)
  BY <1>2
<1>4. (CHOOSE g : IsTable(g, f, T)) = h
  BY <1>2, <1>3, TableUnique
<1>5. Sum(f, T) = h[T]
  BY <1>4, SumChosen
<1>6. \A s \in SUBSET T : Sum(f, s) = h[s]
  BY <1>1, <1>5
<1>7. h = [s \in SUBSET T |-> h[s]]
  BY DEF h
<1>8. Table(f, T) = h
  BY <1>6, <1>7 DEF Table
<1> QED  BY <1>2, <1>8

\* The sums of the subsets of a finite set are the table the fold fills in.
LEMMA TableExists ==
  ASSUME NEW f, NEW S, IsFiniteSet(S)
  PROVE  IsTable(Table(f, S), f, S)
<1> DEFINE Bad == {T \in SUBSET S : ~IsTable(Table(f, T), f, T)}
<1> SUFFICES ASSUME Bad # {} PROVE FALSE
  OBVIOUS
<1>0. Bad \in SUBSET SUBSET S
  OBVIOUS
<1>1. PICK T \in Bad : \A U \in Bad : U \subseteq T => U = T
  <2> HIDE DEF Bad
  <2> QED  BY <1>0, Least
<1>2. IsFiniteSet(T)
  BY FS_Subset
<1>3. \A u \in SUBSET T : u # T => IsTable(Table(f, u), f, u)
  BY <1>1
<1> QED  BY <1>2, <1>3, TableExtends

\* The empty sum, and a sum as the fold takes it.
LEMMA SumUnfolds ==
  ASSUME NEW f, NEW S, IsFiniteSet(S)
  PROVE  /\ Sum(f, {}) = 0
         /\ S # {} => Sum(f, S) = f[Pick(S)] + Sum(f, S \ {Pick(S)})
<1>1. IsTable(Table(f, S), f, S)
  BY TableExists
<1>2. Table(f, S)[{}] = 0
  BY <1>1 DEF IsTable
<1>3. S # {} => Table(f, S)[S] = f[Pick(S)] + Table(f, S)[S \ {Pick(S)}]
  BY <1>1 DEF IsTable
<1> QED  BY <1>2, <1>3 DEF Table

\* A sum of integers is an integer.
LEMMA SumType ==
  ASSUME NEW f, NEW S, IsFiniteSet(S), \A x \in S : f[x] \in Int
  PROVE  Sum(f, S) \in Int
<1> DEFINE Bad == {T \in SUBSET S : Sum(f, T) \notin Int}
<1> SUFFICES ASSUME Bad # {} PROVE FALSE
  OBVIOUS
<1>0. Bad \in SUBSET SUBSET S
  OBVIOUS
<1>1. PICK T \in Bad : \A U \in Bad : U \subseteq T => U = T
  <2> HIDE DEF Bad
  <2> QED  BY <1>0, Least
<1>2. IsFiniteSet(T)
  BY FS_Subset
<1>3. T # {}
  <2>1. Sum(f, {}) = 0
    BY <1>2, SumUnfolds
  <2> QED  BY <1>1, <2>1
<1>4. Pick(T) \in T
  BY <1>3, Picked
<1>5. Sum(f, T \ {Pick(T)}) \in Int
  BY <1>1, <1>4
<1>6. Sum(f, T) = f[Pick(T)] + Sum(f, T \ {Pick(T)})
  BY <1>2, <1>3, SumUnfolds
<1> QED  BY <1>4, <1>5, <1>6

\* The order does not matter: any element may be taken first.
THEOREM SumRemove ==
  ASSUME NEW f, NEW S, IsFiniteSet(S), \A x \in S : f[x] \in Int, NEW a \in S
  PROVE  Sum(f, S) = f[a] + Sum(f, S \ {a})
<1> DEFINE Bad == {T \in SUBSET S : \E b \in T : Sum(f, T) # f[b] + Sum(f, T \ {b})}
<1> SUFFICES ASSUME Bad # {} PROVE FALSE
  OBVIOUS
<1>0. Bad \in SUBSET SUBSET S
  OBVIOUS
<1>1. PICK T \in Bad : \A U \in Bad : U \subseteq T => U = T
  <2> HIDE DEF Bad
  <2> QED  BY <1>0, Least
<1>2. PICK b \in T : Sum(f, T) # f[b] + Sum(f, T \ {b})
  BY <1>1
<1>3. PICK x : x = Pick(T)
  OBVIOUS
<1>4. x \in T /\ IsFiniteSet(T)
  BY <1>2, <1>3, Picked, FS_Subset
<1>5. Sum(f, T) = f[x] + Sum(f, T \ {x})
  BY <1>2, <1>3, <1>4, SumUnfolds
<1>6. x # b
  BY <1>2, <1>5
<1>7. /\ T \ {x} \notin Bad /\ b \in T \ {x}
      /\ T \ {b} \notin Bad /\ x \in T \ {b}
  BY <1>1, <1>2, <1>4, <1>6
<1>8. Sum(f, T \ {x}) = f[b] + Sum(f, (T \ {x}) \ {b})
  BY <1>7
<1>9. Sum(f, T \ {b}) = f[x] + Sum(f, (T \ {b}) \ {x})
  BY <1>7
<1>10. (T \ {x}) \ {b} = (T \ {b}) \ {x}
  OBVIOUS
<1>11. PICK r : r = Sum(f, (T \ {b}) \ {x})
  OBVIOUS
<1>12. r \in Int /\ f[x] \in Int /\ f[b] \in Int
  <2>1. IsFiniteSet((T \ {b}) \ {x}) /\ \A y \in (T \ {b}) \ {x} : f[y] \in Int
    BY <1>4, FS_Subset
  <2> QED  BY <2>1, <1>4, <1>11, SumType
<1>13. Sum(f, T) = f[x] + (f[b] + r) /\ Sum(f, T \ {b}) = f[x] + r
  BY <1>5, <1>8, <1>9, <1>10, <1>11
<1> QED  BY <1>2, <1>12, <1>13
\* An element joins the sum.
THEOREM SumAdd ==
  ASSUME NEW f, NEW S, IsFiniteSet(S), NEW a, a \notin S, \A x \in S \cup {a} : f[x] \in Int
  PROVE  Sum(f, S \cup {a}) = Sum(f, S) + f[a]
<1>1. IsFiniteSet(S \cup {a}) /\ (S \cup {a}) \ {a} = S
  BY FS_AddElement
<1>2. Sum(f, S \cup {a}) = f[a] + Sum(f, S)
  BY <1>1, SumRemove
<1> QED  BY <1>2, SumType

\* Only the summands matter.
THEOREM SumSame ==
  ASSUME NEW f, NEW g, NEW S, IsFiniteSet(S), \A x \in S : f[x] = g[x]
  PROVE  Sum(f, S) = Sum(g, S)
<1> DEFINE Bad == {T \in SUBSET S : Sum(f, T) # Sum(g, T)}
<1> SUFFICES ASSUME Bad # {} PROVE FALSE
  OBVIOUS
<1>0. Bad \in SUBSET SUBSET S
  OBVIOUS
<1>1. PICK T \in Bad : \A U \in Bad : U \subseteq T => U = T
  <2> HIDE DEF Bad
  <2> QED  BY <1>0, Least
<1>2. IsFiniteSet(T)
  BY FS_Subset
<1>3. T # {}
  <2>1. Sum(f, {}) = 0 /\ Sum(g, {}) = 0
    BY <1>2, SumUnfolds
  <2> QED  BY <1>1, <2>1
<1>4. Pick(T) \in T
  BY <1>3, Picked
<1>5. Sum(f, T \ {Pick(T)}) = Sum(g, T \ {Pick(T)})
  BY <1>1, <1>4
<1>6. Sum(f, T) = f[Pick(T)] + Sum(f, T \ {Pick(T)})
  BY <1>2, <1>3, SumUnfolds
<1>7. Sum(g, T) = g[Pick(T)] + Sum(g, T \ {Pick(T)})
  BY <1>2, <1>3, SumUnfolds
<1> QED  BY <1>1, <1>4, <1>5, <1>6, <1>7

\* One summand changes.
THEOREM SumChange ==
  ASSUME NEW f, NEW g, NEW S, IsFiniteSet(S), NEW a \in S,
         \A x \in S : f[x] \in Int /\ g[x] \in Int, \A x \in S \ {a} : f[x] = g[x]
  PROVE  Sum(g, S) = Sum(f, S) - f[a] + g[a]
<1>1. IsFiniteSet(S \ {a})
  BY FS_Subset
<1>2. Sum(f, S \ {a}) = Sum(g, S \ {a}) /\ Sum(f, S \ {a}) \in Int
  BY <1>1, SumSame, SumType
<1>3. Sum(f, S) = f[a] + Sum(f, S \ {a})
  BY SumRemove
<1>4. Sum(g, S) = g[a] + Sum(g, S \ {a})
  BY SumRemove
<1> QED  BY <1>2, <1>3, <1>4

\* A sum of amounts is an amount, and at least each of its summands.
THEOREM SumNat ==
  ASSUME NEW f, NEW S, IsFiniteSet(S), \A x \in S : f[x] \in Nat
  PROVE  Sum(f, S) \in Nat /\ \A x \in S : f[x] <= Sum(f, S)
<1>1. ASSUME NEW R \in SUBSET S PROVE Sum(f, R) \in Nat
  <2> DEFINE Bad == {T \in SUBSET S : Sum(f, T) \notin Nat}
  <2> SUFFICES ASSUME Bad # {} PROVE FALSE
    OBVIOUS
  <2>0. Bad \in SUBSET SUBSET S
    OBVIOUS
  <2>1. PICK T \in Bad : \A U \in Bad : U \subseteq T => U = T
    <3> HIDE DEF Bad
    <3> QED  BY <2>0, Least
  <2>2. IsFiniteSet(T)
    BY FS_Subset
  <2>3. T # {}
    <3>1. Sum(f, {}) = 0
      BY <2>2, SumUnfolds
    <3>2. Sum(f, {}) \in Nat
      BY <3>1
    <3> QED  BY <2>1, <3>2
  <2>4. Pick(T) \in T
    BY <2>3, Picked
  <2>5. Sum(f, T \ {Pick(T)}) \in Nat
    BY <2>1, <2>4
  <2>6. Sum(f, T) = f[Pick(T)] + Sum(f, T \ {Pick(T)})
    BY <2>2, <2>3, SumUnfolds
  <2> QED  BY <2>4, <2>5, <2>6
<1>2. ASSUME NEW a \in S PROVE f[a] <= Sum(f, S)
  <2>1. Sum(f, S) = f[a] + Sum(f, S \ {a})
    BY SumRemove
  <2>2. Sum(f, S \ {a}) \in Nat
    BY <1>1
  <2> QED  BY <2>1, <2>2
<1> QED  BY <1>1, <1>2

\* Fewer amounts do not come to more.
THEOREM SumMonotone ==
  ASSUME NEW f, NEW S, IsFiniteSet(S), \A x \in S : f[x] \in Nat, NEW R \in SUBSET S
  PROVE  Sum(f, R) <= Sum(f, S)
<1> DEFINE Bad == {T \in SUBSET S : R \subseteq T /\ ~(Sum(f, R) <= Sum(f, T))}
<1> SUFFICES ASSUME Bad # {} PROVE FALSE
  OBVIOUS
<1>0. Bad \in SUBSET SUBSET S
  OBVIOUS
<1>1. PICK T \in Bad : \A U \in Bad : U \subseteq T => U = T
  <2> HIDE DEF Bad
  <2> QED  BY <1>0, Least
<1>2. IsFiniteSet(T) /\ IsFiniteSet(R)
  BY FS_Subset
<1>3. Sum(f, R) \in Nat /\ Sum(f, T) \in Nat
  BY <1>2, SumNat
<1>4. PICK a \in T : a \notin R
  <2>1. R \subseteq T /\ ~(Sum(f, R) <= Sum(f, T))
    BY <1>1
  <2>2. R # T
    BY <1>3, <2>1
  <2> QED  BY <2>1, <2>2
<1>5. Sum(f, T) = f[a] + Sum(f, T \ {a})
  BY <1>2, SumRemove
<1>6. Sum(f, R) <= Sum(f, T \ {a})
  BY <1>1, <1>4
<1>7. Sum(f, T \ {a}) \in Nat
  <2>1. IsFiniteSet(T \ {a})
    BY <1>2, FS_Subset
  <2> QED  BY <2>1, SumNat
<1> QED  BY <1>1, <1>3, <1>5, <1>6, <1>7

\* A sum of nothing but zeros is zero.
THEOREM SumZero ==
  ASSUME NEW f, NEW S, IsFiniteSet(S), \A x \in S : f[x] = 0
  PROVE  Sum(f, S) = 0
<1> DEFINE Bad == {T \in SUBSET S : Sum(f, T) # 0}
<1> SUFFICES ASSUME Bad # {} PROVE FALSE
  OBVIOUS
<1>0. Bad \in SUBSET SUBSET S
  OBVIOUS
<1>1. PICK T \in Bad : \A U \in Bad : U \subseteq T => U = T
  <2> HIDE DEF Bad
  <2> QED  BY <1>0, Least
<1>2. IsFiniteSet(T) /\ T \in SUBSET S
  BY FS_Subset
<1>3. T # {}
  BY <1>2, SumUnfolds
<1>4. Pick(T) \in T
  BY <1>3, Picked
<1>5. Sum(f, T \ {Pick(T)}) = 0
  <2>1. T \ {Pick(T)} \notin Bad
    BY <1>1, <1>4
  <2> QED  BY <1>2, <2>1
<1>6. Sum(f, T) = 0
  BY <1>2, <1>3, <1>4, <1>5, SumUnfolds
<1> QED  BY <1>1, <1>6
=============================================================================
