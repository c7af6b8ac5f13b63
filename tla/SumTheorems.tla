---------------------------- MODULE SumTheorems ----------------------------
(***************************************************************************)
(* Sums over finite sets, as the community modules' SumFunctionOnSet       *)
(* computes them.  The induction theorems of the library take an operator  *)
(* as a parameter; here induction over the subsets of a finite set is the  *)
(* well-foundedness of its strict subsets, stated of a set of subsets.     *)
(***************************************************************************)
EXTENDS Integers, FiniteSets, Functions, FiniteSetTheorems, WellFoundedInduction, TLAPS

\* A set of subsets of a finite set has a minimal member.
LEMMA MinimalSubset ==
  ASSUME NEW S, IsFiniteSet(S), NEW Bad, Bad \subseteq SUBSET S, Bad # {}
  PROVE  \E T \in Bad : \A U \in SUBSET T : U # T => U \notin Bad
<1>1. Bad \subseteq FiniteSubsetsOf(S)
  BY FS_Subset DEF FiniteSubsetsOf
<1>2. PICK T \in Bad : \A U \in Bad : <<U, T>> \notin StrictSubsetOrdering(S)
  BY <1>1, FS_StrictSubsetOrderingWellFounded, WFMin
<1>3. ASSUME NEW U \in SUBSET T, U # T, U \in Bad
      PROVE  FALSE
  <2>1. <<U, T>> \in StrictSubsetOrdering(S)
    BY <1>3 DEF StrictSubsetOrdering
  <2> QED BY <1>2, <1>3, <2>1
<1> QED BY <1>2, <1>3

\* Induction over the subsets of a finite set, for a set Good of them
THEOREM SubsetInduction ==
  ASSUME NEW S, IsFiniteSet(S), NEW Good,
         {} \in Good,
         \A T \in SUBSET S, x \in S : T \in Good /\ x \notin T => T \cup {x} \in Good
  PROVE  S \in Good
<1> DEFINE Bad == {T \in SUBSET S : T \notin Good}
<1>1. SUFFICES ASSUME S \notin Good PROVE FALSE
  OBVIOUS
<1>2. PICK T \in Bad : \A U \in SUBSET T : U # T => U \notin Bad
  <2>1. Bad \subseteq SUBSET S /\ Bad # {}
    BY <1>1
  <2> HIDE DEF Bad
  <2> QED BY <2>1, MinimalSubset
<1>3. PICK x \in T : TRUE
  BY <1>2
<1>4. T \ {x} \in Good /\ x \in S
  BY <1>2, <1>3
<1>5. (T \ {x}) \cup {x} = T
  BY <1>3
<1> QED BY <1>2, <1>4, <1>5

----------------------------------------------------------------------------
\* The partial sums that SumFunctionOnSet computes

Some(T) == CHOOSE x \in T : TRUE
PartialSums(f, S) ==
  {g \in [SUBSET S -> Int] :
     \A T \in SUBSET S : g[T] = IF T = {} THEN 0 ELSE f[Some(T)] + g[T \ {Some(T)}]}

\* The member that is summed first
LEMMA SomeIsIn == ASSUME NEW T, T # {} PROVE Some(T) \in T
  BY DEF Some

\* Partial sums over a set are those over its subsets.
LEMMA PartialRestricts ==
  ASSUME NEW f, NEW S, NEW g \in PartialSums(f, S), NEW T \in SUBSET S
  PROVE  [U \in SUBSET T |-> g[U]] \in PartialSums(f, T)
<1> DEFINE h == [U \in SUBSET T |-> g[U]]
<1>1. h \in [SUBSET T -> Int]
  BY DEF PartialSums
<1>2. ASSUME NEW U \in SUBSET T
      PROVE  h[U] = IF U = {} THEN 0 ELSE f[Some(U)] + h[U \ {Some(U)}]
  <2>1. U \in SUBSET S /\ U \ {Some(U)} \in SUBSET T
    OBVIOUS
  <2>2. g[U] = IF U = {} THEN 0 ELSE f[Some(U)] + g[U \ {Some(U)}]
    BY <2>1 DEF PartialSums
  <2> QED BY <2>1, <2>2
<1> QED BY <1>1, <1>2 DEF PartialSums

\* Partial sums are unique,
LEMMA PartialUnique ==
  ASSUME NEW f, NEW S, IsFiniteSet(S), NEW g \in PartialSums(f, S), NEW h \in PartialSums(f, S)
  PROVE  g = h
<1> DEFINE Bad == {T \in SUBSET S : g[T] # h[T]}
<1>1. SUFFICES ASSUME Bad # {} PROVE FALSE
  BY DEF PartialSums
<1>2. PICK T \in Bad : \A U \in SUBSET T : U # T => U \notin Bad
  <2>1. Bad \subseteq SUBSET S
    OBVIOUS
  <2> HIDE DEF Bad
  <2> QED BY <1>1, <2>1, MinimalSubset
<1>3. T \in SUBSET S /\ g[T] # h[T]
  BY <1>2
<1>4. T # {}
  BY <1>3 DEF PartialSums
<1>5. g[T \ {Some(T)}] = h[T \ {Some(T)}]
  BY <1>2, <1>3, <1>4, SomeIsIn
<1>6. g[T] = f[Some(T)] + g[T \ {Some(T)}] /\ h[T] = f[Some(T)] + h[T \ {Some(T)}]
  BY <1>3, <1>4 DEF PartialSums
<1> QED BY <1>3, <1>5, <1>6

\* and there are some of any integers.
LEMMA PartialExists ==
  ASSUME NEW f, NEW S, IsFiniteSet(S), \A x \in S : f[x] \in Int
  PROVE  PartialSums(f, S) # {}
<1> DEFINE Bad == {T \in SUBSET S : PartialSums(f, T) = {}}
<1>1. SUFFICES ASSUME Bad # {} PROVE FALSE
  OBVIOUS
<1>2. PICK T \in Bad : \A U \in SUBSET T : U # T => U \notin Bad
  <2>1. Bad \subseteq SUBSET S
    OBVIOUS
  <2> HIDE DEF Bad
  <2> QED BY <1>1, <2>1, MinimalSubset
<1>3. T \in SUBSET S /\ PartialSums(f, T) = {}
  BY <1>2
<1>4. ASSUME NEW U \in SUBSET T, U # T
      PROVE  PartialSums(f, U) # {}
  BY <1>2, <1>4
<1> DEFINE G(U) == CHOOSE g \in PartialSums(f, U) : TRUE
           Sum(U) == IF U = {} THEN 0 ELSE f[Some(U)] + G(U \ {Some(U)})[U \ {Some(U)}]
           h == [U \in SUBSET T |-> Sum(U)]
<1>5. ASSUME NEW U \in SUBSET T, U # T
      PROVE  G(U) \in PartialSums(f, U)
  BY <1>4, <1>5
<1> HIDE DEF G
<1>6. ASSUME NEW U \in SUBSET T, U # {}
      PROVE  /\ U \ {Some(U)} \in SUBSET T /\ U \ {Some(U)} # T
             /\ G(U \ {Some(U)})[U \ {Some(U)}] \in Int
             /\ f[Some(U)] \in Int
  <2>1. U \ {Some(U)} \in SUBSET T /\ U \ {Some(U)} # T
    BY <1>6, SomeIsIn
  <2>2. G(U \ {Some(U)}) \in PartialSums(f, U \ {Some(U)})
    BY <2>1, <1>5
  <2>3. G(U \ {Some(U)})[U \ {Some(U)}] \in Int
    BY <2>2 DEF PartialSums
  <2> QED BY <2>1, <2>3, <1>6, <1>3, SomeIsIn
<1>7. h \in [SUBSET T -> Int]
  BY <1>6
<1>8. ASSUME NEW U \in SUBSET T, U # T
      PROVE  h[U] = G(U)[U]
  <2>1. G(U) \in PartialSums(f, U)
    BY <1>5, <1>8
  <2>2. CASE U = {}
    BY <2>1, <2>2 DEF PartialSums
  <2>3. CASE U # {}
    <3> DEFINE V == U \ {Some(U)}
    <3>1. V \in SUBSET T /\ V # T /\ V \in SUBSET U /\ V \in SUBSET V
      BY <1>6, <2>3
    <3>2. G(V) \in PartialSums(f, V)
      BY <3>1, <1>5
    <3>3. [W \in SUBSET V |-> G(U)[W]] \in PartialSums(f, V)
      BY <2>1, <3>1, PartialRestricts
    <3>4. IsFiniteSet(V)
      BY <3>1, <1>3, FS_Subset
    <3>5. [W \in SUBSET V |-> G(U)[W]] = G(V)
      BY <3>2, <3>3, <3>4, PartialUnique
    <3>6. G(U)[V] = G(V)[V]
      <4> DEFINE k == [W \in SUBSET V |-> G(U)[W]]
      <4>1. k[V] = G(U)[V]
        BY <3>1
      <4> QED BY <4>1, <3>5
    <3>7. G(U)[U] = f[Some(U)] + G(U)[V]
      BY <2>1, <2>3 DEF PartialSums
    <3> QED BY <3>6, <3>7, <2>3
  <2> QED BY <2>2, <2>3
<1>9. ASSUME NEW U \in SUBSET T
      PROVE  h[U] = IF U = {} THEN 0 ELSE f[Some(U)] + h[U \ {Some(U)}]
  <2>1. CASE U = {}
    BY <2>1
  <2>2. CASE U # {}
    BY <2>2, <1>6, <1>8
  <2> QED BY <2>1, <2>2
<1>10. h \in PartialSums(f, T)
  <2> HIDE DEF h
  <2> QED BY <1>7, <1>9 DEF PartialSums
<1> QED BY <1>10, <1>3

----------------------------------------------------------------------------
\* SumFunctionOnSet

\* SumFunctionOnSet is the partial sum over the whole set.
LEMMA SumIsPartial ==
  ASSUME NEW f, NEW S, IsFiniteSet(S), \A x \in S : f[x] \in Int
  PROVE  \E g \in PartialSums(f, S) : g[S] = SumFunctionOnSet(f, S)
<1> DEFINE R(g) == g = [s \in SUBSET S |-> IF s = {} THEN 0 ELSE f[Some(s)] + g[s \ {Some(s)}]]
<1>1. SumFunctionOnSet(f, S) = (CHOOSE g : R(g))[S]
  BY Zenon DEF SumFunctionOnSet, FoldFunctionOnSet, MapThenFoldSet, Some
<1>2. PICK g \in PartialSums(f, S) : TRUE
  BY PartialExists
<1>3. R(g)
  BY DEF PartialSums
<1>4. R(CHOOSE k : R(k))
  <2> HIDE DEF R
  <2> QED BY <1>3
<1>5. PICK k : k = CHOOSE j : R(j)
  OBVIOUS
<1>6. R(k)
  BY <1>4, <1>5
<1>7. k \in PartialSums(f, S)
  <2> DEFINE Bad == {T \in SUBSET S : k[T] # g[T]}
  <2>1. Bad = {}
    <3>1. SUFFICES ASSUME Bad # {} PROVE FALSE
      OBVIOUS
    <3>2. PICK T \in Bad : \A U \in SUBSET T : U # T => U \notin Bad
      <4>1. Bad \subseteq SUBSET S
        OBVIOUS
      <4> HIDE DEF Bad
      <4> QED BY <3>1, <4>1, MinimalSubset
    <3>3. T \in SUBSET S /\ k[T] # g[T]
      BY <3>2
    <3>4. k[T] = IF T = {} THEN 0 ELSE f[Some(T)] + k[T \ {Some(T)}]
      BY <1>6, <3>3
    <3>5. g[T] = IF T = {} THEN 0 ELSE f[Some(T)] + g[T \ {Some(T)}]
      BY <3>3 DEF PartialSums
    <3>6. T # {}
      BY <3>3, <3>4, <3>5
    <3>7. k[T \ {Some(T)}] = g[T \ {Some(T)}]
      BY <3>2, <3>3, <3>6, SomeIsIn
    <3> QED BY <3>3, <3>4, <3>5, <3>6, <3>7
  <2>2. DOMAIN k = SUBSET S /\ k = [s \in SUBSET S |-> k[s]]
    BY <1>6
  <2>3. g = [s \in SUBSET S |-> g[s]]
    BY DEF PartialSums
  <2>4. k = g
    BY <2>1, <2>2, <2>3
  <2> QED BY <2>4
<1> QED BY <1>1, <1>5, <1>7

----------------------------------------------------------------------------

\* The sum of nothing
THEOREM SumEmpty ==
  ASSUME NEW f PROVE SumFunctionOnSet(f, {}) = 0
<1>1. IsFiniteSet({})
  BY FS_EmptySet
<1>2. PICK g \in PartialSums(f, {}) : g[{}] = SumFunctionOnSet(f, {})
  BY <1>1, SumIsPartial
<1> QED BY <1>2 DEF PartialSums

\* A sum of integers is an integer.
THEOREM SumType ==
  ASSUME NEW f, NEW S, IsFiniteSet(S), \A x \in S : f[x] \in Int
  PROVE  SumFunctionOnSet(f, S) \in Int
<1>1. PICK g \in PartialSums(f, S) : g[S] = SumFunctionOnSet(f, S)
  BY SumIsPartial
<1> QED BY <1>1 DEF PartialSums

\* A sum is its first member and the sum of the others,
LEMMA SumOfSome ==
  ASSUME NEW f, NEW S, IsFiniteSet(S), \A x \in S : f[x] \in Int, S # {}
  PROVE  SumFunctionOnSet(f, S) = f[Some(S)] + SumFunctionOnSet(f, S \ {Some(S)})
<1> DEFINE T == S \ {Some(S)}
<1>1. PICK g \in PartialSums(f, S) : g[S] = SumFunctionOnSet(f, S)
  BY SumIsPartial
<1>2. IsFiniteSet(T) /\ T \in SUBSET S /\ T \in SUBSET T
  BY FS_Subset
<1>3. PICK h \in PartialSums(f, T) : h[T] = SumFunctionOnSet(f, T)
  BY <1>2, SumIsPartial
<1>4. [U \in SUBSET T |-> g[U]] \in PartialSums(f, T)
  BY <1>2, PartialRestricts
<1>5. [U \in SUBSET T |-> g[U]] = h
  BY <1>2, <1>3, <1>4, PartialUnique
<1>6. g[T] = h[T]
  <2> DEFINE k == [U \in SUBSET T |-> g[U]]
  <2>1. k[T] = g[T]
    BY <1>2
  <2> QED BY <2>1, <1>5
<1>7. g[S] = f[Some(S)] + g[T]
  BY DEF PartialSums
<1> QED BY <1>1, <1>3, <1>6, <1>7

\* or any member and the sum of the others.
THEOREM SumRemove ==
  ASSUME NEW f, NEW S, IsFiniteSet(S), \A x \in S : f[x] \in Int, NEW y \in S
  PROVE  SumFunctionOnSet(f, S) = f[y] + SumFunctionOnSet(f, S \ {y})
<1> DEFINE Splits(T) == \A x \in T : SumFunctionOnSet(f, T) = f[x] + SumFunctionOnSet(f, T \ {x})
           Bad == {T \in SUBSET S : ~Splits(T)}
<1>1. SUFFICES ASSUME Bad # {} PROVE FALSE
  OBVIOUS
<1>2. PICK T \in Bad : \A U \in SUBSET T : U # T => U \notin Bad
  <2>1. Bad \subseteq SUBSET S
    OBVIOUS
  <2> HIDE DEF Bad
  <2> QED BY <1>1, <2>1, MinimalSubset
<1>3. PICK x \in T : SumFunctionOnSet(f, T) # f[x] + SumFunctionOnSet(f, T \ {x})
  BY <1>2
<1> DEFINE c == Some(T)
<1>4. c \in T /\ T \in SUBSET S
  BY <1>2, <1>3, SomeIsIn
<1> HIDE DEF c
<1>5. /\ IsFiniteSet(T) /\ IsFiniteSet(T \ {c}) /\ IsFiniteSet(T \ {x})
      /\ IsFiniteSet(T \ {c, x})
  BY <1>4, FS_Subset
<1>6. SumFunctionOnSet(f, T) = f[c] + SumFunctionOnSet(f, T \ {c})
  BY <1>4, <1>5, SumOfSome DEF c
<1>7. c # x
  BY <1>3, <1>6
<1>8. Splits(T \ {c}) /\ Splits(T \ {x})
  <2>1. T \ {c} \notin Bad /\ T \ {x} \notin Bad
    BY <1>2, <1>4
  <2> QED BY <2>1, <1>4
<1>9. SumFunctionOnSet(f, T \ {c}) = f[x] + SumFunctionOnSet(f, T \ {c, x})
  <2>1. x \in T \ {c} /\ (T \ {c}) \ {x} = T \ {c, x}
    BY <1>7
  <2> HIDE DEF Bad
  <2> QED BY <2>1, <1>8
<1>10. SumFunctionOnSet(f, T \ {x}) = f[c] + SumFunctionOnSet(f, T \ {c, x})
  <2>1. c \in T \ {x} /\ (T \ {x}) \ {c} = T \ {c, x}
    BY <1>4, <1>7
  <2> QED BY <2>1, <1>8
<1>11. /\ SumFunctionOnSet(f, T \ {c, x}) \in Int /\ f[c] \in Int /\ f[x] \in Int
  BY <1>4, <1>5, SumType
<1> QED BY <1>3, <1>6, <1>9, <1>10, <1>11

\* The sum with one member more
THEOREM SumInsert ==
  ASSUME NEW f, NEW S, IsFiniteSet(S), NEW y, y \notin S, \A x \in S \cup {y} : f[x] \in Int
  PROVE  SumFunctionOnSet(f, S \cup {y}) = SumFunctionOnSet(f, S) + f[y]
<1>1. IsFiniteSet(S \cup {y}) /\ (S \cup {y}) \ {y} = S
  BY FS_AddElement
<1>2. SumFunctionOnSet(f, S \cup {y}) = f[y] + SumFunctionOnSet(f, S)
  BY <1>1, SumRemove
<1>3. SumFunctionOnSet(f, S) \in Int
  BY SumType
<1> QED BY <1>2, <1>3

\* Functions that agree have the same sum.
THEOREM SumEqual ==
  ASSUME NEW S, IsFiniteSet(S), NEW f, NEW g,
         \A x \in S : f[x] \in Int /\ g[x] = f[x]
  PROVE  SumFunctionOnSet(g, S) = SumFunctionOnSet(f, S)
<1> DEFINE Good == {T \in SUBSET S : SumFunctionOnSet(g, T) = SumFunctionOnSet(f, T)}
<1>1. {} \in Good
  BY SumEmpty
<1>2. ASSUME NEW T \in SUBSET S, NEW x \in S, T \in Good, x \notin T
      PROVE  T \cup {x} \in Good
  <2>1. IsFiniteSet(T)
    BY FS_Subset
  <2>2. SumFunctionOnSet(g, T \cup {x}) = SumFunctionOnSet(g, T) + g[x]
    BY <1>2, <2>1, SumInsert
  <2>3. SumFunctionOnSet(f, T \cup {x}) = SumFunctionOnSet(f, T) + f[x]
    BY <1>2, <2>1, SumInsert
  <2> QED BY <1>2, <2>2, <2>3
<1> HIDE DEF Good
<1>3. S \in Good
  BY <1>1, <1>2, SubsetInduction
<1> QED BY <1>3 DEF Good

\* A sum of natural numbers is one.
THEOREM SumNat ==
  ASSUME NEW S, IsFiniteSet(S), NEW f, \A x \in S : f[x] \in Nat
  PROVE  SumFunctionOnSet(f, S) \in Nat
<1> DEFINE Good == {T \in SUBSET S : SumFunctionOnSet(f, T) \in Nat}
<1>1. {} \in Good
  BY SumEmpty
<1>2. ASSUME NEW T \in SUBSET S, NEW x \in S, T \in Good, x \notin T
      PROVE  T \cup {x} \in Good
  <2>1. IsFiniteSet(T)
    BY FS_Subset
  <2>2. SumFunctionOnSet(f, T \cup {x}) = SumFunctionOnSet(f, T) + f[x]
    BY <1>2, <2>1, SumInsert
  <2> QED BY <1>2, <2>2
<1> HIDE DEF Good
<1>3. S \in Good
  BY <1>1, <1>2, SubsetInduction
<1> QED BY <1>3 DEF Good

\* The sum of sums
THEOREM SumPlus ==
  ASSUME NEW S, IsFiniteSet(S), NEW f, NEW g, NEW h,
         \A x \in S : f[x] \in Int /\ g[x] \in Int /\ h[x] = f[x] + g[x]
  PROVE  SumFunctionOnSet(h, S) = SumFunctionOnSet(f, S) + SumFunctionOnSet(g, S)
<1> DEFINE Good == {T \in SUBSET S :
             SumFunctionOnSet(h, T) = SumFunctionOnSet(f, T) + SumFunctionOnSet(g, T)}
<1>1. {} \in Good
  BY SumEmpty
<1>2. ASSUME NEW T \in SUBSET S, NEW x \in S, T \in Good, x \notin T
      PROVE  T \cup {x} \in Good
  <2>1. IsFiniteSet(T) /\ \A y \in T \cup {x} : f[y] \in Int /\ g[y] \in Int /\ h[y] \in Int
    BY FS_Subset
  <2>2. SumFunctionOnSet(g, T \cup {x}) = SumFunctionOnSet(g, T) + g[x]
    BY <1>2, <2>1, SumInsert
  <2>3. SumFunctionOnSet(f, T \cup {x}) = SumFunctionOnSet(f, T) + f[x]
    BY <1>2, <2>1, SumInsert
  <2>4. SumFunctionOnSet(h, T \cup {x}) = SumFunctionOnSet(h, T) + h[x]
    BY <1>2, <2>1, SumInsert
  <2>5. /\ SumFunctionOnSet(f, T) \in Int /\ SumFunctionOnSet(g, T) \in Int
    BY <2>1, SumType
  <2> QED BY <1>2, <2>2, <2>3, <2>4, <2>5
<1> HIDE DEF Good
<1>3. S \in Good
  BY <1>1, <1>2, SubsetInduction
<1> QED BY <1>3 DEF Good

\* The sum of zeros
THEOREM SumZero ==
  ASSUME NEW S, IsFiniteSet(S), NEW f, \A x \in S : f[x] = 0
  PROVE  SumFunctionOnSet(f, S) = 0
<1> DEFINE Good == {T \in SUBSET S : SumFunctionOnSet(f, T) = 0}
<1>1. {} \in Good
  BY SumEmpty
<1>2. ASSUME NEW T \in SUBSET S, NEW x \in S, T \in Good, x \notin T
      PROVE  T \cup {x} \in Good
  <2>1. IsFiniteSet(T)
    BY FS_Subset
  <2>2. SumFunctionOnSet(f, T \cup {x}) = SumFunctionOnSet(f, T) + f[x]
    BY <1>2, <2>1, SumInsert
  <2> QED BY <1>2, <2>2
<1> HIDE DEF Good
<1>3. S \in Good
  BY <1>1, <1>2, SubsetInduction
<1> QED BY <1>3 DEF Good

\* A sum changes by as much as the one member that changes.
THEOREM SumChange ==
  ASSUME NEW S, IsFiniteSet(S), NEW f, NEW g, NEW y \in S,
         \A x \in S : f[x] \in Int /\ g[x] \in Int,
         \A x \in S : x # y => g[x] = f[x]
  PROVE  SumFunctionOnSet(g, S) = SumFunctionOnSet(f, S) + (g[y] - f[y])
<1>1. IsFiniteSet(S \ {y})
  BY FS_Subset
<1>2. SumFunctionOnSet(g, S \ {y}) = SumFunctionOnSet(f, S \ {y})
  BY <1>1, SumEqual
<1>3. SumFunctionOnSet(g, S) = g[y] + SumFunctionOnSet(g, S \ {y})
  BY SumRemove
<1>4. SumFunctionOnSet(f, S) = f[y] + SumFunctionOnSet(f, S \ {y})
  BY SumRemove
<1>5. SumFunctionOnSet(f, S \ {y}) \in Int
  BY <1>1, SumType
<1> QED BY <1>2, <1>3, <1>4, <1>5

\* A sum with one member that is not zero
THEOREM SumSingle ==
  ASSUME NEW S, IsFiniteSet(S), NEW f, NEW y \in S, f[y] \in Int,
         \A x \in S : x # y => f[x] = 0
  PROVE  SumFunctionOnSet(f, S) = f[y]
<1>1. IsFiniteSet(S \ {y})
  BY FS_Subset
<1>2. SumFunctionOnSet(f, S \ {y}) = 0
  BY <1>1, SumZero
<1>3. SumFunctionOnSet(f, S) = f[y] + SumFunctionOnSet(f, S \ {y})
  BY SumRemove
<1> QED BY <1>2, <1>3

\* The sum over two disjoint sets
THEOREM SumUnion ==
  ASSUME NEW S, NEW T, IsFiniteSet(S), IsFiniteSet(T), S \cap T = {}, NEW f,
         \A x \in S \cup T : f[x] \in Int
  PROVE  SumFunctionOnSet(f, S \cup T) = SumFunctionOnSet(f, S) + SumFunctionOnSet(f, T)
<1> DEFINE Good == {U \in SUBSET T :
             SumFunctionOnSet(f, S \cup U) = SumFunctionOnSet(f, S) + SumFunctionOnSet(f, U)}
<1>0. SumFunctionOnSet(f, S) \in Int
  BY SumType
<1>1. {} \in Good
  <2>1. S \cup {} = S
    OBVIOUS
  <2> QED BY <2>1, <1>0, SumEmpty
<1>2. ASSUME NEW U \in SUBSET T, NEW x \in T, U \in Good, x \notin U
      PROVE  U \cup {x} \in Good
  <2>1. /\ IsFiniteSet(U) /\ IsFiniteSet(S \cup U)
    BY FS_Subset, FS_Union
  <2>2. SumFunctionOnSet(f, U \cup {x}) = SumFunctionOnSet(f, U) + f[x]
    BY <1>2, <2>1, SumInsert
  <2>3. SumFunctionOnSet(f, (S \cup U) \cup {x}) = SumFunctionOnSet(f, S \cup U) + f[x]
    <3>1. x \notin S \cup U
      BY <1>2
    <3> QED BY <3>1, <2>1, SumInsert
  <2>4. (S \cup U) \cup {x} = S \cup (U \cup {x})
    OBVIOUS
  <2>5. SumFunctionOnSet(f, U) \in Int /\ f[x] \in Int
    BY <2>1, SumType
  <2>6. SumFunctionOnSet(f, S \cup (U \cup {x})) = SumFunctionOnSet(f, S \cup U) + f[x]
    BY <2>3, <2>4
  <2>7. SumFunctionOnSet(f, S \cup U) = SumFunctionOnSet(f, S) + SumFunctionOnSet(f, U)
    BY <1>2
  <2>8. SumFunctionOnSet(f, S \cup (U \cup {x}))
          = SumFunctionOnSet(f, S) + SumFunctionOnSet(f, U \cup {x})
    BY <1>0, <2>2, <2>5, <2>6, <2>7
  <2> QED BY <2>8
<1> HIDE DEF Good
<1>3. T \in Good
  BY <1>1, <1>2, SubsetInduction
<1> QED BY <1>3 DEF Good

\* A sum over rows and columns, in either order
THEOREM SumSwap ==
  ASSUME NEW A, IsFiniteSet(A), NEW S, IsFiniteSet(S), NEW r,
         \A i \in S, a \in A : r[i][a] \in Int
  PROVE  SumFunctionOnSet([a \in A |-> SumFunctionOnSet([i \in S |-> r[i][a]], S)], A)
         = SumFunctionOnSet([i \in S |-> SumFunctionOnSet(r[i], A)], S)
<1> DEFINE At(a) == [i \in S |-> r[i][a]]
           Row == [i \in S |-> SumFunctionOnSet(r[i], A)]
           Col(T) == [a \in A |-> SumFunctionOnSet(At(a), T)]
           Good == {T \in SUBSET S : SumFunctionOnSet(Col(T), A) = SumFunctionOnSet(Row, T)}
<1>0. /\ \A a \in A, i \in S : At(a)[i] = r[i][a] /\ r[i][a] \in Int
      /\ \A i \in S : Row[i] = SumFunctionOnSet(r[i], A) /\ Row[i] \in Int
  BY SumType
<1>1. {} \in Good
  <2>1. \A a \in A : Col({})[a] = 0
    BY SumEmpty
  <2>2. SumFunctionOnSet(Col({}), A) = 0
    <3> HIDE DEF Col
    <3> QED BY <2>1, SumZero
  <2> QED BY <2>2, SumEmpty
<1>2. ASSUME NEW T \in SUBSET S, NEW x \in S, T \in Good, x \notin T
      PROVE  T \cup {x} \in Good
  <2>1. IsFiniteSet(T)
    BY FS_Subset
  <2>2. SumFunctionOnSet(Row, T \cup {x}) = SumFunctionOnSet(Row, T) + Row[x]
    <3> HIDE DEF Row
    <3> QED BY <1>0, <1>2, <2>1, SumInsert
  <2>3. ASSUME NEW a \in A
        PROVE  /\ Col(T \cup {x})[a] = Col(T)[a] + r[x][a]
               /\ Col(T)[a] \in Int /\ r[x][a] \in Int
    <3>1. /\ Col(T \cup {x})[a] = SumFunctionOnSet(At(a), T \cup {x})
          /\ Col(T)[a] = SumFunctionOnSet(At(a), T)
      OBVIOUS
    <3>2. \A i \in S : At(a)[i] = r[i][a] /\ r[i][a] \in Int
      BY <1>0
    <3> HIDE DEF At, Col
    <3>3. SumFunctionOnSet(At(a), T \cup {x}) = SumFunctionOnSet(At(a), T) + At(a)[x]
      BY <3>2, <1>2, <2>1, SumInsert
    <3>4. SumFunctionOnSet(At(a), T) \in Int
      BY <3>2, <2>1, SumType
    <3> QED BY <3>1, <3>2, <3>3, <3>4
  <2>4. SumFunctionOnSet(Col(T \cup {x}), A)
          = SumFunctionOnSet(Col(T), A) + SumFunctionOnSet(r[x], A)
    <3> HIDE DEF Col
    <3> QED BY <2>3, SumPlus
  <2> QED BY <1>2, <2>2, <2>4
<1> HIDE DEF Good
<1>3. S \in Good
  BY <1>1, <1>2, SubsetInduction
<1> QED BY <1>3 DEF Good

\* Payments p out of the accounts w add what the accounts hold to the balances b: r is p
\* by account, and h the balances after.
THEOREM SumPaid ==
  ASSUME NEW A, IsFiniteSet(A), NEW S, IsFiniteSet(S), NEW b, NEW p, NEW r, NEW w, NEW h,
         \A a \in A : b[a] \in Int,
         \A i \in S, a \in A : p[a][i] \in Int /\ r[i][a] = p[a][i],
         \A i \in S : SumFunctionOnSet(r[i], A) = w[i],
         \A a \in A : h[a] = b[a] + SumFunctionOnSet(p[a], S)
  PROVE  SumFunctionOnSet(h, A) = SumFunctionOnSet(b, A) + SumFunctionOnSet(w, S)
<1> DEFINE col(a) == [i \in S |-> r[i][a]]
           q == [a \in A |-> SumFunctionOnSet(col(a), S)]
           t == [i \in S |-> SumFunctionOnSet(r[i], A)]
<1>1. SumFunctionOnSet(q, A) = SumFunctionOnSet(t, S)
  BY SumSwap
<1>2. \A i \in S : t[i] = w[i] /\ t[i] \in Int
  BY SumType
<1>3. SumFunctionOnSet(w, S) = SumFunctionOnSet(t, S)
  <2> HIDE DEF t
  <2> QED BY <1>2, SumEqual
<1>4. ASSUME NEW a \in A
      PROVE  q[a] \in Int /\ q[a] = SumFunctionOnSet(p[a], S)
  <2>1. \A i \in S : col(a)[i] = p[a][i] /\ p[a][i] \in Int
    OBVIOUS
  <2>2. q[a] = SumFunctionOnSet(col(a), S)
    OBVIOUS
  <2> HIDE DEF col, q
  <2>3. SumFunctionOnSet(col(a), S) = SumFunctionOnSet(p[a], S)
    BY <2>1, SumEqual
  <2>4. SumFunctionOnSet(p[a], S) \in Int
    BY <2>1, SumType
  <2> QED BY <2>2, <2>3, <2>4
<1>5. \A a \in A : b[a] \in Int /\ q[a] \in Int /\ h[a] = b[a] + q[a]
  BY <1>4
<1>6. SumFunctionOnSet(h, A) = SumFunctionOnSet(b, A) + SumFunctionOnSet(q, A)
  <2> HIDE DEF q
  <2> QED BY <1>5, SumPlus
<1> HIDE DEF q, t
<1> QED BY <1>1, <1>3, <1>6
=============================================================================
