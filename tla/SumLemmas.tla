------------------------------ MODULE SumLemmas ------------------------------
(***************************************************************************)
(* Facts about sums over finite sets, as the models write them              *)
(* (SumFunctionOnSet), proved by induction on the set.  The induction       *)
(* principles of the library cannot be applied by the provers, the          *)
(* least-element principle they rest on (WFMin) can.                        *)
(***************************************************************************)
EXTENDS Integers, FiniteSets, FiniteSetsExt, FiniteSetTheorems, WellFoundedInduction, TLAPS

\* The element a fold takes next, and the equation its table satisfies
Pick(s) == CHOOSE x \in s : TRUE
FoldStep(f, g, s) == IF s = {} THEN 0 ELSE g[Pick(s)] + f[s \ {Pick(s)}]
IsTable(f, g, D) == f = [s \in D |-> FoldStep(f, g, s)]

\* The definition of the fold, with its table named
LEMMA SumIsTable ==
    ASSUME NEW g, NEW S
    PROVE  SumFunctionOnSet(g, S) = (CHOOSE f : IsTable(f, g, SUBSET S))[S]
  BY DEF SumFunctionOnSet, FoldFunctionOnSet, MapThenFoldSet, IsTable, FoldStep, Pick

LEMMA PickIn == ASSUME NEW s, s # {} PROVE Pick(s) \in s
  BY DEF Pick

\* The least-number principle for sets of natural numbers
LEMMA LeastNumber ==
    ASSUME NEW T \in SUBSET Nat, T # {}
    PROVE  \E n \in T : \A m \in T : n <= m
<1>1. PICK n \in T : \A m \in T : ~(<<m, n>> \in OpToRel(<, Nat))
  BY NatLessThanWellFounded, WFMin
<1>2. \A m \in T : ~(m < n)
  BY <1>1 DEF OpToRel
<1> QED
  BY <1>2

\* Every set of finite subsets of a set has a minimal member
LEMMA LeastSubset ==
    ASSUME NEW S, IsFiniteSet(S), NEW C \in SUBSET (SUBSET S), C # {}
    PROVE  \E T \in C : \A U \in C : U \subseteq T => U = T
<1> DEFINE N == {Cardinality(T) : T \in C}
<1>1. \A T \in C : IsFiniteSet(T) /\ Cardinality(T) \in Nat
  BY FS_Subset, FS_CardinalityType
<1>2. N \in SUBSET Nat /\ N # {}
  BY <1>1
<1>3. PICK n \in N : \A m \in N : n <= m
  BY <1>2, LeastNumber
<1>4. PICK T \in C : Cardinality(T) = n
  BY <1>3
<1>5. ASSUME NEW U \in C, U \subseteq T PROVE U = T
  <2>1. Cardinality(U) <= Cardinality(T) /\ (Cardinality(T) = Cardinality(U) => T = U)
    BY <1>1, <1>5, FS_Subset
  <2>2. Cardinality(T) <= Cardinality(U) /\ Cardinality(T) \in Nat /\ Cardinality(U) \in Nat
    BY <1>1, <1>3, <1>4
  <2> QED
    BY <2>1, <2>2
<1> QED
  BY <1>4, <1>5

\* Subsets of S of at most n elements
UpTo(S, n) == {s \in SUBSET S : Cardinality(s) <= n}

\* There is a table for the subsets of at most n elements, for every n
LEMMA TableUpTo ==
    ASSUME NEW S, IsFiniteSet(S), NEW g
    PROVE  \A n \in Nat : \E f : IsTable(f, g, UpTo(S, n))
<1> DEFINE Bad == {n \in Nat : ~ \E f : IsTable(f, g, UpTo(S, n))}
<1>1. \A s \in SUBSET S : IsFiniteSet(s) /\ Cardinality(s) \in Nat
  BY FS_Subset, FS_CardinalityType
<1>2. \A s \in SUBSET S : s # {} => /\ s \ {Pick(s)} \in SUBSET S
                                    /\ Cardinality(s \ {Pick(s)}) = Cardinality(s) - 1
  BY <1>1, PickIn, FS_RemoveElement
<1>3. 0 \notin Bad
  <2> DEFINE f == [s \in UpTo(S, 0) |-> 0]
  <2>1. \A s \in UpTo(S, 0) : s = {}
    BY <1>1, FS_EmptySet DEF UpTo
  <2>2. f = [s \in UpTo(S, 0) |-> FoldStep(f, g, s)]
    BY <2>1 DEF FoldStep
  <2>3. IsTable(f, g, UpTo(S, 0))
    BY <2>2 DEF IsTable
  <2> QED
    BY <2>3
<1>4. ASSUME NEW n \in Nat, n \notin Bad PROVE n + 1 \notin Bad
  <2>1. PICK e : IsTable(e, g, UpTo(S, n))
    BY <1>4
  <2> DEFINE f == [s \in UpTo(S, n + 1) |-> FoldStep(e, g, s)]
  <2>2. \A s \in UpTo(S, n + 1) : s # {} => s \ {Pick(s)} \in UpTo(S, n)
    BY <1>1, <1>2 DEF UpTo
  <2>3. UpTo(S, n) \subseteq UpTo(S, n + 1)
    BY <1>1 DEF UpTo
  <2>4. \A s \in UpTo(S, n) : e[s] = FoldStep(e, g, s)
    BY <2>1 DEF IsTable
  <2>5. \A s \in UpTo(S, n) : f[s] = e[s]
    BY <2>3, <2>4
  <2>6. \A s \in UpTo(S, n + 1) : FoldStep(f, g, s) = FoldStep(e, g, s)
    BY <2>2, <2>5 DEF FoldStep
  <2>7. IsTable(f, g, UpTo(S, n + 1))
    BY <2>6 DEF IsTable
  <2> QED
    BY <2>7
<1>5. Bad = {}
  <2> SUFFICES ASSUME Bad # {} PROVE FALSE
    OBVIOUS
  <2>1. PICK n \in Bad : \A m \in Bad : n <= m
    BY LeastNumber
  <2>2. n \in Nat \ {0} /\ n - 1 \in Nat /\ n - 1 \notin Bad
    BY <1>3, <2>1
  <2> QED
    BY <1>4, <2>1, <2>2
<1> QED
  BY <1>5

LEMMA TableExists ==
    ASSUME NEW S, IsFiniteSet(S), NEW g
    PROVE  \E f : IsTable(f, g, SUBSET S)
<1>1. Cardinality(S) \in Nat /\ UpTo(S, Cardinality(S)) = SUBSET S
  BY FS_Subset, FS_CardinalityType DEF UpTo
<1> QED
  BY <1>1, TableUpTo

\* A table is determined by the function on the set
LEMMA TableUnique ==
    ASSUME NEW S, IsFiniteSet(S), NEW g, NEW h, \A x \in S : g[x] = h[x],
           NEW D, SUBSET S \subseteq D, NEW e, IsTable(e, g, D),
           NEW E, SUBSET S \subseteq E, NEW f, IsTable(f, h, E)
    PROVE  \A s \in SUBSET S : e[s] = f[s]
<1> DEFINE Bad == {s \in SUBSET S : e[s] # f[s]}
<1> SUFFICES ASSUME Bad # {} PROVE FALSE
  OBVIOUS
<1>1. PICK T \in Bad : \A U \in Bad : U \subseteq T => U = T
  <2> HIDE DEF Bad
  <2>1. Bad \in SUBSET (SUBSET S)
    BY DEF Bad
  <2> QED
    BY <2>1, LeastSubset
<1>2. e[T] = FoldStep(e, g, T) /\ f[T] = FoldStep(f, h, T)
  BY <1>1 DEF IsTable
<1>3. T # {}
  BY <1>1, <1>2 DEF FoldStep
<1>4. Pick(T) \in T /\ g[Pick(T)] = h[Pick(T)]
  BY <1>1, <1>3, PickIn
<1>5. e[T \ {Pick(T)}] = f[T \ {Pick(T)}]
  BY <1>1, <1>4
<1> QED
  BY <1>1, <1>2, <1>3, <1>4, <1>5 DEF FoldStep

\* The sum is the entry of any table that covers the set
LEMMA SumFromTable ==
    ASSUME NEW S, IsFiniteSet(S), NEW g, NEW h, \A x \in S : g[x] = h[x],
           NEW D, SUBSET S \subseteq D, NEW f, IsTable(f, h, D)
    PROVE  SumFunctionOnSet(g, S) = f[S]
<1> DEFINE e == CHOOSE e : IsTable(e, g, SUBSET S)
<1>1. IsTable(e, g, SUBSET S)
  BY TableExists
<1>2. SumFunctionOnSet(g, S) = e[S]
  BY SumIsTable
<1> HIDE DEF e
<1>3. \A s \in SUBSET S : e[s] = f[s]
  BY <1>1, TableUnique
<1> QED
  BY <1>2, <1>3

\* Only the values on the set matter
LEMMA SumSame ==
    ASSUME NEW S, IsFiniteSet(S), NEW g, NEW h, \A x \in S : g[x] = h[x]
    PROVE  SumFunctionOnSet(g, S) = SumFunctionOnSet(h, S)
<1>1. PICK f : IsTable(f, h, SUBSET S)
  BY TableExists
<1>2. SumFunctionOnSet(g, S) = f[S] /\ SumFunctionOnSet(h, S) = f[S]
  BY <1>1, SumFromTable
<1> QED
  BY <1>2

LEMMA SumEmpty == ASSUME NEW g PROVE SumFunctionOnSet(g, {}) = 0
<1>1. IsFiniteSet({})
  BY FS_EmptySet
<1>2. PICK f : IsTable(f, g, SUBSET {})
  BY <1>1, TableExists
<1>3. SumFunctionOnSet(g, {}) = f[{}]
  BY <1>1, <1>2, SumFromTable
<1> QED
  BY <1>2, <1>3 DEF IsTable, FoldStep

\* One step of the fold
LEMMA SumPick ==
    ASSUME NEW S, IsFiniteSet(S), S # {}, NEW g
    PROVE  SumFunctionOnSet(g, S) = g[Pick(S)] + SumFunctionOnSet(g, S \ {Pick(S)})
<1>1. PICK f : IsTable(f, g, SUBSET S)
  BY TableExists
<1>2. IsFiniteSet(S \ {Pick(S)})
  BY FS_RemoveElement
<1>3. SumFunctionOnSet(g, S) = f[S] /\ SumFunctionOnSet(g, S \ {Pick(S)}) = f[S \ {Pick(S)}]
  BY <1>1, <1>2, SumFromTable
<1>4. f[S] = FoldStep(f, g, S)
  BY <1>1 DEF IsTable
<1> QED
  BY <1>3, <1>4 DEF FoldStep

\* Sums of integers are integers, and of natural numbers natural numbers
LEMMA SumType ==
    ASSUME NEW S, IsFiniteSet(S), NEW g, NEW V \in {Int, Nat}, \A x \in S : g[x] \in V
    PROVE  \A T \in SUBSET S : SumFunctionOnSet(g, T) \in V
<1> DEFINE Bad == {T \in SUBSET S : SumFunctionOnSet(g, T) \notin V}
<1> SUFFICES ASSUME Bad # {} PROVE FALSE
  OBVIOUS
<1>0. 0 \in V /\ \A a, b \in V : a + b \in V
  <2>1. CASE V = Int
    BY <2>1
  <2>2. CASE V = Nat
    BY <2>2
  <2> QED
    BY <2>1, <2>2
<1>1. PICK T \in Bad : \A U \in Bad : U \subseteq T => U = T
  <2> HIDE DEF Bad
  <2>1. Bad \in SUBSET (SUBSET S)
    BY DEF Bad
  <2> QED
    BY <2>1, LeastSubset
<1>2. T # {}
  BY <1>0, <1>1, SumEmpty
<1>3. IsFiniteSet(T) /\ Pick(T) \in T /\ g[Pick(T)] \in V
  BY <1>1, <1>2, FS_Subset, PickIn
<1>4. SumFunctionOnSet(g, T \ {Pick(T)}) \in V
  BY <1>1, <1>3
<1>5. SumFunctionOnSet(g, T) = g[Pick(T)] + SumFunctionOnSet(g, T \ {Pick(T)})
  BY <1>2, <1>3, SumPick
<1> QED
  BY <1>0, <1>1, <1>3, <1>4, <1>5

\* A sum of zeros
LEMMA SumZero ==
    ASSUME NEW S, IsFiniteSet(S), NEW g, \A x \in S : g[x] = 0
    PROVE  SumFunctionOnSet(g, S) = 0
<1> DEFINE Bad == {T \in SUBSET S : SumFunctionOnSet(g, T) # 0}
<1> SUFFICES ASSUME Bad # {} PROVE FALSE
  OBVIOUS
<1>1. PICK T \in Bad : \A U \in Bad : U \subseteq T => U = T
  <2> HIDE DEF Bad
  <2>1. Bad \in SUBSET (SUBSET S)
    BY DEF Bad
  <2> QED
    BY <2>1, LeastSubset
<1>2. T # {}
  BY <1>1, SumEmpty
<1>3. IsFiniteSet(T) /\ Pick(T) \in T /\ g[Pick(T)] = 0
  BY <1>1, <1>2, FS_Subset, PickIn
<1>4. SumFunctionOnSet(g, T \ {Pick(T)}) = 0
  BY <1>1, <1>3
<1>5. SumFunctionOnSet(g, T) = g[Pick(T)] + SumFunctionOnSet(g, T \ {Pick(T)})
  BY <1>2, <1>3, SumPick
<1> QED
  BY <1>1, <1>3, <1>4, <1>5

\* Any element may be taken out of a sum
LEMMA SumRemove ==
    ASSUME NEW S, IsFiniteSet(S), NEW g, \A x \in S : g[x] \in Int, NEW x \in S
    PROVE  SumFunctionOnSet(g, S) = g[x] + SumFunctionOnSet(g, S \ {x})
<1> DEFINE Splits(T, y) == SumFunctionOnSet(g, T) = g[y] + SumFunctionOnSet(g, T \ {y})
           Bad == {T \in SUBSET S : \E y \in T : ~Splits(T, y)}
<1> SUFFICES ASSUME Bad # {} PROVE FALSE
  OBVIOUS
<1>1. PICK T \in Bad : \A U \in Bad : U \subseteq T => U = T
  <2> HIDE DEF Bad
  <2>1. Bad \in SUBSET (SUBSET S)
    BY DEF Bad
  <2> QED
    BY <2>1, LeastSubset
<1>2. PICK y \in T : ~Splits(T, y)
  BY <1>1
<1> DEFINE p == Pick(T)
<1>3. T # {} /\ IsFiniteSet(T) /\ p \in T
  BY <1>1, <1>2, FS_Subset, PickIn
<1>4. Splits(T, p)
  BY <1>3, SumPick
<1>5. p # y
  BY <1>2, <1>4
<1> HIDE DEF p
<1>6. Splits(T \ {p}, y) /\ Splits(T \ {y}, p)
  <2>1. T \ {p} \notin Bad /\ T \ {y} \notin Bad
    BY <1>1, <1>2, <1>3
  <2>2. T \ {p} \in SUBSET S /\ T \ {y} \in SUBSET S /\ y \in T \ {p} /\ p \in T \ {y}
    BY <1>1, <1>2, <1>3, <1>5
  <2> QED
    BY <2>1, <2>2
<1>7. (T \ {p}) \ {y} = (T \ {y}) \ {p}
  OBVIOUS
<1>8. /\ g[p] \in Int /\ g[y] \in Int
      /\ SumFunctionOnSet(g, (T \ {y}) \ {p}) \in Int
  <2>1. (T \ {y}) \ {p} \in SUBSET S /\ p \in S /\ y \in S
    BY <1>1, <1>2, <1>3
  <2>2. \A U \in SUBSET S : SumFunctionOnSet(g, U) \in Int
    BY SumType
  <2> QED
    BY <2>1, <2>2
<1> DEFINE rest == SumFunctionOnSet(g, (T \ {y}) \ {p})
<1>9. SumFunctionOnSet(g, T \ {p}) = g[y] + rest /\ SumFunctionOnSet(g, T \ {y}) = g[p] + rest
  BY <1>6, <1>7
<1>10. rest \in Int
  BY <1>8
<1> HIDE DEF rest
<1>11. SumFunctionOnSet(g, T) = g[p] + (g[y] + rest)
  BY <1>4, <1>9
<1>12. SumFunctionOnSet(g, T) # g[y] + (g[p] + rest)
  BY <1>2, <1>9
<1> QED
  BY <1>8, <1>10, <1>11, <1>12

\* A new element adds its value
LEMMA SumInsert ==
    ASSUME NEW S, IsFiniteSet(S), NEW x, x \notin S,
           NEW g, \A y \in S \cup {x} : g[y] \in Int
    PROVE  SumFunctionOnSet(g, S \cup {x}) = g[x] + SumFunctionOnSet(g, S)
<1>1. IsFiniteSet(S \cup {x}) /\ (S \cup {x}) \ {x} = S /\ x \in S \cup {x}
  BY FS_AddElement
<1> QED
  BY <1>1, SumRemove

LEMMA SumSingleton ==
    ASSUME NEW g, NEW x, g[x] \in Int
    PROVE  SumFunctionOnSet(g, {x}) = g[x]
<1>1. IsFiniteSet({x}) /\ {x} \ {x} = {}
  BY FS_Singleton
<1>2. SumFunctionOnSet(g, {x}) = g[x] + SumFunctionOnSet(g, {})
  BY <1>1, SumRemove
<1> QED
  BY <1>2, SumEmpty

\* The sum of integers over a finite set is an integer, of naturals a natural
LEMMA SumInt ==
    ASSUME NEW S, IsFiniteSet(S), NEW g, \A x \in S : g[x] \in Int
    PROVE  SumFunctionOnSet(g, S) \in Int
  BY SumType

LEMMA SumNat ==
    ASSUME NEW S, IsFiniteSet(S), NEW g, \A x \in S : g[x] \in Nat
    PROVE  SumFunctionOnSet(g, S) \in Nat
  BY SumType

\* Two sets and their values that differ in the one element x at most
OneApart(S, g, T, h, x) ==
    /\ IsFiniteSet(S)
    /\ S \ {x} = T \ {x}
    /\ \A y \in S : g[y] \in Int
    /\ \A y \in T : h[y] \in Int
    /\ \A y \in S \ {x} : g[y] = h[y]

\* What x contributes to the sum of g over S
Share(x, g, S) == IF x \in S THEN g[x] ELSE 0

\* A sum over a set that loses, keeps or gains one element
LEMMA SumNext ==
    ASSUME NEW S, NEW g, NEW T, NEW h, NEW x, OneApart(S, g, T, h, x)
    PROVE  SumFunctionOnSet(h, T) = SumFunctionOnSet(g, S) - Share(x, g, S) + Share(x, h, T)
<1> USE DEF OneApart, Share
<1>1. IsFiniteSet(S \ {x}) /\ IsFiniteSet(T \ {x})
  BY FS_RemoveElement, FS_Subset
<1>2. IsFiniteSet(T)
  <2>1. T = T \ {x} \/ T = (T \ {x}) \cup {x}
    OBVIOUS
  <2>2. IsFiniteSet((T \ {x}) \cup {x})
    BY <1>1, FS_AddElement
  <2> QED
    BY <1>1, <2>1, <2>2
<1>3. SumFunctionOnSet(g, S) = SumFunctionOnSet(g, S \ {x}) + (IF x \in S THEN g[x] ELSE 0)
  <2>1. CASE x \in S
    BY <2>1, <1>1, SumRemove, SumInt
  <2>2. CASE x \notin S
    <3>1. S \ {x} = S
      BY <2>2
    <3>2. SumFunctionOnSet(g, S \ {x}) = SumFunctionOnSet(g, S)
      BY <3>1
    <3>3. SumFunctionOnSet(g, S) \in Int
      BY SumInt
    <3> QED
      BY <2>2, <3>2, <3>3
  <2> QED
    BY <2>1, <2>2
<1>4. SumFunctionOnSet(h, T) = SumFunctionOnSet(h, T \ {x}) + (IF x \in T THEN h[x] ELSE 0)
  <2>1. CASE x \in T
    BY <2>1, <1>1, <1>2, SumRemove, SumInt
  <2>2. CASE x \notin T
    <3>1. T \ {x} = T
      BY <2>2
    <3>2. SumFunctionOnSet(h, T \ {x}) = SumFunctionOnSet(h, T)
      BY <3>1
    <3>3. SumFunctionOnSet(h, T) \in Int
      BY <1>2, SumInt
    <3> QED
      BY <2>2, <3>2, <3>3
  <2> QED
    BY <2>1, <2>2
<1>5. SumFunctionOnSet(h, T \ {x}) = SumFunctionOnSet(g, S \ {x})
  BY <1>1, SumSame
<1>6. SumFunctionOnSet(g, S \ {x}) \in Int
  BY <1>1, SumInt
<1> QED
  BY <1>2, <1>3, <1>4, <1>5, <1>6

\* A sum of natural numbers over a part of the set is no larger
LEMMA SumPart ==
    ASSUME NEW S, IsFiniteSet(S), NEW g, \A x \in S : g[x] \in Nat, NEW T \in SUBSET S
    PROVE  SumFunctionOnSet(g, T) <= SumFunctionOnSet(g, S)
<1> DEFINE Bad == {U \in SUBSET S : T \subseteq U /\ ~(SumFunctionOnSet(g, T) <= SumFunctionOnSet(g, U))}
<1> SUFFICES ASSUME Bad # {} PROVE FALSE
  OBVIOUS
<1>0. \A U \in SUBSET S : IsFiniteSet(U) /\ SumFunctionOnSet(g, U) \in Nat
  BY FS_Subset, SumNat
<1>1. PICK U \in Bad : \A V \in Bad : V \subseteq U => V = U
  <2> HIDE DEF Bad
  <2>1. Bad \in SUBSET (SUBSET S)
    BY DEF Bad
  <2> QED
    BY <2>1, LeastSubset
<1>2. U # T
  BY <1>0, <1>1
<1>3. PICK x \in U : x \notin T
  BY <1>1, <1>2
<1>4. U \ {x} \in SUBSET S /\ T \subseteq U \ {x} /\ U \ {x} \notin Bad
  BY <1>1, <1>3
<1>5. SumFunctionOnSet(g, T) <= SumFunctionOnSet(g, U \ {x})
  BY <1>4
<1>6. SumFunctionOnSet(g, U) = g[x] + SumFunctionOnSet(g, U \ {x})
  <2>1. IsFiniteSet(U) /\ \A y \in U : g[y] \in Int
    BY <1>0, <1>1
  <2> QED
    BY <2>1, <1>3, SumRemove
<1>7. ~(SumFunctionOnSet(g, T) <= SumFunctionOnSet(g, U)) /\ g[x] \in Nat
  BY <1>1, <1>3
<1>8. SumFunctionOnSet(g, T) \in Nat /\ SumFunctionOnSet(g, U \ {x}) \in Nat
  BY <1>0, <1>4
<1> QED
  BY <1>5, <1>6, <1>7, <1>8
=============================================================================
