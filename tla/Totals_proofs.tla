---------------------------- MODULE Totals_proofs ----------------------------
(***************************************************************************)
(* What a sum over a finite set does, whatever is summed: the facts about  *)
(* Total that proofs about balances rest on.  The prover cannot take the   *)
(* library's induction over sets, so each fact is proved of a smallest     *)
(* subset on which it would fail.                                          *)
(***************************************************************************)
EXTENDS Totals, FiniteSetTheorems, WellFoundedInduction, TLAPS

(* Of subsets of a finite set, one that contains no other of them. *)
LEMMA SmallestSubset ==
  ASSUME NEW D, IsFiniteSet(D), NEW Bad, Bad \subseteq SUBSET D, Bad # {}
  PROVE  \E S \in Bad : \A T \in SUBSET S : T # S => T \notin Bad
  <1>1. IsWellFoundedOn(StrictSubsetOrdering(D), FiniteSubsetsOf(D))
    BY FS_StrictSubsetOrderingWellFounded
  <1>2. Bad \subseteq FiniteSubsetsOf(D)
    BY FS_Subset DEF FiniteSubsetsOf
  <1>3. PICK S \in Bad : \A T \in Bad : ~(<<T, S>> \in StrictSubsetOrdering(D))
    BY <1>1, <1>2, WFMin
  <1>4. ASSUME NEW T \in SUBSET S, T # S, T \in Bad PROVE FALSE
    <2>1. T \subseteq D /\ S \subseteq D
      BY <1>4
    <2>2. <<T, S>> \in StrictSubsetOrdering(D)
      BY <1>4, <2>1 DEF StrictSubsetOrdering
    <2>3. QED
      BY <1>3, <1>4, <2>2
  <1>5. QED
    BY <1>4

(* Of a set of naturals, the least. *)
LEMMA SmallestNumber ==
  ASSUME NEW Bad, Bad \subseteq Nat, Bad # {}
  PROVE  \E n \in Bad : \A m \in Bad : n <= m
  <1>1. PICK k \in Bad : TRUE
    OBVIOUS
  <1> DEFINE Below == {0..m : m \in {j \in Bad : j <= k}}
  <1>2. k \in Nat /\ IsFiniteSet(0..k)
    BY <1>1, FS_Interval
  <1>3. Below \subseteq SUBSET (0..k)
    BY <1>2
  <1>4. 0..k \in Below
    BY <1>1, <1>2
  <1>5. PICK S \in Below : \A T \in SUBSET S : T # S => T \notin Below
    <2> HIDE DEF Below
    <2>1. Below # {}
      BY <1>4
    <2>2. QED
      BY <1>2, <1>3, <2>1, SmallestSubset, Zenon
  <1>6. PICK n \in Bad : n <= k /\ S = 0..n
    BY <1>5 DEF Below
  <1>7. ASSUME NEW m \in Bad, ~(n <= m) PROVE FALSE
    <2>1. m \in Nat /\ n \in Nat /\ m < n /\ m <= k
      BY <1>2, <1>6, <1>7
    <2>2. 0..m \in Below
      BY <2>1 DEF Below
    <2>3. 0..m \subseteq 0..n /\ n \in 0..n /\ n \notin 0..m
      BY <2>1
    <2>4. QED
      BY <1>5, <1>6, <2>2, <2>3
  <1>8. QED
    BY <1>6, <1>7

------------------------------------------------------------------------------
(* A sum is what the recursion it is defined by says. *)

Pick(S) == CHOOSE x \in S : TRUE

\* g sums f over the subsets of D, element by element.
Adds(g, f, D) ==
  g = [S \in SUBSET D |-> IF S = {} THEN 0 ELSE f[Pick(S)] + g[S \ {Pick(S)}]]

AddsUpTo(g, f, D, n) ==
  g = [S \in {T \in SUBSET D : Cardinality(T) <= n} |->
         IF S = {} THEN 0 ELSE f[Pick(S)] + g[S \ {Pick(S)}]]

(* The element a sum takes next is one of the set. *)
LEMMA PickIn == ASSUME NEW S, S # {} PROVE Pick(S) \in S
  BY DEF Pick

(* The recursion has a solution on the subsets of each size. *)
LEMMA AddsUpToExists ==
  ASSUME NEW f, NEW D, IsFiniteSet(D), NEW n \in Nat
  PROVE  \E g : AddsUpTo(g, f, D, n)
  <1> DEFINE Bad == {k \in Nat : ~\E g : AddsUpTo(g, f, D, k)}
  <1>1. SUFFICES ASSUME Bad # {} PROVE FALSE
    OBVIOUS
  <1>2. PICK k \in Bad : \A m \in Bad : k <= m
    <2> HIDE DEF Bad
    <2>1. Bad \subseteq Nat
      BY DEF Bad
    <2>2. QED
      BY <1>1, <2>1, SmallestNumber, Zenon
  <1>3. k \in Nat /\ ~\E g : AddsUpTo(g, f, D, k)
    BY <1>2
  <1>4. \A S \in SUBSET D : IsFiniteSet(S) /\ Cardinality(S) \in Nat
    BY FS_Subset, FS_CardinalityType
  <1>5. \A S \in SUBSET D : S # {} =>
           /\ S \ {Pick(S)} \in SUBSET D
           /\ Cardinality(S \ {Pick(S)}) = Cardinality(S) - 1
    BY <1>4, PickIn, FS_RemoveElement
  <1>6. \A S \in SUBSET D : Cardinality(S) = 0 <=> S = {}
    BY <1>4, FS_EmptySet
  <1>7. CASE k = 0
    <2> DEFINE g == [S \in {T \in SUBSET D : Cardinality(T) <= 0} |-> 0]
    <2>1. \A S \in SUBSET D : Cardinality(S) <= 0 <=> S = {}
      BY <1>4, <1>6
    <2>2. AddsUpTo(g, f, D, 0)
      BY <2>1 DEF AddsUpTo
    <2>3. QED
      BY <1>3, <1>7, <2>2
  <1>8. CASE k # 0
    <2>1. k - 1 \in Nat /\ k - 1 \notin Bad
      BY <1>2, <1>3, <1>8
    <2>2. PICK g : AddsUpTo(g, f, D, k - 1)
      BY <2>1
    <2> DEFINE Upper == {T \in SUBSET D : Cardinality(T) <= k}
               Value(S) == IF S = {} THEN 0 ELSE f[Pick(S)] + g[S \ {Pick(S)}]
               h == [S \in Upper |-> Value(S)]
    <2>3. ASSUME NEW S \in SUBSET D, Cardinality(S) <= k - 1
          PROVE  g[S] = Value(S) /\ h[S] = Value(S)
      <3>1. g[S] = Value(S)
        BY <2>2, <2>3 DEF AddsUpTo
      <3>2. S \in Upper
        BY <1>3, <1>4, <2>3
      <3> HIDE DEF Value, Upper
      <3>3. QED
        BY <3>1, <3>2
    <2>4. ASSUME NEW S \in Upper, S # {}
          PROVE  h[S \ {Pick(S)}] = g[S \ {Pick(S)}]
      <3>1. S \ {Pick(S)} \in SUBSET D /\ Cardinality(S \ {Pick(S)}) <= k - 1
        BY <1>3, <1>4, <1>5, <2>4
      <3>2. QED
        BY <2>3, <3>1
    <2>5. h = [S \in Upper |-> IF S = {} THEN 0 ELSE f[Pick(S)] + h[S \ {Pick(S)}]]
      <3>1. \A S \in Upper : Value(S) = IF S = {} THEN 0 ELSE f[Pick(S)] + h[S \ {Pick(S)}]
        BY <2>4
      <3> HIDE DEF Value
      <3>2. QED
        BY <3>1
    <2>6. AddsUpTo(h, f, D, k)
      BY <2>5 DEF AddsUpTo
    <2>7. QED
      BY <1>3, <2>6
  <1>9. QED
    BY <1>7, <1>8

(* The sum of a function is what the recursion gives on its whole domain. *)
LEMMA TotalAdds ==
  ASSUME NEW f, IsFiniteSet(DOMAIN f)
  PROVE  \E g : Adds(g, f, DOMAIN f) /\ Total(f) = g[DOMAIN f]
  <1>1. Total(f) = (CHOOSE g : Adds(g, f, DOMAIN f))[DOMAIN f]
    BY DEF Total, FoldFunction, FoldFunctionOnSet, MapThenFoldSet, Adds, Pick
  <1>2. \E g : Adds(g, f, DOMAIN f)
    <2>1. Cardinality(DOMAIN f) \in Nat
      BY FS_CardinalityType
    <2>2. {T \in SUBSET DOMAIN f : Cardinality(T) <= Cardinality(DOMAIN f)} = SUBSET DOMAIN f
      BY FS_Subset
    <2>3. PICK g : AddsUpTo(g, f, DOMAIN f, Cardinality(DOMAIN f))
      BY <2>1, AddsUpToExists
    <2>4. Adds(g, f, DOMAIN f)
      BY <2>2, <2>3 DEF Adds, AddsUpTo
    <2>5. QED
      BY <2>4
  <1>3. QED
    BY <1>1, <1>2

(* Two functions that agree on a set add up to the same over it. *)
LEMMA AddsAgree ==
  ASSUME NEW f, NEW D, IsFiniteSet(D), NEW g, Adds(g, f, D),
         NEW e, NEW E, IsFiniteSet(E), NEW h, Adds(h, e, E),
         NEW S, S \subseteq D, S \subseteq E, \A x \in S : f[x] = e[x]
  PROVE  g[S] = h[S]
  <1> DEFINE Bad == {T \in SUBSET S : g[T] # h[T]}
  <1>1. SUFFICES ASSUME Bad # {} PROVE FALSE
    OBVIOUS
  <1>2. PICK T \in Bad : \A U \in SUBSET T : U # T => U \notin Bad
    <2>1. Bad \subseteq SUBSET S /\ IsFiniteSet(S)
      BY FS_Subset
    <2> HIDE DEF Bad
    <2>2. QED
      BY <1>1, <2>1, SmallestSubset, Zenon
  <1>3. T \in SUBSET S /\ T \in SUBSET D /\ T \in SUBSET E /\ g[T] # h[T]
    BY <1>2
  <1>4. CASE T = {}
    BY <1>3, <1>4 DEF Adds
  <1>5. CASE T # {}
    <2>1. Pick(T) \in T
      BY <1>5, PickIn
    <2>2. T \ {Pick(T)} \in SUBSET T /\ T \ {Pick(T)} # T
      BY <2>1
    <2>3. g[T \ {Pick(T)}] = h[T \ {Pick(T)}]
      BY <1>2, <1>3, <2>2
    <2>4. f[Pick(T)] = e[Pick(T)]
      BY <1>3, <2>1
    <2>5. g[T] = f[Pick(T)] + g[T \ {Pick(T)}] /\ h[T] = e[Pick(T)] + h[T \ {Pick(T)}]
      BY <1>3, <1>5 DEF Adds
    <2>6. QED
      BY <1>3, <2>3, <2>4, <2>5
  <1>6. QED
    BY <1>4, <1>5

(* Sums of whole numbers are whole numbers. *)
LEMMA AddsInt ==
  ASSUME NEW f, NEW D, IsFiniteSet(D), NEW g, Adds(g, f, D), \A x \in D : f[x] \in Int
  PROVE  \A S \in SUBSET D : g[S] \in Int
  <1> DEFINE Bad == {T \in SUBSET D : g[T] \notin Int}
  <1>1. SUFFICES ASSUME Bad # {} PROVE FALSE
    OBVIOUS
  <1>2. PICK T \in Bad : \A U \in SUBSET T : U # T => U \notin Bad
    <2>1. Bad \subseteq SUBSET D
      OBVIOUS
    <2> HIDE DEF Bad
    <2>2. QED
      BY <1>1, <2>1, SmallestSubset, Zenon
  <1>3. T \in SUBSET D /\ g[T] \notin Int
    BY <1>2
  <1>4. CASE T = {}
    BY <1>3, <1>4 DEF Adds
  <1>5. CASE T # {}
    <2>1. Pick(T) \in T
      BY <1>5, PickIn
    <2>2. T \ {Pick(T)} \in SUBSET T /\ T \ {Pick(T)} # T
      BY <2>1
    <2>3. g[T \ {Pick(T)}] \in Int /\ f[Pick(T)] \in Int
      BY <1>2, <1>3, <2>1, <2>2
    <2>4. g[T] = f[Pick(T)] + g[T \ {Pick(T)}]
      BY <1>3, <1>5 DEF Adds
    <2>5. QED
      BY <1>3, <2>3, <2>4
  <1>6. QED
    BY <1>4, <1>5

(* Any element may be taken out first. *)
LEMMA AddsAny ==
  ASSUME NEW f, NEW D, IsFiniteSet(D), NEW g, Adds(g, f, D), \A x \in D : f[x] \in Int
  PROVE  \A S \in SUBSET D : \A x \in S : g[S] = f[x] + g[S \ {x}]
  <1> DEFINE Bad == {T \in SUBSET D : \E x \in T : g[T] # f[x] + g[T \ {x}]}
  <1>1. SUFFICES ASSUME Bad # {} PROVE FALSE
    OBVIOUS
  <1>2. PICK T \in Bad : \A U \in SUBSET T : U # T => U \notin Bad
    <2>1. Bad \subseteq SUBSET D
      OBVIOUS
    <2> HIDE DEF Bad
    <2>2. QED
      BY <1>1, <2>1, SmallestSubset, Zenon
  <1>3. PICK x \in T : g[T] # f[x] + g[T \ {x}]
    BY <1>2
  <1> DEFINE p == Pick(T)
  <1>4. T \in SUBSET D /\ T # {} /\ p \in T /\ g[T] = f[p] + g[T \ {p}]
    BY <1>2, <1>3, PickIn DEF Adds
  <1> HIDE DEF p
  <1>5. x # p
    BY <1>3, <1>4
  <1>6. T \ {p} \in SUBSET T /\ T \ {p} # T /\ x \in T \ {p} /\ T \ {p} \in SUBSET D
    BY <1>3, <1>4, <1>5
  <1>7. T \ {x} \in SUBSET T /\ T \ {x} # T /\ p \in T \ {x} /\ T \ {x} \in SUBSET D
    BY <1>3, <1>4, <1>5
  <1>8. g[T \ {p}] = f[x] + g[(T \ {p}) \ {x}]
    BY <1>2, <1>6
  <1>9. g[T \ {x}] = f[p] + g[(T \ {x}) \ {p}]
    BY <1>2, <1>7
  <1>10. (T \ {p}) \ {x} = (T \ {x}) \ {p} /\ (T \ {p}) \ {x} \in SUBSET D
    BY <1>4
  <1> DEFINE a == g[(T \ {p}) \ {x}]
  <1>11. f[x] \in Int /\ f[p] \in Int /\ a \in Int
    BY <1>3, <1>4, <1>10, AddsInt
  <1>12. g[(T \ {x}) \ {p}] = a
    BY <1>10
  <1> HIDE DEF a
  <1>13. g[T] = f[p] + (f[x] + a)
    BY <1>4, <1>8 DEF a
  <1>14. g[T \ {x}] = f[p] + a
    BY <1>9, <1>12
  <1>15. f[p] + (f[x] + a) = f[x] + (f[p] + a)
    BY <1>11
  <1>16. QED
    BY <1>3, <1>13, <1>14, <1>15

------------------------------------------------------------------------------
(* What the other proofs use. *)

(* Nothing sums to nothing. *)
LEMMA TotalEmpty ==
  ASSUME NEW f, DOMAIN f = {}
  PROVE  Total(f) = 0
  <1>1. IsFiniteSet(DOMAIN f)
    BY FS_EmptySet
  <1>2. PICK g : Adds(g, f, DOMAIN f) /\ Total(f) = g[DOMAIN f]
    BY <1>1, TotalAdds
  <1>3. QED
    BY <1>2 DEF Adds

(* The sum of a function depends on its values alone. *)
LEMMA TotalEqual ==
  ASSUME NEW f, NEW e, IsFiniteSet(DOMAIN f), DOMAIN e = DOMAIN f,
         \A x \in DOMAIN f : f[x] = e[x]
  PROVE  Total(f) = Total(e)
  <1>1. PICK g : Adds(g, f, DOMAIN f) /\ Total(f) = g[DOMAIN f]
    BY TotalAdds
  <1>2. PICK h : Adds(h, e, DOMAIN e) /\ Total(e) = h[DOMAIN e]
    BY TotalAdds
  <1>3. g[DOMAIN f] = h[DOMAIN f]
    BY <1>1, <1>2, AddsAgree
  <1>4. QED
    BY <1>1, <1>2, <1>3

(* A sum of whole numbers is one. *)
LEMMA TotalType ==
  ASSUME NEW S, IsFiniteSet(S), NEW f \in [S -> Int]
  PROVE  Total(f) \in Int
  <1>1. DOMAIN f = S
    OBVIOUS
  <1>2. PICK g : Adds(g, f, S) /\ Total(f) = g[S]
    BY <1>1, TotalAdds
  <1>3. QED
    BY <1>2, AddsInt

(* One term, and the sum of the others. *)
LEMMA TotalRemove ==
  ASSUME NEW S, IsFiniteSet(S), NEW f \in [S -> Int], NEW x \in S
  PROVE  Total(f) = f[x] + Total([y \in S \ {x} |-> f[y]])
  <1> DEFINE e == [y \in S \ {x} |-> f[y]]
  <1>1. DOMAIN f = S /\ DOMAIN e = S \ {x} /\ IsFiniteSet(S \ {x})
    BY FS_Subset
  <1>2. PICK g : Adds(g, f, S) /\ Total(f) = g[S]
    BY <1>1, TotalAdds
  <1>3. PICK h : Adds(h, e, S \ {x}) /\ Total(e) = h[S \ {x}]
    BY <1>1, TotalAdds
  <1>4. \A y \in S \ {x} : f[y] = e[y]
    OBVIOUS
  <1>5. g[S \ {x}] = h[S \ {x}]
    <2> HIDE DEF e
    <2>1. S \ {x} \subseteq S
      OBVIOUS
    <2>2. QED
      BY <1>1, <1>2, <1>3, <1>4, <2>1, AddsAgree
  <1>6. g[S] = f[x] + g[S \ {x}]
    BY <1>2, AddsAny
  <1>7. QED
    BY <1>2, <1>3, <1>5, <1>6

(* The same, for any function that is what is left. *)
LEMMA TotalTake ==
  ASSUME NEW f, NEW g, NEW x \in DOMAIN f, IsFiniteSet(DOMAIN f),
         \A y \in DOMAIN f : f[y] \in Int,
         DOMAIN g = DOMAIN f \ {x}, \A y \in DOMAIN g : g[y] = f[y]
  PROVE  Total(f) = f[x] + Total(g)
  <1>1. PICK s : Adds(s, f, DOMAIN f) /\ Total(f) = s[DOMAIN f]
    BY TotalAdds
  <1>2. IsFiniteSet(DOMAIN g)
    BY FS_Subset
  <1>3. PICK t : Adds(t, g, DOMAIN g) /\ Total(g) = t[DOMAIN g]
    BY <1>2, TotalAdds
  <1>4. s[DOMAIN g] = t[DOMAIN g]
    BY <1>1, <1>2, <1>3, AddsAgree
  <1>5. s[DOMAIN f] = f[x] + s[DOMAIN f \ {x}]
    <2>1. PICK D : D = DOMAIN f
      OBVIOUS
    <2>2. IsFiniteSet(D) /\ Adds(s, f, D) /\ (\A y \in D : f[y] \in Int) /\ D \in SUBSET D /\ x \in D
      BY <1>1, <2>1
    <2>3. s[D] = f[x] + s[D \ {x}]
      BY ONLY <2>2, AddsAny
    <2>4. QED
      BY <2>1, <2>3
  <1>6. QED
    BY <1>1, <1>3, <1>4, <1>5

(* What is zero outside a part sums to the sum over the part. *)
LEMMA TotalSupport ==
  ASSUME NEW S, IsFiniteSet(S), NEW f \in [S -> Int], NEW T, T \subseteq S,
         \A x \in S \ T : f[x] = 0
  PROVE  Total(f) = Total([x \in T |-> f[x]])
  <1> DEFINE Part(U) == Total([x \in U |-> f[x]])
             Bad == {U \in SUBSET S : T \subseteq U /\ Part(U) # Part(T)}
  <1>1. Part(S) = Total(f)
    BY TotalEqual
  <1>2. SUFFICES ASSUME Bad # {} PROVE FALSE
    BY <1>1
  <1>3. PICK U \in Bad : \A V \in SUBSET U : V # U => V \notin Bad
    <2>1. Bad \subseteq SUBSET S
      OBVIOUS
    <2> HIDE DEF Bad
    <2>2. QED
      BY <1>2, <2>1, SmallestSubset, Zenon
  <1>4. U \in SUBSET S /\ T \subseteq U /\ Part(U) # Part(T)
    BY <1>3
  <1>5. PICK x \in U : x \notin T
    BY <1>4
  <1>6. Part(U \ {x}) = Part(T)
    <2>1. U \ {x} \in SUBSET U /\ U \ {x} # U
      BY <1>5
    <2>2. U \ {x} \notin Bad
      BY <1>3, <2>1
    <2>3. U \ {x} \in SUBSET S /\ T \subseteq U \ {x}
      BY <1>4, <1>5
    <2>4. QED
      BY <2>2, <2>3
  <1> DEFINE g == [y \in U |-> f[y]]
             h == [y \in U \ {x} |-> g[y]]
  <1>7. /\ IsFiniteSet(U) /\ IsFiniteSet(U \ {x}) /\ g \in [U -> Int] /\ g[x] = 0
        /\ h = [y \in U \ {x} |-> f[y]] /\ h \in [U \ {x} -> Int]
    BY <1>4, <1>5, FS_Subset
  <1>8. Total(g) = g[x] + Total(h)
    <2> HIDE DEF g
    <2>1. QED
      BY <1>5, <1>7, TotalRemove
  <1>9. Total(h) \in Int
    <2> HIDE DEF h
    <2>1. QED
      BY <1>7, TotalType
  <1>10. Part(U) = Total(g) /\ Part(U \ {x}) = Total(h)
    BY <1>7
  <1> HIDE DEF g, h, Part
  <1>11. QED
    BY <1>4, <1>6, <1>7, <1>8, <1>9, <1>10

(* A sum of one thing. *)
LEMMA TotalOne ==
  ASSUME NEW S, IsFiniteSet(S), NEW f \in [S -> Int], NEW x \in S,
         \A y \in S \ {x} : f[y] = 0
  PROVE  Total(f) = f[x]
  <1> DEFINE e == [y \in S \ {x} |-> f[y]]
             z == [y \in {} |-> e[y]]
  <1>1. IsFiniteSet(S \ {x}) /\ e \in [S \ {x} -> Int] /\ DOMAIN z = {}
    BY FS_Subset
  <1>2. \A y \in (S \ {x}) \ {} : e[y] = 0
    OBVIOUS
  <1>3. Total(e) = Total(z)
    <2> HIDE DEF e
    <2>1. QED
      BY <1>1, <1>2, TotalSupport
  <1>4. Total(z) = 0
    <2> HIDE DEF z
    <2>1. QED
      BY <1>1, TotalEmpty
  <1>5. Total(f) = f[x] + Total(e)
    BY TotalRemove
  <1>6. f[x] \in Int
    OBVIOUS
  <1> HIDE DEF e, z
  <1>7. QED
    BY <1>3, <1>4, <1>5, <1>6

(* A sum of nothing but zeros. *)
LEMMA TotalZero ==
  ASSUME NEW S, IsFiniteSet(S), NEW f \in [S -> Int], \A x \in S : f[x] = 0
  PROVE  Total(f) = 0
  <1> DEFINE z == [y \in {} |-> f[y]]
  <1>1. Total(f) = Total(z)
    <2>1. {} \subseteq S /\ \A x \in S \ {} : f[x] = 0
      OBVIOUS
    <2>2. QED
      BY <2>1, TotalSupport
  <1>2. DOMAIN z = {}
    OBVIOUS
  <1>3. QED
    BY <1>1, <1>2, TotalEmpty

(* Sums add up term by term. *)
LEMMA TotalPlus ==
  ASSUME NEW S, IsFiniteSet(S), NEW f \in [S -> Int], NEW g \in [S -> Int]
  PROVE  Total([x \in S |-> f[x] + g[x]]) = Total(f) + Total(g)
  <1> DEFINE Part(U, e) == Total([x \in U |-> e[x]])
             s == [x \in S |-> f[x] + g[x]]
             Bad == {U \in SUBSET S : Part(U, s) # Part(U, f) + Part(U, g)}
  <1>1. Part(S, f) = Total(f) /\ Part(S, g) = Total(g) /\ Part(S, s) = Total(s)
    BY TotalEqual
  <1>2. SUFFICES ASSUME Bad # {} PROVE FALSE
    BY <1>1
  <1>3. PICK U \in Bad : \A V \in SUBSET U : V # U => V \notin Bad
    <2>1. Bad \subseteq SUBSET S
      OBVIOUS
    <2> HIDE DEF Bad
    <2>2. QED
      BY <1>2, <2>1, SmallestSubset, Zenon
  <1>4. U \in SUBSET S /\ Part(U, s) # Part(U, f) + Part(U, g)
    BY <1>3
  <1>5. IsFiniteSet(U)
    BY <1>4, FS_Subset
  <1>6. s \in [S -> Int] /\ \A x \in S : s[x] = f[x] + g[x]
    OBVIOUS
  <1> HIDE DEF s
  <1>7. CASE U = {}
    <2>1. \A e : DOMAIN [x \in U |-> e[x]] = {}
      BY <1>7
    <2>2. \A e : Part(U, e) = 0
      BY <2>1, TotalEmpty
    <2> HIDE DEF Part
    <2>3. QED
      BY <1>4, <2>2
  <1>8. CASE U # {}
    <2>1. PICK x \in U : x \in U
      BY <1>8
    <2>2. U \ {x} \in SUBSET S /\ IsFiniteSet(U \ {x}) /\ x \in S
      BY <1>4, <1>5, FS_Subset
    <2>3. Part(U \ {x}, s) = Part(U \ {x}, f) + Part(U \ {x}, g)
      <3>1. U \ {x} \in SUBSET U /\ U \ {x} # U
        OBVIOUS
      <3>2. QED
        BY <1>3, <2>2, <3>1
    <2>4. ASSUME NEW e \in [S -> Int]
          PROVE  Part(U, e) = e[x] + Part(U \ {x}, e) /\ Part(U \ {x}, e) \in Int
      <3> DEFINE r == [y \in U |-> e[y]]
                 q == [y \in U \ {x} |-> r[y]]
      <3>1. r \in [U -> Int] /\ r[x] = e[x] /\ q \in [U \ {x} -> Int]
            /\ q = [y \in U \ {x} |-> e[y]]
        BY <1>4, <2>1
      <3>2. Total(r) = r[x] + Total(q)
        <4>1. /\ DOMAIN r = U /\ DOMAIN q = DOMAIN r \ {x} /\ x \in DOMAIN r
              /\ \A y \in DOMAIN q : q[y] = r[y]
          BY <2>1
        <4>2. IsFiniteSet(DOMAIN r) /\ \A y \in DOMAIN r : r[y] \in Int
          BY <1>5, <3>1
        <4> HIDE DEF r, q
        <4>3. QED
          BY <4>1, <4>2, TotalTake
      <3>3. Total(q) \in Int
        <4> HIDE DEF q
        <4>1. QED
          BY <2>2, <3>1, TotalType
      <3>4. QED
        BY <3>1, <3>2, <3>3
    <2>5. s[x] = f[x] + g[x] /\ f[x] \in Int /\ g[x] \in Int
      BY <1>6, <2>2
    <2>6. /\ Part(U, s) = s[x] + Part(U \ {x}, s)
          /\ Part(U, f) = f[x] + Part(U \ {x}, f) /\ Part(U \ {x}, f) \in Int
          /\ Part(U, g) = g[x] + Part(U \ {x}, g) /\ Part(U \ {x}, g) \in Int
      BY <1>6, <2>4
    <2> HIDE DEF Part
    <2>7. Part(U, s) = Part(U, f) + Part(U, g)
      BY <2>3, <2>5, <2>6
    <2>8. QED
      BY <1>4, <2>7
  <1>9. QED
    BY <1>7, <1>8

(* Nothing, negated, is nothing. *)
LEMMA NoneNegated == \A n \in Int : n = 0 => -n = 0
  <1>1. \A n \in Int : n + n = n => -n = 0
    OBVIOUS
  <1>2. SUFFICES ASSUME NEW n \in Int, n = 0 PROVE -n = 0
    OBVIOUS
  <1>3. n + n = n
    BY <1>2
  <1>4. QED
    BY ONLY <1>1, <1>3, n \in Int

(* The sum of what is negated. *)
LEMMA TotalMinus ==
  ASSUME NEW S, IsFiniteSet(S), NEW f \in [S -> Int]
  PROVE  Total([x \in S |-> -f[x]]) = -Total(f)
  <1> DEFINE m == [x \in S |-> -f[x]]
             z == [x \in S |-> f[x] + m[x]]
  <1>1. m \in [S -> Int] /\ z \in [S -> Int] /\ \A x \in S : z[x] = 0
    OBVIOUS
  <1>2. Total(z) = Total(f) + Total(m)
    <2> HIDE DEF m
    <2>1. QED
      BY <1>1, TotalPlus
  <1>3. Total(z) = 0
    <2> HIDE DEF z
    <2>1. QED
      BY <1>1, TotalZero
  <1>4. Total(f) \in Int /\ Total(m) \in Int
    <2> HIDE DEF m
    <2>1. QED
      BY <1>1, TotalType
  <1> HIDE DEF m, z
  <1>5. Total(m) = -Total(f)
    BY <1>2, <1>3, <1>4
  <1>6. QED
    BY <1>5 DEF m

(* A sum does not depend on what its terms are indexed by. *)
LEMMA TotalReindex ==
  ASSUME NEW S, IsFiniteSet(S), NEW f \in [S -> Int],
         NEW T, IsFiniteSet(T), NEW b \in [T -> S],
         \A x, y \in T : b[x] = b[y] => x = y, \A s \in S : \E x \in T : b[x] = s
  PROVE  Total([x \in T |-> f[b[x]]]) = Total(f)
  <1> DEFINE Image(U) == {b[x] : x \in U}
             Over(U) == Total([x \in U |-> f[b[x]]])
             Under(U) == Total([s \in Image(U) |-> f[s]])
             Bad == {U \in SUBSET T : Over(U) # Under(U)}
  <1>1. Under(T) = Total(f)
    <2>1. Image(T) = S
      OBVIOUS
    <2>2. QED
      BY <2>1, TotalEqual
  <1>2. SUFFICES ASSUME Bad # {} PROVE FALSE
    BY <1>1
  <1>3. PICK U \in Bad : \A V \in SUBSET U : V # U => V \notin Bad
    <2>1. Bad \subseteq SUBSET T
      OBVIOUS
    <2> HIDE DEF Bad
    <2>2. QED
      BY <1>2, <2>1, SmallestSubset, Zenon
  <1>4. U \in SUBSET T /\ Over(U) # Under(U)
    BY <1>3
  <1>5. IsFiniteSet(U) /\ Image(U) \subseteq S /\ IsFiniteSet(Image(U))
    BY <1>4, FS_Subset
  <1>6. CASE U = {}
    <2>1. Over(U) = 0 /\ Under(U) = 0
      <3>1. DOMAIN [x \in U |-> f[b[x]]] = {} /\ DOMAIN [s \in Image(U) |-> f[s]] = {}
        BY <1>6
      <3>2. QED
        BY <3>1, TotalEmpty
    <2> HIDE DEF Over, Under
    <2>2. QED
      BY <1>4, <2>1
  <1>7. CASE U # {}
    <2>1. PICK x \in U : x \in U
      BY <1>7
    <2>2. /\ U \ {x} \in SUBSET T /\ IsFiniteSet(U \ {x}) /\ x \in T /\ b[x] \in Image(U)
          /\ Image(U) \ {b[x]} = Image(U \ {x}) /\ IsFiniteSet(Image(U \ {x}))
          /\ Image(U \ {x}) \subseteq S
      <3>1. Image(U) \ {b[x]} = Image(U \ {x})
        BY <1>4, <2>1
      <3>2. U \ {x} \in SUBSET T /\ IsFiniteSet(U \ {x}) /\ x \in T /\ b[x] \in Image(U)
        BY <1>4, <1>5, <2>1, FS_Subset
      <3>3. IsFiniteSet(Image(U) \ {b[x]}) /\ Image(U) \ {b[x]} \subseteq S
        <4> HIDE DEF Image
        <4>1. QED
          BY <1>5, FS_Subset
      <3> HIDE DEF Image
      <3>4. QED
        BY <3>1, <3>2, <3>3
    <2>3. Over(U \ {x}) = Under(U \ {x})
      <3>1. U \ {x} \in SUBSET U /\ U \ {x} # U
        OBVIOUS
      <3>2. QED
        BY <1>3, <2>2, <3>1
    <2>4. Over(U) = f[b[x]] + Over(U \ {x})
      <3> DEFINE r == [y \in U |-> f[b[y]]]
                 q == [y \in U \ {x} |-> r[y]]
      <3>1. r \in [U -> Int] /\ r[x] = f[b[x]] /\ q = [y \in U \ {x} |-> f[b[y]]]
        BY <1>4, <2>1
      <3>2. Total(r) = r[x] + Total(q)
        <4>1. /\ DOMAIN r = U /\ DOMAIN q = DOMAIN r \ {x} /\ x \in DOMAIN r
              /\ \A y \in DOMAIN q : q[y] = r[y]
          BY <2>1
        <4>2. IsFiniteSet(DOMAIN r) /\ \A y \in DOMAIN r : r[y] \in Int
          BY <1>5, <3>1
        <4> HIDE DEF r, q
        <4>3. QED
          BY <4>1, <4>2, TotalTake
      <3>3. QED
        BY <3>1, <3>2
    <2>5. Under(U) = f[b[x]] + Under(U \ {x})
      <3> DEFINE r == [s \in Image(U) |-> f[s]]
                 q == [s \in Image(U) \ {b[x]} |-> r[s]]
      <3>1. r \in [Image(U) -> Int] /\ r[b[x]] = f[b[x]]
            /\ q = [s \in Image(U) \ {b[x]} |-> f[s]]
        <4> HIDE DEF Image
        <4>1. QED
          BY <1>5, <2>2
      <3>2. Total(r) = r[b[x]] + Total(q)
        <4> HIDE DEF Image
        <4>1. /\ DOMAIN r = Image(U) /\ DOMAIN q = DOMAIN r \ {b[x]} /\ b[x] \in DOMAIN r
              /\ \A y \in DOMAIN q : q[y] = r[y]
          BY <2>2
        <4>2. IsFiniteSet(DOMAIN r) /\ \A y \in DOMAIN r : r[y] \in Int
          BY <1>5, <3>1
        <4> HIDE DEF r, q
        <4>3. QED
          BY <4>1, <4>2, TotalTake
      <3>3. q = [s \in Image(U \ {x}) |-> f[s]]
        <4> HIDE DEF Image
        <4>1. QED
          BY <2>2, <3>1
      <3>4. QED
        BY <3>1, <3>2, <3>3
    <2> HIDE DEF Over, Under
    <2>6. QED
      BY <1>4, <2>3, <2>4, <2>5
  <1>8. QED
    BY <1>6, <1>7

(* A sum in two parts. *)
LEMMA TotalSplit ==
  ASSUME NEW S, IsFiniteSet(S), NEW f \in [S -> Int], NEW A, NEW B,
         A \cup B = S, A \cap B = {}
  PROVE  Total(f) = Total([x \in A |-> f[x]]) + Total([x \in B |-> f[x]])
  <1> DEFINE fa == [x \in S |-> IF x \in A THEN f[x] ELSE 0]
             fb == [x \in S |-> IF x \in B THEN f[x] ELSE 0]
             s == [x \in S |-> fa[x] + fb[x]]
  <1>1. fa \in [S -> Int] /\ fb \in [S -> Int] /\ A \subseteq S /\ B \subseteq S
    OBVIOUS
  <1>2. Total(s) = Total(fa) + Total(fb)
    <2> HIDE DEF fa, fb
    <2>1. QED
      BY <1>1, TotalPlus
  <1>3. \A x \in S : s[x] = f[x]
    OBVIOUS
  <1>4. Total(f) = Total(s)
    <2>1. DOMAIN f = S /\ DOMAIN s = S
      OBVIOUS
    <2> HIDE DEF s
    <2>2. QED
      BY <1>3, <2>1, TotalEqual
  <1>5. Total(fa) = Total([x \in A |-> f[x]])
    <2>1. (\A x \in S \ A : fa[x] = 0) /\ [x \in A |-> fa[x]] = [x \in A |-> f[x]]
      BY <1>1
    <2> HIDE DEF fa
    <2>2. QED
      BY <1>1, <2>1, TotalSupport
  <1>6. Total(fb) = Total([x \in B |-> f[x]])
    <2>1. (\A x \in S \ B : fb[x] = 0) /\ [x \in B |-> fb[x]] = [x \in B |-> f[x]]
      BY <1>1
    <2> HIDE DEF fb
    <2>2. QED
      BY <1>1, <2>1, TotalSupport
  <1>7. QED
    BY <1>2, <1>4, <1>5, <1>6

(* The sum over two parts of a function's domain, each a function of its own. *)
LEMMA TotalOfTwo ==
  ASSUME NEW f, IsFiniteSet(DOMAIN f), \A x \in DOMAIN f : f[x] \in Int,
         NEW g, NEW h, DOMAIN g \cup DOMAIN h = DOMAIN f, DOMAIN g \cap DOMAIN h = {},
         \A x \in DOMAIN g : g[x] = f[x], \A x \in DOMAIN h : h[x] = f[x]
  PROVE  Total(f) = Total(g) + Total(h)
  <1> DEFINE e == [x \in DOMAIN f |-> f[x]]
             eg == [x \in DOMAIN g |-> e[x]]
             eh == [x \in DOMAIN h |-> e[x]]
  <1>1. /\ e \in [DOMAIN f -> Int] /\ DOMAIN e = DOMAIN f /\ \A x \in DOMAIN f : f[x] = e[x]
        /\ DOMAIN eg = DOMAIN g /\ \A x \in DOMAIN g : g[x] = eg[x]
        /\ DOMAIN eh = DOMAIN h /\ \A x \in DOMAIN h : h[x] = eh[x]
        /\ IsFiniteSet(DOMAIN g) /\ IsFiniteSet(DOMAIN h)
    BY FS_Subset
  <1>2. Total(e) = Total(eg) + Total(eh)
    <2> HIDE DEF e
    <2>1. e \in [DOMAIN f -> Int]
      BY <1>1
    <2>2. QED
      BY <2>1, TotalSplit
  <1> HIDE DEF e, eg, eh
  <1>3. Total(f) = Total(e) /\ Total(g) = Total(eg) /\ Total(h) = Total(eh)
    BY <1>1, TotalEqual
  <1>4. QED
    BY <1>2, <1>3

(* The sum does not depend on what the summands are indexed by. *)
LEMMA TotalRenamed ==
  ASSUME NEW f, IsFiniteSet(DOMAIN f), \A x \in DOMAIN f : f[x] \in Int,
         NEW g, IsFiniteSet(DOMAIN g), NEW b,
         \A x \in DOMAIN g : b[x] \in DOMAIN f /\ g[x] = f[b[x]],
         \A x, y \in DOMAIN g : b[x] = b[y] => x = y,
         \A s \in DOMAIN f : \E x \in DOMAIN g : b[x] = s
  PROVE  Total(g) = Total(f)
  <1> DEFINE e == [x \in DOMAIN f |-> f[x]]
             c == [x \in DOMAIN g |-> b[x]]
             ec == [x \in DOMAIN g |-> e[c[x]]]
  <1>1. /\ e \in [DOMAIN f -> Int] /\ DOMAIN e = DOMAIN f /\ \A x \in DOMAIN f : f[x] = e[x]
        /\ c \in [DOMAIN g -> DOMAIN f]
        /\ \A x, y \in DOMAIN g : c[x] = c[y] => x = y
        /\ \A s \in DOMAIN f : \E x \in DOMAIN g : c[x] = s
        /\ DOMAIN ec = DOMAIN g /\ \A x \in DOMAIN g : g[x] = ec[x]
    OBVIOUS
  <1>2. Total(ec) = Total(e)
    <2>1. PICK S, T : S = DOMAIN f /\ T = DOMAIN g
      OBVIOUS
    <2>2. PICK u, v : u = e /\ v = c
      OBVIOUS
    <2>3. /\ IsFiniteSet(S) /\ IsFiniteSet(T) /\ u \in [S -> Int] /\ v \in [T -> S]
          /\ \A x, y \in T : v[x] = v[y] => x = y
          /\ \A s \in S : \E x \in T : v[x] = s
      BY <1>1, <2>1, <2>2
    <2>4. Total([x \in T |-> u[v[x]]]) = Total(u)
      BY ONLY <2>3, TotalReindex
    <2>5. QED
      BY <2>1, <2>2, <2>4
  <1> HIDE DEF e, c, ec
  <1>3. Total(f) = Total(e) /\ Total(g) = Total(ec)
    BY <1>1, TotalEqual
  <1>4. QED
    BY <1>2, <1>3

(* The sum of whole numbers, whatever they are indexed by, is one. *)
LEMMA TotalInt ==
  ASSUME NEW f, IsFiniteSet(DOMAIN f), \A x \in DOMAIN f : f[x] \in Int
  PROVE  Total(f) \in Int
  <1>1. PICK g : Adds(g, f, DOMAIN f) /\ Total(f) = g[DOMAIN f]
    BY TotalAdds
  <1>2. QED
    BY <1>1, AddsInt

(* The sum once one of its terms has changed. *)
LEMMA TotalChanged ==
  ASSUME NEW f, NEW g, NEW x \in DOMAIN f, IsFiniteSet(DOMAIN f), DOMAIN g = DOMAIN f,
         \A y \in DOMAIN f : f[y] \in Int, g[x] \in Int,
         \A y \in DOMAIN f : y # x => g[y] = f[y]
  PROVE  Total(g) = Total(f) - f[x] + g[x]
  <1> DEFINE r == [y \in DOMAIN f \ {x} |-> f[y]]
  <1>1. /\ DOMAIN r = DOMAIN f \ {x} /\ DOMAIN r = DOMAIN g \ {x}
        /\ \A y \in DOMAIN r : r[y] = f[y] /\ r[y] = g[y]
        /\ \A y \in DOMAIN g : g[y] \in Int
        /\ \A y \in DOMAIN r : r[y] \in Int
    OBVIOUS
  <1>2. IsFiniteSet(DOMAIN r)
    <2> HIDE DEF r
    <2>1. QED
      BY <1>1, FS_Subset
  <1> HIDE DEF r
  <1>3. Total(f) = f[x] + Total(r) /\ Total(g) = g[x] + Total(r)
    BY <1>1, TotalTake
  <1>4. Total(r) \in Int /\ f[x] \in Int /\ g[x] \in Int
    BY <1>1, <1>2, TotalInt
  <1>5. QED
    BY <1>3, <1>4

(* Sums of functions on one domain add up term by term. *)
LEMMA TotalSum ==
  ASSUME NEW f, NEW g, NEW h, IsFiniteSet(DOMAIN h), DOMAIN f = DOMAIN h, DOMAIN g = DOMAIN h,
         \A x \in DOMAIN h : f[x] \in Int /\ g[x] \in Int /\ h[x] = f[x] + g[x]
  PROVE  Total(h) = Total(f) + Total(g)
  <1> DEFINE u == [x \in DOMAIN h |-> f[x]]
             v == [x \in DOMAIN h |-> g[x]]
             w == [x \in DOMAIN h |-> u[x] + v[x]]
  <1>1. /\ u \in [DOMAIN h -> Int] /\ v \in [DOMAIN h -> Int]
        /\ DOMAIN u = DOMAIN h /\ DOMAIN v = DOMAIN h /\ DOMAIN w = DOMAIN h
        /\ \A x \in DOMAIN h : f[x] = u[x] /\ g[x] = v[x] /\ h[x] = w[x]
    OBVIOUS
  <1>2. Total(w) = Total(u) + Total(v)
    <2> HIDE DEF u, v
    <2>1. QED
      BY <1>1, TotalPlus
  <1> HIDE DEF u, v, w
  <1>3. Total(f) = Total(u) /\ Total(g) = Total(v) /\ Total(h) = Total(w)
    BY <1>1, TotalEqual
  <1>4. QED
    BY <1>2, <1>3

(* Of terms none of which is negative, none is more than their sum. *)
LEMMA TotalBounds ==
  ASSUME NEW f, IsFiniteSet(DOMAIN f), \A x \in DOMAIN f : f[x] \in Nat
  PROVE  Total(f) \in Nat /\ \A x \in DOMAIN f : f[x] <= Total(f)
  <1> DEFINE Part(U) == Total([x \in U |-> f[x]])
             Bad == {U \in SUBSET DOMAIN f : Part(U) \notin Nat}
  <1>1. Bad = {}
    <2>1. SUFFICES ASSUME Bad # {} PROVE FALSE
      OBVIOUS
    <2>2. PICK U \in Bad : \A V \in SUBSET U : V # U => V \notin Bad
      <3>1. Bad \subseteq SUBSET DOMAIN f
        OBVIOUS
      <3> HIDE DEF Bad
      <3>2. QED
        BY <2>1, <3>1, SmallestSubset, Zenon
    <2>3. CASE U = {}
      <3>1. Part({}) = 0
        BY TotalEmpty
      <3>2. QED
        BY <2>2, <2>3, <3>1
    <2>4. CASE U # {}
      <3>1. PICK x \in U : TRUE
        BY <2>4
      <3>2. Part(U \ {x}) \in Nat
        BY <2>2, <3>1
      <3>3. IsFiniteSet(U) /\ U \subseteq DOMAIN f
        BY <2>2, FS_Subset
      <3> DEFINE u == [y \in U |-> f[y]]
                 v == [y \in U \ {x} |-> f[y]]
      <3>4. Total(u) = u[x] + Total(v)
        <4>1. /\ DOMAIN u = U /\ DOMAIN v = DOMAIN u \ {x} /\ x \in DOMAIN u
              /\ \A y \in DOMAIN v : v[y] = u[y]
              /\ \A y \in DOMAIN u : u[y] \in Int
          BY <3>1, <3>3
        <4> HIDE DEF u, v
        <4>2. QED
          BY <3>3, <4>1, TotalTake
      <3>5. u[x] \in Nat
        BY <3>1, <3>3
      <3>6. Part(U) \in Nat
        <4>1. Total(v) \in Nat
          BY <3>2
        <4> HIDE DEF u, v
        <4>2. Total(u) \in Nat
          BY <3>4, <3>5, <4>1
        <4>3. QED
          BY <4>2 DEF u
      <3>7. QED
        BY <2>2, <3>6
    <2>5. QED
      BY <2>3, <2>4
  <1>2. \A U \in SUBSET DOMAIN f : Part(U) \in Nat
    BY <1>1
  <1>3. Total(f) = Part(DOMAIN f)
    BY TotalEqual
  <1>4. ASSUME NEW x \in DOMAIN f PROVE f[x] <= Total(f)
    <2> DEFINE v == [y \in DOMAIN f \ {x} |-> f[y]]
    <2>1. DOMAIN v = DOMAIN f \ {x} /\ \A y \in DOMAIN v : v[y] = f[y]
      OBVIOUS
    <2>2. Total(v) \in Nat
      BY <1>2
    <2>3. Total(f) = f[x] + Total(v)
      <3> HIDE DEF v
      <3>1. QED
        BY <2>1, TotalTake
    <2> HIDE DEF v
    <2>4. QED
      BY <2>2, <2>3
  <1>5. QED
    BY <1>2, <1>3, <1>4

\* What the elements of S with one key add up to.
OfKey(f, key, S, k) == Total([x \in {y \in S : key[y] = k} |-> f[x]])

(* A sum is the sum, over the keys, of what has each key. *)
LEMMA TotalGrouped ==
  ASSUME NEW D, IsFiniteSet(D), NEW f, NEW K, IsFiniteSet(K), NEW key,
         \A x \in D : f[x] \in Int /\ key[x] \in K,
         NEW whole, DOMAIN whole = D, \A x \in D : whole[x] = f[x],
         NEW parts, DOMAIN parts = K, \A k \in K : parts[k] = OfKey(f, key, D, k)
  PROVE  Total(parts) = Total(whole)
  <1> DEFINE All(S) == Total([x \in S |-> f[x]])
             By(S) == Total([k \in K |-> OfKey(f, key, S, k)])
             Bad == {S \in SUBSET D : By(S) # All(S)}
  <1>1. SUFFICES ASSUME Bad # {} PROVE FALSE
    <2>1. D \notin Bad => By(D) = All(D)
      OBVIOUS
    <2>2. PICK g, h : g = [x \in D |-> f[x]] /\ h = [k \in K |-> OfKey(f, key, D, k)]
      OBVIOUS
    <2>3. Total(whole) = Total(g) /\ Total(parts) = Total(h)
      <3>1. /\ IsFiniteSet(DOMAIN whole) /\ DOMAIN g = DOMAIN whole /\ \A x \in DOMAIN whole : whole[x] = g[x]
            /\ IsFiniteSet(DOMAIN parts) /\ DOMAIN h = DOMAIN parts /\ \A x \in DOMAIN parts : parts[x] = h[x]
        BY <2>2
      <3>2. QED
        BY ONLY <3>1, TotalEqual
    <2>4. By(D) = Total(h) /\ All(D) = Total(g)
      BY <2>2
    <2> HIDE DEF Bad
    <2>5. Bad = {} => By(D) = All(D)
      BY <2>1
    <2>6. QED
      BY <2>3, <2>4, <2>5
  <1>2. PICK S \in Bad : \A T \in SUBSET S : T # S => T \notin Bad
    <2> HIDE DEF Bad
    <2>1. Bad \subseteq SUBSET D /\ IsFiniteSet(D)
      BY DEF Bad
    <2>2. QED
      BY ONLY <1>1, <2>1, SmallestSubset, Zenon
  <1>3. S \in SUBSET D /\ By(S) # All(S) /\ IsFiniteSet(S)
    BY <1>2, FS_Subset
  <1>4. ASSUME NEW T \in SUBSET D, NEW k \in K
        PROVE  OfKey(f, key, T, k) \in Int /\ IsFiniteSet({y \in T : key[y] = k})
    <2>1. PICK g : g = [x \in {y \in T : key[y] = k} |-> f[x]]
      OBVIOUS
    <2>2. {y \in T : key[y] = k} \in SUBSET D
      OBVIOUS
    <2>3. IsFiniteSet(DOMAIN g) /\ \A x \in DOMAIN g : g[x] \in Int
      BY <2>1, <2>2, FS_Subset
    <2>4. QED
      BY <2>1, <2>3, TotalInt DEF OfKey
  <1>5. S # {}
    <2>1. SUFFICES ASSUME S = {} PROVE FALSE
      OBVIOUS
    <2>2. All(S) = 0
      BY <2>1, TotalEmpty
    <2>3. ASSUME NEW k \in K PROVE OfKey(f, key, S, k) = 0
      BY <2>1, TotalEmpty DEF OfKey
    <2>4. PICK g : g = [k \in K |-> OfKey(f, key, S, k)]
      OBVIOUS
    <2>5. g \in [K -> Int] /\ \A k \in K : g[k] = 0
      BY <2>3, <2>4
    <2>6. Total(g) = 0
      BY <2>5, TotalZero
    <2>7. QED
      BY <1>3, <2>2, <2>4, <2>6
  <1>6. PICK x \in S : TRUE
    BY <1>5
  <1>7. PICK T \in SUBSET D : T = S \ {x}
    <2>1. S \ {x} \in SUBSET D
      BY <1>3
    <2>2. QED
      BY <2>1
  <1>8. By(T) = All(T)
    BY <1>2, <1>6, <1>7
  <1>9. All(S) = f[x] + All(T)
    <2>1. PICK g, h : g = [y \in S |-> f[y]] /\ h = [y \in T |-> f[y]]
      OBVIOUS
    <2>2. /\ x \in DOMAIN g /\ IsFiniteSet(DOMAIN g) /\ \A y \in DOMAIN g : g[y] \in Int
          /\ DOMAIN h = DOMAIN g \ {x} /\ \A y \in DOMAIN h : h[y] = g[y]
          /\ g[x] = f[x]
      BY <1>3, <1>6, <1>7, <2>1
    <2>3. Total(g) = g[x] + Total(h)
      BY <2>2, TotalTake
    <2>4. QED
      BY <2>1, <2>2, <2>3
  <1>10. By(S) = f[x] + By(T)
    <2>1. PICK k : k = key[x] /\ k \in K
      BY <1>3, <1>6
    <2>2. OfKey(f, key, S, k) = f[x] + OfKey(f, key, T, k)
      <3>1. PICK g, h : /\ g = [y \in {z \in S : key[z] = k} |-> f[y]]
                        /\ h = [y \in {z \in T : key[z] = k} |-> f[y]]
        OBVIOUS
      <3>2. /\ x \in DOMAIN g /\ IsFiniteSet(DOMAIN g) /\ \A y \in DOMAIN g : g[y] \in Int
            /\ DOMAIN h = DOMAIN g \ {x} /\ \A y \in DOMAIN h : h[y] = g[y]
            /\ g[x] = f[x]
        BY <1>3, <1>4, <1>6, <1>7, <2>1, <3>1
      <3>3. Total(g) = g[x] + Total(h)
        BY <3>2, TotalTake
      <3>4. QED
        BY <3>1, <3>2, <3>3 DEF OfKey
    <2>3. ASSUME NEW j \in K, j # k PROVE OfKey(f, key, S, j) = OfKey(f, key, T, j)
      <3>1. {z \in S : key[z] = j} = {z \in T : key[z] = j}
        BY <1>7, <2>1, <2>3
      <3>2. QED
        BY <3>1 DEF OfKey
    <2>4. PICK g, h : g = [j \in K |-> OfKey(f, key, T, j)] /\ h = [j \in K |-> OfKey(f, key, S, j)]
      OBVIOUS
    <2>5. /\ k \in DOMAIN g /\ IsFiniteSet(DOMAIN g) /\ DOMAIN h = DOMAIN g
          /\ \A j \in DOMAIN g : g[j] \in Int
          /\ h[k] \in Int
          /\ \A j \in DOMAIN g : j # k => h[j] = g[j]
          /\ h[k] = f[x] + g[k]
      BY <1>3, <1>4, <1>7, <2>1, <2>2, <2>3, <2>4
    <2>6. Total(h) = Total(g) - g[k] + h[k] /\ Total(g) \in Int
      BY <2>5, TotalChanged, TotalInt
    <2>7. f[x] \in Int
      BY <1>3, <1>6
    <2>8. QED
      BY <2>4, <2>5, <2>6, <2>7
  <1>11. QED
    BY <1>3, <1>8, <1>9, <1>10

(* A table adds up to the same by rows and by columns. *)
LEMMA TotalSwap ==
  ASSUME NEW A, IsFiniteSet(A), NEW B, IsFiniteSet(B), NEW f,
         \A a \in A, b \in B : f[a][b] \in Int,
         NEW rows, DOMAIN rows = A, \A a \in A : rows[a] = Total([b \in B |-> f[a][b]]),
         NEW columns, DOMAIN columns = B, \A b \in B : columns[b] = Total([a \in A |-> f[a][b]])
  PROVE  Total(rows) = Total(columns)
  <1> DEFINE Row(a) == Total([b \in B |-> f[a][b]])
             Column(S, b) == Total([a \in S |-> f[a][b]])
             Rows(S) == Total([a \in S |-> Row(a)])
             Columns(S) == Total([b \in B |-> Column(S, b)])
             Bad == {S \in SUBSET A : Rows(S) # Columns(S)}
  <1>1. SUFFICES ASSUME Bad # {} PROVE FALSE
    <2>1. A \notin Bad => Rows(A) = Columns(A)
      OBVIOUS
    <2>2. PICK g, h : g = [a \in A |-> Row(a)] /\ h = [b \in B |-> Column(A, b)]
      OBVIOUS
    <2>3. Total(rows) = Total(g) /\ Total(columns) = Total(h)
      <3>1. /\ IsFiniteSet(DOMAIN rows) /\ DOMAIN g = DOMAIN rows /\ \A x \in DOMAIN rows : rows[x] = g[x]
            /\ IsFiniteSet(DOMAIN columns) /\ DOMAIN h = DOMAIN columns /\ \A x \in DOMAIN columns : columns[x] = h[x]
        BY <2>2
      <3>2. QED
        BY ONLY <3>1, TotalEqual
    <2>4. Rows(A) = Total(g) /\ Columns(A) = Total(h)
      BY <2>2
    <2> HIDE DEF Bad
    <2>5. Bad = {} => Rows(A) = Columns(A)
      BY <2>1
    <2>6. QED
      BY <2>3, <2>4, <2>5
  <1>2. PICK S \in Bad : \A T \in SUBSET S : T # S => T \notin Bad
    <2> HIDE DEF Bad
    <2>1. Bad \subseteq SUBSET A
      BY DEF Bad
    <2>2. QED
      BY <1>1, <2>1, SmallestSubset, Zenon
  <1>3. S \in SUBSET A /\ Rows(S) # Columns(S) /\ IsFiniteSet(S)
    BY <1>2, FS_Subset
  <1>4. ASSUME NEW a \in A PROVE Row(a) \in Int
    <2>1. PICK g : g = [b \in B |-> f[a][b]]
      OBVIOUS
    <2>2. IsFiniteSet(DOMAIN g) /\ \A b \in DOMAIN g : g[b] \in Int
      BY <2>1
    <2>3. QED
      BY <2>1, <2>2, TotalInt
  <1>5. ASSUME NEW T \in SUBSET A, NEW b \in B PROVE Column(T, b) \in Int
    <2>1. PICK g : g = [a \in T |-> f[a][b]]
      OBVIOUS
    <2>2. IsFiniteSet(DOMAIN g) /\ \A a \in DOMAIN g : g[a] \in Int
      BY <2>1, FS_Subset
    <2>3. QED
      BY <2>1, <2>2, TotalInt
  <1>6. S # {}
    <2>1. SUFFICES ASSUME S = {} PROVE FALSE
      OBVIOUS
    <2>2. Rows(S) = 0 /\ \A b \in B : Column(S, b) = 0
      BY <2>1, TotalEmpty
    <2> HIDE DEF Column
    <2>3. PICK g : g = [b \in B |-> Column(S, b)]
      OBVIOUS
    <2>4. g \in [B -> Int] /\ \A b \in B : g[b] = 0
      BY <2>2, <2>3
    <2>5. Total(g) = 0
      BY <2>4, TotalZero
    <2>6. QED
      BY <1>3, <2>2, <2>3, <2>5
  <1>7. PICK x \in S : TRUE
    BY <1>6
  <1>8. PICK T \in SUBSET A : T = S \ {x}
    BY <1>3
  <1>9. Rows(T) = Columns(T)
    BY <1>2, <1>7, <1>8
  <1>10. Rows(S) = Row(x) + Rows(T)
    <2> HIDE DEF Row
    <2>1. PICK g, h : g = [a \in S |-> Row(a)] /\ h = [a \in T |-> Row(a)]
      OBVIOUS
    <2>2. /\ x \in DOMAIN g /\ IsFiniteSet(DOMAIN g) /\ \A a \in DOMAIN g : g[a] \in Int
          /\ DOMAIN h = DOMAIN g \ {x} /\ \A a \in DOMAIN h : h[a] = g[a]
          /\ g[x] = Row(x)
      BY <1>3, <1>4, <1>7, <1>8, <2>1
    <2>3. QED
      BY <2>1, <2>2, TotalTake
  <1>11. \A b \in B : Column(S, b) = f[x][b] + Column(T, b)
    <2> SUFFICES ASSUME NEW b \in B PROVE Column(S, b) = f[x][b] + Column(T, b)
      OBVIOUS
    <2>1. PICK g, h : g = [a \in S |-> f[a][b]] /\ h = [a \in T |-> f[a][b]]
      OBVIOUS
    <2>2. /\ x \in DOMAIN g /\ IsFiniteSet(DOMAIN g) /\ \A a \in DOMAIN g : g[a] \in Int
          /\ DOMAIN h = DOMAIN g \ {x} /\ \A a \in DOMAIN h : h[a] = g[a]
          /\ g[x] = f[x][b]
      BY <1>3, <1>7, <1>8, <2>1
    <2>3. Total(g) = g[x] + Total(h)
      BY <2>2, TotalTake
    <2>4. QED
      BY <2>1, <2>2, <2>3
  <1>12. Columns(S) = Row(x) + Columns(T)
    <2>1. PICK g, h, k : /\ g = [b \in B |-> f[x][b]]
                         /\ h = [b \in B |-> Column(T, b)]
                         /\ k = [b \in B |-> Column(S, b)]
      OBVIOUS
    <2>2. x \in A
      BY <1>3, <1>7
    <2>3. /\ IsFiniteSet(DOMAIN k) /\ DOMAIN g = DOMAIN k /\ DOMAIN h = DOMAIN k
          /\ \A b \in DOMAIN k : g[b] \in Int /\ h[b] \in Int /\ k[b] = g[b] + h[b]
      BY <1>5, <1>11, <2>1, <2>2
    <2>4. Total(k) = Total(g) + Total(h)
      BY <2>3, TotalSum
    <2>5. QED
      BY <2>1, <2>4
  <1>13. QED
    BY <1>3, <1>9, <1>10, <1>12

=============================================================================
