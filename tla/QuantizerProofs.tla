-------------------------- MODULE QuantizerProofs --------------------------
(***************************************************************************)
(* Proofs about the product quantizer: the parallel clustering is k-means, *)
(* no step of it moves vectors further from their centroids, and codes and *)
(* tables agree with the vectors they stand for.                           *)
(***************************************************************************)
EXTENDS Quantizer, FiniteSetTheorems, WellFoundedInduction, TLAPS

-----------------------------------------------------------------------------
(* Induction over numbers and finite sets, for sets instead of predicates. *)

\* A set of numbers that has 0 and the successors of its members has all.
LEMMA NumberInduction ==
    ASSUME NEW Good \in SUBSET Nat, 0 \in Good, \A n \in Good : n + 1 \in Good
    PROVE  Good = Nat
<1>. DEFINE Bad == Nat \ Good
<1>. SUFFICES ASSUME Bad # {} PROVE FALSE
  OBVIOUS
<1>1. PICK m \in Bad : \A k \in Bad : <<k, m>> \notin OpToRel(<, Nat)
  <2>1. Bad \in SUBSET Nat
    OBVIOUS
  <2>. HIDE DEF Bad
  <2>. QED BY <2>1, WFMin, NatLessThanWellFounded
<1>2. \A k \in Bad : ~(k < m)
  BY <1>1 DEF OpToRel
<1>3. m \in Nat /\ m # 0
  OBVIOUS
<1>4. m - 1 \in Nat /\ m - 1 < m
  BY <1>3
<1>5. m - 1 \in Good
  BY <1>2, <1>4
<1>6. (m - 1) + 1 = m
  BY <1>3
<1>. QED BY <1>5, <1>6

\* A property that each set has if its proper subsets do holds of all subsets.
LEMMA SetInduction ==
    ASSUME NEW S, IsFiniteSet(S), NEW Good,
           \A T \in SUBSET S : (\A U \in SUBSET T : U # T => U \in Good) => T \in Good
    PROVE  \A T \in SUBSET S : T \in Good
<1>. DEFINE Small == {n \in Nat : \A T \in SUBSET S : Cardinality(T) <= n => T \in Good}
<1>1. \A T \in SUBSET S : IsFiniteSet(T) /\ Cardinality(T) \in Nat
  BY FS_Subset, FS_CardinalityType
<1>2. \A T \in SUBSET S : \A U \in SUBSET T : U # T => Cardinality(U) < Cardinality(T)
  <2>. SUFFICES ASSUME NEW T \in SUBSET S, NEW U \in SUBSET T, U # T PROVE Cardinality(U) < Cardinality(T)
    OBVIOUS
  <2>1. Cardinality(U) <= Cardinality(T) /\ Cardinality(U) # Cardinality(T) /\ U \in SUBSET S
    BY <1>1, FS_Subset
  <2>. QED BY <1>1, <2>1
<1>3. 0 \in Small
  <2>. SUFFICES ASSUME NEW T \in SUBSET S, Cardinality(T) <= 0 PROVE T \in Good
    OBVIOUS
  <2>1. \A U \in SUBSET T : ~(U # T)
    BY <1>1, <1>2
  <2>. QED BY <2>1
<1>4. ASSUME NEW n \in Small PROVE n + 1 \in Small
  <2>. SUFFICES ASSUME NEW T \in SUBSET S, Cardinality(T) <= n + 1 PROVE T \in Good
    OBVIOUS
  <2>1. \A U \in SUBSET T : U # T => U \in Good
    BY <1>1, <1>2
  <2>. QED BY <2>1
<1>5. Small = Nat
  <2>1. Small \in SUBSET Nat
    OBVIOUS
  <2>. HIDE DEF Small
  <2>. QED BY <1>3, <1>4, <2>1, NumberInduction
<1>6. Cardinality(S) \in Small
  BY <1>1, <1>5
<1>7. \A T \in SUBSET S : Cardinality(T) <= Cardinality(S)
  BY FS_Subset
<1>. QED BY <1>6, <1>7

\* A property that an element added to a set preserves.
LEMMA AddInduction ==
    ASSUME NEW S, IsFiniteSet(S), NEW Good, {} \in Good,
           \A T \in SUBSET S, x \in S : T \in Good /\ x \notin T => T \cup {x} \in Good
    PROVE  S \in Good
<1>1. ASSUME NEW T \in SUBSET S, \A U \in SUBSET T : U # T => U \in Good
      PROVE  T \in Good
  <2>1. CASE T = {}
    BY <2>1
  <2>2. CASE T # {}
    <3>1. PICK x \in T : TRUE
      BY <2>2
    <3>2. T \ {x} \in Good /\ T \ {x} \in SUBSET S /\ x \in S /\ x \notin T \ {x}
      BY <1>1
    <3>3. (T \ {x}) \cup {x} = T
      OBVIOUS
    <3>4. (T \ {x}) \cup {x} \in Good
      BY <3>2
    <3>. QED BY <3>3, <3>4
  <2>. QED BY <2>1, <2>2
<1>. QED BY <1>1, SetInduction

-----------------------------------------------------------------------------
(* Sums. *)

\* The sums of the subsets of S, as MapThenFoldSet computes them.
Summed(f, S, g) ==
    g = [s \in SUBSET S |->
            IF s = {} THEN 0 ELSE f[CHOOSE x \in s : TRUE] + g[s \ {CHOOSE x \in s : TRUE}]]

\* There are such sums.
LEMMA SumsExist ==
    ASSUME NEW S, IsFiniteSet(S), NEW f
    PROVE  \E g : Summed(f, S, g)
<1>. DEFINE Upto(n) == {s \in SUBSET S : Cardinality(s) <= n}
            Sums(n, g) == g = [s \in Upto(n) |->
                IF s = {} THEN 0 ELSE f[CHOOSE x \in s : TRUE] + g[s \ {CHOOSE x \in s : TRUE}]]
            Good == {n \in Nat : \E g : Sums(n, g)}
<1>1. \A s \in SUBSET S : IsFiniteSet(s) /\ Cardinality(s) \in Nat /\ Cardinality(s) <= Cardinality(S)
  BY FS_Subset, FS_CardinalityType
<1>2. 0 \in Good
  <2>. DEFINE g == [s \in Upto(0) |-> 0]
  <2>1. \A s \in Upto(0) : s = {}
    BY <1>1, FS_EmptySet
  <2>2. Sums(0, g)
    BY <2>1
  <2>. QED BY <2>2
<1>3. ASSUME NEW n \in Good PROVE n + 1 \in Good
  <2>1. PICK g : Sums(n, g)
    OBVIOUS
  <2>. DEFINE h == [s \in Upto(n + 1) |->
                IF s = {} THEN 0 ELSE f[CHOOSE x \in s : TRUE] + g[s \ {CHOOSE x \in s : TRUE}]]
  <2>2. ASSUME NEW s \in Upto(n + 1), s # {}
        PROVE  s \ {CHOOSE x \in s : TRUE} \in Upto(n)
    <3>1. (CHOOSE x \in s : TRUE) \in s
      BY <2>2
    <3>2. Cardinality(s \ {CHOOSE x \in s : TRUE}) = Cardinality(s) - 1
      BY <1>1, <3>1, FS_RemoveElement
    <3>. QED BY <1>1, <3>2
  <2>3. ASSUME NEW s \in Upto(n) PROVE s \in Upto(n + 1) /\ h[s] = g[s]
    <3>1. s \in Upto(n + 1)
      BY <1>1
    <3>2. g[s] = IF s = {} THEN 0 ELSE f[CHOOSE x \in s : TRUE] + g[s \ {CHOOSE x \in s : TRUE}]
      <4>. HIDE DEF Upto
      <4>. QED BY <2>1
    <3>. HIDE DEF Upto
    <3>. QED BY <3>1, <3>2
  <2>4. Sums(n + 1, h)
    <3>1. \A s \in Upto(n + 1) : s # {} => h[s \ {CHOOSE x \in s : TRUE}] = g[s \ {CHOOSE x \in s : TRUE}]
      <4>. HIDE DEF Upto, h
      <4>. QED BY <2>2, <2>3
    <3>2. \A s \in Upto(n + 1) :
              h[s] = IF s = {} THEN 0 ELSE f[CHOOSE x \in s : TRUE] + g[s \ {CHOOSE x \in s : TRUE}]
      <4>. HIDE DEF Upto
      <4>. QED OBVIOUS
    <3>3. h = [s \in Upto(n + 1) |-> h[s]]
      OBVIOUS
    <3>. HIDE DEF h, Upto
    <3>4. h = [s \in Upto(n + 1) |->
                 IF s = {} THEN 0 ELSE f[CHOOSE x \in s : TRUE] + h[s \ {CHOOSE x \in s : TRUE}]]
      BY <3>1, <3>2, <3>3
    <3>. QED BY <3>4
  <2>5. n + 1 \in Nat
    OBVIOUS
  <2>. HIDE DEF Sums, h
  <2>. QED BY <2>4, <2>5
<1>4. Good = Nat
  <2>1. Good \in SUBSET Nat
    OBVIOUS
  <2>. HIDE DEF Good
  <2>. QED BY <1>2, <1>3, <2>1, NumberInduction
<1>5. PICK g : Sums(Cardinality(S), g)
  <2>1. Cardinality(S) \in Good
    BY <1>1, <1>4
  <2>. HIDE DEF Sums
  <2>. QED BY <2>1
<1>6. Upto(Cardinality(S)) = SUBSET S
  BY <1>1
<1>. QED BY <1>5, <1>6 DEF Summed

AnyFirst(f, S, g) == \A s \in SUBSET S : g[s] \in Int /\ \A y \in s : g[s] = f[y] + g[s \ {y}]

\* Sums do not depend on the order: any element can come first.
LEMMA SumsInAnyOrder ==
    ASSUME NEW S, IsFiniteSet(S), NEW f \in [S -> Int], NEW g, Summed(f, S, g)
    PROVE  AnyFirst(f, S, g)
<1>. DEFINE Good == {T \in SUBSET S : g[T] \in Int /\ \A y \in T : g[T] = f[y] + g[T \ {y}]}
<1>0. g[{}] = 0 /\ \A T \in SUBSET S : T # {} =>
          g[T] = f[CHOOSE x \in T : TRUE] + g[T \ {CHOOSE x \in T : TRUE}]
  BY DEF Summed
<1>1. ASSUME NEW T \in SUBSET S, \A U \in SUBSET T : U # T => U \in Good
      PROVE  T \in Good
  <2>1. CASE T = {}
    BY <1>0, <2>1
  <2>2. CASE T # {}
    <3>1. PICK p \in T : g[T] = f[p] + g[T \ {p}]
      BY <1>0, <2>2
    <3>2. T \ {p} \in Good /\ f[p] \in Int
      BY <1>1
    <3>3. g[T] \in Int
      BY <3>1, <3>2
    <3>4. ASSUME NEW y \in T, y # p PROVE g[T] = f[y] + g[T \ {y}]
      <4>1. g[T \ {p}] = f[y] + g[(T \ {p}) \ {y}]
        BY <3>2, <3>4
      <4>2. T \ {y} \in Good /\ p \in T \ {y} /\ f[y] \in Int
        BY <1>1, <3>4
      <4>3. g[T \ {y}] = f[p] + g[(T \ {y}) \ {p}]
        BY <4>2
      <4>4. (T \ {p}) \ {y} = (T \ {y}) \ {p}
        OBVIOUS
      <4>5. (T \ {p}) \ {y} \in Good
        BY <1>1
      <4>6. g[(T \ {p}) \ {y}] \in Int
        BY <4>5
      <4>. DEFINE a == g[(T \ {p}) \ {y}]
      <4>. HIDE DEF a, Good
      <4>7. g[T] = f[p] + (f[y] + a) /\ g[T \ {y}] = f[p] + a
        BY <3>1, <4>1, <4>3, <4>4 DEF a
      <4>. QED BY <3>2, <4>2, <4>6, <4>7 DEF a
    <3>. QED BY <3>1, <3>3, <3>4
  <2>. QED BY <2>1, <2>2
<1>2. \A s \in SUBSET S : s \in Good
  <2>. HIDE DEF Good
  <2>. QED BY <1>1, SetInduction
<1>. QED BY <1>2 DEF AnyFirst

\* There is one way to sum.
LEMMA SumsAgree ==
    ASSUME NEW S, IsFiniteSet(S), NEW f, NEW g, Summed(f, S, g), NEW h, Summed(f, S, h)
    PROVE  g[S] = h[S]
<1>. DEFINE Good == {T \in SUBSET S : g[T] = h[T]}
<1>0. /\ g[{}] = 0 /\ \A T \in SUBSET S : T # {} =>
             g[T] = f[CHOOSE x \in T : TRUE] + g[T \ {CHOOSE x \in T : TRUE}]
      /\ h[{}] = 0 /\ \A T \in SUBSET S : T # {} =>
             h[T] = f[CHOOSE x \in T : TRUE] + h[T \ {CHOOSE x \in T : TRUE}]
  BY DEF Summed
<1>1. ASSUME NEW T \in SUBSET S, \A U \in SUBSET T : U # T => U \in Good
      PROVE  T \in Good
  <2>1. CASE T = {}
    BY <1>0, <2>1
  <2>2. CASE T # {}
    <3>. DEFINE p == CHOOSE x \in T : TRUE
    <3>1. g[T] = f[p] + g[T \ {p}] /\ h[T] = f[p] + h[T \ {p}] /\ p \in T
      BY <1>0, <2>2
    <3>. HIDE DEF p
    <3>2. T \ {p} \in Good
      BY <1>1, <3>1
    <3>. QED BY <3>1, <3>2
  <2>. QED BY <2>1, <2>2
<1>2. S \in Good
  <2>. HIDE DEF Good
  <2>. QED BY <1>1, SetInduction
<1>. QED BY <1>2

\* A total is what any such table says of the whole set.
LEMMA TotalIsSum ==
    ASSUME NEW S, IsFiniteSet(S), NEW f, DOMAIN f = S, NEW g, Summed(f, S, g)
    PROVE  Total(f) = g[S]
<1>. DEFINE h == CHOOSE h : Summed(f, S, h)
<1>1. Summed(f, S, h)
  BY Zenon
<1>2. Total(f) = h[S]
  BY DEF Total, MapThenSumSet, MapThenFoldSet, Summed
<1>. HIDE DEF h
<1>. QED BY <1>1, <1>2, SumsAgree

\* The sum of nothing, and of one element more.
LEMMA TotalOfNone == Total([i \in {} |-> i]) = 0 /\ \A f : DOMAIN f = {} => Total(f) = 0
<1>1. ASSUME NEW f, DOMAIN f = {} PROVE Total(f) = 0
  <2>1. PICK g : Summed(f, {}, g)
    BY FS_EmptySet, SumsExist
  <2>2. g[{}] = 0
    BY <2>1 DEF Summed
  <2>. QED BY <1>1, <2>1, <2>2, FS_EmptySet, TotalIsSum
<1>. QED BY <1>1

\* Any element can be taken out of a sum.
LEMMA TotalTakesOut ==
    ASSUME NEW S, IsFiniteSet(S), NEW f \in [S -> Int], NEW x \in S
    PROVE  Total(f) = f[x] + Total([i \in S \ {x} |-> f[i]])
<1>1. PICK g : Summed(f, S, g)
  BY SumsExist
<1>2. Total(f) = g[S] /\ g[S] = f[x] + g[S \ {x}]
  <2>1. Total(f) = g[S]
    BY <1>1, TotalIsSum
  <2>2. AnyFirst(f, S, g)
    BY <1>1, SumsInAnyOrder
  <2>3. S \in SUBSET S
    OBVIOUS
  <2>. QED BY <2>1, <2>2, <2>3 DEF AnyFirst
<1>. DEFINE T == S \ {x}
            h == [i \in T |-> f[i]]
<1>3. IsFiniteSet(T)
  BY FS_Subset
<1>. DEFINE k == [s \in SUBSET T |-> g[s]]
<1>4. Summed(h, T, k)
  <2>1. \A s \in SUBSET T : s \in SUBSET S
    OBVIOUS
  <2>2. \A s \in SUBSET T : s # {} => (CHOOSE y \in s : TRUE) \in s
    OBVIOUS
  <2>3. \A s \in SUBSET T : s # {} => h[CHOOSE y \in s : TRUE] = f[CHOOSE y \in s : TRUE]
                                      /\ s \ {CHOOSE y \in s : TRUE} \in SUBSET T
    BY <2>2
  <2>4. \A s \in SUBSET S : g[s] = IF s = {} THEN 0
                                   ELSE f[CHOOSE y \in s : TRUE] + g[s \ {CHOOSE y \in s : TRUE}]
    BY <1>1 DEF Summed
  <2>5. \A s \in SUBSET T : k[s] = g[s]
    OBVIOUS
  <2>6. k = [s \in SUBSET T |-> k[s]]
    OBVIOUS
  <2>. HIDE DEF h, k, T
  <2>7. \A s \in SUBSET T : k[s] = IF s = {} THEN 0
                                   ELSE h[CHOOSE y \in s : TRUE] + k[s \ {CHOOSE y \in s : TRUE}]
    BY <2>1, <2>3, <2>4, <2>5
  <2>. QED BY <2>6, <2>7 DEF Summed
<1>5. DOMAIN h = T /\ k[T] = g[T]
  OBVIOUS
<1>6. Total(h) = g[T]
  <2>. HIDE DEF h, k, T
  <2>. QED BY <1>3, <1>4, <1>5, TotalIsSum
<1>. QED BY <1>2, <1>6

\* A sum of numbers is a number.
LEMMA TotalIsNumber ==
    ASSUME NEW S, IsFiniteSet(S), NEW f \in [S -> Int]
    PROVE  Total(f) \in Int
<1>1. PICK g : Summed(f, S, g)
  BY SumsExist
<1>. QED BY <1>1, TotalIsSum, SumsInAnyOrder DEF AnyFirst

\* The sum of part of a function, and of the part with one element more.
Part(f, T) == [i \in T |-> f[i]]

\* What an element adds to the sum of a part that lacks it.
LEMMA PartGrows ==
    ASSUME NEW S, IsFiniteSet(S), NEW f \in [S -> Int], NEW T \in SUBSET S
    PROVE  /\ Total(Part(f, T)) \in Int
           /\ \A x \in S : x \notin T => Total(Part(f, T \cup {x})) = f[x] + Total(Part(f, T))
           /\ Total(Part(f, {})) = 0 /\ Part(f, S) = f
<1>1. Total(Part(f, T)) \in Int
  BY FS_Subset, TotalIsNumber DEF Part
<1>2. ASSUME NEW x \in S, x \notin T
      PROVE  Total(Part(f, T \cup {x})) = f[x] + Total(Part(f, T))
  <2>. DEFINE U == T \cup {x}
              h == Part(f, U)
  <2>1. U \in SUBSET S /\ IsFiniteSet(U) /\ x \in U
    BY FS_Subset
  <2>2. h \in [U -> Int] /\ h[x] = f[x]
    BY <2>1 DEF Part
  <2>3. Total(h) = h[x] + Total([i \in U \ {x} |-> h[i]])
    <3>. HIDE DEF h, U
    <3>. QED BY <2>1, <2>2, TotalTakesOut, ZenonT(60)
  <2>4. [i \in U \ {x} |-> h[i]] = Part(f, T)
    <3>1. U \ {x} = T
      BY <1>2
    <3>2. \A i \in T : h[i] = f[i]
      BY DEF Part
    <3>. QED BY <3>1, <3>2 DEF Part
  <2>. QED BY <2>2, <2>3, <2>4
<1>3. Total(Part(f, {})) = 0
  BY TotalOfNone DEF Part
<1>4. Part(f, S) = f
  BY DEF Part
<1>. QED BY <1>1, <1>2, <1>3, <1>4

\* Two functions that differ at one place.
LEMMA TotalChanges ==
    ASSUME NEW S, IsFiniteSet(S), NEW f \in [S -> Int], NEW h \in [S -> Int], NEW x \in S,
           \A y \in S : y # x => h[y] = f[y]
    PROVE  Total(h) = Total(f) - f[x] + h[x]
<1>1. [i \in S \ {x} |-> h[i]] = [i \in S \ {x} |-> f[i]]
  OBVIOUS
<1>. DEFINE r == [i \in S \ {x} |-> f[i]]
<1>2. r \in [S \ {x} -> Int] /\ IsFiniteSet(S \ {x})
  BY FS_Subset
<1>3. Total(r) \in Int
  <2>. HIDE DEF r
  <2>. QED BY <1>2, TotalIsNumber
<1>4. Total(f) = f[x] + Total(r) /\ Total(h) = h[x] + Total(r)
  BY <1>1, TotalTakesOut
<1>5. f[x] \in Int /\ h[x] \in Int
  OBVIOUS
<1>. HIDE DEF r
<1>. QED BY <1>3, <1>4, <1>5

\* A function that is nowhere larger has no larger sum.
LEMMA TotalAtMost ==
    ASSUME NEW S, IsFiniteSet(S), NEW f \in [S -> Int], NEW h \in [S -> Int],
           \A x \in S : f[x] <= h[x]
    PROVE  Total(f) <= Total(h)
<1>. DEFINE Good == {T \in SUBSET S : Total(Part(f, T)) <= Total(Part(h, T))}
<1>1. {} \in Good
  BY PartGrows
<1>2. ASSUME NEW T \in SUBSET S, NEW x \in S, T \in Good, x \notin T
      PROVE  T \cup {x} \in Good
  <2>1. /\ Total(Part(f, T)) \in Int /\ Total(Part(f, T \cup {x})) = f[x] + Total(Part(f, T))
        /\ Total(Part(h, T)) \in Int /\ Total(Part(h, T \cup {x})) = h[x] + Total(Part(h, T))
    BY <1>2, PartGrows
  <2>2. Total(Part(f, T)) <= Total(Part(h, T)) /\ f[x] <= h[x] /\ f[x] \in Int /\ h[x] \in Int
    BY <1>2
  <2>. QED BY <2>1, <2>2
<1>3. S \in Good
  <2>. HIDE DEF Good
  <2>. QED BY <1>1, <1>2, AddInduction
<1>. QED BY <1>3, PartGrows

\* The sum over a set is the sum over a part of it and over the rest.
LEMMA TotalSplits ==
    ASSUME NEW S, IsFiniteSet(S), NEW f \in [S -> Int], NEW T \in SUBSET S
    PROVE  Total(f) = Total(Part(f, T)) + Total(Part(f, S \ T))
<1>. DEFINE Good == {U \in SUBSET T : Total(f) = Total(Part(f, U)) + Total(Part(f, S \ U))}
<1>0. IsFiniteSet(T)
  BY FS_Subset
<1>1. {} \in Good
  <2>1. S \ {} = S /\ Part(f, S) = f /\ Total(Part(f, {})) = 0 /\ Total(f) \in Int
    BY PartGrows, TotalIsNumber
  <2>. QED BY <2>1
<1>2. ASSUME NEW U \in SUBSET T, NEW x \in T, U \in Good, x \notin U
      PROVE  U \cup {x} \in Good
  <2>. DEFINE R == S \ (U \cup {x})
  <2>1. S \ U = R \cup {x} /\ R \in SUBSET S /\ x \notin R /\ U \in SUBSET S /\ x \in S
    BY <1>2
  <2>2. /\ Total(Part(f, U)) \in Int /\ Total(Part(f, U \cup {x})) = f[x] + Total(Part(f, U))
        /\ Total(Part(f, R)) \in Int /\ Total(Part(f, R \cup {x})) = f[x] + Total(Part(f, R))
        /\ f[x] \in Int
    <3>. HIDE DEF R, Good
    <3>1. Total(Part(f, U)) \in Int /\ Total(Part(f, U \cup {x})) = f[x] + Total(Part(f, U))
      BY <1>2, <2>1, PartGrows
    <3>2. Total(Part(f, R)) \in Int /\ Total(Part(f, R \cup {x})) = f[x] + Total(Part(f, R))
      BY <2>1, PartGrows
    <3>3. f[x] \in Int
      BY <2>1
    <3>. QED BY <3>1, <3>2, <3>3
  <2>3. Total(f) = Total(Part(f, U)) + Total(Part(f, S \ U))
    BY <1>2
  <2>4. Total(f) = Total(Part(f, U \cup {x})) + Total(Part(f, R))
    <3>. HIDE DEF R, Good
    <3>1. Total(Part(f, S \ U)) = f[x] + Total(Part(f, R))
      BY <2>1, <2>2
    <3>. DEFINE a == Total(Part(f, U))
                b == Total(Part(f, R))
                u == Total(Part(f, U \cup {x}))
    <3>2. a \in Int /\ b \in Int /\ f[x] \in Int /\ u = f[x] + a /\ Total(f) = a + (f[x] + b)
      BY <2>2, <2>3, <3>1
    <3>. HIDE DEF a, b, u
    <3>3. Total(f) = u + b
      BY <3>2
    <3>. QED BY <3>3 DEF u, b
  <2>. QED BY <2>4
<1>3. T \in Good
  <2>. HIDE DEF Good
  <2>. QED BY <1>0, <1>1, <1>2, AddInduction
<1>. QED BY <1>3

\* The mean of numbers has the least sum of squares to them.
LEMMA MeanIsNearest ==
    ASSUME NEW S, IsFiniteSet(S), NEW x \in [S -> Int], NEW l \in Int, NEW m \in Int,
           Cardinality(S) * m = Total(x)
    PROVE  Total([i \in S |-> (x[i] - m) * (x[i] - m)]) <= Total([i \in S |-> (x[i] - l) * (x[i] - l)])
<1>. DEFINE A == [i \in S |-> (x[i] - m) * (x[i] - m)]
            B == [i \in S |-> (x[i] - l) * (x[i] - l)]
            Good == {T \in SUBSET S :
                        Total(Part(B, T)) = Total(Part(A, T))
                            + (m - l) * (2 * Total(Part(x, T)) - Cardinality(T) * (l + m))}
<1>1. A \in [S -> Int] /\ B \in [S -> Int]
  OBVIOUS
<1>2. {} \in Good
  <2>1. Total(Part(A, {})) = 0 /\ Total(Part(B, {})) = 0 /\ Total(Part(x, {})) = 0 /\ Cardinality({}) = 0
    <3>. HIDE DEF A, B
    <3>. QED BY <1>1, PartGrows, FS_EmptySet
  <2>2. 0 = 0 + (m - l) * (2 * 0 - 0 * (l + m))
    OBVIOUS
  <2>. HIDE DEF A, B
  <2>. QED BY <2>1, <2>2
<1>3. ASSUME NEW T \in SUBSET S, NEW y \in S, T \in Good, y \notin T
      PROVE  T \cup {y} \in Good
  <2>. DEFINE a == Total(Part(A, T))
              b == Total(Part(B, T))
              s == Total(Part(x, T))
              c == Cardinality(T)
  <2>1. b = a + (m - l) * (2 * s - c * (l + m))
    BY <1>3
  <2>2. a \in Int /\ b \in Int /\ s \in Int /\ c \in Nat /\ Cardinality(T \cup {y}) = c + 1
    <3>. HIDE DEF A, B
    <3>. QED BY <1>1, <1>3, PartGrows, FS_Subset, FS_CardinalityType, FS_AddElement
  <2>3. /\ Total(Part(A, T \cup {y})) = A[y] + a
        /\ Total(Part(B, T \cup {y})) = B[y] + b
        /\ Total(Part(x, T \cup {y})) = x[y] + s
    <3>. HIDE DEF A, B
    <3>. QED BY <1>1, <1>3, PartGrows
  <2>. DEFINE z == x[y]
  <2>4. A[y] = (z - m) * (z - m) /\ B[y] = (z - l) * (z - l) /\ z \in Int
    OBVIOUS
  <2>. HIDE DEF a, b, s, c, z, A, B
  <2>5. (z - l) * (z - l) = (z - m) * (z - m) + (m - l) * (2 * z - (l + m))
    BY <2>4
  <2>6. (m - l) * (2 * (z + s) - (c + 1) * (l + m))
            = (m - l) * (2 * s - c * (l + m)) + (m - l) * (2 * z - (l + m))
    BY <2>2, <2>4
  <2>7. B[y] + b = (A[y] + a) + (m - l) * (2 * (z + s) - (c + 1) * (l + m))
    <3>. DEFINE u == (m - l) * (2 * s - c * (l + m))
                v == (m - l) * (2 * z - (l + m))
                w == (m - l) * (2 * (z + s) - (c + 1) * (l + m))
                p == (z - m) * (z - m)
    <3>1. u \in Int /\ v \in Int /\ w \in Int /\ p \in Int /\ w = u + v /\ b = a + u /\ A[y] = p /\ B[y] = p + v
      BY <2>1, <2>2, <2>4, <2>5, <2>6
    <3>. HIDE DEF u, v, w, p
    <3>2. B[y] + b = (A[y] + a) + w
      BY <2>2, <3>1
    <3>. QED BY <3>2 DEF w
  <2>8. Total(Part(B, T \cup {y})) = Total(Part(A, T \cup {y}))
            + (m - l) * (2 * Total(Part(x, T \cup {y})) - Cardinality(T \cup {y}) * (l + m))
    BY <2>2, <2>3, <2>7 DEF z
  <2>. QED BY <2>8
<1>4. S \in Good
  <2>. HIDE DEF Good
  <2>. QED BY <1>2, <1>3, AddInduction
<1>. HIDE DEF A, B
<1>. DEFINE n == Cardinality(S)
<1>5. Total(B) = Total(A) + (m - l) * (2 * (n * m) - n * (l + m)) /\ Total(A) \in Int /\ n \in Nat
  <2>1. Part(A, S) = A /\ Part(B, S) = B /\ Part(x, S) = x
    BY <1>1, PartGrows
  <2>. QED BY <1>1, <1>4, <2>1, TotalIsNumber, FS_CardinalityType
<1>. HIDE DEF n
<1>6. (m - l) * (2 * (n * m) - n * (l + m)) = n * ((m - l) * (m - l))
  BY <1>5
<1>7. n * ((m - l) * (m - l)) >= 0
  <2>1. (m - l) * (m - l) >= 0 /\ (m - l) * (m - l) \in Int
    OBVIOUS
  <2>. DEFINE q == (m - l) * (m - l)
  <2>. HIDE DEF q
  <2>2. n * q >= 0
    BY <1>5, <2>1 DEF q
  <2>. QED BY <2>2 DEF q
<1>8. Total(A) <= Total(B)
  <2>. DEFINE e == n * ((m - l) * (m - l))
  <2>1. e \in Int /\ e >= 0 /\ Total(B) = Total(A) + e
    BY <1>5, <1>6, <1>7
  <2>. HIDE DEF e
  <2>. QED BY <1>5, <2>1
<1>. QED BY <1>8 DEF A, B

-----------------------------------------------------------------------------
(* Distances, the nearest centroid and k-means, for a given metric. *)

DistanceOf(f, a, b) == IF f = "L2" THEN (a - b) * (a - b) ELSE Grain * Grain - a * b

NearestOf(f, cs, x) ==
    CHOOSE k \in Ids : \A l \in Ids :
        IF l < k THEN DistanceOf(f, x, cs[k]) < DistanceOf(f, x, cs[l])
                 ELSE DistanceOf(f, x, cs[k]) <= DistanceOf(f, x, cs[l])

MovedOf(f, d, m, cs) ==
    LET near == [i \in DOMAIN d |-> NearestOf(f, cs, d[i][m])]
        mine(k) == {i \in DOMAIN d : near[i] = k}
    IN  [k \in Ids |-> IF mine(k) = {} THEN cs[k]
                       ELSE Total([i \in mine(k) |-> d[i][m]]) \div Cardinality(mine(k))]

SampleOf(seed, d, m) == [k \in Ids |-> d[seed[Len(d)][k]][m]]

KMeansOf(f, seed, d, m) ==
    LET after[i \in 0 .. Iterations] ==
            IF i = 0 THEN SampleOf(seed, d, m)
            ELSE CHOOSE cs \in {MovedOf(f, d, m, before) : before \in {after[i - 1]}} : TRUE
    IN  after

\* They are those of the model, whose metric and sample never change.
LEMMA SameNearest == \A cs, x : Nearest(cs, x) = NearestOf(metric, cs, x)
BY DEF Nearest, NearestOf, Distance, DistanceOf

\* So is k-means.
LEMMA SameKMeans == \A d, m : KMeans(d, m) = KMeansOf(metric, seeded, d, m)
BY DEF KMeans, KMeansOf, Moved, MovedOf, Nearest, NearestOf, Distance, DistanceOf, Sample, SampleOf

\* The numbers of the quantizer.
LEMMA Sizes ==
    /\ K \in Nat /\ K > 0 /\ M \in Nat /\ M > 0 /\ CodeSize \in Nat /\ CodeSize > 0
    /\ Parts = 0 .. M - 1 /\ Ids = 0 .. K - 1
    /\ Iterations \in Nat /\ Iterations > 0 /\ BlockSize \in Nat /\ BlockSize > 0
    /\ Grain \in Nat /\ Grain > 0
BY QuantizerSizes DEF CodeSize, Parts, Ids

\* Distances can be compared.
LEMMA DistanceIsNumber ==
    ASSUME NEW f, NEW a \in Int, NEW b \in Int
    PROVE  DistanceOf(f, a, b) \in Int
BY Sizes DEF DistanceOf

\* There is a nearest centroid, and it has a number.
LEMMA NearestExists ==
    ASSUME NEW f, NEW cs \in [Ids -> Int], NEW x \in Int
    PROVE  /\ NearestOf(f, cs, x) \in Ids
           /\ \A l \in Ids : DistanceOf(f, x, cs[NearestOf(f, cs, x)]) <= DistanceOf(f, x, cs[l])
<1>. DEFINE D(k) == DistanceOf(f, x, cs[k])
            First(k, n) == \A l \in 0 .. n : IF l < k THEN D(k) < D(l) ELSE D(k) <= D(l)
            Good == {n \in Nat : n \in Ids => \E k \in 0 .. n : First(k, n)}
<1>1. \A k \in Ids : D(k) \in Int
  BY DistanceIsNumber
<1>. HIDE DEF D
<1>2. 0 \in Good
  <2>. SUFFICES ASSUME 0 \in Ids PROVE First(0, 0)
    OBVIOUS
  <2>. QED BY <1>1
<1>3. ASSUME NEW n \in Good PROVE n + 1 \in Good
  <2>. SUFFICES ASSUME n + 1 \in Ids PROVE \E k \in 0 .. n + 1 : First(k, n + 1)
    OBVIOUS
  <2>1. n \in Ids /\ n \in Nat
    BY Sizes
  <2>2. PICK k \in 0 .. n : First(k, n)
    BY <2>1
  <2>3. D(k) \in Int /\ D(n + 1) \in Int /\ \A l \in 0 .. n : D(l) \in Int
    <3>1. \A l \in 0 .. n : l \in Ids
      BY <2>1, Sizes
    <3>. QED BY <1>1, <3>1
  <2>4. CASE D(k) <= D(n + 1)
    <3>1. First(k, n + 1)
      BY <2>1, <2>2, <2>3, <2>4
    <3>. QED BY <2>1, <3>1
  <2>5. CASE ~(D(k) <= D(n + 1))
    <3>1. \A l \in 0 .. n : D(k) <= D(l)
      BY <2>2, <2>3
    <3>2. \A l \in 0 .. n : D(n + 1) < D(l)
      BY <2>3, <2>5, <3>1
    <3>3. First(n + 1, n + 1)
      BY <2>1, <2>3, <3>2
    <3>. QED BY <2>1, <3>3
  <2>. QED BY <2>4, <2>5
<1>4. Good = Nat
  <2>1. Good \in SUBSET Nat
    OBVIOUS
  <2>. HIDE DEF Good
  <2>. QED BY <1>2, <1>3, <2>1, NumberInduction
<1>5. K - 1 \in Ids /\ K - 1 \in Nat /\ Ids = 0 .. K - 1
  BY Sizes
<1>6. PICK k \in 0 .. K - 1 : First(k, K - 1)
  <2>1. K - 1 \in Good
    BY <1>4, <1>5
  <2>. QED BY <1>5, <2>1
<1>7. \E j \in Ids : \A l \in Ids : IF l < j THEN D(j) < D(l) ELSE D(j) <= D(l)
  BY <1>5, <1>6
<1>8. NearestOf(f, cs, x) = CHOOSE j \in Ids : \A l \in Ids : IF l < j THEN D(j) < D(l) ELSE D(j) <= D(l)
  BY DEF NearestOf, D
<1>. DEFINE q == NearestOf(f, cs, x)
<1>9. q \in Ids /\ \A l \in Ids : IF l < q THEN D(q) < D(l) ELSE D(q) <= D(l)
  <2>. HIDE DEF q
  <2>1. q = CHOOSE j \in Ids : \A l \in Ids : IF l < j THEN D(j) < D(l) ELSE D(j) <= D(l)
    BY <1>8 DEF q
  <2>. QED BY <1>7, <2>1
<1>. HIDE DEF q
<1>10. \A l \in Ids : D(q) <= D(l)
  BY <1>1, <1>9
<1>. QED BY <1>9, <1>10 DEF q, D

\* What k-means does: it begins with the sample, and moves once an iteration.
LEMMA KMeansIs ==
    ASSUME NEW f, NEW seed, NEW d, NEW m
    PROVE  /\ KMeansOf(f, seed, d, m)[0] = SampleOf(seed, d, m)
           /\ \A i \in 0 .. Iterations - 1 :
                  KMeansOf(f, seed, d, m)[i + 1] = MovedOf(f, d, m, KMeansOf(f, seed, d, m)[i])
<1>. DEFINE Step(x) == CHOOSE cs \in {MovedOf(f, d, m, before) : before \in {x}} : TRUE
            First == SampleOf(seed, d, m)
            Runs(n, g) == g = [i \in 0 .. n |-> IF i = 0 THEN First ELSE Step(g[i - 1])]
            Good == {n \in Nat : \E g : Runs(n, g)}
<1>0. \A x : Step(x) = MovedOf(f, d, m, x)
  OBVIOUS
<1>1. 0 \in Good
  <2>. DEFINE g == [i \in 0 .. 0 |-> First]
  <2>. HIDE DEF Step, First
  <2>1. Runs(0, g)
    OBVIOUS
  <2>. QED BY <2>1
<1>2. ASSUME NEW n \in Good PROVE n + 1 \in Good
  <2>0. n \in Nat
    OBVIOUS
  <2>1. PICK g : Runs(n, g)
    OBVIOUS
  <2>. HIDE DEF Step, First, Good
  <2>. DEFINE h == [i \in 0 .. n + 1 |-> IF i = 0 THEN First ELSE Step(g[i - 1])]
  <2>2. ASSUME NEW i \in 0 .. n PROVE h[i] = g[i]
    <3>1. g[i] = IF i = 0 THEN First ELSE Step(g[i - 1])
      BY <2>1
    <3>2. i \in 0 .. n + 1
      BY <2>0
    <3>. QED BY <3>1, <3>2
  <2>3. \A i \in 0 .. n + 1 : i # 0 => i - 1 \in 0 .. n
    BY <2>0
  <2>4. \A i \in 0 .. n + 1 : i # 0 => h[i - 1] = g[i - 1]
    <3>. HIDE DEF h
    <3>. QED BY <2>2, <2>3
  <2>5. \A i \in 0 .. n + 1 : h[i] = IF i = 0 THEN First ELSE Step(g[i - 1])
    OBVIOUS
  <2>6. h = [i \in 0 .. n + 1 |-> h[i]]
    OBVIOUS
  <2>7. Runs(n + 1, h)
    <3>. HIDE DEF h
    <3>1. \A i \in 0 .. n + 1 : h[i] = IF i = 0 THEN First ELSE Step(h[i - 1])
      BY <2>4, <2>5
    <3>. QED BY <2>6, <3>1
  <2>. HIDE DEF Runs, h
  <2>. QED BY <2>0, <2>7 DEF Good
<1>3. Good = Nat
  <2>1. Good \in SUBSET Nat
    OBVIOUS
  <2>. HIDE DEF Good
  <2>. QED BY <1>1, <1>2, <2>1, NumberInduction
<1>4. \E g : Runs(Iterations, g)
  BY <1>3, Sizes
<1>. DEFINE r == KMeansOf(f, seed, d, m)
<1>5. Runs(Iterations, r)
  BY <1>4 DEF KMeansOf
<1>. HIDE DEF r, Step, First
<1>6. r[0] = First
  BY <1>5, Sizes
<1>7. ASSUME NEW i \in 0 .. Iterations - 1 PROVE r[i + 1] = MovedOf(f, d, m, r[i])
  <2>1. i + 1 \in 0 .. Iterations /\ i + 1 # 0 /\ (i + 1) - 1 = i
    BY Sizes
  <2>2. r[i + 1] = Step(r[(i + 1) - 1])
    BY <1>5, <2>1
  <2>. QED BY <1>0, <2>1, <2>2
<1>. QED BY <1>6, <1>7 DEF r, First

-----------------------------------------------------------------------------
(* Means. *)

\* A multiple divides into its factor.
LEMMA DivisionIsExact ==
    ASSUME NEW n \in Nat, n > 0, NEW z \in Int
    PROVE  (n * z) \div n = z
<1>. DEFINE q == (n * z) \div n
            r == (n * z) % n
<1>1. n * z \in Int
  OBVIOUS
<1>2. q \in Int /\ r \in Int /\ n * z = n * q + r /\ 0 <= r /\ r < n
  BY <1>1
<1>. HIDE DEF q, r
<1>3. r = n * (z - q)
  BY <1>2
<1>4. z - q < 1
  <2>. SUFFICES ASSUME z - q >= 1 PROVE FALSE
    BY <1>2
  <2>1. n * (z - q) >= n
    BY <1>2
  <2>. QED BY <1>2, <1>3, <2>1
<1>5. z - q > -1
  <2>. SUFFICES ASSUME z - q <= -1 PROVE FALSE
    BY <1>2
  <2>1. n * (z - q) < 0
    BY <1>2
  <2>. QED BY <1>2, <1>3, <2>1
<1>6. q = z
  BY <1>2, <1>4, <1>5
<1>. QED BY <1>6 DEF q

\* What divides each number divides their sum.
LEMMA SumDivides ==
    ASSUME NEW S, IsFiniteSet(S), NEW f \in [S -> Int], NEW g \in Nat, g > 0,
           \A x \in S : f[x] % g = 0
    PROVE  \E q \in Int : Total(f) = g * q
<1>. DEFINE Good == {T \in SUBSET S : \E q \in Int : Total(Part(f, T)) = g * q}
<1>1. {} \in Good
  <2>1. g * 0 = 0 /\ Total(Part(f, {})) = 0
    BY PartGrows
  <2>. QED BY <2>1
<1>2. ASSUME NEW T \in SUBSET S, NEW x \in S, T \in Good, x \notin T
      PROVE  T \cup {x} \in Good
  <2>1. PICK q \in Int : Total(Part(f, T)) = g * q
    BY <1>2
  <2>2. Total(Part(f, T \cup {x})) = f[x] + g * q
    BY <1>2, <2>1, PartGrows
  <2>. DEFINE p == f[x] \div g
  <2>3. f[x] \in Int /\ f[x] % g = 0
    OBVIOUS
  <2>4. p \in Int /\ f[x] = g * p
    BY <2>3
  <2>. HIDE DEF p
  <2>5. g * p + g * q = g * (p + q) /\ p + q \in Int
    BY <2>4
  <2>6. Total(Part(f, T \cup {x})) = g * (p + q)
    BY <2>2, <2>4, <2>5
  <2>. QED BY <2>5, <2>6
<1>3. S \in Good
  <2>. HIDE DEF Good
  <2>. QED BY <1>1, <1>2, AddInduction
<1>. QED BY <1>3, PartGrows

\* Part m of the vectors d.
Column(d, m) == [i \in DOMAIN d |-> d[i][m]]

\* What is known of a batch.
LEMMA InputIs ==
    ASSUME NEW d \in Inputs
    PROVE  /\ Len(d) \in Nat /\ DOMAIN d = 1 .. Len(d)
           /\ IsFiniteSet(DOMAIN d) /\ Cardinality(DOMAIN d) = Len(d)
           /\ \A i \in DOMAIN d, m \in Parts : d[i][m] \in Int /\ d[i][m] % Grain = 0
           /\ \A m \in Parts : Column(d, m) \in [DOMAIN d -> Int]
           /\ \A n \in 1 .. Len(d) : Grain % n = 0
<1>1. d \in Seq([Parts -> Int])
  BY QuantizerSizes
<1>2. Len(d) \in Nat /\ DOMAIN d = 1 .. Len(d)
  BY <1>1
<1>3. IsFiniteSet(DOMAIN d) /\ Cardinality(DOMAIN d) = Len(d)
  <2>. DEFINE n == Len(d)
  <2>1. IsFiniteSet(1 .. n) /\ Cardinality(1 .. n) = (IF 1 > n THEN 0 ELSE n - 1 + 1)
    BY <1>2, FS_Interval
  <2>. QED BY <1>2, <2>1
<1>4. \A i \in DOMAIN d : d[i] \in [Parts -> Int]
  BY <1>1, <1>2
<1>5. \A i \in DOMAIN d, m \in Parts : d[i][m] \in Int
  BY <1>4
<1>6. \A i \in DOMAIN d, m \in Parts : d[i][m] % Grain = 0
  BY QuantizerSizes
<1>7. \A n \in 1 .. Len(d) : Grain % n = 0
  BY QuantizerSizes
<1>. QED BY <1>2, <1>3, <1>5, <1>6, <1>7 DEF Column

\* The mean of some of the vectors is exact.
LEMMA MeanIsExact ==
    ASSUME NEW d \in Inputs, NEW m \in Parts, NEW T \in SUBSET DOMAIN d, T # {}
    PROVE  LET s == Total(Part(Column(d, m), T))
               n == Cardinality(T)
           IN  n \in Nat /\ n > 0 /\ s \in Int /\ s \div n \in Int /\ n * (s \div n) = s
<1>. DEFINE s == Total(Part(Column(d, m), T))
            n == Cardinality(T)
<1>1. IsFiniteSet(T) /\ n \in Nat /\ n > 0 /\ n <= Len(d)
  <2>1. IsFiniteSet(T) /\ n <= Len(d)
    BY InputIs, FS_Subset
  <2>2. n \in Nat /\ n # 0
    BY <2>1, FS_CardinalityType, FS_EmptySet
  <2>. QED BY <2>1, <2>2
<1>2. Part(Column(d, m), T) \in [T -> Int] /\ \A i \in T : Part(Column(d, m), T)[i] % Grain = 0
  BY InputIs DEF Part, Column
<1>3. PICK q \in Int : s = Grain * q
  BY <1>1, <1>2, Sizes, SumDivides
<1>4. n \in 1 .. Len(d)
  BY <1>1, InputIs
<1>5. Grain % n = 0
  BY <1>4, InputIs
<1>. DEFINE r == Grain \div n
<1>6. r \in Int /\ Grain = n * r
  BY <1>1, <1>5, Sizes
<1>. HIDE DEF r, n, s
<1>7. s = n * (r * q) /\ r * q \in Int
  BY <1>1, <1>3, <1>6
<1>8. s \div n = r * q
  BY <1>1, <1>7, DivisionIsExact
<1>9. n \in Nat /\ n > 0 /\ s \in Int /\ s \div n \in Int /\ n * (s \div n) = s
  BY <1>1, <1>7, <1>8
<1>. QED BY <1>9 DEF n, s

\* The vectors of d assigned to centroid k.
Mine(d, a, k) == {i \in DOMAIN d : a[i] = k}

\* The centroid each vector is assigned to.
NearestAll(f, d, m, cs) == [i \in DOMAIN d |-> NearestOf(f, cs, d[i][m])]

MeanOf(d, m, a, k) == Total(Part(Column(d, m), Mine(d, a, k))) \div Cardinality(Mine(d, a, k))

MeansOf(d, m, a, cs) == [k \in Ids |-> IF Mine(d, a, k) = {} THEN cs[k] ELSE MeanOf(d, m, a, k)]

\* A move takes each centroid to the mean of the vectors assigned to it.
LEMMA MovedIs ==
    ASSUME NEW f, NEW d \in Inputs, NEW m \in Parts, NEW cs \in [Ids -> Int]
    PROVE  /\ MovedOf(f, d, m, cs) = MeansOf(d, m, NearestAll(f, d, m, cs), cs)
           /\ MovedOf(f, d, m, cs) \in [Ids -> Int]
<1>. DEFINE a == NearestAll(f, d, m, cs)
<1>1. \A k : [i \in Mine(d, a, k) |-> d[i][m]] = Part(Column(d, m), Mine(d, a, k))
  BY DEF Mine, Part, Column
<1>2. MovedOf(f, d, m, cs) =
          [k \in Ids |-> IF Mine(d, a, k) = {} THEN cs[k]
              ELSE Total([i \in Mine(d, a, k) |-> d[i][m]]) \div Cardinality(Mine(d, a, k))]
  BY DEF MovedOf, Mine, NearestAll
<1>3. MovedOf(f, d, m, cs) = MeansOf(d, m, a, cs)
  <2>. HIDE DEF a
  <2>. QED BY <1>1, <1>2 DEF MeansOf, MeanOf
<1>4. \A k \in Ids : Mine(d, a, k) # {} => MeanOf(d, m, a, k) \in Int
  <2>1. \A k \in Ids : Mine(d, a, k) \in SUBSET DOMAIN d
    BY DEF Mine
  <2>. HIDE DEF a
  <2>. QED BY <2>1, MeanIsExact DEF MeanOf
<1>5. MeansOf(d, m, a, cs) \in [Ids -> Int]
  <2>. HIDE DEF a
  <2>. QED BY <1>4 DEF MeansOf
<1>. QED BY <1>3, <1>5

-----------------------------------------------------------------------------
(* No step of k-means moves the vectors further from their centroids. *)

DistortionOf(f, d, m, cs, a) == Total([i \in DOMAIN d |-> DistanceOf(f, d[i][m], cs[a[i]])])

\* No vector is further from its nearest centroid than from another.
LEMMA AssigningHelps ==
    ASSUME NEW f, NEW d \in Inputs, NEW m \in Parts, NEW cs \in [Ids -> Int],
           NEW a \in [DOMAIN d -> Ids]
    PROVE  DistortionOf(f, d, m, cs, NearestAll(f, d, m, cs)) <= DistortionOf(f, d, m, cs, a)
<1>. DEFINE b == NearestAll(f, d, m, cs)
            A == [i \in DOMAIN d |-> DistanceOf(f, d[i][m], cs[a[i]])]
            B == [i \in DOMAIN d |-> DistanceOf(f, d[i][m], cs[b[i]])]
<1>1. ASSUME NEW i \in DOMAIN d
      PROVE  A[i] \in Int /\ B[i] \in Int /\ B[i] <= A[i]
  <2>1. d[i][m] \in Int
    BY InputIs
  <2>2. b[i] \in Ids /\ a[i] \in Ids /\ cs[b[i]] \in Int /\ cs[a[i]] \in Int
    BY <2>1, NearestExists DEF NearestAll
  <2>3. DistanceOf(f, d[i][m], cs[b[i]]) <= DistanceOf(f, d[i][m], cs[a[i]])
    BY <2>1, <2>2, NearestExists DEF NearestAll
  <2>. QED BY <2>1, <2>2, <2>3, DistanceIsNumber
<1>2. A \in [DOMAIN d -> Int] /\ B \in [DOMAIN d -> Int] /\ \A i \in DOMAIN d : B[i] <= A[i]
  BY <1>1
<1>3. Total(B) <= Total(A)
  <2>. HIDE DEF A, B
  <2>. QED BY <1>2, InputIs, TotalAtMost
<1>. QED BY <1>3 DEF DistortionOf

\* With the squared distance no cluster is further from its mean than from its
\* centroid, so neither are all together.
LEMMA MovingHelps ==
    ASSUME NEW d \in Inputs, NEW m \in Parts, NEW cs \in [Ids -> Int],
           NEW a, a = NearestAll("L2", d, m, cs)
    PROVE  DistortionOf("L2", d, m, MovedOf("L2", d, m, cs), a) <= DistortionOf("L2", d, m, cs, a)
<1>. DEFINE S == DOMAIN d
            x == Column(d, m)
            w == MovedOf("L2", d, m, cs)
            A == [i \in S |-> (x[i] - w[a[i]]) * (x[i] - w[a[i]])]
            B == [i \in S |-> (x[i] - cs[a[i]]) * (x[i] - cs[a[i]])]
            In(C) == {i \in S : a[i] \in C}
            Good == {C \in SUBSET Ids : Total(Part(A, In(C))) <= Total(Part(B, In(C)))}
<1>1. x \in [S -> Int] /\ IsFiniteSet(S) /\ w \in [Ids -> Int] /\ a \in [S -> Ids]
  <2>1. \A i \in S : d[i][m] \in Int
    BY InputIs
  <2>2. a \in [S -> Ids]
    BY <2>1, NearestExists DEF NearestAll
  <2>. QED BY <2>2, InputIs, MovedIs
<1>2. A \in [S -> Int] /\ B \in [S -> Int]
  <2>. HIDE DEF x, w, S
  <2>. QED BY <1>1
<1>3. ASSUME NEW k \in Ids
      PROVE  Total(Part(A, Mine(d, a, k))) <= Total(Part(B, Mine(d, a, k)))
  <2>. DEFINE T == Mine(d, a, k)
              y == Part(x, T)
  <2>1. T \in SUBSET S /\ IsFiniteSet(T) /\ y \in [T -> Int]
    BY <1>1, FS_Subset DEF Mine, Part
  <2>2. CASE T = {}
    <3>1. Total(Part(A, T)) = 0 /\ Total(Part(B, T)) = 0
      BY <2>2, TotalOfNone DEF Part
    <3>. QED BY <3>1
  <2>3. CASE T # {}
    <3>1. w[k] = Total(y) \div Cardinality(T)
      BY <2>3, MovedIs DEF MeansOf, MeanOf
    <3>2. Cardinality(T) * w[k] = Total(y)
      BY <2>1, <2>3, <3>1, MeanIsExact
    <3>3. w[k] \in Int /\ cs[k] \in Int
      BY <1>1
    <3>4. Total([i \in T |-> (y[i] - w[k]) * (y[i] - w[k])]) <= Total([i \in T |-> (y[i] - cs[k]) * (y[i] - cs[k])])
      <4>. HIDE DEF T, y, w
      <4>. QED BY <2>1, <3>2, <3>3, MeanIsNearest
    <3>5. \A i \in T : i \in S /\ a[i] = k /\ y[i] = x[i]
      BY DEF Mine, Part
    <3>6. Part(A, T) = [i \in T |-> (y[i] - w[k]) * (y[i] - w[k])]
      <4>1. \A i \in T : A[i] = (y[i] - w[k]) * (y[i] - w[k])
        <5>. HIDE DEF T, y, w, x, S
        <5>. QED BY <3>5
      <4>. HIDE DEF A, T, y, w
      <4>. QED BY <4>1 DEF Part
    <3>7. Part(B, T) = [i \in T |-> (y[i] - cs[k]) * (y[i] - cs[k])]
      <4>1. \A i \in T : B[i] = (y[i] - cs[k]) * (y[i] - cs[k])
        <5>. HIDE DEF T, y, w, x, S
        <5>. QED BY <3>5
      <4>. HIDE DEF B, T, y, w
      <4>. QED BY <4>1 DEF Part
    <3>. QED BY <3>4, <3>6, <3>7
  <2>. QED BY <2>2, <2>3
<1>4. {} \in Good
  <2>1. In({}) = {}
    OBVIOUS
  <2>2. Total(Part(A, {})) = 0 /\ Total(Part(B, {})) = 0
    BY TotalOfNone DEF Part
  <2>3. Total(Part(A, In({}))) = 0 /\ Total(Part(B, In({}))) = 0
    <3>. HIDE DEF A, B, In
    <3>. QED BY <2>1, <2>2, Zenon
  <2>. QED BY <2>3
<1>5. ASSUME NEW C \in SUBSET Ids, NEW k \in Ids, C \in Good, k \notin C
      PROVE  C \cup {k} \in Good
  <2>. DEFINE U == In(C \cup {k})
              T == Mine(d, a, k)
  <2>1. U \in SUBSET S /\ T \in SUBSET U /\ U \ T = In(C) /\ IsFiniteSet(U)
    BY <1>1, <1>5, FS_Subset DEF Mine
  <2>2. ASSUME NEW F \in [S -> Int]
        PROVE  /\ Total(Part(F, U)) = Total(Part(F, T)) + Total(Part(F, In(C)))
               /\ Total(Part(F, T)) \in Int /\ Total(Part(F, In(C))) \in Int
    <3>. HIDE DEF U, T, S
    <3>1. Part(F, U) \in [U -> Int]
      BY <2>1 DEF Part
    <3>2. Total(Part(F, U)) = Total(Part(Part(F, U), T)) + Total(Part(Part(F, U), U \ T))
      BY <2>1, <3>1, TotalSplits
    <3>3. Part(Part(F, U), T) = Part(F, T)
      BY <2>1 DEF Part
    <3>4. Part(Part(F, U), U \ T) = Part(F, U \ T)
      BY DEF Part
    <3>5. T \in SUBSET S /\ U \ T \in SUBSET S
      BY <2>1
    <3>6. Total(Part(F, T)) \in Int /\ Total(Part(F, U \ T)) \in Int
      BY <1>1, <3>5, PartGrows
    <3>. QED BY <2>1, <3>2, <3>3, <3>4, <3>6
  <2>3. Total(Part(A, In(C))) <= Total(Part(B, In(C)))
    BY <1>5
  <2>4. Total(Part(A, T)) <= Total(Part(B, T))
    BY <1>3
  <2>5. Total(Part(A, U)) <= Total(Part(B, U))
    <3>. DEFINE IC == In(C)
    <3>. HIDE DEF A, B, U, T, In, IC
    <3>1. /\ Total(Part(A, U)) = Total(Part(A, T)) + Total(Part(A, In(C)))
          /\ Total(Part(A, T)) \in Int /\ Total(Part(A, In(C))) \in Int
      BY <1>2, <2>2
    <3>2. /\ Total(Part(B, U)) = Total(Part(B, T)) + Total(Part(B, In(C)))
          /\ Total(Part(B, T)) \in Int /\ Total(Part(B, In(C))) \in Int
      BY <1>2, <2>2
    <3>. QED BY <2>3, <2>4, <3>1, <3>2
  <2>6. C \cup {k} \in SUBSET Ids
    OBVIOUS
  <2>. QED BY <2>5, <2>6
<1>6. Ids \in Good
  <2>1. IsFiniteSet(Ids)
    BY Sizes, FS_Interval
  <2>. HIDE DEF Good
  <2>. QED BY <1>4, <1>5, <2>1, AddInduction
<1>7. In(Ids) = S
  BY <1>1
<1>8. Total(A) <= Total(B)
  <2>1. Part(A, S) = A /\ Part(B, S) = B
    BY DEF Part
  <2>. HIDE DEF A, B, S
  <2>. QED BY <1>6, <1>7, <2>1
<1>9. DistortionOf("L2", d, m, w, a) = Total(A) /\ DistortionOf("L2", d, m, cs, a) = Total(B)
  BY DEF DistortionOf, DistanceOf, Column
<1>. QED BY <1>8, <1>9

-----------------------------------------------------------------------------
(* The invariant. *)

Training == phase \in {"init", "assign", "sum", "set", "tables"}

\* The places of the codes of a batch, if the codes fit: a vector's do not reach
\* another's.
LEMMA PlacesApart ==
    ASSUME CodesFit, NEW n \in Nat, NEW i \in 1 .. n, NEW j \in 1 .. n, NEW m \in Parts
    PROVE  /\ (j - 1) * CodeSize + m \in Bytes(n)
           /\ i = j => ((j - 1) * CodeSize + m) - (i - 1) * CodeSize = m
           /\ i # j => ((j - 1) * CodeSize + m) - (i - 1) * CodeSize \notin Parts
<1>. DEFINE c == CodeSize
            p == (j - 1) * c
            q == (i - 1) * c
<1>0. c \in Nat /\ c > 0 /\ m \in Int /\ 0 <= m /\ m < c /\ Parts \subseteq 0 .. c - 1 /\ M \in Nat /\ M > 0
  BY Sizes DEF CodesFit
<1>. HIDE DEF c
<1>1. p \in Nat /\ q \in Nat
  BY <1>0
<1>2. p + c <= n * c
  <2>1. n * c - (p + c) = (n - j) * c
    BY <1>0
  <2>2. (n - j) * c >= 0
    BY <1>0
  <2>. QED BY <1>0, <1>1, <2>1, <2>2
<1>3. j > i => p - q >= c
  <2>. SUFFICES ASSUME j > i PROVE p - q >= c
    OBVIOUS
  <2>1. p - q = (j - i) * c
    BY <1>0
  <2>2. (j - i) * c = c + (j - i - 1) * c /\ (j - i - 1) * c >= 0
    BY <1>0
  <2>. QED BY <1>0, <1>1, <2>1, <2>2
<1>4. i > j => q - p >= c
  <2>. SUFFICES ASSUME i > j PROVE q - p >= c
    OBVIOUS
  <2>1. q - p = (i - j) * c
    BY <1>0
  <2>2. (i - j) * c = c + (i - j - 1) * c /\ (i - j - 1) * c >= 0
    BY <1>0
  <2>. QED BY <1>0, <1>1, <2>1, <2>2
<1>5. n * c \in Int
  BY <1>0
<1>6. p + m \in 0 .. n * c + M - 1
  <2>. DEFINE e == n * c
  <2>. HIDE DEF p, e
  <2>1. p + m \in 0 .. e + M - 1
    BY <1>0, <1>1, <1>2, <1>5 DEF e
  <2>. QED BY <2>1 DEF e
<1>7. i = j => (p + m) - q = m
  BY <1>0, <1>1
<1>8. i # j => (p + m) - q \notin Parts
  <2>. HIDE DEF p, q
  <2>1. i # j => j > i \/ i > j
    OBVIOUS
  <2>. QED BY <1>0, <1>1, <1>3, <1>4, <2>1
<1>. QED BY <1>6, <1>7, <1>8 DEF c, Bytes

\* The bytes of the vectors D of the batch d are their nearest centroids.
Coded(f, cs, cd, d, D) ==
    \A i \in D, m \in Parts : cd[(i - 1) * CodeSize + m] = NearestOf(f, cs[m], d[i][m])

TablesOf(f, cs) == [m \in Parts |-> [k \in Ids |-> [l \in Ids |-> DistanceOf(f, cs[m][k], cs[m][l])]]]

\* What the variables hold in each phase.
ShapeInv ==
    /\ \A n \in Lengths : n >= K => seeded[n] \in Draws(n)
    /\ centroids \in [Parts -> [Ids -> Int]]
    /\ phase \in {"idle", "init", "assign", "sum", "set", "tables", "encode"}
    /\ Training => data \in Inputs /\ Len(data) >= K
    /\ phase \in {"init", "assign", "sum", "set"} => part \in Parts
    /\ phase = "tables" => part = M
    /\ phase \in {"assign", "sum", "set"} => local \in [Ids -> Int]
    /\ phase \in {"assign", "sum"} =>
          iteration \in 0 .. Iterations - 1 /\ assignment \in [DOMAIN data -> Ids]
    /\ phase = "encode" => data \in Inputs
    /\ encoded \in Inputs \cup {<<>>}

\* The parts that have been trained, and how far the one being trained is.
TrainInv ==
    /\ Training => \A m \in Parts : m < part => centroids[m] = KMeansOf(metric, seeded, data, m)[Iterations]
    /\ phase \in {"assign", "sum"} => local = KMeansOf(metric, seeded, data, part)[iteration]
    /\ phase = "set" => local = KMeansOf(metric, seeded, data, part)[Iterations]

\* What has been added up of the vectors assigned to centroid k.
Added(k) == {i \in DOMAIN data \ todo : assignment[i] = k}

SumInv ==
    phase = "sum" =>
        /\ todo \subseteq DOMAIN data
        /\ assignment = NearestAll(metric, data, part, local)
        /\ sums \in [Ids -> Int] /\ counts \in [Ids -> Nat]
        /\ \A k \in Ids : /\ counts[k] = Cardinality(Added(k))
                          /\ sums[k] = Total(Part(Column(data, part), Added(k)))

\* The vectors of the blocks that have begun, of n.
Begun(n, b) == {i \in 1 .. n : i <= b + BlockSize}

CodeInv ==
    CodesFit =>
        /\ phase = "encode" =>
              /\ encoded = <<>> /\ todo \subseteq DOMAIN data /\ block \in Nat
              /\ codes = [b \in Bytes(Len(data)) |-> codes[b]]
              /\ Coded(metric, centroids, codes, data, Begun(Len(data), block) \ todo)
        /\ Coded(metric, centroids, codes, encoded, DOMAIN encoded)

TableInv ==
    trained /\ phase \in {"idle", "encode"} => tables = TablesOf(metric, centroids)

IInv == ShapeInv /\ TrainInv /\ SumInv /\ CodeInv /\ TableInv

\* The invariant holds of a new quantizer.
LEMMA InitInv == Init => IInv
<1>. SUFFICES ASSUME Init PROVE IInv
  OBVIOUS
<1>1. ShapeInv
  <2>1. \A n \in Lengths : n >= K => seeded[n] \in Draws(n)
    BY DEF Init
  <2>2. centroids \in [Parts -> [Ids -> Int]]
    BY DEF Init
  <2>. QED BY <2>1, <2>2 DEF Init, ShapeInv, Training
<1>2. CodeInv
  BY DEF Init, CodeInv, Coded
<1>3. TrainInv /\ SumInv /\ TableInv
  BY DEF Init, TrainInv, SumInv, TableInv, Training
<1>. QED BY <1>1, <1>2, <1>3 DEF IInv

\* train begins with no part trained, or throws and changes nothing.
LEMMA TrainStep == ASSUME IInv, NEW d \in Inputs, Train(d) PROVE IInv'
<1>1. CASE Len(d) < K
  <2>1. UNCHANGED <<metric, seeded, centroids, tables, trained, phase, data, training, todo, codes, block, encoded>>
    BY <1>1 DEF Train, training
  <2>. QED BY <2>1 DEF IInv, ShapeInv, TrainInv, SumInv, CodeInv, TableInv, Training, Added, training
<1>2. CASE ~(Len(d) < K)
  <2>1. /\ phase' = "init" /\ data' = d /\ part' = 0 /\ phase = "idle"
        /\ UNCHANGED <<metric, seeded, centroids, tables, trained, iteration, local, assignment,
                       sums, counts, todo, codes, block, encoded>>
    BY <1>2 DEF Train
  <2>2. Len(d) >= K /\ 0 \in Parts
    BY <1>2, Sizes, InputIs
  <2>3. ShapeInv'
    BY <2>1, <2>2 DEF IInv, ShapeInv, Training
  <2>4. TrainInv'
    <3>1. \A m \in Parts : ~(m < 0)
      BY Sizes
    <3>. QED BY <2>1, <3>1 DEF TrainInv, Training
  <2>5. CodeInv'
    BY <2>1 DEF IInv, CodeInv, Coded
  <2>6. SumInv' /\ TableInv'
    BY <2>1 DEF SumInv, TableInv
  <2>. QED BY <2>3, <2>4, <2>5, <2>6 DEF IInv
<1>. QED BY <1>1, <1>2

\* randomInitialize gives what k-means begins with.
LEMMA InitializeStep == ASSUME IInv, InitializeCentroids PROVE IInv'
<1>1. /\ phase = "init" /\ phase' = "assign" /\ iteration' = 0 /\ local' = SampleOf(seeded, data, part)
      /\ assignment' = [i \in DOMAIN data |-> 0]
      /\ UNCHANGED <<metric, seeded, centroids, tables, trained, data, part, sums, counts, todo, codes, block, encoded>>
  BY DEF InitializeCentroids, Sample, SampleOf
<1>2. data \in Inputs /\ Len(data) >= K /\ part \in Parts
  BY <1>1 DEF IInv, ShapeInv, Training
<1>3. local' \in [Ids -> Int]
  <2>1. seeded[Len(data)] \in [Ids -> 1 .. Len(data)]
    BY <1>2 DEF IInv, ShapeInv, Lengths, Draws
  <2>2. \A k \in Ids : data[seeded[Len(data)][k]][part] \in Int
    BY <1>2, <2>1, InputIs
  <2>. QED BY <1>1, <2>2 DEF SampleOf
<1>4. 0 \in Ids /\ 0 \in 0 .. Iterations - 1
  BY Sizes
<1>5. ShapeInv'
  BY <1>1, <1>2, <1>3, <1>4 DEF IInv, ShapeInv, Training
<1>6. TrainInv'
  <2>1. local' = KMeansOf(metric, seeded, data, part)[0]
    BY <1>1, KMeansIs
  <2>. QED BY <1>1, <2>1 DEF IInv, TrainInv, Training
<1>7. CodeInv'
  BY <1>1 DEF IInv, CodeInv, Coded
<1>8. SumInv' /\ TableInv'
  BY <1>1 DEF SumInv, TableInv
<1>. QED BY <1>5, <1>6, <1>7, <1>8 DEF IInv

\* Step 1 of the loop assigns every vector and adds up none.
LEMMA AssignStep == ASSUME IInv, AssignVectors PROVE IInv'
<1>1. /\ phase = "assign" /\ phase' = "sum" /\ todo' = DOMAIN data
      /\ assignment' = NearestAll(metric, data, part, local)
      /\ sums' = [k \in Ids |-> 0] /\ counts' = [k \in Ids |-> 0]
      /\ UNCHANGED <<metric, seeded, centroids, tables, trained, data, part, iteration, local, codes, block, encoded>>
  BY SameNearest DEF AssignVectors, NearestAll
<1>2. data \in Inputs /\ part \in Parts /\ local \in [Ids -> Int]
  BY <1>1 DEF IInv, ShapeInv, Training
<1>3. assignment' \in [DOMAIN data -> Ids]
  <2>1. \A i \in DOMAIN data : NearestOf(metric, local, data[i][part]) \in Ids
    BY <1>2, InputIs, NearestExists
  <2>. QED BY <1>1, <2>1 DEF NearestAll
<1>4. ShapeInv'
  BY <1>1, <1>3 DEF IInv, ShapeInv, Training
<1>5. TrainInv'
  BY <1>1 DEF IInv, TrainInv, Training
<1>6. SumInv'
  <2>1. \A k : Added(k)' = {}
    BY <1>1 DEF Added
  <2>2. Cardinality({}) = 0 /\ Total(Part(Column(data, part), {})) = 0
    BY FS_EmptySet, TotalOfNone DEF Part
  <2>3. \A k \in Ids : counts'[k] = Cardinality(Added(k)') /\ sums'[k] = Total(Part(Column(data, part), Added(k)'))
    BY <1>1, <2>1, <2>2
  <2>. QED BY <1>1, <2>3 DEF SumInv
<1>7. CodeInv'
  BY <1>1 DEF IInv, CodeInv, Coded
<1>8. TableInv'
  BY <1>1 DEF TableInv
<1>. QED BY <1>4, <1>5, <1>6, <1>7, <1>8 DEF IInv

\* A turn of Step 2 adds one vector to its cluster and no other.
LEMMA AddStep == ASSUME IInv, NEW i \in todo, AddVector(i) PROVE IInv'
<1>1. /\ phase = "sum" /\ phase' = "sum" /\ todo' = todo \ {i}
      /\ sums' = [sums EXCEPT ![assignment[i]] = @ + data[i][part]]
      /\ counts' = [counts EXCEPT ![assignment[i]] = @ + 1]
      /\ UNCHANGED <<metric, seeded, centroids, tables, trained, data, part, iteration, local,
                     assignment, codes, block, encoded>>
  BY DEF AddVector
<1>2. /\ data \in Inputs /\ part \in Parts /\ assignment \in [DOMAIN data -> Ids]
      /\ todo \subseteq DOMAIN data /\ sums \in [Ids -> Int] /\ counts \in [Ids -> Nat]
      /\ assignment = NearestAll(metric, data, part, local)
      /\ \A k \in Ids : /\ counts[k] = Cardinality(Added(k))
                        /\ sums[k] = Total(Part(Column(data, part), Added(k)))
  BY <1>1 DEF IInv, ShapeInv, SumInv, Training
<1>3. ShapeInv'
  BY <1>1 DEF IInv, ShapeInv, Training
<1>4. TrainInv'
  BY <1>1 DEF IInv, TrainInv, Training
<1>. DEFINE a == assignment[i]
            x == Column(data, part)
<1>5. a \in Ids /\ x \in [DOMAIN data -> Int] /\ IsFiniteSet(DOMAIN data) /\ data[i][part] = x[i] /\ x[i] \in Int
      /\ i \in DOMAIN data
  BY <1>2, InputIs DEF Column
<1>6. \A k : Added(k)' = IF k = a THEN Added(k) \cup {i} ELSE Added(k)
  BY <1>1, <1>2 DEF Added
<1>7. \A k : i \notin Added(k) /\ Added(k) \in SUBSET DOMAIN data
  BY DEF Added
<1>8. ASSUME NEW k \in Ids
      PROVE  counts'[k] = Cardinality(Added(k)') /\ sums'[k] = Total(Part(x, Added(k)'))
  <2>1. CASE k = a
    <3>1. IsFiniteSet(Added(k))
      BY <1>5, <1>7, FS_Subset
    <3>2. Cardinality(Added(k) \cup {i}) = Cardinality(Added(k)) + 1
      BY <1>7, <3>1, FS_AddElement
    <3>3. Total(Part(x, Added(k) \cup {i})) = x[i] + Total(Part(x, Added(k))) /\ Total(Part(x, Added(k))) \in Int
      <4>. HIDE DEF x
      <4>. QED BY <1>5, <1>7, PartGrows
    <3>4. counts'[k] = counts[k] + 1 /\ sums'[k] = sums[k] + x[i]
      BY <1>1, <1>2, <1>5, <2>1
    <3>5. Added(k)' = Added(k) \cup {i}
      BY <1>6, <2>1
    <3>6. counts[k] = Cardinality(Added(k)) /\ sums[k] = Total(Part(x, Added(k)))
      BY <1>2
    <3>7. counts'[k] = Cardinality(Added(k)')
      BY <3>2, <3>4, <3>5, <3>6
    <3>8. sums'[k] = Total(Part(x, Added(k)'))
      <4>. DEFINE s == Total(Part(x, Added(k)))
      <4>1. s \in Int /\ x[i] \in Int /\ sums'[k] = s + x[i] /\ Total(Part(x, Added(k) \cup {i})) = x[i] + s
        BY <1>5, <3>3, <3>4, <3>6
      <4>2. Total(Part(x, Added(k)')) = Total(Part(x, Added(k) \cup {i}))
        BY <3>5
      <4>. HIDE DEF s, x
      <4>. QED BY <4>1, <4>2
    <3>. QED BY <3>7, <3>8
  <2>2. CASE k # a
    <3>1. counts'[k] = counts[k] /\ sums'[k] = sums[k] /\ Added(k)' = Added(k)
      BY <1>1, <1>2, <1>5, <1>6, <2>2
    <3>. QED BY <1>2, <3>1
  <2>. QED BY <2>1, <2>2
<1>9. sums' \in [Ids -> Int] /\ counts' \in [Ids -> Nat]
  BY <1>1, <1>2, <1>5
<1>10. SumInv'
  BY <1>1, <1>2, <1>8, <1>9 DEF SumInv
<1>11. CodeInv'
  BY <1>1 DEF IInv, CodeInv, Coded
<1>12. TableInv'
  BY <1>1 DEF TableInv
<1>. QED BY <1>3, <1>4, <1>10, <1>11, <1>12 DEF IInv

\* With every vector added up, the means are those of k-means.
LEMMA MeansAreMoved ==
    ASSUME IInv, phase = "sum", todo = {}
    PROVE  /\ Means = MovedOf(metric, data, part, local)
           /\ Means \in [Ids -> Int]
<1>1. /\ data \in Inputs /\ part \in Parts /\ local \in [Ids -> Int]
      /\ counts \in [Ids -> Nat]
      /\ assignment = NearestAll(metric, data, part, local)
      /\ \A k \in Ids : /\ counts[k] = Cardinality(Added(k))
                        /\ sums[k] = Total(Part(Column(data, part), Added(k)))
  BY DEF IInv, ShapeInv, SumInv, Training
<1>2. \A k : Added(k) = Mine(data, assignment, k)
  BY DEF Added, Mine
<1>3. ASSUME NEW k \in Ids PROVE counts[k] > 0 <=> Mine(data, assignment, k) # {}
  <2>1. IsFiniteSet(Added(k))
    BY <1>1, InputIs, FS_Subset DEF Added
  <2>2. Cardinality(Added(k)) = 0 <=> Added(k) = {}
    BY <2>1, FS_EmptySet
  <2>. QED BY <1>1, <1>2, <2>2
<1>4. \A k \in Ids : counts[k] > 0 => sums[k] \div counts[k] = MeanOf(data, part, assignment, k)
  BY <1>1, <1>2 DEF MeanOf
<1>5. \A k \in Ids : IF counts[k] > 0
                     THEN Mine(data, assignment, k) # {} /\ sums[k] \div counts[k] = MeanOf(data, part, assignment, k)
                     ELSE Mine(data, assignment, k) = {}
  BY <1>3, <1>4
<1>6. Means = MeansOf(data, part, assignment, local)
  BY <1>5 DEF Means, MeansOf
<1>7. /\ MovedOf(metric, data, part, local) = MeansOf(data, part, assignment, local)
      /\ MovedOf(metric, data, part, local) \in [Ids -> Int]
  BY <1>1, MovedIs
<1>. QED BY <1>6, <1>7

\* The end of Step 2 is a step of k-means.
LEMMA UpdateStep == ASSUME IInv, UpdateCentroids PROVE IInv'
<1>1. /\ phase = "sum" /\ todo = {} /\ local' = Means /\ iteration' = iteration + 1
      /\ phase' = (IF iteration + 1 < Iterations THEN "assign" ELSE "set")
      /\ UNCHANGED <<metric, seeded, centroids, tables, trained, data, part, assignment, sums, counts,
                     todo, codes, block, encoded>>
  BY DEF UpdateCentroids
<1>2. Means = MovedOf(metric, data, part, local) /\ Means \in [Ids -> Int]
  BY <1>1, MeansAreMoved
<1>3. /\ iteration \in 0 .. Iterations - 1 /\ part \in Parts
      /\ local = KMeansOf(metric, seeded, data, part)[iteration]
  BY <1>1 DEF IInv, ShapeInv, TrainInv
<1>4. local' = KMeansOf(metric, seeded, data, part)[iteration + 1]
  BY <1>1, <1>2, <1>3, KMeansIs
<1>5. (phase' = "assign" /\ iteration + 1 \in 0 .. Iterations - 1) \/ (phase' = "set" /\ iteration + 1 = Iterations)
  BY <1>1, <1>3, Sizes
<1>6. ShapeInv'
  <2>1. /\ \A n \in Lengths' : n >= K => seeded'[n] \in Draws(n)
        /\ centroids' \in [Parts -> [Ids -> Int]] /\ encoded' \in Inputs \cup {<<>>}
    BY <1>1 DEF IInv, ShapeInv, Lengths
  <2>2. data' \in Inputs /\ Len(data') >= K /\ part' \in Parts /\ local' \in [Ids -> Int]
    BY <1>1, <1>2, <1>3 DEF IInv, ShapeInv, Training
  <2>3. phase' = "assign" => iteration' \in 0 .. Iterations - 1 /\ assignment' \in [DOMAIN data' -> Ids]
    BY <1>1, <1>5 DEF IInv, ShapeInv
  <2>. QED BY <1>5, <2>1, <2>2, <2>3 DEF ShapeInv, Training
<1>7. TrainInv'
  <2>1. \A m \in Parts : m < part => centroids[m] = KMeansOf(metric, seeded, data, m)[Iterations]
    BY <1>1 DEF IInv, TrainInv, Training
  <2>. QED BY <1>1, <1>4, <1>5, <2>1 DEF TrainInv, Training
<1>8. CodeInv'
  BY <1>1, <1>5 DEF IInv, CodeInv, Coded
<1>9. SumInv' /\ TableInv'
  BY <1>5 DEF SumInv, TableInv
<1>. QED BY <1>6, <1>7, <1>8, <1>9 DEF IInv

\* The part that has been trained gets its centroids, and codes are codes no
\* more.
LEMMA SetStep == ASSUME IInv, SetParameters PROVE IInv'
<1>1. /\ phase = "set" /\ centroids' = [centroids EXCEPT ![part] = local] /\ part' = part + 1
      /\ phase' = (IF part + 1 < M THEN "init" ELSE "tables") /\ encoded' = <<>>
      /\ UNCHANGED <<metric, seeded, tables, trained, data, iteration, local, assignment, sums, counts, todo, codes, block>>
  BY DEF SetParameters
<1>2. /\ part \in Parts /\ local \in [Ids -> Int] /\ centroids \in [Parts -> [Ids -> Int]]
      /\ local = KMeansOf(metric, seeded, data, part)[Iterations]
      /\ \A m \in Parts : m < part => centroids[m] = KMeansOf(metric, seeded, data, m)[Iterations]
  BY <1>1 DEF IInv, ShapeInv, TrainInv, Training
<1>3. (phase' = "init" /\ part + 1 \in Parts) \/ (phase' = "tables" /\ part + 1 = M)
  BY <1>1, <1>2, Sizes
<1>4. ShapeInv'
  <2>1. centroids' \in [Parts -> [Ids -> Int]]
    BY <1>1, <1>2
  <2>2. (\A n \in Lengths' : n >= K => seeded'[n] \in Draws(n)) /\ data' \in Inputs /\ Len(data') >= K
    BY <1>1 DEF IInv, ShapeInv, Training, Lengths
  <2>. QED BY <1>1, <1>3, <2>1, <2>2 DEF ShapeInv, Training
<1>5. TrainInv'
  <2>1. \A m \in Parts : m < part + 1 => centroids'[m] = KMeansOf(metric, seeded, data, m)[Iterations]
    <3>. SUFFICES ASSUME NEW m \in Parts, m < part + 1
                  PROVE  centroids'[m] = KMeansOf(metric, seeded, data, m)[Iterations]
      OBVIOUS
    <3>1. m < part \/ m = part
      BY <1>2, Sizes
    <3>2. CASE m < part
      <4>1. m # part
        BY <1>2, <3>2, Sizes
      <4>2. centroids'[m] = centroids[m]
        BY <1>1, <1>2, <4>1
      <4>. QED BY <1>2, <3>2, <4>2
    <3>3. CASE m = part
      BY <1>1, <1>2, <3>3
    <3>. QED BY <3>1, <3>2, <3>3
  <2>. QED BY <1>1, <1>3, <2>1 DEF TrainInv, Training
<1>6. CodeInv'
  BY <1>1, <1>3 DEF CodeInv, Coded
<1>7. SumInv' /\ TableInv'
  BY <1>3 DEF SumInv, TableInv
<1>. QED BY <1>4, <1>5, <1>6, <1>7 DEF IInv

\* The tables are those of the centroids.
LEMMA TablesStep == ASSUME IInv, FinishTrain PROVE IInv'
<1>1. /\ phase = "tables" /\ phase' = "idle" /\ data' = <<>> /\ tables' = TablesOf(metric, centroids)
      /\ UNCHANGED <<metric, seeded, centroids, todo, codes, block, encoded>>
  BY DEF FinishTrain, computeSymmetricDistanceTables, TablesOf, Distance, DistanceOf
<1>2. ShapeInv'
  BY <1>1 DEF IInv, ShapeInv, Training, Lengths
<1>3. TrainInv' /\ SumInv' /\ TableInv'
  BY <1>1 DEF TrainInv, SumInv, TableInv, Training
<1>4. CodeInv'
  BY <1>1 DEF IInv, CodeInv, Coded
<1>. QED BY <1>2, <1>3, <1>4 DEF IInv

\* computePQCodes begins with no vector coded.
LEMMA EncodeStep == ASSUME IInv, NEW d \in Inputs, Encode(d) PROVE IInv'
<1>1. /\ phase = "idle" /\ phase' = "encode" /\ data' = d /\ todo' = Block(0, Len(d)) /\ encoded' = <<>>
      /\ codes' = [b \in Bytes(Len(d)) |-> 0] /\ block' = 0
      /\ UNCHANGED <<metric, seeded, centroids, tables, trained, training>>
  BY DEF Encode
<1>2. ShapeInv'
  BY <1>1 DEF IInv, ShapeInv, Training, Lengths
<1>3. TrainInv' /\ SumInv'
  BY <1>1 DEF TrainInv, SumInv, Training
<1>4. TableInv'
  BY <1>1 DEF IInv, TableInv
<1>5. CodeInv'
  <2>1. codes' = [b \in Bytes(Len(data')) |-> codes'[b]]
    BY <1>1
  <2>2. todo' \subseteq DOMAIN data' /\ Begun(Len(data'), block') \ todo' = {} /\ DOMAIN encoded' = {}
    BY <1>1, Sizes, InputIs DEF Block, Begun
  <2>. QED BY <1>1, <2>1, <2>2 DEF CodeInv, Coded
<1>. QED BY <1>2, <1>3, <1>4, <1>5 DEF IInv

\* A turn codes its vector and leaves the codes of the others, if codes fit.
LEMMA CodeStep == ASSUME IInv, NEW i \in todo, ComputePQCode(i) PROVE IInv'
<1>1. /\ phase = "encode" /\ phase' = "encode" /\ todo' = todo \ {i}
      /\ codes' = [b \in DOMAIN codes |->
                      IF b - (i - 1) * CodeSize \in Parts
                      THEN NearestOf(metric, centroids[b - (i - 1) * CodeSize], data[i][b - (i - 1) * CodeSize]) % 256
                      ELSE codes[b]]
      /\ UNCHANGED <<metric, seeded, centroids, tables, trained, data, training, block, encoded>>
  BY SameNearest DEF ComputePQCode
<1>2. data \in Inputs /\ centroids \in [Parts -> [Ids -> Int]]
  BY <1>1 DEF IInv, ShapeInv
<1>3. ShapeInv'
  BY <1>1 DEF IInv, ShapeInv, Training, Lengths
<1>4. TrainInv' /\ SumInv'
  BY <1>1 DEF TrainInv, SumInv, Training
<1>5. TableInv'
  BY <1>1 DEF IInv, TableInv
<1>6. ASSUME CodesFit
      PROVE  /\ encoded' = <<>> /\ todo' \subseteq DOMAIN data /\ block \in Nat
             /\ codes' = [b \in Bytes(Len(data)) |-> codes'[b]]
             /\ Coded(metric, centroids, codes', data, Begun(Len(data), block) \ todo')
             /\ Coded(metric, centroids, codes', encoded, DOMAIN encoded)
  <2>1. /\ encoded = <<>> /\ todo \subseteq DOMAIN data /\ block \in Nat
        /\ codes = [b \in Bytes(Len(data)) |-> codes[b]]
        /\ Coded(metric, centroids, codes, data, Begun(Len(data), block) \ todo)
    BY <1>1, <1>6 DEF IInv, CodeInv
  <2>2. DOMAIN codes = Bytes(Len(data))
    BY <2>1
  <2>3. codes' = [b \in Bytes(Len(data)) |-> codes'[b]]
    BY <1>1, <2>2
  <2>4. ASSUME NEW j \in Begun(Len(data), block) \ (todo \ {i}), NEW m \in Parts
        PROVE  codes'[(j - 1) * CodeSize + m] = NearestOf(metric, centroids[m], data[j][m])
    <3>. DEFINE b == (j - 1) * CodeSize + m
                e == b - (i - 1) * CodeSize
    <3>1. Len(data) \in Nat /\ i \in 1 .. Len(data) /\ j \in 1 .. Len(data)
      BY <1>2, <2>1, InputIs DEF Begun
    <3>2. b \in DOMAIN codes /\ (i = j => e = m) /\ (i # j => e \notin Parts)
      BY <1>6, <2>2, <3>1, PlacesApart
    <3>3. codes'[b] = IF e \in Parts THEN NearestOf(metric, centroids[e], data[i][e]) % 256 ELSE codes[b]
      BY <1>1, <3>2
    <3>. HIDE DEF b, e
    <3>4. CASE i = j
      <4>1. codes'[b] = NearestOf(metric, centroids[m], data[j][m]) % 256
        BY <3>2, <3>3, <3>4
      <4>2. NearestOf(metric, centroids[m], data[j][m]) \in Ids
        <5>1. data[j][m] \in Int /\ centroids[m] \in [Ids -> Int]
          BY <1>2, <3>1, InputIs
        <5>. QED BY <5>1, NearestExists
      <4>3. \A k \in Ids : k % 256 = k
        BY <1>6, Sizes DEF CodesFit
      <4>. QED BY <4>1, <4>2, <4>3 DEF b
    <3>5. CASE i # j
      <4>1. codes'[b] = codes[b]
        BY <3>2, <3>3, <3>5
      <4>2. codes[b] = NearestOf(metric, centroids[m], data[j][m])
        BY <2>1, <3>5 DEF Coded, b
      <4>. QED BY <4>1, <4>2 DEF b
    <3>. QED BY <3>4, <3>5
  <2>5. Coded(metric, centroids, codes', data, Begun(Len(data), block) \ todo')
    BY <1>1, <2>4 DEF Coded
  <2>6. Coded(metric, centroids, codes', encoded, DOMAIN encoded)
    BY <2>1 DEF Coded
  <2>. QED BY <1>1, <2>1, <2>3, <2>5, <2>6
<1>7. CodeInv'
  BY <1>1, <1>6 DEF CodeInv
<1>. QED BY <1>3, <1>4, <1>5, <1>7 DEF IInv

\* The next block begins with the blocks before it coded.
LEMMA BlockStep == ASSUME IInv, NextBlock PROVE IInv'
<1>1. /\ phase = "encode" /\ phase' = phase /\ todo = {} /\ block' = block + BlockSize
      /\ todo' = Block(block + BlockSize, Len(data)) /\ block + BlockSize < Len(data)
      /\ UNCHANGED <<metric, seeded, centroids, tables, trained, data, training, codes, encoded>>
  BY DEF NextBlock
<1>2. data \in Inputs
  BY <1>1 DEF IInv, ShapeInv
<1>3. ShapeInv'
  BY <1>1 DEF IInv, ShapeInv, Training, Lengths
<1>4. TrainInv' /\ SumInv' /\ TableInv'
  BY <1>1 DEF IInv, TrainInv, SumInv, TableInv, Training
<1>5. ASSUME CodesFit
      PROVE  /\ todo' \subseteq DOMAIN data /\ block' \in Nat
             /\ Coded(metric, centroids, codes, data, Begun(Len(data), block') \ todo')
  <2>1. /\ block \in Nat
        /\ Coded(metric, centroids, codes, data, Begun(Len(data), block) \ todo)
    BY <1>1, <1>5 DEF IInv, CodeInv
  <2>2. todo' \subseteq DOMAIN data /\ block' \in Nat
    BY <1>1, <1>2, <2>1, Sizes, InputIs DEF Block
  <2>3. Begun(Len(data), block') \ todo' = Begun(Len(data), block) \ todo
    BY <1>1, <1>2, <2>1, Sizes, InputIs DEF Begun, Block
  <2>. QED BY <2>1, <2>2, <2>3
<1>6. CodeInv'
  BY <1>1, <1>5 DEF IInv, CodeInv, Coded
<1>. QED BY <1>3, <1>4, <1>6 DEF IInv

\* When the last block is done the whole batch is coded.
LEMMA FinishStep == ASSUME IInv, FinishEncode PROVE IInv'
<1>1. /\ phase = "encode" /\ phase' = "idle" /\ todo = {} /\ encoded' = data /\ data' = <<>>
      /\ block + BlockSize >= Len(data)
      /\ UNCHANGED <<metric, seeded, centroids, tables, trained, training, todo, codes>>
  BY DEF FinishEncode
<1>2. data \in Inputs
  BY <1>1 DEF IInv, ShapeInv
<1>3. ShapeInv'
  BY <1>1, <1>2 DEF IInv, ShapeInv, Training, Lengths
<1>4. TrainInv' /\ SumInv'
  BY <1>1 DEF TrainInv, SumInv, Training
<1>5. TableInv'
  BY <1>1 DEF IInv, TableInv
<1>6. CodeInv'
  <2>. SUFFICES ASSUME CodesFit PROVE Coded(metric, centroids, codes, data, DOMAIN data)
    BY <1>1 DEF CodeInv
  <2>1. block \in Nat /\ Coded(metric, centroids, codes, data, Begun(Len(data), block) \ todo)
    BY <1>1 DEF IInv, CodeInv
  <2>2. Len(data) \in Nat /\ DOMAIN data = 1 .. Len(data) /\ BlockSize \in Nat
    BY <1>2, Sizes, InputIs
  <2>3. Begun(Len(data), block) = 1 .. Len(data)
    BY <1>1, <2>1, <2>2 DEF Begun
  <2>4. Begun(Len(data), block) \ todo = DOMAIN data
    BY <1>1, <2>2, <2>3
  <2>. QED BY <2>1, <2>4
<1>. QED BY <1>3, <1>4, <1>5, <1>6 DEF IInv

\* No step breaks the invariant.
LEMMA InvIsKept == IInv /\ [Next]_vars => IInv'
<1>. SUFFICES ASSUME IInv, [Next]_vars PROVE IInv'
  OBVIOUS
<1>1. CASE UNCHANGED vars
  BY <1>1 DEF vars, training, IInv, ShapeInv, TrainInv, SumInv, CodeInv, TableInv, Training, Added
<1>2. ASSUME NEW d \in Inputs, Train(d) \/ Encode(d) PROVE IInv'
  BY <1>2, TrainStep, EncodeStep
<1>3. CASE InitializeCentroids \/ AssignVectors \/ UpdateCentroids \/ SetParameters \/ FinishTrain
          \/ NextBlock \/ FinishEncode
  BY <1>3, InitializeStep, AssignStep, UpdateStep, SetStep, TablesStep, FinishStep, BlockStep
<1>4. ASSUME NEW i \in todo, AddVector(i) \/ ComputePQCode(i) PROVE IInv'
  BY <1>4, AddStep, CodeStep
<1>. QED BY <1>1, <1>2, <1>3, <1>4 DEF Next

\* The invariant holds throughout.
THEOREM InvHolds == Spec => []IInv
BY InitInv, InvIsKept, PTL DEF Spec

-----------------------------------------------------------------------------
(* The properties. *)

\* Training gives each subquantizer what k-means gives for its part.
THEOREM TrainingIsKMeans == Spec => []TrainedAsKMeans
<1>1. IInv => TrainedAsKMeans
  <2>. SUFFICES ASSUME IInv, phase = "tables" PROVE \A m \in Parts : centroids[m] = KMeans(data, m)[Iterations]
    BY DEF TrainedAsKMeans
  <2>1. part = M /\ \A m \in Parts : m < part => centroids[m] = KMeansOf(metric, seeded, data, m)[Iterations]
    BY DEF IInv, ShapeInv, TrainInv, Training
  <2>2. \A m \in Parts : m < M
    BY Sizes
  <2>. QED BY <2>1, <2>2, SameKMeans
<1>. QED BY <1>1, InvHolds, PTL

\* No assignment and no move takes the vectors further from their centroids.
THEOREM DistortionShrinks == Spec => DistortionNeverGrows
<1>1. ASSUME IInv, [Next]_vars, metric = "L2", phase \in {"assign", "sum"} PROVE Distortion' <= Distortion
  <2>1. /\ data \in Inputs /\ part \in Parts /\ local \in [Ids -> Int]
        /\ assignment \in [DOMAIN data -> Ids]
    BY <1>1 DEF IInv, ShapeInv, Training
  <2>2. Distortion = DistortionOf("L2", data, part, local, assignment)
    BY <1>1 DEF Distortion, DistortionOf, Distance, DistanceOf
  <2>3. metric' = "L2" => Distortion' = DistortionOf("L2", data', part', local', assignment')
    BY DEF Distortion, DistortionOf, Distance, DistanceOf
  <2>4. Distortion \in Int
    <3>1. \A i \in DOMAIN data : DistanceOf("L2", data[i][part], local[assignment[i]]) \in Int
      BY <2>1, InputIs, DistanceIsNumber
    <3>2. [i \in DOMAIN data |-> DistanceOf("L2", data[i][part], local[assignment[i]])] \in [DOMAIN data -> Int]
      BY <3>1
    <3>. QED BY <2>1, <2>2, <3>2, InputIs, TotalIsNumber DEF DistortionOf
  <2>5. ASSUME UNCHANGED <<metric, data, part, local, assignment>> PROVE Distortion' <= Distortion
    <3>1. Distortion' = Distortion
      BY <1>1, <2>2, <2>3, <2>5
    <3>. QED BY <2>4, <3>1
  <2>6. CASE UNCHANGED vars
    BY <2>5, <2>6 DEF vars, training
  <2>7. CASE AssignVectors
    <3>1. /\ assignment' = NearestAll("L2", data, part, local)
          /\ UNCHANGED <<metric, data, part, local>>
      BY <1>1, <2>7, SameNearest DEF AssignVectors, NearestAll
    <3>2. DistortionOf("L2", data, part, local, assignment') <= DistortionOf("L2", data, part, local, assignment)
      BY <2>1, <3>1, AssigningHelps
    <3>. QED BY <1>1, <2>2, <2>3, <3>1, <3>2
  <2>8. CASE UpdateCentroids
    <3>1. /\ phase = "sum" /\ todo = {} /\ local' = Means
          /\ UNCHANGED <<metric, data, part, assignment>>
      BY <2>8 DEF UpdateCentroids
    <3>2. local' = MovedOf("L2", data, part, local)
      BY <1>1, <3>1, MeansAreMoved
    <3>3. assignment = NearestAll("L2", data, part, local)
      BY <1>1, <3>1 DEF IInv, SumInv
    <3>4. DistortionOf("L2", data, part, local', assignment) <= DistortionOf("L2", data, part, local, assignment)
      BY <2>1, <3>2, <3>3, MovingHelps
    <3>. QED BY <1>1, <2>2, <2>3, <3>1, <3>4
  <2>9. ASSUME NEW i \in todo, AddVector(i) PROVE Distortion' <= Distortion
    BY <2>5, <2>9 DEF AddVector
  <2>10. ASSUME NEW d \in Inputs, Train(d) \/ Encode(d) PROVE FALSE
    BY <1>1, <2>10 DEF Train, Encode
  <2>11. CASE InitializeCentroids \/ SetParameters \/ FinishTrain \/ NextBlock \/ FinishEncode
    BY <1>1, <2>11 DEF InitializeCentroids, SetParameters, FinishTrain, NextBlock, FinishEncode
  <2>12. ASSUME NEW i \in todo, ComputePQCode(i) PROVE FALSE
    BY <1>1, <2>12 DEF ComputePQCode
  <2>. QED BY <1>1, <2>6, <2>7, <2>8, <2>9, <2>10, <2>11, <2>12 DEF Next
<1>2. IInv /\ [Next]_vars => [metric = "L2" /\ phase \in {"assign", "sum"} => Distortion' <= Distortion]_vars
  BY <1>1
<1>. QED BY <1>2, InvHolds, PTL DEF Spec, DistortionNeverGrows

\* If codes fit the places they are given, no code is closer to a vector than its
\* own, and codes are as far from each other as the vectors they stand for.
THEOREM CodesStandForVectors == Spec => []DistancesAgree
<1>1. ASSUME IInv, phase = "idle", CodesFit, NEW i \in DOMAIN encoded PROVE Code(i) \in [Parts -> Ids]
  <2>1. encoded \in Inputs
    BY <1>1 DEF IInv, ShapeInv
  <2>2. centroids \in [Parts -> [Ids -> Int]] /\ Coded(metric, centroids, codes, encoded, DOMAIN encoded)
    BY <1>1 DEF IInv, ShapeInv, CodeInv
  <2>3. ASSUME NEW m \in Parts PROVE codes[(i - 1) * CodeSize + m] \in Ids
    <3>1. codes[(i - 1) * CodeSize + m] = NearestOf(metric, centroids[m], encoded[i][m])
      BY <2>2 DEF Coded
    <3>2. encoded[i][m] \in Int /\ centroids[m] \in [Ids -> Int]
      BY <2>1, <2>2, InputIs
    <3>. QED BY <3>1, <3>2, NearestExists
  <2>. QED BY <2>3 DEF Code
<1>2. ASSUME IInv, phase = "idle", CodesFit, NEW i \in DOMAIN encoded, NEW m \in Parts, NEW k \in Ids
      PROVE  AsymmetricDistance(encoded[i], Code(i)) <=
                 AsymmetricDistance(encoded[i], [Code(i) EXCEPT ![m] = k])
  <2>. DEFINE x == encoded[i]
              c == Code(i)
              e == [c EXCEPT ![m] = k]
              f == [n \in Parts |-> DistanceOf(metric, x[n], centroids[n][c[n]])]
              h == [n \in Parts |-> DistanceOf(metric, x[n], centroids[n][e[n]])]
  <2>1. encoded \in Inputs
    BY <1>2 DEF IInv, ShapeInv
  <2>2. centroids \in [Parts -> [Ids -> Int]] /\ Coded(metric, centroids, codes, encoded, DOMAIN encoded)
    BY <1>2 DEF IInv, ShapeInv, CodeInv
  <2>3. c \in [Parts -> Ids]
    BY <1>1, <1>2
  <2>4. \A n \in Parts : x[n] \in Int
    BY <2>1, InputIs
  <2>5. c[m] = NearestOf(metric, centroids[m], x[m])
    BY <2>2 DEF Coded, Code
  <2>. HIDE DEF c, x
  <2>6. e \in [Parts -> Ids] /\ e[m] = k /\ \A n \in Parts : n # m => e[n] = c[n]
    BY <2>3
  <2>. HIDE DEF e
  <2>7. f \in [Parts -> Int] /\ h \in [Parts -> Int]
    <3>1. \A n \in Parts : centroids[n][c[n]] \in Int /\ centroids[n][e[n]] \in Int
      BY <2>2, <2>3, <2>6
    <3>. QED BY <2>4, <3>1, DistanceIsNumber
  <2>8. \A n \in Parts : n # m => h[n] = f[n]
    BY <2>6
  <2>9. f[m] <= h[m]
    <3>1. x[m] \in Int /\ centroids[m] \in [Ids -> Int]
      BY <2>2, <2>4
    <3>2. DistanceOf(metric, x[m], centroids[m][NearestOf(metric, centroids[m], x[m])])
              <= DistanceOf(metric, x[m], centroids[m][k])
      BY <3>1, NearestExists
    <3>. QED BY <2>5, <2>6, <3>2
  <2>10. AsymmetricDistance(x, c) = Total(f) /\ AsymmetricDistance(x, e) = Total(h)
    <3>1. ASSUME NEW code \in [Parts -> Ids]
          PROVE  AsymmetricDistance(x, code) = Total([n \in Parts |-> DistanceOf(metric, x[n], centroids[n][code[n]])])
      <4>1. \A n \in Parts : computeDistanceTable(x)[n][code[n]] = DistanceOf(metric, x[n], centroids[n][code[n]])
        BY DEF computeDistanceTable, Distance, DistanceOf
      <4>2. [n \in Parts |-> computeDistanceTable(x)[n][code[n]]] = [n \in Parts |-> DistanceOf(metric, x[n], centroids[n][code[n]])]
        BY <4>1
      <4>. QED BY <4>2 DEF AsymmetricDistance
    <3>. QED BY <2>3, <2>6, <3>1
  <2>11. IsFiniteSet(Parts)
    BY Sizes, FS_Interval
  <2>. HIDE DEF f, h
  <2>12. Total(h) = Total(f) - f[m] + h[m]
    BY <2>7, <2>8, <2>11, TotalChanges
  <2>13. Total(f) \in Int /\ f[m] \in Int /\ h[m] \in Int
    BY <2>7, <2>11, TotalIsNumber
  <2>14. Total(f) <= Total(h)
    BY <2>9, <2>12, <2>13
  <2>. QED BY <2>10, <2>14 DEF c, x, e
<1>3. ASSUME IInv, phase = "idle", CodesFit, trained, NEW i \in DOMAIN encoded, NEW j \in DOMAIN encoded
      PROVE  SymmetricDistance(Code(i), Code(j)) =
                 AsymmetricDistance(StandsFor(Code(i)), Code(j))
  <2>. DEFINE a == Code(i)
              b == Code(j)
              x == [m \in Parts |-> centroids[m][a[m]]]
  <2>1. a \in [Parts -> Ids] /\ b \in [Parts -> Ids]
    BY <1>1, <1>3
  <2>2. tables = TablesOf(metric, centroids)
    BY <1>3 DEF IInv, TableInv
  <2>. HIDE DEF a, b
  <2>3. \A m \in Parts : tables[m][a[m]][b[m]] = computeDistanceTable(x)[m][b[m]]
    BY <2>1, <2>2 DEF TablesOf, computeDistanceTable, Distance, DistanceOf
  <2>4. [m \in Parts |-> tables[m][a[m]][b[m]]] = [m \in Parts |-> computeDistanceTable(x)[m][b[m]]]
    BY <2>3
  <2>5. SymmetricDistance(a, b) = AsymmetricDistance(x, b)
    BY <2>4 DEF SymmetricDistance, AsymmetricDistance
  <2>. QED BY <2>5 DEF a, b, StandsFor
<1>4. IInv => DistancesAgree
  BY <1>2, <1>3 DEF DistancesAgree
<1>. QED BY <1>4, InvHolds, PTL

=============================================================================
