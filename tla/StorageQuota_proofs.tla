-------------------------- MODULE StorageQuota_proofs --------------------------
(***************************************************************************)
(* Proofs about StorageQuota, for any files, uploads, partitions and       *)
(* number of handlers: the types, that while uploads are blocked nothing   *)
(* but unchecked bookings adds to the storage, that an upload in chunks is *)
(* booked once, what its file can lack, by how much the checked bookings   *)
(* exceed the limit and, for one handler at a time, that the partitions    *)
(* fit the limit and the files their partitions.                           *)
(***************************************************************************)
EXTENDS StorageQuota, FiniteSetTheorems, TLAPS

AllSlips == {"overlap", "parallelChunks", "abandonedLock", "restored", "moved", "renamed", "lowered"}

-------------------------------------------------------------------------------
(* Sums over finite sets *)

\* Induction over the subsets of a finite set: C is the set of those that have
\* the property.
LEMMA SetInduction ==
  ASSUME NEW S, IsFiniteSet(S), NEW C, {} \in C,
         \A T \in SUBSET S : \A x \in S \ T : T \in C => T \cup {x} \in C
  PROVE  S \in C
<1> DEFINE Without == {T \in SUBSET S : T \notin C}
<1>1. SUFFICES ASSUME S \notin C PROVE FALSE
  OBVIOUS
<1>2. Without \subseteq SUBSET S /\ Without # {}
  BY <1>1
<1>3. IsWellFoundedOn(StrictSubsetOrdering(S), SUBSET S)
  BY FS_StrictSubsetOrderingWellFounded, FS_FiniteSubsetsOfFinite
<1>4. \E T \in Without : \A U \in Without : ~ (<<U, T>> \in StrictSubsetOrdering(S))
  <2> HIDE DEF Without
  <2>1. QED
    BY <1>2, <1>3, WFMin
<1>5. PICK T \in Without : \A U \in Without : ~ (<<U, T>> \in StrictSubsetOrdering(S))
  BY <1>4
<1>6. PICK x \in T : TRUE
  BY <1>5
<1> DEFINE U == T \ {x}
<1>7. U \in SUBSET S /\ x \in S \ U /\ U \cup {x} = T /\ U \subseteq T /\ U # T
  BY <1>5, <1>6
<1>8. <<U, T>> \in StrictSubsetOrdering(S)
  BY <1>5, <1>7 DEF StrictSubsetOrdering
<1>9. U \in C
  BY <1>5, <1>7, <1>8
<1>10. T \in C
  BY <1>7, <1>9
<1>11. QED
  BY <1>5, <1>10

\* h gives each subset of S the sum of g over it.
Adds(h, g, S) ==
  /\ h \in [SUBSET S -> Nat]
  /\ h[{}] = 0
  /\ \A T \in SUBSET S : \A x \in S \ T : h[T \cup {x}] = h[T] + g[x]

LEMMA AddsExists ==
  ASSUME NEW S, IsFiniteSet(S), NEW g, \A x \in S : g[x] \in Nat
  PROVE  \E h : Adds(h, g, S)
<1> DEFINE C == {T \in SUBSET S : \E h : Adds(h, g, T)}
<1>1. {} \in C
  <2>1. Adds([T \in SUBSET {} |-> 0], g, {})
    BY DEF Adds
  <2>2. QED
    BY <2>1
<1>2. ASSUME NEW T \in SUBSET S, NEW x \in S \ T, T \in C
      PROVE  T \cup {x} \in C
  <2>1. PICK h : Adds(h, g, T)
    BY <1>2
  <2> DEFINE R == T \cup {x}
             k == [U \in SUBSET R |-> IF x \in U THEN h[U \ {x}] + g[x] ELSE h[U]]
  <2>2. \A U \in SUBSET R : U \ {x} \in SUBSET T /\ (x \notin U => U \in SUBSET T) /\ (x \notin U => U \ {x} = U)
    OBVIOUS
  <2>3. k \in [SUBSET R -> Nat]
    BY <2>1, <2>2 DEF Adds
  <2>4. k[{}] = 0
    BY <2>1 DEF Adds
  <2>5. ASSUME NEW U \in SUBSET R, NEW y \in R \ U
        PROVE  k[U \cup {y}] = k[U] + g[y]
    <3>1. CASE y = x
      <4>1. U \in SUBSET T /\ (U \cup {x}) \ {x} = U /\ U \cup {x} \in SUBSET R /\ x \notin U
        BY <2>5, <3>1
      <4>2. QED
        BY <3>1, <4>1
    <3>2. CASE y # x /\ x \notin U
      <4>1. U \in SUBSET T /\ U \cup {y} \in SUBSET T /\ y \in T \ U /\ x \notin U \cup {y} /\ U \cup {y} \in SUBSET R
        BY <2>5, <3>2
      <4>2. h[U \cup {y}] = h[U] + g[y]
        BY <2>1, <4>1 DEF Adds
      <4>3. QED
        BY <3>2, <4>1, <4>2
    <3>3. CASE y # x /\ x \in U
      <4> DEFINE V == U \ {x}
      <4>1. V \in SUBSET T /\ y \in T \ V /\ (U \cup {y}) \ {x} = V \cup {y} /\ x \in U \cup {y} /\ U \cup {y} \in SUBSET R
        BY <2>5, <3>3
      <4>2. h[V \cup {y}] = h[V] + g[y] /\ h[V] \in Nat /\ h[V \cup {y}] \in Nat
        BY <2>1, <4>1 DEF Adds
      <4>3. g[x] \in Nat /\ g[y] \in Nat
        BY <2>5
      <4>4. k[U \cup {y}] = h[V \cup {y}] + g[x] /\ k[U] = h[V] + g[x]
        BY <3>3, <4>1
      <4> HIDE DEF k, V
      <4>5. QED
        BY <4>2, <4>3, <4>4
    <3>4. QED
      BY <3>1, <3>2, <3>3
  <2>6. Adds(k, g, R)
    <3> HIDE DEF k
    <3>1. QED
      BY <2>3, <2>4, <2>5 DEF Adds
  <2>7. QED
    BY <2>6
<1>3. S \in C
  <2> HIDE DEF C
  <2>1. QED
    BY <1>1, <1>2, SetInduction
<1>4. QED
  BY <1>3

LEMMA AddsUnique ==
  ASSUME NEW S, IsFiniteSet(S), NEW g, NEW h, NEW k, Adds(h, g, S), Adds(k, g, S)
  PROVE  h = k
<1>1. ASSUME NEW R \in SUBSET S
      PROVE  h[R] = k[R]
  <2> DEFINE C == {T \in SUBSET R : h[T] = k[T]}
  <2>1. {} \in C
    BY DEF Adds
  <2>2. ASSUME NEW T \in SUBSET R, NEW x \in R \ T, T \in C
        PROVE  T \cup {x} \in C
    <3>1. T \in SUBSET S /\ x \in S \ T
      OBVIOUS
    <3>2. h[T \cup {x}] = h[T] + g[x] /\ k[T \cup {x}] = k[T] + g[x]
      BY <3>1 DEF Adds
    <3>3. QED
      BY <2>2, <3>2
  <2>3. IsFiniteSet(R)
    BY FS_Subset
  <2>4. R \in C
    <3> HIDE DEF C
    <3>1. QED
      BY <2>1, <2>2, <2>3, SetInduction
  <2>5. QED
    BY <2>4
<1>2. QED
  BY <1>1 DEF Adds

\* The recursion behind MapThenSumSet: some element is taken off first.
Recurs(h, g, S) ==
  h = [T \in SUBSET S |-> IF T = {} THEN 0 ELSE g[CHOOSE x \in T : TRUE] + h[T \ {CHOOSE x \in T : TRUE}]]

LEMMA AddsRecurs ==
  ASSUME NEW S, NEW g, \A x \in S : g[x] \in Nat, NEW h, Adds(h, g, S)
  PROVE  Recurs(h, g, S)
<1>1. ASSUME NEW T \in SUBSET S
      PROVE  h[T] = IF T = {} THEN 0 ELSE g[CHOOSE x \in T : TRUE] + h[T \ {CHOOSE x \in T : TRUE}]
  <2>1. CASE T = {}
    BY <2>1 DEF Adds
  <2>2. CASE T # {}
    <3> DEFINE x == CHOOSE x \in T : TRUE
    <3>1. x \in T
      BY <2>2
    <3> HIDE DEF x
    <3>2. T \ {x} \in SUBSET S /\ x \in S \ (T \ {x}) /\ (T \ {x}) \cup {x} = T
      BY <3>1
    <3>3. h[T] = h[T \ {x}] + g[x] /\ h[T \ {x}] \in Nat /\ g[x] \in Nat
      BY <3>2 DEF Adds
    <3>4. h[T] = g[x] + h[T \ {x}]
      BY <3>3
    <3>5. QED
      BY <2>2, <3>4 DEF x
  <2>3. QED
    BY <2>1, <2>2
<1>2. h = [T \in SUBSET S |-> h[T]]
  BY DEF Adds
<1>3. QED
  BY <1>1, <1>2 DEF Recurs

LEMMA RecursUnique ==
  ASSUME NEW S, IsFiniteSet(S), NEW g, NEW h, NEW k, Recurs(h, g, S), Recurs(k, g, S)
  PROVE  h = k
<1> DEFINE Differ == {T \in SUBSET S : h[T] # k[T]}
<1>1. SUFFICES ASSUME Differ # {} PROVE FALSE
  BY DEF Recurs
<1>2. IsWellFoundedOn(StrictSubsetOrdering(S), SUBSET S) /\ Differ \subseteq SUBSET S
  BY FS_StrictSubsetOrderingWellFounded, FS_FiniteSubsetsOfFinite
<1>3. \E T \in Differ : \A U \in Differ : ~ (<<U, T>> \in StrictSubsetOrdering(S))
  <2> HIDE DEF Differ
  <2>1. QED
    BY <1>1, <1>2, WFMin
<1>4. PICK T \in Differ : \A U \in Differ : ~ (<<U, T>> \in StrictSubsetOrdering(S))
  BY <1>3
<1>5. h[{}] = 0 /\ k[{}] = 0
  BY DEF Recurs
<1> DEFINE x == CHOOSE x \in T : TRUE
<1>6. T # {} /\ x \in T
  BY <1>4, <1>5
<1>7. h[T] = g[x] + h[T \ {x}] /\ k[T] = g[x] + k[T \ {x}]
  BY <1>4, <1>6 DEF Recurs
<1> HIDE DEF x
<1>8. <<T \ {x}, T>> \in StrictSubsetOrdering(S) /\ T \ {x} \in SUBSET S
  BY <1>4, <1>6 DEF StrictSubsetOrdering
<1>9. h[T \ {x}] = k[T \ {x}]
  BY <1>4, <1>8
<1>10. h[T] = k[T]
  BY <1>7, <1>9
<1>11. QED
  BY <1>4, <1>10

\* The sum of g over S.
Sum(g, S) == (CHOOSE h : Adds(h, g, S))[S]

LEMMA SumAdds ==
  ASSUME NEW S, IsFiniteSet(S), NEW g, \A x \in S : g[x] \in Nat
  PROVE  \E h : Adds(h, g, S) /\ Sum(g, S) = h[S]
BY AddsExists DEF Sum

\* What MapThenSumSet comes to, when its operator is the function g on S.
LEMMA RecursSum ==
  ASSUME NEW S, IsFiniteSet(S), NEW g, \A x \in S : g[x] \in Nat
  PROVE  /\ \E h : Recurs(h, g, S)
         /\ \A h : Recurs(h, g, S) => h[S] = Sum(g, S)
<1>1. PICK k : Adds(k, g, S) /\ Sum(g, S) = k[S]
  BY SumAdds
<1>2. Recurs(k, g, S)
  BY <1>1, AddsRecurs
<1>3. ASSUME NEW h, Recurs(h, g, S)
      PROVE  h[S] = Sum(g, S)
  BY <1>1, <1>2, <1>3, RecursUnique
<1>4. QED
  BY <1>2, <1>3

\* Any subset is summed by the same function.
LEMMA SumWithin ==
  ASSUME NEW S, IsFiniteSet(S), NEW g, NEW h, Adds(h, g, S), NEW T \in SUBSET S
  PROVE  Sum(g, T) = h[T]
<1> DEFINE k == [U \in SUBSET T |-> h[U]]
<1>1. k \in [SUBSET T -> Nat] /\ k[{}] = 0
  BY DEF Adds
<1>2. ASSUME NEW U \in SUBSET T, NEW x \in T \ U
      PROVE  k[U \cup {x}] = k[U] + g[x]
  BY DEF Adds
<1>3. Adds(k, g, T) /\ k[T] = h[T]
  <2>1. k[T] = h[T]
    OBVIOUS
  <2> HIDE DEF k
  <2>2. QED
    BY <1>1, <1>2, <2>1 DEF Adds
<1>4. IsFiniteSet(T)
  BY FS_Subset
<1> DEFINE c == CHOOSE c : Adds(c, g, T)
<1>5. Adds(c, g, T)
  BY <1>3
<1> HIDE DEF k, c
<1>6. c = k
  BY <1>3, <1>4, <1>5, AddsUnique
<1>7. QED
  BY <1>3, <1>6 DEF Sum, c

LEMMA SumNat ==
  ASSUME NEW S, IsFiniteSet(S), NEW g, \A x \in S : g[x] \in Nat
  PROVE  Sum(g, S) \in Nat
<1>1. PICK h : Adds(h, g, S) /\ Sum(g, S) = h[S]
  BY SumAdds
<1>2. QED
  BY <1>1 DEF Adds

LEMMA SumEmpty ==
  ASSUME NEW g
  PROVE  Sum(g, {}) = 0
<1>1. IsFiniteSet({})
  BY FS_EmptySet
<1>2. PICK h : Adds(h, g, {}) /\ Sum(g, {}) = h[{}]
  BY <1>1, SumAdds
<1>3. QED
  BY <1>2 DEF Adds

\* One element more.
LEMMA SumInsert ==
  ASSUME NEW S, IsFiniteSet(S), NEW x, x \notin S, NEW g, \A y \in S \cup {x} : g[y] \in Nat
  PROVE  Sum(g, S \cup {x}) = Sum(g, S) + g[x]
<1> DEFINE R == S \cup {x}
<1>1. IsFiniteSet(R)
  BY FS_AddElement
<1> HIDE DEF R
<1>2. \A y \in R : g[y] \in Nat
  BY DEF R
<1>3. PICK h : Adds(h, g, R) /\ Sum(g, R) = h[R]
  BY <1>1, <1>2, SumAdds
<1>4. S \in SUBSET R /\ x \in R \ S /\ R = S \cup {x}
  BY DEF R
<1>5. Sum(g, S) = h[S]
  BY <1>1, <1>3, <1>4, SumWithin
<1>6. h[S \cup {x}] = h[S] + g[x]
  BY <1>3, <1>4 DEF Adds
<1>7. QED
  BY <1>3, <1>4, <1>5, <1>6

LEMMA SumRemove ==
  ASSUME NEW S, IsFiniteSet(S), NEW x \in S, NEW g, \A y \in S : g[y] \in Nat
  PROVE  Sum(g, S) = Sum(g, S \ {x}) + g[x]
<1> DEFINE R == S \ {x}
<1>1. IsFiniteSet(R)
  BY FS_RemoveElement
<1>2. x \notin R /\ R \cup {x} = S /\ \A y \in R \cup {x} : g[y] \in Nat
  OBVIOUS
<1> HIDE DEF R
<1>3. Sum(g, R \cup {x}) = Sum(g, R) + g[x]
  BY <1>1, <1>2, SumInsert
<1>4. QED
  BY <1>2, <1>3 DEF R

\* Summands that are no larger give a sum that is no larger.
LEMMA SumLeq ==
  ASSUME NEW S, IsFiniteSet(S), NEW g, NEW h, \A x \in S : g[x] \in Nat /\ h[x] \in Nat /\ g[x] <= h[x]
  PROVE  Sum(g, S) <= Sum(h, S)
<1> DEFINE C == {T \in SUBSET S : Sum(g, T) <= Sum(h, T)}
<1>1. {} \in C
  <2>1. Sum(g, {}) = 0 /\ Sum(h, {}) = 0
    BY SumEmpty
  <2>2. QED
    BY <2>1
<1>2. ASSUME NEW T \in SUBSET S, NEW x \in S \ T, T \in C
      PROVE  T \cup {x} \in C
  <2>1. IsFiniteSet(T)
    BY FS_Subset
  <2>2. \A y \in T \cup {x} : g[y] \in Nat /\ h[y] \in Nat /\ g[y] <= h[y]
    OBVIOUS
  <2>3. Sum(g, T \cup {x}) = Sum(g, T) + g[x] /\ Sum(h, T \cup {x}) = Sum(h, T) + h[x]
    BY <2>1, <2>2, SumInsert
  <2>4. Sum(g, T) \in Nat /\ Sum(h, T) \in Nat
    BY <2>1, <2>2, SumNat
  <2>5. Sum(g, T) <= Sum(h, T) /\ g[x] <= h[x] /\ g[x] \in Nat /\ h[x] \in Nat
    BY <1>2
  <2>6. Sum(g, T \cup {x}) <= Sum(h, T \cup {x})
    BY <2>3, <2>4, <2>5
  <2>7. QED
    BY <2>6
<1>3. S \in C
  <2> HIDE DEF C
  <2>1. QED
    BY <1>1, <1>2, SetInduction
<1>4. QED
  BY <1>3

LEMMA SumSame ==
  ASSUME NEW S, IsFiniteSet(S), NEW g, NEW h, \A x \in S : g[x] \in Nat /\ h[x] = g[x]
  PROVE  Sum(g, S) = Sum(h, S)
<1>1. \A x \in S : h[x] \in Nat /\ g[x] <= h[x] /\ h[x] <= g[x]
  OBVIOUS
<1>2. Sum(g, S) <= Sum(h, S) /\ Sum(h, S) <= Sum(g, S)
  BY <1>1, SumLeq
<1>3. Sum(g, S) \in Nat /\ Sum(h, S) \in Nat
  BY <1>1, SumNat
<1>4. QED
  BY <1>2, <1>3

\* One summand changes.
LEMMA SumChange ==
  ASSUME NEW S, IsFiniteSet(S), NEW g, NEW h, NEW x \in S, \A y \in S : g[y] \in Nat /\ h[y] \in Nat,
         \A y \in S \ {x} : h[y] = g[y]
  PROVE  Sum(h, S) + g[x] = Sum(g, S) + h[x]
<1> DEFINE R == S \ {x}
<1>1. IsFiniteSet(R) /\ \A y \in R : g[y] \in Nat /\ h[y] = g[y]
  BY FS_RemoveElement
<1>2. Sum(g, S) = Sum(g, R) + g[x] /\ Sum(h, S) = Sum(h, R) + h[x]
  BY SumRemove
<1> HIDE DEF R
<1>3. Sum(g, R) = Sum(h, R) /\ Sum(g, R) \in Nat
  BY <1>1, SumSame, SumNat
<1>4. QED
  BY <1>2, <1>3

LEMMA SumSubset ==
  ASSUME NEW S, IsFiniteSet(S), NEW T \in SUBSET S, NEW g, \A x \in S : g[x] \in Nat
  PROVE  Sum(g, T) <= Sum(g, S)
<1> DEFINE R == S \ T
<1>1. IsFiniteSet(T) /\ Sum(g, T) \in Nat
  <2>1. IsFiniteSet(T)
    BY FS_Subset
  <2>2. QED
    BY <2>1, SumNat
<1> DEFINE D == {U \in SUBSET R : Sum(g, T) <= Sum(g, T \cup U)}
<1>2. {} \in D
  BY <1>1
<1>3. ASSUME NEW U \in SUBSET R, NEW x \in R \ U, U \in D
      PROVE  U \cup {x} \in D
  <2> DEFINE V == T \cup U
  <2>1. V \in SUBSET S /\ x \in S \ V /\ V \cup {x} = T \cup (U \cup {x})
    OBVIOUS
  <2>2. Sum(g, T) <= Sum(g, V)
    BY <1>3
  <2> HIDE DEF V
  <2>3. IsFiniteSet(V) /\ \A y \in V \cup {x} : g[y] \in Nat
    BY <2>1, FS_Subset
  <2>4. Sum(g, V \cup {x}) = Sum(g, V) + g[x] /\ Sum(g, V) \in Nat
    BY <2>1, <2>3, SumInsert, SumNat
  <2>5. Sum(g, T) <= Sum(g, V \cup {x})
    BY <1>1, <2>1, <2>2, <2>4
  <2>6. QED
    BY <2>1, <2>5
<1>4. IsFiniteSet(R)
  BY FS_Difference
<1>5. R \in D
  <2> HIDE DEF D
  <2>1. QED
    BY <1>2, <1>3, <1>4, SetInduction
<1>6. T \cup R = S
  OBVIOUS
<1>7. QED
  BY <1>5, <1>6

LEMMA SumBounded ==
  ASSUME NEW S, IsFiniteSet(S), NEW g, NEW most \in Nat, \A x \in S : g[x] \in Nat /\ g[x] <= most
  PROVE  Sum(g, S) <= Cardinality(S) * most
<1> DEFINE C == {T \in SUBSET S : Sum(g, T) <= Cardinality(T) * most}
<1>1. {} \in C
  <2>1. Sum(g, {}) = 0 /\ Cardinality({}) = 0
    BY SumEmpty, FS_EmptySet
  <2>2. 0 * most = 0
    OBVIOUS
  <2>3. QED
    BY <2>1, <2>2
<1>2. ASSUME NEW T \in SUBSET S, NEW x \in S \ T, T \in C
      PROVE  T \cup {x} \in C
  <2>1. IsFiniteSet(T)
    BY FS_Subset
  <2>2. Cardinality(T) \in Nat /\ Cardinality(T \cup {x}) = Cardinality(T) + 1
    BY <2>1, FS_CardinalityType, FS_AddElement
  <2>3. Sum(g, T \cup {x}) = Sum(g, T) + g[x] /\ Sum(g, T) \in Nat
    BY <2>1, SumInsert, SumNat
  <2>4. Sum(g, T) <= Cardinality(T) * most /\ g[x] <= most /\ g[x] \in Nat
    BY <1>2
  <2>5. \A n \in Nat : (n + 1) * most = n * most + most /\ n * most \in Nat
    OBVIOUS
  <2>6. Sum(g, T \cup {x}) <= Cardinality(T \cup {x}) * most
    <3>1. Cardinality(T \cup {x}) * most = Cardinality(T) * most + most /\ Cardinality(T) * most \in Nat
      BY <2>2, <2>5
    <3> DEFINE n == Cardinality(T) * most
    <3> HIDE DEF n
    <3>2. Sum(g, T) <= n /\ n \in Nat /\ Cardinality(T \cup {x}) * most = n + most
      BY <2>4, <3>1 DEF n
    <3>3. QED
      BY <2>3, <2>4, <3>2
  <2>7. QED
    BY <2>6
<1>3. S \in C
  <2> HIDE DEF C
  <2>1. QED
    BY <1>1, <1>2, SetInduction
<1>4. QED
  BY <1>3

\* A finite set of numbers has a largest one.
LEMMA MaxIs ==
  ASSUME NEW S \in SUBSET Nat, IsFiniteSet(S), S # {}
  PROVE  Max(S) \in S /\ \A x \in S : x <= Max(S)
<1> DEFINE C == {T \in SUBSET S : T # {} => \E m \in T : \A x \in T : m >= x}
<1>1. {} \in C
  OBVIOUS
<1>2. ASSUME NEW T \in SUBSET S, NEW x \in S \ T, T \in C
      PROVE  T \cup {x} \in C
  <2>1. CASE T = {}
    BY <2>1
  <2>2. CASE T # {}
    <3>1. PICK m \in T : \A y \in T : m >= y
      BY <1>2, <2>2
    <3>2. CASE m >= x
      BY <3>1, <3>2
    <3>3. CASE ~(m >= x)
      <4>1. \A y \in T \cup {x} : x >= y
        BY <3>1, <3>3
      <4>2. QED
        BY <4>1
    <3>4. QED
      BY <3>2, <3>3
  <2>3. QED
    BY <2>1, <2>2
<1>3. S \in C
  <2> HIDE DEF C
  <2>1. QED
    BY <1>1, <1>2, SetInduction
<1>4. \E m \in S : \A x \in S : m >= x
  BY <1>3
<1>5. QED
  BY <1>4 DEF Max

-------------------------------------------------------------------------------
(* The stages of a handler *)

ChunkStages == {"early", "make", "open", "write", "wait", "dup", "merge", "store"}

\* What a stage says of the handler that has reached it.
JobFits(q) ==
  /\ q.pc \in ChunkStages => q.kind = "chunk"
  /\ q.pc \in {"quota", "insert"} => q.kind \in Bookings
  /\ q.pc = "copy" => q.kind \in Copies
  /\ q.pc = "save" => q.file \in Files
  /\ q.kind = "chunk" <=> q.of \in Uploads
  /\ q.kind = "chunk" => q.name = q.of

JobsFit == \A w \in Workers : JobFits(job[w])

LEMMA NoJobType == NoJob \in Job /\ JobFits(NoJob) /\ NewFile \in File
<1>1. 0 \in Index /\ NoPart \in Zones /\ NoPart \in Source /\ NoPart \notin Uploads
  BY QuotaAssumption DEF Index, Zones, Source, QuotaAssumption
<1>2. NewFile \in File
  BY <1>1 DEF NewFile, File
<1>3. "none" \in JobKinds /\ "idle" \in Places
  BY DEF JobKinds, Places
<1>4. NoJob \in Job
  BY <1>1, <1>2, <1>3 DEF NoJob, Job
<1>5. JobFits(NoJob)
  BY <1>1 DEF NoJob, JobFits, ChunkStages
<1>6. QED
  BY <1>2, <1>4, <1>5

\* A handler that goes on keeps all but its place.
LEMMA PlaceFields ==
  ASSUME NEW q \in Job, NEW pc \in Places
  PROVE  /\ [q EXCEPT !.pc = pc] \in Job
         /\ [q EXCEPT !.pc = pc].pc = pc
         /\ [q EXCEPT !.pc = pc].kind = q.kind /\ [q EXCEPT !.pc = pc].of = q.of
         /\ [q EXCEPT !.pc = pc].lock = q.lock /\ [q EXCEPT !.pc = pc].size = q.size
         /\ [q EXCEPT !.pc = pc].chunk = q.chunk /\ [q EXCEPT !.pc = pc].file = q.file
         /\ [q EXCEPT !.pc = pc].name = q.name /\ [q EXCEPT !.pc = pc].copy = q.copy
         /\ [q EXCEPT !.pc = pc].part = q.part /\ [q EXCEPT !.pc = pc].max = q.max
BY DEF Job

\* A step of one handler, whatever it does to the rest.
Becomes(w, q) == job' = [job EXCEPT ![w] = q]

LEMMA BecomesFields ==
  ASSUME QuotaTypeOK, NEW w \in Workers, NEW q \in Job, Becomes(w, q)
  PROVE  job' \in [Workers -> Job] /\ job'[w] = q /\ \A v \in Workers \ {w} : job'[v] = job[v]
BY DEF Becomes, QuotaTypeOK

LEMMA BecomesFits ==
  ASSUME QuotaTypeOK, JobsFit, NEW w \in Workers, NEW q \in Job, Becomes(w, q), JobFits(q)
  PROVE  JobsFit'
BY BecomesFields DEF JobsFit, JobFits

-------------------------------------------------------------------------------
(* How handlers begin *)

\* What concerns the partitions: a partition is made under a new id, and a
\* file only goes to one that has been made.
PartStage(pc, kind, p) ==
  /\ pc \in {"fit", "sum", "put", "purge", "drop"} => p \in Parts
  /\ pc = "fit" => kind = "resize"
  /\ pc \in {"sum", "put"} => kind \in {"create", "resize"}

\* None begins behind a check, and a document is read before it is saved.
AsksFor(q) ==
  /\ q.pc \in {"quota", "copy", "early", "make", "save", "fit", "sum", "purge"}
  /\ q.pc = "quota" => q.kind # "chunk"
  /\ q.size \in Sizes \cup {0} /\ q.max \in {0, limit}
  /\ PartStage(q.pc, q.kind, q.part)
  /\ q.pc = "sum" => part[q.part].state = "fresh" /\ q.kind = "create"
  /\ q.kind \in Bookings \cup Copies => Targets(q.part)
  /\ q.pc = "save" =>
       /\ Kept(q.file) /\ q.copy.of = file[q.file].of /\ q.copy.state = file[q.file].state
       /\ q.copy.part = file[q.file].part \/ Targets(q.copy.part)

\* What all of them have in common.
BeginsAs(w, q) ==
  /\ Becomes(w, q) /\ Idles(w) /\ JobFits(q) /\ AsksFor(q)
  /\ (\E v \in Workers : ~Idles(v)) => "overlap" \in slips'
  /\ q.of \in Uploads /\ (\E v \in Workers : job[v].of = q.of) => "parallelChunks" \in slips'
  /\ slips \subseteq slips' /\ slips' \subseteq AllSlips
  /\ jobs' \in 0..MaxJobs
  /\ UNCHANGED <<file, part, limit, canUpload, dir, lockGen, events, unchecked>>

LEMMA StartJobEffect ==
  ASSUME QuotaTypeOK, NEW w \in Workers, NEW q \in Job, JobFits(q), AsksFor(q), StartJob(w, q)
  PROVE  \E r \in Job : BeginsAs(w, r)
<1>1. Becomes(w, q) /\ Idles(w)
  BY DEF StartJob, Becomes
<1>2. slips \subseteq slips' /\ slips' \subseteq AllSlips /\ jobs' \in 0..MaxJobs
  BY QuotaAssumption DEF StartJob, Slip, QuotaTypeOK, AllSlips, QuotaAssumption
<1>3. (\E v \in Workers : ~Idles(v)) => "overlap" \in slips'
  BY DEF StartJob, Slip
<1>4. q.of \in Uploads /\ (\E v \in Workers : job[v].of = q.of) => "parallelChunks" \in slips'
  BY DEF StartJob, Slip
<1>5. BeginsAs(w, q)
  BY <1>1, <1>2, <1>3, <1>4 DEF BeginsAs, StartJob
<1>6. QED
  BY <1>5

LEMMA BeginUploadEffect ==
  ASSUME QuotaTypeOK, NEW w \in Workers, NEW kind \in {"upload", "workspaceFile"}, NEW size \in Sizes,
         NEW p \in Zones, NEW name \in Source, BeginUpload(w, kind, size, p, name)
  PROVE  \E q \in Job : BeginsAs(w, q)
<1> DEFINE q == [NoJob EXCEPT !.kind = kind, !.pc = "quota", !.part = p, !.size = size, !.name = name]
<1>1. kind \in JobKinds /\ kind \in Bookings /\ kind # "chunk" /\ "quota" \in Places /\ size \in Nat
  BY QuotaAssumption DEF JobKinds, Bookings, Places, Critical, QuotaAssumption
<1>2. StartJob(w, q) /\ Targets(p)
  BY DEF BeginUpload
<1>3. q \in Job
  BY <1>1, NoJobType DEF Job
<1>4. q.kind = kind /\ q.pc = "quota" /\ q.of = NoPart /\ q.part = p /\ q.size = size /\ q.max = 0
  BY NoJobType DEF Job, NoJob
<1> HIDE DEF q
<1>5. JobFits(q)
  BY <1>1, <1>4, QuotaAssumption DEF JobFits, ChunkStages, QuotaAssumption
<1>6. AsksFor(q)
  BY <1>1, <1>2, <1>4 DEF AsksFor, PartStage
<1>7. QED
  BY <1>2, <1>3, <1>5, <1>6, StartJobEffect

LEMMA BeginCopyEffect ==
  ASSUME QuotaTypeOK, NEW w \in Workers, NEW kind \in Copies, NEW p \in Zones, BeginCopy(w, kind, p)
  PROVE  \E q \in Job : BeginsAs(w, q)
<1> DEFINE q == [NoJob EXCEPT !.kind = kind, !.pc = "copy", !.part = p]
<1>1. kind \in JobKinds /\ kind # "chunk" /\ "copy" \in Places
  BY DEF JobKinds, Copies, Places
<1>2. StartJob(w, q) /\ Targets(p)
  BY DEF BeginCopy
<1>3. q \in Job
  BY <1>1, NoJobType DEF Job
<1>4. q.kind = kind /\ q.pc = "copy" /\ q.of = NoPart /\ q.part = p /\ q.size = 0 /\ q.max = 0
  BY NoJobType DEF Job, NoJob
<1> HIDE DEF q
<1>5. JobFits(q)
  BY <1>1, <1>4, QuotaAssumption DEF JobFits, ChunkStages, QuotaAssumption
<1>6. AsksFor(q)
  BY <1>1, <1>2, <1>4 DEF AsksFor, PartStage
<1>7. QED
  BY <1>2, <1>3, <1>5, <1>6, StartJobEffect

LEMMA BeginChunkEffect ==
  ASSUME QuotaTypeOK, NEW w \in Workers, NEW u \in Uploads, NEW c \in Index, BeginChunk(w, u, c)
  PROVE  \E q \in Job : BeginsAs(w, q)
<1> DEFINE pc == IF c = 0 THEN "early" ELSE "make"
           q == [NoJob EXCEPT !.kind = "chunk", !.pc = pc, !.part = TargetOf[u], !.name = u, !.of = u, !.chunk = c]
<1>1. pc \in {"early", "make"} /\ pc \in Places /\ "chunk" \in JobKinds /\ u \in Source /\ TargetOf[u] \in Zones
  BY QuotaAssumption DEF Places, JobKinds, Bookings, Source, Zones, QuotaAssumption
<1>2. StartJob(w, q) /\ Targets(TargetOf[u])
  BY DEF BeginChunk
<1> HIDE DEF pc
<1>3. q \in Job
  BY <1>1, NoJobType DEF Job
<1>4. /\ q.kind = "chunk" /\ q.pc = pc /\ q.of = u /\ q.name = u /\ q.part = TargetOf[u]
      /\ q.size = 0 /\ q.max = 0
  BY <1>1, NoJobType DEF Job, NoJob
<1> HIDE DEF q
<1>5. JobFits(q)
  BY <1>1, <1>4 DEF JobFits, ChunkStages
<1>6. AsksFor(q)
  BY <1>1, <1>2, <1>4 DEF AsksFor, PartStage
<1>7. QED
  BY <1>2, <1>3, <1>5, <1>6, StartJobEffect

LEMMA BeginSaveEffect ==
  ASSUME QuotaTypeOK, NEW w \in Workers, NEW f \in Files, NEW copy \in File, BeginItemSave(w, f, copy),
         copy.of = file[f].of, copy.state = file[f].state, copy.part = file[f].part \/ Targets(copy.part)
  PROVE  \E q \in Job : BeginsAs(w, q)
<1> DEFINE q == [NoJob EXCEPT !.kind = "save", !.pc = "save", !.file = f, !.copy = copy]
<1>1. "save" \in JobKinds /\ "save" \in Places /\ "save" \notin Bookings \cup Copies
  BY DEF JobKinds, Places, Bookings, Copies
<1>2. StartJob(w, q) /\ Kept(f)
  BY DEF BeginItemSave
<1>3. q \in Job
  BY <1>1, NoJobType DEF Job
<1>4. q.kind = "save" /\ q.pc = "save" /\ q.of = NoPart /\ q.file = f /\ q.copy = copy /\ q.size = 0 /\ q.max = 0
  BY NoJobType DEF Job, NoJob
<1> HIDE DEF q
<1>5. JobFits(q)
  BY <1>4, QuotaAssumption DEF JobFits, ChunkStages, QuotaAssumption
<1>6. AsksFor(q)
  BY <1>1, <1>2, <1>4 DEF AsksFor, PartStage
<1>7. QED
  BY <1>2, <1>3, <1>5, <1>6, StartJobEffect

LEMMA BeginItemEffect ==
  ASSUME QuotaTypeOK, NEW w \in Workers, NEW f \in Files
  PROVE  /\ \A size \in Sizes : BeginContent(w, f, size) => \E q \in Job : BeginsAs(w, q)
         /\ \A name \in Source : BeginRename(w, f, name) => \E q \in Job : BeginsAs(w, q)
         /\ \A p \in Zones, name \in Source : BeginMove(w, f, p, name) => \E q \in Job : BeginsAs(w, q)
<1>1. file[f] \in File /\ Sizes \subseteq Nat
  BY QuotaAssumption DEF QuotaTypeOK, QuotaAssumption
<1>2. ASSUME NEW size \in Sizes, BeginContent(w, f, size)
      PROVE  \E q \in Job : BeginsAs(w, q)
  <2> DEFINE copy == [file[f] EXCEPT !.size = size]
  <2>1. copy \in File /\ copy.of = file[f].of /\ copy.state = file[f].state /\ copy.part = file[f].part
    BY <1>1 DEF File
  <2>2. QED
    BY <1>2, <2>1, BeginSaveEffect DEF BeginContent
<1>3. ASSUME NEW name \in Source, BeginRename(w, f, name)
      PROVE  \E q \in Job : BeginsAs(w, q)
  <2> DEFINE copy == [file[f] EXCEPT !.name = name]
  <2>1. copy \in File /\ copy.of = file[f].of /\ copy.state = file[f].state /\ copy.part = file[f].part
    BY <1>1 DEF File
  <2>2. QED
    BY <1>3, <2>1, BeginSaveEffect DEF BeginRename
<1>4. ASSUME NEW p \in Zones, NEW name \in Source, BeginMove(w, f, p, name)
      PROVE  \E q \in Job : BeginsAs(w, q)
  <2> DEFINE copy == [file[f] EXCEPT !.part = p, !.name = name]
  <2>1. copy \in File /\ copy.of = file[f].of /\ copy.state = file[f].state /\ copy.part = p
    BY <1>1 DEF File
  <2>2. BeginItemSave(w, f, copy) /\ Targets(p)
    BY <1>4 DEF BeginMove
  <2> HIDE DEF copy
  <2>3. QED
    BY <2>1, <2>2, BeginSaveEffect
<1>5. QED
  BY <1>2, <1>3, <1>4

LEMMA BeginPartEffect ==
  ASSUME QuotaTypeOK, NEW w \in Workers, NEW kind \in {"create", "resize"}, NEW pc \in {"sum", "fit"},
         NEW p \in Parts, NEW size \in Sizes, BeginPart(w, kind, pc, p, size),
         pc = "fit" => kind = "resize", pc = "sum" => part[p].state = "fresh" /\ kind = "create"
  PROVE  \E q \in Job : BeginsAs(w, q)
<1> DEFINE q == [NoJob EXCEPT !.kind = kind, !.pc = pc, !.part = p, !.size = size, !.max = limit]
<1>1. /\ kind \in JobKinds /\ kind \notin Bookings \cup Copies /\ kind # "chunk" /\ pc \in Places
      /\ size \in Nat /\ limit \in Nat /\ p \in Zones
  BY QuotaAssumption DEF JobKinds, Bookings, Copies, Places, Zones, QuotaTypeOK, QuotaAssumption
<1>2. StartJob(w, q)
  BY DEF BeginPart
<1>3. q \in Job
  BY <1>1, NoJobType DEF Job
<1>4. q.kind = kind /\ q.pc = pc /\ q.of = NoPart /\ q.part = p /\ q.size = size /\ q.max = limit
  BY NoJobType DEF Job, NoJob
<1> HIDE DEF q
<1>5. JobFits(q)
  BY <1>1, <1>4, QuotaAssumption DEF JobFits, ChunkStages, QuotaAssumption
<1>6. AsksFor(q)
  BY <1>1, <1>4 DEF AsksFor, PartStage
<1>7. QED
  BY <1>2, <1>3, <1>5, <1>6, StartJobEffect

LEMMA BeginPurgePartEffect ==
  ASSUME QuotaTypeOK, NEW w \in Workers, NEW p \in Parts, NEW kind \in {"format", "delete"}, BeginPurgePart(w, p, kind)
  PROVE  \E q \in Job : BeginsAs(w, q)
<1> DEFINE q == [NoJob EXCEPT !.kind = kind, !.pc = "purge", !.part = p]
<1>1. kind \in JobKinds /\ kind \notin Bookings \cup Copies /\ kind # "chunk" /\ "purge" \in Places /\ p \in Zones
  BY DEF JobKinds, Bookings, Copies, Places, Zones
<1>2. StartJob(w, q)
  BY DEF BeginPurgePart
<1>3. q \in Job
  BY <1>1, NoJobType DEF Job
<1>4. q.kind = kind /\ q.pc = "purge" /\ q.of = NoPart /\ q.part = p /\ q.size = 0 /\ q.max = 0
  BY NoJobType DEF Job, NoJob
<1> HIDE DEF q
<1>5. JobFits(q)
  BY <1>1, <1>4, QuotaAssumption DEF JobFits, ChunkStages, QuotaAssumption
<1>6. AsksFor(q)
  BY <1>1, <1>4 DEF AsksFor, PartStage
<1>7. QED
  BY <1>2, <1>3, <1>5, <1>6, StartJobEffect

LEMMA BeginJobEffect ==
  ASSUME QuotaTypeOK, NEW w \in Workers, BeginJob(w)
  PROVE  \E q \in Job : BeginsAs(w, q)
<1>1. ASSUME NEW p \in Parts, NEW size \in Sizes, BeginCreatePart(w, p, size)
      PROVE  \E q \in Job : BeginsAs(w, q)
  BY <1>1, BeginPartEffect DEF BeginCreatePart
<1>2. ASSUME NEW p \in Parts, NEW size \in Sizes, BeginResizePart(w, p, size)
      PROVE  \E q \in Job : BeginsAs(w, q)
  BY <1>2, BeginPartEffect DEF BeginResizePart
<1>3. QED
  BY <1>1, <1>2, BeginUploadEffect, BeginCopyEffect, BeginChunkEffect, BeginItemEffect, BeginPurgePartEffect
     DEF BeginJob

-------------------------------------------------------------------------------
(* Types *)

\* The rest of the state, beside the handlers.
RestTyped ==
  /\ file \in [Files -> File]
  /\ part \in [Parts -> Partition]
  /\ limit \in Limits /\ canUpload \in BOOLEAN
  /\ dir \in [Uploads -> Directory]
  /\ lockGen \in [Uploads -> Nat]
  /\ jobs \in 0..MaxJobs /\ events \in 0..MaxEvents /\ unchecked \in Nat
  /\ slips \subseteq AllSlips

LEMMA RestOfType == QuotaTypeOK <=> RestTyped /\ job \in [Workers -> Job]
BY DEF QuotaTypeOK, RestTyped, AllSlips

\* One step of one handler: what it becomes, and the rest.
LEMMA BecomesType ==
  ASSUME QuotaTypeOK, JobsFit, NEW w \in Workers, NEW q \in Job, Becomes(w, q), JobFits(q), RestTyped'
  PROVE  (QuotaTypeOK /\ JobsFit)'
<1>1. job' \in [Workers -> Job]
  BY BecomesFields
<1>2. QuotaTypeOK'
  BY <1>1 DEF QuotaTypeOK, RestTyped, AllSlips
<1>3. QED
  BY <1>2, BecomesFits

LEMMA ChunkType == /\ \A d \in Directory, c \in Index, x \in Chunk :
                        [d EXCEPT !.chunk = [d.chunk EXCEPT ![c] = x]] \in Directory
                   /\ NoDirectory \in Directory
                   /\ \A d \in Directory : [d EXCEPT !.made = TRUE] \in Directory
                   /\ Workers \subseteq Chunk /\ {"none", "whole", "torn"} \subseteq Chunk
<1>1. "none" \in Chunk /\ Workers \subseteq Chunk /\ {"none", "whole", "torn"} \subseteq Chunk
  BY DEF Chunk
<1>2. NoDirectory \in Directory
  BY <1>1 DEF NoDirectory, Directory
<1>3. ASSUME NEW d \in Directory, NEW c \in Index, NEW x \in Chunk
      PROVE  [d EXCEPT !.chunk = [d.chunk EXCEPT ![c] = x]] \in Directory
  <2>1. [d.chunk EXCEPT ![c] = x] \in [Index -> Chunk]
    BY DEF Directory
  <2>2. QED
    BY <2>1 DEF Directory
<1>4. QED
  BY <1>1, <1>2, <1>3 DEF Directory

\* Writing a chunk changes that one and no other.
LEMMA PutChunkFields ==
  ASSUME dir \in [Uploads -> Directory], NEW u \in Uploads, NEW c \in Index, NEW x \in Chunk, PutChunk(u, c, x)
  PROVE  /\ dir' \in [Uploads -> Directory]
         /\ dir'[u].chunk[c] = x
         /\ \A v \in Uploads, b \in Index : v # u \/ b # c => dir'[v].chunk[b] = dir[v].chunk[b]
<1> DEFINE d == [dir[u] EXCEPT !.chunk = [dir[u].chunk EXCEPT ![c] = x]]
<1>1. dir[u] \in Directory
  OBVIOUS
<1>2. d \in Directory /\ d.chunk = [dir[u].chunk EXCEPT ![c] = x]
  BY <1>1, ChunkType DEF Directory
<1>3. dir' = [dir EXCEPT ![u] = d]
  BY DEF PutChunk
<1> HIDE DEF d
<1>4. dir' \in [Uploads -> Directory] /\ dir'[u] = d /\ \A v \in Uploads \ {u} : dir'[v] = dir[v]
  BY <1>2, <1>3
<1>5. dir[u].chunk \in [Index -> Chunk]
  BY <1>1 DEF Directory
<1>6. QED
  BY <1>2, <1>4, <1>5

LEMMA IndexFinite == IsFiniteSet(Index) /\ Cardinality(Index) = Total
<1>1. Total \in Nat \ {0}
  BY QuotaAssumption DEF QuotaAssumption
<1> DEFINE last == Total - 1
<1>2. last \in Int /\ ~(0 > last) /\ last - 0 + 1 = Total
  BY <1>1
<1>3. Index = 0..last
  BY DEF Index
<1> HIDE DEF last
<1>4. IsFiniteSet(0..last) /\ Cardinality(0..last) = IF 0 > last THEN 0 ELSE last - 0 + 1
  BY <1>2, FS_Interval
<1>5. QED
  BY <1>2, <1>3, <1>4

LEMMA WholeType == \A u \in Uploads : Cardinality(WholeChunks(u)) \in Nat
<1> SUFFICES ASSUME NEW u \in Uploads PROVE Cardinality(WholeChunks(u)) \in Nat
  OBVIOUS
<1>1. WholeChunks(u) \subseteq Index
  BY DEF WholeChunks
<1>2. IsFiniteSet(WholeChunks(u))
  BY <1>1, IndexFinite, FS_Subset
<1>3. QED
  BY <1>2, FS_CardinalityType

LEMMA CleanUpEffect ==
  ASSUME QuotaTypeOK, NEW w \in Workers, CleanUp(w)
  PROVE  /\ dir' \in [Uploads -> Directory] /\ lockGen' \in [Uploads -> Nat]
         /\ \A u \in Uploads : dir'[u] = IF u = job[w].of THEN NoDirectory ELSE dir[u]
         /\ \A u \in Uploads : lockGen'[u] = IF u = job[w].of THEN lockGen[u] + 1 ELSE lockGen[u]
         /\ slips \subseteq slips' /\ slips' \subseteq AllSlips
         /\ Becomes(w, NoJob)
<1> DEFINE u == job[w].of
<1>1. dir' = [dir EXCEPT ![u] = NoDirectory] /\ lockGen' = [lockGen EXCEPT ![u] = lockGen[u] + 1] /\ Ends(w)
  BY DEF CleanUp
<1> HIDE DEF u
<1>2. dir \in [Uploads -> Directory] /\ lockGen \in [Uploads -> Nat]
  BY DEF QuotaTypeOK
<1>3. slips \subseteq slips' /\ slips' \subseteq AllSlips
  BY DEF CleanUp, Slip, QuotaTypeOK, AllSlips
<1>4. CASE u \in Uploads
  <2>1. lockGen[u] + 1 \in Nat
    BY <1>2, <1>4
  <2>2. dir' \in [Uploads -> Directory] /\ \A v \in Uploads : dir'[v] = IF v = u THEN NoDirectory ELSE dir[v]
    BY <1>1, <1>2, <1>4, ChunkType
  <2>3. lockGen' \in [Uploads -> Nat]
        /\ \A v \in Uploads : lockGen'[v] = IF v = u THEN lockGen[v] + 1 ELSE lockGen[v]
    BY <1>1, <1>2, <1>4, <2>1
  <2>4. QED
    BY <1>1, <1>3, <2>2, <2>3 DEF u, Ends, Becomes
<1>5. CASE u \notin Uploads
  <2>1. dir' = dir /\ lockGen' = lockGen
    BY <1>1, <1>2, <1>5
  <2>2. QED
    BY <1>1, <1>2, <1>3, <1>5, <2>1 DEF u, Ends, Becomes
<1>6. QED
  BY <1>4, <1>5

-------------------------------------------------------------------------------
(* How handlers go on *)

\* From one place to the next.
Moves(from, to) ==
  \/ from = "early" /\ to = "make"
  \/ from = "make" /\ to = "open"
  \/ from = "open" /\ to = "write"
  \/ from = "write" /\ to = "wait"
  \/ from = "wait" /\ to = "dup"
  \/ from = "dup" /\ to = "merge"
  \/ from = "merge" /\ to = "quota"
  \/ from = "quota" /\ to = "insert"
  \/ from = "insert" /\ to = "store"
  \/ from = "fit" /\ to = "sum"
  \/ from = "sum" /\ to = "put"
  \/ from = "purge" /\ to = "drop"

Continues(p, q) ==
  /\ Moves(p.pc, q.pc)
  /\ p.pc = "insert" => p.kind = "chunk"
  /\ q.kind = p.kind /\ q.of = p.of /\ q.chunk = p.chunk /\ q.file = p.file /\ q.copy = p.copy
  /\ q.name = p.name /\ q.part = p.part /\ q.max = p.max
  /\ p.pc # "write" => q.lock = p.lock
  /\ p.pc # "merge" => q.size = p.size

LEMMA ContinuesFits ==
  ASSUME NEW p \in Job, NEW q \in Job, JobFits(p), Continues(p, q), q.pc # "store" \/ p.kind = "chunk"
  PROVE  JobFits(q)
BY DEF Continues, Moves, JobFits, ChunkStages, Bookings

\* A handler whose place alone changes.
LEMMA GoesEffect ==
  ASSUME QuotaTypeOK, JobsFit, NEW w \in Workers, NEW pc \in Places, Goes(w, pc), Moves(job[w].pc, pc),
         job[w].pc \notin {"write", "merge"}, job[w].pc = "insert" => job[w].kind = "chunk"
  PROVE  \E q \in Job : Becomes(w, q) /\ JobFits(q) /\ Continues(job[w], q) /\ q.pc = pc
<1> DEFINE q == [job[w] EXCEPT !.pc = pc]
<1>1. job[w] \in Job /\ JobFits(job[w])
  BY DEF QuotaTypeOK, JobsFit
<1>2. /\ q \in Job /\ q.pc = pc /\ q.kind = job[w].kind /\ q.of = job[w].of /\ q.lock = job[w].lock
      /\ q.size = job[w].size /\ q.chunk = job[w].chunk /\ q.file = job[w].file
      /\ q.name = job[w].name /\ q.copy = job[w].copy /\ q.part = job[w].part /\ q.max = job[w].max
  BY <1>1, PlaceFields
<1>3. Becomes(w, q)
  BY DEF Goes, Becomes
<1> HIDE DEF q
<1>4. Continues(job[w], q)
  BY <1>2 DEF Continues
<1>5. JobFits(q)
  BY <1>1, <1>2, <1>4, ContinuesFits DEF Moves
<1>6. QED
  BY <1>2, <1>3, <1>4, <1>5

\* What every step of a handler that has begun does to it, and what follows
\* from the check that it has passed.
StepsAs(w, q) ==
  /\ Becomes(w, q) /\ JobFits(q)
  /\ q = NoJob \/ Continues(job[w], q)
  /\ q.pc = "insert" => canUpload /\ CheckQuota(w)
  /\ q.pc = "dup" => LockFree(w)
  /\ q.pc = "merge" => ~NameOfUploadTaken(job[w].name)

LEMMA EndsEffect ==
  ASSUME NEW w \in Workers, Ends(w) \/ CleanUp(w)
  PROVE  StepsAs(w, NoJob)
BY NoJobType DEF Ends, CleanUp, StepsAs, Becomes, NoJob

LEMMA WriteChunkEffect ==
  ASSUME QuotaTypeOK, JobsFit, NEW w \in Workers, WriteChunk(w)
  PROVE  \/ Ends(w)
         \/ \E q \in Job : StepsAs(w, q) /\ Continues(job[w], q) /\ q.lock = lockGen[job[w].of]
<1> SUFFICES ASSUME ~Ends(w)
             PROVE  \E q \in Job : StepsAs(w, q) /\ Continues(job[w], q) /\ q.lock = lockGen[job[w].of]
  OBVIOUS
<1> DEFINE q == [job[w] EXCEPT !.pc = "wait", !.lock = lockGen[job[w].of]]
<1>1. job[w] \in Job /\ JobFits(job[w]) /\ job[w].pc = "write"
  BY DEF QuotaTypeOK, JobsFit, WriteChunk
<1>2. lockGen[job[w].of] \in Nat /\ "wait" \in Places
  BY <1>1 DEF QuotaTypeOK, JobFits, ChunkStages, Places
<1>3. /\ q \in Job /\ q.pc = "wait" /\ q.kind = job[w].kind /\ q.of = job[w].of
      /\ q.lock = lockGen[job[w].of] /\ q.size = job[w].size /\ q.chunk = job[w].chunk
      /\ q.file = job[w].file /\ q.name = job[w].name /\ q.copy = job[w].copy
      /\ q.part = job[w].part /\ q.max = job[w].max
  BY <1>1, <1>2 DEF Job
<1>4. Becomes(w, q)
  BY DEF WriteChunk, Becomes
<1> HIDE DEF q
<1>5. Continues(job[w], q)
  BY <1>1, <1>3 DEF Continues, Moves
<1>6. JobFits(q)
  BY <1>1, <1>3, <1>5, ContinuesFits
<1>7. QED
  BY <1>3, <1>4, <1>5, <1>6 DEF StepsAs

LEMMA MergeEffect ==
  ASSUME QuotaTypeOK, JobsFit, NEW w \in Workers, MergeChunks(w), ~CleanUp(w)
  PROVE  /\ job[w].of \in Uploads /\ JobOnly /\ AllChunksExist(job[w].of)
         /\ \E q \in Job : /\ StepsAs(w, q) /\ Continues(job[w], q)
                           /\ q.size = Cardinality(WholeChunks(job[w].of))
<1> DEFINE q == [job[w] EXCEPT !.pc = "quota", !.size = Cardinality(WholeChunks(job[w].of))]
<1>1. job[w] \in Job /\ JobFits(job[w]) /\ job[w].pc = "merge"
  BY DEF QuotaTypeOK, JobsFit, MergeChunks
<1>2. job[w].of \in Uploads /\ Cardinality(WholeChunks(job[w].of)) \in Nat /\ "quota" \in Places
  BY <1>1, WholeType DEF JobFits, ChunkStages, Places, Critical
<1>3. /\ q \in Job /\ q.pc = "quota" /\ q.kind = job[w].kind /\ q.of = job[w].of
      /\ q.lock = job[w].lock /\ q.size = Cardinality(WholeChunks(job[w].of)) /\ q.chunk = job[w].chunk
      /\ q.file = job[w].file /\ q.name = job[w].name /\ q.copy = job[w].copy
      /\ q.part = job[w].part /\ q.max = job[w].max
  BY <1>1, <1>2 DEF Job
<1>4. Becomes(w, q) /\ JobOnly /\ AllChunksExist(job[w].of)
  BY DEF MergeChunks, Becomes
<1> HIDE DEF q
<1>5. Continues(job[w], q)
  BY <1>1, <1>3 DEF Continues, Moves
<1>6. JobFits(q)
  BY <1>1, <1>3, <1>5, ContinuesFits
<1>7. QED
  BY <1>2, <1>3, <1>4, <1>5, <1>6 DEF StepsAs

LEMMA JobStepEffect ==
  ASSUME QuotaTypeOK, JobsFit, NEW w \in Workers, JobStep(w)
  PROVE  \E q \in Job : StepsAs(w, q)
<1>0. job[w] \in Job /\ JobFits(job[w])
  BY DEF QuotaTypeOK, JobsFit
<1>ends. Ends(w) \/ CleanUp(w) => \E q \in Job : StepsAs(w, q)
  BY EndsEffect, NoJobType
<1>goes. ASSUME NEW pc \in Places, Goes(w, pc), Moves(job[w].pc, pc),
                job[w].pc \notin {"write", "merge"}, job[w].pc = "insert" => job[w].kind = "chunk",
                pc = "insert" => canUpload /\ CheckQuota(w), pc = "dup" => LockFree(w),
                pc = "merge" => ~NameOfUploadTaken(job[w].name)
         PROVE  \E q \in Job : StepsAs(w, q)
  <2>1. PICK q \in Job : Becomes(w, q) /\ JobFits(q) /\ Continues(job[w], q) /\ q.pc = pc
    BY <1>goes, GoesEffect
  <2>2. StepsAs(w, q)
    BY <1>goes, <2>1 DEF StepsAs
  <2>3. QED
    BY <2>2
<1>1. CASE CheckQuota(w)
  <2>1. CASE ~QuotaRefuses(job[w]) /\ Goes(w, "insert")
    BY <1>1, <1>goes, <2>1 DEF CheckQuota, Moves, Places, Critical, QuotaRefuses
  <2>2. QED
    BY <1>1, <1>ends, <2>1 DEF CheckQuota
<1>2. ASSUME NEW f \in Files, BookFile(w, f)
      PROVE  \E q \in Job : StepsAs(w, q)
  BY <1>2, <1>ends, <1>goes DEF BookFile, Moves, Places, Critical
<1>3. CASE CheckFirstChunk(w)
  <2>1. CASE Goes(w, "make")
    BY <1>3, <1>goes, <2>1 DEF CheckFirstChunk, Moves, Places
  <2>2. QED
    BY <1>3, <1>ends, <2>1 DEF CheckFirstChunk
<1>4. CASE MakeDirectory(w)
  BY <1>4, <1>goes DEF MakeDirectory, Moves, Places
<1>5. CASE OpenChunk(w)
  <2>1. CASE Goes(w, "write")
    BY <1>5, <1>goes, <2>1 DEF OpenChunk, Moves, Places
  <2>2. QED
    BY <1>5, <1>ends, <2>1 DEF OpenChunk
<1>6. CASE WriteChunk(w)
  BY <1>6, <1>ends, WriteChunkEffect
<1>7. CASE EnterLock(w)
  <2>1. CASE Goes(w, "dup")
    BY <1>7, <1>goes, <2>1 DEF EnterLock, Moves, Places, Critical
  <2>2. QED
    BY <1>7, <1>ends, <2>1 DEF EnterLock
<1>8. CASE CheckMergedName(w)
  <2>1. CASE Goes(w, "merge") /\ ~NameOfUploadTaken(job[w].name)
    BY <1>8, <1>goes, <2>1 DEF CheckMergedName, Moves, Places, Critical
  <2>2. QED
    BY <1>8, <1>ends, <2>1 DEF CheckMergedName
<1>9. CASE MergeChunks(w)
  BY <1>9, <1>ends, MergeEffect
<1>10. CASE FinishChunks(w)
  BY <1>10, <1>ends DEF FinishChunks
<1>11. CASE EndCopy(w) \/ SaveItem(w) \/ FailSave(w)
  BY <1>11, <1>ends DEF EndCopy, SaveItem, FailSave
<1>12. CASE CheckFit(w)
  <2>1. CASE Goes(w, "sum")
    BY <1>12, <1>goes, <2>1 DEF CheckFit, Moves, Places
  <2>2. QED
    BY <1>12, <1>ends, <2>1 DEF CheckFit
<1>13. CASE CheckSum(w)
  <2>1. CASE Goes(w, "put")
    BY <1>13, <1>goes, <2>1 DEF CheckSum, Moves, Places
  <2>2. QED
    BY <1>13, <1>ends, <2>1 DEF CheckSum
<1>14. CASE PutPart(w)
  BY <1>14, <1>ends DEF PutPart
<1>15. CASE PurgePart(w)
  <2>1. CASE Goes(w, "drop")
    BY <1>15, <1>goes, <2>1 DEF PurgePart, Moves, Places
  <2>2. QED
    BY <1>15, <1>ends, <2>1 DEF PurgePart
<1>16. CASE DropPart(w)
  BY <1>16, <1>ends DEF DropPart
<1>17. QED
  BY <1>1, <1>2, <1>3, <1>4, <1>5, <1>6, <1>7, <1>8, <1>9, <1>10, <1>11, <1>12, <1>13, <1>14, <1>15, <1>16
     DEF JobStep

-------------------------------------------------------------------------------
(* What a step does to the documents *)

\* A file that was booked stays booked, for the upload it came from.
FilesKept ==
  \A f \in Files : file[f].state # "fresh" => file'[f].state # "fresh" /\ file'[f].of = file[f].of

\* No file of an upload is live that was not, unless it came back from the bin.
NoneRevived ==
  "restored" \notin slips' =>
    \A f \in Files : file'[f].state = "live" /\ file'[f].of \in Uploads =>
      file[f].state = "live" /\ file'[f].of = file[f].of

\* A file of an upload keeps its name, unless it is renamed or moved.
NamesStay ==
  "renamed" \notin slips' =>
    \A f \in Files : file'[f].of \in Uploads => file'[f].of = file[f].of /\ file'[f].name = file[f].name

\* What a handler that saves holds is a copy of its document.
CopyFits(q) == q.pc = "save" =>
  /\ file[q.file].state # "fresh" /\ q.copy.state \in {"live", "bin"} /\ q.copy.of = file[q.file].of
CopiesFit == \A w \in Workers : CopyFits(job[w])

DocumentsStep == RestTyped' /\ slips \subseteq slips' /\ FilesKept /\ NoneRevived /\ NamesStay

LEMMA SameDocuments ==
  ASSUME RestTyped, UNCHANGED <<file, part, limit, canUpload, jobs, events, unchecked>>,
         dir' \in [Uploads -> Directory], lockGen' \in [Uploads -> Nat],
         slips \subseteq slips', slips' \subseteq AllSlips
  PROVE  DocumentsStep
BY DEF DocumentsStep, RestTyped, FilesKept, NoneRevived, NamesStay

\* A document that is new.
LEMMA InsertsDocument ==
  ASSUME QuotaTypeOK, NEW f \in Files, NEW size \in Nat, NEW p \in Zones, NEW name \in Source, NEW of \in Source,
         Inserts(f, size, p, name, of)
  PROVE  /\ file' \in [Files -> File] /\ FilesKept /\ file[f].state = "fresh"
         /\ file'[f].state = "live" /\ file'[f].size = size /\ file'[f].part = p
         /\ file'[f].name = name /\ file'[f].of = of
         /\ \A g \in Files \ {f} : file'[g] = file[g]
<1> DEFINE d == [state |-> "live", size |-> size, part |-> p, name |-> name, of |-> of]
<1>1. d \in File /\ d.state = "live" /\ d.size = size /\ d.part = p /\ d.name = name /\ d.of = of
  BY DEF File
<1>2. file' = [file EXCEPT ![f] = d] /\ file[f].state = "fresh"
  BY DEF Inserts
<1> HIDE DEF d
<1>3. file' \in [Files -> File] /\ file'[f] = d /\ \A g \in Files \ {f} : file'[g] = file[g]
  BY <1>1, <1>2 DEF QuotaTypeOK
<1>4. FilesKept
  BY <1>2, <1>3 DEF FilesKept
<1>5. QED
  BY <1>1, <1>2, <1>3, <1>4

LEMMA BookFileDocuments ==
  ASSUME QuotaTypeOK, NEW w \in Workers, NEW f \in Files, BookFile(w, f)
  PROVE  /\ RestTyped' /\ UNCHANGED slips /\ FilesKept
         /\ file[f].state = "fresh" /\ file'[f].of = job[w].of /\ file'[f].name = job[w].name
         /\ \A g \in Files \ {f} : file'[g] = file[g]
<1>1. /\ Inserts(f, job[w].size, job[w].part, job[w].name, job[w].of)
      /\ UNCHANGED <<part, limit, canUpload, dir, lockGen, jobs, events, unchecked, slips>>
  BY DEF BookFile
<1>2. job[w].size \in Nat /\ job[w].part \in Zones /\ job[w].name \in Source /\ job[w].of \in Source
  BY DEF QuotaTypeOK, Job
<1>3. /\ file' \in [Files -> File] /\ FilesKept /\ file[f].state = "fresh"
      /\ file'[f].of = job[w].of /\ file'[f].name = job[w].name
      /\ \A g \in Files \ {f} : file'[g] = file[g]
  <2>1. PICK n \in Nat, p \in Zones, name \in Source, of \in Source :
          n = job[w].size /\ p = job[w].part /\ name = job[w].name /\ of = job[w].of
    BY <1>2
  <2>2. QED
    BY <1>1, <2>1, InsertsDocument
<1>4. RestTyped'
  BY <1>1, <1>3, RestOfType DEF RestTyped
<1>5. QED
  BY <1>1, <1>3, <1>4

LEMMA CopyStepIs ==
  ASSUME QuotaTypeOK, NEW w \in Workers, CopyStep(w)
  PROVE  \E f \in Files, size \in Nat, p \in Zones, name \in Source : CopyFile(w, f, size, p, name)
<1>1. \A h \in Files : file[h].size \in Nat
  BY DEF QuotaTypeOK, File
<1>2. \A size \in Sizes \cup {file[g].size : g \in {h \in Files : Kept(h)}} : size \in Nat
  BY <1>1, QuotaAssumption DEF QuotaAssumption
<1>3. QED
  BY <1>2 DEF CopyStep

LEMMA CopyFileDocuments ==
  ASSUME QuotaTypeOK, NEW w \in Workers, NEW f \in Files, NEW size \in Nat, NEW p \in Zones, NEW name \in Source,
         CopyFile(w, f, size, p, name)
  PROVE  DocumentsStep
<1>1. /\ Inserts(f, size, p, name, NoPart) /\ unchecked' = unchecked + size
      /\ UNCHANGED <<part, limit, canUpload, dir, lockGen, jobs, events, slips>>
  BY DEF CopyFile
<1>2. NoPart \in Source /\ NoPart \notin Uploads /\ unchecked \in Nat
  BY QuotaAssumption DEF Source, QuotaAssumption, QuotaTypeOK
<1>3. /\ file' \in [Files -> File] /\ FilesKept /\ file'[f].of = NoPart
      /\ \A g \in Files \ {f} : file'[g] = file[g]
  BY <1>1, <1>2, InsertsDocument
<1>4. unchecked' \in Nat
  BY <1>1, <1>2
<1>5. RestTyped'
  BY <1>1, <1>3, <1>4, RestOfType DEF RestTyped
<1>6. QED
  BY <1>1, <1>2, <1>3, <1>5 DEF DocumentsStep, NoneRevived, NamesStay

\* What a save does to its document and what it leaves alone.
LEMMA SaveItemFields ==
  ASSUME QuotaTypeOK, JobsFit, CopiesFit, NEW w \in Workers, SaveItem(w)
  PROVE  \E f \in Files, d \in File :
           /\ f = job[w].file /\ d = job[w].copy /\ job[w].pc = "save"
           /\ file[f].state # "fresh" /\ d.state \in {"live", "bin"} /\ d.of = file[f].of
           /\ file' \in [Files -> File] /\ file'[f] = d /\ \A g \in Files \ {f} : file'[g] = file[g]
           /\ d.size \in Nat /\ SizeOf(f) \in Nat /\ SizeOf(f)' = d.size
           /\ unchecked' = unchecked + (IF d.size > SizeOf(f) THEN d.size - SizeOf(f) ELSE 0)
           /\ "restored" \notin slips' /\ d.state = "live" => file[f].state = "live"
           /\ "moved" \notin slips' => d.part = file[f].part
           /\ "renamed" \notin slips' => d.name = file[f].name
<1>1. /\ job[w] \in Job /\ job[w].copy \in File /\ job[w].file \in Files /\ CopyFits(job[w])
      /\ job[w].pc = "save"
  BY DEF QuotaTypeOK, JobsFit, JobFits, CopiesFit, SaveItem, Job
<1>2. PICK f \in Files, d \in File : f = job[w].file /\ d = job[w].copy
  BY <1>1
<1>3. file[f].state # "fresh" /\ d.state \in {"live", "bin"} /\ d.of = file[f].of
  BY <1>1, <1>2 DEF CopyFits
<1>4. file' = [file EXCEPT ![f] = d]
  BY <1>2 DEF SaveItem
<1>5. file' \in [Files -> File] /\ file'[f] = d /\ \A g \in Files \ {f} : file'[g] = file[g]
  BY <1>4 DEF QuotaTypeOK
<1>6. d.size \in Nat /\ SizeOf(f) \in Nat /\ SizeOf(f)' = d.size
  BY <1>3, <1>5 DEF QuotaTypeOK, File, SizeOf, Kept
<1>7. unchecked' = unchecked + (IF d.size > SizeOf(f) THEN d.size - SizeOf(f) ELSE 0)
  BY <1>2 DEF SaveItem, Growth
<1>8. /\ "restored" \notin slips' /\ d.state = "live" => file[f].state = "live"
      /\ "moved" \notin slips' => d.part = file[f].part
      /\ "renamed" \notin slips' => d.name = file[f].name
  BY <1>2 DEF SaveItem, Slip
<1>9. QED
  BY <1>1, <1>2, <1>3, <1>5, <1>6, <1>7, <1>8

LEMMA SaveItemDocuments ==
  ASSUME QuotaTypeOK, JobsFit, CopiesFit, NEW w \in Workers, SaveItem(w)
  PROVE  DocumentsStep
<1>1. PICK f \in Files, d \in File :
           /\ file[f].state # "fresh" /\ d.state \in {"live", "bin"} /\ d.of = file[f].of
           /\ file' \in [Files -> File] /\ file'[f] = d /\ \A g \in Files \ {f} : file'[g] = file[g]
           /\ d.size \in Nat /\ SizeOf(f) \in Nat
           /\ unchecked' = unchecked + (IF d.size > SizeOf(f) THEN d.size - SizeOf(f) ELSE 0)
           /\ "restored" \notin slips' /\ d.state = "live" => file[f].state = "live"
           /\ "renamed" \notin slips' => d.name = file[f].name
  BY SaveItemFields
<1>2. UNCHANGED <<part, limit, canUpload, dir, lockGen, jobs, events>> /\ unchecked \in Nat
  BY DEF SaveItem, QuotaTypeOK
<1>3. slips \subseteq slips' /\ slips' \subseteq AllSlips
  BY DEF SaveItem, Slip, QuotaTypeOK, AllSlips
<1>4. unchecked' \in Nat
  BY <1>1, <1>2
<1>5. RestTyped'
  BY <1>1, <1>2, <1>3, <1>4, RestOfType DEF RestTyped
<1>6. FilesKept
  BY <1>1 DEF FilesKept
<1>7. NoneRevived
  BY <1>1 DEF NoneRevived
<1>8. NamesStay
  BY <1>1 DEF NamesStay
<1>9. QED
  BY <1>3, <1>5, <1>6, <1>7, <1>8 DEF DocumentsStep

LEMMA PartsStep ==
  ASSUME QuotaTypeOK, NEW w \in Workers, PutPart(w) \/ DropPart(w)
  PROVE  DocumentsStep
<1>1. job[w] \in Job /\ job[w].size \in Nat
  BY DEF QuotaTypeOK, Job
<1>2. [state |-> "live", size |-> job[w].size] \in Partition /\ [state |-> "gone", size |-> 0] \in Partition
  BY <1>1 DEF Partition
<1>3. part' \in [Parts -> Partition]
  BY <1>2 DEF PutPart, DropPart, QuotaTypeOK
<1>4. UNCHANGED <<file, limit, canUpload, dir, lockGen, jobs, events, unchecked, slips>>
  BY DEF PutPart, DropPart
<1>5. QED
  BY <1>3, <1>4, RestOfType DEF DocumentsStep, RestTyped, FilesKept, NoneRevived, NamesStay

\* A file that another step marks keeps the rest of its document.
LEMMA PurgePartFields ==
  ASSUME QuotaTypeOK, NEW w \in Workers, PurgePart(w)
  PROVE  /\ file' \in [Files -> File]
         /\ \A f \in Files : /\ file'[f].of = file[f].of /\ file'[f].part = file[f].part
                             /\ file'[f].name = file[f].name /\ file'[f].size = file[f].size
                             /\ \/ file'[f] = file[f]
                                \/ file[f].state \in {"live", "bin"} /\ file'[f].state = "purged"
<1>1. /\ file' = [f \in Files |-> IF Kept(f) /\ file[f].part = job[w].part
                                    THEN [file[f] EXCEPT !.state = "purged"] ELSE file[f]]
  BY DEF PurgePart
<1>2. ASSUME NEW f \in Files
      PROVE  /\ file'[f] \in File /\ file'[f].of = file[f].of /\ file'[f].part = file[f].part
             /\ file'[f].name = file[f].name /\ file'[f].size = file[f].size
             /\ file'[f] = file[f] \/ (file[f].state \in {"live", "bin"} /\ file'[f].state = "purged")
  <2>1. file[f] \in File
    BY DEF QuotaTypeOK
  <2> DEFINE d == [file[f] EXCEPT !.state = "purged"]
  <2>2. /\ d \in File /\ d.of = file[f].of /\ d.part = file[f].part /\ d.name = file[f].name /\ d.size = file[f].size
        /\ d.state = "purged"
    BY <2>1 DEF File
  <2>3. file'[f] = IF Kept(f) /\ file[f].part = job[w].part THEN d ELSE file[f]
    BY <1>1
  <2> HIDE DEF d
  <2>4. QED
    BY <2>1, <2>2, <2>3 DEF Kept
<1>3. file' \in [Files -> File]
  BY <1>1, <1>2
<1>4. QED
  BY <1>2, <1>3

LEMMA PurgePartDocuments ==
  ASSUME QuotaTypeOK, NEW w \in Workers, PurgePart(w)
  PROVE  DocumentsStep
<1>1. UNCHANGED <<part, limit, canUpload, dir, lockGen, jobs, events, unchecked, slips>>
  BY DEF PurgePart
<1>2. RestTyped'
  BY <1>1, PurgePartFields, RestOfType DEF RestTyped
<1>3. QED
  BY <1>1, <1>2, PurgePartFields DEF DocumentsStep, FilesKept, NoneRevived, NamesStay

LEMMA DirStep ==
  ASSUME QuotaTypeOK, JobsFit, NEW w \in Workers, MakeDirectory(w) \/ OpenChunk(w) \/ WriteChunk(w)
  PROVE  /\ dir' \in [Uploads -> Directory]
         /\ \A u \in Uploads : u # job[w].of => dir'[u].chunk = dir[u].chunk
<1>1. job[w].of \in Uploads /\ job[w].chunk \in Index
  BY DEF QuotaTypeOK, JobsFit, JobFits, ChunkStages, MakeDirectory, OpenChunk, WriteChunk, Job
<1>2. dir \in [Uploads -> Directory]
  BY DEF QuotaTypeOK
<1>3. CASE MakeDirectory(w)
  <2>1. dir' = [dir EXCEPT ![job[w].of] = [dir[job[w].of] EXCEPT !.made = TRUE]]
    BY <1>3 DEF MakeDirectory
  <2>2. QED
    BY <1>1, <1>2, <2>1, ChunkType
<1>4. CASE \E x \in Chunk : PutChunk(job[w].of, job[w].chunk, x)
  <2>1. PICK x \in Chunk : PutChunk(job[w].of, job[w].chunk, x)
    BY <1>4
  <2>2. dir' \in [Uploads -> Directory]
    BY <1>1, <1>2, <2>1, PutChunkFields
  <2>3. \A u \in Uploads : u # job[w].of => dir'[u] = dir[u]
    BY <1>1, <1>2, <2>1 DEF PutChunk
  <2>4. QED
    BY <2>2, <2>3
<1>5. CASE dir' = dir
  BY <1>2, <1>5
<1>6. CASE OpenChunk(w)
  BY <1>4, <1>5, <1>6, ChunkType DEF OpenChunk
<1>7. CASE WriteChunk(w)
  BY <1>4, <1>5, <1>7, ChunkType DEF WriteChunk
<1>8. QED
  BY <1>3, <1>6, <1>7

LEMMA JobStepDocuments ==
  ASSUME QuotaTypeOK, JobsFit, CopiesFit, NEW w \in Workers, JobStep(w)
  PROVE  DocumentsStep \/ \E f \in Files : BookFile(w, f)
<1>0. RestTyped
  BY RestOfType
<1>1. CASE JobOnly
  BY <1>0, <1>1, SameDocuments DEF JobOnly, RestTyped
<1>2. CASE CleanUp(w) /\ UNCHANGED <<file, part, limit, canUpload, jobs, events, unchecked>>
  BY <1>0, <1>2, SameDocuments, CleanUpEffect
<1>3. CASE MakeDirectory(w) \/ OpenChunk(w) \/ WriteChunk(w)
  <2>1. UNCHANGED <<file, part, limit, canUpload, lockGen, jobs, events, unchecked, slips>>
    BY <1>3 DEF MakeDirectory, OpenChunk, WriteChunk
  <2>2. QED
    BY <1>0, <1>3, <2>1, DirStep, SameDocuments DEF RestTyped
<1>4. CASE SaveItem(w)
  BY <1>4, SaveItemDocuments
<1>5. CASE PutPart(w) \/ DropPart(w) \/ PurgePart(w)
  BY <1>5, PartsStep, PurgePartDocuments
<1>6. CASE CheckQuota(w) \/ CheckFirstChunk(w) \/ EnterLock(w) \/ CheckMergedName(w) \/ MergeChunks(w)
           \/ FinishChunks(w) \/ EndCopy(w) \/ FailSave(w) \/ CheckFit(w) \/ CheckSum(w)
  BY <1>1, <1>2, <1>6 DEF CheckQuota, CheckFirstChunk, EnterLock, CheckMergedName, MergeChunks, FinishChunks,
     EndCopy, FailSave, CheckFit, CheckSum
<1>7. QED
  BY <1>3, <1>4, <1>5, <1>6 DEF JobStep

-------------------------------------------------------------------------------
(* The types hold *)

LEMMA BeginsDocuments ==
  ASSUME QuotaTypeOK, NEW w \in Workers, NEW q \in Job, BeginsAs(w, q)
  PROVE  DocumentsStep
<1>1. RestTyped
  BY RestOfType
<1>2. QED
  BY <1>1 DEF BeginsAs, DocumentsStep, RestTyped, FilesKept, NoneRevived, NamesStay

LEMMA OccursType == ASSUME QuotaTypeOK, Occurs PROVE events' \in 0..MaxEvents
BY QuotaAssumption DEF Occurs, QuotaTypeOK, QuotaAssumption

LEMMA ChangeStateFields ==
  ASSUME QuotaTypeOK, NEW f \in Files, ChangeState(f)
  PROVE  \E state \in {"live", "bin", "purged"}, d \in File :
           /\ d.state = state /\ d.size = file[f].size /\ d.part = file[f].part /\ d.name = file[f].name
           /\ d.of = file[f].of /\ file[f].state \in {"live", "bin"}
           /\ file' \in [Files -> File] /\ file'[f] = d /\ \A g \in Files \ {f} : file'[g] = file[g]
           /\ slips \subseteq slips' /\ slips' \subseteq AllSlips /\ (state = "live" => "restored" \in slips')
<1>1. PICK state \in {"live", "bin", "purged"} :
        file' = [file EXCEPT ![f].state = state] /\ slips' = slips \cup Slip("restored", state = "live")
  BY DEF ChangeState
<1> DEFINE d == [file[f] EXCEPT !.state = state]
<1>2. file[f] \in File
  BY DEF QuotaTypeOK
<1>3. /\ d \in File /\ d.of = file[f].of /\ d.part = file[f].part /\ d.name = file[f].name
      /\ d.size = file[f].size /\ d.state = state
  BY <1>2 DEF File
<1>4. file' = [file EXCEPT ![f] = d]
  BY <1>1
<1> HIDE DEF d
<1>5. file' \in [Files -> File] /\ file'[f] = d /\ \A g \in Files \ {f} : file'[g] = file[g]
  BY <1>3, <1>4 DEF QuotaTypeOK
<1>6. slips \subseteq slips' /\ slips' \subseteq AllSlips /\ (state = "live" => "restored" \in slips')
  BY <1>1 DEF Slip, QuotaTypeOK, AllSlips
<1>7. file[f].state \in {"live", "bin"}
  BY DEF ChangeState, Kept
<1>8. QED
  BY <1>3, <1>5, <1>6, <1>7

LEMMA ChangeStateDocuments ==
  ASSUME QuotaTypeOK, NEW f \in Files, ChangeState(f)
  PROVE  DocumentsStep
<1>1. PICK state \in {"live", "bin", "purged"}, d \in File :
           /\ d.state = state /\ d.name = file[f].name /\ d.of = file[f].of
           /\ file' \in [Files -> File] /\ file'[f] = d /\ \A g \in Files \ {f} : file'[g] = file[g]
           /\ slips \subseteq slips' /\ slips' \subseteq AllSlips /\ (state = "live" => "restored" \in slips')
  BY ChangeStateFields
<1>2. RestTyped'
  BY <1>1, RestOfType, OccursType DEF RestTyped, ChangeState
<1>3. QED
  BY <1>1, <1>2 DEF DocumentsStep, FilesKept, NoneRevived, NamesStay

LEMMA SetLimitDocuments ==
  ASSUME QuotaTypeOK, NEW l \in Limits, SetLimit(l)
  PROVE  DocumentsStep
<1>1. slips \subseteq slips' /\ slips' \subseteq AllSlips
  BY DEF SetLimit, Slip, QuotaTypeOK, AllSlips
<1>2. RestTyped'
  BY <1>1, RestOfType, OccursType DEF RestTyped, SetLimit
<1>3. QED
  BY <1>1, <1>2 DEF DocumentsStep, FilesKept, NoneRevived, NamesStay, SetLimit

LEMMA SetCanUploadDocuments ==
  ASSUME QuotaTypeOK, NEW allowed \in BOOLEAN, SetCanUpload(allowed)
  PROVE  DocumentsStep
<1>1. RestTyped'
  BY RestOfType, OccursType DEF RestTyped, SetCanUpload
<1>2. QED
  BY <1>1 DEF DocumentsStep, FilesKept, NoneRevived, NamesStay, SetCanUpload

\* After a restart nobody is at work and the chunks in the making are torn.
LEMMA RestartEffect ==
  ASSUME QuotaTypeOK, RestartProcess
  PROVE  /\ DocumentsStep /\ job' = [w \in Workers |-> NoJob]
         /\ file' = file /\ lockGen' = lockGen
         /\ \A u \in Uploads, c \in Index : dir'[u].chunk[c] \in {"none", "whole", "torn"}
<1>1. dir' = [u \in Uploads |-> [dir[u] EXCEPT !.chunk = [c \in Index |->
                IF dir[u].chunk[c] \in Workers THEN "torn" ELSE dir[u].chunk[c]]]]
  BY DEF RestartProcess
<1>2. ASSUME NEW u \in Uploads
      PROVE  dir'[u] \in Directory /\ \A c \in Index : dir'[u].chunk[c] \in {"none", "whole", "torn"}
  <2> DEFINE chunk == [c \in Index |-> IF dir[u].chunk[c] \in Workers THEN "torn" ELSE dir[u].chunk[c]]
  <2>1. dir[u] \in Directory
    BY DEF QuotaTypeOK
  <2>2. chunk \in [Index -> Chunk] /\ \A c \in Index : chunk[c] \in {"none", "whole", "torn"}
    BY <2>1 DEF Directory, Chunk
  <2>3. dir'[u] = [dir[u] EXCEPT !.chunk = chunk]
    BY <1>1
  <2> HIDE DEF chunk
  <2>4. QED
    BY <2>1, <2>2, <2>3 DEF Directory
<1>3. dir' \in [Uploads -> Directory]
  BY <1>1, <1>2
<1>4. slips \subseteq slips' /\ slips' \subseteq AllSlips
  BY DEF RestartProcess, QuotaTypeOK, AllSlips
<1>5. RestTyped'
  BY <1>3, <1>4, RestOfType, OccursType DEF RestTyped, RestartProcess
<1>6. QED
  BY <1>2, <1>4, <1>5 DEF RestartProcess, DocumentsStep, FilesKept, NoneRevived, NamesStay

QuotaInv == QuotaTypeOK /\ JobsFit /\ CopiesFit

\* The kinds of steps there are.
OneBegins == \E w \in Workers : BeginJob(w)
OneSteps == \E w \in Workers : JobStep(w)
OthersAct == job' = job /\ UNCHANGED <<dir, lockGen>> /\ DocumentsStep

LEMMA StepKinds ==
  ASSUME QuotaTypeOK, [QuotaNext]_quotaVars
  PROVE  OneBegins \/ OneSteps \/ RestartProcess \/ OthersAct
<1>1. ASSUME NEW w \in Workers, CopyStep(w)
      PROVE  OthersAct
  BY <1>1, CopyStepIs, CopyFileDocuments DEF OthersAct, CopyFile
<1>2. CASE \E f \in Files : ChangeState(f)
  BY <1>2, ChangeStateDocuments DEF OthersAct, ChangeState
<1>3. CASE \E l \in Limits : SetLimit(l)
  BY <1>3, SetLimitDocuments DEF OthersAct, SetLimit
<1>4. CASE \E allowed \in BOOLEAN : SetCanUpload(allowed)
  BY <1>4, SetCanUploadDocuments DEF OthersAct, SetCanUpload
<1>5. CASE UNCHANGED quotaVars
  BY <1>5, RestOfType DEF quotaVars, OthersAct, DocumentsStep, RestTyped, FilesKept, NoneRevived, NamesStay
<1>6. QED
  BY <1>1, <1>2, <1>3, <1>4, <1>5 DEF QuotaNext, OneBegins, OneSteps

LEMMA CopiesKept ==
  ASSUME QuotaTypeOK, JobsFit, CopiesFit, FilesKept, NEW w \in Workers, NEW q \in Job, Becomes(w, q),
         q.pc = "save" => /\ q.file \in Files /\ file[q.file].state # "fresh" /\ q.copy.state \in {"live", "bin"}
                          /\ q.copy.of = file[q.file].of
  PROVE  CopiesFit'
<1>1. job'[w] = q /\ \A v \in Workers \ {w} : job'[v] = job[v]
  BY BecomesFields
<1>2. ASSUME NEW v \in Workers
      PROVE  CopyFits(job[v])'
  <2>1. CASE v = w
    BY <1>1, <2>1 DEF CopyFits, FilesKept
  <2>2. CASE v # w
    BY <1>1, <2>2 DEF CopyFits, CopiesFit, FilesKept, JobsFit, JobFits
  <2>3. QED
    BY <2>1, <2>2
<1>3. QED
  BY <1>2 DEF CopiesFit

LEMMA QuotaInvStep == QuotaInv /\ [QuotaNext]_quotaVars => QuotaInv'
<1> SUFFICES ASSUME QuotaTypeOK, JobsFit, CopiesFit, [QuotaNext]_quotaVars PROVE QuotaInv'
  BY DEF QuotaInv
<1>1. ASSUME NEW w \in Workers, BeginJob(w)
      PROVE  QuotaInv'
  <2>1. PICK q \in Job : BeginsAs(w, q)
    BY <1>1, BeginJobEffect
  <2>2. DocumentsStep /\ Becomes(w, q) /\ JobFits(q)
    BY <2>1, BeginsDocuments DEF BeginsAs
  <2>3. q.pc = "save" => /\ q.file \in Files /\ file[q.file].state # "fresh" /\ q.copy.state \in {"live", "bin"}
                         /\ q.copy.of = file[q.file].of
    BY <2>1 DEF BeginsAs, AsksFor, JobFits, Kept
  <2>4. QED
    BY <2>2, <2>3, BecomesType, CopiesKept DEF QuotaInv, DocumentsStep
<1>2. ASSUME NEW w \in Workers, JobStep(w)
      PROVE  QuotaInv'
  <2>1. PICK q \in Job : StepsAs(w, q)
    BY <1>2, JobStepEffect
  <2>2. RestTyped' /\ FilesKept
    BY <1>2, JobStepDocuments, BookFileDocuments DEF DocumentsStep
  <2>3. Becomes(w, q) /\ JobFits(q) /\ q.pc # "save"
    BY <2>1 DEF StepsAs, Continues, Moves, NoJob
  <2>4. QED
    BY <2>2, <2>3, BecomesType, CopiesKept DEF QuotaInv
<1>3. CASE RestartProcess
  <2>1. DocumentsStep /\ job' = [w \in Workers |-> NoJob]
    BY <1>3, RestartEffect
  <2>2. QED
    BY <2>1, NoJobType DEF QuotaInv, DocumentsStep, QuotaTypeOK, RestTyped, AllSlips, JobsFit, JobFits, CopiesFit,
       CopyFits, NoJob
<1>4. CASE OthersAct
  BY <1>4 DEF OthersAct, QuotaInv, DocumentsStep, QuotaTypeOK, RestTyped, AllSlips, JobsFit, JobFits, CopiesFit,
     CopyFits, FilesKept
<1>5. QED
  BY <1>1, <1>2, <1>3, <1>4, StepKinds DEF OneBegins, OneSteps

LEMMA QuotaInvInit == QuotaInit => QuotaInv
<1> SUFFICES ASSUME QuotaInit PROVE QuotaInv
  OBVIOUS
<1>1. file \in [Files -> File] /\ dir \in [Uploads -> Directory] /\ lockGen \in [Uploads -> Nat]
      /\ job \in [Workers -> Job]
  BY NoJobType, ChunkType DEF QuotaInit
<1>2. part \in [Parts -> Partition]
  BY DEF QuotaInit, Partition
<1>3. QuotaTypeOK
  BY <1>1, <1>2, QuotaAssumption DEF QuotaInit, QuotaTypeOK, QuotaAssumption
<1>4. JobsFit /\ CopiesFit
  BY NoJobType DEF QuotaInit, JobsFit, CopiesFit, CopyFits, NoJob
<1>5. QED
  BY <1>3, <1>4 DEF QuotaInv

\* The documents, directories and handlers of the storage keep their shape,
\* whatever handlers, restarts and requests of the tree do to them.
THEOREM QuotaTyped == QuotaSpec => []QuotaTypeOK
<1>1. QuotaSpec => []QuotaInv
  BY QuotaInvInit, QuotaInvStep, PTL DEF QuotaSpec
<1>2. QuotaInv => QuotaTypeOK
  BY DEF QuotaInv
<1>3. QED
  BY <1>1, <1>2, PTL

-------------------------------------------------------------------------------
(* The lock of an upload *)

\* As long as no lock was dropped that somebody waits for, everybody who waits
\* for or holds the lock of an upload means the same lock, and one holds it.
SameLock ==
  \A w \in Workers : job[w].kind = "chunk" /\ job[w].pc \in Critical \cup {"wait"} =>
    job[w].lock = lockGen[job[w].of]
OneHolder ==
  \A v, w \in Workers :
    /\ job[v].kind = "chunk" /\ job[v].pc \in Critical
    /\ job[w].kind = "chunk" /\ job[w].pc \in Critical
    /\ job[v].of = job[w].of
    => v = w
LocksCurrent == "abandonedLock" \notin slips => SameLock /\ OneHolder

LEMMA JobStepLocks ==
  ASSUME QuotaTypeOK, JobsFit, NEW w \in Workers, JobStep(w)
  PROVE  CleanUp(w) \/ (lockGen' = lockGen /\ slips \subseteq slips')
BY DEF JobStep, JobOnly, CheckQuota, BookFile, CheckFirstChunk, MakeDirectory, OpenChunk, WriteChunk, EnterLock,
   CheckMergedName, MergeChunks, FinishChunks, EndCopy, SaveItem, FailSave, CheckFit, CheckSum, PutPart, PurgePart, DropPart

\* Who has written his chunk takes the lock that the upload has now.
LEMMA WaitsForCurrent ==
  ASSUME QuotaTypeOK, JobsFit, NEW w \in Workers, NEW q \in Job, JobStep(w), StepsAs(w, q), q.pc = "wait"
  PROVE  q.lock = lockGen[q.of]
<1>1. job[w].pc = "write"
  BY DEF StepsAs, Continues, Moves, NoJob
<1>2. WriteChunk(w)
  BY <1>1 DEF JobStep, CheckQuota, BookFile, CheckFirstChunk, MakeDirectory, OpenChunk, EnterLock,
     CheckMergedName, MergeChunks, FinishChunks, EndCopy, SaveItem, FailSave, CheckFit, CheckSum, PutPart, PurgePart, DropPart
<1>3. PICK p \in Job : StepsAs(w, p) /\ Continues(job[w], p) /\ p.lock = lockGen[job[w].of]
  <2>1. job'[w] = q
    BY BecomesFields DEF StepsAs
  <2>2. Ends(w) => job'[w] = NoJob
    BY NoJobType, BecomesFields DEF Ends, Becomes
  <2>3. ~Ends(w)
    BY <2>1, <2>2 DEF NoJob
  <2>4. QED
    BY <1>2, <2>3, WriteChunkEffect
<1>4. p = q
  BY <1>3, BecomesFields DEF StepsAs
<1>5. QED
  BY <1>3, <1>4 DEF Continues

LEMMA LocksStep == QuotaInv /\ LocksCurrent /\ [QuotaNext]_quotaVars => LocksCurrent'
<1> SUFFICES ASSUME QuotaTypeOK, JobsFit, CopiesFit, LocksCurrent, [QuotaNext]_quotaVars,
                    "abandonedLock" \notin slips'
             PROVE  (SameLock /\ OneHolder)'
  BY DEF QuotaInv, LocksCurrent
<1>0. ASSUME slips \subseteq slips' PROVE SameLock /\ OneHolder
  BY <1>0 DEF LocksCurrent
<1>1. ASSUME NEW w \in Workers, BeginJob(w)
      PROVE  (SameLock /\ OneHolder)'
  <2>1. PICK q \in Job : BeginsAs(w, q)
    BY <1>1, BeginJobEffect
  <2>2. job'[w] = q /\ (\A v \in Workers \ {w} : job'[v] = job[v]) /\ lockGen' = lockGen /\ slips \subseteq slips'
    BY <2>1, BecomesFields DEF BeginsAs
  <2>3. q.kind = "chunk" => q.pc \notin Critical \cup {"wait"}
    BY <2>1 DEF BeginsAs, AsksFor, Critical
  <2>4. QED
    BY <1>0, <2>2, <2>3 DEF SameLock, OneHolder
<1>2. ASSUME NEW w \in Workers, JobStep(w), CleanUp(w)
      PROVE  (SameLock /\ OneHolder)'
  <2>1. /\ job'[w] = NoJob /\ (\A v \in Workers \ {w} : job'[v] = job[v]) /\ slips \subseteq slips'
        /\ \A u \in Uploads : u # job[w].of => lockGen'[u] = lockGen[u]
    BY <1>2, CleanUpEffect, BecomesFields, NoJobType
  <2>2. ASSUME NEW v \in Workers \ {w}, job[v].pc \in Critical \cup {"wait"}
        PROVE  job[v].of # job[w].of
    BY <1>2, <2>2 DEF CleanUp, Slip
  <2>3. ASSUME NEW v \in Workers, job'[v].kind = "chunk", job'[v].pc \in Critical \cup {"wait"}
        PROVE  v # w /\ job'[v] = job[v] /\ lockGen'[job[v].of] = lockGen[job[v].of]
    <3>1. v # w /\ job'[v] = job[v]
      BY <2>1, <2>3 DEF NoJob
    <3>2. job[v].of \in Uploads
      BY <2>3, <3>1 DEF JobsFit, JobFits
    <3>3. QED
      BY <2>1, <2>2, <2>3, <3>1, <3>2
  <2>4. SameLock'
    BY <1>0, <2>1, <2>3 DEF SameLock
  <2>5. OneHolder'
    BY <1>0, <2>1, <2>3 DEF OneHolder
  <2>6. QED
    BY <2>4, <2>5
<1>3. ASSUME NEW w \in Workers, JobStep(w), lockGen' = lockGen, slips \subseteq slips'
      PROVE  (SameLock /\ OneHolder)'
  <2>1. PICK q \in Job : StepsAs(w, q)
    BY <1>3, JobStepEffect
  <2>2. job'[w] = q /\ (\A v \in Workers \ {w} : job'[v] = job[v])
    BY <2>1, BecomesFields DEF StepsAs
  <2>3. SameLock /\ OneHolder
    BY <1>0, <1>3
  <2>4. CASE q = NoJob
    <3>1. q.kind # "chunk"
      BY <2>4 DEF NoJob
    <3>2. QED
      BY <1>3, <2>2, <2>3, <3>1 DEF SameLock, OneHolder
  <2>5. CASE Continues(job[w], q)
    <3>1. q.kind = job[w].kind /\ q.of = job[w].of /\ (job[w].pc # "write" => q.lock = job[w].lock)
      BY <2>5 DEF Continues
    <3>2. q.pc \in Critical => job[w].pc \in Critical \/ (q.pc = "dup" /\ job[w].pc = "wait")
          \/ (q.pc = "quota" /\ job[w].pc = "merge")
      BY <2>5 DEF Continues, Moves, Critical
    <3>3. q.pc \in Critical => job[w].pc \in Critical \cup {"wait"} /\ job[w].pc # "write"
      BY <3>2 DEF Critical
    <3>4. q.pc = "wait" => q.lock = lockGen[q.of]
      BY <1>3, <2>1, WaitsForCurrent
    <3>5. q.kind = "chunk" /\ q.pc \in Critical \cup {"wait"} => q.lock = lockGen[q.of]
      BY <2>3, <3>1, <3>3, <3>4 DEF SameLock
    <3>6. SameLock'
      BY <1>3, <2>2, <2>3, <3>5 DEF SameLock
    <3>7. ASSUME q.kind = "chunk", q.pc \in Critical, NEW v \in Workers \ {w}, job[v].kind = "chunk",
                 job[v].pc \in Critical, job[v].of = q.of
          PROVE  FALSE
      <4>1. CASE job[w].pc \in Critical
        BY <2>3, <3>1, <3>7, <4>1 DEF OneHolder
      <4>2. CASE q.pc = "dup" /\ job[w].pc = "wait"
        <5>1. LockFree(w)
          BY <2>1, <4>2 DEF StepsAs
        <5>2. job[w].lock = lockGen[q.of] /\ job[v].lock = lockGen[q.of]
          BY <2>3, <3>1, <3>7, <4>2 DEF SameLock
        <5>3. QED
          BY <3>1, <3>7, <5>1, <5>2 DEF LockFree
      <4>3. QED
        BY <3>2, <3>7, <4>1, <4>2 DEF Critical
    <3>8. OneHolder'
      BY <2>2, <2>3, <3>7 DEF OneHolder
    <3>9. QED
      BY <3>6, <3>8
  <2>6. QED
    BY <2>1, <2>4, <2>5 DEF StepsAs
<1>4. CASE RestartProcess
  BY <1>4, RestartEffect DEF SameLock, OneHolder, NoJob
<1>5. CASE OthersAct
  BY <1>0, <1>5 DEF OthersAct, DocumentsStep, SameLock, OneHolder
<1>6. QED
  BY <1>1, <1>2, <1>3, <1>4, <1>5, StepKinds, JobStepLocks DEF OneBegins, OneSteps

-------------------------------------------------------------------------------
(* An upload in chunks is booked once *)

\* The file of an upload has the name that the upload asked for.
NamesKept ==
  "renamed" \notin slips => \A f \in Files : file[f].of \in Uploads => file[f].name = file[f].of

LEMMA NamesKeptStep == QuotaInv /\ NamesKept /\ [QuotaNext]_quotaVars => NamesKept'
<1> SUFFICES ASSUME QuotaTypeOK, JobsFit, CopiesFit, NamesKept, [QuotaNext]_quotaVars, "renamed" \notin slips',
                    NEW f \in Files, file'[f].of \in Uploads
             PROVE  file'[f].name = file'[f].of
  BY DEF QuotaInv, NamesKept
<1>1. CASE DocumentsStep
  BY <1>1 DEF DocumentsStep, NamesStay, NamesKept
<1>2. ASSUME NEW w \in Workers, NEW e \in Files, BookFile(w, e)
      PROVE  file'[f].name = file'[f].of
  <2>1. /\ slips' = slips /\ file'[e].of = job[w].of /\ file'[e].name = job[w].name
        /\ \A g \in Files \ {e} : file'[g] = file[g]
    BY <1>2, BookFileDocuments
  <2>2. job[w].of \in Uploads => job[w].name = job[w].of
    BY DEF JobsFit, JobFits
  <2>3. CASE f = e
    BY <2>1, <2>2, <2>3
  <2>4. CASE f # e
    BY <2>1, <2>4 DEF NamesKept
  <2>5. QED
    BY <2>3, <2>4
<1>3. QED
  BY <1>1, <1>2, StepKinds, BeginJobEffect, BeginsDocuments, JobStepDocuments, RestartEffect
     DEF OneBegins, OneSteps, OthersAct

\* Who holds the lock and has found the name free may still rely on it.
Unbooked(u) == \A f \in Files : file[f].state = "live" => file[f].of # u
NameStaysFree ==
  \A w \in Workers : job[w].kind = "chunk" /\ job[w].pc \in {"merge", "quota", "insert"} => Unbooked(job[w].of)
OneLiveFile ==
  \A f, g \in Files :
    file[f].state = "live" /\ file[g].state = "live" /\ file[f].of \in Uploads /\ file[f].of = file[g].of => f = g
BookedOnce == slips \cap {"abandonedLock", "restored", "renamed"} = {} => NameStaysFree /\ OneLiveFile

LEMMA LiveFilesStay ==
  ASSUME DocumentsStep, "restored" \notin slips', OneLiveFile
  PROVE  OneLiveFile'
BY DEF DocumentsStep, NoneRevived, OneLiveFile

LEMMA BookedOnceStep ==
  QuotaInv /\ LocksCurrent /\ NamesKept /\ BookedOnce /\ [QuotaNext]_quotaVars => BookedOnce'
<1> SUFFICES ASSUME QuotaTypeOK, JobsFit, CopiesFit, LocksCurrent, NamesKept, BookedOnce, [QuotaNext]_quotaVars,
                    slips' \cap {"abandonedLock", "restored", "renamed"} = {}
             PROVE  (NameStaysFree /\ OneLiveFile)'
  BY DEF QuotaInv, BookedOnce
<1>0. ASSUME slips \subseteq slips' PROVE NameStaysFree /\ OneLiveFile /\ SameLock /\ OneHolder
  BY <1>0 DEF LocksCurrent, BookedOnce
<1>unread. "restored" \notin slips' /\ "renamed" \notin slips'
  OBVIOUS
<1>1. ASSUME NEW w \in Workers, BeginJob(w)
      PROVE  (NameStaysFree /\ OneLiveFile)'
  <2>1. PICK q \in Job : BeginsAs(w, q)
    BY <1>1, BeginJobEffect
  <2>2. job'[w] = q /\ (\A v \in Workers \ {w} : job'[v] = job[v]) /\ file' = file /\ slips \subseteq slips'
    BY <2>1, BecomesFields DEF BeginsAs
  <2>3. q.kind = "chunk" => q.pc \notin {"merge", "quota", "insert"}
    BY <2>1 DEF BeginsAs, AsksFor
  <2>4. QED
    BY <1>0, <2>2, <2>3 DEF NameStaysFree, OneLiveFile, Unbooked
<1>2. ASSUME NEW w \in Workers, JobStep(w), DocumentsStep
      PROVE  (NameStaysFree /\ OneLiveFile)'
  <2>1. PICK q \in Job : StepsAs(w, q)
    BY <1>2, JobStepEffect
  <2>2. job'[w] = q /\ (\A v \in Workers \ {w} : job'[v] = job[v])
    BY <2>1, BecomesFields DEF StepsAs
  <2>3. NameStaysFree /\ OneLiveFile
    BY <1>0, <1>2 DEF DocumentsStep
  <2>4. OneLiveFile'
    BY <1>2, <1>unread, <2>3, LiveFilesStay
  <2>5. q.kind = "chunk" /\ q.pc \in {"merge", "quota", "insert"} => Unbooked(q.of)
    <3>1. CASE q = NoJob
      BY <3>1 DEF NoJob
    <3>2. CASE Continues(job[w], q)
      <4>1. q.kind = job[w].kind /\ q.of = job[w].of
        BY <3>2 DEF Continues
      <4>2. q.kind = "chunk" /\ q.pc = "merge" => Unbooked(q.of)
        <5>1. "renamed" \notin slips
          BY <1>2, <1>unread DEF DocumentsStep
        <5>2. q.kind = "chunk" => job[w].of \in Uploads /\ job[w].name = job[w].of
          BY <4>1 DEF JobsFit, JobFits
        <5>3. q.pc = "merge" => ~NameOfUploadTaken(job[w].name)
          BY <2>1 DEF StepsAs
        <5>4. QED
          BY <4>1, <5>1, <5>2, <5>3 DEF NamesKept, Unbooked, NameOfUploadTaken
      <4>3. q.pc \in {"quota", "insert"} => job[w].pc \in {"merge", "quota"}
        BY <3>2 DEF Continues, Moves
      <4>4. QED
        BY <2>3, <4>1, <4>2, <4>3 DEF NameStaysFree
    <3>3. QED
      BY <2>1, <3>1, <3>2 DEF StepsAs
  <2>6. ASSUME NEW v \in Workers, job'[v].kind = "chunk", job'[v].pc \in {"merge", "quota", "insert"}
        PROVE  Unbooked(job[v].of)'
    <3>1. Unbooked(job'[v].of) /\ job'[v].of \in Uploads
      <4>1. JobFits(job'[v])
        BY <2>1, <2>2 DEF StepsAs, JobsFit
      <4>2. QED
        BY <2>2, <2>3, <2>5, <2>6, <4>1 DEF NameStaysFree, JobFits
    <3>2. QED
      BY <1>2, <1>unread, <3>1 DEF DocumentsStep, NoneRevived, Unbooked
  <2>7. NameStaysFree'
    BY <2>6 DEF NameStaysFree
  <2>8. QED
    BY <2>4, <2>7
<1>3. ASSUME NEW w \in Workers, JobStep(w), NEW f \in Files, BookFile(w, f)
      PROVE  (NameStaysFree /\ OneLiveFile)'
  <2>1. /\ file[f].state = "fresh" /\ file'[f].of = job[w].of /\ \A g \in Files \ {f} : file'[g] = file[g]
        /\ slips' = slips /\ job[w].pc = "insert"
    BY <1>3, BookFileDocuments DEF BookFile
  <2>2. NameStaysFree /\ OneLiveFile /\ OneHolder
    BY <1>0, <2>1
  <2>3. PICK q \in Job : StepsAs(w, q)
    BY <1>3, JobStepEffect
  <2>4. job'[w] = q /\ (\A v \in Workers \ {w} : job'[v] = job[v])
    BY <2>3, BecomesFields DEF StepsAs
  <2>5. q.pc \notin {"merge", "quota", "insert"}
    BY <2>1, <2>3 DEF StepsAs, Continues, Moves, NoJob
  <2>6. job[w].of \in Uploads => job[w].kind = "chunk" /\ Unbooked(job[w].of)
    BY <2>1, <2>2 DEF NameStaysFree, JobsFit, JobFits
  <2>7. OneLiveFile'
    BY <2>1, <2>2, <2>6 DEF OneLiveFile, Unbooked
  <2>8. ASSUME NEW v \in Workers, job'[v].kind = "chunk", job'[v].pc \in {"merge", "quota", "insert"}
        PROVE  Unbooked(job[v].of)'
    <3>1. v # w /\ job'[v] = job[v]
      BY <2>4, <2>5, <2>8
    <3>2. Unbooked(job[v].of) /\ job[v].of \in Uploads
      BY <2>2, <2>8, <3>1 DEF NameStaysFree, JobsFit, JobFits
    <3>3. job[v].of # job[w].of
      <4>1. SUFFICES ASSUME job[v].of = job[w].of PROVE FALSE
        OBVIOUS
      <4>2. job[w].kind = "chunk"
        BY <2>6, <3>2, <4>1
      <4>3. QED
        BY <2>1, <2>2, <2>8, <3>1, <4>1, <4>2 DEF OneHolder, Critical
    <3>4. QED
      BY <2>1, <3>1, <3>2, <3>3 DEF Unbooked
  <2>9. NameStaysFree'
    BY <2>8 DEF NameStaysFree
  <2>10. QED
    BY <2>7, <2>9
<1>4. CASE RestartProcess
  <2>1. NameStaysFree /\ OneLiveFile /\ file' = file /\ job' = [w \in Workers |-> NoJob]
    BY <1>0, <1>4, RestartEffect DEF DocumentsStep
  <2>2. QED
    BY <2>1 DEF NameStaysFree, OneLiveFile, NoJob
<1>5. CASE OthersAct
  <2>1. DocumentsStep /\ job' = job /\ NameStaysFree /\ OneLiveFile
    BY <1>0, <1>5 DEF OthersAct, DocumentsStep
  <2>2. OneLiveFile'
    BY <1>unread, <2>1, LiveFilesStay
  <2>3. NameStaysFree'
    BY <1>unread, <2>1 DEF NameStaysFree, DocumentsStep, NoneRevived, Unbooked, JobsFit, JobFits
  <2>4. QED
    BY <2>2, <2>3
<1>6. QED
  BY <1>1, <1>2, <1>3, <1>4, <1>5, StepKinds, JobStepDocuments DEF OneBegins, OneSteps

\* One of two things that are the same is at most one thing.
LEMMA AtMostOne ==
  ASSUME NEW S, \A x, y \in S : x = y
  PROVE  Cardinality(S) <= 1
<1>1. CASE S = {}
  BY <1>1, FS_EmptySet
<1>2. CASE \E x : x \in S
  <2>1. PICK x : S = {x}
    BY <1>2
  <2>2. QED
    BY <2>1, FS_Singleton
<1>3. QED
  BY <1>1, <1>2

\* The lock of upload_chunk and the name that it asks for do their work: an
\* upload leaves at most one file outside the bin, unless its lock was dropped
\* under somebody who waited for it, or its file was renamed, moved to another
\* folder or taken out of the bin.
THEOREM ChunksBookOnce == QuotaSpec => []UploadBookedOnce
<1>1. QuotaInit => QuotaInv /\ LocksCurrent /\ NamesKept /\ BookedOnce
  <2> SUFFICES ASSUME QuotaInit PROVE LocksCurrent /\ NamesKept /\ BookedOnce
    BY QuotaInvInit
  <2>1. \A w \in Workers : job[w].kind # "chunk"
    BY DEF QuotaInit, NoJob
  <2>2. \A f \in Files : file[f].state # "live" /\ file[f].of \notin Uploads
    BY QuotaAssumption DEF QuotaInit, NewFile, QuotaAssumption
  <2>3. QED
    BY <2>1, <2>2 DEF LocksCurrent, SameLock, OneHolder, NamesKept, BookedOnce, NameStaysFree, OneLiveFile
<1>2. QuotaInv /\ LocksCurrent /\ NamesKept /\ BookedOnce /\ [QuotaNext]_quotaVars => (QuotaInv /\ LocksCurrent /\ NamesKept /\ BookedOnce)'
  BY QuotaInvStep, LocksStep, NamesKeptStep, BookedOnceStep
<1>3. BookedOnce => UploadBookedOnce
  BY AtMostOne DEF BookedOnce, OneLiveFile, UploadBookedOnce
<1>4. QED
  BY <1>1, <1>2, <1>3, PTL DEF QuotaSpec

-------------------------------------------------------------------------------
(* What a file sent one chunk at a time can lack *)

\* With one handler for each upload, whatever is on disk is whole, torn, or
\* being written by that handler; so a merge finds each chunk whole or torn, and
\* the torn ones stay on disk until its file is stored.
OneForEach == \A v, w \in Workers : job[v].of \in Uploads /\ job[v].of = job[w].of => v = w
WritesIt(w, u, c) == job[w].pc = "write" /\ job[w].of = u /\ job[w].chunk = c
NoneOpen ==
  \A u \in Uploads, c \in Index :
    \/ dir[u].chunk[c] \in {"none", "whole", "torn"}
    \/ \E w \in Workers : dir[u].chunk[c] = w /\ WritesIt(w, u, c)
MergedAll ==
  \A w \in Workers : job[w].kind = "chunk" /\ job[w].pc \in {"quota", "insert", "store"} =>
    job[w].size + Cardinality(TornChunks(job[w].of)) = Total
OneAtATime == "parallelChunks" \notin slips => OneForEach /\ NoneOpen /\ MergedAll

LEMMA OnlyWriteChunkWrites ==
  ASSUME NEW w \in Workers, JobStep(w)
  PROVE  job[w].pc = "write" <=> WriteChunk(w)
BY DEF JobStep, CheckQuota, BookFile, CheckFirstChunk, MakeDirectory, OpenChunk, WriteChunk, EnterLock,
   CheckMergedName, MergeChunks, FinishChunks, EndCopy, SaveItem, FailSave, CheckFit, CheckSum, PutPart, PurgePart, DropPart

\* A chunk on disk after a step was removed, written, to the end or not, opened,
\* or is as it was.
LEMMA ChunkFate ==
  ASSUME QuotaTypeOK, JobsFit, NEW w \in Workers, JobStep(w), NEW u \in Uploads, NEW c \in Index
  PROVE  \/ dir'[u].chunk[c] \in {"none", "whole", "torn"}
         \/ dir'[u].chunk[c] = w /\ WritesIt(w, u, c)'
         \/ dir'[u].chunk[c] = dir[u].chunk[c] /\ (WritesIt(w, u, c) => dir[u].chunk[c] # w)
<1>0. dir \in [Uploads -> Directory] /\ dir[u] \in Directory /\ job[w] \in Job /\ job \in [Workers -> Job]
  BY DEF QuotaTypeOK
<1>1. CASE MakeDirectory(w)
  <2>1. dir' = [dir EXCEPT ![job[w].of] = [dir[job[w].of] EXCEPT !.made = TRUE]] /\ job[w].pc = "make"
    BY <1>1 DEF MakeDirectory
  <2>2. job[w].of \in Uploads /\ dir[job[w].of] \in Directory
    BY <1>0, <2>1 DEF JobsFit, JobFits, ChunkStages
  <2>3. [dir[job[w].of] EXCEPT !.made = TRUE].chunk = dir[job[w].of].chunk
    BY <2>2 DEF Directory
  <2>4. dir'[u].chunk = dir[u].chunk
    BY <1>0, <2>1, <2>2, <2>3
  <2>5. QED
    BY <2>1, <2>4 DEF WritesIt
<1>2. CASE OpenChunk(w)
  <2>1. job[w].pc = "open" /\ job[w].of \in Uploads /\ job[w].chunk \in Index /\ w \in Chunk
    BY <1>0, <1>2, ChunkType DEF OpenChunk, JobsFit, JobFits, ChunkStages, Job
  <2>2. CASE PutChunk(job[w].of, job[w].chunk, w) /\ Goes(w, "write")
    <3>1. /\ dir'[job[w].of].chunk[job[w].chunk] = w
          /\ (u # job[w].of \/ c # job[w].chunk => dir'[u].chunk[c] = dir[u].chunk[c])
      BY <1>0, <2>1, <2>2, PutChunkFields
    <3>2. job' = [job EXCEPT ![w] = [job[w] EXCEPT !.pc = "write"]] /\ "write" \in Places
      BY <2>2 DEF Goes, Places
    <3>3. /\ [job[w] EXCEPT !.pc = "write"].pc = "write" /\ [job[w] EXCEPT !.pc = "write"].of = job[w].of
          /\ [job[w] EXCEPT !.pc = "write"].chunk = job[w].chunk
      BY <1>0, <3>2, PlaceFields
    <3>4. job'[w] = [job[w] EXCEPT !.pc = "write"]
      BY <1>0, <3>2
    <3>5. job'[w].pc = "write" /\ job'[w].of = job[w].of /\ job'[w].chunk = job[w].chunk
      BY <3>3, <3>4
    <3>6. QED
      BY <2>1, <3>1, <3>5 DEF WritesIt
  <2>3. CASE dir' = dir
    BY <2>1, <2>3 DEF WritesIt
  <2>4. QED
    BY <1>2, <2>2, <2>3 DEF OpenChunk
<1>3. CASE WriteChunk(w)
  <2>1. job[w].of \in Uploads /\ job[w].chunk \in Index /\ {"whole", "torn"} \subseteq Chunk
    BY <1>0, <1>3, ChunkType DEF WriteChunk, JobsFit, JobFits, ChunkStages, Job
  <2>2. CASE \E content \in {"whole", "torn"} : PutChunk(job[w].of, job[w].chunk, content)
    <3>1. /\ dir'[job[w].of].chunk[job[w].chunk] \in {"whole", "torn"}
          /\ (u # job[w].of \/ c # job[w].chunk => dir'[u].chunk[c] = dir[u].chunk[c])
      BY <1>0, <2>1, <2>2, PutChunkFields
    <3>2. QED
      BY <3>1 DEF WritesIt
  <2>3. CASE dir[job[w].of].chunk[job[w].chunk] # w /\ dir' = dir
    BY <2>3 DEF WritesIt
  <2>4. QED
    BY <1>3, <2>2, <2>3 DEF WriteChunk
<1>4. CASE CleanUp(w) /\ ~WriteChunk(w)
  <2>1. dir'[u] = IF u = job[w].of THEN NoDirectory ELSE dir[u]
    BY <1>4, CleanUpEffect
  <2>2. NoDirectory.chunk[c] = "none"
    BY DEF NoDirectory
  <2>3. QED
    BY <1>4, <2>1, <2>2, OnlyWriteChunkWrites DEF WritesIt
<1>5. CASE dir' = dir /\ ~WriteChunk(w)
  BY <1>5, OnlyWriteChunkWrites DEF WritesIt
<1>6. QED
  BY <1>1, <1>2, <1>3, <1>4, <1>5 DEF JobStep, JobOnly, CheckQuota, BookFile, CheckFirstChunk, EnterLock,
     CheckMergedName, MergeChunks, FinishChunks, EndCopy, SaveItem, FailSave, CheckFit, CheckSum, PutPart, PurgePart, DropPart

\* A chunk of an upload is only written by its own handlers, and not between
\* the merge and the store.
LEMMA ChunksStay ==
  ASSUME QuotaTypeOK, JobsFit, NEW w \in Workers, JobStep(w), NEW u \in Uploads,
         u # job[w].of \/ (job[w].pc \in {"merge", "quota", "insert", "store"} /\ ~CleanUp(w))
  PROVE  dir'[u].chunk = dir[u].chunk
<1>1. CASE MakeDirectory(w) \/ OpenChunk(w) \/ WriteChunk(w)
  <2>1. u # job[w].of
    BY <1>1 DEF MakeDirectory, OpenChunk, WriteChunk
  <2>2. QED
    BY <1>1, <2>1, DirStep
<1>2. CASE CleanUp(w)
  BY <1>2, CleanUpEffect
<1>3. CASE dir' = dir
  BY <1>3
<1>4. QED
  BY <1>1, <1>2, <1>3 DEF JobStep, JobOnly, CheckQuota, BookFile, CheckFirstChunk, EnterLock,
     CheckMergedName, MergeChunks, FinishChunks, EndCopy, SaveItem, FailSave, CheckFit, CheckSum, PutPart, PurgePart, DropPart

LEMMA TornStay ==
  ASSUME NEW u \in Uploads, dir'[u].chunk = dir[u].chunk
  PROVE  TornChunks(u)' = TornChunks(u)
BY DEF TornChunks

\* Chunks that are whole or torn make up the file.
LEMMA WholeAndTorn ==
  ASSUME QuotaTypeOK, NEW u \in Uploads, \A c \in Index : dir[u].chunk[c] \in {"whole", "torn"}
  PROVE  Cardinality(WholeChunks(u)) + Cardinality(TornChunks(u)) = Total
<1> DEFINE S == WholeChunks(u)
           T == TornChunks(u)
<1>1. S \subseteq Index /\ T = Index \ S
  BY DEF WholeChunks, TornChunks
<1> HIDE DEF S, T
<1>2. IsFiniteSet(Index) /\ IsFiniteSet(S)
  BY <1>1, IndexFinite, FS_Subset
<1>3. Cardinality(Index \ S) = Cardinality(Index) - Cardinality(Index \cap S)
  BY <1>2, FS_Difference
<1>4. Index \cap S = S
  BY <1>1
<1>5. Cardinality(S) \in Nat /\ Cardinality(Index) = Total /\ Total \in Nat
  BY <1>2, IndexFinite, FS_CardinalityType
<1>6. Cardinality(T) = Total - Cardinality(S)
  BY <1>1, <1>3, <1>4, <1>5
<1>7. Cardinality(S) + Cardinality(T) = Total
  BY <1>5, <1>6
<1>8. QED
  BY <1>7 DEF S, T

LEMMA MergedSize ==
  ASSUME QuotaTypeOK, JobsFit, NEW w \in Workers, NEW q \in Job, JobStep(w), StepsAs(w, q), q.pc = "quota"
  PROVE  /\ job[w].of \in Uploads /\ AllChunksExist(job[w].of) /\ job[w].pc = "merge"
         /\ q.size = Cardinality(WholeChunks(job[w].of)) /\ q.of = job[w].of /\ ~CleanUp(w)
<1>1. job[w].pc = "merge"
  BY DEF StepsAs, Continues, Moves, NoJob
<1>2. MergeChunks(w)
  BY <1>1 DEF JobStep, CheckQuota, BookFile, CheckFirstChunk, MakeDirectory, OpenChunk, WriteChunk, EnterLock,
     CheckMergedName, FinishChunks, EndCopy, SaveItem, FailSave, CheckFit, CheckSum, PutPart, PurgePart, DropPart
<1>3. job'[w] = q
  BY BecomesFields DEF StepsAs
<1>4. ~CleanUp(w)
  <2>1. CleanUp(w) => job'[w] = NoJob
    BY CleanUpEffect, BecomesFields, NoJobType
  <2>2. QED
    BY <1>3, <2>1 DEF NoJob
<1>5. PICK p \in Job : StepsAs(w, p) /\ p.size = Cardinality(WholeChunks(job[w].of)) /\ p.of = job[w].of
  BY <1>2, <1>4, MergeEffect DEF Continues
<1>6. p = q
  BY <1>3, <1>5, BecomesFields DEF StepsAs
<1>7. QED
  BY <1>1, <1>2, <1>4, <1>5, <1>6, MergeEffect

LEMMA OneAtATimeStep == QuotaInv /\ OneAtATime /\ [QuotaNext]_quotaVars => OneAtATime'
<1> SUFFICES ASSUME QuotaTypeOK, JobsFit, CopiesFit, OneAtATime, [QuotaNext]_quotaVars,
                    "parallelChunks" \notin slips'
             PROVE  (OneForEach /\ NoneOpen /\ MergedAll)'
  BY DEF QuotaInv, OneAtATime
<1>0. ASSUME slips \subseteq slips' PROVE OneForEach /\ NoneOpen /\ MergedAll
  BY <1>0 DEF OneAtATime
<1>1. ASSUME NEW w \in Workers, BeginJob(w)
      PROVE  (OneForEach /\ NoneOpen /\ MergedAll)'
  <2>1. PICK q \in Job : BeginsAs(w, q)
    BY <1>1, BeginJobEffect
  <2>2. /\ job'[w] = q /\ (\A v \in Workers \ {w} : job'[v] = job[v]) /\ dir' = dir /\ slips \subseteq slips'
        /\ job[w].pc = "idle"
    BY <2>1, BecomesFields DEF BeginsAs, Idles
  <2>3. OneForEach /\ NoneOpen /\ MergedAll
    BY <1>0, <2>2
  <2>4. q.of \in Uploads => \A v \in Workers : job[v].of # q.of
    BY <2>1 DEF BeginsAs
  <2>5. OneForEach'
    BY <2>2, <2>3, <2>4 DEF OneForEach
  <2>6. NoneOpen'
    <3>1. ASSUME NEW v \in Workers, NEW u \in Uploads, NEW c \in Index, WritesIt(v, u, c)
          PROVE  WritesIt(v, u, c)'
      BY <2>2, <3>1 DEF WritesIt
    <3>2. QED
      BY <2>2, <2>3, <3>1 DEF NoneOpen
  <2>7. MergedAll'
    <3>1. q.kind = "chunk" => q.pc \notin {"quota", "insert", "store"}
      BY <2>1 DEF BeginsAs, AsksFor
    <3>2. QED
      BY <2>2, <2>3, <3>1 DEF MergedAll, TornChunks
  <2>8. QED
    BY <2>5, <2>6, <2>7
<1>2. ASSUME NEW w \in Workers, JobStep(w)
      PROVE  (OneForEach /\ NoneOpen /\ MergedAll)'
  <2>1. PICK q \in Job : StepsAs(w, q)
    BY <1>2, JobStepEffect
  <2>2. job'[w] = q /\ (\A v \in Workers \ {w} : job'[v] = job[v])
    BY <2>1, BecomesFields DEF StepsAs
  <2>3. OneForEach /\ NoneOpen /\ MergedAll
    BY <1>0, <1>2, CleanUpEffect, JobStepLocks
  <2>4. q.of \in Uploads => q.kind = job[w].kind /\ q.of = job[w].of
    BY <2>1 DEF StepsAs, Continues, JobFits, NoJob
  <2>5. OneForEach'
    BY <2>2, <2>3, <2>4 DEF OneForEach
  <2>6. NoneOpen'
    <3>1. SUFFICES ASSUME NEW u \in Uploads, NEW c \in Index
                   PROVE  \/ dir'[u].chunk[c] \in {"none", "whole", "torn"}
                          \/ \E v \in Workers : dir'[u].chunk[c] = v /\ WritesIt(v, u, c)'
      BY DEF NoneOpen, WritesIt
    <3>2. ASSUME NEW v \in Workers \ {w}, WritesIt(v, u, c)
          PROVE  WritesIt(v, u, c)'
      BY <2>2, <3>2 DEF WritesIt
    <3>3. CASE dir'[u].chunk[c] = dir[u].chunk[c] /\ (WritesIt(w, u, c) => dir[u].chunk[c] # w)
      BY <2>3, <3>2, <3>3 DEF NoneOpen
    <3>4. QED
      BY <1>2, <3>3, ChunkFate
  <2>7. ASSUME q.kind = "chunk", q.pc \in {"quota", "insert", "store"}
        PROVE  q.size + Cardinality(TornChunks(q.of)') = Total
    <3>1. Continues(job[w], q) /\ q.of = job[w].of /\ job[w].of \in Uploads /\ job[w].kind = "chunk"
      BY <2>1, <2>7 DEF StepsAs, NoJob, Continues, JobsFit, JobFits
    <3>2. job[w].pc \in {"merge", "quota", "insert"}
      BY <2>7, <3>1 DEF Continues, Moves
    <3>3. ~CleanUp(w)
      <4>1. CleanUp(w) => job'[w] = NoJob
        BY CleanUpEffect, BecomesFields, NoJobType
      <4>2. QED
        BY <2>2, <2>7, <4>1 DEF NoJob
    <3>4. TornChunks(q.of)' = TornChunks(job[w].of)
      <4>1. PICK u \in Uploads : u = job[w].of
        BY <3>1
      <4>2. dir'[u].chunk = dir[u].chunk
        BY <1>2, <3>2, <3>3, <4>1, ChunksStay
      <4>3. TornChunks(u)' = TornChunks(u)
        BY <4>2, TornStay
      <4>4. QED
        BY <3>1, <4>1, <4>3
    <3>5. CASE q.pc = "quota"
      <4>1. /\ job[w].of \in Uploads /\ AllChunksExist(job[w].of) /\ job[w].pc = "merge"
            /\ q.size = Cardinality(WholeChunks(job[w].of))
        BY <1>2, <2>1, <3>5, MergedSize
      <4>2. \A c \in Index : dir[job[w].of].chunk[c] \in {"whole", "torn"}
        BY <2>3, <4>1 DEF OneForEach, NoneOpen, WritesIt, AllChunksExist
      <4>3. q.size + Cardinality(TornChunks(job[w].of)) = Total
        BY <4>1, <4>2, WholeAndTorn
      <4>4. QED
        BY <3>4, <4>3
    <3>6. CASE q.pc \in {"insert", "store"}
      <4>1. job[w].pc \in {"quota", "insert"} /\ q.size = job[w].size
        BY <3>1, <3>6 DEF Continues, Moves
      <4>2. QED
        BY <2>3, <3>1, <3>4, <4>1 DEF MergedAll
    <3>7. QED
      BY <2>7, <3>5, <3>6
  <2>8. ASSUME NEW v \in Workers \ {w}, job[v].kind = "chunk", job[v].pc \in {"quota", "insert", "store"}
        PROVE  job[v].size + Cardinality(TornChunks(job[v].of)') = Total
    <3>1. PICK u \in Uploads : u = job[v].of
      BY <2>8 DEF JobsFit, JobFits
    <3>2. u # job[w].of
      BY <2>3, <3>1 DEF OneForEach
    <3>3. TornChunks(u)' = TornChunks(u)
      BY <1>2, <3>2, ChunksStay, TornStay
    <3>4. job[v].size + Cardinality(TornChunks(u)) = Total
      BY <2>3, <2>8, <3>1 DEF MergedAll
    <3>5. QED
      BY <2>2, <3>1, <3>3, <3>4
  <2>9. MergedAll'
    BY <2>2, <2>7, <2>8 DEF MergedAll
  <2>10. QED
    BY <2>5, <2>6, <2>9
<1>3. CASE RestartProcess
  <2>1. /\ \A w \in Workers : job'[w] = NoJob
        /\ \A u \in Uploads, c \in Index : dir'[u].chunk[c] \in {"none", "whole", "torn"}
    BY <1>3, RestartEffect
  <2>2. NoJob.kind # "chunk" /\ NoJob.of \notin Uploads
    BY QuotaAssumption DEF NoJob, QuotaAssumption
  <2>3. QED
    BY <2>1, <2>2 DEF OneForEach, NoneOpen, MergedAll
<1>4. CASE OthersAct
  BY <1>0, <1>4 DEF OthersAct, DocumentsStep, OneForEach, NoneOpen, WritesIt, MergedAll, TornChunks
<1>5. QED
  BY <1>1, <1>2, <1>3, <1>4, StepKinds DEF OneBegins, OneSteps

\* Whatever else runs, and however often writes fail or the program starts
\* again, the file of a client that waits for each answer lacks the chunks that
\* are torn on disk and no other: the merge looks at their existence alone.
THEOREM ChunksMakeWholeFile == QuotaSpec => []MergedFileIsWhole
<1>1. QuotaInit => QuotaInv /\ OneAtATime
  <2> SUFFICES ASSUME QuotaInit PROVE OneForEach /\ NoneOpen /\ MergedAll
    BY QuotaInvInit DEF OneAtATime
  <2>1. \A w \in Workers : job[w].kind # "chunk" /\ job[w].of \notin Uploads
    BY NoJobType DEF QuotaInit, NoJob, JobFits
  <2>2. \A u \in Uploads, c \in Index : dir[u].chunk[c] = "none"
    BY DEF QuotaInit, NoDirectory
  <2>3. QED
    BY <2>1, <2>2 DEF OneForEach, NoneOpen, MergedAll
<1>2. QuotaInv /\ OneAtATime /\ [QuotaNext]_quotaVars => (QuotaInv /\ OneAtATime)'
  BY QuotaInvStep, OneAtATimeStep
<1>3. OneAtATime => MergedFileIsWhole
  BY DEF OneAtATime, MergedAll, MergedFileIsWhole
<1>4. QED
  BY <1>1, <1>2, <1>3, PTL DEF QuotaSpec

-------------------------------------------------------------------------------
(* The sums of the model *)

FileSizes == [f \in Files |-> SizeOf(f)]
LiveIn(p) == {f \in Files : file[f].state = "live" /\ file[f].part = p}
PartSizes == [p \in Parts |-> part[p].size]
JobSizes == [w \in Workers |-> job[w].size]

LEMMA SizesNatural ==
  ASSUME QuotaTypeOK
  PROVE  /\ \A f \in Files : SizeOf(f) \in Nat /\ FileSizes[f] = SizeOf(f)
         /\ \A p \in Parts : PartSizes[p] \in Nat /\ PartSizes[p] = part[p].size
         /\ \A w \in Workers : JobSizes[w] \in Nat /\ JobSizes[w] = job[w].size
<1>1. \A f \in Files : file[f] \in File
  BY DEF QuotaTypeOK
<1>2. \A p \in Parts : part[p] \in Partition
  BY DEF QuotaTypeOK
<1>3. \A w \in Workers : job[w] \in Job
  BY DEF QuotaTypeOK
<1>4. QED
  BY <1>1, <1>2, <1>3 DEF SizeOf, FileSizes, PartSizes, JobSizes, File, Partition, Job

LEMMA FilesSum ==
  ASSUME QuotaTypeOK, NEW S \in SUBSET Files
  PROVE  MapThenSumSet(SizeOf, S) = Sum(FileSizes, S)
<1>1. IsFiniteSet(S) /\ \A f \in S : FileSizes[f] \in Nat /\ FileSizes[f] = SizeOf(f)
  BY QuotaAssumption, FS_Subset, SizesNatural DEF QuotaAssumption
<1> DEFINE iter == CHOOSE h : h =
             [T \in SUBSET S |-> IF T = {} THEN 0 ELSE SizeOf(CHOOSE x \in T : TRUE) + h[T \ {CHOOSE x \in T : TRUE}]]
<1>2. MapThenSumSet(SizeOf, S) = iter[S]
  BY DEF MapThenSumSet, MapThenFoldSet
<1>3. \A h : Recurs(h, FileSizes, S) <=>
        h = [T \in SUBSET S |-> IF T = {} THEN 0 ELSE SizeOf(CHOOSE x \in T : TRUE) + h[T \ {CHOOSE x \in T : TRUE}]]
  BY <1>1 DEF Recurs
<1>4. (\E h : Recurs(h, FileSizes, S)) /\ \A h : Recurs(h, FileSizes, S) => h[S] = Sum(FileSizes, S)
  BY <1>1, RecursSum
<1>5. Recurs(iter, FileSizes, S)
  BY <1>3, <1>4
<1> HIDE DEF iter
<1>6. QED
  BY <1>2, <1>4, <1>5

LEMMA PartsSum ==
  ASSUME QuotaTypeOK, NEW S \in SUBSET Parts
  PROVE  Allocated(S) = Sum(PartSizes, S)
<1>1. IsFiniteSet(S) /\ \A p \in S : PartSizes[p] \in Nat /\ PartSizes[p] = part[p].size
  BY QuotaAssumption, FS_Subset, SizesNatural DEF QuotaAssumption
<1> DEFINE iter == CHOOSE h : h =
             [T \in SUBSET S |-> IF T = {} THEN 0 ELSE part[CHOOSE x \in T : TRUE].size + h[T \ {CHOOSE x \in T : TRUE}]]
<1>2. Allocated(S) = iter[S]
  BY DEF Allocated, MapThenSumSet, MapThenFoldSet
<1>3. \A h : Recurs(h, PartSizes, S) <=>
        h = [T \in SUBSET S |-> IF T = {} THEN 0 ELSE part[CHOOSE x \in T : TRUE].size + h[T \ {CHOOSE x \in T : TRUE}]]
  BY <1>1 DEF Recurs
<1>4. (\E h : Recurs(h, PartSizes, S)) /\ \A h : Recurs(h, PartSizes, S) => h[S] = Sum(PartSizes, S)
  BY <1>1, RecursSum
<1>5. Recurs(iter, PartSizes, S)
  BY <1>3, <1>4
<1> HIDE DEF iter
<1>6. QED
  BY <1>2, <1>4, <1>5

LEMMA JobsSum ==
  ASSUME QuotaTypeOK
  PROVE  Promised = Sum(JobSizes, Passed)
<1> DEFINE S == Passed
           g == JobSizes
<1>1. IsFiniteSet(S) /\ \A w \in S : g[w] \in Nat /\ g[w] = job[w].size
  <2>1. S \subseteq Workers
    BY DEF Passed
  <2>2. IsFiniteSet(S)
    BY <2>1, QuotaAssumption, FS_Subset DEF QuotaAssumption
  <2>3. QED
    BY <2>1, <2>2, SizesNatural
<1> DEFINE iter == CHOOSE h : h =
             [T \in SUBSET S |-> IF T = {} THEN 0 ELSE job[CHOOSE x \in T : TRUE].size + h[T \ {CHOOSE x \in T : TRUE}]]
<1>2. Promised = iter[S]
  BY DEF Promised, MapThenSumSet, MapThenFoldSet
<1> HIDE DEF S, g
<1>3. \A h : Recurs(h, g, S) <=>
        h = [T \in SUBSET S |-> IF T = {} THEN 0 ELSE job[CHOOSE x \in T : TRUE].size + h[T \ {CHOOSE x \in T : TRUE}]]
  BY <1>1 DEF Recurs
<1>4. (\E h : Recurs(h, g, S)) /\ \A h : Recurs(h, g, S) => h[S] = Sum(g, S)
  BY <1>1, RecursSum
<1>5. Recurs(iter, g, S)
  BY <1>3, <1>4
<1> HIDE DEF iter
<1>6. QED
  BY <1>2, <1>4, <1>5 DEF S, g

\* What the checks compare and what has passed one, as sums over sets.
SumsHold ==
  /\ Used = Sum(FileSizes, Files) /\ Used \in Nat
  /\ \A p : UsedIn(p) = Sum(FileSizes, LiveIn(p)) /\ UsedIn(p) \in Nat /\ LiveIn(p) \in SUBSET Files
  /\ \A S \in SUBSET Parts : Allocated(S) = Sum(PartSizes, S) /\ Allocated(S) \in Nat
  /\ Promised = Sum(JobSizes, Passed) /\ Promised \in Nat /\ Passed \in SUBSET Workers
  /\ \A f \in Files : SizeOf(f) \in Nat /\ FileSizes[f] = SizeOf(f)
  /\ \A p \in Parts : PartSizes[p] \in Nat /\ PartSizes[p] = part[p].size
  /\ \A w \in Workers : JobSizes[w] \in Nat /\ JobSizes[w] = job[w].size

LEMMA SumsMeant == QuotaTypeOK => SumsHold
<1> SUFFICES ASSUME QuotaTypeOK PROVE SumsHold
  OBVIOUS
<1>1. IsFiniteSet(Files) /\ IsFiniteSet(Parts) /\ IsFiniteSet(Workers)
  BY QuotaAssumption DEF QuotaAssumption
<1>2. \A S \in SUBSET Files : Sum(FileSizes, S) \in Nat
  BY <1>1, FS_Subset, SumNat, SizesNatural
<1>3. \A S \in SUBSET Parts : Sum(PartSizes, S) \in Nat
  BY <1>1, FS_Subset, SumNat, SizesNatural
<1>4. Passed \in SUBSET Workers
  BY DEF Passed
<1>5. Sum(JobSizes, Passed) \in Nat
  BY <1>1, <1>4, FS_Subset, SumNat, SizesNatural
<1>6. Used = Sum(FileSizes, Files)
  BY FilesSum DEF Used
<1>7. \A p : LiveIn(p) \in SUBSET Files /\ UsedIn(p) = Sum(FileSizes, LiveIn(p))
  BY FilesSum DEF UsedIn, LiveIn
<1>8. QED
  BY <1>2, <1>3, <1>4, <1>5, <1>6, <1>7, PartsSum, JobsSum, SizesNatural DEF SumsHold

LEMMA SumsMeantNext == ASSUME QuotaTypeOK' PROVE SumsHold'
<1>1. (QuotaTypeOK => SumsHold)'
  BY SumsMeant, PTL
<1>2. QED
  BY <1>1

-------------------------------------------------------------------------------
(* What a step does to the sums *)

LEMMA NoFileGrows ==
  ASSUME QuotaTypeOK, QuotaTypeOK', \A f \in Files : SizeOf(f)' <= SizeOf(f)
  PROVE  Used' <= Used
<1>1. IsFiniteSet(Files) /\ SumsHold /\ SumsHold'
  BY QuotaAssumption, SumsMeant, SumsMeantNext DEF QuotaAssumption
<1>2. /\ \A f \in Files : FileSizes'[f] \in Nat /\ FileSizes[f] \in Nat /\ FileSizes'[f] <= FileSizes[f]
      /\ Used = Sum(FileSizes, Files) /\ Used' = Sum(FileSizes', Files)
  BY <1>1 DEF SumsHold
<1>3. Sum(FileSizes', Files) <= Sum(FileSizes, Files)
  BY <1>1, <1>2, SumLeq
<1>4. QED
  BY <1>2, <1>3

LEMMA NoPartFills ==
  ASSUME QuotaTypeOK, QuotaTypeOK', NEW p, LiveIn(p)' \subseteq LiveIn(p), \A f \in LiveIn(p)' : SizeOf(f)' <= SizeOf(f)
  PROVE  UsedIn(p)' <= UsedIn(p)
<1>1. IsFiniteSet(Files) /\ SumsHold /\ SumsHold'
  BY QuotaAssumption, SumsMeant, SumsMeantNext DEF QuotaAssumption
<1> DEFINE S == LiveIn(p)
           T == LiveIn(p)'
           g == FileSizes
           h == FileSizes'
<1>2. /\ S \in SUBSET Files /\ T \in SUBSET S /\ UsedIn(p) = Sum(g, S) /\ UsedIn(p)' = Sum(h, T)
      /\ UsedIn(p) \in Nat /\ UsedIn(p)' \in Nat
  BY <1>1 DEF SumsHold
<1>3. \A f \in Files : g[f] \in Nat /\ h[f] \in Nat /\ (f \in T => h[f] <= g[f])
  BY <1>1 DEF SumsHold
<1> HIDE DEF S, T, g, h
<1>4. IsFiniteSet(S) /\ IsFiniteSet(T)
  BY <1>1, <1>2, FS_Subset
<1>5. Sum(h, T) <= Sum(g, T)
  BY <1>2, <1>3, <1>4, SumLeq
<1>6. Sum(g, T) <= Sum(g, S)
  BY <1>2, <1>3, <1>4, SumSubset
<1>7. Sum(g, T) \in Nat
  BY <1>2, <1>3, <1>4, SumNat
<1>8. QED
  BY <1>2, <1>5, <1>6, <1>7

LEMMA SameFiles ==
  ASSUME QuotaTypeOK, QuotaTypeOK', file' = file
  PROVE  /\ Used' = Used /\ Used \in Nat
         /\ \A p : UsedIn(p)' = UsedIn(p) /\ UsedIn(p) \in Nat
<1>1. SumsHold /\ SumsHold'
  BY SumsMeant, SumsMeantNext
<1>2. FileSizes' = FileSizes /\ \A p : LiveIn(p)' = LiveIn(p)
  BY DEF FileSizes, SizeOf, Kept, LiveIn
<1>3. QED
  BY <1>1, <1>2 DEF SumsHold

LEMMA SameParts ==
  ASSUME QuotaTypeOK, QuotaTypeOK', part' = part
  PROVE  LiveParts' = LiveParts /\ \A S \in SUBSET Parts : Allocated(S)' = Allocated(S) /\ Allocated(S) \in Nat
<1>1. SumsHold /\ SumsHold'
  BY SumsMeant, SumsMeantNext
<1>2. PartSizes' = PartSizes /\ LiveParts' = LiveParts
  BY DEF PartSizes, LiveParts
<1>3. QED
  BY <1>1, <1>2 DEF SumsHold

\* The partitions of S together, when one of them has changed.
LEMMA OnePartChanges ==
  ASSUME QuotaTypeOK, QuotaTypeOK', NEW p \in Parts, \A o \in Parts \ {p} : part'[o] = part[o],
         NEW S \in SUBSET (Parts \ {p})
  PROVE  /\ Allocated(S)' = Allocated(S) /\ Allocated(S) \in Nat
         /\ Allocated(S \cup {p})' = Allocated(S) + part'[p].size /\ part'[p].size \in Nat
<1>1. IsFiniteSet(Parts) /\ SumsHold /\ SumsHold'
  BY QuotaAssumption, SumsMeant, SumsMeantNext DEF QuotaAssumption
<1> DEFINE g == PartSizes
           h == PartSizes'
<1>2. \A o \in Parts : g[o] \in Nat /\ h[o] \in Nat /\ h[o] = part'[o].size /\ (o # p => h[o] = g[o])
  BY <1>1 DEF SumsHold
<1>3. /\ Allocated(S) = Sum(g, S) /\ Allocated(S) \in Nat /\ Allocated(S)' = Sum(h, S)
      /\ Allocated(S \cup {p})' = Sum(h, S \cup {p})
  BY <1>1 DEF SumsHold
<1> HIDE DEF g, h
<1>4. IsFiniteSet(S) /\ p \notin S /\ \A o \in S : g[o] \in Nat /\ h[o] = g[o]
  BY <1>1, <1>2, FS_Subset
<1>5. \A o \in S \cup {p} : h[o] \in Nat
  BY <1>2
<1>6. Sum(g, S) = Sum(h, S)
  BY <1>4, SumSame
<1>7. Sum(h, S \cup {p}) = Sum(h, S) + h[p]
  BY <1>4, <1>5, SumInsert
<1>8. QED
  BY <1>2, <1>3, <1>6, <1>7

LEMMA FewerParts ==
  ASSUME QuotaTypeOK, NEW S \in SUBSET Parts, NEW T \in SUBSET S
  PROVE  Allocated(T) <= Allocated(S)
<1>1. IsFiniteSet(S) /\ SumsHold
  BY QuotaAssumption, SumsMeant, FS_Subset DEF QuotaAssumption
<1>2. \A o \in S : PartSizes[o] \in Nat
  BY <1>1 DEF SumsHold
<1>3. Sum(PartSizes, T) <= Sum(PartSizes, S)
  BY <1>1, <1>2, SumSubset
<1>4. QED
  BY <1>1, <1>3 DEF SumsHold
\* A step that books nothing lets no file grow or go elsewhere.
FilesShrink ==
  \A f \in Files :
    /\ SizeOf(f)' <= SizeOf(f)
    /\ "restored" \notin slips' /\ file'[f].state = "live" => file[f].state = "live" /\ file'[f].part = file[f].part

\* Every step either books, checked or not, or saves a document, or is such a
\* step.
LEMMA FileFates ==
  ASSUME QuotaInv, QuotaTypeOK', [QuotaNext]_quotaVars
  PROVE  \/ FilesShrink /\ unchecked' = unchecked
         \/ \E w \in Workers, f \in Files : BookFile(w, f)
         \/ \E w \in Workers : SaveItem(w)
         \/ \E w \in Workers, f \in Files, size \in Nat, p \in Zones, name \in Source : CopyFile(w, f, size, p, name)
<1>0. QuotaTypeOK /\ \A f \in Files : SizeOf(f) \in Nat /\ SizeOf(f)' \in Nat /\ file[f] \in File
  BY SumsMeant, SumsMeantNext DEF QuotaInv, SumsHold, QuotaTypeOK
<1>1. CASE UNCHANGED <<file, unchecked>>
  BY <1>0, <1>1 DEF FilesShrink, SizeOf, Kept
<1>2. ASSUME NEW w \in Workers, PurgePart(w)
      PROVE  FilesShrink /\ unchecked' = unchecked
  <2>1. \A f \in Files : SizeOf(f)' \in {0, SizeOf(f)}
    BY <1>0, <1>2, PurgePartFields DEF SizeOf, Kept
  <2>2. \A f \in Files : SizeOf(f)' <= SizeOf(f)
    BY <1>0, <2>1
  <2>3. QED
    BY <1>0, <1>2, <2>2, PurgePartFields DEF FilesShrink, PurgePart
<1>3. ASSUME NEW f \in Files, ChangeState(f)
      PROVE  FilesShrink /\ unchecked' = unchecked
  <2>1. PICK state \in {"live", "bin", "purged"}, d \in File :
           /\ d.state = state /\ d.size = file[f].size /\ d.part = file[f].part /\ file[f].state \in {"live", "bin"}
           /\ file'[f] = d /\ \A g \in Files \ {f} : file'[g] = file[g]
           /\ (state = "live" => "restored" \in slips')
    BY <1>0, <1>3, ChangeStateFields
  <2>2. \A g \in Files : SizeOf(g)' \in {0, SizeOf(g)}
    BY <2>1 DEF SizeOf, Kept
  <2>3. \A g \in Files : SizeOf(g)' <= SizeOf(g)
    BY <1>0, <2>2
  <2>4. QED
    BY <1>3, <2>1, <2>3 DEF FilesShrink, ChangeState
<1>4. ASSUME NEW w \in Workers, JobStep(w)
      PROVE  UNCHANGED <<file, unchecked>> \/ PurgePart(w) \/ SaveItem(w) \/ \E f \in Files : BookFile(w, f)
  BY <1>4 DEF JobStep, JobOnly, CheckQuota, CheckFirstChunk, MakeDirectory, OpenChunk, WriteChunk, EnterLock,
     CheckMergedName, MergeChunks, FinishChunks, EndCopy, FailSave, CheckFit, CheckSum, PutPart, DropPart
<1>5. ASSUME NEW w \in Workers, BeginJob(w)
      PROVE  UNCHANGED <<file, unchecked>>
  BY <1>0, <1>5, BeginJobEffect DEF BeginsAs
<1>6. ASSUME NEW w \in Workers, CopyStep(w)
      PROVE  \E f \in Files, size \in Nat, p \in Zones, name \in Source : CopyFile(w, f, size, p, name)
  BY <1>0, <1>6, CopyStepIs
<1>7. QED
  BY <1>1, <1>2, <1>3, <1>4, <1>5, <1>6 DEF QuotaNext, SetLimit, SetCanUpload, RestartProcess, quotaVars

\* A new file counts, in its partition and for the user.
LEMMA InsertedCounts ==
  ASSUME QuotaTypeOK, QuotaTypeOK', NEW f \in Files, NEW n \in Nat, NEW p \in Zones, NEW name \in Source,
         NEW of \in Source, Inserts(f, n, p, name, of)
  PROVE  /\ Used' = Used + n
         /\ UsedIn(p)' = UsedIn(p) + n
         /\ \A o : o # p => UsedIn(o)' <= UsedIn(o)
<1>1. /\ file'[f].state = "live" /\ file'[f].size = n /\ file'[f].part = p
      /\ file[f].state = "fresh" /\ \A e \in Files \ {f} : file'[e] = file[e]
  BY InsertsDocument
<1>2. /\ SizeOf(f)' = n /\ SizeOf(f) = 0
      /\ \A e \in Files \ {f} : SizeOf(e)' = SizeOf(e)
  BY <1>1 DEF SizeOf, Kept
<1>3. /\ LiveIn(p)' = LiveIn(p) \cup {f}
      /\ \A o : f \notin LiveIn(o) /\ (o # p => LiveIn(o)' = LiveIn(o))
  BY <1>1 DEF LiveIn
<1>4. IsFiniteSet(Files) /\ SumsHold /\ SumsHold'
  BY QuotaAssumption, SumsMeant, SumsMeantNext DEF QuotaAssumption
<1> DEFINE g == FileSizes
           h == FileSizes'
           S == LiveIn(p)
<1>5. /\ \A e \in Files : g[e] \in Nat /\ h[e] \in Nat
      /\ \A e \in Files \ {f} : h[e] = g[e]
      /\ g[f] = 0 /\ h[f] = n
  BY <1>2, <1>4 DEF SumsHold
<1>6. /\ Used = Sum(g, Files) /\ Used' = Sum(h, Files) /\ Used \in Nat /\ Used' \in Nat
      /\ UsedIn(p) = Sum(g, S) /\ UsedIn(p)' = Sum(h, S \cup {f})
      /\ S \in SUBSET Files /\ f \notin S
  BY <1>3, <1>4 DEF SumsHold
<1>7. ASSUME NEW o, o # p
      PROVE  UsedIn(o)' <= UsedIn(o)
  <2>1. LiveIn(o)' = LiveIn(o) /\ f \notin LiveIn(o) /\ LiveIn(o) \in SUBSET Files
    BY <1>3, <1>4, <1>7 DEF SumsHold
  <2>2. \A e \in LiveIn(o)' : SizeOf(e)' <= SizeOf(e)
    BY <1>2, <1>4, <2>1 DEF SumsHold
  <2>3. QED
    BY <2>1, <2>2, NoPartFills
<1> HIDE DEF g, h, S
<1>8. Sum(h, Files) + g[f] = Sum(g, Files) + h[f]
  BY <1>4, <1>5, SumChange
<1>9. Used' = Used + n
  BY <1>5, <1>6, <1>8
<1>10. IsFiniteSet(S) /\ (\A e \in S : g[e] \in Nat /\ h[e] = g[e]) /\ \A e \in S \cup {f} : h[e] \in Nat
  BY <1>4, <1>5, <1>6, FS_Subset
<1>11. Sum(g, S) = Sum(h, S)
  BY <1>10, SumSame
<1>12. Sum(h, S \cup {f}) = Sum(h, S) + h[f]
  BY <1>6, <1>10, SumInsert
<1>13. QED
  BY <1>5, <1>6, <1>7, <1>9, <1>11, <1>12

LEMMA BookedCounts ==
  ASSUME QuotaTypeOK, QuotaTypeOK', NEW w \in Workers, NEW f \in Files, BookFile(w, f),
         NEW p, p = job[w].part, NEW n, n = job[w].size
  PROVE  /\ Used' = Used + n /\ n \in Nat
         /\ UsedIn(p)' = UsedIn(p) + n
         /\ \A o : o # p => UsedIn(o)' <= UsedIn(o)
<1>1. job[w] \in Job
  BY DEF QuotaTypeOK
<1>2. PICK name \in Source, of \in Source : name = job[w].name /\ of = job[w].of
  BY <1>1 DEF Job
<1>3. Inserts(f, n, p, name, of) /\ n \in Nat /\ p \in Zones
  BY <1>1, <1>2 DEF BookFile, Job
<1>4. QED
  BY <1>3, InsertedCounts

\* A saved document counts with its new size.
LEMMA SavedCounts ==
  ASSUME QuotaInv, QuotaTypeOK', NEW w \in Workers, SaveItem(w)
  PROVE  Used' + unchecked <= Used + unchecked'
<1>0. QuotaTypeOK /\ JobsFit /\ CopiesFit /\ unchecked \in Nat /\ unchecked' \in Nat
  BY DEF QuotaInv, QuotaTypeOK
<1>1. PICK f \in Files, d \in File :
           /\ file'[f] = d /\ \A e \in Files \ {f} : file'[e] = file[e]
           /\ d.size \in Nat /\ SizeOf(f) \in Nat /\ SizeOf(f)' = d.size
           /\ unchecked' = unchecked + (IF d.size > SizeOf(f) THEN d.size - SizeOf(f) ELSE 0)
  BY <1>0, SaveItemFields
<1>2. \A e \in Files \ {f} : SizeOf(e)' = SizeOf(e)
  BY <1>1 DEF SizeOf, Kept
<1>3. IsFiniteSet(Files) /\ SumsHold /\ SumsHold'
  BY <1>0, QuotaAssumption, SumsMeant, SumsMeantNext DEF QuotaAssumption
<1> DEFINE g == FileSizes
           h == FileSizes'
<1>4. /\ \A e \in Files : g[e] \in Nat /\ h[e] \in Nat
      /\ \A e \in Files \ {f} : h[e] = g[e]
      /\ g[f] = SizeOf(f) /\ h[f] = d.size
      /\ Used = Sum(g, Files) /\ Used' = Sum(h, Files) /\ Used \in Nat /\ Used' \in Nat
  BY <1>1, <1>2, <1>3 DEF SumsHold
<1> HIDE DEF g, h
<1>5. Sum(h, Files) + g[f] = Sum(g, Files) + h[f]
  BY <1>3, <1>4, SumChange
<1>6. PICK n, m \in Nat : n = SizeOf(f) /\ m = d.size
  BY <1>1
<1>7. Used' + n = Used + m
  BY <1>4, <1>5, <1>6
<1>8. unchecked' = unchecked + (IF m > n THEN m - n ELSE 0)
  BY <1>1, <1>6
<1>9. QED
  BY <1>0, <1>4, <1>6, <1>7, <1>8

\* What is booked grows by a checked booking or by what is counted as unchecked.
LEMMA StorageGrows ==
  ASSUME QuotaInv, QuotaTypeOK', [QuotaNext]_quotaVars
  PROVE  \/ Used' + unchecked <= Used + unchecked'
         \/ \E w \in Workers, f \in Files : BookFile(w, f)
<1>0. /\ QuotaTypeOK /\ unchecked \in Nat /\ unchecked' \in Nat /\ NoPart \in Source
      /\ Used \in Nat /\ Used' \in Nat
  BY SumsMeant, SumsMeantNext DEF QuotaInv, QuotaTypeOK, SumsHold, Source
<1>1. CASE FilesShrink /\ unchecked' = unchecked
  <2>1. Used' <= Used
    BY <1>0, <1>1, NoFileGrows DEF FilesShrink
  <2>2. \A l, m, n \in Nat : l <= m => l + n <= m + n
    OBVIOUS
  <2>3. Used' + unchecked <= Used + unchecked
    BY <1>0, <2>1, <2>2
  <2>4. QED
    BY <1>1, <2>3
<1>2. ASSUME NEW w \in Workers, NEW f \in Files, NEW size \in Nat, NEW p \in Zones, NEW name \in Source,
             CopyFile(w, f, size, p, name)
      PROVE  Used' + unchecked <= Used + unchecked'
  <2>1. Used' = Used + size /\ unchecked' = unchecked + size
    BY <1>0, <1>2, InsertedCounts DEF CopyFile
  <2>2. QED
    BY <1>0, <2>1
<1>3. QED
  BY <1>1, <1>2, SavedCounts, FileFates

\* What passes no check fills no partition, as long as its size is nothing and
\* no file goes there.
LEMMA PartsFill ==
  ASSUME QuotaInv, QuotaTypeOK', [QuotaNext]_quotaVars, unchecked' = unchecked,
         slips' \cap {"restored", "moved"} = {}
  PROVE  \/ \A p : UsedIn(p)' <= UsedIn(p)
         \/ \E w \in Workers, f \in Files : BookFile(w, f)
<1>0. /\ QuotaTypeOK /\ JobsFit /\ CopiesFit /\ unchecked \in Nat /\ NoPart \in Source
      /\ \A p : UsedIn(p) \in Nat /\ UsedIn(p)' \in Nat
      /\ \A f \in Files : SizeOf(f) \in Nat
  BY SumsMeant, SumsMeantNext DEF QuotaInv, QuotaTypeOK, SumsHold, Source
<1>1. CASE FilesShrink
  <2>1. \A p : LiveIn(p)' \subseteq LiveIn(p)
    BY <1>1 DEF LiveIn, FilesShrink
  <2>2. \A p : \A f \in LiveIn(p)' : SizeOf(f)' <= SizeOf(f)
    BY <1>1 DEF LiveIn, FilesShrink
  <2>3. QED
    BY <1>0, <2>1, <2>2, NoPartFills
<1>2. ASSUME NEW w \in Workers, SaveItem(w)
      PROVE  FilesShrink
  <2>1. PICK f \in Files, d \in File :
           /\ file'[f] = d /\ \A e \in Files \ {f} : file'[e] = file[e]
           /\ d.size \in Nat /\ SizeOf(f) \in Nat /\ SizeOf(f)' = d.size
           /\ unchecked' = unchecked + (IF d.size > SizeOf(f) THEN d.size - SizeOf(f) ELSE 0)
           /\ "restored" \notin slips' /\ d.state = "live" => file[f].state = "live"
           /\ "moved" \notin slips' => d.part = file[f].part
    BY <1>0, <1>2, SaveItemFields
  <2>2. SizeOf(f)' <= SizeOf(f)
    <3>1. PICK n, m \in Nat : n = SizeOf(f) /\ m = d.size
      BY <2>1
    <3>2. unchecked = unchecked + (IF m > n THEN m - n ELSE 0)
      BY <2>1, <3>1
    <3>3. m <= n
      BY <1>0, <3>1, <3>2
    <3>4. QED
      BY <2>1, <3>1, <3>3
  <2>3. \A e \in Files \ {f} : SizeOf(e)' <= SizeOf(e)
    <3>1. \A e \in Files \ {f} : SizeOf(e)' = SizeOf(e)
      BY <2>1 DEF SizeOf, Kept
    <3>2. QED
      BY <1>0, <3>1
  <2>4. QED
    BY <2>1, <2>2, <2>3 DEF FilesShrink
<1>3. ASSUME NEW w \in Workers, NEW f \in Files, NEW size \in Nat, NEW p \in Zones, NEW name \in Source,
             CopyFile(w, f, size, p, name)
      PROVE  \A o : UsedIn(o)' <= UsedIn(o)
  <2>1. /\ UsedIn(p)' = UsedIn(p) + size /\ unchecked' = unchecked + size
        /\ \A o : o # p => UsedIn(o)' <= UsedIn(o)
    BY <1>0, <1>3, InsertedCounts DEF CopyFile
  <2>2. UsedIn(p)' <= UsedIn(p)
    <3>1. size = 0
      BY <1>0, <2>1
    <3>2. QED
      BY <1>0, <2>1, <3>1
  <2>3. ASSUME NEW o
        PROVE  UsedIn(o)' <= UsedIn(o)
    <3>1. CASE o = p
      BY <2>2, <3>1
    <3>2. CASE o # p
      BY <2>1, <3>2
    <3>3. QED
      BY <3>1, <3>2
  <2>4. QED
    BY <2>3
<1>4. QED
  BY <1>1, <1>2, <1>3, FileFates

-------------------------------------------------------------------------------
(* How far concurrent uploads exceed the limit *)

LEMMA Largest == LargestFile \in Nat /\ Total <= LargestFile /\ \A n \in Sizes \cup {0} : n <= LargestFile
<1> DEFINE S == Sizes \cup {Total}
<1>1. S \in SUBSET Nat /\ S # {} /\ Total \in S
  BY QuotaAssumption DEF QuotaAssumption
<1>2. IsFiniteSet(S)
  BY QuotaAssumption, FS_AddElement DEF QuotaAssumption
<1> HIDE DEF S
<1>3. Max(S) \in S /\ \A n \in S : n <= Max(S)
  BY <1>1, <1>2, MaxIs
<1> DEFINE most == Max(S)
<1>4. most \in Nat /\ \A n \in S \cup {0} : n <= most
  <2>1. most \in Nat /\ \A n \in S : n <= most
    BY <1>1, <1>3
  <2> HIDE DEF most
  <2>2. QED
    BY <2>1
<1>5. QED
  BY <1>1, <1>4 DEF S, LargestFile

\* No handler books more than the largest file there is: a merge counts chunks.
SizesBounded == \A w \in Workers : job[w].size <= LargestFile

LEMMA SizesBoundedStep == QuotaInv /\ SizesBounded /\ [QuotaNext]_quotaVars => SizesBounded'
<1> SUFFICES ASSUME QuotaTypeOK, JobsFit, CopiesFit, SizesBounded, [QuotaNext]_quotaVars PROVE SizesBounded'
  BY DEF QuotaInv
<1>1. ASSUME NEW w \in Workers, BeginJob(w)
      PROVE  SizesBounded'
  <2>1. PICK q \in Job : BeginsAs(w, q)
    BY <1>1, BeginJobEffect
  <2>2. job'[w] = q /\ (\A v \in Workers \ {w} : job'[v] = job[v]) /\ q.size \in Sizes \cup {0}
    BY <2>1, BecomesFields DEF BeginsAs, AsksFor
  <2>3. QED
    BY <2>2, Largest DEF SizesBounded, LargestFile
<1>2. ASSUME NEW w \in Workers, JobStep(w)
      PROVE  SizesBounded'
  <2>1. PICK q \in Job : StepsAs(w, q)
    BY <1>2, JobStepEffect
  <2>2. job'[w] = q /\ (\A v \in Workers \ {w} : job'[v] = job[v])
    BY <2>1, BecomesFields DEF StepsAs
  <2>3. CASE q = NoJob
    BY <2>2, <2>3, Largest DEF SizesBounded, LargestFile, NoJob
  <2>4. CASE job[w].pc = "merge" /\ Continues(job[w], q)
    <3>1. q.size = Cardinality(WholeChunks(job[w].of))
      <4>1. q.pc = "quota"
        BY <2>4 DEF Continues, Moves
      <4>2. QED
        BY <1>2, <2>1, <4>1, MergedSize
    <3>2. WholeChunks(job[w].of) \subseteq Index
      BY DEF WholeChunks
    <3>3. q.size <= Total
      BY <3>1, <3>2, IndexFinite, FS_Subset
    <3>4. q.size \in Nat /\ Total \in Nat
      BY QuotaAssumption DEF Job, QuotaAssumption
    <3>5. QED
      BY <2>2, <3>3, <3>4, Largest DEF SizesBounded, LargestFile
  <2>5. CASE job[w].pc # "merge" /\ Continues(job[w], q)
    BY <2>2, <2>5 DEF Continues, SizesBounded, LargestFile
  <2>6. QED
    BY <2>1, <2>3, <2>4, <2>5 DEF StepsAs
<1>3. CASE RestartProcess
  BY <1>3, RestartEffect, Largest DEF SizesBounded, LargestFile, NoJob
<1>4. CASE OthersAct
  BY <1>4 DEF OthersAct, SizesBounded, LargestFile
<1>5. QED
  BY <1>1, <1>2, <1>3, <1>4, StepKinds DEF OneBegins, OneSteps

\* A step after which nobody has passed a check who had not.
NobodyPasses == Passed' \subseteq Passed /\ \A w \in Passed' : job'[w].size = job[w].size

LEMMA PromisesShrink ==
  ASSUME QuotaTypeOK, QuotaTypeOK', NobodyPasses
  PROVE  Promised' <= Promised
<1>1. SumsHold /\ SumsHold' /\ IsFiniteSet(Workers)
  BY SumsMeant, SumsMeantNext, QuotaAssumption DEF QuotaAssumption
<1> DEFINE g == JobSizes
           h == JobSizes'
           S == Passed
           T == Passed'
<1>2. /\ Promised = Sum(g, S) /\ Promised' = Sum(h, T) /\ S \in SUBSET Workers /\ T \in SUBSET S
      /\ \A w \in Workers : g[w] \in Nat /\ h[w] \in Nat /\ g[w] = job[w].size /\ h[w] = job'[w].size
      /\ Promised \in Nat /\ Promised' \in Nat
  BY <1>1 DEF SumsHold, NobodyPasses
<1>3. \A w \in T : h[w] = g[w]
  BY <1>2 DEF NobodyPasses
<1> HIDE DEF g, h, S, T
<1>4. IsFiniteSet(S) /\ IsFiniteSet(T)
  BY <1>1, <1>2, FS_Subset
<1>5. Sum(h, T) = Sum(g, T)
  BY <1>2, <1>3, <1>4, SumSame
<1>6. Sum(g, T) <= Sum(g, S)
  BY <1>2, <1>4, SumSubset
<1>7. QED
  BY <1>2, <1>5, <1>6

LEMMA WhoPasses ==
  ASSUME QuotaInv, [QuotaNext]_quotaVars
  PROVE  \/ NobodyPasses
         \/ \E w \in Workers, q \in Job : JobStep(w) /\ StepsAs(w, q) /\ q.pc = "insert"
<1>0. QuotaTypeOK /\ JobsFit
  BY DEF QuotaInv
<1>1. ASSUME NEW w \in Workers, BeginJob(w)
      PROVE  NobodyPasses
  <2>1. PICK q \in Job : BeginsAs(w, q)
    BY <1>0, <1>1, BeginJobEffect
  <2>2. job'[w] = q /\ (\A v \in Workers \ {w} : job'[v] = job[v]) /\ q.pc # "insert"
    BY <1>0, <2>1, BecomesFields DEF BeginsAs, AsksFor
  <2>3. QED
    BY <2>2 DEF Passed, NobodyPasses
<1>2. ASSUME NEW w \in Workers, JobStep(w)
      PROVE  NobodyPasses \/ \E q \in Job : StepsAs(w, q) /\ q.pc = "insert"
  <2>1. PICK q \in Job : StepsAs(w, q)
    BY <1>0, <1>2, JobStepEffect
  <2>2. job'[w] = q /\ (\A v \in Workers \ {w} : job'[v] = job[v])
    BY <1>0, <2>1, BecomesFields DEF StepsAs
  <2>3. CASE q.pc # "insert"
    BY <2>2, <2>3 DEF Passed, NobodyPasses
  <2>4. QED
    BY <2>1, <2>3
<1>3. CASE RestartProcess
  BY <1>0, <1>3, RestartEffect DEF Passed, NobodyPasses, NoJob
<1>4. CASE OthersAct
  BY <1>4 DEF OthersAct, Passed, NobodyPasses
<1>5. QED
  BY <1>0, <1>1, <1>2, <1>3, <1>4, StepKinds DEF OneBegins, OneSteps

\* What the other handlers have been promised.
Slack == (Cardinality(Workers) - 1) * LargestFile

LEMMA OthersPromised ==
  ASSUME QuotaTypeOK, SizesBounded, NEW w \in Workers, w \notin Passed
  PROVE  Promised <= Slack /\ Slack \in Nat
<1>1. IsFiniteSet(Workers) /\ SumsHold
  BY QuotaAssumption, SumsMeant DEF QuotaAssumption
<1> DEFINE g == JobSizes
           S == Passed
<1>2. /\ Promised = Sum(g, S) /\ S \in SUBSET (Workers \ {w})
      /\ \A v \in S : g[v] \in Nat /\ g[v] <= LargestFile
  BY <1>1 DEF SumsHold, SizesBounded
<1> HIDE DEF g, S
<1>3. /\ IsFiniteSet(Workers \ {w}) /\ Cardinality(Workers \ {w}) = Cardinality(Workers) - 1
      /\ Cardinality(Workers \ {w}) \in Nat
  BY <1>1, FS_RemoveElement, FS_CardinalityType
<1>4. IsFiniteSet(S) /\ Cardinality(S) \in Nat /\ Cardinality(S) <= Cardinality(Workers) - 1
  BY <1>2, <1>3, FS_Subset, FS_CardinalityType
<1>5. Sum(g, S) <= Cardinality(S) * LargestFile
  BY <1>2, <1>4, Largest, SumBounded
<1>6. \A m, n, l \in Nat : m <= n => m * l <= n * l /\ n * l \in Nat /\ m * l \in Nat
  <2> SUFFICES ASSUME NEW m \in Nat, NEW n \in Nat, NEW l \in Nat, m <= n
               PROVE  m * l <= n * l /\ n * l \in Nat /\ m * l \in Nat
    OBVIOUS
  <2>1. PICK k \in Nat : n = m + k
    <3>1. n - m \in Nat /\ n = m + (n - m)
      OBVIOUS
    <3>2. QED
      BY <3>1
  <2>2. n * l = m * l + k * l /\ m * l \in Nat /\ k * l \in Nat
    BY <2>1
  <2>3. QED
    BY <2>2
<1>7. Cardinality(S) * LargestFile <= Slack /\ Slack \in Nat /\ Cardinality(S) * LargestFile \in Nat
  BY <1>3, <1>4, <1>6, Largest DEF Slack
<1>8. Promised \in Nat
  BY <1>1 DEF SumsHold
<1>9. QED
  BY <1>2, <1>5, <1>7, <1>8

\* While the limit stays, what is booked and promised exceeds it by no more,
\* beside what no check has seen.
WithinSlack == "lowered" \notin slips => Used + Promised <= limit + Slack + unchecked

LEMMA LimitStays ==
  ASSUME QuotaTypeOK, [QuotaNext]_quotaVars
  PROVE  /\ limit \in Nat /\ limit' \in Nat /\ slips \subseteq slips'
         /\ "lowered" \notin slips' => limit <= limit'
<1>1. Limits \subseteq Nat /\ limit \in Nat
  BY QuotaAssumption DEF QuotaTypeOK, QuotaAssumption
<1>2. CASE limit' = limit /\ slips \subseteq slips'
  BY <1>1, <1>2
<1>3. ASSUME NEW l \in Limits, SetLimit(l)
      PROVE  limit' \in Nat /\ slips \subseteq slips' /\ ("lowered" \notin slips' => limit <= limit')
  BY <1>1, <1>3 DEF SetLimit, Slip
<1>4. ASSUME NEW w \in Workers, JobStep(w)
      PROVE  limit' = limit /\ slips \subseteq slips'
  BY <1>4 DEF JobStep, JobOnly, CheckQuota, BookFile, CheckFirstChunk, MakeDirectory, OpenChunk, WriteChunk, EnterLock,
     CheckMergedName, MergeChunks, FinishChunks, EndCopy, SaveItem, FailSave, CheckFit, CheckSum, PutPart, PurgePart, DropPart,
     CleanUp
<1>5. ASSUME NEW w \in Workers, BeginJob(w)
      PROVE  limit' = limit /\ slips \subseteq slips'
  BY <1>5, BeginJobEffect DEF BeginsAs
<1>6. ASSUME NEW w \in Workers, CopyStep(w)
      PROVE  limit' = limit /\ slips \subseteq slips'
  BY <1>6 DEF CopyStep, CopyFile
<1>7. QED
  BY <1>1, <1>2, <1>3, <1>4, <1>5, <1>6 DEF QuotaNext, ChangeState, SetCanUpload, RestartProcess, quotaVars

\* The check lets a handler pass only with room for what it asks, whatever the
\* others have been promised.
LEMMA PassesWithRoom ==
  ASSUME QuotaTypeOK, JobsFit, SizesBounded, QuotaTypeOK', NEW w \in Workers, NEW q \in Job, JobStep(w), StepsAs(w, q),
         q.pc = "insert"
  PROVE  Used' + Promised' <= limit + Slack
<1>1. CheckQuota(w) /\ job[w].pc = "quota" /\ Continues(job[w], q)
  <2>1. CheckQuota(w) /\ (q = NoJob \/ Continues(job[w], q))
    BY DEF StepsAs
  <2>2. NoJob.pc # "insert"
    BY DEF NoJob
  <2>3. QED
    BY <2>1, <2>2 DEF CheckQuota
<1>2. job'[w] = q /\ (\A v \in Workers \ {w} : job'[v] = job[v])
  BY BecomesFields DEF StepsAs
<1>3. ~QuotaRefuses(job[w]) /\ file' = file
  <2>1. CASE QuotaRefuses(job[w])
    <3>1. Becomes(w, NoJob)
      BY <1>1, <2>1 DEF CheckQuota, CleanUp, Ends, Becomes
    <3>2. job'[w] = NoJob
      BY <3>1, NoJobType, BecomesFields
    <3>3. QED
      BY <1>2, <3>2 DEF NoJob
  <2>2. CASE ~QuotaRefuses(job[w])
    BY <1>1, <2>2 DEF CheckQuota, JobOnly
  <2>3. QED
    BY <2>1, <2>2
<1>4. PICK n \in Nat : n = job[w].size /\ q.size = n
  BY <1>1 DEF Continues, Job
<1>5. SumsHold /\ SumsHold' /\ Used' = Used /\ IsFiniteSet(Workers)
  BY <1>3, SumsMeant, SumsMeantNext, SameFiles, QuotaAssumption DEF QuotaAssumption
<1>6. Used + n <= limit /\ limit \in Nat
  <2>1. ~(Used + n > limit)
    BY <1>3, <1>4 DEF QuotaRefuses
  <2>2. limit \in Nat /\ Used \in Nat
    BY <1>5, QuotaAssumption DEF QuotaTypeOK, QuotaAssumption, SumsHold
  <2>3. QED
    BY <2>1, <2>2
<1>7. w \notin Passed /\ Passed' = Passed \cup {w}
  BY <1>1, <1>2 DEF Passed
<1>8. Promised <= Slack /\ Slack \in Nat
  BY <1>7, OthersPromised
<1> DEFINE g == JobSizes
           h == JobSizes'
           S == Passed
<1>9. /\ Promised = Sum(g, S) /\ Promised' = Sum(h, S \cup {w}) /\ S \in SUBSET Workers /\ w \notin S
      /\ \A v \in Workers : g[v] \in Nat /\ h[v] \in Nat /\ g[v] = job[v].size /\ h[v] = job'[v].size
      /\ Used \in Nat /\ Promised \in Nat /\ Promised' \in Nat
  BY <1>5, <1>7 DEF SumsHold
<1>10. h[w] = n /\ \A v \in S : h[v] = g[v]
  BY <1>2, <1>4, <1>9
<1> HIDE DEF g, h, S
<1>11. IsFiniteSet(S)
  BY <1>5, <1>9, FS_Subset
<1>12. Sum(h, S) = Sum(g, S)
  BY <1>9, <1>10, <1>11, SumSame
<1>13. Sum(h, S \cup {w}) = Sum(h, S) + h[w]
  BY <1>9, <1>11, SumInsert
<1>14. Promised' = Promised + n
  BY <1>9, <1>10, <1>12, <1>13
<1>15. QED
  BY <1>5, <1>6, <1>8, <1>9, <1>14

\* Who books redeems his promise.
LEMMA BookingRedeems ==
  ASSUME QuotaTypeOK, JobsFit, QuotaTypeOK', NEW w \in Workers, NEW f \in Files, BookFile(w, f)
  PROVE  Used' + Promised' <= Used + Promised /\ unchecked' = unchecked
<1>1. PICK n : n = job[w].size
  OBVIOUS
<1>2. Used' = Used + n /\ n \in Nat
  BY <1>1, BookedCounts
<1>3. PICK q \in Job : StepsAs(w, q)
  BY JobStepEffect DEF JobStep
<1>4. job'[w] = q /\ (\A v \in Workers \ {w} : job'[v] = job[v]) /\ q.pc # "insert" /\ job[w].pc = "insert"
  BY <1>3, BecomesFields DEF StepsAs, Continues, Moves, NoJob, BookFile
<1>5. w \in Passed /\ Passed' = Passed \ {w}
  BY <1>4 DEF Passed
<1>6. SumsHold /\ SumsHold' /\ IsFiniteSet(Workers)
  BY SumsMeant, SumsMeantNext, QuotaAssumption DEF QuotaAssumption
<1> DEFINE g == JobSizes
           h == JobSizes'
           S == Passed
<1>7. /\ Promised = Sum(g, S) /\ Promised' = Sum(h, S \ {w}) /\ S \in SUBSET Workers /\ w \in S
      /\ \A v \in Workers : g[v] \in Nat /\ h[v] \in Nat /\ g[v] = job[v].size /\ h[v] = job'[v].size
      /\ Used \in Nat /\ Promised \in Nat /\ Promised' \in Nat
  BY <1>5, <1>6 DEF SumsHold
<1>8. g[w] = n /\ \A v \in S \ {w} : g[v] = h[v]
  BY <1>1, <1>4, <1>7
<1> HIDE DEF g, h, S
<1>9. IsFiniteSet(S) /\ IsFiniteSet(S \ {w})
  BY <1>6, <1>7, FS_Subset
<1>10. Sum(g, S \ {w}) = Sum(h, S \ {w})
  BY <1>7, <1>8, <1>9, SumSame
<1>11. Sum(g, S) = Sum(g, S \ {w}) + g[w]
  BY <1>7, <1>9, SumRemove
<1>12. QED
  BY <1>2, <1>7, <1>8, <1>10, <1>11 DEF BookFile

\* A step adds no more to what is booked and promised than is counted as
\* unchecked, unless it lets a handler pass the checks.
LEMMA StepAdds ==
  ASSUME QuotaInv, QuotaTypeOK', [QuotaNext]_quotaVars
  PROVE  \/ Used' + Promised' + unchecked <= Used + Promised + unchecked'
         \/ \E w \in Workers, q \in Job : JobStep(w) /\ StepsAs(w, q) /\ q.pc = "insert"
<1>0. /\ QuotaTypeOK /\ JobsFit /\ unchecked \in Nat /\ unchecked' \in Nat
      /\ Used \in Nat /\ Promised \in Nat /\ Used' \in Nat /\ Promised' \in Nat
  BY SumsMeant, SumsMeantNext DEF QuotaInv, QuotaTypeOK, SumsHold
<1>1. CASE \E w \in Workers, f \in Files : BookFile(w, f)
  <2>1. Used' + Promised' <= Used + Promised /\ unchecked' = unchecked
    BY <1>0, <1>1, BookingRedeems
  <2>2. \A a, b, c, d, n \in Nat : a + b <= c + d => a + b + n <= c + d + n
    OBVIOUS
  <2>3. Used' + Promised' + unchecked <= Used + Promised + unchecked
    BY <1>0, <2>1, <2>2
  <2>4. QED
    BY <2>1, <2>3
<1>2. CASE Used' + unchecked <= Used + unchecked' /\ NobodyPasses
  <2>1. Promised' <= Promised
    BY <1>0, <1>2, PromisesShrink
  <2>2. \A a, b, c, d, m, n \in Nat : a + m <= c + n /\ b <= d => a + b + m <= c + d + n
    OBVIOUS
  <2>3. QED
    BY <1>0, <1>2, <2>1, <2>2
<1>3. QED
  BY <1>1, <1>2, StorageGrows, WhoPasses

LEMMA WithinSlackStep ==
  QuotaInv /\ SizesBounded /\ WithinSlack /\ [QuotaNext]_quotaVars => WithinSlack'
<1> SUFFICES ASSUME QuotaInv, SizesBounded, WithinSlack, [QuotaNext]_quotaVars, "lowered" \notin slips'
             PROVE  Used' + Promised' <= limit' + Slack + unchecked'
  BY DEF WithinSlack, Slack, LargestFile
<1>0. QuotaInv' /\ QuotaTypeOK /\ QuotaTypeOK' /\ JobsFit
  BY QuotaInvStep DEF QuotaInv
<1>1. limit <= limit' /\ limit \in Nat /\ limit' \in Nat /\ "lowered" \notin slips
  BY <1>0, LimitStays
<1>2. Slack \in Nat
  <2>1. \E w \in Workers : TRUE
    BY QuotaAssumption DEF QuotaAssumption
  <2>2. Cardinality(Workers) \in Nat \ {0}
    BY <2>1, QuotaAssumption, FS_CardinalityType, FS_EmptySet DEF QuotaAssumption
  <2>3. \A m, n \in Nat : m * n \in Nat
    OBVIOUS
  <2>4. Cardinality(Workers) - 1 \in Nat
    BY <2>2
  <2>5. QED
    BY <2>3, <2>4, Largest DEF Slack
<1>3. /\ Used \in Nat /\ Promised \in Nat /\ Used' \in Nat /\ Promised' \in Nat
      /\ unchecked \in Nat /\ unchecked' \in Nat
  BY <1>0, SumsMeant, SumsMeantNext DEF SumsHold, QuotaTypeOK
<1>4. CASE Used' + Promised' + unchecked <= Used + Promised + unchecked'
  <2>1. \A a, b, c, d, l, m, n, k, s \in Nat :
          a + b + k <= c + d + n /\ c + d <= l + s + k /\ l <= m => a + b <= m + s + n
    OBVIOUS
  <2>2. Used + Promised <= limit + Slack + unchecked
    BY <1>1 DEF WithinSlack
  <2>3. PICK a \in Nat, b \in Nat, n \in Nat : a = Used' /\ b = Promised' /\ n = unchecked'
    BY <1>3
  <2>4. PICK c \in Nat, d \in Nat, k \in Nat, l \in Nat, m \in Nat, s \in Nat :
          c = Used /\ d = Promised /\ k = unchecked /\ l = limit /\ m = limit' /\ s = Slack
    BY <1>1, <1>2, <1>3
  <2>5. a + b + k <= c + d + n /\ c + d <= l + s + k /\ l <= m
    BY <1>1, <1>4, <2>2, <2>3, <2>4
  <2>6. a + b <= m + s + n
    BY <2>1, <2>5
  <2>7. QED
    BY <2>3, <2>4, <2>6
<1>5. ASSUME NEW w \in Workers, NEW q \in Job, JobStep(w), StepsAs(w, q), q.pc = "insert"
      PROVE  Used' + Promised' <= limit' + Slack + unchecked'
  <2>1. \A a, b, l, m, s, n \in Nat : a + b <= l + s /\ l <= m => a + b <= m + s + n
    OBVIOUS
  <2>2. Used' + Promised' <= limit + Slack
    BY <1>0, <1>5, PassesWithRoom
  <2>3. QED
    BY <1>1, <1>2, <1>3, <2>1, <2>2
<1>6. QED
  BY <1>0, <1>4, <1>5, StepAdds

\* However many handlers check the used storage before any of them books, the
\* user exceeds his limit by at most one largest file for every other handler
\* and what duplicates, copies back from a code space and saves have added: the
\* checks of upload_file, upload_chunk and create_workspace_file count only what
\* has been inserted, and the others check nothing.
THEOREM OvershootStaysBounded == QuotaSpec => []OvershootIsBounded
<1>1. QuotaInit => QuotaInv /\ SizesBounded /\ WithinSlack
  <2> SUFFICES ASSUME QuotaInit PROVE SizesBounded /\ Used + Promised <= limit + Slack + unchecked
    BY QuotaInvInit DEF WithinSlack
  <2>1. QuotaTypeOK
    BY QuotaInvInit DEF QuotaInv
  <2>2. SizesBounded /\ Passed = {}
    BY Largest DEF QuotaInit, SizesBounded, Passed, NoJob
  <2>3. SumsHold /\ IsFiniteSet(Files)
    BY <2>1, SumsMeant, QuotaAssumption DEF QuotaAssumption
  <2>4. \A f \in Files : FileSizes[f] = 0
    BY DEF QuotaInit, FileSizes, SizeOf, Kept, NewFile
  <2>5. Sum(FileSizes, Files) <= Cardinality(Files) * 0
    BY <2>3, <2>4, SumBounded
  <2>6. Cardinality(Files) * 0 = 0
    BY <2>3, FS_CardinalityType
  <2>7. Used = 0
    BY <2>3, <2>5, <2>6 DEF SumsHold
  <2>8. Promised = 0
    BY <2>2, <2>3, SumEmpty DEF SumsHold
  <2>9. PICK w \in Workers : TRUE
    BY QuotaAssumption DEF QuotaAssumption
  <2>10. Slack \in Nat /\ limit \in Nat
    BY <2>1, <2>2, OthersPromised, QuotaAssumption DEF QuotaTypeOK, QuotaAssumption
  <2>11. unchecked = 0
    BY DEF QuotaInit
  <2>12. QED
    BY <2>2, <2>7, <2>8, <2>10, <2>11
<1>2. QuotaInv /\ SizesBounded /\ WithinSlack /\ [QuotaNext]_quotaVars => (QuotaInv /\ SizesBounded /\ WithinSlack)'
  BY QuotaInvStep, SizesBoundedStep, WithinSlackStep
<1>3. WithinSlack => OvershootIsBounded
  BY DEF WithinSlack, Slack, OvershootIsBounded
<1>4. QED
  BY <1>1, <1>2, <1>3, PTL DEF QuotaSpec

\* While the entitlement blocks uploads, nothing that an upload, in one piece or
\* in chunks, or the workspace asks for adds to what is booked and promised,
\* whatever had begun before the block: only upload_file, upload_chunk and
\* create_workspace_file look at can_upload, and each of them looks before it
\* books.  What duplicates, copies back and saved contents add is in unchecked.
THEOREM BlockHolds == QuotaSpec => BlockStopsGrowth
<1>1. QuotaSpec => []QuotaInv
  BY QuotaInvInit, QuotaInvStep, PTL DEF QuotaSpec
<1>2. ASSUME QuotaInv, QuotaInv', [QuotaNext]_quotaVars
      PROVE  [~canUpload => Used' + Promised' + unchecked <= Used + Promised + unchecked']_quotaVars
  <2> SUFFICES ASSUME ~canUpload
               PROVE  Used' + Promised' + unchecked <= Used + Promised + unchecked'
    OBVIOUS
  <2>1. QuotaTypeOK'
    BY <1>2 DEF QuotaInv
  <2>2. ~ \E w \in Workers, q \in Job : JobStep(w) /\ StepsAs(w, q) /\ q.pc = "insert"
    BY DEF StepsAs
  <2>3. QED
    BY <1>2, <2>1, <2>2, StepAdds
<1>3. QED
  BY <1>1, <1>2, PTL DEF QuotaSpec, BlockStopsGrowth

-------------------------------------------------------------------------------
(* The partitions of a user *)

\* What a handler keeps of what concerns the partitions.
SameAsk(p, q) ==
  /\ q.pc = p.pc /\ q.kind = p.kind /\ q.part = p.part /\ q.size = p.size /\ q.max = p.max
  /\ q.copy = p.copy

\* What becomes of a handler in any step.
JobFates(w) ==
  \/ job'[w] = NoJob
  \/ SameAsk(job[w], job'[w])
  \/ Idles(w) /\ AsksFor(job'[w]) /\ job'[w].pc # "insert" /\ UNCHANGED <<file, part, limit>>
  \/ JobStep(w) /\ Continues(job[w], job'[w])

LEMMA JobFate ==
  ASSUME QuotaInv, [QuotaNext]_quotaVars, NEW w \in Workers
  PROVE  JobFates(w)
<1>0. QuotaTypeOK /\ JobsFit
  BY DEF QuotaInv
<1>1. ASSUME NEW v \in Workers, BeginJob(v)
      PROVE  JobFates(w)
  <2>1. PICK q \in Job : BeginsAs(v, q)
    BY <1>0, <1>1, BeginJobEffect
  <2>2. job'[v] = q /\ (\A u \in Workers \ {v} : job'[u] = job[u])
    BY <1>0, <2>1, BecomesFields DEF BeginsAs
  <2>3. Idles(v) /\ AsksFor(q) /\ q.pc # "insert" /\ UNCHANGED <<file, part, limit>>
    BY <2>1 DEF BeginsAs, AsksFor
  <2>4. CASE v = w
    BY <2>2, <2>3, <2>4 DEF JobFates
  <2>5. CASE v # w
    BY <2>2, <2>5 DEF JobFates, SameAsk
  <2>6. QED
    BY <2>4, <2>5
<1>2. ASSUME NEW v \in Workers, JobStep(v)
      PROVE  JobFates(w)
  <2>1. PICK q \in Job : StepsAs(v, q)
    BY <1>0, <1>2, JobStepEffect
  <2>2. job'[v] = q /\ (\A u \in Workers \ {v} : job'[u] = job[u])
    BY <1>0, <2>1, BecomesFields DEF StepsAs
  <2>3. q = NoJob \/ Continues(job[v], q)
    BY <2>1 DEF StepsAs
  <2>4. CASE v = w
    BY <1>2, <2>2, <2>3, <2>4 DEF JobFates
  <2>5. CASE v # w
    BY <2>2, <2>5 DEF JobFates, SameAsk
  <2>6. QED
    BY <2>4, <2>5
<1>3. CASE RestartProcess
  BY <1>0, <1>3, RestartEffect DEF JobFates
<1>4. CASE OthersAct
  BY <1>4 DEF OthersAct, JobFates, SameAsk
<1>5. QED
  BY <1>0, <1>1, <1>2, <1>3, <1>4, StepKinds DEF OneBegins, OneSteps

\* What the checks have compared when a handler goes on behind them.
LEMMA ChecksPassed ==
  ASSUME QuotaInv, NEW w \in Workers, JobStep(w), Continues(job[w], job'[w])
  PROVE  /\ job'[w].pc = "insert" => ~QuotaRefuses(job[w]) /\ UNCHANGED <<file, part>>
         /\ job'[w].pc = "put" => FitsWithOthers(job[w]) /\ UNCHANGED <<file, part, limit>>
         /\ job'[w].pc = "sum" => ~(job[w].size < UsedIn(job[w].part)) /\ UNCHANGED <<file, part>>
<1>1. ASSUME Ends(w) \/ CleanUp(w)
      PROVE  job'[w].pc = "idle"
  <2>1. Becomes(w, NoJob)
    BY <1>1 DEF Ends, CleanUp, Becomes
  <2>2. job'[w] = NoJob
    BY <2>1, NoJobType, BecomesFields DEF QuotaInv
  <2>3. QED
    BY <2>2 DEF NoJob
<1>2. CASE job'[w].pc = "insert"
  <2>1. job[w].pc = "quota"
    BY <1>2 DEF Continues, Moves
  <2>2. CheckQuota(w)
    BY <2>1 DEF JobStep, BookFile, CheckFirstChunk, MakeDirectory, OpenChunk, WriteChunk, EnterLock, CheckMergedName,
       MergeChunks, FinishChunks, EndCopy, SaveItem, FailSave, CheckFit, CheckSum, PutPart, PurgePart, DropPart
  <2>3. QED
    BY <1>1, <1>2, <2>2 DEF CheckQuota, JobOnly
<1>3. CASE job'[w].pc = "put"
  <2>1. job[w].pc = "sum"
    BY <1>3 DEF Continues, Moves
  <2>2. CheckSum(w)
    BY <2>1 DEF JobStep, CheckQuota, BookFile, CheckFirstChunk, MakeDirectory, OpenChunk, WriteChunk, EnterLock,
       CheckMergedName, MergeChunks, FinishChunks, EndCopy, SaveItem, FailSave, CheckFit, PutPart, PurgePart, DropPart
  <2>3. QED
    BY <1>1, <1>3, <2>2 DEF CheckSum, JobOnly
<1>4. CASE job'[w].pc = "sum"
  <2>1. job[w].pc = "fit"
    BY <1>4 DEF Continues, Moves
  <2>2. CheckFit(w)
    BY <2>1 DEF JobStep, CheckQuota, BookFile, CheckFirstChunk, MakeDirectory, OpenChunk, WriteChunk, EnterLock,
       CheckMergedName, MergeChunks, FinishChunks, EndCopy, SaveItem, FailSave, CheckSum, PutPart, PurgePart, DropPart
  <2>3. QED
    BY <1>1, <1>4, <2>2 DEF CheckFit, JobOnly
<1>5. QED
  BY <1>2, <1>3, <1>4

\* A partition is made under an id that nothing names yet, and stays named.
FilesNamed == \A f \in Files : Targets(file[f].part)
HandlersNamed ==
  \A w \in Workers : /\ job[w].kind \in Bookings \cup Copies => Targets(job[w].part)
                     /\ job[w].pc = "save" => Targets(job[w].copy.part)
PartStages == \A w \in Workers : PartStage(job[w].pc, job[w].kind, job[w].part)
PartsNamed == FilesNamed /\ HandlersNamed /\ PartStages

\* The handler w makes or resizes the partition p, or drops it.
Alters(w, p) ==
  /\ p = job[w].part /\ ~Idles(w) /\ Becomes(w, NoJob)
  /\ \A o \in Parts \ {p} : part'[o] = part[o]
  /\ \/ job[w].pc = "put" /\ part'[p] = [state |-> "live", size |-> job[w].size]
     \/ job[w].pc = "drop" /\ part'[p] = [state |-> "gone", size |-> 0]
  /\ UNCHANGED <<file, limit, slips>>

LEMMA PartsChange ==
  ASSUME QuotaInv, PartStages, [QuotaNext]_quotaVars
  PROVE  part' = part \/ \E w \in Workers, p \in Parts : Alters(w, p)
<1>0. QuotaTypeOK /\ JobsFit
  BY DEF QuotaInv
<1>1. ASSUME NEW w \in Workers, BeginJob(w)
      PROVE  part' = part
  BY <1>0, <1>1, BeginJobEffect DEF BeginsAs
<1>2. ASSUME NEW w \in Workers, PutPart(w)
      PROVE  part' = part \/ \E p \in Parts : Alters(w, p)
  <2>1. PICK p \in Parts : p = job[w].part
    BY <1>2 DEF PutPart, PartStages, PartStage
  <2>2. part' = part \/ part' = [part EXCEPT ![p] = [state |-> "live", size |-> job[w].size]]
    BY <1>2, <2>1 DEF PutPart
  <2>3. CASE part' = [part EXCEPT ![p] = [state |-> "live", size |-> job[w].size]]
    BY <1>0, <1>2, <2>1, <2>3 DEF PutPart, Alters, Idles, Ends, Becomes, QuotaTypeOK
  <2>4. QED
    BY <2>2, <2>3
<1>3. ASSUME NEW w \in Workers, DropPart(w)
      PROVE  \E p \in Parts : Alters(w, p)
  <2>1. PICK p \in Parts : p = job[w].part
    BY <1>3 DEF DropPart, PartStages, PartStage
  <2>2. part' = [part EXCEPT ![p] = [state |-> "gone", size |-> 0]]
    BY <1>3, <2>1 DEF DropPart
  <2>3. Alters(w, p)
    BY <1>0, <1>3, <2>1, <2>2 DEF DropPart, Alters, Idles, Ends, Becomes, QuotaTypeOK
  <2>4. QED
    BY <2>3
<1>4. ASSUME NEW w \in Workers, JobStep(w)
      PROVE  part' = part \/ PutPart(w) \/ DropPart(w)
  BY <1>4 DEF JobStep, JobOnly, CheckQuota, BookFile, CheckFirstChunk, MakeDirectory, OpenChunk, WriteChunk, EnterLock,
     CheckMergedName, MergeChunks, FinishChunks, EndCopy, SaveItem, FailSave, CheckFit, CheckSum, PurgePart
<1>5. ASSUME NEW w \in Workers, CopyStep(w)
      PROVE  part' = part
  BY <1>5 DEF CopyStep, CopyFile
<1>6. QED
  BY <1>1, <1>2, <1>3, <1>4, <1>5 DEF QuotaNext, ChangeState, SetLimit, SetCanUpload, RestartProcess, quotaVars

\* A partition that has been made is not new again.
LEMMA PartsStayNamed ==
  ASSUME QuotaInv, PartStages, [QuotaNext]_quotaVars, NEW p \in Parts, part[p].state # "fresh"
  PROVE  part'[p].state # "fresh"
<1>1. CASE part' = part
  BY <1>1
<1>2. ASSUME NEW w \in Workers, NEW o \in Parts, Alters(w, o)
      PROVE  part'[p].state # "fresh"
  BY <1>2 DEF Alters
<1>3. QED
  BY <1>1, <1>2, PartsChange

LEMMA TargetsStay ==
  ASSUME QuotaInv, PartStages, [QuotaNext]_quotaVars, NEW p, Targets(p)
  PROVE  p \in Parts => part'[p].state # "fresh"
BY PartsStayNamed DEF Targets

LEMMA FilesNamedStep == QuotaInv /\ PartsNamed /\ [QuotaNext]_quotaVars => FilesNamed'
<1> SUFFICES ASSUME QuotaInv, PartsNamed, [QuotaNext]_quotaVars, NEW e \in Files, file'[e].part \in Parts
             PROVE  part'[file'[e].part].state # "fresh"
  BY DEF FilesNamed, Targets
<1>0. QuotaTypeOK /\ JobsFit /\ CopiesFit /\ PartStages /\ Targets(file[e].part)
  BY DEF QuotaInv, PartsNamed, FilesNamed
<1>1. ASSUME NEW p, p = file'[e].part, Targets(p)
      PROVE  part'[file'[e].part].state # "fresh"
  BY <1>0, <1>1, TargetsStay
<1>2. CASE file'[e].part = file[e].part
  BY <1>0, <1>1, <1>2
<1>3. ASSUME NEW w \in Workers, NEW f \in Files, BookFile(w, f)
      PROVE  part'[file'[e].part].state # "fresh"
  <2>1. job[w] \in Job /\ job[w].kind \in Bookings
    BY <1>0, <1>3 DEF BookFile, JobsFit, JobFits, QuotaTypeOK
  <2>2. PICK n \in Nat, p \in Zones, name \in Source, of \in Source :
          n = job[w].size /\ p = job[w].part /\ name = job[w].name /\ of = job[w].of
    BY <2>1 DEF Job
  <2>3. Inserts(f, n, p, name, of) /\ Targets(p)
    BY <1>3, <2>1, <2>2 DEF BookFile, PartsNamed, HandlersNamed
  <2>4. file'[f].part = p /\ \A g \in Files \ {f} : file'[g] = file[g]
    BY <1>0, <2>3, InsertsDocument
  <2>5. QED
    BY <1>1, <1>2, <2>3, <2>4
<1>4. ASSUME NEW w \in Workers, NEW f \in Files, NEW n \in Nat, NEW p \in Zones, NEW name \in Source,
             CopyFile(w, f, n, p, name)
      PROVE  part'[file'[e].part].state # "fresh"
  <2>1. NoPart \in Source /\ job[w].kind \in Copies
    BY <1>0, <1>4 DEF CopyFile, JobsFit, JobFits, Source
  <2>2. Inserts(f, n, p, name, NoPart) /\ Targets(p)
    BY <1>4, <2>1 DEF CopyFile, PartsNamed, HandlersNamed
  <2>3. file'[f].part = p /\ \A g \in Files \ {f} : file'[g] = file[g]
    BY <1>0, <2>1, <2>2, InsertsDocument
  <2>4. QED
    BY <1>1, <1>2, <2>2, <2>3
<1>5. ASSUME NEW w \in Workers, SaveItem(w)
      PROVE  part'[file'[e].part].state # "fresh"
  <2>1. PICK f \in Files, d \in File :
          d = job[w].copy /\ job[w].pc = "save" /\ file'[f] = d /\ \A g \in Files \ {f} : file'[g] = file[g]
    BY <1>0, <1>5, SaveItemFields
  <2>2. Targets(d.part)
    BY <2>1 DEF PartsNamed, HandlersNamed
  <2>3. QED
    BY <1>1, <1>2, <2>1, <2>2
<1>6. ASSUME NEW f \in Files, ChangeState(f)
      PROVE  file'[e].part = file[e].part
  BY <1>0, <1>6, ChangeStateFields
<1>7. ASSUME NEW w \in Workers, JobStep(w)
      PROVE  file' = file \/ PurgePart(w) \/ SaveItem(w) \/ \E f \in Files : BookFile(w, f)
  BY <1>7 DEF JobStep, JobOnly, CheckQuota, CheckFirstChunk, MakeDirectory, OpenChunk, WriteChunk, EnterLock,
     CheckMergedName, MergeChunks, FinishChunks, EndCopy, FailSave, CheckFit, CheckSum, PutPart, DropPart
<1>8. ASSUME NEW w \in Workers, PurgePart(w)
      PROVE  file'[e].part = file[e].part
  BY <1>0, <1>8, PurgePartFields
<1>9. ASSUME NEW w \in Workers, BeginJob(w)
      PROVE  file' = file
  BY <1>0, <1>9, BeginJobEffect DEF BeginsAs
<1>10. ASSUME NEW w \in Workers, CopyStep(w)
       PROVE  part'[file'[e].part].state # "fresh"
  BY <1>0, <1>4, <1>10, CopyStepIs
<1>11. QED
  BY <1>2, <1>3, <1>5, <1>6, <1>7, <1>8, <1>9, <1>10 DEF QuotaNext, SetLimit, SetCanUpload, RestartProcess, quotaVars

LEMMA PartsNamedStep == QuotaInv /\ PartsNamed /\ [QuotaNext]_quotaVars => PartsNamed'
<1> SUFFICES ASSUME QuotaInv, PartsNamed, [QuotaNext]_quotaVars PROVE HandlersNamed' /\ PartStages'
  BY FilesNamedStep DEF PartsNamed
<1>1. \A p : Targets(p) => Targets(p)'
  BY TargetsStay DEF PartsNamed, Targets
<1>2. ASSUME NEW w \in Workers
      PROVE  /\ job'[w].kind \in Bookings \cup Copies => Targets(job[w].part)'
             /\ job'[w].pc = "save" => Targets(job[w].copy.part)'
             /\ PartStage(job'[w].pc, job'[w].kind, job'[w].part)
  <2>1. PartStage(job[w].pc, job[w].kind, job[w].part)
    BY DEF PartsNamed, PartStages
  <2>2. /\ job[w].kind \in Bookings \cup Copies => Targets(job[w].part)
        /\ job[w].pc = "save" => Targets(job[w].copy.part)
    BY DEF PartsNamed, HandlersNamed
  <2>3. PICK p, c, o, d : p = job[w].part /\ c = job[w].copy.part /\ o = job'[w].part /\ d = job'[w].copy.part
    OBVIOUS
  <2>4. \A x \in {p, c, o, d} : Targets(x) => (x \in Parts => part'[x].state # "fresh")
    BY <1>1 DEF Targets
  <2>5. CASE job'[w] = NoJob
    BY <2>5 DEF NoJob, Bookings, Copies, PartStage
  <2>6. CASE SameAsk(job[w], job'[w])
    BY <2>1, <2>2, <2>3, <2>4, <2>6 DEF SameAsk, Targets
  <2>7. CASE AsksFor(job'[w]) /\ UNCHANGED <<file, part, limit>>
    <3>1. job'[w].pc = "save" => job'[w].file \in Files /\ Targets(d)
      <4>1. JobFits(job'[w])
        BY QuotaInvStep DEF QuotaInv, JobsFit, JobFits
      <4>2. QED
        BY <2>3, <2>7, <4>1 DEF AsksFor, JobFits, PartsNamed, FilesNamed
    <3>2. job'[w].kind \in Bookings \cup Copies => Targets(o)
      BY <2>3, <2>7 DEF AsksFor
    <3>3. PartStage(job'[w].pc, job'[w].kind, job'[w].part)
      BY <2>7 DEF AsksFor
    <3>4. QED
      BY <2>3, <2>4, <3>1, <3>2, <3>3 DEF Targets
  <2>8. CASE Continues(job[w], job'[w])
    <3>1. /\ job'[w].kind = job[w].kind /\ job'[w].part = job[w].part
          /\ Moves(job[w].pc, job'[w].pc) /\ job'[w].pc # "save"
      BY <2>8 DEF Continues, Moves
    <3>2. PartStage(job'[w].pc, job'[w].kind, job'[w].part)
      BY <2>1, <3>1 DEF PartStage, Moves
    <3>3. QED
      BY <2>2, <2>3, <2>4, <3>1, <3>2 DEF Targets
  <2>9. QED
    BY <2>5, <2>6, <2>7, <2>8, JobFate DEF JobFates
<1>3. QED
  BY <1>2 DEF HandlersNamed, PartStages

\* One handler at a time.
Alone == "overlap" \notin slips => \A v, w \in Workers : ~Idles(v) /\ ~Idles(w) => v = w

LEMMA AloneStep == QuotaInv /\ Alone /\ [QuotaNext]_quotaVars => Alone'
<1> SUFFICES ASSUME QuotaInv, Alone, [QuotaNext]_quotaVars, "overlap" \notin slips',
                    NEW v \in Workers, NEW w \in Workers, job'[v].pc # "idle", job'[w].pc # "idle"
             PROVE  v = w
  BY DEF Alone, Idles
<1>0. QuotaTypeOK /\ JobsFit /\ "overlap" \notin slips
  <2>1. slips \subseteq slips'
    BY LimitStays DEF QuotaInv
  <2>2. QED
    BY <2>1 DEF QuotaInv
<1>1. ASSUME NEW u \in Workers, BeginJob(u)
      PROVE  v = w
  <2>1. PICK q \in Job : BeginsAs(u, q)
    BY <1>0, <1>1, BeginJobEffect
  <2>2. \A o \in Workers \ {u} : job'[o] = job[o]
    BY <1>0, <2>1, BecomesFields DEF BeginsAs
  <2>3. \A o \in Workers : job[o].pc = "idle"
    BY <2>1 DEF BeginsAs, Idles
  <2>4. QED
    BY <2>2, <2>3
<1>2. CASE \A u \in Workers : job'[u].pc # "idle" => job[u].pc # "idle"
  BY <1>0, <1>2 DEF Alone, Idles
<1>3. ASSUME NEW u \in Workers, JobStep(u)
      PROVE  \A o \in Workers : job'[o].pc # "idle" => job[o].pc # "idle"
  <2>1. PICK q \in Job : StepsAs(u, q)
    BY <1>0, <1>3, JobStepEffect
  <2>2. job'[u] = q /\ \A o \in Workers \ {u} : job'[o] = job[o]
    BY <1>0, <2>1, BecomesFields DEF StepsAs
  <2>3. q.pc # "idle" => job[u].pc # "idle"
    BY <2>1 DEF StepsAs, Continues, Moves, NoJob
  <2>4. QED
    BY <2>2, <2>3
<1>4. CASE RestartProcess
  BY <1>0, <1>4, RestartEffect DEF NoJob
<1>5. CASE OthersAct
  BY <1>2, <1>5 DEF OthersAct
<1>6. QED
  BY <1>0, <1>1, <1>2, <1>3, <1>4, <1>5, StepKinds DEF OneBegins, OneSteps

LEMMA AltersAlone ==
  ASSUME QuotaInv, Alone, "overlap" \notin slips, NEW w \in Workers, NEW p \in Parts, Alters(w, p)
  PROVE  \A v \in Workers : job'[v].pc = "idle"
<1>1. job'[w] = NoJob /\ \A v \in Workers \ {w} : job'[v] = job[v]
  BY NoJobType, BecomesFields DEF Alters, QuotaInv
<1>2. \A v \in Workers \ {w} : job[v].pc = "idle"
  BY DEF Alone, Alters, Idles
<1>3. QED
  BY <1>1, <1>2 DEF NoJob

\* One handler at a time makes a partition only under a new id.
NewParts ==
  "overlap" \notin slips =>
    \A w \in Workers : job[w].pc \in {"sum", "put"} /\ job[w].kind = "create" => part[job[w].part].state = "fresh"

LEMMA NewPartsStep == QuotaInv /\ PartsNamed /\ Alone /\ NewParts /\ [QuotaNext]_quotaVars => NewParts'
<1> SUFFICES ASSUME QuotaInv, PartsNamed, Alone, NewParts, [QuotaNext]_quotaVars, "overlap" \notin slips', NEW w \in Workers,
                    job'[w].pc \in {"sum", "put"}, job'[w].kind = "create"
             PROVE  part'[job'[w].part].state = "fresh"
  BY DEF NewParts
<1>1. "overlap" \notin slips
  BY LimitStays DEF QuotaInv
<1>2. part' = part
  BY <1>1, PartsChange, AltersAlone DEF PartsNamed
<1>3. CASE job'[w] = NoJob
  BY <1>3 DEF NoJob
<1>4. CASE SameAsk(job[w], job'[w])
  BY <1>1, <1>2, <1>4 DEF SameAsk, NewParts
<1>5. CASE AsksFor(job'[w])
  BY <1>2, <1>5 DEF AsksFor
<1>6. CASE Continues(job[w], job'[w])
  <2>1. job[w].kind = "create" /\ job'[w].part = job[w].part /\ Moves(job[w].pc, job'[w].pc)
    BY <1>6 DEF Continues
  <2>2. job[w].pc = "fit" => job[w].kind = "resize"
    BY DEF PartsNamed, PartStages, PartStage
  <2>3. QED
    BY <1>1, <1>2, <2>1, <2>2 DEF Moves, NewParts
<1>7. QED
  BY <1>3, <1>4, <1>5, <1>6, JobFate DEF JobFates

\* What is allocated, and what a handler may still allocate.
Budget ==
  slips \cap {"overlap", "lowered"} = {} =>
    /\ Allocated(LiveParts) <= limit
    /\ \A w \in Workers : /\ job[w].max <= limit
                          /\ job[w].pc = "put" => FitsWithOthers(job[w])

LEMMA AltersBudget ==
  ASSUME QuotaInv, QuotaTypeOK', Alone, Budget, slips \cap {"overlap", "lowered"} = {},
         NEW w \in Workers, NEW p \in Parts, Alters(w, p)
  PROVE  Allocated(LiveParts)' <= limit
<1>0. QuotaTypeOK /\ limit \in Nat /\ job[w] \in Job
  BY QuotaAssumption DEF QuotaInv, QuotaTypeOK, QuotaAssumption
<1>1. PICK S : S = LiveParts \ {p}
  OBVIOUS
<1>2. S \in SUBSET (Parts \ {p}) /\ S \in SUBSET LiveParts /\ LiveParts \in SUBSET Parts
  BY <1>1 DEF LiveParts
<1>3. /\ Allocated(S)' = Allocated(S) /\ Allocated(S) \in Nat
      /\ Allocated(S \cup {p})' = Allocated(S) + part'[p].size
  BY <1>0, <1>2, OnePartChanges DEF Alters
<1>4. CASE job[w].pc = "put" /\ part'[p] = [state |-> "live", size |-> job[w].size]
  <2>1. LiveParts' = S \cup {p} /\ part'[p].size = job[w].size
    BY <1>1, <1>4 DEF LiveParts, Alters
  <2>2. Allocated(S) + job[w].size <= job[w].max /\ job[w].max <= limit
    BY <1>1, <1>4 DEF Budget, FitsWithOthers, Alters
  <2>3. job[w].size \in Nat /\ job[w].max \in Nat
    BY <1>0 DEF Job
  <2>4. Allocated(LiveParts)' = Allocated(S) + job[w].size
    BY <1>3, <2>1
  <2>5. QED
    BY <1>0, <1>3, <2>2, <2>3, <2>4
<1>5. CASE part'[p] = [state |-> "gone", size |-> 0]
  <2>1. LiveParts' = S
    BY <1>1, <1>5 DEF LiveParts, Alters
  <2>2. Allocated(S) <= Allocated(LiveParts) /\ Allocated(LiveParts) \in Nat
    BY <1>0, <1>2, FewerParts, SumsMeant DEF SumsHold
  <2>3. Allocated(LiveParts) <= limit
    BY DEF Budget
  <2>4. Allocated(LiveParts)' = Allocated(S)
    BY <1>3, <2>1
  <2>5. QED
    BY <1>0, <1>3, <2>2, <2>3, <2>4
<1>6. QED
  BY <1>4, <1>5 DEF Alters

LEMMA BudgetStep == QuotaInv /\ PartsNamed /\ Alone /\ Budget /\ [QuotaNext]_quotaVars => Budget'
<1> SUFFICES ASSUME QuotaInv, PartsNamed, Alone, Budget, [QuotaNext]_quotaVars, slips' \cap {"overlap", "lowered"} = {}
             PROVE  /\ Allocated(LiveParts)' <= limit'
                    /\ \A w \in Workers : /\ job'[w].max <= limit'
                                          /\ job'[w].pc = "put" => FitsWithOthers(job[w])'
  BY DEF Budget
<1>0. /\ QuotaTypeOK /\ QuotaTypeOK' /\ slips \cap {"overlap", "lowered"} = {}
      /\ limit <= limit' /\ limit \in Nat /\ limit' \in Nat
  BY QuotaInvStep, LimitStays DEF QuotaInv
<1>1. ASSUME NEW w \in Workers, NEW p \in Parts, Alters(w, p)
      PROVE  Allocated(LiveParts)' <= limit'
  <2>1. Allocated(LiveParts)' <= limit
    BY <1>0, <1>1, AltersBudget
  <2>2. limit' = limit
    BY <1>1 DEF Alters
  <2>3. QED
    BY <2>1, <2>2
<1>2. ASSUME part' = part
      PROVE  Allocated(LiveParts)' <= limit'
  <2>1. Allocated(LiveParts)' = Allocated(LiveParts) /\ Allocated(LiveParts) \in Nat
    <3>1. LiveParts' = LiveParts /\ LiveParts \in SUBSET Parts
      BY <1>2 DEF LiveParts
    <3>2. QED
      BY <1>0, <1>2, <3>1, SameParts
  <2>2. Allocated(LiveParts) <= limit
    BY <1>0 DEF Budget
  <2>3. QED
    BY <1>0, <2>1, <2>2
<1>3. ASSUME NEW w \in Workers
      PROVE  job'[w].max <= limit' /\ (job'[w].pc = "put" => FitsWithOthers(job[w])')
  <2>0. job[w] \in Job /\ job'[w] \in Job /\ job[w].max \in Nat /\ job'[w].max \in Nat
    BY <1>0 DEF QuotaTypeOK, Job
  <2>1. job'[w].max \in {0, job[w].max, limit}
    BY JobFate DEF JobFates, NoJob, SameAsk, AsksFor, Continues
  <2>2. job'[w].max <= limit'
    BY <1>0, <2>0, <2>1 DEF Budget
  <2>3. ASSUME job'[w].pc = "put"
        PROVE  FitsWithOthers(job[w])'
    <3>1. part' = part
      BY <1>0, <2>3, PartsChange, AltersAlone DEF PartsNamed
    <3>2. FitsWithOthers(job[w]) /\ job'[w].part = job[w].part /\ job'[w].size = job[w].size /\ job'[w].max = job[w].max
      <4>1. CASE SameAsk(job[w], job'[w])
        BY <1>0, <2>3, <4>1 DEF SameAsk, Budget
      <4>2. CASE JobStep(w) /\ Continues(job[w], job'[w])
        BY <2>3, <4>2, ChecksPassed DEF Continues, Moves
      <4>3. QED
        BY <2>3, <4>1, <4>2, JobFate DEF JobFates, NoJob, AsksFor
    <3>3. PICK S : S = LiveParts \ {job[w].part}
      OBVIOUS
    <3>4. LiveParts' \ {job'[w].part} = S /\ S \in SUBSET Parts
      BY <3>1, <3>2, <3>3 DEF LiveParts
    <3>5. Allocated(S)' = Allocated(S)
      BY <1>0, <3>1, <3>4, SameParts
    <3>6. QED
      BY <3>2, <3>3, <3>4, <3>5 DEF FitsWithOthers
  <2>4. QED
    BY <2>2, <2>3
<1>4. QED
  BY <1>0, <1>1, <1>2, <1>3, PartsChange DEF PartsNamed

\* What is in the partitions, what a handler may still put there, and what one
\* that resizes a partition leaves in it.
Filling ==
  unchecked = 0 /\ slips \cap {"overlap", "restored", "moved"} = {} =>
    /\ \A p \in LiveParts : UsedIn(p) <= part[p].size
    /\ \A w \in Workers : /\ job[w].pc = "insert" /\ job[w].part \in LiveParts =>
                               UsedIn(job[w].part) + job[w].size <= part[job[w].part].size
                          /\ job[w].pc \in {"sum", "put"} /\ job[w].kind = "resize" =>
                               UsedIn(job[w].part) <= job[w].size

LEMMA NewPartEmpty ==
  ASSUME QuotaTypeOK, FilesNamed, NEW p \in Parts, part[p].state = "fresh"
  PROVE  UsedIn(p) = 0
<1>1. LiveIn(p) = {}
  BY DEF LiveIn, FilesNamed, Targets
<1>2. UsedIn(p) = Sum(FileSizes, {})
  BY <1>1, SumsMeant DEF SumsHold
<1>3. QED
  BY <1>2, SumEmpty

LEMMA AltersFilling ==
  ASSUME QuotaInv, QuotaTypeOK', PartsNamed, NewParts, Filling,
         unchecked = 0 /\ slips \cap {"overlap", "restored", "moved"} = {},
         NEW w \in Workers, NEW p \in Parts, Alters(w, p), NEW o \in LiveParts'
  PROVE  UsedIn(o)' <= part'[o].size
<1>0. QuotaTypeOK /\ o \in Parts /\ job[w] \in Job
  BY DEF QuotaInv, QuotaTypeOK, LiveParts
<1>1. UsedIn(o)' = UsedIn(o) /\ UsedIn(o) \in Nat
  BY <1>0, SameFiles DEF Alters
<1>2. CASE o # p
  <2>1. part'[o] = part[o] /\ o \in LiveParts
    BY <1>0, <1>2 DEF Alters, LiveParts
  <2>2. UsedIn(o) <= part[o].size
    BY <2>1 DEF Filling
  <2>3. QED
    BY <1>1, <2>1, <2>2
<1>3. CASE o = p
  <2>1. job[w].pc = "put" /\ part'[o].size = job[w].size /\ o = job[w].part
    BY <1>3 DEF Alters, LiveParts
  <2>2. job[w].size \in Nat /\ job[w].kind \in {"create", "resize"}
    BY <1>0, <2>1 DEF Job, PartsNamed, PartStages, PartStage
  <2>3. CASE job[w].kind = "create"
    <3>1. part[o].state = "fresh"
      BY <2>1, <2>3 DEF NewParts
    <3>2. UsedIn(o) = 0
      BY <1>0, <3>1, NewPartEmpty DEF PartsNamed
    <3>3. QED
      BY <1>1, <2>1, <2>2, <3>2
  <2>4. CASE job[w].kind = "resize"
    <3>1. UsedIn(o) <= job[w].size
      BY <2>1, <2>4 DEF Filling
    <3>2. QED
      BY <1>1, <2>1, <3>1
  <2>5. QED
    BY <2>2, <2>3, <2>4
<1>4. QED
  BY <1>2, <1>3

LEMMA BookingFills ==
  ASSUME QuotaInv, QuotaTypeOK', Alone, Filling, unchecked = 0, slips \cap {"overlap", "restored", "moved"} = {},
         NEW w \in Workers, NEW f \in Files, BookFile(w, f)
  PROVE  /\ \A o \in LiveParts' : UsedIn(o)' <= part'[o].size
         /\ \A v \in Workers : job'[v].pc \notin {"insert", "sum", "put"}
<1>0. QuotaTypeOK /\ JobsFit /\ part' = part /\ LiveParts' = LiveParts /\ job[w].pc = "insert"
  BY DEF QuotaInv, BookFile, LiveParts
<1>1. PICK p, n : p = job[w].part /\ n = job[w].size
  OBVIOUS
<1>2. UsedIn(p)' = UsedIn(p) + n /\ \A o : o # p => UsedIn(o)' <= UsedIn(o)
  BY <1>0, <1>1, BookedCounts
<1>3. ASSUME NEW o \in LiveParts
      PROVE  UsedIn(o)' <= part[o].size
  <2>1. UsedIn(o) \in Nat /\ UsedIn(o)' \in Nat /\ part[o].size \in Nat /\ UsedIn(o) <= part[o].size
    <3>1. o \in Parts /\ part[o] \in Partition
      BY <1>0 DEF LiveParts, QuotaTypeOK
    <3>2. QED
      BY <1>0, <3>1, SumsMeant, SumsMeantNext DEF SumsHold, Partition, Filling
  <2>2. CASE o = p
    BY <1>0, <1>1, <1>2, <2>2 DEF Filling
  <2>3. CASE o # p
    BY <1>2, <2>1, <2>3
  <2>4. QED
    BY <2>2, <2>3
<1>4. PICK q \in Job : StepsAs(w, q)
  BY <1>0, JobStepEffect DEF JobStep
<1>5. job'[w] = q /\ (\A v \in Workers \ {w} : job'[v] = job[v]) /\ q.pc \notin {"insert", "sum", "put"}
  BY <1>0, <1>4, BecomesFields DEF StepsAs, Continues, Moves, NoJob
<1>6. \A v \in Workers \ {w} : job[v].pc = "idle"
  BY <1>0 DEF Alone, Idles
<1>7. QED
  BY <1>0, <1>3, <1>5, <1>6

\* What was booked unchecked stays counted.
LEMMA UncheckedGrows ==
  ASSUME QuotaInv, [QuotaNext]_quotaVars
  PROVE  unchecked <= unchecked'
<1>0. QuotaTypeOK /\ JobsFit /\ CopiesFit /\ unchecked \in Nat
  BY DEF QuotaInv, QuotaTypeOK
<1>1. ASSUME NEW w \in Workers, SaveItem(w)
      PROVE  unchecked <= unchecked'
  <2>1. PICK f \in Files, d \in File :
          /\ d.size \in Nat /\ SizeOf(f) \in Nat
          /\ unchecked' = unchecked + (IF d.size > SizeOf(f) THEN d.size - SizeOf(f) ELSE 0)
    BY <1>0, <1>1, SaveItemFields
  <2>2. QED
    BY <1>0, <2>1
<1>2. ASSUME NEW w \in Workers, CopyStep(w)
      PROVE  unchecked <= unchecked'
  <2>1. PICK size \in Nat : unchecked' = unchecked + size
    BY <1>0, <1>2, CopyStepIs DEF CopyFile
  <2>2. QED
    BY <1>0, <2>1
<1>3. ASSUME NEW w \in Workers, JobStep(w)
      PROVE  unchecked' = unchecked \/ SaveItem(w)
  BY <1>3 DEF JobStep, JobOnly, CheckQuota, BookFile, CheckFirstChunk, MakeDirectory, OpenChunk, WriteChunk, EnterLock,
     CheckMergedName, MergeChunks, FinishChunks, EndCopy, FailSave, CheckFit, CheckSum, PutPart, PurgePart, DropPart
<1>4. ASSUME NEW w \in Workers, BeginJob(w)
      PROVE  unchecked' = unchecked
  BY <1>0, <1>4, BeginJobEffect DEF BeginsAs
<1>5. CASE unchecked' = unchecked
  BY <1>0, <1>5
<1>6. QED
  BY <1>1, <1>2, <1>3, <1>4, <1>5 DEF QuotaNext, ChangeState, SetLimit, SetCanUpload, RestartProcess, quotaVars

LEMMA FillingStep ==
  QuotaInv /\ PartsNamed /\ Alone /\ NewParts /\ Filling /\ [QuotaNext]_quotaVars => Filling'
<1> DEFINE Room(w) == /\ job'[w].pc = "insert" /\ job'[w].part \in LiveParts' =>
                           UsedIn(job[w].part)' + job'[w].size <= part'[job'[w].part].size
                      /\ job'[w].pc \in {"sum", "put"} /\ job'[w].kind = "resize" =>
                           UsedIn(job[w].part)' <= job'[w].size
<1> SUFFICES ASSUME QuotaInv, PartsNamed, Alone, NewParts, Filling, [QuotaNext]_quotaVars,
                    unchecked' = 0, slips' \cap {"overlap", "restored", "moved"} = {}
             PROVE  (\A p \in LiveParts' : UsedIn(p)' <= part'[p].size) /\ \A w \in Workers : Room(w)
  BY DEF Filling
<1>0. /\ QuotaTypeOK /\ QuotaTypeOK' /\ JobsFit /\ slips \cap {"overlap", "restored", "moved"} = {}
      /\ unchecked = 0 /\ unchecked' = unchecked
  <2>1. unchecked <= unchecked' /\ unchecked \in Nat
    BY UncheckedGrows DEF QuotaInv, QuotaTypeOK
  <2>2. unchecked = 0
    BY <2>1
  <2>3. QED
    BY <2>2, QuotaInvStep, LimitStays DEF QuotaInv
<1>1. CASE \E w \in Workers, p \in Parts : Alters(w, p)
  <2>1. PICK w \in Workers, p \in Parts : Alters(w, p)
    BY <1>1
  <2>2. \A v \in Workers : job'[v].pc = "idle"
    BY <1>0, <2>1, AltersAlone
  <2>3. \A o \in LiveParts' : UsedIn(o)' <= part'[o].size
    BY <1>0, <2>1, AltersFilling
  <2>4. QED
    BY <2>2, <2>3
<1>2. CASE \E w \in Workers, f \in Files : BookFile(w, f)
  BY <1>0, <1>2, BookingFills
<1>3. CASE (\A p : UsedIn(p)' <= UsedIn(p)) /\ part' = part
  <2>1. \A p : UsedIn(p)' <= UsedIn(p) /\ UsedIn(p) \in Nat /\ UsedIn(p)' \in Nat
    BY <1>0, <1>3, SumsMeant, SumsMeantNext DEF SumsHold
  <2>2. LiveParts' = LiveParts /\ \A p \in LiveParts : part[p].size \in Nat
    <3>1. \A p \in Parts : part[p] \in Partition
      BY <1>0 DEF QuotaTypeOK
    <3>2. QED
      BY <1>3, <3>1 DEF LiveParts, Partition
  <2>3. ASSUME NEW p \in LiveParts
        PROVE  UsedIn(p)' <= part[p].size
    <3>1. UsedIn(p) <= part[p].size
      BY <1>0 DEF Filling
    <3>2. QED
      BY <2>1, <2>2, <3>1
  <2>4. ASSUME NEW w \in Workers
        PROVE  Room(w)
    <3>1. PICK p, n : p = job[w].part /\ n = job[w].size
      OBVIOUS
    <3>2. n \in Nat
      BY <1>0, <3>1 DEF QuotaTypeOK, Job
    <3>3. job'[w].pc \in {"insert", "put"} \/ (job'[w].pc = "sum" /\ job'[w].kind = "resize") =>
            job'[w].part = p /\ job'[w].size = n
      BY <3>1, JobFate DEF JobFates, NoJob, SameAsk, AsksFor, Continues, Moves
    <3>4. ASSUME job'[w].pc = "insert", p \in LiveParts
          PROVE  UsedIn(p) + n <= part[p].size
      <4>1. CASE SameAsk(job[w], job'[w])
        BY <1>0, <3>1, <3>4, <4>1 DEF SameAsk, Filling
      <4>2. CASE JobStep(w) /\ Continues(job[w], job'[w])
        <5>1. ~(UsedIn(p) + n > part[p].size)
          BY <3>1, <3>4, <4>2, ChecksPassed DEF QuotaRefuses
        <5>2. QED
          BY <2>1, <2>2, <3>2, <3>4, <5>1
      <4>3. QED
        BY <3>4, <4>1, <4>2, JobFate DEF JobFates, NoJob
    <3>5. ASSUME job'[w].pc \in {"sum", "put"}, job'[w].kind = "resize"
          PROVE  UsedIn(p) <= n
      <4>1. CASE SameAsk(job[w], job'[w])
        BY <1>0, <3>1, <3>5, <4>1 DEF SameAsk, Filling
      <4>2. CASE JobStep(w) /\ Continues(job[w], job'[w])
        <5>1. CASE job'[w].pc = "sum"
          <6>1. ~(n < UsedIn(p))
            BY <3>1, <4>2, <5>1, ChecksPassed
          <6>2. QED
            BY <2>1, <3>2, <6>1
        <5>2. CASE job'[w].pc = "put"
          BY <1>0, <3>1, <3>5, <4>2, <5>2 DEF Continues, Moves, Filling
        <5>3. QED
          BY <3>5, <5>1, <5>2
      <4>3. QED
        BY <3>5, <4>1, <4>2, JobFate DEF JobFates, NoJob, AsksFor
    <3>6. QED
      BY <1>3, <2>1, <2>2, <3>1, <3>2, <3>3, <3>4, <3>5
  <2>5. QED
    BY <1>3, <2>2, <2>3, <2>4
<1>4. QED
  BY <1>0, <1>1, <1>2, <1>3, PartsFill, PartsChange DEF PartsNamed

PartsInv == PartsNamed /\ Alone /\ NewParts /\ Budget /\ Filling

\* With one handler at a time, the checks of create_partition, update_partition
\* and of the uploads keep the partitions within the limit, as long as it is not
\* lowered, and the files within their partitions, as long as no duplicate, copy
\* back or save adds to them unchecked and no file is moved or comes back from
\* the bin; restarts, the other handlers and what goes into the bin do no harm.
THEOREM PartitionsStayFitting == QuotaSpec => []PartitionsFit
<1>1. QuotaInit => QuotaInv /\ PartsInv
  <2> SUFFICES ASSUME QuotaInit PROVE PartsInv
    BY QuotaInvInit
  <2>1. QuotaTypeOK /\ limit \in Nat
    BY QuotaInvInit, QuotaAssumption DEF QuotaInv, QuotaTypeOK, QuotaAssumption
  <2>2. /\ LiveParts = {} /\ \A w \in Workers : job[w].pc = "idle" /\ job[w].max = 0 /\ job[w].kind = "none"
        /\ \A f \in Files : file[f].state = "fresh"
    BY DEF QuotaInit, LiveParts, NoJob, NewFile
  <2>3. Allocated(LiveParts) = 0
    <3>1. \A S \in SUBSET Parts : Allocated(S) = Sum(PartSizes, S)
      BY <2>1, SumsMeant DEF SumsHold
    <3>2. QED
      BY <2>2, <3>1, SumEmpty
  <2>4. PartsNamed
    <3>1. \A f \in Files : file[f].part \notin Parts
      BY QuotaAssumption DEF QuotaInit, NewFile, QuotaAssumption
    <3>2. QED
      BY <2>2, <3>1 DEF PartsNamed, FilesNamed, HandlersNamed, PartStages, PartStage, Bookings, Copies, Targets
  <2>5. Alone /\ NewParts
    BY <2>2 DEF Alone, Idles, NewParts
  <2>6. Budget
    BY <2>1, <2>2, <2>3 DEF Budget
  <2>7. Filling
    BY <2>2 DEF Filling
  <2>8. QED
    BY <2>4, <2>5, <2>6, <2>7 DEF PartsInv
<1>2. QuotaInv /\ PartsInv /\ [QuotaNext]_quotaVars => (QuotaInv /\ PartsInv)'
  BY QuotaInvStep, PartsNamedStep, AloneStep, NewPartsStep, BudgetStep, FillingStep DEF PartsInv
<1>3. PartsInv => PartitionsFit
  BY DEF PartsInv, Budget, Filling, PartitionsFit
<1>4. QED
  BY <1>1, <1>2, <1>3, PTL DEF QuotaSpec
=============================================================================
