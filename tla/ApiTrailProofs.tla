--------------------------- MODULE ApiTrailProofs ---------------------------
(***************************************************************************)
(* Facts for the proof that the solver with an external propagator keeps   *)
(* its invariant (ApiInvariant): what the operations on the trail do.      *)
(* Elements chosen by their positions, recursive functions that exist,     *)
(* backtracking, assignment, propagation, what the propagator hears of it  *)
(* ('notify_assignments', 'notify_backtrack') and what it proposes, and    *)
(* the reasons and the levels a conflict is made ready for the analysis    *)
(* with.  An operation gets a predicate for what holds before, one for     *)
(* what it keeps, and a lemma that it keeps it; the lemmas about steps     *)
(* cite these only.                                                        *)
(***************************************************************************)
EXTENDS ApiInvariant, FiniteSetTheorems, FunctionTheorems, NaturalsInduction,
        TLAPS

-----------------------------------------------------------------------------
(* Recursion and folds.  A function that is defined by recursion on a      *)
(* bounded number exists and obeys its equations, and so does a fold over  *)
(* a finite set.                                                           *)

\* A non-empty set of natural numbers has a smallest element.
LEMMA SmallestNumber ==
  ASSUME NEW S \in SUBSET Nat, S # {}
  PROVE  \E n \in S : \A k \in S : n <= k
<1> DEFINE R == OpToRel(<, Nat)
<1>1. IsWellFoundedOn(R, Nat)
  BY NatLessThanWellFounded
<1>2. \A j, k \in Nat : j < k => <<j, k>> \in R
  BY DEF OpToRel
<1> HIDE DEF R
<1>3. PICK n \in S : \A k \in S : ~ (<<k, n>> \in R)
  BY <1>1, WFMin
<1>4. \A k \in S : k \in Nat /\ n \in Nat
  OBVIOUS
<1>5. \A k \in S : ~(k < n)
  BY <1>2, <1>3, <1>4, Zenon
<1> QED
  BY <1>4, <1>5

\* A set of step numbers that has the first and is closed has all.
LEMMA AllSteps ==
  ASSUME NEW N \in Nat, NEW D, 0 \in D, \A n \in 1..N : n - 1 \in D => n \in D
  PROVE  \A n \in 0..N : n \in D
<1> DEFINE S == {n \in 0..N : n \notin D}
<1>1. CASE S = {}
  BY <1>1
<1>2. CASE S # {}
  <2>0. S \in SUBSET Nat
    OBVIOUS
  <2>1. PICK n \in S : \A k \in S : n <= k
    <3> HIDE DEF S
    <3> QED
      BY <1>2, <2>0, SmallestNumber
  <2>2. n \in 1..N /\ n - 1 \in 0..N /\ n - 1 \notin S
    BY <2>1
  <2> QED
    BY <2>1, <2>2
<1> QED
  BY <1>1, <1>2

\* f is the sequence that starts with b and in which G makes each member from
\* its number and the one before.
RunOf(f, b, N, G) == f = [n \in 0..N |-> IF n = 0 THEN b ELSE G[n, f[n - 1]]]

\* A loop of N steps, each of which stays in T, has a run.
LEMMA RunExists ==
  ASSUME NEW T, NEW b \in T, NEW N \in Nat, NEW G \in [(1..N) \X T -> T]
  PROVE  \E f \in [0..N -> T] : RunOf(f, b, N, G)
<1> DEFINE Run(n, f) == f[0] = b /\ \A i \in 1..n : f[i] = G[i, f[i - 1]]
           D == {n \in 0..N : \E f \in [0..n -> T] : Run(n, f)}
<1>1. 0 \in D
  <2> DEFINE g == [i \in 0..0 |-> b]
  <2>1. g \in [0..0 -> T] /\ g[0] = b /\ 1..0 = {}
    OBVIOUS
  <2> HIDE DEF g
  <2>2. Run(0, g) /\ 0 \in 0..N
    BY <2>1
  <2> QED
    BY <2>1, <2>2
<1>2. ASSUME NEW n \in 1..N, n - 1 \in D PROVE n \in D
  <2>1. PICK f \in [0..n - 1 -> T] : Run(n - 1, f)
    BY <1>2
  <2>0. n \in Nat /\ n - 1 \in 0..n - 1 /\ n # 0
    OBVIOUS
  <2> DEFINE x == G[n, f[n - 1]]
             g == [i \in 0..n |-> IF i = n THEN x ELSE f[i]]
  <2>2. x \in T
    <3>1. f[n - 1] \in T
      BY <2>0
    <3>2. <<n, f[n - 1]>> \in (1..N) \X T
      BY <3>1
    <3> QED
      BY <3>2
  <2>3. g \in [0..n -> T]
    <3>1. \A i \in 0..n : i # n => i \in 0..n - 1
      OBVIOUS
    <3> HIDE DEF x
    <3> QED
      BY <2>2, <3>1
  <2>4. Run(n, g)
    <3>1. g[0] = b
      <4>1. 0 \in 0..n
        BY <2>0
      <4>2. f[0] = b
        BY <2>1, Zenon
      <4> HIDE DEF x
      <4> QED
        BY <2>0, <4>1, <4>2
    <3>2. ASSUME NEW i \in 1..n PROVE g[i] = G[i, g[i - 1]]
      <4>1. i \in 0..n /\ i - 1 \in 0..n /\ i - 1 # n
        OBVIOUS
      <4>2. g[i - 1] = f[i - 1]
        BY <4>1
      <4>3. CASE i = n
        BY <4>1, <4>2, <4>3
      <4>4. CASE i # n
        <5>1. i \in 1..n - 1 /\ g[i] = f[i]
          BY <4>1, <4>4
        <5> QED
          BY <2>1, <4>2, <5>1
      <4> QED
        BY <4>3, <4>4
    <3> QED
      BY <3>1, <3>2
  <2>5. n \in 0..N
    OBVIOUS
  <2> HIDE DEF g
  <2> QED
    BY <2>3, <2>4, <2>5
<1>3. N \in D
  <2> HIDE DEF D
  <2> QED
    BY <1>1, <1>2, AllSteps
<1>4. PICK f \in [0..N -> T] : Run(N, f)
  BY <1>3
<1>5. f = [n \in 0..N |-> IF n = 0 THEN b ELSE G[n, f[n - 1]]]
  <2>1. ASSUME NEW n \in 0..N
        PROVE  f[n] = IF n = 0 THEN b ELSE G[n, f[n - 1]]
    <3>1. n = 0 \/ n \in 1..N
      OBVIOUS
    <3> QED
      BY <1>4, <3>1
  <2> QED
    BY <2>1
<1> QED
  BY <1>5 DEF RunOf

\* What holds of the empty set and goes on when an element joins holds of
\* every subset of a finite set.
LEMMA AllSubsets ==
  ASSUME NEW S, IsFiniteSet(S), NEW D, {} \in D,
         \A s \in SUBSET S : (\A x \in s : s \ {x} \in D) => s \in D
  PROVE  \A s \in SUBSET S : s \in D
<1>0. \A s \in SUBSET S : IsFiniteSet(s) /\ Cardinality(s) \in Nat
  BY FS_Subset, FS_CardinalityType
<1> DEFINE N == Cardinality(S)
           E == {n \in Nat : \A s \in SUBSET S : Cardinality(s) <= n => s \in D}
<1>1. N \in Nat /\ \A s \in SUBSET S : Cardinality(s) <= N
  BY <1>0, FS_Subset
<1>2. 0 \in E
  <2>1. ASSUME NEW s \in SUBSET S, Cardinality(s) <= 0 PROVE s \in D
    <3>1. Cardinality(s) = 0
      BY <1>0, <2>1
    <3>2. s = {}
      BY <1>0, <3>1, FS_EmptySet
    <3> QED
      BY <3>2
  <2> QED
    BY <2>1
<1>3. ASSUME NEW n \in 1..N, n - 1 \in E PROVE n \in E
  <2>1. ASSUME NEW s \in SUBSET S, Cardinality(s) <= n PROVE s \in D
    <3>1. CASE s = {}
      BY <3>1
    <3>2. CASE s # {}
      <4>1. ASSUME NEW x \in s PROVE s \ {x} \in D
        <5>1. Cardinality(s \ {x}) = Cardinality(s) - 1 /\ s \ {x} \in SUBSET S
          BY <1>0, FS_RemoveElement
        <5>2. Cardinality(s \ {x}) <= n - 1
          BY <1>0, <2>1, <5>1
        <5> QED
          BY <1>3, <5>1, <5>2
      <4> QED
        BY <4>1
    <3> QED
      BY <3>1, <3>2
  <2>2. n \in Nat
    BY <1>1
  <2> QED
    BY <2>1, <2>2
<1>4. N \in E
  <2> HIDE DEF E
  <2> QED
    BY <1>1, <1>2, <1>3, AllSteps
<1> QED
  BY <1>1, <1>4

\* f folds G over the subsets of S, beginning with b for the empty set, as
\* FoldSet does.
FoldsTo(f, S, b, G) ==
  f = [s \in SUBSET S |->
         IF s = {} THEN b
         ELSE G[(CHOOSE x \in s : TRUE), f[s \ {CHOOSE x \in s : TRUE}]]]

\* The elements of a finite set can be gone through one by one.
LEMMA FoldExists ==
  ASSUME NEW S, IsFiniteSet(S), NEW T, NEW b \in T, NEW G \in [S \X T -> T]
  PROVE  \E f \in [SUBSET S -> T] : FoldsTo(f, S, b, G)
<1> DEFINE Pick(s) == CHOOSE x \in s : TRUE
           Run(n, f) == \A s \in SUBSET S : Cardinality(s) <= n =>
             f[s] = IF s = {} THEN b ELSE G[Pick(s), f[s \ {Pick(s)}]]
           N == Cardinality(S)
           D == {n \in 0..N : \E f \in [SUBSET S -> T] : Run(n, f)}
<1>0. \A s \in SUBSET S : IsFiniteSet(s) /\ Cardinality(s) \in Nat
  BY FS_Subset, FS_CardinalityType
<1>1. N \in Nat /\ \A s \in SUBSET S : Cardinality(s) <= N
  BY <1>0, FS_Subset
<1>2. \A s \in SUBSET S : s # {} =>
        /\ Pick(s) \in s /\ Pick(s) \in S /\ s \ {Pick(s)} \in SUBSET S
        /\ Cardinality(s \ {Pick(s)}) = Cardinality(s) - 1
  <2>1. ASSUME NEW s \in SUBSET S, s # {} PROVE Pick(s) \in s
    BY <2>1
  <2> HIDE DEF Pick
  <2>2. ASSUME NEW s \in SUBSET S, s # {}
        PROVE  Cardinality(s \ {Pick(s)}) = Cardinality(s) - 1
    BY <1>0, <2>1, <2>2, FS_RemoveElement
  <2> QED
    BY <2>1, <2>2
<1> HIDE DEF Pick
<1>3. 0 \in D
  <2> DEFINE g == [s \in SUBSET S |-> b]
  <2>1. ASSUME NEW s \in SUBSET S, Cardinality(s) <= 0
        PROVE  s = {}
    BY <1>0, <2>1, FS_EmptySet
  <2>2. g \in [SUBSET S -> T] /\ Run(0, g)
    BY <2>1
  <2>3. 0 \in 0..N
    BY <1>1
  <2> HIDE DEF g
  <2> QED
    BY <2>2, <2>3
<1>4. ASSUME NEW n \in 1..N, n - 1 \in D PROVE n \in D
  <2>1. PICK f \in [SUBSET S -> T] : Run(n - 1, f)
    BY <1>4
  <2> DEFINE val(s) == IF s = {} THEN b ELSE G[Pick(s), f[s \ {Pick(s)}]]
             g == [s \in SUBSET S |-> val(s)]
  <2>2. ASSUME NEW s \in SUBSET S PROVE val(s) \in T
    <3>1. CASE s = {}
      BY <3>1
    <3>2. CASE s # {}
      <4>1. Pick(s) \in S /\ f[s \ {Pick(s)}] \in T
        BY <1>2, <3>2
      <4>2. <<Pick(s), f[s \ {Pick(s)}]>> \in S \X T
        BY <4>1
      <4> QED
        BY <3>2, <4>2
    <3> QED
      BY <3>1, <3>2
  <2>3. ASSUME NEW s \in SUBSET S, Cardinality(s) <= n - 1 PROVE f[s] = val(s)
    BY <2>1, <2>3
  <2>4. g \in [SUBSET S -> T]
    <3> HIDE DEF val
    <3> QED
      BY <2>2
  <2>5. Run(n, g)
    <3>1. ASSUME NEW s \in SUBSET S, Cardinality(s) <= n
          PROVE  g[s] = IF s = {} THEN b ELSE G[Pick(s), g[s \ {Pick(s)}]]
      <4>1. CASE s = {}
        BY <4>1
      <4>2. CASE s # {}
        <5> DEFINE r == s \ {Pick(s)}
        <5>1. r \in SUBSET S /\ Cardinality(r) <= n - 1
          BY <1>0, <1>2, <3>1, <4>2
        <5>2. g[r] = f[r]
          BY <2>3, <5>1
        <5>3. g[s] = G[Pick(s), f[r]]
          BY <4>2
        <5> HIDE DEF r, g
        <5> QED
          BY <4>2, <5>2, <5>3 DEF r
      <4> QED
        BY <4>1, <4>2
    <3> QED
      BY <3>1
  <2>6. n \in 0..N
    OBVIOUS
  <2> HIDE DEF g
  <2> QED
    BY <2>4, <2>5, <2>6
<1>5. N \in D
  <2> HIDE DEF D
  <2> QED
    BY <1>1, <1>3, <1>4, AllSteps
<1>6. PICK f \in [SUBSET S -> T] : Run(N, f)
  BY <1>5
<1>7. f = [s \in SUBSET S |-> IF s = {} THEN b
                              ELSE G[Pick(s), f[s \ {Pick(s)}]]]
  BY <1>1, <1>6
<1>8. FoldsTo(f, S, b, G)
  BY <1>7 DEF Pick, FoldsTo
<1> QED
  BY <1>8

-----------------------------------------------------------------------------
(* Elements chosen by their positions.                                     *)

\* How many elements of I come before i is how far Nth counts.
Before(I, i) == {j \in I : j < i}

\* Nth counts the elements of a set of positions in their order.
LEMMA NthFacts ==
  ASSUME NEW n \in Nat, NEW I \in SUBSET (1..n)
  PROVE  /\ IsFiniteSet(I) /\ Cardinality(I) \in 0..n
         /\ \A k \in 1..Cardinality(I) : Nth(I, k) \in I
         /\ \A j, k \in 1..Cardinality(I) : j < k => Nth(I, j) < Nth(I, k)
         /\ \A i \in I : \E k \in 1..Cardinality(I) : Nth(I, k) = i
<1> DEFINE r == [i \in I |-> Cardinality(Before(I, i))]
           N == Cardinality(I)
<1>1. IsFiniteSet(I) /\ N \in Nat /\ N <= n
  <2>1. IsFiniteSet(1..n) /\ Cardinality(1..n) = n
    BY FS_Interval
  <2> QED
    BY <2>1, FS_Subset, FS_CardinalityType
<1>2. \A i \in I : i \in Int
  OBVIOUS
<1>3. ASSUME NEW T \in SUBSET I
      PROVE  IsFiniteSet(T) /\ Cardinality(T) \in Nat
  BY <1>1, FS_Subset, FS_CardinalityType
<1>4. ASSUME NEW T \in SUBSET I, NEW U \in SUBSET T, T # U
      PROVE  Cardinality(U) < Cardinality(T)
  <2>1. IsFiniteSet(T) /\ Cardinality(T) \in Nat /\ Cardinality(U) \in Nat
    BY <1>3
  <2>2. Cardinality(U) <= Cardinality(T) /\ (Cardinality(T) = Cardinality(U) => T = U)
    BY <2>1, FS_Subset
  <2> QED
    BY <1>4, <2>1, <2>2
<1>5. ASSUME NEW i \in I PROVE Cardinality(Before(I, i)) \in 0..(N - 1)
  <2>1. Before(I, i) \in SUBSET I /\ Before(I, i) # I
    BY <1>2 DEF Before
  <2>2. Cardinality(Before(I, i)) < N /\ Cardinality(Before(I, i)) \in Nat
    BY <1>3, <1>4, <2>1
  <2> QED
    BY <1>1, <2>2
<1>6. ASSUME NEW i \in I, NEW j \in I, i < j
      PROVE  Cardinality(Before(I, i)) < Cardinality(Before(I, j))
  <2>1. Before(I, j) \in SUBSET I /\ i \in Before(I, j) /\ i \notin Before(I, i)
    BY <1>2, <1>6 DEF Before
  <2>2. ASSUME NEW x \in Before(I, i) PROVE x \in Before(I, j)
    <3>1. x \in I /\ x < i /\ x \in Int /\ i \in Int /\ j \in Int
      BY <1>2 DEF Before
    <3> QED
      BY <1>6, <3>1 DEF Before
  <2> QED
    BY <1>4, <2>1, <2>2
<1>7. \A i, j \in I : Cardinality(Before(I, i)) = Cardinality(Before(I, j)) => i = j
  <2>1. ASSUME NEW i \in I, NEW j \in I,
               Cardinality(Before(I, i)) = Cardinality(Before(I, j))
        PROVE  i = j
    <3>1. Cardinality(Before(I, i)) \in Int
      BY <1>5
    <3>2. ~(i < j) /\ ~(j < i)
      BY <1>6, <2>1, <3>1
    <3> QED
      BY <1>2, <3>2
  <2> QED
    BY <2>1
<1>8. r \in Surjection(I, 0..(N - 1))
  <2>1. r \in [I -> 0..(N - 1)]
    BY <1>5
  <2>2. r \in Injection(I, 0..(N - 1))
    BY <1>7, <2>1, Fun_IsInj
  <2>3. IsFiniteSet(0..(N - 1)) /\ Cardinality(0..(N - 1)) = N
    <3> HIDE DEF N
    <3> QED
      BY <1>1, FS_Interval
  <2> QED
    BY <2>2, <2>3, FS_Injection
<1>9. ASSUME NEW k \in 1..N
      PROVE  Nth(I, k) \in I /\ Cardinality(Before(I, Nth(I, k))) = k - 1
  <2>1. k - 1 \in 0..(N - 1)
    BY <1>1
  <2>2. PICK i \in I : r[i] = k - 1
    BY <1>8, <2>1 DEF Surjection
  <2>3. Cardinality({j \in I : j < i}) = k - 1
    BY <2>2 DEF Before
  <2> QED
    BY <2>3 DEF Nth, Before
<1>10. ASSUME NEW j \in 1..N, NEW k \in 1..N, j < k
       PROVE  Nth(I, j) < Nth(I, k)
  <2> DEFINE a == Nth(I, j)
             b == Nth(I, k)
  <2>1. a \in I /\ b \in I /\ Cardinality(Before(I, a)) = j - 1
        /\ Cardinality(Before(I, b)) = k - 1
    BY <1>9
  <2> HIDE DEF a, b
  <2>2. a # b /\ ~(b < a)
    BY <1>1, <1>6, <1>10, <2>1
  <2>3. a < b
    BY <1>2, <2>1, <2>2
  <2> QED
    BY <2>3 DEF a, b
<1>11. ASSUME NEW i \in I PROVE \E k \in 1..N : Nth(I, k) = i
  <2> DEFINE k == Cardinality(Before(I, i)) + 1
  <2>1. k \in 1..N /\ k - 1 = Cardinality(Before(I, i))
    BY <1>1, <1>5
  <2>2. Nth(I, k) \in I /\ Cardinality(Before(I, Nth(I, k))) = k - 1
    BY <1>9, <2>1
  <2>3. Nth(I, k) = i
    BY <1>7, <2>1, <2>2
  <2> QED
    BY <2>1, <2>3
<1> QED
  BY <1>1, <1>9, <1>10, <1>11

\* The chosen elements are those at the positions I, each once and in the
\* order they have in s.
LEMMA ChosenFacts ==
  ASSUME NEW S, NEW s \in Seq(S), NEW I \in SUBSET (1..Len(s))
  PROVE  /\ Chosen(s, I) \in Seq(S) /\ Cardinality(I) \in 0..Len(s)
         /\ Len(Chosen(s, I)) = Cardinality(I)
         /\ \A k \in 1..Cardinality(I) :
              Chosen(s, I)[k] = s[Nth(I, k)] /\ Nth(I, k) \in I
         /\ \A j, k \in 1..Cardinality(I) : j < k => Nth(I, j) < Nth(I, k)
         /\ \A i \in I : \E k \in 1..Cardinality(I) :
              Nth(I, k) = i /\ Chosen(s, I)[k] = s[i]
<1> DEFINE N == Cardinality(I)
           g == [k \in 1..N |-> Nth(I, k)]
<1>0. Len(s) \in Nat /\ \A i \in 1..Len(s) : s[i] \in S
  OBVIOUS
<1>1. /\ N \in 0..Len(s) /\ \A k \in 1..N : Nth(I, k) \in I
      /\ \A j, k \in 1..N : j < k => Nth(I, j) < Nth(I, k)
      /\ \A i \in I : \E k \in 1..N : Nth(I, k) = i
  BY <1>0, NthFacts
<1>2. N \in Nat
  BY <1>1
<1>3. Chosen(s, I) = [k \in 1..N |-> s[Nth(I, k)]]
  BY DEF Chosen
<1>4. \A k \in 1..N : s[Nth(I, k)] \in S
  BY <1>0, <1>1
<1> HIDE DEF N, g
<1>5. Chosen(s, I) \in Seq(S) /\ Len(Chosen(s, I)) = N
      /\ \A k \in 1..N : Chosen(s, I)[k] = s[Nth(I, k)]
  BY <1>2, <1>3, <1>4
<1> QED
  BY <1>1, <1>5 DEF N

\* A non-empty set of natural numbers with a bound has a largest element.
LEMMA MaxFacts ==
  ASSUME NEW N \in Nat, NEW S \in SUBSET (0..N), S # {}
  PROVE  Max(S) \in S /\ \A x \in S : x <= Max(S)
<1> DEFINE R == {n \in 0..N : N - n \in S}
<1>0. R \in SUBSET Nat
  OBVIOUS
<1>1. R # {}
  <2>1. PICK x \in S : TRUE
    OBVIOUS
  <2>2. N - x \in 0..N /\ N - (N - x) = x
    BY <2>1
  <2> QED
    BY <2>1, <2>2
<1>2. PICK n \in R : \A k \in R : n <= k
  <2> HIDE DEF R
  <2> QED
    BY <1>0, <1>1, SmallestNumber
<1>3. N - n \in S /\ N - n \in Int
  BY <1>2
<1>4. ASSUME NEW x \in S PROVE x <= N - n
  <2>1. N - x \in R /\ x \in Int /\ n \in Int
    OBVIOUS
  <2>2. n <= N - x
    BY <1>2, <2>1
  <2> QED
    BY <2>1, <2>2
<1>5. \E x \in S : \A y \in S : x >= y
  BY <1>3, <1>4
<1>6. Max(S) \in S /\ \A y \in S : Max(S) >= y
  BY <1>5 DEF Max
<1> QED
  BY <1>6

\* A set of natural numbers that is not empty has a smallest element, and Min
\* is it.
LEMMA MinFacts ==
  ASSUME NEW S \in SUBSET Nat, S # {}
  PROVE  Min(S) \in S /\ \A x \in S : Min(S) <= x
<1>1. \E x \in S : \A y \in S : x <= y
  BY SmallestNumber
<1> QED
  BY <1>1 DEF Min

\* The smaller one of two numbers.
LEMMA MinTwo ==
  ASSUME NEW a \in Nat, NEW b \in Nat
  PROVE  Min({a, b}) = IF a <= b THEN a ELSE b
<1>1. Min({a, b}) \in {a, b} /\ \A x \in {a, b} : Min({a, b}) <= x
  BY MinFacts
<1> QED
  BY <1>1

\* The greater one of two numbers.
LEMMA MaxTwo ==
  ASSUME NEW a \in Nat, NEW b \in Nat
  PROVE  Max({a, b}) = IF a <= b THEN b ELSE a
<1>1. {a, b} \in SUBSET (0..(a + b)) /\ a + b \in Nat
  OBVIOUS
<1>2. Max({a, b}) \in {a, b} /\ \A x \in {a, b} : x <= Max({a, b})
  BY <1>1, MaxFacts
<1> QED
  BY <1>2

-----------------------------------------------------------------------------
(* Literals, models and the fields of the solver.                          *)

\* Every literal has a negation, and a variable has exactly two literals.
LEMMA LitFacts ==
  \A l \in Lit :
    /\ l \in Int /\ l # 0 /\ -l \in Lit /\ -(-l) = l /\ -l # l
    /\ Abs(l) \in Var /\ Abs(-l) = Abs(l)
    /\ \A k \in Lit : Abs(k) = Abs(l) <=> k \in {l, -l}
<1>1. \A v \in Var : v \in Nat /\ v > 0
  BY VarAssumption
<1>2. ASSUME NEW l \in Lit
      PROVE  \E v \in Var : (l = v /\ Abs(l) = v) \/ (l = -v /\ Abs(l) = v)
  BY <1>1, SMT DEF Lit, Abs
<1>3. ASSUME NEW l \in Lit
      PROVE  /\ l \in Int /\ l # 0 /\ -l \in Lit /\ -(-l) = l /\ -l # l
             /\ Abs(l) \in Var /\ Abs(-l) = Abs(l) /\ l \in {Abs(l), -Abs(l)}
  BY <1>1, SMT DEF Lit, Abs
<1> QED
  BY <1>3, SMT DEF Abs

\* The variables are finitely many literals, and no clause is confused with
\* the mark of an external reason.
LEMMA VarFacts ==
  /\ IsFiniteSet(Var) /\ Var \subseteq Lit /\ Cardinality(Var) \in Nat
  /\ \A v \in Var : v \in Nat /\ v > 0 /\ v \in Lit /\ -v \in Lit /\ Abs(v) = v
                    /\ Abs(-v) = v
  /\ 0 \notin Lit /\ External \notin Clause /\ External # None
<1>1. \A v \in Var : v \in Nat /\ v > 0
  BY VarAssumption
<1>2. 0 \notin Lit
  BY <1>1, SMT DEF Lit
<1>3. IsFiniteSet(Var) /\ Cardinality(Var) \in Nat
  BY VarAssumption, FS_CardinalityType
<1> QED
  BY <1>1, <1>2, <1>3, SMT DEF Lit, Abs, External, Clause, None

\* In a model exactly one of a literal and its negation is true.
LEMMA TruFacts ==
  ASSUME NEW m, NEW l \in Lit
  PROVE  Tru(m, -l) <=> ~Tru(m, l)
  BY LitFacts, SMT DEF Tru

\* What an entry of the trail consists of.
LEMMA EntryFacts ==
  /\ \A e \in Entry : /\ e.lit \in Lit /\ e.level \in Nat
                      /\ e.reason \in Clause \cup {External}
                      /\ e = [lit |-> e.lit, level |-> e.level, reason |-> e.reason]
  /\ \A l \in Lit, n \in Nat, r \in Clause \cup {External} :
       /\ [lit |-> l, level |-> n, reason |-> r] \in Entry
       /\ [lit |-> l, level |-> n, reason |-> r].lit = l
       /\ [lit |-> l, level |-> n, reason |-> r].level = n
       /\ [lit |-> l, level |-> n, reason |-> r].reason = r
  BY SMT DEF Entry

\* The sets that the solver's lemmas and clauses are taken from.
LemmaSet == [lits : Clause, added : BOOLEAN, isReason : BOOLEAN]
ClauseSet == [lits : Clause, red : BOOLEAN]

\* The type of each field of the solver.
LEMMA CoreFields ==
  ASSUME NEW c \in Core
  PROVE  /\ c.chrono \in BOOLEAN /\ c.vars \in SUBSET Var
         /\ c.clauses \in SUBSET ClauseSet /\ c.trail \in Seq(Entry)
         /\ c.control \in Seq(Nat) /\ c.propagated \in Nat
         /\ c.notified \in Nat /\ c.conflict \in Clause
         /\ c.unsat \in BOOLEAN /\ c.newest \in Clause
         /\ c.extended \in BOOLEAN /\ c.model \in SUBSET Var
         /\ c.connected \in BOOLEAN /\ c.private \in BOOLEAN
         /\ c.observed \in SUBSET Var /\ c.frozen \in [Var -> Nat]
         /\ c.heard \in Seq(Seq(Lit)) /\ c.lemmas \in Seq(LemmaSet)
         /\ c.reasonOf \in [Lit -> Nat]
  BY SMT DEF Core, LemmaSet, ClauseSet

\* A solver is a record of these fields, and each is of its type.  The two are
\* kept apart so that the record can be proved to be one, field by field.
Fields == {"chrono", "vars", "clauses", "trail", "control", "propagated",
  "notified", "conflict", "unsat", "newest", "extended", "model",
  "connected", "private", "observed", "frozen", "heard", "lemmas", "reasonOf"}
IsState(d) == d = [f \in Fields |-> d[f]]

\* The type of each field of a solver that is a record.
FieldTypes(c) ==
  /\ c.chrono \in BOOLEAN /\ c.vars \in SUBSET Var
  /\ c.clauses \in SUBSET ClauseSet /\ c.trail \in Seq(Entry)
  /\ c.control \in Seq(Nat) /\ c.propagated \in Nat
  /\ c.notified \in Nat /\ c.conflict \in Clause
  /\ c.unsat \in BOOLEAN /\ c.newest \in Clause
  /\ c.extended \in BOOLEAN /\ c.model \in SUBSET Var
  /\ c.connected \in BOOLEAN /\ c.private \in BOOLEAN
  /\ c.observed \in SUBSET Var /\ c.frozen \in [Var -> Nat]
  /\ c.heard \in Seq(Seq(Lit)) /\ c.lemmas \in Seq(LemmaSet)
  /\ c.reasonOf \in [Lit -> Nat]

\* A solver is such a record,
LEMMA CoreState ==
  ASSUME NEW c \in Core
  PROVE  IsState(c) /\ FieldTypes(c)
<1>1. IsState(c)
  BY SMT DEF Core, Fields, IsState
<1> QED
  BY <1>1, CoreFields DEF FieldTypes

\* and such a record is a solver.
LEMMA StateCore ==
  ASSUME NEW c, IsState(c), FieldTypes(c)
  PROVE  c \in Core
<1>1. c = [f \in Fields |-> c[f]]
  BY DEF IsState
<1>2. c = [chrono |-> c.chrono, vars |-> c.vars, clauses |-> c.clauses,
   trail |-> c.trail, control |-> c.control, propagated |-> c.propagated,
   notified |-> c.notified, conflict |-> c.conflict, unsat |-> c.unsat,
   newest |-> c.newest, extended |-> c.extended, model |-> c.model,
   connected |-> c.connected, private |-> c.private, observed |-> c.observed,
   frozen |-> c.frozen, heard |-> c.heard, lemmas |-> c.lemmas,
   reasonOf |-> c.reasonOf]
  BY <1>1, SMT DEF Fields
<1> QED
  BY <1>2, SMT DEF FieldTypes, Core, LemmaSet, ClauseSet

\* To give a field another value does not change what fields there are.
LEMMA Puts ==
  \A c, x : IsState(c) =>
    /\ IsState([c EXCEPT !.chrono = x])
    /\ IsState([c EXCEPT !.vars = x])
    /\ IsState([c EXCEPT !.clauses = x])
    /\ IsState([c EXCEPT !.trail = x])
    /\ IsState([c EXCEPT !.control = x])
    /\ IsState([c EXCEPT !.propagated = x])
    /\ IsState([c EXCEPT !.notified = x])
    /\ IsState([c EXCEPT !.conflict = x])
    /\ IsState([c EXCEPT !.unsat = x])
    /\ IsState([c EXCEPT !.newest = x])
    /\ IsState([c EXCEPT !.extended = x])
    /\ IsState([c EXCEPT !.model = x])
    /\ IsState([c EXCEPT !.connected = x])
    /\ IsState([c EXCEPT !.private = x])
    /\ IsState([c EXCEPT !.observed = x])
    /\ IsState([c EXCEPT !.frozen = x])
    /\ IsState([c EXCEPT !.heard = x])
    /\ IsState([c EXCEPT !.lemmas = x])
    /\ IsState([c EXCEPT !.reasonOf = x])
<1> SUFFICES ASSUME NEW c, NEW x, IsState(c)
             PROVE
    /\ IsState([c EXCEPT !.chrono = x])
    /\ IsState([c EXCEPT !.vars = x])
    /\ IsState([c EXCEPT !.clauses = x])
    /\ IsState([c EXCEPT !.trail = x])
    /\ IsState([c EXCEPT !.control = x])
    /\ IsState([c EXCEPT !.propagated = x])
    /\ IsState([c EXCEPT !.notified = x])
    /\ IsState([c EXCEPT !.conflict = x])
    /\ IsState([c EXCEPT !.unsat = x])
    /\ IsState([c EXCEPT !.newest = x])
    /\ IsState([c EXCEPT !.extended = x])
    /\ IsState([c EXCEPT !.model = x])
    /\ IsState([c EXCEPT !.connected = x])
    /\ IsState([c EXCEPT !.private = x])
    /\ IsState([c EXCEPT !.observed = x])
    /\ IsState([c EXCEPT !.frozen = x])
    /\ IsState([c EXCEPT !.heard = x])
    /\ IsState([c EXCEPT !.lemmas = x])
    /\ IsState([c EXCEPT !.reasonOf = x])
  OBVIOUS
<1>1. IsState([c EXCEPT !.chrono = x])
  BY SMT DEF IsState, Fields
<1>2. IsState([c EXCEPT !.vars = x])
  BY SMT DEF IsState, Fields
<1>3. IsState([c EXCEPT !.clauses = x])
  BY SMT DEF IsState, Fields
<1>4. IsState([c EXCEPT !.trail = x])
  BY SMT DEF IsState, Fields
<1>5. IsState([c EXCEPT !.control = x])
  BY SMT DEF IsState, Fields
<1>6. IsState([c EXCEPT !.propagated = x])
  BY SMT DEF IsState, Fields
<1>7. IsState([c EXCEPT !.notified = x])
  BY SMT DEF IsState, Fields
<1>8. IsState([c EXCEPT !.conflict = x])
  BY SMT DEF IsState, Fields
<1>9. IsState([c EXCEPT !.unsat = x])
  BY SMT DEF IsState, Fields
<1>10. IsState([c EXCEPT !.newest = x])
  BY SMT DEF IsState, Fields
<1>11. IsState([c EXCEPT !.extended = x])
  BY SMT DEF IsState, Fields
<1>12. IsState([c EXCEPT !.model = x])
  BY SMT DEF IsState, Fields
<1>13. IsState([c EXCEPT !.connected = x])
  BY SMT DEF IsState, Fields
<1>14. IsState([c EXCEPT !.private = x])
  BY SMT DEF IsState, Fields
<1>15. IsState([c EXCEPT !.observed = x])
  BY SMT DEF IsState, Fields
<1>16. IsState([c EXCEPT !.frozen = x])
  BY SMT DEF IsState, Fields
<1>17. IsState([c EXCEPT !.heard = x])
  BY SMT DEF IsState, Fields
<1>18. IsState([c EXCEPT !.lemmas = x])
  BY SMT DEF IsState, Fields
<1>19. IsState([c EXCEPT !.reasonOf = x])
  BY SMT DEF IsState, Fields
<1> QED
  BY <1>1, <1>2, <1>3, <1>4, <1>5, <1>6, <1>7, <1>8, <1>9, <1>10, <1>11, <1>12, <1>13, <1>14, <1>15, <1>16, <1>17, <1>18, <1>19

-----------------------------------------------------------------------------
(* A trail that is cut back.                                               *)

\* The types of what a trail consists of.
LEMMA TrailTypes ==
  ASSUME NEW t \in Seq(Entry)
  PROVE  /\ Len(t) \in Nat /\ DOMAIN t = 1..Len(t)
         /\ \A i \in 1..Len(t) :
              /\ t[i] \in Entry /\ t[i].lit \in Lit /\ t[i].lit \in Int
              /\ t[i].level \in Nat /\ t[i].reason \in Clause \cup {External}
<1>1. Len(t) \in Nat /\ DOMAIN t = 1..Len(t) /\ \A i \in 1..Len(t) : t[i] \in Entry
  OBVIOUS
<1> QED
  BY <1>1, EntryFacts, LitFacts

\* The types of what the control stack consists of.
LEMMA ControlTypes ==
  ASSUME NEW k \in Seq(Nat)
  PROVE  /\ Len(k) \in Nat /\ DOMAIN k = 1..Len(k)
         /\ \A a \in 1..Len(k) : k[a] \in Nat
  OBVIOUS

\* The entries of t at the positions g, those up to level L, are s.
Selects(s, t, g, L, cut) ==
  /\ g \in [1..Len(s) -> 1..Len(t)]
  /\ \A i \in 1..Len(s) : s[i] = t[g[i]] /\ t[g[i]].level <= L
  /\ \A i, j \in 1..Len(s) : i < j => g[i] < g[j]
  /\ \A j \in 1..Len(t) : t[j].level <= L => \E i \in 1..Len(s) : g[i] = j
  /\ cut \in 0..Len(s) /\ \A i \in 1..cut : g[i] = i

\* The trail t is cut back to the level L: what stays is the part before the
\* cut, and behind it the literals of lower levels that came later.
CutArgs(t, k, L, cut, kept, s) ==
  /\ t \in Seq(Entry) /\ k \in Seq(Nat) /\ Staged(t, k) /\ L \in Nat /\ L < Len(k)
  /\ cut = k[L + 1]
  /\ kept = Chosen(t, {i \in cut + 1..Len(t) : t[i].level <= L})
  /\ s = SubSeq(t, 1, cut) \o kept

\* What the trail s is then: the entries of levels up to L, in the order of t.
CutSelected(t, L, cut, kept, s) ==
  /\ s \in Seq(Entry) /\ kept \in Seq(Entry) /\ cut \in 0..Len(t) /\ cut \in Nat
  /\ Len(s) = cut + Len(kept) /\ Len(kept) \in Nat
  /\ \E g : Selects(s, t, g, L, cut)

\* 'backtrack' keeps exactly the entries up to the level it goes to, and their
\* order.
LEMMA CutSelects ==
  ASSUME NEW t, NEW k, NEW L, NEW cut, NEW kept, NEW s,
         CutArgs(t, k, L, cut, kept, s)
  PROVE  CutSelected(t, L, cut, kept, s)
<1>a. /\ t \in Seq(Entry) /\ k \in Seq(Nat) /\ Staged(t, k) /\ L \in Nat /\ L < Len(k)
      /\ cut = k[L + 1]
      /\ kept = Chosen(t, {i \in cut + 1..Len(t) : t[i].level <= L})
      /\ s = SubSeq(t, 1, cut) \o kept
  BY DEF CutArgs
<1> USE <1>a
<1> DEFINE I == {i \in cut + 1..Len(t) : t[i].level <= L}
           N == Cardinality(I)
           g == [i \in 1..Len(s) |-> IF i <= cut THEN i ELSE Nth(I, i - cut)]
<1>0. /\ Len(t) \in Nat /\ DOMAIN t = 1..Len(t) /\ \A i \in 1..Len(t) : t[i] \in Entry
      /\ \A i \in 1..Len(t) : t[i].level \in Nat
  BY TrailTypes
<1>1. L + 1 \in DOMAIN k /\ cut \in 0..Len(t)
  BY ControlTypes DEF Staged
<1>2. I \in SUBSET (1..Len(t))
  BY <1>1
<1>3. /\ kept \in Seq(Entry) /\ N \in 0..Len(t) /\ Len(kept) = N
      /\ \A i \in 1..N : kept[i] = t[Nth(I, i)] /\ Nth(I, i) \in I
      /\ \A i, j \in 1..N : i < j => Nth(I, i) < Nth(I, j)
      /\ \A i \in I : \E j \in 1..N : Nth(I, j) = i
  <2>1. kept = Chosen(t, I)
    OBVIOUS
  <2> HIDE DEF I
  <2>2. /\ Chosen(t, I) \in Seq(Entry) /\ N \in 0..Len(t) /\ Len(Chosen(t, I)) = N
        /\ \A i \in 1..N : Chosen(t, I)[i] = t[Nth(I, i)] /\ Nth(I, i) \in I
        /\ \A i, j \in 1..N : i < j => Nth(I, i) < Nth(I, j)
        /\ \A i \in I : \E j \in 1..N : Nth(I, j) = i
    <3>1. /\ Chosen(t, I) \in Seq(Entry) /\ Cardinality(I) \in 0..Len(t)
          /\ Len(Chosen(t, I)) = Cardinality(I)
          /\ \A i \in 1..Cardinality(I) :
               Chosen(t, I)[i] = t[Nth(I, i)] /\ Nth(I, i) \in I
          /\ \A i, j \in 1..Cardinality(I) : i < j => Nth(I, i) < Nth(I, j)
          /\ \A i \in I : \E j \in 1..Cardinality(I) :
               Nth(I, j) = i /\ Chosen(t, I)[j] = t[i]
      BY <1>2, ChosenFacts, Zenon
    <3> QED
      BY <3>1, Zenon
  <2> QED
    BY <2>1, <2>2
<1> HIDE DEF N
<1>4. /\ SubSeq(t, 1, cut) \in Seq(Entry) /\ Len(SubSeq(t, 1, cut)) = cut
      /\ \A i \in 1..cut : SubSeq(t, 1, cut)[i] = t[i]
  BY <1>0, <1>1
<1>5. /\ s \in Seq(Entry) /\ Len(s) = cut + N
      /\ \A i \in 1..cut : s[i] = t[i]
      /\ \A i \in cut + 1..cut + N : s[i] = kept[i - cut]
  <2> HIDE DEF I
  <2>1. \A p, q \in Seq(Entry) :
          /\ p \o q \in Seq(Entry)
          /\ Len(p \o q) = Len(p) + Len(q)
          /\ \A i \in 1..Len(p) : (p \o q)[i] = p[i]
          /\ \A i \in Len(p) + 1..Len(p) + Len(q) : (p \o q)[i] = q[i - Len(p)]
    <3> HIDE DEF Entry
    <3> QED
      OBVIOUS
  <2>2. kept \in Seq(Entry) /\ Len(kept) = N
    BY <1>3
  <2> DEFINE p == SubSeq(t, 1, cut)
  <2>3. s = p \o kept
    OBVIOUS
  <2>4. p \in Seq(Entry) /\ Len(p) = cut /\ \A i \in 1..cut : p[i] = t[i]
    BY <1>4
  <2> HIDE DEF p
  <2>5. /\ p \o kept \in Seq(Entry)
        /\ Len(p \o kept) = Len(p) + Len(kept)
        /\ \A i \in 1..Len(p) : (p \o kept)[i] = p[i]
        /\ \A i \in Len(p) + 1..Len(p) + Len(kept) :
             (p \o kept)[i] = kept[i - Len(p)]
    BY <2>1, <2>2, <2>4, Zenon
  <2> QED
    BY <2>2, <2>3, <2>4, <2>5, Zenon
<1>6. \A i \in 1..Len(s) : g[i] \in 1..Len(t) /\ s[i] = t[g[i]] /\ t[g[i]].level <= L
  <2>1. ASSUME NEW i \in 1..Len(s), i <= cut
        PROVE  g[i] = i /\ i \in 1..Len(t) /\ s[i] = t[i] /\ t[i].level <= L
    <3>1. t[i].level < L + 1
      BY <1>0, <1>1, <2>1 DEF Staged
    <3> QED
      BY <1>0, <1>1, <1>5, <2>1, <3>1
  <2>2. ASSUME NEW i \in 1..Len(s), ~(i <= cut)
        PROVE  g[i] = Nth(I, i - cut) /\ g[i] \in I /\ s[i] = t[g[i]]
    <3>1. i \in cut + 1..cut + N /\ i - cut \in 1..N
      BY <1>1, <1>3, <1>5, <2>2
    <3>2. s[i] = t[Nth(I, i - cut)] /\ Nth(I, i - cut) \in I
      BY <1>3, <1>5, <3>1
    <3> QED
      BY <2>2, <3>2
  <2>3. \A i \in I : i \in 1..Len(t) /\ t[i].level <= L
    BY <1>2
  <2> HIDE DEF g
  <2>4. ASSUME NEW i \in 1..Len(s)
        PROVE  g[i] \in 1..Len(t) /\ s[i] = t[g[i]] /\ t[g[i]].level <= L
    <3> HIDE DEF I
    <3>1. CASE i <= cut
      BY <2>1, <3>1
    <3>2. CASE ~(i <= cut)
      <4>1. g[i] \in I /\ s[i] = t[g[i]]
        BY <2>2, <3>2
      <4> QED
        BY <2>3, <4>1
    <3> QED
      BY <3>1, <3>2
  <2> QED
    BY <2>4
<1>7. \A i, j \in 1..Len(s) : i < j => g[i] < g[j]
  <2>1. ASSUME NEW i \in 1..Len(s), NEW j \in 1..Len(s), i < j PROVE g[i] < g[j]
    <3>1. CASE j <= cut
      BY <1>1, <2>1, <3>1
    <3>2. CASE i <= cut /\ ~(j <= cut)
      <4>1. j - cut \in 1..N /\ g[j] = Nth(I, j - cut) /\ g[i] = i
        BY <1>1, <1>3, <1>5, <2>1, <3>2
      <4>2. Nth(I, j - cut) \in cut + 1..Len(t)
        BY <1>3, <4>1
      <4> QED
        BY <1>1, <3>2, <4>1, <4>2
    <3>3. CASE ~(i <= cut)
      <4>0. ~(j <= cut) /\ j - cut \in 1..N /\ i - cut \in 1..N /\ i - cut < j - cut
        <5> HIDE <1>a
        <5> HIDE DEF I
        <5>1. Len(s) = cut + N /\ N \in Nat /\ cut \in Nat
          BY <1>0, <1>1, <1>3, <1>5
        <5>2. i \in 1..cut + N /\ j \in 1..cut + N
          BY <2>1, <5>1
        <5> QED
          BY <2>1, <3>3, <5>1, <5>2
      <4>1. j - cut \in 1..N /\ i - cut \in 1..N /\ i - cut < j - cut
            /\ g[j] = Nth(I, j - cut) /\ g[i] = Nth(I, i - cut)
        BY <2>1, <3>3, <4>0
      <4> HIDE DEF I, g
      <4> QED
        BY <1>3, <4>0, <4>1
    <3> QED
      BY <3>1, <3>2, <3>3
  <2> QED
    BY <2>1
<1>8. ASSUME NEW j \in 1..Len(t), t[j].level <= L PROVE \E i \in 1..Len(s) : g[i] = j
  <2>1. CASE j <= cut
    <3>1. j \in 1..Len(s) /\ g[j] = j
      BY <1>1, <1>3, <1>5, <2>1
    <3> QED
      BY <3>1
  <2>2. CASE ~(j <= cut)
    <3>1. j \in I
      BY <1>1, <1>8, <2>2
    <3>2. PICK n \in 1..N : Nth(I, n) = j
      BY <1>3, <3>1
    <3>3. n + cut \in 1..Len(s) /\ ~(n + cut <= cut) /\ (n + cut) - cut = n
      BY <1>1, <1>3, <1>5
    <3>4. g[n + cut] = j
      BY <3>2, <3>3
    <3> QED
      BY <3>3, <3>4
  <2> QED
    BY <2>1, <2>2
<1>9. cut \in 0..Len(s) /\ \A i \in 1..cut : g[i] = i
  BY <1>1, <1>3, <1>5
<1>10. g \in [1..Len(s) -> 1..Len(t)]
  <2>1. \A i \in 1..Len(s) : g[i] \in 1..Len(t)
    BY <1>6
  <2>2. g = [i \in 1..Len(s) |-> g[i]]
    OBVIOUS
  <2> HIDE DEF g
  <2> QED
    BY <2>1, <2>2
<1>11. Selects(s, t, g, L, cut)
  <2> HIDE DEF g
  <2> QED
    BY <1>6, <1>7, <1>8, <1>9, <1>10 DEF Selects
<1>12. \E h : Selects(s, t, h, L, cut)
  <2> HIDE DEF g
  <2> QED
    BY <1>11
<1> HIDE <1>a
<1> HIDE DEF I
<1>13. cut \in Nat /\ N \in Nat
  BY <1>0, <1>1, <1>3
<1> QED
  BY <1>1, <1>3, <1>5, <1>12, <1>13 DEF CutSelected

\* The positions of s in t: g grows, meets every entry up to L, and leaves the
\* entries before the cut where they are.
SelFacts(s, t, g, L, cut) ==
  /\ \A i \in 1..Len(s) : g[i] \in 1..Len(t) /\ s[i] = t[g[i]]
                          /\ s[i].level <= L
  /\ \A i, j \in 1..Len(s) : i < j => g[i] < g[j]
  /\ \A i, j \in 1..Len(s) : g[i] = g[j] => i = j
  /\ \A i, j \in 1..Len(s) : g[i] < g[j] => i < j
  /\ \A j \in 1..Len(t) : t[j].level <= L => \E i \in 1..Len(s) : g[i] = j
  /\ Len(s) \in Nat /\ Len(t) \in Nat /\ cut \in 0..Len(s) /\ cut \in Nat
  /\ \A i \in 1..cut : g[i] = i /\ i \in 1..Len(s)
  /\ \A i \in 1..Len(s) : i > cut => g[i] > cut

\* These are the consequences of the selection.
LEMMA SelectsTypes ==
  ASSUME NEW s \in Seq(Entry), NEW t \in Seq(Entry), NEW g, NEW L \in Nat,
         NEW cut, Selects(s, t, g, L, cut)
  PROVE  SelFacts(s, t, g, L, cut)
<1>1. /\ \A i \in 1..Len(s) : g[i] \in 1..Len(t) /\ s[i] = t[g[i]]
                                 /\ s[i].level <= L
      /\ \A i, j \in 1..Len(s) : i < j => g[i] < g[j]
      /\ \A j \in 1..Len(t) : t[j].level <= L => \E i \in 1..Len(s) : g[i] = j
      /\ cut \in 0..Len(s) /\ \A i \in 1..cut : g[i] = i
  BY DEF Selects
<1>2. Len(s) \in Nat /\ Len(t) \in Nat /\ cut \in Nat
      /\ \A i \in 1..cut : i \in 1..Len(s)
  BY <1>1, TrailTypes
<1>3. \A i, j \in 1..Len(s) : g[i] \in Int /\ g[j] \in Int /\ i \in Int /\ j \in Int
  BY <1>1, <1>2
<1>4. \A i, j \in 1..Len(s) : (g[i] = g[j] => i = j) /\ (g[i] < g[j] => i < j)
  BY <1>1, <1>3
<1>5. ASSUME NEW i \in 1..Len(s), i > cut PROVE g[i] > cut
  <2>1. CASE cut = 0
    BY <1>1, <2>1
  <2>2. CASE cut > 0
    <3>1. cut \in 1..Len(s) /\ g[cut] = cut
      BY <1>1, <1>2, <2>2
    <3> QED
      BY <1>1, <1>3, <1>5, <3>1
  <2> QED
    BY <1>2, <2>1, <2>2
<1> QED
  BY <1>1, <1>2, <1>4, <1>5 DEF SelFacts

\* A trail that is cut back still has each variable at most once.
LEMMA SelDistinct ==
  ASSUME NEW s \in Seq(Entry), NEW t \in Seq(Entry), NEW g, NEW L \in Nat,
         NEW cut, Selects(s, t, g, L, cut), Distinct(t)
  PROVE  Distinct(s)
<1>1. DOMAIN s = 1..Len(s) /\ DOMAIN t = 1..Len(t)
  BY TrailTypes
<1> SUFFICES ASSUME NEW i \in 1..Len(s), NEW j \in 1..Len(s),
                    s[i].lit \in {s[j].lit, -s[j].lit}
             PROVE  i = j
  BY <1>1 DEF Distinct
<1>0. SelFacts(s, t, g, L, cut)
  BY SelectsTypes
<1>2. g[i] \in DOMAIN t /\ g[j] \in DOMAIN t /\ s[i] = t[g[i]] /\ s[j] = t[g[j]]
  BY <1>0, <1>1 DEF SelFacts
<1>3. g[i] = g[j]
  BY <1>2, Zenon DEF Distinct
<1> QED
  BY <1>0, <1>3 DEF SelFacts

\* The levels up to L begin where they began.
StagedCut(s, k, L, cut) ==
  /\ Staged(s, SubSeq(k, 1, L)) /\ SubSeq(k, 1, L) \in Seq(Nat)
  /\ Len(SubSeq(k, 1, L)) = L /\ DOMAIN SubSeq(k, 1, L) = 1..L
  /\ \A a \in 1..L : SubSeq(k, 1, L)[a] = k[a] /\ k[a] <= cut

\* The levels of a trail that is cut back still begin with their decisions,
\* and no entry is before the level it belongs to.
LEMMA SelStaged ==
  ASSUME NEW s \in Seq(Entry), NEW t \in Seq(Entry), NEW k \in Seq(Nat),
         NEW g, NEW L \in Nat, L < Len(k), NEW cut, cut = k[L + 1],
         Selects(s, t, g, L, cut), Staged(t, k)
  PROVE  StagedCut(s, k, L, cut)
<1>a. Selects(s, t, g, L, k[L + 1])
  OBVIOUS
<1> DEFINE h == SubSeq(k, 1, L)
<1>0. SelFacts(s, t, g, L, k[L + 1])
  BY <1>a, SelectsTypes
<1>1. /\ DOMAIN s = 1..Len(s) /\ DOMAIN t = 1..Len(t) /\ DOMAIN k = 1..Len(k)
      /\ Len(k) \in Nat /\ \A a \in 1..Len(k) : k[a] \in Nat
  BY TrailTypes, ControlTypes
<1>2. /\ h \in Seq(Nat) /\ Len(h) = L /\ DOMAIN h = 1..L
      /\ \A a \in 1..L : h[a] = k[a] /\ a \in 1..Len(k) /\ a < L + 1
  BY <1>1
<1>3. L + 1 \in 1..Len(k)
  BY <1>1
<1>4. /\ \A a, b \in 1..Len(k) : a <= b => k[a] <= k[b]
      /\ \A a \in 1..Len(k) : k[a] <= Len(t)
      /\ \A i \in 1..Len(t) :
           /\ t[i].level <= Len(k)
           /\ t[i].level = 0 => t[i].reason = None
           /\ t[i].reason = None /\ t[i].level > 0 => i = k[t[i].level] + 1
           /\ \A a \in 1..Len(k) : i <= k[a] => t[i].level < a
  BY <1>1 DEF Staged
<1> HIDE DEF h
<1>5. \A a \in 1..L : k[a] <= k[L + 1]
  BY <1>1, <1>2, <1>3, <1>4
<1>6. \A a, b \in 1..L : a <= b => h[a] <= h[b]
  BY <1>2, <1>4
<1>7. \A a \in 1..L : h[a] <= Len(s)
  <2>1. k[L + 1] <= Len(s)
    BY <1>0 DEF SelFacts
  <2> QED
    BY <1>0, <1>1, <1>2, <1>3, <1>5, <2>1 DEF SelFacts
<1>8. ASSUME NEW i \in 1..Len(s)
      PROVE  /\ s[i].level <= L
             /\ s[i].level = 0 => s[i].reason = None
             /\ s[i].reason = None /\ s[i].level > 0 => i = h[s[i].level] + 1
             /\ \A a \in 1..L : i <= h[a] => s[i].level < a
  <2>1. g[i] \in 1..Len(t) /\ s[i] = t[g[i]] /\ s[i].level <= L /\ s[i].level \in Nat
    BY <1>0, TrailTypes DEF SelFacts
  <2>2. s[i].level = 0 => s[i].reason = None
    BY <1>4, <2>1
  <2>3. ASSUME s[i].reason = None, s[i].level > 0 PROVE i = h[s[i].level] + 1
    <3>1. PICK a \in 1..L : a = s[i].level
      BY <2>1, <2>3
    <3>2. g[i] = k[a] + 1 /\ h[a] = k[a] /\ k[a] <= k[L + 1] /\ k[a] \in Nat
          /\ k[L + 1] \in Nat
      BY <1>1, <1>2, <1>3, <1>4, <1>5, <2>1, <2>3, <3>1
    <3>3. i \in Nat
      OBVIOUS
    <3>4. PICK C \in Nat : C = k[L + 1]
      BY <3>2
    <3>5. /\ \A n \in 1..C : g[n] = n
          /\ \A n \in 1..Len(s) : g[n] \in Int /\ (n > C => g[n] > C)
          /\ \A n, m \in 1..Len(s) : n < m => g[n] < g[m]
          /\ Len(s) \in Nat
      <4>1. \A n \in 1..Len(s) : g[n] \in 1..Len(t)
        BY <1>0 DEF SelFacts
      <4> QED
        BY <1>0, <3>4, <4>1 DEF SelFacts
    <3>6. g[i] = k[a] + 1 /\ k[a] <= C /\ k[a] \in Nat
      BY <3>2, <3>4
    <3>7. i = k[a] + 1
      <4>1. CASE i <= C
        <5>1. g[i] = i
          BY <3>3, <3>5, <4>1
        <5> QED
          BY <3>6, <5>1
      <4>2. CASE i = C + 1
        <5>1. g[i] > C
          BY <3>5, <4>2
        <5> QED
          BY <3>6, <4>2, <5>1
      <4>3. CASE i > C + 1
        <5>1. C + 1 \in 1..Len(s) /\ C + 1 < i /\ C + 1 > C
          BY <3>5, <4>3
        <5>2. g[C + 1] > C /\ g[C + 1] < g[i] /\ g[C + 1] \in Int
          BY <3>5, <5>1
        <5> QED
          BY <3>6, <5>2
      <4> QED
        BY <3>3, <4>1, <4>2, <4>3
    <3> QED
      BY <3>1, <3>2, <3>7
  <2>4. ASSUME NEW a \in 1..L, i <= h[a] PROVE s[i].level < a
    <3>1. i \in 1..k[L + 1] /\ h[a] = k[a]
      BY <1>1, <1>2, <1>3, <1>5, <2>4
    <3>2. g[i] = i
      BY <1>0, <3>1 DEF SelFacts
    <3>3. a \in 1..Len(k) /\ i <= k[a] /\ i \in 1..Len(t)
      BY <1>2, <2>1, <2>4, <3>1, <3>2
    <3> QED
      BY <1>4, <2>1, <3>2, <3>3
  <2> QED
    BY <2>1, <2>2, <2>3, <2>4
<1>9. Staged(s, h)
  BY <1>1, <1>2, <1>6, <1>7, <1>8, Zenon DEF Staged
<1> QED
  BY <1>2, <1>5, <1>9 DEF h, StagedCut

\* An entry that stays is justified by the same clause: the literals it rests
\* on are on levels not above its own, so they stay too, and stay before it.
LEMMA SelJustified ==
  ASSUME NEW s \in Seq(Entry), NEW t \in Seq(Entry), NEW g, NEW L \in Nat,
         NEW cut, Selects(s, t, g, L, cut), NEW i \in 1..Len(s), NEW cl,
         Justified(t, g[i], cl)
  PROVE  Justified(s, i, cl)
<1>0. SelFacts(s, t, g, L, cut)
  BY SelectsTypes
<1>1. g[i] \in 1..Len(t) /\ s[i] = t[g[i]] /\ s[i].level <= L /\ s[i].level \in Nat
      /\ g[i] \in Nat /\ i \in Nat /\ Len(t) \in Nat /\ Len(s) \in Nat
  BY <1>0, TrailTypes DEF SelFacts
<1>2. ASSUME NEW l \in cl \ {t[g[i]].lit} PROVE FalseBefore(s, i, l)
  <2>1. PICK j \in 1..g[i] - 1 : t[j].lit = -l /\ t[j].level <= t[g[i]].level
    BY DEF Justified, FalseBefore
  <2>2. j \in 1..Len(t) /\ t[j].level \in Nat /\ j < g[i]
    BY <1>1, <2>1, TrailTypes
  <2>3. t[j].level <= L
    BY <1>1, <2>1, <2>2
  <2>4. PICK n \in 1..Len(s) : g[n] = j
    BY <1>0, <2>2, <2>3 DEF SelFacts
  <2>5. n < i /\ s[n] = t[j]
    BY <1>0, <2>2, <2>4 DEF SelFacts
  <2>6. n \in 1..i - 1
    BY <1>1, <2>5
  <2> QED
    BY <1>1, <2>1, <2>5, <2>6 DEF FalseBefore
<1> QED
  BY <1>1, <1>2 DEF Justified

\* So reasons stay in order when the solver backtracks out of order,
LEMMA SelOrdered ==
  ASSUME NEW s \in Seq(Entry), NEW t \in Seq(Entry), NEW g, NEW L \in Nat,
         NEW cut, Selects(s, t, g, L, cut), Ordered(t)
  PROVE  Ordered(s)
<1>0. SelFacts(s, t, g, L, cut)
  BY SelectsTypes
<1>1. DOMAIN s = 1..Len(s) /\ DOMAIN t = 1..Len(t)
  BY TrailTypes
<1>2. ASSUME NEW i \in 1..Len(s), s[i].reason \notin {None, External}
      PROVE  Justified(s, i, s[i].reason)
  <2>1. g[i] \in 1..Len(t) /\ s[i] = t[g[i]]
    BY <1>0 DEF SelFacts
  <2>2. Justified(t, g[i], s[i].reason)
    BY <1>1, <1>2, <2>1, Zenon DEF Ordered
  <2> QED
    BY <2>2, SelJustified
<1> QED
  BY <1>1, <1>2 DEF Ordered

\* and so do the clauses that the propagator has for its propagations.
LEMMA SelLate ==
  ASSUME NEW s \in Seq(Entry), NEW t \in Seq(Entry), NEW g, NEW L \in Nat,
         NEW cut, Selects(s, t, g, L, cut),
         NEW con, NEW obs, NEW lem, NEW rea, LateOk(t, con, obs, lem, rea)
  PROVE  LateOk(s, con, obs, lem, rea)
<1>0. SelFacts(s, t, g, L, cut)
  BY SelectsTypes
<1>1. DOMAIN s = 1..Len(s) /\ DOMAIN t = 1..Len(t)
  BY TrailTypes
<1>2. ASSUME NEW i \in 1..Len(s), s[i].reason = External
      PROVE  /\ con /\ Abs(s[i].lit) \in obs /\ rea[s[i].lit] # 0
             /\ Justified(s, i, lem[rea[s[i].lit]].lits)
  <2>1. g[i] \in 1..Len(t) /\ s[i] = t[g[i]]
    BY <1>0 DEF SelFacts
  <2>2. con /\ Abs(s[i].lit) \in obs /\ rea[s[i].lit] # 0
        /\ Justified(t, g[i], lem[rea[s[i].lit]].lits)
    BY <1>1, <1>2, <2>1, Zenon DEF LateOk
  <2> QED
    BY <2>2, SelJustified
<1> QED
  BY <1>1, <1>2 DEF LateOk

\* Every literal of a low level stays, and no other.
LEMMA SelKeeps ==
  ASSUME NEW s \in Seq(Entry), NEW t \in Seq(Entry), NEW g, NEW L \in Nat,
         NEW cut, Selects(s, t, g, L, cut)
  PROVE  /\ \A e : (\E i \in DOMAIN s : s[i] = e)
                     <=> (\E i \in DOMAIN t : t[i] = e /\ e.level <= L)
         /\ Roots(s) = Roots(t)
<1>0. SelFacts(s, t, g, L, cut)
  BY SelectsTypes
<1>1. DOMAIN s = 1..Len(s) /\ DOMAIN t = 1..Len(t)
  BY TrailTypes
<1>2. ASSUME NEW i \in DOMAIN s
      PROVE  \E j \in DOMAIN t : t[j] = s[i] /\ s[i].level <= L
  BY <1>0, <1>1 DEF SelFacts
<1>3. ASSUME NEW j \in DOMAIN t, t[j].level <= L
      PROVE  \E i \in DOMAIN s : s[i] = t[j]
  <2>1. PICK i \in 1..Len(s) : g[i] = j
    BY <1>0, <1>1, <1>3 DEF SelFacts
  <2> QED
    BY <1>0, <1>1, <2>1 DEF SelFacts
<1>4. \A e : (\E i \in DOMAIN s : s[i] = e)
                     <=> (\E i \in DOMAIN t : t[i] = e /\ e.level <= L)
  BY <1>2, <1>3, Zenon
<1>5. \A l : l \in Roots(s) <=> l \in Roots(t)
  <2>1. ASSUME NEW l, l \in Roots(s) PROVE l \in Roots(t)
    <3>1. PICK i \in DOMAIN s : s[i].level = 0 /\ s[i].lit = l
      BY <2>1 DEF Roots
    <3>2. PICK j \in DOMAIN t : t[j] = s[i]
      BY <1>2
    <3> QED
      BY <3>1, <3>2, Zenon DEF Roots
  <2>2. ASSUME NEW l, l \in Roots(t) PROVE l \in Roots(s)
    <3>1. PICK j \in DOMAIN t : t[j].level = 0 /\ t[j].lit = l
      BY <2>2 DEF Roots
    <3>2. PICK i \in DOMAIN s : s[i] = t[j]
      BY <1>3, <3>1
    <3> QED
      BY <3>1, <3>2, Zenon DEF Roots
  <2> QED
    BY <2>1, <2>2
<1> QED
  BY <1>4, <1>5

-----------------------------------------------------------------------------
(* What the propagator hears.                                              *)

\* What no step of the search changes but the learning of a clause.
Same(c, d) ==
  /\ d.chrono = c.chrono /\ d.vars = c.vars /\ d.clauses = c.clauses
  /\ d.unsat = c.unsat /\ d.newest = c.newest /\ d.extended = c.extended
  /\ d.model = c.model /\ d.connected = c.connected /\ d.private = c.private
  /\ d.observed = c.observed /\ d.frozen = c.frozen /\ d.lemmas = c.lemmas
  /\ d.reasonOf = c.reasonOf

\* To be the same except for the trail and for what has been heard is
\* reflexive and transitive.
LEMMA SameFacts ==
  /\ \A c : Same(c, c)
  /\ \A c, d, e : Same(c, d) /\ Same(d, e) => Same(c, e)
  /\ \A c, d : Same(c, d) => (Listens(c) <=> Listens(d))
<1>1. \A c : Same(c, c)
  BY Zenon DEF Same
<1>2. ASSUME NEW c, NEW d, NEW e, Same(c, d), Same(d, e) PROVE Same(c, e)
  BY <1>2, Zenon DEF Same
<1>3. ASSUME NEW c, NEW d, Same(c, d) PROVE Listens(c) <=> Listens(d)
  BY <1>3, Zenon DEF Same, Listens
<1> QED
  BY <1>1, <1>2, <1>3, Zenon

\* The propagator has heard ls on its last level n, and nothing else.
ToldFacts(h, new, n, ls) ==
  /\ new \in Seq(Seq(Lit)) /\ Len(new) = n /\ n \in DOMAIN new
  /\ DOMAIN new = DOMAIN h /\ DOMAIN h = 1..n /\ n \in Nat
  /\ \A a \in DOMAIN h : a # n => new[a] = h[a]
  /\ DOMAIN new[n] = 1..Len(h[n]) + Len(ls) /\ DOMAIN h[n] = 1..Len(h[n])
  /\ Len(h[n]) \in Nat /\ Len(ls) \in Nat
  /\ \A x \in 1..Len(h[n]) : new[n][x] = h[n][x]
  /\ \A x \in 1..Len(ls) : new[n][Len(h[n]) + x] = ls[x]
  /\ \A x \in DOMAIN new[n] :
       \/ x \in DOMAIN h[n] /\ new[n][x] = h[n][x]
       \/ \E y \in 1..Len(ls) : x = Len(h[n]) + y /\ new[n][x] = ls[y]

\* A function on the first n numbers with values in T is a sequence over T.
LEMMA SeqIs ==
  ASSUME NEW T, NEW n \in Nat, NEW f, f = [a \in 1..n |-> f[a]],
         \A a \in 1..n : f[a] \in T
  PROVE  f \in Seq(T) /\ Len(f) = n /\ DOMAIN f = 1..n
<1>1. f \in [1..n -> T]
  BY Zenon
<1> QED
  BY <1>1

\* To change one element of a sequence leaves the others.
LEMMA SeqPut ==
  ASSUME NEW T, NEW h \in Seq(T), NEW n \in 1..Len(h), NEW r \in T
  PROVE  /\ [h EXCEPT ![n] = r] \in Seq(T) /\ Len([h EXCEPT ![n] = r]) = Len(h)
         /\ DOMAIN [h EXCEPT ![n] = r] = 1..Len(h) /\ DOMAIN h = 1..Len(h)
         /\ [h EXCEPT ![n] = r][n] = r
         /\ \A a \in 1..Len(h) : a # n => [h EXCEPT ![n] = r][a] = h[a]
  OBVIOUS

\* This is what Told does to the levels heard.
LEMMA ToldSeq ==
  ASSUME NEW h \in Seq(Seq(Lit)), NEW n, n = Len(h), n >= 1,
         NEW ls \in Seq(Lit), NEW new, new = [h EXCEPT ![n] = @ \o ls]
  PROVE  ToldFacts(h, new, n, ls)
<1>1. n \in Nat /\ DOMAIN h = 1..n /\ n \in DOMAIN h /\ \A a \in 1..n : h[a] \in Seq(Lit)
  <2> DEFINE T == Seq(Lit)
  <2>1. h \in Seq(T)
    OBVIOUS
  <2> HIDE DEF T
  <2>2. n \in Nat /\ DOMAIN h = 1..n /\ \A a \in 1..n : h[a] \in T
    BY <2>1
  <2> QED
    BY <2>2 DEF T
<1> DEFINE p == h[n]
           r == p \o ls
<1>2. p \in Seq(Lit)
  BY <1>1
<1>3. /\ r \in Seq(Lit) /\ DOMAIN r = 1..Len(p) + Len(ls) /\ DOMAIN p = 1..Len(p)
      /\ Len(p) \in Nat /\ Len(ls) \in Nat
      /\ \A x \in 1..Len(p) : r[x] = p[x]
      /\ \A x \in 1..Len(ls) : r[Len(p) + x] = ls[x]
  <2> HIDE DEF p
  <2> QED
    BY <1>2
<1>4. new = [h EXCEPT ![n] = r]
  OBVIOUS
<1> HIDE DEF r
<1>5. new \in Seq(Seq(Lit)) /\ Len(new) = n /\ DOMAIN new = DOMAIN h /\ new[n] = r
      /\ \A a \in DOMAIN h : a # n => new[a] = h[a]
  <2> DEFINE T == Seq(Lit)
  <2>1. h \in Seq(T) /\ r \in T
    BY <1>3
  <2> HIDE DEF T
  <2>2. new \in Seq(T) /\ Len(new) = n /\ DOMAIN new = DOMAIN h /\ new[n] = r
      /\ \A a \in DOMAIN h : a # n => new[a] = h[a]
    <3>1. n \in 1..Len(h)
      BY <1>1
    <3>2. [h EXCEPT ![n] = r] \in Seq(T) /\ Len([h EXCEPT ![n] = r]) = Len(h)
      BY <2>1, <3>1, SeqPut
    <3>3. DOMAIN [h EXCEPT ![n] = r] = 1..Len(h) /\ DOMAIN h = 1..Len(h)
         /\ [h EXCEPT ![n] = r][n] = r
         /\ \A a \in 1..Len(h) : a # n => [h EXCEPT ![n] = r][a] = h[a]
      BY <2>1, <3>1, SeqPut, Zenon
    <3> QED
      BY <1>1, <1>4, <3>2, <3>3, Zenon
  <2> QED
    BY <2>2 DEF T
<1>6. ASSUME NEW x \in DOMAIN r
      PROVE  \/ x \in DOMAIN p /\ r[x] = p[x]
             \/ \E y \in 1..Len(ls) : x = Len(p) + y /\ r[x] = ls[y]
  <2> HIDE DEF p
  <2>1. CASE x <= Len(p)
    BY <1>3, <1>6, <2>1
  <2>2. CASE ~(x <= Len(p))
    <3>1. x - Len(p) \in 1..Len(ls) /\ x = Len(p) + (x - Len(p))
      BY <1>3, <1>6, <2>2
    <3> QED
      BY <1>3, <3>1
  <2> QED
    BY <2>1, <2>2
<1> QED
  <2> HIDE DEF p
  <2>1. p = h[n] /\ new[n] = r
    BY <1>5 DEF p
  <2>2. DOMAIN new[n] = 1..Len(h[n]) + Len(ls) /\ DOMAIN h[n] = 1..Len(h[n])
    BY <1>3, <2>1
  <2>3. /\ \A x \in 1..Len(h[n]) : new[n][x] = h[n][x]
        /\ \A x \in 1..Len(ls) : new[n][Len(h[n]) + x] = ls[x]
        /\ Len(h[n]) \in Nat /\ Len(ls) \in Nat
    BY <1>3, <2>1
  <2>4. \A x \in DOMAIN new[n] :
             \/ x \in DOMAIN h[n] /\ new[n][x] = h[n][x]
             \/ \E y \in 1..Len(ls) : x = Len(h[n]) + y /\ new[n][x] = ls[y]
    BY <1>6, <2>1, Zenon
  <2> QED
    BY <1>1, <1>5, <2>2, <2>3, <2>4 DEF ToldFacts

\* The literals at the positions I of the trail.
ChosenL(t, I, ls) ==
  /\ ls \in Seq(Lit) /\ Len(ls) \in Nat
  /\ \A x \in 1..Len(ls) : Nth(I, x) \in I /\ ls[x] = t[Nth(I, x)].lit
  /\ \A x, y \in 1..Len(ls) : Nth(I, x) = Nth(I, y) => x = y
  /\ \A i \in I : \E x \in 1..Len(ls) : Nth(I, x) = i /\ ls[x] = t[i].lit

\* The literals at some positions of the trail.
LEMMA ChosenLits ==
  ASSUME NEW c, c.trail \in Seq(Entry), NEW I \in SUBSET (1..Len(c.trail)),
         NEW ls, ls = Chosen(LitSeq(c), I)
  PROVE  ChosenL(c.trail, I, ls)
<1> DEFINE t == c.trail
           q == LitSeq(c)
<1>1. Len(t) \in Nat /\ DOMAIN t = 1..Len(t) /\ \A i \in 1..Len(t) : t[i].lit \in Lit
  BY TrailTypes
<1>2. q \in Seq(Lit) /\ Len(q) = Len(t) /\ \A i \in 1..Len(t) : q[i] = t[i].lit
  <2>1. q = [i \in 1..Len(t) |-> t[i].lit]
    BY <1>1 DEF LitSeq
  <2> HIDE DEF q, t
  <2> QED
    BY <1>1, <2>1
<1>3. I \in SUBSET (1..Len(q))
  BY <1>2
<1> HIDE DEF q, t
<1>4.    /\ Chosen(q, I) \in Seq(Lit) /\ Cardinality(I) \in 0..Len(q)
         /\ Len(Chosen(q, I)) = Cardinality(I)
         /\ \A k \in 1..Cardinality(I) :
              Chosen(q, I)[k] = q[Nth(I, k)] /\ Nth(I, k) \in I
         /\ \A j, k \in 1..Cardinality(I) : j < k => Nth(I, j) < Nth(I, k)
         /\ \A i \in I : \E k \in 1..Cardinality(I) :
              Nth(I, k) = i /\ Chosen(q, I)[k] = q[i]
  BY <1>2, <1>3, ChosenFacts, Zenon
<1>5. ls = Chosen(q, I)
  BY DEF q
<1>6. Len(ls) = Cardinality(I) /\ ls \in Seq(Lit) /\ Len(ls) \in Nat
  BY <1>4, <1>5, <1>1, <1>2
<1>7. \A x \in 1..Len(ls) : Nth(I, x) \in I /\ Nth(I, x) \in Int
                            /\ ls[x] = t[Nth(I, x)].lit
  BY <1>1, <1>2, <1>3, <1>4, <1>5, <1>6
<1>8. ASSUME NEW x \in 1..Len(ls), NEW y \in 1..Len(ls), Nth(I, x) = Nth(I, y)
      PROVE  x = y
  <2>1. x \in Int /\ y \in Int
    BY <1>6
  <2>2. ~(x < y) /\ ~(y < x)
    BY <1>4, <1>6, <1>7, <1>8
  <2> QED
    BY <2>1, <2>2
<1>9. \A i \in I : \E x \in 1..Len(ls) : Nth(I, x) = i /\ ls[x] = t[i].lit
  <2>1. \A i \in I : q[i] = t[i].lit
    BY <1>2, <1>3
  <2> QED
    BY <1>4, <1>5, <1>6, <2>1, Zenon
<1> QED
  BY <1>6, <1>7, <1>8, <1>9 DEF t, ChosenL

\* The parts of Struct, and the types they imply.
LEMMA StructFields ==
  ASSUME NEW c, Struct(c)
  PROVE  /\ c \in Core /\ IsState(c) /\ FieldTypes(c)
         /\ Distinct(c.trail) /\ Staged(c.trail, c.control) /\ Known(c)
         /\ c.trail \in Seq(Entry) /\ c.control \in Seq(Nat)
         /\ c.heard \in Seq(Seq(Lit)) /\ Len(c.heard) >= 1
         /\ Len(c.trail) \in Nat /\ DOMAIN c.trail = 1..Len(c.trail)
         /\ Level(c) \in Nat /\ Level(c) = Len(c.control)
         /\ DOMAIN c.control = 1..Level(c) /\ \A a \in 1..Level(c) : c.control[a] \in Nat
         /\ c.propagated \in Nat /\ c.propagated <= Len(c.trail)
         /\ c.notified \in Nat /\ c.notified <= Len(c.trail)
         /\ Len(c.heard) \in Nat
<1>1. c \in Core /\ Distinct(c.trail) /\ Staged(c.trail, c.control) /\ Known(c)
      /\ Len(c.heard) = IF Listens(c) THEN Level(c) + 1 ELSE 1
  BY DEF Struct
<1>2. IsState(c) /\ FieldTypes(c)
  BY <1>1, CoreState
<1>3. /\ c.trail \in Seq(Entry) /\ c.control \in Seq(Nat)
      /\ c.heard \in Seq(Seq(Lit)) /\ c.propagated \in Nat /\ c.notified \in Nat
  BY <1>2 DEF FieldTypes
<1>4. Level(c) \in Nat /\ Level(c) = Len(c.control)
         /\ DOMAIN c.control = 1..Level(c) /\ \A a \in 1..Level(c) : c.control[a] \in Nat
  BY <1>3, ControlTypes DEF Level
<1>5. c.propagated <= Len(c.trail) /\ c.notified <= Len(c.trail)
  BY <1>1 DEF Known
<1>6. Len(c.heard) >= 1 /\ Len(c.heard) \in Nat
  BY <1>1, <1>4
<1> QED
  BY <1>1, <1>2, <1>3, <1>4, <1>5, <1>6, TrailTypes

\* What 'notify_assignments' tells: the observed literals the propagator has
\* not heard.
NotifiedNew(c) == {i \in c.notified + 1..Len(c.trail) : IsObserved(c, i)}

\* The literals that 'notify_assignments' tells.
NotifiedLits(c) == Chosen(LitSeq(c), NotifiedNew(c))

\* What 'notify_assignments' changes.
LEMMA NotifiedFields ==
  ASSUME NEW c, Struct(c), Listens(c), c.notified < Len(c.trail)
  PROVE  LET d == Notified(c) IN
         /\ d \in Core /\ Same(c, d)
         /\ d.trail = c.trail /\ d.control = c.control /\ d.conflict = c.conflict
         /\ d.propagated = c.propagated /\ d.notified = Len(c.trail)
         /\ ToldFacts(c.heard, d.heard, Len(c.heard), NotifiedLits(c))
         /\ NotifiedLits(c) \in Seq(Lit)
         /\ NotifiedNew(c) \in SUBSET (1..Len(c.trail))
<1> DEFINE ls == NotifiedLits(c)
           n == Len(c.heard)
           h == [c.heard EXCEPT ![n] = @ \o ls]
           d == [[c EXCEPT !.heard = h] EXCEPT !.notified = Len(c.trail)]
<1>1. NotifiedNew(c) \in SUBSET (1..Len(c.trail))
  BY StructFields DEF NotifiedNew
<1>2. ls \in Seq(Lit)
  <2>1. ChosenL(c.trail, NotifiedNew(c), ls)
    BY <1>1, ChosenLits, StructFields DEF NotifiedLits
  <2> QED
    BY <2>1 DEF ChosenL
<1>3. Notified(c) = d
  BY StructFields DEF Notified, Told, NotifiedLits, NotifiedNew
<1> HIDE DEF ls
<1>4. ToldFacts(c.heard, h, n, ls)
  BY <1>2, ToldSeq, StructFields
<1>5. h \in Seq(Seq(Lit))
  BY <1>4 DEF ToldFacts
<1> HIDE DEF h
<1>6. IsState(c) /\ FieldTypes(c) /\ Len(c.trail) \in Nat
  BY StructFields
<1>7. IsState(d)
  BY <1>6, Puts
<1>8. /\ Same(c, d) /\ FieldTypes(d) /\ d.heard = h
      /\ d.trail = c.trail /\ d.control = c.control /\ d.conflict = c.conflict
      /\ d.propagated = c.propagated /\ d.notified = Len(c.trail)
  BY <1>5, <1>6, SMT DEF IsState, FieldTypes, Fields, Same
<1> HIDE DEF d
<1>9. d \in Core
  BY <1>7, <1>8, StateCore
<1> QED
  BY <1>1, <1>2, <1>3, <1>4, <1>8, <1>9 DEF ls, n

\* 'notify_assignments' changes only what the propagator has heard, and
\* afterwards it knows the whole trail.
LEMMA NotifiedStruct ==
  ASSUME NEW c, Struct(c), NEW d, d = Notified(c)
  PROVE  /\ Struct(d) /\ Same(c, d) /\ d.trail = c.trail /\ d.control = c.control
         /\ d.conflict = c.conflict /\ d.propagated = c.propagated
         /\ ~Listens(c) => d = c
         /\ Listens(c) => d.notified = Len(d.trail)
<1>1. CASE ~Listens(c) \/ c.notified >= Len(c.trail)
  <2>1. d = c
    BY <1>1 DEF Notified
  <2>2. Listens(c) => c.notified = Len(c.trail)
    BY <1>1, StructFields
  <2> QED
    BY <2>1, <2>2, SameFacts
<1>2. CASE Listens(c) /\ ~(c.notified >= Len(c.trail))
  <2>0. Listens(c) /\ c.notified < Len(c.trail)
    BY <1>2, StructFields
  <2>1. /\ d \in Core /\ Same(c, d)
         /\ d.trail = c.trail /\ d.control = c.control /\ d.conflict = c.conflict
         /\ d.propagated = c.propagated /\ d.notified = Len(c.trail)
         /\ ToldFacts(c.heard, d.heard, Len(c.heard), NotifiedLits(c))
    BY <2>0, NotifiedFields
  <2>2. Len(d.heard) = Len(c.heard) /\ Listens(d) /\ Level(d) = Level(c)
    BY <2>0, <2>1, SameFacts DEF ToldFacts, Level
  <2>3. Known(d)
    <3>1. Known(c) /\ Len(c.trail) \in Nat
      BY StructFields
    <3> QED
      BY <2>1, <3>1 DEF Known, Same
  <2>4. Struct(d)
    <3>1. d.connected
      BY <2>2 DEF Listens
    <3>2. Len(c.heard) = Level(c) + 1 /\ Distinct(c.trail) /\ Staged(c.trail, c.control)
      BY <2>0 DEF Struct
    <3> QED
      BY <2>1, <2>2, <2>3, <3>1, <3>2 DEF Struct
  <2> QED
    BY <2>0, <2>1, <2>4
<1> QED
  BY <1>1, <1>2

\* Everything it has heard is true then, and the part of the trail it was told
\* of it has heard, as before.
LEMMA NotifiedHears ==
  ASSUME NEW c, Struct(c), NEW d, d = Notified(c), NEW O \in SUBSET c.observed,
         Hearing(c, O)
  PROVE  Hearing(d, O)
<1>1. CASE ~Listens(c) \/ c.notified >= Len(c.trail)
  BY <1>1 DEF Notified
<1>2. CASE Listens(c) /\ ~(c.notified >= Len(c.trail))
  <2>0. Listens(c) /\ c.notified < Len(c.trail)
    BY <1>2, StructFields
  <2> DEFINE ls == NotifiedLits(c)
             I == NotifiedNew(c)
             n == Len(c.heard)
             t == c.trail
             k == c.control
             h == c.heard
             g == d.heard
  <2>1. /\ Same(c, d) /\ d.trail = t /\ d.control = k /\ d.notified = Len(t)
        /\ ToldFacts(h, g, n, ls) /\ I \in SUBSET (1..Len(t)) /\ ls \in Seq(Lit)
    BY <2>0, NotifiedFields
  <2>2. /\ n = Level(c) + 1 /\ DOMAIN t = 1..Len(t) /\ DOMAIN k = 1..Level(c)
        /\ Level(c) \in Nat /\ t \in Seq(Entry) /\ Len(t) \in Nat
        /\ Staged(t, k) /\ c.notified \in Nat
    BY <2>0, StructFields DEF Struct
  <2>3. /\ \A x \in 1..Len(ls) : Nth(I, x) \in I /\ ls[x] = t[Nth(I, x)].lit
        /\ \A i \in I : \E x \in 1..Len(ls) : Nth(I, x) = i /\ ls[x] = t[i].lit
    <3>1. ChosenL(t, I, ls)
      BY <2>1, <2>2, ChosenLits DEF NotifiedLits
    <3> QED
      BY <3>1 DEF ChosenL
  <2>4. /\ \A a \in DOMAIN h : \A x \in DOMAIN h[a] :
            \E i \in DOMAIN t : t[i].lit = h[a][x] /\ t[i].level < a
        /\ HeardAll(t, k, h, c.notified, O)
        /\ \A b \in DOMAIN k : k[b] <= c.notified
    BY <2>0 DEF Hearing, HeardTrue
  <2>5. \A i \in 1..Len(t) : t[i].level <= Level(c)
    BY <2>2 DEF Staged, Level
  <2> HIDE DEF ls, I, t, k, h, g, n
  <2>6. /\ DOMAIN g = DOMAIN h /\ DOMAIN h = 1..n /\ n \in Nat /\ n \in DOMAIN g
        /\ \A a \in DOMAIN h : a # n => g[a] = h[a]
        /\ Len(h[n]) \in Nat /\ DOMAIN h[n] = 1..Len(h[n])
        /\ Len(ls) \in Nat /\ DOMAIN g[n] = 1..Len(h[n]) + Len(ls)
        /\ \A x \in 1..Len(h[n]) : g[n][x] = h[n][x]
        /\ \A x \in 1..Len(ls) : g[n][Len(h[n]) + x] = ls[x]
        /\ \A x \in DOMAIN g[n] :
            \/ x \in DOMAIN h[n] /\ g[n][x] = h[n][x]
            \/ \E y \in 1..Len(ls) : x = Len(h[n]) + y /\ g[n][x] = ls[y]
    BY <2>1 DEF ToldFacts
  <2>7. ASSUME NEW a \in DOMAIN g, NEW x \in DOMAIN g[a]
        PROVE  \E i \in DOMAIN t : t[i].lit = g[a][x] /\ t[i].level < a
    <3>1. CASE a \in DOMAIN h /\ x \in DOMAIN h[a] /\ g[a][x] = h[a][x]
      BY <2>4, <3>1, Zenon
    <3>2. CASE a = n /\ \E y \in 1..Len(ls) : g[a][x] = ls[y]
      <4>1. PICK y \in 1..Len(ls) : g[a][x] = ls[y]
        BY <3>2
      <4>2. Nth(I, y) \in 1..Len(t) /\ t[Nth(I, y)].lit = g[a][x]
        BY <2>1, <2>3, <4>1
      <4>3. t[Nth(I, y)].level < a
        <5>1. t[Nth(I, y)].level \in Nat
          BY <2>2, <4>2, TrailTypes
        <5> QED
          BY <2>2, <2>5, <3>2, <4>2, <5>1
      <4> QED
        BY <2>2, <4>2, <4>3
    <3> QED
      BY <2>6, <3>1, <3>2
  <2>8. \A a \in DOMAIN h : \A x \in DOMAIN h[a] :
          a \in DOMAIN g /\ x \in DOMAIN g[a] /\ g[a][x] = h[a][x]
    <3>1. ASSUME NEW x \in DOMAIN h[n]
          PROVE  n \in DOMAIN g /\ x \in DOMAIN g[n] /\ g[n][x] = h[n][x]
      BY <2>6
    <3>2. ASSUME NEW a \in DOMAIN h, a # n, NEW x \in DOMAIN h[a]
          PROVE  a \in DOMAIN g /\ x \in DOMAIN g[a] /\ g[a][x] = h[a][x]
      BY <2>6, <3>2, Zenon
    <3> QED
      BY <3>1, <3>2, Zenon
  <2>9. ASSUME NEW j \in 1..Len(t), Abs(t[j].lit) \in O
        PROVE  ToldFor(t, k, g, j)
    <3>1. CASE j <= c.notified
      <4>1. ToldFor(t, k, h, j)
        BY <2>4, <2>9, <2>2, <3>1 DEF HeardAll
      <4>2. PICK a \in DOMAIN h : \E x \in DOMAIN h[a] :
              h[a][x] = t[j].lit /\ \A b \in DOMAIN k : j <= k[b] => a <= b
        BY <4>1, Zenon DEF ToldFor
      <4> QED
        BY <2>8, <4>2, Zenon DEF ToldFor
    <3>2. CASE ~(j <= c.notified)
      <4>1. j \in c.notified + 1..Len(t)
        BY <2>2, <3>2
      <4>2. IsObserved(c, j)
        BY <2>9 DEF IsObserved, t
      <4>3. j \in I
        BY <4>1, <4>2 DEF I, NotifiedNew, t
      <4>4. PICK y \in 1..Len(ls) : ls[y] = t[j].lit
        BY <2>3, <4>3
      <4>5. Len(h[n]) + y \in DOMAIN g[n] /\ g[n][Len(h[n]) + y] = t[j].lit
        BY <2>6, <4>4
      <4>6. ASSUME NEW b \in DOMAIN k, j <= k[b] PROVE n <= b
        <5>1. k[b] \in Nat /\ k[b] <= c.notified
          BY <2>2, <2>4, StructFields DEF k
        <5> QED
          BY <2>2, <3>2, <4>6, <5>1
      <4> QED
        BY <2>6, <4>5, <4>6, Zenon DEF ToldFor
    <3> QED
      BY <3>1, <3>2
  <2>10. HeardAll(t, k, g, Len(t), O)
    BY <2>9 DEF HeardAll
  <2>11. \A b \in DOMAIN k : k[b] <= Len(t)
    BY <2>2 DEF Staged
  <2>12. HeardTrue(t, g)
    BY <2>7, Zenon DEF HeardTrue
  <2> QED
    BY <2>1, <2>10, <2>11, <2>12 DEF Hearing, t, k, g
<1> QED
  BY <1>1, <1>2

\* Once, for the parts of a state it speaks of.
OnceIn(t, k, h, notified) ==
  \A a \in DOMAIN h : \A x \in DOMAIN h[a] : \A j \in DOMAIN t :
    h[a][x] = t[j].lit /\ t[j].level > 0 =>
      /\ j <= notified
      /\ \A b \in DOMAIN k : a <= b => j <= k[b]
      /\ \A a2 \in DOMAIN h : \A y \in DOMAIN h[a2] :
           h[a2][y] = t[j].lit => a2 = a /\ y = x

\* Once depends on nothing but these parts of the solver.
LEMMA OnceIs ==
  ASSUME NEW c PROVE Once(c) <=> OnceIn(c.trail, c.control, c.heard, c.notified)
  BY Zenon DEF Once, OnceIn

\* A literal is on the trail at one position at most.
LEMMA SameLit ==
  ASSUME NEW t \in Seq(Entry), Distinct(t), NEW i \in DOMAIN t, NEW j \in DOMAIN t,
         t[i].lit = t[j].lit
  PROVE  i = j
  BY Zenon DEF Distinct

\* 'notify_assignments' tells no literal a second time that is not fixed.
LEMMA NotifiedOnce ==
  ASSUME NEW c, Struct(c), NEW d, d = Notified(c), Once(c)
  PROVE  Once(d)
<1>1. CASE ~Listens(c) \/ c.notified >= Len(c.trail)
  BY <1>1 DEF Notified
<1>2. CASE Listens(c) /\ ~(c.notified >= Len(c.trail))
  <2>0. Listens(c) /\ c.notified < Len(c.trail)
    BY <1>2, StructFields
  <2> DEFINE ls == NotifiedLits(c)
             I == NotifiedNew(c)
             n == Len(c.heard)
             t == c.trail
             k == c.control
             h == c.heard
             g == d.heard
             N == c.notified
  <2>1. /\ Same(c, d) /\ d.trail = t /\ d.control = k /\ d.notified = Len(t)
        /\ ToldFacts(h, g, n, ls) /\ I \in SUBSET (1..Len(t)) /\ ls \in Seq(Lit)
    BY <2>0, NotifiedFields
  <2>2. /\ n = Level(c) + 1 /\ DOMAIN t = 1..Len(t) /\ DOMAIN k = 1..Level(c)
        /\ Level(c) \in Nat /\ t \in Seq(Entry) /\ Len(t) \in Nat
        /\ Distinct(t) /\ N \in Nat
    BY <2>0, StructFields DEF Struct
  <2>3. ChosenL(t, I, ls)
    BY <2>1, <2>2, ChosenLits DEF NotifiedLits
  <2>4. \A i \in I : i \in Nat /\ i > N
    BY <2>2 DEF NotifiedNew
  <2>5. OnceIn(t, k, h, N)
    BY OnceIs
  <2> HIDE DEF ls, I, t, k, h, g, n, N
  <2>6. /\ DOMAIN g = DOMAIN h /\ DOMAIN h = 1..n /\ n \in Nat /\ n \in DOMAIN g
        /\ \A a \in DOMAIN h : a # n => g[a] = h[a]
        /\ Len(h[n]) \in Nat /\ Len(ls) \in Nat
        /\ \A x \in DOMAIN g[n] :
            \/ x \in DOMAIN h[n] /\ g[n][x] = h[n][x]
            \/ \E y \in 1..Len(ls) : x = Len(h[n]) + y /\ g[n][x] = ls[y]
    BY <2>1 DEF ToldFacts
  <2> DEFINE Old(a, x) == a \in DOMAIN h /\ x \in DOMAIN h[a] /\ g[a][x] = h[a][x]
             New(a, x) == a = n /\ \E y \in 1..Len(ls) :
                                      x = Len(h[n]) + y /\ g[n][x] = ls[y]
  <2> HIDE DEF Old, New
  <2>7. \A a \in DOMAIN g : \A x \in DOMAIN g[a] : Old(a, x) \/ New(a, x)
    BY <2>6, Zenon DEF Old, New
  <2>8. ASSUME NEW a, NEW x, Old(a, x), NEW j \in DOMAIN t, g[a][x] = t[j].lit,
               t[j].level > 0
        PROVE  /\ j <= N /\ \A b \in DOMAIN k : a <= b => j <= k[b]
               /\ \A a2, y : Old(a2, y) /\ g[a2][y] = t[j].lit => a2 = a /\ y = x
    <3>1. a \in DOMAIN h /\ x \in DOMAIN h[a] /\ h[a][x] = t[j].lit
      BY <2>8, Zenon DEF Old
    <3>2. /\ j <= N
          /\ \A b \in DOMAIN k : a <= b => j <= k[b]
          /\ \A a2 \in DOMAIN h : \A y \in DOMAIN h[a2] :
               h[a2][y] = t[j].lit => a2 = a /\ y = x
      BY <2>5, <2>8, <3>1, Zenon DEF OnceIn
    <3> QED
      BY <3>2, Zenon DEF Old
  <2>9. ASSUME NEW a, NEW x, New(a, x), NEW j \in DOMAIN t, g[a][x] = t[j].lit
        PROVE  \E y \in 1..Len(ls) : x = Len(h[n]) + y /\ Nth(I, y) = j /\ j \in I
    <3>1. PICK y \in 1..Len(ls) : x = Len(h[n]) + y /\ g[n][x] = ls[y]
      BY <2>9 DEF New
    <3>2. Nth(I, y) \in I /\ t[Nth(I, y)].lit = t[j].lit
      BY <2>3, <2>9, <3>1 DEF ChosenL, New
    <3>3. Nth(I, y) = j
      BY <2>1, <2>2, <3>2, SameLit
    <3> QED
      BY <3>1, <3>2, <3>3
  <2>10. ASSUME NEW a, NEW x, New(a, x), NEW j \in DOMAIN t, g[a][x] = t[j].lit
         PROVE  /\ j <= Len(t) /\ \A b \in DOMAIN k : a <= b => j <= k[b]
                /\ \A a2, y : New(a2, y) /\ g[a2][y] = t[j].lit => a2 = a /\ y = x
                /\ j > N /\ j \in Nat
    <3>1. PICK y \in 1..Len(ls) : x = Len(h[n]) + y /\ Nth(I, y) = j /\ j \in I
      BY <2>9, <2>10
    <3>2. \A b \in DOMAIN k : ~(a <= b)
      BY <2>2, <2>10 DEF New
    <3>3. ASSUME NEW a2, NEW x2, New(a2, x2), g[a2][x2] = t[j].lit
          PROVE  a2 = a /\ x2 = x
      <4>1. PICK y2 \in 1..Len(ls) : x2 = Len(h[n]) + y2 /\ Nth(I, y2) = j
        BY <2>9, <3>3
      <4>2. y2 = y
        BY <2>3, <3>1, <4>1 DEF ChosenL
      <4> QED
        BY <2>10, <3>1, <3>3, <4>1, <4>2 DEF New
    <3>4. j <= Len(t) /\ j > N /\ j \in Nat
      BY <2>1, <2>2, <2>4, <3>1
    <3> QED
      BY <3>2, <3>3, <3>4, Zenon
  <2>11. ASSUME NEW a \in DOMAIN g, NEW x \in DOMAIN g[a], NEW j \in DOMAIN t,
                g[a][x] = t[j].lit, t[j].level > 0
         PROVE  /\ j <= Len(t) /\ \A b \in DOMAIN k : a <= b => j <= k[b]
                /\ \A a2 \in DOMAIN g : \A y \in DOMAIN g[a2] :
                     g[a2][y] = t[j].lit => a2 = a /\ y = x
    <3>1. CASE Old(a, x)
      <4>1. /\ j <= N /\ \A b \in DOMAIN k : a <= b => j <= k[b]
            /\ \A a2, y : Old(a2, y) /\ g[a2][y] = t[j].lit => a2 = a /\ y = x
        BY <2>8, <2>11, <3>1
      <4>2. \A a2, y : New(a2, y) => g[a2][y] # t[j].lit
        <5>1. ASSUME NEW a2, NEW y, New(a2, y), g[a2][y] = t[j].lit PROVE FALSE
          <6>1. j > N /\ j \in Nat
            BY <2>10, <5>1
          <6> QED
            BY <2>2, <4>1, <6>1
        <5> QED
          BY <5>1
      <4>3. j <= Len(t)
        BY <2>2
      <4> QED
        BY <2>7, <4>1, <4>2, <4>3, Zenon
    <3>2. CASE New(a, x)
      <4>1. /\ j <= Len(t) /\ \A b \in DOMAIN k : a <= b => j <= k[b]
            /\ \A a2, y : New(a2, y) /\ g[a2][y] = t[j].lit => a2 = a /\ y = x
            /\ j > N /\ j \in Nat
        BY <2>10, <2>11, <3>2
      <4>2. \A a2, y : Old(a2, y) => g[a2][y] # t[j].lit
        <5>1. ASSUME NEW a2, NEW y, Old(a2, y), g[a2][y] = t[j].lit PROVE FALSE
          <6>1. j <= N
            BY <2>8, <2>11, <5>1
          <6> QED
            BY <2>2, <4>1, <6>1
        <5> QED
          BY <5>1
      <4> QED
        BY <2>7, <4>1, <4>2, Zenon
    <3> QED
      BY <2>7, <3>1, <3>2
  <2>12. OnceIn(t, k, g, Len(t))
    BY <2>11, Zenon DEF OnceIn
  <2> QED
    BY <2>1, <2>12, OnceIs DEF t, k, g
<1> QED
  BY <1>1, <1>2

-----------------------------------------------------------------------------
(* Backtracking.                                                           *)

\* backtrack before the propagator hears of the literals that stay
CutOf(c, L) == c.control[L + 1]

\* The literals of lower levels behind the cut.
KeptOf(c, L) ==
  Chosen(c.trail, {i \in CutOf(c, L) + 1..Len(c.trail) : c.trail[i].level <= L})

\* 'backtrack' without the notification at its end.
CutBack(c, L) ==
  [TrailCut(c, L, CutOf(c, L), KeptOf(c, L)) EXCEPT
     !.heard = IF Listens(c) THEN SubSeq(@, 1, L + 1) ELSE @,
     !.notified = IF Listens(c) THEN Min({@, CutOf(c, L)}) ELSE @]

\* 'backtrack' in these terms.
LEMMA BackIs ==
  ASSUME NEW c, NEW L
  PROVE  Backtracked(c, L) =
           IF L >= Level(c) THEN c
           ELSE IF KeptOf(c, L) = <<>> THEN CutBack(c, L)
           ELSE Notified(CutBack(c, L))
  BY Zenon DEF Backtracked, CutBack, KeptOf, CutOf

\* What 'backtrack' has changed before that notification.
CutFacts(c, b, L, g) ==
  /\ b \in Core /\ Same(c, b) /\ b.conflict = c.conflict
  /\ b.propagated = Min({c.propagated, CutOf(c, L)})
  /\ Selects(b.trail, c.trail, g, L, CutOf(c, L))
  /\ CutOf(c, L) \in 0..Len(c.trail)
  /\ b.control = SubSeq(c.control, 1, L)
  /\ b.heard = IF Listens(c) THEN SubSeq(c.heard, 1, L + 1) ELSE c.heard
  /\ b.notified = IF Listens(c) THEN Min({c.notified, CutOf(c, L)}) ELSE c.notified
  /\ (KeptOf(c, L) = <<>>) => Len(b.trail) = CutOf(c, L)

\* The cut makes these changes.
LEMMA CutFields ==
  ASSUME NEW c, Struct(c), NEW L \in Nat, L < Level(c)
  PROVE  \E g : CutFacts(c, CutBack(c, L), L, g)
<1> DEFINE t == c.trail
           k == c.control
           cut == CutOf(c, L)
           kept == KeptOf(c, L)
           s == SubSeq(t, 1, cut) \o kept
           h == IF Listens(c) THEN SubSeq(c.heard, 1, L + 1) ELSE c.heard
           n == IF Listens(c) THEN Min({c.notified, cut}) ELSE c.notified
           p == Min({c.propagated, cut})
           b == [[[[[c EXCEPT !.trail = s] EXCEPT !.propagated = p]
                  EXCEPT !.control = SubSeq(k, 1, L)] EXCEPT !.heard = h]
                  EXCEPT !.notified = n]
<1>1. /\ IsState(c) /\ FieldTypes(c) /\ t \in Seq(Entry) /\ k \in Seq(Nat)
      /\ Staged(t, k) /\ L < Len(k) /\ Len(k) \in Nat /\ c.heard \in Seq(Seq(Lit))
      /\ c.notified \in Nat /\ c.propagated \in Nat /\ Len(t) \in Nat
  BY StructFields
<1>2. cut = k[L + 1] /\ kept = Chosen(t, {i \in cut + 1..Len(t) : t[i].level <= L})
  BY DEF CutOf, KeptOf
<1> HIDE DEF cut, kept
<1>3. CutSelected(t, L, cut, kept, s)
  <2> HIDE DEF t, k, s
  <2>1. CutArgs(t, k, L, cut, kept, s)
    BY <1>1, <1>2, Zenon DEF CutArgs, s
  <2> QED
    BY <2>1, CutSelects
<1>4. CutBack(c, L) = b
  BY <1>1, Zenon DEF CutBack, TrailCut, cut, kept
<1>5. p \in Nat /\ n \in Nat /\ cut \in Nat
  <2>1. cut \in Nat
    BY <1>3 DEF CutSelected
  <2>2. \A x \in Nat : Min({x, cut}) \in Nat
    BY <2>1, MinTwo
  <2> QED
    BY <1>1, <2>1, <2>2
<1>6. h \in Seq(Seq(Lit))
  <2>1. CASE Listens(c)
    <3>1. L + 1 <= Len(c.heard) /\ Len(c.heard) \in Nat
      BY <1>1, <2>1, StructFields DEF Struct, Level
    <3> DEFINE T == Seq(Lit)
    <3>2. c.heard \in Seq(T)
      BY <1>1
    <3> HIDE DEF T
    <3>3. SubSeq(c.heard, 1, L + 1) \in Seq(T)
      BY <3>1, <3>2
    <3> QED
      BY <2>1, <3>3 DEF T
  <2> QED
    BY <1>1, <2>1
<1>7. SubSeq(k, 1, L) \in Seq(Nat)
  BY <1>1
<1> DEFINE q == SubSeq(k, 1, L)
<1> HIDE DEF s, h, n, p, q
<1>8. IsState(b)
  BY <1>1, Puts
<1>9. /\ Same(c, b) /\ FieldTypes(b) /\ b.conflict = c.conflict
      /\ b.propagated = p /\ b.trail = s /\ b.control = q /\ b.heard = h
      /\ b.notified = n
  <2>1. s \in Seq(Entry) /\ q \in Seq(Nat)
    BY <1>3, <1>7 DEF CutSelected, q
  <2>2. b.heard = h /\ b.notified = n /\ b.control = q /\ b.trail = s /\ b.propagated = p
    BY <1>1, SMT DEF IsState, Fields, q
  <2>3. Same(c, b) /\ b.conflict = c.conflict
    BY <1>1, SMT DEF IsState, Fields, Same
  <2>4. FieldTypes(b)
    <3> HIDE DEF b
    <3> QED
      BY <1>1, <1>5, <1>6, <2>1, <2>2, <2>3 DEF FieldTypes, Same
  <2> QED
    BY <2>2, <2>3, <2>4
<1> HIDE DEF b
<1>10. b \in Core
  BY <1>8, <1>9, StateCore
<1>11. PICK g : Selects(s, t, g, L, cut)
  BY <1>3 DEF CutSelected
<1>12. kept = <<>> => Len(b.trail) = cut
  BY <1>3, <1>5, <1>9 DEF CutSelected
<1> HIDE DEF t, k
<1>13. CutFacts(c, b, L, g)
  <2>1. cut \in 0..Len(t)
    BY <1>3 DEF CutSelected
  <2> QED
    BY <2>1, <1>9, <1>10, <1>11, <1>12, Zenon DEF CutFacts, t, k, q, h, n, p, cut, kept
<1> QED
  BY <1>4, <1>13

\* The levels the propagator has not dropped are as they were.
LEMMA SubHeard ==
  ASSUME NEW h \in Seq(Seq(Lit)), NEW n \in Nat, n <= Len(h)
  PROVE  /\ Len(SubSeq(h, 1, n)) = n /\ DOMAIN SubSeq(h, 1, n) = 1..n
         /\ DOMAIN h = 1..Len(h) /\ Len(h) \in Nat
         /\ \A a \in 1..n : SubSeq(h, 1, n)[a] = h[a] /\ a \in DOMAIN h
<1> DEFINE T == Seq(Lit)
<1>1. h \in Seq(T)
  OBVIOUS
<1> HIDE DEF T
<1> QED
  BY <1>1

\* The data structures fit together after the cut, and nothing behind it
\* counts as propagated or told.
LEMMA CutStruct ==
  ASSUME NEW c, Struct(c), NEW L \in Nat, L < Level(c), NEW b, NEW g,
         CutFacts(c, b, L, g)
  PROVE  /\ Struct(b) /\ Level(b) = L /\ b.propagated <= CutOf(c, L)
         /\ Listens(c) => b.notified <= CutOf(c, L)
<1> DEFINE t == c.trail
           k == c.control
           s == b.trail
           cut == CutOf(c, L)
<1>1. /\ b \in Core /\ Same(c, b) /\ b.propagated = Min({c.propagated, cut})
      /\ Selects(s, t, g, L, cut) /\ cut \in 0..Len(t)
      /\ b.control = SubSeq(k, 1, L)
      /\ b.heard = IF Listens(c) THEN SubSeq(c.heard, 1, L + 1) ELSE c.heard
      /\ b.notified = IF Listens(c) THEN Min({c.notified, cut}) ELSE c.notified
  BY DEF CutFacts
<1>2. /\ t \in Seq(Entry) /\ k \in Seq(Nat) /\ Staged(t, k) /\ Distinct(t)
      /\ L < Len(k) /\ Len(k) \in Nat /\ c.notified \in Nat /\ c.propagated \in Nat
      /\ Len(t) \in Nat /\ Known(c) /\ Level(c) = Len(k) /\ DOMAIN k = 1..Len(k)
      /\ \A a \in 1..Len(k) : k[a] \in Nat
  BY StructFields
<1>3. s \in Seq(Entry) /\ Len(s) \in Nat
  BY <1>1, CoreFields
<1>4. cut = k[L + 1]
  BY DEF CutOf
<1> HIDE DEF cut
<1>5. /\ Staged(s, SubSeq(k, 1, L)) /\ Len(SubSeq(k, 1, L)) = L
      /\ \A a \in 1..L : SubSeq(k, 1, L)[a] = k[a] /\ k[a] <= cut
  <2>1. StagedCut(s, k, L, cut)
    BY <1>1, <1>2, <1>3, <1>4, SelStaged
  <2> QED
    BY <2>1 DEF StagedCut
<1>6. Distinct(s)
  BY <1>1, <1>2, <1>3, SelDistinct
<1>7. cut \in 0..Len(s) /\ cut \in Nat /\ \A i \in 1..Len(s) : s[i] = t[g[i]] /\ g[i] \in 1..Len(t)
  <2>1. SelFacts(s, t, g, L, cut)
    BY <1>1, <1>2, <1>3, SelectsTypes
  <2> QED
    BY <2>1 DEF SelFacts
<1>a. \A x \in Nat : Min({x, cut}) \in Nat /\ Min({x, cut}) <= cut /\ Min({x, cut}) <= x
  <2>1. cut \in Nat
    BY <1>7
  <2>2. ASSUME NEW x \in Nat
        PROVE  Min({x, cut}) \in Nat /\ Min({x, cut}) <= cut /\ Min({x, cut}) <= x
    <3>1. Min({x, cut}) = IF x <= cut THEN x ELSE cut
      BY <2>1, MinTwo
    <3> QED
      BY <2>1, <3>1
  <2> QED
    BY <2>2
<1>8. b.propagated <= cut /\ b.propagated <= Len(s)
  <2>1. b.propagated <= cut /\ b.propagated \in Nat
    BY <1>1, <1>2, <1>a
  <2> QED
    BY <1>3, <1>7, <2>1
<1>9. ~Listens(c) => \A a \in DOMAIN k : c.notified <= k[a]
  BY DEF Struct
<1>10. b.notified <= cut
  <2>1. CASE Listens(c)
    BY <1>1, <1>2, <1>a, <2>1
  <2>2. CASE ~Listens(c)
    <3>1. L + 1 \in DOMAIN k
      BY <1>2
    <3> QED
      BY <1>1, <1>4, <1>9, <2>2, <3>1
  <2> QED
    BY <2>1, <2>2
<1>11. b.notified <= Len(s)
  <2>1. b.notified \in Nat
    BY <1>1, CoreFields
  <2> QED
    BY <1>3, <1>7, <1>10, <2>1
<1>12. Known(b)
  <2>1. \A i \in DOMAIN s : Abs(s[i].lit) \in c.vars
    <3>1. \A i \in DOMAIN t : Abs(t[i].lit) \in c.vars
      BY <1>2 DEF Known
    <3>2. DOMAIN s = 1..Len(s) /\ DOMAIN t = 1..Len(t)
      BY <1>2, <1>3, TrailTypes
    <3> QED
      BY <1>7, <3>1, <3>2
  <2> HIDE DEF s, t
  <2> QED
    BY <1>1, <1>2, <1>8, <1>11, <2>1 DEF Known, Same, s, t
<1>13. Level(b) = L
  BY <1>1, <1>5 DEF Level
<1>14. Listens(b) <=> Listens(c)
  BY <1>1, SameFacts
<1>15. Len(b.heard) = IF Listens(b) THEN L + 1 ELSE 1
  <2>1. c.heard \in Seq(Seq(Lit)) /\ Len(c.heard) = IF Listens(c) THEN Len(k) + 1 ELSE 1
    BY StructFields DEF Struct
  <2>2. CASE Listens(c)
    <3>1. L + 1 \in Nat /\ L + 1 <= Len(c.heard)
      BY <1>2, <2>1, <2>2
    <3> QED
      BY <1>1, <1>14, <2>1, <2>2, <3>1, SubHeard
  <2> QED
    BY <1>1, <1>14, <2>1, <2>2
<1>16. ~Listens(b) => \A a \in DOMAIN b.control : b.notified <= b.control[a]
  <2>1. ASSUME ~Listens(b), NEW a \in DOMAIN b.control PROVE b.notified <= b.control[a]
    <3>1. a \in 1..L /\ b.notified = c.notified
      BY <1>1, <1>2, <1>14, <2>1
    <3>2. a \in DOMAIN k /\ b.control[a] = k[a]
      BY <1>1, <1>2, <1>5, <3>1
    <3> QED
      BY <1>9, <1>14, <2>1, <3>1, <3>2
  <2> QED
    BY <2>1
<1>17. ~b.connected => b.heard = <<<<>>>> /\ b.observed = {} /\ b.lemmas = <<>>
  <2>1. ~c.connected => c.heard = <<<<>>>> /\ c.observed = {} /\ c.lemmas = <<>>
    BY DEF Struct
  <2> QED
    BY <1>1, <2>1 DEF Same, Listens
<1>18. Struct(b)
  BY <1>1, <1>5, <1>6, <1>12, <1>13, <1>15, <1>16, <1>17 DEF Struct
<1> QED
  BY <1>8, <1>10, <1>13, <1>18 DEF cut

\* The propagator has caught up with the trail.
Caught(c) == Listens(c) => c.notified = Len(c.trail)

\* What CutFacts says of the sequences involved, element by element.
CutArrays(c, b, L, g, cut) ==
  /\ c.trail \in Seq(Entry) /\ b.trail \in Seq(Entry)
  /\ DOMAIN c.trail = 1..Len(c.trail) /\ DOMAIN b.trail = 1..Len(b.trail)
  /\ SelFacts(b.trail, c.trail, g, L, cut)
  /\ cut = c.control[L + 1] /\ cut \in Nat /\ L + 1 \in DOMAIN c.control
  /\ DOMAIN c.control = 1..Level(c) /\ DOMAIN b.control = 1..L /\ Level(c) \in Nat
  /\ \A a \in 1..Level(c) : c.control[a] \in Nat
  /\ \A a \in 1..L : b.control[a] = c.control[a] /\ c.control[a] <= cut
                     /\ a \in DOMAIN c.control
  /\ \A a, a2 \in DOMAIN c.control : a <= a2 => c.control[a] <= c.control[a2]
  /\ DOMAIN b.heard = 1..Len(b.heard) /\ DOMAIN c.heard = 1..Len(c.heard)
  /\ Len(b.heard) = IF Listens(c) THEN L + 1 ELSE 1
  /\ Len(c.heard) = IF Listens(c) THEN Level(c) + 1 ELSE 1
  /\ \A a \in DOMAIN b.heard : b.heard[a] = c.heard[a] /\ a \in DOMAIN c.heard
                               /\ a \in Nat /\ a <= L + 1
  /\ c.notified \in Nat /\ b.notified \in Nat /\ b.notified <= c.notified
  /\ b.notified <= cut
  /\ b.notified = IF Listens(c) /\ cut <= c.notified THEN cut ELSE c.notified

\* The cut has these effects on each element.
LEMMA CutArraysHold ==
  ASSUME NEW c, Struct(c), NEW L \in Nat, L < Level(c), NEW b, NEW g,
         CutFacts(c, b, L, g)
  PROVE  CutArrays(c, b, L, g, CutOf(c, L))
<1> DEFINE t == c.trail
           k == c.control
           s == b.trail
           cut == CutOf(c, L)
<1>1. /\ b \in Core /\ Same(c, b) /\ b.propagated = Min({c.propagated, cut})
      /\ Selects(s, t, g, L, cut) /\ cut \in 0..Len(t)
      /\ b.control = SubSeq(k, 1, L)
      /\ b.heard = IF Listens(c) THEN SubSeq(c.heard, 1, L + 1) ELSE c.heard
      /\ b.notified = IF Listens(c) THEN Min({c.notified, cut}) ELSE c.notified
  BY DEF CutFacts
<1>2. /\ t \in Seq(Entry) /\ k \in Seq(Nat) /\ Staged(t, k) /\ Distinct(t)
      /\ L < Len(k) /\ Len(k) \in Nat /\ c.notified \in Nat /\ c.propagated \in Nat
      /\ Len(t) \in Nat /\ Known(c) /\ Level(c) = Len(k) /\ DOMAIN k = 1..Len(k)
      /\ \A a \in 1..Len(k) : k[a] \in Nat
      /\ DOMAIN t = 1..Len(t)
  BY StructFields
<1>3. s \in Seq(Entry) /\ Len(s) \in Nat /\ DOMAIN s = 1..Len(s)
  BY <1>1, CoreFields
<1>4. cut = k[L + 1] /\ L + 1 \in DOMAIN k
  BY <1>2 DEF CutOf
<1> HIDE DEF cut
<1>5. StagedCut(s, k, L, cut)
  BY <1>1, <1>2, <1>3, <1>4, SelStaged
<1>6. SelFacts(s, t, g, L, cut)
  BY <1>1, <1>2, <1>3, SelectsTypes
<1>7. cut \in Nat
  BY <1>6 DEF SelFacts
<1>8. /\ b.heard \in Seq(Seq(Lit)) /\ c.heard \in Seq(Seq(Lit))
      /\ Len(c.heard) = IF Listens(c) THEN Level(c) + 1 ELSE 1
  BY <1>1, CoreFields, StructFields DEF Struct
<1>9. /\ DOMAIN b.heard = 1..Len(b.heard) /\ DOMAIN c.heard = 1..Len(c.heard)
      /\ Len(b.heard) = IF Listens(c) THEN L + 1 ELSE 1
      /\ \A a \in DOMAIN b.heard : b.heard[a] = c.heard[a] /\ a \in DOMAIN c.heard
                                   /\ a \in Nat /\ a <= L + 1
  <2>1. CASE Listens(c)
    <3>1. L + 1 \in Nat /\ L + 1 <= Len(c.heard)
      BY <1>2, <1>8, <2>1
    <3>2. /\ Len(SubSeq(c.heard, 1, L + 1)) = L + 1
          /\ DOMAIN SubSeq(c.heard, 1, L + 1) = 1..L + 1
          /\ DOMAIN c.heard = 1..Len(c.heard)
          /\ \A a \in 1..L + 1 : SubSeq(c.heard, 1, L + 1)[a] = c.heard[a] /\ a \in DOMAIN c.heard
      BY <1>8, <3>1, SubHeard
    <3>3. b.heard = SubSeq(c.heard, 1, L + 1)
      BY <1>1, <2>1
    <3> QED
      BY <2>1, <3>2, <3>3
  <2>2. CASE ~Listens(c)
    <3>1. 1 \in Nat /\ 1 <= Len(c.heard)
      BY <1>8, <2>2
    <3>2. DOMAIN c.heard = 1..Len(c.heard)
      BY <1>8, <3>1, SubHeard
    <3> QED
      BY <1>1, <1>8, <2>2, <3>2
  <2> QED
    BY <2>1, <2>2
<1>10. /\ b.notified \in Nat /\ b.notified <= c.notified
       /\ b.notified = IF Listens(c) /\ cut <= c.notified THEN cut ELSE c.notified
  <2>1. Min({c.notified, cut}) = IF c.notified <= cut THEN c.notified ELSE cut
    BY <1>2, <1>7, MinTwo
  <2> QED
    BY <1>1, <1>2, <1>7, <2>1
<1>11. b.notified <= cut
  <2>1. CASE Listens(c)
    BY <2>1, CutStruct DEF cut
  <2>2. CASE ~Listens(c)
    <3>1. \A a \in DOMAIN k : c.notified <= k[a]
      BY <2>2 DEF Struct
    <3> QED
      BY <1>4, <1>10, <2>2, <3>1
  <2> QED
    BY <2>1, <2>2
<1>12. \A a, a2 \in DOMAIN k : a <= a2 => k[a] <= k[a2]
  BY <1>2 DEF Staged
<1>13. DOMAIN b.control = 1..L
      /\ \A a \in 1..L : b.control[a] = k[a] /\ k[a] <= cut /\ a \in DOMAIN k
  BY <1>1, <1>2, <1>5 DEF StagedCut
<1> QED
  BY <1>2, <1>3, <1>4, <1>6, <1>7, <1>8, <1>9, <1>10, <1>11, <1>12, <1>13, Zenon DEF CutArrays, cut

\* What the propagator has still heard after the cut is still true, and told
\* as far as is recorded.
LEMMA CutHears ==
  ASSUME NEW c, NEW L \in Nat, NEW b, NEW g, NEW cut,
         CutArrays(c, b, L, g, cut), NEW O, Hearing(c, O), Listens(c) <=> Listens(b)
  PROVE  Hearing(b, O)
<1> DEFINE t == c.trail
           k == c.control
           h == c.heard
           s == b.trail
           m == b.control
           f == b.heard
           n == b.notified
<1>1. /\ t \in Seq(Entry) /\ s \in Seq(Entry)
      /\ DOMAIN t = 1..Len(t) /\ DOMAIN s = 1..Len(s)
      /\ SelFacts(s, t, g, L, cut)
      /\ cut = k[L + 1] /\ cut \in Nat /\ L + 1 \in DOMAIN k
      /\ DOMAIN k = 1..Level(c) /\ DOMAIN m = 1..L /\ Level(c) \in Nat
      /\ \A a \in 1..L : m[a] = k[a] /\ k[a] <= cut /\ a \in DOMAIN k
      /\ \A a \in DOMAIN f : f[a] = h[a] /\ a \in DOMAIN h /\ a \in Nat /\ a <= L + 1
      /\ c.notified \in Nat /\ n \in Nat /\ n <= c.notified /\ n <= cut
      /\ n = IF Listens(c) /\ cut <= c.notified THEN cut ELSE c.notified
      /\ Len(f) = IF Listens(c) THEN L + 1 ELSE 1
      /\ DOMAIN f = 1..Len(f) /\ DOMAIN h = 1..Len(h)
      /\ Len(h) = IF Listens(c) THEN Level(c) + 1 ELSE 1
      /\ \A a \in 1..Level(c) : k[a] \in Nat
  BY DEF CutArrays
<1>2. /\ HeardTrue(t, h) /\ HeardAll(t, k, h, c.notified, O)
      /\ Listens(c) => \A a \in DOMAIN k : k[a] <= c.notified
  BY DEF Hearing
<1>3. /\ \A j \in 1..Len(t) : t[j].level <= L => \E i \in 1..Len(s) : g[i] = j
      /\ \A i \in 1..Len(s) : s[i] = t[g[i]] /\ g[i] \in 1..Len(t)
      /\ \A i \in 1..cut : g[i] = i /\ i \in 1..Len(s)
  BY <1>1 DEF SelFacts
<1> HIDE DEF t, k, h, s, m, f, n
<1>4. ASSUME NEW a \in DOMAIN f, NEW x \in DOMAIN f[a]
      PROVE  \E i \in DOMAIN s : s[i].lit = f[a][x] /\ s[i].level < a
  <2>1. a \in DOMAIN h /\ f[a] = h[a] /\ a \in Nat /\ a <= L + 1
    BY <1>1
  <2>2. PICK j \in DOMAIN t : t[j].lit = f[a][x] /\ t[j].level < a
    BY <1>2, <1>4, <2>1 DEF HeardTrue
  <2>3. t[j].level \in Nat
    BY <1>1, <2>2, TrailTypes
  <2>4. t[j].level <= L
    BY <2>1, <2>2, <2>3
  <2>5. PICK i \in 1..Len(s) : g[i] = j
    BY <1>1, <1>3, <2>4
  <2>6. i \in DOMAIN s /\ s[i] = t[j]
    BY <1>1, <1>3, <2>5
  <2> QED
    BY <2>2, <2>6
<1>5. ASSUME NEW j \in 1..n, Abs(s[j].lit) \in O PROVE ToldFor(s, m, f, j)
  <2>1. j \in 1..cut /\ j \in 1..c.notified
    BY <1>1
  <2>2. g[j] = j /\ s[j] = t[j]
    BY <1>3, <2>1
  <2>3. ToldFor(t, k, h, j)
    BY <1>2, <1>5, <2>1, <2>2 DEF HeardAll
  <2>4. PICK a \in DOMAIN h : \E x \in DOMAIN h[a] :
          h[a][x] = t[j].lit /\ \A e \in DOMAIN k : j <= k[e] => a <= e
    BY <2>3, Zenon DEF ToldFor
  <2>5. PICK x \in DOMAIN h[a] :
          h[a][x] = t[j].lit /\ \A e \in DOMAIN k : j <= k[e] => a <= e
    BY <2>4
  <2>6. a <= L + 1
    BY <1>1, <2>1, <2>5
  <2>7. a \in DOMAIN f
    <3>1. a \in 1..Len(h) /\ a \in Nat
      BY <1>1
    <3> QED
      BY <1>1, <2>6, <3>1
  <2>8. f[a] = h[a]
    BY <1>1, <2>7
  <2>9. \A e \in DOMAIN m : j <= m[e] => a <= e
    BY <1>1, <2>5
  <2> QED
    BY <2>2, <2>5, <2>7, <2>8, <2>9, Zenon DEF ToldFor
<1>6. Listens(b) => \A e \in DOMAIN m : m[e] <= n
  <2>1. ASSUME Listens(b), NEW e \in DOMAIN m PROVE m[e] <= n
    <3>1. n = cut
      BY <1>1, <1>2, <2>1
    <3> QED
      BY <1>1, <2>1, <3>1
  <2> QED
    BY <2>1
<1>7. HeardTrue(s, f) /\ HeardAll(s, m, f, n, O)
  BY <1>4, <1>5, Zenon DEF HeardTrue, HeardAll
<1> QED
  BY <1>6, <1>7 DEF Hearing, s, m, f, n

\* The cut tells nothing twice: what the propagator has dropped is not
\* recorded as told.
LEMMA CutOnce ==
  ASSUME NEW c, NEW L \in Nat, NEW b, NEW g, NEW cut,
         CutArrays(c, b, L, g, cut), Once(c)
  PROVE  Once(b)
<1> DEFINE t == c.trail
           k == c.control
           h == c.heard
           s == b.trail
           m == b.control
           f == b.heard
           n == b.notified
           N == c.notified
<1>1. /\ t \in Seq(Entry) /\ s \in Seq(Entry)
      /\ DOMAIN t = 1..Len(t) /\ DOMAIN s = 1..Len(s)
      /\ SelFacts(s, t, g, L, cut)
      /\ cut = k[L + 1] /\ cut \in Nat /\ L + 1 \in DOMAIN k
      /\ DOMAIN m = 1..L
      /\ \A a \in 1..L : m[a] = k[a] /\ k[a] <= cut /\ a \in DOMAIN k
      /\ \A a \in DOMAIN f : f[a] = h[a] /\ a \in DOMAIN h /\ a \in Nat /\ a <= L + 1
      /\ N \in Nat /\ n \in Nat
      /\ n = IF Listens(c) /\ cut <= N THEN cut ELSE N
  BY DEF CutArrays
<1>2. OnceIn(t, k, h, N)
  BY OnceIs
<1>3. /\ \A i \in 1..Len(s) : s[i] = t[g[i]] /\ g[i] \in 1..Len(t)
      /\ \A i \in 1..cut : g[i] = i
      /\ \A i \in 1..Len(s) : i > cut => g[i] > cut
      /\ Len(s) \in Nat /\ Len(t) \in Nat
  BY <1>1 DEF SelFacts
<1> HIDE DEF t, k, h, s, m, f, n, N
<1>4. ASSUME NEW a \in DOMAIN f, NEW x \in DOMAIN f[a], NEW i \in DOMAIN s,
             f[a][x] = s[i].lit, s[i].level > 0
      PROVE  /\ i <= n
             /\ \A e \in DOMAIN m : a <= e => i <= m[e]
             /\ \A a2 \in DOMAIN f : \A y \in DOMAIN f[a2] :
                  f[a2][y] = s[i].lit => a2 = a /\ y = x
  <2>1. PICK j \in DOMAIN t : j = g[i] /\ s[i] = t[j]
    BY <1>1, <1>3
  <2>2. a \in DOMAIN h /\ f[a] = h[a] /\ a \in Nat /\ a <= L + 1
    BY <1>1
  <2>a. x \in DOMAIN h[a] /\ h[a][x] = t[j].lit /\ t[j].level > 0
    BY <1>4, <2>1, <2>2
  <2>3. /\ j <= N
        /\ \A e \in DOMAIN k : a <= e => j <= k[e]
        /\ \A a2 \in DOMAIN h : \A y \in DOMAIN h[a2] :
             h[a2][y] = t[j].lit => a2 = a /\ y = x
    BY <1>2, <2>a, <2>2, Zenon DEF OnceIn
  <2>4. j <= cut
    BY <1>1, <2>2, <2>3
  <2>5. i <= cut /\ j = i
    BY <1>1, <1>3, <2>1, <2>4
  <2>6. i <= n
    BY <1>1, <2>3, <2>5
  <2>7. \A e \in DOMAIN m : a <= e => i <= m[e]
    BY <1>1, <2>3, <2>5
  <2>8. \A a2 \in DOMAIN f : \A y \in DOMAIN f[a2] :
                  f[a2][y] = s[i].lit => a2 = a /\ y = x
    BY <1>1, <2>1, <2>3, Zenon
  <2> QED
    BY <2>6, <2>7, <2>8
<1>5. OnceIn(s, m, f, n)
  BY <1>4, Zenon DEF OnceIn
<1> QED
  BY <1>5, OnceIs DEF s, m, f, n

\* What 'backtrack' promises to its callers.
BackFacts(c, d, L) ==
  /\ Struct(d) /\ Same(c, d) /\ d.conflict = c.conflict
  /\ Level(d) = IF L >= Level(c) THEN Level(c) ELSE L
  /\ L >= Level(c) => d = c
  /\ \E g, cut : Selects(d.trail, c.trail, g, L, cut)
  /\ Caught(c) => Caught(d)

\* 'backtrack' keeps it, with the notification of the literals that stay
\* behind the cut: these the propagator dropped with their level and hears of
\* again on the level it is on now.
LEMMA BackStruct ==
  ASSUME NEW c, Struct(c), NEW L \in Nat, NEW d, d = Backtracked(c, L)
  PROVE  /\ BackFacts(c, d, L)
         /\ \A O \in SUBSET c.observed : Hearing(c, O) => Hearing(d, O)
         /\ Once(c) => Once(d)
<1>0. /\ Level(c) \in Nat /\ c.trail \in Seq(Entry) /\ Len(c.trail) \in Nat
      /\ Staged(c.trail, c.control) /\ DOMAIN c.trail = 1..Len(c.trail)
  BY StructFields
<1>1. CASE L >= Level(c)
  <2>1. d = c
    BY <1>1, BackIs
  <2> DEFINE t == c.trail
             g == [i \in 1..Len(t) |-> i]
  <2>2. \A i \in 1..Len(t) : t[i].level <= L
    <3>1. \A i \in 1..Len(t) : t[i].level <= Level(c) /\ t[i].level \in Nat
      BY <1>0, TrailTypes DEF Staged, Level
    <3> QED
      BY <1>0, <1>1, <3>1
  <2>3. Selects(t, t, g, L, 0)
    <3> HIDE DEF t
    <3> QED
      BY <1>0, <2>2 DEF Selects, t
  <2>4. \E f, cut : Selects(t, t, f, L, cut)
    <3> HIDE DEF g, t
    <3> QED
      BY <2>3
  <2> QED
    BY <1>1, <2>1, <2>4, SameFacts DEF BackFacts
<1>2. CASE ~(L >= Level(c))
  <2>0. L < Level(c)
    BY <1>0, <1>2
  <2> DEFINE b == CutBack(c, L)
             cut == CutOf(c, L)
  <2>1. PICK g : CutFacts(c, b, L, g)
    BY <2>0, CutFields
  <2>2. d = IF KeptOf(c, L) = <<>> THEN b ELSE Notified(b)
    BY <1>2, BackIs
  <2> HIDE DEF b, cut
  <2>3. Struct(b) /\ Level(b) = L
    BY <2>0, <2>1, CutStruct
  <2>4. CutArrays(c, b, L, g, cut)
    BY <2>0, <2>1, CutArraysHold DEF cut
  <2>5. Same(c, b) /\ b.conflict = c.conflict /\ Selects(b.trail, c.trail, g, L, cut)
        /\ cut \in 0..Len(c.trail)
    BY <2>1 DEF CutFacts, cut
  <2>6. Listens(c) <=> Listens(b)
    BY <2>5, SameFacts
  <2>7. \A O : Hearing(c, O) => Hearing(b, O)
    BY <2>4, <2>6, CutHears
  <2>8. Once(c) => Once(b)
    BY <2>4, CutOnce
  <2>9. CASE KeptOf(c, L) = <<>>
    <3>1. d = b
      BY <2>2, <2>9
    <3>2. Len(b.trail) = cut
      BY <2>1, <2>9 DEF CutFacts, cut
    <3>3. Caught(c) => Caught(b)
      <4>1. cut \in Nat /\ b.notified = IF Listens(c) /\ cut <= c.notified THEN cut ELSE c.notified
        BY <2>4 DEF CutArrays
      <4> QED
        BY <1>0, <2>5, <2>6, <3>2, <4>1 DEF Caught
    <3> QED
      BY <1>2, <2>3, <2>5, <2>7, <2>8, <3>1, <3>3 DEF BackFacts
  <2>10. CASE KeptOf(c, L) # <<>>
    <3>1. d = Notified(b)
      BY <2>2, <2>10
    <3>2. /\ Struct(d) /\ Same(b, d) /\ d.trail = b.trail /\ d.control = b.control
          /\ d.conflict = b.conflict
          /\ (Listens(b) => d.notified = Len(d.trail))
      BY <2>3, <3>1, NotifiedStruct
    <3>a. Same(c, d)
      BY <2>5, <3>2, SameFacts, Zenon
    <3>b. Listens(d) <=> Listens(b)
      BY <3>2, SameFacts, Zenon
    <3>3. Caught(d)
      BY <3>b, <3>2, Zenon DEF Caught
    <3>c. \E g2, cut2 : Selects(d.trail, c.trail, g2, L, cut2)
      <4>1. Selects(d.trail, c.trail, g, L, cut)
        BY <2>5, <3>2
      <4> QED
        BY <4>1, Zenon
    <3>d. Level(d) = L
      BY <2>3, <3>2 DEF Level
    <3>4. BackFacts(c, d, L)
      BY <1>2, <2>5, <3>2, <3>a, <3>3, <3>c, <3>d DEF BackFacts
    <3>5. \A O \in SUBSET c.observed : Hearing(c, O) => Hearing(d, O)
      <4>1. b.observed = c.observed
        BY <2>5 DEF Same
      <4> QED
        BY <2>3, <2>7, <3>1, <4>1, NotifiedHears
    <3>6. Once(c) => Once(d)
      BY <2>3, <2>8, <3>1, NotifiedOnce
    <3> QED
      BY <3>4, <3>5, <3>6
  <2> QED
    BY <2>9, <2>10
<1> QED
  BY <1>1, <1>2

-----------------------------------------------------------------------------
(* What is kept by the operations of the solver.                           *)

\* What is kept between the calls of the user, and while the solver searches.
Loose(c, W, o) ==
  Struct(c) /\ Hears(c) /\ Late(c) /\ Sound(c, W) /\ (o => Once(c))

\* During a search the reasons are in order as well.
Fine(c, W, o) == Loose(c, W, o) /\ Ordered(c.trail)

\* Two states with the same trail, of which the propagator knows the same.
Near(c, d) ==
  /\ d.trail = c.trail /\ d.control = c.control /\ d.heard = c.heard
  /\ d.notified = c.notified /\ d.observed = c.observed
  /\ d.connected = c.connected /\ d.private = c.private
  /\ d.reasonOf = c.reasonOf
  /\ c.vars \subseteq d.vars /\ (\A v \in d.observed : d.frozen[v] > 0)
  /\ Len(d.lemmas) = Len(c.lemmas)
  /\ \A i \in 1..Len(c.lemmas) : d.lemmas[i].lits = c.lemmas[i].lits

\* The propagator may have come up with further lemmas, and with further
\* reasons of literals that are not true.
More(c, d) ==
  /\ d.trail = c.trail /\ d.control = c.control /\ d.heard = c.heard
  /\ d.notified = c.notified /\ d.observed = c.observed
  /\ d.connected = c.connected /\ d.private = c.private
  /\ \A i \in DOMAIN c.trail : d.reasonOf[c.trail[i].lit] = c.reasonOf[c.trail[i].lit]
  /\ \A l \in Lit : d.reasonOf[l] <= Len(d.lemmas)
  /\ c.vars \subseteq d.vars /\ (\A v \in d.observed : d.frozen[v] > 0)
  /\ (~c.connected => Len(d.lemmas) = Len(c.lemmas))
  /\ \A i \in 1..Len(c.lemmas) : d.lemmas[i].lits = c.lemmas[i].lits
  /\ \A i \in 1..Len(d.lemmas) : Over(d.lemmas[i].lits, d.vars)

\* To know more clauses, propagate less or change what nobody reads keeps the
\* invariant, if what is known still follows from the models V.
LEMMA MoreLoose ==
  ASSUME NEW c, NEW W, NEW o, Loose(c, W, o), NEW d \in Core, More(c, d),
         d.propagated <= Len(d.trail), \A e \in d.clauses : Over(e.lits, d.vars),
         NEW V, Sound(d, V)
  PROVE  Loose(d, V, o) /\ (Ordered(c.trail) => Ordered(d.trail))
<1>1. Struct(c) /\ Hears(c) /\ Late(c) /\ (o => Once(c))
  BY DEF Loose
<1>2. c \in Core /\ Known(c) /\ FieldTypes(c) /\ Len(c.trail) \in Nat
      /\ DOMAIN c.trail = 1..Len(c.trail)
  BY <1>1, StructFields
<1>3. FieldTypes(d)
  BY CoreState
<1>4. /\ d.trail = c.trail /\ d.control = c.control /\ d.heard = c.heard
      /\ d.notified = c.notified /\ d.observed = c.observed
      /\ d.connected = c.connected /\ d.private = c.private
      /\ \A i \in DOMAIN c.trail : d.reasonOf[c.trail[i].lit] = c.reasonOf[c.trail[i].lit]
  BY DEF More
<1>5. c.vars \subseteq d.vars /\ (\A v \in d.observed : d.frozen[v] > 0)
  BY DEF More
<1>6. /\ (~c.connected => Len(d.lemmas) = Len(c.lemmas))
      /\ \A i \in 1..Len(c.lemmas) : d.lemmas[i].lits = c.lemmas[i].lits
      /\ \A i \in 1..Len(d.lemmas) : Over(d.lemmas[i].lits, d.vars)
      /\ \A l \in Lit : d.reasonOf[l] <= Len(d.lemmas)
  BY DEF More
<1>7. DOMAIN c.lemmas = 1..Len(c.lemmas) /\ DOMAIN d.lemmas = 1..Len(d.lemmas)
      /\ Len(c.lemmas) \in Nat
  <2>1. c.lemmas \in Seq(LemmaSet) /\ d.lemmas \in Seq(LemmaSet)
    BY <1>2, <1>3 DEF FieldTypes
  <2> QED
    BY <2>1
<1>9. Known(d)
  <2>1. \A i \in DOMAIN c.trail : Abs(c.trail[i].lit) \in d.vars
    BY <1>2, <1>5 DEF Known
  <2>2. \A i \in DOMAIN d.lemmas : Over(d.lemmas[i].lits, d.vars)
    BY <1>6, <1>7
  <2>3. d.observed \subseteq d.vars
    BY <1>2, <1>4, <1>5 DEF Known
  <2>4. \A l \in Lit : d.reasonOf[l] <= Len(d.lemmas)
    BY <1>6
  <2>5. d.notified <= Len(d.trail)
    BY <1>2, <1>4 DEF Known
  <2> QED
    BY <1>4, <1>5, <2>1, <2>2, <2>3, <2>4, <2>5 DEF Known
<1>10. Listens(d) <=> Listens(c)
  BY <1>4 DEF Listens
<1>11. Struct(d)
  <2>1. ~d.connected => d.lemmas = <<>>
    <3>1. ~c.connected => Len(c.lemmas) = 0
      BY <1>1 DEF Struct
    <3>2. d.lemmas \in Seq(LemmaSet)
      BY <1>3 DEF FieldTypes
    <3> QED
      BY <1>4, <1>6, <3>1, <3>2
  <2>2. /\ Distinct(c.trail) /\ Staged(c.trail, c.control)
        /\ Len(c.heard) = IF Listens(c) THEN Level(c) + 1 ELSE 1
        /\ ~Listens(c) => \A b \in DOMAIN c.control : c.notified <= c.control[b]
        /\ ~c.connected => c.heard = <<<<>>>> /\ c.observed = {}
    BY <1>1 DEF Struct
  <2>3. Level(d) = Level(c)
    BY <1>4 DEF Level
  <2> QED
    BY <1>4, <1>9, <1>10, <2>1, <2>2, <2>3 DEF Struct
<1>12. Hears(d)
  BY <1>1, <1>4, <1>10 DEF Hears, Hearing
<1>13. Late(d)
  <2> SUFFICES ASSUME NEW i \in DOMAIN c.trail, c.trail[i].reason = External
      PROVE /\ d.connected /\ Abs(c.trail[i].lit) \in d.observed
            /\ d.reasonOf[c.trail[i].lit] # 0
            /\ Justified(c.trail, i, d.lemmas[d.reasonOf[c.trail[i].lit]].lits)
    BY <1>4 DEF Late, LateOk
  <2>1. /\ c.connected /\ Abs(c.trail[i].lit) \in c.observed
        /\ c.reasonOf[c.trail[i].lit] # 0
        /\ Justified(c.trail, i, c.lemmas[c.reasonOf[c.trail[i].lit]].lits)
    BY <1>1, Zenon DEF Late, LateOk
  <2>2. c.trail[i].lit \in Lit
    BY <1>1, StructFields, TrailTypes
  <2>3. c.reasonOf[c.trail[i].lit] \in 1..Len(c.lemmas)
    BY <1>2, <1>7, <2>1, <2>2 DEF Known, FieldTypes
  <2>4. d.reasonOf[c.trail[i].lit] = c.reasonOf[c.trail[i].lit]
    BY <1>4
  <2> QED
    BY <1>4, <1>6, <2>1, <2>3, <2>4
<1>14. o => Once(d)
  <2>1. Once(c) => Once(d)
    BY <1>4, OnceIs
  <2> QED
    BY <1>1, <2>1
<1> QED
  BY <1>4, <1>11, <1>12, <1>13, <1>14 DEF Loose

\* The same when the models stay.
LEMMA NearLoose ==
  ASSUME NEW c, NEW W, NEW o, Loose(c, W, o), NEW d \in Core, Near(c, d),
         d.propagated <= Len(d.trail), \A e \in d.clauses : Over(e.lits, d.vars),
         Sound(d, W)
  PROVE  Loose(d, W, o) /\ (Ordered(c.trail) => Ordered(d.trail))
<1>1. c \in Core /\ Known(c) /\ FieldTypes(c)
  BY StructFields DEF Loose
<1>2. c.lemmas \in Seq(LemmaSet)
  BY <1>1 DEF FieldTypes
<1>3. DOMAIN c.lemmas = 1..Len(c.lemmas)
  BY <1>2
<1>4. \A V : Over(V, c.vars) => Over(V, d.vars)
  BY DEF Over, Near
<1>5. \A i \in 1..Len(d.lemmas) : Over(d.lemmas[i].lits, d.vars)
  BY <1>1, <1>3, <1>4 DEF Known, Near
<1>6. More(c, d)
  BY <1>1, <1>5 DEF More, Near, Known
<1> QED
  BY <1>6, MoreLoose

\* On level 0 nothing can be told twice, and there are no reasons out of
\* order: there are none.
LEMMA RootFine ==
  ASSUME NEW c, NEW W, NEW o, Loose(c, W, o), Level(c) = 0
  PROVE  /\ Fine(c, W, TRUE)
         /\ \A i \in DOMAIN c.trail : c.trail[i].level = 0 /\ c.trail[i].reason = None
<1>1. Struct(c) /\ Hears(c) /\ Late(c) /\ Sound(c, W)
  BY DEF Loose
<1>2. Staged(c.trail, c.control) /\ c.trail \in Seq(Entry) /\ Len(c.control) = 0
      /\ DOMAIN c.trail = 1..Len(c.trail)
  BY <1>1, StructFields
<1>3. \A i \in DOMAIN c.trail : c.trail[i].level = 0 /\ c.trail[i].reason = None
  <2>1. \A i \in DOMAIN c.trail : c.trail[i].level \in Nat
    BY <1>2, TrailTypes
  <2> QED
    BY <1>2, <2>1 DEF Staged
<1>4. Ordered(c.trail)
  BY <1>3 DEF Ordered
<1>5. Once(c)
  BY <1>3 DEF Once
<1> QED
  BY <1>1, <1>3, <1>4, <1>5 DEF Fine, Loose

\* The propagator may have missed what is not in O.
Part(c, W, o, O) ==
  /\ Struct(c) /\ Hearing(c, O) /\ O \in SUBSET c.observed
  /\ Late(c) /\ Sound(c, W) /\ (o => Once(c))

\* For all observed variables the two are the same.
LEMMA LoosePart ==
  \A c, W, o : Loose(c, W, o) <=> Part(c, W, o, c.observed)
BY DEF Loose, Part, Hears

\* Going back keeps all of it.
LEMMA BackSound ==
  ASSUME NEW c, NEW W, Struct(c), Late(c), Sound(c, W), NEW L \in Nat,
         NEW d, d = Backtracked(c, L)
  PROVE  /\ BackFacts(c, d, L) /\ Late(d) /\ Sound(d, W)
         /\ Ordered(c.trail) => Ordered(d.trail)
<1>2. BackFacts(c, d, L)
  BY BackStruct
<1>3. Struct(d) /\ Same(c, d) /\ d.conflict = c.conflict
      /\ Level(d) = IF L >= Level(c) THEN Level(c) ELSE L
  BY <1>2 DEF BackFacts
<1>4. PICK g, cut : Selects(d.trail, c.trail, g, L, cut)
  BY <1>2 DEF BackFacts
<1>5. c.trail \in Seq(Entry) /\ d.trail \in Seq(Entry) /\ Level(c) \in Nat
  BY <1>3, StructFields
<1>7. Late(d)
  <2>1. LateOk(d.trail, c.connected, c.observed, c.lemmas, c.reasonOf)
    BY <1>4, <1>5, SelLate DEF Late
  <2> QED
    BY <1>3, <2>1 DEF Late, Same
<1>8. Ordered(c.trail) => Ordered(d.trail)
  BY <1>4, <1>5, SelOrdered
<1>9. \A i \in DOMAIN d.trail : \E j \in DOMAIN c.trail : c.trail[j] = d.trail[i]
  <2>1. \A e : (\E i \in DOMAIN d.trail : d.trail[i] = e)
                     <=> (\E i \in DOMAIN c.trail : c.trail[i] = e /\ e.level <= L)
    BY <1>4, <1>5, SelKeeps
  <2> QED
    BY <2>1, Zenon
<1>10. Sound(d, W)
  <2> SUFFICES ASSUME NEW m \in W
               PROVE
    /\ \A e \in d.clauses : Holds(m, e.lits)
    /\ \A i \in DOMAIN d.trail :
         /\ d.trail[i].level = 0 => Tru(m, d.trail[i].lit)
         /\ d.trail[i].reason \notin {None, External}
              => Holds(m, d.trail[i].reason)
    /\ \A i \in DOMAIN d.lemmas : Holds(m, d.lemmas[i].lits)
    /\ ~d.unsat
    /\ d.conflict # None => Holds(m, d.conflict)
    BY Zenon DEF Sound
  <2>1. /\ \A e \in c.clauses : Holds(m, e.lits)
        /\ \A i \in DOMAIN c.trail :
             /\ c.trail[i].level = 0 => Tru(m, c.trail[i].lit)
             /\ c.trail[i].reason \notin {None, External}
                  => Holds(m, c.trail[i].reason)
        /\ \A i \in DOMAIN c.lemmas : Holds(m, c.lemmas[i].lits)
        /\ ~c.unsat
        /\ c.conflict # None => Holds(m, c.conflict)
    BY Zenon DEF Sound
  <2>2. d.clauses = c.clauses /\ d.lemmas = c.lemmas /\ d.unsat = c.unsat
    BY <1>3 DEF Same
  <2> QED
    BY <1>3, <1>9, <2>1, <2>2, Zenon
<1> QED
  BY <1>2, <1>7, <1>8, <1>10

\* 'backtrack' keeps the invariant,
LEMMA BackPart ==
  ASSUME NEW c, NEW W, NEW o, NEW O, Part(c, W, o, O), NEW L \in Nat,
         NEW d, d = Backtracked(c, L)
  PROVE  /\ BackFacts(c, d, L) /\ Part(d, W, o, O)
         /\ Ordered(c.trail) => Ordered(d.trail)
<1>1. /\ Struct(c) /\ Hearing(c, O) /\ Late(c) /\ Sound(c, W) /\ (o => Once(c))
      /\ O \in SUBSET c.observed
  BY DEF Part
<1>2. BackFacts(c, d, L) /\ Hearing(d, O) /\ (Once(c) => Once(d))
  BY <1>1, BackStruct
<1>3. Late(d) /\ Sound(d, W) /\ (Ordered(c.trail) => Ordered(d.trail))
  BY <1>1, BackSound
<1>4. Struct(d) /\ O \in SUBSET d.observed
  BY <1>1, <1>2 DEF BackFacts, Same
<1> QED
  BY <1>1, <1>2, <1>3, <1>4 DEF Part

\* The same when the propagator has missed nothing.
LEMMA BackFine ==
  ASSUME NEW c, NEW W, NEW o, Loose(c, W, o), NEW L \in Nat,
         NEW d, d = Backtracked(c, L)
  PROVE  /\ BackFacts(c, d, L) /\ Loose(d, W, o)
         /\ Ordered(c.trail) => Ordered(d.trail)
         /\ L = 0 => Level(d) = 0 /\ Fine(d, W, TRUE)
<1>1. Part(c, W, o, c.observed)
  BY LoosePart
<1>2. /\ BackFacts(c, d, L) /\ Part(d, W, o, c.observed)
      /\ Ordered(c.trail) => Ordered(d.trail)
  BY <1>1, BackPart
<1>3. d.observed = c.observed /\ Level(d) = IF L >= Level(c) THEN Level(c) ELSE L
  BY <1>2 DEF BackFacts, Same
<1>4. Loose(d, W, o)
  BY <1>2, <1>3, LoosePart
<1>5. L = 0 => Level(d) = 0 /\ Fine(d, W, TRUE)
  <2>0. Level(c) \in Nat
    BY StructFields DEF Loose
  <2>1. L = 0 => Level(d) = 0
    BY <1>3, <2>0
  <2> QED
    BY <1>4, <2>1, RootFine
<1> QED
  BY <1>2, <1>4, <1>5

\* 'notify_assignments' keeps the invariant, and the propagator has caught up
\* with the trail.
LEMMA NotifiedFine ==
  ASSUME NEW c, NEW W, NEW o, Loose(c, W, o), NEW d, d = Notified(c)
  PROVE  /\ Loose(d, W, o) /\ (Ordered(c.trail) => Ordered(d.trail))
         /\ Same(c, d) /\ d.trail = c.trail /\ d.control = c.control
         /\ d.conflict = c.conflict /\ d.propagated = c.propagated
         /\ Caught(d)
<1>1. Struct(c) /\ Hears(c) /\ Late(c) /\ Sound(c, W) /\ (o => Once(c))
  BY DEF Loose
<1>2. /\ Struct(d) /\ Same(c, d) /\ d.trail = c.trail /\ d.control = c.control
      /\ d.conflict = c.conflict /\ d.propagated = c.propagated
      /\ Listens(c) => d.notified = Len(d.trail)
  BY <1>1, NotifiedStruct
<1>3. Caught(d)
  BY <1>2, SameFacts DEF Caught
<1>4. Hears(d)
  <2>1. c.observed \in SUBSET c.observed /\ d.observed = c.observed
    BY <1>2 DEF Same
  <2> QED
    BY <1>1, <2>1, NotifiedHears DEF Hears
<1>5. Late(d)
  BY <1>1, <1>2 DEF Late, Same
<1>6. Sound(d, W)
  BY <1>1, <1>2 DEF Sound, Same
<1>7. o => Once(d)
  BY <1>1, NotifiedOnce
<1> QED
  BY <1>2, <1>3, <1>4, <1>5, <1>6, <1>7 DEF Loose

-----------------------------------------------------------------------------
(* Values, levels and reasons.                                             *)

\* The entry at position i is the one of the literal l.
SpotIs(c, l, i) ==
  /\ i \in DOMAIN c.trail /\ PosOf(c, l) = i
  /\ LevelOf(c, l) = c.trail[i].level /\ ReasonOf(c, l) = c.trail[i].reason
  /\ c.trail[i].level \in 0..Level(c) /\ c.trail[i].lit \in {l, -l}

\* A literal whose variable is on the trail is found there.
LEMMA Spot ==
  ASSUME NEW c, Struct(c), NEW l \in Lit, NEW i \in DOMAIN c.trail,
         c.trail[i].lit \in {l, -l}
  PROVE  SpotIs(c, l, i) /\ SpotIs(c, -l, i) /\ IsAssigned(c, l)
<1>1. Distinct(c.trail) /\ c.trail \in Seq(Entry) /\ DOMAIN c.trail = 1..Len(c.trail)
      /\ Staged(c.trail, c.control) /\ Level(c) \in Nat
  BY StructFields
<1>2. -l \in Lit /\ -(-l) = l
  BY LitFacts
<1>3. \A j \in DOMAIN c.trail : c.trail[j].lit \in Lit
  BY <1>1, TrailTypes
<1>4. ASSUME NEW j \in DOMAIN c.trail, c.trail[j].lit \in {l, -l}
      PROVE  j = i
  <2>1. c.trail[j].lit \in {c.trail[i].lit, -c.trail[i].lit}
    BY <1>2, <1>4
  <2> QED
    BY <1>1, <2>1, Zenon DEF Distinct
<1>5. PosOf(c, l) = i
  <2>1. \E j : j \in DOMAIN c.trail /\ c.trail[j].lit \in {l, -l}
    OBVIOUS
  <2>2. PosOf(c, l) \in DOMAIN c.trail /\ c.trail[PosOf(c, l)].lit \in {l, -l}
    BY <2>1, Zenon DEF PosOf
  <2> QED
    BY <1>4, <2>2, Zenon
<1>6. PosOf(c, -l) = i
  <2>1. \E j : j \in DOMAIN c.trail /\ c.trail[j].lit \in {-l, -(-l)}
    BY <1>2
  <2>2. PosOf(c, -l) \in DOMAIN c.trail /\ c.trail[PosOf(c, -l)].lit \in {-l, -(-l)}
    BY <2>1, Zenon DEF PosOf
  <2>3. c.trail[PosOf(c, -l)].lit \in {l, -l}
    BY <1>2, <2>2
  <2> QED
    BY <1>4, <2>2, <2>3, Zenon
<1>7. c.trail[i].level \in 0..Level(c)
  <2>1. c.trail[i].level \in Nat /\ c.trail[i].level <= Level(c)
    BY <1>1, TrailTypes DEF Staged, Level
  <2> QED
    BY <1>1, <2>1
<1>8. IsAssigned(c, l)
  BY Zenon DEF IsAssigned, IsTrue, IsFalse, Lits
<1>9. c.trail[i].lit \in {-l, -(-l)}
  BY <1>2
<1> QED
  BY <1>5, <1>6, <1>7, <1>8, <1>9, Zenon DEF SpotIs, LevelOf, ReasonOf

\* What the value, the level, the reason and the position of a literal are, by
\* where it is on the trail.
Valued(c, l) ==
  /\ IsTrue(c, l) => \E i \in DOMAIN c.trail : c.trail[i].lit = l /\ SpotIs(c, l, i)
  /\ IsFalse(c, l) => \E i \in DOMAIN c.trail : c.trail[i].lit = -l /\ SpotIs(c, l, i)
  /\ ~(IsTrue(c, l) /\ IsFalse(c, l))
  /\ IsAssigned(c, l) => LevelOf(c, l) \in 0..Level(c)
                         /\ \E i \in DOMAIN c.trail : SpotIs(c, l, i)
  /\ \A i \in DOMAIN c.trail : (c.trail[i].lit = l => IsTrue(c, l))
                               /\ (c.trail[i].lit = -l => IsFalse(c, l))
  /\ (IsTrue(c, -l) <=> IsFalse(c, l)) /\ (IsFalse(c, -l) <=> IsTrue(c, l))
  /\ LevelOf(c, -l) = LevelOf(c, l) /\ PosOf(c, -l) = PosOf(c, l)
  /\ ReasonOf(c, -l) = ReasonOf(c, l)

\* So it is for every literal.
LEMMA Values ==
  ASSUME NEW c, Struct(c), NEW l \in Lit
  PROVE  Valued(c, l)
<1>0. -l \in Lit /\ -(-l) = l /\ -l # l
  BY LitFacts
<1>1. ASSUME IsTrue(c, l)
      PROVE  \E i \in DOMAIN c.trail : c.trail[i].lit = l /\ SpotIs(c, l, i)
  <2>1. PICK i \in DOMAIN c.trail : c.trail[i].lit = l
    BY <1>1 DEF IsTrue, Lits
  <2> QED
    BY <2>1, Spot
<1>2. ASSUME IsFalse(c, l)
      PROVE  \E i \in DOMAIN c.trail : c.trail[i].lit = -l /\ SpotIs(c, l, i)
  <2>1. PICK i \in DOMAIN c.trail : c.trail[i].lit = -l
    BY <1>2 DEF IsFalse, Lits
  <2> QED
    BY <2>1, Spot
<1>3. ~(IsTrue(c, l) /\ IsFalse(c, l))
  <2>1. ASSUME IsTrue(c, l), IsFalse(c, l) PROVE FALSE
    <3>1. PICK i \in DOMAIN c.trail : c.trail[i].lit = l /\ SpotIs(c, l, i)
      BY <1>1, <2>1
    <3>2. PICK j \in DOMAIN c.trail : c.trail[j].lit = -l /\ SpotIs(c, l, j)
      BY <1>2, <2>1
    <3>3. i = j
      BY <3>1, <3>2, Zenon DEF SpotIs
    <3> QED
      BY <1>0, <3>1, <3>2, <3>3
  <2> QED
    BY <2>1
<1>4. \A i \in DOMAIN c.trail : (c.trail[i].lit = l => IsTrue(c, l))
                               /\ (c.trail[i].lit = -l => IsFalse(c, l))
  BY Zenon DEF IsTrue, IsFalse, Lits
<1>5. (IsTrue(c, -l) <=> IsFalse(c, l)) /\ (IsFalse(c, -l) <=> IsTrue(c, l))
  BY <1>0 DEF IsTrue, IsFalse
<1>6. PosOf(c, -l) = PosOf(c, l)
  <2>1. {-l, -(-l)} = {l, -l}
    BY <1>0
  <2> QED
    BY <2>1, Zenon DEF PosOf
<1>7. LevelOf(c, -l) = LevelOf(c, l) /\ ReasonOf(c, -l) = ReasonOf(c, l)
  BY <1>6 DEF LevelOf, ReasonOf
<1>8. ASSUME IsAssigned(c, l)
      PROVE  LevelOf(c, l) \in 0..Level(c)
             /\ \E i \in DOMAIN c.trail : SpotIs(c, l, i)
  <2>1. PICK i \in DOMAIN c.trail : SpotIs(c, l, i)
    BY <1>1, <1>2, <1>8, Zenon DEF IsAssigned
  <2> QED
    BY <2>1 DEF SpotIs
<1> QED
  BY <1>1, <1>2, <1>3, <1>4, <1>5, <1>6, <1>7, <1>8, Zenon DEF Valued

\* n is the highest level of the literals ls.
MaxLevelIs(c, ls, n) ==
  /\ n = MaxLevel(c, ls) /\ n \in 0..Level(c)
  /\ \A l \in ls : LevelOf(c, l) <= n /\ LevelOf(c, l) \in 0..Level(c)
  /\ n = 0 \/ \E l \in ls : LevelOf(c, l) = n

\* MaxLevel computes it.
LEMMA MaxLevels ==
  ASSUME NEW c, Struct(c), NEW ls \in SUBSET Lit, \A l \in ls : IsAssigned(c, l)
  PROVE  MaxLevelIs(c, ls, MaxLevel(c, ls))
<1> DEFINE S == {0} \cup {LevelOf(c, l) : l \in ls}
           N == Level(c)
<1>1. N \in Nat
  BY StructFields
<1>2. \A l \in ls : LevelOf(c, l) \in 0..N
  BY Values DEF Valued
<1>3. S \in SUBSET (0..N) /\ S # {}
  BY <1>1, <1>2
<1>4. Max(S) \in S /\ \A x \in S : x <= Max(S)
  <2> HIDE DEF S, N
  <2> QED
    BY <1>1, <1>3, MaxFacts
<1>5. MaxLevel(c, ls) = Max(S)
  BY DEF MaxLevel
<1>6. \A l \in ls : LevelOf(c, l) \in S
  OBVIOUS
<1>7. Max(S) = 0 \/ \E l \in ls : LevelOf(c, l) = Max(S)
  BY <1>4
<1> HIDE DEF S
<1> QED
  BY <1>2, <1>3, <1>4, <1>5, <1>6, <1>7 DEF MaxLevelIs

-----------------------------------------------------------------------------
(* A literal is assigned.                                                  *)

\* The other literals of the clause are false, on levels up to this one.
Blames(c, l, level, cl) ==
  l \in cl /\ \A k \in cl \ {l} : IsFalse(c, k) /\ LevelOf(c, k) <= level

\* What a caller of 'search_assign' has to make sure of: the literal has no
\* value yet, it follows from the models when it is fixed, a literal without a
\* reason is a decision, and the clause it is propagated by blames it on
\* literals that are false on levels not above its own.
AssignOk(c, W, l, level, reason) ==
  /\ l \in Lit /\ Abs(l) \in c.vars /\ ~IsAssigned(c, l) /\ level \in 0..Level(c)
  /\ reason \in Clause \cup {External}
  /\ level = 0 => \A m \in W : Tru(m, l)
  /\ level > 0 /\ reason = None => c.control[level] = Len(c.trail)
  /\ level > 0 /\ reason = External =>
       /\ c.connected /\ Abs(l) \in c.observed /\ c.reasonOf[l] # 0
       /\ Blames(c, l, level, c.lemmas[c.reasonOf[l]].lits)
  /\ level > 0 /\ reason \notin {None, External} =>
       Blames(c, l, level, reason) /\ \A m \in W : Holds(m, reason)

\* What 'search_assign' has changed.
Assigned(c, d, l, level, reason) ==
  /\ d.trail = Append(c.trail, [lit |-> l, level |-> level,
                        reason |-> IF level = 0 THEN None ELSE reason])
  /\ Same(c, d) /\ d.control = c.control /\ d.heard = c.heard
  /\ d.notified = c.notified /\ d.propagated = c.propagated
  /\ d.conflict = c.conflict

\* It changes that.
LEMMA AssignIs ==
  ASSUME NEW c, IsState(c), FieldTypes(c), NEW l \in Lit, NEW level \in Nat,
         NEW reason \in Clause \cup {External}, NEW d, d = Assign(c, l, level, reason)
  PROVE  d \in Core /\ Assigned(c, d, l, level, reason)
<1> DEFINE e == [lit |-> l, level |-> level,
                 reason |-> IF level = 0 THEN None ELSE reason]
           t == Append(c.trail, e)
           b == [c EXCEPT !.trail = t]
<1>1. d = b
  BY DEF Assign
<1>2. None \in Clause
  BY DEF None, Clause
<1>3. e \in Entry
  BY <1>2, EntryFacts
<1>4. t \in Seq(Entry)
  <2> HIDE DEF e
  <2> DEFINE T == Entry
  <2>1. c.trail \in Seq(T) /\ e \in T
    BY <1>3 DEF FieldTypes
  <2> HIDE DEF T
  <2>2. Append(c.trail, e) \in Seq(T)
    BY <2>1
  <2> QED
    BY <2>2 DEF T
<1> HIDE DEF t
<1>5. IsState(b)
  BY Puts
<1>6. /\ Same(c, b) /\ b.trail = t /\ b.control = c.control /\ b.heard = c.heard
      /\ b.notified = c.notified /\ b.propagated = c.propagated
      /\ b.conflict = c.conflict
  BY SMT DEF IsState, Fields, Same
<1> HIDE DEF b
<1>7. FieldTypes(b)
  BY <1>4, <1>6 DEF FieldTypes, Same
<1>8. b \in Core
  BY <1>5, <1>7, StateCore
<1> QED
  BY <1>1, <1>6, <1>8 DEF Assigned, t

\* The trail s has the entry e behind those of t.
AppendFacts(t, s, e) ==
  /\ s \in Seq(Entry) /\ Len(s) = Len(t) + 1 /\ Len(t) \in Nat
  /\ DOMAIN s = 1..Len(t) + 1 /\ DOMAIN t = 1..Len(t) /\ s[Len(t) + 1] = e
  /\ \A i \in 1..Len(t) : s[i] = t[i] /\ i \in DOMAIN s
  /\ \A i \in DOMAIN s : i \in DOMAIN t \/ i = Len(t) + 1

\* Append does this.
LEMMA Appends ==
  ASSUME NEW t \in Seq(Entry), NEW e \in Entry, NEW s, s = Append(t, e)
  PROVE  AppendFacts(t, s, e)
<1> DEFINE T == Entry
<1>1. t \in Seq(T) /\ e \in T
  OBVIOUS
<1> HIDE DEF T
<1>2. /\ s \in Seq(T) /\ Len(s) = Len(t) + 1 /\ Len(t) \in Nat
      /\ DOMAIN s = 1..Len(t) + 1 /\ DOMAIN t = 1..Len(t) /\ s[Len(t) + 1] = e
      /\ \A i \in 1..Len(t) : s[i] = t[i] /\ i \in DOMAIN s
      /\ \A i \in DOMAIN s : i \in DOMAIN t \/ i = Len(t) + 1
  BY <1>1
<1> QED
  BY <1>2 DEF T, AppendFacts

\* A justification needs nothing that comes later.
LEMMA AppendJustified ==
  ASSUME NEW t, NEW s, NEW e, AppendFacts(t, s, e), NEW i \in DOMAIN t, NEW cl,
         Justified(t, i, cl)
  PROVE  Justified(s, i, cl)
<1>1. /\ Len(t) \in Nat /\ DOMAIN t = 1..Len(t)
      /\ \A j \in 1..Len(t) : s[j] = t[j]
  BY DEF AppendFacts
<1>2. ASSUME NEW l \in cl \ {t[i].lit} PROVE FalseBefore(s, i, l)
  <2>1. PICK j \in 1..i - 1 : t[j].lit = -l /\ t[j].level <= t[i].level
    BY DEF Justified, FalseBefore
  <2>2. s[j] = t[j] /\ s[i] = t[i]
    BY <1>1
  <2> QED
    BY <2>1, <2>2 DEF FalseBefore
<1>3. s[i] = t[i] /\ t[i].lit \in cl
  BY <1>1 DEF Justified
<1> QED
  BY <1>2, <1>3 DEF Justified

\* The clause that blames the new literal justifies it.
LEMMA BlamesJustifies ==
  ASSUME NEW c, Struct(c), NEW l \in Lit, NEW level \in Nat, NEW r,
         NEW e, e = [lit |-> l, level |-> level, reason |-> r],
         NEW s, AppendFacts(c.trail, s, e), NEW cl \in Clause,
         Blames(c, l, level, cl)
  PROVE  Justified(s, Len(c.trail) + 1, cl)
<1> DEFINE n == Len(c.trail) + 1
<1>1. /\ s[n] = e /\ Len(c.trail) \in Nat /\ DOMAIN c.trail = 1..Len(c.trail)
      /\ \A i \in 1..Len(c.trail) : s[i] = c.trail[i]
  BY DEF AppendFacts
<1>2. s[n].lit = l /\ s[n].level = level
  BY <1>1
<1>3. ASSUME NEW k \in cl \ {l} PROVE FalseBefore(s, n, k)
  <2>1. k \in Lit /\ IsFalse(c, k) /\ LevelOf(c, k) <= level
    BY DEF Blames, Clause
  <2>2. PICK i \in DOMAIN c.trail : c.trail[i].lit = -k /\ SpotIs(c, k, i)
    BY <2>1, Values DEF Valued
  <2>3. c.trail[i].level <= level
    BY <2>1, <2>2 DEF SpotIs
  <2>4. i \in 1..n - 1 /\ s[i] = c.trail[i]
    BY <1>1
  <2> HIDE DEF n
  <2> QED
    BY <1>2, <2>2, <2>3, <2>4 DEF FalseBefore
<1> HIDE DEF n
<1>4. l \in cl
  BY DEF Blames
<1>5. Justified(s, n, cl)
  BY <1>2, <1>3, <1>4 DEF Justified
<1> QED
  BY <1>5 DEF n

\* After it the data structures still fit together.
LEMMA AssignStruct ==
  ASSUME NEW c, NEW W, Struct(c), NEW l, NEW level, NEW reason,
         AssignOk(c, W, l, level, reason), NEW d, d = Assign(c, l, level, reason)
  PROVE  Struct(d) /\ Assigned(c, d, l, level, reason)
<1> DEFINE e == [lit |-> l, level |-> level,
                 reason |-> IF level = 0 THEN None ELSE reason]
           t == c.trail
           s == d.trail
           k == c.control
<1>1. /\ IsState(c) /\ FieldTypes(c) /\ Level(c) \in Nat /\ t \in Seq(Entry)
      /\ Distinct(t) /\ Staged(t, k) /\ Known(c) /\ Level(c) = Len(k)
      /\ DOMAIN k = 1..Len(k) /\ \A a \in 1..Len(k) : k[a] \in Nat
  BY StructFields
<1>2. /\ l \in Lit /\ level \in Nat /\ level <= Len(k) /\ reason \in Clause \cup {External}
      /\ ~IsAssigned(c, l) /\ Abs(l) \in c.vars
      /\ level > 0 /\ reason = None => k[level] = Len(t)
  BY <1>1 DEF AssignOk
<1>3. d \in Core /\ Assigned(c, d, l, level, reason)
  BY <1>1, <1>2, AssignIs
<1>4. s = Append(t, e) /\ Same(c, d) /\ d.control = k /\ d.heard = c.heard
      /\ d.notified = c.notified /\ d.propagated = c.propagated
      /\ d.conflict = c.conflict
  BY <1>3 DEF Assigned
<1>5. None \in Clause
  BY DEF None, Clause
<1>6. e \in Entry /\ e.lit = l /\ e.level = level
      /\ e.reason = IF level = 0 THEN None ELSE reason
  BY <1>2, <1>5, EntryFacts
<1> HIDE DEF e
<1>7. AppendFacts(t, s, e)
  BY <1>1, <1>4, <1>6, Appends
<1>8. \A i \in DOMAIN t : t[i].lit # l /\ t[i].lit # -l /\ t[i].lit \in Lit
  <2>1. \A i \in DOMAIN t : t[i].lit \in Lit
    BY <1>1, TrailTypes
  <2> QED
    BY <1>2, <2>1, Zenon DEF IsAssigned, IsTrue, IsFalse, Lits
<1> HIDE DEF s, t, k
<1>9. /\ s \in Seq(Entry) /\ Len(s) = Len(t) + 1 /\ Len(t) \in Nat
      /\ DOMAIN s = 1..Len(t) + 1 /\ DOMAIN t = 1..Len(t) /\ s[Len(t) + 1] = e
      /\ \A i \in 1..Len(t) : s[i] = t[i] /\ i \in DOMAIN s
      /\ \A i \in DOMAIN s : i \in DOMAIN t \/ i = Len(t) + 1
  BY <1>7 DEF AppendFacts
<1>10. Distinct(s)
  <2> SUFFICES ASSUME NEW i \in DOMAIN s, NEW j \in DOMAIN s,
                      s[i].lit \in {s[j].lit, -s[j].lit}
               PROVE  i = j
    BY DEF Distinct
  <2>1. CASE i \in DOMAIN t /\ j \in DOMAIN t
    <3>1. t[i].lit \in {t[j].lit, -t[j].lit}
      BY <1>9, <2>1
    <3> QED
      BY <1>1, <2>1, <3>1, Zenon DEF Distinct
  <2>2. CASE i \in DOMAIN t /\ j = Len(t) + 1
    BY <1>6, <1>8, <1>9, <2>2
  <2>3. CASE i = Len(t) + 1 /\ j \in DOMAIN t
    <3>1. t[j].lit \in Lit /\ t[j].lit # l /\ t[j].lit # -l /\ l \in {t[j].lit, -t[j].lit}
      BY <1>6, <1>8, <1>9, <2>3
    <3>2. -(-t[j].lit) = t[j].lit
      BY <3>1, LitFacts
    <3> QED
      BY <3>1, <3>2
  <2> QED
    BY <1>9, <2>1, <2>2, <2>3
<1>11. Staged(s, k)
  <2>1. /\ \A a, b \in DOMAIN k : a <= b => k[a] <= k[b]
        /\ \A a \in DOMAIN k : k[a] <= Len(t)
        /\ \A i \in DOMAIN t :
             /\ t[i].level <= Len(k)
             /\ t[i].level = 0 => t[i].reason = None
             /\ t[i].reason = None /\ t[i].level > 0 => i = k[t[i].level] + 1
             /\ \A a \in DOMAIN k : i <= k[a] => t[i].level < a
    BY <1>1 DEF Staged
  <2>2. \A a \in DOMAIN k : k[a] <= Len(s)
    BY <1>1, <1>9, <2>1
  <2>3. ASSUME NEW i \in DOMAIN s
        PROVE  /\ s[i].level <= Len(k)
               /\ s[i].level = 0 => s[i].reason = None
               /\ s[i].reason = None /\ s[i].level > 0 => i = k[s[i].level] + 1
               /\ \A a \in DOMAIN k : i <= k[a] => s[i].level < a
    <3>1. CASE i \in DOMAIN t
      <4>1. s[i] = t[i]
        BY <1>9, <3>1
      <4> QED
        BY <2>1, <3>1, <4>1
    <3>2. CASE i = Len(t) + 1
      <4>1. s[i] = e
        BY <1>9, <3>2
      <4>2. \A a \in DOMAIN k : ~(i <= k[a])
        BY <1>1, <1>9, <2>1, <3>2
      <4> QED
        BY <1>2, <1>6, <3>2, <4>1, <4>2 DEF t
    <3> QED
      BY <1>9, <3>1, <3>2
  <2> QED
    BY <2>1, <2>2, <2>3 DEF Staged
<1>12. Known(d)
  <2>1. \A i \in DOMAIN s : Abs(s[i].lit) \in c.vars
    <3>1. \A i \in DOMAIN t : Abs(t[i].lit) \in c.vars
      BY <1>1 DEF Known, t
    <3> QED
      BY <1>2, <1>6, <1>9, <3>1
  <2>2. d.propagated <= Len(s) /\ d.notified <= Len(s)
    <3>1. c.propagated <= Len(t) /\ c.notified <= Len(t) /\ c.propagated \in Nat
          /\ c.notified \in Nat
      BY <1>1 DEF Known, FieldTypes, t
    <3> QED
      BY <1>4, <1>9, <3>1
  <2> QED
    BY <1>1, <1>4, <2>1, <2>2 DEF Known, Same, s
<1>13. Struct(d)
  <2>1. Listens(d) <=> Listens(c)
    BY <1>4, SameFacts
  <2>2. Level(d) = Level(c)
    BY <1>4 DEF Level, k
  <2> QED
    BY <1>3, <1>4, <1>10, <1>11, <1>12, <2>1, <2>2 DEF Struct, Same, s, k
<1> QED
  BY <1>3, <1>13

\* 'search_assign' keeps the invariant for the callers that make sure of its
\* conditions.
LEMMA AssignFine ==
  ASSUME NEW c, NEW W, NEW o, Loose(c, W, o), NEW l, NEW level, NEW reason,
         AssignOk(c, W, l, level, reason), NEW d, d = Assign(c, l, level, reason)
  PROVE  /\ Loose(d, W, o) /\ (Ordered(c.trail) => Ordered(d.trail))
         /\ Assigned(c, d, l, level, reason)
<1>0. Struct(c) /\ Hears(c) /\ Late(c) /\ Sound(c, W) /\ (o => Once(c))
  BY DEF Loose
<1> DEFINE r == IF level = 0 THEN None ELSE reason
           e == [lit |-> l, level |-> level, reason |-> r]
           t == c.trail
           s == d.trail
           k == c.control
           n == Len(t) + 1
<1>1. Struct(d) /\ Assigned(c, d, l, level, reason)
  BY <1>0, AssignStruct
<1>2. /\ t \in Seq(Entry) /\ Level(c) \in Nat /\ c.notified \in Nat
      /\ c.notified <= Len(t) /\ Len(t) \in Nat /\ FieldTypes(c) /\ Known(c)
      /\ DOMAIN k = 1..Level(c) /\ DOMAIN t = 1..Len(t)
  BY <1>0, StructFields
<1>3. /\ l \in Lit /\ level \in Nat /\ level <= Level(c) /\ reason \in Clause \cup {External}
      /\ ~IsAssigned(c, l)
  BY <1>2 DEF AssignOk
<1>4. None \in Clause
  BY DEF None, Clause
<1>5. e \in Entry /\ e.lit = l /\ e.level = level /\ e.reason = r
      /\ r \in Clause \cup {External}
  <2>1. r \in Clause \cup {External}
    BY <1>3, <1>4
  <2> HIDE DEF r
  <2> QED
    BY <1>3, <2>1, EntryFacts
<1>6. s = Append(t, e) /\ Same(c, d) /\ d.control = k /\ d.heard = c.heard
      /\ d.notified = c.notified /\ d.conflict = c.conflict
  BY <1>1 DEF Assigned
<1>7. AppendFacts(t, s, e)
  <2> HIDE DEF e
  <2> QED
    BY <1>2, <1>5, <1>6, Appends
<1>8. \A i \in DOMAIN t : t[i].lit # l /\ t[i].lit # -l
  BY <1>3, Zenon DEF IsAssigned, IsTrue, IsFalse, Lits
<1>9. \A cl \in Clause : Blames(c, l, level, cl) => Justified(s, n, cl)
  <2> HIDE DEF r, s, t
  <2> QED
    BY <1>0, <1>3, <1>7, BlamesJustifies DEF t
<1>10. r # None => level > 0 /\ r = reason
  BY <1>3
<1>11. Listens(d) <=> Listens(c)
  BY <1>6, SameFacts
<1> HIDE DEF e, s, t, k, r
<1>12. /\ Len(s) = Len(t) + 1
       /\ DOMAIN s = 1..Len(t) + 1 /\ DOMAIN t = 1..Len(t) /\ s[Len(t) + 1] = e
       /\ \A i \in 1..Len(t) : s[i] = t[i] /\ i \in DOMAIN s
       /\ \A i \in DOMAIN s : i \in DOMAIN t \/ i = Len(t) + 1
  BY <1>7 DEF AppendFacts
<1>13. \A i \in DOMAIN t : \A cl : Justified(t, i, cl) => Justified(s, i, cl)
  BY <1>7, AppendJustified
<1>14. Ordered(t) => Ordered(s)
  <2> SUFFICES ASSUME Ordered(t), NEW i \in DOMAIN s,
                      s[i].reason \notin {None, External}
               PROVE  Justified(s, i, s[i].reason)
    BY DEF Ordered
  <2>1. CASE i \in DOMAIN t
    <3>1. s[i] = t[i]
      BY <1>12, <2>1
    <3>2. Justified(t, i, t[i].reason)
      BY <2>1, <3>1 DEF Ordered
    <3> QED
      BY <1>13, <2>1, <3>1, <3>2
  <2>2. CASE i = n
    <3>1. s[i] = e /\ r \notin {None, External}
      BY <1>5, <1>12, <2>2
    <3>2. Blames(c, l, level, r) /\ r \in Clause
      BY <1>5, <1>10, <3>1 DEF AssignOk
    <3>3. Justified(s, n, r)
      BY <1>9, <3>2
    <3> QED
      BY <1>5, <2>2, <3>1, <3>3
  <2> QED
    BY <1>12, <2>1, <2>2
<1>15. Late(d)
  <2>1. \A i \in DOMAIN t : t[i].reason = External =>
          /\ c.connected /\ Abs(t[i].lit) \in c.observed /\ c.reasonOf[t[i].lit] # 0
          /\ Justified(t, i, c.lemmas[c.reasonOf[t[i].lit]].lits)
    BY <1>0 DEF Late, LateOk, t
  <2>2. ASSUME NEW i \in DOMAIN s, s[i].reason = External
        PROVE  /\ c.connected /\ Abs(s[i].lit) \in c.observed /\ c.reasonOf[s[i].lit] # 0
               /\ Justified(s, i, c.lemmas[c.reasonOf[s[i].lit]].lits)
    <3>1. CASE i \in DOMAIN t
      <4>1. s[i] = t[i]
        BY <1>12, <3>1
      <4>2. c.connected /\ Abs(t[i].lit) \in c.observed /\ c.reasonOf[t[i].lit] # 0
            /\ Justified(t, i, c.lemmas[c.reasonOf[t[i].lit]].lits)
        BY <2>1, <2>2, <3>1, <4>1
      <4> QED
        BY <1>13, <3>1, <4>1, <4>2
    <3>2. CASE i = n
      <4>1. s[i] = e /\ r = External /\ r # None
        BY <1>5, <1>12, <2>2, <3>2, VarFacts
      <4>2. c.connected /\ Abs(l) \in c.observed /\ c.reasonOf[l] # 0
            /\ Blames(c, l, level, c.lemmas[c.reasonOf[l]].lits)
        BY <1>10, <4>1 DEF AssignOk
      <4>3. c.lemmas[c.reasonOf[l]].lits \in Clause
        <5>1. c.reasonOf[l] \in 1..Len(c.lemmas) /\ c.lemmas \in Seq(LemmaSet)
          BY <1>2, <1>3, <4>2 DEF Known, FieldTypes
        <5>2. c.lemmas[c.reasonOf[l]] \in LemmaSet
          BY <5>1
        <5> QED
          BY <5>2 DEF LemmaSet
      <4>4. Justified(s, n, c.lemmas[c.reasonOf[l]].lits)
        BY <1>9, <4>2, <4>3
      <4> QED
        BY <1>5, <3>2, <4>1, <4>2, <4>4
    <3> QED
      BY <1>12, <3>1, <3>2
  <2>3. LateOk(s, c.connected, c.observed, c.lemmas, c.reasonOf)
    BY <2>2, Zenon DEF LateOk
  <2> QED
    BY <1>6, <2>3 DEF Late, Same, s
<1>16. Sound(d, W)
  <2> SUFFICES ASSUME NEW m \in W
               PROVE
    /\ \A f \in d.clauses : Holds(m, f.lits)
    /\ \A i \in DOMAIN s :
         /\ s[i].level = 0 => Tru(m, s[i].lit)
         /\ s[i].reason \notin {None, External} => Holds(m, s[i].reason)
    /\ \A i \in DOMAIN d.lemmas : Holds(m, d.lemmas[i].lits)
    /\ ~d.unsat
    /\ d.conflict # None => Holds(m, d.conflict)
    BY Zenon DEF Sound, s
  <2>1. /\ \A f \in c.clauses : Holds(m, f.lits)
        /\ \A i \in DOMAIN t :
             /\ t[i].level = 0 => Tru(m, t[i].lit)
             /\ t[i].reason \notin {None, External} => Holds(m, t[i].reason)
        /\ \A i \in DOMAIN c.lemmas : Holds(m, c.lemmas[i].lits)
        /\ ~c.unsat
        /\ c.conflict # None => Holds(m, c.conflict)
    BY <1>0, Zenon DEF Sound, t
  <2>2. d.clauses = c.clauses /\ d.lemmas = c.lemmas /\ d.unsat = c.unsat
    BY <1>6 DEF Same
  <2>3. ASSUME NEW i \in DOMAIN s
        PROVE  /\ s[i].level = 0 => Tru(m, s[i].lit)
               /\ s[i].reason \notin {None, External} => Holds(m, s[i].reason)
    <3>1. CASE i \in DOMAIN t
      <4>1. s[i] = t[i]
        BY <1>12, <3>1
      <4> QED
        BY <2>1, <3>1, <4>1
    <3>2. CASE i = n
      <4>1. s[i] = e
        BY <1>12, <3>2
      <4>2. level = 0 => Tru(m, l)
        BY DEF AssignOk
      <4>3. r \notin {None, External} => Holds(m, r)
        BY <1>10 DEF AssignOk
      <4> QED
        BY <1>5, <4>1, <4>2, <4>3
    <3> QED
      BY <1>12, <3>1, <3>2
  <2> QED
    BY <1>6, <2>1, <2>2, <2>3
<1>17. /\ \A a \in DOMAIN c.heard : \A x \in DOMAIN c.heard[a] :
            \E i \in DOMAIN t : t[i].lit = c.heard[a][x] /\ t[i].level < a
       /\ HeardAll(t, k, c.heard, c.notified, c.observed)
       /\ Listens(c) => \A b \in DOMAIN k : k[b] <= c.notified
  BY <1>0 DEF Hears, Hearing, HeardTrue, t, k
<1>18. Hears(d)
  <2>1. HeardTrue(s, c.heard)
    <3> SUFFICES ASSUME NEW a \in DOMAIN c.heard, NEW x \in DOMAIN c.heard[a]
                 PROVE  \E i \in DOMAIN s : s[i].lit = c.heard[a][x] /\ s[i].level < a
      BY DEF HeardTrue
    <3>1. PICK i \in DOMAIN t : t[i].lit = c.heard[a][x] /\ t[i].level < a
      BY <1>17
    <3>2. s[i] = t[i] /\ i \in DOMAIN s
      BY <1>12
    <3> QED
      BY <3>1, <3>2
  <2>2. HeardAll(s, k, c.heard, c.notified, c.observed)
    <3> SUFFICES ASSUME NEW j \in 1..c.notified, Abs(s[j].lit) \in c.observed
                 PROVE  ToldFor(s, k, c.heard, j)
      BY DEF HeardAll
    <3>1. s[j] = t[j]
      BY <1>2, <1>12
    <3>2. ToldFor(t, k, c.heard, j)
      BY <1>17, <3>1 DEF HeardAll
    <3> QED
      BY <3>1, <3>2 DEF ToldFor
  <2> QED
    BY <1>6, <1>11, <1>17, <2>1, <2>2 DEF Hears, Hearing, Same, s, k
<1>19. o => Once(d)
  <2>1. ASSUME Once(c) PROVE OnceIn(s, k, c.heard, c.notified)
    <3>1. OnceIn(t, k, c.heard, c.notified)
      BY <2>1, OnceIs DEF t, k
    <3>2. ASSUME NEW a \in DOMAIN c.heard, NEW x \in DOMAIN c.heard[a],
                 NEW j \in DOMAIN s, c.heard[a][x] = s[j].lit
          PROVE  j \in DOMAIN t /\ s[j] = t[j]
      <4>1. PICK i \in DOMAIN t : t[i].lit = c.heard[a][x]
        BY <1>17
      <4>2. j # n
        BY <1>5, <1>8, <1>12, <3>2, <4>1
      <4> QED
        BY <1>12, <4>2
    <3>3. ASSUME NEW a \in DOMAIN c.heard, NEW x \in DOMAIN c.heard[a],
                 NEW j \in DOMAIN s, c.heard[a][x] = s[j].lit, s[j].level > 0
          PROVE
      /\ j <= c.notified
      /\ \A b \in DOMAIN k : a <= b => j <= k[b]
      /\ \A a2 \in DOMAIN c.heard : \A y \in DOMAIN c.heard[a2] :
           c.heard[a2][y] = s[j].lit => a2 = a /\ y = x
      <4>1. j \in DOMAIN t /\ s[j] = t[j]
        BY <3>2, <3>3
      <4> QED
        BY <3>1, <3>3, <4>1 DEF OnceIn
    <3> QED
      BY <3>3, Zenon DEF OnceIn
  <2> QED
    BY <1>0, <1>6, <2>1, OnceIs DEF s, k
<1> QED
  BY <1>1, <1>14, <1>15, <1>16, <1>18, <1>19 DEF Loose, s, t

-----------------------------------------------------------------------------
(* Propagation.                                                            *)

\* What is false at the root is false in every model.
LEMMA FixedFalse ==
  ASSUME NEW c, NEW W, Struct(c), Sound(c, W), NEW m \in W, NEW k \in Lit,
         IsFalse(c, k), LevelOf(c, k) = 0
  PROVE  ~Tru(m, k)
<1>1. PICK i \in DOMAIN c.trail : c.trail[i].lit = -k /\ SpotIs(c, k, i)
  BY Values DEF Valued
<1>2. Tru(m, -k)
  BY <1>1 DEF SpotIs, Sound
<1> QED
  BY <1>2, TruFacts

\* A clause holds in a model when one of its literals is true in it.
LEMMA HoldsTru ==
  \A m, cl : Holds(m, cl) <=> \E l \in cl : Tru(m, l)
  BY DEF Holds, Tru

\* A clause with one literal left, which is implied.
ImpliedOk(c, W, l, cl) ==
  /\ cl \in Clause /\ l \in cl /\ Abs(l) \in c.vars /\ ~IsAssigned(c, l)
  /\ \A k \in cl \ {l} : IsFalse(c, k)
  /\ \A m \in W : Holds(m, cl)

\* The level of a propagated literal: with opts.chrono the highest of the
\* others.
ImpliedLevel(c, l, cl) == IF c.chrono THEN MaxLevel(c, cl \ {l}) ELSE Level(c)

\* A literal that is the only one left of a clause may be assigned with that
\* clause as reason.
LEMMA ImpliedFine ==
  ASSUME NEW c, NEW W, NEW o, Loose(c, W, o), NEW l, NEW cl, ImpliedOk(c, W, l, cl),
         NEW d, d = Implied(c, l, cl)
  PROVE  /\ Loose(d, W, o) /\ (Ordered(c.trail) => Ordered(d.trail))
         /\ Assigned(c, d, l, ImpliedLevel(c, l, cl), cl)
         /\ ImpliedLevel(c, l, cl) \in 0..Level(c)
<1> DEFINE n == ImpliedLevel(c, l, cl)
<1>1. d = Assign(c, l, n, cl)
  BY DEF Implied, ImpliedLevel
<1>2. /\ cl \in Clause /\ l \in cl /\ Abs(l) \in c.vars /\ ~IsAssigned(c, l)
      /\ \A k \in cl \ {l} : IsFalse(c, k)
      /\ \A m \in W : Holds(m, cl)
  BY DEF ImpliedOk
<1>3. Struct(c) /\ Sound(c, W)
  BY DEF Loose
<1>4. cl \subseteq Lit /\ l \in Lit
  BY <1>2 DEF Clause
<1>5. \A k \in cl \ {l} : k \in Lit /\ IsAssigned(c, k)
  BY <1>2, <1>4 DEF IsAssigned
<1>6. MaxLevelIs(c, cl \ {l}, MaxLevel(c, cl \ {l}))
  <2>1. cl \ {l} \in SUBSET Lit
    BY <1>4
  <2> QED
    BY <1>3, <1>5, <2>1, MaxLevels
<1>7. Level(c) \in Nat
  BY <1>3, StructFields
<1>8. n \in 0..Level(c) /\ \A k \in cl \ {l} : LevelOf(c, k) <= n
                           /\ LevelOf(c, k) \in 0..Level(c)
  BY <1>6, <1>7 DEF MaxLevelIs, ImpliedLevel
<1>9. ASSUME n = 0, NEW m \in W PROVE Tru(m, l)
  <2>1. PICK k \in cl : Tru(m, k)
    BY <1>2, HoldsTru
  <2>2. CASE k # l
    <3>1. IsFalse(c, k) /\ LevelOf(c, k) = 0 /\ k \in Lit
      BY <1>2, <1>5, <1>7, <1>8, <1>9, <2>2
    <3> QED
      BY <1>3, <2>1, <3>1, FixedFalse
  <2> QED
    BY <2>1, <2>2
<1>10. cl # None /\ cl # External
  <2>1. cl # None
    BY <1>2 DEF None
  <2> QED
    BY <1>2, <2>1, VarFacts
<1>11. Blames(c, l, n, cl)
  BY <1>2, <1>8 DEF Blames
<1> HIDE DEF n
<1>12. AssignOk(c, W, l, n, cl)
  BY <1>2, <1>4, <1>8, <1>9, <1>10, <1>11 DEF AssignOk
<1> QED
  BY <1>1, <1>8, <1>12, AssignFine DEF n

\* The trail only grows.
Grown(c, d) ==
  /\ Same(c, d) /\ d.control = c.control /\ d.heard = c.heard
  /\ d.notified = c.notified
  /\ Len(c.trail) <= Len(d.trail)
  /\ \A i \in 1..Len(c.trail) : d.trail[i] = c.trail[i]

\* This is reflexive and transitive.
LEMMA GrownFacts ==
  /\ \A c : c.trail \in Seq(Entry) => Grown(c, c)
  /\ \A c, d, e : c.trail \in Seq(Entry) /\ d.trail \in Seq(Entry)
                    /\ e.trail \in Seq(Entry) /\ Grown(c, d) /\ Grown(d, e)
                    => Grown(c, e)
<1>1. ASSUME NEW c, c.trail \in Seq(Entry) PROVE Grown(c, c)
  <2>1. Len(c.trail) \in Nat
    BY <1>1, TrailTypes
  <2> QED
    BY <2>1, SameFacts DEF Grown
<1>2. ASSUME NEW c, NEW d, NEW e, c.trail \in Seq(Entry), d.trail \in Seq(Entry),
             e.trail \in Seq(Entry), Grown(c, d), Grown(d, e)
      PROVE  Grown(c, e)
  <2>1. Len(c.trail) \in Nat /\ Len(d.trail) \in Nat /\ Len(e.trail) \in Nat
    BY <1>2, TrailTypes
  <2>2. Same(c, e)
    BY <1>2, SameFacts, Zenon DEF Grown
  <2>3. Len(c.trail) <= Len(e.trail) /\ \A i \in 1..Len(c.trail) : i \in 1..Len(d.trail)
    BY <1>2, <2>1 DEF Grown
  <2> QED
    BY <1>2, <2>2, <2>3 DEF Grown
<1> QED
  BY <1>1, <1>2

\* 'search_assign' adds one entry.
LEMMA AssignedGrown ==
  ASSUME NEW c, NEW d, NEW l \in Lit, NEW level \in Nat, NEW r \in Clause \cup {External},
         c.trail \in Seq(Entry), Assigned(c, d, l, level, r)
  PROVE  /\ Grown(c, d) /\ Len(d.trail) = Len(c.trail) + 1
         /\ d.trail[Len(d.trail)].lit = l /\ d.trail[Len(d.trail)].level = level
         /\ d.trail[Len(d.trail)].reason = IF level = 0 THEN None ELSE r
<1> DEFINE e == [lit |-> l, level |-> level, reason |-> IF level = 0 THEN None ELSE r]
<1>1. e \in Entry /\ e.lit = l /\ e.level = level /\ e.reason = IF level = 0 THEN None ELSE r
  <2>1. (IF level = 0 THEN None ELSE r) \in Clause \cup {External}
    BY DEF None, Clause
  <2> QED
    BY <2>1, EntryFacts
<1>2. d.trail = Append(c.trail, e) /\ Same(c, d) /\ d.control = c.control
      /\ d.heard = c.heard /\ d.notified = c.notified
  BY DEF Assigned
<1> HIDE DEF e
<1>3. AppendFacts(c.trail, d.trail, e)
  BY <1>1, <1>2, Appends
<1> QED
  BY <1>1, <1>2, <1>3 DEF AppendFacts, Grown

\* A conflict was found and 'propagated' has moved to p, and nothing else.
ConflictFacts(c, d, cl, p, W, o) ==
  /\ Loose(d, W, o) /\ (Ordered(c.trail) => Ordered(d.trail)) /\ Same(c, d)
  /\ d.trail = c.trail /\ d.control = c.control /\ d.heard = c.heard
  /\ d.notified = c.notified /\ d.conflict = cl /\ d.propagated = p

\* To do so keeps the invariant when the clause follows from the models.
LEMMA ConflictSet ==
  ASSUME NEW c, NEW W, NEW o, Loose(c, W, o), NEW cl \in Clause, NEW p \in Nat,
         p <= Len(c.trail), cl # None => \A m \in W : Holds(m, cl),
         NEW d, d = [c EXCEPT !.conflict = cl, !.propagated = p]
  PROVE  ConflictFacts(c, d, cl, p, W, o)
<1> DEFINE b == [[c EXCEPT !.conflict = cl] EXCEPT !.propagated = p]
<1>0. Struct(c) /\ Sound(c, W)
  BY DEF Loose
<1>1. IsState(c) /\ FieldTypes(c) /\ Known(c)
  BY <1>0, StructFields
<1>2. d = b
  BY <1>1, SMT DEF IsState, Fields
<1>3. IsState(b)
  BY <1>1, Puts
<1>4. /\ Same(c, b) /\ b.trail = c.trail /\ b.control = c.control
      /\ b.heard = c.heard /\ b.notified = c.notified
      /\ b.conflict = cl /\ b.propagated = p
  BY <1>1, SMT DEF IsState, Fields, Same
<1> HIDE DEF b
<1>5. FieldTypes(b)
  BY <1>1, <1>4 DEF FieldTypes, Same
<1>6. b \in Core
  BY <1>3, <1>5, StateCore
<1>7. Near(c, b)
  BY <1>1, <1>4 DEF Near, Same, Known
<1>8. \A e \in b.clauses : Over(e.lits, b.vars)
  BY <1>1, <1>4 DEF Same, Known
<1>9. Sound(b, W)
  BY <1>0, <1>4 DEF Sound, Same
<1>10. Loose(b, W, o) /\ (Ordered(c.trail) => Ordered(b.trail))
  BY <1>4, <1>6, <1>7, <1>8, <1>9, NearLoose
<1> QED
  BY <1>2, <1>4, <1>10 DEF ConflictFacts

\* The sizes of clauses that matter: none, one, and more.
LEMMA ClauseSize ==
  ASSUME NEW cl \in Clause
  PROVE  /\ IsFiniteSet(cl) /\ Cardinality(cl) \in Nat
         /\ Cardinality(cl) = 0 <=> cl = {}
         /\ Cardinality(cl) = 1 => \E x \in cl : cl = {x}
         /\ \A x : cl = {x} => Cardinality(cl) = 1
<1> DEFINE T == {-v : v \in Var}
           f == [v \in Var |-> -v]
<1>0. f \in Surjection(Var, T)
  BY DEF Surjection
<1>1. IsFiniteSet(T)
  <2> HIDE DEF f, T
  <2> QED
    BY <1>0, VarFacts, FS_Surjection
<1>2. IsFiniteSet(Lit)
  BY <1>1, VarFacts, FS_Union DEF Lit
<1>3. IsFiniteSet(cl) /\ Cardinality(cl) \in Nat
  BY <1>2, FS_Subset, FS_CardinalityType DEF Clause
<1>4. Cardinality(cl) = 0 <=> cl = {}
  BY <1>3, FS_EmptySet
<1>5. Cardinality(cl) = 1 => \E x \in cl : cl = {x}
  <2>1. ASSUME Cardinality(cl) = 1 PROVE \E x \in cl : cl = {x}
    <3>1. PICK x : cl = {x}
      BY <1>3, <2>1, FS_Singleton
    <3> QED
      BY <3>1
  <2> QED
    BY <2>1
<1>6. \A x : cl = {x} => Cardinality(cl) = 1
  BY FS_Singleton
<1> QED
  BY <1>3, <1>4, <1>5, <1>6

\* What one round of the propagation may do.
NextFacts(c, d, W, o) ==
  /\ Loose(d, W, o) /\ (Ordered(c.trail) => Ordered(d.trail))
  /\ Grown(c, d) /\ d.propagated + Len(d.trail) = c.propagated + Len(c.trail) + 1
  /\ d.conflict # None => Falsified(d)

\* Looking at the next clause keeps the invariant, and a conflict it finds is
\* falsified.
LEMMA NextFine ==
  ASSUME NEW c, NEW W, NEW o, Loose(c, W, o), c.conflict = None,
         c.propagated # Len(c.trail), NEW d, d = PropagateNext(c)
  PROVE  NextFacts(c, d, W, o)
<1> DEFINE l == c.trail[c.propagated + 1].lit
           watches == {e.lits : e \in {f \in c.clauses : -l \in f.lits}}
           falsified == {e \in watches : \A k \in e : IsFalse(c, k)}
           left(e) == {k \in e : ~IsFalse(c, k)}
           units == {e \in watches : /\ Cardinality(left(e)) = 1
                                     /\ \A k \in left(e) : ~IsTrue(c, k)}
           p == c.propagated + 1
<1>0. Struct(c) /\ Sound(c, W)
  BY DEF Loose
<1>1. c.propagated < Len(c.trail) /\ p \in Nat /\ p <= Len(c.trail)
      /\ c.trail \in Seq(Entry) /\ Len(c.trail) \in Nat /\ Known(c)
      /\ c.propagated \in Nat /\ FieldTypes(c) /\ IsState(c)
  BY <1>0, StructFields
<1>2. Grown(c, c)
  BY <1>1, GrownFacts
<1>3. \A e \in watches : e \in Clause /\ Over(e, c.vars) /\ \A m \in W : Holds(m, e)
  <2>1. \A f \in c.clauses : f.lits \in Clause /\ Over(f.lits, c.vars)
                             /\ \A m \in W : Holds(m, f.lits)
    BY <1>0, <1>1 DEF Sound, Known, FieldTypes, ClauseSet
  <2> QED
    BY <2>1
<1>4. d = IF falsified # {}
          THEN [c EXCEPT !.conflict = CHOOSE e \in falsified : TRUE,
                         !.propagated = @ + 1]
          ELSE IF units # {}
          THEN Implied(c, CHOOSE k \in left(CHOOSE e \in units : TRUE) : TRUE,
                       CHOOSE e \in units : TRUE)
          ELSE [c EXCEPT !.propagated = @ + 1]
  BY Zenon DEF PropagateNext
<1> HIDE DEF l, watches
<1>5. ASSUME NEW cl \in Clause, cl # None => \A m \in W : Holds(m, cl),
             d = [c EXCEPT !.conflict = cl, !.propagated = p],
             \A k \in cl : IsFalse(c, k)
      PROVE  NextFacts(c, d, W, o)
  <2>1. /\ Loose(d, W, o) /\ (Ordered(c.trail) => Ordered(d.trail)) /\ Same(c, d)
         /\ d.trail = c.trail /\ d.control = c.control /\ d.heard = c.heard
         /\ d.notified = c.notified /\ d.conflict = cl /\ d.propagated = p
    <3> HIDE DEF p
    <3>1. ConflictFacts(c, d, cl, p, W, o)
      BY <1>1, <1>5, ConflictSet
    <3> QED
      BY <3>1 DEF ConflictFacts
  <2>2. Grown(c, d)
    BY <1>1, <2>1 DEF Grown
  <2>3. Falsified(d)
    BY <1>5, <2>1 DEF Falsified, IsFalse, Lits
  <2> QED
    BY <1>1, <2>1, <2>2, <2>3 DEF NextFacts
<1>6. CASE falsified # {}
  <2>1. PICK e \in falsified : e = CHOOSE f \in falsified : TRUE
    BY <1>6
  <2>2. d = [c EXCEPT !.conflict = e, !.propagated = p]
    BY <1>4, <1>6, <2>1
  <2> QED
    BY <1>3, <1>5, <2>2
<1>7. CASE falsified = {} /\ units # {}
  <2>1. PICK e \in units : e = CHOOSE f \in units : TRUE
    BY <1>7
  <2>2. Cardinality(left(e)) = 1 /\ e \in watches /\ \A k \in left(e) : ~IsTrue(c, k)
    OBVIOUS
  <2>3. \E x \in left(e) : left(e) = {x}
    <3> DEFINE S == left(e)
    <3>1. S \in Clause
      BY <1>3, <2>2 DEF Clause
    <3>2. Cardinality(S) = 1
      BY <2>2
    <3> HIDE DEF S
    <3>3. \E x \in S : S = {x}
      BY <3>1, <3>2, ClauseSize
    <3> QED
      BY <3>3 DEF S
  <2>4. PICK k \in left(e) : k = CHOOSE j \in left(e) : TRUE
    BY <2>3
  <2>5. d = Implied(c, k, e)
    BY <1>4, <1>7, <2>1, <2>4
  <2>6. left(e) = {k}
    BY <2>3
  <2>7. ImpliedOk(c, W, k, e)
    <3>1. e \in Clause /\ Over(e, c.vars) /\ \A m \in W : Holds(m, e)
      BY <1>3, <2>2
    <3>2. k \in e /\ ~IsFalse(c, k) /\ ~IsTrue(c, k)
      BY <2>2
    <3>3. \A j \in e \ {k} : IsFalse(c, j)
      BY <2>6
    <3> QED
      BY <3>1, <3>2, <3>3 DEF ImpliedOk, Over, IsAssigned
  <2>8. /\ Loose(d, W, o) /\ (Ordered(c.trail) => Ordered(d.trail))
        /\ Assigned(c, d, k, ImpliedLevel(c, k, e), e)
        /\ ImpliedLevel(c, k, e) \in 0..Level(c)
    BY <2>5, <2>7, ImpliedFine
  <2>9. k \in Lit /\ ImpliedLevel(c, k, e) \in Nat /\ e \in Clause \cup {External}
    BY <2>7, <2>8 DEF ImpliedOk, Clause
  <2>10. Grown(c, d) /\ Len(d.trail) = Len(c.trail) + 1
    BY <1>1, <2>8, <2>9, AssignedGrown
  <2>11. d.propagated = c.propagated /\ d.conflict = None
    BY <2>8 DEF Assigned
  <2> QED
    BY <1>1, <2>8, <2>10, <2>11 DEF NextFacts
<1>8. CASE falsified = {} /\ units = {}
  <2>1. d = [c EXCEPT !.conflict = None, !.propagated = p]
    <3>1. d = [c EXCEPT !.propagated = @ + 1]
      BY <1>4, <1>8
    <3>2. [c EXCEPT !.conflict = None] = c
      BY <1>1, SMT DEF IsState, Fields
    <3> QED
      BY <3>1, <3>2
  <2>2. None \in Clause /\ \A k \in None : FALSE
    BY DEF None, Clause
  <2> QED
    BY <1>5, <2>1, <2>2
<1> QED
  BY <1>6, <1>7, <1>8

\* No literal is on the trail twice.
LEMMA TrailShort ==
  ASSUME NEW c, Struct(c)
  PROVE  Len(c.trail) <= Cardinality(Var)
<1> DEFINE t == c.trail
           f == [i \in 1..Len(t) |-> Abs(t[i].lit)]
<1>1. t \in Seq(Entry) /\ Distinct(t) /\ Len(t) \in Nat /\ DOMAIN t = 1..Len(t)
  BY StructFields
<1>2. \A i \in 1..Len(t) : t[i].lit \in Lit
  BY <1>1, TrailTypes
<1>3. f \in [1..Len(t) -> Var]
  BY <1>2, LitFacts
<1>4. f \in Injection(1..Len(t), Var)
  <2>1. ASSUME NEW i \in 1..Len(t), NEW j \in 1..Len(t), f[i] = f[j] PROVE i = j
    <3>1. Abs(t[i].lit) = Abs(t[j].lit)
      BY <2>1
    <3>2. t[i].lit \in {t[j].lit, -t[j].lit}
      BY <1>2, <3>1, LitFacts
    <3> QED
      BY <1>1, <3>2, Zenon DEF Distinct
  <2> HIDE DEF f
  <2> QED
    BY <1>3, <2>1, Fun_IsInj
<1>5. IsFiniteSet(1..Len(t)) /\ Cardinality(1..Len(t)) = Len(t)
  BY <1>1, FS_Interval
<1> HIDE DEF f
<1> QED
  BY <1>4, <1>5, VarFacts, FS_Injection

\* One step of 'propagate', as often as N times.
PropStep(d) == IF d.conflict # None \/ d.propagated = Len(d.trail) THEN d
               ELSE PropagateNext(d)
PropRun(f, c, N) == f = [n \in 0..N |-> IF n = 0 THEN c ELSE PropStep(f[n - 1])]

\* What 'propagate' promises: the trail has grown, and a conflict it has found
\* is falsified.
PropFacts(c, d, W, o) ==
  /\ Loose(d, W, o) /\ (Ordered(c.trail) => Ordered(d.trail)) /\ Grown(c, d)
  /\ (c.conflict # None => d = c)
  /\ (d.conflict # None /\ c.conflict = None => Falsified(d))

\* It has ended, with a conflict or with everything propagated.
Done(d) == d.conflict # None \/ d.propagated = Len(d.trail)

\* Every step keeps the promise.
LEMMA PropStepFine ==
  ASSUME NEW c, NEW W, NEW o, Loose(c, W, o), NEW d, PropFacts(c, d, W, o)
  PROVE  PropFacts(c, PropStep(d), W, o)
<1>1. CASE d.conflict # None \/ d.propagated = Len(d.trail)
  BY <1>1 DEF PropStep
<1>2. CASE d.conflict = None /\ d.propagated # Len(d.trail)
  <2> DEFINE e == PropStep(d)
  <2>1. e = PropagateNext(d)
    BY <1>2 DEF PropStep
  <2>2. Loose(d, W, o) /\ Grown(c, d) /\ (Ordered(c.trail) => Ordered(d.trail))
    BY DEF PropFacts
  <2> HIDE DEF e
  <2>3. NextFacts(d, e, W, o)
    BY <1>2, <2>1, <2>2, NextFine
  <2>4. Loose(e, W, o) /\ (Ordered(d.trail) => Ordered(e.trail)) /\ Grown(d, e)
        /\ (e.conflict # None => Falsified(e))
    BY <2>3 DEF NextFacts
  <2>5. c.trail \in Seq(Entry) /\ d.trail \in Seq(Entry) /\ e.trail \in Seq(Entry)
    BY <2>2, <2>4, StructFields DEF Loose
  <2>6. Grown(c, e)
    BY <2>2, <2>4, <2>5, GrownFacts
  <2>7. c.conflict = None
    <3>1. c.conflict # None => d = c
      BY DEF PropFacts
    <3> QED
      BY <1>2, <3>1
  <2> QED
    BY <2>2, <2>4, <2>6, <2>7 DEF PropFacts, e
<1> QED
  BY <1>1, <1>2

\* 'propagate' keeps the promise, and it does end: each step either looks at a
\* literal or adds one, and the trail has at most as many as there are
\* variables.
LEMMA PropagatedFine ==
  ASSUME NEW c, NEW W, NEW o, Loose(c, W, o), NEW d, d = Propagated(c)
  PROVE  PropFacts(c, d, W, o) /\ Done(d)
<1> DEFINE N == 2 * Cardinality(Var)
           T == {e \in Core : PropFacts(c, e, W, o)}
           G == [p \in (1..N) \X T |-> PropStep(p[2])]
<1>0. N \in Nat /\ Cardinality(Var) \in Nat
  BY VarFacts
<1>1. c \in T
  <2>1. c \in Core /\ c.trail \in Seq(Entry)
    BY StructFields DEF Loose
  <2>2. PropFacts(c, c, W, o)
    BY <2>1, GrownFacts DEF PropFacts
  <2> QED
    BY <2>1, <2>2
<1>2. \A e \in T : PropStep(e) \in T
  <2>1. ASSUME NEW e \in T PROVE PropStep(e) \in T
    <3>1. PropFacts(c, PropStep(e), W, o)
      BY PropStepFine
    <3>2. PropStep(e) \in Core
      BY <3>1, StructFields DEF PropFacts, Loose
    <3> QED
      BY <3>1, <3>2
  <2> QED
    BY <2>1
<1>3. d = (CHOOSE f : PropRun(f, c, N))[N]
  BY DEF Propagated, PropRun, PropStep
<1> HIDE DEF N, T
<1>4. G \in [(1..N) \X T -> T]
  BY <1>2
<1>5. \A n \in 1..N : \A e \in T : G[n, e] = PropStep(e)
  OBVIOUS
<1> HIDE DEF G
<1>6. PICK g \in [0..N -> T] : RunOf(g, c, N, G)
  BY <1>0, <1>1, <1>4, RunExists
<1>7. PropRun(g, c, N)
  <2>1. ASSUME NEW n \in 0..N
        PROVE  (IF n = 0 THEN c ELSE G[n, g[n - 1]])
                 = IF n = 0 THEN c ELSE PropStep(g[n - 1])
    <3>1. CASE n = 0
      BY <3>1
    <3>2. CASE n # 0
      <4>1. n \in 1..N /\ n - 1 \in 0..N
        BY <1>0, <3>2
      <4>2. g[n - 1] \in T
        BY <1>6, <4>1
      <4> QED
        BY <1>5, <3>2, <4>1, <4>2
    <3> QED
      BY <3>1, <3>2
  <2> QED
    BY <1>6, <2>1 DEF PropRun, RunOf
<1> DEFINE f == CHOOSE h : PropRun(h, c, N)
<1>8. PropRun(f, c, N)
  BY <1>7
<1>9. d = f[N]
  BY <1>3
<1> HIDE DEF f
<1>10. f[0] = c /\ \A n \in 1..N : f[n] = PropStep(f[n - 1])
  <2>1. \A n \in 0..N : f[n] = IF n = 0 THEN c ELSE PropStep(f[n - 1])
    BY <1>8 DEF PropRun
  <2>2. \A n \in 1..N : n \in 0..N /\ n # 0
    BY <1>0
  <2>3. 0 \in 0..N
    BY <1>0
  <2> QED
    BY <2>1, <2>2, <2>3
<1> DEFINE S(e) == e.propagated + Len(e.trail)
           D == {n \in 0..N : f[n] \in T /\ (Done(f[n]) \/ S(f[n]) >= n)}
<1>11. \A e \in T : /\ e.propagated \in Nat /\ Len(e.trail) \in Nat
                    /\ e.propagated <= Len(e.trail) /\ Len(e.trail) <= Cardinality(Var)
  BY StructFields, TrailShort DEF T, PropFacts, Loose
<1>12. 0 \in D
  BY <1>0, <1>1, <1>10, <1>11
<1>13. ASSUME NEW n \in 1..N, n - 1 \in D PROVE n \in D
  <2>1. n \in 0..N /\ n - 1 \in 0..N /\ n \in Nat
    BY <1>0
  <2>2. f[n - 1] \in T /\ (Done(f[n - 1]) \/ S(f[n - 1]) >= n - 1)
    BY <1>13
  <2>3. f[n] = PropStep(f[n - 1])
    BY <1>10
  <2>4. f[n] \in T
    BY <1>2, <2>2, <2>3
  <2>5. CASE Done(f[n - 1])
    BY <2>1, <2>2, <2>3, <2>4, <2>5 DEF PropStep, Done
  <2>6. CASE ~Done(f[n - 1])
    <3> DEFINE e == f[n - 1]
               b == f[n]
    <3>1. b = PropagateNext(e) /\ e.conflict = None /\ e.propagated # Len(e.trail)
      BY <2>3, <2>6 DEF PropStep, Done
    <3>2. Loose(e, W, o) /\ S(e) >= n - 1
      BY <2>2, <2>6 DEF T, PropFacts
    <3> HIDE DEF e, b
    <3>3. NextFacts(e, b, W, o)
      BY <3>1, <3>2, NextFine
    <3>4. S(b) = S(e) + 1
      BY <3>3 DEF NextFacts
    <3>5. S(e) \in Nat
      BY <1>11, <2>2 DEF e
    <3>6. S(b) >= n
      BY <2>1, <3>2, <3>4, <3>5
    <3> QED
      BY <2>1, <2>4, <3>6 DEF b
  <2> QED
    BY <2>5, <2>6
<1>14. N \in D
  <2> HIDE DEF D
  <2>1. \A n \in 1..N : n - 1 \in D => n \in D
    BY <1>13
  <2>2. \A n \in 0..N : n \in D
    BY <1>0, <1>12, <2>1, AllSteps
  <2> QED
    BY <1>0, <2>2
<1>15. f[N] \in T /\ (Done(f[N]) \/ S(f[N]) >= N)
  BY <1>14
<1>16. Done(f[N])
  <2>1. ASSUME S(f[N]) >= N PROVE Done(f[N])
    <3>1. f[N].propagated \in Nat /\ Len(f[N].trail) \in Nat
          /\ f[N].propagated <= Len(f[N].trail) /\ Len(f[N].trail) <= Cardinality(Var)
      BY <1>11, <1>15
    <3>2. f[N].propagated = Len(f[N].trail)
      BY <1>0, <2>1, <3>1 DEF N
    <3> QED
      BY <3>2 DEF Done
  <2> QED
    BY <1>15, <2>1
<1> QED
  BY <1>9, <1>15, <1>16 DEF T

-----------------------------------------------------------------------------
(* What backtracking and propagation leave of values and of what is fixed. *)

\* The values of a literal before and after going back to level L.
BackValued(c, d, L, l) ==
  /\ IsTrue(d, l) <=> IsTrue(c, l) /\ LevelOf(c, l) <= L
  /\ IsFalse(d, l) <=> IsFalse(c, l) /\ LevelOf(c, l) <= L
  /\ IsAssigned(d, l) <=> IsAssigned(c, l) /\ LevelOf(c, l) <= L
  /\ IsAssigned(d, l) => LevelOf(d, l) = LevelOf(c, l) /\ ReasonOf(d, l) = ReasonOf(c, l)

\* What backtracking leaves of the values: literals of the lower levels keep
\* theirs, and no other has one.
LEMMA BackValues ==
  ASSUME NEW c, Struct(c), NEW L \in Nat, NEW d, BackFacts(c, d, L), NEW l \in Lit
  PROVE  BackValued(c, d, L, l)
<1>1. Struct(d)
  BY DEF BackFacts
<1>2. PICK g, cut : Selects(d.trail, c.trail, g, L, cut)
  BY DEF BackFacts
<1>3. \A e : (\E i \in DOMAIN d.trail : d.trail[i] = e)
                 <=> (\E i \in DOMAIN c.trail : c.trail[i] = e /\ e.level <= L)
  BY <1>1, <1>2, SelKeeps, StructFields
<1>4. Valued(c, l) /\ Valued(d, l)
  BY <1>1, Values
<1>5. ASSUME NEW k \in {l, -l}, NEW i \in DOMAIN d.trail, d.trail[i].lit = k
      PROVE  \E j \in DOMAIN c.trail :
               /\ c.trail[j] = d.trail[i] /\ SpotIs(c, l, j) /\ SpotIs(d, l, i)
               /\ LevelOf(c, l) <= L
               /\ LevelOf(d, l) = LevelOf(c, l) /\ ReasonOf(d, l) = ReasonOf(c, l)
  <2>1. PICK j \in DOMAIN c.trail : c.trail[j] = d.trail[i] /\ d.trail[i].level <= L
    BY <1>3
  <2>2. SpotIs(c, l, j) /\ SpotIs(d, l, i)
    BY <1>1, <1>5, <2>1, Spot
  <2> QED
    BY <2>1, <2>2 DEF SpotIs
<1>6. ASSUME NEW k \in {l, -l}, NEW j \in DOMAIN c.trail, c.trail[j].lit = k,
             LevelOf(c, l) <= L
      PROVE  \E i \in DOMAIN d.trail : d.trail[i].lit = k
  <2>1. SpotIs(c, l, j)
    BY <1>6, Spot
  <2>2. c.trail[j].level <= L
    BY <1>6, <2>1 DEF SpotIs
  <2>3. PICK i \in DOMAIN d.trail : d.trail[i] = c.trail[j]
    BY <1>3, <2>2
  <2> QED
    BY <1>6, <2>3
<1>7. IsTrue(d, l) <=> IsTrue(c, l) /\ LevelOf(c, l) <= L
  BY <1>4, <1>5, <1>6 DEF IsTrue, Lits
<1>8. IsFalse(d, l) <=> IsFalse(c, l) /\ LevelOf(c, l) <= L
  BY <1>4, <1>5, <1>6 DEF IsFalse, Lits
<1>9. IsAssigned(d, l) <=> IsAssigned(c, l) /\ LevelOf(c, l) <= L
  BY <1>7, <1>8 DEF IsAssigned
<1>10. IsAssigned(d, l) => LevelOf(d, l) = LevelOf(c, l) /\ ReasonOf(d, l) = ReasonOf(c, l)
  <2>1. ASSUME IsAssigned(d, l)
        PROVE  \E k \in {l, -l} : \E i \in DOMAIN d.trail : d.trail[i].lit = k
    BY <2>1 DEF IsAssigned, IsTrue, IsFalse, Lits
  <2> QED
    BY <1>5, <2>1
<1> QED
  BY <1>7, <1>8, <1>9, <1>10 DEF BackValued

\* The value, level, reason and position stay.
GrownValued(c, d, l) ==
  /\ IsTrue(c, l) => IsTrue(d, l)
  /\ IsFalse(c, l) => IsFalse(d, l)
  /\ IsAssigned(c, l) => IsAssigned(d, l) /\ LevelOf(d, l) = LevelOf(c, l)
                         /\ ReasonOf(d, l) = ReasonOf(c, l) /\ PosOf(d, l) = PosOf(c, l)

\* They do when the trail grows.
LEMMA GrownValues ==
  ASSUME NEW c, Struct(c), NEW d, Struct(d), Grown(c, d), NEW l \in Lit
  PROVE  GrownValued(c, d, l)
<1>1. /\ DOMAIN c.trail = 1..Len(c.trail) /\ DOMAIN d.trail = 1..Len(d.trail)
      /\ Len(c.trail) \in Nat /\ Len(d.trail) \in Nat
  BY StructFields
<1>2. \A i \in DOMAIN c.trail : i \in DOMAIN d.trail /\ d.trail[i] = c.trail[i]
  BY <1>1 DEF Grown
<1>3. (IsTrue(c, l) => IsTrue(d, l)) /\ (IsFalse(c, l) => IsFalse(d, l))
  BY <1>2 DEF IsTrue, IsFalse, Lits
<1>4. ASSUME IsAssigned(c, l)
      PROVE  IsAssigned(d, l) /\ LevelOf(d, l) = LevelOf(c, l)
                         /\ ReasonOf(d, l) = ReasonOf(c, l) /\ PosOf(d, l) = PosOf(c, l)
  <2>1. PICK i \in DOMAIN c.trail : SpotIs(c, l, i)
    BY <1>4, Values DEF Valued
  <2>2. c.trail[i].lit \in {l, -l} /\ i \in DOMAIN d.trail /\ d.trail[i] = c.trail[i]
    BY <1>2, <2>1 DEF SpotIs
  <2>3. SpotIs(d, l, i) /\ IsAssigned(d, l)
    BY <2>2, Spot
  <2> QED
    BY <2>1, <2>2, <2>3 DEF SpotIs
<1> QED
  BY <1>3, <1>4 DEF GrownValued

\* A trail that grows keeps what is fixed, and the level.
LEMMA GrownRoots ==
  ASSUME NEW c, Struct(c), NEW d, Struct(d), Grown(c, d)
  PROVE  Roots(c.trail) \subseteq Roots(d.trail) /\ Level(d) = Level(c)
<1>1. /\ DOMAIN c.trail = 1..Len(c.trail) /\ DOMAIN d.trail = 1..Len(d.trail)
      /\ Len(c.trail) \in Nat /\ Len(d.trail) \in Nat
  BY StructFields
<1>2. \A i \in DOMAIN c.trail : i \in DOMAIN d.trail /\ d.trail[i] = c.trail[i]
  BY <1>1 DEF Grown
<1>3. Roots(c.trail) \subseteq Roots(d.trail)
  BY <1>2 DEF Roots
<1> QED
  BY <1>3 DEF Grown, Level

\* Backtracking leaves alone what is fixed.
LEMMA BackRoots ==
  ASSUME NEW c, Struct(c), NEW L \in Nat, NEW d, BackFacts(c, d, L)
  PROVE  Roots(d.trail) = Roots(c.trail) /\ Level(d) <= Level(c)
<1>1. Struct(d) /\ Level(d) = IF L >= Level(c) THEN Level(c) ELSE L
  BY DEF BackFacts
<1>2. PICK g, cut : Selects(d.trail, c.trail, g, L, cut)
  BY DEF BackFacts
<1>3. Roots(d.trail) = Roots(c.trail)
  BY <1>1, <1>2, SelKeeps, StructFields
<1>4. Level(c) \in Nat
  BY StructFields
<1> QED
  BY <1>1, <1>3, <1>4

\* A falsified conflict, in terms of values.
LEMMA Falsifieds ==
  ASSUME NEW c, Struct(c), c.conflict \in Clause
  PROVE  Falsified(c) <=> \A l \in c.conflict : IsFalse(c, l)
  BY DEF Falsified, IsFalse, Lits

\* A conflict at the root: there is no model.
LEMMA RootConflict ==
  ASSUME NEW c, NEW W, Struct(c), Sound(c, W), c.conflict # None, Falsified(c),
         \A l \in c.conflict : LevelOf(c, l) = 0
  PROVE  W = {}
<1> SUFFICES ASSUME NEW m \in W PROVE FALSE
  OBVIOUS
<1>1. c.conflict \in Clause
  BY StructFields DEF FieldTypes
<1>2. PICK l \in c.conflict : Tru(m, l)
  BY HoldsTru DEF Sound
<1>3. l \in Lit /\ IsFalse(c, l) /\ LevelOf(c, l) = 0
  BY <1>1, Falsifieds DEF Clause
<1> QED
  BY <1>2, <1>3, FixedFalse

\* Changes that the search does not see.
Quiet(c, d) ==
  /\ d.trail = c.trail /\ d.control = c.control /\ d.heard = c.heard
  /\ d.notified = c.notified /\ d.observed = c.observed
  /\ d.connected = c.connected /\ d.private = c.private
  /\ d.reasonOf = c.reasonOf /\ d.chrono = c.chrono
  /\ d.propagated = c.propagated /\ d.clauses = c.clauses
  /\ d.conflict = c.conflict /\ d.unsat = c.unsat

\* Such changes keep the invariant.
LEMMA QuietLoose ==
  ASSUME NEW c, NEW W, NEW o, Loose(c, W, o), NEW d \in Core, Quiet(c, d),
         d.vars = c.vars, d.frozen = c.frozen, d.lemmas = c.lemmas
  PROVE  Loose(d, W, o) /\ (Ordered(c.trail) => Ordered(d.trail))
<1>1. Struct(c) /\ Sound(c, W)
  BY DEF Loose
<1>2. Known(c)
  BY <1>1, StructFields
<1>3. Near(c, d)
  BY <1>2 DEF Near, Quiet, Known
<1>4. d.propagated <= Len(d.trail) /\ \A e \in d.clauses : Over(e.lits, d.vars)
  BY <1>2 DEF Quiet, Known
<1>5. Sound(d, W)
  BY <1>1 DEF Sound, Quiet
<1> QED
  BY <1>3, <1>4, <1>5, NearLoose

\* What only the propagator and the user change.
Frame(c, d) ==
  /\ d.chrono = c.chrono /\ d.vars = c.vars /\ d.connected = c.connected
  /\ d.private = c.private /\ d.observed = c.observed /\ d.frozen = c.frozen
  /\ d.lemmas = c.lemmas /\ d.reasonOf = c.reasonOf

\* What a clause that is added leaves alone is transitive, like the weaker
\* relation it contains.
LEMMA FrameFacts ==
  /\ \A c, d : Same(c, d) => Frame(c, d)
  /\ \A c, d, e : Frame(c, d) /\ Frame(d, e) => Frame(c, e)
  /\ \A c, d : Frame(c, d) => (Listens(c) <=> Listens(d))
<1>1. ASSUME NEW c, NEW d, Same(c, d) PROVE Frame(c, d)
  BY <1>1, Zenon DEF Same, Frame
<1>2. ASSUME NEW c, NEW d, NEW e, Frame(c, d), Frame(d, e) PROVE Frame(c, e)
  BY <1>2, Zenon DEF Frame
<1>3. ASSUME NEW c, NEW d, Frame(c, d) PROVE Listens(c) <=> Listens(d)
  BY <1>3, Zenon DEF Frame, Listens
<1> QED
  BY <1>1, <1>2, <1>3, Zenon

-----------------------------------------------------------------------------
(* A clause that comes late.                                               *)

\* A conflict that was falsified has not been made stale.
ConflictKept(c, d) ==
  c.conflict = None \/ Falsified(c) => d.conflict = None \/ Falsified(d)

\* The trail or the level has changed, so the propagator need not have caught
\* up.
Moved(c, d) == Len(d.trail) # Len(c.trail) \/ Level(d) # Level(c)

\* What every part of adding a clause promises to its callers.
AddFacts(c, d, W, o) ==
  /\ Loose(d, W, o) /\ (Ordered(c.trail) => Ordered(d.trail)) /\ Frame(c, d)
  /\ Level(d) <= Level(c) /\ Roots(c.trail) \subseteq Roots(d.trail)
  /\ ConflictKept(c, d)
  /\ (Caught(c) => Caught(d) \/ Moved(c, d))

\* A conflict remains falsified while the trail grows.
LEMMA FalsifiedGrown ==
  ASSUME NEW c, Struct(c), NEW d, Struct(d), Grown(c, d), d.conflict = c.conflict,
         Falsified(c)
  PROVE  Falsified(d)
<1>1. c.conflict \in Clause
  BY StructFields DEF FieldTypes
<1>2. \A l \in c.conflict : l \in Lit /\ IsFalse(c, l)
  BY <1>1, Falsifieds DEF Clause
<1>3. \A l \in c.conflict : IsFalse(d, l)
  BY <1>2, GrownValues DEF GrownValued
<1> QED
  BY <1>1, <1>3, Falsifieds

\* 'learn_empty_clause', and what it changes.
UnsatSet(c, x) == [c EXCEPT !.unsat = x]

\* What is kept when 'unsat' is set.
UnsatFacts(c, d, x, W, o) ==
  /\ Loose(d, W, o) /\ (Ordered(c.trail) => Ordered(d.trail)) /\ Frame(c, d)
  /\ d.trail = c.trail /\ d.control = c.control /\ d.conflict = c.conflict
  /\ d.notified = c.notified /\ d.propagated = c.propagated /\ d.unsat = x
  /\ d.clauses = c.clauses /\ d.heard = c.heard

\* It may set the flag when there are no models.
LEMMA UnsatSetFine ==
  ASSUME NEW c, NEW W, NEW o, Loose(c, W, o), NEW x \in BOOLEAN, x => W = {},
         NEW d, d = UnsatSet(c, x)
  PROVE  UnsatFacts(c, d, x, W, o)
<1>0. Struct(c) /\ Sound(c, W)
  BY DEF Loose
<1>1. IsState(c) /\ FieldTypes(c) /\ Known(c)
  BY <1>0, StructFields
<1>2. IsState(d)
  BY <1>1, Puts DEF UnsatSet
<1>3. /\ Frame(c, d) /\ d.trail = c.trail /\ d.control = c.control
      /\ d.conflict = c.conflict
      /\ d.notified = c.notified /\ d.propagated = c.propagated
      /\ d.unsat = x /\ d.heard = c.heard /\ d.clauses = c.clauses
      /\ d.newest = c.newest /\ d.extended = c.extended /\ d.model = c.model
  BY <1>1, SMT DEF IsState, Fields, Frame, UnsatSet
<1>4. FieldTypes(d)
  BY <1>1, <1>3 DEF FieldTypes, Frame
<1>5. d \in Core
  BY <1>2, <1>4, StateCore
<1>6. Near(c, d)
  BY <1>1, <1>3 DEF Near, Frame, Known
<1>7. d.propagated <= Len(d.trail) /\ \A e \in d.clauses : Over(e.lits, d.vars)
  BY <1>1, <1>3 DEF Frame, Known
<1>8. Sound(d, W)
  BY <1>0, <1>3 DEF Sound, Frame
<1> QED
  BY <1>3, <1>5, <1>6, <1>7, <1>8, NearLoose DEF UnsatFacts

\* The root, where the literal is not assigned any more.
UnitRootFacts(c, d, W, o, l) ==
  /\ Loose(d, W, o) /\ Level(d) = 0 /\ Fine(d, W, TRUE) /\ ~IsAssigned(d, l)
  /\ Roots(d.trail) = Roots(c.trail) /\ d.conflict = c.conflict /\ Same(c, d)
  /\ (Level(c) = 0 => d = c)

\* 'assign_original_unit' and its like go to level 0 by way of the level below
\* the one on which the literal is false.
RootState(c, l) ==
  Backtracked(IF IsFalse(c, l) THEN Backtracked(c, LevelOf(c, l) - 1) ELSE c, 0)

\* Then the literal has no value.
LEMMA UnitRoot ==
  ASSUME NEW c, NEW W, NEW o, Loose(c, W, o), NEW l \in Lit, ~IsFixed(c, l),
         NEW d, d = RootState(c, l)
  PROVE  UnitRootFacts(c, d, W, o, l)
<1> DEFINE b == IF IsFalse(c, l) THEN Backtracked(c, LevelOf(c, l) - 1) ELSE c
<1>0. Struct(c) /\ Level(c) \in Nat
  BY StructFields DEF Loose
<1>1. Valued(c, l)
  BY <1>0, Values
<1>2. IsAssigned(c, l) => LevelOf(c, l) \in Nat /\ LevelOf(c, l) > 0 /\ LevelOf(c, l) <= Level(c)
  BY <1>0, <1>1 DEF Valued, IsFixed
<1>3. /\ Loose(b, W, o) /\ Struct(b) /\ Roots(b.trail) = Roots(c.trail)
      /\ b.conflict = c.conflict /\ Same(c, b)
      /\ ~(IsAssigned(b, l) /\ LevelOf(b, l) = 0) /\ (Level(c) = 0 => b = c)
  <2>1. CASE IsFalse(c, l)
    <3> DEFINE L == LevelOf(c, l) - 1
    <3>1. L \in Nat /\ b = Backtracked(c, L) /\ ~(LevelOf(c, l) <= L) /\ Level(c) # 0
      BY <1>0, <1>2, <2>1 DEF IsAssigned
    <3> HIDE DEF L, b
    <3>2. BackFacts(c, b, L) /\ Loose(b, W, o)
      BY <3>1, BackFine
    <3>3. BackValued(c, b, L, l) /\ Roots(b.trail) = Roots(c.trail)
      BY <1>0, <3>1, <3>2, BackValues, BackRoots
    <3> QED
      BY <3>1, <3>2, <3>3 DEF BackFacts, BackValued, Loose
  <2>2. CASE ~IsFalse(c, l)
    BY <1>0, <1>2, <2>2, SameFacts
  <2> QED
    BY <2>1, <2>2
<1>4. d = Backtracked(b, 0)
  BY DEF RootState
<1> HIDE DEF b
<1>5. 0 \in Nat
  OBVIOUS
<1>6. BackFacts(b, d, 0) /\ Loose(d, W, o) /\ Level(d) = 0 /\ Fine(d, W, TRUE)
  <2>1. 0 = 0 => Level(d) = 0 /\ Fine(d, W, TRUE)
    BY <1>3, <1>4, <1>5, BackFine
  <2> QED
    BY <1>3, <1>4, <1>5, <2>1, BackFine
<1>7. BackValued(b, d, 0, l) /\ Roots(d.trail) = Roots(b.trail)
  BY <1>3, <1>5, <1>6, BackValues, BackRoots
<1>8. ~IsAssigned(d, l)
  <2>1. IsAssigned(b, l) => LevelOf(b, l) \in Nat
    BY <1>3, Values, StructFields DEF Valued
  <2> QED
    BY <1>3, <1>7, <2>1 DEF BackValued
<1>9. Same(c, d) /\ d.conflict = c.conflict
  BY <1>3, <1>6, SameFacts, Zenon DEF BackFacts
<1>10. Level(c) = 0 => d = c
  BY <1>3, <1>6 DEF BackFacts
<1> QED
  BY <1>3, <1>6, <1>7, <1>8, <1>9, <1>10 DEF UnitRootFacts

\* A unit that follows from the models may be added from any level; a conflict
\* of the propagation on level 0 means that there are no models.
LEMMA UnitFine ==
  ASSUME NEW c, NEW W, NEW o, Loose(c, W, o), NEW l \in Lit, ~IsFixed(c, l),
         Abs(l) \in c.vars, \A m \in W : Tru(m, l),
         c.conflict = None \/ (Level(c) = 0 /\ Falsified(c)),
         NEW d, d = UnitAdded(c, l)
  PROVE  AddFacts(c, d, W, o) /\ (d.conflict = None \/ d.unsat)
<1> DEFINE r == RootState(c, l)
           a == Assign(r, l, 0, None)
           u == Propagated(a)
<1>0. Struct(c)
  BY DEF Loose
<1>1. d = UnsatSet(u, u.conflict # None)
  BY DEF UnitAdded, UnsatSet, RootState
<1>2. /\ Loose(r, W, o) /\ Level(r) = 0 /\ Fine(r, W, TRUE) /\ ~IsAssigned(r, l)
      /\ Roots(r.trail) = Roots(c.trail) /\ r.conflict = c.conflict /\ Same(c, r)
      /\ (Level(c) = 0 => r = c)
  <2>1. UnitRootFacts(c, r, W, o, l)
    BY UnitRoot
  <2> HIDE DEF r
  <2> QED
    BY <2>1 DEF UnitRootFacts
<1> HIDE DEF r
<1>3. AssignOk(r, W, l, 0, None)
  <2>1. None \in Clause /\ Abs(l) \in r.vars
    BY <1>2 DEF None, Clause, Same
  <2> QED
    BY <1>2, <2>1 DEF AssignOk
<1>4. Loose(a, W, TRUE) /\ (Ordered(r.trail) => Ordered(a.trail)) /\ Assigned(r, a, l, 0, None)
  <2>1. Loose(r, W, TRUE)
    BY <1>2 DEF Fine
  <2>2. a = Assign(r, l, 0, None)
    OBVIOUS
  <2> HIDE DEF a
  <2> QED
    BY <1>3, <2>1, <2>2, AssignFine
<1> HIDE DEF a
<1>5. PropFacts(a, u, W, TRUE)
  BY <1>4, PropagatedFine
<1> HIDE DEF u
<1>6. /\ Loose(u, W, TRUE) /\ Grown(a, u) /\ (Ordered(a.trail) => Ordered(u.trail))
      /\ (a.conflict # None => u = a)
      /\ (u.conflict # None /\ a.conflict = None => Falsified(u))
  BY <1>5 DEF PropFacts
<1>7. Struct(r) /\ Struct(a) /\ Struct(u) /\ Sound(u, W)
  BY <1>2, <1>4, <1>6 DEF Loose
<1>8. Grown(r, a) /\ Len(a.trail) = Len(r.trail) + 1 /\ a.conflict = r.conflict
  <2>1. 0 \in Nat /\ None \in Clause \cup {External}
    BY DEF None, Clause
  <2> QED
    BY <1>4, <1>7, <2>1, AssignedGrown, StructFields DEF Assigned
<1>9. Roots(c.trail) \subseteq Roots(u.trail) /\ Level(u) = 0
  <2>1. Roots(r.trail) \subseteq Roots(a.trail) /\ Level(a) = Level(r)
    BY <1>7, <1>8, GrownRoots
  <2>2. Roots(a.trail) \subseteq Roots(u.trail) /\ Level(u) = Level(a)
    BY <1>6, <1>7, GrownRoots
  <2> QED
    BY <1>2, <2>1, <2>2
<1>10. u.conflict # None => Falsified(u)
  <2>1. CASE a.conflict = None
    BY <1>6, <2>1
  <2>2. CASE a.conflict # None
    <3>1. c.conflict # None /\ r = c /\ Falsified(c)
      BY <1>2, <1>8, <2>2
    <3>2. Falsified(a)
      BY <1>7, <1>8, <3>1, FalsifiedGrown
    <3> QED
      BY <1>6, <2>2, <3>2
  <2> QED
    BY <2>1, <2>2
<1>11. u.conflict # None => W = {}
  <2>1. ASSUME u.conflict # None PROVE \A k \in u.conflict : LevelOf(u, k) = 0
    <3>1. u.conflict \in Clause
      BY <1>7, StructFields DEF FieldTypes
    <3>2. \A k \in u.conflict : k \in Lit /\ IsFalse(u, k)
      BY <1>7, <1>10, <2>1, <3>1, Falsifieds DEF Clause
    <3>3. \A k \in u.conflict : LevelOf(u, k) \in 0..0
      BY <1>7, <1>9, <3>2, Values DEF Valued, IsAssigned
    <3> QED
      BY <3>3
  <2> QED
    BY <1>7, <1>10, <2>1, RootConflict
<1>12. Level(u) = 0 /\ Fine(u, W, TRUE)
  BY <1>6, <1>9, RootFine
<1>13. /\ Loose(d, W, TRUE) /\ Frame(u, d)
       /\ d.trail = u.trail /\ d.control = u.control /\ d.conflict = u.conflict
       /\ (d.conflict = None \/ d.unsat)
  <2> DEFINE x == (u.conflict # None)
  <2>1. x \in BOOLEAN /\ (x => W = {}) /\ d = UnsatSet(u, x)
    BY <1>1, <1>11
  <2> HIDE DEF x
  <2> QED
    <3>1. UnsatFacts(u, d, x, W, TRUE)
      BY <1>6, <2>1, UnsatSetFine
    <3>2. /\ Loose(d, W, TRUE) /\ Frame(u, d) /\ d.unsat = x
          /\ d.trail = u.trail /\ d.control = u.control /\ d.conflict = u.conflict
      BY <3>1 DEF UnsatFacts
    <3> QED
      BY <3>2 DEF x
<1>14. Loose(d, W, o) /\ Ordered(d.trail)
  BY <1>12, <1>13 DEF Fine, Loose
<1>15. Frame(c, d)
  <2>1. Same(c, r) /\ Same(r, a) /\ Same(a, u)
    BY <1>2, <1>6, <1>8 DEF Grown
  <2>2. Frame(c, r) /\ Frame(r, a) /\ Frame(a, u) /\ Frame(u, d)
    BY <1>13, <2>1, FrameFacts, Zenon
  <2> QED
    BY <2>2, FrameFacts, Zenon
<1>16. Level(d) = 0 /\ Level(c) \in Nat
  BY <1>0, <1>9, <1>13, StructFields DEF Level
<1>17. ConflictKept(c, d)
  BY <1>10, <1>13 DEF ConflictKept, Falsified
<1>18. Moved(c, d)
  <2>1. CASE Level(c) = 0
    <3>1. /\ Len(d.trail) = Len(u.trail) /\ Len(u.trail) >= Len(a.trail)
          /\ Len(a.trail) = Len(c.trail) + 1
          /\ Len(c.trail) \in Nat /\ Len(a.trail) \in Nat /\ Len(u.trail) \in Nat
      BY <1>0, <1>2, <1>6, <1>7, <1>8, <1>13, <2>1, StructFields DEF Grown
    <3> QED
      BY <3>1 DEF Moved
  <2>2. CASE Level(c) # 0
    BY <1>16, <2>2 DEF Moved
  <2> QED
    BY <2>1, <2>2
<1> QED
  BY <1>9, <1>13, <1>14, <1>15, <1>16, <1>17, <1>18 DEF AddFacts

\* w is a literal of the greatest rank, which 'handle_external_clause' watches
\* first.
Ranks(c, cl, w) ==
  w = ToWatch(c, cl) /\ w \in cl /\ \A k \in cl : WatchRank(c, k) <= WatchRank(c, w)

\* The rank orders literals that are true, then those without value, then the
\* false ones by level.
RankIs(c, l) ==
  /\ WatchRank(c, l) \in 0..3 * (Level(c) + 1)
  /\ IsTrue(c, l) => WatchRank(c, l) > Level(c) + 1
  /\ IsFalse(c, l) => WatchRank(c, l) = LevelOf(c, l) /\ WatchRank(c, l) < Level(c) + 1
  /\ ~IsAssigned(c, l) => WatchRank(c, l) = Level(c) + 1

\* It does so.
LEMMA RankFacts ==
  ASSUME NEW c, Struct(c), NEW l \in Lit
  PROVE  RankIs(c, l)
<1>1. Level(c) \in Nat
  BY StructFields
<1>2. /\ ~(IsTrue(c, l) /\ IsFalse(c, l))
      /\ IsAssigned(c, l) => LevelOf(c, l) \in 0..Level(c)
      /\ IsAssigned(c, l) <=> IsTrue(c, l) \/ IsFalse(c, l)
  BY Values DEF Valued, IsAssigned
<1> QED
  BY <1>1, <1>2 DEF RankIs, WatchRank

\* A clause that is not empty has a literal of the greatest rank.
LEMMA RankTop ==
  ASSUME NEW c, Struct(c), NEW cl \in Clause, cl # {}
  PROVE  Ranks(c, cl, ToWatch(c, cl))
<1> DEFINE N == 3 * (Level(c) + 1)
           S == {WatchRank(c, l) : l \in cl}
<1>1. N \in Nat
  BY StructFields
<1>2. S \in SUBSET (0..N) /\ S # {}
  BY RankFacts DEF RankIs, Clause
<1>3. Max(S) \in S /\ \A x \in S : x <= Max(S)
  <2> HIDE DEF S, N
  <2> QED
    BY <1>1, <1>2, MaxFacts
<1>4. \E l \in cl : \A k \in cl : WatchRank(c, k) <= WatchRank(c, l)
  BY <1>3
<1> QED
  BY <1>4 DEF Ranks, ToWatch

\* What 'handle_external_clause' can rely on: at least two literals, none of
\* them fixed, and a clause that follows from the models.
HandleOk(c, W, cl) ==
  /\ cl \in Clause /\ Over(cl, c.vars) /\ \A m \in W : Holds(m, cl)
  /\ \A l \in cl : ~IsFixed(c, l)
  /\ (\E k, l \in cl : k # l)
  /\ (c.conflict = None \/ Level(c) = 0)

\* A falsified clause becomes the conflict.
ConflictPut(c, cl) == [c EXCEPT !.conflict = cl]

\* A clause that follows may become the conflict.
LEMMA ConflictPutFine ==
  ASSUME NEW c, NEW W, NEW o, Loose(c, W, o), NEW cl \in Clause,
         cl # None => \A m \in W : Holds(m, cl), NEW d, d = ConflictPut(c, cl)
  PROVE  ConflictFacts(c, d, cl, c.propagated, W, o)
<1> DEFINE p == c.propagated
<1>1. IsState(c) /\ p \in Nat /\ p <= Len(c.trail)
  BY StructFields DEF Loose
<1>2. d = [c EXCEPT !.conflict = cl, !.propagated = p]
  <2>1. IsState(d)
    BY <1>1, Puts DEF ConflictPut
  <2>2. d.propagated = p
    BY <1>1, SMT DEF IsState, Fields, ConflictPut
  <2>3. [d EXCEPT !.propagated = p] = d
    <3> DEFINE e == [d EXCEPT !.propagated = p]
    <3>1. e = [f \in DOMAIN d |-> IF f = "propagated" THEN p ELSE d[f]]
      OBVIOUS
    <3>2. d = [f \in DOMAIN d |-> d[f]]
      BY <2>1 DEF IsState
    <3>3. \A f \in DOMAIN d : (IF f = "propagated" THEN p ELSE d[f]) = d[f]
      BY <2>2
    <3> QED
      BY <3>1, <3>2, <3>3
  <2> QED
    BY <2>3 DEF ConflictPut
<1> HIDE DEF p
<1>3. ConflictFacts(c, d, cl, p, W, o)
  BY <1>1, <1>2, ConflictSet
<1> QED
  BY <1>3 DEF p

\* A clause that is ignored breaks no promise.
LEMMA AddStays ==
  ASSUME NEW c, NEW W, NEW o, Loose(c, W, o)
  PROVE  AddFacts(c, c, W, o)
<1>1. Level(c) \in Nat
  BY StructFields DEF Loose
<1>2. Frame(c, c)
  BY DEF Frame
<1>3. ConflictKept(c, c)
  BY DEF ConflictKept
<1> QED
  BY <1>1, <1>2, <1>3 DEF AddFacts

\* The rest of the clause is false, on levels up to that of its second watch.
LEMMA OthersFalse ==
  ASSUME NEW c, Struct(c), NEW cl \in Clause, NEW first, Ranks(c, cl, first),
         NEW second, Ranks(c, cl \ {first}, second), IsFalse(c, second),
         NEW k \in cl \ {first}
  PROVE  IsFalse(c, k) /\ LevelOf(c, k) <= LevelOf(c, second)
<1>1. k \in Lit /\ second \in Lit /\ Level(c) \in Nat
  BY StructFields DEF Ranks, Clause
<1>2. RankIs(c, k) /\ RankIs(c, second)
  BY <1>1, RankFacts
<1>3. WatchRank(c, k) <= WatchRank(c, second)
  BY DEF Ranks
<1> QED
  BY <1>1, <1>2, <1>3 DEF RankIs, IsAssigned

\* 'handle_external_clause' keeps the promise: whether the clause is
\* satisfied, unit, falsified on one level or on several, it is put where its
\* literals are in order, by backtracking if need be.
LEMMA HandledFine ==
  ASSUME NEW c, NEW W, NEW o, Loose(c, W, o), NEW cl, HandleOk(c, W, cl),
         NEW d, d = ClauseHandled(c, cl)
  PROVE  AddFacts(c, d, W, o)
<1> DEFINE first == ToWatch(c, cl)
           second == ToWatch(c, cl \ {first})
           L == IF c.chrono THEN Level(c) ELSE LevelOf(c, second)
           back == IF c.chrono THEN c ELSE Backtracked(c, LevelOf(c, second))
<1>0. Struct(c) /\ Level(c) \in Nat /\ Sound(c, W)
  BY StructFields DEF Loose
<1>1. /\ cl \in Clause /\ Over(cl, c.vars) /\ \A m \in W : Holds(m, cl)
      /\ \A l \in cl : ~IsFixed(c, l)
      /\ \E k, l \in cl : k # l
      /\ c.conflict = None \/ Level(c) = 0
  BY DEF HandleOk
<1>2. Ranks(c, cl, first) /\ cl \in SUBSET Lit
  BY <1>0, <1>1, RankTop DEF Clause
<1> HIDE DEF first
<1>3. cl \ {first} # {} /\ cl \ {first} \in Clause
  BY <1>1, <1>2 DEF Clause
<1>4. Ranks(c, cl \ {first}, second)
  BY <1>0, <1>3, RankTop
<1> HIDE DEF second
<1>5. first \in cl /\ first \in Lit /\ second \in cl \ {first} /\ second \in Lit
  BY <1>2, <1>4 DEF Ranks
<1>6. CASE Level(c) = 0 \/ ~IsFalse(c, second) \/ IsTrue(c, first)
  <2>1. d = c
    BY <1>6 DEF ClauseHandled, first, second
  <2> QED
    BY <2>1, AddStays
<1>7. CASE ~(Level(c) = 0 \/ ~IsFalse(c, second) \/ IsTrue(c, first))
  <2>1. Level(c) # 0 /\ IsFalse(c, second) /\ ~IsTrue(c, first) /\ c.conflict = None
    BY <1>1, <1>7
  <2>2. \A k \in cl \ {first} : IsFalse(c, k) /\ LevelOf(c, k) <= LevelOf(c, second)
    BY <1>0, <1>1, <1>2, <1>4, <2>1, OthersFalse
  <2>3. LevelOf(c, second) \in 0..Level(c)
    BY <1>0, <1>5, <2>1, Values DEF Valued, IsAssigned
  <2>4. L \in Nat /\ LevelOf(c, second) <= L /\ (L >= Level(c) => back = Backtracked(c, L))
        /\ back = Backtracked(c, L)
    <3>1. c.chrono => Backtracked(c, Level(c)) = c
      BY <1>0 DEF Backtracked
    <3> QED
      BY <1>0, <2>3, <3>1
  <2>5. d = IF IsFalse(back, first) THEN ConflictPut(back, cl)
            ELSE Notified(Implied(back, first, cl))
    BY <1>7 DEF ClauseHandled, first, second, ConflictPut
  <2> HIDE DEF back, L
  <2>6. BackFacts(c, back, L) /\ Loose(back, W, o)
        /\ (Ordered(c.trail) => Ordered(back.trail))
    BY <2>4, BackFine
  <2>7. /\ Struct(back) /\ Same(c, back) /\ back.conflict = None
        /\ (L >= Level(c) => back = c)
        /\ Level(back) = IF L >= Level(c) THEN Level(c) ELSE L
    BY <2>1, <2>6 DEF BackFacts
  <2>8. Roots(back.trail) = Roots(c.trail) /\ Level(back) <= Level(c)
    BY <1>0, <2>4, <2>6, BackRoots
  <2>9. ASSUME NEW k \in cl \ {first} PROVE IsFalse(back, k)
    <3>1. k \in Lit /\ IsFalse(c, k) /\ LevelOf(c, k) <= L
      <4>1. LevelOf(c, k) \in 0..Level(c)
        BY <1>0, <1>2, <2>2, Values DEF Valued, IsAssigned
      <4> QED
        BY <1>0, <1>2, <2>2, <2>3, <2>4, <4>1
    <3> QED
      BY <1>0, <2>4, <2>6, <3>1, BackValues DEF BackValued
  <2>10. ~IsTrue(back, first)
    BY <1>0, <1>5, <2>1, <2>4, <2>6, BackValues DEF BackValued
  <2>11. CASE IsFalse(back, first)
    <3>1. d = ConflictPut(back, cl)
      BY <2>5, <2>11
    <3>2. ConflictFacts(back, d, cl, back.propagated, W, o)
      BY <1>1, <2>6, <3>1, ConflictPutFine
    <3>3. /\ Loose(d, W, o) /\ (Ordered(back.trail) => Ordered(d.trail)) /\ Same(back, d)
          /\ d.trail = back.trail /\ d.control = back.control
          /\ d.notified = back.notified /\ d.conflict = cl
      BY <3>2 DEF ConflictFacts
    <3>4. Frame(c, d)
      <4>1. Same(c, d)
        BY <2>7, <3>3, SameFacts, Zenon
      <4> QED
        BY <4>1, FrameFacts, Zenon
    <3>5. Falsified(d)
      BY <1>1, <2>9, <2>11, <3>3 DEF Falsified, IsFalse, Lits
    <3>6. Caught(c) => Caught(d) \/ Moved(c, d)
      <4>1. Listens(back) <=> Listens(d)
        BY <3>3, SameFacts, Zenon
      <4> QED
        BY <2>6, <3>3, <4>1 DEF Caught, BackFacts
    <3>7. Level(d) = Level(back)
      BY <3>3 DEF Level
    <3> QED
      BY <2>6, <2>8, <3>3, <3>4, <3>5, <3>6, <3>7 DEF AddFacts, ConflictKept
  <2>12. CASE ~IsFalse(back, first)
    <3> DEFINE a == Implied(back, first, cl)
               n == ImpliedLevel(back, first, cl)
    <3>1. d = Notified(a)
      BY <2>5, <2>12
    <3>2. ImpliedOk(back, W, first, cl)
      <4>1. Abs(first) \in back.vars
        BY <1>1, <1>5, <2>7 DEF Over, Same
      <4> QED
        BY <1>1, <1>5, <2>9, <2>10, <2>12, <4>1 DEF ImpliedOk, IsAssigned
    <3>3. a = Implied(back, first, cl)
      OBVIOUS
    <3> HIDE DEF a
    <3>4. /\ Loose(a, W, o) /\ (Ordered(back.trail) => Ordered(a.trail))
          /\ Assigned(back, a, first, n, cl) /\ n \in 0..Level(back)
      BY <2>6, <3>2, <3>3, ImpliedFine
    <3> HIDE DEF n
    <3>5. /\ Loose(d, W, o) /\ (Ordered(a.trail) => Ordered(d.trail))
          /\ Same(a, d) /\ d.trail = a.trail /\ d.control = a.control
          /\ d.conflict = a.conflict /\ Caught(d)
      BY <3>1, <3>4, NotifiedFine
    <3>6. Struct(a) /\ Struct(d)
      BY <3>4, <3>5 DEF Loose
    <3>7. Grown(back, a) /\ Len(a.trail) = Len(back.trail) + 1 /\ a.conflict = back.conflict
      <4>1. n \in Nat /\ cl \in Clause \cup {External} /\ back.trail \in Seq(Entry)
        BY <1>1, <2>7, <3>4, StructFields
      <4>2. Grown(back, a) /\ Len(a.trail) = Len(back.trail) + 1
        BY <1>5, <3>4, <4>1, AssignedGrown
      <4> QED
        BY <3>4, <4>2 DEF Assigned
    <3>8. Roots(back.trail) \subseteq Roots(a.trail) /\ Level(a) = Level(back)
      BY <2>7, <3>6, <3>7, GrownRoots
    <3>9. Level(d) = Level(back)
      BY <3>5, <3>8 DEF Level
    <3>10. Frame(c, d)
      <4>1. Same(back, a)
        BY <3>7 DEF Grown
      <4>2. Same(c, d)
        BY <2>7, <3>5, <4>1, SameFacts, Zenon
      <4> QED
        BY <4>2, FrameFacts, Zenon
    <3>11. d.conflict = None
      BY <2>7, <3>5, <3>7
    <3> QED
      BY <2>6, <2>8, <3>4, <3>5, <3>8, <3>9, <3>10, <3>11 DEF AddFacts, ConflictKept
  <2> QED
    BY <2>11, <2>12
<1> QED
  BY <1>6, <1>7

\* Two states that differ in nothing AddFacts speaks of.
Alike(c, b) ==
  /\ b.trail = c.trail /\ b.control = c.control /\ b.conflict = c.conflict
  /\ b.notified = c.notified /\ Frame(c, b)

\* The promise can be given for the same trail.
LEMMA AlikeAdd ==
  ASSUME NEW c, NEW b, NEW d, NEW W, NEW o, Alike(c, b), AddFacts(b, d, W, o)
  PROVE  AddFacts(c, d, W, o)
<1>1. /\ b.trail = c.trail /\ b.control = c.control /\ b.conflict = c.conflict
      /\ b.notified = c.notified /\ Frame(c, b)
  BY DEF Alike
<1>2. Frame(c, d)
  BY <1>1, FrameFacts, Zenon DEF AddFacts
<1>3. Level(b) = Level(c)
  BY <1>1 DEF Level
<1>4. ConflictKept(b, d) => ConflictKept(c, d)
  BY <1>1 DEF ConflictKept, Falsified
<1>5. Caught(c) => Caught(b)
  <2>1. Listens(c) <=> Listens(b)
    BY <1>1, FrameFacts, Zenon
  <2> QED
    BY <1>1, <2>1 DEF Caught
<1>6. Moved(b, d) => Moved(c, d)
  BY <1>1, <1>3 DEF Moved
<1> QED
  BY <1>1, <1>2, <1>3, <1>4, <1>5, <1>6 DEF AddFacts

\* The values are those of the trail.
LEMMA AlikeTrail ==
  ASSUME NEW c, NEW b, b.trail = c.trail
  PROVE  \A l : /\ IsTrue(b, l) <=> IsTrue(c, l)
                /\ IsFalse(b, l) <=> IsFalse(c, l)
                /\ IsAssigned(b, l) <=> IsAssigned(c, l)
                /\ IsFixed(b, l) <=> IsFixed(c, l)
                /\ LevelOf(b, l) = LevelOf(c, l) /\ PosOf(b, l) = PosOf(c, l)
                /\ ReasonOf(b, l) = ReasonOf(c, l)
<1>1. Lits(b) = Lits(c) /\ \A l : PosOf(b, l) = PosOf(c, l)
  BY DEF Lits, PosOf
<1>2. \A l : LevelOf(b, l) = LevelOf(c, l) /\ ReasonOf(b, l) = ReasonOf(c, l)
  BY <1>1 DEF LevelOf, ReasonOf
<1> QED
  BY <1>1, <1>2 DEF IsTrue, IsFalse, IsAssigned, IsFixed

\* The model is gone, and the newest clause.
OldOf(c) == [Unextended(c) EXCEPT !.newest = None]

\* A clause is about to come, and values extended to a model are no longer
\* valid.
OldFacts(c, d, W, o) ==
  /\ Loose(d, W, o) /\ (Ordered(c.trail) => Ordered(d.trail))
  /\ Quiet(c, d) /\ Frame(c, d) /\ Alike(c, d) /\ AddFacts(c, d, W, o)

\* What 'reset_extended' changes.
UnextendedFacts(c, d, W, o) ==
  /\ Loose(d, W, o) /\ (Ordered(c.trail) => Ordered(d.trail))
  /\ Quiet(c, d) /\ Frame(c, d) /\ Alike(c, d) /\ ~d.extended /\ d.model = {}

\* It keeps the invariant,
LEMMA UnextendedFine ==
  ASSUME NEW c, NEW W, NEW o, Loose(c, W, o), NEW d, d = Unextended(c)
  PROVE  UnextendedFacts(c, d, W, o)
<1>1. IsState(c) /\ FieldTypes(c)
  BY StructFields DEF Loose
<1> DEFINE a == [c EXCEPT !.extended = FALSE]
           b == [a EXCEPT !.model = {}]
<1>2. d = b
  BY <1>1, SMT DEF Unextended, IsState, Fields
<1>3. IsState(a)
  BY <1>1, Puts
<1>4. IsState(b)
  BY <1>3, Puts
<1>5. /\ Quiet(c, b) /\ b.vars = c.vars /\ b.frozen = c.frozen /\ b.lemmas = c.lemmas
      /\ b.extended = FALSE /\ b.model = {} /\ b.newest = c.newest
  BY <1>1, SMT DEF Quiet, IsState, Fields
<1> HIDE DEF b
<1>6. FieldTypes(b)
  BY <1>1, <1>5 DEF FieldTypes, Quiet
<1>7. b \in Core
  BY <1>4, <1>6, StateCore
<1>8. Loose(b, W, o) /\ (Ordered(c.trail) => Ordered(b.trail))
  BY <1>5, <1>7, QuietLoose
<1>9. Frame(c, b)
  BY <1>5 DEF Quiet, Frame
<1>10. Alike(c, b)
  BY <1>5, <1>9 DEF Quiet, Alike
<1> QED
  BY <1>2, <1>5, <1>8, <1>9, <1>10 DEF UnextendedFacts

\* and so does the code that runs before a clause is added.
LEMMA OldFine ==
  ASSUME NEW c, NEW W, NEW o, Loose(c, W, o), NEW d, d = OldOf(c)
  PROVE  OldFacts(c, d, W, o)
<1> DEFINE u == Unextended(c)
           b == [u EXCEPT !.newest = None]
<1>1. UnextendedFacts(c, u, W, o)
  BY UnextendedFine
<1>2. d = b
  BY DEF OldOf
<1> HIDE DEF u
<1>3. /\ Loose(u, W, o) /\ (Ordered(c.trail) => Ordered(u.trail))
      /\ Quiet(c, u) /\ Frame(c, u) /\ Alike(c, u)
  BY <1>1 DEF UnextendedFacts
<1>4. IsState(u) /\ FieldTypes(u)
  BY <1>3, StructFields DEF Loose
<1>5. IsState(b)
  BY <1>4, Puts
<1>6. /\ Quiet(u, b) /\ b.vars = u.vars /\ b.frozen = u.frozen /\ b.lemmas = u.lemmas
      /\ b.extended = u.extended /\ b.model = u.model /\ b.newest = None
  BY <1>4, SMT DEF Quiet, IsState, Fields
<1> HIDE DEF b
<1>7. FieldTypes(b)
  <2>1. None \in Clause
    BY DEF None, Clause
  <2> QED
    BY <1>4, <1>6, <2>1 DEF FieldTypes, Quiet
<1>8. b \in Core
  BY <1>5, <1>7, StateCore
<1>9. Loose(b, W, o) /\ (Ordered(u.trail) => Ordered(b.trail))
  BY <1>3, <1>6, <1>8, QuietLoose
<1>10. Quiet(c, b)
  BY <1>3, <1>6, Zenon DEF Quiet
<1>11. Frame(c, b)
  <2>1. Frame(u, b)
    BY <1>6 DEF Quiet, Frame
  <2> QED
    BY <1>3, <2>1, FrameFacts, Zenon
<1>12. Alike(c, b)
  BY <1>10, <1>11 DEF Quiet, Alike
<1>13. AddFacts(c, b, W, o)
  <2>1. AddFacts(b, b, W, o)
    BY <1>9, AddStays
  <2> QED
    BY <1>12, <2>1, AlikeAdd
<1> QED
  BY <1>2, <1>3, <1>9, <1>10, <1>11, <1>12, <1>13 DEF OldFacts

\* A clause joins.
NewOf(c, rest, red) ==
  [c EXCEPT !.newest = rest, !.clauses = @ \cup {[lits |-> rest, red |-> red]}]

\* The clause is one of the solver's, and the newest one.
JoinOf(c, rest, red) ==
  [c EXCEPT !.clauses = @ \cup {[lits |-> rest, red |-> red]}]

\* The solver's clauses may have changed, not its trail.
NewFacts(c, d, W, o) ==
  /\ Loose(d, W, o) /\ (Ordered(c.trail) => Ordered(d.trail))
  /\ Frame(c, d) /\ Alike(c, d) /\ d.unsat = c.unsat /\ d.heard = c.heard
  /\ d.propagated = c.propagated

\* A clause that follows from the models may join the others.
LEMMA JoinFine ==
  ASSUME NEW c, NEW W, NEW o, Loose(c, W, o), NEW rest \in Clause,
         Over(rest, c.vars), \A m \in W : Holds(m, rest), NEW red \in BOOLEAN,
         NEW d, d = JoinOf(c, rest, red)
  PROVE  NewFacts(c, d, W, o) /\ d.newest = c.newest
<1> DEFINE e == [lits |-> rest, red |-> red]
           s == c.clauses \cup {e}
           b == [c EXCEPT !.clauses = s]
<1>0. Struct(c) /\ Sound(c, W)
  BY DEF Loose
<1>1. IsState(c) /\ FieldTypes(c) /\ Known(c)
  BY <1>0, StructFields
<1>2. d = b
  BY DEF JoinOf
<1>3. e \in ClauseSet /\ e.lits = rest
  BY DEF ClauseSet
<1>4. s \in SUBSET ClauseSet /\ \A x \in s : x \in c.clauses \/ x.lits = rest
  BY <1>1, <1>3 DEF FieldTypes
<1> HIDE DEF s
<1>5. IsState(b)
  BY <1>1, Puts
<1>6. /\ Frame(c, b) /\ b.clauses = s /\ b.trail = c.trail /\ b.control = c.control
      /\ b.conflict = c.conflict /\ b.notified = c.notified /\ b.unsat = c.unsat
      /\ b.heard = c.heard /\ b.propagated = c.propagated /\ b.extended = c.extended
      /\ b.model = c.model /\ b.newest = c.newest
  BY <1>1, SMT DEF Frame, IsState, Fields
<1> HIDE DEF b
<1>7. FieldTypes(b)
  BY <1>1, <1>4, <1>6 DEF FieldTypes, Frame
<1>8. b \in Core
  BY <1>5, <1>7, StateCore
<1>9. Near(c, b)
  BY <1>1, <1>6 DEF Near, Frame, Known
<1>10. b.propagated <= Len(b.trail) /\ \A x \in b.clauses : Over(x.lits, b.vars)
  BY <1>1, <1>4, <1>6 DEF Frame, Known
<1>11. Sound(b, W)
  BY <1>0, <1>4, <1>6 DEF Sound, Frame
<1>12. Loose(b, W, o) /\ (Ordered(c.trail) => Ordered(b.trail))
  BY <1>8, <1>9, <1>10, <1>11, NearLoose
<1>13. Alike(c, b)
  BY <1>6 DEF Alike
<1> QED
  BY <1>2, <1>6, <1>12, <1>13 DEF NewFacts
NewestOf(c, x) == [c EXCEPT !.newest = x]

\* The newest clause is only a note.
LEMMA NewestFine ==
  ASSUME NEW c, NEW W, NEW o, Loose(c, W, o), NEW x \in Clause,
         NEW d, d = NewestOf(c, x)
  PROVE  NewFacts(c, d, W, o) /\ d.newest = x /\ d.clauses = c.clauses
<1> DEFINE b == [c EXCEPT !.newest = x]
<1>1. IsState(c) /\ FieldTypes(c)
  BY StructFields DEF Loose
<1>2. IsState(b)
  BY <1>1, Puts
<1>3. /\ Quiet(c, b) /\ b.vars = c.vars /\ b.frozen = c.frozen /\ b.lemmas = c.lemmas
      /\ b.extended = c.extended /\ b.model = c.model /\ b.newest = x
  BY <1>1, SMT DEF Quiet, IsState, Fields
<1>4. d = b
  BY DEF NewestOf
<1> HIDE DEF b
<1>5. FieldTypes(b)
  BY <1>1, <1>3 DEF FieldTypes, Quiet
<1>6. b \in Core
  BY <1>2, <1>5, StateCore
<1>7. Loose(b, W, o) /\ (Ordered(c.trail) => Ordered(b.trail))
  BY <1>3, <1>6, QuietLoose
<1>8. Frame(c, b) /\ Alike(c, b)
  BY <1>3 DEF Quiet, Frame, Alike
<1> QED
  BY <1>3, <1>4, <1>7, <1>8 DEF NewFacts, Quiet

\* The two together.
LEMMA NewFine ==
  ASSUME NEW c, NEW W, NEW o, Loose(c, W, o), NEW rest \in Clause,
         Over(rest, c.vars), \A m \in W : Holds(m, rest), NEW red \in BOOLEAN,
         NEW d, d = NewOf(c, rest, red)
  PROVE  NewFacts(c, d, W, o) /\ d.newest = rest
<1> DEFINE b == NewestOf(c, rest)
<1>1. d = JoinOf(b, rest, red)
  BY DEF NewOf, NewestOf, JoinOf
<1>2. NewFacts(c, b, W, o) /\ b.newest = rest
  BY NewestFine
<1> HIDE DEF b
<1>3. Loose(b, W, o) /\ Over(rest, b.vars)
  BY <1>2 DEF NewFacts, Frame
<1>4. NewFacts(b, d, W, o) /\ d.newest = b.newest
  BY <1>1, <1>3, JoinFine
<1>5. Frame(c, b) /\ Frame(b, d) /\ Alike(c, b) /\ Alike(b, d)
  BY <1>2, <1>4 DEF NewFacts
<1>6. Frame(c, d)
  BY <1>5, FrameFacts, Zenon
<1>7. Alike(c, d)
  BY <1>5, <1>6 DEF Alike
<1> QED
  BY <1>2, <1>4, <1>6, <1>7 DEF NewFacts

\* What is left of a clause without the literals that are fixed to false.
RestFacts(c, cl, W, rest) ==
  /\ rest = Remaining(c, cl) /\ rest \in Clause /\ Over(rest, c.vars)
  /\ \A m \in W : Holds(m, rest)

\* It follows from the models whenever the clause does.
LEMMA RestHolds ==
  ASSUME NEW c, NEW W, Struct(c), Sound(c, W), NEW cl \in Clause,
         Over(cl, c.vars), \A m \in W : Holds(m, cl)
  PROVE  RestFacts(c, cl, W, Remaining(c, cl))
<1> DEFINE rest == Remaining(c, cl)
<1>1. rest \in Clause /\ Over(rest, c.vars)
  BY DEF Remaining, Over, Clause
<1>2. ASSUME NEW m \in W PROVE Holds(m, rest)
  <2>1. PICK k \in cl : Tru(m, k)
    BY HoldsTru
  <2>2. ~(IsFixed(c, k) /\ IsFalse(c, k))
    BY <2>1, FixedFalse DEF Clause, IsFixed
  <2>3. k \in rest
    BY <2>2 DEF Remaining
  <2> QED
    BY <2>1, <2>3, HoldsTru
<1> QED
  BY <1>1, <1>2 DEF RestFacts

\* When a clause may be added: it follows from the models, and there is no
\* conflict that it could make stale.  While 'cb_has_external_clause' is
\* answered a conflict may be pending, but then the clause is satisfied
\* already, or everything happens on level 0.
AddOk(c, W, cl) ==
  /\ cl \in Clause /\ Over(cl, c.vars) /\ \A m \in W : Holds(m, cl)
  /\ \/ c.conflict = None \/ c.unsat \/ (Level(c) = 0 /\ Falsified(c))
     \/ \E l \in cl : IsFixed(c, l) /\ IsTrue(c, l)

\* 'add_external_clause' ignores a clause when there are no models anyway, and
\* one that is always true.
Ignored(c, cl) ==
  c.unsat \/ IsTautology(cl) \/ \E l \in cl : IsFixed(c, l) /\ IsTrue(c, l)

\* The cases of adding a clause without keeping it as a reason.
LEMMA AddIs ==
  ASSUME NEW c, NEW cl \in Clause, NEW red
  PROVE  ClauseAdded(c, cl, red, FALSE) =
           IF Ignored(c, cl) THEN OldOf(c)
           ELSE IF Remaining(c, cl) = {} THEN UnsatSet(OldOf(c), TRUE)
           ELSE IF Cardinality(Remaining(c, cl)) = 1
           THEN UnitAdded(OldOf(c), CHOOSE k \in Remaining(c, cl) : TRUE)
           ELSE ClauseHandled(NewOf(OldOf(c), Remaining(c, cl), red), Remaining(c, cl))
  BY SMT DEF ClauseAdded, OldOf, UnsatSet, NewOf, Ignored

\* No conflict is left for the analysis.
Calmed(c) == c.conflict = None \/ c.unsat

\* What adding a clause promises, with what is needed on level 0.
AddedFacts(c, d, cl, W, o) ==
  /\ AddFacts(c, d, W, o)
  /\ c.unsat => d.unsat /\ d.trail = c.trail
  /\ Level(c) = 0 /\ Calmed(c) => Calmed(d)

\* 'add_external_clause' keeps the promise in every case.
LEMMA AddedFine ==
  ASSUME NEW c, NEW W, NEW o, Loose(c, W, o), NEW cl, AddOk(c, W, cl),
         NEW red \in BOOLEAN, NEW d, d = ClauseAdded(c, cl, red, FALSE)
  PROVE  AddedFacts(c, d, cl, W, o)
<1> DEFINE b == OldOf(c)
           rest == Remaining(c, cl)
           new == NewOf(b, rest, red)
<1>0. Struct(c) /\ Sound(c, W)
  BY DEF Loose
<1>1. cl \in Clause /\ Over(cl, c.vars) /\ \A m \in W : Holds(m, cl)
  BY DEF AddOk
<1>2. OldFacts(c, b, W, o)
  BY OldFine
<1>3. RestFacts(c, cl, W, rest)
  BY <1>0, <1>1, RestHolds
<1>4. d = IF Ignored(c, cl) THEN b
           ELSE IF rest = {} THEN UnsatSet(b, TRUE)
           ELSE IF Cardinality(rest) = 1
           THEN UnitAdded(b, CHOOSE k \in rest : TRUE)
           ELSE ClauseHandled(new, rest)
  BY <1>1, AddIs
<1>5. rest \subseteq cl /\ \A l \in rest : ~(IsFixed(c, l) /\ IsFalse(c, l))
  BY DEF Remaining
<1>6. new = NewOf(b, rest, red)
  OBVIOUS
<1> HIDE DEF b, rest, new
<1>7. /\ Loose(b, W, o) /\ (Ordered(c.trail) => Ordered(b.trail))
      /\ Quiet(c, b) /\ Frame(c, b) /\ Alike(c, b) /\ AddFacts(c, b, W, o)
  BY <1>2 DEF OldFacts
<1>8. rest \in Clause /\ Over(rest, c.vars) /\ \A m \in W : Holds(m, rest)
  BY <1>3 DEF RestFacts
<1>9. CASE Ignored(c, cl)
  <2>1. d = b
    BY <1>4, <1>9
  <2> QED
    BY <1>7, <2>1 DEF AddedFacts, Quiet, Calmed
<1>10. CASE ~Ignored(c, cl)
  <2>1. /\ ~c.unsat /\ ~IsTautology(cl)
        /\ \A l \in cl : ~(IsFixed(c, l) /\ IsTrue(c, l))
        /\ c.conflict = None \/ (Level(c) = 0 /\ Falsified(c))
    BY <1>10 DEF Ignored, AddOk
  <2>2. \A l \in rest : ~IsFixed(c, l)
    BY <1>5, <2>1 DEF IsFixed, IsAssigned
  <2>3. b.trail = c.trail /\ b.control = c.control /\ b.conflict = c.conflict
        /\ b.vars = c.vars
    BY <1>7 DEF Alike, Frame
  <2>4. \A l : IsFixed(b, l) <=> IsFixed(c, l)
    BY <2>3, AlikeTrail
  <2>5. b.conflict = None \/ (Level(b) = 0 /\ Falsified(b))
    BY <2>1, <2>3 DEF Level, Falsified
  <2>6. CASE rest = {}
    <3>1. W = {}
      BY <1>8, <2>6, HoldsTru
    <3>2. d = UnsatSet(b, TRUE)
      BY <1>4, <1>10, <2>6
    <3>3. UnsatFacts(b, d, TRUE, W, o)
      <4> DEFINE x == TRUE
      <4>1. x \in BOOLEAN /\ (x => W = {}) /\ d = UnsatSet(b, x) /\ x = TRUE
        BY <3>1, <3>2
      <4> HIDE DEF x
      <4>2. UnsatFacts(b, d, x, W, o)
        BY <1>7, <4>1, UnsatSetFine
      <4> QED
        BY <4>1, <4>2
    <3>4. Loose(d, W, o) /\ Alike(b, d)
      BY <3>3 DEF UnsatFacts, Alike
    <3>5. AddFacts(b, d, W, o)
      <4>1. AddFacts(d, d, W, o)
        BY <3>4, AddStays
      <4> QED
        BY <3>4, <4>1, AlikeAdd
    <3>6. Calmed(d)
      BY <3>3, Zenon DEF UnsatFacts, Calmed
    <3> QED
      BY <1>7, <2>1, <3>5, <3>6, AlikeAdd DEF AddedFacts
  <2>7. CASE rest # {} /\ Cardinality(rest) = 1
    <3> DEFINE l == CHOOSE k \in rest : TRUE
    <3>1. d = UnitAdded(b, l)
      BY <1>4, <1>10, <2>7
    <3>2. l \in rest
      BY <2>7
    <3> HIDE DEF l
    <3>3. rest = {l}
      BY <1>8, <2>7, <3>2, ClauseSize
    <3>4. l \in Lit /\ Abs(l) \in b.vars /\ ~IsFixed(b, l)
      BY <1>8, <2>2, <2>3, <2>4, <3>2 DEF Clause, Over
    <3>5. \A m \in W : Tru(m, l)
      BY <1>8, <3>3, HoldsTru
    <3>6. AddFacts(b, d, W, o) /\ Calmed(d)
      BY <1>7, <2>5, <3>1, <3>4, <3>5, UnitFine DEF Calmed
    <3> QED
      BY <1>7, <2>1, <3>6, AlikeAdd DEF AddedFacts
  <2>8. CASE rest # {} /\ Cardinality(rest) # 1
    <3>1. d = ClauseHandled(new, rest)
      BY <1>4, <1>10, <2>8
    <3>2. NewFacts(b, new, W, o) /\ new.newest = rest
      BY <1>6, <1>7, <1>8, <2>3, NewFine
    <3>3. /\ Loose(new, W, o) /\ (Ordered(b.trail) => Ordered(new.trail))
          /\ Frame(b, new) /\ Alike(b, new)
      BY <3>2 DEF NewFacts
    <3>4. new.trail = c.trail /\ new.conflict = c.conflict /\ new.vars = c.vars
          /\ Level(new) = Level(c)
      BY <2>3, <3>3 DEF Alike, Frame, Level
    <3>5. \E k, l \in rest : k # l
      <4>1. PICK k \in rest : TRUE
        BY <2>8
      <4>2. ~(\A l \in rest : l = k)
        <5>1. ASSUME \A l \in rest : l = k PROVE FALSE
          <6>1. rest = {k}
            BY <4>1, <5>1
          <6> QED
            BY <1>8, <2>8, <6>1, ClauseSize
        <5> QED
          BY <5>1
      <4> QED
        BY <4>2
    <3>6. \A l \in rest : ~IsFixed(new, l)
      BY <2>2, <3>4, AlikeTrail
    <3>7. HandleOk(new, W, rest)
      BY <1>8, <2>1, <3>4, <3>5, <3>6 DEF HandleOk
    <3>8. AddFacts(new, d, W, o)
      BY <3>1, <3>3, <3>7, HandledFine
    <3>9. AddFacts(b, d, W, o)
      BY <3>3, <3>8, AlikeAdd
    <3>10. ASSUME Level(c) = 0, Calmed(c) PROVE Calmed(d)
      <4>1. d = new
        BY <3>1, <3>4, <3>10 DEF ClauseHandled
      <4> QED
        BY <2>1, <3>4, <3>10, <4>1 DEF Calmed
    <3> QED
      BY <1>7, <2>1, <3>9, <3>10, AlikeAdd DEF AddedFacts
  <2> QED
    BY <2>6, <2>7, <2>8
<1> QED
  BY <1>9, <1>10

-----------------------------------------------------------------------------
(* Lemmas of the propagator.                                               *)

\* No lemma of the propagator is lost or changed, except that it may have been
\* given.
LemmasKept(c, d) ==
  /\ Len(d.lemmas) = Len(c.lemmas)
  /\ \A i \in 1..Len(c.lemmas) :
       /\ d.lemmas[i].lits = c.lemmas[i].lits
       /\ d.lemmas[i].isReason = c.lemmas[i].isReason
       /\ c.lemmas[i].added => d.lemmas[i].added

\* What only the user changes, or the propagator when it has a new lemma.
View(c, d) ==
  /\ d.chrono = c.chrono /\ d.vars = c.vars /\ d.connected = c.connected
  /\ d.private = c.private /\ d.observed = c.observed /\ d.frozen = c.frozen
  /\ d.reasonOf = c.reasonOf /\ LemmasKept(c, d)

\* It is transitive, and weaker than Frame.
LEMMA ViewFacts ==
  /\ \A c, d : Frame(c, d) => View(c, d)
  /\ \A c, d, e : View(c, d) /\ View(d, e) => View(c, e)
  /\ \A c, d : View(c, d) => (Listens(c) <=> Listens(d))
<1>1. ASSUME NEW c, NEW d, Frame(c, d) PROVE View(c, d)
  BY <1>1, Zenon DEF View, Frame, LemmasKept
<1>2. ASSUME NEW c, NEW d, NEW e, View(c, d), View(d, e) PROVE View(c, e)
  <2>1. LemmasKept(c, d) /\ LemmasKept(d, e)
    BY <1>2 DEF View
  <2>2. LemmasKept(c, e)
    BY <2>1, Zenon DEF LemmasKept
  <2> QED
    BY <1>2, <2>2, Zenon DEF View
<1>3. ASSUME NEW c, NEW d, View(c, d) PROVE Listens(c) <=> Listens(d)
  BY <1>3, Zenon DEF View, Listens
<1> QED
  BY <1>1, <1>2, <1>3, Zenon

\* What every step of the search keeps and never takes back.
StepFacts(c, d, W, o) ==
  /\ Loose(d, W, o) /\ (Ordered(c.trail) => Ordered(d.trail)) /\ View(c, d)
  /\ Level(d) <= Level(c) /\ Roots(c.trail) \subseteq Roots(d.trail)
  /\ ConflictKept(c, d)

\* Several of these steps are one.
LEMMA StepTrans ==
  ASSUME NEW c, NEW d, NEW e, NEW W, NEW o, Loose(c, W, o),
         StepFacts(c, d, W, o), StepFacts(d, e, W, o)
  PROVE  StepFacts(c, e, W, o)
<1>1. View(c, e)
  BY ViewFacts, Zenon DEF StepFacts
<1>2. Loose(d, W, o) /\ Loose(e, W, o)
  BY DEF StepFacts
<1>3. Level(c) \in Nat /\ Level(d) \in Nat /\ Level(e) \in Nat
  BY <1>2, StructFields DEF Loose
<1>4. Level(e) <= Level(c)
  BY <1>3 DEF StepFacts
<1>5. ConflictKept(c, e)
  BY DEF StepFacts, ConflictKept
<1> QED
  BY <1>1, <1>2, <1>4, <1>5 DEF StepFacts

\* Adding a clause is such a step,
LEMMA AddStep ==
  \A c, d, W, o : AddFacts(c, d, W, o) => StepFacts(c, d, W, o)
<1> SUFFICES ASSUME NEW c, NEW d, NEW W, NEW o, AddFacts(c, d, W, o)
             PROVE  StepFacts(c, d, W, o)
  OBVIOUS
<1>1. View(c, d)
  BY ViewFacts DEF AddFacts
<1> QED
  BY <1>1 DEF AddFacts, StepFacts

\* and propagation,
LEMMA PropStepFacts ==
  ASSUME NEW c, NEW d, NEW W, NEW o, Loose(c, W, o), PropFacts(c, d, W, o)
  PROVE  StepFacts(c, d, W, o)
<1>1. Loose(d, W, o) /\ (Ordered(c.trail) => Ordered(d.trail)) /\ Grown(c, d)
  BY DEF PropFacts
<1>2. Struct(c) /\ Struct(d) /\ Level(c) \in Nat
  BY <1>1, StructFields DEF Loose
<1>3. Roots(c.trail) \subseteq Roots(d.trail) /\ Level(d) = Level(c)
  BY <1>1, <1>2, GrownRoots
<1>4. View(c, d)
  BY <1>1, FrameFacts, ViewFacts DEF Grown
<1>5. ConflictKept(c, d)
  <2>1. c.conflict # None => d = c
    BY DEF PropFacts
  <2>2. d.conflict # None /\ c.conflict = None => Falsified(d)
    BY DEF PropFacts
  <2> QED
    BY <2>1, <2>2 DEF ConflictKept
<1> QED
  BY <1>1, <1>2, <1>3, <1>4, <1>5 DEF StepFacts

\* and telling the propagator,
LEMMA NotifiedStep ==
  ASSUME NEW c, NEW W, NEW o, Loose(c, W, o), NEW d, d = Notified(c)
  PROVE  StepFacts(c, d, W, o)
<1>1. /\ Loose(d, W, o) /\ (Ordered(c.trail) => Ordered(d.trail))
      /\ Same(c, d) /\ d.trail = c.trail /\ d.control = c.control
      /\ d.conflict = c.conflict
  BY NotifiedFine
<1>2. Level(c) \in Nat /\ Level(d) = Level(c)
  BY <1>1, StructFields DEF Loose, Level
<1>3. View(c, d)
  BY <1>1, FrameFacts, ViewFacts
<1>4. ConflictKept(c, d)
  BY <1>1 DEF ConflictKept, Falsified
<1> QED
  BY <1>1, <1>2, <1>3, <1>4 DEF StepFacts

\* and backtracking when there is no conflict,
LEMMA BackStep ==
  ASSUME NEW c, NEW W, NEW o, Loose(c, W, o), NEW L \in Nat, c.conflict = None,
         NEW d, d = Backtracked(c, L)
  PROVE  StepFacts(c, d, W, o)
<1>1. BackFacts(c, d, L) /\ Loose(d, W, o) /\ (Ordered(c.trail) => Ordered(d.trail))
  BY BackFine
<1>2. Same(c, d) /\ d.conflict = c.conflict
  BY <1>1 DEF BackFacts
<1>3. Roots(d.trail) = Roots(c.trail) /\ Level(d) <= Level(c)
  BY <1>1, BackRoots DEF Loose
<1>4. View(c, d)
  BY <1>2, FrameFacts, ViewFacts
<1> QED
  BY <1>1, <1>2, <1>3, <1>4 DEF StepFacts, ConflictKept

\* and doing nothing.
LEMMA StepStays ==
  ASSUME NEW c, NEW W, NEW o, Loose(c, W, o)
  PROVE  StepFacts(c, c, W, o)
  BY AddStays, AddStep

\* After a clause has come.
LEMMA SettledFine ==
  ASSUME NEW c, NEW W, NEW o, Loose(c, W, o), NEW d, d = Settled(c)
  PROVE  StepFacts(c, d, W, o) /\ (Interrupted(d) \/ d.propagated = Len(d.trail))
<1>1. CASE Interrupted(c)
  BY <1>1, StepStays DEF Settled
<1>2. CASE ~Interrupted(c)
  <2>1. d = Propagated(c)
    BY <1>2 DEF Settled
  <2>2. PropFacts(c, d, W, o) /\ Done(d)
    BY <2>1, PropagatedFine
  <2> QED
    BY <2>2, PropStepFacts DEF Done, Interrupted
<1> QED
  BY <1>1, <1>2

\* A lemma is given.
MarkOf(c, i) == [c EXCEPT !.lemmas[i].added = TRUE]

\* What changes when a lemma is marked as given: that, and nothing else.
MarkFacts(c, d, i, W, o) ==
  /\ Loose(d, W, o) /\ (Ordered(c.trail) => Ordered(d.trail)) /\ View(c, d)
  /\ d.lemmas[i].added
  /\ d.trail = c.trail /\ d.control = c.control /\ d.heard = c.heard
  /\ d.notified = c.notified /\ d.propagated = c.propagated
  /\ d.conflict = c.conflict /\ d.unsat = c.unsat /\ d.clauses = c.clauses
  /\ d.newest = c.newest /\ d.extended = c.extended /\ d.model = c.model

\* It keeps the invariant.
LEMMA MarkFine ==
  ASSUME NEW c, NEW W, NEW o, Loose(c, W, o), NEW i \in DOMAIN c.lemmas,
         NEW d, d = MarkOf(c, i)
  PROVE  MarkFacts(c, d, i, W, o)
<1> DEFINE ls == [c.lemmas EXCEPT ![i].added = TRUE]
           b == [c EXCEPT !.lemmas = ls]
<1>0. Struct(c) /\ Sound(c, W)
  BY DEF Loose
<1>1. IsState(c) /\ FieldTypes(c) /\ Known(c)
  BY <1>0, StructFields
<1>2. d = b
  BY DEF MarkOf
<1>3. c.lemmas \in Seq(LemmaSet)
  BY <1>1 DEF FieldTypes
<1>4. /\ ls \in Seq(LemmaSet) /\ Len(ls) = Len(c.lemmas) /\ Len(c.lemmas) \in Nat
      /\ DOMAIN ls = 1..Len(c.lemmas) /\ DOMAIN c.lemmas = 1..Len(c.lemmas)
      /\ \A j \in 1..Len(c.lemmas) :
            /\ ls[j].lits = c.lemmas[j].lits
            /\ ls[j].isReason = c.lemmas[j].isReason
            /\ c.lemmas[j].added => ls[j].added
      /\ ls[i].added
  <2> DEFINE s == c.lemmas
             r == [s[i] EXCEPT !.added = TRUE]
  <2>1. s \in Seq(LemmaSet)
    BY <1>3
  <2>2. DOMAIN s = 1..Len(s) /\ Len(s) \in Nat
        /\ \A j \in 1..Len(s) : s[j] \in LemmaSet /\ s[j].added \in BOOLEAN
    <3> HIDE DEF s
    <3>1. DOMAIN s = 1..Len(s) /\ Len(s) \in Nat /\ \A j \in 1..Len(s) : s[j] \in LemmaSet
      BY <2>1
    <3> QED
      BY <3>1 DEF LemmaSet
  <2>3. r \in LemmaSet /\ r.lits = s[i].lits /\ r.isReason = s[i].isReason /\ r.added
    <3>1. s[i] \in LemmaSet
      BY <2>2
    <3> HIDE DEF s
    <3> QED
      BY <3>1 DEF LemmaSet
  <2>4. ls = [s EXCEPT ![i] = r]
    OBVIOUS
  <2> HIDE DEF ls, r
  <2>5. i \in 1..Len(s)
    BY <2>2
  <2> HIDE DEF s
  <2>6. /\ [s EXCEPT ![i] = r] \in Seq(LemmaSet) /\ Len([s EXCEPT ![i] = r]) = Len(s)
         /\ DOMAIN [s EXCEPT ![i] = r] = 1..Len(s)
         /\ [s EXCEPT ![i] = r][i] = r
         /\ \A a \in 1..Len(s) : a # i => [s EXCEPT ![i] = r][a] = s[a]
    BY <2>1, <2>3, <2>5, SeqPut
  <2>7. /\ ls \in Seq(LemmaSet) /\ Len(ls) = Len(s)
         /\ DOMAIN ls = 1..Len(s) /\ ls[i] = r
         /\ \A a \in 1..Len(s) : a # i => ls[a] = s[a]
    BY <2>4, <2>6
  <2>8. ASSUME NEW j \in 1..Len(s)
        PROVE  /\ ls[j].lits = s[j].lits /\ ls[j].isReason = s[j].isReason
               /\ s[j].added => ls[j].added
    <3>1. CASE j = i
      BY <2>3, <2>7, <3>1
    <3>2. CASE j # i
      BY <2>7, <3>2
    <3> QED
      BY <3>1, <3>2
  <2> QED
    BY <2>2, <2>3, <2>7, <2>8 DEF s
<1> HIDE DEF ls
<1>5. IsState(b)
  BY <1>1, Puts
<1>6. /\ b.lemmas = ls /\ b.trail = c.trail /\ b.control = c.control /\ b.heard = c.heard
      /\ b.notified = c.notified /\ b.propagated = c.propagated
      /\ b.conflict = c.conflict /\ b.unsat = c.unsat /\ b.clauses = c.clauses
      /\ b.newest = c.newest /\ b.extended = c.extended /\ b.model = c.model
      /\ b.chrono = c.chrono /\ b.vars = c.vars /\ b.connected = c.connected
      /\ b.private = c.private /\ b.observed = c.observed /\ b.frozen = c.frozen
      /\ b.reasonOf = c.reasonOf
  BY <1>1, SMT DEF IsState, Fields
<1> HIDE DEF b
<1>7. FieldTypes(b)
  BY <1>1, <1>4, <1>6 DEF FieldTypes
<1>8. b \in Core
  BY <1>5, <1>7, StateCore
<1>9. LemmasKept(c, b) /\ b.lemmas[i].added
  BY <1>4, <1>6 DEF LemmasKept
<1>10. Near(c, b)
  BY <1>1, <1>6, <1>9 DEF Near, Known, LemmasKept
<1>11. b.propagated <= Len(b.trail) /\ \A e \in b.clauses : Over(e.lits, b.vars)
  BY <1>1, <1>6 DEF Known
<1>12. Sound(b, W)
  <2>1. \A m \in W : \A j \in DOMAIN b.lemmas : Holds(m, b.lemmas[j].lits)
    BY <1>0, <1>4, <1>6 DEF Sound
  <2> QED
    BY <1>0, <1>6, <2>1 DEF Sound
<1>13. Loose(b, W, o) /\ (Ordered(c.trail) => Ordered(b.trail))
  BY <1>8, <1>10, <1>11, <1>12, NearLoose
<1>14. View(c, b)
  BY <1>6, <1>9 DEF View
<1> QED
  BY <1>2, <1>6, <1>9, <1>13, <1>14 DEF MarkFacts

\* The propagator gives lemma i, and it is added.
GivenOf(c, i, red) == ClauseAdded(MarkOf(c, i), c.lemmas[i].lits, red, FALSE)

\* It does so when there is no conflict, or when the conflict cannot get
\* stale.
GivenOk(c, i) ==
  /\ i \in DOMAIN c.lemmas
  /\ \/ c.conflict = None \/ c.unsat \/ (Level(c) = 0 /\ Falsified(c))
     \/ c.lemmas[i].lits \cap Roots(c.trail) # {}

\* What adding a lemma promises.
GivenFacts(c, d, i, W, o) ==
  /\ StepFacts(c, d, W, o) /\ d.lemmas[i].added
  /\ (Caught(c) => Caught(d) \/ Moved(c, d)) /\ (c.unsat => d.unsat)

\* It keeps the promise: a lemma follows from the models, which satisfy the
\* theory.
LEMMA GivenFine ==
  ASSUME NEW c, NEW W, NEW o, Loose(c, W, o), NEW i, GivenOk(c, i),
         NEW red \in BOOLEAN, NEW d, d = GivenOf(c, i, red)
  PROVE  GivenFacts(c, d, i, W, o)
<1> DEFINE b == MarkOf(c, i)
           cl == c.lemmas[i].lits
<1>0. Struct(c) /\ Sound(c, W)
  BY DEF Loose
<1>1. FieldTypes(c) /\ Known(c) /\ i \in DOMAIN c.lemmas /\ Level(c) \in Nat
  BY <1>0, StructFields DEF GivenOk
<1>2. MarkFacts(c, b, i, W, o)
  BY <1>1, MarkFine
<1>3. d = ClauseAdded(b, cl, red, FALSE)
  BY DEF GivenOf
<1> HIDE DEF b
<1>4. /\ Loose(b, W, o) /\ (Ordered(c.trail) => Ordered(b.trail)) /\ View(c, b)
      /\ b.lemmas[i].added
      /\ b.trail = c.trail /\ b.control = c.control /\ b.notified = c.notified
      /\ b.conflict = c.conflict /\ b.unsat = c.unsat
  BY <1>2 DEF MarkFacts
<1>5. cl \in Clause /\ Over(cl, b.vars) /\ \A m \in W : Holds(m, cl)
  <2>1. c.lemmas[i] \in LemmaSet
    BY <1>1 DEF FieldTypes
  <2>2. cl \in Clause
    BY <2>1 DEF LemmaSet
  <2> QED
    BY <1>0, <1>1, <1>4, <2>2 DEF Known, Sound, View
<1>6. \/ b.conflict = None \/ b.unsat \/ (Level(b) = 0 /\ Falsified(b))
      \/ \E l \in cl : IsFixed(b, l) /\ IsTrue(b, l)
  <2>1. CASE \E l \in cl : l \in Roots(c.trail)
    <3>1. PICK l \in cl, j \in DOMAIN c.trail : c.trail[j].lit = l /\ c.trail[j].level = 0
      BY <2>1 DEF Roots
    <3>2. l \in Lit
      BY <1>5 DEF Clause
    <3>3. SpotIs(c, l, j) /\ IsAssigned(c, l)
      BY <1>0, <3>1, <3>2, Spot
    <3>4. IsTrue(c, l)
      BY <3>1 DEF IsTrue, Lits
    <3>5. IsFixed(c, l) /\ IsTrue(c, l)
      BY <3>1, <3>3, <3>4 DEF SpotIs, IsFixed
    <3> QED
      BY <1>4, <3>5, AlikeTrail
  <2>2. CASE ~\E l \in cl : l \in Roots(c.trail)
    <3>1. \/ c.conflict = None \/ c.unsat \/ (Level(c) = 0 /\ Falsified(c))
      BY <2>2 DEF GivenOk
    <3> QED
      BY <1>4, <3>1 DEF Level, Falsified
  <2> QED
    BY <2>1, <2>2
<1> HIDE DEF cl
<1>7. AddOk(b, W, cl)
  BY <1>5, <1>6 DEF AddOk
<1>8. AddedFacts(b, d, cl, W, o)
  BY <1>3, <1>4, <1>7, AddedFine
<1>9. AddFacts(b, d, W, o) /\ (b.unsat => d.unsat)
  BY <1>8 DEF AddedFacts
<1>10. StepFacts(c, b, W, o)
  BY <1>1, <1>4 DEF StepFacts, Level, ConflictKept, Falsified
<1>11. StepFacts(b, d, W, o)
  BY <1>9, AddStep
<1>12. StepFacts(c, d, W, o)
  BY <1>10, <1>11, StepTrans
<1>13. d.lemmas[i].added
  <2>1. Struct(b)
    BY <1>4 DEF Loose
  <2>2. b.lemmas \in Seq(LemmaSet) /\ c.lemmas \in Seq(LemmaSet)
    BY <1>1, <2>1, StructFields DEF FieldTypes
  <2>3. i \in 1..Len(c.lemmas) /\ Len(b.lemmas) = Len(c.lemmas)
    BY <1>1, <1>4, <2>2 DEF View, LemmasKept
  <2> QED
    BY <1>4, <1>11, <2>3 DEF StepFacts, View, LemmasKept
<1>14. Caught(c) => Caught(d) \/ Moved(c, d)
  <2>1. Listens(c) <=> Listens(b)
    BY <1>4, ViewFacts
  <2>2. Caught(c) => Caught(b)
    BY <1>4, <2>1 DEF Caught
  <2>3. Moved(b, d) => Moved(c, d)
    BY <1>4 DEF Moved, Level
  <2> QED
    BY <1>9, <2>2, <2>3 DEF AddFacts
<1> QED
  BY <1>4, <1>9, <1>12, <1>13, <1>14 DEF GivenFacts

\* What the propagator comes up with.
LemmaPut(c, r) == [c EXCEPT !.lemmas = Append(@, r)]

\* The propagator takes lemma n as the reason of l.
RenameTo(c, l, n) == [c EXCEPT !.reasonOf[l] = n]

\* The invariant holds, and neither the trail nor anything else of the
\* solver's own has changed.
PutFacts(c, d, W, o) ==
  /\ Loose(d, W, o) /\ (Ordered(c.trail) => Ordered(d.trail))
  /\ d.chrono = c.chrono /\ d.vars = c.vars /\ d.connected = c.connected
  /\ d.private = c.private /\ d.observed = c.observed /\ d.frozen = c.frozen
  /\ d.trail = c.trail /\ d.control = c.control /\ d.heard = c.heard
  /\ d.notified = c.notified /\ d.propagated = c.propagated
  /\ d.conflict = c.conflict /\ d.unsat = c.unsat /\ d.clauses = c.clauses
  /\ d.newest = c.newest /\ d.extended = c.extended /\ d.model = c.model

\* Only the lemmas have changed.
PutsLemmas(c, b, x) ==
  /\ b.lemmas = x /\ b.trail = c.trail /\ b.control = c.control /\ b.heard = c.heard
  /\ b.notified = c.notified /\ b.propagated = c.propagated
  /\ b.conflict = c.conflict /\ b.unsat = c.unsat /\ b.clauses = c.clauses
  /\ b.newest = c.newest /\ b.extended = c.extended /\ b.model = c.model
  /\ b.chrono = c.chrono /\ b.vars = c.vars /\ b.connected = c.connected
  /\ b.private = c.private /\ b.observed = c.observed /\ b.frozen = c.frozen
  /\ b.reasonOf = c.reasonOf

\* That is so when the field is given a value.
LEMMA LemmasPut ==
  ASSUME NEW c, IsState(c), NEW x
  PROVE  PutsLemmas(c, [c EXCEPT !.lemmas = x], x)
  BY SMT DEF IsState, Fields, PutsLemmas

\* The propagator may come up with a lemma; the models are those that satisfy
\* it, too.
LEMMA LemmaPutFine ==
  ASSUME NEW c, NEW W, NEW o, Loose(c, W, o), c.connected, NEW r \in LemmaSet,
         Over(r.lits, c.vars), NEW V \in SUBSET W, \A m \in V : Holds(m, r.lits),
         NEW d, d = LemmaPut(c, r)
  PROVE  PutFacts(c, d, V, o) /\ d.reasonOf = c.reasonOf /\ d.lemmas = Append(c.lemmas, r)
<1> DEFINE s == c.lemmas
           ls == Append(s, r)
           b == [c EXCEPT !.lemmas = ls]
<1>0. Struct(c) /\ Sound(c, W)
  BY DEF Loose
<1>1. IsState(c) /\ FieldTypes(c) /\ Known(c) /\ c.trail \in Seq(Entry)
      /\ DOMAIN c.trail = 1..Len(c.trail)
  BY <1>0, StructFields
<1>2. d = b
  BY DEF LemmaPut
<1>3. s \in Seq(LemmaSet)
  BY <1>1 DEF FieldTypes
<1>4. /\ ls \in Seq(LemmaSet) /\ Len(ls) = Len(s) + 1 /\ Len(s) \in Nat
      /\ DOMAIN ls = 1..Len(s) + 1 /\ DOMAIN s = 1..Len(s) /\ ls[Len(s) + 1] = r
      /\ \A j \in 1..Len(s) : ls[j] = s[j]
      /\ \A j \in 1..Len(ls) : j \in 1..Len(s) \/ ls[j] = r
  <2> HIDE DEF s
  <2> DEFINE T == LemmaSet
  <2>1. s \in Seq(T) /\ r \in T
    BY <1>3
  <2> HIDE DEF T
  <2>2. /\ ls \in Seq(T) /\ Len(ls) = Len(s) + 1 /\ Len(s) \in Nat
      /\ DOMAIN ls = 1..Len(s) + 1 /\ DOMAIN s = 1..Len(s) /\ ls[Len(s) + 1] = r
      /\ \A j \in 1..Len(s) : ls[j] = s[j]
    BY <2>1
  <2>3. ASSUME NEW j \in 1..Len(ls), j \notin 1..Len(s) PROVE ls[j] = r
    <3>1. j = Len(s) + 1
      BY <2>2, <2>3
    <3> QED
      BY <2>2, <3>1
  <2> QED
    BY <2>2, <2>3 DEF T
<1>5. IsState(b)
  BY <1>1, Puts
<1> HIDE DEF ls
<1>6. /\ b.lemmas = ls /\ b.trail = c.trail /\ b.control = c.control /\ b.heard = c.heard
      /\ b.notified = c.notified /\ b.propagated = c.propagated
      /\ b.conflict = c.conflict /\ b.unsat = c.unsat /\ b.clauses = c.clauses
      /\ b.newest = c.newest /\ b.extended = c.extended /\ b.model = c.model
      /\ b.chrono = c.chrono /\ b.vars = c.vars /\ b.connected = c.connected
      /\ b.private = c.private /\ b.observed = c.observed /\ b.frozen = c.frozen
      /\ b.reasonOf = c.reasonOf
  <2>1. PutsLemmas(c, b, ls)
    BY <1>1, LemmasPut
  <2> QED
    BY <2>1 DEF PutsLemmas
<1> HIDE DEF b
<1>7. FieldTypes(b)
  BY <1>1, <1>4, <1>6 DEF FieldTypes
<1>8. b \in Core
  BY <1>5, <1>7, StateCore
<1>9. \A l \in Lit : b.reasonOf[l] <= Len(b.lemmas)
  <2>1. \A l \in Lit : c.reasonOf[l] \in Nat /\ c.reasonOf[l] <= Len(c.lemmas)
    BY <1>1 DEF Known, FieldTypes
  <2> QED
    BY <1>4, <1>6, <2>1
<1>10. \A i \in 1..Len(b.lemmas) : Over(b.lemmas[i].lits, b.vars)
  BY <1>1, <1>4, <1>6 DEF Known
<1>11. More(c, b)
  BY <1>1, <1>4, <1>6, <1>9, <1>10 DEF More, Known
<1>12. b.propagated <= Len(b.trail) /\ \A e \in b.clauses : Over(e.lits, b.vars)
  BY <1>1, <1>6 DEF Known
<1>13. Sound(b, V)
  <2>1. \A m \in V : \A j \in DOMAIN b.lemmas : Holds(m, b.lemmas[j].lits)
    BY <1>0, <1>4, <1>6 DEF Sound
  <2> QED
    BY <1>0, <1>6, <2>1 DEF Sound
<1>14. Loose(b, V, o) /\ (Ordered(c.trail) => Ordered(b.trail))
  BY <1>8, <1>11, <1>12, <1>13, MoreLoose
<1> QED
  BY <1>2, <1>6, <1>14 DEF PutFacts, ls

\* What has changed then.
Renamed(c, d, l, n, W, o) ==
  PutFacts(c, d, W, o) /\ d.lemmas = c.lemmas /\ d.reasonOf[l] = n

\* It may change its reason for a literal that is not true.
LEMMA RenamedFine ==
  ASSUME NEW c, NEW W, NEW o, Loose(c, W, o), NEW l \in Lit, ~IsTrue(c, l),
         NEW n \in 0..Len(c.lemmas), NEW d, d = RenameTo(c, l, n)
  PROVE  Renamed(c, d, l, n, W, o)
<1> DEFINE f == [c.reasonOf EXCEPT ![l] = n]
           b == [c EXCEPT !.reasonOf = f]
<1>0. Struct(c) /\ Sound(c, W)
  BY DEF Loose
<1>1. IsState(c) /\ FieldTypes(c) /\ Known(c) /\ c.trail \in Seq(Entry)
      /\ DOMAIN c.trail = 1..Len(c.trail)
  BY <1>0, StructFields
<1>2. d = b
  BY DEF RenameTo
<1>3. c.reasonOf \in [Lit -> Nat] /\ c.lemmas \in Seq(LemmaSet)
  BY <1>1 DEF FieldTypes
<1>4. f \in [Lit -> Nat] /\ f[l] = n /\ \A k \in Lit : k # l => f[k] = c.reasonOf[k]
  BY <1>3
<1>5. IsState(b)
  BY <1>1, Puts
<1>6. /\ b.lemmas = c.lemmas /\ b.trail = c.trail /\ b.control = c.control
      /\ b.heard = c.heard
      /\ b.notified = c.notified /\ b.propagated = c.propagated
      /\ b.conflict = c.conflict /\ b.unsat = c.unsat /\ b.clauses = c.clauses
      /\ b.newest = c.newest /\ b.extended = c.extended /\ b.model = c.model
      /\ b.chrono = c.chrono /\ b.vars = c.vars /\ b.connected = c.connected
      /\ b.private = c.private /\ b.observed = c.observed /\ b.frozen = c.frozen
      /\ b.reasonOf = f
  BY <1>1, SMT DEF IsState, Fields
<1> HIDE DEF b, f
<1>7. FieldTypes(b)
  BY <1>1, <1>4, <1>6 DEF FieldTypes
<1>8. b \in Core
  BY <1>5, <1>7, StateCore
<1>9. \A k \in Lit : b.reasonOf[k] <= Len(b.lemmas)
  BY <1>1, <1>3, <1>4, <1>6 DEF Known
<1>10. \A i \in DOMAIN c.trail : b.reasonOf[c.trail[i].lit] = c.reasonOf[c.trail[i].lit]
  <2>1. \A i \in DOMAIN c.trail : c.trail[i].lit \in Lit /\ c.trail[i].lit # l
    BY <1>1, TrailTypes DEF IsTrue, Lits
  <2> QED
    BY <1>4, <1>6, <2>1
<1>11. \A i \in 1..Len(b.lemmas) : Over(b.lemmas[i].lits, b.vars)
  <2>1. DOMAIN c.lemmas = 1..Len(c.lemmas)
    BY <1>3
  <2> QED
    BY <1>1, <1>6, <2>1 DEF Known
<1>12. More(c, b)
  BY <1>1, <1>6, <1>9, <1>10, <1>11 DEF More, Known
<1>13. b.propagated <= Len(b.trail) /\ \A e \in b.clauses : Over(e.lits, b.vars)
  BY <1>1, <1>6 DEF Known
<1>14. Sound(b, W)
  BY <1>0, <1>6 DEF Sound
<1>15. Loose(b, W, o) /\ (Ordered(c.trail) => Ordered(b.trail))
  BY <1>8, <1>12, <1>13, <1>14, MoreLoose
<1> QED
  BY <1>2, <1>4, <1>6, <1>15 DEF PutFacts, Renamed

-----------------------------------------------------------------------------
(* What the propagator knows.                                              *)

\* The sequences of h up to the n-th, one after the other: p says where the
\* elements come from.
FlatOk(h, n, f, p) ==
  /\ f \in Seq(Lit) /\ Len(f) \in Nat /\ DOMAIN f = 1..Len(f)
  /\ \A i \in 1..Len(f) :
       /\ p[i][1] \in 1..n /\ p[i][2] \in DOMAIN h[p[i][1]]
       /\ f[i] = h[p[i][1]][p[i][2]]
  /\ \A i, j \in 1..Len(f) : p[i][1] = p[j][1] /\ p[i][2] = p[j][2] => i = j
  /\ \A a \in 1..n : \A x \in DOMAIN h[a] : \E i \in 1..Len(f) : p[i] = <<a, x>>

\* f is the first n sequences of h, one after the other.
IsFlat(h, n, f) == \E p : FlatOk(h, n, f, p)

\* One sequence is flat,
LEMMA FlatFirst ==
  ASSUME NEW h, NEW f, f = h[1], f \in Seq(Lit)
  PROVE  IsFlat(h, 1, f)
<1> DEFINE p == [i \in 1..Len(f) |-> <<1, i>>]
<1>1. DOMAIN f = 1..Len(f) /\ Len(f) \in Nat
  OBVIOUS
<1>2. \A i \in 1..Len(f) : p[i] = <<1, i>> /\ p[i][1] = 1 /\ p[i][2] = i
  OBVIOUS
<1> HIDE DEF p
<1>3. \A i \in 1..Len(f) :
       /\ p[i][1] \in 1..1 /\ p[i][2] \in DOMAIN h[p[i][1]]
       /\ f[i] = h[p[i][1]][p[i][2]]
  BY <1>1, <1>2
<1>4. \A i, j \in 1..Len(f) : p[i][1] = p[j][1] /\ p[i][2] = p[j][2] => i = j
  BY <1>2
<1>5. \A a \in 1..1 : \A x \in DOMAIN h[a] : \E i \in 1..Len(f) : p[i] = <<a, x>>
  BY <1>1, <1>2
<1>6. FlatOk(h, 1, f, p)
  BY <1>1, <1>3, <1>4, <1>5, Zenon DEF FlatOk
<1> QED
  BY <1>6, Zenon DEF IsFlat

\* and stays so with the next one behind it.
LEMMA FlatMore ==
  ASSUME NEW h, NEW n \in Nat, NEW f, IsFlat(h, n, f), NEW s, s = h[n + 1],
         s \in Seq(Lit)
  PROVE  IsFlat(h, n + 1, f \o s)
<1>1. PICK p : FlatOk(h, n, f, p)
  BY DEF IsFlat
<1>2. /\ f \in Seq(Lit) /\ Len(f) \in Nat /\ DOMAIN f = 1..Len(f)
      /\ \A i \in 1..Len(f) :
           /\ p[i][1] \in 1..n /\ p[i][2] \in DOMAIN h[p[i][1]]
           /\ f[i] = h[p[i][1]][p[i][2]]
      /\ \A i, j \in 1..Len(f) : p[i][1] = p[j][1] /\ p[i][2] = p[j][2] => i = j
      /\ \A a \in 1..n : \A x \in DOMAIN h[a] : \E i \in 1..Len(f) : p[i] = <<a, x>>
  BY <1>1, Zenon DEF FlatOk
<1> DEFINE e == f \o s
           q == [i \in 1..Len(f) + Len(s) |->
                   IF i <= Len(f) THEN p[i] ELSE <<n + 1, i - Len(f)>>]
<1>3. Len(s) \in Nat /\ DOMAIN s = 1..Len(s)
  OBVIOUS
<1>4. /\ e \in Seq(Lit) /\ Len(e) = Len(f) + Len(s) /\ DOMAIN e = 1..Len(e)
      /\ Len(e) \in Nat
      /\ \A i \in 1..Len(f) : e[i] = f[i]
      /\ \A i \in 1..Len(s) : e[Len(f) + i] = s[i]
  BY <1>2, <1>3
<1>5. /\ \A i \in 1..Len(f) : i \in 1..Len(e) /\ q[i] = p[i]
      /\ \A i \in 1..Len(s) : Len(f) + i \in 1..Len(e) /\ q[Len(f) + i] = <<n + 1, i>>
                              /\ q[Len(f) + i][1] = n + 1 /\ q[Len(f) + i][2] = i
  BY <1>2, <1>3, <1>4
<1> HIDE DEF q, e
<1>6. ASSUME NEW i \in 1..Len(e)
      PROVE  i \in 1..Len(f) \/ \E j \in 1..Len(s) : i = Len(f) + j
  <2>1. CASE i <= Len(f)
    BY <1>2, <1>4, <2>1
  <2>2. CASE ~(i <= Len(f))
    <3>1. i - Len(f) \in 1..Len(s) /\ i = Len(f) + (i - Len(f))
      BY <1>2, <1>3, <1>4, <2>2
    <3> QED
      BY <3>1
  <2> QED
    BY <2>1, <2>2
<1>7. \A i \in 1..Len(f) : q[i][1] \in 1..n /\ q[i][1] # n + 1
  BY <1>2, <1>5
<1>8. ASSUME NEW i \in 1..Len(e)
      PROVE  /\ q[i][1] \in 1..n + 1 /\ q[i][2] \in DOMAIN h[q[i][1]]
             /\ e[i] = h[q[i][1]][q[i][2]]
  <2>1. CASE i \in 1..Len(f)
    <3>1. q[i] = p[i] /\ e[i] = f[i]
      BY <1>4, <1>5, <2>1
    <3>2. /\ p[i][1] \in 1..n /\ p[i][2] \in DOMAIN h[p[i][1]]
          /\ f[i] = h[p[i][1]][p[i][2]]
      BY <1>2, <2>1
    <3>3. p[i][1] \in 1..n + 1
      BY <3>2
    <3> QED
      BY <3>1, <3>2, <3>3, Zenon
  <2>2. CASE \E j \in 1..Len(s) : i = Len(f) + j
    <3>1. PICK j \in 1..Len(s) : i = Len(f) + j
      BY <2>2
    <3>2. q[i][1] = n + 1 /\ q[i][2] = j /\ e[i] = s[j]
      BY <1>4, <1>5, <3>1
    <3> QED
      BY <1>3, <3>2
  <2> QED
    BY <1>6, <2>1, <2>2
<1>9. ASSUME NEW i \in 1..Len(e), NEW j \in 1..Len(e),
             q[i][1] = q[j][1] /\ q[i][2] = q[j][2]
      PROVE  i = j
  <2>1. CASE i \in 1..Len(f) /\ j \in 1..Len(f)
    BY <1>2, <1>5, <1>9, <2>1
  <2>2. CASE i \in 1..Len(f) /\ \E k \in 1..Len(s) : j = Len(f) + k
    BY <1>5, <1>7, <1>9, <2>2
  <2>3. CASE j \in 1..Len(f) /\ \E k \in 1..Len(s) : i = Len(f) + k
    BY <1>5, <1>7, <1>9, <2>3
  <2>4. CASE (\E k \in 1..Len(s) : i = Len(f) + k) /\ (\E k \in 1..Len(s) : j = Len(f) + k)
    BY <1>5, <1>9, <2>4
  <2> QED
    BY <1>6, <2>1, <2>2, <2>3, <2>4
<1>10. ASSUME NEW a \in 1..n + 1, NEW x \in DOMAIN h[a]
       PROVE  \E i \in 1..Len(e) : q[i] = <<a, x>>
  <2>1. CASE a = n + 1
    <3>1. x \in 1..Len(s)
      BY <1>3, <1>10, <2>1
    <3> QED
      BY <1>5, <2>1, <3>1
  <2>2. CASE a # n + 1
    <3>1. a \in 1..n
      BY <2>2
    <3>2. PICK i \in 1..Len(f) : p[i] = <<a, x>>
      BY <1>2, <3>1
    <3> QED
      BY <1>5, <3>2
  <2> QED
    BY <2>1, <2>2
<1>11. FlatOk(h, n + 1, e, q)
  BY <1>4, <1>8, <1>9, <1>10, Zenon DEF FlatOk
<1>12. IsFlat(h, n + 1, e)
  BY <1>11, Zenon DEF IsFlat
<1> QED
  BY <1>12, Zenon DEF e

\* This is how FlattenSeq joins sequences.
FlatRun(g, h, N) ==
  g = [i \in 1..N |-> IF i = 1 THEN h[i] ELSE g[i - 1] \o h[i]]

\* It is defined for every number of them.
LEMMA FlatExists ==
  ASSUME NEW S, NEW h, NEW N \in Nat \ {0}, \A a \in 1..N : h[a] \in Seq(S)
  PROVE  \E g : FlatRun(g, h, N)
<1> DEFINE T == Seq(S)
           M == N - 1
           G == [p \in (1..M) \X T |-> p[2] \o h[p[1] + 1]]
           b == h[1]
<1>1. M \in Nat /\ b \in T /\ \A k \in 1..M : k + 1 \in 1..N
  OBVIOUS
<1>2. \A k \in 1..M : h[k + 1] \in T
  BY <1>1
<1>3. \A u, v \in T : u \o v \in T
  OBVIOUS
<1>4. \A k \in 1..M : k \in Nat /\ k + 1 \in 1..N
  BY <1>1
<1> HIDE DEF T, M
<1>5. G \in [(1..M) \X T -> T]
  BY <1>2, <1>3
<1>6. \A k \in 1..M : \A u \in T : G[k, u] = u \o h[k + 1]
  OBVIOUS
<1> HIDE DEF G, b
<1>7. PICK f \in [0..M -> T] : RunOf(f, b, M, G)
  BY <1>1, <1>5, RunExists
<1>8. f[0] = b /\ \A k \in 1..M : f[k] = f[k - 1] \o h[k + 1]
  <2>1. \A k \in 0..M : f[k] = IF k = 0 THEN b ELSE G[k, f[k - 1]]
    BY <1>7, Zenon DEF RunOf
  <2>2. 0 \in 0..M /\ \A k \in 1..M : k \in 0..M /\ k # 0 /\ k - 1 \in 0..M
    BY <1>1
  <2>3. \A k \in 1..M : f[k - 1] \in T
    BY <2>2
  <2> QED
    BY <1>6, <2>1, <2>2, <2>3
<1> DEFINE g == [i \in 1..N |-> f[i - 1]]
<1>9. ASSUME NEW i \in 1..N
      PROVE  g[i] = IF i = 1 THEN h[i] ELSE g[i - 1] \o h[i]
  <2>1. CASE i = 1
    BY <1>8, <2>1 DEF b
  <2>2. CASE i # 1
    <3>1. i - 1 \in 1..M /\ i - 1 \in 1..N /\ (i - 1) + 1 = i
      BY <2>2 DEF M
    <3>2. g[i] = f[i - 1] /\ g[i - 1] = f[(i - 1) - 1]
      BY <3>1
    <3> QED
      BY <1>8, <2>2, <3>1, <3>2
  <2> QED
    BY <2>1, <2>2
<1>10. g = [i \in 1..N |-> g[i]]
  OBVIOUS
<1> HIDE DEF g
<1>11. FlatRun(g, h, N)
  BY <1>9, <1>10 DEF FlatRun
<1> QED
  BY <1>11

\* What the propagator knows, as one sequence, is what it has heard level by
\* level.
LEMMA FlattenFacts ==
  ASSUME NEW h \in Seq(Seq(Lit)), Len(h) >= 1
  PROVE  IsFlat(h, Len(h), FlattenSeq(h))
<1> DEFINE N == Len(h)
           g == CHOOSE f : FlatRun(f, h, N)
<1>1. N \in Nat \ {0} /\ \A a \in 1..N : h[a] \in Seq(Lit)
  <2> DEFINE T == Seq(Lit)
  <2>1. h \in Seq(T)
    OBVIOUS
  <2> HIDE DEF T
  <2>2. Len(h) \in Nat /\ \A a \in 1..Len(h) : h[a] \in T
    BY <2>1
  <2> QED
    BY <2>2 DEF T
<1>2. FlattenSeq(h) = g[N]
  <2>1. Len(h) # 0
    BY <1>1
  <2> QED
    BY <2>1, Zenon DEF FlattenSeq, FlatRun
<1>3. FlatRun(g, h, N)
  <2>1. \E f : FlatRun(f, h, N)
    BY <1>1, FlatExists
  <2> QED
    BY <2>1
<1> HIDE DEF g, N
<1>4. \A i \in 1..N : g[i] = IF i = 1 THEN h[i] ELSE g[i - 1] \o h[i]
  BY <1>3 DEF FlatRun
<1> DEFINE D == {n \in 0..N : n = 0 \/ IsFlat(h, n, g[n])}
<1>5. 0 \in D
  BY <1>1
<1>6. ASSUME NEW n \in 1..N, n - 1 \in D PROVE n \in D
  <2>1. CASE n = 1
    <3>1. g[n] = h[n] /\ h[n] \in Seq(Lit)
      BY <1>1, <1>4, <2>1
    <3>2. IsFlat(h, 1, g[n])
      BY <2>1, <3>1, FlatFirst
    <3> QED
      BY <1>1, <2>1, <3>2
  <2>2. CASE n # 1
    <3> DEFINE m == n - 1
    <3>1. m \in Nat /\ m # 0 /\ m + 1 = n /\ n \in 0..N
      BY <1>1, <2>2
    <3>2. IsFlat(h, m, g[m]) /\ g[n] = g[m] \o h[n] /\ h[n] \in Seq(Lit)
      BY <1>1, <1>4, <1>6, <2>2, <3>1
    <3> HIDE DEF m
    <3> DEFINE s == h[n]
               f == g[m]
    <3>3. s = h[m + 1] /\ s \in Seq(Lit) /\ IsFlat(h, m, f)
      BY <3>1, <3>2
    <3> HIDE DEF s, f
    <3>4. IsFlat(h, m + 1, f \o s)
      BY <3>1, <3>3, FlatMore
    <3> QED
      BY <3>1, <3>2, <3>4 DEF s, f
  <2> QED
    BY <2>1, <2>2
<1>7. N \in D
  <2> HIDE DEF D
  <2>1. \A n \in 0..N : n \in D
    BY <1>1, <1>5, <1>6, AllSteps
  <2> QED
    BY <1>1, <2>1
<1> QED
  BY <1>1, <1>2, <1>7 DEF N

\* What the propagator knows, and where it was told: p gives for each literal
\* the level and the place.
HeardAt(c, hd, p) ==
  /\ hd \in Seq(Lit) /\ Len(hd) \in Nat /\ DOMAIN hd = 1..Len(hd)
  /\ \A k \in 1..Len(hd) :
       /\ p[k][1] \in DOMAIN c.heard /\ p[k][2] \in DOMAIN c.heard[p[k][1]]
       /\ hd[k] = c.heard[p[k][1]][p[k][2]] /\ Abs(hd[k]) \in c.observed
  /\ \A i, j \in 1..Len(hd) : p[i][1] = p[j][1] /\ p[i][2] = p[j][2] => i = j
  /\ \A a \in DOMAIN c.heard : \A x \in DOMAIN c.heard[a] :
       Abs(c.heard[a][x]) \in c.observed => \E k \in 1..Len(hd) : p[k] = <<a, x>>

\* Heard chooses what is observed.
LEMMA HeardFacts ==
  ASSUME NEW c, Struct(c)
  PROVE  \E p : HeardAt(c, Heard(c), p)
<1> DEFINE h == c.heard
           flat == FlattenSeq(h)
           I == {i \in DOMAIN flat : Abs(flat[i]) \in c.observed}
           hd == Chosen(flat, I)
<1>1. h \in Seq(Seq(Lit)) /\ Len(h) >= 1 /\ DOMAIN h = 1..Len(h)
  <2>1. h \in Seq(Seq(Lit)) /\ Len(h) >= 1
    BY StructFields
  <2> DEFINE T == Seq(Lit)
  <2>2. h \in Seq(T)
    BY <2>1
  <2> HIDE DEF T, h
  <2> QED
    BY <2>1, <2>2
<1>2. Heard(c) = hd
  BY DEF Heard
<1>3. IsFlat(h, Len(h), flat)
  BY <1>1, FlattenFacts
<1> HIDE DEF flat, h
<1>4. PICK q : FlatOk(h, Len(h), flat, q)
  BY <1>3 DEF IsFlat
<1>5. /\ flat \in Seq(Lit) /\ Len(flat) \in Nat /\ DOMAIN flat = 1..Len(flat)
      /\ \A i \in 1..Len(flat) :
           /\ q[i][1] \in 1..Len(h) /\ q[i][2] \in DOMAIN h[q[i][1]]
           /\ flat[i] = h[q[i][1]][q[i][2]]
      /\ \A i, j \in 1..Len(flat) : q[i][1] = q[j][1] /\ q[i][2] = q[j][2] => i = j
      /\ \A a \in 1..Len(h) : \A x \in DOMAIN h[a] : \E i \in 1..Len(flat) : q[i] = <<a, x>>
  BY <1>4, Zenon DEF FlatOk
<1>6. I \in SUBSET (1..Len(flat)) /\ \A i \in I : Abs(flat[i]) \in c.observed
  BY <1>5
<1>7. \A i \in 1..Len(flat) : Abs(flat[i]) \in c.observed => i \in I
  BY <1>5
<1> DEFINE N == Cardinality(I)
<1> HIDE DEF I, N
<1>8. /\ hd \in Seq(Lit) /\ N \in 0..Len(flat) /\ Len(hd) = N
      /\ \A k \in 1..N : hd[k] = flat[Nth(I, k)] /\ Nth(I, k) \in I
      /\ \A j, k \in 1..N : j < k => Nth(I, j) < Nth(I, k)
      /\ \A i \in I : \E k \in 1..N : Nth(I, k) = i /\ hd[k] = flat[i]
  BY <1>5, <1>6, ChosenFacts DEF N
<1> HIDE DEF hd
<1> DEFINE p == [k \in 1..N |-> q[Nth(I, k)]]
<1>9. \A k \in 1..N : p[k] = q[Nth(I, k)]
  OBVIOUS
<1> HIDE DEF p
<1>10. \A k \in 1..N : Nth(I, k) \in 1..Len(flat) /\ Nth(I, k) \in Nat
  BY <1>5, <1>6, <1>8
<1>11. \A j, k \in 1..N : Nth(I, j) = Nth(I, k) => j = k
  <2> TAKE j, k \in 1..N
  <2>1. j < k \/ k < j \/ j = k
    BY <1>5, <1>8
  <2> QED
    BY <1>8, <1>10, <2>1
<1>12. HeardAt(c, hd, p)
  <2>1. hd \in Seq(Lit) /\ Len(hd) \in Nat /\ DOMAIN hd = 1..Len(hd)
    BY <1>5, <1>8
  <2>2. ASSUME NEW k \in 1..Len(hd)
        PROVE  /\ p[k][1] \in DOMAIN c.heard /\ p[k][2] \in DOMAIN c.heard[p[k][1]]
               /\ hd[k] = c.heard[p[k][1]][p[k][2]] /\ Abs(hd[k]) \in c.observed
    <3> DEFINE i == Nth(I, k)
    <3>1. i \in 1..Len(flat) /\ i \in I /\ p[k] = q[i] /\ hd[k] = flat[i]
      BY <1>6, <1>8, <1>9
    <3> HIDE DEF i
    <3>2. /\ q[i][1] \in 1..Len(h) /\ q[i][2] \in DOMAIN h[q[i][1]]
          /\ flat[i] = h[q[i][1]][q[i][2]] /\ Abs(flat[i]) \in c.observed
      BY <1>5, <1>6, <3>1
    <3> QED
      BY <1>1, <3>1, <3>2 DEF h
  <2>3. \A i, j \in 1..Len(hd) : p[i][1] = p[j][1] /\ p[i][2] = p[j][2] => i = j
    <3> TAKE i, j \in 1..Len(hd)
    <3>1. i \in 1..N /\ j \in 1..N
      BY <1>8
    <3> DEFINE u == Nth(I, i)
               v == Nth(I, j)
    <3>2. u \in 1..Len(flat) /\ v \in 1..Len(flat) /\ p[i] = q[u] /\ p[j] = q[v]
          /\ (u = v => i = j)
      BY <1>9, <1>10, <1>11, <3>1
    <3> HIDE DEF u, v
    <3> QED
      BY <1>5, <3>2
  <2>4. ASSUME NEW a \in DOMAIN c.heard, NEW x \in DOMAIN c.heard[a],
               Abs(c.heard[a][x]) \in c.observed
        PROVE  \E k \in 1..Len(hd) : p[k] = <<a, x>>
    <3>1. PICK i \in 1..Len(flat) : q[i] = <<a, x>>
      BY <1>1, <1>5 DEF h
    <3>2. flat[i] = c.heard[a][x]
      <4>1. q[i][1] = a /\ q[i][2] = x
        BY <3>1
      <4> QED
        BY <1>5, <4>1 DEF h
    <3>3. PICK k \in 1..N : Nth(I, k) = i
      BY <1>7, <1>8, <2>4, <3>2
    <3> QED
      BY <1>8, <1>9, <3>1, <3>3
  <2> QED
    BY <2>1, <2>2, <2>3, <2>4, Zenon DEF HeardAt
<1> QED
  BY <1>2, <1>12

\* The propagator knows only literals that are true and observed, and all of
\* them when it was told the whole trail.
LEMMA ObservedHeard ==
  ASSUME NEW c, Struct(c), Hears(c)
  PROVE  /\ Heard(c) \in Seq(Lit)
         /\ \A l \in ToSet(Heard(c)) : l \in Lit /\ IsTrue(c, l) /\ Abs(l) \in c.observed
         /\ c.notified = Len(c.trail) =>
              \A l \in Lits(c) : Abs(l) \in c.observed => l \in ToSet(Heard(c))
<1>1. PICK p : HeardAt(c, Heard(c), p)
  BY HeardFacts
<1> DEFINE hd == Heard(c)
<1> HIDE DEF hd
<1>2. /\ hd \in Seq(Lit) /\ Len(hd) \in Nat /\ DOMAIN hd = 1..Len(hd)
      /\ \A k \in 1..Len(hd) :
           /\ p[k][1] \in DOMAIN c.heard /\ p[k][2] \in DOMAIN c.heard[p[k][1]]
           /\ hd[k] = c.heard[p[k][1]][p[k][2]] /\ Abs(hd[k]) \in c.observed
      /\ \A a \in DOMAIN c.heard : \A x \in DOMAIN c.heard[a] :
           Abs(c.heard[a][x]) \in c.observed => \E k \in 1..Len(hd) : p[k] = <<a, x>>
  BY <1>1, Zenon DEF HeardAt, hd
<1>3. ToSet(hd) = {hd[k] : k \in 1..Len(hd)}
  BY <1>2 DEF ToSet
<1>4. /\ HeardTrue(c.trail, c.heard)
      /\ HeardAll(c.trail, c.control, c.heard, c.notified, c.observed)
  BY DEF Hears, Hearing
<1>5. c.trail \in Seq(Entry) /\ DOMAIN c.trail = 1..Len(c.trail)
  BY StructFields
<1>6. ASSUME NEW l \in ToSet(hd)
      PROVE  l \in Lit /\ IsTrue(c, l) /\ Abs(l) \in c.observed
  <2>1. PICK k \in 1..Len(hd) : l = hd[k]
    BY <1>3
  <2>2. \E i \in DOMAIN c.trail : c.trail[i].lit = l
    BY <1>2, <1>4, <2>1 DEF HeardTrue
  <2> QED
    BY <1>2, <2>1, <2>2 DEF IsTrue, Lits
<1>7. ASSUME c.notified = Len(c.trail), NEW l \in Lits(c), Abs(l) \in c.observed
      PROVE  l \in ToSet(hd)
  <2>1. PICK j \in 1..Len(c.trail) : c.trail[j].lit = l
    BY <1>5 DEF Lits
  <2>2. ToldFor(c.trail, c.control, c.heard, j)
    BY <1>4, <1>7, <2>1 DEF HeardAll
  <2>3. PICK a \in DOMAIN c.heard : \E x \in DOMAIN c.heard[a] : c.heard[a][x] = l
    BY <2>1, <2>2 DEF ToldFor
  <2>4. PICK x \in DOMAIN c.heard[a] : c.heard[a][x] = l
    BY <2>3
  <2>5. PICK k \in 1..Len(hd) : p[k] = <<a, x>>
    BY <1>2, <1>7, <2>4
  <2>6. hd[k] = l
    <3>1. p[k][1] = a /\ p[k][2] = x
      BY <2>5
    <3> QED
      BY <1>2, <2>4, <3>1
  <2> QED
    BY <1>3, <2>6
<1> QED
  BY <1>2, <1>6, <1>7 DEF hd

\* compare_trails succeeds when the propagator knows the whole trail.
LEMMA Agrees ==
  ASSUME NEW c, Struct(c), Hears(c), Once(c), Listens(c), c.notified = Len(c.trail)
  PROVE  Agree(c)
<1> DEFINE hd == Heard(c)
<1>1. PICK p : HeardAt(c, hd, p)
  BY HeardFacts
<1> HIDE DEF hd
<1>2. /\ DOMAIN hd = 1..Len(hd)
      /\ \A k \in 1..Len(hd) :
           /\ p[k][1] \in DOMAIN c.heard /\ p[k][2] \in DOMAIN c.heard[p[k][1]]
           /\ hd[k] = c.heard[p[k][1]][p[k][2]]
      /\ \A i, j \in 1..Len(hd) : p[i][1] = p[j][1] /\ p[i][2] = p[j][2] => i = j
  BY <1>1, Zenon DEF HeardAt
<1>3. ToSet(hd) = {l \in Lits(c) : Abs(l) \in c.observed}
  <2>1. \A l \in ToSet(hd) : IsTrue(c, l) /\ Abs(l) \in c.observed
    BY ObservedHeard DEF hd
  <2>2. \A l \in Lits(c) : Abs(l) \in c.observed => l \in ToSet(hd)
    BY ObservedHeard DEF hd
  <2> QED
    BY <2>1, <2>2 DEF IsTrue
<1>4. Len(c.heard) = Level(c) + 1
  BY DEF Struct
<1>5. ASSUME NEW i \in DOMAIN hd, NEW j \in DOMAIN hd, hd[i] = hd[j],
             ~IsFixed(c, hd[i])
      PROVE  i = j
  <2> DEFINE l == hd[i]
  <2>1. l \in Lit /\ IsTrue(c, l)
    <3>1. l \in ToSet(hd)
      BY DEF ToSet
    <3> QED
      BY <3>1, ObservedHeard DEF hd
  <2>2. Valued(c, l)
    BY <2>1, Values
  <2>3. PICK k \in DOMAIN c.trail : c.trail[k].lit = l /\ SpotIs(c, l, k)
    BY <2>1, <2>2 DEF Valued
  <2>4. c.trail[k].level > 0
    <3>1. LevelOf(c, l) = c.trail[k].level /\ c.trail[k].level \in 0..Level(c)
      BY <2>3 DEF SpotIs
    <3>2. Level(c) \in Nat
      BY StructFields
    <3>3. LevelOf(c, l) # 0
      BY <1>5, <2>1 DEF IsFixed, IsAssigned
    <3> QED
      BY <3>1, <3>2, <3>3
  <2> DEFINE a == p[i][1]
             x == p[i][2]
             b == p[j][1]
             y == p[j][2]
  <2>5. /\ a \in DOMAIN c.heard /\ x \in DOMAIN c.heard[a] /\ c.heard[a][x] = l
        /\ b \in DOMAIN c.heard /\ y \in DOMAIN c.heard[b] /\ c.heard[b][y] = l
    BY <1>2, <1>5
  <2> HIDE DEF a, x, b, y
  <2>6. b = a /\ y = x
    <3>1. /\ \A a2 \in DOMAIN c.heard : \A y2 \in DOMAIN c.heard[a2] :
               c.heard[a2][y2] = c.trail[k].lit => a2 = a /\ y2 = x
      BY <2>3, <2>4, <2>5 DEF Once
    <3> QED
      BY <2>3, <2>5, <3>1
  <2>7. p[i][1] = p[j][1] /\ p[i][2] = p[j][2]
    BY <2>6 DEF a, x, b, y
  <2> QED
    BY <1>2, <1>5, <2>7
<1> QED
  BY <1>3, <1>4, <1>5 DEF Agree, hd

-----------------------------------------------------------------------------
(* What the propagator proposes.                                           *)

\* What the propagator comes up with is not true yet, and all the other
\* literals of the clause it has in mind are false.
ProposalOk(c, p) ==
  /\ p.lit \in Lit /\ p.clause \in Clause /\ p.lit \in p.clause
  /\ Over(p.clause, c.observed) /\ ~IsTrue(c, p.lit)
  /\ \A l \in p.clause \ {p.lit} : IsFalse(c, l)

\* What 'cb_propagate' may propose: the literals of its clause are false but
\* for the one proposed, as far as the propagator knows, and it knows enough.
LEMMA ProposalsFine ==
  ASSUME NEW c, Struct(c), Hears(c), c.notified = Len(c.trail),
         NEW p \in Proposals(c)
  PROVE  ProposalOk(c, p)
<1> DEFINE hd == Heard(c)
           H == ToSet(hd)
           lo == hd[1]
           hi == hd[Len(hd)]
           unassigned == {v \in c.observed : {v, -v} \cap H = {}}
           u == Min(unassigned)
           prop(l, cl) == [lit |-> l, clause |-> cl]
<1>1. hd \in Seq(Lit)
  BY ObservedHeard
<1>2. \A l \in H : l \in Lit /\ IsTrue(c, l) /\ Abs(l) \in c.observed
  BY ObservedHeard
<1>3. \A l \in Lits(c) : Abs(l) \in c.observed => l \in H
  BY ObservedHeard
<1>4. c.observed \in SUBSET Var
  BY StructFields DEF FieldTypes
<1> HIDE DEF hd
<1>5. hd # <<>> /\ unassigned # {}
      /\ p \in {prop(u, {u, -hi}), prop(u, {u}), prop(-lo, {-lo, -hi}),
                prop(u, {u, -lo, -hi})}
  <2>1. p \in IF hd = <<>> \/ unassigned = {} THEN {}
              ELSE {prop(u, {u, -hi}), prop(u, {u}), prop(-lo, {-lo, -hi})}
                   \cup (IF Cardinality(H) > 1 THEN {prop(u, {u, -lo, -hi})} ELSE {})
    BY DEF Proposals, hd
  <2> HIDE DEF H, u, unassigned, lo, hi, prop
  <2> QED
    BY <2>1
<1>6. lo \in H /\ hi \in H
  <2>1. Len(hd) \in Nat /\ Len(hd) >= 1 /\ DOMAIN hd = 1..Len(hd)
    BY <1>1, <1>5
  <2>2. 1 \in DOMAIN hd /\ Len(hd) \in DOMAIN hd
    BY <2>1
  <2> QED
    BY <2>2 DEF ToSet
<1> HIDE DEF H, lo, hi
<1>7. u \in unassigned
  <2>1. unassigned \in SUBSET Nat
    BY <1>4, VarFacts
  <2> HIDE DEF unassigned
  <2> QED
    BY <1>5, <2>1, MinFacts
<1>8. u \in c.observed /\ u \in Var /\ u \notin H /\ -u \notin H
  BY <1>4, <1>7
<1> HIDE DEF u, unassigned
<1>9. u \in Lit /\ Abs(u) = u /\ -u \in Lit /\ Abs(-u) = u
  BY <1>8, VarFacts
<1>10. ~IsTrue(c, u) /\ ~IsFalse(c, u)
  BY <1>3, <1>8, <1>9 DEF IsTrue, IsFalse
<1>11. ASSUME NEW l \in H
       PROVE  /\ l \in Lit /\ -l \in Lit /\ -(-l) = l /\ IsFalse(c, -l)
              /\ ~IsTrue(c, -l) /\ Abs(-l) \in c.observed
  <2>1. l \in Lit /\ IsTrue(c, l) /\ Abs(l) \in c.observed
    BY <1>2
  <2>2. -l \in Lit /\ -(-l) = l /\ Abs(-l) = Abs(l)
    BY <2>1, LitFacts
  <2>3. Valued(c, l)
    BY <2>1, Values
  <2> QED
    BY <2>1, <2>2, <2>3 DEF Valued, IsFalse, IsTrue
<1> DEFINE a == -lo
           b == -hi
<1>12. /\ a \in Lit /\ b \in Lit /\ IsFalse(c, a) /\ IsFalse(c, b) /\ ~IsTrue(c, a)
       /\ Abs(a) \in c.observed /\ Abs(b) \in c.observed
  BY <1>6, <1>11
<1> HIDE DEF a, b
<1>13. p \in {prop(u, {u, b}), prop(u, {u}), prop(a, {a, b}), prop(u, {u, a, b})}
  BY <1>5 DEF a, b
<1>14. CASE p = prop(u, {u, b})
  BY <1>8, <1>9, <1>10, <1>12, <1>14 DEF ProposalOk, Clause, Over
<1>15. CASE p = prop(u, {u})
  BY <1>8, <1>9, <1>10, <1>15 DEF ProposalOk, Clause, Over
<1>16. CASE p = prop(a, {a, b})
  BY <1>12, <1>16 DEF ProposalOk, Clause, Over
<1>17. CASE p = prop(u, {u, a, b})
  BY <1>8, <1>9, <1>10, <1>12, <1>17 DEF ProposalOk, Clause, Over
<1> QED
  BY <1>13, <1>14, <1>15, <1>16, <1>17

\* The propagator notes the clause, and that it is the reason of the literal.
ReasonRecord(p) == [lits |-> p.clause, added |-> FALSE, isReason |-> TRUE]

\* The propagator has a new lemma, as the reason of the literal it proposes.
ProposedFacts(c, d, p, V, o) ==
  /\ PutFacts(c, d, V, o) /\ d.lemmas = Append(c.lemmas, ReasonRecord(p))
  /\ d.reasonOf[p.lit] = Len(c.lemmas) + 1

\* The invariant holds when it has, for the models that satisfy it.
LEMMA ProposedFine ==
  ASSUME NEW c, NEW W, NEW o, Loose(c, W, o), c.connected, NEW p, ProposalOk(c, p),
         NEW V \in SUBSET W, \A m \in V : Holds(m, p.clause),
         NEW d, d = Proposed(c, p)
  PROVE  ProposedFacts(c, d, p, V, o)
<1> DEFINE r == ReasonRecord(p)
           b == LemmaPut(c, r)
           n == Len(c.lemmas) + 1
<1>1. Struct(c)
  BY DEF Loose
<1>2. r \in LemmaSet /\ r.lits = p.clause
  BY DEF ProposalOk, LemmaSet, ReasonRecord
<1>3. Over(r.lits, c.vars)
  <2>1. c.observed \subseteq c.vars
    BY <1>1 DEF Struct, Known
  <2> QED
    BY <1>2, <2>1 DEF Over, ProposalOk
<1> HIDE DEF r
<1>4. PutFacts(c, b, V, o) /\ b.reasonOf = c.reasonOf /\ b.lemmas = Append(c.lemmas, r)
  BY <1>2, <1>3, LemmaPutFine
<1>5. d = RenameTo(b, p.lit, n)
  BY DEF Proposed, RenameTo, LemmaPut, r, ReasonRecord
<1>6. c.lemmas \in Seq(LemmaSet)
  BY <1>1, StructFields DEF FieldTypes
<1>7. Len(b.lemmas) = n /\ n \in 0..Len(b.lemmas)
  BY <1>2, <1>4, <1>6
<1> HIDE DEF b, n
<1>8. Loose(b, V, o) /\ b.trail = c.trail
  BY <1>4 DEF PutFacts
<1>9. p.lit \in Lit /\ ~IsTrue(b, p.lit)
  BY <1>8 DEF ProposalOk, IsTrue, Lits
<1> DEFINE l == p.lit
<1>12. l \in Lit /\ ~IsTrue(b, l) /\ d = RenameTo(b, l, n)
  BY <1>5, <1>9
<1> HIDE DEF l
<1>14. Renamed(b, d, l, n, V, o)
  BY <1>7, <1>8, <1>12, RenamedFine, Zenon
<1>13. /\ PutFacts(b, d, V, o) /\ d.lemmas = b.lemmas
       /\ d.reasonOf[l] = n
  BY <1>14 DEF Renamed
<1>10. /\ PutFacts(b, d, V, o) /\ d.lemmas = b.lemmas
       /\ d.reasonOf[p.lit] = n
  BY <1>13 DEF l
<1>11. PutFacts(c, d, V, o)
  BY <1>4, <1>10 DEF PutFacts
<1> QED
  BY <1>4, <1>10, <1>11 DEF ProposedFacts, r, n

\* The solver takes the literal, or asks for its reason at once.
ExtOk(c, l) ==
  /\ l \in Lit /\ ~IsTrue(c, l) /\ c.conflict = None /\ c.connected
  /\ Abs(l) \in c.observed /\ c.reasonOf[l] \in DOMAIN c.lemmas
  /\ l \in c.lemmas[c.reasonOf[l]].lits
  /\ \A k \in c.lemmas[c.reasonOf[l]].lits \ {l} : IsFalse(c, k)

\* The search assigns what the propagator has proposed, without asking for a
\* reason.
LEMMA ExtFine ==
  ASSUME NEW c, NEW W, NEW o, Loose(c, W, o), NEW l, ExtOk(c, l),
         NEW e, e = ExternallyPropagated(c, l)
  PROVE  StepFacts(c, e, W, o) /\ (Interrupted(e) \/ e.propagated = Len(e.trail))
<1>1. Struct(c) /\ l \in Lit
  BY DEF Loose, ExtOk
<1>2. Level(c) \in Nat /\ c.lemmas \in Seq(LemmaSet)
  BY <1>1, StructFields DEF FieldTypes
<1>3. CASE ~IsFalse(c, l) /\ Level(c) > 0
  <2> DEFINE n == Level(c)
             a == Assign(c, l, n, External)
             b == Notified(a)
  <2>1. AssignOk(c, W, l, n, External)
    <3>1. Blames(c, l, n, c.lemmas[c.reasonOf[l]].lits)
      <4> DEFINE cl == c.lemmas[c.reasonOf[l]].lits
      <4>1. cl \in Clause
        <5> DEFINE i == c.reasonOf[l]
        <5>1. i \in DOMAIN c.lemmas
          BY DEF ExtOk
        <5> HIDE DEF i
        <5>2. c.lemmas[i] \in LemmaSet
          BY <1>2, <5>1
        <5>3. c.lemmas[i].lits \in Clause
          BY <5>2 DEF LemmaSet
        <5> QED
          BY <5>3 DEF i
      <4>2. ASSUME NEW k \in cl \ {l} PROVE IsFalse(c, k) /\ LevelOf(c, k) <= n
        <5>1. k \in Lit /\ IsFalse(c, k)
          BY <4>1, <4>2 DEF ExtOk, Clause
        <5>2. Valued(c, k)
          BY <1>1, <5>1, Values
        <5>3. LevelOf(c, k) \in 0..Level(c)
          BY <5>1, <5>2 DEF Valued, IsAssigned
        <5> QED
          BY <1>2, <5>1, <5>3
      <4> QED
        BY <4>2 DEF Blames, ExtOk
    <3>2. ~IsAssigned(c, l) /\ Abs(l) \in c.vars
      BY <1>1, <1>3 DEF ExtOk, IsAssigned, Struct, Known
    <3>3. n \in 0..Level(c) /\ n > 0
      BY <1>2, <1>3
    <3>4. c.reasonOf[l] # 0
      BY <1>2 DEF ExtOk
    <3>5. External \in Clause \cup {External} /\ External # None
      BY VarFacts
    <3> HIDE DEF n
    <3> QED
      BY <3>1, <3>2, <3>3, <3>4, <3>5 DEF AssignOk, ExtOk
  <2> HIDE DEF n, a, b
  <2>2. /\ Loose(a, W, o) /\ (Ordered(c.trail) => Ordered(a.trail))
        /\ Assigned(c, a, l, n, External)
    BY <2>1, AssignFine DEF a
  <2>3. StepFacts(c, a, W, o)
    <3>1. Struct(a)
      BY <2>2 DEF Loose
    <3>2. Grown(c, a)
      <4>1. n \in Nat /\ External \in Clause \cup {External} /\ c.trail \in Seq(Entry)
        BY <1>1, <1>2, StructFields DEF n
      <4> QED
        BY <1>1, <2>2, <4>1, AssignedGrown
    <3>3. Roots(c.trail) \subseteq Roots(a.trail) /\ Level(a) = Level(c)
      BY <1>1, <3>1, <3>2, GrownRoots
    <3>4. View(c, a)
      BY <2>2, FrameFacts, ViewFacts DEF Assigned
    <3>5. ConflictKept(c, a)
      BY <2>2 DEF ConflictKept, Assigned, ExtOk
    <3> QED
      BY <1>2, <2>2, <3>3, <3>4, <3>5 DEF StepFacts
  <2>4. StepFacts(a, b, W, o)
    BY <2>2, NotifiedStep DEF b
  <2>5. StepFacts(c, b, W, o) /\ Loose(b, W, o)
    <3>1. StepFacts(c, b, W, o)
      BY <2>3, <2>4, StepTrans
    <3> QED
      BY <3>1 DEF StepFacts
  <2>6. e = Settled(b)
    BY <1>3 DEF ExternallyPropagated, b, a, n
  <2>7. StepFacts(b, e, W, o) /\ (Interrupted(e) \/ e.propagated = Len(e.trail))
    BY <2>5, <2>6, SettledFine
  <2>8. StepFacts(c, e, W, o)
    BY <2>5, <2>7, StepTrans
  <2> QED
    BY <2>7, <2>8
<1>4. CASE ~(~IsFalse(c, l) /\ Level(c) > 0)
  <2> DEFINE i == c.reasonOf[l]
             red == FALSE
             b == GivenOf(c, i, red)
  <2>1. e = Settled(b)
    BY <1>4 DEF ExternallyPropagated, ReasonLearned, GivenOf, MarkOf
  <2>2. GivenOk(c, i) /\ red \in BOOLEAN
    BY DEF GivenOk, ExtOk
  <2> HIDE DEF b, red, i
  <2>3. GivenFacts(c, b, i, W, o)
    BY <2>2, GivenFine DEF b
  <2>4. StepFacts(c, b, W, o) /\ Loose(b, W, o)
    BY <2>3 DEF GivenFacts, StepFacts
  <2>5. StepFacts(b, e, W, o) /\ (Interrupted(e) \/ e.propagated = Len(e.trail))
    BY <2>1, <2>4, SettledFine
  <2>6. StepFacts(c, e, W, o)
    BY <2>4, <2>5, StepTrans
  <2> QED
    BY <2>5, <2>6
<1> QED
  BY <1>3, <1>4

-----------------------------------------------------------------------------
(* Levels and reasons that are corrected.                                  *)

\* The entry at position p gets another level and another reason.
EntryPut(c, d, p, L, R) ==
  /\ d.trail \in Seq(Entry) /\ Len(d.trail) = Len(c.trail)
  /\ \A i \in DOMAIN c.trail : i # p => d.trail[i] = c.trail[i]
  /\ d.trail[p].lit = c.trail[p].lit
  /\ d.trail[p].level = L /\ d.trail[p].reason = R
  /\ Same(c, d) /\ d.control = c.control /\ d.heard = c.heard
  /\ d.notified = c.notified /\ d.propagated = c.propagated
  /\ d.conflict = c.conflict

\* The literals of R but the one at p are false before p, on levels up to L.
Backs(t, p, L, R) ==
  \A l \in R \ {t[p].lit} : \E j \in 1..p - 1 : t[j].lit = -l /\ t[j].level <= L

\* The entry at p may get the level L and the reason R: its level does not
\* rise, it is not a decision, and the reason is in order.
PutOk(c, W, p, L, R) ==
  /\ p \in DOMAIN c.trail /\ L \in Nat /\ L <= c.trail[p].level
  /\ c.trail[p].reason # None
  /\ L = 0 => R = None /\ \A m \in W : Tru(m, c.trail[p].lit)
  /\ L > 0 => /\ R \in Clause /\ R # None /\ c.trail[p].lit \in R
              /\ Backs(c.trail, p, L, R) /\ \A m \in W : Holds(m, R)

\* The levels only sink, and the other reasons stay.
Sinks(t, s, p, L, R) ==
  /\ DOMAIN t = 1..Len(t) /\ DOMAIN s = 1..Len(t) /\ Len(t) \in Nat
  /\ Len(s) = Len(t)
  /\ p \in 1..Len(t) /\ L \in Nat /\ L <= t[p].level
  /\ \A i \in 1..Len(t) : s[i].lit = t[i].lit /\ s[i].level <= t[i].level
                          /\ t[i].level \in Nat /\ s[i].level \in Nat
                          /\ (i # p => s[i] = t[i])
  /\ s[p].level = L /\ s[p].reason = R

\* Such a change makes an entry sink.
LEMMA PutSinks ==
  ASSUME NEW c, Struct(c), NEW d, NEW p, NEW L, NEW R, EntryPut(c, d, p, L, R),
         NEW W, PutOk(c, W, p, L, R)
  PROVE  Sinks(c.trail, d.trail, p, L, R)
<1>1. c.trail \in Seq(Entry) /\ d.trail \in Seq(Entry) /\ Len(d.trail) = Len(c.trail)
  BY StructFields DEF EntryPut
<1>2. /\ DOMAIN c.trail = 1..Len(c.trail) /\ DOMAIN d.trail = 1..Len(c.trail)
      /\ Len(c.trail) \in Nat
      /\ \A i \in 1..Len(c.trail) : c.trail[i].level \in Nat /\ d.trail[i].level \in Nat
  BY <1>1, TrailTypes
<1>3. p \in 1..Len(c.trail) /\ L \in Nat /\ L <= c.trail[p].level
  BY <1>2 DEF PutOk
<1>4. \A i \in 1..Len(c.trail) : i # p => d.trail[i] = c.trail[i]
  BY <1>2 DEF EntryPut
<1>5. d.trail[p].lit = c.trail[p].lit /\ d.trail[p].level = L /\ d.trail[p].reason = R
  BY DEF EntryPut
<1>6. \A i \in 1..Len(c.trail) : d.trail[i].lit = c.trail[i].lit
                                 /\ d.trail[i].level <= c.trail[i].level
  BY <1>2, <1>3, <1>4, <1>5
<1> QED
  BY <1>1, <1>2, <1>3, <1>4, <1>5, <1>6 DEF Sinks

\* The literals are the same, so each variable is there once,
LEMMA SinkDistinct ==
  ASSUME NEW t, NEW s, NEW p, NEW L, NEW R, Sinks(t, s, p, L, R), Distinct(t)
  PROVE  Distinct(s)
BY DEF Sinks, Distinct

\* the levels begin where they did,
LEMMA SinkStaged ==
  ASSUME NEW t, NEW s, NEW p, NEW L, NEW R, Sinks(t, s, p, L, R),
         L = 0 => R = None, L > 0 => R # None, NEW k \in Seq(Nat), Staged(t, k)
  PROVE  Staged(s, k)
<1>1. /\ DOMAIN t = 1..Len(t) /\ DOMAIN s = 1..Len(t) /\ Len(t) \in Nat
      /\ p \in 1..Len(t) /\ L \in Nat /\ L <= t[p].level
      /\ \A i \in 1..Len(t) : s[i].lit = t[i].lit /\ s[i].level <= t[i].level
                              /\ t[i].level \in Nat /\ s[i].level \in Nat
                              /\ (i # p => s[i] = t[i])
      /\ s[p].level = L /\ s[p].reason = R
  BY DEF Sinks
<1>2. /\ Len(k) \in Nat /\ DOMAIN k = 1..Len(k)
  BY ControlTypes
<1>3. /\ \A a, b \in DOMAIN k : a <= b => k[a] <= k[b]
      /\ \A a \in DOMAIN k : k[a] <= Len(t)
      /\ \A i \in DOMAIN t :
           /\ t[i].level <= Len(k)
           /\ t[i].level = 0 => t[i].reason = None
           /\ t[i].reason = None /\ t[i].level > 0 => i = k[t[i].level] + 1
           /\ \A a \in DOMAIN k : i <= k[a] => t[i].level < a
  BY DEF Staged
<1>4. ASSUME NEW i \in DOMAIN s
      PROVE  /\ s[i].level <= Len(k)
             /\ s[i].level = 0 => s[i].reason = None
             /\ s[i].reason = None /\ s[i].level > 0 => i = k[s[i].level] + 1
             /\ \A a \in DOMAIN k : i <= k[a] => s[i].level < a
  <2>1. s[i].level <= Len(k)
    BY <1>1, <1>2, <1>3
  <2>2. \A a \in DOMAIN k : i <= k[a] => s[i].level < a
    BY <1>1, <1>2, <1>3
  <2>3. CASE i = p
    <3>1. s[i].level = 0 => s[i].reason = None
      BY <1>1, <2>3
    <3>2. ~(s[i].reason = None /\ s[i].level > 0)
      BY <1>1, <2>3
    <3> QED
      BY <2>1, <2>2, <3>1, <3>2
  <2>4. CASE i # p
    <3>1. s[i] = t[i] /\ i \in DOMAIN t
      BY <1>1, <2>4
    <3> QED
      BY <1>3, <2>1, <2>2, <3>1
  <2> QED
    BY <2>3, <2>4
<1>5. Len(s) = Len(t)
  BY DEF Sinks
<1> QED
  BY <1>1, <1>3, <1>4, <1>5 DEF Staged

\* and the other entries are still justified: the literals they rest on are no
\* higher than before.
LEMMA SinkJustified ==
  ASSUME NEW t, NEW s, NEW p, NEW L, NEW R, Sinks(t, s, p, L, R),
         NEW i \in DOMAIN t, i # p, NEW cl, Justified(t, i, cl)
  PROVE  Justified(s, i, cl)
<1>1. /\ DOMAIN t = 1..Len(t) /\ Len(t) \in Nat
      /\ \A j \in 1..Len(t) : s[j].lit = t[j].lit /\ s[j].level <= t[j].level
                              /\ t[j].level \in Nat /\ s[j].level \in Nat
      /\ s[i] = t[i] /\ i \in 1..Len(t)
  BY DEF Sinks
<1>2. s[i].lit \in cl
  BY <1>1 DEF Justified
<1>3. ASSUME NEW l \in cl \ {s[i].lit} PROVE FalseBefore(s, i, l)
  <2>1. PICK j \in 1..i - 1 : t[j].lit = -l /\ t[j].level <= t[i].level
    BY <1>1, <1>3 DEF Justified, FalseBefore
  <2>2. j \in 1..Len(t)
    BY <1>1, <2>1
  <2>3. s[j].lit = -l /\ s[j].level <= s[i].level
    BY <1>1, <2>1, <2>2
  <2> QED
    BY <2>1, <2>3 DEF FalseBefore
<1> QED
  BY <1>2, <1>3 DEF Justified

\* The reason is one.
LEMMA SinkBacked ==
  ASSUME NEW t, NEW s, NEW p, NEW L, NEW R, Sinks(t, s, p, L, R),
         t[p].lit \in R, Backs(t, p, L, R)
  PROVE  Justified(s, p, R)
<1>1. /\ DOMAIN t = 1..Len(t) /\ Len(t) \in Nat /\ p \in 1..Len(t)
      /\ \A j \in 1..Len(t) : s[j].lit = t[j].lit /\ (j # p => s[j] = t[j])
      /\ s[p].level = L
  BY DEF Sinks
<1>2. ASSUME NEW l \in R \ {s[p].lit} PROVE FalseBefore(s, p, l)
  <2>1. PICK j \in 1..p - 1 : t[j].lit = -l /\ t[j].level <= L
    BY <1>1, <1>2 DEF Backs
  <2>2. j \in 1..Len(t) /\ j # p
    BY <1>1, <2>1
  <2> QED
    BY <1>1, <2>1, <2>2 DEF FalseBefore
<1> QED
  BY <1>1, <1>2 DEF Justified

\* The invariant holds afterwards.
PutResult(c, d, W, o) ==
  /\ Loose(d, W, o) /\ (Ordered(c.trail) => Ordered(d.trail))

\* An entry that sinks keeps the invariant.
LEMMA EntryPutFine ==
  ASSUME NEW c, NEW W, NEW o, Loose(c, W, o), NEW d \in Core, NEW p, NEW L, NEW R,
         EntryPut(c, d, p, L, R), PutOk(c, W, p, L, R)
  PROVE  PutResult(c, d, W, o)
<1> DEFINE t == c.trail
           s == d.trail
<1>1. Struct(c) /\ Hears(c) /\ Late(c) /\ Sound(c, W) /\ (o => Once(c))
  BY DEF Loose
<1>2. Sinks(t, s, p, L, R)
  BY <1>1, PutSinks
<1>3. /\ DOMAIN t = 1..Len(t) /\ DOMAIN s = 1..Len(t) /\ Len(t) \in Nat
      /\ Len(s) = Len(t) /\ p \in 1..Len(t) /\ L \in Nat
      /\ \A i \in 1..Len(t) : s[i].lit = t[i].lit /\ s[i].level <= t[i].level
                              /\ t[i].level \in Nat /\ s[i].level \in Nat
                              /\ (i # p => s[i] = t[i])
      /\ s[p].level = L /\ s[p].reason = R
  BY <1>2, Zenon DEF Sinks
<1>4. /\ Same(c, d) /\ d.control = c.control /\ d.heard = c.heard
      /\ d.notified = c.notified /\ d.propagated = c.propagated
      /\ d.conflict = c.conflict
  BY DEF EntryPut
<1>5. /\ L = 0 => R = None /\ \A m \in W : Tru(m, t[p].lit)
      /\ L > 0 => /\ R \in Clause /\ R # None /\ t[p].lit \in R
                  /\ Backs(t, p, L, R) /\ \A m \in W : Holds(m, R)
  BY DEF PutOk
<1>6. Struct(d)
  <2>1. Distinct(s)
    BY <1>1, <1>2, SinkDistinct, StructFields
  <2>2. Staged(s, d.control)
    <3>1. c.control \in Seq(Nat) /\ Staged(t, c.control)
      BY <1>1, StructFields
    <3>2. (L = 0 => R = None) /\ (L > 0 => R # None)
      BY <1>5
    <3> HIDE DEF t, s
    <3> QED
      BY <1>2, <1>4, <3>1, <3>2, SinkStaged
  <2>3. Known(d)
    <3>1. \A i \in DOMAIN s : Abs(s[i].lit) \in d.vars
      BY <1>1, <1>3, <1>4 DEF Struct, Known, Same
    <3> QED
      BY <1>1, <1>3, <1>4, <3>1 DEF Struct, Known, Same
  <2>4. Listens(d) <=> Listens(c)
    BY <1>4, SameFacts
  <2>5. /\ Len(d.heard) = IF Listens(d) THEN Level(d) + 1 ELSE 1
        /\ ~Listens(d) => \A b \in DOMAIN d.control : d.notified <= d.control[b]
        /\ ~d.connected => d.heard = <<<<>>>> /\ d.observed = {} /\ d.lemmas = <<>>
    BY <1>1, <1>4, <2>4 DEF Struct, Same, Level
  <2> QED
    BY <2>1, <2>2, <2>3, <2>5 DEF Struct
<1>7. Hears(d)
  <2>1. HeardTrue(t, c.heard) /\ HeardAll(t, c.control, c.heard, c.notified, c.observed)
        /\ (Listens(c) => \A b \in DOMAIN c.control : c.control[b] <= c.notified)
    BY <1>1 DEF Hears, Hearing
  <2>2. HeardTrue(s, d.heard)
    <3>1. c.heard \in Seq(Seq(Lit))
      BY <1>1, StructFields
    <3>2. ASSUME NEW a \in DOMAIN d.heard, NEW x \in DOMAIN d.heard[a]
          PROVE  \E i \in DOMAIN s : s[i].lit = d.heard[a][x] /\ s[i].level < a
      <4>1. PICK i \in DOMAIN t : t[i].lit = c.heard[a][x] /\ t[i].level < a
        BY <1>4, <2>1, <3>2 DEF HeardTrue
      <4>2. a \in Nat
        BY <1>4, <3>1, <3>2
      <4> HIDE DEF t, s
      <4>3. s[i].lit = d.heard[a][x] /\ s[i].level < a /\ i \in DOMAIN s
        BY <1>3, <1>4, <4>1, <4>2
      <4> QED
        BY <4>3
    <3> QED
      BY <3>2 DEF HeardTrue
  <2>3. HeardAll(s, d.control, d.heard, d.notified, d.observed)
    <3>1. c.notified \in Nat /\ c.notified <= Len(t)
      BY <1>1, StructFields
    <3>2. \A j \in 1..c.notified : s[j].lit = t[j].lit
      BY <1>3, <3>1
    <3>3. d.observed = c.observed
      BY <1>4 DEF Same
    <3> HIDE DEF t, s
    <3> QED
      BY <1>4, <2>1, <3>2, <3>3 DEF HeardAll, ToldFor
  <2> QED
    BY <1>4, <2>1, <2>2, <2>3, SameFacts DEF Hears, Hearing
<1>8. Late(d)
  <2>1. LateOk(t, c.connected, c.observed, c.lemmas, c.reasonOf)
    BY <1>1 DEF Late
  <2>2. ASSUME NEW i \in DOMAIN s, s[i].reason = External
        PROVE  /\ c.connected /\ Abs(s[i].lit) \in c.observed /\ c.reasonOf[s[i].lit] # 0
               /\ Justified(s, i, c.lemmas[c.reasonOf[s[i].lit]].lits)
    <3>1. i # p
      BY <1>3, <1>5, <2>2, VarFacts
    <3>2. s[i] = t[i] /\ i \in DOMAIN t
      BY <1>3, <3>1
    <3>3. /\ c.connected /\ Abs(t[i].lit) \in c.observed /\ c.reasonOf[t[i].lit] # 0
          /\ Justified(t, i, c.lemmas[c.reasonOf[t[i].lit]].lits)
      BY <2>1, <2>2, <3>2 DEF LateOk
    <3> DEFINE cl == c.lemmas[c.reasonOf[t[i].lit]].lits
    <3> HIDE DEF t, s, cl
    <3>4. Justified(s, i, cl)
      <4>1. Justified(t, i, cl)
        BY <3>3 DEF cl
      <4> QED
        BY <1>2, <3>1, <3>2, <4>1, SinkJustified
    <3> QED
      BY <3>2, <3>3, <3>4 DEF cl
  <2>3. LateOk(s, c.connected, c.observed, c.lemmas, c.reasonOf)
    BY <2>2 DEF LateOk
  <2> QED
    BY <1>4, <2>3 DEF Late, Same
<1>9. Sound(d, W)
  <2>1. ASSUME NEW m \in W, NEW i \in DOMAIN s
        PROVE  /\ s[i].level = 0 => Tru(m, s[i].lit)
               /\ s[i].reason \notin {None, External} => Holds(m, s[i].reason)
    <3>1. CASE i = p
      BY <1>3, <1>5, <3>1
    <3>2. CASE i # p
      <4>1. s[i] = t[i] /\ i \in DOMAIN t
        BY <1>3, <3>2
      <4> QED
        BY <1>1, <4>1 DEF Sound
    <3> QED
      BY <3>1, <3>2
  <2> QED
    BY <1>1, <1>4, <2>1 DEF Sound, Same
<1>10. o => Once(d)
  <2>1. ASSUME o PROVE Once(d)
    <3>1. OnceIn(t, c.control, c.heard, c.notified)
      BY <1>1, <2>1, OnceIs
    <3>2. \A j \in DOMAIN s : j \in DOMAIN t /\ s[j].lit = t[j].lit
                              /\ (s[j].level > 0 => t[j].level > 0)
      BY <1>3
    <3> HIDE DEF t, s
    <3>3. OnceIn(s, c.control, c.heard, c.notified)
      BY <3>1, <3>2 DEF OnceIn
    <3> QED
      BY <1>4, <3>3, OnceIs DEF s
  <2> QED
    BY <2>1
<1>11. ASSUME Ordered(t) PROVE Ordered(s)
  <2>1. ASSUME NEW i \in DOMAIN s, s[i].reason \notin {None, External}
        PROVE  Justified(s, i, s[i].reason)
    <3>1. CASE i = p
      <4>1. L > 0
        BY <1>3, <1>5, <2>1, <3>1
      <4> HIDE DEF t, s
      <4>2. Justified(s, p, R)
        BY <1>2, <1>5, <4>1, SinkBacked
      <4> QED
        BY <1>3, <3>1, <4>2
    <3>2. CASE i # p
      <4>1. s[i] = t[i] /\ i \in DOMAIN t
        BY <1>3, <3>2
      <4>2. Justified(t, i, t[i].reason)
        BY <1>11, <2>1, <4>1 DEF Ordered
      <4> DEFINE cl == t[i].reason
      <4> HIDE DEF t, s, cl
      <4>3. Justified(s, i, cl)
        <5>1. Justified(t, i, cl)
          BY <4>2 DEF cl
        <5> QED
          BY <1>2, <3>2, <4>1, <5>1, SinkJustified
      <4> QED
        BY <4>1, <4>3 DEF cl
    <3> QED
      BY <3>1, <3>2
  <2> QED
    BY <2>1 DEF Ordered
<1> QED
  BY <1>6, <1>7, <1>8, <1>9, <1>10, <1>11 DEF PutResult, Loose

\* A literal is at the one position where its variable is.
LEMMA PosIs ==
  ASSUME NEW c, NEW l, NEW p \in DOMAIN c.trail, c.trail[p].lit \in {l, -l},
         \A i \in DOMAIN c.trail : c.trail[i].lit \in {l, -l} => i = p
  PROVE  PosOf(c, l) = p
BY DEF PosOf

\* The entry at p gets a level, a reason, or both.
LevelPut(c, p, L) == [c EXCEPT !.trail[p].level = L]
ReasonPut(c, p, R) == [c EXCEPT !.trail[p].reason = R]
TrailPut(c, p, L, R) == [c EXCEPT !.trail[p].level = L, !.trail[p].reason = R]
PutTrail(c, s) == [c EXCEPT !.trail = s]

\* Only the trail is changed.
PutsTrail(c, b, x) ==
  /\ b.trail = x /\ b.lemmas = c.lemmas /\ b.control = c.control /\ b.heard = c.heard
  /\ b.notified = c.notified /\ b.propagated = c.propagated
  /\ b.conflict = c.conflict /\ b.unsat = c.unsat /\ b.clauses = c.clauses
  /\ b.newest = c.newest /\ b.extended = c.extended /\ b.model = c.model
  /\ b.chrono = c.chrono /\ b.vars = c.vars /\ b.connected = c.connected
  /\ b.private = c.private /\ b.observed = c.observed /\ b.frozen = c.frozen
  /\ b.reasonOf = c.reasonOf

\* Only the trail changes when it does.
LEMMA TrailIsPut ==
  ASSUME NEW c, IsState(c), NEW x
  PROVE  PutsTrail(c, PutTrail(c, x), x)
BY SMT DEF IsState, Fields, PutsTrail, PutTrail

\* s is t with e at p.
EntryTypes(t, s, p, e) ==
  /\ s \in Seq(Entry) /\ Len(s) = Len(t) /\ DOMAIN s = DOMAIN t
  /\ \A i \in DOMAIN t : i # p => s[i] = t[i]
  /\ s[p] = e

\* EXCEPT does that.
LEMMA EntrySet ==
  ASSUME NEW t \in Seq(Entry), NEW p \in DOMAIN t, NEW e \in Entry,
         NEW s, s = [t EXCEPT ![p] = e]
  PROVE  EntryTypes(t, s, p, e)
<1> DEFINE T == Entry
<1>1. t \in Seq(T) /\ e \in T
  OBVIOUS
<1> HIDE DEF T
<1>2. /\ s \in Seq(T) /\ Len(s) = Len(t) /\ DOMAIN s = DOMAIN t
      /\ \A i \in DOMAIN t : i # p => s[i] = t[i]
      /\ s[p] = e
  BY <1>1
<1> QED
  BY <1>2 DEF EntryTypes, T

\* One entry is replaced by another of the same literal.
LEMMA EntryIs ==
  ASSUME NEW c \in Core, NEW p \in DOMAIN c.trail, NEW e \in Entry,
         e.lit = c.trail[p].lit, NEW d, NEW s, s = [c.trail EXCEPT ![p] = e],
         d = PutTrail(c, s)
  PROVE  d \in Core /\ EntryPut(c, d, p, e.level, e.reason)
<1>1. IsState(c) /\ FieldTypes(c)
  BY CoreState
<1>2. c.trail \in Seq(Entry)
  BY <1>1 DEF FieldTypes
<1>3. EntryTypes(c.trail, s, p, e)
  BY <1>2, EntrySet
<1>4. PutsTrail(c, d, s)
  BY <1>1, TrailIsPut
<1>5. IsState(d)
  BY <1>1, Puts DEF PutTrail
<1>6. FieldTypes(d)
  BY <1>1, <1>3, <1>4 DEF FieldTypes, PutsTrail, EntryTypes
<1>7. d \in Core
  BY <1>5, <1>6, StateCore
<1>8. Same(c, d)
  BY <1>4 DEF PutsTrail, Same
<1> QED
  BY <1>3, <1>4, <1>7, <1>8 DEF EntryPut, EntryTypes, PutsTrail

\* So it is when it gets a level,
LEMMA LevelPutFields ==
  ASSUME NEW c \in Core, NEW p \in DOMAIN c.trail, NEW L \in Nat,
         NEW d, d = LevelPut(c, p, L)
  PROVE  d \in Core /\ EntryPut(c, d, p, L, c.trail[p].reason)
<1> DEFINE e == [c.trail[p] EXCEPT !.level = L]
           s == [c.trail EXCEPT ![p] = e]
<1>1. c.trail \in Seq(Entry)
  BY CoreState DEF FieldTypes
<1>2. c.trail[p] \in Entry
  BY <1>1
<1>3. e \in Entry /\ e.lit = c.trail[p].lit /\ e.level = L
      /\ e.reason = c.trail[p].reason
  BY <1>2 DEF Entry
<1>4. d = PutTrail(c, s)
  BY DEF LevelPut, PutTrail
<1> HIDE DEF e, s
<1>5. d \in Core /\ EntryPut(c, d, p, e.level, e.reason)
  BY <1>3, <1>4, EntryIs DEF s
<1> QED
  BY <1>3, <1>5

\* or a reason,
LEMMA ReasonPutFields ==
  ASSUME NEW c \in Core, NEW p \in DOMAIN c.trail, NEW R \in Clause \cup {External},
         NEW d, d = ReasonPut(c, p, R)
  PROVE  d \in Core /\ EntryPut(c, d, p, c.trail[p].level, R)
<1> DEFINE e == [c.trail[p] EXCEPT !.reason = R]
           s == [c.trail EXCEPT ![p] = e]
<1>1. c.trail \in Seq(Entry)
  BY CoreState DEF FieldTypes
<1>2. c.trail[p] \in Entry
  BY <1>1
<1>3. e \in Entry /\ e.lit = c.trail[p].lit /\ e.level = c.trail[p].level
      /\ e.reason = R
  BY <1>2 DEF Entry
<1>4. d = PutTrail(c, s)
  BY DEF ReasonPut, PutTrail
<1> HIDE DEF e, s
<1>5. d \in Core /\ EntryPut(c, d, p, e.level, e.reason)
  BY <1>3, <1>4, EntryIs DEF s
<1> QED
  BY <1>3, <1>5

\* or first the one and then the other,
LEMMA EntryPutTwice ==
  ASSUME NEW b, NEW c, NEW d, NEW p, NEW L, NEW R, NEW K, NEW Q,
         b.trail \in Seq(Entry), EntryPut(b, c, p, K, Q), EntryPut(c, d, p, L, R)
  PROVE  EntryPut(b, d, p, L, R)
<1>1. DOMAIN c.trail = DOMAIN b.trail
  <2>1. c.trail \in Seq(Entry) /\ Len(c.trail) = Len(b.trail)
    BY DEF EntryPut
  <2> QED
    BY <2>1, TrailTypes
<1>2. Same(b, d)
  BY SameFacts DEF EntryPut
<1> QED
  BY <1>1, <1>2 DEF EntryPut

\* or both.
LEMMA TrailPutFields ==
  ASSUME NEW c \in Core, NEW p \in DOMAIN c.trail, NEW L \in Nat,
         NEW R \in Clause \cup {External}, NEW d, d = TrailPut(c, p, L, R)
  PROVE  d \in Core /\ EntryPut(c, d, p, L, R)
<1> DEFINE b == LevelPut(c, p, L)
<1>1. d = ReasonPut(b, p, R)
  BY DEF TrailPut, LevelPut, ReasonPut
<1> HIDE DEF b
<1>2. b \in Core /\ EntryPut(c, b, p, L, c.trail[p].reason)
  BY LevelPutFields DEF b
<1>3. c.trail \in Seq(Entry)
  BY CoreState DEF FieldTypes
<1>4. p \in DOMAIN b.trail
  <2>1. b.trail \in Seq(Entry) /\ Len(b.trail) = Len(c.trail)
    BY <1>2 DEF EntryPut
  <2> QED
    BY <1>3, <2>1, TrailTypes
<1>5. d \in Core /\ EntryPut(b, d, p, b.trail[p].level, R)
  BY <1>1, <1>2, <1>4, ReasonPutFields
<1>6. b.trail[p].level = L
  BY <1>2 DEF EntryPut
<1> DEFINE Q == c.trail[p].reason
<1>7. EntryPut(c, b, p, L, Q) /\ EntryPut(b, d, p, L, R)
  BY <1>2, <1>5, <1>6
<1> HIDE DEF Q
<1> QED
  BY <1>3, <1>5, <1>7, EntryPutTwice

\* The cases of adding a clause that is kept as the reason of a literal
\* ('force_no_backtrack').
LEMMA AddKeepIs ==
  ASSUME NEW c, NEW cl \in Clause, NEW red
  PROVE  ClauseAdded(c, cl, red, TRUE) =
           IF Ignored(c, cl) THEN OldOf(c)
           ELSE IF Remaining(c, cl) = {} THEN UnsatSet(OldOf(c), TRUE)
           ELSE IF Cardinality(Remaining(c, cl)) = 1
           THEN [OldOf(c) EXCEPT
                   !.trail[PosOf(c, CHOOSE k \in Remaining(c, cl) : TRUE)].level = 0,
                   !.trail[PosOf(c, CHOOSE k \in Remaining(c, cl) : TRUE)].reason = None]
           ELSE NewOf(OldOf(c), Remaining(c, cl), red)
BY SMT DEF ClauseAdded, Ignored, OldOf, UnsatSet, NewOf

\* 'learn_external_reason_clause' asks for the reason of a literal and makes
\* the clause that was added its reason.
ReasonGiven(c, k) ==
  ReasonPut(ReasonLearned(c, k, TRUE), PosOf(ReasonLearned(c, k, TRUE), -k),
            ReasonLearned(c, k, TRUE).newest)

\* The literal has got a reason, or is fixed.
ReasonFacts(c, d, p, W, o) ==
  /\ Loose(d, W, o) /\ Ordered(d.trail) /\ View(c, d)
  /\ d.control = c.control /\ d.conflict = c.conflict /\ d.unsat = c.unsat
  /\ Len(d.trail) = Len(c.trail)
  /\ \A i \in DOMAIN c.trail : i # p => d.trail[i] = c.trail[i]
  /\ d.trail[p].lit = c.trail[p].lit
  /\ \/ d.trail[p].level = c.trail[p].level /\ d.trail[p].reason \notin {None, External}
     \/ d.trail[p].level = 0 /\ d.trail[p].reason = None

\* It keeps the invariant: the clause the propagator answers with is the lemma
\* it had when it proposed the literal, with the same literals false before
\* it; those that have been fixed in between are left out of it, and when only
\* one is left the literal is fixed, without backtracking.
LEMMA ReasonFine ==
  ASSUME NEW c, NEW W, NEW o, Loose(c, W, o), Ordered(c.trail), ~c.unsat,
         NEW p \in DOMAIN c.trail, c.trail[p].reason = External, c.trail[p].level > 0,
         NEW k, k = c.trail[p].lit, NEW d, d = ReasonGiven(c, k)
  PROVE  ReasonFacts(c, d, p, W, o)
<1> DEFINE n == c.reasonOf[k]
           cl == c.lemmas[n].lits
           a == MarkOf(c, n)
           old == OldOf(a)
           rest == Remaining(a, cl)
           red == FALSE
           b == ClauseAdded(a, cl, red, TRUE)
           new == NewOf(old, rest, red)
<1>1. Struct(c) /\ Sound(c, W) /\ Late(c)
  BY DEF Loose
<1>2. /\ c.trail \in Seq(Entry) /\ DOMAIN c.trail = 1..Len(c.trail) /\ Known(c)
      /\ Distinct(c.trail) /\ Level(c) \in Nat
  BY <1>1, StructFields
<1>3. k \in Lit /\ -k \in Lit /\ -(-k) = k /\ -k # k
  <2>1. k \in Lit
    BY <1>2, TrailTypes
  <2> QED
    BY <2>1, LitFacts
<1>4. /\ c.connected /\ n # 0 /\ Justified(c.trail, p, cl)
  BY <1>1 DEF Late, LateOk
<1>5. c.lemmas \in Seq(LemmaSet) /\ c.reasonOf \in [Lit -> Nat]
  BY <1>1, StructFields DEF FieldTypes
<1>6. n \in DOMAIN c.lemmas
  <2>1. n \in Nat /\ n <= Len(c.lemmas)
    BY <1>2, <1>3, <1>5 DEF Known
  <2> QED
    BY <1>4, <1>5, <2>1
<1>7. cl \in Clause /\ Over(cl, c.vars) /\ \A m \in W : Holds(m, cl)
  <2> HIDE DEF n
  <2>1. c.lemmas[n] \in LemmaSet
    BY <1>5, <1>6
  <2>2. cl \in Clause
    BY <2>1 DEF LemmaSet
  <2> QED
    BY <1>1, <1>2, <1>6, <2>2 DEF Known, Sound
<1>8. d = ReasonPut(b, PosOf(b, -k), b.newest)
  BY DEF ReasonGiven, ReasonLearned, MarkOf
<1> HIDE DEF n, cl, a, b, old, rest, new, red
<1>9. MarkFacts(c, a, n, W, o)
  BY <1>6, MarkFine DEF a
<1>10. Loose(a, W, o) /\ a.trail = c.trail /\ View(c, a) /\ a.control = c.control
       /\ a.conflict = c.conflict /\ a.unsat = c.unsat
  BY <1>9 DEF MarkFacts
<1>11. OldFacts(a, old, W, o)
  BY <1>10, OldFine DEF old
<1>12. /\ Loose(old, W, o) /\ old.trail = c.trail /\ View(c, old)
       /\ old.control = c.control
       /\ old.conflict = c.conflict /\ old.unsat = c.unsat /\ old.vars = c.vars
  <2>1. Loose(old, W, o) /\ Quiet(a, old) /\ Frame(a, old)
    BY <1>11 DEF OldFacts
  <2>2. View(c, old)
    BY <1>10, <2>1, ViewFacts
  <2> QED
    BY <1>10, <2>1, <2>2 DEF Quiet, View
<1>13. old.newest = None
  <2>1. IsState(a)
    <3>1. Struct(a)
      BY <1>10 DEF Loose
    <3> QED
      BY <3>1, StructFields
  <2>2. IsState(Unextended(a))
    BY <2>1, Puts DEF Unextended
  <2> QED
    BY <2>2, SMT DEF old, OldOf, IsState, Fields
\* The literal is not fixed, and the others are false.
<1>14. IsTrue(c, k) /\ ~IsFalse(c, k) /\ PosOf(c, k) = p /\ LevelOf(c, k) > 0
       /\ PosOf(c, -k) = p
  <2>1. SpotIs(c, k, p) /\ SpotIs(c, -k, p)
    BY <1>1, <1>3, Spot
  <2>2. Valued(c, k)
    BY <1>1, <1>3, Values
  <2> QED
    BY <2>1, <2>2 DEF Valued, SpotIs
<1>15. k \in cl /\ \A l \in cl \ {k} : FalseBefore(c.trail, p, l)
  BY <1>4 DEF Justified
<1>16. ASSUME NEW l \in cl \ {k}
       PROVE  IsFalse(c, l) /\ ~IsTrue(c, l) /\ l # -k
  <2>1. PICK j \in 1..p - 1 : c.trail[j].lit = -l
    BY <1>15, <1>16 DEF FalseBefore
  <2>2. j \in DOMAIN c.trail /\ j # p
    BY <1>2, <2>1
  <2>3. l \in Lit
    BY <1>7, <1>16 DEF Clause
  <2>4. Valued(c, l)
    BY <1>1, <2>3, Values
  <2>5. IsFalse(c, l) /\ ~IsTrue(c, l)
    BY <2>1, <2>2, <2>4 DEF Valued
  <2>6. l # -k
    BY <1>2, <1>3, <2>1, <2>2 DEF Distinct
  <2> QED
    BY <2>5, <2>6
<1>17. \A l : /\ IsTrue(a, l) <=> IsTrue(c, l)
              /\ IsFalse(a, l) <=> IsFalse(c, l)
              /\ IsFixed(a, l) <=> IsFixed(c, l)
              /\ LevelOf(a, l) = LevelOf(c, l) /\ PosOf(a, l) = PosOf(c, l)
  BY <1>10, AlikeTrail
<1>18. ~Ignored(a, cl)
  <2>1. ~IsTautology(cl)
    <3>1. ASSUME NEW l \in cl, -l \in cl PROVE FALSE
      <4>1. l \in Lit /\ -l \in Lit /\ -(-l) = l
        BY <1>7, <3>1, LitFacts DEF Clause
      <4>2. CASE l = k
        BY <1>3, <1>16, <3>1, <4>2
      <4>3. CASE -l = k
        <5>1. l = -k
          BY <4>1, <4>3
        <5> QED
          BY <1>3, <1>16, <3>1, <5>1
      <4>4. CASE l # k /\ -l # k
        BY <1>16, <3>1, <4>1, <4>4 DEF IsFalse, IsTrue
      <4> QED
        BY <4>2, <4>3, <4>4
    <3> QED
      BY <3>1 DEF IsTautology
  <2>2. ASSUME NEW l \in cl, IsFixed(a, l), IsTrue(a, l) PROVE FALSE
    <3>1. IsTrue(c, l) /\ LevelOf(c, l) = 0
      BY <1>17, <2>2 DEF IsFixed
    <3>2. l = k
      BY <1>16, <2>2, <3>1
    <3> QED
      BY <1>14, <3>1, <3>2
  <2> QED
    BY <1>10, <2>1, <2>2 DEF Ignored
<1>19. /\ rest \in Clause /\ Over(rest, c.vars) /\ (\A m \in W : Holds(m, rest))
       /\ rest \subseteq cl /\ k \in rest
  <2>1. Over(cl, a.vars) /\ a.vars = c.vars
    BY <1>7, <1>10 DEF View
  <2>2. RestFacts(a, cl, W, rest)
    BY <1>7, <1>10, <2>1, RestHolds DEF Loose, rest
  <2>3. rest \subseteq cl /\ k \in rest
    BY <1>14, <1>15, <1>17 DEF rest, Remaining
  <2> QED
    BY <2>1, <2>2, <2>3 DEF RestFacts
<1>20. Cardinality(rest) # 0 /\ rest # {}
  BY <1>19, ClauseSize
<1>21. PosOf(old, k) = p /\ PosOf(old, -k) = p /\ p \in DOMAIN old.trail
       /\ old \in Core /\ PosOf(a, k) = p
  <2>1. PosOf(old, k) = PosOf(c, k) /\ PosOf(old, -k) = PosOf(c, -k)
    BY <1>12, AlikeTrail
  <2> QED
    BY <1>12, <1>14, <1>17, <2>1 DEF Loose, Struct
\* One way or the other one entry changes.
<1>22. \E e, L, R : /\ Loose(e, W, o) /\ Ordered(e.trail) /\ e.trail = c.trail
                    /\ View(c, e)
                    /\ e.control = c.control /\ e.conflict = c.conflict /\ e.unsat = c.unsat
                    /\ d \in Core /\ EntryPut(e, d, p, L, R) /\ PutOk(e, W, p, L, R)
                    /\ (L = 0 \/ (L = c.trail[p].level /\ R \notin {None, External}))
  <2>1. CASE Cardinality(rest) = 1
    <3>1. rest = {k} /\ (CHOOSE l \in rest : TRUE) = k
      BY <1>19, <2>1, ClauseSize
    <3>2. b = TrailPut(old, p, 0, None)
      <4>1. b = [old EXCEPT !.trail[PosOf(a, CHOOSE l \in rest : TRUE)].level = 0,
                            !.trail[PosOf(a, CHOOSE l \in rest : TRUE)].reason = None]
        BY <1>7, <1>18, <1>20, <2>1, AddKeepIs DEF b, old, rest
      <4>2. PosOf(a, CHOOSE l \in rest : TRUE) = p
        BY <1>21, <3>1
      <4> QED
        BY <4>1, <4>2 DEF TrailPut
    <3>3. b \in Core /\ EntryPut(old, b, p, 0, None)
      <4>1. 0 \in Nat /\ None \in Clause \cup {External}
        BY DEF None, Clause
      <4> QED
        BY <1>21, <3>2, <4>1, TrailPutFields
    <3>4. b.newest = None
      BY <1>13, <3>3 DEF EntryPut, Same
    <3>5. b.trail \in Seq(Entry) /\ Len(b.trail) = Len(c.trail)
          /\ DOMAIN b.trail = DOMAIN c.trail
      <4>1. b.trail \in Seq(Entry) /\ Len(b.trail) = Len(c.trail)
        BY <1>12, <3>3 DEF EntryPut
      <4> QED
        BY <1>2, <4>1, TrailTypes
    <3>6. PosOf(b, -k) = p
      <4>1. \A i \in DOMAIN c.trail : b.trail[i].lit = c.trail[i].lit
        BY <1>12, <3>3 DEF EntryPut
      <4>2. b.trail[p].lit \in {-k, -(-k)}
        BY <1>3, <4>1
      <4>3. \A i \in DOMAIN b.trail : b.trail[i].lit \in {-k, -(-k)} => i = p
        BY <1>2, <1>3, <3>5, <4>1 DEF Distinct
      <4> QED
        BY <3>5, <4>2, <4>3, PosIs
    <3>7. d = ReasonPut(b, p, None)
      BY <1>8, <3>4, <3>6
    <3>8. d \in Core /\ EntryPut(b, d, p, b.trail[p].level, None)
      <4>1. None \in Clause \cup {External} /\ p \in DOMAIN b.trail
        BY <3>5 DEF None, Clause
      <4> QED
        BY <3>3, <3>7, <4>1, ReasonPutFields
    <3>9. b.trail[p].level = 0
      BY <3>3 DEF EntryPut
    <3>10. EntryPut(old, d, p, 0, None)
      BY <1>2, <1>12, <3>3, <3>8, <3>9, EntryPutTwice
    <3>11. PutOk(old, W, p, 0, None)
      <4>1. \A m \in W : Tru(m, k)
        BY <1>19, <3>1, HoldsTru
      <4>2. old.trail[p].reason # None
        BY <1>12, VarFacts
      <4>3. old.trail[p].level \in Nat
        BY <1>2, <1>12, TrailTypes
      <4> QED
        BY <1>12, <4>1, <4>2, <4>3 DEF PutOk
    <3> QED
      BY <1>12, <3>8, <3>10, <3>11
  <2>2. CASE Cardinality(rest) # 1
    <3> DEFINE L == c.trail[p].level
    <3>1. b = new
      BY <1>7, <1>18, <1>20, <2>2, AddKeepIs DEF b, old, rest, new
    <3>2. NewFacts(old, new, W, o) /\ new.newest = rest
      <4>1. red \in BOOLEAN /\ Over(rest, old.vars)
        BY <1>12, <1>19 DEF red
      <4> QED
        BY <1>12, <1>19, <4>1, NewFine DEF new
    <3>3. /\ Loose(new, W, o) /\ new.trail = c.trail /\ View(c, new)
          /\ new.control = c.control
          /\ new.conflict = c.conflict /\ new.unsat = c.unsat
      <4>1. /\ Loose(new, W, o) /\ Frame(old, new) /\ Alike(old, new)
            /\ new.unsat = old.unsat
        BY <3>2 DEF NewFacts
      <4>2. View(c, new)
        BY <1>12, <4>1, ViewFacts
      <4> QED
        BY <1>12, <4>1, <4>2 DEF Alike
    <3>4. PosOf(new, -k) = p
      BY <1>14, <3>3, AlikeTrail
    <3>5. d = ReasonPut(new, p, rest)
      BY <1>8, <3>1, <3>2, <3>4
    <3>6. d \in Core /\ EntryPut(new, d, p, new.trail[p].level, rest)
      <4>1. rest \in Clause \cup {External} /\ p \in DOMAIN new.trail /\ new \in Core
        BY <1>19, <3>3 DEF Loose, Struct
      <4> QED
        BY <3>5, <4>1, ReasonPutFields
    <3>7. EntryPut(new, d, p, L, rest)
      BY <3>3, <3>6
    <3>8. L \in Nat /\ L > 0
      BY <1>2, TrailTypes
    <3>9. Backs(c.trail, p, L, rest)
      <4>1. ASSUME NEW l \in rest \ {c.trail[p].lit}
            PROVE  \E j \in 1..p - 1 : c.trail[j].lit = -l /\ c.trail[j].level <= L
        <5>1. l \in cl \ {k}
          BY <1>19, <4>1
        <5> QED
          BY <1>15, <5>1 DEF FalseBefore
      <4> QED
        BY <4>1 DEF Backs
    <3>10. rest # External
      BY <1>19, VarFacts
    <3> HIDE DEF L
    <3>11. PutOk(new, W, p, L, rest)
      <4>1. L <= new.trail[p].level /\ new.trail[p].reason # None
        BY <3>3, <3>8, VarFacts DEF L
      <4>2. rest # None
        BY <1>20 DEF None
      <4> QED
        BY <1>19, <3>3, <3>8, <3>9, <4>1, <4>2 DEF PutOk
    <3>12. L = c.trail[p].level /\ rest \notin {None, External}
      BY <1>20, <3>10 DEF None, L
    <3> QED
      BY <3>3, <3>6, <3>7, <3>11, <3>12
  <2> QED
    BY <2>1, <2>2
<1>23. PICK e, L, R : /\ Loose(e, W, o) /\ Ordered(e.trail) /\ e.trail = c.trail
                    /\ View(c, e)
                    /\ e.control = c.control /\ e.conflict = c.conflict /\ e.unsat = c.unsat
                    /\ d \in Core /\ EntryPut(e, d, p, L, R) /\ PutOk(e, W, p, L, R)
                    /\ (L = 0 \/ (L = c.trail[p].level /\ R \notin {None, External}))
  BY <1>22
<1>24. PutResult(e, d, W, o)
  BY <1>23, EntryPutFine
<1>25. View(c, d)
  BY <1>23, FrameFacts, ViewFacts DEF EntryPut
<1>26. L = 0 => R = None
  BY <1>23 DEF PutOk
<1>27. /\ d.control = e.control /\ d.conflict = e.conflict /\ d.unsat = e.unsat
       /\ Len(d.trail) = Len(e.trail)
       /\ \A i \in DOMAIN e.trail : i # p => d.trail[i] = e.trail[i]
       /\ d.trail[p].lit = e.trail[p].lit
       /\ d.trail[p].level = L /\ d.trail[p].reason = R
  BY <1>23 DEF EntryPut, Same
<1>28. Loose(d, W, o) /\ Ordered(d.trail)
  BY <1>23, <1>24 DEF PutResult
<1> QED
  BY <1>23, <1>25, <1>26, <1>27, <1>28 DEF ReasonFacts

-----------------------------------------------------------------------------
(* Reasons are asked for before a conflict is analyzed.                    *)

\* The literal is false, and either its reason is asked for or it has none.
LitOk(c, S, l) ==
  IsFalse(c, l) /\ (Abs(l) \in S \/ LevelOf(c, l) = 0 \/ ReasonOf(c, l) = None)

\* The literals whose reasons are known have one, and are not fixed.
Clean(c, S) ==
  \A i \in DOMAIN c.trail : Abs(c.trail[i].lit) \in S =>
    c.trail[i].level > 0 /\ c.trail[i].reason \notin {None, External}

\* The analysis is asking for reasons: a.seen are the variables whose reasons
\* it knows.
AskingOf(a, W, o) ==
  /\ a.seen \in SUBSET Var /\ Loose(a.core, W, o) /\ Ordered(a.core.trail)
  /\ ~a.core.unsat /\ Clean(a.core, a.seen)

\* Only entries before position P that were not seen yet have changed.
TouchedTo(c, S, d, T, P) ==
  /\ S \subseteq T /\ View(c, d) /\ d.control = c.control
  /\ d.conflict = c.conflict /\ d.unsat = c.unsat /\ Len(d.trail) = Len(c.trail)
  /\ \A i \in DOMAIN c.trail :
       /\ d.trail[i].lit = c.trail[i].lit /\ d.trail[i].level <= c.trail[i].level
       /\ i >= P \/ Abs(c.trail[i].lit) \in S \/ c.trail[i].level = 0
            \/ c.trail[i].reason = None => d.trail[i] = c.trail[i]
       /\ i >= P /\ Abs(c.trail[i].lit) \in T => Abs(c.trail[i].lit) \in S

\* The same for the records the analysis passes on.
Touched(a, b, P) == TouchedTo(a.core, a.seen, b.core, b.seen, P)

\* To ask for nothing changes nothing.
LEMMA TouchedSelf ==
  ASSUME NEW a, Struct(a.core), NEW P
  PROVE  Touched(a, a, P)
<1> DEFINE c == a.core
           S == a.seen
<1>1. c.trail \in Seq(Entry) /\ DOMAIN c.trail = 1..Len(c.trail)
  BY StructFields
<1>2. View(c, c)
  BY FrameFacts, ViewFacts DEF Frame
<1>3. \A i \in DOMAIN c.trail : c.trail[i].level <= c.trail[i].level
  BY <1>1, TrailTypes
<1> HIDE DEF c, S
<1>4. TouchedTo(c, S, c, S, P)
  BY <1>2, <1>3 DEF TouchedTo
<1> QED
  BY <1>4 DEF Touched, c, S

\* Several questions are like one.
LEMMA TouchedTrans ==
  ASSUME NEW a, Struct(a.core), NEW b, Struct(b.core), NEW e, Struct(e.core), NEW P,
         Touched(a, b, P), Touched(b, e, P)
  PROVE  Touched(a, e, P)
<1> DEFINE c == a.core
           d == b.core
           f == e.core
           S == a.seen
           T == b.seen
           U == e.seen
<1>1. /\ c.trail \in Seq(Entry) /\ DOMAIN c.trail = 1..Len(c.trail)
      /\ d.trail \in Seq(Entry) /\ DOMAIN d.trail = 1..Len(d.trail)
      /\ f.trail \in Seq(Entry) /\ DOMAIN f.trail = 1..Len(f.trail)
  BY StructFields
<1>2. TouchedTo(c, S, d, T, P) /\ TouchedTo(d, T, f, U, P)
  BY DEF Touched
<1>3. Struct(d) /\ Struct(c) /\ Struct(f)
  OBVIOUS
<1> HIDE DEF c, d, f, S, T, U
<1>4. S \subseteq T /\ T \subseteq U
  BY <1>2 DEF TouchedTo
<1>5. View(c, f)
  <2>1. View(c, d) /\ View(d, f)
    BY <1>2 DEF TouchedTo
  <2> QED
    BY <2>1, ViewFacts
<1>6. /\ f.control = c.control /\ f.conflict = c.conflict /\ f.unsat = c.unsat
      /\ Len(f.trail) = Len(c.trail) /\ Len(d.trail) = Len(c.trail)
  BY <1>2 DEF TouchedTo
<1>7. ASSUME NEW i \in DOMAIN c.trail
      PROVE  /\ f.trail[i].lit = c.trail[i].lit /\ f.trail[i].level <= c.trail[i].level
             /\ i >= P \/ Abs(c.trail[i].lit) \in S \/ c.trail[i].level = 0
                  \/ c.trail[i].reason = None => f.trail[i] = c.trail[i]
             /\ i >= P /\ Abs(c.trail[i].lit) \in U => Abs(c.trail[i].lit) \in S
  <2>1. i \in DOMAIN d.trail /\ i \in DOMAIN f.trail
    BY <1>1, <1>6
  <2>2. c.trail[i].level \in Nat /\ d.trail[i].level \in Nat /\ f.trail[i].level \in Nat
    BY <1>1, <2>1, TrailTypes
  <2>3. /\ d.trail[i].lit = c.trail[i].lit /\ d.trail[i].level <= c.trail[i].level
        /\ i >= P \/ Abs(c.trail[i].lit) \in S \/ c.trail[i].level = 0
             \/ c.trail[i].reason = None => d.trail[i] = c.trail[i]
        /\ i >= P /\ Abs(c.trail[i].lit) \in T => Abs(c.trail[i].lit) \in S
    BY <1>2 DEF TouchedTo
  <2>4. /\ f.trail[i].lit = d.trail[i].lit /\ f.trail[i].level <= d.trail[i].level
        /\ i >= P \/ Abs(d.trail[i].lit) \in T \/ d.trail[i].level = 0
             \/ d.trail[i].reason = None => f.trail[i] = d.trail[i]
        /\ i >= P /\ Abs(d.trail[i].lit) \in U => Abs(d.trail[i].lit) \in T
    BY <1>2, <2>1 DEF TouchedTo
  <2> QED
    BY <1>4, <2>2, <2>3, <2>4
<1>8. S \subseteq U
  BY <1>4
<1>9. TouchedTo(c, S, f, U, P)
  BY <1>5, <1>6, <1>7, <1>8 DEF TouchedTo
<1> QED
  BY <1>9 DEF Touched, c, S, f, U

\* What is known of a literal stays.
TouchedLit(c, d, l) ==
  /\ IsFalse(d, l) /\ PosOf(d, l) = PosOf(c, l) /\ LevelOf(d, l) <= LevelOf(c, l)

\* A literal that was false still is, where it was and on a level not above
\* the one it had.
LEMMA TouchedLits ==
  ASSUME NEW c, Struct(c), NEW d, Struct(d), NEW S, NEW T, NEW P,
         TouchedTo(c, S, d, T, P), NEW l \in Lit, IsFalse(c, l)
  PROVE  /\ TouchedLit(c, d, l)
         /\ LitOk(c, S, l) => LitOk(d, T, l)
<1>1. PICK i \in DOMAIN c.trail : c.trail[i].lit = -l /\ SpotIs(c, l, i)
  BY Values DEF Valued
<1>2. /\ d.trail[i].lit = c.trail[i].lit /\ d.trail[i].level <= c.trail[i].level
      /\ (Abs(c.trail[i].lit) \in S \/ c.trail[i].level = 0
           \/ c.trail[i].reason = None) => d.trail[i] = c.trail[i]
  BY DEF TouchedTo
<1>3. i \in DOMAIN d.trail
  <2>1. Len(d.trail) = Len(c.trail)
    BY DEF TouchedTo
  <2> QED
    BY <2>1, StructFields
<1>4. SpotIs(d, l, i)
  BY <1>1, <1>2, <1>3, Spot
<1>5. IsFalse(d, l)
  BY <1>1, <1>2, <1>3 DEF IsFalse, Lits
<1>6. TouchedLit(c, d, l)
  BY <1>1, <1>2, <1>4, <1>5 DEF TouchedLit, SpotIs
<1>7. ASSUME LitOk(c, S, l) PROVE LitOk(d, T, l)
  <2>1. CASE Abs(l) \in S
    BY <1>5, <2>1 DEF LitOk, TouchedTo
  <2>2. CASE LevelOf(c, l) = 0 \/ ReasonOf(c, l) = None
    <3>1. d.trail[i] = c.trail[i]
      BY <1>1, <1>2, <2>2 DEF SpotIs
    <3> QED
      BY <1>1, <1>4, <1>5, <2>2, <3>1 DEF LitOk, SpotIs
  <2> QED
    BY <1>7, <2>1, <2>2 DEF LitOk
<1> QED
  BY <1>6, <1>7

\* One literal of a clause whose reason is asked for.
GivenTo(c, l) == [c EXCEPT !.trail[PosOf(c, l)].reason = c.newest]

\* 'explain_reason' asks for the reason of a literal unless the solver has it.
KnownOf(c, l) ==
  IF ReasonOf(c, l) = External THEN GivenTo(ReasonLearned(c, -l, TRUE), l) ELSE c

\* The variable is marked unless it is fixed or a decision.
MarkSeen(c, l, seen) ==
  [core |-> c,
   seen |-> IF LevelOf(c, l) > 0 /\ ReasonOf(c, l) # None
            THEN seen \cup {Abs(l)} ELSE seen]

\* One round of the loop of 'explain_reasons' over the literals of a clause.
Touch(l, b) ==
  IF Abs(l) \in b.seen \/ LevelOf(b.core, l) = 0 THEN b
  ELSE MarkSeen(KnownOf(b.core, l), l, b.seen)

\* What one round promises.
TouchFacts(b, e, l, P, W, o) ==
  /\ AskingOf(e, W, o) /\ Touched(b, e, P) /\ LitOk(e.core, e.seen, l)
  /\ e = [core |-> e.core, seen |-> e.seen]

\* It keeps the promise.
LEMMA TouchFine ==
  ASSUME NEW b, NEW W, NEW o, AskingOf(b, W, o), b = [core |-> b.core, seen |-> b.seen],
         NEW l \in Lit, IsFalse(b.core, l), NEW P \in Nat, PosOf(b.core, l) < P,
         NEW e, e = Touch(l, b)
  PROVE  TouchFacts(b, e, l, P, W, o)
<1> DEFINE c == b.core
           S == b.seen
<1>1. /\ S \in SUBSET Var /\ Loose(c, W, o) /\ Ordered(c.trail) /\ ~c.unsat
      /\ Clean(c, S) /\ Struct(c)
  BY DEF AskingOf, Loose
<1>2. PICK p \in DOMAIN c.trail : c.trail[p].lit = -l /\ SpotIs(c, l, p)
  BY <1>1, Values DEF Valued
<1>3. /\ PosOf(c, l) = p /\ LevelOf(c, l) = c.trail[p].level
      /\ ReasonOf(c, l) = c.trail[p].reason /\ p < P
  BY <1>2 DEF SpotIs
<1>4. /\ c.trail \in Seq(Entry) /\ DOMAIN c.trail = 1..Len(c.trail) /\ Distinct(c.trail)
      /\ Len(c.trail) \in Nat
  BY <1>1, StructFields
<1>5. /\ c.trail[p].level \in Nat /\ p \in Nat
      /\ \A i \in DOMAIN c.trail : c.trail[i].lit \in Lit /\ c.trail[i].level \in Nat
  BY <1>4, TrailTypes
<1>6. IsFalse(c, l)
  OBVIOUS
<1>7. b = [core |-> c, seen |-> S]
  OBVIOUS
<1>8. e = IF Abs(l) \in S \/ LevelOf(c, l) = 0 THEN b
          ELSE MarkSeen(KnownOf(c, l), l, S)
  BY DEF Touch
<1> HIDE DEF c, S
<1>9. CASE Abs(l) \in S \/ LevelOf(c, l) = 0
  <2>1. e = b
    BY <1>8, <1>9
  <2>2. Touched(b, b, P)
    BY <1>1, TouchedSelf DEF c
  <2>3. LitOk(c, S, l)
    BY <1>6, <1>9 DEF LitOk
  <2> QED
    BY <1>7, <2>1, <2>2, <2>3 DEF TouchFacts, c, S
<1>10. CASE ~(Abs(l) \in S \/ LevelOf(c, l) = 0)
  <2> DEFINE d == KnownOf(c, l)
             T == IF LevelOf(d, l) > 0 /\ ReasonOf(d, l) # None
                  THEN S \cup {Abs(l)} ELSE S
  <2>1. e = [core |-> d, seen |-> T]
    BY <1>8, <1>10 DEF MarkSeen
  <2>2. -(-l) = l /\ -l \in Lit /\ Abs(-l) = Abs(l) /\ Abs(l) \in Var
    BY LitFacts
  <2>3. /\ Loose(d, W, o) /\ Ordered(d.trail) /\ View(c, d)
        /\ d.control = c.control /\ d.conflict = c.conflict /\ d.unsat = c.unsat
        /\ Len(d.trail) = Len(c.trail)
        /\ \A i \in DOMAIN c.trail : i # p => d.trail[i] = c.trail[i]
        /\ d.trail[p].lit = c.trail[p].lit
        /\ (\/ d.trail[p].level = c.trail[p].level /\ d.trail[p].reason # External
            \/ d.trail[p].level = 0 /\ d.trail[p].reason = None)
        /\ c.trail[p].reason = None => d.trail[p] = c.trail[p]
    <3>1. CASE ReasonOf(c, l) = External
      <4> DEFINE k == -l
      <4>1. c.trail[p].reason = External /\ c.trail[p].level > 0 /\ k = c.trail[p].lit
        BY <1>2, <1>3, <1>5, <1>10, <3>1
      <4>2. d = ReasonGiven(c, k)
        BY <2>2, <3>1 DEF KnownOf, ReasonGiven, GivenTo, ReasonPut
      <4> HIDE DEF k, d
      <4>3. ReasonFacts(c, d, p, W, o)
        BY <1>1, <4>1, <4>2, ReasonFine
      <4> QED
        BY <4>1, <4>3, VarFacts DEF ReasonFacts
    <3>2. CASE ReasonOf(c, l) # External
      <4>1. d = c
        BY <3>2 DEF KnownOf
      <4>2. View(c, c)
        BY FrameFacts, ViewFacts DEF Frame
      <4> HIDE DEF d
      <4> QED
        BY <1>1, <1>3, <3>2, <4>1, <4>2
    <3> QED
      BY <3>1, <3>2
  <2> HIDE DEF d
  <2>4. Struct(d) /\ p \in DOMAIN d.trail /\ DOMAIN d.trail = DOMAIN c.trail
        /\ d.trail \in Seq(Entry)
    BY <1>4, <2>3, StructFields DEF Loose
  <2>5. SpotIs(d, l, p)
    BY <1>2, <2>3, <2>4, Spot
  <2>6. LevelOf(d, l) = d.trail[p].level /\ ReasonOf(d, l) = d.trail[p].reason
    BY <2>5 DEF SpotIs
  <2>7. d.trail[p].level \in Nat
    BY <2>4, TrailTypes
  <2>8. S \subseteq T /\ T \subseteq S \cup {Abs(l)} /\ T \in SUBSET Var
        /\ (Abs(l) \in T => LevelOf(d, l) > 0 /\ ReasonOf(d, l) # None)
        /\ (Abs(l) \notin T => LevelOf(d, l) = 0 \/ ReasonOf(d, l) = None)
    BY <1>1, <1>10, <2>2, <2>6, <2>7
  <2> HIDE DEF T
  <2>9. \A i \in DOMAIN c.trail : Abs(c.trail[i].lit) = Abs(l) => i = p
    <3> TAKE i \in DOMAIN c.trail
    <3>1. Abs(c.trail[i].lit) = Abs(l) => c.trail[i].lit \in {l, -l}
      BY <1>5, LitFacts
    <3> QED
      BY <1>2, <1>4, <2>2, <3>1 DEF Distinct
  <2>10. Clean(d, T)
    <3>1. ASSUME NEW i \in DOMAIN d.trail, Abs(d.trail[i].lit) \in T
          PROVE  d.trail[i].level > 0 /\ d.trail[i].reason \notin {None, External}
      <4>1. CASE i = p
        <5>1. Abs(l) \in T
          BY <1>2, <2>2, <2>3, <3>1, <4>1
        <5> QED
          BY <2>3, <2>6, <2>7, <2>8, <4>1, <5>1
      <4>2. CASE i # p
        <5>1. d.trail[i] = c.trail[i] /\ Abs(c.trail[i].lit) \in S
          BY <2>3, <2>4, <2>8, <2>9, <3>1, <4>2
        <5> QED
          BY <1>1, <2>4, <5>1 DEF Clean
      <4> QED
        BY <4>1, <4>2
    <3> QED
      BY <3>1 DEF Clean
  <2>11. TouchedTo(c, S, d, T, P)
    <3>1. ASSUME NEW i \in DOMAIN c.trail
          PROVE  /\ d.trail[i].lit = c.trail[i].lit /\ d.trail[i].level <= c.trail[i].level
                 /\ i >= P \/ Abs(c.trail[i].lit) \in S \/ c.trail[i].level = 0
                      \/ c.trail[i].reason = None => d.trail[i] = c.trail[i]
                 /\ i >= P /\ Abs(c.trail[i].lit) \in T => Abs(c.trail[i].lit) \in S
      <4>1. CASE i = p
        <5>1. ~(i >= P)
          BY <1>3, <1>5, <4>1
        <5>2. Abs(c.trail[i].lit) \notin S
          BY <1>2, <1>10, <2>2, <4>1
        <5>3. c.trail[i].level # 0
          BY <1>3, <1>10, <4>1
        <5>4. d.trail[i].level <= c.trail[i].level
          BY <1>5, <2>3, <4>1
        <5> QED
          BY <2>3, <4>1, <5>1, <5>2, <5>3, <5>4
      <4>2. CASE i # p
        <5>1. d.trail[i] = c.trail[i]
          BY <2>3, <4>2
        <5>2. Abs(c.trail[i].lit) \in T => Abs(c.trail[i].lit) \in S
          BY <2>8, <2>9, <4>2
        <5> QED
          BY <1>5, <5>1, <5>2
      <4> QED
        BY <4>1, <4>2
    <3> QED
      BY <2>3, <2>8, <3>1 DEF TouchedTo
  <2>12. LitOk(d, T, l)
    <3>1. IsFalse(d, l)
      BY <1>2, <2>3, <2>4 DEF IsFalse, Lits
    <3> QED
      BY <2>8, <3>1 DEF LitOk
  <2>13. e.core = d /\ e.seen = T
    BY <2>1
  <2>14. AskingOf(e, W, o)
    BY <1>1, <2>3, <2>8, <2>10, <2>13 DEF AskingOf
  <2>15. Touched(b, e, P)
    BY <2>11, <2>13 DEF Touched, c, S
  <2> QED
    BY <2>1, <2>12, <2>13, <2>14, <2>15 DEF TouchFacts
<1> QED
  BY <1>9, <1>10

\* The fold over the literals, in whatever order FoldSet takes them.
TouchRun(g, a, S) ==
  g = [s \in SUBSET S |->
         IF s = {} THEN a
         ELSE Touch((CHOOSE x \in s : TRUE), g[s \ {CHOOSE x \in s : TRUE}])]

\* The states it can go through.
States(a, P, W, o) ==
  {b \in [core : Core, seen : SUBSET Var] : AskingOf(b, W, o) /\ Touched(a, b, P)}

\* What they have in common.
LEMMA StatesFacts ==
  ASSUME NEW a, NEW P, NEW W, NEW o, NEW b
  PROVE  b \in States(a, P, W, o) <=>
           b = [core |-> b.core, seen |-> b.seen] /\ AskingOf(b, W, o) /\ Touched(a, b, P)
<1>1. ASSUME b \in States(a, P, W, o)
      PROVE  b = [core |-> b.core, seen |-> b.seen] /\ AskingOf(b, W, o) /\ Touched(a, b, P)
  BY <1>1 DEF States
<1>2. ASSUME b = [core |-> b.core, seen |-> b.seen], AskingOf(b, W, o), Touched(a, b, P)
      PROVE  b \in States(a, P, W, o)
  <2>1. b.core \in Core /\ b.seen \in SUBSET Var
    BY <1>2 DEF AskingOf, Loose, Struct
  <2> DEFINE c == b.core
             S == b.seen
  <2>2. b = [core |-> c, seen |-> S] /\ c \in Core /\ S \in SUBSET Var
    BY <1>2, <2>1
  <2> HIDE DEF c, S
  <2>3. b \in [core : Core, seen : SUBSET Var]
    BY <2>2
  <2> QED
    BY <1>2, <2>3 DEF States
<1> QED
  BY <1>1, <1>2

\* The clause cl is falsified by literals before position P.
Under(c, cl, P) ==
  cl \in Clause /\ \A l \in cl : IsFalse(c, l) /\ PosOf(c, l) < P

\* A round leaves these states to none but them, and a literal that was seen
\* to stays so.
LEMMA TouchStays ==
  ASSUME NEW a, NEW W, NEW o, AskingOf(a, W, o), NEW P \in Nat, NEW S,
         Under(a.core, S, P), NEW b \in States(a, P, W, o), NEW l \in S,
         NEW e, e = Touch(l, b)
  PROVE  /\ e \in States(a, P, W, o) /\ LitOk(e.core, e.seen, l)
         /\ \A k \in S : LitOk(b.core, b.seen, k) => LitOk(e.core, e.seen, k)
<1>1. b = [core |-> b.core, seen |-> b.seen] /\ AskingOf(b, W, o) /\ Touched(a, b, P)
  BY StatesFacts
<1>2. Struct(a.core) /\ Struct(b.core)
  BY <1>1 DEF AskingOf, Loose
<1>3. \A k \in S : k \in Lit /\ IsFalse(a.core, k) /\ PosOf(a.core, k) < P
  BY DEF Under, Clause
<1> DEFINE c == a.core
           d == b.core
           f == e.core
           A == a.seen
           B == b.seen
           E == e.seen
<1>4. TouchedTo(c, A, d, B, P) /\ Struct(c) /\ Struct(d)
  BY <1>1, <1>2 DEF Touched
<1>5. \A k \in S : k \in Lit /\ IsFalse(c, k) /\ PosOf(c, k) < P
  BY <1>3
<1> HIDE DEF c, d, f, A, B, E
<1>6. \A k \in S : IsFalse(d, k) /\ PosOf(d, k) < P
  <2> TAKE k \in S
  <2>1. TouchedLit(c, d, k)
    BY <1>4, <1>5, TouchedLits
  <2> QED
    BY <1>5, <2>1 DEF TouchedLit
<1>7. TouchFacts(b, e, l, P, W, o)
  BY <1>1, <1>5, <1>6, TouchFine DEF d
<1>8. AskingOf(e, W, o) /\ Touched(b, e, P) /\ LitOk(e.core, e.seen, l)
      /\ e = [core |-> e.core, seen |-> e.seen]
  BY <1>7 DEF TouchFacts
<1>9. Struct(f) /\ TouchedTo(d, B, f, E, P)
  BY <1>8 DEF AskingOf, Loose, Touched, f, d, B, E
<1>10. Touched(a, e, P)
  BY <1>1, <1>2, <1>8, <1>9, TouchedTrans DEF f
<1>11. \A k \in S : LitOk(d, B, k) => LitOk(f, E, k)
  <2> TAKE k \in S
  <2> QED
    BY <1>4, <1>5, <1>6, <1>9, TouchedLits
<1>12. e \in States(a, P, W, o)
  BY <1>8, <1>10, StatesFacts
<1> QED
  BY <1>8, <1>11, <1>12 DEF d, B, f, E

\* The reasons of all literals of the clause are known.
ExplainedClause(a, b, cl, P, W, o) ==
  /\ AskingOf(b, W, o) /\ Touched(a, b, P) /\ b = [core |-> b.core, seen |-> b.seen]
  /\ \A l \in cl : LitOk(b.core, b.seen, l)

\* That is what the loop is for.
LEMMA ExplainFine ==
  ASSUME NEW a, NEW W, NEW o, AskingOf(a, W, o), a = [core |-> a.core, seen |-> a.seen],
         NEW P \in Nat, NEW cl, NEW l, NEW S, S = cl \ {l}, Under(a.core, S, P),
         NEW b, b = ReasonExplained(a, cl, l)
  PROVE  ExplainedClause(a, b, S, P, W, o)
<1> DEFINE T == States(a, P, W, o)
           G == [p \in S \X T |-> Touch(p[1], p[2])]
           g == CHOOSE f : TouchRun(f, a, S)
<1>1. IsFiniteSet(S)
  BY ClauseSize DEF Under
<1>2. a \in T
  <2>1. Struct(a.core)
    BY DEF AskingOf, Loose
  <2>2. Touched(a, a, P)
    BY <2>1, TouchedSelf
  <2> QED
    BY <2>2, StatesFacts
<1> HIDE DEF T
<1>3. \A x \in S : \A u \in T : Touch(x, u) \in T
  <2>1. ASSUME NEW x \in S, NEW u \in T, NEW e, e = Touch(x, u) PROVE e \in T
    BY <2>1, TouchStays DEF T
  <2> QED
    BY <2>1
<1>4. G \in [S \X T -> T] /\ \A x \in S : \A u \in T : G[x, u] = Touch(x, u)
  BY <1>3
<1> HIDE DEF G
<1>5. b = g[S]
  <2>1. b = (CHOOSE f : TouchRun(f, a, cl \ {l}))[cl \ {l}]
    BY Zenon DEF ReasonExplained, FoldSet, MapThenFoldSet, TouchRun, Touch, MarkSeen, KnownOf, GivenTo
  <2> QED
    BY <2>1
<1>6. TouchRun(g, a, S)
  <2>0. PICK f \in [SUBSET S -> T] : FoldsTo(f, S, a, G)
    BY <1>1, <1>2, <1>4, FoldExists
  <2>1. f = [s \in SUBSET S |->
               IF s = {} THEN a
               ELSE G[(CHOOSE x \in s : TRUE), f[s \ {CHOOSE x \in s : TRUE}]]]
    BY <2>0 DEF FoldsTo
  <2> DEFINE h == [s \in SUBSET S |->
                     IF s = {} THEN a
                     ELSE Touch((CHOOSE x \in s : TRUE), f[s \ {CHOOSE x \in s : TRUE}])]
  <2>2. ASSUME NEW s \in SUBSET S PROVE f[s] = h[s]
    <3>1. CASE s = {}
      BY <2>1, <3>1
    <3>2. CASE s # {}
      <4> DEFINE x == CHOOSE x \in s : TRUE
                 u == f[s \ {x}]
      <4>1. x \in s
        BY <3>2
      <4>2. x \in S /\ s \ {x} \in SUBSET S
        BY <4>1
      <4>3. u \in T
        BY <4>2
      <4>4. f[s] = G[x, u]
        BY <2>1, <3>2
      <4>5. h[s] = Touch(x, u)
        BY <3>2
      <4> HIDE DEF x, u, h
      <4> QED
        BY <1>4, <4>2, <4>3, <4>4, <4>5
    <3> QED
      BY <3>1, <3>2
  <2>3. f = h
    <3>1. f = [s \in SUBSET S |-> f[s]] /\ h = [s \in SUBSET S |-> h[s]]
      OBVIOUS
    <3> HIDE DEF h
    <3> QED
      BY <2>2, <3>1
  <2>4. TouchRun(f, a, S)
    BY <2>3 DEF TouchRun
  <2>5. \E e : TouchRun(e, a, S)
    BY <2>4
  <2> QED
    BY <2>5
<1> HIDE DEF g
<1>7. \A s \in SUBSET S :
        g[s] = IF s = {} THEN a
               ELSE Touch((CHOOSE x \in s : TRUE), g[s \ {CHOOSE x \in s : TRUE}])
  BY <1>6 DEF TouchRun
<1> DEFINE Ok(s, u) == u \in T /\ \A k \in s : LitOk(u.core, u.seen, k)
           D == {s \in SUBSET S : Ok(s, g[s])}
<1>8. {} \in D
  BY <1>2, <1>7
<1>9. ASSUME NEW s \in SUBSET S, \A x \in s : s \ {x} \in D PROVE s \in D
  <2>1. CASE s = {}
    BY <1>8, <2>1
  <2>2. CASE s # {}
    <3> DEFINE x == CHOOSE x \in s : TRUE
               r == s \ {x}
               u == g[r]
               e == g[s]
    <3>1. x \in s /\ x \in S
      BY <2>2
    <3>2. e = Touch(x, u)
      BY <1>7, <2>2
    <3>3. u \in T /\ \A k \in r : LitOk(u.core, u.seen, k)
      BY <1>9, <3>1
    <3>4. \A k \in s : k = x \/ k \in r
      OBVIOUS
    <3> HIDE DEF x, u, e, r
    <3>5. /\ e \in T /\ LitOk(e.core, e.seen, x)
          /\ \A k \in S : LitOk(u.core, u.seen, k) => LitOk(e.core, e.seen, k)
      BY <3>1, <3>2, <3>3, TouchStays DEF T
    <3>6. Ok(s, e)
      BY <3>3, <3>4, <3>5
    <3> QED
      BY <3>6 DEF e
  <2> QED
    BY <2>1, <2>2
<1>10. S \in D
  <2> HIDE DEF D
  <2>2. \A s \in SUBSET S : s \in D
    BY <1>1, <1>8, <1>9, AllSubsets
  <2> QED
    BY <2>2
<1>11. b \in T /\ \A k \in S : LitOk(b.core, b.seen, k)
  BY <1>5, <1>10
<1> QED
  BY <1>11, StatesFacts DEF ExplainedClause, T

\* The literals of the reason at j are seen to, if that reason is known.
ClosedAt(c, S, j) ==
  Abs(c.trail[j].lit) \in S =>
    \A l \in c.trail[j].reason \ {c.trail[j].lit} : LitOk(c, S, l)

\* What nothing from P on has changed, nothing from Q on has.
LEMMA TouchedWeaken ==
  ASSUME NEW a, Struct(a.core), NEW b, NEW P \in Nat, NEW Q \in Nat, P <= Q,
         Touched(a, b, P)
  PROVE  Touched(a, b, Q)
<1>1. \A i \in DOMAIN a.core.trail : i \in Nat
  BY StructFields
<1>2. \A i \in DOMAIN a.core.trail : i >= Q => i >= P
  BY <1>1
<1> QED
  BY <1>2 DEF Touched, TouchedTo

\* A reason that was gone through remains so while the analysis asks for
\* others further down the trail.
LEMMA ClosedStays ==
  ASSUME NEW c, Struct(c), NEW S, Clean(c, S), NEW d, Struct(d), NEW T,
         NEW P \in Nat, TouchedTo(c, S, d, T, P), NEW j \in DOMAIN c.trail, j >= P,
         ClosedAt(c, S, j)
  PROVE  ClosedAt(d, T, j)
<1>1. /\ d.trail[j].lit = c.trail[j].lit
      /\ d.trail[j] = c.trail[j]
      /\ Abs(c.trail[j].lit) \in T => Abs(c.trail[j].lit) \in S
  BY DEF TouchedTo
<1>2. ASSUME Abs(c.trail[j].lit) \in T,
             NEW l \in c.trail[j].reason \ {c.trail[j].lit}
      PROVE  LitOk(d, T, l)
  <2>1. LitOk(c, S, l) /\ Abs(c.trail[j].lit) \in S
    BY <1>1, <1>2 DEF ClosedAt
  <2>2. c.trail[j].reason # External
    BY <2>1 DEF Clean
  <2>3. c.trail[j].reason \in Clause \cup {External}
    BY StructFields, TrailTypes
  <2>4. l \in Lit
    BY <2>2, <2>3 DEF Clause
  <2> QED
    BY <2>1, <2>4, TouchedLits DEF LitOk
<1> QED
  BY <1>1, <1>2 DEF ClosedAt

\* The reason of a literal that was seen.
AskStep(a, e) ==
  IF Abs(e.lit) \in a.seen /\ e.level > 0 /\ e.reason # None
  THEN ReasonExplained(a, e.reason, e.lit) ELSE a

\* What a step of the loop over the trail promises.
AskFacts(a, e, p, W, o) ==
  /\ AskingOf(e, W, o) /\ Touched(a, e, p) /\ ClosedAt(e.core, e.seen, p)
  /\ e = [core |-> e.core, seen |-> e.seen]

\* It keeps the promise: the literals of a reason are before the literal they
\* imply, so none that was passed is asked for.
LEMMA AskStepFine ==
  ASSUME NEW a, NEW W, NEW o, AskingOf(a, W, o), a = [core |-> a.core, seen |-> a.seen],
         NEW p \in DOMAIN a.core.trail, NEW e, e = AskStep(a, a.core.trail[p])
  PROVE  AskFacts(a, e, p, W, o)
<1> DEFINE c == a.core
           S == a.seen
           x == c.trail[p]
<1>1. /\ Struct(c) /\ Ordered(c.trail) /\ Clean(c, S)
  BY DEF AskingOf, Loose
<1>2. c.trail \in Seq(Entry) /\ DOMAIN c.trail = 1..Len(c.trail) /\ p \in DOMAIN c.trail
      /\ p \in Nat
  BY <1>1, StructFields
<1>3. x.lit \in Lit /\ x.level \in Nat /\ x.reason \in Clause \cup {External}
  BY <1>2, TrailTypes
<1>4. e = AskStep(a, x)
  OBVIOUS
<1>5. CASE Abs(x.lit) \in S
  <2>1. x.level > 0 /\ x.reason \notin {None, External}
    BY <1>1, <1>2, <1>5 DEF Clean
  <2> DEFINE cl == x.reason
             l == x.lit
             R == cl \ {l}
  <2>2. e = ReasonExplained(a, cl, l)
    BY <1>4, <1>5, <2>1 DEF AskStep
  <2>3. cl \in Clause /\ Justified(c.trail, p, cl)
    BY <1>1, <1>2, <1>3, <2>1 DEF Ordered
  <2>4. Under(c, R, p)
    <3>1. R \in Clause
      BY <2>3 DEF Clause
    <3>2. ASSUME NEW k \in R PROVE IsFalse(c, k) /\ PosOf(c, k) < p
      <4>1. PICK j \in 1..p - 1 : c.trail[j].lit = -k
        BY <2>3, <3>2 DEF Justified, FalseBefore
      <4>2. j \in DOMAIN c.trail /\ j < p
        BY <1>2, <4>1
      <4>3. k \in Lit
        BY <3>1, <3>2 DEF Clause
      <4>4. SpotIs(c, k, j)
        BY <1>1, <4>1, <4>2, <4>3, Spot
      <4> QED
        BY <4>1, <4>2, <4>4 DEF SpotIs, IsFalse, Lits
    <3> HIDE DEF R
    <3> QED
      BY <3>1, <3>2 DEF Under
  <2>5. Under(a.core, R, p) /\ R = cl \ {l}
    BY <2>4
  <2> HIDE DEF R, cl, l
  <2>6. ExplainedClause(a, e, R, p, W, o)
    BY <1>2, <2>2, <2>5, ExplainFine
  <2>7. /\ AskingOf(e, W, o) /\ Touched(a, e, p) /\ e = [core |-> e.core, seen |-> e.seen]
        /\ \A k \in R : LitOk(e.core, e.seen, k)
    BY <2>6 DEF ExplainedClause
  <2>8. e.core.trail[p] = x
    <3>1. p >= p
      BY <1>2
    <3> QED
      BY <1>2, <2>7, <3>1 DEF Touched, TouchedTo
  <2>9. ClosedAt(e.core, e.seen, p)
    BY <2>5, <2>7, <2>8 DEF ClosedAt, cl, l
  <2> QED
    BY <2>7, <2>9 DEF AskFacts
<1>6. CASE Abs(x.lit) \notin S
  <2>1. e = a
    BY <1>4, <1>6 DEF AskStep
  <2>2. Touched(a, a, p)
    BY <1>1, TouchedSelf
  <2>3. ClosedAt(a.core, a.seen, p)
    BY <1>6 DEF ClosedAt
  <2> QED
    BY <2>1, <2>2, <2>3 DEF AskFacts
<1> QED
  BY <1>5, <1>6

\* All of the conflict and of the reasons known is seen to.
Closed(c, S) ==
  /\ \A l \in c.conflict : LitOk(c, S, l)
  /\ \A j \in DOMAIN c.trail : c.trail[j].reason # None => ClosedAt(c, S, j)

\* The loop over the trail, from its end.
AskRun(f, c, n) ==
  f = [i \in 0..n |->
         IF i = 0 THEN ReasonExplained([core |-> c, seen |-> {}], c.conflict, 0)
         ELSE AskStep(f[i - 1], f[i - 1].core.trail[n + 1 - i])]

\* What is known after the loop.
AskedAll(c, a, W, o) ==
  /\ AskingOf(a, W, o) /\ Touched([core |-> c, seen |-> {}], a, Len(c.trail) + 1)
  /\ Closed(a.core, a.seen)

\* The loop sees to every literal the analysis will come to, without looking
\* back: only reasons in order make it so.
LEMMA AskedFine ==
  ASSUME NEW c, NEW W, NEW o, Loose(c, W, o), Ordered(c.trail), ~c.unsat,
         Falsified(c), NEW a, a = ReasonsAsked(c)
  PROVE  AskedAll(c, a, W, o)
<1> DEFINE n == Len(c.trail)
           Q == n + 1
           cl == c.conflict
           z == [core |-> c, seen |-> {}]
           b == ReasonExplained(z, cl, 0)
           T == States(z, Q, W, o)
           G == [p \in (1..n) \X T |-> AskStep(p[2], p[2].core.trail[n + 1 - p[1]])]
           g == CHOOSE f : AskRun(f, c, n)
<1>1. Struct(c) /\ c.conflict \in Clause /\ n \in Nat /\ DOMAIN c.trail = 1..n
  <2>1. Struct(c)
    BY DEF Loose
  <2> QED
    BY <2>1, StructFields DEF FieldTypes
<1>2. a = g[n]
  BY Zenon DEF ReasonsAsked, AskRun, AskStep
<1>3. z.core = c /\ z.seen = {} /\ z = [core |-> z.core, seen |-> z.seen]
  OBVIOUS
<1>4. AskingOf(z, W, o)
  BY <1>3 DEF AskingOf, Clean
<1>5. Q \in Nat /\ cl \ {0} = cl
  BY <1>1, VarFacts DEF Clause
<1>6. Under(c, cl, Q)
  <2>1. ASSUME NEW l \in cl PROVE IsFalse(c, l) /\ PosOf(c, l) < Q
    <3>1. IsFalse(c, l)
      BY <1>1, <2>1, Falsifieds
    <3>2. l \in Lit
      BY <1>1, <2>1 DEF Clause
    <3>3. PICK i \in DOMAIN c.trail : SpotIs(c, l, i)
      BY <1>1, <3>1, <3>2, Values DEF Valued
    <3> QED
      BY <1>1, <3>1, <3>3 DEF SpotIs
  <2> QED
    BY <1>1, <2>1 DEF Under
<1>7. ExplainedClause(z, b, cl, Q, W, o)
  <2> DEFINE l == 0
             S == cl
  <2>1. S = cl \ {l} /\ Under(z.core, S, Q) /\ b = ReasonExplained(z, cl, l)
    BY <1>3, <1>5, <1>6
  <2> HIDE DEF l, S, b, z, Q, cl
  <2>2. ExplainedClause(z, b, S, Q, W, o)
    BY <1>3, <1>4, <1>5, <2>1, ExplainFine
  <2> QED
    BY <2>2 DEF S
<1> HIDE DEF z, b
<1>8. b \in T /\ \A l \in cl : LitOk(b.core, b.seen, l)
  BY <1>7, StatesFacts DEF ExplainedClause
<1> HIDE DEF T
<1>9. ASSUME NEW u \in T
      PROVE  /\ AskingOf(u, W, o) /\ Touched(z, u, Q) /\ u = [core |-> u.core, seen |-> u.seen]
             /\ Struct(u.core) /\ DOMAIN u.core.trail = 1..n
             /\ u.core.conflict = cl /\ Clean(u.core, u.seen)
  <2>1. AskingOf(u, W, o) /\ Touched(z, u, Q) /\ u = [core |-> u.core, seen |-> u.seen]
    BY StatesFacts DEF T
  <2>2. Struct(u.core) /\ Clean(u.core, u.seen)
    BY <2>1 DEF AskingOf, Loose
  <2>3. Len(u.core.trail) = n /\ u.core.conflict = cl
    BY <1>3, <2>1 DEF Touched, TouchedTo
  <2> QED
    BY <2>1, <2>2, <2>3, StructFields
<1>10. ASSUME NEW u \in T, NEW p \in 1..n, NEW e, e = AskStep(u, u.core.trail[p])
       PROVE  AskFacts(u, e, p, W, o) /\ e \in T
  <2>1. AskFacts(u, e, p, W, o)
    BY <1>9, <1>10, AskStepFine
  <2>2. AskingOf(e, W, o) /\ Touched(u, e, p) /\ e = [core |-> e.core, seen |-> e.seen]
    BY <2>1 DEF AskFacts
  <2>3. Touched(u, e, Q)
    <3>1. p \in Nat /\ p <= Q
      BY <1>1
    <3> HIDE DEF Q
    <3> QED
      BY <1>5, <1>9, <2>2, <3>1, TouchedWeaken
  <2>4. Struct(e.core) /\ Struct(z.core)
    BY <1>1, <1>3, <2>2 DEF AskingOf, Loose
  <2>5. Touched(z, e, Q)
    BY <1>9, <2>3, <2>4, TouchedTrans
  <2> QED
    BY <2>1, <2>2, <2>5, StatesFacts DEF T
<1>11. \A i \in 1..n : n + 1 - i \in 1..n
  BY <1>1
<1>12. \A i \in 1..n : \A u \in T : AskStep(u, u.core.trail[n + 1 - i]) \in T
  BY <1>10, <1>11
<1>13. G \in [(1..n) \X T -> T]
       /\ \A i \in 1..n : \A u \in T : G[i, u] = AskStep(u, u.core.trail[n + 1 - i])
  BY <1>12
<1> HIDE DEF G
<1>14. AskRun(g, c, n)
  <2>1. PICK f \in [0..n -> T] : RunOf(f, b, n, G)
    BY <1>1, <1>8, <1>13, RunExists
  <2> DEFINE h == [i \in 0..n |->
                     IF i = 0 THEN b
                     ELSE AskStep(f[i - 1], f[i - 1].core.trail[n + 1 - i])]
  <2>2. ASSUME NEW i \in 0..n PROVE f[i] = h[i]
    <3>1. f[i] = IF i = 0 THEN b ELSE G[i, f[i - 1]]
      BY <2>1 DEF RunOf
    <3>2. CASE i = 0
      BY <3>1, <3>2
    <3>3. CASE i # 0
      <4>1. i \in 1..n /\ i - 1 \in 0..n
        BY <1>1, <3>3
      <4>2. f[i - 1] \in T
        BY <4>1
      <4>3. h[i] = AskStep(f[i - 1], f[i - 1].core.trail[n + 1 - i])
        BY <3>3
      <4> HIDE DEF h
      <4> QED
        BY <1>13, <3>1, <3>3, <4>1, <4>2, <4>3
    <3> QED
      BY <3>2, <3>3
  <2>3. f = h
    <3>1. f = [i \in 0..n |-> f[i]] /\ h = [i \in 0..n |-> h[i]]
      OBVIOUS
    <3> HIDE DEF h
    <3> QED
      BY <2>2, <3>1
  <2>4. AskRun(f, c, n)
    BY <2>3 DEF AskRun, b, z, cl
  <2>5. \E e : AskRun(e, c, n)
    BY <2>4
  <2> QED
    BY <2>5
<1> HIDE DEF g
<1>15. \A i \in 0..n : g[i] = IF i = 0 THEN b
                       ELSE AskStep(g[i - 1], g[i - 1].core.trail[n + 1 - i])
  BY <1>14 DEF AskRun, b, z, cl
<1> DEFINE Ok(i, u) == /\ u \in T /\ \A l \in cl : LitOk(u.core, u.seen, l)
                       /\ \A j \in 1..n : j > n - i => ClosedAt(u.core, u.seen, j)
           D == {i \in 0..n : Ok(i, g[i])}
<1>16. 0 \in D
  <2>1. g[0] = b /\ 0 \in 0..n
    BY <1>1, <1>15
  <2>2. \A j \in 1..n : ~(j > n - 0)
    BY <1>1
  <2> QED
    BY <1>8, <2>1, <2>2
<1>17. ASSUME NEW i \in 1..n, i - 1 \in D PROVE i \in D
  <2> DEFINE u == g[i - 1]
             p == n + 1 - i
             e == g[i]
  <2>1. e = AskStep(u, u.core.trail[p]) /\ i \in 0..n
    BY <1>1, <1>15
  <2>2. Ok(i - 1, u) /\ p \in 1..n
    BY <1>11, <1>17
  <2>3. p = n - (i - 1) /\ n - i = p - 1 /\ p \in Nat
    BY <1>1
  <2> HIDE DEF u, e, p
  <2>4. AskFacts(u, e, p, W, o) /\ e \in T
    BY <1>10, <2>1, <2>2
  <2>5. Touched(u, e, p) /\ ClosedAt(e.core, e.seen, p)
    BY <2>4 DEF AskFacts
  <2> DEFINE d == u.core
             f == e.core
             A == u.seen
             E == e.seen
  <2>6. /\ TouchedTo(d, A, f, E, p) /\ Struct(d) /\ Struct(f) /\ Clean(d, A)
        /\ DOMAIN d.trail = 1..n
    BY <1>9, <2>2, <2>4, <2>5 DEF Touched
  <2>7. /\ \A l \in cl : LitOk(d, A, l)
        /\ \A j \in 1..n : j > p => ClosedAt(d, A, j)
    BY <2>2, <2>3
  <2>8. ClosedAt(f, E, p)
    BY <2>5
  <2> HIDE DEF d, f, A, E
  <2>9. ASSUME NEW l \in cl PROVE LitOk(f, E, l)
    <3>1. l \in Lit
      BY <1>1, <2>9 DEF Clause
    <3> QED
      BY <2>6, <2>7, <3>1, TouchedLits DEF LitOk
  <2>10. ASSUME NEW j \in 1..n, j > n - i PROVE ClosedAt(f, E, j)
    <3>1. j = p \/ j > p
      BY <2>3, <2>10
    <3>2. CASE j > p
      <4>1. ClosedAt(d, A, j) /\ j >= p
        BY <2>3, <2>7, <3>2
      <4> QED
        BY <2>3, <2>6, <4>1, ClosedStays
    <3> QED
      BY <2>8, <3>1, <3>2
  <2>11. Ok(i, e)
    BY <2>4, <2>9, <2>10 DEF f, E
  <2> QED
    BY <2>1, <2>11 DEF e
<1>18. n \in D
  <2> HIDE DEF D
  <2>1. \A i \in 0..n : i \in D
    BY <1>1, <1>16, <1>17, AllSteps
  <2> QED
    BY <1>1, <2>1
<1>19. Ok(n, a)
  BY <1>2, <1>18
<1>20. \A j \in 1..n : j > n - n
  BY <1>1
<1>21. Closed(a.core, a.seen)
  BY <1>9, <1>19, <1>20 DEF Closed
<1> QED
  BY <1>9, <1>19, <1>21 DEF AskedAll, z

-----------------------------------------------------------------------------
(* Levels are corrected.                                                   *)

\* The level of a literal is lowered to that of its reason.
LevelLowered(d, i, real) ==
  [d EXCEPT !.trail[i].level = Min({@, real}),
            !.trail[i].reason = IF real = 0 THEN None ELSE @]

\* One step of the loop that corrects levels, from the beginning of the trail.
LowerStep(d, i, S) ==
  IF Abs(d.trail[i].lit) \notin S \/ d.trail[i].reason = None THEN d
  ELSE LevelLowered(d, i, MaxLevel(d, d.trail[i].reason \ {d.trail[i].lit}))

\* Levels only sink, and reasons only go at the root.
Lowered(c, d) ==
  /\ View(c, d) /\ d.control = c.control /\ d.conflict = c.conflict
  /\ d.unsat = c.unsat /\ Len(d.trail) = Len(c.trail)
  /\ \A j \in 1..Len(c.trail) :
       /\ d.trail[j].lit = c.trail[j].lit /\ d.trail[j].level <= c.trail[j].level
       /\ \/ d.trail[j].reason = c.trail[j].reason
          \/ d.trail[j].reason = None /\ d.trail[j].level = 0

\* What a step of it promises.
LowerFacts(d, u, W, o) ==
  Loose(u, W, o) /\ Ordered(u.trail) /\ Lowered(d, u)

\* The trail entry that LevelLowered writes.
LEMMA LowerIs ==
  ASSUME NEW d \in Core, NEW i \in DOMAIN d.trail, NEW real \in Nat,
         real <= d.trail[i].level
  PROVE  LevelLowered(d, i, real) =
           TrailPut(d, i, real, IF real = 0 THEN None ELSE d.trail[i].reason)
<1>1. Min({d.trail[i].level, real}) = real
  <2>1. d.trail[i].level \in Nat
    BY CoreFields, TrailTypes
  <2> QED
    BY <2>1, MinTwo
<1>2. [d EXCEPT !.trail[i].level = Min({@, real}),
            !.trail[i].reason = IF real = 0 THEN None ELSE @]
      = [d EXCEPT !.trail[i].level = real,
            !.trail[i].reason = IF real = 0 THEN None ELSE d.trail[i].reason]
  BY <1>1, CoreFields, TrailTypes
<1> QED
  BY <1>2 DEF LevelLowered, TrailPut

\* To correct nothing changes nothing.
LEMMA LoweredSelf ==
  ASSUME NEW c, Struct(c)
  PROVE  Lowered(c, c)
<1>1. \A j \in 1..Len(c.trail) : c.trail[j].level \in Nat
  BY StructFields, TrailTypes
<1>2. View(c, c)
  BY SameFacts, FrameFacts, ViewFacts
<1> QED
  BY <1>1, <1>2 DEF Lowered

\* Several corrections are like one.
LEMMA LoweredTrans ==
  ASSUME NEW c, Struct(c), NEW d, Struct(d), NEW e, Struct(e),
         Lowered(c, d), Lowered(d, e)
  PROVE  Lowered(c, e)
<1>1. \A j \in 1..Len(c.trail) : c.trail[j].level \in Nat /\ d.trail[j].level \in Nat
                                 /\ e.trail[j].level \in Nat
  BY StructFields, TrailTypes DEF Lowered
<1>2. View(c, e)
  BY ViewFacts DEF Lowered
<1>3. ASSUME NEW j \in 1..Len(c.trail)
      PROVE  /\ e.trail[j].lit = c.trail[j].lit /\ e.trail[j].level <= c.trail[j].level
             /\ \/ e.trail[j].reason = c.trail[j].reason
                \/ e.trail[j].reason = None /\ e.trail[j].level = 0
  <2>1. j \in 1..Len(d.trail)
    BY DEF Lowered
  <2>2. /\ d.trail[j].lit = c.trail[j].lit /\ d.trail[j].level <= c.trail[j].level
        /\ \/ d.trail[j].reason = c.trail[j].reason
           \/ d.trail[j].reason = None /\ d.trail[j].level = 0
    BY DEF Lowered
  <2>3. /\ e.trail[j].lit = d.trail[j].lit /\ e.trail[j].level <= d.trail[j].level
        /\ \/ e.trail[j].reason = d.trail[j].reason
           \/ e.trail[j].reason = None /\ e.trail[j].level = 0
    BY <2>1 DEF Lowered
  <2> QED
    BY <1>1, <2>2, <2>3
<1> QED
  BY <1>2, <1>3 DEF Lowered

\* What is known of a literal stays.
LEMMA LoweredLits ==
  ASSUME NEW c, Struct(c), NEW d, Struct(d), Lowered(c, d), NEW l \in Lit,
         NEW S, LitOk(c, S, l)
  PROVE  LitOk(d, S, l)
<1>1. PICK i \in DOMAIN c.trail : c.trail[i].lit = -l /\ SpotIs(c, l, i)
  BY Values DEF LitOk, Valued
<1>2. DOMAIN c.trail = 1..Len(c.trail) /\ DOMAIN d.trail = 1..Len(d.trail)
      /\ c.trail \in Seq(Entry) /\ d.trail \in Seq(Entry)
  BY StructFields
<1>3. i \in DOMAIN d.trail /\ d.trail[i].lit = -l
  BY <1>1, <1>2 DEF Lowered
<1>4. SpotIs(d, l, i)
  <2>1. -l \in {l, -l}
    OBVIOUS
  <2> QED
    BY <1>3, <2>1, Spot
<1>5. /\ d.trail[i].level <= c.trail[i].level
      /\ \/ d.trail[i].reason = c.trail[i].reason
         \/ d.trail[i].reason = None /\ d.trail[i].level = 0
  BY <1>1, <1>2 DEF Lowered
<1>6. c.trail[i].level \in Nat /\ d.trail[i].level \in Nat
  BY <1>1, <1>2, <1>3, TrailTypes
<1>7. IsFalse(d, l)
  BY <1>3 DEF IsFalse, Lits
<1>8. LevelOf(c, l) = c.trail[i].level /\ ReasonOf(c, l) = c.trail[i].reason
      /\ LevelOf(d, l) = d.trail[i].level /\ ReasonOf(d, l) = d.trail[i].reason
  BY <1>1, <1>4 DEF SpotIs
<1> QED
  BY <1>5, <1>6, <1>7, <1>8 DEF LitOk

\* One literal.
LEMMA LowerStepFine ==
  ASSUME NEW d, NEW W, NEW o, Loose(d, W, o), Ordered(d.trail),
         NEW i \in DOMAIN d.trail, NEW S,
         Abs(d.trail[i].lit) \in S => d.trail[i].reason # External,
         NEW u, u = LowerStep(d, i, S)
  PROVE  LowerFacts(d, u, W, o)
<1>1. Struct(d) /\ Sound(d, W)
  BY DEF Loose
<1>2. d \in Core /\ d.trail \in Seq(Entry) /\ DOMAIN d.trail = 1..Len(d.trail)
  BY <1>1, StructFields
<1>3. CASE u = d
  BY <1>1, <1>3, LoweredSelf DEF LowerFacts
<1>4. CASE ~(u = d)
  <2> DEFINE k == d.trail[i].lit
             r == d.trail[i].reason
             v == d.trail[i].level
             rest == r \ {k}
             real == MaxLevel(d, rest)
             R == IF real = 0 THEN None ELSE r
  <2>1. r \notin {None, External} /\ u = LevelLowered(d, i, real)
    BY <1>4 DEF LowerStep
  <2>2. k \in Lit /\ r \in Clause /\ v \in Nat
    BY <1>2, <2>1, TrailTypes
  <2>3. k \in r /\ \A l \in rest : \E j \in 1..i - 1 :
                     d.trail[j].lit = -l /\ d.trail[j].level <= v
    BY <2>1 DEF Ordered, Justified, FalseBefore
  <2>4. ASSUME NEW l \in rest
        PROVE  /\ l \in Lit /\ IsFalse(d, l) /\ IsAssigned(d, l) /\ LevelOf(d, l) <= v
               /\ \E j \in 1..i - 1 : d.trail[j].lit = -l /\ LevelOf(d, l) = d.trail[j].level
    <3>1. l \in Lit
      BY <2>2 DEF Clause
    <3>2. PICK j \in 1..i - 1 : d.trail[j].lit = -l /\ d.trail[j].level <= v
      BY <2>3
    <3>3. j \in DOMAIN d.trail
      BY <1>2
    <3>4. SpotIs(d, l, j) /\ IsAssigned(d, l)
      <4>1. -l \in {l, -l}
        OBVIOUS
      <4> QED
        BY <1>1, <3>1, <3>2, <3>3, <4>1, Spot
    <3>5. IsFalse(d, l)
      BY <3>2, <3>3 DEF IsFalse, Lits
    <3> QED
      BY <3>1, <3>2, <3>4, <3>5 DEF SpotIs
  <2>5. MaxLevelIs(d, rest, real)
    <3>1. rest \in SUBSET Lit /\ \A l \in rest : IsAssigned(d, l)
      BY <2>4
    <3> HIDE DEF rest
    <3> QED
      BY <1>1, <3>1, MaxLevels
  <2>6. /\ real \in Nat
        /\ \A l \in rest : LevelOf(d, l) <= real /\ LevelOf(d, l) \in Nat
        /\ real = 0 \/ \E l \in rest : LevelOf(d, l) = real
    <3>1. Level(d) \in Nat
      BY <1>1, StructFields
    <3> HIDE DEF rest, real
    <3> QED
      BY <2>5, <3>1 DEF MaxLevelIs
  <2> HIDE DEF real
  <2>7. real <= v
    BY <2>2, <2>4, <2>6
  <2>8. u = TrailPut(d, i, real, R)
    BY <1>2, <2>1, <2>6, <2>7, LowerIs
  <2>9. R \in Clause \cup {External}
    BY <2>2 DEF None, Clause
  <2>10. u \in Core /\ EntryPut(d, u, i, real, R)
    <3> HIDE DEF R
    <3> QED
      BY <1>2, <2>6, <2>8, <2>9, TrailPutFields
  <2>11. PutOk(d, W, i, real, R)
    <3>1. real = 0 => \A m \in W : Tru(m, k)
      <4> SUFFICES ASSUME real = 0, NEW m \in W PROVE Tru(m, k)
        OBVIOUS
      <4>1. Holds(m, r)
        BY <1>1, <2>1 DEF Sound
      <4>2. PICK l \in r : Tru(m, l)
        BY <4>1, HoldsTru
      <4>3. CASE l # k
        <5>1. l \in rest
          BY <4>3
        <5>2. LevelOf(d, l) = 0 /\ l \in Lit /\ IsFalse(d, l)
          BY <2>4, <2>6, <5>1
        <5>3. ~Tru(m, l)
          BY <1>1, <5>2, FixedFalse
        <5> QED
          BY <4>2, <5>3
      <4> QED
        BY <4>2, <4>3
    <3>2. Backs(d.trail, i, real, r)
      <4>1. \A l \in rest : \E j \in 1..i - 1 : d.trail[j].lit = -l /\ d.trail[j].level <= real
        BY <2>4, <2>6
      <4> QED
        BY <4>1 DEF Backs
    <3>3. \A m \in W : Holds(m, r)
      BY <1>1, <2>1 DEF Sound
    <3> QED
      BY <2>1, <2>2, <2>3, <2>6, <2>7, <3>1, <3>2, <3>3 DEF PutOk
  <2>12. PutResult(d, u, W, o)
    <3> HIDE DEF R
    <3> QED
      BY <2>10, <2>11, EntryPutFine
  <2>13. Lowered(d, u)
    <3>1. View(d, u)
      BY <2>10, FrameFacts, ViewFacts DEF EntryPut
    <3>2. ASSUME NEW j \in 1..Len(d.trail)
          PROVE  /\ u.trail[j].lit = d.trail[j].lit /\ u.trail[j].level <= d.trail[j].level
                 /\ \/ u.trail[j].reason = d.trail[j].reason
                    \/ u.trail[j].reason = None /\ u.trail[j].level = 0
      <4>1. CASE j = i
        BY <2>7, <2>10, <4>1 DEF EntryPut
      <4>2. CASE j # i
        <5>1. u.trail[j] = d.trail[j]
          BY <1>2, <2>10, <4>2 DEF EntryPut
        <5>2. d.trail[j].level \in Nat
          BY <1>2, TrailTypes
        <5> QED
          BY <5>1, <5>2
      <4> QED
        BY <4>1, <4>2
    <3>3. /\ u.control = d.control /\ u.conflict = d.conflict /\ u.unsat = d.unsat
          /\ Len(u.trail) = Len(d.trail)
      BY <2>10 DEF EntryPut, Same
    <3> QED
      BY <3>1, <3>2, <3>3 DEF Lowered
  <2> QED
    BY <2>12, <2>13 DEF PutResult, LowerFacts
<1> QED
  BY <1>3, <1>4

\* The loop over the trail.
LowerRun(f, c, S, n) ==
  f = [i \in 0..n |-> IF i = 0 THEN c ELSE LowerStep(f[i - 1], i, S)]

\* What the loop promises.
LoweredAll(c, d, W, o) ==
  Loose(d, W, o) /\ Ordered(d.trail) /\ Lowered(c, d)

\* The levels are corrected without losing the order of the reasons.
LEMMA CorrectedFine ==
  ASSUME NEW a, NEW W, NEW o, AskingOf(a, W, o), NEW d, d = LevelsCorrected(a)
  PROVE  LoweredAll(a.core, d, W, o)
<1> DEFINE c == a.core
           S == a.seen
           n == Len(c.trail)
           g == CHOOSE f : LowerRun(f, c, S, n)
           T == {u \in Core : LoweredAll(c, u, W, o)}
           G == [p \in (1..n) \X T |-> LowerStep(p[2], p[1], S)]
<1>1. /\ Struct(c) /\ Loose(c, W, o) /\ Ordered(c.trail) /\ Clean(c, S)
      /\ n \in Nat /\ DOMAIN c.trail = 1..n
  BY StructFields DEF AskingOf, Loose
<1>2. d = g[n]
  BY Zenon DEF LevelsCorrected, LowerRun, LowerStep, LevelLowered
<1>3. c \in T
  BY <1>1, StructFields, LoweredSelf DEF LoweredAll
<1>4. ASSUME NEW u \in T, NEW i \in 1..n PROVE LowerStep(u, i, S) \in T
  <2> DEFINE e == LowerStep(u, i, S)
  <2>1. Loose(u, W, o) /\ Ordered(u.trail) /\ Lowered(c, u) /\ Struct(u)
    BY DEF LoweredAll, Loose
  <2>2. i \in DOMAIN u.trail
    BY <2>1, StructFields DEF Lowered
  <2>3. Abs(u.trail[i].lit) \in S => u.trail[i].reason # External
    <3>1. /\ u.trail[i].lit = c.trail[i].lit
          /\ \/ u.trail[i].reason = c.trail[i].reason
             \/ u.trail[i].reason = None
      BY <2>1 DEF Lowered
    <3>2. Abs(c.trail[i].lit) \in S => c.trail[i].reason # External
      BY <1>1 DEF Clean
    <3>3. External # None
      BY VarFacts
    <3> QED
      BY <3>1, <3>2, <3>3
  <2> HIDE DEF e
  <2>4. LowerFacts(u, e, W, o)
    <3>1. e = LowerStep(u, i, S)
      BY DEF e
    <3> HIDE DEF S
    <3> QED
      BY <2>1, <2>2, <2>3, <3>1, LowerStepFine
  <2>5. Loose(e, W, o) /\ Ordered(e.trail) /\ Lowered(u, e) /\ Struct(e)
    BY <2>4 DEF LowerFacts, Loose
  <2>6. Lowered(c, e)
    BY <1>1, <2>1, <2>5, LoweredTrans
  <2>7. e \in Core
    BY <2>5, StructFields
  <2>8. e \in T
    BY <2>5, <2>6, <2>7 DEF LoweredAll
  <2> QED
    BY <2>8 DEF e
<1> HIDE DEF T
<1>5. G \in [(1..n) \X T -> T]
      /\ \A i \in 1..n : \A u \in T : G[i, u] = LowerStep(u, i, S)
  BY <1>4
<1> HIDE DEF G
<1>6. LowerRun(g, c, S, n)
  <2>1. PICK f \in [0..n -> T] : RunOf(f, c, n, G)
    <3> HIDE DEF c
    <3> QED
      BY <1>1, <1>3, <1>5, RunExists
  <2> DEFINE h == [i \in 0..n |-> IF i = 0 THEN c ELSE LowerStep(f[i - 1], i, S)]
  <2>2. ASSUME NEW i \in 0..n PROVE f[i] = h[i]
    <3>1. f[i] = IF i = 0 THEN c ELSE G[i, f[i - 1]]
      BY <2>1 DEF RunOf
    <3>2. CASE i = 0
      BY <3>1, <3>2
    <3>3. CASE i # 0
      <4>1. i \in 1..n /\ i - 1 \in 0..n
        BY <1>1, <3>3
      <4>2. f[i - 1] \in T
        BY <4>1
      <4>3. h[i] = LowerStep(f[i - 1], i, S)
        BY <3>3
      <4> HIDE DEF h
      <4> QED
        BY <1>5, <3>1, <3>3, <4>1, <4>2, <4>3
    <3> QED
      BY <3>2, <3>3
  <2>3. f = h
    <3>1. f = [i \in 0..n |-> f[i]] /\ h = [i \in 0..n |-> h[i]]
      OBVIOUS
    <3> HIDE DEF h
    <3> QED
      BY <2>2, <3>1
  <2>4. LowerRun(f, c, S, n)
    BY <2>3 DEF LowerRun
  <2>5. \E e : LowerRun(e, c, S, n)
    BY <2>4
  <2> QED
    BY <2>5
<1> HIDE DEF g
<1>7. \A i \in 0..n : g[i] = IF i = 0 THEN c ELSE LowerStep(g[i - 1], i, S)
  BY <1>6 DEF LowerRun
<1> DEFINE D == {i \in 0..n : g[i] \in T}
<1>8. 0 \in D
  BY <1>1, <1>3, <1>7
<1>9. ASSUME NEW i \in 1..n, i - 1 \in D PROVE i \in D
  <2>1. g[i] = LowerStep(g[i - 1], i, S) /\ i \in 0..n /\ g[i - 1] \in T
    BY <1>1, <1>7, <1>9
  <2> QED
    BY <1>4, <2>1
<1>10. n \in D
  <2> HIDE DEF D
  <2>1. \A i \in 0..n : i \in D
    BY <1>1, <1>8, <1>9, AllSteps
  <2> QED
    BY <1>1, <2>1
<1> QED
  BY <1>2, <1>10 DEF T

\* After the reasons and the levels are known.
SettledAll(c, S) ==
  \A i \in DOMAIN c.trail :
    Abs(c.trail[i].lit) \in S => c.trail[i].reason # External

\* What the analysis starts from: the conflict is still falsified, every
\* reason it can come to is known, and none is external.
ExplainedFacts(c, d, W, o) ==
  /\ Loose(d, W, o) /\ Ordered(d.trail) /\ View(c, d) /\ d.control = c.control
  /\ Roots(c.trail) \subseteq Roots(d.trail) /\ d.conflict = c.conflict
  /\ d.unsat = c.unsat /\ Falsified(d)
  /\ \E S : Closed(d, S) /\ SettledAll(d, S)

\* 'explain_external_propagations' gives it that.
LEMMA ExplainedFine ==
  ASSUME NEW c, NEW W, NEW o, Loose(c, W, o), Ordered(c.trail), ~c.unsat,
         Falsified(c), NEW d, d = Explained(c)
  PROVE  ExplainedFacts(c, d, W, o)
<1> DEFINE a == ReasonsAsked(c)
           z == [core |-> c, seen |-> {}]
<1>1. z.core = c
  OBVIOUS
<1> HIDE DEF z
<1>2. AskedAll(c, a, W, o) /\ d = LevelsCorrected(a)
  BY AskedFine DEF Explained
<1> HIDE DEF a
<1>3. AskingOf(a, W, o) /\ Touched(z, a, Len(c.trail) + 1) /\ Closed(a.core, a.seen)
  BY <1>2 DEF AskedAll, z
<1> DEFINE b == a.core
           S == a.seen
<1>4. LoweredAll(b, d, W, o)
  BY <1>2, <1>3, CorrectedFine
<1>5. Struct(b) /\ Struct(c) /\ Struct(d) /\ Clean(b, S)
  BY <1>3, <1>4 DEF AskingOf, Loose, LoweredAll
<1>6. Lowered(b, d) /\ Loose(d, W, o) /\ Ordered(d.trail)
  BY <1>4 DEF LoweredAll
<1>7. /\ View(c, b) /\ b.control = c.control /\ b.conflict = c.conflict
      /\ b.unsat = c.unsat /\ Len(b.trail) = Len(c.trail)
      /\ \A i \in DOMAIN c.trail :
           b.trail[i].lit = c.trail[i].lit /\ b.trail[i].level <= c.trail[i].level
  BY <1>1, <1>3 DEF Touched, TouchedTo
<1>8. /\ DOMAIN c.trail = 1..Len(c.trail) /\ DOMAIN b.trail = 1..Len(c.trail)
      /\ DOMAIN d.trail = 1..Len(c.trail)
      /\ \A i \in 1..Len(c.trail) : c.trail[i].level \in Nat /\ d.trail[i].level \in Nat
                                    /\ b.trail[i].level \in Nat
                                    /\ b.trail[i].reason \in Clause \cup {External}
  BY <1>5, <1>6, <1>7, StructFields, TrailTypes DEF Lowered
<1>9. \A i \in 1..Len(c.trail) :
        /\ d.trail[i].lit = b.trail[i].lit /\ d.trail[i].level <= b.trail[i].level
        /\ \/ d.trail[i].reason = b.trail[i].reason
           \/ d.trail[i].reason = None /\ d.trail[i].level = 0
  BY <1>6, <1>7 DEF Lowered
<1>10. Roots(c.trail) \subseteq Roots(d.trail) /\ \A i \in 1..Len(c.trail) :
         d.trail[i].lit = c.trail[i].lit
  <2>1. \A i \in 1..Len(c.trail) : d.trail[i].lit = c.trail[i].lit
                                   /\ (c.trail[i].level = 0 => d.trail[i].level = 0)
    <3> SUFFICES ASSUME NEW i \in 1..Len(c.trail)
                 PROVE  d.trail[i].lit = c.trail[i].lit
                        /\ (c.trail[i].level = 0 => d.trail[i].level = 0)
      OBVIOUS
    <3> QED
      BY <1>7, <1>8, <1>9
  <2> QED
    BY <1>8, <2>1 DEF Roots
<1>11. View(c, d) /\ d.control = c.control /\ d.conflict = c.conflict /\ d.unsat = c.unsat
  BY <1>6, <1>7, ViewFacts DEF Lowered
<1>12. Falsified(d)
  BY <1>8, <1>10, <1>11 DEF Falsified
<1>13. SettledAll(d, S)
  <2> SUFFICES ASSUME NEW i \in 1..Len(c.trail), Abs(d.trail[i].lit) \in S
               PROVE  d.trail[i].reason # External
    BY <1>8 DEF SettledAll
  <2>1. b.trail[i].reason # External
    BY <1>5, <1>8, <1>9 DEF Clean
  <2> QED
    BY <1>9, <2>1, VarFacts
<1>14. Closed(d, S)
  <2>1. ASSUME NEW l \in d.conflict PROVE LitOk(d, S, l)
    <3>1. LitOk(b, S, l) /\ l \in Lit
      BY <1>3, <1>5, <1>7, <1>11, <2>1, StructFields, CoreFields DEF Closed, Clause
    <3> QED
      BY <1>5, <1>6, <3>1, LoweredLits
  <2>2. ASSUME NEW j \in DOMAIN d.trail, d.trail[j].reason # None,
               Abs(d.trail[j].lit) \in S,
               NEW l \in d.trail[j].reason \ {d.trail[j].lit}
        PROVE  LitOk(d, S, l)
    <3>1. d.trail[j].reason = b.trail[j].reason /\ d.trail[j].lit = b.trail[j].lit
          /\ j \in DOMAIN b.trail
      BY <1>8, <1>9, <2>2
    <3>2. ClosedAt(b, S, j)
      BY <1>3, <2>2, <3>1 DEF Closed
    <3>3. LitOk(b, S, l)
      BY <2>2, <3>1, <3>2 DEF ClosedAt
    <3>4. l \in Lit
      BY <1>8, <1>13, <2>2, <3>1 DEF SettledAll, Clause
    <3> QED
      BY <1>5, <1>6, <3>3, <3>4, LoweredLits
  <2> QED
    BY <2>1, <2>2 DEF Closed, ClosedAt
<1> HIDE DEF S
<1>15. \E x : Closed(d, x) /\ SettledAll(d, x)
  BY <1>13, <1>14
<1> QED
  BY <1>6, <1>10, <1>11, <1>12, <1>15 DEF ExplainedFacts

-----------------------------------------------------------------------------
(* The conflict is ready for the analysis.                                 *)

\* The analysis finds its way from the conflict.
Ready(c, S, W, o) ==
  /\ Loose(c, W, o) /\ Ordered(c.trail) /\ ~c.unsat /\ c.conflict # None
  /\ Falsified(c) /\ Closed(c, S) /\ SettledAll(c, S)

\* What is known of the literals of a conflict.
ReadyFacts(c) ==
  /\ Struct(c) /\ c.conflict \in Clause /\ \A l \in c.conflict : l \in Lit
       /\ IsFalse(c, l) /\ IsAssigned(c, l)
  /\ MaxLevelIs(c, c.conflict, MaxLevel(c, c.conflict))

\* A falsified conflict consists of literals that have a level.
LEMMA ReadyConflict ==
  ASSUME NEW c, Struct(c), Falsified(c)
  PROVE  ReadyFacts(c)
<1>1. c.conflict \in Clause
  BY StructFields, CoreFields
<1>2. \A l \in c.conflict : l \in Lit /\ IsFalse(c, l) /\ IsAssigned(c, l)
  BY <1>1, Falsifieds DEF Clause, IsAssigned
<1>3. c.conflict \in SUBSET Lit
  BY <1>1 DEF Clause
<1>4. MaxLevelIs(c, c.conflict, MaxLevel(c, c.conflict))
  BY <1>2, <1>3, MaxLevels
<1> QED
  BY <1>1, <1>2, <1>4 DEF ReadyFacts

\* A literal the analysis knows, on a level that stays.
LEMMA BackLitOk ==
  ASSUME NEW c, Struct(c), NEW L \in Nat, NEW d, BackFacts(c, d, L),
         NEW l \in Lit, NEW S, LitOk(c, S, l), LevelOf(c, l) <= L
  PROVE  LitOk(d, S, l) /\ LevelOf(d, l) = LevelOf(c, l)
<1>1. BackValued(c, d, L, l)
  BY BackValues
<1> QED
  BY <1>1 DEF BackValued, LitOk, IsAssigned

\* The reasons point to earlier literals.
ReasonLit(c, j, l) ==
  /\ l \in Lit /\ IsFalse(c, l) /\ PosOf(c, l) < j /\ PosOf(c, l) \in DOMAIN c.trail
  /\ LevelOf(c, l) <= c.trail[j].level

\* The literals of a reason are false, before it, and on levels up to its own.
LEMMA ReasonLits ==
  ASSUME NEW c, Struct(c), Ordered(c.trail), NEW j \in DOMAIN c.trail,
         c.trail[j].reason \notin {None, External},
         NEW l \in c.trail[j].reason \ {c.trail[j].lit}
  PROVE  ReasonLit(c, j, l) /\ c.trail[j].reason \in Clause
         /\ c.trail[j].lit \in c.trail[j].reason
<1>1. c.trail \in Seq(Entry) /\ DOMAIN c.trail = 1..Len(c.trail)
  BY StructFields
<1>2. c.trail[j].reason \in Clause
  BY <1>1, TrailTypes
<1>3. l \in Lit
  BY <1>2 DEF Clause
<1>4. /\ c.trail[j].lit \in c.trail[j].reason
      /\ \E i \in 1..j - 1 : c.trail[i].lit = -l /\ c.trail[i].level <= c.trail[j].level
  BY DEF Ordered, Justified, FalseBefore
<1>5. PICK i \in 1..j - 1 : c.trail[i].lit = -l /\ c.trail[i].level <= c.trail[j].level
  BY <1>4
<1>6. i \in DOMAIN c.trail /\ i < j
  BY <1>1
<1>7. SpotIs(c, l, i)
  <2>1. -l \in {l, -l}
    OBVIOUS
  <2> QED
    BY <1>3, <1>5, <1>6, <2>1, Spot
<1>8. IsFalse(c, l)
  BY <1>5, <1>6 DEF IsFalse, Lits
<1> QED
  BY <1>2, <1>3, <1>4, <1>5, <1>6, <1>7, <1>8 DEF SpotIs, ReasonLit

\* Back to the level of the conflict.
LEMMA BackReady ==
  ASSUME NEW c, NEW S, NEW W, NEW o, Ready(c, S, W, o),
         NEW top \in Nat, top = MaxLevel(c, c.conflict),
         NEW b, b = Backtracked(c, top)
  PROVE  /\ Ready(b, S, W, o) /\ BackFacts(c, b, top) /\ Level(b) = top
         /\ \A l \in c.conflict : LevelOf(b, l) = LevelOf(c, l)
<1>1. ReadyFacts(c) /\ Struct(c) /\ Loose(c, W, o)
  BY ReadyConflict DEF Ready, Loose
<1>2. BackFacts(c, b, top) /\ Loose(b, W, o) /\ (Ordered(c.trail) => Ordered(b.trail))
  BY <1>1, BackFine
<1>3. /\ Struct(b) /\ b.conflict = c.conflict /\ Same(c, b)
      /\ Level(b) = IF top >= Level(c) THEN Level(c) ELSE top
      /\ \E g, cut : Selects(b.trail, c.trail, g, top, cut)
  BY <1>2 DEF BackFacts
<1>4. Ordered(b.trail) /\ ~b.unsat /\ b.conflict # None
  BY <1>2, <1>3 DEF Ready, Same
<1>5. top \in 0..Level(c) /\ \A l \in c.conflict : LevelOf(c, l) <= top
  BY <1>1 DEF ReadyFacts, MaxLevelIs
<1>6. Level(b) = top
  BY <1>1, <1>3, <1>5, StructFields
<1>7. ASSUME NEW l \in c.conflict
      PROVE  LitOk(b, S, l) /\ LevelOf(b, l) = LevelOf(c, l) /\ IsFalse(b, l)
  <2>1. l \in Lit /\ LitOk(c, S, l) /\ LevelOf(c, l) <= top
    BY <1>1, <1>5 DEF ReadyFacts, Ready, Closed
  <2>2. LitOk(b, S, l) /\ LevelOf(b, l) = LevelOf(c, l)
    BY <1>1, <1>2, <2>1, BackLitOk
  <2> QED
    BY <2>2 DEF LitOk
<1>8. Falsified(b)
  BY <1>3, <1>7, Falsifieds, StructFields, CoreFields
<1>9. PICK g, cut : Selects(b.trail, c.trail, g, top, cut)
  BY <1>3
<1>10. /\ \A i \in DOMAIN b.trail : g[i] \in DOMAIN c.trail /\ b.trail[i] = c.trail[g[i]]
                                    /\ c.trail[g[i]].level <= top
       /\ c.trail \in Seq(Entry) /\ DOMAIN c.trail = 1..Len(c.trail)
  <2>1. DOMAIN b.trail = 1..Len(b.trail) /\ DOMAIN c.trail = 1..Len(c.trail)
        /\ c.trail \in Seq(Entry)
    BY <1>1, <1>3, StructFields
  <2> QED
    BY <1>9, <2>1 DEF Selects
<1>11. SettledAll(b, S)
  BY <1>10 DEF Ready, SettledAll
<1>12. ASSUME NEW j \in DOMAIN b.trail, b.trail[j].reason # None,
              Abs(b.trail[j].lit) \in S, NEW l \in b.trail[j].reason \ {b.trail[j].lit}
       PROVE  LitOk(b, S, l)
  <2> DEFINE i == g[j]
  <2>1. i \in DOMAIN c.trail /\ b.trail[j] = c.trail[i] /\ c.trail[i].level <= top
    BY <1>10
  <2> HIDE DEF i
  <2>2. c.trail[i].reason \notin {None, External}
    BY <1>12, <2>1 DEF Ready, SettledAll
  <2>3. ReasonLit(c, i, l)
    BY <1>1, <1>12, <2>1, <2>2, ReasonLits DEF Ready
  <2>4. LitOk(c, S, l)
    BY <1>12, <2>1, <2>2 DEF Ready, Closed, ClosedAt
  <2>5. l \in Lit /\ LevelOf(c, l) <= c.trail[i].level
    BY <2>3 DEF ReasonLit
  <2>6. LevelOf(c, l) \in Nat /\ c.trail[i].level \in Nat
    <3>1. Valued(c, l)
      BY <1>1, <2>5, Values
    <3>2. LevelOf(c, l) \in 0..Level(c)
      BY <2>4, <3>1 DEF Valued, LitOk, IsAssigned
    <3>3. c.trail[i].level \in Nat
      BY <1>10, <2>1, TrailTypes
    <3> QED
      BY <3>2, <3>3
  <2>7. LevelOf(c, l) <= top
    BY <2>1, <2>5, <2>6
  <2> QED
    BY <1>1, <1>2, <2>4, <2>5, <2>7, BackLitOk
<1>13. Closed(b, S)
  BY <1>3, <1>7, <1>12 DEF Closed, ClosedAt
<1> QED
  BY <1>2, <1>4, <1>6, <1>7, <1>8, <1>11, <1>13 DEF Ready
=============================================================================
