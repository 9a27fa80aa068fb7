-------------------------- MODULE ApiSearchProofs ---------------------------
(***************************************************************************)
(* The operations of the search and of the callbacks keep what the         *)
(* invariant says of the solver: analysis, learned clauses, decisions,     *)
(* local search, observing variables, asking the propagator for clauses;   *)
(* and each step of the search leads to a state that is right for the      *)
(* label it goes to.                                                       *)
(***************************************************************************)
EXTENDS ApiTrailProofs

-----------------------------------------------------------------------------
(* The clause learned.                                                     *)

\* The literals of a clause on the level of the conflict, and above the root.
OnLevel(c, cl) == {l \in cl : LevelOf(c, l) = Level(c)}

\* The literals that are not fixed.
Above(c, cl) == {l \in cl : LevelOf(c, l) > 0}

\* The one of this level that comes last on the trail.
LastOf(c, cl) ==
  CHOOSE l \in OnLevel(c, cl) :
    \A k \in OnLevel(c, cl) : PosOf(c, k) <= PosOf(c, l)

\* One resolution step.
LearnStep(c, cl) ==
  IF Cardinality(OnLevel(c, cl)) <= 1 THEN cl
  ELSE (cl \cup Above(c, ReasonOf(c, LastOf(c, cl)))) \ {LastOf(c, cl), -LastOf(c, cl)}

\* As many of them as there are literals.
LearnRun(f, c, n) ==
  f = [i \in 0..n |-> IF i = 0 THEN Above(c, c.conflict) ELSE LearnStep(c, f[i - 1])]

\* The clauses the analysis goes through.
Learnable(c, S, W, cl) ==
  /\ cl \in Clause
  /\ \A l \in cl : LitOk(c, S, l) /\ LevelOf(c, l) \in 1..Level(c)
  /\ \A m \in W : Holds(m, cl)
  /\ OnLevel(c, cl) # {}

\* The literals of this level are not behind p, or there is one only.
Deep(c, cl, p) ==
  Cardinality(OnLevel(c, cl)) <= 1 \/ \A l \in OnLevel(c, cl) : PosOf(c, l) <= p

\* The literal l is false at i.
Place(c, l, i) ==
  /\ i \in DOMAIN c.trail /\ i = PosOf(c, l) /\ c.trail[i].lit = -l /\ i \in Nat
  /\ LevelOf(c, l) = c.trail[i].level /\ ReasonOf(c, l) = c.trail[i].reason

\* A false literal has its place.
LEMMA Placed ==
  ASSUME NEW c, Struct(c), NEW l \in Lit, IsFalse(c, l)
  PROVE  Place(c, l, PosOf(c, l)) /\ LevelOf(c, l) \in 0..Level(c)
<1>1. Valued(c, l)
  BY Values
<1>2. PICK i \in DOMAIN c.trail : c.trail[i].lit = -l /\ SpotIs(c, l, i)
  BY <1>1 DEF Valued
<1>3. i \in Nat
  BY StructFields
<1> QED
  BY <1>1, <1>2, <1>3 DEF SpotIs, Place, Valued, IsAssigned

\* Two false literals at the same place are the same.
LEMMA SamePlace ==
  ASSUME NEW c, Struct(c), NEW k \in Lit, NEW l \in Lit, IsFalse(c, k), IsFalse(c, l),
         PosOf(c, k) = PosOf(c, l)
  PROVE  k = l
<1>1. -k = -l
  BY Placed DEF Place
<1> QED
  BY <1>1, LitFacts

\* The last literal of the level.
LastFacts(c, cl, l) ==
  /\ l \in OnLevel(c, cl)
  /\ \A k \in OnLevel(c, cl) : k = l \/ PosOf(c, k) < PosOf(c, l)

\* There is a last one.
LEMMA LastIs ==
  ASSUME NEW c, NEW S, NEW W, Struct(c), NEW cl, Learnable(c, S, W, cl)
  PROVE  LastFacts(c, cl, LastOf(c, cl))
<1> DEFINE O == OnLevel(c, cl)
           P == {PosOf(c, l) : l \in O}
<1>1. \A l \in O : l \in Lit /\ IsFalse(c, l) /\ PosOf(c, l) \in 0..Len(c.trail)
  <2>1. \A l \in O : l \in Lit /\ IsFalse(c, l)
    BY DEF Learnable, OnLevel, LitOk, Clause
  <2>2. DOMAIN c.trail = 1..Len(c.trail) /\ Len(c.trail) \in Nat
    BY StructFields
  <2> HIDE DEF O
  <2>3. \A l \in O : PosOf(c, l) \in DOMAIN c.trail
    BY <2>1, Placed DEF Place
  <2> QED
    BY <2>1, <2>2, <2>3
<1>2. O # {}
  BY DEF Learnable
<1>3. LastOf(c, cl) = CHOOSE l \in O : \A k \in O : PosOf(c, k) <= PosOf(c, l)
  BY Zenon DEF LastOf
<1> HIDE DEF O
<1>4. P \in SUBSET (0..Len(c.trail)) /\ P # {} /\ Len(c.trail) \in Nat
  BY <1>1, <1>2, StructFields
<1>5. Max(P) \in P /\ \A x \in P : x <= Max(P)
  <2> HIDE DEF P
  <2> QED
    BY <1>4, MaxFacts
<1>6. PICK l \in O : Max(P) = PosOf(c, l)
  BY <1>5
<1>7. \E x \in O : \A k \in O : PosOf(c, k) <= PosOf(c, x)
  BY <1>5, <1>6
<1> DEFINE l0 == LastOf(c, cl)
<1>8. l0 \in O /\ \A k \in O : PosOf(c, k) <= PosOf(c, l0)
  BY <1>3, <1>7
<1> HIDE DEF l0
<1>9. ASSUME NEW k \in O PROVE k = l0 \/ PosOf(c, k) < PosOf(c, l0)
  <2>1. CASE PosOf(c, k) = PosOf(c, l0)
    BY <1>1, <1>8, <2>1, SamePlace
  <2>2. CASE PosOf(c, k) # PosOf(c, l0)
    <3>1. PosOf(c, k) <= PosOf(c, l0) /\ PosOf(c, k) \in 0..Len(c.trail)
          /\ PosOf(c, l0) \in 0..Len(c.trail)
      BY <1>1, <1>8
    <3> QED
      BY <2>2, <3>1
  <2> QED
    BY <2>1, <2>2
<1> QED
  BY <1>8, <1>9 DEF LastFacts, O, l0

\* It is not the decision, and its reason can be resolved.
LastReason(c, S, l, p) ==
  /\ p \in DOMAIN c.trail /\ p = PosOf(c, l) /\ c.trail[p].lit = -l
  /\ c.trail[p].level = Level(c) /\ Abs(l) \in S /\ l \in Lit /\ IsFalse(c, l)
  /\ ReasonOf(c, l) = c.trail[p].reason /\ c.trail[p].reason \notin {None, External}

\* It has a reason if it is not the only one: a level has one decision only,
\* which comes first.
LEMMA LastReasons ==
  ASSUME NEW c, NEW S, NEW W, NEW o, Ready(c, S, W, o), NEW cl,
         Learnable(c, S, W, cl), NEW l, LastFacts(c, cl, l), NEW k \in OnLevel(c, cl),
         k # l
  PROVE  LastReason(c, S, l, PosOf(c, l))
<1> DEFINE p == PosOf(c, l)
           q == PosOf(c, k)
           top == Level(c)
<1>1. Struct(c)
  BY DEF Ready, Loose
<1>2. /\ l \in Lit /\ k \in Lit /\ IsFalse(c, l) /\ IsFalse(c, k) /\ LevelOf(c, l) = top
      /\ LevelOf(c, k) = top /\ top >= 1 /\ top \in Nat
      /\ (Abs(l) \in S \/ LevelOf(c, l) = 0 \/ ReasonOf(c, l) = None)
  <2>1. l \in cl /\ k \in cl /\ LevelOf(c, l) = top /\ LevelOf(c, k) = top
    BY DEF LastFacts, OnLevel
  <2> QED
    BY <1>1, <2>1, StructFields DEF Learnable, LitOk, Clause
<1>3. Place(c, l, p) /\ Place(c, k, q)
  BY <1>1, <1>2, Placed
<1>4. q < p
  BY DEF LastFacts
<1>5. c.trail[p].level = top /\ c.trail[q].level = top /\ c.trail[p].lit = -l
      /\ ReasonOf(c, l) = c.trail[p].reason /\ p \in DOMAIN c.trail /\ q \in DOMAIN c.trail
      /\ p \in Nat /\ q \in Nat
  BY <1>2, <1>3 DEF Place
<1>6. c.trail[p].reason # None
  <2> SUFFICES ASSUME c.trail[p].reason = None PROVE FALSE
    OBVIOUS
  <2>1. Staged(c.trail, c.control) /\ DOMAIN c.control = 1..top
        /\ c.control[top] \in Nat
    BY <1>1, <1>2, StructFields
  <2>2. p = c.control[top] + 1
    BY <1>2, <1>5, <2>1 DEF Staged
  <2>3. q <= c.control[top]
    BY <1>4, <1>5, <2>1, <2>2
  <2>4. top \in DOMAIN c.control
    BY <1>2, <2>1
  <2>5. c.trail[q].level < top
    BY <1>5, <2>1, <2>3, <2>4 DEF Staged
  <2> HIDE DEF top
  <2> QED
    BY <1>2, <1>5, <2>5
<1>7. Abs(l) \in S
  BY <1>2, <1>5, <1>6
<1>8. Abs(c.trail[p].lit) = Abs(l)
  BY <1>2, <1>5, LitFacts
<1>9. c.trail[p].reason # External
  BY <1>5, <1>7, <1>8 DEF Ready, SettledAll
<1> QED
  BY <1>2, <1>3, <1>5, <1>6, <1>7, <1>9 DEF LastReason, Place

\* Resolution.
LEMMA Resolvent ==
  ASSUME NEW c, NEW S, NEW W, NEW o, Ready(c, S, W, o), NEW cl,
         Learnable(c, S, W, cl), NEW l, LastFacts(c, cl, l), NEW k \in OnLevel(c, cl),
         k # l, NEW r, r = (cl \cup Above(c, ReasonOf(c, l))) \ {l, -l}
  PROVE  /\ Learnable(c, S, W, r)
         /\ \A x \in OnLevel(c, r) : PosOf(c, x) < PosOf(c, l)
<1> DEFINE p == PosOf(c, l)
           R == c.trail[p].reason
<1>1. Struct(c) /\ Sound(c, W) /\ Ordered(c.trail)
  BY DEF Ready, Loose
<1>2. LastReason(c, S, l, p)
  BY LastReasons
<1>3. /\ p \in DOMAIN c.trail /\ c.trail[p].lit = -l /\ Abs(l) \in S /\ l \in Lit
      /\ IsFalse(c, l) /\ ReasonOf(c, l) = R /\ R \notin {None, External}
      /\ -l \in Lit /\ -(-l) = l /\ -l # l /\ Abs(-l) = Abs(l) /\ p \in Nat
  BY <1>1, <1>2, LitFacts, StructFields DEF LastReason
<1> HIDE DEF p
<1>4. ASSUME NEW x \in R, x # -l
      PROVE  /\ ReasonLit(c, p, x) /\ LitOk(c, S, x) /\ x # l /\ x \in Lit /\ IsFalse(c, x)
             /\ LevelOf(c, x) \in 0..Level(c) /\ PosOf(c, x) < p
  <2>1. x \in c.trail[p].reason \ {c.trail[p].lit}
    BY <1>3, <1>4
  <2>2. ReasonLit(c, p, x)
    BY <1>1, <1>3, <2>1, ReasonLits
  <2>3. LitOk(c, S, x)
    BY <1>3, <2>1 DEF Ready, Closed, ClosedAt
  <2>4. x \in Lit /\ IsFalse(c, x) /\ PosOf(c, x) < p /\ PosOf(c, x) \in DOMAIN c.trail
    BY <2>2 DEF ReasonLit
  <2>5. x # l
    BY <1>3, <2>4 DEF p
  <2> QED
    BY <1>1, <2>2, <2>3, <2>4, <2>5, Placed
<1>5. R \in Clause /\ -l \in R
  <2>1. c.trail \in Seq(Entry) /\ DOMAIN c.trail = 1..Len(c.trail)
    BY <1>1, StructFields
  <2>2. R \in Clause \cup {External}
    BY <1>3, <2>1, TrailTypes
  <2>3. -l \in R
    BY <1>1, <1>3 DEF Ordered, Justified
  <2> QED
    BY <1>3, <2>2, <2>3
<1>6. ASSUME NEW x \in cl
      PROVE  x \in Lit /\ IsFalse(c, x) /\ LitOk(c, S, x) /\ LevelOf(c, x) \in 1..Level(c)
             /\ x # -l
  <2>1. x \in Lit /\ IsFalse(c, x) /\ LitOk(c, S, x) /\ LevelOf(c, x) \in 1..Level(c)
    BY DEF Learnable, LitOk, Clause
  <2>2. IsTrue(c, -l)
    BY <1>3 DEF IsTrue, Lits
  <2>3. x # -l
    BY <1>1, <2>1, <2>2, Values DEF Valued
  <2> QED
    BY <2>1, <2>3
<1>7. \A x : x \in r <=> x \notin {l, -l} /\ (x \in cl \/ (x \in R /\ LevelOf(c, x) > 0))
  BY <1>3 DEF Above
<1>8. ASSUME NEW x \in r
      PROVE  LitOk(c, S, x) /\ LevelOf(c, x) \in 1..Level(c) /\ x \in Lit
  <2>1. CASE x \in cl
    BY <1>6, <2>1
  <2>2. CASE x \in R /\ LevelOf(c, x) > 0 /\ x # -l
    <3>1. LitOk(c, S, x) /\ LevelOf(c, x) \in 0..Level(c) /\ x \in Lit
      BY <1>4, <2>2
    <3> QED
      BY <2>2, <3>1
  <2> QED
    BY <1>7, <2>1, <2>2
<1>9. r \in Clause
  BY <1>8 DEF Clause
<1>10. ASSUME NEW m \in W PROVE Holds(m, r)
  <2>1. CASE Tru(m, l)
    <3>1. Holds(m, R)
      BY <1>1, <1>3 DEF Sound
    <3>2. PICK x \in R : Tru(m, x)
      BY <3>1, HoldsTru
    <3>3. x # -l
      BY <1>3, <2>1, <3>2, TruFacts
    <3>4. LevelOf(c, x) # 0
      BY <1>1, <1>4, <3>2, <3>3, FixedFalse
    <3>5. LevelOf(c, x) > 0
      <4>1. LevelOf(c, x) \in 0..Level(c)
        BY <1>4, <3>3
      <4> QED
        BY <3>4, <4>1
    <3>6. x \in r
      BY <1>4, <1>7, <3>3, <3>5
    <3> QED
      BY <3>2, <3>6, HoldsTru
  <2>2. CASE ~Tru(m, l)
    <3>1. Holds(m, cl)
      BY DEF Learnable
    <3>2. PICK x \in cl : Tru(m, x)
      BY <3>1, HoldsTru
    <3>3. x # l /\ x # -l
      BY <1>6, <2>2, <3>2
    <3>4. x \in r
      BY <1>7, <3>3
    <3> QED
      BY <3>2, <3>4, HoldsTru
  <2> QED
    BY <2>1, <2>2
<1>11. OnLevel(c, r) # {}
  <2>1. k \in cl /\ LevelOf(c, k) = Level(c)
    BY DEF OnLevel
  <2>2. k \in r
    BY <1>6, <1>7, <2>1
  <2> QED
    BY <2>1, <2>2 DEF OnLevel
<1>12. ASSUME NEW x \in OnLevel(c, r) PROVE PosOf(c, x) < p
  <2>1. x \in r /\ LevelOf(c, x) = Level(c)
    BY DEF OnLevel
  <2>2. CASE x \in cl
    <3>1. x \in OnLevel(c, cl) /\ x # l
      BY <1>7, <2>1, <2>2 DEF OnLevel
    <3> QED
      BY <3>1 DEF LastFacts, p
  <2>3. CASE x \in R /\ x # -l
    BY <1>4, <2>3
  <2> QED
    BY <1>7, <2>1, <2>2, <2>3
<1> QED
  BY <1>8, <1>9, <1>10, <1>11, <1>12 DEF Learnable, p

\* Small sets of literals.
LEMMA LevelSize ==
  ASSUME NEW c, NEW cl \in Clause
  PROVE  /\ OnLevel(c, cl) \in Clause
         /\ (Cardinality(OnLevel(c, cl)) <= 1 /\ OnLevel(c, cl) # {}
               => \E x \in cl : OnLevel(c, cl) = {x})
         /\ (~(Cardinality(OnLevel(c, cl)) <= 1) =>
               \A x \in OnLevel(c, cl) : \E k \in OnLevel(c, cl) : k # x)
<1> DEFINE O == OnLevel(c, cl)
<1>1. O \in Clause /\ O \subseteq cl
  BY DEF OnLevel, Clause
<1> HIDE DEF O
<1>2. Cardinality(O) \in Nat /\ (Cardinality(O) = 0 <=> O = {})
      /\ (Cardinality(O) = 1 => \E x \in O : O = {x})
      /\ \A x : O = {x} => Cardinality(O) = 1
  BY <1>1, ClauseSize
<1>3. Cardinality(O) <= 1 /\ O # {} => Cardinality(O) = 1
  BY <1>2
<1>4. ASSUME ~(Cardinality(O) <= 1), NEW x \in O PROVE \E k \in O : k # x
  <2>1. O # {x}
    BY <1>2, <1>4
  <2> QED
    BY <2>1
<1> QED
  BY <1>1, <1>2, <1>3, <1>4 DEF O

\* A step leaves a clause that follows from the models, with a literal of this
\* level, and goes down the trail.
LEMMA LearnStepFine ==
  ASSUME NEW c, NEW S, NEW W, NEW o, Ready(c, S, W, o), NEW cl,
         Learnable(c, S, W, cl), NEW r, r = LearnStep(c, cl)
  PROVE  /\ Learnable(c, S, W, r)
         /\ \A p \in Int : Deep(c, cl, p) => Deep(c, r, p - 1)
<1>1. Struct(c) /\ cl \in Clause
  BY DEF Ready, Loose, Learnable
<1>2. CASE Cardinality(OnLevel(c, cl)) <= 1
  BY <1>2 DEF LearnStep, Deep
<1>3. CASE ~(Cardinality(OnLevel(c, cl)) <= 1)
  <2> DEFINE l == LastOf(c, cl)
  <2>1. LastFacts(c, cl, l)
    BY <1>1, LastIs
  <2>2. r = (cl \cup Above(c, ReasonOf(c, l))) \ {l, -l}
    BY <1>3 DEF LearnStep
  <2> HIDE DEF l
  <2>3. l \in OnLevel(c, cl)
    BY <2>1 DEF LastFacts
  <2>4. PICK k \in OnLevel(c, cl) : k # l
    BY <1>1, <1>3, <2>3, LevelSize
  <2>5. Learnable(c, S, W, r) /\ \A x \in OnLevel(c, r) : PosOf(c, x) < PosOf(c, l)
    BY <2>1, <2>2, <2>4, Resolvent
  <2>6. ASSUME NEW p \in Int, Deep(c, cl, p) PROVE Deep(c, r, p - 1)
    <3>1. PosOf(c, l) <= p
      BY <1>3, <2>3, <2>6 DEF Deep
    <3>2. l \in Lit /\ IsFalse(c, l)
      BY <2>3 DEF OnLevel, Learnable, LitOk, Clause
    <3>3. PosOf(c, l) \in Nat
      BY <1>1, <3>2, Placed DEF Place
    <3>4. ASSUME NEW x \in OnLevel(c, r) PROVE PosOf(c, x) <= p - 1
      <4>1. x \in Lit /\ IsFalse(c, x)
        BY <2>5, <3>4 DEF OnLevel, Learnable, LitOk, Clause
      <4>2. PosOf(c, x) \in Nat
        BY <1>1, <4>1, Placed DEF Place
      <4>3. PosOf(c, x) < PosOf(c, l)
        BY <2>5
      <4> QED
        BY <3>1, <3>3, <4>2, <4>3
    <3> QED
      BY <3>4 DEF Deep
  <2> QED
    BY <2>5, <2>6
<1> QED
  BY <1>2, <1>3

\* The clause that is learned has a single literal of the level.
LearnedFacts(c, S, W, cl, u) ==
  Learnable(c, S, W, cl) /\ u \in cl /\ OnLevel(c, cl) = {u}

\* So the analysis ends with a clause of which exactly one literal is of this
\* level.
LEMMA LearnedFine ==
  ASSUME NEW c, NEW S, NEW W, NEW o, Ready(c, S, W, o), Level(c) > 0,
         \E l \in c.conflict : LevelOf(c, l) = Level(c), NEW cl, cl = Learned(c)
  PROVE  \E u : LearnedFacts(c, S, W, cl, u)
<1> DEFINE n == Len(c.trail)
           b == Above(c, c.conflict)
           g == CHOOSE f : LearnRun(f, c, n)
           T == {r \in Clause : Learnable(c, S, W, r)}
           G == [p \in (1..n) \X T |-> LearnStep(c, p[2])]
<1>1. Struct(c) /\ n \in Nat /\ Sound(c, W) /\ DOMAIN c.trail = 1..n
  BY StructFields DEF Ready, Loose
<1>2. cl = g[n]
  BY Zenon DEF Learned, LearnRun, LearnStep, LastOf, OnLevel, Above
<1>3. ReadyFacts(c)
  BY <1>1, ReadyConflict DEF Ready
<1>4. \A l \in c.conflict : l \in Lit /\ IsFalse(c, l) /\ LevelOf(c, l) \in 0..Level(c)
                            /\ LitOk(c, S, l)
  BY <1>1, <1>3, Placed DEF ReadyFacts, Ready, Closed
<1>5. b \in T
  <2>1. \A x : x \in b <=> x \in c.conflict /\ LevelOf(c, x) > 0
    BY DEF Above
  <2> HIDE DEF b
  <2>2. b \in Clause
    BY <1>4, <2>1 DEF Clause
  <2>3. \A x \in b : LitOk(c, S, x) /\ LevelOf(c, x) \in 1..Level(c)
    BY <1>4, <2>1
  <2>4. ASSUME NEW m \in W PROVE Holds(m, b)
    <3>1. Holds(m, c.conflict)
      BY <1>1 DEF Sound, Ready
    <3>2. PICK x \in c.conflict : Tru(m, x)
      BY <3>1, HoldsTru
    <3>3. LevelOf(c, x) # 0
      BY <1>1, <1>4, <3>2, FixedFalse
    <3>4. x \in b
      BY <1>4, <2>1, <3>3
    <3> QED
      BY <3>2, <3>4, HoldsTru
  <2>5. OnLevel(c, b) # {}
    BY <2>1 DEF OnLevel
  <2> QED
    BY <2>2, <2>3, <2>4, <2>5 DEF Learnable
<1>6. ASSUME NEW u \in T PROVE LearnStep(c, u) \in T
  <2> DEFINE r == LearnStep(c, u)
  <2>1. Learnable(c, S, W, u)
    OBVIOUS
  <2> HIDE DEF r
  <2>2. Learnable(c, S, W, r)
    BY <2>1, LearnStepFine DEF r
  <2> QED
    BY <2>2 DEF r, Learnable
<1>7. ASSUME NEW u \in T PROVE Learnable(c, S, W, u)
  OBVIOUS
<1> HIDE DEF T
<1>8. G \in [(1..n) \X T -> T]
      /\ \A i \in 1..n : \A u \in T : G[i, u] = LearnStep(c, u)
  BY <1>6
<1> HIDE DEF G
<1>9. LearnRun(g, c, n)
  <2>1. PICK f \in [0..n -> T] : RunOf(f, b, n, G)
    <3> HIDE DEF b
    <3> QED
      BY <1>1, <1>5, <1>8, RunExists
  <2> DEFINE h == [i \in 0..n |-> IF i = 0 THEN b ELSE LearnStep(c, f[i - 1])]
  <2>2. ASSUME NEW i \in 0..n PROVE f[i] = h[i]
    <3>1. f[i] = IF i = 0 THEN b ELSE G[i, f[i - 1]]
      BY <2>1 DEF RunOf
    <3>2. CASE i = 0
      BY <3>1, <3>2
    <3>3. CASE i # 0
      <4>1. i \in 1..n /\ i - 1 \in 0..n
        BY <1>1, <3>3
      <4>2. f[i - 1] \in T
        BY <4>1
      <4>3. h[i] = LearnStep(c, f[i - 1])
        BY <3>3
      <4> HIDE DEF h
      <4> QED
        BY <1>8, <3>1, <3>3, <4>1, <4>2, <4>3
    <3> QED
      BY <3>2, <3>3
  <2>3. f = h
    <3>1. f = [i \in 0..n |-> f[i]] /\ h = [i \in 0..n |-> h[i]]
      OBVIOUS
    <3> HIDE DEF h
    <3> QED
      BY <2>2, <3>1
  <2>4. LearnRun(f, c, n)
    BY <2>3 DEF LearnRun
  <2>5. \E e : LearnRun(e, c, n)
    BY <2>4
  <2> QED
    BY <2>5
<1> HIDE DEF g
<1>10. \A i \in 0..n : g[i] = IF i = 0 THEN b ELSE LearnStep(c, g[i - 1])
  BY <1>9 DEF LearnRun
<1> DEFINE D == {i \in 0..n : g[i] \in T /\ Deep(c, g[i], n - i)}
<1>11. 0 \in D
  <2>1. g[0] = b /\ 0 \in 0..n /\ n - 0 = n
    BY <1>1, <1>10
  <2> HIDE DEF b
  <2>2. \A x \in OnLevel(c, b) : PosOf(c, x) \in 1..n
    <3>1. \A x \in OnLevel(c, b) : x \in Lit /\ IsFalse(c, x)
      BY <1>5, <1>7 DEF Learnable, LitOk, Clause, OnLevel
    <3> QED
      BY <1>1, <3>1, Placed DEF Place
  <2>3. Deep(c, b, n)
    BY <1>1, <2>2 DEF Deep
  <2> QED
    BY <1>5, <2>1, <2>3
<1>12. ASSUME NEW i \in 1..n, i - 1 \in D PROVE i \in D
  <2> DEFINE r == g[i - 1]
  <2>1. g[i] = LearnStep(c, r) /\ i \in 0..n /\ r \in T /\ Deep(c, r, n - (i - 1))
    BY <1>1, <1>10, <1>12
  <2>2. n - i = (n - (i - 1)) - 1 /\ n - (i - 1) \in Int
    BY <1>1
  <2> HIDE DEF r
  <2>3. Learnable(c, S, W, r)
    BY <1>7, <2>1
  <2>4. \A p \in Int : Deep(c, r, p) => Deep(c, g[i], p - 1)
    BY <2>1, <2>3, LearnStepFine
  <2>5. Deep(c, g[i], n - i)
    BY <2>1, <2>2, <2>4
  <2> QED
    BY <1>6, <2>1, <2>5
<1>13. n \in D
  <2> HIDE DEF D
  <2>1. \A i \in 0..n : i \in D
    BY <1>1, <1>11, <1>12, AllSteps
  <2> QED
    BY <1>1, <2>1
<1>14. cl \in T /\ Deep(c, cl, n - n) /\ n - n = 0
  BY <1>1, <1>2, <1>13
<1>15. Learnable(c, S, W, cl) /\ cl \in Clause /\ OnLevel(c, cl) # {}
  BY <1>7, <1>14 DEF Learnable
<1>16. \A x \in OnLevel(c, cl) : PosOf(c, x) \in 1..n
  <2>1. \A x \in OnLevel(c, cl) : x \in Lit /\ IsFalse(c, x)
    BY <1>15 DEF Learnable, LitOk, Clause, OnLevel
  <2> QED
    BY <1>1, <2>1, Placed DEF Place
<1>17. Cardinality(OnLevel(c, cl)) <= 1
  BY <1>1, <1>14, <1>15, <1>16 DEF Deep
<1>18. \E x \in cl : OnLevel(c, cl) = {x}
  BY <1>15, <1>17, LevelSize
<1> QED
  BY <1>15, <1>18 DEF LearnedFacts

-----------------------------------------------------------------------------
(* The learned clause drives the search back.                              *)

\* A clause all but one of whose literals stay false after going back.
DriveOk(c, W, cl, u, t) ==
  /\ cl \in Clause /\ u \in cl /\ \A l \in cl : IsFalse(c, l)
  /\ LevelOf(c, u) > t /\ \A l \in cl \ {u} : LevelOf(c, l) <= t
  /\ \A m \in W : Holds(m, cl)

\* What is left of the invariant to the end of the analysis.
DriveFacts(c, d, W, o) ==
  /\ Loose(d, W, o) /\ Ordered(d.trail) /\ Frame(c, d)
  /\ Roots(c.trail) \subseteq Roots(d.trail)

\* The solver has backtracked to the level t and can assign u.
DriveBackFacts(c, b, W, o, cl, u, t) ==
  /\ BackFacts(c, b, t) /\ DriveFacts(c, b, W, o) /\ ImpliedOk(b, W, u, cl)
  /\ Level(b) = t /\ Over(cl, b.vars) /\ b.unsat = c.unsat

\* After the backtracking it can: the other literals of the clause are still
\* false and u has no value any more.
LEMMA DriveBack ==
  ASSUME NEW c, NEW W, NEW o, Loose(c, W, o), Ordered(c.trail), NEW cl, NEW u,
         NEW t \in Nat, t < Level(c), DriveOk(c, W, cl, u, t),
         NEW b, b = Backtracked(c, t)
  PROVE  DriveBackFacts(c, b, W, o, cl, u, t)
<1>1. Struct(c) /\ Known(c) /\ c.trail \in Seq(Entry) /\ Level(c) \in Nat
  BY StructFields DEF Loose
<1>2. BackFacts(c, b, t) /\ Loose(b, W, o) /\ Ordered(b.trail)
  BY BackFine
<1>3. Struct(b) /\ Same(c, b) /\ Level(b) = t
  BY <1>1, <1>2 DEF BackFacts
<1>4. Roots(b.trail) = Roots(c.trail) /\ Frame(c, b)
  BY <1>1, <1>2, <1>3, BackRoots, FrameFacts
<1>5. \A l \in cl : l \in Lit /\ BackValued(c, b, t, l) /\ Valued(c, l)
  BY <1>1, <1>2, BackValues, Values DEF DriveOk, Clause
<1>6. \A l \in cl : LevelOf(c, l) \in 0..Level(c)
  BY <1>5 DEF Valued, DriveOk, IsAssigned
<1>7. ~IsAssigned(b, u)
  <2>1. ~(LevelOf(c, u) <= t)
    BY <1>1, <1>6 DEF DriveOk
  <2> QED
    BY <1>5, <2>1 DEF BackValued, DriveOk
<1>8. \A l \in cl \ {u} : IsFalse(b, l)
  BY <1>5 DEF BackValued, DriveOk
<1>9. \A l \in cl : Abs(l) \in c.vars
  <2> SUFFICES ASSUME NEW l \in cl PROVE Abs(l) \in c.vars
    OBVIOUS
  <2>1. PICK i \in DOMAIN c.trail : c.trail[i].lit = -l
    BY DEF DriveOk, IsFalse, Lits
  <2>2. Abs(-l) \in c.vars
    BY <1>1, <2>1 DEF Known
  <2> QED
    BY <1>5, <2>2, LitFacts
<1>10. Over(cl, b.vars)
  BY <1>3, <1>9 DEF Over, Same
<1>11. ImpliedOk(b, W, u, cl)
  BY <1>7, <1>8, <1>10 DEF ImpliedOk, DriveOk, Over
<1> QED
  BY <1>2, <1>3, <1>4, <1>10, <1>11 DEF DriveBackFacts, DriveFacts, Same

\* The driven literal is assigned, the propagator hears of it, and the
\* conflict is gone.
EndFacts(b, d, W, o) ==
  /\ DriveFacts(b, d, W, o) /\ Level(d) = Level(b) /\ d.unsat = b.unsat
  /\ d.conflict = None

\* The propagator hears of it and the conflict is forgotten.
LEMMA DriveEnd ==
  ASSUME NEW b, NEW W, NEW o, Struct(b), NEW e, Loose(e, W, o), Ordered(e.trail),
         Grown(b, e), NEW d, d = ConflictPut(Notified(e), None)
  PROVE  EndFacts(b, d, W, o)
<1> DEFINE x == Notified(e)
<1>1. /\ Loose(x, W, o) /\ Ordered(x.trail) /\ Same(e, x) /\ x.trail = e.trail
      /\ x.control = e.control
  BY NotifiedFine
<1> HIDE DEF x
<1>2. ConflictFacts(x, d, None, x.propagated, W, o)
  <2>1. d = ConflictPut(x, None) /\ None \in Clause
    BY DEF x, None, Clause
  <2> QED
    BY <1>1, <2>1, ConflictPutFine
<1>3. /\ Loose(d, W, o) /\ Ordered(d.trail) /\ Same(x, d) /\ d.trail = x.trail
      /\ d.control = x.control /\ d.conflict = None
  BY <1>1, <1>2 DEF ConflictFacts
<1>4. Same(b, e) /\ e.control = b.control
  BY DEF Grown
<1>5. Same(b, d)
  BY <1>1, <1>3, <1>4, SameFacts
<1>6. Frame(b, d) /\ d.unsat = b.unsat
  BY <1>5, FrameFacts DEF Same
<1>7. Roots(b.trail) \subseteq Roots(e.trail)
  BY GrownRoots DEF Loose
<1> QED
  BY <1>1, <1>3, <1>4, <1>6, <1>7 DEF EndFacts, DriveFacts, Level

\* The parts of the analysis are put together.
LEMMA DriveTrans ==
  ASSUME NEW c, NEW b, NEW d, NEW W, NEW o, DriveFacts(c, b, W, o), DriveFacts(b, d, W, o)
  PROVE  DriveFacts(c, d, W, o)
BY FrameFacts DEF DriveFacts

\* The conflict itself drives a literal.
LEMMA ForcedFine ==
  ASSUME NEW c, NEW W, NEW o, Loose(c, W, o), Ordered(c.trail), NEW top \in Nat,
         top > 0, top <= Level(c), NEW u, DriveOk(c, W, c.conflict, u, top - 1),
         NEW d, d = Forced(c, top, u)
  PROVE  /\ DriveFacts(c, d, W, o) /\ Level(d) < Level(c) /\ d.conflict = None
         /\ d.unsat = c.unsat
<1> DEFINE t == top - 1
           b == Backtracked(c, t)
           e == Implied(b, u, c.conflict)
<1>0. Level(c) \in Nat
  BY StructFields DEF Loose
<1>1. t \in Nat /\ t < Level(c) /\ DriveOk(c, W, c.conflict, u, t)
  BY <1>0
<1>2. d = ConflictPut(Notified(e), None)
  BY DEF Forced, ConflictPut
<1> HIDE DEF t
<1>3. DriveBackFacts(c, b, W, o, c.conflict, u, t)
  BY <1>1, DriveBack
<1> HIDE DEF b
<1>4. Loose(b, W, o) /\ Ordered(b.trail) /\ ImpliedOk(b, W, u, c.conflict) /\ Struct(b)
      /\ Level(b) = t /\ b.unsat = c.unsat /\ DriveFacts(c, b, W, o) /\ b.trail \in Seq(Entry)
  BY <1>3, StructFields DEF DriveBackFacts, DriveFacts, Loose
<1>5. /\ Loose(e, W, o) /\ Ordered(e.trail)
      /\ Assigned(b, e, u, ImpliedLevel(b, u, c.conflict), c.conflict)
      /\ ImpliedLevel(b, u, c.conflict) \in Nat
  <2>1. ImpliedLevel(b, u, c.conflict) \in 0..Level(b)
    BY <1>4, ImpliedFine
  <2> QED
    BY <1>4, <2>1, ImpliedFine
<1> HIDE DEF e
<1>6. Grown(b, e)
  <2>1. c.conflict \in Clause /\ u \in Lit
    BY <1>4 DEF ImpliedOk, Clause
  <2>2. c.conflict \in Clause \cup {External}
    BY <2>1
  <2> QED
    BY <1>4, <1>5, <2>1, <2>2, AssignedGrown
<1>7. EndFacts(b, d, W, o)
  BY <1>2, <1>4, <1>5, <1>6, DriveEnd
<1>8. DriveFacts(c, d, W, o)
  BY <1>4, <1>7, DriveTrans DEF EndFacts
<1> QED
  BY <1>1, <1>4, <1>7, <1>8 DEF EndFacts

\* The learned clause drives its literal.
LEMMA DrivenFine ==
  ASSUME NEW c, NEW S, NEW W, NEW o, Ready(c, S, W, o), Level(c) > 0, NEW cl, NEW u,
         LearnedFacts(c, S, W, cl, u), NEW jump \in Nat, NEW d, d = Resolved(c, cl, jump)
  PROVE  /\ DriveFacts(c, d, W, o) /\ Level(d) < Level(c) /\ d.conflict = None
         /\ d.unsat = c.unsat
<1> DEFINE rest == cl \ {u}
           second == MaxLevel(c, rest)
           t == Max({second, Min({jump, Level(c) - 1})})
           b == Backtracked(c, t)
           j == JoinOf(b, cl, TRUE)
           e == IF Cardinality(cl) = 1 THEN Assign(b, u, 0, None) ELSE Implied(j, u, cl)
<1>1. Struct(c) /\ Loose(c, W, o) /\ Ordered(c.trail) /\ Level(c) \in Nat
  BY StructFields DEF Ready, Loose
<1>2. /\ cl \in Clause /\ u \in cl /\ \A l \in cl : l \in Lit /\ IsFalse(c, l)
           /\ IsAssigned(c, l) /\ LevelOf(c, l) \in 1..Level(c)
      /\ \A m \in W : Holds(m, cl)
      /\ LevelOf(c, u) = Level(c) /\ \A l \in cl : l # u => LevelOf(c, l) # Level(c)
  <2>1. /\ cl \in Clause /\ u \in cl
        /\ \A l \in cl : LitOk(c, S, l) /\ LevelOf(c, l) \in 1..Level(c)
        /\ \A m \in W : Holds(m, cl)
    BY DEF LearnedFacts, Learnable
  <2>2. \A l \in cl : LevelOf(c, l) = Level(c) <=> l = u
    BY <2>1 DEF LearnedFacts, OnLevel
  <2> QED
    BY <2>1, <2>2 DEF LitOk, Clause, IsAssigned
<1>3. (CHOOSE l \in cl : LevelOf(c, l) = Level(c)) = u
  BY <1>2
<1>4. d = ConflictPut(Notified(e), None)
  <2>1. d = Driven(c, cl, u, jump)
    BY <1>3 DEF Resolved
  <2> QED
    BY <2>1 DEF Driven, ConflictPut, JoinOf
<1>5. MaxLevelIs(c, rest, second)
  <2>1. rest \in SUBSET Lit /\ \A l \in rest : IsAssigned(c, l)
    BY <1>2
  <2> HIDE DEF rest
  <2> QED
    BY <1>1, <2>1, MaxLevels
<1>6. second \in Nat /\ second < Level(c) /\ \A l \in rest : LevelOf(c, l) <= second
  <2>1. \A l \in rest : LevelOf(c, l) \in 1..Level(c) /\ LevelOf(c, l) # Level(c)
    BY <1>2
  <2> HIDE DEF rest, second
  <2> QED
    BY <1>1, <1>5, <2>1 DEF MaxLevelIs
<1>7. t \in Nat /\ t < Level(c) /\ second <= t
  <2> DEFINE k == Min({jump, Level(c) - 1})
  <2>1. Level(c) - 1 \in Nat
    BY <1>1
  <2>2. k = IF jump <= Level(c) - 1 THEN jump ELSE Level(c) - 1
    BY <2>1, MinTwo
  <2> HIDE DEF k
  <2>3. k \in Nat /\ k < Level(c)
    BY <1>1, <2>1, <2>2
  <2>4. Max({second, k}) = IF second <= k THEN k ELSE second
    <3> HIDE DEF second
    <3> QED
      BY <1>6, <2>3, MaxTwo
  <2>5. t = Max({second, k})
    BY DEF k
  <2> HIDE DEF t, second
  <2> QED
    BY <1>6, <2>3, <2>4, <2>5
<1> HIDE DEF second, t
<1>8. DriveOk(c, W, cl, u, t)
  <2>1. \A l \in rest : LevelOf(c, l) <= t
    <3> SUFFICES ASSUME NEW l \in rest PROVE LevelOf(c, l) <= t
      OBVIOUS
    <3>1. LevelOf(c, l) \in 1..Level(c) /\ LevelOf(c, l) <= second
      BY <1>2, <1>6
    <3> QED
      BY <1>1, <1>6, <1>7, <3>1
  <2> QED
    BY <1>2, <1>7, <2>1 DEF DriveOk
<1> HIDE DEF rest
<1>9. DriveBackFacts(c, b, W, o, cl, u, t)
  BY <1>1, <1>7, <1>8, DriveBack
<1> HIDE DEF b
<1>10. /\ Loose(b, W, o) /\ Ordered(b.trail) /\ ImpliedOk(b, W, u, cl) /\ Struct(b)
       /\ Level(b) = t /\ b.unsat = c.unsat /\ DriveFacts(c, b, W, o)
       /\ b.trail \in Seq(Entry) /\ Over(cl, b.vars)
  BY <1>9, StructFields DEF DriveBackFacts, DriveFacts, Loose
<1>11. NewFacts(b, j, W, o)
  BY <1>2, <1>10, JoinFine
<1> HIDE DEF j
<1>12. /\ Loose(j, W, o) /\ Ordered(j.trail) /\ Frame(b, j) /\ j.trail = b.trail
       /\ j.control = b.control /\ j.unsat = b.unsat /\ Struct(j)
  BY <1>10, <1>11 DEF NewFacts, Alike, Loose
<1>13. ImpliedOk(j, W, u, cl)
  <2>1. \A l : (IsFalse(j, l) <=> IsFalse(b, l)) /\ (IsAssigned(j, l) <=> IsAssigned(b, l))
    BY <1>12, AlikeTrail
  <2> QED
    BY <1>10, <1>12, <2>1 DEF ImpliedOk, Frame
<1>14. CASE Cardinality(cl) = 1
  <2>1. \A x \in cl : x = u
    BY <1>2, <1>14, ClauseSize
  <2>2. \A m \in W : Tru(m, u)
    BY <1>2, <2>1, HoldsTru
  <2>3. AssignOk(b, W, u, 0, None)
    <3>1. None \in Clause /\ 0 \in 0..Level(b)
      BY <1>7, <1>10 DEF None, Clause
    <3> QED
      BY <1>2, <1>10, <2>2, <3>1 DEF AssignOk, ImpliedOk
  <2>4. e = Assign(b, u, 0, None)
    BY <1>14
  <2> HIDE DEF e
  <2>5. Loose(e, W, o) /\ Ordered(e.trail) /\ Assigned(b, e, u, 0, None)
    BY <1>10, <2>3, <2>4, AssignFine
  <2>6. Grown(b, e)
    <3>1. None \in Clause \cup {External} /\ 0 \in Nat /\ u \in Lit
      BY <1>2 DEF None, Clause
    <3> QED
      BY <1>10, <2>5, <3>1, AssignedGrown
  <2>7. EndFacts(b, d, W, o)
    BY <1>4, <1>10, <2>5, <2>6, DriveEnd
  <2>8. DriveFacts(c, d, W, o)
    BY <1>10, <2>7, DriveTrans DEF EndFacts
  <2> QED
    BY <1>7, <1>10, <2>7, <2>8 DEF EndFacts
<1>15. CASE Cardinality(cl) # 1
  <2>1. e = Implied(j, u, cl)
    BY <1>15
  <2> HIDE DEF e
  <2>2. /\ Loose(e, W, o) /\ Ordered(e.trail)
        /\ Assigned(j, e, u, ImpliedLevel(j, u, cl), cl)
        /\ ImpliedLevel(j, u, cl) \in Nat
    <3>1. ImpliedLevel(j, u, cl) \in 0..Level(j)
      BY <1>12, <1>13, <2>1, ImpliedFine
    <3> QED
      BY <1>12, <1>13, <2>1, <3>1, ImpliedFine
  <2>3. Grown(j, e)
    <3>1. cl \in Clause \cup {External} /\ u \in Lit /\ j.trail \in Seq(Entry)
      BY <1>2, <1>10, <1>12
    <3> QED
      BY <2>2, <3>1, AssignedGrown
  <2>4. EndFacts(j, d, W, o)
    BY <1>4, <1>12, <2>2, <2>3, DriveEnd
  <2>5. DriveFacts(b, j, W, o)
    BY <1>12 DEF DriveFacts
  <2>6. DriveFacts(c, d, W, o)
    BY <1>10, <2>4, <2>5, DriveTrans DEF EndFacts
  <2>7. Level(j) = Level(b)
    BY <1>12 DEF Level
  <2> QED
    BY <1>7, <1>10, <1>12, <2>4, <2>6, <2>7 DEF EndFacts
<1> QED
  BY <1>14, <1>15

\* What the analysis starts from: the reasons and levels are known.
ReadyStart(c, e, W, o) ==
  /\ \E S : Ready(e, S, W, o)
  /\ View(c, e) /\ Level(e) = Level(c) /\ Roots(c.trail) \subseteq Roots(e.trail)

\* The state the analysis works on.
AnalysisOf(c) == IF Listens(c) THEN Explained(c) ELSE c

\* It can start from there, with external propagations or without.
LEMMA ReadyStarts ==
  ASSUME NEW c, NEW W, NEW o, Loose(c, W, o), Ordered(c.trail), ~c.unsat,
         c.conflict # None, Falsified(c), ~c.private, NEW e, e = AnalysisOf(c)
  PROVE  ReadyStart(c, e, W, o)
<1>1. Struct(c) /\ Late(c)
  BY DEF Loose
<1>2. CASE Listens(c)
  <2>1. e = Explained(c)
    BY <1>2 DEF AnalysisOf
  <2>2. ExplainedFacts(c, e, W, o)
    BY <2>1, ExplainedFine
  <2>3. PICK S : Closed(e, S) /\ SettledAll(e, S)
    BY <2>2 DEF ExplainedFacts
  <2>4. Ready(e, S, W, o)
    BY <2>2, <2>3 DEF ExplainedFacts, Ready
  <2> QED
    BY <2>2, <2>4 DEF ExplainedFacts, ReadyStart, Level
<1>3. CASE ~Listens(c)
  <2>1. e = c /\ ~c.connected
    BY <1>3 DEF AnalysisOf, Listens
  <2>2. \A i \in DOMAIN c.trail : c.trail[i].reason # External
    BY <1>1, <2>1 DEF Late, LateOk
  <2>3. SettledAll(c, Var)
    BY <2>2 DEF SettledAll
  <2>4. \A l \in c.conflict : LitOk(c, Var, l)
    BY <1>1, ReadyConflict, LitFacts DEF ReadyFacts, LitOk
  <2>5. ASSUME NEW j \in DOMAIN c.trail, c.trail[j].reason # None,
               NEW l \in c.trail[j].reason \ {c.trail[j].lit}
        PROVE  LitOk(c, Var, l)
    <3>1. ReasonLit(c, j, l)
      BY <1>1, <2>2, <2>5, ReasonLits
    <3> QED
      BY <3>1, LitFacts DEF ReasonLit, LitOk
  <2>6. Closed(c, Var)
    BY <2>4, <2>5 DEF Closed, ClosedAt
  <2>7. Ready(c, Var, W, o)
    BY <2>3, <2>6 DEF Ready
  <2>8. View(c, c)
    BY SameFacts, FrameFacts, ViewFacts
  <2> QED
    BY <2>1, <2>7, <2>8 DEF ReadyStart
<1> QED
  BY <1>2, <1>3

\* What the analysis promises: fewer levels and no conflict, or there are no
\* models.
AnalyzedFacts(c, d, W, o) ==
  /\ Loose(d, W, o) /\ Ordered(d.trail) /\ View(c, d)
  /\ Roots(c.trail) \subseteq Roots(d.trail) /\ Level(d) <= Level(c)
  /\ d.unsat \/ (d.conflict = None /\ Level(d) < Level(c))

\* The literals of the conflict that are on the level top.
TopLits(c, top) == {l \in c.conflict : LevelOf(c, l) = top}

\* It keeps the promise whatever level it jumps to,
LEMMA AnalyzedOn ==
  ASSUME NEW c, NEW S, NEW W, NEW o, Ready(c, S, W, o), NEW jump \in Int,
         Level(c) > 0 => jump \in Nat, NEW top, top = MaxLevel(c, c.conflict),
         NEW d, d = AnalyzedFrom(c, jump, top)
  PROVE  AnalyzedFacts(c, d, W, o)
<1> DEFINE F == TopLits(c, top)
           b == Backtracked(c, top)
           cl == Learned(b)
<1>1. Struct(c) /\ Loose(c, W, o) /\ Ordered(c.trail) /\ Level(c) \in Nat /\ ~c.unsat
      /\ Sound(c, W) /\ c.conflict # None /\ Falsified(c)
  BY StructFields DEF Ready, Loose
<1>2. ReadyFacts(c)
  BY <1>1, ReadyConflict
<1>3. /\ top \in 0..Level(c) /\ \A l \in c.conflict : LevelOf(c, l) <= top
           /\ LevelOf(c, l) \in 0..Level(c) /\ l \in Lit /\ IsFalse(c, l)
      /\ top = 0 \/ \E l \in c.conflict : LevelOf(c, l) = top
      /\ c.conflict \in Clause
  BY <1>2 DEF ReadyFacts, MaxLevelIs
<1>4. top \in Nat /\ top <= Level(c)
  BY <1>1, <1>3
<1>5. d = IF top = 0 THEN UnsatSet(b, TRUE)
          ELSE IF Cardinality(F) = 1 THEN Forced(c, top, CHOOSE k \in F : TRUE)
          ELSE Resolved(b, cl, jump)
  BY DEF AnalyzedFrom, UnsatSet, TopLits
<1>6. /\ Ready(b, S, W, o) /\ BackFacts(c, b, top) /\ Level(b) = top
      /\ \A l \in c.conflict : LevelOf(b, l) = LevelOf(c, l)
  BY <1>4, BackReady
<1> HIDE DEF b, cl, F
<1>7. /\ Loose(b, W, o) /\ Ordered(b.trail) /\ Same(c, b) /\ b.conflict = c.conflict
      /\ Roots(b.trail) = Roots(c.trail) /\ Frame(c, b) /\ View(c, b)
  <2>1. Loose(b, W, o) /\ Ordered(b.trail) /\ Same(c, b) /\ b.conflict = c.conflict
    BY <1>6 DEF Ready, BackFacts
  <2>2. Roots(b.trail) = Roots(c.trail)
    BY <1>1, <1>4, <1>6, BackRoots
  <2> QED
    BY <2>1, <2>2, FrameFacts, ViewFacts
<1>8. CASE top = 0
  <2>1. W = {}
    <3>1. \A l \in c.conflict : LevelOf(c, l) = 0
      <4> SUFFICES ASSUME NEW l \in c.conflict PROVE LevelOf(c, l) = 0
        OBVIOUS
      <4>1. LevelOf(c, l) <= 0 /\ LevelOf(c, l) \in 0..Level(c)
        BY <1>3, <1>8
      <4> QED
        BY <1>1, <4>1
    <3> QED
      BY <1>1, <3>1, RootConflict
  <2>2. d = UnsatSet(b, TRUE)
    BY <1>5, <1>8
  <2> DEFINE y == TRUE
  <2>3. y \in BOOLEAN /\ (y => W = {}) /\ d = UnsatSet(b, y)
    BY <2>1, <2>2
  <2> HIDE DEF y
  <2>4. UnsatFacts(b, d, y, W, o)
    BY <1>7, <2>3, UnsatSetFine
  <2>5. /\ Loose(d, W, o) /\ Ordered(d.trail) /\ Frame(b, d) /\ d.trail = b.trail
        /\ d.control = b.control /\ d.unsat
    BY <1>7, <2>4 DEF UnsatFacts, y
  <2>6. View(c, d)
    BY <1>7, <2>5, ViewFacts
  <2> QED
    BY <1>4, <1>6, <1>7, <2>5, <2>6 DEF AnalyzedFacts, Level
<1>9. CASE top # 0 /\ Cardinality(F) = 1
  <2> DEFINE u == CHOOSE k \in F : TRUE
  <2>1. F \in Clause /\ F = {l \in c.conflict : LevelOf(c, l) = top}
    BY <1>3 DEF F, TopLits, Clause
  <2>2. \E x \in F : F = {x}
    BY <1>9, <2>1, ClauseSize
  <2>3. u \in F /\ F = {u}
    BY <2>2
  <2>4. d = Forced(c, top, u)
    BY <1>5, <1>9
  <2> HIDE DEF u
  <2>5. u \in c.conflict /\ LevelOf(c, u) = top
        /\ \A l \in c.conflict \ {u} : LevelOf(c, l) # top
    BY <2>1, <2>3
  <2>6. \A l \in c.conflict \ {u} : LevelOf(c, l) <= top - 1
    <3> SUFFICES ASSUME NEW l \in c.conflict \ {u} PROVE LevelOf(c, l) <= top - 1
      OBVIOUS
    <3>1. LevelOf(c, l) <= top /\ LevelOf(c, l) # top /\ LevelOf(c, l) \in 0..Level(c)
      BY <1>3, <2>5
    <3> QED
      BY <1>1, <1>4, <3>1
  <2>7. DriveOk(c, W, c.conflict, u, top - 1)
    <3>1. \A m \in W : Holds(m, c.conflict)
      BY <1>1 DEF Sound
    <3>2. LevelOf(c, u) > top - 1
      BY <1>4, <2>5
    <3> QED
      BY <1>3, <2>5, <2>6, <3>1, <3>2 DEF DriveOk
  <2>8. top > 0
    BY <1>4, <1>9
  <2>9. /\ DriveFacts(c, d, W, o) /\ Level(d) < Level(c) /\ d.conflict = None
        /\ d.unsat = c.unsat
    BY <1>1, <1>4, <2>4, <2>7, <2>8, ForcedFine
  <2>10. Level(d) \in Nat
    BY <2>9, StructFields DEF DriveFacts, Loose
  <2>11. Level(d) <= Level(c)
    BY <1>1, <2>9, <2>10
  <2> QED
    BY <2>9, <2>11, ViewFacts DEF AnalyzedFacts, DriveFacts
<1>10. CASE top # 0 /\ Cardinality(F) # 1
  <2>1. d = Resolved(b, cl, jump)
    BY <1>5, <1>10
  <2>2. Level(b) > 0 /\ jump \in Nat
    BY <1>1, <1>4, <1>6, <1>10
  <2>3. \E l \in b.conflict : LevelOf(b, l) = Level(b)
    BY <1>3, <1>6, <1>7, <1>10
  <2>4. PICK u : LearnedFacts(b, S, W, cl, u)
    BY <1>6, <2>2, <2>3, LearnedFine DEF cl
  <2>5. /\ DriveFacts(b, d, W, o) /\ Level(d) < Level(b) /\ d.conflict = None
        /\ d.unsat = b.unsat
    BY <1>6, <2>1, <2>2, <2>4, DrivenFine
  <2>6. Level(d) \in Nat
    BY <2>5, StructFields DEF DriveFacts, Loose
  <2>7. Level(d) < Level(c) /\ Level(d) <= Level(c)
    BY <1>1, <1>4, <1>6, <2>5, <2>6
  <2>8. View(c, d)
    BY <1>7, <2>5, ViewFacts DEF DriveFacts
  <2> QED
    BY <1>7, <2>5, <2>7, <2>8 DEF AnalyzedFacts, DriveFacts
<1> QED
  BY <1>8, <1>9, <1>10

\* and so does the whole of 'analyze', which asks for the reasons first.
LEMMA AnalyzedFine ==
  ASSUME NEW c, NEW W, NEW o, Loose(c, W, o), Ordered(c.trail), ~c.unsat,
         c.conflict # None, Falsified(c), ~c.private, NEW jump \in Int,
         Level(c) > 0 => jump \in Nat, NEW d, d = Analyzed(c, jump)
  PROVE  AnalyzedFacts(c, d, W, o)
<1> DEFINE e == AnalysisOf(c)
<1>1. d = AnalyzedFrom(e, jump, MaxLevel(e, e.conflict))
  BY Zenon DEF Analyzed, AnalysisOf
<1>2. ReadyStart(c, e, W, o)
  BY ReadyStarts
<1> HIDE DEF e
<1>3. PICK S : Ready(e, S, W, o)
  BY <1>2 DEF ReadyStart
<1>4. View(c, e) /\ Level(e) = Level(c) /\ Roots(c.trail) \subseteq Roots(e.trail)
  BY <1>2 DEF ReadyStart
<1>5. AnalyzedFacts(e, d, W, o)
  BY <1>1, <1>3, <1>4, AnalyzedOn
<1>6. View(c, d)
  BY <1>4, <1>5, ViewFacts DEF AnalyzedFacts
<1> QED
  BY <1>4, <1>5, <1>6 DEF AnalyzedFacts

-----------------------------------------------------------------------------
(* New levels.                                                             *)

\* What 'new_trail_level' changes.
NewLevelIs(c, d) ==
  /\ IsState(d) /\ Same(c, d) /\ d.trail = c.trail /\ d.conflict = c.conflict
  /\ d.propagated = c.propagated /\ d.notified = c.notified
  /\ d.control = Append(c.control, Len(c.trail))
  /\ d.heard = IF Listens(c) THEN Append(c.heard, <<>>) ELSE c.heard

\* It changes that.
LEMMA NewLevelFields ==
  ASSUME NEW c, IsState(c), NEW d, d = NewLevel(c)
  PROVE  NewLevelIs(c, d)
<1> DEFINE k == Append(c.control, Len(c.trail))
           h == IF Listens(c) THEN Append(c.heard, <<>>) ELSE c.heard
<1>1. d = [[c EXCEPT !.control = k] EXCEPT !.heard = h]
  BY DEF NewLevel, IsState, Fields
<1> HIDE DEF k, h
<1>2. IsState(d)
  <2> DEFINE b == [c EXCEPT !.control = k]
  <2>1. IsState(b)
    BY Puts
  <2>2. d = [b EXCEPT !.heard = h]
    BY <1>1
  <2> HIDE DEF b
  <2>3. IsState([b EXCEPT !.heard = h])
    BY <2>1, Puts
  <2> QED
    BY <2>2, <2>3
<1>3. /\ Same(c, d) /\ d.trail = c.trail /\ d.conflict = c.conflict
      /\ d.propagated = c.propagated /\ d.notified = c.notified
      /\ d.control = k /\ d.heard = h
  BY <1>1 DEF IsState, Fields, Same
<1> QED
  BY <1>2, <1>3 DEF NewLevelIs, k, h

\* A sequence with one more element.
AppendIs(T, h, e, g) ==
  /\ g \in Seq(T) /\ Len(g) = Len(h) + 1 /\ DOMAIN g = 1..Len(g)
  /\ DOMAIN h = 1..Len(h) /\ Len(h) \in Nat /\ g[Len(h) + 1] = e
  /\ \A a \in 1..Len(h) : g[a] = h[a]

\* Append leaves the elements that were there.
LEMMA AppendSeq ==
  ASSUME NEW T, NEW h \in Seq(T), NEW e \in T, NEW g, g = Append(h, e)
  PROVE  AppendIs(T, h, e, g)
<1>1. /\ g \in Seq(T) /\ Len(g) = Len(h) + 1 /\ DOMAIN g = 1..Len(g)
      /\ DOMAIN h = 1..Len(h) /\ Len(h) \in Nat /\ g[Len(h) + 1] = e
  OBVIOUS
<1>2. \A a \in 1..Len(h) : g[a] = h[a]
  OBVIOUS
<1> QED
  BY <1>1, <1>2 DEF AppendIs

\* The new level has heard nothing yet.
LevelHeard(c, g) ==
  /\ g \in Seq(Seq(Lit)) /\ DOMAIN g = 1..Len(g) /\ Len(g) \in Nat
  /\ DOMAIN c.heard = 1..Len(c.heard)
  /\ Len(g) = IF Listens(c) THEN Level(c) + 2 ELSE 1
  /\ Len(c.heard) = IF Listens(c) THEN Level(c) + 1 ELSE 1
  /\ \A a \in DOMAIN c.heard : g[a] = c.heard[a] /\ a \in DOMAIN g /\ a <= Level(c) + 1
  /\ \A a \in DOMAIN g : a \in DOMAIN c.heard \/ g[a] = <<>>

\* The propagator hears of the level, on which it has heard nothing yet.
LEMMA LevelHeardIs ==
  ASSUME NEW c, Struct(c), NEW g,
         g = IF Listens(c) THEN Append(c.heard, <<>>) ELSE c.heard
  PROVE  LevelHeard(c, g)
<1>1. /\ c.heard \in Seq(Seq(Lit)) /\ Level(c) \in Nat
      /\ Len(c.heard) = IF Listens(c) THEN Level(c) + 1 ELSE 1
  BY StructFields DEF Struct
<1> DEFINE T == Seq(Lit)
           h == c.heard
           e == <<>>
<1>2. e \in T
  OBVIOUS
<1>3. h \in Seq(T)
  BY <1>1
<1> HIDE DEF T, h, e
<1>4. CASE Listens(c)
  <2>1. g = Append(h, e)
    BY <1>4 DEF h, e
  <2>2. AppendIs(T, h, e, g)
    BY <1>2, <1>3, <2>1, AppendSeq
  <2>3. /\ g \in Seq(T) /\ Len(g) = Len(h) + 1 /\ DOMAIN g = 1..Len(g) /\ DOMAIN h = 1..Len(h)
        /\ g[Len(h) + 1] = e /\ Len(h) \in Nat
        /\ \A a \in 1..Len(h) : g[a] = h[a]
    BY <2>2 DEF AppendIs
  <2>4. Len(h) = Level(c) + 1
    BY <1>1, <1>4 DEF h
  <2> QED
    BY <1>1, <1>4, <2>3, <2>4 DEF LevelHeard, h, e, T
<1>5. CASE ~Listens(c)
  <2>1. g = h /\ Len(h) = 1
    BY <1>1, <1>5 DEF h
  <2>2. DOMAIN h = 1..Len(h) /\ Len(h) \in Nat
    BY <1>3
  <2> QED
    BY <1>1, <1>3, <1>5, <2>1, <2>2 DEF LevelHeard, h, T
<1> QED
  BY <1>4, <1>5

\* The level begins at the end of the trail.
LevelControl(t, k, j) ==
  /\ j \in Seq(Nat) /\ DOMAIN k = 1..Len(k) /\ DOMAIN j = 1..Len(k) + 1
  /\ Len(j) = Len(k) + 1 /\ Len(k) \in Nat /\ Len(t) \in Nat
  /\ \A a \in DOMAIN k : j[a] = k[a] /\ a \in DOMAIN j
  /\ j[Len(k) + 1] = Len(t)
  /\ \A a \in DOMAIN j : a \in DOMAIN k \/ (a = Len(k) + 1 /\ j[a] = Len(t))

\* Append puts it there.
LEMMA LevelControlIs ==
  ASSUME NEW t \in Seq(Entry), NEW k \in Seq(Nat), NEW j, j = Append(k, Len(t))
  PROVE  LevelControl(t, k, j)
<1>1. Len(t) \in Nat
  OBVIOUS
<1> DEFINE n == Len(t)
<1> HIDE DEF n
<1>2. n \in Nat /\ j = Append(k, n)
  BY <1>1 DEF n
<1>3. /\ j \in Seq(Nat) /\ DOMAIN k = 1..Len(k) /\ DOMAIN j = 1..Len(k) + 1
      /\ Len(j) = Len(k) + 1 /\ Len(k) \in Nat
      /\ \A a \in 1..Len(k) : j[a] = k[a]
      /\ j[Len(k) + 1] = n
  BY <1>2
<1> QED
  BY <1>2, <1>3 DEF LevelControl, n

\* What a new level promises.
LevelFacts(c, d, W, o) ==
  /\ Loose(d, W, o) /\ (Ordered(c.trail) => Ordered(d.trail)) /\ Same(c, d)
  /\ d.trail = c.trail /\ d.conflict = c.conflict /\ d.propagated = c.propagated
  /\ d.notified = c.notified
  /\ Level(d) = Level(c) + 1 /\ d.control[Level(d)] = Len(d.trail)

\* It keeps the promise when the propagator knows the whole trail: what it
\* hears later is of the new level.
LEMMA NewLevelFine ==
  ASSUME NEW c, NEW W, NEW o, Loose(c, W, o), Caught(c), NEW d, d = NewLevel(c)
  PROVE  LevelFacts(c, d, W, o)
<1> DEFINE t == c.trail
           k == c.control
           j == d.control
           h == c.heard
           g == d.heard
<1>1. /\ Struct(c) /\ Hears(c) /\ Late(c) /\ Sound(c, W) /\ IsState(c) /\ FieldTypes(c)
      /\ t \in Seq(Entry) /\ k \in Seq(Nat) /\ Level(c) = Len(k) /\ Level(c) \in Nat
      /\ Distinct(t) /\ Staged(t, k) /\ Known(c) /\ DOMAIN t = 1..Len(t)
      /\ \A a \in 1..Len(k) : k[a] \in Nat
      /\ c.notified \in Nat /\ c.notified <= Len(t) /\ Len(t) \in Nat
  BY StructFields DEF Loose
<1>2. NewLevelIs(c, d)
  BY <1>1, NewLevelFields
<1>3. /\ IsState(d) /\ Same(c, d) /\ d.trail = t /\ d.conflict = c.conflict
      /\ d.propagated = c.propagated /\ d.notified = c.notified
      /\ j = Append(k, Len(t)) /\ (Listens(c) <=> Listens(d))
  BY <1>2, SameFacts DEF NewLevelIs
<1>4. LevelHeard(c, g)
  BY <1>1, <1>2, LevelHeardIs DEF NewLevelIs
<1>5. LevelControl(t, k, j)
  BY <1>1, <1>3, LevelControlIs
<1>6. Level(d) = Level(c) + 1 /\ j[Level(d)] = Len(t)
  BY <1>1, <1>5 DEF LevelControl, Level
<1>7. /\ \A i \in DOMAIN t : t[i].level \in Nat
      /\ \A i \in DOMAIN t : t[i].level <= Len(k)
  BY <1>1, TrailTypes DEF Staged
<1> HIDE DEF t, k, j, h, g
<1>8. Staged(t, j)
  <2>1. /\ \A a, b \in DOMAIN k : a <= b => k[a] <= k[b]
        /\ \A a \in DOMAIN k : k[a] <= Len(t)
        /\ \A i \in DOMAIN t :
             /\ t[i].level <= Len(k)
             /\ t[i].level = 0 => t[i].reason = None
             /\ t[i].reason = None /\ t[i].level > 0 => i = k[t[i].level] + 1
             /\ \A a \in DOMAIN k : i <= k[a] => t[i].level < a
    BY <1>1 DEF Staged
  <2>2. /\ DOMAIN k = 1..Len(k) /\ DOMAIN j = 1..Len(k) + 1
        /\ Len(j) = Len(k) + 1 /\ Len(k) \in Nat /\ Len(t) \in Nat
        /\ \A a \in DOMAIN k : j[a] = k[a] /\ a \in DOMAIN j
        /\ j[Len(k) + 1] = Len(t)
        /\ \A a \in DOMAIN j : a \in DOMAIN k \/ (a = Len(k) + 1 /\ j[a] = Len(t))
    BY <1>5 DEF LevelControl
  <2>3. \A a, b \in DOMAIN j : a <= b => j[a] <= j[b]
    BY <2>1, <2>2
  <2>4. \A a \in DOMAIN j : j[a] <= Len(t)
    BY <2>1, <2>2
  <2>5. ASSUME NEW i \in DOMAIN t
        PROVE  /\ t[i].level <= Len(j)
               /\ t[i].level = 0 => t[i].reason = None
               /\ t[i].reason = None /\ t[i].level > 0 => i = j[t[i].level] + 1
               /\ \A a \in DOMAIN j : i <= j[a] => t[i].level < a
    <3>1. t[i].level \in Nat /\ t[i].level <= Len(k)
      BY <1>7
    <3>2. t[i].level <= Len(j)
      BY <2>2, <3>1
    <3>3. t[i].level > 0 => t[i].level \in DOMAIN k
      BY <2>2, <3>1
    <3>4. \A a \in DOMAIN j : i <= j[a] => t[i].level < a
      BY <2>1, <2>2, <3>1
    <3> QED
      BY <2>1, <2>2, <3>2, <3>3, <3>4
  <2> QED
    BY <2>3, <2>4, <2>5 DEF Staged
<1>9. d \in Core
  <2>1. FieldTypes(d)
    BY <1>1, <1>2, <1>3, <1>4, <1>5 DEF FieldTypes, Same, LevelHeard, LevelControl, t, j, g
  <2> QED
    BY <1>3, <2>1, StateCore
<1>10. Known(d)
  BY <1>1, <1>3 DEF Known, Same, t
<1>11. Len(g) = IF Listens(d) THEN Level(d) + 1 ELSE 1
  BY <1>1, <1>3, <1>4, <1>6 DEF LevelHeard
<1>12. ~Listens(d) => \A b \in DOMAIN j : d.notified <= j[b]
  <2> SUFFICES ASSUME ~Listens(d), NEW b \in DOMAIN j PROVE d.notified <= j[b]
    OBVIOUS
  <2>1. \A a \in DOMAIN k : c.notified <= k[a]
    BY <1>1, <1>3 DEF Struct, k
  <2> QED
    BY <1>1, <1>3, <1>5, <2>1 DEF LevelControl
<1>13. ~d.connected => g = <<<<>>>> /\ d.observed = {} /\ d.lemmas = <<>>
  <2> SUFFICES ASSUME ~d.connected PROVE g = <<<<>>>> /\ d.observed = {} /\ d.lemmas = <<>>
    OBVIOUS
  <2>1. ~c.connected /\ ~Listens(c)
    BY <1>3 DEF Same, Listens
  <2>2. c.heard = <<<<>>>> /\ c.observed = {} /\ c.lemmas = <<>>
    BY <1>1, <2>1 DEF Struct
  <2> QED
    BY <1>2, <1>3, <2>1, <2>2 DEF NewLevelIs, Same, g
<1>14. Struct(d)
  BY <1>1, <1>3, <1>8, <1>9, <1>10, <1>11, <1>12, <1>13 DEF Struct, j, g
<1>15. HeardTrue(t, g)
  <2>1. HeardTrue(t, h)
    BY <1>1 DEF Hears, Hearing, t, h
  <2>2. ASSUME NEW a \in DOMAIN g, NEW x \in DOMAIN g[a]
        PROVE  \E i \in DOMAIN t : t[i].lit = g[a][x] /\ t[i].level < a
    <3>1. CASE a \in DOMAIN h
      BY <1>4, <2>1, <2>2, <3>1 DEF HeardTrue, LevelHeard, h
    <3>2. CASE a \notin DOMAIN h
      <4>1. g[a] = <<>>
        BY <1>4, <3>2 DEF LevelHeard, h
      <4> QED
        BY <2>2, <4>1
    <3> QED
      BY <3>1, <3>2
  <2> QED
    BY <2>2 DEF HeardTrue
<1>16. HeardAll(t, j, g, d.notified, d.observed)
  <2>1. HeardAll(t, k, h, c.notified, c.observed)
    BY <1>1 DEF Hears, Hearing, t, k, h
  <2>2. ASSUME NEW i \in 1..d.notified, Abs(t[i].lit) \in d.observed
        PROVE  ToldFor(t, j, g, i)
    <3>1. ToldFor(t, k, h, i)
      BY <1>3, <2>1, <2>2 DEF HeardAll, Same
    <3>2. PICK a \in DOMAIN h : \E x \in DOMAIN h[a] :
                h[a][x] = t[i].lit /\ \A b \in DOMAIN k : i <= k[b] => a <= b
      BY <3>1 DEF ToldFor
    <3>3. PICK x \in DOMAIN h[a] :
                h[a][x] = t[i].lit /\ \A b \in DOMAIN k : i <= k[b] => a <= b
      BY <3>2
    <3>4. g[a] = h[a] /\ a \in DOMAIN g /\ a <= Len(k) + 1
      BY <1>1, <1>4 DEF LevelHeard, h
    <3>5. \A b \in DOMAIN j : i <= j[b] => a <= b
      BY <1>5, <3>3, <3>4 DEF LevelControl
    <3> QED
      BY <3>3, <3>4, <3>5 DEF ToldFor
  <2> QED
    BY <2>2 DEF HeardAll
<1>17. Listens(d) => \A b \in DOMAIN j : j[b] <= d.notified
  <2> SUFFICES ASSUME Listens(d), NEW b \in DOMAIN j PROVE j[b] <= d.notified
    OBVIOUS
  <2>1. c.notified = Len(t)
    BY <1>3 DEF Caught, t
  <2>2. \A a \in DOMAIN k : k[a] <= Len(t)
    BY <1>1 DEF Staged
  <2> QED
    BY <1>1, <1>3, <1>5, <2>1, <2>2 DEF LevelControl
<1>18. Hears(d)
  BY <1>3, <1>15, <1>16, <1>17 DEF Hears, Hearing, t, j, g
<1>19. Late(d)
  BY <1>1, <1>3 DEF Late, Same, t
<1>20. Sound(d, W)
  BY <1>1, <1>3 DEF Sound, Same, t
<1>21. Once(c) => Once(d)
  <2> SUFFICES ASSUME Once(c),
                      NEW a \in DOMAIN g, NEW x \in DOMAIN g[a], NEW i \in DOMAIN t,
                      g[a][x] = t[i].lit, t[i].level > 0
               PROVE  /\ i <= d.notified
                      /\ \A b \in DOMAIN j : a <= b => i <= j[b]
                      /\ \A a2 \in DOMAIN g : \A y \in DOMAIN g[a2] :
                           g[a2][y] = t[i].lit => a2 = a /\ y = x
    BY <1>3 DEF Once, t, j, g
  <2>1. a \in DOMAIN h /\ g[a] = h[a]
    <3>1. g[a] # <<>>
      <4> SUFFICES ASSUME g[a] = <<>> PROVE FALSE
        OBVIOUS
      <4> QED
        BY <1>4
    <3> QED
      BY <1>4, <3>1 DEF LevelHeard, h
  <2>2. /\ i <= c.notified
        /\ \A b \in DOMAIN k : a <= b => i <= k[b]
        /\ \A a2 \in DOMAIN h : \A y \in DOMAIN h[a2] :
             h[a2][y] = t[i].lit => a2 = a /\ y = x
    BY <2>1 DEF Once, t, k, h
  <2>3. \A b \in DOMAIN j : a <= b => i <= j[b]
    <3>1. i <= Len(t)
      BY <1>1 DEF t
    <3> QED
      BY <1>5, <2>2, <3>1 DEF LevelControl
  <2>4. ASSUME NEW a2 \in DOMAIN g, NEW y \in DOMAIN g[a2], g[a2][y] = t[i].lit
        PROVE  a2 = a /\ y = x
    <3>1. a2 \in DOMAIN h /\ g[a2] = h[a2]
      <4>1. g[a2] # <<>>
        <5> SUFFICES ASSUME g[a2] = <<>> PROVE FALSE
          OBVIOUS
        <5> QED
          BY <2>4
      <4> QED
        BY <1>4, <4>1 DEF LevelHeard, h
    <3> QED
      BY <2>2, <2>4, <3>1
  <2> QED
    BY <1>3, <2>2, <2>3, <2>4
<1>22. Loose(d, W, o)
  BY <1>14, <1>18, <1>19, <1>20, <1>21 DEF Loose
<1> QED
  BY <1>3, <1>6, <1>22 DEF LevelFacts, t, j

-----------------------------------------------------------------------------
(* Decisions and private steps.                                            *)

\* What a decision promises.
DecidedFacts(c, d, W, o) ==
  /\ Loose(d, W, o) /\ (Ordered(c.trail) => Ordered(d.trail)) /\ Same(c, d)
  /\ d.conflict = c.conflict /\ d.propagated = c.propagated
  /\ Level(d) = Level(c) + 1 /\ Roots(c.trail) \subseteq Roots(d.trail)
  /\ Len(c.trail) <= Len(d.trail)

\* A new level without a literal is a decision, too: that is what the search
\* makes of an assumption that is true already.
LEMMA NewLevelDecides ==
  ASSUME NEW c, NEW W, NEW o, Loose(c, W, o), Caught(c), NEW d, d = NewLevel(c)
  PROVE  DecidedFacts(c, d, W, o)
<1>1. LevelFacts(c, d, W, o)
  BY NewLevelFine
<1>2. Len(c.trail) \in Nat
  BY StructFields DEF Loose
<1> QED
  BY <1>1, <1>2 DEF LevelFacts, DecidedFacts

\* A decision.
LEMMA DecidedFine ==
  ASSUME NEW c, NEW W, NEW o, Loose(c, W, o), Caught(c), NEW l \in Lit,
         Abs(l) \in c.vars, ~IsAssigned(c, l), NEW d, d = Decided(c, l)
  PROVE  DecidedFacts(c, d, W, o) /\ Len(d.trail) = Len(c.trail) + 1
<1> DEFINE b == NewLevel(c)
           n == Level(b)
<1>1. d = Assign(b, l, n, None)
  BY DEF Decided
<1>2. LevelFacts(c, b, W, o)
  BY NewLevelFine
<1> HIDE DEF b
<1>3. /\ Loose(b, W, o) /\ (Ordered(c.trail) => Ordered(b.trail)) /\ Same(c, b)
      /\ b.trail = c.trail /\ b.conflict = c.conflict /\ b.propagated = c.propagated
      /\ n = Level(c) + 1 /\ b.control[n] = Len(b.trail)
  BY <1>2 DEF LevelFacts
<1>4. Struct(b) /\ b.trail \in Seq(Entry) /\ Level(c) \in Nat /\ Struct(c)
      /\ Len(c.trail) \in Nat
  BY <1>3, StructFields DEF Loose
<1>5. None \in Clause
  BY DEF None, Clause
<1>6. n > 0 /\ n \in 0..Level(b) /\ n \in Nat
  <2>1. n \in Nat /\ n > 0
    BY <1>3, <1>4
  <2> HIDE DEF n
  <2>2. n = Level(b)
    BY DEF n
  <2> QED
    BY <2>1, <2>2
<1> HIDE DEF n
<1>7. AssignOk(b, W, l, n, None)
  <2>1. ~IsAssigned(b, l)
    BY <1>3, AlikeTrail
  <2>2. None # External
    BY VarFacts
  <2> QED
    BY <1>3, <1>5, <1>6, <2>1, <2>2 DEF AssignOk, Same
<1>8. /\ Loose(d, W, o) /\ (Ordered(b.trail) => Ordered(d.trail))
      /\ Assigned(b, d, l, n, None)
  BY <1>1, <1>3, <1>7, AssignFine
<1>9. Grown(b, d) /\ Len(d.trail) = Len(b.trail) + 1
  <2>1. None \in Clause \cup {External}
    BY <1>5
  <2> QED
    BY <1>4, <1>6, <1>8, <2>1, AssignedGrown
<1>10. Same(c, d)
  BY <1>3, <1>8, SameFacts DEF Assigned
<1>11. Roots(b.trail) \subseteq Roots(d.trail) /\ Level(d) = Level(b)
  BY <1>4, <1>8, <1>9, GrownRoots DEF Loose
<1>12. d.conflict = c.conflict /\ d.propagated = c.propagated
  BY <1>3, <1>8 DEF Assigned
<1>13. Len(d.trail) = Len(c.trail) + 1 /\ Len(c.trail) <= Len(d.trail)
  BY <1>3, <1>4, <1>9
<1> QED
  BY <1>3, <1>8, <1>10, <1>11, <1>12, <1>13 DEF DecidedFacts, n

\* An assumption.
LEMMA AssumedFine ==
  ASSUME NEW c, NEW W, NEW o, Loose(c, W, o), Caught(c), NEW q,
         NEW l \in Lit, l = q.assumptions[Level(c) + 1],
         Abs(l) \in c.vars, ~IsFalse(c, l), NEW d, d = Assumed(c, q)
  PROVE  DecidedFacts(c, d, W, o)
<1>1. d = IF IsTrue(c, l) THEN NewLevel(c) ELSE Decided(c, l)
  BY DEF Assumed
<1>2. CASE IsTrue(c, l)
  BY <1>1, <1>2, NewLevelDecides
<1>3. CASE ~IsTrue(c, l)
  <2>1. ~IsAssigned(c, l) /\ d = Decided(c, l)
    BY <1>1, <1>3 DEF IsAssigned
  <2> QED
    BY <2>1, DecidedFine
<1> QED
  BY <1>2, <1>3

\* When all variables have a value there are as many literals as variables.
LEMMA AllAssigned ==
  ASSUME NEW c, Struct(c), \A v \in c.vars : IsAssigned(c, v)
  PROVE  Cardinality(Lits(c)) = Cardinality(c.vars)
<1> DEFINE L == Lits(c)
           V == c.vars
           f == [l \in L |-> Abs(l)]
<1>1. /\ c.trail \in Seq(Entry) /\ Distinct(c.trail) /\ DOMAIN c.trail = 1..Len(c.trail)
      /\ Known(c) /\ c.vars \in SUBSET Var
  BY StructFields, CoreFields
<1>2. \A l \in L : l \in Lit /\ Abs(l) \in V
  BY <1>1, TrailTypes DEF Lits, Known
<1>3. ASSUME NEW k \in L, NEW l \in L, Abs(k) = Abs(l) PROVE k = l
  <2>1. k \in {l, -l}
    BY <1>2, <1>3, LitFacts
  <2>2. PICK i \in DOMAIN c.trail : c.trail[i].lit = k
    BY DEF Lits
  <2>3. PICK j \in DOMAIN c.trail : c.trail[j].lit = l
    BY DEF Lits
  <2>4. i = j
    BY <1>1, <2>1, <2>2, <2>3, Zenon DEF Distinct
  <2> QED
    BY <2>2, <2>3, <2>4
<1>4. ASSUME NEW v \in V PROVE \E l \in L : Abs(l) = v
  <2>1. v \in L \/ -v \in L
    BY <1>4 DEF IsAssigned, IsTrue, IsFalse
  <2> QED
    BY <1>1, <2>1, VarFacts
<1> HIDE DEF L, V
<1>5. f \in [L -> V] /\ \A l \in L : f[l] = Abs(l)
  BY <1>2
<1> HIDE DEF f
<1>6. f \in Injection(L, V)
  <2>1. \A k, l \in L : f[k] = f[l] => k = l
    BY <1>3, <1>5
  <2> QED
    BY <1>5, <2>1, Fun_IsInj
<1>7. f \in Surjection(L, V)
  <2>1. \A v \in V : \E l \in L : f[l] = v
    BY <1>4, <1>5
  <2> QED
    BY <1>5, <2>1, Fun_IsSurj
<1>8. IsFiniteSet(V)
  BY <1>1, VarFacts, FS_Subset DEF V
<1>9. IsFiniteSet(L)
  BY <1>6, <1>8, FS_Injection
<1>10. Cardinality(V) = Cardinality(L)
  BY <1>6, <1>7, <1>9, FS_Surjection
<1> QED
  BY <1>10 DEF L, V

\* At the root it does not matter whether the propagator is told.
PrivatePut(c, x) == [c EXCEPT !.private = x]

\* Only that has changed.
PrivateIs(c, d, x) ==
  /\ IsState(d) /\ d.private = x
  /\ d.chrono = c.chrono /\ d.vars = c.vars /\ d.clauses = c.clauses
  /\ d.unsat = c.unsat /\ d.newest = c.newest /\ d.extended = c.extended
  /\ d.model = c.model /\ d.connected = c.connected
  /\ d.observed = c.observed /\ d.frozen = c.frozen /\ d.lemmas = c.lemmas
  /\ d.reasonOf = c.reasonOf
  /\ d.trail = c.trail /\ d.control = c.control /\ d.heard = c.heard
  /\ d.notified = c.notified /\ d.propagated = c.propagated /\ d.conflict = c.conflict

\* Only that changes.
LEMMA PrivateFields ==
  ASSUME NEW c, IsState(c), NEW x, NEW d, d = PrivatePut(c, x)
  PROVE  PrivateIs(c, d, x)
<1>1. IsState(d)
  BY Puts DEF PrivatePut
<1> QED
  BY <1>1 DEF PrivateIs, PrivatePut, IsState, Fields

\* 'private_steps' may begin and end on level 0, where the propagator has
\* heard nothing it would have to forget.
LEMMA PrivateFine ==
  ASSUME NEW c, NEW W, NEW o, Loose(c, W, o), NEW x \in BOOLEAN,
         Level(c) = 0 \/ ~c.connected, NEW d, d = PrivatePut(c, x)
  PROVE  Loose(d, W, o) /\ (Ordered(c.trail) => Ordered(d.trail)) /\ PrivateIs(c, d, x)
<1>1. Struct(c) /\ IsState(c) /\ FieldTypes(c) /\ Hears(c) /\ Late(c) /\ Sound(c, W)
      /\ DOMAIN c.control = 1..Level(c) /\ Level(c) \in Nat
  BY StructFields DEF Loose
<1>2. PrivateIs(c, d, x)
  BY <1>1, PrivateFields
<1>3. d \in Core
  <2>1. FieldTypes(d)
    BY <1>1, <1>2 DEF FieldTypes, PrivateIs
  <2> QED
    BY <1>2, <2>1, StateCore DEF PrivateIs
<1>4. /\ d.connected = c.connected /\ d.control = c.control /\ d.heard = c.heard
      /\ d.trail = c.trail /\ d.notified = c.notified /\ d.observed = c.observed
      /\ d.lemmas = c.lemmas
  BY <1>2 DEF PrivateIs
<1>5. Known(d)
  BY <1>1, <1>2 DEF Struct, Known, PrivateIs
<1>6. (Listens(d) <=> Listens(c)) \/ Level(c) = 0
  BY <1>4 DEF Listens
<1>7. Len(d.heard) = IF Listens(d) THEN Level(d) + 1 ELSE 1
  BY <1>1, <1>4, <1>6 DEF Struct, Level
<1>8. /\ ~Listens(d) => \A b \in DOMAIN d.control : d.notified <= d.control[b]
      /\ Listens(d) => \A b \in DOMAIN d.control : d.control[b] <= d.notified
  BY <1>1, <1>4, <1>6 DEF Struct, Hears, Hearing
<1>9. Struct(d)
  BY <1>1, <1>3, <1>4, <1>5, <1>7, <1>8 DEF Struct
<1>10. Hears(d)
  BY <1>1, <1>4, <1>8 DEF Hears, Hearing
<1>11. Late(d) /\ Sound(d, W) /\ (Once(c) => Once(d))
  BY <1>1, <1>2 DEF Late, Sound, Once, PrivateIs
<1> QED
  BY <1>2, <1>4, <1>9, <1>10, <1>11 DEF Loose

-----------------------------------------------------------------------------
(* Local search.                                                           *)

\* The variables without a value.
FreeVars(d) == {v \in d.vars : ~IsAssigned(d, v)}

\* One round of the loop of 'walk' and 'decide' in private.
WalkNext(d, q, sign) ==
  IF Level(d) < Len(q.assumptions) THEN Assumed(d, q)
  ELSE Decided(d, sign * Min(FreeVars(d)))

\* It goes on until it has an answer or a conflict.
WalkStep(w, q, sign) ==
  IF w.stop THEN w
  ELSE IF Satisfied(w.core, q) THEN [w EXCEPT !.res = 10, !.stop = TRUE]
  ELSE IF AssumptionFails(w.core, q) THEN [w EXCEPT !.res = 20, !.stop = TRUE]
  ELSE IF Propagated(WalkNext(w.core, q, sign)).conflict # None
  THEN [w EXCEPT !.stop = TRUE,
          !.core = [Backtracked(Propagated(WalkNext(w.core, q, sign)), 0)
                      EXCEPT !.conflict = None]]
  ELSE [w EXCEPT !.core = Propagated(WalkNext(w.core, q, sign))]

\* The assumptions are literals of variables the solver has.
QueryOk(c, q) ==
  /\ q.assumptions \in Seq(Lit) /\ Len(q.assumptions) \in Nat
  /\ \A i \in 1..Len(q.assumptions) : Abs(q.assumptions[i]) \in c.vars

\* What the loop keeps: the invariant, what is fixed, and no conflict.
WalkCore(c, d, W) ==
  /\ Loose(d, W, TRUE) /\ Ordered(d.trail) /\ Same(c, d)
  /\ Roots(c.trail) \subseteq Roots(d.trail) /\ d.conflict = None

\* It stops with an answer, or on level 0, and its levels are bounded by the
\* assumptions and the literals.
WalkInv(c, q, w, W) ==
  /\ w = [core |-> w.core, res |-> w.res, stop |-> w.stop]
  /\ WalkCore(c, w.core, W) /\ w.stop \in BOOLEAN /\ w.res \in {0, 10, 20}
  /\ ~w.stop => /\ w.res = 0 /\ w.core.propagated = Len(w.core.trail)
                /\ Level(w.core) <= Len(q.assumptions) + Len(w.core.trail)
  /\ w.stop => w.res \in {10, 20} \/ Level(w.core) = 0

\* Bounds on the level.
LEMMA Sums ==
  \A a, n, k, m \in Nat :
    /\ a <= n + k /\ k <= m => a <= n + m
    /\ a < n => a + 1 <= n + k
    /\ a <= n + k /\ m = k + 1 => a + 1 <= n + m
OBVIOUS

\* The next decision of the walk.
NextOk(c, q, d, e, W) ==
  /\ WalkCore(c, e, W) /\ Level(e) = Level(d) + 1
  /\ Level(e) <= Len(q.assumptions) + Len(e.trail)

\* A round keeps it.
LEMMA WalkNextFine ==
  ASSUME NEW c, NEW W, c.private, NEW q, QueryOk(c, q), q.constraint = {},
         NEW sign \in {1, -1}, NEW d, WalkCore(c, d, W),
         d.propagated = Len(d.trail), Level(d) <= Len(q.assumptions) + Len(d.trail),
         ~Satisfied(d, q), ~AssumptionFails(d, q),
         NEW e, e = WalkNext(d, q, sign)
  PROVE  NextOk(c, q, d, e, W)
<1>1. /\ Loose(d, W, TRUE) /\ Ordered(d.trail) /\ Same(c, d) /\ Struct(d)
      /\ Roots(c.trail) \subseteq Roots(d.trail) /\ d.conflict = None
      /\ Level(d) \in Nat /\ Len(d.trail) \in Nat /\ d.vars = c.vars
  BY StructFields DEF WalkCore, Loose, Same
<1>0. Level(d) \in Nat /\ Len(d.trail) \in Nat /\ Len(q.assumptions) \in Nat
  BY <1>1 DEF QueryOk
<1>2. Caught(d)
  BY <1>1 DEF Caught, Listens, Same
<1>3. /\ q.assumptions \in Seq(Lit) /\ Len(q.assumptions) \in Nat
      /\ \A i \in 1..Len(q.assumptions) : Abs(q.assumptions[i]) \in c.vars
  BY DEF QueryOk
<1>4. DecidedFacts(d, e, W, TRUE) /\ Level(d) + 1 <= Len(q.assumptions) + Len(e.trail)
  <2>1. CASE Level(d) < Len(q.assumptions)
    <3> DEFINE l == q.assumptions[Level(d) + 1]
    <3>1. Level(d) + 1 \in 1..Len(q.assumptions)
      BY <1>1, <1>3, <2>1
    <3>2. l \in Lit /\ Abs(l) \in d.vars
      BY <1>1, <1>3, <3>1
    <3>3. ~IsFalse(d, l) /\ e = Assumed(d, q)
      BY <2>1 DEF AssumptionFails, WalkNext
    <3> HIDE DEF l
    <3>4. DecidedFacts(d, e, W, TRUE)
      <4>1. l = q.assumptions[Level(d) + 1]
        BY DEF l
      <4> QED
        BY <1>1, <1>2, <3>2, <3>3, <4>1, AssumedFine
    <3>5. Len(e.trail) \in Nat
      BY <3>4, StructFields DEF DecidedFacts, Loose
    <3>6. Level(d) + 1 <= Len(q.assumptions) + Len(e.trail)
      BY <1>0, <2>1, <3>5, Sums, Zenon
    <3> QED
      BY <3>4, <3>6
  <2>2. CASE ~(Level(d) < Len(q.assumptions))
    <3> DEFINE F == FreeVars(d)
               l == sign * Min(F)
    <3>1. Level(d) >= PseudoLevels(q)
      BY <1>1, <1>3, <2>2 DEF PseudoLevels
    <3>2. F # {}
      <4>1. Cardinality(Lits(d)) # Cardinality(d.vars)
        BY <3>1 DEF Satisfied
      <4> QED
        BY <1>1, <4>1, AllAssigned DEF FreeVars
    <3>3. F \in SUBSET Var /\ F \in SUBSET Nat
      <4>1. d.vars \in SUBSET Var
        BY <1>1, StructFields, CoreFields
      <4> QED
        BY <4>1, VarFacts DEF FreeVars
    <3>4. e = Decided(d, l)
      BY <2>2 DEF WalkNext
    <3>5. F = {v \in d.vars : ~IsAssigned(d, v)}
      BY DEF FreeVars
    <3> HIDE DEF F
    <3>6. Min(F) \in F
      BY <3>2, <3>3, MinFacts
    <3> DEFINE v == Min(F)
    <3>7. v \in Var /\ v \in d.vars /\ ~IsAssigned(d, v) /\ l = sign * v
      BY <3>3, <3>5, <3>6
    <3> HIDE DEF v, l
    <3>8. v \in Int /\ v \in Lit /\ -v \in Lit /\ Abs(v) = v /\ Abs(-v) = v /\ -(-v) = v
      BY <3>7, VarFacts, LitFacts
    <3>9. l = v \/ l = -v
      BY <3>7, <3>8
    <3>10. l \in Lit /\ Abs(l) \in d.vars /\ ~IsAssigned(d, l)
      <4>1. ~IsAssigned(d, -v)
        BY <3>7, <3>8 DEF IsAssigned, IsTrue, IsFalse
      <4> QED
        BY <3>7, <3>8, <3>9, <4>1
    <3>11. DecidedFacts(d, e, W, TRUE) /\ Len(e.trail) = Len(d.trail) + 1
      BY <1>1, <1>2, <3>4, <3>10, DecidedFine
    <3>12. Len(e.trail) = Len(d.trail) + 1
      BY <3>11
    <3>13. Level(d) + 1 <= Len(q.assumptions) + Len(e.trail)
      <4>1. Len(e.trail) \in Nat
        BY <1>0, <3>12
      <4> QED
        BY <1>0, <3>12, <4>1, Sums, Zenon
    <3> QED
      BY <3>11, <3>13
  <2> QED
    BY <2>1, <2>2
<1>5. /\ Loose(e, W, TRUE) /\ Ordered(e.trail) /\ Same(d, e) /\ e.conflict = None
      /\ Level(e) = Level(d) + 1 /\ Roots(d.trail) \subseteq Roots(e.trail)
  BY <1>1, <1>4 DEF DecidedFacts
<1>6. Same(c, e)
  BY <1>1, <1>5, SameFacts
<1>7. Level(e) <= Len(q.assumptions) + Len(e.trail)
  BY <1>4, <1>5
<1>8. Roots(c.trail) \subseteq Roots(e.trail)
  BY <1>1, <1>5
<1> QED
  BY <1>5, <1>6, <1>7, <1>8 DEF NextOk, WalkCore

\* One step of the walk.
LEMMA WalkStepFine ==
  ASSUME NEW c, NEW W, c.private, NEW q, QueryOk(c, q), q.constraint = {},
         NEW sign \in {1, -1}, NEW w, WalkInv(c, q, w, W),
         NEW u, u = WalkStep(w, q, sign)
  PROVE  WalkInv(c, q, u, W)
         /\ (u.stop \/ (~w.stop /\ Level(u.core) = Level(w.core) + 1))
<1> DEFINE d == w.core
           e == WalkNext(d, q, sign)
           p == Propagated(e)
           z == [Backtracked(p, 0) EXCEPT !.conflict = None]
<1>1. /\ w = [core |-> d, res |-> w.res, stop |-> w.stop]
      /\ WalkCore(c, d, W) /\ w.stop \in BOOLEAN /\ w.res \in {0, 10, 20}
      /\ ~w.stop => /\ w.res = 0 /\ d.propagated = Len(d.trail)
                    /\ Level(d) <= Len(q.assumptions) + Len(d.trail)
  BY DEF WalkInv
<1>2. CASE w.stop
  BY <1>2 DEF WalkStep
<1>3. CASE ~w.stop /\ Satisfied(d, q)
  <2>1. u = [core |-> d, res |-> 10, stop |-> TRUE]
    BY <1>1, <1>3 DEF WalkStep
  <2>2. u.core = d /\ u.res = 10 /\ u.stop = TRUE
    BY <2>1
  <2> QED
    BY <1>1, <2>1, <2>2 DEF WalkInv
<1>4. CASE ~w.stop /\ ~Satisfied(d, q) /\ AssumptionFails(d, q)
  <2>1. u = [core |-> d, res |-> 20, stop |-> TRUE]
    BY <1>1, <1>4 DEF WalkStep
  <2>2. u.core = d /\ u.res = 20 /\ u.stop = TRUE
    BY <2>1
  <2> QED
    BY <1>1, <2>1, <2>2 DEF WalkInv
<1>5. CASE ~w.stop /\ ~Satisfied(d, q) /\ ~AssumptionFails(d, q)
  <2>1. NextOk(c, q, d, e, W)
    BY <1>1, <1>5, WalkNextFine
  <2>2. u = IF p.conflict # None
            THEN [core |-> z, res |-> w.res, stop |-> TRUE]
            ELSE [core |-> p, res |-> w.res, stop |-> w.stop]
    <3>1. u = IF p.conflict # None THEN [w EXCEPT !.stop = TRUE, !.core = z]
              ELSE [w EXCEPT !.core = p]
      BY <1>5 DEF WalkStep
    <3> HIDE DEF z, p
    <3> QED
      BY <1>1, <3>1
  <2> HIDE DEF e
  <2>3. /\ Loose(e, W, TRUE) /\ Ordered(e.trail) /\ Same(c, e) /\ Struct(e)
        /\ e.conflict = None /\ Roots(c.trail) \subseteq Roots(e.trail)
        /\ Level(e) = Level(d) + 1 /\ Level(e) <= Len(q.assumptions) + Len(e.trail)
        /\ Len(e.trail) \in Nat /\ Level(d) \in Nat
    BY <1>1, <2>1, StructFields DEF NextOk, WalkCore, Loose
  <2>4. PropFacts(e, p, W, TRUE) /\ Done(p)
    BY <2>3, PropagatedFine
  <2> HIDE DEF p
  <2>5. /\ Loose(p, W, TRUE) /\ Ordered(p.trail) /\ Grown(e, p) /\ Struct(p)
        /\ Len(p.trail) \in Nat /\ Level(p) \in Nat
    BY <2>3, <2>4, StructFields DEF PropFacts, Loose
  <2>6. /\ Roots(e.trail) \subseteq Roots(p.trail) /\ Level(p) = Level(e)
        /\ Same(e, p) /\ Len(e.trail) <= Len(p.trail)
    BY <2>3, <2>5, GrownRoots DEF Grown
  <2>7. Same(c, p) /\ Roots(c.trail) \subseteq Roots(p.trail)
    BY <2>3, <2>6, SameFacts
  <2>8. CASE p.conflict # None
    <3> DEFINE b == Backtracked(p, 0)
    <3>1. BackFacts(p, b, 0) /\ Loose(b, W, TRUE) /\ Level(b) = 0 /\ Ordered(b.trail)
      BY <2>5, BackFine
    <3>2. z = ConflictPut(b, None)
      BY DEF ConflictPut
    <3> HIDE DEF b, z
    <3>3. ConflictFacts(b, z, None, b.propagated, W, TRUE)
      <4>1. None \in Clause
        BY DEF None, Clause
      <4> QED
        BY <3>1, <3>2, <4>1, ConflictPutFine
    <3>4. /\ Loose(z, W, TRUE) /\ Ordered(z.trail) /\ Same(b, z) /\ z.trail = b.trail
          /\ z.control = b.control /\ z.conflict = None
      BY <3>1, <3>3 DEF ConflictFacts
    <3>5. Same(c, z)
      BY <2>7, <3>1, <3>4, SameFacts DEF BackFacts
    <3>6. Roots(b.trail) = Roots(p.trail) /\ Level(z) = 0
      BY <2>5, <3>1, <3>4, BackRoots DEF Level
    <3>7. WalkCore(c, z, W)
      BY <2>7, <3>4, <3>5, <3>6 DEF WalkCore
    <3>8. u = [core |-> z, res |-> w.res, stop |-> TRUE]
      BY <2>2, <2>8
    <3>9. u.core = z /\ u.res = w.res /\ u.stop = TRUE
      BY <3>8
    <3> QED
      BY <1>1, <3>6, <3>7, <3>8, <3>9 DEF WalkInv
  <2>9. CASE p.conflict = None
    <3>1. u = [core |-> p, res |-> w.res, stop |-> w.stop]
      BY <2>2, <2>9
    <3>2. u.core = p /\ u.res = w.res /\ u.stop = w.stop
      BY <3>1
    <3>3. WalkCore(c, p, W)
      BY <2>5, <2>7, <2>9 DEF WalkCore
    <3>4. p.propagated = Len(p.trail)
      BY <2>4, <2>9 DEF Done
    <3>5. Level(p) <= Len(q.assumptions) + Len(p.trail)
      <4>1. /\ Level(p) <= Len(q.assumptions) + Len(e.trail) /\ Len(e.trail) <= Len(p.trail)
            /\ Level(p) \in Nat /\ Len(e.trail) \in Nat /\ Len(p.trail) \in Nat
            /\ Len(q.assumptions) \in Nat
        BY <2>3, <2>5, <2>6 DEF QueryOk
      <4> QED
        BY <4>1, Sums, Zenon
    <3>6. Level(p) = Level(d) + 1
      BY <2>3, <2>6
    <3> QED
      BY <1>1, <1>5, <3>1, <3>2, <3>3, <3>4, <3>5, <3>6 DEF WalkInv
  <2> QED
    BY <2>8, <2>9
<1> QED
  BY <1>2, <1>3, <1>4, <1>5

\* As many rounds as are needed.
WalkRun(f, b, q, sign, N) ==
  f = [n \in 0..N |-> IF n = 0 THEN [core |-> b, res |-> 0, stop |-> FALSE]
                      ELSE WalkStep(f[n - 1], q, sign)]

\* What 'walk' promises: what is left on the trail satisfies the invariant.
WalkedFacts(c, w, d, W) ==
  /\ w.core = PrivatePut(d, FALSE) /\ WalkCore(PrivatePut(c, TRUE), d, W)
  /\ w.res \in {0, 10, 20} /\ (w.res = 0 => Level(d) = 0)

\* The sum of two natural numbers is one.
LEMMA ZeroSum == \A a, b \in Nat : 0 <= a + b
OBVIOUS

\* What a round relies on,
WalkPre(c, q, sign, W) ==
  /\ c.private /\ QueryOk(c, q) /\ q.constraint = {} /\ sign \in {1, -1}

\* and what it adds: a level, or the end.
WalkPost(c, q, w, u, W) ==
  WalkInv(c, q, u, W) /\ (u.stop \/ (~w.stop /\ Level(u.core) = Level(w.core) + 1))

\* It does so.
LEMMA WalkStepped ==
  ASSUME NEW c, NEW W, NEW q, NEW sign, WalkPre(c, q, sign, W),
         NEW w, WalkInv(c, q, w, W), NEW u, u = WalkStep(w, q, sign)
  PROVE  WalkPost(c, q, w, u, W)
<1>1. c.private /\ QueryOk(c, q) /\ q.constraint = {} /\ sign \in {1, -1}
  BY DEF WalkPre
<1>2. /\ WalkInv(c, q, u, W)
      /\ u.stop \/ (~w.stop /\ Level(u.core) = Level(w.core) + 1)
  BY <1>1, WalkStepFine
<1> QED
  BY <1>2 DEF WalkPost

\* 'walk' keeps its promise, and it ends: the levels cannot grow for ever.
LEMMA WalkedFine ==
  ASSUME NEW c, NEW W, Loose(c, W, TRUE), Level(c) = 0, c.conflict = None,
         c.propagated = Len(c.trail), NEW q, QueryOk(c, q), q.constraint = {},
         NEW sign \in {1, -1}, NEW w, w = Walked(c, q, sign)
  PROVE  \E d : WalkedFacts(c, w, d, W)
<1> DEFINE b == PrivatePut(c, TRUE)
           n == Cardinality(Var) + Len(q.assumptions) + 1
           w0 == [core |-> b, res |-> 0, stop |-> FALSE]
           g == CHOOSE f : WalkRun(f, b, q, sign, n)
           T == {x \in [core : Core, res : {0, 10, 20}, stop : BOOLEAN] :
                   WalkInv(b, q, x, W)}
           G == [p \in (1..n) \X T |-> WalkStep(p[2], q, sign)]
<1>1. /\ n \in Nat /\ Cardinality(Var) \in Nat /\ Len(q.assumptions) \in Nat
      /\ n = Cardinality(Var) + Len(q.assumptions) + 1
  BY VarFacts DEF QueryOk
<1>2. w = [g[n] EXCEPT !.core.private = FALSE]
  BY Zenon DEF Walked, WalkRun, WalkStep, WalkNext, FreeVars, PrivatePut
<1>3. /\ Loose(b, W, TRUE) /\ Ordered(b.trail) /\ PrivateIs(c, b, TRUE)
  <2> DEFINE y == TRUE
  <2>1. y \in BOOLEAN /\ b = PrivatePut(c, y) /\ Loose(c, W, y)
    OBVIOUS
  <2>2. Fine(c, W, y)
    BY RootFine
  <2> HIDE DEF y, b
  <2>3. Loose(b, W, y) /\ (Ordered(c.trail) => Ordered(b.trail)) /\ PrivateIs(c, b, y)
    BY <2>1, PrivateFine
  <2> QED
    BY <2>2, <2>3 DEF Fine, y
<1>4. /\ b.private /\ b.trail = c.trail /\ Level(b) = 0 /\ b.conflict = None
      /\ b.propagated = Len(b.trail) /\ b.vars = c.vars
  BY <1>3 DEF PrivateIs, Level
<1>5. QueryOk(b, q)
  BY <1>4 DEF QueryOk
<1> HIDE DEF b, n
<1>6. ASSUME NEW x, WalkInv(b, q, x, W)
      PROVE  x \in T
  <2>1. /\ x = [core |-> x.core, res |-> x.res, stop |-> x.stop]
        /\ x.stop \in BOOLEAN /\ x.res \in {0, 10, 20}
    BY <1>6 DEF WalkInv
  <2>2. x.core \in Core
    BY <1>6, StructFields DEF WalkInv, WalkCore, Loose
  <2> QED
    BY <1>6, <2>1, <2>2
<1>7. \A x \in T : WalkInv(b, q, x, W)
  OBVIOUS
<1> HIDE DEF T
<1>8. w0 \in T /\ w0.core = b /\ w0.stop = FALSE
  <2>1. w0 = [core |-> w0.core, res |-> w0.res, stop |-> w0.stop]
        /\ w0.core = b /\ w0.res = 0 /\ w0.stop = FALSE
    OBVIOUS
  <2>2. WalkCore(b, b, W)
    BY <1>3, <1>4, SameFacts DEF WalkCore
  <2>3. Level(b) <= Len(q.assumptions) + Len(b.trail)
    <3>1. Len(b.trail) \in Nat
      BY <1>3, StructFields DEF Loose
    <3>2. Level(b) = 0 /\ b.trail = c.trail
      BY <1>4
    <3>3. 0 <= Len(q.assumptions) + Len(b.trail)
      BY <1>1, <3>1, ZeroSum, Zenon
    <3> QED
      BY <3>2, <3>3, Zenon
  <2> HIDE DEF w0
  <2>4. WalkInv(b, q, w0, W)
    BY <1>4, <2>1, <2>2, <2>3 DEF WalkInv
  <2> QED
    BY <1>6, <2>1, <2>4
<1>9. ASSUME NEW x \in T, NEW u, u = WalkStep(x, q, sign)
      PROVE  u \in T /\ (u.stop \/ (~x.stop /\ Level(u.core) = Level(x.core) + 1))
  <2>1. WalkInv(b, q, x, W)
    BY <1>7
  <2>2. WalkInv(b, q, u, W) /\ (u.stop \/ (~x.stop /\ Level(u.core) = Level(x.core) + 1))
    <3>1. WalkPre(b, q, sign, W)
      BY <1>4, <1>5 DEF WalkPre
    <3>2. WalkPost(b, q, x, u, W)
      BY <1>9, <2>1, <3>1, WalkStepped, Zenon
    <3> QED
      BY <3>2 DEF WalkPost
  <2> QED
    BY <1>6, <2>2
<1>10. G \in [(1..n) \X T -> T]
      /\ \A i \in 1..n : \A u \in T : G[i, u] = WalkStep(u, q, sign)
  BY <1>9
<1> HIDE DEF G, w0
<1>11. WalkRun(g, b, q, sign, n)
  <2>1. PICK f \in [0..n -> T] : RunOf(f, w0, n, G)
    BY <1>1, <1>8, <1>10, RunExists
  <2> DEFINE h == [i \in 0..n |-> IF i = 0 THEN w0 ELSE WalkStep(f[i - 1], q, sign)]
  <2>2. ASSUME NEW i \in 0..n PROVE f[i] = h[i]
    <3>1. f[i] = IF i = 0 THEN w0 ELSE G[i, f[i - 1]]
      BY <2>1 DEF RunOf
    <3>2. CASE i = 0
      BY <3>1, <3>2
    <3>3. CASE i # 0
      <4>1. i \in 1..n /\ i - 1 \in 0..n
        BY <1>1, <3>3
      <4>2. f[i - 1] \in T
        BY <4>1
      <4>3. h[i] = WalkStep(f[i - 1], q, sign)
        BY <3>3
      <4> HIDE DEF h
      <4> QED
        BY <1>10, <3>1, <3>3, <4>1, <4>2, <4>3
    <3> QED
      BY <3>2, <3>3
  <2>3. f = h
    <3>1. f = [i \in 0..n |-> f[i]] /\ h = [i \in 0..n |-> h[i]]
      OBVIOUS
    <3> HIDE DEF h
    <3> QED
      BY <2>2, <3>1
  <2>4. WalkRun(f, b, q, sign, n)
    BY <2>3 DEF WalkRun, w0
  <2>5. \E e : WalkRun(e, b, q, sign, n)
    BY <2>4
  <2> QED
    BY <2>5
<1> HIDE DEF g
<1>12. \A i \in 0..n : g[i] = IF i = 0 THEN w0 ELSE WalkStep(g[i - 1], q, sign)
  BY <1>11 DEF WalkRun, w0
<1> DEFINE D == {i \in 0..n : g[i] \in T /\ (g[i].stop \/ Level(g[i].core) = i)}
<1>13. 0 \in D
  BY <1>1, <1>4, <1>8, <1>12
<1>14. ASSUME NEW i \in 1..n, i - 1 \in D PROVE i \in D
  <2> DEFINE x == g[i - 1]
             u == g[i]
  <2>1. u = WalkStep(x, q, sign) /\ i \in 0..n /\ x \in T /\ (x.stop \/ Level(x.core) = i - 1)
    BY <1>1, <1>12, <1>14
  <2> HIDE DEF x, u
  <2>2. u \in T /\ (u.stop \/ (~x.stop /\ Level(u.core) = Level(x.core) + 1))
    BY <1>9, <2>1
  <2>3. u.stop \/ Level(u.core) = i
    BY <2>1, <2>2
  <2> QED
    BY <2>1, <2>2, <2>3 DEF u
<1>15. n \in D
  <2> HIDE DEF D
  <2>1. \A i \in 0..n : i \in D
    BY <1>1, <1>13, <1>14, AllSteps
  <2> QED
    BY <1>1, <2>1
<1> DEFINE x == g[n]
           d == x.core
<1>16. WalkInv(b, q, x, W) /\ (x.stop \/ Level(d) = n)
  BY <1>7, <1>15
<1>17. w = [x EXCEPT !.core.private = FALSE]
  BY <1>2
<1> HIDE DEF x
<1>18. /\ x = [core |-> d, res |-> x.res, stop |-> x.stop]
       /\ WalkCore(b, d, W) /\ x.stop \in BOOLEAN /\ x.res \in {0, 10, 20}
       /\ ~x.stop => Level(d) <= Len(q.assumptions) + Len(d.trail)
       /\ x.stop => x.res \in {10, 20} \/ Level(d) = 0
  BY <1>16 DEF WalkInv
<1>19. x.stop
  <2> SUFFICES ASSUME ~x.stop PROVE FALSE
    OBVIOUS
  <2>1. Len(d.trail) <= Cardinality(Var) /\ Len(d.trail) \in Nat
    BY <1>18, TrailShort, StructFields DEF WalkCore, Loose
  <2>2. Level(d) <= Len(q.assumptions) + Len(d.trail) /\ Level(d) = n
    BY <1>16, <1>18
  <2> DEFINE la == Len(q.assumptions)
             ld == Len(d.trail)
             ca == Cardinality(Var)
  <2>3. n = ca + la + 1 /\ la \in Nat /\ ca \in Nat /\ ld \in Nat /\ ld <= ca /\ n <= la + ld
    BY <1>1, <2>1, <2>2
  <2> HIDE DEF la, ld, ca
  <2> QED
    BY <2>3
<1>20. w.core = PrivatePut(d, FALSE) /\ w.res = x.res
  <2>1. w = [x EXCEPT !.core = [x.core EXCEPT !.private = FALSE]]
    BY <1>17
  <2>2. w = [core |-> [d EXCEPT !.private = FALSE], res |-> x.res, stop |-> x.stop]
    <3> DEFINE z == [x.core EXCEPT !.private = FALSE]
    <3>1. w = [x EXCEPT !.core = z]
      BY <2>1
    <3> HIDE DEF z
    <3>2. w = [core |-> z, res |-> x.res, stop |-> x.stop]
      BY <1>18, <3>1
    <3> QED
      BY <3>2 DEF z
  <2> QED
    BY <2>2 DEF PrivatePut
<1>21. WalkedFacts(c, w, d, W)
  <2>1. WalkCore(PrivatePut(c, TRUE), d, W)
    <3>1. b = PrivatePut(c, TRUE)
      BY Zenon DEF b
    <3>2. WalkCore(b, d, W)
      BY <1>18
    <3> QED
      BY <3>1, <3>2, Zenon
  <2>2. w.res \in {0, 10, 20} /\ (w.res = 0 => Level(d) = 0)
    BY <1>18, <1>19, <1>20
  <2>3. w.core = PrivatePut(d, FALSE)
    BY <1>20
  <2> QED
    BY <2>1, <2>2, <2>3, Zenon DEF WalkedFacts
<1> QED
  BY <1>21

-----------------------------------------------------------------------------
(* The trail is told again.                                                *)

\* The highest level among the first i literals.
Reached(c, i) == Max({c.trail[j].level : j \in 1..i})

\* The observed literals told on level k when the whole trail is told again,
\* and their sequence.
ReachedSet(c, k) == {i \in DOMAIN c.trail : Reached(c, i) = k /\ IsObserved(c, i)}

\* The literals of the trail up to n.
ReachedLits(c, k) == Chosen(LitSeq(c), ReachedSet(c, k))

\* What the propagator has heard then.
FullHeard(c) ==
  [k \in 1..Level(c) + 1 |-> IF k = 1 THEN c.heard[1] \o ReachedLits(c, 0)
                             ELSE ReachedLits(c, k - 1)]

\* A literal is told on the highest level on the trail up to it.
LEMMA ReachedIs ==
  ASSUME NEW c, Struct(c), NEW i \in DOMAIN c.trail
  PROVE  /\ Reached(c, i) \in 0..Level(c)
         /\ \A j \in 1..i : c.trail[j].level <= Reached(c, i)
         /\ \E j \in 1..i : c.trail[j].level = Reached(c, i)
<1> DEFINE S == {c.trail[j].level : j \in 1..i}
<1>1. /\ DOMAIN c.trail = 1..Len(c.trail) /\ Level(c) \in Nat /\ Len(c.trail) \in Nat
      /\ c.trail \in Seq(Entry) /\ Staged(c.trail, c.control) /\ Level(c) = Len(c.control)
  BY StructFields
<1>2. \A j \in 1..Len(c.trail) : c.trail[j].level \in Nat /\ c.trail[j].level <= Level(c)
  BY <1>1, TrailTypes DEF Staged
<1>3. i \in Nat /\ i >= 1 /\ i <= Len(c.trail)
  BY <1>1
<1>4. \A j \in 1..i : j \in 1..Len(c.trail)
  BY <1>1, <1>3
<1>5. S \in SUBSET (0..Level(c)) /\ S # {}
  <2>1. S \in SUBSET (0..Level(c))
    BY <1>1, <1>2, <1>4
  <2>2. i \in 1..i
    BY <1>3
  <2> QED
    BY <2>1, <2>2
<1>6. Reached(c, i) = Max(S)
  BY DEF Reached
<1>7. Max(S) \in S /\ \A x \in S : x <= Max(S)
  <2> HIDE DEF S
  <2> QED
    BY <1>1, <1>5, MaxFacts
<1> QED
  BY <1>5, <1>6, <1>7

\* What it hears on one level is true on that level, and is all that was found
\* while it was the highest.
HeardLevel(c, h, a) ==
  /\ h[a] \in Seq(Lit)
  /\ \A x \in DOMAIN h[a] : \E i \in DOMAIN c.trail :
       c.trail[i].lit = h[a][x] /\ c.trail[i].level < a
  /\ \A i \in DOMAIN c.trail : Reached(c, i) + 1 = a /\ IsObserved(c, i) =>
       \E x \in DOMAIN h[a] : h[a][x] = c.trail[i].lit

\* It hears just that.
LEMMA ReachedHeard ==
  ASSUME NEW c, Struct(c), NEW a \in 1..Level(c) + 1
  PROVE  /\ ReachedLits(c, a - 1) \in Seq(Lit)
         /\ \A x \in DOMAIN ReachedLits(c, a - 1) : \E i \in DOMAIN c.trail :
              c.trail[i].lit = ReachedLits(c, a - 1)[x] /\ c.trail[i].level < a
         /\ \A i \in DOMAIN c.trail : Reached(c, i) + 1 = a /\ IsObserved(c, i) =>
              \E x \in DOMAIN ReachedLits(c, a - 1) :
                ReachedLits(c, a - 1)[x] = c.trail[i].lit
<1> DEFINE I == ReachedSet(c, a - 1)
           ls == ReachedLits(c, a - 1)
<1>1. /\ c.trail \in Seq(Entry) /\ DOMAIN c.trail = 1..Len(c.trail)
      /\ Level(c) \in Nat /\ a \in Nat /\ a >= 1 /\ Len(c.trail) \in Nat
  BY StructFields
<1>2. I \in SUBSET (1..Len(c.trail)) /\ ls = Chosen(LitSeq(c), I)
  BY <1>1 DEF ReachedSet, ReachedLits
<1>3. \A i \in I : c.trail[i].level < a
  <2> TAKE i \in I
  <2>1. i \in DOMAIN c.trail /\ Reached(c, i) = a - 1
    BY DEF ReachedSet
  <2>2. i \in 1..i
    BY <1>1, <2>1
  <2>3. c.trail[i].level <= Reached(c, i) /\ c.trail[i].level \in Nat
    BY <1>1, <2>1, <2>2, ReachedIs, TrailTypes
  <2> QED
    BY <1>1, <2>1, <2>3
<1>4. \A i \in DOMAIN c.trail : Reached(c, i) + 1 = a /\ IsObserved(c, i) => i \in I
  <2> SUFFICES ASSUME NEW i \in DOMAIN c.trail, Reached(c, i) + 1 = a, IsObserved(c, i)
      PROVE  i \in I
    OBVIOUS
  <2>1. Reached(c, i) \in 0..Level(c)
    BY ReachedIs
  <2>2. Reached(c, i) = a - 1
    BY <1>1, <2>1
  <2> QED
    BY <2>2 DEF ReachedSet
<1> HIDE DEF I, ls
<1>5. ChosenL(c.trail, I, ls)
  BY <1>1, <1>2, ChosenLits
<1>6. /\ ls \in Seq(Lit) /\ DOMAIN ls = 1..Len(ls)
      /\ \A x \in 1..Len(ls) : Nth(I, x) \in I /\ ls[x] = c.trail[Nth(I, x)].lit
      /\ \A i \in I : \E x \in 1..Len(ls) : ls[x] = c.trail[i].lit
  BY <1>5 DEF ChosenL
<1>7. \A x \in DOMAIN ls : \E i \in DOMAIN c.trail :
        c.trail[i].lit = ls[x] /\ c.trail[i].level < a
  <2> TAKE x \in DOMAIN ls
  <2> DEFINE i == Nth(I, x)
  <2>1. i \in I /\ ls[x] = c.trail[i].lit
    BY <1>6
  <2> HIDE DEF i
  <2>2. i \in DOMAIN c.trail /\ c.trail[i].level < a
    BY <1>1, <1>2, <1>3, <2>1
  <2> QED
    BY <2>1, <2>2
<1>8. \A i \in DOMAIN c.trail : Reached(c, i) + 1 = a /\ IsObserved(c, i) =>
        \E x \in DOMAIN ls : ls[x] = c.trail[i].lit
  BY <1>4, <1>6
<1> QED
  BY <1>6, <1>7, <1>8 DEF ls

\* What is in the concatenation of two sequences.
LEMMA JoinIs ==
  ASSUME NEW T, NEW s \in Seq(T), NEW t \in Seq(T)
  PROVE  /\ s \o t \in Seq(T)
         /\ \A x \in DOMAIN (s \o t) :
              \/ x \in DOMAIN s /\ (s \o t)[x] = s[x]
              \/ \E y \in DOMAIN t : (s \o t)[x] = t[y]
         /\ \A y \in DOMAIN t : \E x \in DOMAIN (s \o t) : (s \o t)[x] = t[y]
<1> DEFINE r == s \o t
<1>1. /\ r \in Seq(T) /\ Len(r) = Len(s) + Len(t) /\ Len(s) \in Nat /\ Len(t) \in Nat
      /\ DOMAIN r = 1..Len(r) /\ DOMAIN s = 1..Len(s) /\ DOMAIN t = 1..Len(t)
      /\ \A i \in 1..Len(r) : r[i] = IF i <= Len(s) THEN s[i] ELSE t[i - Len(s)]
  OBVIOUS
<1> HIDE DEF r
<1>2. ASSUME NEW x \in DOMAIN r
      PROVE  \/ x \in DOMAIN s /\ r[x] = s[x]
             \/ \E y \in DOMAIN t : r[x] = t[y]
  <2>1. CASE x <= Len(s)
    BY <1>1, <2>1
  <2>2. CASE ~(x <= Len(s))
    <3>1. x - Len(s) \in DOMAIN t /\ r[x] = t[x - Len(s)]
      BY <1>1, <2>2
    <3> QED
      BY <3>1
  <2> QED
    BY <2>1, <2>2
<1>3. ASSUME NEW y \in DOMAIN t
      PROVE  \E x \in DOMAIN r : r[x] = t[y]
  <2>1. Len(s) + y \in DOMAIN r /\ ~(Len(s) + y <= Len(s)) /\ Len(s) + y - Len(s) = y
    BY <1>1
  <2>2. r[Len(s) + y] = t[y]
    BY <1>1, <2>1
  <2> QED
    BY <2>1, <2>2
<1>4. /\ \A x \in DOMAIN r : \/ x \in DOMAIN s /\ r[x] = s[x]
                             \/ \E y \in DOMAIN t : r[x] = t[y]
      /\ \A y \in DOMAIN t : \E x \in DOMAIN r : r[x] = t[y]
  BY <1>2, <1>3
<1> QED
  BY <1>1, <1>4 DEF r

\* A sequence of one element has a first one.
LEMMA FirstOf ==
  ASSUME NEW T, NEW s \in Seq(T), Len(s) = 1
  PROVE  1 \in DOMAIN s /\ s[1] \in T
OBVIOUS

\* The whole trail told again.
FullFacts(c, h) ==
  /\ h \in Seq(Seq(Lit)) /\ Len(h) = Level(c) + 1 /\ DOMAIN h = 1..Level(c) + 1
  /\ \A a \in 1..Level(c) + 1 : HeardLevel(c, h, a)

\* Level by level it hears what it has to.
LEMMA FullHears ==
  ASSUME NEW c, Struct(c), Len(c.heard) = 1, HeardTrue(c.trail, c.heard),
         NEW h, h = FullHeard(c)
  PROVE  FullFacts(c, h)
<1>1. /\ c.heard \in Seq(Seq(Lit)) /\ Level(c) \in Nat
  BY StructFields
<1> SUFFICES ASSUME NEW n \in Nat, n = Level(c) + 1 PROVE FullFacts(c, h)
  BY <1>1
<1>2. ASSUME NEW a \in 1..n PROVE HeardLevel(c, h, a)
  <2> DEFINE ls == ReachedLits(c, a - 1)
  <2>1. /\ ls \in Seq(Lit)
        /\ \A x \in DOMAIN ls : \E i \in DOMAIN c.trail :
              c.trail[i].lit = ls[x] /\ c.trail[i].level < a
        /\ \A i \in DOMAIN c.trail : Reached(c, i) + 1 = a /\ IsObserved(c, i) =>
              \E x \in DOMAIN ls : ls[x] = c.trail[i].lit
    <3>1. a \in 1..Level(c) + 1
      OBVIOUS
    <3> QED
      BY <3>1, ReachedHeard
  <2>2. CASE a = 1
    <3> DEFINE s == c.heard[1]
    <3>1. h[a] = s \o ls
      BY <1>1, <2>2 DEF FullHeard
    <3>2. 1 \in DOMAIN c.heard /\ s \in Seq(Lit)
      <4>1. Len(c.heard) = 1 /\ c.heard \in Seq(Seq(Lit))
        BY <1>1
      <4> QED
        BY <4>1, FirstOf
    <3>3. \A x \in DOMAIN s : \E i \in DOMAIN c.trail :
            c.trail[i].lit = s[x] /\ c.trail[i].level < a
      BY <2>2, <3>2 DEF HeardTrue
    <3> HIDE DEF s, ls
    <3> DEFINE r == s \o ls
    <3>4. /\ r \in Seq(Lit)
          /\ \A x \in DOMAIN r : \/ x \in DOMAIN s /\ r[x] = s[x]
                                 \/ \E y \in DOMAIN ls : r[x] = ls[y]
          /\ \A y \in DOMAIN ls : \E x \in DOMAIN r : r[x] = ls[y]
      BY <2>1, <3>2, JoinIs
    <3>5. h[a] = r
      BY <3>1
    <3> HIDE DEF r
    <3>6. \A x \in DOMAIN r : \E i \in DOMAIN c.trail :
            c.trail[i].lit = r[x] /\ c.trail[i].level < a
      BY <2>1, <3>3, <3>4
    <3>7. \A i \in DOMAIN c.trail : Reached(c, i) + 1 = a /\ IsObserved(c, i) =>
              \E x \in DOMAIN r : r[x] = c.trail[i].lit
      BY <2>1, <3>4
    <3> QED
      BY <3>4, <3>5, <3>6, <3>7 DEF HeardLevel
  <2>3. CASE a # 1
    <3>1. h[a] = ls
      BY <1>1, <2>3 DEF FullHeard
    <3> HIDE DEF ls
    <3> QED
      BY <2>1, <3>1 DEF HeardLevel
  <2> QED
    BY <2>2, <2>3
<1>3. h = [a \in 1..n |-> h[a]]
  BY <1>1 DEF FullHeard
<1>4. \A a \in 1..n : h[a] \in Seq(Lit)
  BY <1>2 DEF HeardLevel
<1>5. h \in Seq(Seq(Lit)) /\ Len(h) = n /\ DOMAIN h = 1..n
  BY <1>3, <1>4, SeqIs
<1> QED
  BY <1>2, <1>5 DEF FullFacts

\* What is put at the end of a private part of the search.
FullPut(c) == [c EXCEPT !.notified = Len(c.trail), !.heard = FullHeard(c)]

\* 'renotify_trail_after_local_search' does nothing in private steps, and on
\* level 0 what 'notify_assignments' does.
LEMMA RenotifiedIs ==
  ASSUME NEW c
  PROVE  Renotified(c) =
           IF ~Listens(c) THEN c ELSE IF Level(c) = 0 THEN Notified(c) ELSE FullPut(c)
BY DEF Renotified, FullPut, FullHeard, ReachedLits, ReachedSet, Reached

\* What it changes.
FullPutIs(c, d) ==
  /\ IsState(d) /\ Same(c, d) /\ d.trail = c.trail /\ d.control = c.control
  /\ d.propagated = c.propagated /\ d.conflict = c.conflict
  /\ d.notified = Len(c.trail) /\ d.heard = FullHeard(c)

\* It changes that.
LEMMA FullPutFields ==
  ASSUME NEW c, IsState(c), NEW d, d = FullPut(c)
  PROVE  FullPutIs(c, d)
<1>1. IsState(d)
  <2> DEFINE b == [c EXCEPT !.notified = Len(c.trail)]
  <2>1. IsState(b)
    BY Puts
  <2>2. d = [b EXCEPT !.heard = FullHeard(c)]
    BY DEF FullPut
  <2> DEFINE h == FullHeard(c)
  <2>3. d = [b EXCEPT !.heard = h]
    BY <2>2
  <2> HIDE DEF b, h
  <2>4. IsState([b EXCEPT !.heard = h])
    BY <2>1, Puts
  <2> QED
    BY <2>3, <2>4
<1> QED
  BY <1>1 DEF FullPutIs, FullPut, IsState, Fields, Same

\* What it promises: the invariant, and the same trail.
RenotifiedFacts(b, r, W, x) ==
  /\ Loose(r, W, x) /\ Ordered(r.trail) /\ Same(b, r) /\ r.trail = b.trail
  /\ r.control = b.control /\ r.conflict = b.conflict

\* The solver tells the propagator all that happened in private.
LEMMA RenotifiedFine ==
  ASSUME NEW d, NEW W, NEW o, Loose(d, W, o), Ordered(d.trail), d.private,
         NEW x \in BOOLEAN, ~x, NEW b, b = PrivatePut(d, x), NEW r, r = Renotified(b)
  PROVE  RenotifiedFacts(b, r, W, x)
<1>1. /\ Struct(d) /\ IsState(d) /\ FieldTypes(d) /\ Hears(d) /\ Late(d) /\ Sound(d, W)
      /\ Level(d) \in Nat /\ DOMAIN d.control = 1..Level(d) /\ Known(d)
      /\ DOMAIN d.trail = 1..Len(d.trail) /\ Len(d.trail) \in Nat
      /\ d.control \in Seq(Nat) /\ Staged(d.trail, d.control)
  BY StructFields DEF Loose
<1>2. PrivateIs(d, b, x)
  BY <1>1, PrivateFields
<1>3. /\ b.trail = d.trail /\ b.control = d.control /\ b.heard = d.heard
      /\ b.conflict = d.conflict /\ b.connected = d.connected /\ b.notified = d.notified
      /\ ~b.private /\ Level(b) = Level(d) /\ IsState(b)
  BY <1>2 DEF PrivateIs, Level
<1>4. r = IF ~Listens(b) THEN b ELSE IF Level(b) = 0 THEN Notified(b) ELSE FullPut(b)
  BY RenotifiedIs
<1>5. CASE Level(d) = 0 \/ ~d.connected
  <2>2. Loose(b, W, o) /\ (Ordered(d.trail) => Ordered(b.trail))
    BY <1>5, PrivateFine
  <2>3. CASE ~Listens(b)
    <3>1. r = b /\ Ordered(r.trail) /\ Same(b, r)
      BY <1>4, <2>2, <2>3, SameFacts
    <3>2. Loose(r, W, x)
      BY <2>2, <3>1 DEF Loose
    <3> QED
      BY <3>1, <3>2 DEF RenotifiedFacts
  <2>4. CASE Listens(b)
    <3>1. Level(b) = 0
      BY <1>3, <1>5, <2>4 DEF Listens
    <3>2. r = Notified(b)
      BY <1>4, <2>4, <3>1
    <3>3. /\ Loose(r, W, o) /\ (Ordered(b.trail) => Ordered(r.trail))
          /\ Same(b, r) /\ r.trail = b.trail /\ r.control = b.control
          /\ r.conflict = b.conflict
      BY <2>2, <3>2, NotifiedFine
    <3>4. Loose(r, W, x)
      BY <3>3 DEF Loose
    <3> QED
      BY <2>2, <3>3, <3>4 DEF RenotifiedFacts
  <2> QED
    BY <2>3, <2>4
<1>6. CASE Level(d) # 0 /\ d.connected
  <2>1. Listens(b) /\ r = FullPut(b)
    BY <1>3, <1>4, <1>6 DEF Listens
  <2>2. FullPutIs(b, r)
    BY <1>3, <2>1, FullPutFields
  <2>3. Len(d.heard) = 1 /\ HeardTrue(d.trail, d.heard)
    BY <1>1 DEF Struct, Hears, Hearing, Listens
  <2>4. FullHeard(b) = FullHeard(d)
    <3>1. b.trail = d.trail /\ b.observed = d.observed /\ b.heard = d.heard
          /\ Level(b) = Level(d)
      BY <1>2, <1>3 DEF PrivateIs
    <3>2. LitSeq(b) = LitSeq(d)
      BY <3>1 DEF LitSeq
    <3>3. \A i : Reached(b, i) = Reached(d, i)
      BY <3>1 DEF Reached
    <3>4. \A k : ReachedSet(b, k) = ReachedSet(d, k)
      BY <3>1, <3>3 DEF ReachedSet, IsObserved
    <3>5. \A k : ReachedLits(b, k) = ReachedLits(d, k)
      BY <3>2, <3>4 DEF ReachedLits
    <3> QED
      BY <3>1, <3>5 DEF FullHeard
  <2>5. FullFacts(d, r.heard)
    BY <1>1, <2>2, <2>3, <2>4, FullHears DEF FullPutIs
  <2>6. /\ r.heard \in Seq(Seq(Lit)) /\ Len(r.heard) = Level(d) + 1
        /\ DOMAIN r.heard = 1..Level(d) + 1
        /\ \A a \in 1..Level(d) + 1 : HeardLevel(d, r.heard, a)
    BY <2>5 DEF FullFacts
  <2>7. /\ r.trail = d.trail /\ r.control = d.control /\ r.conflict = d.conflict
        /\ r.connected /\ r.propagated = d.propagated /\ ~r.private
        /\ r.notified = Len(d.trail) /\ Listens(r) /\ Level(r) = Level(d)
        /\ r.observed = d.observed
    BY <1>2, <1>3, <1>6, <2>2 DEF FullPutIs, Same, Listens, PrivateIs, Level
  <2>20. /\ r.chrono = d.chrono /\ r.vars = d.vars /\ r.clauses = d.clauses
         /\ r.unsat = d.unsat /\ r.newest = d.newest /\ r.extended = d.extended
         /\ r.model = d.model /\ r.connected = d.connected
         /\ r.observed = d.observed /\ r.frozen = d.frozen /\ r.lemmas = d.lemmas
         /\ r.reasonOf = d.reasonOf
    BY <1>2, <2>2 DEF PrivateIs, FullPutIs, Same
  <2>8. r \in Core
    <3>2. r.private \in BOOLEAN /\ r.notified \in Nat
      <4>1. r.private = x
        BY <1>2, <2>2 DEF PrivateIs, FullPutIs, Same
      <4> QED
        BY <1>1, <2>7, <4>1
    <3>3. r.heard \in Seq(Seq(Lit))
      BY <2>6
    <3>1. FieldTypes(r)
      BY <1>1, <2>20, <2>7, <3>2, <3>3 DEF FieldTypes
    <3> QED
      BY <2>2, <3>1, StateCore DEF FullPutIs
  <2>9. Known(r)
    <3>1. r.notified <= Len(r.trail)
      BY <1>1, <2>7
    <3> QED
      BY <1>1, <2>20, <2>7, <3>1 DEF Known
  <2>10. Struct(r)
    BY <1>1, <2>6, <2>7, <2>8, <2>9 DEF Struct
  <2>11. HeardTrue(r.trail, r.heard)
    <3>1. \A a \in 1..Level(d) + 1 : \A y \in DOMAIN r.heard[a] :
            \E i \in DOMAIN d.trail : d.trail[i].lit = r.heard[a][y] /\ d.trail[i].level < a
      BY <2>6 DEF HeardLevel
    <3> QED
      <4> DEFINE h == r.heard
                 D == 1..Level(d) + 1
                 t == d.trail
      <4>1. DOMAIN h = D /\ r.trail = t
        BY <2>6, <2>7
      <4>2. \A a \in D : \A y \in DOMAIN h[a] :
            \E i \in DOMAIN t : t[i].lit = h[a][y] /\ t[i].level < a
        BY <3>1
      <4> HIDE DEF h, D, t
      <4>3. HeardTrue(t, h)
        BY <4>1, <4>2, Zenon DEF HeardTrue
      <4> QED
        BY <4>1, <4>3 DEF h
  <2>12. HeardAll(r.trail, r.control, r.heard, r.notified, r.observed)
    <3> SUFFICES ASSUME NEW j \in 1..Len(d.trail), Abs(d.trail[j].lit) \in d.observed
        PROVE  ToldFor(d.trail, d.control, r.heard, j)
      BY <2>7 DEF HeardAll
    <3> DEFINE a == Reached(d, j) + 1
    <3>1. /\ Reached(d, j) \in 0..Level(d)
          /\ \E i \in 1..j : d.trail[i].level = Reached(d, j)
      BY <1>1, ReachedIs
    <3>2. a \in 1..Level(d) + 1
      BY <1>1, <3>1
    <3>3. IsObserved(d, j)
      BY DEF IsObserved
    <3>4. \E y \in DOMAIN r.heard[a] : r.heard[a][y] = d.trail[j].lit
      BY <1>1, <2>6, <3>2, <3>3 DEF HeardLevel
    <3>5. ASSUME NEW b1 \in DOMAIN d.control, j <= d.control[b1]
          PROVE  a <= b1
      <4>1. PICK i \in 1..j : d.trail[i].level = Reached(d, j)
        BY <3>1
      <4>2. i \in DOMAIN d.trail /\ i <= d.control[b1]
        BY <1>1, <3>5, <4>1, ControlTypes
      <4>3. d.trail[i].level < b1
        BY <1>1, <4>2 DEF Staged
      <4> QED
        BY <1>1, <3>1, <4>1, <4>3
    <3> HIDE DEF a
    <3> QED
      BY <2>6, <3>2, <3>4, <3>5 DEF ToldFor
  <2>13. \A k \in DOMAIN r.control : r.control[k] <= r.notified
    <3>1. \A k \in DOMAIN d.control : d.control[k] <= Len(d.trail)
      BY <1>1 DEF Staged
    <3> QED
      BY <2>7, <3>1
  <2>14. Hears(r)
    BY <2>11, <2>12, <2>13 DEF Hears, Hearing
  <2>15. Late(r) /\ Sound(r, W)
    <3>1. Late(r)
      BY <1>1, <2>20, <2>7 DEF Late
    <3>2. Sound(r, W)
      BY <1>1, <2>20, <2>7 DEF Sound
    <3> QED
      BY <3>1, <3>2
  <2>16. Loose(r, W, x)
    BY <2>10, <2>14, <2>15 DEF Loose
  <2> QED
    BY <2>2, <2>7, <2>16 DEF RenotifiedFacts, FullPutIs
<1> QED
  BY <1>5, <1>6

-----------------------------------------------------------------------------
(* Calls that the search does not see.                                     *)

\* What an operation that leaves the trail alone keeps.
Calm(c, d, W, o) ==
  /\ Loose(d, W, o) /\ (Ordered(c.trail) => Ordered(d.trail)) /\ Quiet(c, d)
  /\ d.lemmas = c.lemmas /\ c.vars \subseteq d.vars

\* A change the search does not see is calm.
LEMMA CalmFine ==
  ASSUME NEW c, NEW W, NEW o, Loose(c, W, o), NEW d \in Core, Quiet(c, d),
         d.lemmas = c.lemmas, c.vars \subseteq d.vars,
         \A v \in c.observed : d.frozen[v] > 0
  PROVE  Calm(c, d, W, o)
<1>1. Struct(c) /\ Sound(c, W)
  BY DEF Loose
<1>2. Known(c)
  BY <1>1, StructFields
<1>3. Near(c, d)
  BY DEF Near, Quiet
<1>4. d.propagated <= Len(d.trail)
  BY <1>2 DEF Quiet, Known
<1>5. \A e \in d.clauses : Over(e.lits, d.vars)
  BY <1>2 DEF Quiet, Known, Over
<1>6. Sound(d, W)
  BY <1>1 DEF Sound, Quiet
<1>7. Loose(d, W, o) /\ (Ordered(c.trail) => Ordered(d.trail))
  BY <1>3, <1>4, <1>5, <1>6, NearLoose
<1> QED
  BY <1>7 DEF Calm

\* Two of them are like one.
LEMMA CalmTrans ==
  \A c, d, e, W, o : Calm(c, d, W, o) /\ Calm(d, e, W, o) => Calm(c, e, W, o)
<1> SUFFICES ASSUME NEW c, NEW d, NEW e, NEW W, NEW o, Calm(c, d, W, o), Calm(d, e, W, o)
    PROVE  Calm(c, e, W, o)
  OBVIOUS
<1>1. Quiet(c, e)
  BY Zenon DEF Calm, Quiet
<1> QED
  BY <1>1 DEF Calm

\* To forget the extended values is calm,
LEMMA UnextendedCalm ==
  ASSUME NEW c, NEW W, NEW o, Loose(c, W, o), NEW d, d = Unextended(c)
  PROVE  Calm(c, d, W, o) /\ d.vars = c.vars /\ d.frozen = c.frozen
<1>1. UnextendedFacts(c, d, W, o)
  BY UnextendedFine
<1> QED
  BY <1>1 DEF UnextendedFacts, Calm, Frame

\* and so it is to have more variables
VarsPut(c, V) == [c EXCEPT !.vars = V]

\* (they have no clauses yet),
LEMMA VarsPutFine ==
  ASSUME NEW c, NEW W, NEW o, Loose(c, W, o), NEW V \in SUBSET Var, c.vars \subseteq V,
         NEW d, d = VarsPut(c, V)
  PROVE  Calm(c, d, W, o) /\ d.vars = V /\ d.frozen = c.frozen
<1>1. Struct(c) /\ IsState(c) /\ FieldTypes(c) /\ Known(c)
  BY StructFields DEF Loose
<1>2. IsState(d)
  BY <1>1, Puts DEF VarsPut
<1>3. /\ Quiet(c, d) /\ d.vars = V /\ d.frozen = c.frozen /\ d.lemmas = c.lemmas
      /\ d.extended = c.extended /\ d.model = c.model /\ d.newest = c.newest
  BY <1>1, SMT DEF VarsPut, Quiet, IsState, Fields
<1>4. FieldTypes(d)
  BY <1>1, <1>3 DEF FieldTypes, Quiet
<1>5. d \in Core
  BY <1>2, <1>4, StateCore
<1>6. \A v \in c.observed : d.frozen[v] > 0
  BY <1>1, <1>3 DEF Known
<1>7. Calm(c, d, W, o)
  BY <1>3, <1>5, <1>6, CalmFine
<1> QED
  BY <1>3, <1>7

\* and to freeze others
FrozenPut(c, g) == [c EXCEPT !.frozen = g]

\* while those observed stay frozen,
LEMMA FrozenPutFine ==
  ASSUME NEW c, NEW W, NEW o, Loose(c, W, o), NEW g \in [Var -> Nat],
         \A v \in c.observed : g[v] > 0, NEW d, d = FrozenPut(c, g)
  PROVE  Calm(c, d, W, o) /\ d.vars = c.vars /\ d.frozen = g
<1>1. Struct(c) /\ IsState(c) /\ FieldTypes(c)
  BY StructFields DEF Loose
<1>2. IsState(d)
  BY <1>1, Puts DEF FrozenPut
<1>3. /\ Quiet(c, d) /\ d.vars = c.vars /\ d.frozen = g /\ d.lemmas = c.lemmas
      /\ d.extended = c.extended /\ d.model = c.model /\ d.newest = c.newest
  BY <1>1, SMT DEF FrozenPut, Quiet, IsState, Fields
<1>4. FieldTypes(d)
  BY <1>1, <1>3 DEF FieldTypes, Quiet
<1>5. d \in Core
  BY <1>2, <1>4, StateCore
<1>6. Calm(c, d, W, o)
  BY <1>3, <1>5, CalmFine
<1> QED
  BY <1>3, <1>6

\* and to extend the values to a model.
LEMMA ExtendedFine ==
  ASSUME NEW c, NEW W, NEW o, Loose(c, W, o), NEW d, d = Extended(c)
  PROVE  Calm(c, d, W, o) /\ d.vars = c.vars
<1>1. Struct(c) /\ IsState(c) /\ FieldTypes(c) /\ Known(c)
  BY StructFields DEF Loose
<1> DEFINE M == Model(c)
           a == [c EXCEPT !.extended = TRUE]
           b == [a EXCEPT !.model = M]
<1>2. d = b
  <2>1. d = [c EXCEPT !.extended = TRUE, !.model = M]
    BY DEF Extended
  <2> HIDE DEF M
  <2> QED
    BY <1>1, <2>1, SMT DEF IsState, Fields
<1>3. IsState(a)
  BY <1>1, Puts
<1>4. M \in SUBSET Var
  BY DEF Model
<1> HIDE DEF M
<1>5. IsState(b)
  <2> HIDE DEF a
  <2> QED
    BY <1>3, Puts
<1>6. /\ Quiet(c, b) /\ b.vars = c.vars /\ b.frozen = c.frozen /\ b.lemmas = c.lemmas
      /\ b.extended = TRUE /\ b.model = M /\ b.newest = c.newest
  BY <1>1, SMT DEF Quiet, IsState, Fields
<1> HIDE DEF b
<1>7. FieldTypes(b)
  BY <1>1, <1>4, <1>6 DEF FieldTypes, Quiet
<1>8. b \in Core
  BY <1>5, <1>7, StateCore
<1>9. \A v \in c.observed : b.frozen[v] > 0
  BY <1>1, <1>6 DEF Known
<1>10. Calm(c, b, W, o)
  BY <1>6, <1>8, <1>9, CalmFine
<1> QED
  BY <1>2, <1>6, <1>10

\* What 'freeze' does to a variable.
FreezeOf(c, v) ==
  [Unextended(c) EXCEPT !.frozen[v] = @ + 1, !.vars = @ \cup {v}]

\* It is calm.
LEMMA FreezeFine ==
  ASSUME NEW c, NEW W, NEW o, Loose(c, W, o), NEW v \in Var, NEW d, d = FreezeOf(c, v)
  PROVE  Calm(c, d, W, o) /\ v \in d.vars
<1> DEFINE u == Unextended(c)
           g == [u.frozen EXCEPT ![v] = @ + 1]
           f == FrozenPut(u, g)
           V == f.vars \cup {v}
<1>1. Calm(c, u, W, o) /\ Loose(u, W, o)
  BY UnextendedCalm DEF Calm
<1>2. d = VarsPut(f, f.vars \cup {v})
  <2> HIDE DEF u
  <2>1. IsState(u)
    BY <1>1, StructFields DEF Loose
  <2>2. d = [u EXCEPT !.frozen = [u.frozen EXCEPT ![v] = u.frozen[v] + 1],
                      !.vars = u.vars \cup {v}]
    BY DEF FreezeOf, u
  <2> QED
    BY <2>1, <2>2, SMT DEF VarsPut, FrozenPut, IsState, Fields
<1> HIDE DEF u
<1>3. Struct(u) /\ FieldTypes(u) /\ Known(u)
  BY <1>1, StructFields DEF Loose
<1>4. g \in [Var -> Nat] /\ \A x \in u.observed : g[x] > 0
  <2>1. u.frozen \in [Var -> Nat] /\ u.observed \in SUBSET Var
        /\ \A x \in u.observed : u.frozen[x] > 0
    BY <1>3 DEF FieldTypes, Known
  <2> QED
    BY <2>1
<1> HIDE DEF g
<1>5. Calm(u, f, W, o) /\ f.vars = u.vars /\ Loose(f, W, o)
  BY <1>1, <1>4, FrozenPutFine DEF Calm
<1>6. V \in SUBSET Var /\ f.vars \subseteq V
  BY <1>3, <1>5 DEF FieldTypes
<1> HIDE DEF f
<1>7. Calm(f, d, W, o) /\ d.vars = V
  <2>1. d = VarsPut(f, V)
    BY <1>2
  <2> HIDE DEF V
  <2> QED
    BY <1>5, <1>6, <2>1, VarsPutFine
<1>8. Calm(u, d, W, o)
  BY <1>5, <1>7, CalmTrans
<1> QED
  BY <1>1, <1>7, <1>8, CalmTrans

\* So is 'melt', which may melt an observed variable only as often as the user
\* has frozen it: the propagator has frozen it once more.
LEMMA MoltenFine ==
  ASSUME NEW c, NEW W, NEW o, Loose(c, W, o), NEW v \in Var, c.frozen[v] > 0,
         NEW d, d = Molten(c, v)
  PROVE  Calm(c, d, W, o) /\ d.vars = c.vars
<1> DEFINE u == Unextended(c)
           n == IF u.frozen[v] = 1 /\ v \in c.observed THEN 1 ELSE u.frozen[v] - 1
           g == [u.frozen EXCEPT ![v] = n]
<1>1. Calm(c, u, W, o) /\ Loose(u, W, o) /\ u.vars = c.vars /\ u.frozen = c.frozen
      /\ u.observed = c.observed
  BY UnextendedCalm DEF Calm, Quiet
<1>2. d = FrozenPut(u, g)
  BY DEF Molten, FrozenPut
<1> HIDE DEF u
<1>3. Struct(u) /\ FieldTypes(u) /\ Known(u)
  BY <1>1, StructFields DEF Loose
<1>4. g \in [Var -> Nat] /\ \A x \in u.observed : g[x] > 0
  <2>1. u.frozen \in [Var -> Nat] /\ u.observed \in SUBSET Var
        /\ \A x \in u.observed : u.frozen[x] > 0
    BY <1>3 DEF FieldTypes, Known
  <2>2. u.frozen[v] \in Nat /\ u.frozen[v] > 0
    BY <1>1, <2>1
  <2>3. n \in Nat /\ (v \in u.observed => n > 0)
    BY <1>1, <2>2
  <2> QED
    BY <2>1, <2>3
<1> HIDE DEF g
<1>5. Calm(u, d, W, o) /\ d.vars = u.vars
  BY <1>1, <1>2, <1>4, FrozenPutFine
<1> QED
  BY <1>1, <1>5, CalmTrans

\* Fewer models are asked for.
LEMMA LooseLess ==
  ASSUME NEW c, NEW W, NEW o, Loose(c, W, o), NEW V \in SUBSET W
  PROVE  Loose(c, V, o)
<1>1. Sound(c, W)
  BY DEF Loose
<1>2. Sound(c, V)
  BY <1>1 DEF Sound
<1> QED
  BY <1>2 DEF Loose

-----------------------------------------------------------------------------
(* Variables that are observed.                                            *)

\* What 'add_observed_var' does first: the variable is observed and frozen.
SeenOf(c, v) ==
  [Unextended(c) EXCEPT !.observed = @ \cup {v}, !.vars = @ \cup {v},
                        !.frozen[v] = @ + 1]

\* What has changed then.
SeenIs(u, d, v) ==
  /\ d \in Core
  /\ d.trail = u.trail /\ d.control = u.control /\ d.heard = u.heard
  /\ d.notified = u.notified /\ d.propagated = u.propagated
  /\ d.conflict = u.conflict /\ d.unsat = u.unsat /\ d.clauses = u.clauses
  /\ d.newest = u.newest /\ d.extended = u.extended /\ d.model = u.model
  /\ d.chrono = u.chrono /\ d.connected = u.connected /\ d.private = u.private
  /\ d.lemmas = u.lemmas /\ d.reasonOf = u.reasonOf
  /\ d.observed = u.observed \cup {v} /\ d.vars = u.vars \cup {v}
  /\ \A x \in d.observed : d.frozen[x] > 0

\* So it is.
LEMMA SeenFields ==
  ASSUME NEW u, Struct(u), NEW v \in Var, NEW d,
         d = [u EXCEPT !.observed = u.observed \cup {v}, !.vars = u.vars \cup {v},
                       !.frozen = [u.frozen EXCEPT ![v] = u.frozen[v] + 1]]
  PROVE  SeenIs(u, d, v)
<1> DEFINE O == u.observed \cup {v}
           V == u.vars \cup {v}
           g == [u.frozen EXCEPT ![v] = u.frozen[v] + 1]
           a == [u EXCEPT !.observed = O]
           b == [a EXCEPT !.vars = V]
           e == [b EXCEPT !.frozen = g]
<1>1. IsState(u) /\ FieldTypes(u) /\ Known(u)
  BY StructFields
<1>2. /\ O \in SUBSET Var /\ V \in SUBSET Var /\ g \in [Var -> Nat]
      /\ \A x \in O : g[x] > 0
  <2>1. /\ u.observed \in SUBSET Var /\ u.vars \in SUBSET Var /\ u.frozen \in [Var -> Nat]
        /\ \A x \in u.observed : u.frozen[x] > 0
    BY <1>1 DEF FieldTypes, Known
  <2> QED
    BY <2>1
<1>3. d = [u EXCEPT !.observed = O, !.vars = V, !.frozen = g]
  OBVIOUS
<1> HIDE DEF O, V, g
<1>4. d = e
  BY <1>3
<1>5. IsState(a)
  BY <1>1, Puts
<1>6. IsState(b)
  BY <1>5, Puts
<1>7. IsState(e)
  <2> HIDE DEF b
  <2> QED
    BY <1>6, Puts
<1>8. /\ e.trail = u.trail /\ e.control = u.control /\ e.heard = u.heard
      /\ e.notified = u.notified /\ e.propagated = u.propagated
      /\ e.conflict = u.conflict /\ e.unsat = u.unsat /\ e.clauses = u.clauses
      /\ e.newest = u.newest /\ e.extended = u.extended /\ e.model = u.model
      /\ e.chrono = u.chrono /\ e.connected = u.connected /\ e.private = u.private
      /\ e.lemmas = u.lemmas /\ e.reasonOf = u.reasonOf
      /\ e.observed = O /\ e.vars = V /\ e.frozen = g
  BY <1>1, SMT DEF IsState, Fields
<1> HIDE DEF e
<1>9. FieldTypes(e)
  BY <1>1, <1>2, <1>8 DEF FieldTypes
<1>10. e \in Core
  BY <1>7, <1>9, StateCore
<1>11. \A x \in e.observed : e.frozen[x] > 0
  BY <1>2, <1>8
<1> QED
  BY <1>4, <1>8, <1>10, <1>11 DEF SeenIs, O, V

\* The propagator may have missed what it observes only now.
SeenFacts(c, d, v, W, o) ==
  /\ Part(d, W, o, c.observed) /\ (Ordered(c.trail) => Ordered(d.trail))
  /\ d.trail = c.trail /\ d.control = c.control /\ d.heard = c.heard
  /\ d.notified = c.notified /\ d.propagated = c.propagated
  /\ d.conflict = c.conflict /\ d.unsat = c.unsat
  /\ d.chrono = c.chrono /\ d.connected = c.connected /\ d.private = c.private
  /\ d.lemmas = c.lemmas /\ d.observed = c.observed \cup {v} /\ d.vars = c.vars \cup {v}

\* The rest of the invariant is kept.
LEMMA SeenFine ==
  ASSUME NEW c, NEW W, NEW o, Loose(c, W, o), c.connected, NEW v \in Var,
         NEW d, d = SeenOf(c, v)
  PROVE  SeenFacts(c, d, v, W, o)
<1> DEFINE u == Unextended(c)
<1>1. Calm(c, u, W, o) /\ Loose(u, W, o) /\ u.vars = c.vars /\ Quiet(c, u)
      /\ u.lemmas = c.lemmas /\ (Ordered(c.trail) => Ordered(u.trail))
  BY UnextendedCalm DEF Calm
<1>2. d = [u EXCEPT !.observed = u.observed \cup {v}, !.vars = u.vars \cup {v},
                    !.frozen = [u.frozen EXCEPT ![v] = u.frozen[v] + 1]]
  BY DEF SeenOf
<1> HIDE DEF u
<1>3. /\ Struct(u) /\ Hears(u) /\ Late(u) /\ Sound(u, W) /\ (o => Once(u)) /\ Known(u)
      /\ DOMAIN u.trail = 1..Len(u.trail)
  BY <1>1, StructFields DEF Loose
<1>4. SeenIs(u, d, v)
  BY <1>2, <1>3, SeenFields
<1>5. /\ d \in Core
      /\ d.trail = u.trail /\ d.control = u.control /\ d.heard = u.heard
      /\ d.notified = u.notified /\ d.propagated = u.propagated
      /\ d.conflict = u.conflict /\ d.unsat = u.unsat /\ d.clauses = u.clauses
      /\ d.chrono = u.chrono /\ d.connected = u.connected /\ d.private = u.private
      /\ d.lemmas = u.lemmas /\ d.reasonOf = u.reasonOf
      /\ d.observed = u.observed \cup {v} /\ d.vars = u.vars \cup {v}
      /\ \A x \in d.observed : d.frozen[x] > 0
  BY <1>4 DEF SeenIs
<1>6. Known(d)
  BY <1>3, <1>5 DEF Known, Over
<1>7. d.connected /\ (Listens(d) <=> Listens(u))
  BY <1>1, <1>5 DEF Quiet, Listens
<1>8. Struct(d)
  BY <1>3, <1>5, <1>6, <1>7 DEF Struct, Level
<1>9. Hearing(d, u.observed)
  BY <1>3, <1>5, <1>7 DEF Hears, Hearing
<1>10. Late(d)
  <2>1. LateOk(u.trail, u.connected, u.observed, u.lemmas, u.reasonOf)
    BY <1>3 DEF Late
  <2> QED
    BY <1>5, <2>1 DEF Late, LateOk
<1>11. Sound(d, W)
  BY <1>3, <1>5 DEF Sound
<1>12. o => Once(d)
  BY <1>3, <1>5 DEF Once
<1>13. u.observed = c.observed /\ u.trail = c.trail /\ u.control = c.control
       /\ u.heard = c.heard /\ u.notified = c.notified /\ u.propagated = c.propagated
       /\ u.conflict = c.conflict /\ u.unsat = c.unsat /\ u.chrono = c.chrono
       /\ u.connected = c.connected /\ u.private = c.private
  BY <1>1 DEF Quiet
<1>14. Part(d, W, o, c.observed)
  BY <1>5, <1>8, <1>9, <1>10, <1>11, <1>12, <1>13 DEF Part
<1> QED
  BY <1>1, <1>5, <1>13, <1>14 DEF SeenFacts

\* The propagator has missed nothing when the new variable has no value.
LEMMA PartLoose ==
  ASSUME NEW d, NEW W, NEW o, NEW O, Part(d, W, o, O), NEW v \in Var,
         d.observed = O \cup {v}, ~IsAssigned(d, v)
  PROVE  Loose(d, W, o)
<1>1. /\ Struct(d) /\ Hearing(d, O) /\ Late(d) /\ Sound(d, W) /\ (o => Once(d))
  BY DEF Part
<1>2. /\ d.trail \in Seq(Entry) /\ DOMAIN d.trail = 1..Len(d.trail)
      /\ d.notified \in Nat /\ d.notified <= Len(d.trail) /\ Len(d.trail) \in Nat
  BY <1>1, StructFields
<1>3. HeardAll(d.trail, d.control, d.heard, d.notified, d.observed)
  <2> SUFFICES ASSUME NEW j \in 1..d.notified, Abs(d.trail[j].lit) \in d.observed
      PROVE  ToldFor(d.trail, d.control, d.heard, j)
    BY DEF HeardAll
  <2>1. j \in DOMAIN d.trail /\ d.trail[j].lit \in Lit
    BY <1>2, TrailTypes
  <2>2. Abs(d.trail[j].lit) # v
    <3>1. d.trail[j].lit # v /\ d.trail[j].lit # -v
      BY <2>1 DEF IsAssigned, IsTrue, IsFalse, Lits
    <3>2. v \in Lit /\ Abs(v) = v
      BY VarFacts
    <3> QED
      BY <2>1, <3>1, <3>2, LitFacts
  <2>3. Abs(d.trail[j].lit) \in O
    BY <2>2
  <2> QED
    BY <1>1, <2>3 DEF Hearing, HeardAll
<1>4. Hears(d)
  BY <1>1, <1>3 DEF Hears, Hearing
<1> QED
  BY <1>1, <1>4 DEF Loose

\* Nothing changes but what the propagator has heard.
ToldFieldFacts(b, d) ==
  /\ d \in Core /\ Same(b, d) /\ d.trail = b.trail /\ d.control = b.control
  /\ d.notified = b.notified /\ d.propagated = b.propagated
  /\ d.conflict = b.conflict

\* That is so when it is told something.
LEMMA ToldFields ==
  ASSUME NEW b, Struct(b), NEW ls \in Seq(Lit), NEW d, d = Told(b, ls)
  PROVE  ToldFieldFacts(b, d) /\ ToldFacts(b.heard, d.heard, Len(b.heard), ls)
<1> DEFINE h == [b.heard EXCEPT ![Len(b.heard)] = @ \o ls]
           e == [b EXCEPT !.heard = h]
<1>1. IsState(b) /\ FieldTypes(b) /\ b.heard \in Seq(Seq(Lit)) /\ Len(b.heard) >= 1
  BY StructFields
<1>2. ToldFacts(b.heard, h, Len(b.heard), ls)
  BY <1>1, ToldSeq
<1>3. h \in Seq(Seq(Lit))
  BY <1>2 DEF ToldFacts
<1>4. d = e
  BY DEF Told
<1> HIDE DEF h
<1>5. IsState(e)
  BY <1>1, Puts
<1>6. /\ e.heard = h /\ e.trail = b.trail /\ e.control = b.control
      /\ e.notified = b.notified /\ e.propagated = b.propagated
      /\ e.conflict = b.conflict /\ Same(b, e)
  BY <1>1, SMT DEF IsState, Fields, Same
<1> HIDE DEF e
<1>7. FieldTypes(e)
  BY <1>1, <1>3, <1>6 DEF FieldTypes, Same
<1>8. e \in Core
  BY <1>5, <1>7, StateCore
<1> QED
  BY <1>2, <1>4, <1>6, <1>8 DEF ToldFieldFacts

\* A literal is a sequence of one.
LEMMA OneLit ==
  ASSUME NEW l \in Lit
  PROVE  <<l>> \in Seq(Lit) /\ Len(<<l>>) = 1 /\ <<l>>[1] = l
  OBVIOUS

\* The invariant holds again.
ToldRootFacts(b, d, W, o) ==
  Loose(d, W, o) /\ ToldFieldFacts(b, d)

\* It does when the propagator is told at once of a variable that is fixed.
LEMMA ToldRoot ==
  ASSUME NEW b, NEW W, NEW o, NEW O, Part(b, W, o, O), Level(b) = 0, NEW v \in Var,
         b.observed = O \cup {v}, b.connected, NEW l \in {v, -v}, IsTrue(b, l),
         NEW d, d = Told(b, <<l>>)
  PROVE  ToldRootFacts(b, d, W, o)
<1> DEFINE n == Len(b.heard)
           ls == <<l>>
<1>1. /\ Struct(b) /\ Hearing(b, O) /\ O \in SUBSET b.observed
      /\ Late(b) /\ Sound(b, W) /\ (o => Once(b))
  BY DEF Part
<1>2. l \in Lit /\ v \in Lit /\ Abs(l) = v
  BY VarFacts
<1>3. ls \in Seq(Lit) /\ Len(ls) = 1 /\ ls[1] = l
  BY <1>2, OneLit
<1>4. ToldFieldFacts(b, d) /\ ToldFacts(b.heard, d.heard, n, ls)
  <2> HIDE DEF ls
  <2> QED
    BY <1>1, <1>3, ToldFields DEF ls
<1>5. n = 1 /\ Len(b.heard) = 1
  BY <1>1 DEF Struct
<1> HIDE DEF n, ls
<1>6. /\ b.trail \in Seq(Entry) /\ DOMAIN b.trail = 1..Len(b.trail)
      /\ b.notified \in Nat /\ b.notified <= Len(b.trail) /\ Len(b.trail) \in Nat
      /\ b.control \in Seq(Nat) /\ DOMAIN b.control = 1..Level(b) /\ Staged(b.trail, b.control)
      /\ Len(b.control) = 0 /\ Known(b)
  BY <1>1, StructFields
<1>7. \A j \in DOMAIN b.trail : b.trail[j].level = 0
  <2> TAKE j \in DOMAIN b.trail
  <2>1. b.trail[j].level <= 0 /\ b.trail[j].level \in Nat
    BY <1>6, TrailTypes DEF Staged
  <2> QED
    BY <2>1
<1>8. DOMAIN b.control = {}
  BY <1>6
<1>9. /\ d \in Core /\ Same(b, d) /\ d.trail = b.trail /\ d.control = b.control
      /\ d.notified = b.notified /\ d.propagated = b.propagated /\ d.conflict = b.conflict
      /\ d.connected /\ (Listens(d) <=> Listens(b)) /\ d.observed = O \cup {v}
  BY <1>4, SameFacts DEF ToldFieldFacts, Same
<1>10. /\ Len(d.heard) = 1 /\ DOMAIN d.heard = 1..1 /\ DOMAIN b.heard = 1..1
       /\ \A x \in DOMAIN b.heard[1] : x \in DOMAIN d.heard[1] /\ d.heard[1][x] = b.heard[1][x]
       /\ \A x \in DOMAIN d.heard[1] :
            (x \in DOMAIN b.heard[1] /\ d.heard[1][x] = b.heard[1][x]) \/ d.heard[1][x] = l
       /\ \E x \in DOMAIN d.heard[1] : d.heard[1][x] = l
  <2>1. ToldFacts(b.heard, d.heard, 1, ls)
    BY <1>4, <1>5
  <2>2. /\ Len(d.heard) = 1 /\ DOMAIN d.heard = 1..1 /\ DOMAIN b.heard = 1..1
        /\ DOMAIN d.heard[1] = 1..Len(b.heard[1]) + Len(ls)
        /\ DOMAIN b.heard[1] = 1..Len(b.heard[1]) /\ Len(b.heard[1]) \in Nat
        /\ \A x \in 1..Len(b.heard[1]) : d.heard[1][x] = b.heard[1][x]
        /\ \A x \in 1..Len(ls) : d.heard[1][Len(b.heard[1]) + x] = ls[x]
        /\ \A x \in DOMAIN d.heard[1] :
             \/ x \in DOMAIN b.heard[1] /\ d.heard[1][x] = b.heard[1][x]
             \/ \E y \in 1..Len(ls) : x = Len(b.heard[1]) + y /\ d.heard[1][x] = ls[y]
    BY <2>1 DEF ToldFacts
  <2> DEFINE D == d.heard[1]
             B == b.heard[1]
  <2>3. /\ DOMAIN D = 1..Len(B) + 1 /\ DOMAIN B = 1..Len(B) /\ Len(B) \in Nat
        /\ \A x \in 1..Len(B) : D[x] = B[x]
        /\ D[Len(B) + 1] = l
        /\ \A x \in DOMAIN D : (x \in DOMAIN B /\ D[x] = B[x])
                               \/ \E y \in 1..1 : x = Len(B) + y /\ D[x] = ls[y]
    BY <2>2, <1>3
  <2> HIDE DEF D, B
  <2>4. /\ \A x \in DOMAIN B : x \in DOMAIN D /\ D[x] = B[x]
        /\ \A x \in DOMAIN D : (x \in DOMAIN B /\ D[x] = B[x]) \/ D[x] = l
        /\ Len(B) + 1 \in DOMAIN D
    BY <2>3, <1>3
  <2> QED
    BY <2>2, <2>3, <2>4 DEF D, B
<1>11. PICK p \in DOMAIN b.trail : b.trail[p].lit = l
  BY DEF IsTrue, Lits
<1>12. HeardTrue(d.trail, d.heard)
  <2>1. HeardTrue(b.trail, b.heard)
    BY <1>1 DEF Hearing
  <2> SUFFICES ASSUME NEW x \in DOMAIN d.heard[1]
      PROVE  \E i \in DOMAIN b.trail : b.trail[i].lit = d.heard[1][x] /\ b.trail[i].level < 1
    BY <1>9, <1>10 DEF HeardTrue
  <2>2. CASE x \in DOMAIN b.heard[1] /\ d.heard[1][x] = b.heard[1][x]
    BY <1>10, <2>1, <2>2 DEF HeardTrue
  <2>3. CASE d.heard[1][x] = l
    BY <1>7, <1>11, <2>3
  <2> QED
    BY <1>10, <2>2, <2>3
<1>13. HeardAll(d.trail, d.control, d.heard, d.notified, d.observed)
  <2>1. HeardAll(b.trail, b.control, b.heard, b.notified, O)
    BY <1>1 DEF Hearing
  <2> SUFFICES ASSUME NEW j \in 1..b.notified, Abs(b.trail[j].lit) \in O \cup {v}
      PROVE  ToldFor(b.trail, b.control, d.heard, j)
    BY <1>9 DEF HeardAll
  <2>2. j \in DOMAIN b.trail
    BY <1>6
  <2>3. CASE Abs(b.trail[j].lit) \in O
    <3>1. PICK a \in DOMAIN b.heard : \E x \in DOMAIN b.heard[a] : b.heard[a][x] = b.trail[j].lit
      BY <2>1, <2>3 DEF HeardAll, ToldFor
    <3>2. a = 1
      BY <1>10
    <3>3. PICK x \in DOMAIN b.heard[1] : b.heard[1][x] = b.trail[j].lit
      BY <3>1, <3>2
    <3>4. x \in DOMAIN d.heard[1] /\ d.heard[1][x] = b.trail[j].lit /\ 1 \in DOMAIN d.heard
      BY <1>10, <3>3
    <3> QED
      BY <1>8, <3>4 DEF ToldFor
  <2>4. CASE Abs(b.trail[j].lit) = v
    <3>1. b.trail[j].lit \in Lit
      BY <1>6, <2>2, TrailTypes
    <3>2. b.trail[j].lit \in {l, -l}
      BY <1>2, <2>4, <3>1, LitFacts
    <3>3. p = j
      BY <1>1, <1>11, <2>2, <3>2 DEF Struct, Distinct
    <3>4. PICK x \in DOMAIN d.heard[1] : d.heard[1][x] = l
      BY <1>10
    <3>5. 1 \in DOMAIN d.heard
      BY <1>10
    <3> QED
      BY <1>8, <1>11, <3>3, <3>4, <3>5 DEF ToldFor
  <2> QED
    BY <2>3, <2>4
<1>14. Struct(d)
  BY <1>1, <1>9, <1>10, <1>5, <1>6 DEF Struct, Level, Same, Known
<1>15. Hears(d)
  <2>1. Listens(d) => \A a \in DOMAIN d.control : d.control[a] <= d.notified
    BY <1>8, <1>9
  <2> QED
    BY <1>9, <1>12, <1>13, <2>1 DEF Hears, Hearing
<1>16. Late(d) /\ Sound(d, W)
  BY <1>1, <1>9 DEF Late, LateOk, Sound, Same
<1>17. Once(d)
  BY <1>7, <1>9 DEF Once
<1> QED
  BY <1>4, <1>14, <1>15, <1>16, <1>17 DEF ToldRootFacts, Loose

\* The level below, if there is one.
LEMMA BelowLevel ==
  ASSUME NEW n \in Nat
  PROVE  /\ Max({0, n - 1}) \in Nat
         /\ (n > 0 => Max({0, n - 1}) = n - 1)
         /\ (n = 0 => Max({0, n - 1}) = 0)
<1>1. CASE n = 0
  <2>1. Max({0, n - 1}) = CHOOSE x \in {0, -1} : \A y \in {0, -1} : x >= y
    BY <1>1 DEF Max
  <2>2. \A x \in {0, -1} : (\A y \in {0, -1} : x >= y) <=> x = 0
    OBVIOUS
  <2>3. (CHOOSE x \in {0, -1} : \A y \in {0, -1} : x >= y) = 0
    BY <2>2
  <2> QED
    BY <1>1, <2>1, <2>3
<1>2. CASE n > 0
  <2>1. n - 1 \in Nat /\ 0 <= n - 1
    BY <1>2
  <2>2. Max({0, n - 1}) = n - 1
    BY <2>1, MaxTwo
  <2> QED
    BY <1>2, <2>1, <2>2
<1> QED
  BY <1>1, <1>2

\* The search goes back, or it stays where it is.
Lowers(c, d) ==
  \/ d.trail = c.trail /\ d.control = c.control /\ d.propagated = c.propagated
  \/ Level(d) < Level(c)

\* What observing a variable does not touch.
Settings(c, d) ==
  /\ d.chrono = c.chrono /\ d.connected = c.connected /\ d.private = c.private
  /\ d.lemmas = c.lemmas /\ d.conflict = c.conflict /\ d.unsat = c.unsat
  /\ c.vars \subseteq d.vars

\* What observing a variable promises.
ObservedFacts(c, d, W, o) ==
  /\ Loose(d, W, o) /\ (Ordered(c.trail) => Ordered(d.trail)) /\ Settings(c, d)
  /\ Roots(d.trail) = Roots(c.trail) /\ Level(d) <= Level(c)
  /\ (Caught(c) => Caught(d)) /\ Lowers(c, d)

\* It is kept when the variable was observed before.
LEMMA ObservedStays ==
  ASSUME NEW c, NEW W, NEW o, Loose(c, W, o)
  PROVE  ObservedFacts(c, c, W, o)
<1>1. Level(c) \in Nat
  BY StructFields DEF Loose
<1> QED
  BY <1>1 DEF ObservedFacts, Settings, Lowers

\* The search has gone back below the level the variable got its value on.
SeenBackFacts(c, d, v, L, W, o) ==
  /\ Part(d, W, o, c.observed) /\ d.observed = c.observed \cup {v}
  /\ (Ordered(c.trail) => Ordered(d.trail)) /\ Settings(c, d)
  /\ Roots(d.trail) = Roots(c.trail) /\ Level(d) <= Level(c)
  /\ (Caught(c) => Caught(d)) /\ Lowers(c, d)
  /\ BackValued(c, d, L, v) /\ (L = 0 => Level(d) = 0)

\* It can do so.
LEMMA SeenBack ==
  ASSUME NEW c, NEW W, NEW o, Loose(c, W, o), c.connected, NEW v \in Var,
         NEW L \in Nat, NEW d, d = Backtracked(SeenOf(c, v), L)
  PROVE  SeenBackFacts(c, d, v, L, W, o)
<1> DEFINE s == SeenOf(c, v)
<1>1. SeenFacts(c, s, v, W, o)
  BY SeenFine
<1>2. d = Backtracked(s, L)
  OBVIOUS
<1> HIDE DEF s
<1>3. /\ Part(s, W, o, c.observed) /\ (Ordered(c.trail) => Ordered(s.trail))
      /\ s.trail = c.trail /\ s.control = c.control /\ s.heard = c.heard
      /\ s.notified = c.notified /\ s.propagated = c.propagated
      /\ s.conflict = c.conflict /\ s.unsat = c.unsat
      /\ s.chrono = c.chrono /\ s.connected = c.connected /\ s.private = c.private
      /\ s.lemmas = c.lemmas /\ s.observed = c.observed \cup {v} /\ s.vars = c.vars \cup {v}
  BY <1>1 DEF SeenFacts
<1>4. /\ BackFacts(s, d, L) /\ Part(d, W, o, c.observed)
      /\ (Ordered(s.trail) => Ordered(d.trail))
  <2>1. Part(s, W, o, c.observed)
    BY <1>3
  <2> QED
    BY <1>2, <2>1, BackPart
<1>5. Struct(c) /\ Struct(s) /\ Level(c) \in Nat /\ Level(s) = Level(c)
  BY <1>3, StructFields DEF Loose, Part, Level
<1>6. /\ Same(s, d) /\ d.conflict = s.conflict /\ (Caught(s) => Caught(d))
      /\ Level(d) = (IF L >= Level(s) THEN Level(s) ELSE L) /\ (L >= Level(s) => d = s)
  BY <1>4 DEF BackFacts
<1>7. Roots(d.trail) = Roots(s.trail) /\ Level(d) <= Level(s)
  BY <1>4, <1>5, BackRoots
<1>8. BackValued(s, d, L, v)
  BY <1>4, <1>5, BackValues, VarFacts
<1>9. BackValued(c, d, L, v)
  BY <1>3, <1>8 DEF BackValued, IsTrue, IsFalse, IsAssigned, Lits, LevelOf, ReasonOf, PosOf
<1>10. Settings(c, d)
  BY <1>3, <1>6 DEF Settings, Same
<1>11. Caught(c) => Caught(d)
  BY <1>3, <1>6 DEF Caught, Listens
<1>12. Lowers(c, d)
  <2>1. CASE L >= Level(s)
    BY <2>1, <1>3, <1>6 DEF Lowers
  <2>2. CASE ~(L >= Level(s))
    BY <2>2, <1>5, <1>6 DEF Lowers
  <2> QED
    BY <2>1, <2>2
<1>13. L = 0 => Level(d) = 0
  BY <1>5, <1>6
<1>14. d.observed = c.observed \cup {v}
  BY <1>3, <1>6 DEF Same
<1> QED
  BY <1>3, <1>4, <1>5, <1>7, <1>9, <1>10, <1>11, <1>12, <1>13, <1>14 DEF SeenBackFacts

\* Then nothing was missed.
LEMMA SeenBackLoose ==
  ASSUME NEW c, NEW d, NEW v \in Var, NEW L, NEW W, NEW o,
         SeenBackFacts(c, d, v, L, W, o), ~IsAssigned(d, v)
  PROVE  ObservedFacts(c, d, W, o)
<1>1. Part(d, W, o, c.observed) /\ d.observed = c.observed \cup {v}
  BY DEF SeenBackFacts
<1>2. Loose(d, W, o)
  BY <1>1, PartLoose
<1> QED
  BY <1>2 DEF SeenBackFacts, ObservedFacts

\* What 'add_observed_var' does unless the variable is fixed.
BackOf(c, v) ==
  IF ~IsAssigned(c, v) THEN SeenOf(c, v)
  ELSE Backtracked(SeenOf(c, v), Max({0, LevelOf(c, v) - 1}))

\* The cases of 'add_observed_var'.
LEMMA ObservedIs ==
  ASSUME NEW c, NEW v
  PROVE  Observed(c, v) =
           IF v \in c.observed THEN Unextended(c)
           ELSE IF IsFixed(c, v) THEN Told(BackOf(c, v), <<IF IsTrue(c, v) THEN v ELSE -v>>)
           ELSE BackOf(c, v)
  BY DEF Observed, BackOf, SeenOf

\* It keeps its promise: a variable that already has a value loses it, and the
\* propagator hears of it when it gets one again.
LEMMA ObservedFine ==
  ASSUME NEW c, NEW W, NEW o, Loose(c, W, o), c.connected, NEW v \in Var,
         NEW d, d = Observed(c, v)
  PROVE  ObservedFacts(c, d, W, o)
<1> DEFINE b == BackOf(c, v)
<1>1. d = IF v \in c.observed THEN Unextended(c)
          ELSE IF IsFixed(c, v) THEN Told(b, <<IF IsTrue(c, v) THEN v ELSE -v>>)
          ELSE b
  BY ObservedIs
<1>2. Struct(c) /\ v \in Lit /\ Level(c) \in Nat
  BY StructFields, VarFacts DEF Loose
<1>3. Valued(c, v)
  BY <1>2, Values
<1>4. CASE v \in c.observed
  <2>1. UnextendedFacts(c, d, W, o)
    BY <1>1, <1>4, UnextendedFine
  <2>2. /\ Loose(d, W, o) /\ (Ordered(c.trail) => Ordered(d.trail))
        /\ d.trail = c.trail /\ d.control = c.control
        /\ d.notified = c.notified /\ d.propagated = c.propagated
        /\ d.conflict = c.conflict /\ d.unsat = c.unsat
        /\ d.chrono = c.chrono /\ d.connected = c.connected
        /\ d.private = c.private /\ d.lemmas = c.lemmas /\ d.vars = c.vars
    BY <2>1, Zenon DEF UnextendedFacts, Quiet, Frame
  <2>3. Level(d) = Level(c)
    BY <2>2 DEF Level
  <2> QED
    BY <1>2, <2>2, <2>3 DEF ObservedFacts, Settings, Lowers, Caught, Listens
<1>5. CASE v \notin c.observed /\ ~IsAssigned(c, v)
  <2>1. d = SeenOf(c, v) /\ ~IsFixed(c, v)
    BY <1>1, <1>5 DEF BackOf, IsFixed
  <2>2. SeenFacts(c, d, v, W, o)
    BY <2>1, SeenFine
  <2>3. /\ Part(d, W, o, c.observed) /\ (Ordered(c.trail) => Ordered(d.trail))
        /\ d.trail = c.trail /\ d.control = c.control
        /\ d.notified = c.notified /\ d.propagated = c.propagated
        /\ d.conflict = c.conflict /\ d.unsat = c.unsat
        /\ d.chrono = c.chrono /\ d.connected = c.connected /\ d.private = c.private
        /\ d.lemmas = c.lemmas /\ d.observed = c.observed \cup {v} /\ d.vars = c.vars \cup {v}
    BY <2>2 DEF SeenFacts
  <2>4. ~IsAssigned(d, v)
    BY <1>5, <2>3 DEF IsAssigned, IsTrue, IsFalse, Lits
  <2>5. Loose(d, W, o)
    BY <2>3, <2>4, PartLoose
  <2>6. Level(d) = Level(c)
    BY <2>3 DEF Level
  <2> QED
    BY <1>2, <2>3, <2>5, <2>6 DEF ObservedFacts, Settings, Lowers, Caught, Listens
<1>6. CASE v \notin c.observed /\ IsAssigned(c, v)
  <2> DEFINE n == LevelOf(c, v)
             L == Max({0, n - 1})
  <2>1. n \in Nat /\ n \in 0..Level(c)
    BY <1>2, <1>3, <1>6 DEF Valued
  <2>2. b = Backtracked(SeenOf(c, v), L)
    BY <1>6 DEF BackOf
  <2>0. IsFixed(c, v) <=> n = 0
    BY <1>6 DEF IsFixed
  <2> HIDE DEF n
  <2>3. L \in Nat /\ (n > 0 => L = n - 1) /\ (n = 0 => L = 0)
    BY <2>1, BelowLevel
  <2> HIDE DEF L, b
  <2>4. SeenBackFacts(c, b, v, L, W, o)
    BY <2>2, <2>3, SeenBack
  <2>5. CASE n > 0
    <3>1. d = b
      BY <1>1, <1>6, <2>0, <2>1, <2>5
    <3>2. ~(n <= L)
      BY <2>1, <2>3, <2>5
    <3>3. BackValued(c, b, L, v)
      BY <2>4 DEF SeenBackFacts
    <3>4. ~IsAssigned(b, v)
      BY <3>2, <3>3 DEF BackValued, n
    <3> QED
      BY <2>4, <3>1, <3>4, SeenBackLoose
  <2>6. CASE n = 0
    <3> DEFINE l == IF IsTrue(c, v) THEN v ELSE -v
    <3>1. d = Told(b, <<l>>)
      BY <1>1, <1>6, <2>0, <2>6
    <3>2. L = 0 /\ n <= L
      BY <2>3, <2>6
    <3>3. /\ Part(b, W, o, c.observed) /\ b.observed = c.observed \cup {v}
          /\ (Ordered(c.trail) => Ordered(b.trail)) /\ Settings(c, b)
          /\ Roots(b.trail) = Roots(c.trail) /\ Level(b) <= Level(c)
          /\ (Caught(c) => Caught(b)) /\ Lowers(c, b)
          /\ BackValued(c, b, L, v) /\ Level(b) = 0
      BY <2>4, <3>2 DEF SeenBackFacts
    <3>4. /\ IsTrue(b, v) <=> IsTrue(c, v)
          /\ IsFalse(b, v) <=> IsFalse(c, v)
      BY <3>2, <3>3 DEF BackValued, n
    <3>5. l \in {v, -v} /\ IsTrue(b, l)
      <4>1. IsFalse(b, v) => IsTrue(b, -v)
        BY DEF IsTrue, IsFalse
      <4> QED
        BY <1>6, <3>4, <4>1 DEF IsAssigned
    <3>6. b.connected
      BY <3>3 DEF Settings
    <3> HIDE DEF l
    <3>7. ToldRootFacts(b, d, W, o)
      BY <3>1, <3>3, <3>5, <3>6, ToldRoot
    <3>8. /\ Loose(d, W, o) /\ Same(b, d) /\ d.trail = b.trail /\ d.control = b.control
          /\ d.notified = b.notified /\ d.propagated = b.propagated
          /\ d.conflict = b.conflict
      BY <3>7 DEF ToldRootFacts, ToldFieldFacts
    <3> QED
      BY <3>3, <3>8 DEF ObservedFacts, Settings, Lowers, Caught, Listens, Level, Same
  <2> QED
    BY <2>1, <2>5, <2>6
<1> QED
  BY <1>4, <1>5, <1>6

-----------------------------------------------------------------------------
(* The propagator is asked for a clause.                                   *)

\* What the invariant says while there is a search,
LEMMA CorePre ==
  ASSUME NEW c, NEW q, NEW l, NEW W, CoreAt(c, q, l, W), l \notin Resting, NEW o
  PROVE  Loose(c, W, o) /\ Ordered(c.trail) /\ ~c.private /\ Once(c)
  BY DEF CoreAt, Loose, Resting

\* and when there is none.
LEMMA CoreRest ==
  ASSUME NEW c, NEW q, NEW l, NEW W, CoreAt(c, q, l, W), NEW o, ~o
  PROVE  Loose(c, W, o) /\ ~c.private
  BY DEF CoreAt, Loose

\* What to prove while there is a search,
LEMMA CorePost ==
  ASSUME NEW c, NEW W, NEW o, o, Loose(c, W, o), Ordered(c.trail), ~c.private
  PROVE  \A q, l : CoreAt(c, q, l, W)
  BY DEF CoreAt, Loose

\* or when it is over,
LEMMA CoreDone ==
  ASSUME NEW c, NEW W, NEW o, Loose(c, W, o), Ordered(c.trail), ~c.private
  PROVE  \A q, l : l \in Resting => CoreAt(c, q, l, W)
  BY DEF CoreAt, Loose

\* or when it has not begun.
LEMMA CoreIdle ==
  ASSUME NEW c, NEW W, NEW o, Loose(c, W, o), ~c.private, NEW q,
         c.unsat \/ q.unsat_constraint \/ c.connected => Ordered(c.trail)
  PROVE  \A l : l \in {"idle", "start"} => CoreAt(c, q, l, W)
  BY DEF CoreAt, Loose, Resting

\* The types of what the lemmas consist of.
LEMMA LemmaTypes ==
  ASSUME NEW c, Struct(c)
  PROVE  /\ Len(c.lemmas) \in Nat /\ DOMAIN c.lemmas = 1..Len(c.lemmas)
         /\ \A i \in 1..Len(c.lemmas) :
              /\ c.lemmas[i].lits \in Clause /\ c.lemmas[i].added \in BOOLEAN
              /\ c.lemmas[i].isReason \in BOOLEAN
         /\ c.lemmas = <<>> <=> Len(c.lemmas) = 0
<1>1. c.lemmas \in Seq(LemmaSet)
  BY StructFields DEF FieldTypes
<1>2. \A i \in 1..Len(c.lemmas) : c.lemmas[i] \in LemmaSet
  BY <1>1
<1>3. \A r \in LemmaSet : r.lits \in Clause /\ r.added \in BOOLEAN /\ r.isReason \in BOOLEAN
  BY DEF LemmaSet
<1>4. Len(c.lemmas) \in Nat /\ DOMAIN c.lemmas = 1..Len(c.lemmas)
      /\ (c.lemmas = <<>> <=> Len(c.lemmas) = 0)
  BY <1>1
<1> QED
  BY <1>2, <1>3, <1>4

\* Steps of the search leave no more lemmas to be given,
LEMMA PendingLess ==
  ASSUME NEW c, Struct(c), NEW d, Struct(d), LemmasKept(c, d),
         Roots(c.trail) \subseteq Roots(d.trail)
  PROVE  Pending(d) \subseteq Pending(c)
<1>1. /\ DOMAIN c.lemmas = 1..Len(c.lemmas) /\ DOMAIN d.lemmas = 1..Len(d.lemmas)
  BY LemmaTypes
<1>2. /\ Len(d.lemmas) = Len(c.lemmas)
      /\ \A i \in 1..Len(c.lemmas) :
           /\ d.lemmas[i].lits = c.lemmas[i].lits
           /\ d.lemmas[i].isReason = c.lemmas[i].isReason
           /\ c.lemmas[i].added => d.lemmas[i].added
  BY DEF LemmasKept
<1> SUFFICES ASSUME NEW i \in Pending(d)
    PROVE  i \in Pending(c)
  OBVIOUS
<1>3. /\ i \in 1..Len(d.lemmas) /\ ~d.lemmas[i].added /\ ~d.lemmas[i].isReason
      /\ d.lemmas[i].lits \cap Roots(d.trail) = {}
  BY <1>1 DEF Pending
<1>4. /\ i \in 1..Len(c.lemmas) /\ ~c.lemmas[i].added /\ ~c.lemmas[i].isReason
      /\ c.lemmas[i].lits \cap Roots(c.trail) = {}
  BY <1>2, <1>3
<1> QED
  BY <1>1, <1>4 DEF Pending

\* nor do steps that know the same lemmas.
LEMMA PendingSame ==
  ASSUME NEW c, Struct(c), NEW d, Struct(d), d.lemmas = c.lemmas,
         Roots(c.trail) \subseteq Roots(d.trail)
  PROVE  Pending(d) \subseteq Pending(c) /\ LemmasKept(c, d)
<1>1. LemmasKept(c, d)
  BY DEF LemmasKept
<1> QED
  BY <1>1, PendingLess

\* A lemma that is pending is one.
LEMMA PendingTypes ==
  ASSUME NEW c, Struct(c)
  PROVE  \A i \in Pending(c) : i \in 1..Len(c.lemmas) /\ i \in Nat
  BY LemmaTypes DEF Pending

\* To propagate again does nothing.
LEMMA PropStill ==
  ASSUME NEW c, Done(c), NEW d, d = Propagated(c)
  PROVE  d = c
<1> DEFINE N == 2 * Cardinality(Var)
           run == [n \in 0..N |-> c]
<1>1. N \in Nat
  BY VarFacts
<1>2. PropRun(run, c, N)
  <2>1. \A n \in 0..N : n # 0 => n - 1 \in 0..N
    BY <1>1
  <2>2. PropStep(c) = c
    BY DEF PropStep, Done
  <2>3. \A n \in 0..N : (IF n = 0 THEN c ELSE PropStep(run[n - 1])) = c
    BY <2>1, <2>2
  <2>4. [n \in 0..N |-> IF n = 0 THEN c ELSE PropStep(run[n - 1])] = [n \in 0..N |-> c]
    BY <2>3
  <2> QED
    BY <2>4 DEF PropRun
<1> DEFINE r == CHOOSE r : r = [n \in 0..N |-> IF n = 0 THEN c ELSE PropStep(r[n - 1])]
<1>3. d = r[N]
  BY DEF Propagated, PropStep
<1>4. PropRun(r, c, N)
  BY <1>2 DEF PropRun
<1> HIDE DEF r, run, N
<1>5. r = [n \in 0..N |-> IF n = 0 THEN c ELSE PropStep(r[n - 1])]
  BY <1>4 DEF PropRun
<1>6. \A n \in 0..N : r[n] = c
  <2> DEFINE D == {n \in 0..N : r[n] = c}
  <2>1. 0 \in D
    BY <1>1, <1>5
  <2>2. \A n \in 1..N : n - 1 \in D => n \in D
    <3> SUFFICES ASSUME NEW n \in 1..N, n - 1 \in D
        PROVE  n \in D
      OBVIOUS
    <3>1. n \in 0..N /\ n # 0 /\ r[n - 1] = c
      BY <1>1
    <3>2. r[n] = PropStep(r[n - 1])
      BY <1>5, <3>1
    <3>3. r[n] = c
      BY <3>1, <3>2 DEF PropStep, Done
    <3> QED
      BY <3>1, <3>3
  <2> HIDE DEF D
  <2>3. \A n \in 0..N : n \in D
    BY <1>1, <2>1, <2>2, AllSteps
  <2> QED
    BY <2>3 DEF D
<1> QED
  BY <1>1, <1>3, <1>6

\* 'cb_has_external_clause' first observes one of the variables the user has
\* for later.
MockFresh(m) == IF m.fresh = {} THEN m ELSE [m EXCEPT !.fresh = @ \ {Min(@)}]
CoreFresh(c, m) == IF m.fresh = {} THEN c ELSE Observed(c, Min(m.fresh))

\* The lemmas not given yet, from the one the propagator looks at.
OpenOf(c, m) == {i \in m.next..Len(c.lemmas) : ~c.lemmas[i].added /\ ~c.lemmas[i].isReason}

\* What it answers.
AnswerOf(c, mk, h) == [core |-> c, mock |-> mk, has |-> h]

\* The cases of 'cb_has_external_clause': no lemmas, one it must add again, a
\* pause after three, none left, and the next one.
LEMMA AskedIs ==
  ASSUME NEW c, NEW m
  PROVE  Asked(c, m) =
    IF c.lemmas = <<>> THEN [core |-> c, mock |-> m, has |-> FALSE]
    ELSE IF m.must # 0
    THEN AnswerOf(CoreFresh(c, m),
           [MockFresh(m) EXCEPT !.next = m.must, !.must = 0, !.count = @ + 1], TRUE)
    ELSE IF m.count > 2
    THEN AnswerOf(CoreFresh(c, m), [MockFresh(m) EXCEPT !.count = 0], FALSE)
    ELSE IF OpenOf(c, m) = {}
    THEN AnswerOf(CoreFresh(c, m), [MockFresh(m) EXCEPT !.next = Len(c.lemmas) + 1], FALSE)
    ELSE AnswerOf(CoreFresh(c, m),
           [MockFresh(m) EXCEPT !.next = Min(OpenOf(c, m)), !.count = @ + 1], TRUE)
  BY DEF Asked, MockFresh, CoreFresh, OpenOf, AnswerOf

\* The types of the propagator's fields, and of what it becomes.
LEMMA MockTypes ==
  /\ \A m \in Mock : /\ m.next \in Nat /\ m.must \in Nat /\ m.count \in Nat
                     /\ m.fresh \in SUBSET Var
  /\ \A m \in Mock, x \in Nat :
       /\ [m EXCEPT !.next = x] \in Mock /\ [m EXCEPT !.must = x] \in Mock
       /\ [m EXCEPT !.count = x] \in Mock
       /\ [m EXCEPT !.next = x].next = x /\ [m EXCEPT !.next = x].must = m.must
       /\ [m EXCEPT !.next = x].count = m.count
       /\ [m EXCEPT !.must = x].next = m.next /\ [m EXCEPT !.must = x].must = x
       /\ [m EXCEPT !.must = x].count = m.count
       /\ [m EXCEPT !.count = x].next = m.next /\ [m EXCEPT !.count = x].must = m.must
       /\ [m EXCEPT !.count = x].count = x
  /\ \A m \in Mock, x \in SUBSET Var :
       /\ [m EXCEPT !.fresh = x] \in Mock
       /\ [m EXCEPT !.fresh = x].next = m.next /\ [m EXCEPT !.fresh = x].must = m.must
       /\ [m EXCEPT !.fresh = x].count = m.count
  BY DEF Mock

\* The propagator looks at no lemma behind the first that is needed.
AskOk(c, m, W, o) ==
  /\ Loose(c, W, o) /\ c.connected /\ m \in Mock
  /\ m.next \in 1..Len(c.lemmas) + 1 /\ (m.must # 0 => m.must \in 1..Len(c.lemmas))
  /\ \A i \in Pending(c) : FirstNeeded(m) <= i

\* What it promises: it looks at no later one than it needs, what it offers
\* was not given, and it leaves out one that is needed only for a pause.
AskedMock(c, m, mk, has) ==
  /\ mk \in Mock /\ mk.must = 0 /\ mk.next \in 1..Len(c.lemmas) + 1
  /\ has \in BOOLEAN /\ (has => mk.next \in 1..Len(c.lemmas))
  /\ \A i \in Pending(c) : mk.next <= i
  /\ has /\ m.must = 0 => ~c.lemmas[mk.next].added /\ ~c.lemmas[mk.next].isReason
  /\ ~has /\ Pending(c) # {} => m.count > 2 /\ mk.count = 0

\* The same, with what observing the variable has changed.
AskedAnswer(c, m, a, W, o) ==
  ObservedFacts(c, a.core, W, o) /\ AskedMock(c, m, a.mock, a.has)

\* Observing a variable leaves the lemmas alone.
LEMMA FreshMock ==
  ASSUME NEW m \in Mock, NEW k, k = MockFresh(m)
  PROVE  k \in Mock /\ k.next = m.next /\ k.must = m.must /\ k.count = m.count
<1>1. m.fresh \ {Min(m.fresh)} \in SUBSET Var
  BY MockTypes
<1>2. k = m \/ k = [m EXCEPT !.fresh = m.fresh \ {Min(m.fresh)}]
  BY DEF MockFresh
<1> DEFINE x == m.fresh \ {Min(m.fresh)}
<1> HIDE DEF x
<1> QED
  BY <1>1, <1>2 DEF Mock, x

\* The invariant holds when it has.
LEMMA FreshCore ==
  ASSUME NEW c, NEW m \in Mock, NEW W, NEW o, Loose(c, W, o), c.connected,
         NEW d, d = CoreFresh(c, m)
  PROVE  ObservedFacts(c, d, W, o)
<1>1. CASE m.fresh = {}
  BY <1>1, ObservedStays DEF CoreFresh
<1>2. CASE m.fresh # {}
  <2> DEFINE v == Min(m.fresh)
  <2>1. m.fresh \in SUBSET Var /\ m.fresh \in SUBSET Nat
    BY MockTypes, VarFacts
  <2>2. v \in Var
    BY <2>1, <1>2, MinFacts
  <2>3. d = Observed(c, v)
    BY <1>2 DEF CoreFresh
  <2> HIDE DEF v
  <2> QED
    BY <2>2, <2>3, ObservedFine
<1> QED
  BY <1>1, <1>2

\* It keeps the promise when it has to offer one,
LEMMA MustMock ==
  ASSUME NEW c, NEW m, NEW W, NEW o, AskOk(c, m, W, o), m.must # 0,
         NEW k, k = [MockFresh(m) EXCEPT !.next = m.must, !.must = 0, !.count = @ + 1],
         NEW h \in BOOLEAN, h
  PROVE  AskedMock(c, m, k, h)
<1> DEFINE f == MockFresh(m)
           n == m.must
           a == [f EXCEPT !.next = n]
           z == f.count + 1
           b == [a EXCEPT !.must = 0]
           e == [b EXCEPT !.count = z]
<1>1. m \in Mock /\ f \in Mock /\ f.count \in Nat /\ n \in Nat /\ n \in 1..Len(c.lemmas)
  BY FreshMock, MockTypes DEF AskOk
<1>2. z \in Nat
  BY <1>1
<1>3. k = e
  OBVIOUS
<1> HIDE DEF f, z, n
<1>4. a \in Mock /\ a.next = n
  BY <1>1, MockTypes
<1>5. b \in Mock /\ b.next = n /\ b.must = 0
  <2> HIDE DEF a
  <2> QED
    BY <1>4 DEF Mock
<1>6. e \in Mock /\ e.next = n /\ e.must = 0
  <2> HIDE DEF b
  <2> QED
    BY <1>2, <1>5, MockTypes
<1> HIDE DEF e
<1>7. Len(c.lemmas) \in Nat
  BY LemmaTypes DEF AskOk, Loose
<1>8. \A i \in Pending(c) : n <= i
  BY DEF AskOk, FirstNeeded, n
<1>9. n # 0
  BY DEF n
<1> QED
  BY <1>1, <1>3, <1>6, <1>7, <1>8 DEF AskedMock, n

\* and when it pauses,
LEMMA PauseMock ==
  ASSUME NEW c, NEW m, NEW W, NEW o, AskOk(c, m, W, o), m.must = 0, m.count > 2,
         NEW k, k = [MockFresh(m) EXCEPT !.count = 0], NEW h \in BOOLEAN, ~h
  PROVE  AskedMock(c, m, k, h)
<1> DEFINE f == MockFresh(m)
<1>1. m \in Mock /\ f \in Mock /\ f.next = m.next /\ f.must = 0
  BY FreshMock DEF AskOk
<1> HIDE DEF f
<1>2. k \in Mock /\ k.next = m.next /\ k.must = 0 /\ k.count = 0
  BY <1>1 DEF f, Mock
<1>3. \A i \in Pending(c) : m.next <= i
  BY DEF AskOk, FirstNeeded
<1>4. m.next \in 1..Len(c.lemmas) + 1
  BY DEF AskOk
<1> QED
  BY <1>2, <1>3, <1>4 DEF AskedMock

\* and when there is none left,
LEMMA NoneMock ==
  ASSUME NEW c, NEW m, NEW W, NEW o, AskOk(c, m, W, o), m.must = 0, OpenOf(c, m) = {},
         NEW k, k = [MockFresh(m) EXCEPT !.next = Len(c.lemmas) + 1],
         NEW h \in BOOLEAN, ~h
  PROVE  AskedMock(c, m, k, h)
<1> DEFINE f == MockFresh(m)
           n == Len(c.lemmas) + 1
<1>0. Struct(c) /\ Len(c.lemmas) \in Nat /\ n \in Nat
  BY LemmaTypes DEF AskOk, Loose
<1>1. m \in Mock /\ f \in Mock /\ f.must = 0
  BY FreshMock DEF AskOk
<1>2. k = [f EXCEPT !.next = n]
  OBVIOUS
<1> HIDE DEF f, n
<1>3. k \in Mock /\ k.next = n /\ k.must = 0
  BY <1>0, <1>1, <1>2 DEF Mock
<1>4. Pending(c) = {}
  <2> SUFFICES ASSUME NEW i \in Pending(c)
      PROVE  FALSE
    OBVIOUS
  <2>1. i \in 1..Len(c.lemmas) /\ ~c.lemmas[i].added /\ ~c.lemmas[i].isReason
    BY <1>0, LemmaTypes DEF Pending
  <2>2. m.next <= i
    BY DEF AskOk, FirstNeeded
  <2>3. m.next \in Nat
    BY <1>1, MockTypes
  <2>4. i \in m.next..Len(c.lemmas)
    BY <2>1, <2>2, <2>3, <1>0
  <2>5. i \in OpenOf(c, m)
    BY <2>1, <2>4 DEF OpenOf
  <2> QED
    BY <2>5
<1>5. n \in 1..Len(c.lemmas) + 1
  BY <1>0 DEF n
<1> QED
  BY <1>3, <1>4, <1>5 DEF AskedMock

\* and when it offers the next one.
LEMMA OpenMock ==
  ASSUME NEW c, NEW m, NEW W, NEW o, AskOk(c, m, W, o), m.must = 0, OpenOf(c, m) # {},
         NEW k, k = [MockFresh(m) EXCEPT !.next = Min(OpenOf(c, m)), !.count = @ + 1],
         NEW h \in BOOLEAN, h
  PROVE  AskedMock(c, m, k, h)
<1> DEFINE f == MockFresh(m)
           S == OpenOf(c, m)
           n == Min(S)
           a == [f EXCEPT !.next = n]
           z == f.count + 1
           e == [a EXCEPT !.count = z]
<1>0. Struct(c) /\ Len(c.lemmas) \in Nat
  BY LemmaTypes DEF AskOk, Loose
<1>1. m \in Mock /\ f \in Mock /\ f.must = 0 /\ f.count \in Nat /\ m.next \in Nat
  BY FreshMock, MockTypes DEF AskOk
<1>2. z \in Nat
  BY <1>1
<1>3. k = e
  OBVIOUS
<1> HIDE DEF f, z
<1>4. S \in SUBSET Nat
  BY <1>0, <1>1 DEF OpenOf
<1>5. n \in S /\ \A x \in S : n <= x
  <2> HIDE DEF S
  <2> QED
    BY <1>4, MinFacts DEF S
<1>6. /\ n \in m.next..Len(c.lemmas) /\ n \in Nat
      /\ ~c.lemmas[n].added /\ ~c.lemmas[n].isReason
  BY <1>4, <1>5 DEF OpenOf
<1>7. m.next >= 1
  BY <1>0 DEF AskOk
<1> HIDE DEF n, S
<1>8. a \in Mock /\ a.next = n /\ a.must = 0
  BY <1>1, <1>6, MockTypes
<1>9. e \in Mock /\ e.next = n /\ e.must = 0
  <2> HIDE DEF a
  <2> QED
    BY <1>2, <1>8, MockTypes
<1> HIDE DEF e
<1>10. \A i \in Pending(c) : n <= i
  <2> TAKE i \in Pending(c)
  <2>1. i \in 1..Len(c.lemmas) /\ ~c.lemmas[i].added /\ ~c.lemmas[i].isReason
    BY <1>0, LemmaTypes DEF Pending
  <2>2. m.next <= i
    BY DEF AskOk, FirstNeeded
  <2>3. i \in m.next..Len(c.lemmas)
    BY <2>1, <2>2, <1>0, <1>1
  <2>4. i \in S
    BY <2>1, <2>3 DEF S, OpenOf
  <2> QED
    BY <1>5, <2>4
<1>11. n \in 1..Len(c.lemmas) /\ n \in 1..Len(c.lemmas) + 1
  BY <1>0, <1>1, <1>6, <1>7
<1> QED
  BY <1>3, <1>6, <1>9, <1>10, <1>11 DEF AskedMock

\* So 'cb_has_external_clause' keeps it.
LEMMA AskFine ==
  ASSUME NEW c, NEW m, NEW W, NEW o, AskOk(c, m, W, o), NEW a, a = Asked(c, m)
  PROVE  AskedAnswer(c, m, a, W, o)
<1> DEFINE d == CoreFresh(c, m)
<1>1. /\ Loose(c, W, o) /\ c.connected /\ m \in Mock /\ Struct(c)
      /\ Len(c.lemmas) \in Nat /\ (c.lemmas = <<>> <=> Len(c.lemmas) = 0)
  BY LemmaTypes DEF AskOk, Loose
<1>2. ObservedFacts(c, d, W, o)
  BY <1>1, FreshCore
<1>3. CASE c.lemmas = <<>>
  <2>1. a = [core |-> c, mock |-> m, has |-> FALSE]
    BY <1>3, AskedIs
  <2>2. a.core = c /\ a.mock = m /\ a.has = FALSE
    BY <2>1
  <2>3. Pending(c) = {}
    BY <1>1, <1>3, LemmaTypes DEF Pending
  <2>4. m.must = 0
    BY <1>1, <1>3 DEF AskOk
  <2>5. AskedMock(c, m, m, a.has)
    BY <1>1, <2>2, <2>3, <2>4 DEF AskedMock, AskOk
  <2>6. ObservedFacts(c, c, W, o)
    BY <1>1, ObservedStays
  <2> QED
    BY <2>2, <2>5, <2>6 DEF AskedAnswer
<1>4. CASE c.lemmas # <<>> /\ m.must # 0
  <2> DEFINE k == [MockFresh(m) EXCEPT !.next = m.must, !.must = 0, !.count = @ + 1]
  <2>1. a = AnswerOf(d, k, TRUE)
    BY <1>4, AskedIs
  <2>2. a.core = d /\ a.mock = k /\ a.has /\ a.has \in BOOLEAN
    <3> HIDE DEF k, d
    <3> QED
      BY <2>1 DEF AnswerOf
  <2>3. AskedMock(c, m, a.mock, a.has)
    BY <1>4, <2>2, MustMock
  <2> QED
    BY <1>2, <2>2, <2>3 DEF AskedAnswer
<1>5. CASE c.lemmas # <<>> /\ m.must = 0 /\ m.count > 2
  <2> DEFINE k == [MockFresh(m) EXCEPT !.count = 0]
  <2>1. a = AnswerOf(d, k, FALSE)
    BY <1>5, AskedIs
  <2>2. a.core = d /\ a.mock = k /\ ~a.has /\ a.has \in BOOLEAN
    <3> HIDE DEF k, d
    <3> QED
      BY <2>1 DEF AnswerOf
  <2>3. AskedMock(c, m, a.mock, a.has)
    BY <1>5, <2>2, PauseMock
  <2> QED
    BY <1>2, <2>2, <2>3 DEF AskedAnswer
<1>6. CASE c.lemmas # <<>> /\ m.must = 0 /\ ~(m.count > 2) /\ OpenOf(c, m) = {}
  <2> DEFINE k == [MockFresh(m) EXCEPT !.next = Len(c.lemmas) + 1]
  <2>1. a = AnswerOf(d, k, FALSE)
    BY <1>6, AskedIs
  <2>2. a.core = d /\ a.mock = k /\ ~a.has /\ a.has \in BOOLEAN
    <3> HIDE DEF k, d
    <3> QED
      BY <2>1 DEF AnswerOf
  <2>3. AskedMock(c, m, a.mock, a.has)
    BY <1>6, <2>2, NoneMock
  <2> QED
    BY <1>2, <2>2, <2>3 DEF AskedAnswer
<1>7. CASE c.lemmas # <<>> /\ m.must = 0 /\ ~(m.count > 2) /\ OpenOf(c, m) # {}
  <2> DEFINE k == [MockFresh(m) EXCEPT !.next = Min(OpenOf(c, m)), !.count = @ + 1]
  <2>1. a = AnswerOf(d, k, TRUE)
    BY <1>7, AskedIs
  <2>2. a.core = d /\ a.mock = k /\ a.has /\ a.has \in BOOLEAN
    <3> HIDE DEF k, d
    <3> QED
      BY <2>1 DEF AnswerOf
  <2>3. AskedMock(c, m, a.mock, a.has)
    BY <1>7, <2>2, OpenMock
  <2> QED
    BY <1>2, <2>2, <2>3 DEF AskedAnswer
<1> QED
  BY <1>3, <1>4, <1>5, <1>6, <1>7

-----------------------------------------------------------------------------
(* The invariant of the search, label by label.                            *)

\* The invariant at the label l: c is the solver, m the mock propagator, q the
\* query, g whether it asks again, W the models of the formula and the theory.
Good(c, m, q, l, g, W) ==
  /\ m \in Mock /\ CoreAt(c, q, l, W) /\ ConflictAt(c, m, q, l)
  /\ ControlAt(c, m, l) /\ PendingAt(c, m, l, g)

\* The propagator looks at no lemma behind the first one that is needed.
NextOf(m, c) ==
  /\ m \in Mock /\ m.next \in 1..Len(c.lemmas) + 1
  /\ \A i \in Pending(c) : FirstNeeded(m) <= i

\* What holds at every label.
Base(c, m, W, o) ==
  Loose(c, W, o) /\ Ordered(c.trail) /\ ~c.private /\ NextOf(m, c)

\* The parts of it that the proofs use,
LEMMA BaseFacts ==
  ASSUME NEW c, NEW m, NEW W, NEW o, Base(c, m, W, o)
  PROVE  /\ Loose(c, W, o) /\ Ordered(c.trail) /\ ~c.private /\ NextOf(m, c)
         /\ Struct(c) /\ Level(c) \in Nat /\ Len(c.trail) \in Nat
         /\ Len(c.lemmas) \in Nat /\ DOMAIN c.lemmas = 1..Len(c.lemmas)
         /\ (Listens(c) <=> c.connected) /\ m \in Mock
         /\ (~c.connected => Pending(c) = {})
<1>1. Struct(c) /\ Loose(c, W, o) /\ Ordered(c.trail) /\ ~c.private /\ NextOf(m, c)
  BY DEF Base, Loose
<1>2. Level(c) \in Nat /\ Len(c.trail) \in Nat
  BY <1>1, StructFields
<1>3. Len(c.lemmas) \in Nat /\ DOMAIN c.lemmas = 1..Len(c.lemmas)
  BY <1>1, LemmaTypes
<1>4. ~c.connected => Pending(c) = {}
  <2>1. ~c.connected => c.lemmas = <<>>
    BY <1>1 DEF Struct
  <2> QED
    BY <1>1, <2>1, LemmaTypes DEF Pending
<1> QED
  BY <1>1, <1>2, <1>3, <1>4 DEF Listens, NextOf

\* and it follows from the invariant during a search,
LEMMA GoodBase ==
  ASSUME NEW c, NEW m, NEW q, NEW l, NEW g, NEW W, Good(c, m, q, l, g, W),
         l \notin Resting, NEW o
  PROVE  Base(c, m, W, o)
<1>1. Loose(c, W, o) /\ Ordered(c.trail) /\ ~c.private
  BY CorePre DEF Good
<1> QED
  BY <1>1 DEF Good, Base, NextOf, ControlAt, PendingAt

\* and most of it between searches.
LEMMA RestBase ==
  ASSUME NEW c, NEW m, NEW q, NEW l, NEW g, NEW W, Good(c, m, q, l, g, W),
         NEW o, ~o
  PROVE  Loose(c, W, o) /\ ~c.private /\ NextOf(m, c)
  BY CoreRest DEF Good, NextOf, ControlAt, PendingAt

\* What has to be shown of the state a step leads to, at each label: at
\* 'done',
LEMMA DoneGood ==
  ASSUME NEW d, NEW m, NEW W, NEW o, Base(d, m, W, o), m.must = 0,
         d.conflict = None \/ d.unsat, NEW q, NEW g
  PROVE  Good(d, m, q, "done", g, W)
<1>1. CoreAt(d, q, "done", W)
  BY CoreDone DEF Base, Resting
<1>2. ConflictAt(d, m, q, "done")
  BY DEF ConflictAt, Resting
<1>3. ControlAt(d, m, "done")
  BY DEF ControlAt, Asking, Base, NextOf
<1>4. PendingAt(d, m, "done", g)
  BY DEF PendingAt, Resting, Base, NextOf
<1> QED
  BY <1>1, <1>2, <1>3, <1>4 DEF Good, Base, NextOf

\* at the head of the search loop,
LEMMA LoopGood ==
  ASSUME NEW d, NEW m, NEW W, NEW o, Base(d, m, W, o), o, m.must = 0,
         d.conflict = None \/ d.unsat, NEW q, NEW g,
         Pending(d) # {} => Level(d) <= 1 /\ (m.count > 2 => Level(d) = 0 \/ d.unsat)
  PROVE  Good(d, m, q, "loop", g, W)
<1>1. CoreAt(d, q, "loop", W)
  BY CorePost DEF Base
<1>2. ConflictAt(d, m, q, "loop")
  BY DEF ConflictAt, Resting
<1>3. ControlAt(d, m, "loop")
  BY DEF ControlAt, Asking, Base, NextOf
<1>4. PendingAt(d, m, "loop", g)
  BY DEF PendingAt, Resting, Base, NextOf
<1> QED
  BY <1>1, <1>2, <1>3, <1>4 DEF Good, Base, NextOf

\* before a conflict is analyzed: there is one and the trail falsifies it,
LEMMA AnalyzeGood ==
  ASSUME NEW d, NEW m, NEW W, NEW o, Base(d, m, W, o), o, m.must = 0,
         d.conflict # None, Falsified(d), ~d.unsat, NEW q, ~q.unsat_constraint, NEW g,
         Pending(d) # {} => Level(d) <= 1
  PROVE  Good(d, m, q, "analyze", g, W)
<1>1. CoreAt(d, q, "analyze", W)
  BY CorePost DEF Base
<1>2. ConflictAt(d, m, q, "analyze")
  BY DEF ConflictAt, Resting
<1>3. ControlAt(d, m, "analyze")
  BY DEF ControlAt, Asking, Base, NextOf
<1>4. PendingAt(d, m, "analyze", g)
  BY DEF PendingAt, Resting, Base, NextOf
<1> QED
  BY <1>1, <1>2, <1>3, <1>4 DEF Good, Base, NextOf

\* no conflict and no contradiction,
Clear(d, q) == d.conflict = None /\ ~d.unsat /\ ~q.unsat_constraint

\* before 'cb_propagate': the propagator has heard the whole trail,
LEMMA CbGood ==
  ASSUME NEW d, NEW m, NEW W, NEW o, Base(d, m, W, o), o, m.must = 0,
         NEW q, Clear(d, q), NEW g, ~g, d.connected, d.notified = Len(d.trail),
         Pending(d) # {} =>
           /\ Level(d) <= 1 /\ (m.count > 2 => Level(d) = 0)
           /\ d.propagated = Len(d.trail) \/ Level(d) = 0
  PROVE  Good(d, m, q, "cbpropagate", g, W)
<1>1. CoreAt(d, q, "cbpropagate", W)
  BY CorePost DEF Base
<1>2. ConflictAt(d, m, q, "cbpropagate")
  BY DEF ConflictAt, Resting, Clear
<1>3. ControlAt(d, m, "cbpropagate")
  BY DEF ControlAt, Asking, Base, NextOf
<1>4. PendingAt(d, m, "cbpropagate", g)
  BY DEF PendingAt, Resting, Base, NextOf
<1> QED
  BY <1>1, <1>2, <1>3, <1>4 DEF Good, Base, NextOf

\* before 'cb_has_external_clause',
LEMMA AskGood ==
  ASSUME NEW d, NEW m, NEW W, NEW o, Base(d, m, W, o), o, m.must = 0,
         NEW q, Clear(d, q), NEW g, d.connected, d.notified = Len(d.trail),
         g => d.propagated = Len(d.trail),
         Pending(d) # {} =>
           /\ Level(d) <= 1 /\ (m.count > 2 => Level(d) = 0 \/ g)
           /\ g \/ d.propagated = Len(d.trail) \/ Level(d) = 0
  PROVE  Good(d, m, q, "ask", g, W)
<1>1. CoreAt(d, q, "ask", W)
  BY CorePost DEF Base
<1>2. ConflictAt(d, m, q, "ask")
  BY DEF ConflictAt, Resting, Clear
<1>3. ControlAt(d, m, "ask")
  BY DEF ControlAt, Asking, Base, NextOf
<1>4. PendingAt(d, m, "ask", g)
  BY DEF PendingAt, Resting, Base, NextOf
<1> QED
  BY <1>1, <1>2, <1>3, <1>4 DEF Good, Base, NextOf

\* before a lemma is added: a conflict that the last propagation has found may
\* be pending, but only at the root or with a lemma that is satisfied there,
LEMMA LemmaGood ==
  ASSUME NEW d, NEW m, NEW W, NEW o, Base(d, m, W, o), o, m.must = 0,
         NEW q, ~d.unsat, ~q.unsat_constraint, NEW g, d.connected,
         m.next \in DOMAIN d.lemmas, ~d.lemmas[m.next].added, ~d.lemmas[m.next].isReason,
         d.conflict # None =>
           Falsified(d) /\ (Level(d) = 0 \/ m.next \notin Pending(d)),
         Pending(d) # {} => Level(d) <= 1
  PROVE  Good(d, m, q, "lemma", g, W)
<1>1. CoreAt(d, q, "lemma", W)
  BY CorePost DEF Base
<1>2. ConflictAt(d, m, q, "lemma")
  BY DEF ConflictAt, Resting
<1>3. ControlAt(d, m, "lemma")
  BY DEF ControlAt, Asking, Base, NextOf
<1>4. PendingAt(d, m, "lemma", g)
  BY DEF PendingAt, Resting, Base, NextOf
<1> QED
  BY <1>1, <1>2, <1>3, <1>4 DEF Good, Base, NextOf

\* before a decision: the whole trail is propagated,
LEMMA DecideGood ==
  ASSUME NEW d, NEW m, NEW W, NEW o, Base(d, m, W, o), o, m.must = 0,
         NEW q, Clear(d, q), NEW g, d.connected => d.notified = Len(d.trail),
         d.propagated = Len(d.trail),
         Pending(d) # {} => Level(d) = 0 /\ ~(m.count > 2)
  PROVE  Good(d, m, q, "decide", g, W)
<1>1. CoreAt(d, q, "decide", W)
  BY CorePost DEF Base
<1>2. ConflictAt(d, m, q, "decide")
  BY DEF ConflictAt, Resting, Clear
<1>3. ControlAt(d, m, "decide")
  BY DEF ControlAt, Asking, Base, NextOf
<1>4. PendingAt(d, m, "decide", g)
  BY DEF PendingAt, Resting, Base, NextOf
<1> QED
  BY <1>1, <1>2, <1>3, <1>4 DEF Good, Base, NextOf

\* when there is a model,
LEMMA ModelGood ==
  ASSUME NEW d, NEW m, NEW W, NEW o, Base(d, m, W, o), o, m.must = 0,
         NEW q, Clear(d, q), NEW g, d.connected, Pending(d) # {} => Level(d) = 0
  PROVE  Good(d, m, q, "model", g, W)
<1>1. CoreAt(d, q, "model", W)
  BY CorePost DEF Base
<1>2. ConflictAt(d, m, q, "model")
  BY DEF ConflictAt, Resting, Clear
<1>3. ControlAt(d, m, "model")
  BY DEF ControlAt, Asking, Base, NextOf
<1>4. PendingAt(d, m, "model", g)
  BY DEF PendingAt, Resting, Base, NextOf
<1> QED
  BY <1>1, <1>2, <1>3, <1>4 DEF Good, Base, NextOf

\* before the propagator is asked for a clause against the model,
LEMMA AskModelGood ==
  ASSUME NEW d, NEW m, NEW W, NEW o, Base(d, m, W, o), o,
         m.must # 0 => m.must \in DOMAIN d.lemmas,
         NEW q, Clear(d, q), NEW g, d.connected, d.notified = Len(d.trail),
         Pending(d) # {} => Level(d) = 0
  PROVE  Good(d, m, q, "askmodel", g, W)
<1>1. CoreAt(d, q, "askmodel", W)
  BY CorePost DEF Base
<1>2. ConflictAt(d, m, q, "askmodel")
  BY DEF ConflictAt, Resting, Clear
<1>3. ControlAt(d, m, "askmodel")
  BY DEF ControlAt, Asking, Base, NextOf
<1>4. PendingAt(d, m, "askmodel", g)
  BY DEF PendingAt, Resting, Base, NextOf
<1> QED
  BY <1>1, <1>2, <1>3, <1>4 DEF Good, Base, NextOf

\* before that clause is added.
LEMMA LemmaModelGood ==
  ASSUME NEW d, NEW m, NEW W, NEW o, Base(d, m, W, o), o, m.must = 0,
         m.next \in DOMAIN d.lemmas,
         NEW q, Clear(d, q), NEW g, d.connected, d.notified = Len(d.trail),
         Pending(d) # {} => Level(d) = 0
  PROVE  Good(d, m, q, "lemmamodel", g, W)
<1>1. CoreAt(d, q, "lemmamodel", W)
  BY CorePost DEF Base
<1>2. ConflictAt(d, m, q, "lemmamodel")
  BY DEF ConflictAt, Resting, Clear
<1>3. ControlAt(d, m, "lemmamodel")
  BY DEF ControlAt, Asking, Base, NextOf
<1>4. PendingAt(d, m, "lemmamodel", g)
  BY DEF PendingAt, Resting, Base, NextOf
<1> QED
  BY <1>1, <1>2, <1>3, <1>4 DEF Good, Base, NextOf

\* Facts that hold for trails in order hold whether or not that is asked for,
LEMMA FineAny ==
  ASSUME NEW c, NEW W, Fine(c, W, TRUE), NEW x
  PROVE  Loose(c, W, x) /\ Ordered(c.trail)
<1>1. Loose(c, W, TRUE) /\ Ordered(c.trail)
  BY DEF Fine
<1>2. Once(c)
  BY <1>1, Zenon DEF Loose
<1>3. Struct(c) /\ Hears(c) /\ Late(c) /\ Sound(c, W)
  BY <1>1, Zenon DEF Loose
<1> QED
  BY <1>1, <1>2, <1>3 DEF Loose

\* and on level 0 every trail is in order.
LEMMA RootAny ==
  ASSUME NEW c, NEW W, NEW o, Loose(c, W, o), Level(c) = 0, NEW x
  PROVE  Loose(c, W, x) /\ Ordered(c.trail)
<1>1. Fine(c, W, TRUE)
  BY RootFine
<1> QED
  BY <1>1, FineAny

\* What is true after backtracking to level 0 and propagating:
RootedFacts(c, d, W, x) ==
  /\ Loose(d, W, x) /\ Ordered(d.trail) /\ Level(d) = 0 /\ Same(c, d)
  /\ Roots(c.trail) \subseteq Roots(d.trail) /\ Done(d)
  /\ (c.conflict = None /\ d.conflict # None => W = {})
  /\ (c.conflict # None => d.conflict = c.conflict)

\* a new conflict there means that there is no model.
LEMMA RootedFine ==
  ASSUME NEW c, NEW W, NEW o, Loose(c, W, o), NEW x,
         NEW d, d = Propagated(Backtracked(c, 0))
  PROVE  RootedFacts(c, d, W, x)
<1> DEFINE b == Backtracked(c, 0)
<1>0. d = Propagated(b)
  OBVIOUS
<1>1. BackFacts(c, b, 0) /\ Loose(b, W, o) /\ Level(b) = 0
  <2>1. \A L \in Nat : L = 0 => BackFacts(c, Backtracked(c, L), L)
           /\ Loose(Backtracked(c, L), W, o) /\ Level(Backtracked(c, L)) = 0
    BY BackFine
  <2> QED
    BY <2>1
<1> HIDE DEF b
<1>2. Loose(b, W, x) /\ Ordered(b.trail)
  BY <1>1, RootAny
<1>3. PropFacts(b, d, W, x) /\ Done(d)
  BY <1>0, <1>2, PropagatedFine
<1>4. /\ Loose(d, W, x) /\ Ordered(d.trail) /\ Grown(b, d)
      /\ (b.conflict # None => d = b)
      /\ (d.conflict # None /\ b.conflict = None => Falsified(d))
  BY <1>2, <1>3 DEF PropFacts
<1>5. Struct(c) /\ Struct(b) /\ Struct(d) /\ Sound(d, W)
  BY <1>1, <1>4 DEF Loose
<1>6. Roots(b.trail) \subseteq Roots(d.trail) /\ Level(d) = 0
  BY <1>1, <1>4, <1>5, GrownRoots
<1>7. Roots(b.trail) = Roots(c.trail)
  BY <1>1, <1>5, BackRoots
<1>8. Same(c, b) /\ Same(b, d) /\ b.conflict = c.conflict
  BY <1>1, <1>4 DEF BackFacts, Grown
<1>9. Same(c, d)
  BY <1>8, SameFacts
<1>10. ASSUME d.conflict # None, c.conflict = None PROVE W = {}
  <2>1. Falsified(d)
    BY <1>4, <1>8, <1>10
  <2>2. d.conflict \in Clause
    BY <1>5, StructFields DEF FieldTypes
  <2>3. \A l \in d.conflict : LevelOf(d, l) = 0
    <3> TAKE l \in d.conflict
    <3>1. l \in Lit
      BY <2>2 DEF Clause
    <3>2. IsFalse(d, l)
      BY <1>5, <2>1, <2>2, Falsifieds
    <3>3. Valued(d, l)
      BY <1>5, <3>1, Values
    <3>4. LevelOf(d, l) \in 0..0
      BY <1>6, <3>2, <3>3 DEF Valued, IsAssigned
    <3> QED
      BY <3>4
  <2> QED
    BY <1>5, <1>10, <2>1, <2>3, RootConflict
<1> QED
  BY <1>3, <1>4, <1>6, <1>7, <1>8, <1>9, <1>10 DEF RootedFacts

\* Steps keep the variables, the connection and the lemmas that count as the
\* theory.
Kept(c, d) ==
  c.vars \subseteq d.vars /\ d.connected = c.connected /\ FormerTheory(d) = FormerTheory(c)

\* The theory is kept with the lemmas,
LEMMA LemmasTheory ==
  ASSUME NEW c, Struct(c), NEW d, Struct(d), LemmasKept(c, d)
  PROVE  FormerTheory(d) = FormerTheory(c)
<1>1. /\ DOMAIN c.lemmas = 1..Len(c.lemmas) /\ DOMAIN d.lemmas = 1..Len(d.lemmas)
      /\ Len(d.lemmas) = Len(c.lemmas)
  BY LemmaTypes DEF LemmasKept
<1>2. \A i \in 1..Len(c.lemmas) : d.lemmas[i].lits = c.lemmas[i].lits
  BY DEF LemmasKept
<1> QED
  BY <1>1, <1>2 DEF FormerTheory

\* so everything is by steps that keep the view of the solver,
LEMMA ViewKept ==
  ASSUME NEW c, Struct(c), NEW d, Struct(d), View(c, d)
  PROVE  Kept(c, d)
  BY LemmasTheory DEF Kept, View

\* or its settings,
LEMMA SettingsKept ==
  ASSUME NEW c, NEW d, c.vars \subseteq d.vars, d.connected = c.connected,
         d.lemmas = c.lemmas
  PROVE  Kept(c, d)
  BY DEF Kept, FormerTheory

\* and by several steps.
LEMMA KeptTrans ==
  \A c, d, e : Kept(c, d) /\ Kept(d, e) => Kept(c, e)
  BY DEF Kept

\* The state d follows c: it has what holds at every label, and no lemma more
\* to give.
Follows(c, d, m, W, o) ==
  /\ Base(d, m, W, o) /\ Kept(c, d) /\ d.connected = c.connected
  /\ Pending(d) \subseteq Pending(c) /\ Len(d.lemmas) = Len(c.lemmas)

\* That is so for steps that keep the view and the fixed literals,
LEMMA FollowsView ==
  ASSUME NEW c, NEW m, NEW W, NEW o, NEW x, Base(c, m, W, o), NEW d,
         Loose(d, W, x), Ordered(d.trail), View(c, d), Roots(c.trail) \subseteq Roots(d.trail)
  PROVE  Follows(c, d, m, W, x)
<1>1. Struct(c) /\ Struct(d) /\ LemmasKept(c, d) /\ d.private = c.private
  BY BaseFacts DEF Loose, View
<1>2. Pending(d) \subseteq Pending(c)
  BY <1>1, PendingLess
<1>3. Kept(c, d) /\ Len(d.lemmas) = Len(c.lemmas)
  BY <1>1, ViewKept DEF LemmasKept
<1>4. Base(d, m, W, x)
  BY <1>1, <1>2, <1>3, BaseFacts DEF Base, NextOf
<1> QED
  BY <1>2, <1>3, <1>4 DEF Follows, Kept

\* for the steps of the search on the trail,
LEMMA FollowsStep ==
  ASSUME NEW c, NEW m, NEW W, NEW o, Base(c, m, W, o), NEW d, StepFacts(c, d, W, o)
  PROVE  Follows(c, d, m, W, o) /\ Level(d) <= Level(c) /\ Level(d) \in Nat
<1>1. /\ Loose(d, W, o) /\ Ordered(d.trail) /\ View(c, d)
      /\ Level(d) <= Level(c) /\ Roots(c.trail) \subseteq Roots(d.trail)
  BY BaseFacts DEF StepFacts
<1>2. Level(d) \in Nat
  BY <1>1, StructFields DEF Loose
<1> QED
  BY <1>1, <1>2, FollowsView

\* and for those that change settings only.
LEMMA FollowsSettings ==
  ASSUME NEW c, NEW m, NEW W, NEW o, Base(c, m, W, o), NEW d,
         Loose(d, W, o), Ordered(d.trail), d.private = c.private,
         d.connected = c.connected, d.lemmas = c.lemmas, c.vars \subseteq d.vars,
         Roots(c.trail) \subseteq Roots(d.trail)
  PROVE  Follows(c, d, m, W, o)
<1>1. Struct(c) /\ Struct(d)
  BY BaseFacts DEF Loose
<1>2. Pending(d) \subseteq Pending(c)
  BY <1>1, PendingSame
<1>3. Kept(c, d)
  BY SettingsKept
<1>4. Base(d, m, W, o)
  BY <1>2, BaseFacts DEF Base, NextOf
<1> QED
  BY <1>2, <1>3, <1>4 DEF Follows

\* What a step of the search has to keep.
Result(c, d, m, q, l, g, W) == Good(d, m, q, l, g, W) /\ Kept(c, d)

\* The truth values as constants, to instantiate facts with.
LEMMA SomeTrue == \E x \in BOOLEAN : x
  OBVIOUS

\* The same.
LEMMA SomeFalse == \E x \in BOOLEAN : ~x
  OBVIOUS

\* At most labels there is no conflict.
LEMMA CalmStart ==
  ASSUME NEW c, NEW m, NEW q, NEW l, NEW g, NEW W, Good(c, m, q, l, g, W),
         l \notin {"analyze", "lemma", "askmodel"}
  PROVE  (c.conflict = None \/ c.unsat) /\ m.must = 0 /\ m \in Mock
  BY DEF Good, ConflictAt, ControlAt

\* A solver is kept by doing nothing.
LEMMA KeptSelf == \A c : Kept(c, c)
  BY DEF Kept

-----------------------------------------------------------------------------
(* The start of a search.                                                  *)

\* The start of a search: 'solve' returns at once when there is a
\* contradiction.
LEMMA BeginDone ==
  ASSUME NEW c, NEW m, NEW q, NEW g, NEW W, Good(c, m, q, "start", g, W),
         c.unsat \/ q.unsat_constraint
  PROVE  Result(c, c, m, q, "done", g, W)
<1>1. PICK o \in BOOLEAN : ~o
  BY SomeFalse
<1>2. Loose(c, W, o) /\ ~c.private /\ NextOf(m, c)
  BY <1>1, RestBase
<1>3. Ordered(c.trail)
  BY DEF Good, CoreAt
<1>4. Base(c, m, W, o)
  BY <1>2, <1>3 DEF Base
<1>5. (c.conflict = None \/ c.unsat) /\ m.must = 0
  BY CalmStart
<1>6. Good(c, m, q, "done", g, W)
  BY <1>4, <1>5, DoneGood
<1> QED
  BY <1>6, KeptSelf DEF Result

\* Else it backtracks to level 0 and propagates;
RootResult(c, d, m, W, x) ==
  /\ Follows(c, d, m, W, x) /\ Level(d) = 0 /\ d.unsat = c.unsat /\ Done(d)
  /\ (d.conflict # None => W = {}) /\ d.private = c.private

\* what that gives,
LEMMA BeginRoot ==
  ASSUME NEW c, NEW m, NEW q, NEW g, NEW W, Good(c, m, q, "start", g, W), ~c.unsat,
         NEW d, d = Propagated(Backtracked(c, 0)), NEW x
  PROVE  RootResult(c, d, m, W, x)
<1>1. PICK o \in BOOLEAN : ~o
  BY SomeFalse
<1>2. Loose(c, W, o) /\ ~c.private /\ NextOf(m, c)
  BY <1>1, RestBase
<1>3. c.conflict = None
  BY CalmStart
<1>4. RootedFacts(c, d, W, x)
  BY <1>2, RootedFine
<1>5. /\ Loose(d, W, x) /\ Ordered(d.trail) /\ Level(d) = 0 /\ Same(c, d)
      /\ Roots(c.trail) \subseteq Roots(d.trail) /\ Done(d)
      /\ (d.conflict # None => W = {})
  BY <1>3, <1>4 DEF RootedFacts
<1>6. Struct(c) /\ Struct(d)
  BY <1>2, <1>5 DEF Loose
<1>7. View(c, d)
  BY <1>5, FrameFacts, ViewFacts
<1>8. Pending(d) \subseteq Pending(c) /\ LemmasKept(c, d)
  BY <1>5, <1>6, PendingSame DEF Same
<1>9. Base(d, m, W, x)
  BY <1>2, <1>5, <1>8 DEF Base, NextOf, Same
<1>10. Kept(c, d)
  BY <1>6, <1>7, ViewKept
<1>11. Follows(c, d, m, W, x)
  BY <1>5, <1>8, <1>9, <1>10 DEF Follows, Same
<1> QED
  BY <1>5, <1>11 DEF RootResult, Same

\* a conflict there makes the formula unsatisfiable,
LEMMA BeginUnsat ==
  ASSUME NEW c, NEW m, NEW q, NEW g, NEW W, Good(c, m, q, "start", g, W), ~c.unsat,
         NEW d, d = Propagated(Backtracked(c, 0)), d.conflict # None,
         NEW u, u = [d EXCEPT !.unsat = TRUE]
  PROVE  Result(c, u, m, q, "done", g, W)
<1>1. PICK x \in BOOLEAN : x
  BY SomeTrue
<1>2. RootResult(c, d, m, W, x)
  BY BeginRoot
<1>3. Base(d, m, W, x) /\ Kept(c, d) /\ W = {}
  BY <1>2 DEF RootResult, Follows
<1>4. Loose(d, W, x) /\ Ordered(d.trail) /\ ~d.private /\ NextOf(m, d) /\ Struct(d)
  BY <1>3, BaseFacts
<1>5. u = UnsatSet(d, x)
  BY <1>1 DEF UnsatSet
<1>6. UnsatFacts(d, u, x, W, x)
  BY <1>3, <1>4, <1>5, UnsatSetFine
<1>7. /\ Loose(u, W, x) /\ Ordered(u.trail) /\ Frame(d, u) /\ u.trail = d.trail
      /\ u.unsat
  BY <1>1, <1>4, <1>6 DEF UnsatFacts
<1>8. Follows(d, u, m, W, x)
  BY <1>3, <1>7, ViewFacts, FollowsView
<1>9. m.must = 0
  BY CalmStart
<1>10. Good(u, m, q, "done", g, W)
  BY <1>7, <1>8, <1>9, DoneGood DEF Follows
<1>11. Kept(c, u)
  BY <1>3, <1>8, KeptTrans DEF Follows
<1> QED
  BY <1>10, <1>11 DEF Result

\* and without one the search begins.
LEMMA BeginOn ==
  ASSUME NEW c, NEW m, NEW q, NEW g, NEW W, Good(c, m, q, "start", g, W), ~c.unsat,
         NEW d, d = Propagated(Backtracked(c, 0)), d.conflict = None
  PROVE  Result(c, d, m, q, "done", g, W) /\ Result(c, d, m, q, "loop", g, W)
<1>1. PICK x \in BOOLEAN : x
  BY SomeTrue
<1>2. RootResult(c, d, m, W, x)
  BY BeginRoot
<1>3. Base(d, m, W, x) /\ Kept(c, d) /\ Level(d) = 0
  BY <1>2 DEF RootResult, Follows
<1>4. m.must = 0
  BY CalmStart
<1>5. Good(d, m, q, "done", g, W)
  BY <1>3, <1>4, DoneGood
<1>6. Pending(d) # {} => Level(d) <= 1 /\ (m.count > 2 => Level(d) = 0 \/ d.unsat)
  BY <1>3
<1>7. Good(d, m, q, "loop", g, W)
  BY <1>1, <1>3, <1>4, <1>6, LoopGood
<1> QED
  BY <1>3, <1>5, <1>7 DEF Result

(* Propagate *)
LEMMA PropagateDone ==
  ASSUME NEW c, NEW m, NEW q, NEW g, NEW W, Good(c, m, q, "loop", g, W)
  PROVE  Result(c, c, m, q, "done", g, W)
<1>1. PICK x \in BOOLEAN : x
  BY SomeTrue
<1>2. Base(c, m, W, x)
  BY GoodBase DEF Resting
<1>3. (c.conflict = None \/ c.unsat) /\ m.must = 0
  BY CalmStart
<1>4. Good(c, m, q, "done", g, W)
  BY <1>2, <1>3, DoneGood
<1> QED
  BY <1>4, KeptSelf DEF Result

\* Propagation finds a conflict, or the propagator hears the new trail.
LEMMA PropagateFine ==
  ASSUME NEW c, NEW m, NEW q, NEW g, NEW W, Good(c, m, q, "loop", g, W), ~c.unsat,
         ~q.unsat_constraint, NEW d, d = Propagated(c), NEW h \in BOOLEAN, ~h
  PROVE  /\ (d.conflict # None => Result(c, d, m, q, "analyze", g, W))
         /\ (d.conflict = None /\ d.connected =>
              Result(c, Notified(d), m, q, "cbpropagate", h, W))
         /\ (d.conflict = None /\ ~d.connected => Result(c, d, m, q, "decide", g, W))
<1>1. PICK x \in BOOLEAN : x
  BY SomeTrue
<1>2. Base(c, m, W, x)
  BY GoodBase DEF Resting
<1>3. c.conflict = None /\ m.must = 0
  BY CalmStart
<1>4. Loose(c, W, x) /\ Struct(c) /\ Level(c) \in Nat
  BY <1>2, BaseFacts
<1>5. PropFacts(c, d, W, x) /\ Done(d)
  BY <1>4, PropagatedFine
<1>6. StepFacts(c, d, W, x)
  BY <1>4, <1>5, PropStepFacts
<1>7. Follows(c, d, m, W, x) /\ Level(d) <= Level(c) /\ Level(d) \in Nat
  BY <1>2, <1>6, FollowsStep
<1>8. Base(d, m, W, x) /\ Kept(c, d) /\ Pending(d) \subseteq Pending(c)
  BY <1>7 DEF Follows
<1>9. ~d.unsat /\ (d.conflict # None => Falsified(d))
  BY <1>3, <1>5 DEF PropFacts, Grown, Same
<1>10. Pending(d) # {} => Level(d) <= 1 /\ (m.count > 2 => Level(d) = 0)
  <2>1. Pending(c) # {} => Level(c) <= 1 /\ (m.count > 2 => Level(c) = 0)
    BY DEF Good, PendingAt, Resting
  <2> QED
    BY <1>4, <1>7, <1>8, <2>1
<1>11. ASSUME d.conflict # None PROVE Result(c, d, m, q, "analyze", g, W)
  <2>1. Good(d, m, q, "analyze", g, W)
    BY <1>1, <1>3, <1>8, <1>9, <1>10, <1>11, AnalyzeGood
  <2> QED
    BY <1>8, <2>1 DEF Result
<1>12. d.conflict = None => d.propagated = Len(d.trail)
  BY <1>5 DEF Done
<1>13. ASSUME d.conflict = None, d.connected
       PROVE Result(c, Notified(d), m, q, "cbpropagate", h, W)
  <2> DEFINE e == Notified(d)
  <2>1. Loose(d, W, x) /\ Ordered(d.trail) /\ ~d.private /\ (Listens(d) <=> d.connected)
    BY <1>8, BaseFacts
  <2>2. e = Notified(d)
    OBVIOUS
  <2> HIDE DEF e
  <2>3. /\ Same(d, e) /\ e.trail = d.trail /\ e.conflict = d.conflict
        /\ e.propagated = d.propagated /\ Caught(e) /\ e.control = d.control
    BY <2>1, <2>2, NotifiedFine
  <2>4. StepFacts(d, e, W, x)
    BY <2>1, <2>2, NotifiedStep
  <2>5. Follows(d, e, m, W, x)
    BY <1>8, <2>4, FollowsStep
  <2>6. Base(e, m, W, x) /\ Kept(d, e) /\ Pending(e) \subseteq Pending(d)
    BY <2>5 DEF Follows
  <2>7. e.connected /\ Listens(e) /\ ~e.unsat /\ Level(e) = Level(d)
    BY <1>9, <1>13, <2>1, <2>3 DEF Same, Listens, Level
  <2>8. Clear(e, q) /\ e.notified = Len(e.trail) /\ e.propagated = Len(e.trail)
    BY <1>12, <1>13, <2>3, <2>7 DEF Clear, Caught
  <2>9. Pending(e) # {} => Level(e) <= 1 /\ (m.count > 2 => Level(e) = 0)
    BY <1>10, <2>6, <2>7
  <2>10. Good(e, m, q, "cbpropagate", h, W)
    BY <1>1, <1>3, <2>6, <2>7, <2>8, <2>9, CbGood
  <2>11. Kept(c, e)
    BY <1>8, <2>6, KeptTrans
  <2> QED
    BY <2>2, <2>10, <2>11 DEF Result
<1>14. ASSUME d.conflict = None, ~d.connected PROVE Result(c, d, m, q, "decide", g, W)
  <2>1. Pending(d) = {}
    BY <1>8, <1>14, BaseFacts
  <2>2. Good(d, m, q, "decide", g, W)
    BY <1>1, <1>3, <1>8, <1>9, <1>12, <1>14, <2>1, DecideGood DEF Clear
  <2> QED
    BY <1>8, <2>2 DEF Result
<1> QED
  BY <1>11, <1>13, <1>14

\* A conflict is analyzed, with any level chosen under 'chrono'.
LEMMA AnalyzeFine ==
  ASSUME NEW c, NEW m, NEW q, NEW g, NEW W, Good(c, m, q, "analyze", g, W),
         NEW jump, jump \in IF c.chrono THEN {0, Level(c) - 1} ELSE {0},
         NEW d, d = Analyzed(c, jump)
  PROVE  Result(c, d, m, q, "loop", g, W)
<1>1. PICK x \in BOOLEAN : x
  BY SomeTrue
<1>2. Base(c, m, W, x)
  BY GoodBase DEF Resting
<1>3. c.conflict # None /\ m.must = 0 /\ ~c.unsat /\ Falsified(c) /\ ~q.unsat_constraint
  BY DEF Good, ConflictAt, ControlAt, Resting
<1>4. Loose(c, W, x) /\ Level(c) \in Nat /\ Ordered(c.trail) /\ ~c.private
  BY <1>2, BaseFacts
<1>5. jump \in Int /\ (Level(c) > 0 => jump \in Nat)
  BY <1>4
<1>6. AnalyzedFacts(c, d, W, x)
  BY <1>3, <1>4, <1>5, AnalyzedFine
<1>7. /\ Loose(d, W, x) /\ Ordered(d.trail) /\ View(c, d)
      /\ Roots(c.trail) \subseteq Roots(d.trail) /\ Level(d) <= Level(c)
      /\ d.unsat \/ (d.conflict = None /\ Level(d) < Level(c))
  BY <1>6 DEF AnalyzedFacts
<1>8. Follows(c, d, m, W, x) /\ Level(d) \in Nat
  BY <1>2, <1>7, FollowsView, StructFields DEF Loose
<1>9. Base(d, m, W, x) /\ Kept(c, d) /\ Pending(d) \subseteq Pending(c)
  BY <1>8 DEF Follows
<1>10. Pending(d) # {} => Level(d) <= 1 /\ (m.count > 2 => Level(d) = 0 \/ d.unsat)
  <2>1. Pending(c) # {} => Level(c) <= 1
    BY DEF Good, PendingAt, Resting
  <2> QED
    BY <1>4, <1>7, <1>8, <1>9, <2>1
<1>11. Good(d, m, q, "loop", g, W)
  BY <1>1, <1>3, <1>7, <1>9, <1>10, LoopGood
<1> QED
  BY <1>9, <1>11 DEF Result

\* The propagator has nothing to propagate.
LEMMA CbNothingFine ==
  ASSUME NEW c, NEW m, NEW q, NEW g, NEW W, Good(c, m, q, "cbpropagate", g, W)
  PROVE  Result(c, c, m, q, "ask", g, W)
<1>1. PICK x \in BOOLEAN : x
  BY SomeTrue
<1>2. Base(c, m, W, x)
  BY GoodBase DEF Resting
<1>3. m.must = 0 /\ Clear(c, q)
  BY DEF Good, ConflictAt, ControlAt, Resting, Clear
<1>4. c.connected /\ c.notified = Len(c.trail) /\ ~g
  BY DEF Good, ControlAt, Asking, PendingAt
<1>5. Pending(c) # {} =>
        /\ Level(c) <= 1 /\ (m.count > 2 => Level(c) = 0 \/ g)
        /\ g \/ c.propagated = Len(c.trail) \/ Level(c) = 0
  BY <1>3 DEF Good, PendingAt, Resting, Clear
<1>6. Good(c, m, q, "ask", g, W)
  BY <1>1, <1>2, <1>3, <1>4, <1>5, AskGood
<1> QED
  BY <1>6, KeptSelf DEF Result

(* What follows a callback. *)
ResumeOk(e, m, q, W, l, g) ==
  /\ (e.unsat => Good(e, m, q, "loop", g, W))
  /\ (~e.unsat /\ e.conflict # None => Good(e, m, q, "analyze", g, W))
  /\ (~Interrupted(e) => Good(Notified(e), m, q, l, g, W) /\ Kept(e, Notified(e)))

\* The loop of the callbacks is left for a contradiction or for a conflict.
LEMMA InterruptFine ==
  ASSUME NEW e, NEW m, NEW W, NEW x, Base(e, m, W, x), x, m.must = 0,
         NEW q, ~q.unsat_constraint, NEW g, e.conflict = None \/ Falsified(e),
         Pending(e) # {} => Level(e) <= 1
  PROVE  /\ (e.unsat => Good(e, m, q, "loop", g, W))
         /\ (~e.unsat /\ e.conflict # None => Good(e, m, q, "analyze", g, W))
<1>1. ASSUME e.unsat PROVE Good(e, m, q, "loop", g, W)
  BY <1>1, LoopGood
<1>2. ASSUME ~e.unsat, e.conflict # None PROVE Good(e, m, q, "analyze", g, W)
  BY <1>2, AnalyzeGood
<1> QED
  BY <1>1, <1>2

-----------------------------------------------------------------------------
(* The callbacks of the propagator: 'cb_propagate'.                        *)

\* What telling the trail to the propagator changes:
NotedFacts(d, e, m, W, x) ==
  /\ Base(e, m, W, x) /\ Kept(d, e) /\ Pending(e) \subseteq Pending(d)
  /\ e.connected /\ e.unsat = d.unsat /\ e.conflict = d.conflict
  /\ Level(e) = Level(d) /\ e.notified = Len(e.trail) /\ e.trail = d.trail
  /\ e.propagated = d.propagated /\ Len(e.lemmas) = Len(d.lemmas)
  /\ e.lemmas = d.lemmas

\* only what was told.
LEMMA Noted ==
  ASSUME NEW d, NEW m, NEW W, NEW x, Base(d, m, W, x), d.connected,
         NEW e, e = Notified(d)
  PROVE  NotedFacts(d, e, m, W, x)
<1>1. Loose(d, W, x) /\ Ordered(d.trail) /\ ~d.private /\ (Listens(d) <=> d.connected)
  BY BaseFacts
<1>2. /\ Same(d, e) /\ e.trail = d.trail /\ e.conflict = d.conflict
      /\ e.propagated = d.propagated /\ Caught(e) /\ e.control = d.control
  BY <1>1, NotifiedFine
<1>3. StepFacts(d, e, W, x)
  BY <1>1, NotifiedStep
<1>4. Follows(d, e, m, W, x)
  BY <1>3, FollowsStep
<1>5. Base(e, m, W, x) /\ Kept(d, e) /\ Pending(e) \subseteq Pending(d)
  BY <1>4 DEF Follows
<1>6. e.connected /\ Listens(e) /\ e.unsat = d.unsat /\ Level(e) = Level(d)
      /\ e.lemmas = d.lemmas
  BY <1>1, <1>2 DEF Same, Listens, Level
<1>7. e.notified = Len(e.trail)
  BY <1>2, <1>6 DEF Caught
<1> QED
  BY <1>2, <1>5, <1>6, <1>7 DEF NotedFacts

\* A reason that the propagator will give is not one of the lemmas it gives by
\* itself.
LEMMA ProposedPending ==
  ASSUME NEW c, Struct(c), NEW d, Struct(d), NEW r, r.isReason,
         d.lemmas = Append(c.lemmas, r), d.trail = c.trail
  PROVE  /\ Pending(d) \subseteq Pending(c) /\ Len(d.lemmas) = Len(c.lemmas) + 1
         /\ FormerTheory(d) = FormerTheory(c) \cup {r.lits}
         /\ d.lemmas[Len(c.lemmas) + 1] = r
<1>1. /\ Len(c.lemmas) \in Nat /\ DOMAIN c.lemmas = 1..Len(c.lemmas)
      /\ Len(d.lemmas) \in Nat /\ DOMAIN d.lemmas = 1..Len(d.lemmas)
  BY LemmaTypes
<1>2. c.lemmas \in Seq(LemmaSet)
  BY StructFields DEF FieldTypes
<1> DEFINE L == c.lemmas
           n == Len(L)
           D == d.lemmas
<1>3. Len(D) = n + 1 /\ D[n + 1] = r /\ \A i \in 1..n : D[i] = L[i]
  BY <1>2
<1>4. \A i \in 1..Len(D) : i \in 1..n \/ i = n + 1
  BY <1>1, <1>3
<1>5. 1..n \subseteq 1..Len(D) /\ n + 1 \in 1..Len(D)
  BY <1>1, <1>3
<1>6. n \in Nat /\ DOMAIN L = 1..n /\ DOMAIN D = 1..Len(D)
  BY <1>1
<1>7. Pending(d) \subseteq Pending(c)
  <2> HIDE DEF n
  <2> SUFFICES ASSUME NEW i \in Pending(d)
      PROVE  i \in Pending(c)
    OBVIOUS
  <2>1. /\ i \in 1..Len(D) /\ ~D[i].added /\ ~D[i].isReason
        /\ D[i].lits \cap Roots(d.trail) = {}
    BY <1>6 DEF Pending
  <2>2. i \in 1..n /\ D[i] = L[i]
    BY <1>3, <1>4, <2>1
  <2> QED
    BY <1>6, <2>1, <2>2 DEF Pending
<1>8. FormerTheory(d) = FormerTheory(c) \cup {r.lits}
  <2>1. FormerTheory(d) = {D[i].lits : i \in 1..Len(D)}
    BY <1>6 DEF FormerTheory
  <2>2. FormerTheory(c) = {L[i].lits : i \in 1..n}
    BY <1>6 DEF FormerTheory
  <2> HIDE DEF D, L, n
  <2> QED
    BY <1>3, <1>4, <1>5, <2>1, <2>2
<1> QED
  BY <1>3, <1>7, <1>8

\* What 'cb_propagate' has to keep,
CbResult(c, e, m, q, g, V, cl) ==
  /\ ResumeOk(e, m, q, V, "cbpropagate", g)
  /\ c.vars \subseteq e.vars /\ FormerTheory(e) = FormerTheory(c) \cup {cl}
  /\ e.connected = c.connected

\* for every literal the propagator may propose.
LEMMA CbFine ==
  ASSUME NEW c, NEW m, NEW q, NEW g, NEW W, Good(c, m, q, "cbpropagate", g, W),
         NEW p \in Proposals(c), NEW V \in SUBSET W, \A y \in V : Holds(y, p.clause),
         NEW l, l = p.lit, NEW b, b = Proposed(c, p), NEW e, e = ExternallyPropagated(b, l)
  PROVE  CbResult(c, e, m, q, g, V, p.clause)
<1>1. PICK x \in BOOLEAN : x
  BY SomeTrue
<1>2. Base(c, m, W, x)
  BY GoodBase DEF Resting
<1>3. m.must = 0 /\ Clear(c, q)
  BY DEF Good, ConflictAt, ControlAt, Resting, Clear
<1>4. c.connected /\ c.notified = Len(c.trail) /\ ~g
  BY DEF Good, ControlAt, Asking, PendingAt
<1>5. Loose(c, W, x) /\ Struct(c) /\ Hears(c) /\ Level(c) \in Nat /\ Ordered(c.trail)
      /\ ~c.private /\ NextOf(m, c)
  BY <1>2, BaseFacts DEF Loose
<1>6. ProposalOk(c, p)
  BY <1>4, <1>5, ProposalsFine
<1>7. ProposedFacts(c, b, p, V, x)
  BY <1>4, <1>5, <1>6, ProposedFine
<1> DEFINE r == ReasonRecord(p)
<1>8. PutFacts(c, b, V, x) /\ b.lemmas = Append(c.lemmas, r)
      /\ b.reasonOf[l] = Len(c.lemmas) + 1
  BY <1>7 DEF ProposedFacts
<1>9. r.isReason /\ r.lits = p.clause
  BY DEF ReasonRecord
<1> HIDE DEF r
<1>10. /\ Loose(b, V, x) /\ Ordered(b.trail) /\ b.vars = c.vars
       /\ b.connected = c.connected /\ b.private = c.private
       /\ b.observed = c.observed /\ b.trail = c.trail /\ b.control = c.control
       /\ b.propagated = c.propagated /\ b.conflict = c.conflict /\ b.unsat = c.unsat
  BY <1>5, <1>8 DEF PutFacts
<1>11. Struct(b)
  BY <1>10 DEF Loose
<1>12. /\ Pending(b) \subseteq Pending(c) /\ Len(b.lemmas) = Len(c.lemmas) + 1
       /\ FormerTheory(b) = FormerTheory(c) \cup {p.clause}
       /\ b.lemmas[Len(c.lemmas) + 1] = r
  BY <1>5, <1>8, <1>9, <1>10, <1>11, ProposedPending
<1>13. Len(c.lemmas) \in Nat /\ DOMAIN b.lemmas = 1..Len(b.lemmas)
  BY <1>5, <1>11, LemmaTypes
<1>14. NextOf(m, b)
  BY <1>5, <1>12, <1>13 DEF NextOf
<1>15. Base(b, m, V, x)
  BY <1>5, <1>10, <1>14 DEF Base
<1>16. ExtOk(b, l)
  <2>1. /\ p.lit \in Lit /\ p.clause \in Clause /\ p.lit \in p.clause
        /\ Over(p.clause, c.observed) /\ ~IsTrue(c, p.lit)
        /\ \A k \in p.clause \ {p.lit} : IsFalse(c, k)
    BY <1>6 DEF ProposalOk
  <2>2. b.reasonOf[l] \in DOMAIN b.lemmas /\ b.lemmas[b.reasonOf[l]].lits = p.clause
    BY <1>8, <1>9, <1>12, <1>13
  <2>3. ~IsTrue(b, l) /\ \A k \in p.clause \ {l} : IsFalse(b, k)
    BY <1>10, <2>1 DEF IsTrue, IsFalse, Lits
  <2>4. Abs(l) \in b.observed
    BY <1>10, <2>1 DEF Over
  <2> QED
    BY <1>3, <1>4, <1>10, <2>1, <2>2, <2>3, <2>4 DEF ExtOk, Clear
<1>17. StepFacts(b, e, V, x) /\ (Interrupted(e) \/ e.propagated = Len(e.trail))
  BY <1>10, <1>16, ExtFine
<1>18. Follows(b, e, m, V, x) /\ Level(e) <= Level(b) /\ Level(e) \in Nat
  BY <1>15, <1>17, FollowsStep
<1>19. Base(e, m, V, x) /\ Kept(b, e) /\ Pending(e) \subseteq Pending(b) /\ e.connected
  BY <1>4, <1>10, <1>18 DEF Follows
<1>20. e.conflict = None \/ Falsified(e)
  BY <1>3, <1>10, <1>17 DEF StepFacts, ConflictKept, Clear
<1>21. Level(b) = Level(c)
  BY <1>10 DEF Level
<1>22. Pending(e) # {} => Level(e) <= 1 /\ (m.count > 2 => Level(e) = 0)
  <2>1. Pending(c) # {} => Level(c) <= 1 /\ (m.count > 2 => Level(c) = 0)
    BY <1>3 DEF Good, PendingAt, Resting, Clear
  <2> QED
    BY <1>5, <1>12, <1>18, <1>19, <1>21, <2>1
<1>23. /\ (e.unsat => Good(e, m, q, "loop", g, V))
       /\ (~e.unsat /\ e.conflict # None => Good(e, m, q, "analyze", g, V))
  BY <1>1, <1>3, <1>19, <1>20, <1>22, InterruptFine DEF Clear
<1>24. ASSUME ~Interrupted(e)
       PROVE  Good(Notified(e), m, q, "cbpropagate", g, V) /\ Kept(e, Notified(e))
  <2> DEFINE f == Notified(e)
  <2>1. NotedFacts(e, f, m, V, x)
    BY <1>19, Noted
  <2> HIDE DEF f
  <2>2. /\ Base(f, m, V, x) /\ Kept(e, f) /\ Pending(f) \subseteq Pending(e)
        /\ f.connected /\ f.unsat = e.unsat /\ f.conflict = e.conflict
        /\ Level(f) = Level(e) /\ f.notified = Len(f.trail) /\ f.trail = e.trail
        /\ f.propagated = e.propagated
    BY <2>1 DEF NotedFacts
  <2>3. Clear(f, q) /\ f.propagated = Len(f.trail)
    BY <1>3, <1>17, <1>24, <2>2 DEF Clear, Interrupted
  <2>4. Pending(f) # {} => Level(f) <= 1 /\ (m.count > 2 => Level(f) = 0)
    BY <1>22, <2>2
  <2>5. Good(f, m, q, "cbpropagate", g, V)
    BY <1>1, <1>3, <1>4, <2>2, <2>3, <2>4, CbGood
  <2> QED
    BY <2>2, <2>5 DEF f
<1>25. ResumeOk(e, m, q, V, "cbpropagate", g)
  BY <1>23, <1>24 DEF ResumeOk
<1>26. c.vars \subseteq e.vars /\ FormerTheory(e) = FormerTheory(c) \cup {p.clause}
       /\ e.connected = c.connected
  BY <1>10, <1>12, <1>19 DEF Kept
<1> QED
  BY <1>25, <1>26 DEF CbResult

-----------------------------------------------------------------------------
(* The callbacks of the propagator: 'cb_has_external_clause'.              *)

\* What asking the propagator changes of what holds at every label:
AnswerFacts(c, m, d, mk, has, W, x) ==
  /\ Base(d, mk, W, x) /\ Kept(c, d) /\ Pending(d) \subseteq Pending(c)
  /\ d.connected /\ d.conflict = c.conflict /\ d.unsat = c.unsat
  /\ Level(d) <= Level(c) /\ Level(d) \in Nat /\ (Caught(c) => Caught(d))
  /\ Lowers(c, d) /\ d.lemmas = c.lemmas /\ AskedMock(c, m, mk, has)

\* nothing, but observing a variable may lower the level.
LEMMA Answers ==
  ASSUME NEW c, NEW m, NEW W, NEW x, Base(c, m, W, x), c.connected,
         m.must # 0 => m.must \in DOMAIN c.lemmas, NEW a, a = Asked(c, m)
  PROVE  AnswerFacts(c, m, a.core, a.mock, a.has, W, x)
<1> DEFINE d == a.core
           mk == a.mock
           has == a.has
<1>1. Loose(c, W, x) /\ NextOf(m, c) /\ DOMAIN c.lemmas = 1..Len(c.lemmas)
      /\ Ordered(c.trail) /\ ~c.private
  BY BaseFacts
<1>2. AskOk(c, m, W, x)
  BY <1>1 DEF AskOk, NextOf
<1>3. ObservedFacts(c, d, W, x) /\ AskedMock(c, m, mk, has)
  BY <1>2, AskFine DEF AskedAnswer
<1> HIDE DEF d, mk, has
<1>4. NextOf(mk, c)
  BY <1>3 DEF AskedMock, NextOf, FirstNeeded
<1>5. Base(c, mk, W, x)
  BY <1>1, <1>4 DEF Base
<1>6. /\ Loose(d, W, x) /\ Ordered(d.trail) /\ Roots(d.trail) = Roots(c.trail)
      /\ Level(d) <= Level(c) /\ (Caught(c) => Caught(d)) /\ Lowers(c, d)
      /\ d.connected = c.connected /\ d.private = c.private
      /\ d.lemmas = c.lemmas /\ d.conflict = c.conflict /\ d.unsat = c.unsat
      /\ c.vars \subseteq d.vars
  BY <1>1, <1>3 DEF ObservedFacts, Settings
<1>7. Follows(c, d, mk, W, x)
  BY <1>5, <1>6, FollowsSettings
<1>8. Level(d) \in Nat
  BY <1>6, StructFields DEF Loose
<1> QED
  BY <1>3, <1>6, <1>7, <1>8 DEF AnswerFacts, Follows, d, mk, has

\* What 'cb_has_external_clause' has to keep: when it has a lemma, when the
\* loop is left, when it asks again, and when a decision follows.
AskResult(c, e, mk, has, q, g, h, W) ==
  /\ has => Result(c, e, mk, q, "lemma", g, W)
  /\ ~has /\ Interrupted(e) => Result(c, e, mk, q, IF e.unsat THEN "loop" ELSE "analyze", g, W)
  /\ ~has /\ ~Interrupted(e) /\ g => Result(c, Notified(e), mk, q, "cbpropagate", h, W)
  /\ ~has /\ ~Interrupted(e) /\ ~g => Result(c, e, mk, q, "decide", g, W)

\* It does when the propagator is asked once more after a lemma,
LEMMA AskAgainFine ==
  ASSUME NEW c, NEW m, NEW q, NEW g, NEW W, Good(c, m, q, "ask", g, W), g,
         NEW a, a = Asked(c, m), NEW e, e = a.core, NEW mk, mk = a.mock,
         NEW has, has = a.has, NEW h \in BOOLEAN, ~h
  PROVE  AskResult(c, e, mk, has, q, g, h, W)
<1>1. PICK x \in BOOLEAN : x
  BY SomeTrue
<1>2. Base(c, m, W, x)
  BY GoodBase DEF Resting
<1>3. m.must = 0 /\ Clear(c, q)
  BY DEF Good, ConflictAt, ControlAt, Resting, Clear
<1>4. c.connected /\ c.notified = Len(c.trail) /\ c.propagated = Len(c.trail)
  BY DEF Good, ControlAt, Asking, PendingAt
<1>5. AnswerFacts(c, m, e, mk, has, W, x)
  BY <1>2, <1>3, <1>4, Answers
<1>6. /\ Base(e, mk, W, x) /\ Kept(c, e) /\ Pending(e) \subseteq Pending(c)
      /\ e.connected /\ e.conflict = c.conflict /\ e.unsat = c.unsat
      /\ Level(e) <= Level(c) /\ Level(e) \in Nat
      /\ Lowers(c, e) /\ e.lemmas = c.lemmas /\ AskedMock(c, m, mk, has)
  BY <1>5 DEF AnswerFacts
<1>7. Clear(e, q) /\ ~Interrupted(e) /\ mk.must = 0
  BY <1>3, <1>6 DEF Clear, Interrupted, AskedMock
<1>8. Level(c) \in Nat /\ DOMAIN c.lemmas = 1..Len(c.lemmas)
  BY <1>2, BaseFacts
<1>9. Pending(c) # {} => Level(c) <= 1
  BY DEF Good, PendingAt, Resting
<1>10. Pending(e) # {} => Level(e) <= 1
  BY <1>6, <1>8, <1>9
<1>11. ASSUME has PROVE Good(e, mk, q, "lemma", g, W)
  <2>1. /\ mk.next \in DOMAIN e.lemmas /\ ~e.lemmas[mk.next].added
        /\ ~e.lemmas[mk.next].isReason
    BY <1>3, <1>6, <1>8, <1>11 DEF AskedMock
  <2> QED
    BY <1>1, <1>6, <1>7, <1>10, <2>1, LemmaGood DEF Clear
<1>12. ASSUME ~has PROVE Result(c, Notified(e), mk, q, "cbpropagate", h, W)
  <2> DEFINE f == Notified(e)
  <2>1. NotedFacts(e, f, mk, W, x)
    BY <1>6, Noted
  <2> HIDE DEF f
  <2>2. /\ Base(f, mk, W, x) /\ Kept(e, f) /\ Pending(f) \subseteq Pending(e)
        /\ f.connected /\ f.unsat = e.unsat /\ f.conflict = e.conflict
        /\ Level(f) = Level(e) /\ f.notified = Len(f.trail) /\ f.trail = e.trail
        /\ f.propagated = e.propagated
    BY <2>1 DEF NotedFacts
  <2>3. Pending(f) # {} => mk.count = 0 /\ Level(f) <= 1
    BY <1>6, <1>10, <1>12, <2>2 DEF AskedMock
  <2>4. Pending(f) # {} => f.propagated = Len(f.trail) \/ Level(f) = 0
    <3>1. CASE e.trail = c.trail /\ e.control = c.control /\ e.propagated = c.propagated
      BY <1>4, <2>2, <3>1
    <3>2. CASE Level(e) < Level(c)
      BY <1>6, <1>8, <1>9, <2>2, <3>2
    <3> QED
      BY <1>6, <3>1, <3>2 DEF Lowers
  <2>5. Pending(f) # {} => ~(mk.count > 2)
    BY <2>3
  <2>6. Clear(f, q)
    BY <1>7, <2>2 DEF Clear
  <2>7. Good(f, mk, q, "cbpropagate", h, W)
    BY <1>1, <1>7, <2>2, <2>3, <2>4, <2>5, <2>6, CbGood
  <2> QED
    BY <1>6, <2>2, <2>7, KeptTrans DEF Result, f
<1> QED
  BY <1>6, <1>7, <1>11, <1>12 DEF AskResult, Result

\* and when it is asked first.
LEMMA AskFirstFine ==
  ASSUME NEW c, NEW m, NEW q, NEW g, NEW W, Good(c, m, q, "ask", g, W), ~g,
         NEW a, a = Asked(c, m), NEW d, d = a.core, NEW mk, mk = a.mock,
         NEW has, has = a.has, NEW e, e = Notified(Propagated(d)), NEW h
  PROVE  AskResult(c, e, mk, has, q, g, h, W)
<1>1. PICK x \in BOOLEAN : x
  BY SomeTrue
<1>2. Base(c, m, W, x)
  BY GoodBase DEF Resting
<1>3. m.must = 0 /\ Clear(c, q)
  BY DEF Good, ConflictAt, ControlAt, Resting, Clear
<1>4. c.connected /\ c.notified = Len(c.trail)
  BY DEF Good, ControlAt, Asking
<1>5. AnswerFacts(c, m, d, mk, has, W, x)
  BY <1>2, <1>3, <1>4, Answers
<1>6. /\ Base(d, mk, W, x) /\ Kept(c, d) /\ Pending(d) \subseteq Pending(c)
      /\ d.connected /\ d.conflict = c.conflict /\ d.unsat = c.unsat
      /\ Level(d) <= Level(c) /\ Level(d) \in Nat
      /\ Lowers(c, d) /\ d.lemmas = c.lemmas /\ AskedMock(c, m, mk, has)
  BY <1>5 DEF AnswerFacts
<1> DEFINE p == Propagated(d)
<1>7. Loose(d, W, x)
  BY <1>6, BaseFacts
<1>8. PropFacts(d, p, W, x) /\ Done(p)
  BY <1>7, PropagatedFine
<1>9. StepFacts(d, p, W, x)
  BY <1>7, <1>8, PropStepFacts
<1>10. Follows(d, p, mk, W, x) /\ Level(p) <= Level(d) /\ Level(p) \in Nat
  BY <1>6, <1>9, FollowsStep
<1>11. e = Notified(p)
  OBVIOUS
<1>12. Done(d) => p = d
  BY PropStill
<1> HIDE DEF p
<1>13. Base(p, mk, W, x) /\ Kept(d, p) /\ Pending(p) \subseteq Pending(d) /\ p.connected
  BY <1>6, <1>10 DEF Follows
<1>14. NotedFacts(p, e, mk, W, x)
  BY <1>11, <1>13, Noted
<1>15. /\ Base(e, mk, W, x) /\ Kept(p, e) /\ Pending(e) \subseteq Pending(p)
       /\ e.connected /\ e.unsat = p.unsat /\ e.conflict = p.conflict
       /\ Level(e) = Level(p) /\ e.notified = Len(e.trail) /\ e.trail = p.trail
       /\ e.propagated = p.propagated /\ e.lemmas = p.lemmas
  BY <1>14 DEF NotedFacts
<1>16. Kept(c, e)
  BY <1>6, <1>13, <1>15, KeptTrans
<1>17. /\ p.unsat = d.unsat /\ p.lemmas = d.lemmas
       /\ (p.conflict # None => Falsified(p))
  BY <1>3, <1>6, <1>8 DEF PropFacts, Grown, Same, Clear
<1>18. ~e.unsat /\ ~q.unsat_constraint /\ mk.must = 0 /\ e.lemmas = c.lemmas
       /\ (e.conflict # None => Falsified(e))
  BY <1>3, <1>6, <1>15, <1>17 DEF Clear, AskedMock, Falsified
<1>19. Level(c) \in Nat /\ DOMAIN c.lemmas = 1..Len(c.lemmas)
  BY <1>2, BaseFacts
<1>20. Pending(c) # {} => /\ Level(c) <= 1 /\ (m.count > 2 => Level(c) = 0)
                          /\ c.propagated = Len(c.trail) \/ Level(c) = 0
  BY <1>3 DEF Good, PendingAt, Resting, Clear
<1>21. Pending(e) \subseteq Pending(c) /\ Level(e) <= Level(c) /\ Level(e) \in Nat
  BY <1>6, <1>10, <1>13, <1>15, <1>19
<1>22. Pending(e) # {} => Level(e) <= 1
  BY <1>19, <1>20, <1>21
<1>23. ASSUME has PROVE Good(e, mk, q, "lemma", g, W)
  <2>1. /\ mk.next \in DOMAIN e.lemmas /\ ~e.lemmas[mk.next].added
        /\ ~e.lemmas[mk.next].isReason
    BY <1>3, <1>6, <1>18, <1>19, <1>23 DEF AskedMock
  <2>2. ASSUME e.conflict # None, mk.next \in Pending(e) PROVE Level(e) = 0
    <3>1. CASE Level(c) = 0
      BY <1>21, <3>1
    <3>2. CASE Level(d) < Level(c)
      BY <1>6, <1>10, <1>15, <1>19, <1>20, <1>21, <2>2, <3>2
    <3>3. CASE c.propagated = Len(c.trail) /\ d.trail = c.trail
               /\ d.propagated = c.propagated
      <4>1. Done(d)
        BY <3>3 DEF Done
      <4>2. e.conflict = c.conflict
        BY <1>6, <1>12, <1>15, <4>1
      <4> QED
        BY <1>3, <2>2, <4>2 DEF Clear
    <3> QED
      BY <1>6, <1>20, <1>21, <2>2, <3>1, <3>2, <3>3 DEF Lowers
  <2> QED
    BY <1>1, <1>15, <1>18, <1>22, <2>1, <2>2, LemmaGood
<1>24. /\ (e.unsat => Good(e, mk, q, "loop", g, W))
       /\ (~e.unsat /\ e.conflict # None => Good(e, mk, q, "analyze", g, W))
  BY <1>1, <1>15, <1>18, <1>22, InterruptFine
<1>25. ASSUME ~has, ~Interrupted(e) PROVE Good(e, mk, q, "decide", g, W)
  <2>1. Clear(e, q) /\ e.propagated = Len(e.trail)
    BY <1>8, <1>15, <1>18, <1>25 DEF Clear, Interrupted, Done
  <2>2. Pending(e) # {} => mk.count = 0 /\ Level(e) = 0
    <3> SUFFICES ASSUME Pending(e) # {}
        PROVE  mk.count = 0 /\ Level(e) = 0
      OBVIOUS
    <3>1. m.count > 2 /\ mk.count = 0
      BY <1>6, <1>21, <1>25 DEF AskedMock
    <3>2. Level(c) = 0
      BY <1>20, <1>21, <3>1
    <3> QED
      BY <1>21, <3>1, <3>2
  <2>3. Pending(e) # {} => Level(e) = 0 /\ ~(mk.count > 2)
    BY <2>2
  <2> QED
    BY <1>1, <1>15, <1>18, <2>1, <2>3, DecideGood
<1>26. Interrupted(e) => e.conflict # None
  BY <1>18 DEF Interrupted
<1>27. has => Result(c, e, mk, q, "lemma", g, W)
  BY <1>16, <1>23 DEF Result
<1>28. ~has /\ Interrupted(e) => Result(c, e, mk, q, IF e.unsat THEN "loop" ELSE "analyze", g, W)
  BY <1>16, <1>18, <1>24, <1>26 DEF Result
<1>29. ~has /\ ~Interrupted(e) => Result(c, e, mk, q, "decide", g, W)
  BY <1>16, <1>25 DEF Result
<1> QED
  BY <1>27, <1>28, <1>29 DEF AskResult

-----------------------------------------------------------------------------
(* The callbacks of the propagator: 'cb_add_external_clause_lit'.          *)

\* the propagator goes on to its next lemma.
NextPut(m) == [m EXCEPT !.next = @ + 1]

\* The fields that this leaves alone.
LEMMA NextPutIs ==
  ASSUME NEW m \in Mock, NEW k, k = NextPut(m)
  PROVE  k \in Mock /\ k.next = m.next + 1 /\ k.must = m.must /\ k.count = m.count
<1> QED
  BY DEF Mock, NextPut

\* The lemma the propagator stands at was added:
NextFollows(c, e, m) ==
  /\ View(c, e) /\ Struct(c) /\ Struct(e) /\ e.lemmas[m.next].added /\ m.must = 0
  /\ m.next \in DOMAIN c.lemmas

\* then no lemma behind the next one is needed.
LEMMA NextIs ==
  ASSUME NEW c, NEW e, NEW m, NextFollows(c, e, m), NextOf(m, e),
         NEW k, k = NextPut(m)
  PROVE  NextOf(k, e) /\ k.must = 0 /\ k.count = m.count
<1>1. k \in Mock /\ k.next = m.next + 1 /\ k.must = m.must /\ k.count = m.count
  BY NextPutIs DEF NextOf
<1>2. /\ Len(e.lemmas) = Len(c.lemmas) /\ Len(c.lemmas) \in Nat
      /\ m.next \in 1..Len(c.lemmas)
  BY LemmaTypes DEF NextFollows, View, LemmasKept
<1>3. k.next \in 1..Len(e.lemmas) + 1
  BY <1>1, <1>2
<1>4. ASSUME NEW i \in Pending(e) PROVE FirstNeeded(k) <= i
  <2>1. i \in Nat /\ m.next \in Nat
    BY <1>2, PendingTypes DEF NextFollows
  <2>2. m.next <= i
    BY DEF NextOf, FirstNeeded, NextFollows
  <2>3. i # m.next
    BY DEF Pending, NextFollows
  <2>4. m.next + 1 <= i
    BY <2>1, <2>2, <2>3
  <2> QED
    BY <1>1, <2>4 DEF FirstNeeded, NextFollows
<1> QED
  BY <1>1, <1>3, <1>4 DEF NextOf, NextFollows

\* A lemma that is given is a clause that comes late.
LEMMA LemmaAddedIs ==
  ASSUME NEW c, NEW m, NEW r \in BOOLEAN, r
  PROVE  LemmaAdded(c, m) = GivenOf(c, m.next, r)
<1>1. r = TRUE
  OBVIOUS
<1> QED
  BY <1>1, Zenon DEF LemmaAdded, GivenOf, MarkOf

\* Adding the lemma, and the propagation after it.
LEMMA AddLemmaFine ==
  ASSUME NEW c, NEW m, NEW q, NEW g, NEW W, Good(c, m, q, "lemma", g, W),
         NEW e, e = Settled(LemmaAdded(c, m)), NEW k, k = NextPut(m),
         NEW h \in BOOLEAN, h
  PROVE  ResumeOk(e, k, q, W, "ask", h) /\ Kept(c, e)
<1>1. PICK x \in BOOLEAN : x
  BY SomeTrue
<1>2. Base(c, m, W, x)
  BY GoodBase DEF Resting
<1>3. /\ m.must = 0 /\ ~c.unsat /\ ~q.unsat_constraint
      /\ (c.conflict # None => Falsified(c) /\ (Level(c) = 0 \/ m.next \notin Pending(c)))
  BY DEF Good, ConflictAt, ControlAt, Resting
<1>4. /\ c.connected /\ m.next \in DOMAIN c.lemmas /\ ~c.lemmas[m.next].added
      /\ ~c.lemmas[m.next].isReason
  BY DEF Good, ControlAt, Asking
<1>5. Loose(c, W, x) /\ Struct(c) /\ Level(c) \in Nat
  BY <1>2, BaseFacts
<1>6. GivenOk(c, m.next)
  BY <1>3, <1>4 DEF GivenOk, Pending
<1> DEFINE d == LemmaAdded(c, m)
<1>7. GivenFacts(c, d, m.next, W, x)
  <2>1. d = GivenOf(c, m.next, x)
    BY <1>1, LemmaAddedIs
  <2> QED
    BY <1>5, <1>6, <2>1, GivenFine
<1>8. e = Settled(d)
  OBVIOUS
<1> HIDE DEF d
<1>9. StepFacts(c, d, W, x) /\ d.lemmas[m.next].added /\ Loose(d, W, x)
  BY <1>7 DEF GivenFacts, StepFacts
<1>10. StepFacts(d, e, W, x) /\ (Interrupted(e) \/ e.propagated = Len(e.trail))
  BY <1>8, <1>9, SettledFine
<1>11. StepFacts(c, e, W, x)
  BY <1>5, <1>9, <1>10, StepTrans
<1>12. Follows(c, e, m, W, x) /\ Level(e) <= Level(c) /\ Level(e) \in Nat
  BY <1>2, <1>11, FollowsStep
<1>13. /\ Base(e, m, W, x) /\ Kept(c, e) /\ Pending(e) \subseteq Pending(c)
       /\ e.connected
  BY <1>4, <1>12 DEF Follows
<1>14. e.lemmas[m.next].added
  <2>1. m.next \in 1..Len(d.lemmas)
    BY <1>4, <1>5, <1>9, LemmaTypes DEF StepFacts, View, LemmasKept
  <2> QED
    BY <1>9, <1>10, <2>1 DEF StepFacts, View, LemmasKept
<1>15. NextFollows(c, e, m)
  BY <1>3, <1>4, <1>5, <1>11, <1>14 DEF NextFollows, StepFacts, Loose
<1>16. NextOf(k, e) /\ k.must = 0 /\ k.count = m.count
  BY <1>13, <1>15, NextIs DEF Base
<1>17. Base(e, k, W, x)
  BY <1>13, <1>16 DEF Base
<1>18. e.conflict = None \/ Falsified(e)
  BY <1>3, <1>11 DEF StepFacts, ConflictKept
<1>19. Pending(e) # {} => Level(e) <= 1
  <2>1. Pending(c) # {} => Level(c) <= 1
    BY DEF Good, PendingAt, Resting
  <2> QED
    BY <1>5, <1>12, <1>13, <2>1
<1>20. /\ (e.unsat => Good(e, k, q, "loop", h, W))
       /\ (~e.unsat /\ e.conflict # None => Good(e, k, q, "analyze", h, W))
  BY <1>1, <1>3, <1>16, <1>17, <1>18, <1>19, InterruptFine
<1>21. ASSUME ~Interrupted(e)
       PROVE  Good(Notified(e), k, q, "ask", h, W) /\ Kept(e, Notified(e))
  <2> DEFINE f == Notified(e)
  <2>1. NotedFacts(e, f, k, W, x)
    BY <1>13, <1>17, Noted
  <2> HIDE DEF f
  <2>2. /\ Base(f, k, W, x) /\ Kept(e, f) /\ Pending(f) \subseteq Pending(e)
        /\ f.connected /\ f.unsat = e.unsat /\ f.conflict = e.conflict
        /\ Level(f) = Level(e) /\ f.notified = Len(f.trail) /\ f.trail = e.trail
        /\ f.propagated = e.propagated
    BY <2>1 DEF NotedFacts
  <2>3. Clear(f, q) /\ f.propagated = Len(f.trail)
    BY <1>3, <1>10, <1>21, <2>2 DEF Clear, Interrupted
  <2>4. Pending(f) # {} => Level(f) <= 1
    BY <1>19, <2>2
  <2>5. Good(f, k, q, "ask", h, W)
    BY <1>1, <1>16, <2>2, <2>3, <2>4, AskGood
  <2> QED
    BY <2>2, <2>5 DEF f
<1> QED
  BY <1>13, <1>20, <1>21 DEF ResumeOk

-----------------------------------------------------------------------------
(* The callbacks of the propagator: 'cb_check_found_model'.                *)

\* All variables have a value: the search ends, or the propagator checks the
\* model.
LEMMA FoundModelFine ==
  ASSUME NEW c, NEW m, NEW q, NEW g, NEW W, Good(c, m, q, "decide", g, W)
  PROVE  /\ Result(c, c, m, q, "done", g, W)
         /\ c.connected => Result(c, c, m, q, "model", g, W)
<1>1. PICK x \in BOOLEAN : x
  BY SomeTrue
<1>2. Base(c, m, W, x)
  BY GoodBase DEF Resting
<1>3. m.must = 0 /\ Clear(c, q)
  BY DEF Good, ConflictAt, ControlAt, Resting, Clear
<1>4. Good(c, m, q, "done", g, W)
  BY <1>2, <1>3, DoneGood DEF Clear
<1>5. Pending(c) # {} => Level(c) = 0
  BY DEF Good, PendingAt, Resting
<1>6. ASSUME c.connected PROVE Good(c, m, q, "model", g, W)
  BY <1>1, <1>2, <1>3, <1>5, <1>6, ModelGood
<1> QED
  BY <1>4, <1>6, KeptSelf DEF Result

\* Calls the search does not see keep what holds at every label.
LEMMA FollowsCalm ==
  ASSUME NEW c, NEW m, NEW W, NEW o, Base(c, m, W, o), NEW d, Calm(c, d, W, o)
  PROVE  Follows(c, d, m, W, o) /\ Level(d) = Level(c)
<1>1. Ordered(c.trail)
  BY BaseFacts
<1>2. /\ Loose(d, W, o) /\ Ordered(d.trail) /\ d.private = c.private
      /\ d.connected = c.connected /\ d.lemmas = c.lemmas /\ c.vars \subseteq d.vars
      /\ d.trail = c.trail /\ d.control = c.control
  BY <1>1 DEF Calm, Quiet
<1>3. Follows(c, d, m, W, o)
  BY <1>2, FollowsSettings
<1> QED
  BY <1>2, <1>3 DEF Level

\* the propagator must give its lemma n.
MustPut(m, n) == [m EXCEPT !.must = n]

\* The fields that this leaves alone.
LEMMA MustPutIs ==
  ASSUME NEW m \in Mock, NEW n \in Nat, NEW k, k = MustPut(m, n)
  PROVE  k \in Mock /\ k.next = m.next /\ k.must = n /\ k.count = m.count
<1> QED
  BY DEF Mock, MustPut

\* On level 0 a lemma that is needed is falsified by the model.
LEMMA RootPending ==
  ASSUME NEW c, NEW W, NEW o, Loose(c, W, o), Level(c) = 0
  PROVE  Pending(c) \subseteq FalsifiedLemmas(c)
<1>1. \A i \in DOMAIN c.trail : c.trail[i].level = 0
  BY RootFine
<1>2. ASSUME NEW i \in Pending(c), NEW l \in c.lemmas[i].lits, IsTrue(c, l)
      PROVE  FALSE
  <2>1. PICK j \in DOMAIN c.trail : c.trail[j].lit = l
    BY <1>2 DEF IsTrue, Lits
  <2>2. l \in Roots(c.trail)
    BY <1>1, <2>1 DEF Roots
  <2> QED
    BY <1>2, <2>2 DEF Pending
<1> QED
  BY <1>2 DEF FalsifiedLemmas, Pending

\* What 'cb_check_found_model' has to keep:
CheckResult(c, d, e, m, q, h, W) ==
  /\ Result(c, d, m, q, "loop", h, W)
  /\ Result(c, e, m, q, "done", h, W) /\ e.unsat = c.unsat
  /\ FalsifiedLemmas(d) # {} =>
       Result(c, e, MustPut(m, Min(FalsifiedLemmas(d))), q, "askmodel", h, W)

\* the model is accepted, or the first falsified lemma must be given.
LEMMA CheckModelFine ==
  ASSUME NEW c, NEW m, NEW q, NEW g, NEW W, Good(c, m, q, "model", g, W),
         NEW d, d = Notified(c), NEW e, e = Extended(d), NEW h
  PROVE  CheckResult(c, d, e, m, q, h, W)
<1>1. PICK x \in BOOLEAN : x
  BY SomeTrue
<1>2. Base(c, m, W, x)
  BY GoodBase DEF Resting
<1>3. m.must = 0 /\ Clear(c, q)
  BY DEF Good, ConflictAt, ControlAt, Resting, Clear
<1>4. c.connected /\ Level(c) \in Nat
  BY <1>2, BaseFacts DEF Good, ControlAt, Asking
<1>5. NotedFacts(c, d, m, W, x)
  BY <1>2, <1>4, Noted
<1>6. /\ Base(d, m, W, x) /\ Kept(c, d) /\ Pending(d) \subseteq Pending(c)
      /\ d.connected /\ d.unsat = c.unsat /\ d.conflict = c.conflict
      /\ Level(d) = Level(c) /\ d.notified = Len(d.trail)
  BY <1>5 DEF NotedFacts
<1>7. Pending(c) # {} => Level(c) = 0
  BY DEF Good, PendingAt, Resting
<1>8. Loose(d, W, x)
  BY <1>6, BaseFacts
<1>9. Calm(d, e, W, x)
  BY <1>8, ExtendedFine
<1>10. Follows(d, e, m, W, x) /\ Level(e) = Level(d)
  BY <1>6, <1>9, FollowsCalm
<1>11. /\ Base(e, m, W, x) /\ Kept(d, e) /\ Pending(e) \subseteq Pending(d) /\ e.connected
       /\ Len(e.lemmas) = Len(d.lemmas)
  BY <1>6, <1>10 DEF Follows
<1>12. /\ e.unsat = d.unsat /\ e.conflict = d.conflict /\ e.notified = Len(e.trail)
       /\ e.trail = d.trail /\ e.lemmas = d.lemmas
  BY <1>6, <1>9 DEF Calm, Quiet
<1>13. Kept(c, e)
  BY <1>6, <1>11, KeptTrans
<1>14. Clear(d, q) /\ Clear(e, q)
  BY <1>3, <1>6, <1>12 DEF Clear
<1>15. Pending(d) # {} => Level(d) = 0
  BY <1>6, <1>7
<1>16. Pending(e) # {} => Level(e) = 0
  BY <1>10, <1>11, <1>15
<1>17. Good(d, m, q, "loop", h, W)
  <2>1. Level(d) \in Nat
    BY <1>4, <1>6
  <2>2. Pending(d) # {} => Level(d) <= 1 /\ (m.count > 2 => Level(d) = 0 \/ d.unsat)
    BY <1>15, <2>1
  <2> QED
    BY <1>1, <1>3, <1>6, <1>14, <2>2, LoopGood DEF Clear
<1>18. Good(e, m, q, "done", h, W)
  BY <1>3, <1>11, <1>14, DoneGood DEF Clear
<1>19. ASSUME FalsifiedLemmas(d) # {}
       PROVE  Good(e, MustPut(m, Min(FalsifiedLemmas(d))), q, "askmodel", h, W)
  <2> DEFINE n == Min(FalsifiedLemmas(d))
             k == MustPut(m, n)
  <2>1. DOMAIN d.lemmas = 1..Len(d.lemmas) /\ Len(d.lemmas) \in Nat /\ m \in Mock
        /\ Struct(e) /\ Struct(d)
    BY <1>6, <1>11, BaseFacts
  <2>2. FalsifiedLemmas(d) \in SUBSET Nat /\ FalsifiedLemmas(d) \subseteq DOMAIN d.lemmas
    BY <2>1 DEF FalsifiedLemmas
  <2>3. n \in FalsifiedLemmas(d) /\ \A i \in FalsifiedLemmas(d) : n <= i
    BY <1>19, <2>2, MinFacts
  <2>4. n \in DOMAIN d.lemmas /\ n \in Nat /\ n # 0
    BY <2>1, <2>2, <2>3
  <2> HIDE DEF n
  <2>5. k \in Mock /\ k.next = m.next /\ k.must = n /\ k.count = m.count
    BY <2>1, <2>4, MustPutIs
  <2> HIDE DEF k
  <2>6. ASSUME NEW i \in Pending(e) PROVE n <= i
    <3>1. i \in Pending(d) /\ Level(d) = 0
      BY <1>11, <1>15, <2>6
    <3> QED
      BY <1>8, <2>3, <3>1, RootPending
  <2>7. NextOf(k, e)
    <3>1. m.next \in 1..Len(e.lemmas) + 1
      BY <1>11 DEF Base, NextOf
    <3> QED
      BY <2>4, <2>5, <2>6, <3>1 DEF NextOf, FirstNeeded
  <2>8. Base(e, k, W, x)
    BY <1>11, <2>7 DEF Base
  <2>9. k.must \in DOMAIN e.lemmas
    BY <1>12, <2>4, <2>5
  <2>10. Good(e, k, q, "askmodel", h, W)
    BY <1>1, <1>11, <1>12, <1>14, <1>16, <2>8, <2>9, AskModelGood
  <2> QED
    BY <2>10 DEF k, n
<1> QED
  BY <1>6, <1>12, <1>13, <1>17, <1>18, <1>19 DEF CheckResult, Result

\* What asking for a clause against the model has to keep:
AskModelResult(c, d, k, has, q, g, W) ==
  /\ has => Result(c, d, k, q, "lemmamodel", g, W)
  /\ Result(c, d, k, q, "model", g, W) /\ Result(c, d, k, q, "loop", g, W)
  /\ Result(c, d, k, q, "done", g, W) /\ d.unsat = c.unsat

\* it keeps it.
LEMMA AskModelFine ==
  ASSUME NEW c, NEW m, NEW q, NEW g, NEW W, Good(c, m, q, "askmodel", g, W),
         NEW a, a = Asked(c, m), NEW d, d = a.core, NEW k, k = a.mock,
         NEW has, has = a.has
  PROVE  AskModelResult(c, d, k, has, q, g, W)
<1>1. PICK x \in BOOLEAN : x
  BY SomeTrue
<1>2. Base(c, m, W, x)
  BY GoodBase DEF Resting
<1>3. Clear(c, q) /\ (m.must # 0 => m.must \in DOMAIN c.lemmas)
  BY DEF Good, ConflictAt, ControlAt, Resting, Clear
<1>4. c.connected /\ Level(c) \in Nat /\ c.notified = Len(c.trail)
      /\ DOMAIN c.lemmas = 1..Len(c.lemmas)
  BY <1>2, BaseFacts DEF Good, ControlAt, Asking
<1>5. AnswerFacts(c, m, d, k, has, W, x)
  BY <1>2, <1>3, <1>4, Answers
<1>6. /\ Base(d, k, W, x) /\ Kept(c, d) /\ Pending(d) \subseteq Pending(c)
      /\ d.connected /\ d.conflict = c.conflict /\ d.unsat = c.unsat
      /\ Level(d) <= Level(c) /\ Level(d) \in Nat /\ (Caught(c) => Caught(d))
      /\ d.lemmas = c.lemmas /\ AskedMock(c, m, k, has)
  BY <1>5 DEF AnswerFacts
<1>7. d.notified = Len(d.trail)
  <2>1. Caught(c)
    BY <1>4 DEF Caught
  <2>2. Listens(d)
    BY <1>6, BaseFacts
  <2> QED
    BY <1>6, <2>1, <2>2 DEF Caught
<1>8. Clear(d, q) /\ k.must = 0
  BY <1>3, <1>6 DEF Clear, AskedMock
<1>9. Pending(d) # {} => Level(d) = 0
  <2>1. Pending(c) # {} => Level(c) = 0
    BY DEF Good, PendingAt, Resting
  <2> QED
    BY <1>4, <1>6, <2>1
<1>10. ASSUME has PROVE Good(d, k, q, "lemmamodel", g, W)
  <2>1. k.next \in DOMAIN d.lemmas
    BY <1>4, <1>6, <1>10 DEF AskedMock
  <2> QED
    BY <1>1, <1>6, <1>7, <1>8, <1>9, <2>1, LemmaModelGood
<1>11. Good(d, k, q, "model", g, W)
  BY <1>1, <1>6, <1>8, <1>9, ModelGood
<1>12. Good(d, k, q, "loop", g, W)
  <2>1. Pending(d) # {} => Level(d) <= 1 /\ (k.count > 2 => Level(d) = 0 \/ d.unsat)
    BY <1>6, <1>9
  <2> QED
    BY <1>1, <1>6, <1>8, <2>1, LoopGood DEF Clear
<1>13. Good(d, k, q, "done", g, W)
  BY <1>6, <1>8, DoneGood DEF Clear
<1> QED
  BY <1>6, <1>10, <1>11, <1>12, <1>13 DEF AskModelResult, Result

\* backtracking to the highest level of the conflict,
BackConflict(d) == Backtracked(d, MaxLevel(d, d.conflict))

\* where the clause is still falsified.
LEMMA ConflictBack ==
  ASSUME NEW d, NEW W, NEW o, Loose(d, W, o), Falsified(d), NEW b, b = BackConflict(d)
  PROVE  /\ \E L \in Nat : BackFacts(d, b, L)
         /\ Falsified(b) /\ Loose(b, W, o) /\ (Ordered(d.trail) => Ordered(b.trail))
<1>1. Struct(d)
  BY DEF Loose
<1>2. ReadyFacts(d)
  BY <1>1, ReadyConflict
<1> DEFINE L == MaxLevel(d, d.conflict)
<1>3. L \in Nat /\ \A l \in d.conflict : LevelOf(d, l) <= L
  BY <1>1, <1>2, StructFields DEF ReadyFacts, MaxLevelIs
<1>4. b = Backtracked(d, L)
  BY DEF BackConflict
<1> HIDE DEF L
<1>5. BackFacts(d, b, L) /\ Loose(b, W, o) /\ (Ordered(d.trail) => Ordered(b.trail))
  BY <1>3, <1>4, BackFine
<1>6. ASSUME NEW l \in d.conflict PROVE IsFalse(b, l)
  <2>1. l \in Lit /\ IsFalse(d, l)
    BY <1>2, <1>6 DEF ReadyFacts
  <2>2. BackValued(d, b, L, l)
    BY <1>1, <1>3, <1>5, <2>1, BackValues
  <2> QED
    BY <1>3, <1>6, <2>1, <2>2 DEF BackValued
<1>7. Struct(b) /\ b.conflict = d.conflict /\ b.conflict \in Clause
  BY <1>2, <1>5 DEF BackFacts, ReadyFacts
<1>8. Falsified(b)
  BY <1>6, <1>7, Falsifieds
<1> QED
  BY <1>3, <1>5, <1>8

\* What adding the clause has to keep:
AddModelResult(c, d, k, q, h, W) ==
  /\ d.unsat => Result(c, d, k, q, "loop", h, W)
  /\ ~d.unsat /\ d.conflict # None => Result(c, BackConflict(d), k, q, "analyze", h, W)
  /\ ~d.unsat /\ d.conflict = None => Result(c, d, k, q, "model", h, W)
  /\ ~d.unsat /\ d.conflict = None /\ ~Moved(c, d) => Result(c, d, k, q, "askmodel", h, W)

\* it is a conflict, or the model is checked again.
LEMMA AddModelFine ==
  ASSUME NEW c, NEW m, NEW q, NEW g, NEW W, Good(c, m, q, "lemmamodel", g, W),
         NEW d, d = LemmaAdded(c, m), NEW k, k = NextPut(m), NEW h
  PROVE  AddModelResult(c, d, k, q, h, W)
<1>1. PICK x \in BOOLEAN : x
  BY SomeTrue
<1>2. Base(c, m, W, x)
  BY GoodBase DEF Resting
<1>3. m.must = 0 /\ Clear(c, q)
  BY DEF Good, ConflictAt, ControlAt, Resting, Clear
<1>4. c.connected /\ m.next \in DOMAIN c.lemmas /\ c.notified = Len(c.trail)
  BY DEF Good, ControlAt, Asking
<1>5. Loose(c, W, x) /\ Struct(c) /\ Level(c) \in Nat
  BY <1>2, BaseFacts
<1>6. GivenOk(c, m.next)
  BY <1>3, <1>4 DEF GivenOk, Clear
<1>7. GivenFacts(c, d, m.next, W, x)
  <2>1. d = GivenOf(c, m.next, x)
    BY <1>1, LemmaAddedIs
  <2> QED
    BY <1>5, <1>6, <2>1, GivenFine
<1>8. StepFacts(c, d, W, x) /\ d.lemmas[m.next].added /\ Loose(d, W, x)
  BY <1>7 DEF GivenFacts, StepFacts
<1>9. Follows(c, d, m, W, x) /\ Level(d) <= Level(c) /\ Level(d) \in Nat
  BY <1>2, <1>8, FollowsStep
<1>10. /\ Base(d, m, W, x) /\ Kept(c, d) /\ Pending(d) \subseteq Pending(c)
       /\ d.connected /\ Struct(d)
  BY <1>4, <1>8, <1>9 DEF Follows, Loose
<1>11. NextFollows(c, d, m)
  BY <1>3, <1>4, <1>5, <1>8, <1>10 DEF NextFollows, StepFacts
<1>12. NextOf(k, d) /\ k.must = 0 /\ k.count = m.count
  BY <1>10, <1>11, NextIs DEF Base
<1>13. Base(d, k, W, x)
  BY <1>10, <1>12 DEF Base
<1>14. d.conflict = None \/ Falsified(d)
  BY <1>3, <1>8 DEF StepFacts, ConflictKept, Clear
<1>15. Pending(d) # {} => Level(d) = 0
  <2>1. Pending(c) # {} => Level(c) = 0
    BY DEF Good, PendingAt, Resting
  <2> QED
    BY <1>5, <1>9, <1>10, <2>1
<1>16. ASSUME d.unsat PROVE Good(d, k, q, "loop", h, W)
  <2>1. Pending(d) # {} => Level(d) <= 1 /\ (k.count > 2 => Level(d) = 0 \/ d.unsat)
    BY <1>9, <1>15
  <2> QED
    BY <1>1, <1>12, <1>13, <1>16, <2>1, LoopGood
<1>17. ASSUME ~d.unsat, d.conflict # None
       PROVE  Result(c, BackConflict(d), k, q, "analyze", h, W)
  <2> DEFINE b == BackConflict(d)
  <2>1. /\ \E L \in Nat : BackFacts(d, b, L)
        /\ Falsified(b) /\ Loose(b, W, x) /\ (Ordered(d.trail) => Ordered(b.trail))
    BY <1>8, <1>14, <1>17, ConflictBack
  <2> HIDE DEF b
  <2>2. PICK L \in Nat : BackFacts(d, b, L)
    BY <2>1
  <2>3. Same(d, b) /\ b.conflict = d.conflict /\ Roots(b.trail) = Roots(d.trail)
        /\ Level(b) <= Level(d) /\ b.unsat = d.unsat
    BY <1>10, <2>2, BackRoots DEF BackFacts, Same
  <2>4. View(d, b)
    BY <2>3, FrameFacts, ViewFacts
  <2>5. Ordered(b.trail)
    BY <1>13, <2>1 DEF Base
  <2>6. Follows(d, b, k, W, x)
    BY <1>13, <2>1, <2>3, <2>4, <2>5, FollowsView
  <2>7. Base(b, k, W, x) /\ Kept(d, b) /\ Pending(b) \subseteq Pending(d)
    BY <2>6 DEF Follows
  <2>8. Level(b) \in Nat
    BY <2>7, BaseFacts
  <2>9. Pending(b) # {} => Level(b) <= 1
    BY <1>9, <1>15, <2>3, <2>7, <2>8
  <2>10. Good(b, k, q, "analyze", h, W)
    BY <1>1, <1>3, <1>12, <1>17, <2>1, <2>3, <2>7, <2>9, AnalyzeGood DEF Clear
  <2> QED
    BY <1>10, <2>7, <2>10, KeptTrans DEF Result, b
<1>18. ASSUME ~d.unsat, d.conflict = None
       PROVE  Good(d, k, q, "model", h, W)
              /\ (~Moved(c, d) => Good(d, k, q, "askmodel", h, W))
  <2>1. Clear(d, q)
    BY <1>3, <1>18 DEF Clear
  <2>2. Good(d, k, q, "model", h, W)
    BY <1>1, <1>10, <1>12, <1>13, <1>15, <2>1, ModelGood
  <2>3. ASSUME ~Moved(c, d) PROVE Good(d, k, q, "askmodel", h, W)
    <3>1. Caught(d)
      BY <1>4, <1>7, <2>3 DEF GivenFacts, Caught
    <3>2. d.notified = Len(d.trail)
      BY <1>10, <1>13, <3>1, BaseFacts DEF Caught
    <3> QED
      BY <1>1, <1>10, <1>12, <1>13, <1>15, <2>1, <3>2, AskModelGood
  <2> QED
    BY <2>2, <2>3
<1> QED
  BY <1>10, <1>16, <1>17, <1>18 DEF AddModelResult, Result

-----------------------------------------------------------------------------
(* Decisions, restarts and reductions.                                     *)

\* The search ends before a decision,
LEMMA DecideDone ==
  ASSUME NEW c, NEW m, NEW q, NEW g, NEW W, Good(c, m, q, "decide", g, W), NEW p
  PROVE  Result(c, c, m, p, "done", g, W)
<1>1. PICK x \in BOOLEAN : x
  BY SomeTrue
<1>2. Base(c, m, W, x)
  BY GoodBase DEF Resting
<1>3. m.must = 0 /\ Clear(c, q)
  BY DEF Good, ConflictAt, ControlAt, Resting, Clear
<1>4. Good(c, m, p, "done", g, W)
  BY <1>2, <1>3, DoneGood DEF Clear
<1> QED
  BY <1>4, KeptSelf DEF Result

\* or what holds then
DecidePre(c, m, q, W, x) ==
  /\ Base(c, m, W, x) /\ m.must = 0 /\ Clear(c, q) /\ Loose(c, W, x) /\ Caught(c)
  /\ Level(c) \in Nat /\ Ordered(c.trail) /\ (Pending(c) # {} => Level(c) = 0 /\ ~(m.count > 2))

\* is kept
LEMMA DecidePres ==
  ASSUME NEW c, NEW m, NEW q, NEW g, NEW W, Good(c, m, q, "decide", g, W), NEW x
  PROVE  DecidePre(c, m, q, W, x)
<1>2. Base(c, m, W, x)
  BY GoodBase DEF Resting
<1>3. m.must = 0 /\ Clear(c, q)
  BY DEF Good, ConflictAt, ControlAt, Resting, Clear
<1>4. Caught(c)
  BY <1>2, BaseFacts DEF Good, ControlAt, Caught
<1>5. Pending(c) # {} => Level(c) = 0 /\ ~(m.count > 2)
  BY <1>3 DEF Good, PendingAt, Resting, Clear
<1> QED
  BY <1>2, <1>3, <1>4, <1>5, BaseFacts DEF DecidePre

\* by every step that opens a level:
LEMMA DecidedGood ==
  ASSUME NEW c, NEW m, NEW q, NEW g, NEW W, NEW x \in BOOLEAN, x, DecidePre(c, m, q, W, x),
         NEW d, DecidedFacts(c, d, W, x)
  PROVE  Result(c, d, m, q, "loop", g, W)
<1>1. /\ Loose(d, W, x) /\ Ordered(d.trail) /\ Same(c, d) /\ d.conflict = c.conflict
      /\ Level(d) = Level(c) + 1 /\ Roots(c.trail) \subseteq Roots(d.trail)
  BY DEF DecidedFacts, DecidePre
<1>2. View(c, d)
  BY <1>1, FrameFacts, ViewFacts
<1>3. Follows(c, d, m, W, x)
  BY <1>1, <1>2, FollowsView DEF DecidePre
<1>4. Base(d, m, W, x) /\ Kept(c, d) /\ Pending(d) \subseteq Pending(c)
  BY <1>3 DEF Follows
<1>5. Pending(d) # {} => Level(d) <= 1 /\ (m.count > 2 => Level(d) = 0 \/ d.unsat)
  <2>1. Pending(d) # {} => Level(d) = 1 /\ ~(m.count > 2)
    BY <1>1, <1>4 DEF DecidePre
  <2> QED
    BY <2>1
<1>6. Good(d, m, q, "loop", g, W)
  BY <1>1, <1>4, <1>5, LoopGood DEF DecidePre, Clear
<1> QED
  BY <1>4, <1>6 DEF Result

\* a decision,
LEMMA DecideFine ==
  ASSUME NEW c, NEW m, NEW q, NEW g, NEW W, Good(c, m, q, "decide", g, W),
         NEW l \in Lit, Abs(l) \in c.vars, ~IsAssigned(c, l), NEW d, d = Decided(c, l)
  PROVE  Result(c, d, m, q, "loop", g, W)
<1>1. PICK x \in BOOLEAN : x
  BY SomeTrue
<1>2. DecidePre(c, m, q, W, x)
  BY DecidePres
<1>3. DecidedFacts(c, d, W, x)
  BY <1>2, DecidedFine DEF DecidePre
<1> QED
  BY <1>1, <1>2, <1>3, DecidedGood

\* a level without one,
LEMMA NewLevelGood ==
  ASSUME NEW c, NEW m, NEW q, NEW g, NEW W, Good(c, m, q, "decide", g, W),
         NEW d, d = NewLevel(c)
  PROVE  Result(c, d, m, q, "loop", g, W)
<1>1. PICK x \in BOOLEAN : x
  BY SomeTrue
<1>2. DecidePre(c, m, q, W, x)
  BY DecidePres
<1>3. DecidedFacts(c, d, W, x)
  BY <1>2, NewLevelDecides DEF DecidePre
<1> QED
  BY <1>1, <1>2, <1>3, DecidedGood

\* an assumption.
LEMMA AssumedGood ==
  ASSUME NEW c, NEW m, NEW q, NEW g, NEW W, Good(c, m, q, "decide", g, W),
         QueryOk(c, q), Level(c) < Len(q.assumptions), ~AssumptionFails(c, q),
         NEW d, d = Assumed(c, q)
  PROVE  Result(c, d, m, q, "loop", g, W)
<1>1. PICK x \in BOOLEAN : x
  BY SomeTrue
<1>2. DecidePre(c, m, q, W, x)
  BY DecidePres
<1> DEFINE l == q.assumptions[Level(c) + 1]
<1>3. Level(c) + 1 \in 1..Len(q.assumptions)
  BY <1>2 DEF DecidePre, QueryOk
<1>4. l \in Lit /\ Abs(l) \in c.vars /\ ~IsFalse(c, l)
  BY <1>3 DEF QueryOk, AssumptionFails
<1>5. l = q.assumptions[Level(c) + 1]
  OBVIOUS
<1> HIDE DEF l
<1>6. DecidedFacts(c, d, W, x)
  BY <1>2, <1>4, <1>5, AssumedFine DEF DecidePre
<1> QED
  BY <1>1, <1>2, <1>6, DecidedGood

\* So does a restart,
LEMMA RestartFine ==
  ASSUME NEW c, NEW m, NEW q, NEW g, NEW W, Good(c, m, q, "decide", g, W),
         NEW L \in Nat, NEW d, d = Backtracked(c, L)
  PROVE  Result(c, d, m, q, "loop", g, W)
<1>1. PICK x \in BOOLEAN : x
  BY SomeTrue
<1>2. DecidePre(c, m, q, W, x)
  BY DecidePres
<1>3. c.conflict = None /\ Loose(c, W, x)
  BY <1>2 DEF DecidePre, Clear
<1>4. StepFacts(c, d, W, x)
  BY <1>3, BackStep
<1>5. d.conflict = c.conflict
  BY <1>3, BackFine DEF BackFacts
<1>6. Follows(c, d, m, W, x) /\ Level(d) <= Level(c) /\ Level(d) \in Nat
  BY <1>2, <1>4, FollowsStep DEF DecidePre
<1>7. Base(d, m, W, x) /\ Kept(c, d) /\ Pending(d) \subseteq Pending(c)
  BY <1>6 DEF Follows
<1>8. Pending(d) # {} => Level(d) <= 1 /\ (m.count > 2 => Level(d) = 0 \/ d.unsat)
  <2>1. Pending(d) # {} => Level(d) = 0 /\ ~(m.count > 2)
    BY <1>2, <1>6, <1>7 DEF DecidePre
  <2> QED
    BY <2>1
<1>9. Good(d, m, q, "loop", g, W)
  BY <1>1, <1>2, <1>3, <1>5, <1>7, <1>8, LoopGood DEF DecidePre
<1> QED
  BY <1>7, <1>9 DEF Result

\* and dropping clauses, which
ClausesPut(c, s) == [c EXCEPT !.clauses = s]

\* leaves the trail alone:
LEMMA ClausesPutFine ==
  ASSUME NEW c, NEW W, NEW o, Loose(c, W, o), NEW s, s \subseteq c.clauses,
         NEW b, b = ClausesPut(c, s)
  PROVE  /\ Loose(b, W, o) /\ (Ordered(c.trail) => Ordered(b.trail)) /\ Frame(c, b)
         /\ b.trail = c.trail /\ b.control = c.control /\ b.conflict = c.conflict
         /\ b.unsat = c.unsat
<1>0. Struct(c) /\ Sound(c, W)
  BY DEF Loose
<1>1. IsState(c) /\ FieldTypes(c) /\ Known(c)
  BY <1>0, StructFields
<1>4. s \in SUBSET ClauseSet
  BY <1>1 DEF FieldTypes
<1>5. IsState(b)
  BY <1>1, Puts DEF ClausesPut
<1>6. /\ Frame(c, b) /\ b.clauses = s /\ b.trail = c.trail /\ b.control = c.control
      /\ b.conflict = c.conflict /\ b.notified = c.notified /\ b.unsat = c.unsat
      /\ b.heard = c.heard /\ b.propagated = c.propagated /\ b.extended = c.extended
      /\ b.model = c.model /\ b.newest = c.newest
  BY <1>1, SMT DEF Frame, IsState, Fields, ClausesPut
<1>7. FieldTypes(b)
  BY <1>1, <1>4, <1>6 DEF FieldTypes, Frame
<1>8. b \in Core
  BY <1>5, <1>7, StateCore
<1>9. Near(c, b)
  BY <1>1, <1>6 DEF Near, Frame, Known
<1>10. b.propagated <= Len(b.trail) /\ \A x \in b.clauses : Over(x.lits, b.vars)
  BY <1>1, <1>6 DEF Frame, Known
<1>11. Sound(b, W)
  BY <1>0, <1>6 DEF Sound, Frame
<1>12. Loose(b, W, o) /\ (Ordered(c.trail) => Ordered(b.trail))
  BY <1>8, <1>9, <1>10, <1>11, NearLoose
<1> QED
  BY <1>6, <1>12

\* 'reduce' keeps the invariant.
LEMMA ReduceFine ==
  ASSUME NEW c, NEW m, NEW q, NEW g, NEW W, Good(c, m, q, "decide", g, W),
         NEW s, s \subseteq c.clauses, NEW d, d = ClausesPut(c, s)
  PROVE  Result(c, d, m, q, "loop", g, W)
<1>1. PICK x \in BOOLEAN : x
  BY SomeTrue
<1>2. DecidePre(c, m, q, W, x)
  BY DecidePres
<1>3. c.conflict = None /\ Loose(c, W, x) /\ Ordered(c.trail)
  BY <1>2 DEF DecidePre, Clear
<1>4. /\ Loose(d, W, x) /\ Ordered(d.trail) /\ Frame(c, d)
      /\ d.trail = c.trail /\ d.control = c.control /\ d.conflict = c.conflict
  BY <1>3, ClausesPutFine
<1>5. View(c, d) /\ Level(d) = Level(c) /\ Roots(d.trail) = Roots(c.trail)
  BY <1>4, ViewFacts DEF Level
<1>6. Follows(c, d, m, W, x)
  BY <1>2, <1>4, <1>5, FollowsView DEF DecidePre
<1>7. Base(d, m, W, x) /\ Kept(c, d) /\ Pending(d) \subseteq Pending(c)
  BY <1>6 DEF Follows
<1>8. Pending(d) # {} => Level(d) <= 1 /\ (m.count > 2 => Level(d) = 0 \/ d.unsat)
  <2>1. Pending(d) # {} => Level(d) = 0 /\ ~(m.count > 2)
    BY <1>2, <1>5, <1>7 DEF DecidePre
  <2> QED
    BY <2>1
<1>9. Good(d, m, q, "loop", g, W)
  BY <1>1, <1>2, <1>3, <1>4, <1>7, <1>8, LoopGood DEF DecidePre
<1> QED
  BY <1>7, <1>9 DEF Result

-----------------------------------------------------------------------------
(* Local search tries a model that nobody hears of.                        *)

\* What an attempt that stays private has to keep, whether it found a model or
\* not.
TriedResult(c, r, m, q, g, W, res) ==
  /\ Result(c, r, m, q, "done", g, W)
  /\ Result(c, Backtracked(r, 0), m, q, "loop", g, W)
  /\ (res = 0 => Result(c, r, m, q, "loop", g, W)) /\ r.unsat = c.unsat
  /\ res \in {0, 10, 20}

\* Before its end nothing of it was told, after it the trail is told again:
TriedFacts(c, d, r, W, x) ==
  /\ Loose(r, W, x) /\ Ordered(r.trail) /\ View(c, r)
  /\ Roots(c.trail) \subseteq Roots(r.trail) /\ r.conflict = None /\ r.unsat = c.unsat
  /\ Level(r) = Level(d)

\* what this gives.
LEMMA TriedFine ==
  ASSUME NEW c, Struct(c), ~c.private, NEW t \in BOOLEAN, t, NEW u, u = PrivatePut(c, t),
         NEW W, NEW d, NEW o, Loose(d, W, o), Ordered(d.trail), Same(u, d),
         Roots(u.trail) \subseteq Roots(d.trail), d.conflict = None,
         NEW x \in BOOLEAN, ~x, NEW b, b = PrivatePut(d, x), NEW r, r = Renotified(b)
  PROVE  TriedFacts(c, d, r, W, x)
<1>1. IsState(c) /\ IsState(d) /\ c.private \in BOOLEAN
  BY StructFields DEF Loose, FieldTypes
<1>2. PrivateIs(c, u, t) /\ PrivateIs(d, b, x)
  BY <1>1, PrivateFields
<1>3. d.private
  BY <1>2 DEF PrivateIs, Same
<1>4. RenotifiedFacts(b, r, W, x)
  BY <1>3, RenotifiedFine
<1>5. Loose(r, W, x) /\ Ordered(r.trail) /\ Same(b, r) /\ r.trail = b.trail
      /\ r.control = b.control /\ r.conflict = b.conflict
  BY <1>4 DEF RenotifiedFacts
<1>6. Frame(c, r) /\ r.unsat = c.unsat
  <2>1. /\ r.chrono = c.chrono /\ r.vars = c.vars /\ r.connected = c.connected
        /\ r.observed = c.observed /\ r.frozen = c.frozen
        /\ r.lemmas = c.lemmas /\ r.reasonOf = c.reasonOf /\ r.unsat = c.unsat
    <3>1. /\ d.chrono = u.chrono /\ d.vars = u.vars /\ d.connected = u.connected
          /\ d.observed = u.observed /\ d.frozen = u.frozen
          /\ d.lemmas = u.lemmas /\ d.reasonOf = u.reasonOf /\ d.unsat = u.unsat
      BY Zenon DEF Same
    <3>2. /\ r.chrono = b.chrono /\ r.vars = b.vars /\ r.connected = b.connected
          /\ r.observed = b.observed /\ r.frozen = b.frozen
          /\ r.lemmas = b.lemmas /\ r.reasonOf = b.reasonOf /\ r.unsat = b.unsat
      BY <1>5, Zenon DEF Same
    <3>3. /\ b.chrono = d.chrono /\ b.vars = d.vars /\ b.connected = d.connected
          /\ b.observed = d.observed /\ b.frozen = d.frozen
          /\ b.lemmas = d.lemmas /\ b.reasonOf = d.reasonOf /\ b.unsat = d.unsat
      BY <1>2, Zenon DEF PrivateIs
    <3>4. /\ u.chrono = c.chrono /\ u.vars = c.vars /\ u.connected = c.connected
          /\ u.observed = c.observed /\ u.frozen = c.frozen
          /\ u.lemmas = c.lemmas /\ u.reasonOf = c.reasonOf /\ u.unsat = c.unsat
      BY <1>2, Zenon DEF PrivateIs
    <3> QED
      BY <3>1, <3>2, <3>3, <3>4, Zenon
  <2>2. r.private = x
    BY <1>2, <1>5 DEF Same, PrivateIs
  <2>3. r.private = c.private
    BY <1>1, <2>2
  <2> QED
    BY <2>1, <2>3 DEF Frame
<1>7. View(c, r)
  BY <1>6, ViewFacts
<1>8. Level(r) = Level(d) /\ Roots(c.trail) \subseteq Roots(r.trail) /\ r.conflict = None
  BY <1>2, <1>5 DEF PrivateIs, Level
<1> QED
  BY <1>5, <1>6, <1>7, <1>8 DEF TriedFacts

\* The trail that local search ends with:
WalkedTo(c, w, d, W, t, x) ==
  /\ w.core = PrivatePut(d, x) /\ w.res \in {0, 10, 20} /\ (w.res = 0 => Level(d) = 0)
  /\ Loose(d, W, t) /\ Ordered(d.trail) /\ Same(PrivatePut(c, t), d)
  /\ Roots(PrivatePut(c, t).trail) \subseteq Roots(d.trail) /\ d.conflict = None

\* it is one of assumptions and decisions that propagate without a conflict.
LEMMA WalkedIs ==
  ASSUME NEW c, NEW W, NEW t \in BOOLEAN, t, NEW x \in BOOLEAN, ~x,
         Loose(c, W, t), Level(c) = 0, c.conflict = None,
         c.propagated = Len(c.trail), NEW q, QueryOk(c, q), q.constraint = {},
         NEW sign \in {1, -1}, NEW w, w = Walked(c, q, sign)
  PROVE  \E d : WalkedTo(c, w, d, W, t, x)
<1>1. t = TRUE /\ x = FALSE
  OBVIOUS
<1>2. \E d : WalkedFacts(c, w, d, W)
  BY <1>1, WalkedFine, Zenon
<1>3. PICK d : WalkedFacts(c, w, d, W)
  BY <1>2
<1>4. WalkedTo(c, w, d, W, t, x)
  BY <1>1, <1>3, Zenon DEF WalkedFacts, WalkCore, WalkedTo
<1> QED
  BY <1>4

\* So local search keeps the invariant.
LEMMA LocalSearchFine ==
  ASSUME NEW c, NEW m, NEW q, NEW g, NEW W, Good(c, m, q, "start", g, W), ~c.unsat,
         q.constraint = {}, QueryOk(c, q),
         NEW e, e = Propagated(Backtracked(c, 0)), e.conflict = None,
         NEW sign \in {1, -1}, NEW w, w = Walked(e, q, sign),
         NEW r, r = Renotified(w.core)
  PROVE  TriedResult(c, r, m, q, g, W, w.res)
<1>1. PICK t \in BOOLEAN : t
  BY SomeTrue
<1>2. PICK x \in BOOLEAN : ~x
  BY SomeFalse
<1>3. RootResult(c, e, m, W, t)
  BY BeginRoot
<1>4. Follows(c, e, m, W, t) /\ Level(e) = 0 /\ e.unsat = c.unsat /\ Done(e)
  BY <1>3 DEF RootResult
<1>5. Base(e, m, W, t) /\ Kept(c, e) /\ Pending(e) \subseteq Pending(c)
  BY <1>4 DEF Follows
<1>6. Loose(e, W, t) /\ Struct(e) /\ ~e.private
  BY <1>5, BaseFacts
<1>7. e.propagated = Len(e.trail)
  BY <1>4 DEF Done
<1>8. QueryOk(e, q)
  BY <1>5 DEF QueryOk, Kept
<1>9. PICK d : WalkedTo(e, w, d, W, t, x)
  BY <1>1, <1>2, <1>4, <1>6, <1>7, <1>8, WalkedIs
<1> DEFINE u == PrivatePut(e, t)
           b == PrivatePut(d, x)
<1>10. /\ w.core = b /\ w.res \in {0, 10, 20} /\ (w.res = 0 => Level(d) = 0)
       /\ Loose(d, W, t) /\ Ordered(d.trail) /\ Same(u, d)
       /\ Roots(u.trail) \subseteq Roots(d.trail) /\ d.conflict = None
  BY <1>9 DEF WalkedTo
<1>11. r = Renotified(b)
  BY <1>10
<1>12. TriedFacts(e, d, r, W, x)
  <2>1. u = PrivatePut(e, t) /\ b = PrivatePut(d, x)
    OBVIOUS
  <2> HIDE DEF u, b
  <2>2. Struct(e) /\ ~e.private /\ Loose(d, W, t) /\ Ordered(d.trail) /\ Same(u, d)
        /\ Roots(u.trail) \subseteq Roots(d.trail) /\ d.conflict = None
    BY <1>6, <1>10
  <2> QED
    BY <1>1, <1>2, <1>11, <2>1, <2>2, TriedFine, Zenon
<1> HIDE DEF u, b
<1>13. /\ Loose(r, W, x) /\ Ordered(r.trail) /\ View(e, r)
       /\ Roots(e.trail) \subseteq Roots(r.trail) /\ r.conflict = None /\ r.unsat = e.unsat
       /\ Level(r) = Level(d)
  BY <1>12 DEF TriedFacts
<1>14. Follows(e, r, m, W, x)
  BY <1>5, <1>13, FollowsView
<1>15. Base(r, m, W, x) /\ Kept(c, r)
  BY <1>5, <1>14, KeptTrans DEF Follows
<1>16. m.must = 0
  BY CalmStart
<1>17. Good(r, m, q, "done", g, W)
  BY <1>13, <1>15, <1>16, DoneGood
<1>18. ASSUME w.res = 0 PROVE Good(r, m, q, "loop", g, W)
  <2>1. Level(r) = 0
    BY <1>10, <1>13, <1>18
  <2>2. Loose(r, W, t)
    BY <1>13, <2>1, RootAny
  <2>3. Base(r, m, W, t)
    BY <1>15, <2>2 DEF Base
  <2>4. Pending(r) # {} => Level(r) <= 1 /\ (m.count > 2 => Level(r) = 0 \/ r.unsat)
    BY <2>1
  <2> QED
    BY <1>1, <1>13, <1>16, <2>3, <2>4, LoopGood
<1>19. Result(c, Backtracked(r, 0), m, q, "loop", g, W)
  <2> DEFINE f == Backtracked(r, 0)
  <2>1. BackFacts(r, f, 0) /\ Loose(f, W, x) /\ (Ordered(r.trail) => Ordered(f.trail))
        /\ Level(f) = 0
    BY <1>13, BackFine
  <2> HIDE DEF f
  <2>2. Same(r, f) /\ f.conflict = r.conflict /\ Roots(f.trail) = Roots(r.trail)
    <3>1. Struct(r)
      BY <1>13 DEF Loose
    <3> QED
      BY <2>1, <3>1, BackRoots DEF BackFacts
  <2>3. View(r, f) /\ f.unsat = r.unsat
    BY <2>2, FrameFacts, ViewFacts DEF Same
  <2>4. Follows(r, f, m, W, x)
    BY <1>13, <1>15, <2>1, <2>2, <2>3, FollowsView
  <2>5. Loose(f, W, t)
    BY <2>1, RootAny
  <2>6. Base(f, m, W, t) /\ Kept(c, f)
    BY <1>15, <2>4, <2>5, KeptTrans DEF Follows, Base
  <2>7. Pending(f) # {} => Level(f) <= 1 /\ (m.count > 2 => Level(f) = 0 \/ f.unsat)
    BY <2>1
  <2>8. Good(f, m, q, "loop", g, W)
    BY <1>1, <1>13, <1>16, <2>2, <2>6, <2>7, LoopGood
  <2> QED
    BY <2>6, <2>8 DEF Result, f
<1> QED
  BY <1>4, <1>10, <1>13, <1>15, <1>17, <1>18, <1>19 DEF TriedResult, Result
=============================================================================
