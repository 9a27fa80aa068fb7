-------------------------- MODULE CdclSearchProofs --------------------------
(***************************************************************************)
(* What propagation and conflict analysis keep true of the trail and the   *)
(* clauses together, although backtracking leaves literals out of order:   *)
(*   - root-level units are never unassigned or flipped;                   *)
(*   - the levels of the assumptions are theirs;                           *)
(*   - a reason is a clause in memory that implies its literal;            *)
(*   - when propagation is complete, no clause is falsified or unit.       *)
(* The last two hold again and again after backtracking only because they  *)
(* hold of every control frame, not just of the current trail.             *)
(*                                                                         *)
(* And what the user gets to hear (from 'Irredundant clauses' on):         *)
(*   - The irredundant clauses and the root-level units imply every clause *)
(*     added, so redundant clauses may go at any time.                     *)
(*   - The levels of the assumptions and of the constraint are theirs.     *)
(*   - An assignment reported with the answer 10 satisfies what was added  *)
(*     and assumed.                                                        *)
(*   - The assumptions reported failed after the answer 20 are assumptions *)
(*     that the clauses have no model with.                                *)
(***************************************************************************)
EXTENDS CdclProofs, WellFoundedInduction

-----------------------------------------------------------------------------
(* Sets of literals, and the order of the trail.                           *)

(* A set of literals has two elements or at most one. *)
LEMMA TwoElements ==
  ASSUME NEW S \in SUBSET Lit
  PROVE  /\ Cardinality(S) > 1 => \E k, l \in S : k # l
         /\ Cardinality(S) <= 1 => \A k, l \in S : k = l
<1>1. Cardinality(S) \in Nat /\ IsFiniteSet(S)
  <2> DEFINE Negated == {-v : v \in Var}
             Negate == [l \in Negated |-> -l]
  <2>1. Negate \in Injection(Negated, Var)
    BY VarAssumption DEF Injection, IsInjective
  <2>2. IsFiniteSet(Lit)
    BY <2>1, VarAssumption, FS_Injection, FS_Union DEF Lit
  <2> QED
    BY <2>2, FS_Subset, FS_CardinalityType
<1>2. ASSUME Cardinality(S) > 1
      PROVE  \E k, l \in S : k # l
  <2>1. PICK k : k \in S
    BY <1>1, <1>2, FS_EmptySet
  <2>2. S # {k}
    BY <1>1, <1>2, FS_Singleton
  <2> QED
    BY <2>1, <2>2
<1>3. ASSUME Cardinality(S) <= 1, NEW k \in S, NEW l \in S
      PROVE  k = l
  <2>1. CASE Cardinality(S) = 0
    BY <1>1, <2>1, FS_EmptySet
  <2>2. CASE Cardinality(S) = 1
    <3>1. \E x : S = {x}
      BY <1>1, <2>2, FS_Singleton
    <3> QED
      BY <3>1
  <2> QED
    BY <1>1, <1>3, <2>1, <2>2
<1> QED
  BY <1>1, <1>2, <1>3

(* The literals that stay keep their order. *)
LEMMA KeepOrder ==
  ASSUME TypeInv, TrailInv, NEW L \in 0..level, NEW v \in Kept(L), NEW w \in Kept(L),
         pos[v] < pos[w]
  PROVE  KeepPos(L)[v] < KeepPos(L)[w]
<1> DEFINE A == Assigned(L)
<1>0. /\ A \in Nat /\ v \in Var /\ w \in Var /\ pos[v] \in Nat /\ pos[w] \in Nat
      /\ Stays(v, L) /\ Stays(w, L)
  BY BelowCut, TrailTypes DEF Kept
<1>1. KeepPos(L)[v] \in Nat /\ KeepPos(L)[w] \in Nat
  BY KeepTypes, <1>0 DEF TypeInv, TypeOK
<1>2. CASE pos[v] <= A
  BY <1>0, <1>1, <1>2, KeptPositions
<1>3. CASE pos[v] > A
  <2>1. /\ KeepPos(L)[v] = A + Cardinality(Reassigned(v, L))
        /\ KeepPos(L)[w] = A + Cardinality(Reassigned(w, L))
    BY <1>0, <1>3 DEF KeepPos
  <2>2. /\ Reassigned(v, L) \in SUBSET Var /\ Reassigned(w, L) \in SUBSET Var
        /\ Reassigned(v, L) \subseteq Reassigned(w, L)
    BY <1>0, TrailTypes DEF Reassigned
  <2>3. w \in Reassigned(w, L) /\ w \notin Reassigned(v, L)
    BY <1>0, <1>3 DEF Reassigned
  <2>4. /\ IsFiniteSet(Reassigned(w, L)) /\ Cardinality(Reassigned(v, L)) \in Nat
        /\ Cardinality(Reassigned(w, L)) \in Nat
    BY <2>2, VarSubsets
  <2>5. Cardinality(Reassigned(v, L)) < Cardinality(Reassigned(w, L))
    BY <2>2, <2>3, <2>4, FS_Subset
  <2> QED
    BY <1>0, <2>1, <2>4, <2>5
<1> QED
  BY <1>0, <1>2, <1>3

-----------------------------------------------------------------------------
(* Steps that cut the trail back to a level, or leave it where it is, and   *)
(* may assign one literal behind what is left.                             *)

Cut(L) ==
  /\ level' = L /\ \A k \in 1..L : control'[k] = control[k]
  /\ propagated' = KeepPropagated(L)
  /\ \A v \in Kept(L) : /\ val'[v] = val[v] /\ vlevel'[v] = vlevel[v]
                        /\ reason'[v] = reason[v] /\ pos'[v] = KeepPos(L)[v]
  /\ \A v \in Var \ Kept(L) : val'[v] # 0 => pos'[v] = Cardinality(Kept(L)) + 1

(* The literal u is assigned on level a, behind what is left of the trail up to
   level L: the other literals of c imply it there. *)
Drives(L, u, c, a) ==
  /\ Abs(u) \notin Kept(L) /\ a \in 0..L
  /\ Falsified(c \ {u}) /\ IsMaxLevel(a, c \ {u})
  /\ ~opts.chrono => a = L
  /\ a > 0 => u \in c
  /\ BacktrackAssign(L, u, c, a)

LEMMA BacktrackCut ==
  ASSUME TypeInv, NEW L \in 0..level, Backtrack(L)
  PROVE  Cut(L) /\ \A v \in Var \ Kept(L) : val'[v] = 0
<1>1. /\ level' = L /\ \A k \in 1..L : control'[k] = control[k]
      /\ propagated' = KeepPropagated(L)
  BY ControlPrefix DEF TypeInv, TypeOK, Backtrack, level
<1>2. /\ \A v \in Kept(L) : v \in Var /\ pos'[v] = KeepPos(L)[v]
      /\ \A v \in Var : KeepPos(L)[v] = pos'[v]
  BY DEF Kept, Backtrack
<1> QED
  BY <1>1, <1>2, BacktrackEffect DEF Cut

LEMMA AssignCut ==
  ASSUME TypeInv, TrailInv, NEW L \in 0..level, NEW u \in Lit, NEW c \in SUBSET Lit,
         NEW a \in 0..L, Abs(u) \notin Kept(L), BacktrackAssign(L, u, c, a)
  PROVE  /\ Cut(L) /\ Abs(u) \in Var
         /\ val'[Abs(u)] = Sign(u) /\ vlevel'[Abs(u)] = a
         /\ reason'[Abs(u)] = (IF a = 0 THEN {} ELSE c)
         /\ pos'[Abs(u)] = Cardinality(Kept(L)) + 1
         /\ \A v \in Var \ (Kept(L) \cup {Abs(u)}) :
              val'[v] = 0 /\ vlevel'[v] = 0 /\ reason'[v] = {}
<1>1. /\ level' = L /\ \A k \in 1..L : control'[k] = control[k]
      /\ propagated' = KeepPropagated(L)
  BY ControlPrefix DEF TypeInv, TypeOK, BacktrackAssign, level
<1>2. /\ KeepPos(L) \in [Var -> Nat] /\ Abs(u) \in Var
      /\ \A v \in Kept(L) : v \in Var /\ v # Abs(u)
  BY KeepTypes, Literals DEF TypeInv, TypeOK, Kept
<1>3. pos' = [KeepPos(L) EXCEPT ![Abs(u)] = 1 + Cardinality(Kept(L))]
  BY DEF BacktrackAssign, Kept
<1>4. /\ \A v \in Kept(L) : pos'[v] = KeepPos(L)[v]
      /\ pos'[Abs(u)] = Cardinality(Kept(L)) + 1
  BY <1>2, <1>3, KeptPositions
<1>5. /\ val'[Abs(u)] = Sign(u) /\ vlevel'[Abs(u)] = a
      /\ reason'[Abs(u)] = IF a = 0 THEN {} ELSE c
      /\ \A v \in Var \ {Abs(u)} :
              /\ v \in Kept(L) => /\ val'[v] = val[v] /\ vlevel'[v] = vlevel[v]
                                  /\ reason'[v] = reason[v]
              /\ v \notin Kept(L) => val'[v] = 0 /\ vlevel'[v] = 0 /\ reason'[v] = {}
  BY BacktrackAssignEffect
<1>6. Cut(L)
  <2>1. \A v \in Kept(L) : /\ val'[v] = val[v] /\ vlevel'[v] = vlevel[v]
                           /\ reason'[v] = reason[v] /\ pos'[v] = KeepPos(L)[v]
    BY <1>2, <1>4, <1>5
  <2>2. \A v \in Var \ Kept(L) : val'[v] # 0 => pos'[v] = Cardinality(Kept(L)) + 1
    BY <1>4, <1>5
  <2> QED
    BY <1>1, <2>1, <2>2 DEF Cut
<1> QED
  BY <1>2, <1>4, <1>5, <1>6

LEMMA DrivesCut ==
  ASSUME TypeInv, TrailInv, NEW L \in 0..level, NEW u \in Lit, NEW c \in SUBSET Lit,
         NEW a \in 0..L, Drives(L, u, c, a)
  PROVE  /\ Cut(L) /\ level' = L /\ Abs(u) \in Var /\ Abs(u) \notin Kept(L)
         /\ val'[Abs(u)] = Sign(u) /\ vlevel'[Abs(u)] = a
         /\ reason'[Abs(u)] = (IF a = 0 THEN {} ELSE c)
         /\ pos'[Abs(u)] = Cardinality(Kept(L)) + 1
         /\ \A v \in Var \ (Kept(L) \cup {Abs(u)}) :
              val'[v] = 0 /\ vlevel'[v] = 0 /\ reason'[v] = {}
<1>1. Abs(u) \notin Kept(L) /\ BacktrackAssign(L, u, c, a)
  BY DEF Drives
<1>2. Cut(L) => level' = L
  BY DEF Cut
<1> QED
  BY <1>1, <1>2, AssignCut

(* What becomes of a literal whose variable stays. *)
LEMMA CutLiteral ==
  ASSUME NEW L, Cut(L), NEW k \in Lit, Abs(k) \in Kept(L)
  PROVE  /\ Value(k)' = Value(k) /\ LevelOf(k)' = LevelOf(k)
         /\ Position(k)' = KeepPos(L)[Abs(k)]
<1>1. val'[Abs(k)] = val[Abs(k)] /\ vlevel'[Abs(k)] = vlevel[Abs(k)]
  BY DEF Cut
<1>2. Value(k)' = Value(k) /\ LevelOf(k)' = LevelOf(k)
  BY <1>1, SameValue
<1> QED
  BY <1>2 DEF Cut, Position

(* Assigned literals of a level that is left stay. *)
LEMMA StaysBelow ==
  ASSUME TypeInv, NEW L \in 0..level, NEW k \in Lit, Value(k) # 0, LevelOf(k) <= L
  PROVE  Abs(k) \in Kept(L)
<1>1. val[Abs(k)] # 0 /\ Abs(k) \in Var
  <2>1. (k > 0 /\ Abs(k) = k) \/ (~(k > 0) /\ Abs(k) = -k)
    BY Literals DEF Abs
  <2> QED
    BY <2>1, TrailTypes, Literals DEF Value
<1> QED
  BY <1>1 DEF Kept, Stays, LevelOf

-----------------------------------------------------------------------------
(* The invariant of the search.                                            *)

(* The clause c implies the literal of v, by literals assigned earlier. *)
IsReason(c, v) ==
  /\ vlevel[v] > 0 /\ LitOf(v) \in c
  /\ Falsified(c \ {LitOf(v)})
  /\ \A k \in c \ {LitOf(v)} : Position(k) < pos[v]
  /\ IsMaxLevel(vlevel[v], c \ {LitOf(v)})

(* The reason of a literal that analysis resolved already may have been
   strengthened to a clause that does not contain the literal any more. *)
Resolved(v) ==
  /\ Analyzing /\ vlevel[v] = level
  /\ pc = "resolve" => \A k \in Open(work) : Position(k) < pos[v]

ReasonInv ==
  \A v \in Var : reason[v] # {} =>
    (IsReason(reason[v], v) /\ reason[v] \in DB) \/ Resolved(v)

(* The literal l is not among the false literals of the first n of the trail. *)
Unseen(l, n) == ~(Value(l) < 0 /\ Position(l) <= n)

(* The watch invariant: after n literals of the trail, and on level L, the
   clause c has a true literal or two that may still be watched. *)
Covered(c, n, L) ==
  \/ \E l \in c : Value(l) > 0 /\ LevelOf(l) <= L
  \/ \E k, l \in c : k # l /\ Unseen(k, n) /\ Unseen(l, n)

(* It holds where the trail is cut when a level is left, for every level. *)
FramesCovered ==
  \A L \in 0..level - 1 : \A c \in DB : Covered(c, control[L + 1].trail, L)

(* And, outside conflict analysis, for what has been propagated. *)
TrailCovered ==
  pc \in {"steady", "propagate"} /\ ~unsat => \A c \in DB : Covered(c, propagated, level)

(* Without chronological backtracking levels and positions agree, and what is
   left to propagate is on the current level. *)
InOrder ==
  ~opts.chrono => \A v \in Var : val[v] # 0 =>
    /\ pos[v] > propagated => vlevel[v] = level
    /\ \A k \in 1..level : vlevel[v] < k => pos[v] <= control[k].trail

(* The conflict is a clause in memory; before the second resolution it is still
   falsified, and 'clause' holds its literals above the root level. *)
ConflictStored == pc \in {"propagate", "analyze"} /\ conflict # {} => conflict \in DB
FirstResolution ==
  pc = "resolve" /\ resolved = 1 =>
    /\ Falsified(conflict)
    /\ work = NonRoot(conflict) /\ csize = Cardinality(work)

(* Added units and out-of-order units are propagated on the root level. *)
AtRoot == caller # "search" /\ pc # "steady" => level = 0

SearchInv == /\ ReasonInv /\ FramesCovered /\ TrailCovered /\ InOrder
             /\ ConflictStored /\ FirstResolution /\ AtRoot

-----------------------------------------------------------------------------
(* What cutting the trail keeps.                                           *)

(* The types of what a literal refers to. *)
LEMMA LiteralTypes ==
  ASSUME TypeInv, NEW k \in Lit
  PROVE  /\ k \in Int /\ Abs(k) \in Var /\ Value(k) \in {-1, 0, 1}
         /\ LevelOf(k) \in 0..level /\ Position(k) \in Nat
         /\ Value(k) # 0 <=> val[Abs(k)] # 0
         /\ Value(k) > 0 => LitOf(Abs(k)) = k
         /\ LevelOf(k) > 0 => Value(k) # 0
<1>1. /\ k \in Int /\ k # 0 /\ Abs(k) \in Var
      /\ (k > 0 /\ Abs(k) = k) \/ (k < 0 /\ Abs(k) = -k /\ -(-k) = k)
  BY Literals DEF Abs
<1>2. LevelOf(k) \in 0..level /\ Position(k) \in Nat
  BY <1>1, TrailTypes DEF LevelOf, Position
<1>3. /\ Value(k) \in {-1, 0, 1} /\ (Value(k) # 0 <=> val[Abs(k)] # 0)
      /\ Value(k) > 0 => LitOf(Abs(k)) = k
  BY <1>1, TrailTypes DEF Value, LitOf
<1>4. LevelOf(k) > 0 => Value(k) # 0
  BY <1>1, <1>3, TrailTypes DEF LevelOf
<1> QED
  BY <1>1, <1>2, <1>3, <1>4

(* The literal of an assigned variable. *)
LEMMA LitOfTypes ==
  ASSUME TypeInv, NEW v \in Var
  PROVE  LitOf(v) \in Lit /\ Abs(LitOf(v)) = v /\ (val[v] # 0 => Value(LitOf(v)) > 0)
<1>1. v \in Nat \ {0} /\ val[v] \in {-1, 0, 1} /\ -(-v) = v
  BY VarAssumption, TrailTypes
<1> QED
  BY <1>1, Literals DEF LitOf, Value

(* The types of positions and levels, before and after a step. *)
TrailTyped ==
  /\ level \in Nat /\ numAssigned \in Nat
  /\ \A v \in Var : pos[v] \in Nat /\ vlevel[v] \in 0..level /\ val[v] \in {-1, 0, 1}
  /\ \A k \in 1..level : control[k].trail \in Nat

LEMMA TrailTypesNext == TypeInv' => TrailTyped'
<1>1. TypeInv => TrailTyped
  BY TrailTypes DEF TrailTyped
<1> QED
  BY <1>1, PTL

(* A reason that stays is still one. *)
LEMMA CutReason ==
  ASSUME TypeInv, TrailInv, NEW L \in 0..level, Cut(L), NEW v \in Kept(L),
         NEW c \in SUBSET Lit, IsReason(c, v)
  PROVE  IsReason(c, v)'
<1>0. /\ v \in Var /\ vlevel[v] \in 0..level /\ vlevel[v] <= L /\ L \in Nat
      /\ level \in Nat
      /\ vlevel'[v] = vlevel[v] /\ val'[v] = val[v] /\ pos'[v] = KeepPos(L)[v]
      /\ LitOf(v)' = LitOf(v)
  BY TrailTypes DEF Kept, Stays, Cut, LitOf
<1> DEFINE S == c \ {LitOf(v)}
<1>1. ASSUME NEW k \in S
      PROVE  /\ Value(k)' < 0 /\ LevelOf(k)' = LevelOf(k)
             /\ Position(k)' < pos'[v]
  <2>1. /\ k \in Lit /\ Value(k) < 0 /\ Position(k) < pos[v]
        /\ LevelOf(k) <= vlevel[v] /\ LevelOf(k) \in Nat
    BY TrailTypes, Literals DEF IsReason, Falsified, IsMaxLevel, LevelOf
  <2>2. Abs(k) \in Kept(L)
    BY <1>0, <2>1, StaysBelow
  <2>3. KeepPos(L)[Abs(k)] < KeepPos(L)[v]
    BY <2>1, <2>2, KeepOrder DEF Position
  <2> QED
    BY <1>0, <2>1, <2>2, <2>3, CutLiteral
<1> QED
  BY <1>0, <1>1 DEF IsReason, Falsified, IsMaxLevel

(* A driven literal has the clause as its reason, unless it is a unit. *)
LEMMA NewReason ==
  ASSUME TypeInv, TrailInv, NEW L \in 0..level, NEW u \in Lit, NEW c \in SUBSET Lit,
         NEW a \in 0..L, Drives(L, u, c, a), a > 0
  PROVE  IsReason(c, Abs(u))' /\ reason'[Abs(u)] = c
<1>0. /\ Cut(L) /\ val'[Abs(u)] = Sign(u) /\ vlevel'[Abs(u)] = a
      /\ reason'[Abs(u)] = c /\ pos'[Abs(u)] = Cardinality(Kept(L)) + 1
      /\ LitOf(Abs(u))' = u
  <2>1. /\ Cut(L) /\ val'[Abs(u)] = Sign(u) /\ vlevel'[Abs(u)] = a
        /\ reason'[Abs(u)] = (IF a = 0 THEN {} ELSE c)
        /\ pos'[Abs(u)] = Cardinality(Kept(L)) + 1
    BY DrivesCut
  <2>2. LitOf(Abs(u))' = u
    BY <2>1, Literals DEF LitOf, Sign, Abs
  <2>3. a # 0
    BY TrailTypes
  <2> QED
    BY <2>1, <2>2, <2>3
<1>1. ASSUME NEW k \in c \ {u}
      PROVE  /\ Value(k)' < 0 /\ LevelOf(k)' = LevelOf(k)
             /\ Position(k)' < pos'[Abs(u)]
  <2>1. /\ k \in Lit /\ Value(k) < 0 /\ LevelOf(k) <= a /\ LevelOf(k) \in Nat
        /\ a <= L /\ a \in Nat /\ L \in Nat
    BY TrailTypes, Literals DEF Drives, Falsified, IsMaxLevel, LevelOf
  <2>2. Abs(k) \in Kept(L)
    BY <2>1, StaysBelow
  <2>3. KeepPos(L)[Abs(k)] \in 1..Cardinality(Kept(L)) /\ Cardinality(Kept(L)) \in Nat
    BY <2>2, KeptPositions
  <2> QED
    BY <1>0, <2>1, <2>2, <2>3, CutLiteral
<1>2. u \in c /\ IsMaxLevel(a, c \ {u})
  BY DEF Drives
<1> QED
  BY <1>0, <1>1, <1>2 DEF IsReason, Falsified, IsMaxLevel

(* A clause covered below the cut stays covered. *)
LEMMA CutCover ==
  ASSUME TypeInv, TrailInv, NEW L \in 0..level, Cut(L), NEW c \in SUBSET Lit,
         NEW K \in 0..L, NEW n \in Nat, n <= Assigned(L), Covered(c, n, K)
  PROVE  Covered(c, n, K)'
<1>0. L \in Nat /\ level \in Nat /\ Assigned(L) \in Nat
  BY TrailTypes, BelowCut
<1>1. ASSUME NEW l \in c, Value(l) > 0, LevelOf(l) <= K
      PROVE  Value(l)' > 0 /\ LevelOf(l)' <= K
  <2>1. Abs(l) \in Kept(L)
    BY <1>0, <1>1, StaysBelow, LiteralTypes
  <2> QED
    BY <1>1, <2>1, CutLiteral
<1>2. ASSUME NEW l \in c, Unseen(l, n)
      PROVE  Unseen(l, n)'
  <2> SUFFICES ASSUME Value(l)' < 0, Position(l)' <= n
               PROVE  FALSE
    BY DEF Unseen
  <2>1. CASE Abs(l) \in Kept(L)
    <3>1. /\ Value(l) < 0 /\ KeepPos(L)[Abs(l)] <= n
      BY <2>1, CutLiteral
    <3>2. Position(l) > n
      BY <1>2, <3>1, LiteralTypes DEF Unseen
    <3>3. KeepPos(L)[Abs(l)] = pos[Abs(l)]
      BY <1>0, <2>1, <3>1, KeptPositions, LiteralTypes DEF Position
    <3> QED
      BY <3>1, <3>2, <3>3, LiteralTypes DEF Position
  <2>2. CASE Abs(l) \notin Kept(L)
    <3>1. (l > 0 /\ Abs(l) = l) \/ (~(l > 0) /\ Abs(l) = -l)
      BY Literals DEF Abs
    <3>2. val'[Abs(l)] # 0
      BY <3>1 DEF Value
    <3>3. Position(l)' = Cardinality(Kept(L)) + 1
      BY <2>2, <3>2, Literals DEF Cut, Position
    <3> QED
      BY <1>0, <3>3, KeptPositions
  <2> QED
    BY <2>1, <2>2
<1>3. CASE \E l \in c : Value(l) > 0 /\ LevelOf(l) <= K
  BY <1>1, <1>3 DEF Covered
<1>4. CASE \E k, l \in c : k # l /\ Unseen(k, n) /\ Unseen(l, n)
  BY <1>2, <1>4 DEF Covered
<1> QED
  BY <1>3, <1>4 DEF Covered

(* Fewer literals seen, or a higher level, cover no less. *)
LEMMA CoverWeaker ==
  ASSUME TypeInv, NEW c \in SUBSET Lit, NEW m \in Nat, NEW n \in Nat, m <= n,
         NEW K \in Nat, NEW L \in Nat, K <= L, Covered(c, n, K)
  PROVE  Covered(c, m, L)
<1>1. \A l \in c : Unseen(l, n) => Unseen(l, m)
  BY LiteralTypes DEF Unseen
<1>2. \A l \in c : LevelOf(l) <= K => LevelOf(l) <= L
  BY LiteralTypes, TrailTypes
<1> QED
  BY <1>1, <1>2 DEF Covered

(* The clause that drives a literal is covered on every level that is left: its
   literals of the level the literal is assigned on come after the frame. *)
LEMMA DrivingCover ==
  ASSUME TypeInv, TrailInv, TypeInv', TrailInv', NEW L \in 0..level, NEW u \in Lit,
         NEW c \in SUBSET Lit, NEW a \in 0..L, Drives(L, u, c, a), u \in c
  PROVE  /\ level' = L
         /\ \A K \in 0..L - 1 : Covered(c, control[K + 1].trail, K)'
         /\ \A n : Covered(c, n, L)'
<1>0. /\ level' = L /\ val'[Abs(u)] = Sign(u) /\ vlevel'[Abs(u)] = a /\ Cut(L)
      /\ Abs(u) \in Var /\ L \in Nat /\ a \in Nat /\ a <= L
  <2>1. level \in Nat
    BY TrailTypes
  <2> QED
    BY <2>1, DrivesCut
<1>1. Value(u)' = 1 /\ LevelOf(u)' = a
  BY <1>0, Literals DEF Value, LevelOf, Sign, Abs
<1>2. \A n : Covered(c, n, L)'
  BY <1>0, <1>1 DEF Covered
<1>3. ASSUME NEW K \in 0..L - 1, a <= K
      PROVE  Covered(c, control[K + 1].trail, K)'
  BY <1>1, <1>3 DEF Covered
<1>4. ASSUME NEW K \in 0..L - 1, a > K
      PROVE  Covered(c, control[K + 1].trail, K)'
  <2>1. PICK k \in c \ {u} : LevelOf(k) = a
    BY <1>0, <1>4 DEF Drives, IsMaxLevel
  <2>2. k \in Lit /\ Value(k) < 0 /\ Abs(k) \in Kept(L)
    BY <1>0, <2>1, StaysBelow DEF Drives, Falsified
  <2>3. LevelOf(k)' = a
    BY <1>0, <2>1, <2>2, CutLiteral
  <2>4. /\ Position(k)' > control'[a].trail /\ a \in 1..L /\ K + 1 \in 1..L
        /\ control'[K + 1].trail <= control'[a].trail
    <3>1. /\ a \in 1..L /\ K + 1 \in 1..L /\ K + 1 <= a
          /\ Abs(k) \in Var
      BY <1>0, <1>4, <2>2, Literals
    <3>2. \A v \in Var : vlevel'[v] > 0 => pos'[v] > control'[vlevel'[v]].trail
      BY DEF TrailInv, LevelsAfterFrames
    <3>3. \A i, j \in 1..L : i <= j => control'[i].trail <= control'[j].trail
      BY <1>0 DEF TrailInv, FramesOrdered
    <3> QED
      BY <2>3, <3>1, <3>2, <3>3 DEF LevelOf, Position
  <2>5. Unseen(k, control[K + 1].trail)'
    <3>1. /\ \A v \in Var : pos'[v] \in Nat
          /\ \A i \in 1..L : control'[i].trail \in Nat
      BY <1>0, TrailTypesNext DEF TrailTyped
    <3> QED
      BY <2>2, <2>4, <3>1, Literals DEF Unseen, Position
  <2>6. Unseen(u, control[K + 1].trail)'
    BY <1>1 DEF Unseen
  <2> QED
    BY <2>1, <2>5, <2>6 DEF Covered
<1> QED
  BY <1>0, <1>2, <1>3, <1>4

-----------------------------------------------------------------------------
(* What the steps of the code do to the trail.                             *)

(* search_assign in propagate: the watched literal that was visited is one of
   those the new level is the maximum of. *)
LEMMA UnitDrives ==
  ASSUME TypeInv, TrailInv, InOrder, PropagateUnit
  PROVE  \E c \in DB : \E l \in c : \E a \in 0..level :
           Value(l) = 0 /\ Drives(level, l, c, a)
<1>1. PICK c \in Watching : \E l \in c : \E a \in 0..level :
        /\ Value(l) = 0 /\ Falsified(c \ {l})
        /\ IsAssignmentLevel(a, l, c, level) /\ BacktrackAssign(level, l, c, a)
  BY DEF PropagateUnit
<1>2. PICK l \in c, a \in 0..level :
        /\ Value(l) = 0 /\ Falsified(c \ {l})
        /\ IsAssignmentLevel(a, l, c, level) /\ BacktrackAssign(level, l, c, a)
  BY <1>1
<1>3. c \in DB /\ c \in SUBSET Lit /\ l \in Lit /\ level \in Nat
  BY TrailTypes DEF Watching, DB, TypeInv, TypeOK, TypeDB
<1>4. PICK k \in c : Value(k) < 0 /\ Position(k) = propagated + 1
  BY DEF Watching, IsFalseWatch
<1>5. k \in c \ {l} /\ k \in Lit
  BY <1>2, <1>3, <1>4
<1>6. Abs(l) \notin Kept(level)
  BY <1>2, <1>3, LiteralTypes DEF Kept, Stays
<1>7. IsMaxLevel(a, c \ {l})
  <2>1. CASE opts.chrono
    BY <1>2, <1>4, <2>1 DEF IsAssignmentLevel
  <2>2. CASE ~opts.chrono
    <3>1. a = level
      BY <1>2, <1>4, <2>2 DEF IsAssignmentLevel
    <3>2. LevelOf(k) = level
      <4>1. Abs(k) \in Var /\ val[Abs(k)] # 0 /\ pos[Abs(k)] = propagated + 1
        BY <1>4, <1>5, LiteralTypes DEF Position
      <4>2. propagated \in Nat
        BY DEF TypeInv, TypeOK, TypeAssign
      <4> QED
        BY <2>2, <4>1, <4>2 DEF InOrder, LevelOf
    <3>3. \A i \in c \ {l} : LevelOf(i) <= level
      BY <1>3, LiteralTypes
    <3> QED
      BY <1>5, <3>1, <3>2, <3>3 DEF IsMaxLevel
  <2> QED
    BY <2>1, <2>2
<1>8. ~opts.chrono => a = level
  BY <1>2, <1>4 DEF IsAssignmentLevel
<1>9. Drives(level, l, c, a)
  BY <1>2, <1>6, <1>7, <1>8 DEF Drives
<1> QED
  BY <1>2, <1>3, <1>9

(* A conflict with a single literal on its highest level. *)
LEMMA ForcedDrives ==
  ASSUME TypeInv, EntailInv, AnalyzeForced
  PROVE  \E l \in conflict : \E L \in 0..level - 1 : \E a \in 0..L :
           Drives(L, l, conflict, a)
<1>1. PICK l \in conflict, a \in 0..level :
        /\ IsForced(l)
        /\ IsAssignmentLevel(a, l, conflict, LevelOf(l) - 1)
        /\ BacktrackAssign(LevelOf(l) - 1, l, conflict, a)
  BY DEF AnalyzeForced
<1>2. /\ level \in Nat /\ conflict \in SUBSET Lit /\ l \in Lit /\ Falsified(conflict)
      /\ \A k \in conflict : LevelOf(k) \in 0..level
  <2>1. conflict \in SUBSET Lit
    BY DEF TypeInv, TypeOK, TypeAnalysis
  <2>2. Falsified(conflict)
    BY DEF AnalyzeForced, EntailInv, ConflictInv
  <2> QED
    BY <2>1, <2>2, TrailTypes, LiteralTypes
<1>3. PICK L : L = LevelOf(l) - 1
  OBVIOUS
<1>4. /\ L \in 0..level - 1 /\ \A k \in conflict \ {l} : LevelOf(k) <= L
      /\ LevelOf(l) > L /\ opts.chrono
  BY <1>1, <1>2, <1>3 DEF IsForced
<1>5. a \in 0..L
  BY <1>1, <1>2, <1>3, <1>4, AssignmentLevel
<1>6. IsMaxLevel(a, conflict \ {l}) /\ Falsified(conflict \ {l})
  BY <1>1, <1>2, <1>4 DEF IsAssignmentLevel, Falsified
<1>7. Abs(l) \notin Kept(L)
  BY <1>2, <1>4, LiteralTypes DEF Kept, Stays, LevelOf
<1>8. Drives(L, l, conflict, a)
  BY <1>1, <1>3, <1>4, <1>5, <1>6, <1>7 DEF Drives
<1> QED
  BY <1>4, <1>5, <1>8

(* The latest open literal is one that can be resolved, and the antecedent it
   strengthens is falsified. *)
LEMMA LatestOpen ==
  ASSUME TypeInv, TrailInv, EntailInv, pc = "resolve", Cardinality(Open(work)) > 1,
         NEW l \in work, IsLatest(l, Open(work))
  PROVE  /\ level > 0 /\ l \in Lit /\ Value(l) < 0 /\ LevelOf(l) = level
         /\ reason[Abs(l)] # {} /\ work \in SUBSET Lit
         /\ Falsified(work) /\ Falsified(Resolvent(l))
<1>1. Analyzing /\ level > 0 /\ Falsified(work) /\ Entailed(work) /\ work \in SUBSET Lit
  BY DEF Analyzing, TypeInv, AboveRoot, TypeOK, TypeAnalysis, EntailInv, WorkInv
<1>2. l \in Lit /\ Value(l) < 0 /\ LevelOf(l) = level
  BY <1>1 DEF Falsified, IsLatest, Open
<1>3. reason[Abs(l)] # {}
  BY <1>1, OpenHasReason
<1>4. Falsified(Resolvent(l))
  BY <1>1, <1>2, <1>3, ResolventEntailed DEF EntailInv
<1> QED
  BY <1>1, <1>2, <1>3, <1>4

(* The level analysis goes back to, and the one the literal gets there. *)
LEMMA DrivenLevel ==
  ASSUME TypeInv, level > 0, NEW c \in SUBSET Lit, NEW u \in c, Open(c) = {u},
         NEW j \in 0..level, IsMaxLevel(j, c \ {u}), Falsified(c),
         NEW L \in 0..level, L \in ActualLevels(j), NEW a \in 0..level,
         IsAssignmentLevel(a, u, IF c = {u} THEN {} ELSE c, L),
         BacktrackAssign(L, u, IF c = {u} THEN {} ELSE c, a)
  PROVE  L \in 0..level - 1 /\ LevelOf(u) = level /\ Drives(L, u, c, a)
<1>1. /\ level \in Nat /\ L \in 0..level - 1 /\ LevelOf(u) = level /\ u \in Lit
      /\ \A k \in c \ {u} : LevelOf(k) <= L
  BY TrailTypes, DrivingLevel
<1>2. \A k \in (IF c = {u} THEN {} ELSE c) \ {u} : LevelOf(k) <= L
  BY <1>1
<1>3. a \in 0..L
  BY <1>1, <1>2, AssignmentLevel
<1>4. /\ IsMaxLevel(a, c \ {u}) /\ (~opts.chrono => a = L)
      /\ BacktrackAssign(L, u, c, a)
  <2>1. CASE c = {u}
    <3>1. a = 0 /\ j = 0 /\ (~opts.chrono => L = j)
      BY <2>1 DEF IsAssignmentLevel, IsMaxLevel, ActualLevels
    <3> QED
      BY <2>1, <3>1 DEF IsMaxLevel, BacktrackAssign
  <2>2. CASE c # {u}
    <3>1. IsAssignmentLevel(a, u, c, L) /\ c # {} /\ BacktrackAssign(L, u, c, a)
      BY <2>2
    <3> QED
      BY <3>1 DEF IsAssignmentLevel, ActualLevels
  <2> QED
    BY <2>1, <2>2
<1>5. Abs(u) \notin Kept(L) /\ Falsified(c \ {u})
  BY <1>1, LiteralTypes DEF Kept, Stays, LevelOf, Falsified
<1> QED
  BY <1>1, <1>3, <1>4, <1>5 DEF Drives

LEMMA StrengthenDrives ==
  ASSUME TypeInv, TrailInv, EntailInv, StrengthenForced
  PROVE  \E l \in work : \E f \in Antecedent(l) : \E L \in 0..level - 1 : \E a \in 0..L :
           /\ IsLatest(l, Open(work)) /\ Strengthens(l) /\ Strengthen(l, Antecedent(l))
           /\ Drives(L, f, Antecedent(l), a)
<1>1. PICK l \in work : \E f \in Antecedent(l) : \E j, L, a \in 0..level :
        /\ IsLatest(l, Open(work)) /\ Strengthens(l)
        /\ Open(Antecedent(l)) = {f}
        /\ Strengthen(l, Antecedent(l))
        /\ IsMaxLevel(j, Antecedent(l) \ {f}) /\ L \in ActualLevels(j)
        /\ IsAssignmentLevel(a, f, Antecedent(l), L)
        /\ BacktrackAssign(L, f, Antecedent(l), a)
  BY DEF StrengthenForced
<1>2. PICK f \in Antecedent(l), j \in 0..level, L \in 0..level, a \in 0..level :
        /\ IsLatest(l, Open(work)) /\ Strengthens(l)
        /\ Open(Antecedent(l)) = {f}
        /\ Strengthen(l, Antecedent(l))
        /\ IsMaxLevel(j, Antecedent(l) \ {f}) /\ L \in ActualLevels(j)
        /\ IsAssignmentLevel(a, f, Antecedent(l), L)
        /\ BacktrackAssign(L, f, Antecedent(l), a)
  BY <1>1
<1>3. /\ level > 0 /\ l \in Lit /\ Falsified(Resolvent(l))
  BY <1>2, LatestOpen DEF StrengthenForced
<1>4. PICK c \in SUBSET Lit : c = Antecedent(l)
  BY <1>3, ResolventType
<1>5. Falsified(c) /\ c # {f} /\ f \in c
  <2>1. Cardinality({f}) = 1
    BY FS_Singleton
  <2> QED
    BY <1>2, <1>3, <1>4, <2>1 DEF Strengthens
<1>6. (IF c = {f} THEN {} ELSE c) = c
  BY <1>5
<1>7. L \in 0..level - 1 /\ Drives(L, f, c, a)
  BY <1>2, <1>3, <1>4, <1>5, <1>6, DrivenLevel
<1>8. a \in 0..L
  BY <1>7 DEF Drives
<1> QED
  BY <1>2, <1>4, <1>7, <1>8

LEMMA LearnDrives ==
  ASSUME TypeInv, TrailInv, EntailInv, Learn
  PROVE  \E u \in work : \E L \in 0..level - 1 : \E a \in 0..L :
           LevelOf(u) = level /\ Drives(L, u, work, a)
<1>1. PICK u \in work, j \in 0..level, L \in 0..level, a \in 0..level :
        LET c == IF work = {u} THEN {} ELSE work IN
        /\ Open(work) = {u}
        /\ IsMaxLevel(j, work \ {u}) /\ L \in ActualLevels(j)
        /\ IsAssignmentLevel(a, u, c, L)
        /\ BacktrackAssign(L, u, c, a)
  BY DEF Learn
<1>2. /\ Analyzing /\ level > 0 /\ Falsified(work) /\ work \in SUBSET Lit
  BY DEF Learn, Analyzing, TypeInv, AboveRoot, TypeOK, TypeAnalysis, EntailInv, WorkInv
<1>3. PICK w \in SUBSET Lit : w = work
  BY <1>2
<1>4. /\ u \in w /\ Open(w) = {u} /\ IsMaxLevel(j, w \ {u}) /\ L \in ActualLevels(j)
      /\ IsAssignmentLevel(a, u, IF w = {u} THEN {} ELSE w, L)
      /\ BacktrackAssign(L, u, IF w = {u} THEN {} ELSE w, a)
      /\ Falsified(w)
  BY <1>1, <1>2, <1>3
<1>5. L \in 0..level - 1 /\ LevelOf(u) = level /\ Drives(L, u, w, a)
  BY <1>2, <1>4, DrivenLevel
<1>6. a \in 0..L
  BY <1>5 DEF Drives
<1> QED
  BY <1>1, <1>3, <1>5, <1>6

(* A unit clause of the user. *)
LEMMA AddDrives ==
  ASSUME TypeInv, NEW c \in SUBSET Lit, NEW l \in NewLiterals(c), BacktrackAssign(0, l, {}, 0)
  PROVE  l \in Lit /\ Drives(0, l, {}, 0)
<1>1. l \in Lit /\ (val[Abs(l)] = 0 \/ vlevel[Abs(l)] > 0)
  BY DEF NewLiterals, LevelOf
<1>2. Abs(l) \notin Kept(0)
  BY <1>1, TrailTypes, Literals DEF Kept, Stays
<1> QED
  BY <1>1, <1>2 DEF Drives, Falsified, IsMaxLevel

(* The level restart goes back to. *)
LEMMA RestartLevel ==
  ASSUME TypeInv, Restart
  PROVE  \E L \in Len(assumptions)..level :
           /\ L \in 0..level /\ Backtrack(L)
           /\ control[Len(assumptions) + 1].decision = 0 => L > Len(assumptions)
<1> DEFINE trivial == IF control[Len(assumptions) + 1].decision = 0
                      THEN Len(assumptions) + 1 ELSE Len(assumptions)
<1>1. Len(assumptions) \in Nat /\ level \in Nat
  BY LenProperties, TrailTypes DEF TypeInv, TypeOK, TypeUser
<1>2. /\ trivial \in Len(assumptions)..level
      /\ control[Len(assumptions) + 1].decision = 0 => trivial > Len(assumptions)
  BY <1>1 DEF Restart
<1>3. PICK L \in trivial..(IF opts.restartreusetrail THEN level ELSE trivial) : Backtrack(L)
  BY DEF Restart
<1> HIDE DEF trivial
<1> QED
  BY <1>1, <1>2, <1>3

(* Every step leaves the trail alone, cuts it, or assigns a literal: one that a
   clause implies, behind what the cut leaves, or a decision. *)
LEMMA TrailMoves ==
  ASSUME TypeInv, TrailInv, EntailInv, InOrder, [Next]_vars
  PROVE  \/ UNCHANGED <<val, vlevel, pos, control>> /\ propagated' \in {propagated, propagated + 1}
         \/ \E L \in 0..level : Backtrack(L)
         \/ \E L \in 0..level : \E u \in Lit : \E c \in SUBSET Lit : \E a \in 0..L :
              Drives(L, u, c, a)
         \/ Decide \/ DecidePseudo
<1>0. /\ level \in Nat /\ 0 \in 0..level /\ level \in 0..level
      /\ work \in SUBSET Lit /\ conflict \in SUBSET Lit /\ \A c \in DB : c \in SUBSET Lit
      /\ 0..level - 1 \subseteq 0..level
  BY TrailTypes DEF TypeInv, TypeOK, TypeDB, TypeAnalysis, DB
<1>1. CASE PropagateUnit
  <2>1. PICK c \in DB : \E l \in c : \E a \in 0..level : Drives(level, l, c, a)
    BY <1>1, UnitDrives
  <2> QED
    BY <1>0, <2>1
<1>2. CASE AnalyzeForced
  <2>1. PICK l \in conflict, L \in 0..level - 1 : \E a \in 0..L : Drives(L, l, conflict, a)
    BY <1>2, ForcedDrives
  <2> QED
    BY <1>0, <2>1
<1>3. CASE StrengthenForced
  <2>1. PICK l \in work : \E f \in Antecedent(l) : \E L \in 0..level - 1 : \E a \in 0..L :
          Drives(L, f, Antecedent(l), a)
    BY <1>3, StrengthenDrives
  <2>2. Antecedent(l) \in SUBSET Lit
    BY <1>0, ResolventType
  <2> QED
    BY <1>0, <2>1, <2>2
<1>4. CASE Learn
  <2>1. PICK u \in work, L \in 0..level - 1 : \E a \in 0..L : Drives(L, u, work, a)
    BY <1>4, LearnDrives
  <2> QED
    BY <1>0, <2>1
<1>5. CASE Add
  <2>1. Head(inbox) \in SUBSET Lit
    BY <1>5, HeadTailProperties DEF Add, TypeInv, TypeOK, TypeDB
  <2>2. \/ Backtrack(0)
        \/ \E l \in NewLiterals(Head(inbox)) : BacktrackAssign(0, l, {}, 0)
    BY <1>5 DEF Add
  <2>3. ASSUME NEW l \in NewLiterals(Head(inbox)), BacktrackAssign(0, l, {}, 0)
        PROVE  l \in Lit /\ Drives(0, l, {}, 0)
    BY <2>1, <2>3, AddDrives
  <2>4. {} \in SUBSET Lit /\ 0 \in 0..0
    OBVIOUS
  <2> QED
    BY <1>0, <2>2, <2>3, <2>4
<1>6. CASE AnalyzeRoot \/ ReduceUnits \/ Assume \/ Constrain
  BY <1>0, <1>6 DEF AnalyzeRoot, ReduceUnits, Assume, Constrain
<1>7. CASE AnalyzeStart
  BY <1>0, <1>7 DEF AnalyzeStart
<1>8. CASE Restart
  BY <1>8, RestartLevel
<1>9. CASE Solve
  BY <1>0, <1>9 DEF Solve, assignVars
<1>10. CASE Shrink
  BY <1>10 DEF Shrink, KeepBlock, ShrinkBlock, ShrinkAlongReason, ShrunkenBlock,
     ShrinkingFailed, MinimizeLiteral, MinimizeRecursively, MinimizeDone,
     shrinkFrame, assignVars
<1>11. CASE PropagateConflict \/ PropagateFail \/ PropagateAdded \/ Resolve \/ FirstUIP
            \/ FoundModel \/ Interrupt \/ DecideFail \/ Failed \/ PropagateNext
            \/ StrengthenContinue \/ Reduce
  BY <1>11 DEF PropagateConflict, PropagateFail, PropagateAdded, Resolve, FirstUIP,
     FoundModel, Interrupt, DecideFail, Failed, PropagateNext, StrengthenContinue, Reduce,
     assignVars
<1>12. CASE UNCHANGED vars
  BY <1>12 DEF vars, assignVars
<1> QED
  BY <1>1, <1>2, <1>3, <1>4, <1>5, <1>6, <1>7, <1>8, <1>9, <1>10, <1>11, <1>12
     DEF Next, User, Solver, Finished, Propagate, Analyze, Search

(* A decision, with the frame it pushes. *)
LEMMA DecisionEffect ==
  ASSUME TypeInv, NEW l \in Lit, Value(l) = 0, Decision(l)
  PROVE  /\ level' = level + 1 /\ propagated' = propagated
         /\ \A k \in 1..level : control'[k] = control[k]
         /\ control'[level + 1].trail = numAssigned /\ control'[level + 1].decision = l
         /\ Abs(l) \in Var /\ val[Abs(l)] = 0 /\ reason'[Abs(l)] = {}
         /\ val'[Abs(l)] = Sign(l) /\ vlevel'[Abs(l)] = level + 1 /\ pos'[Abs(l)] = numAssigned + 1
         /\ \A v \in Var \ {Abs(l)} : /\ val'[v] = val[v] /\ vlevel'[v] = vlevel[v]
                                      /\ reason'[v] = reason[v] /\ pos'[v] = pos[v]
<1>1. /\ level' = level + 1
      /\ \A k \in 1..level : k \in 1..level' /\ control'[k] = control[k]
      /\ control'[level + 1].decision = l /\ control'[level + 1].trail = numAssigned
  BY PushFrame DEF Decision
<1>2. Abs(l) \in Var /\ val[Abs(l)] = 0
  BY LiteralTypes
<1>3. /\ reason'[Abs(l)] = {}
      /\ val'[Abs(l)] = Sign(l) /\ vlevel'[Abs(l)] = level + 1 /\ pos'[Abs(l)] = numAssigned + 1
      /\ \A v \in Var \ {Abs(l)} : /\ val'[v] = val[v] /\ vlevel'[v] = vlevel[v]
                                   /\ reason'[v] = reason[v] /\ pos'[v] = pos[v]
  BY <1>2 DEF Decision, TypeInv, TypeOK, TypeAssign
<1> QED
  BY <1>1, <1>2, <1>3 DEF Decision

LEMMA PseudoEffect ==
  ASSUME TypeInv, PseudoDecision
  PROVE  /\ level' = level + 1 /\ \A k \in 1..level : control'[k] = control[k]
         /\ control'[level + 1].trail = numAssigned /\ control'[level + 1].decision = 0
         /\ UNCHANGED <<val, vlevel, reason, pos, propagated>>
<1>1. 0 \in Lit \cup {0} /\ control' = Append(control, [decision |-> 0, trail |-> numAssigned])
  BY DEF PseudoDecision
<1>2. /\ level' = level + 1
      /\ \A k \in 1..level : k \in 1..level' /\ control'[k] = control[k]
      /\ control'[level + 1].decision = 0 /\ control'[level + 1].trail = numAssigned
  BY <1>1, PushFrame
<1> QED
  BY <1>2 DEF PseudoDecision

-----------------------------------------------------------------------------
(* Root-level units.                                                       *)

LEMMA RootUnitsStep ==
  ASSUME TypeInv, TrailInv, EntailInv, InOrder, [Next]_vars
  PROVE  \A v \in Var : val[v] # 0 /\ vlevel[v] = 0 => val'[v] = val[v] /\ vlevel'[v] = 0
<1> SUFFICES ASSUME NEW v \in Var, val[v] # 0, vlevel[v] = 0
             PROVE  val'[v] = val[v] /\ vlevel'[v] = 0
  OBVIOUS
<1>1. \A L \in 0..level : v \in Kept(L)
  BY DEF Kept, Stays
<1>2. ASSUME NEW L \in 0..level, Cut(L)
      PROVE  val'[v] = val[v] /\ vlevel'[v] = 0
  BY <1>1, <1>2 DEF Cut
<1>3. ASSUME NEW L \in 0..level, NEW u \in Lit, NEW c \in SUBSET Lit, NEW a \in 0..L,
             Drives(L, u, c, a)
      PROVE  Cut(L)
  BY <1>3, DrivesCut
<1>4. CASE Decide
  <2>1. PICK l \in Lit : Value(l) = 0 /\ Decision(l)
    BY <1>4 DEF Decide, MayDecide
  <2> QED
    BY <2>1, DecisionEffect
<1>5. CASE DecidePseudo
  BY <1>5, PseudoEffect DEF DecidePseudo
<1> QED
  BY <1>2, <1>3, <1>4, <1>5, TrailMoves, BacktrackCut

(* Levels and positions agree without chronological backtracking. *)
LEMMA CutInOrder ==
  ASSUME TypeInv, TrailInv, InOrder, ~opts.chrono, NEW L \in 0..level, Cut(L),
         NEW v \in Kept(L)
  PROVE  /\ pos'[v] > propagated' => vlevel'[v] = L
         /\ \A k \in 1..L : vlevel'[v] < k => pos'[v] <= control'[k].trail
<1>0. /\ v \in Var /\ val[v] # 0 /\ vlevel[v] <= L /\ vlevel[v] \in Nat /\ L \in Nat
      /\ level \in Nat /\ numAssigned \in Nat /\ pos[v] \in 1..numAssigned
      /\ \A k \in 1..level : control[k].trail \in Nat
      /\ Assigned(L) \in Nat /\ propagated \in Nat
  BY BelowCut, TrailTypes
     DEF Kept, Stays, TrailInv, Positions, TypeInv, TypeOK, TypeAssign
<1>1. pos[v] <= Assigned(L)
  BY <1>0 DEF InOrder, Assigned
<1>2. /\ pos'[v] = pos[v] /\ vlevel'[v] = vlevel[v] /\ propagated' = KeepPropagated(L)
      /\ \A k \in 1..L : control'[k] = control[k]
  BY <1>1, KeptPositions DEF Cut
<1>3. pos[v] > propagated => vlevel[v] = level
  BY <1>0 DEF InOrder
<1>4. pos'[v] > propagated' => vlevel'[v] = L
  BY <1>0, <1>1, <1>2, <1>3 DEF KeepPropagated
<1>5. \A k \in 1..L : vlevel'[v] < k => pos'[v] <= control'[k].trail
  BY <1>0, <1>2 DEF InOrder
<1> QED
  BY <1>4, <1>5

LEMMA InOrderStep ==
  ASSUME TypeInv, TrailInv, EntailInv, InOrder, [Next]_vars
  PROVE  InOrder'
<1>0. opts' = opts
  BY DEF Next, User, Solver, Finished, Propagate, Analyze, Shrink, Search, vars,
     PropagateUnit, PropagateConflict, PropagateNext, PropagateFail, PropagateAdded,
     AnalyzeForced, AnalyzeRoot, AnalyzeStart, Resolve, StrengthenContinue, StrengthenForced,
     FirstUIP, Learn, KeepBlock, ShrinkBlock, ShrinkAlongReason, ShrunkenBlock,
     ShrinkingFailed, MinimizeLiteral, MinimizeRecursively, MinimizeDone, shrinkFrame,
     FoundModel, Interrupt, Restart, ReduceUnits, Reduce, Decide, DecidePseudo, DecideFail,
     Add, Assume, Constrain, Solve, Failed
<1> DEFINE Agree(v) == /\ pos'[v] > propagated' => vlevel'[v] = level'
                       /\ \A k \in 1..level' : vlevel'[v] < k => pos'[v] <= control'[k].trail
<1> SUFFICES ASSUME ~opts.chrono, NEW v \in Var, val'[v] # 0
             PROVE  Agree(v)
  BY <1>0 DEF InOrder
<1>1. /\ level \in Nat /\ numAssigned \in Nat /\ pos[v] \in Nat /\ propagated \in Nat
      /\ vlevel[v] \in Nat /\ vlevel[v] <= level
      /\ val[v] # 0 => pos[v] <= numAssigned
      /\ val[v] # 0 /\ pos[v] > propagated => vlevel[v] = level
      /\ val[v] # 0 => \A k \in 1..level : vlevel[v] < k => pos[v] <= control[k].trail
  BY TrailTypes DEF TrailInv, Positions, TypeInv, TypeOK, TypeAssign, InOrder
<1>2. CASE /\ UNCHANGED <<val, vlevel, pos, control>>
           /\ propagated' \in {propagated, propagated + 1}
  BY <1>1, <1>2 DEF level
<1>3. ASSUME NEW L \in 0..level, Backtrack(L)
      PROVE  Agree(v)
  <2>1. Cut(L) /\ v \in Kept(L) /\ level' = L
    BY <1>3, BacktrackCut DEF Cut
  <2> QED
    BY <2>1, CutInOrder
<1>4. ASSUME NEW L \in 0..level, NEW u \in Lit, NEW c \in SUBSET Lit, NEW a \in 0..L,
             Drives(L, u, c, a)
      PROVE  Agree(v)
  <2>1. a = L
    BY <1>4 DEF Drives
  <2>2. /\ Cut(L) /\ vlevel'[Abs(u)] = a /\ level' = L
        /\ v \in Kept(L) \/ v = Abs(u)
    BY <1>4, DrivesCut
  <2>3. CASE v \in Kept(L)
    BY <2>2, <2>3, CutInOrder
  <2>4. CASE v = Abs(u)
    BY <2>1, <2>2, <2>4, <1>1
  <2> QED
    BY <2>2, <2>3, <2>4
<1>5. CASE Decide
  <2>1. PICK l \in Lit : Value(l) = 0 /\ Decision(l)
    BY <1>5 DEF Decide, MayDecide
  <2>2. propagated = numAssigned
    BY <1>5 DEF Decide, Ready, Quiet
  <2> QED
    BY <1>1, <2>1, <2>2, DecisionEffect
<1>6. CASE DecidePseudo
  <2>1. propagated = numAssigned /\ PseudoDecision
    BY <1>6 DEF DecidePseudo, Ready, Quiet
  <2> QED
    BY <1>1, <2>1, PseudoEffect
<1> QED
  BY <1>2, <1>3, <1>4, <1>5, <1>6, TrailMoves

-----------------------------------------------------------------------------
(* Reasons.                                                                *)

(* Where analysis is not past its start, every reason implies its literal. *)
LEMMA ProperReason ==
  ASSUME TypeInv, ReasonInv, NEW v \in Var, reason[v] # {},
         ~Analyzing \/ vlevel[v] < level
  PROVE  IsReason(reason[v], v) /\ reason[v] \in DB
  BY TrailTypes DEF ReasonInv, Resolved

(* The literal resolved next still has its reason. *)
LEMMA OpenReason ==
  ASSUME TypeInv, TrailInv, EntailInv, ReasonInv, pc = "resolve", Cardinality(Open(work)) > 1,
         NEW l \in work, IsLatest(l, Open(work))
  PROVE  /\ IsReason(reason[Abs(l)], Abs(l)) /\ reason[Abs(l)] \in DB
         /\ LitOf(Abs(l)) = -l /\ Abs(l) \in Var
<1>1. l \in Lit /\ Value(l) < 0 /\ reason[Abs(l)] # {} /\ l \in Open(work)
  BY LatestOpen DEF IsLatest
<1>2. Abs(l) \in Var /\ LitOf(Abs(l)) = -l /\ pos[Abs(l)] \in Nat
  BY <1>1, LiteralTypes, FalseLiteral DEF Position
<1>3. ~Resolved(Abs(l))
  BY <1>1, <1>2 DEF Resolved, Position
<1> QED
  BY <1>1, <1>2, <1>3 DEF ReasonInv

(* Two literals do not share their reason: a reason has one true literal. *)
LEMMA ReasonsDiffer ==
  ASSUME TypeInv, NEW v \in Var, NEW w \in Var, NEW c \in SUBSET Lit,
         IsReason(c, v), LitOf(w) \in c, val[w] # 0
  PROVE  v = w
<1>1. LitOf(w) \in Lit /\ Abs(LitOf(w)) = w /\ Value(LitOf(w)) > 0 /\ Abs(LitOf(v)) = v
  BY LitOfTypes
<1>2. ~(Value(LitOf(w)) < 0)
  BY <1>1, LiteralTypes
<1>3. LitOf(w) = LitOf(v)
  BY <1>2 DEF IsReason, Falsified
<1> QED
  BY <1>1, <1>3

(* A falsified clause is no reason. *)
LEMMA FalsifiedNoReason ==
  ASSUME TypeInv, NEW v \in Var, NEW c \in SUBSET Lit, IsReason(c, v)
  PROVE  ~Falsified(c)
<1>1. val[v] # 0 /\ LitOf(v) \in c
  BY TrailTypes DEF IsReason
<1>2. Value(LitOf(v)) > 0 /\ LitOf(v) \in Lit
  BY <1>1, LitOfTypes
<1>3. ~(Value(LitOf(v)) < 0)
  BY <1>2, LiteralTypes
<1> QED
  BY <1>1, <1>3 DEF Falsified

(* Steps that leave the assignment alone keep reasons. *)
LEMMA SameReason ==
  ASSUME UNCHANGED <<val, vlevel, pos>>, NEW v, NEW c, IsReason(c, v)
  PROVE  IsReason(c, v)'
  BY DEF IsReason, Falsified, IsMaxLevel, LitOf, Value, LevelOf, Position

(* Reasons after the trail was cut, if they are still in memory. *)
LEMMA CutReasons ==
  ASSUME TypeInv, TrailInv, ReasonInv, NEW L \in 0..level, Cut(L), ~Analyzing \/ L < level,
         NEW v \in Kept(L), reason[v] # {}, reason[v] \in DB => reason[v] \in DB'
  PROVE  IsReason(reason[v], v)' /\ reason'[v] = reason[v] /\ reason'[v] \in DB'
<1>1. v \in Var /\ vlevel[v] <= L /\ vlevel[v] \in Nat /\ L \in Nat /\ level \in Nat
  BY TrailTypes DEF Kept, Stays
<1>2. IsReason(reason[v], v) /\ reason[v] \in DB
  BY <1>1, ProperReason
<1>3. PICK c \in SUBSET Lit : c = reason[v] /\ reason'[v] = c
  BY <1>1 DEF Cut, TypeInv, TypeOK, TypeAssign
<1>4. IsReason(c, v)'
  BY <1>2, <1>3, CutReason
<1> QED
  BY <1>2, <1>3, <1>4 DEF IsReason

(* The clause that is strengthened, and the conflict it may subsume, are not the
   reasons of other literals. *)
LEMMA StrengthenMemory ==
  ASSUME TypeInv, TrailInv, EntailInv, ReasonInv, FirstResolution, pc = "resolve",
         Cardinality(Open(work)) > 1, NEW l \in work, IsLatest(l, Open(work)),
         NEW s, Strengthen(l, s)
  PROVE  /\ s \in DB' /\ DB' \subseteq DB \cup {s}
         /\ \A v \in Var : v # Abs(l) /\ IsReason(reason[v], v) /\ reason[v] \in DB
                           => reason[v] \in DB'
<1> DEFINE c == reason[Abs(l)]
           subsumes == resolved = 1 /\ Cardinality(s) < csize
           gone == IF subsumes THEN {c, conflict} ELSE {c}
           irredundant == c \in irr \/ (subsumes /\ c \in red /\ conflict \in irr)
<1>1. /\ irr' = (irr \ gone) \cup (IF irredundant THEN {s} ELSE {})
      /\ red' = (red \ gone) \cup (IF c \in red /\ ~irredundant THEN {s} ELSE {})
  BY DEF Strengthen
<1>2. /\ IsReason(c, Abs(l)) /\ c \in DB /\ Abs(l) \in Var
  BY OpenReason
<1>3. s \in DB' /\ DB' \subseteq DB \cup {s}
  <2> HIDE DEF c, subsumes, gone
  <2> QED
    BY <1>1, <1>2 DEF DB
<1>4. ASSUME NEW v \in Var, v # Abs(l), IsReason(reason[v], v), reason[v] \in DB
      PROVE  reason[v] \in DB'
  <2>0. reason[v] \in SUBSET Lit /\ val[Abs(l)] # 0
    BY <1>2, TrailTypes DEF TypeInv, TypeOK, TypeAssign, IsReason
  <2>1. reason[v] # c
    <3>1. LitOf(Abs(l)) \in c
      BY <1>2 DEF IsReason
    <3>2. PICK d \in SUBSET Lit : d = reason[v]
      BY <2>0
    <3>3. LitOf(Abs(l)) \notin d
      BY <1>2, <1>4, <2>0, <3>2, ReasonsDiffer
    <3> QED
      BY <3>1, <3>2, <3>3
  <2>2. subsumes => reason[v] # conflict
    <3>1. subsumes => Falsified(conflict)
      BY <1>4 DEF FirstResolution
    <3>2. ~Falsified(reason[v])
      BY <1>4, <2>0, FalsifiedNoReason
    <3> QED
      BY <3>1, <3>2
  <2>3. reason[v] \notin gone
    BY <2>1, <2>2
  <2> HIDE DEF c, subsumes, gone, irredundant
  <2> QED
    BY <1>1, <1>4, <2>3 DEF DB
<1> QED
  BY <1>3, <1>4

(* Steps that leave the assignment, its reasons and the clauses alone. *)
LEMMA ReasonSame ==
  ASSUME ReasonInv, UNCHANGED <<val, vlevel, pos, reason, irr, red>>,
         Analyzing => /\ Analyzing' /\ level' = level
                      /\ pc' = "resolve" => pc = "resolve" /\ work' = work
  PROVE  ReasonInv'
<1> SUFFICES ASSUME NEW v \in Var, reason'[v] # {}
             PROVE  (IsReason(reason[v], v)' /\ reason'[v] \in DB') \/ Resolved(v)'
  BY DEF ReasonInv
<1>1. reason'[v] = reason[v] /\ DB' = DB
  BY DEF DB
<1>2. CASE IsReason(reason[v], v) /\ reason[v] \in DB
  BY <1>1, <1>2 DEF IsReason, Falsified, IsMaxLevel, LitOf, Value, LevelOf, Position
<1>3. CASE Resolved(v)
  BY <1>3 DEF Resolved, Open, LevelOf, Position
<1> QED
  BY <1>1, <1>2, <1>3 DEF ReasonInv

(* Backtracking, where the clauses in memory stay. *)
LEMMA ReasonBacktrack ==
  ASSUME TypeInv, TrailInv, ReasonInv, NEW L \in 0..level, Backtrack(L), ~Analyzing,
         DB \subseteq DB'
  PROVE  ReasonInv'
<1> SUFFICES ASSUME NEW v \in Var, reason'[v] # {}
             PROVE  IsReason(reason[v], v)' /\ reason'[v] \in DB'
  BY DEF ReasonInv
<1>1. Cut(L)
  BY BacktrackCut
<1>2. v \in Kept(L) /\ reason'[v] = reason[v]
  BY BacktrackEffect
<1> QED
  BY <1>1, <1>2, CutReasons

(* Backtracking and assigning a literal with a clause in memory as its reason. *)
LEMMA ReasonDrives ==
  ASSUME TypeInv, TrailInv, ReasonInv, NEW L \in 0..level, NEW u \in Lit,
         NEW c \in SUBSET Lit, NEW a \in 0..L, Drives(L, u, c, a), ~Analyzing \/ L < level,
         a > 0 => c \in DB',
         \A v \in Kept(L) : reason[v] # {} /\ reason[v] \in DB => reason[v] \in DB'
  PROVE  ReasonInv'
<1> SUFFICES ASSUME NEW v \in Var, reason'[v] # {}
             PROVE  IsReason(reason[v], v)' /\ reason'[v] \in DB'
  BY DEF ReasonInv
<1>1. CASE v \in Kept(L)
  <2>1. Cut(L) /\ reason'[v] = reason[v]
    BY <1>1, DrivesCut DEF Cut
  <2> QED
    BY <1>1, <2>1, CutReasons
<1>2. CASE v = Abs(u)
  <2>1. reason'[v] = (IF a = 0 THEN {} ELSE c)
    BY <1>2, DrivesCut
  <2>2. a > 0
    BY <2>1, TrailTypes
  <2> QED
    BY <1>2, <2>2, NewReason DEF IsReason
<1>3. CASE v \notin Kept(L) /\ v # Abs(u)
  BY <1>3, DrivesCut
<1> QED
  BY <1>1, <1>2, <1>3

(* A decision is no reason, and in no reason. *)
LEMMA ReasonDecision ==
  ASSUME TypeInv, ReasonInv, NEW l \in Lit, Value(l) = 0, Decision(l), ~Analyzing, DB' = DB
  PROVE  ReasonInv'
<1> SUFFICES ASSUME NEW v \in Var, reason'[v] # {}
             PROVE  IsReason(reason[v], v)' /\ reason'[v] \in DB'
  BY DEF ReasonInv
<1>1. /\ v # Abs(l) /\ reason'[v] = reason[v] /\ val'[v] = val[v]
      /\ vlevel'[v] = vlevel[v] /\ pos'[v] = pos[v] /\ LitOf(v)' = LitOf(v)
  BY DecisionEffect DEF LitOf
<1>2. IsReason(reason[v], v) /\ reason[v] \in DB
  BY <1>1, ProperReason
<1>3. PICK c \in SUBSET Lit : c = reason[v]
  BY DEF TypeInv, TypeOK, TypeAssign
<1>4. ASSUME NEW k \in c \ {LitOf(v)}
      PROVE  /\ Value(k)' < 0 /\ LevelOf(k)' = LevelOf(k) /\ Position(k)' = Position(k)
  <2>1. k \in Lit /\ Value(k) < 0
    BY <1>2, <1>3 DEF IsReason, Falsified
  <2>2. Abs(k) \in Var \ {Abs(l)}
    BY <2>1, LiteralTypes
  <2>3. /\ val'[Abs(k)] = val[Abs(k)] /\ vlevel'[Abs(k)] = vlevel[Abs(k)]
        /\ pos'[Abs(k)] = pos[Abs(k)]
    BY <2>2, DecisionEffect
  <2> QED
    BY <2>1, <2>3, SameValue DEF Position
<1>5. IsReason(c, v)'
  BY <1>1, <1>2, <1>3, <1>4 DEF IsReason, Falsified, IsMaxLevel
<1> QED
  BY <1>1, <1>2, <1>3, <1>5 DEF IsReason

(* A literal that is resolved away keeps its reason; the literals its reason
   brings in come earlier. *)
LEMMA OpenAntecedent ==
  ASSUME TypeInv, TrailInv, EntailInv, ReasonInv, pc = "resolve", Cardinality(Open(work)) > 1,
         NEW l \in work, IsLatest(l, Open(work)), NEW v \in Var, Resolved(v)
  PROVE  \A k \in Open(Resolvent(l)) : Position(k) < pos[v]
<1>1. /\ IsReason(reason[Abs(l)], Abs(l)) /\ LitOf(Abs(l)) = -l /\ Abs(l) \in Var
      /\ l \in Open(work) /\ work \in SUBSET Lit /\ l \in Lit
  BY OpenReason, LatestOpen DEF IsLatest
<1>2. \A k \in Open(work) : Position(k) < pos[v]
  BY DEF Resolved
<1>3. ASSUME NEW k \in Antecedent(l)
      PROVE  Position(k) < pos[v]
  <2>1. k \in reason[Abs(l)] \ {-l} /\ k \in Lit
    BY <1>1, ResolventType DEF Antecedent, NonRoot
  <2>2. Position(k) < Position(l) /\ Position(l) < pos[v]
    BY <1>1, <1>2, <2>1 DEF IsReason, Position
  <2>3. Position(k) \in Nat /\ Position(l) \in Nat /\ pos[v] \in Nat
    BY <1>1, <2>1, LiteralTypes, TrailTypes
  <2> QED
    BY <2>2, <2>3
<1> QED
  BY <1>2, <1>3 DEF Open, Resolvent

LEMMA ResolveReason ==
  ASSUME TypeInv, TrailInv, EntailInv, ReasonInv, Resolve
  PROVE  ReasonInv'
<1>1. PICK l \in work : IsLatest(l, Open(work)) /\ work' = Resolvent(l)
  BY DEF Resolve
<1>2. /\ UNCHANGED <<val, vlevel, pos, reason, irr, red, pc, control>>
      /\ pc = "resolve" /\ Cardinality(Open(work)) > 1
  BY DEF Resolve, dbVars, assignVars
<1> SUFFICES ASSUME NEW v \in Var, reason'[v] # {}
             PROVE  (IsReason(reason[v], v)' /\ reason'[v] \in DB') \/ Resolved(v)'
  BY DEF ReasonInv
<1>3. CASE IsReason(reason[v], v) /\ reason[v] \in DB
  BY <1>2, <1>3 DEF IsReason, Falsified, IsMaxLevel, LitOf, Value, LevelOf, Position, DB
<1>4. CASE Resolved(v)
  <2>1. \A k \in Open(Resolvent(l)) : Position(k) < pos[v]
    BY <1>1, <1>2, <1>4, OpenAntecedent
  <2>2. Analyzing' /\ vlevel'[v] = level'
    BY <1>2, <1>4 DEF Resolved, Analyzing, level
  <2>3. \A k \in Open(work)' : k \in Open(Resolvent(l)) /\ Position(k)' = Position(k)
    BY <1>1, <1>2 DEF Open, LevelOf, Position, level
  <2> QED
    BY <1>2, <2>1, <2>2, <2>3 DEF Resolved
<1> QED
  BY <1>2, <1>3, <1>4 DEF ReasonInv

LEMMA StrengthenContinueReason ==
  ASSUME TypeInv, TrailInv, EntailInv, ReasonInv, FirstResolution, StrengthenContinue
  PROVE  ReasonInv'
<1>1. PICK l \in work :
        /\ IsLatest(l, Open(work)) /\ Strengthens(l) /\ Strengthen(l, Antecedent(l))
        /\ reason' = [reason EXCEPT ![Abs(l)] = Antecedent(l)]
        /\ work' = Antecedent(l)
  BY DEF StrengthenContinue
<1>2. /\ UNCHANGED <<val, vlevel, pos, pc, control>>
      /\ pc = "resolve" /\ Cardinality(Open(work)) > 1
  BY DEF StrengthenContinue
<1>3. /\ IsReason(reason[Abs(l)], Abs(l)) /\ LitOf(Abs(l)) = -l /\ Abs(l) \in Var
      /\ LevelOf(l) = level
  BY <1>1, <1>2, OpenReason, LatestOpen
<1>4. /\ \A v \in Var : v # Abs(l) => reason'[v] = reason[v]
      /\ \A v \in Var : v # Abs(l) /\ IsReason(reason[v], v) /\ reason[v] \in DB
                        => reason[v] \in DB'
  BY <1>1, <1>2, <1>3, StrengthenMemory DEF TypeInv, TypeOK, TypeAssign
<1>5. \A k \in Open(work)' : k \in Open(Antecedent(l)) /\ Position(k)' = Position(k)
  BY <1>1, <1>2 DEF Open, LevelOf, Position, level
<1>6. Analyzing' /\ level' = level
  BY <1>2 DEF Analyzing, level
<1> SUFFICES ASSUME NEW v \in Var, reason'[v] # {}
             PROVE  (IsReason(reason[v], v)' /\ reason'[v] \in DB') \/ Resolved(v)'
  BY DEF ReasonInv
<1>7. CASE v = Abs(l)
  <2>1. \A k \in Open(Antecedent(l)) : Position(k) < pos[v]
    BY <1>3, <1>7 DEF Open, Antecedent, NonRoot, IsReason
  <2> QED
    BY <1>2, <1>3, <1>5, <1>6, <1>7, <2>1 DEF Resolved, LevelOf
<1>8. CASE v # Abs(l) /\ IsReason(reason[v], v) /\ reason[v] \in DB
  <2>1. PICK c : c = reason[v] /\ reason'[v] = c
    BY <1>4, <1>8
  <2>2. IsReason(c, v)'
    BY <1>2, <1>8, <2>1, SameReason
  <2> QED
    BY <1>4, <1>8, <2>1, <2>2 DEF IsReason
<1>9. CASE v # Abs(l) /\ Resolved(v)
  <2>1. \A k \in Open(Resolvent(l)) : Position(k) < pos[v]
    BY <1>1, <1>2, <1>9, OpenAntecedent
  <2>2. Resolvent(l) = Antecedent(l)
    BY <1>1 DEF Strengthens
  <2> QED
    BY <1>2, <1>5, <1>6, <1>9, <2>1, <2>2 DEF Resolved
<1> QED
  BY <1>4, <1>7, <1>8, <1>9 DEF ReasonInv

LEMMA StrengthenForcedReason ==
  ASSUME TypeInv, TrailInv, EntailInv, ReasonInv, FirstResolution, StrengthenForced
  PROVE  ReasonInv'
<1>0. pc = "resolve" /\ Cardinality(Open(work)) > 1
  BY DEF StrengthenForced
<1>1. PICK l \in work : \E f \in Antecedent(l) : \E L \in 0..level - 1 : \E a \in 0..L :
        /\ IsLatest(l, Open(work)) /\ Strengthen(l, Antecedent(l))
        /\ Drives(L, f, Antecedent(l), a)
  BY StrengthenDrives
<1>2. l \in Lit /\ LevelOf(l) = level /\ Abs(l) \in Var /\ level \in Nat
  BY <1>0, <1>1, LatestOpen, LiteralTypes, TrailTypes
<1>3. PICK s \in SUBSET Lit : s = Antecedent(l)
  BY <1>2, ResolventType
<1>4. PICK f \in s, L \in 0..level - 1 : \E a \in 0..L : Drives(L, f, s, a)
  BY <1>1, <1>3
<1>5. PICK a \in 0..L : Drives(L, f, s, a)
  BY <1>4
<1>6. /\ s \in DB'
      /\ \A v \in Var : v # Abs(l) /\ IsReason(reason[v], v) /\ reason[v] \in DB
                        => reason[v] \in DB'
  BY <1>0, <1>1, <1>3, StrengthenMemory
<1>7. ASSUME NEW v \in Kept(L), reason[v] # {}
      PROVE  reason[v] \in DB'
  <2>1. v \in Var /\ vlevel[v] < level /\ v # Abs(l)
    BY <1>2, TrailTypes DEF Kept, Stays, LevelOf
  <2> QED
    BY <1>6, <1>7, <2>1, ProperReason
<1>8. L \in 0..level /\ L < level /\ f \in Lit
  BY <1>2
<1> QED
  BY <1>5, <1>6, <1>7, <1>8, ReasonDrives

(* Clauses a learned clause subsumes are no reasons of what is left. *)
LEMMA LearnReason ==
  ASSUME TypeInv, TrailInv, EntailInv, ReasonInv, Learn
  PROVE  ReasonInv'
<1>0. level \in Nat /\ work \in SUBSET Lit
  BY TrailTypes DEF TypeInv, TypeOK, TypeAnalysis
<1>1. PICK u \in work, L \in 0..level - 1 : \E a \in 0..L :
        LevelOf(u) = level /\ Drives(L, u, work, a)
  BY LearnDrives
<1>2. PICK a \in 0..L : LevelOf(u) = level /\ Drives(L, u, work, a)
  BY <1>1
<1>3. /\ irr' = irr /\ pc = "shrink"
      /\ red' = IF Cardinality(work) = 1 THEN red
                ELSE {work} \cup {d \in red : ~(opts.eagersubsume /\ work \subseteq d)}
  BY DEF Learn
<1>4. a > 0 => work \in DB'
  <2>1. CASE Cardinality(work) = 1
    <3>1. work = {u}
      <4>1. PICK w \in SUBSET Lit : w = work
        BY <1>0
      <4>2. \A k, l \in w : k = l
        BY <2>1, <4>1, TwoElements
      <4> QED
        BY <4>1, <4>2
    <3>2. IsMaxLevel(a, {})
      BY <1>2, <3>1 DEF Drives
    <3> QED
      BY <3>2 DEF IsMaxLevel
  <2>2. CASE Cardinality(work) # 1
    BY <1>3, <2>2 DEF DB
  <2> QED
    BY <2>1, <2>2
<1>5. ASSUME NEW v \in Kept(L), reason[v] # {}
      PROVE  reason[v] \in DB'
  <2>1. v \in Var /\ vlevel[v] <= L /\ vlevel[v] \in Nat /\ vlevel[v] < level
    BY <1>0, TrailTypes DEF Kept, Stays
  <2>2. IsReason(reason[v], v) /\ reason[v] \in DB
    BY <1>5, <2>1, ProperReason
  <2>3. ~(work \subseteq reason[v])
    <3> SUFFICES ASSUME u \in reason[v]
                 PROVE  FALSE
      OBVIOUS
    <3>1. Value(u) < 0 /\ u \in Lit
      BY <1>0 DEF Learn, EntailInv, WorkInv, Analyzing, Falsified
    <3>2. val[v] # 0
      BY <2>1, <2>2, TrailTypes DEF IsReason
    <3>3. u # LitOf(v)
      BY <2>1, <3>1, <3>2, LitOfTypes, LiteralTypes
    <3>4. LevelOf(u) <= vlevel[v]
      BY <2>2, <3>3 DEF IsReason, IsMaxLevel
    <3> QED
      BY <1>0, <1>2, <2>1, <3>4
  <2> QED
    BY <1>3, <2>2, <2>3 DEF DB
<1>6. L \in 0..level /\ L < level /\ u \in Lit
  BY <1>0
<1> QED
  BY <1>0, <1>2, <1>4, <1>5, <1>6, ReasonDrives

(* Reduction flushes no literal from a reason that it depends on, and the clause
   is not satisfied on the root level. *)
LEMMA FlushReason ==
  ASSUME TypeInv, NEW v \in Var, NEW c \in SUBSET Lit, IsReason(c, v)
  PROVE  IsReason(FlushFalse(c), v) /\ ~RootSatisfied(c)
<1>0. /\ val[v] # 0 /\ vlevel[v] > 0 /\ LitOf(v) \in Lit /\ Abs(LitOf(v)) = v
      /\ Value(LitOf(v)) > 0 /\ LitOf(v) \in c
  BY LitOfTypes, TrailTypes DEF IsReason
<1>1. FlushFalse(c) \subseteq c
  BY DEF FlushFalse
<1>2. \A l \in c : LevelOf(l) > 0 => l \in FlushFalse(c)
  <2>1. \A l \in c : LevelOf(l) > 0 => Fixed(l) >= 0
    BY DEF Fixed
  <2> QED
    BY <2>1 DEF FlushFalse
<1>3. LitOf(v) \in FlushFalse(c)
  BY <1>0, <1>2 DEF LevelOf
<1>4. IsMaxLevel(vlevel[v], FlushFalse(c) \ {LitOf(v)})
  <2>1. IsMaxLevel(vlevel[v], c \ {LitOf(v)})
    BY DEF IsReason
  <2>2. PICK l \in c \ {LitOf(v)} : vlevel[v] = LevelOf(l)
    BY <1>0, <2>1, TrailTypes DEF IsMaxLevel
  <2> QED
    BY <1>0, <1>1, <1>2, <2>1, <2>2 DEF IsMaxLevel
<1>5. ~RootSatisfied(c)
  <2> SUFFICES ASSUME NEW l \in c, Fixed(l) > 0
               PROVE  FALSE
    BY DEF RootSatisfied
  <2>1. l \in Lit /\ LevelOf(l) = 0 /\ Value(l) > 0
    BY DEF Fixed
  <2>2. l # LitOf(v)
    BY <1>0, <2>1 DEF LevelOf
  <2>3. Value(l) < 0
    BY <2>2 DEF IsReason, Falsified
  <2> QED
    BY <2>1, <2>3, LiteralTypes
<1> QED
  BY <1>1, <1>3, <1>4, <1>5 DEF IsReason, Falsified

LEMMA ReduceReason ==
  ASSUME TypeInv, ReasonInv, Reduce
  PROVE  ReasonInv'
<1>1. PICK useless \in SUBSET (red \ {reason[v] : v \in Var}) :
        red' = {FlushFalse(c) : c \in {d \in red \ useless : ~RootSatisfied(d)}}
  BY DEF Reduce
<1>2. /\ irr' = {FlushFalse(c) : c \in {d \in irr : ~RootSatisfied(d)}}
      /\ reason' = [v \in Var |-> FlushFalse(reason[v])]
      /\ UNCHANGED <<val, vlevel, pos>> /\ ~Analyzing
  BY DEF Reduce, Reducing, Ready, Quiet, Analyzing
<1> SUFFICES ASSUME NEW v \in Var, reason'[v] # {}
             PROVE  IsReason(reason[v], v)' /\ reason'[v] \in DB'
  BY DEF ReasonInv
<1>3. PICK c \in SUBSET Lit : c = reason[v] /\ reason'[v] = FlushFalse(c)
  BY <1>2 DEF TypeInv, TypeOK, TypeAssign
<1>4. c # {}
  <2>1. FlushFalse(c) \subseteq c
    BY DEF FlushFalse
  <2> QED
    BY <1>3, <2>1
<1>5. IsReason(c, v) /\ c \in DB
  BY <1>2, <1>3, <1>4, ProperReason
<1>6. IsReason(FlushFalse(c), v) /\ ~RootSatisfied(c)
  BY <1>5, FlushReason
<1>7. PICK s \in SUBSET Lit : s = FlushFalse(c)
  BY FlushType
<1>8. IsReason(s, v)'
  BY <1>2, <1>6, <1>7, SameReason
<1>9. c \notin useless
  BY <1>3
<1>10. FlushFalse(c) \in DB'
  BY <1>1, <1>2, <1>5, <1>6, <1>9 DEF DB
<1> QED
  BY <1>3, <1>7, <1>8, <1>10 DEF IsReason

LEMMA ReasonStep ==
  ASSUME TypeInv, TrailInv, EntailInv, ReasonInv, InOrder, FirstResolution, ConflictStored,
         [Next]_vars
  PROVE  ReasonInv'
<1>0. /\ level \in Nat /\ 0 \in 0..level /\ level \in 0..level /\ 0 \in 0..0
      /\ work \in SUBSET Lit /\ conflict \in SUBSET Lit /\ \A c \in DB : c \in SUBSET Lit
      /\ 0..level - 1 \subseteq 0..level /\ {} \in SUBSET Lit
      /\ \A L \in 0..level - 1 : L < level
  BY TrailTypes DEF TypeInv, TypeOK, TypeDB, TypeAnalysis, DB
<1>1. CASE PropagateUnit
  <2>1. PICK c \in DB, l \in Lit : \E a \in 0..level : l \in c /\ Drives(level, l, c, a)
    BY <1>0, <1>1, UnitDrives
  <2>2. PICK a \in 0..level : Drives(level, l, c, a)
    BY <2>1
  <2>3. ~Analyzing /\ DB' = DB
    BY <1>1 DEF PropagateUnit, Visiting, Analyzing, DB, dbVars
  <2> QED
    BY <1>0, <2>2, <2>3, ReasonDrives
<1>2. CASE AnalyzeForced
  <2>1. PICK l \in conflict, L \in 0..level - 1 : \E a \in 0..L : Drives(L, l, conflict, a)
    BY <1>2, ForcedDrives
  <2>2. PICK a \in 0..L : Drives(L, l, conflict, a)
    BY <2>1
  <2>3. ~Analyzing /\ DB' = DB /\ conflict \in DB
    BY <1>2 DEF AnalyzeForced, Analyzing, DB, dbVars, ConflictStored
  <2> QED
    BY <1>0, <2>2, <2>3, ReasonDrives
<1>3. CASE StrengthenForced
  BY <1>3, StrengthenForcedReason
<1>4. CASE Learn
  BY <1>4, LearnReason
<1>5. CASE Add
  <2>1. Head(inbox) \in SUBSET Lit
    BY <1>5, HeadTailProperties DEF Add, TypeInv, TypeOK, TypeDB
  <2>2. \/ Backtrack(0)
        \/ \E l \in NewLiterals(Head(inbox)) : BacktrackAssign(0, l, {}, 0)
    BY <1>5 DEF Add
  <2>3. ~Analyzing /\ DB \subseteq DB'
    BY <1>5 DEF Add, Steady, Analyzing, DB
  <2>4. ASSUME NEW l \in NewLiterals(Head(inbox)), BacktrackAssign(0, l, {}, 0)
        PROVE  ReasonInv'
    <3>1. l \in Lit /\ Drives(0, l, {}, 0)
      BY <2>1, <2>4, AddDrives
    <3>2. PICK L \in 0..level, c \in SUBSET Lit : L = 0 /\ Drives(L, l, c, 0) /\ 0 \in 0..L
      BY <1>0, <3>1
    <3>3. PICK a \in 0..L : a = 0 /\ Drives(L, l, c, a)
      BY <3>2
    <3> QED
      BY <2>3, <3>1, <3>3, ReasonDrives
  <2>5. CASE Backtrack(0)
    BY <1>0, <2>3, <2>5, ReasonBacktrack
  <2> QED
    BY <2>2, <2>4, <2>5
<1>6. CASE AnalyzeRoot \/ ReduceUnits \/ Assume \/ Constrain
  <2>1. Backtrack(0) /\ ~Analyzing /\ DB' = DB
    BY <1>6 DEF AnalyzeRoot, ReduceUnits, Assume, Constrain, Steady, Reducing, Ready, Quiet,
       Analyzing, DB, dbVars
  <2> QED
    BY <1>0, <2>1, ReasonBacktrack
<1>7. CASE AnalyzeStart
  <2>1. PICK L \in 1..level : Backtrack(L)
    BY <1>7 DEF AnalyzeStart
  <2>2. L \in 0..level /\ ~Analyzing /\ DB' = DB
    BY <1>0, <1>7 DEF AnalyzeStart, Analyzing, DB, dbVars
  <2> QED
    BY <2>1, <2>2, ReasonBacktrack
<1>8. CASE Restart
  <2>1. \E L \in 0..level : Backtrack(L)
    BY <1>8, RestartLevel
  <2>2. ~Analyzing /\ DB' = DB
    BY <1>8 DEF Restart, Ready, Quiet, Analyzing, DB, dbVars
  <2> QED
    BY <2>1, <2>2, ReasonBacktrack
<1>9. CASE Solve
  <2>1. ~Analyzing /\ DB' = DB /\ UNCHANGED <<irr, red>>
    BY <1>9 DEF Solve, Steady, Analyzing, DB, dbVars
  <2>2. CASE UNCHANGED assignVars
    BY <2>1, <2>2, ReasonSame DEF assignVars
  <2>3. CASE Backtrack(0)
    BY <1>0, <2>1, <2>3, ReasonBacktrack
  <2> QED
    BY <1>9, <2>2, <2>3 DEF Solve
<1>10. CASE Decide
  <2>1. PICK l \in Lit : Value(l) = 0 /\ Decision(l)
    BY <1>10 DEF Decide, MayDecide
  <2>2. ~Analyzing /\ DB' = DB
    BY <1>10 DEF Decide, Ready, Quiet, Analyzing, DB, dbVars
  <2> QED
    BY <2>1, <2>2, ReasonDecision
<1>11. CASE DecidePseudo
  <2>1. UNCHANGED <<val, vlevel, pos, reason, irr, red>> /\ ~Analyzing
    BY <1>11 DEF DecidePseudo, PseudoDecision, Ready, Quiet, Analyzing, dbVars
  <2> QED
    BY <2>1, ReasonSame
<1>12. CASE Shrink
  <2>1. /\ UNCHANGED <<val, vlevel, pos, reason, irr, red, control>>
        /\ Analyzing' /\ pc' # "resolve"
    BY <1>12 DEF Shrink, KeepBlock, ShrinkBlock, ShrinkAlongReason, ShrunkenBlock,
       ShrinkingFailed, MinimizeLiteral, MinimizeRecursively, MinimizeDone,
       shrinkFrame, assignVars, dbVars, Analyzing
  <2> QED
    BY <2>1, ReasonSame DEF level
<1>13. CASE FirstUIP
  <2>1. /\ UNCHANGED <<val, vlevel, pos, reason, irr, red, control>>
        /\ Analyzing' /\ pc' # "resolve"
    BY <1>13 DEF FirstUIP, assignVars, dbVars, Analyzing
  <2> QED
    BY <2>1, ReasonSame DEF level
<1>14. CASE PropagateConflict \/ PropagateFail \/ PropagateAdded \/ FoundModel \/ Interrupt
            \/ DecideFail \/ Failed \/ PropagateNext
  <2>1. UNCHANGED <<val, vlevel, pos, reason, irr, red>> /\ ~Analyzing
    BY <1>14 DEF PropagateConflict, PropagateFail, PropagateAdded, FoundModel, Interrupt,
       DecideFail, Failed, PropagateNext, assignVars, dbVars, Analyzing, Visiting, Quiet,
       Ready, Steady
  <2> QED
    BY <2>1, ReasonSame
<1>15. CASE Resolve
  BY <1>15, ResolveReason
<1>16. CASE StrengthenContinue
  BY <1>16, StrengthenContinueReason
<1>17. CASE Reduce
  BY <1>17, ReduceReason
<1>18. CASE UNCHANGED vars
  <2>1. UNCHANGED <<val, vlevel, pos, reason, irr, red, control, pc, work>>
    BY <1>18 DEF vars, assignVars, dbVars, analyzeVars
  <2> QED
    BY <2>1, ReasonSame DEF level, Analyzing
<1> QED
  BY <1>1, <1>2, <1>3, <1>4, <1>5, <1>6, <1>7, <1>8, <1>9, <1>10, <1>11, <1>12, <1>13,
     <1>14, <1>15, <1>16, <1>17, <1>18
     DEF Next, User, Solver, Finished, Propagate, Analyze, Search

-----------------------------------------------------------------------------
(* Watched clauses.                                                        *)

(* The assignment cut back to a level: what is in memory stays covered. *)
LEMMA CutCovered ==
  ASSUME TypeInv, TrailInv, FramesCovered, NEW L \in 0..level, Cut(L), NEW c \in DB
  PROVE  /\ \A K \in 0..L - 1 : Covered(c, control[K + 1].trail, K)'
         /\ L < level \/ Covered(c, propagated, level) => Covered(c, propagated, L)'
<1>0. /\ level \in Nat /\ L \in Nat /\ L <= level /\ c \in SUBSET Lit
      /\ Assigned(L) \in Nat /\ propagated \in Nat
      /\ \A k \in 1..level : control[k].trail \in Nat
      /\ \A k \in 1..L : control[k].trail <= Assigned(L)
      /\ level' = L /\ \A k \in 1..L : control'[k] = control[k]
      /\ propagated' = KeepPropagated(L)
  <2>1. /\ level \in Nat /\ numAssigned \in Nat
        /\ \A k \in 1..level : control[k].trail \in Nat
    BY TrailTypes
  <2>2. /\ Assigned(L) \in 0..numAssigned
        /\ \A k \in 1..L : control[k].trail <= Assigned(L)
    BY BelowCut
  <2>3. c \in SUBSET Lit /\ propagated \in Nat
    BY DEF TypeInv, TypeOK, TypeDB, TypeAssign, DB
  <2> QED
    BY <2>1, <2>2, <2>3 DEF Cut
<1>1. ASSUME NEW K \in 0..L - 1
      PROVE  Covered(c, control[K + 1].trail, K)'
  <2>1. /\ K \in 0..level - 1 /\ K + 1 \in 1..L /\ K \in 0..L
    BY <1>0
  <2>2. PICK n \in Nat : n = control[K + 1].trail
    BY <1>0, <2>1
  <2>3. Covered(c, n, K) /\ n <= Assigned(L) /\ control'[K + 1].trail = n
    BY <1>0, <2>1, <2>2 DEF FramesCovered
  <2>4. Covered(c, n, K)'
    BY <1>0, <2>1, <2>3, CutCover
  <2> QED
    BY <2>3, <2>4 DEF Covered, Unseen
<1>2. ASSUME L < level \/ Covered(c, propagated, level)
      PROVE  Covered(c, propagated, L)'
  <2>1. PICK n \in Nat : n = KeepPropagated(L)
    BY <1>0 DEF KeepPropagated
  <2>2. n <= Assigned(L) /\ n <= propagated
    BY <1>0, <2>1 DEF KeepPropagated
  <2>3. Covered(c, n, L)
    <3>1. CASE L < level
      <4>1. L \in 0..level - 1 /\ Assigned(L) = control[L + 1].trail
        BY <1>0, <3>1 DEF Assigned
      <4>2. Covered(c, Assigned(L), L)
        BY <4>1 DEF FramesCovered
      <4> QED
        BY <1>0, <2>2, <4>2, CoverWeaker
    <3>2. CASE ~(L < level)
      <4>1. L = level /\ Covered(c, propagated, level)
        BY <1>0, <1>2, <3>2
      <4> QED
        BY <1>0, <2>2, <4>1, CoverWeaker
    <3> QED
      BY <3>1, <3>2
  <2>4. L \in 0..L
    BY <1>0
  <2>5. Covered(c, n, L)'
    BY <1>0, <2>2, <2>3, <2>4, CutCover
  <2> QED
    BY <1>0, <2>1, <2>5 DEF Covered, Unseen
<1> QED
  BY <1>1, <1>2

(* Hence of the clauses in memory only new ones have to be looked at. *)
LEMMA CoverCut ==
  ASSUME TypeInv, TrailInv, FramesCovered, TrailCovered, NEW L \in 0..level, Cut(L),
         \A c \in DB' : c \in DB \/ (/\ \A K \in 0..L - 1 : Covered(c, control[K + 1].trail, K)'
                                     /\ Covered(c, propagated, L)'),
         L < level \/ pc \in {"steady", "propagate"} \/ unsat' \/ Analyzing',
         unsat => unsat'
  PROVE  FramesCovered' /\ TrailCovered'
<1>0. level' = L
  BY DEF Cut
<1>1. ASSUME NEW c \in DB', NEW K \in 0..L - 1
      PROVE  Covered(c, control[K + 1].trail, K)'
  BY <1>1, CutCovered
<1>2. ASSUME NEW c \in DB', pc' \in {"steady", "propagate"}, ~unsat'
      PROVE  Covered(c, propagated, L)'
  <2>1. L < level \/ pc \in {"steady", "propagate"}
    BY <1>2 DEF Analyzing
  <2>2. CASE c \in DB
    <3>1. L < level \/ Covered(c, propagated, level)
      BY <1>2, <2>1, <2>2 DEF TrailCovered
    <3> QED
      BY <2>2, <3>1, CutCovered
  <2> QED
    BY <2>2
<1> QED
  BY <1>0, <1>1, <1>2 DEF FramesCovered, TrailCovered

(* Steps that leave the assignment alone. *)
LEMMA SameCover ==
  ASSUME UNCHANGED <<val, vlevel, pos>>, NEW c, NEW n, NEW K, Covered(c, n, K)
  PROVE  Covered(c, n, K)'
  BY DEF Covered, Unseen, Value, LevelOf, Position

LEMMA CoverSame ==
  ASSUME TypeInv, FramesCovered, TrailCovered, UNCHANGED <<val, vlevel, pos, control, irr, red>>,
         Analyzing' \/ pc' = "analyze" \/ (propagated' = propagated
                                           /\ pc \in {"steady", "propagate"} /\ unsat' = unsat)
  PROVE  FramesCovered' /\ TrailCovered'
<1>0. DB' = DB /\ level' = level
  BY DEF DB, level
<1>1. ASSUME NEW c \in DB, NEW L \in 0..level - 1
      PROVE  Covered(c, control[L + 1].trail, L)'
  <2>1. PICK n \in Nat : n = control[L + 1].trail
    BY TrailTypes
  <2>2. Covered(c, n, L)
    BY <2>1 DEF FramesCovered
  <2>3. Covered(c, n, L)'
    BY <2>2, SameCover
  <2> QED
    BY <2>1, <2>3 DEF Covered, Unseen
<1>2. ASSUME NEW c \in DB, pc' \in {"steady", "propagate"}, ~unsat'
      PROVE  Covered(c, propagated, level)'
  <2>1. propagated' = propagated /\ pc \in {"steady", "propagate"} /\ ~unsat
    BY <1>2 DEF Analyzing
  <2>2. PICK n \in Nat, K \in Nat : n = propagated /\ K = level
    BY TrailTypes DEF TypeInv, TypeOK, TypeAssign
  <2>3. Covered(c, n, K)
    BY <2>1, <2>2 DEF TrailCovered
  <2>4. Covered(c, n, K)'
    BY <2>3, SameCover
  <2> QED
    BY <1>0, <2>1, <2>2, <2>4 DEF Covered, Unseen
<1> QED
  BY <1>0, <1>1, <1>2 DEF FramesCovered, TrailCovered

(* A decision is behind everything a clause has been looked at for. *)
LEMMA DecisionCover ==
  ASSUME TypeInv, TrailInv, NEW l \in Lit, Value(l) = 0, Decision(l),
         NEW c \in SUBSET Lit, NEW n \in Nat, n <= numAssigned, NEW K, Covered(c, n, K)
  PROVE  Covered(c, n, K)'
<1>1. ASSUME NEW k \in c
      PROVE  \/ k \in {l, -l} /\ Value(k) = 0 /\ Position(k)' = numAssigned + 1
             \/ Value(k)' = Value(k) /\ LevelOf(k)' = LevelOf(k) /\ Position(k)' = Position(k)
  <2>1. CASE Abs(k) = Abs(l)
    <3>1. k \in {l, -l} /\ val[Abs(l)] = 0 /\ pos'[Abs(l)] = numAssigned + 1
      BY <2>1, DecisionEffect, Literals
    <3>2. Value(k) = 0
      BY <2>1, <3>1, LiteralTypes
    <3> QED
      BY <2>1, <3>1, <3>2 DEF Position
  <2>2. CASE Abs(k) # Abs(l)
    <3>1. Abs(k) \in Var \ {Abs(l)}
      BY <2>2, LiteralTypes
    <3>2. /\ val'[Abs(k)] = val[Abs(k)] /\ vlevel'[Abs(k)] = vlevel[Abs(k)]
          /\ pos'[Abs(k)] = pos[Abs(k)]
      BY <3>1, DecisionEffect
    <3> QED
      BY <3>2, SameValue DEF Position
  <2> QED
    BY <2>1, <2>2
<1>2. numAssigned \in Nat
  BY TrailTypes
<1>3. ASSUME NEW k \in c, Unseen(k, n)
      PROVE  Unseen(k, n)'
  BY <1>1, <1>2, <1>3 DEF Unseen
<1>4. ASSUME NEW k \in c, Value(k) > 0, LevelOf(k) <= K
      PROVE  Value(k)' > 0 /\ LevelOf(k)' <= K
  BY <1>1, <1>4
<1>5. CASE \E k \in c : Value(k) > 0 /\ LevelOf(k) <= K
  BY <1>4, <1>5 DEF Covered
<1>6. CASE \E j, k \in c : j # k /\ Unseen(j, n) /\ Unseen(k, n)
  BY <1>3, <1>6 DEF Covered
<1> QED
  BY <1>5, <1>6 DEF Covered

LEMMA CoverDecide ==
  ASSUME TypeInv, TrailInv, UnsatInv, FramesCovered, TrailCovered, Decide \/ DecidePseudo
  PROVE  FramesCovered' /\ TrailCovered'
<1>0. /\ pc \in {"steady", "propagate"} /\ ~unsat /\ propagated = numAssigned /\ DB' = DB
      /\ level \in Nat /\ numAssigned \in Nat
      /\ \A k \in 1..level : control[k].trail \in Nat /\ control[k].trail <= numAssigned
      /\ \A c \in DB : c \in SUBSET Lit
  BY TrailTypes DEF Decide, DecidePseudo, Ready, Quiet, UnsatInv, DB, dbVars, TrailInv,
     FramesOrdered, TypeInv, TypeOK, TypeDB
<1>1. /\ level' = level + 1 /\ \A k \in 1..level : control'[k] = control[k]
      /\ control'[level + 1].trail = numAssigned /\ propagated' = propagated
  <2>1. CASE Decide
    <3>1. PICK l \in Lit : Value(l) = 0 /\ Decision(l)
      BY <2>1 DEF Decide, MayDecide
    <3> QED
      BY <3>1, DecisionEffect
  <2>2. CASE DecidePseudo
    BY <2>2, PseudoEffect DEF DecidePseudo
  <2> QED
    BY <2>1, <2>2
<1>2. ASSUME NEW c \in DB, NEW n \in Nat, n <= numAssigned, NEW K, Covered(c, n, K)
      PROVE  Covered(c, n, K)'
  <2>1. CASE Decide
    <3>1. PICK l \in Lit : Value(l) = 0 /\ Decision(l)
      BY <2>1 DEF Decide, MayDecide
    <3> QED
      BY <1>0, <1>2, <3>1, DecisionCover
  <2>2. CASE DecidePseudo
    BY <1>2, <2>2, SameCover DEF DecidePseudo, PseudoDecision
  <2> QED
    BY <2>1, <2>2
<1>3. PICK p \in Nat, M \in Nat : p = numAssigned /\ M = level
  BY <1>0
<1>4. ASSUME NEW c \in DB
      PROVE  Covered(c, p, M)' /\ Covered(c, p, M + 1)'
  <2>1. Covered(c, p, M)
    BY <1>0, <1>3 DEF TrailCovered
  <2>2. Covered(c, p, M + 1)
    BY <1>0, <1>3, <2>1, CoverWeaker
  <2>3. p <= numAssigned
    BY <1>3
  <2> QED
    BY <1>2, <2>1, <2>2, <2>3
<1>5. ASSUME NEW c \in DB, NEW K \in 0..M
      PROVE  Covered(c, control[K + 1].trail, K)'
  <2>1. CASE K = M
    <3>1. control'[K + 1].trail = p
      BY <1>1, <1>3, <2>1
    <3>2. Covered(c, p, K)'
      BY <1>4, <2>1
    <3> QED
      BY <3>1, <3>2 DEF Covered, Unseen
  <2>2. CASE K # M
    <3>1. K \in 0..level - 1 /\ K + 1 \in 1..level
      BY <1>3, <2>2
    <3>2. PICK n \in Nat : n = control[K + 1].trail
      BY <1>0, <3>1
    <3>3. Covered(c, n, K) /\ n <= numAssigned /\ control'[K + 1].trail = n
      BY <1>0, <1>1, <3>1, <3>2 DEF FramesCovered
    <3>4. Covered(c, n, K)'
      BY <1>2, <3>3
    <3> QED
      BY <3>3, <3>4 DEF Covered, Unseen
  <2> QED
    BY <2>1, <2>2
<1>6. FramesCovered'
  <2>1. 0..level' - 1 = 0..M
    BY <1>1, <1>3
  <2> QED
    BY <1>0, <1>5, <2>1 DEF FramesCovered
<1>7. TrailCovered'
  <2>1. level' = M + 1 /\ propagated' = p
    BY <1>0, <1>1, <1>3
  <2>2. ASSUME NEW c \in DB
        PROVE  Covered(c, propagated, level)'
    <3>1. Covered(c, p, M + 1)'
      BY <1>4
    <3> QED
      BY <2>1, <3>1 DEF Covered, Unseen
  <2> QED
    BY <1>0, <2>2 DEF TrailCovered
<1> QED
  BY <1>6, <1>7

(* propagate leaves a literal only when the clauses watched by it are true or
   have two literals left to watch. *)
LEMMA CoverNext ==
  ASSUME TypeInv, FramesCovered, TrailCovered, UnsatInv, PropagateNext
  PROVE  FramesCovered' /\ TrailCovered'
<1>0. /\ pc = "propagate" /\ ~unsat /\ propagated' = propagated + 1
      /\ UNCHANGED <<val, vlevel, pos, control, irr, red>> /\ DB' = DB /\ level' = level
      /\ propagated \in Nat /\ level \in Nat
  BY TrailTypes DEF PropagateNext, Visiting, UnsatInv, dbVars, DB, level, TypeInv, TypeOK,
     TypeAssign
<1>1. FramesCovered'
  <2> SUFFICES ASSUME NEW c \in DB, NEW L \in 0..level - 1
               PROVE  Covered(c, control[L + 1].trail, L)'
    BY <1>0 DEF FramesCovered
  <2>1. PICK n \in Nat : n = control[L + 1].trail
    BY TrailTypes
  <2>2. Covered(c, n, L)
    BY <2>1 DEF FramesCovered
  <2>3. Covered(c, n, L)'
    BY <1>0, <2>2, SameCover
  <2> QED
    BY <1>0, <2>1, <2>3 DEF Covered, Unseen
<1>2. PICK p \in Nat, M \in Nat : p = propagated /\ M = level
  BY <1>0
<1>3. ASSUME NEW c \in DB
      PROVE  Covered(c, p + 1, M)
  <2>0. c \in SUBSET Lit
    BY DEF DB, TypeInv, TypeOK, TypeDB
  <2>1. ASSUME NEW l \in c, Value(l) > 0
        PROVE  Covered(c, p + 1, M)
    <3>1. LevelOf(l) <= M
      BY <1>0, <1>2, <2>0, LiteralTypes
    <3> QED
      BY <2>1, <3>1 DEF Covered
  <2>2. CASE c \in Watching
    <3>1. PICK S \in SUBSET Lit : S = Unvisited(c)
      BY <2>0 DEF Unvisited
    <3>2. CASE Cardinality(S) <= 1
      BY <2>1, <2>2, <3>1, <3>2 DEF PropagateNext, Unvisited
    <3>3. CASE ~(Cardinality(S) <= 1)
      <4>1. PICK k, l \in S : k # l
        BY <3>3, TwoElements, CardinalityType
      <4>2. \A i \in S : i \in c /\ Unseen(i, p + 1)
        BY <1>2, <2>0, <3>1, LiteralTypes DEF Unvisited, Unseen
      <4> QED
        BY <4>1, <4>2 DEF Covered
    <3> QED
      BY <3>2, <3>3
  <2>3. CASE c \notin Watching
    <3>1. Covered(c, p, M)
      BY <1>0, <1>2 DEF TrailCovered
    <3>2. ASSUME NEW l \in c, Unseen(l, p)
          PROVE  Unseen(l, p + 1)
      <4>1. ~(Value(l) < 0 /\ Position(l) = p + 1)
        BY <1>2, <2>3 DEF Watching, IsFalseWatch
      <4>2. Position(l) \in Nat
        BY <2>0, LiteralTypes
      <4> QED
        BY <3>2, <4>1, <4>2 DEF Unseen
    <3> QED
      BY <2>1, <3>1, <3>2 DEF Covered
  <2> QED
    BY <2>2, <2>3
<1>4. TrailCovered'
  <2> SUFFICES ASSUME NEW c \in DB
               PROVE  Covered(c, propagated, level)'
    BY <1>0 DEF TrailCovered
  <2>1. PICK q \in Nat : q = p + 1
    OBVIOUS
  <2>2. Covered(c, q, M)
    BY <1>3, <2>1
  <2>3. Covered(c, q, M)'
    BY <1>0, <2>2, SameCover
  <2> QED
    BY <1>0, <1>2, <2>1, <2>3 DEF Covered, Unseen
<1> QED
  BY <1>1, <1>4

(* The strengthened clause has two literals of the conflict level. *)
LEMMA CoverContinue ==
  ASSUME TypeInv, TrailInv, EntailInv, ReasonInv, FirstResolution, FramesCovered,
         StrengthenContinue
  PROVE  FramesCovered' /\ TrailCovered'
<1>1. PICK l \in work :
        /\ IsLatest(l, Open(work)) /\ Strengthens(l)
        /\ Cardinality(Open(Antecedent(l))) > 1
        /\ Strengthen(l, Antecedent(l))
  BY DEF StrengthenContinue
<1>2. /\ pc = "resolve" /\ Cardinality(Open(work)) > 1
      /\ UNCHANGED <<val, vlevel, pos, control, pc>> /\ level' = level
  BY DEF StrengthenContinue, level
<1>3. l \in Lit /\ level \in Nat
  BY <1>1, <1>2, LatestOpen, TrailTypes
<1>4. PICK s \in SUBSET Lit : s = Antecedent(l)
  BY <1>3, ResolventType
<1>5. DB' \subseteq DB \cup {s}
  BY <1>1, <1>2, <1>4, StrengthenMemory
<1>6. PICK i, j \in Open(s) : i # j
  <2>1. PICK S \in SUBSET Lit : S = Open(s)
    BY DEF Open
  <2> QED
    BY <1>1, <1>4, <2>1, TwoElements
<1>7. ASSUME NEW L \in 0..level - 1
      PROVE  Covered(s, control[L + 1].trail, L)
  <2>1. ASSUME NEW k \in Open(s)
        PROVE  k \in s /\ Unseen(k, control[L + 1].trail)
    <3>1. k \in s /\ k \in Lit /\ LevelOf(k) = level /\ Abs(k) \in Var /\ level > 0
      BY <1>3, LiteralTypes DEF Open
    <3>2. /\ Position(k) > control[level].trail /\ Position(k) \in Nat
          /\ L + 1 \in 1..level /\ level \in 1..level /\ L + 1 <= level
      BY <1>3, <3>1, LiteralTypes DEF TrailInv, LevelsAfterFrames, LevelOf, Position
    <3>3. control[L + 1].trail <= control[level].trail
      BY <3>2 DEF TrailInv, FramesOrdered
    <3>4. control[L + 1].trail \in Nat /\ control[level].trail \in Nat
      BY <3>2, TrailTypes
    <3> QED
      BY <3>1, <3>2, <3>3, <3>4 DEF Unseen
  <2> QED
    BY <1>6, <2>1 DEF Covered
<1>8. ASSUME NEW c \in DB', NEW L \in 0..level - 1
      PROVE  Covered(c, control[L + 1].trail, L)'
  <2>1. PICK n \in Nat : n = control[L + 1].trail
    BY TrailTypes
  <2>2. Covered(c, n, L)
    BY <1>5, <1>7, <2>1 DEF FramesCovered
  <2>3. Covered(c, n, L)'
    BY <1>2, <2>2, SameCover
  <2> QED
    BY <1>2, <2>1, <2>3 DEF Covered, Unseen
<1> QED
  BY <1>2, <1>8 DEF FramesCovered, TrailCovered

(* Reduction removes root-level literals that were seen everywhere. *)
LEMMA FlushCover ==
  ASSUME TypeInv, NEW c \in SUBSET Lit, ~RootSatisfied(c), NEW n, NEW K, Covered(c, n, K),
         \A v \in Var : val[v] # 0 /\ vlevel[v] = 0 => pos[v] <= n
  PROVE  Covered(FlushFalse(c), n, K)
<1>1. \A l \in c : Fixed(l) >= 0 => l \in FlushFalse(c)
  BY DEF FlushFalse
<1>2. ASSUME NEW l \in c, Value(l) > 0
      PROVE  l \in FlushFalse(c)
  <2>1. Fixed(l) >= 0
    BY <1>2, LiteralTypes DEF Fixed
  <2> QED
    BY <1>1, <2>1
<1>3. ASSUME NEW l \in c, Unseen(l, n)
      PROVE  l \in FlushFalse(c)
  <2>1. Abs(l) \in Var /\ (Value(l) # 0 => val[Abs(l)] # 0) /\ Value(l) \in {-1, 0, 1}
    BY LiteralTypes
  <2>2. Fixed(l) >= 0
    <3>1. CASE LevelOf(l) = 0 /\ Value(l) < 0
      <4>1. Position(l) <= n
        BY <2>1, <3>1 DEF LevelOf, Position
      <4> QED
        BY <1>3, <3>1, <4>1 DEF Unseen
    <3>2. CASE ~(LevelOf(l) = 0 /\ Value(l) < 0)
      BY <2>1, <3>2 DEF Fixed
    <3> QED
      BY <3>1, <3>2
  <2> QED
    BY <1>1, <2>2
<1> QED
  BY <1>2, <1>3 DEF Covered

LEMMA CoverReduce ==
  ASSUME TypeInv, TrailInv, UnsatInv, FramesCovered, TrailCovered, AtRoot, Reduce
  PROVE  FramesCovered' /\ TrailCovered'
<1>0. /\ pc = "propagate" /\ ~unsat /\ propagated = numAssigned
      /\ UNCHANGED <<val, vlevel, pos, propagated, control>> /\ level' = level
      /\ level \in Nat /\ propagated \in Nat
      /\ level = 0 \/ ~OutOfOrderUnit
  BY TrailTypes DEF Reduce, Reducing, Ready, Quiet, UnsatInv, level, AtRoot, TypeInv, TypeOK,
     TypeAssign
<1>1. ASSUME NEW d \in DB'
      PROVE  \E c \in DB : ~RootSatisfied(c) /\ d = FlushFalse(c)
  <2>1. PICK useless \in SUBSET (red \ {reason[v] : v \in Var}) :
          red' = {FlushFalse(c) : c \in {e \in red \ useless : ~RootSatisfied(e)}}
    BY DEF Reduce
  <2>2. irr' = {FlushFalse(c) : c \in {e \in irr : ~RootSatisfied(e)}}
    BY DEF Reduce
  <2> QED
    BY <2>1, <2>2 DEF DB
<1>2. ASSUME NEW L \in 0..level - 1, NEW v \in Var, val[v] # 0, vlevel[v] = 0
      PROVE  pos[v] <= control[L + 1].trail
  <2>1. level > 0 /\ 1 \in 1..level /\ L + 1 \in 1..level /\ 1 <= L + 1
    BY <1>0
  <2>2. control[1].trail <= control[L + 1].trail
    BY <2>1 DEF TrailInv, FramesOrdered
  <2>3. ~(pos[v] > control[1].trail)
    BY <1>0, <1>2, <2>1 DEF OutOfOrderUnit
  <2> QED
    BY <2>1, <2>2, <2>3, TrailTypes
<1>3. \A v \in Var : val[v] # 0 => pos[v] <= propagated
  BY <1>0, TrailTypes DEF TrailInv, Positions
<1>4. ASSUME NEW d \in DB', NEW L \in 0..level - 1
      PROVE  Covered(d, control[L + 1].trail, L)'
  <2>1. PICK c \in DB : ~RootSatisfied(c) /\ d = FlushFalse(c)
    BY <1>1
  <2>2. PICK n \in Nat : n = control[L + 1].trail
    BY TrailTypes
  <2>3. Covered(c, n, L) /\ c \in SUBSET Lit
    BY <2>2 DEF FramesCovered, DB, TypeInv, TypeOK, TypeDB
  <2>4. Covered(d, n, L)
    BY <1>2, <2>1, <2>2, <2>3, FlushCover
  <2>5. Covered(d, n, L)'
    BY <1>0, <2>4, SameCover
  <2> QED
    BY <1>0, <2>2, <2>5 DEF Covered, Unseen
<1>5. ASSUME NEW d \in DB'
      PROVE  Covered(d, propagated, level)'
  <2>1. PICK c \in DB : ~RootSatisfied(c) /\ d = FlushFalse(c)
    BY <1>1
  <2>2. PICK n \in Nat, M \in Nat : n = propagated /\ M = level
    BY <1>0
  <2>3. Covered(c, n, M) /\ c \in SUBSET Lit
    BY <1>0, <2>2 DEF TrailCovered, DB, TypeInv, TypeOK, TypeDB
  <2>4. Covered(d, n, M)
    BY <1>3, <2>1, <2>2, <2>3, FlushCover
  <2>5. Covered(d, n, M)'
    BY <1>0, <2>4, SameCover
  <2> QED
    BY <1>0, <2>2, <2>5 DEF Covered, Unseen
<1> QED
  BY <1>0, <1>4, <1>5 DEF FramesCovered, TrailCovered

(* Clauses that drive a literal after backtracking. *)
LEMMA CoverDriven ==
  ASSUME TypeInv, TrailInv, TypeInv', TrailInv', FramesCovered, TrailCovered,
         NEW L \in 0..level, L < level, NEW u \in Lit, NEW c \in SUBSET Lit, NEW a \in 0..L,
         Drives(L, u, c, a), u \in c, DB' \subseteq DB \cup {c}, unsat' = unsat
  PROVE  FramesCovered' /\ TrailCovered'
<1>1. /\ \A K \in 0..L - 1 : Covered(c, control[K + 1].trail, K)'
      /\ \A n : Covered(c, n, L)'
  BY DrivingCover
<1>2. Covered(c, propagated, L)'
  <2>1. PICK n : n = propagated'
    OBVIOUS
  <2>2. Covered(c, n, L)'
    BY <1>1
  <2> QED
    BY <2>1, <2>2 DEF Covered, Unseen
<1>3. Cut(L)
  BY DrivesCut
<1>4. \A d \in DB' : d \in DB \/ (/\ \A K \in 0..L - 1 : Covered(d, control[K + 1].trail, K)'
                                  /\ Covered(d, propagated, L)')
  BY <1>1, <1>2
<1> QED
  BY <1>3, <1>4, CoverCut

(* A clause of the user comes on the root level, without its assigned literals. *)
LEMMA CoverAdd ==
  ASSUME TypeInv, TrailInv, UnsatInv, FramesCovered, TrailCovered, Add
  PROVE  FramesCovered' /\ TrailCovered'
<1>0. /\ pc \in {"steady", "propagate"} /\ red' = red /\ 0 \in 0..level /\ (unsat => unsat')
      /\ Head(inbox) \in SUBSET Lit
  BY TrailTypes, HeadTailProperties DEF Add, Steady, TypeInv, TypeOK, TypeDB
<1>1. PICK new \in SUBSET Lit : new = NewLiterals(Head(inbox))
  BY <1>0 DEF NewLiterals
<1>2. CASE Backtrack(0) /\ irr' = irr
  <2>1. Cut(0) /\ DB' = DB
    BY <1>0, <1>2, BacktrackCut DEF DB
  <2> QED
    BY <1>0, <2>1, CoverCut
<1>3. CASE \E l \in new : BacktrackAssign(0, l, {}, 0) /\ irr' = irr
  <2>1. PICK l \in new : BacktrackAssign(0, l, {}, 0) /\ irr' = irr
    BY <1>3
  <2>2. l \in Lit /\ Drives(0, l, {}, 0)
    BY <1>0, <1>1, <2>1, AddDrives
  <2>3. PICK L \in 0..level, c \in SUBSET Lit : L = 0 /\ Drives(L, l, c, 0) /\ 0 \in 0..L
    BY <1>0, <2>2
  <2>4. PICK a \in 0..L : Drives(L, l, c, a)
    BY <2>3
  <2>5. Cut(L) /\ DB' = DB
    BY <1>0, <2>1, <2>2, <2>4, DrivesCut DEF DB
  <2> QED
    BY <1>0, <2>5, CoverCut
<1>4. CASE Backtrack(0) /\ Cardinality(new) > 1 /\ irr' = irr \cup {new}
  <2>1. Cut(0) /\ \A v \in Var \ Kept(0) : val'[v] = 0
    BY <1>0, <1>4, BacktrackCut
  <2>2. DB' = DB \cup {new}
    BY <1>0, <1>4 DEF DB
  <2>3. ASSUME NEW l \in new
        PROVE  Value(l)' = 0
    <3>0. l \in Lit /\ l \in NewLiterals(Head(inbox))
      BY <1>1
    <3>1. Abs(l) \in Var /\ (val[Abs(l)] = 0 \/ vlevel[Abs(l)] > 0)
      BY <3>0, LiteralTypes DEF NewLiterals, LevelOf
    <3>2. Abs(l) \notin Kept(0)
      BY <3>1, TrailTypes DEF Kept, Stays
    <3>3. val'[Abs(l)] = 0
      BY <2>1, <3>1, <3>2
    <3>5. \A i \in Int : i <= 0 /\ i >= 0 => -i = 0
      OBVIOUS
    <3>4. (l > 0 /\ Abs(l) = l) \/ (~(l > 0) /\ Abs(l) = -l)
      BY Literals DEF Abs
    <3> QED
      BY <2>1, <3>3, <3>4, <3>5 DEF Value
  <2>4. PICK i, j \in new : i # j
    BY <1>4, TwoElements
  <2>5. Covered(new, propagated, 0)'
    BY <2>3, <2>4 DEF Covered, Unseen
  <2>6. 0..0 - 1 = {}
    OBVIOUS
  <2>7. \A c \in DB' : c \in DB \/ (/\ \A K \in 0..0 - 1 : Covered(c, control[K + 1].trail, K)'
                                    /\ Covered(c, propagated, 0)')
    BY <2>2, <2>5, <2>6
  <2> QED
    BY <1>0, <2>1, <2>7, CoverCut
<1> QED
  BY <1>1, <1>2, <1>3, <1>4 DEF Add

LEMMA CoverStep ==
  ASSUME TypeInv, TrailInv, TypeInv', TrailInv', EntailInv, SearchInv, [Next]_vars
  PROVE  FramesCovered' /\ TrailCovered'
<1> USE DEF SearchInv
<1>0. /\ level \in Nat /\ 0 \in 0..level /\ level \in 0..level /\ UnsatInv
      /\ work \in SUBSET Lit /\ conflict \in SUBSET Lit /\ \A c \in DB : c \in SUBSET Lit
      /\ \A L \in 0..level - 1 : L < level /\ L \in 0..level
  BY TrailTypes DEF TypeInv, TypeOK, TypeDB, TypeAnalysis, DB, EntailInv
<1>1. CASE PropagateUnit
  <2>1. PICK c \in DB, l \in Lit : \E a \in 0..level : Drives(level, l, c, a)
    BY <1>0, <1>1, UnitDrives
  <2>2. PICK a \in 0..level : Drives(level, l, c, a)
    BY <2>1
  <2>3. pc \in {"steady", "propagate"} /\ DB' = DB /\ unsat' = unsat
    BY <1>1 DEF PropagateUnit, Visiting, DB, dbVars
  <2>4. Cut(level)
    BY <1>0, <2>2, DrivesCut
  <2> QED
    BY <1>0, <2>3, <2>4, CoverCut
<1>2. CASE AnalyzeForced
  <2>1. PICK l \in conflict, L \in 0..level - 1 : \E a \in 0..L : Drives(L, l, conflict, a)
    BY <1>2, ForcedDrives
  <2>2. PICK a \in 0..L : Drives(L, l, conflict, a)
    BY <2>1
  <2>3. DB' = DB /\ unsat' = unsat
    BY <1>2 DEF AnalyzeForced, DB, dbVars
  <2>4. Cut(L)
    BY <1>0, <2>2, DrivesCut
  <2> QED
    BY <1>0, <2>3, <2>4, CoverCut
<1>3. CASE StrengthenForced
  <2>0. pc = "resolve" /\ Cardinality(Open(work)) > 1 /\ unsat' = unsat
    BY <1>3 DEF StrengthenForced
  <2>1. PICK l \in work : \E f \in Antecedent(l) : \E L \in 0..level - 1 : \E a \in 0..L :
          /\ IsLatest(l, Open(work)) /\ Strengthen(l, Antecedent(l))
          /\ Drives(L, f, Antecedent(l), a)
    BY <1>3, StrengthenDrives
  <2>2. PICK s \in SUBSET Lit : s = Antecedent(l)
    BY <1>0, ResolventType
  <2>3. PICK f \in s, L \in 0..level - 1 : \E a \in 0..L : Drives(L, f, s, a)
    BY <2>1, <2>2
  <2>4. PICK a \in 0..L : Drives(L, f, s, a)
    BY <2>3
  <2>5. DB' \subseteq DB \cup {s}
    BY <2>0, <2>1, <2>2, StrengthenMemory
  <2> QED
    BY <1>0, <2>0, <2>4, <2>5, CoverDriven
<1>4. CASE Learn
  <2>1. PICK w \in SUBSET Lit : w = work
    BY <1>0
  <2>2. PICK u \in w, L \in 0..level - 1 : \E a \in 0..L : Drives(L, u, w, a)
    BY <1>4, <2>1, LearnDrives
  <2>3. PICK a \in 0..L : Drives(L, u, w, a)
    BY <2>2
  <2>4. DB' \subseteq DB \cup {w} /\ unsat' = unsat
    BY <1>4, <2>1 DEF Learn, DB
  <2> QED
    BY <1>0, <2>3, <2>4, CoverDriven
<1>5. CASE Add
  BY <1>0, <1>5, CoverAdd
<1>6. CASE AnalyzeRoot \/ ReduceUnits \/ Assume \/ Constrain
  <2>1. Backtrack(0) /\ DB' = DB
    BY <1>6 DEF AnalyzeRoot, ReduceUnits, Assume, Constrain, DB, dbVars
  <2>2. (unsat => unsat') /\ (pc \in {"steady", "propagate"} \/ unsat')
    BY <1>6 DEF AnalyzeRoot, LearnEmptyClause, ReduceUnits, Assume, Constrain, Steady,
       Reducing, Ready, Quiet
  <2> QED
    BY <1>0, <2>1, <2>2, BacktrackCut, CoverCut
<1>7. CASE AnalyzeStart
  <2>1. PICK L \in 1..level : Backtrack(L)
    BY <1>7 DEF AnalyzeStart
  <2>2. L \in 0..level /\ Analyzing' /\ DB' = DB /\ unsat' = unsat
    BY <1>0, <1>7 DEF AnalyzeStart, Analyzing, DB, dbVars
  <2> QED
    BY <2>1, <2>2, BacktrackCut, CoverCut
<1>8. CASE Restart
  <2>1. PICK L \in 0..level : Backtrack(L)
    BY <1>8, RestartLevel
  <2>2. pc \in {"steady", "propagate"} /\ DB' = DB /\ unsat' = unsat
    BY <1>8 DEF Restart, Ready, Quiet, DB, dbVars
  <2> QED
    BY <2>1, <2>2, BacktrackCut, CoverCut
<1>9. CASE Solve
  <2>1. pc \in {"steady", "propagate"} /\ DB' = DB /\ UNCHANGED <<irr, red, unsat>>
    BY <1>9 DEF Solve, Steady, DB, dbVars
  <2>2. CASE UNCHANGED assignVars
    BY <1>0, <2>1, <2>2, CoverSame DEF assignVars
  <2>3. CASE Backtrack(0)
    BY <1>0, <2>1, <2>3, BacktrackCut, CoverCut
  <2> QED
    BY <1>9, <2>2, <2>3 DEF Solve
<1>10. CASE Decide \/ DecidePseudo
  BY <1>0, <1>10, CoverDecide
<1>11. CASE Shrink
  <2>1. UNCHANGED <<val, vlevel, pos, irr, red, control>> /\ Analyzing'
    BY <1>11 DEF Shrink, KeepBlock, ShrinkBlock, ShrinkAlongReason, ShrunkenBlock,
       ShrinkingFailed, MinimizeLiteral, MinimizeRecursively, MinimizeDone,
       shrinkFrame, assignVars, dbVars, Analyzing
  <2> QED
    BY <2>1, CoverSame
<1>12. CASE Resolve \/ FirstUIP
  <2>1. UNCHANGED <<val, vlevel, pos, irr, red, control>> /\ Analyzing'
    BY <1>12 DEF Resolve, FirstUIP, assignVars, dbVars, Analyzing
  <2> QED
    BY <2>1, CoverSame
<1>13. CASE PropagateConflict \/ PropagateAdded \/ FoundModel \/ Interrupt \/ DecideFail
            \/ Failed
  <2>1. /\ UNCHANGED <<val, vlevel, pos, irr, red, control, propagated, unsat>>
        /\ pc \in {"steady", "propagate"}
    BY <1>13 DEF PropagateConflict, PropagateAdded, FoundModel, Interrupt,
       DecideFail, Failed, assignVars, dbVars, Visiting, Quiet, Ready, Steady
  <2> QED
    BY <2>1, CoverSame
<1>14. CASE PropagateFail
  <2>1. UNCHANGED <<val, vlevel, pos, irr, red, control>> /\ pc' = "analyze"
    BY <1>14 DEF PropagateFail, dbVars
  <2> QED
    BY <2>1, CoverSame
<1>15. CASE PropagateNext
  BY <1>0, <1>15, CoverNext
<1>16. CASE StrengthenContinue
  BY <1>16, CoverContinue
<1>17. CASE Reduce
  BY <1>0, <1>17, CoverReduce
<1>18. CASE UNCHANGED vars
  <2>1. UNCHANGED <<val, vlevel, pos, reason, irr, red, control, pc, propagated, unsat>>
    BY <1>18 DEF vars, assignVars, dbVars
  <2>2. pc \in {"steady", "propagate", "analyze"} \/ Analyzing
    BY DEF TypeInv, TypeOK, TypeAnalysis, Analyzing
  <2> QED
    BY <2>1, <2>2, CoverSame DEF Analyzing
<1> QED
  BY <1>1, <1>2, <1>3, <1>4, <1>5, <1>6, <1>7, <1>8, <1>9, <1>10, <1>11, <1>12, <1>13,
     <1>14, <1>15, <1>16, <1>17, <1>18
     DEF Next, User, Solver, Finished, Propagate, Analyze, Search

-----------------------------------------------------------------------------
(* What is left of the invariant of the search.                            *)

LEMMA ConflictStep ==
  ASSUME TypeInv, EntailInv, ConflictStored, [Next]_vars
  PROVE  ConflictStored'
<1> SUFFICES ASSUME pc' \in {"propagate", "analyze"}, conflict' # {}
             PROVE  conflict' \in DB'
  BY DEF ConflictStored
<1>1. CASE PropagateConflict
  BY <1>1 DEF PropagateConflict, Watching, DB, dbVars
<1>2. CASE PropagateUnit \/ PropagateNext \/ PropagateFail \/ Restart \/ ReduceUnits
           \/ Decide \/ DecidePseudo
  <2>1. /\ conflict' = conflict /\ DB' = DB /\ pc \in {"propagate", "analyze"}
    BY <1>2 DEF PropagateUnit, PropagateNext, PropagateFail, Visiting, Restart, ReduceUnits,
       Reducing, Ready, Quiet, Decide, DecidePseudo, DB, dbVars
  <2> QED
    BY <2>1 DEF ConflictStored
<1>3. CASE Reduce
  BY <1>3 DEF Reduce, Reducing, Ready, Quiet
<1>4. CASE AnalyzeForced \/ StrengthenForced \/ Learn
  BY <1>4 DEF AnalyzeForced, StrengthenForced, Learn
<1>5. CASE PropagateAdded \/ AnalyzeRoot \/ AnalyzeStart \/ Resolve \/ StrengthenContinue
           \/ FirstUIP \/ Shrink \/ FoundModel \/ Interrupt \/ DecideFail \/ Failed
           \/ Assume \/ Constrain
  BY <1>5 DEF PropagateAdded, AnalyzeRoot, AnalyzeStart, Resolve, StrengthenContinue,
     FirstUIP, Shrink, KeepBlock, ShrinkBlock, ShrinkAlongReason, ShrunkenBlock,
     ShrinkingFailed, MinimizeLiteral, MinimizeRecursively, MinimizeDone, shrinkFrame,
     FoundModel, Interrupt, DecideFail, Failed, Assume, Constrain, Steady
<1>6. CASE Add \/ Solve
  <2>1. pc = "steady" /\ conflict' = conflict /\ (pc' = "steady" \/ ~unsat)
    BY <1>6 DEF Add, Solve, Steady
  <2> QED
    BY <2>1 DEF EntailInv, ConflictInv
<1>7. CASE UNCHANGED vars
  BY <1>7 DEF vars, dbVars, DB, ConflictStored
<1> QED
  BY <1>1, <1>2, <1>3, <1>4, <1>5, <1>6, <1>7
     DEF Next, User, Solver, Finished, Propagate, Analyze, Search

LEMMA ResolutionStep ==
  ASSUME TypeInv, EntailInv, FirstResolution, [Next]_vars
  PROVE  FirstResolution'
<1> SUFFICES ASSUME pc' = "resolve", resolved' = 1
             PROVE  /\ Falsified(conflict)'
                    /\ work' = NonRoot(conflict)' /\ csize' = Cardinality(work')
  BY DEF FirstResolution
<1>1. CASE AnalyzeStart
  <2>1. PICK L \in 1..level :
          /\ IF opts.chrono THEN IsMaxLevel(L, conflict) ELSE L = level
          /\ Backtrack(L)
    BY <1>1 DEF AnalyzeStart
  <2>2. PICK c \in SUBSET Lit : c = conflict
    BY DEF TypeInv, TypeOK, TypeAnalysis
  <2>3. /\ conflict' = c /\ work' = NonRoot(c) /\ csize' = Cardinality(NonRoot(c))
        /\ Falsified(c) /\ L \in 0..level
    BY <1>1, <2>2, TrailTypes DEF AnalyzeStart, EntailInv, ConflictInv
  <2>4. \A k \in c : LevelOf(k) <= L
    BY <2>1, <2>2, LiteralTypes, TrailTypes DEF IsMaxLevel
  <2>5. ASSUME NEW k \in c
        PROVE  Value(k)' = Value(k) /\ LevelOf(k)' = LevelOf(k)
    <3>1. Abs(k) \in Kept(L) /\ k \in Lit
      BY <2>3, <2>4, FalseKept DEF Falsified
    <3> QED
      BY <2>1, <2>3, <3>1, BacktrackCut, CutLiteral
  <2>6. Falsified(c)' /\ NonRoot(c)' = NonRoot(c)
    BY <2>3, <2>5 DEF Falsified, NonRoot
  <2> QED
    BY <2>3, <2>6 DEF Falsified, NonRoot
<1>2. CASE StrengthenContinue
  <2>1. PICK l \in work :
          /\ IsLatest(l, Open(work)) /\ Strengthens(l)
          /\ conflict' = Antecedent(l) /\ work' = Antecedent(l)
          /\ csize' = Cardinality(Antecedent(l))
    BY <1>2 DEF StrengthenContinue
  <2>2. UNCHANGED <<val, vlevel>> /\ pc = "resolve"
    BY <1>2 DEF StrengthenContinue
  <2>3. /\ level > 0 /\ Falsified(work) /\ l \in Lit
    BY <2>2 DEF Analyzing, TypeInv, AboveRoot, TypeOK, TypeAnalysis, EntailInv, WorkInv
  <2>4. Falsified(Antecedent(l))
    <3>1. reason[Abs(l)] # {}
      <4>1. Cardinality({}) = 0
        BY FS_EmptySet
      <4> QED
        BY <2>1, <4>1 DEF Strengthens, Antecedent, NonRoot
    <3>2. Falsified(Resolvent(l))
      BY <2>2, <2>3, <3>1, ResolventEntailed DEF EntailInv, WorkInv, Analyzing, Falsified
    <3> QED
      BY <2>1, <3>2 DEF Strengthens
  <2>5. \A k \in Antecedent(l) : LevelOf(k) > 0
    BY DEF Antecedent, NonRoot
  <2> QED
    BY <2>1, <2>2, <2>4, <2>5 DEF Falsified, NonRoot, Value, LevelOf
<1>3. CASE Resolve
  BY <1>3 DEF Resolve
<1>4. CASE UNCHANGED vars
  <2>1. UNCHANGED <<pc, resolved, conflict, work, csize, val, vlevel>>
    BY <1>4 DEF vars, analyzeVars, assignVars
  <2> QED
    BY <2>1 DEF FirstResolution, Falsified, NonRoot, Value, LevelOf
<1>5. CASE Propagate
  BY <1>5 DEF Propagate, PropagateUnit, PropagateConflict, PropagateNext, PropagateFail,
     PropagateAdded, Visiting, Quiet
<1>6. CASE AnalyzeForced \/ AnalyzeRoot \/ StrengthenForced \/ FirstUIP \/ Learn \/ Shrink
  BY <1>6 DEF AnalyzeForced, AnalyzeRoot, StrengthenForced, FirstUIP, Learn, Shrink,
     KeepBlock, ShrinkBlock, ShrinkAlongReason, ShrunkenBlock, ShrinkingFailed,
     MinimizeLiteral, MinimizeRecursively, MinimizeDone, shrinkFrame
<1>7. CASE Search
  BY <1>7 DEF Search, FoundModel, Interrupt, Restart, ReduceUnits, Reduce, Reducing, Ready,
     Quiet, Decide, DecidePseudo, DecideFail
<1>8. CASE User
  BY <1>8 DEF User, Add, Assume, Constrain, Solve, Failed, Steady
<1> QED
  BY <1>1, <1>2, <1>3, <1>4, <1>5, <1>6, <1>7, <1>8 DEF Next, Solver, Finished, Analyze

LEMMA RootStep ==
  ASSUME TypeInv, AtRoot, [Next]_vars
  PROVE  AtRoot'
<1>0. level \in Nat /\ 0 \in 0..level
  BY TrailTypes
<1> SUFFICES ASSUME caller' # "search", pc' # "steady"
             PROVE  level' = 0
  BY DEF AtRoot
<1>1. Backtrack(0) => level' = 0
  BY <1>0, BacktrackCut DEF Cut
<1>2. ASSUME NEW l, BacktrackAssign(0, l, {}, 0)
      PROVE  level' = 0
  BY <1>0, <1>2, ControlPrefix DEF TypeInv, TypeOK, BacktrackAssign, level
<1>3. CASE Add
  BY <1>1, <1>2, <1>3 DEF Add, Steady
<1>4. CASE ReduceUnits
  BY <1>1, <1>4 DEF ReduceUnits
<1>5. CASE Solve \/ Assume \/ Constrain \/ Failed \/ Reduce
  BY <1>5 DEF Solve, Assume, Constrain, Failed, Steady, Reduce
<1>6. CASE Restart \/ Decide \/ DecidePseudo \/ DecideFail \/ FoundModel \/ Interrupt
  BY <1>6 DEF Restart, Decide, DecidePseudo, DecideFail, FoundModel, Interrupt, Ready
<1>7. CASE AnalyzeForced \/ AnalyzeStart \/ StrengthenForced \/ Learn
  <2>1. level = 0
    BY <1>7 DEF AtRoot, AnalyzeForced, AnalyzeStart, StrengthenForced, Learn
  <2>2. CASE AnalyzeStart
    BY <2>1, <2>2 DEF AnalyzeStart
  <2>3. CASE AnalyzeForced
    <3>1. PICK l \in conflict : LevelOf(l) > 0
      BY <2>3 DEF AnalyzeForced, IsForced
    <3>2. l \in Lit
      BY DEF TypeInv, TypeOK, TypeAnalysis
    <3> QED
      BY <2>1, <3>1, <3>2, LiteralTypes
  <2>4. CASE StrengthenForced \/ Learn
    BY <2>1, <2>4 DEF StrengthenForced, Learn, TypeInv, AboveRoot, Analyzing
  <2> QED
    BY <1>7, <2>2, <2>3, <2>4
<1>8. CASE PropagateUnit
  <2>0. PICK c \in Watching : \E l \in c : \E a \in 0..level :
          BacktrackAssign(level, l, c, a)
    BY <1>8 DEF PropagateUnit
  <2>1. PICK l \in c : \E a \in 0..level : BacktrackAssign(level, l, c, a)
    BY <2>0
  <2>2. level = 0
    BY <1>8 DEF PropagateUnit, Visiting, AtRoot
  <2>4. PICK a \in 0..level : BacktrackAssign(level, l, c, a)
    BY <2>1
  <2>3. level' = level
    BY <1>0, <2>4, ControlPrefix DEF TypeInv, TypeOK, BacktrackAssign, level
  <2> QED
    BY <2>2, <2>3
<1>9. CASE PropagateConflict \/ PropagateNext \/ PropagateFail \/ PropagateAdded \/ Resolve
           \/ StrengthenContinue \/ FirstUIP \/ AnalyzeRoot
  BY <1>9 DEF PropagateConflict, PropagateNext, PropagateFail, PropagateAdded, Visiting,
     Quiet, Resolve, StrengthenContinue, FirstUIP, AnalyzeRoot, AtRoot, level, assignVars
<1>10. CASE Shrink
  BY <1>10 DEF Shrink, KeepBlock, ShrinkBlock, ShrinkAlongReason, ShrunkenBlock,
     ShrinkingFailed, MinimizeLiteral, MinimizeRecursively, MinimizeDone,
     shrinkFrame, assignVars, AtRoot, level
<1>11. CASE UNCHANGED vars
  BY <1>11 DEF vars, assignVars, AtRoot, level
<1> QED
  BY <1>3, <1>4, <1>5, <1>6, <1>7, <1>8, <1>9, <1>10, <1>11
     DEF Next, User, Solver, Finished, Propagate, Analyze, Search

LEMMA SearchStep ==
  ASSUME IInv, SearchInv, IInv', [Next]_vars
  PROVE  SearchInv'
<1>1. TypeInv /\ TrailInv /\ EntailInv /\ TypeInv' /\ TrailInv'
  BY DEF IInv
<1>2. FramesCovered' /\ TrailCovered'
  BY <1>1, CoverStep
<1>3. /\ ReasonInv /\ InOrder /\ FirstResolution /\ ConflictStored /\ AtRoot
  BY DEF SearchInv
<1>4. ReasonInv' /\ InOrder' /\ ConflictStored' /\ FirstResolution' /\ AtRoot'
  BY <1>1, <1>3, ReasonStep, InOrderStep, ConflictStep, ResolutionStep, RootStep
<1> QED
  BY <1>2, <1>4 DEF SearchInv

LEMMA SearchInit == Init => SearchInv
<1> SUFFICES ASSUME Init
             PROVE  SearchInv
  OBVIOUS
<1>1. level = 0 /\ DB = {}
  BY DEF Init, level, DB
<1>2. FramesCovered /\ TrailCovered
  BY <1>1 DEF FramesCovered, TrailCovered
<1>3. ReasonInv /\ InOrder /\ ConflictStored /\ FirstResolution /\ AtRoot
  BY DEF Init, ReasonInv, InOrder, ConflictStored, FirstResolution, AtRoot
<1> QED
  BY <1>2, <1>3 DEF SearchInv

(* The inductive invariant of the search. *)
LEMMA SearchInductive == Spec => [](IInv /\ SearchInv)
<1>1. Init => SearchInv
  BY SearchInit
<1>2. IInv /\ SearchInv /\ IInv' /\ [Next]_vars => SearchInv'
  BY SearchStep
<1>3. Spec => []IInv
  BY Inductive
<1> QED
  BY <1>1, <1>2, <1>3, PTL DEF Spec

-----------------------------------------------------------------------------
(* The theorems.                                                           *)

(* No step of the solver unassigns or flips a unit of the root level, not even
   one that was assigned out of order above the root level. *)
THEOREM RootUnitsStay == Spec => RootUnitsKept
<1> DEFINE Units == \A v \in Var : val[v] # 0 /\ vlevel[v] = 0
                                   => val'[v] = val[v] /\ vlevel'[v] = 0
<1>1. IInv /\ SearchInv /\ [Next]_vars => Units
  BY RootUnitsStep DEF IInv, SearchInv
<1>2. IInv /\ SearchInv /\ [Next]_vars => [Units]_vars
  BY <1>1
<1> HIDE DEF Units
<1>3. Spec => [][Units]_vars
  BY <1>2, SearchInductive, PTL DEF Spec
<1> QED
  BY <1>3 DEF RootUnitsKept, Units

(* While the solver propagates, every reason on the trail is a clause that is
   still in memory and implies its literal from literals assigned earlier, on no
   higher level. *)
THEOREM ReasonsSound == Spec => []ReasonsImply
<1>1. IInv /\ SearchInv => ReasonsImply
  <2> SUFFICES ASSUME IInv, SearchInv, pc = "propagate", NEW v \in Var, reason[v] # {}
               PROVE  /\ LitOf(v) \in reason[v] /\ reason[v] \in DB
                      /\ Falsified(reason[v] \ {LitOf(v)})
                      /\ \A k \in reason[v] \ {LitOf(v)} : Position(k) < pos[v]
                      /\ IsMaxLevel(vlevel[v], reason[v] \ {LitOf(v)})
    BY DEF ReasonsImply
  <2>1. IsReason(reason[v], v) /\ reason[v] \in DB
    BY ProperReason DEF IInv, SearchInv, Analyzing
  <2> QED
    BY <2>1 DEF IsReason
<1> QED
  BY <1>1, SearchInductive, PTL

LEMMA PropagatedFully == IInv /\ SearchInv => PropagationComplete
<1> SUFFICES ASSUME IInv, SearchInv, Ready, NEW c \in DB, \A l \in c : ~(Value(l) > 0)
             PROVE  Cardinality({l \in c : Value(l) = 0}) > 1
  BY DEF PropagationComplete
<1>1. /\ TypeInv /\ TrailInv /\ pc = "propagate" /\ propagated = numAssigned /\ ~unsat
      /\ c \in SUBSET Lit
  BY DEF IInv, Ready, Quiet, EntailInv, UnsatInv, DB, TypeInv, TypeOK, TypeDB
<1>2. Covered(c, numAssigned, level)
  BY <1>1 DEF SearchInv, TrailCovered
<1>3. PICK k, l \in c : k # l /\ Unseen(k, numAssigned) /\ Unseen(l, numAssigned)
  BY <1>2 DEF Covered
<1>4. ASSUME NEW i \in c, Unseen(i, numAssigned)
      PROVE  Value(i) = 0
  <2>1. i \in Lit /\ Value(i) \in {-1, 0, 1}
    BY <1>1, LiteralTypes
  <2>2. Value(i) < 0 => Position(i) <= numAssigned
    BY <1>1, <2>1, LiteralTypes, TrailTypes DEF TrailInv, Positions, Position
  <2> QED
    BY <1>4, <2>1, <2>2 DEF Unseen
<1>5. PICK S \in SUBSET Lit : S = {i \in c : Value(i) = 0}
  BY <1>1
<1>6. k \in S /\ l \in S /\ Cardinality(S) \in Nat
  BY <1>3, <1>4, <1>5, CardinalityType
<1> QED
  BY <1>3, <1>5, <1>6, TwoElements

(* Whenever the main loop goes on after propagation, no clause in memory is
   falsified and none is unit, wherever backtracking left literals out of order. *)
THEOREM PropagationIsComplete == Spec => []PropagationComplete
  BY PropagatedFully, SearchInductive, PTL

-----------------------------------------------------------------------------
(* What is learned.                                                        *)

(* The invariant of the frames gives a clause two literals that are not falsified
   before the conflict level, and the learned clause has one. *)
LEMMA LearnedFresh ==
  ASSUME IInv, SearchInv, Learn, NEW c \in DB, c \subseteq work,
         \A l \in work : LevelOf(l) < level => Position(l) <= control[level].trail
  PROVE  FALSE
<1>0. /\ TypeInv /\ TrailInv /\ EntailInv /\ FramesCovered
      /\ pc = "shrink" /\ work \in SUBSET Lit /\ Falsified(work)
  BY DEF IInv, SearchInv, Learn, Analyzing, TypeInv, TypeOK, TypeAnalysis, EntailInv, WorkInv
<1>1. PICK u \in work : Open(work) = {u}
  BY DEF Learn
<1>2. level \in Nat /\ level > 0 /\ level - 1 \in 0..level - 1
  BY <1>0, <1>1, TrailTypes, LiteralTypes DEF Open, TypeInv, AboveRoot, Analyzing
<1>3. Covered(c, control[level].trail, level - 1)
  BY <1>0, <1>2 DEF FramesCovered
<1>4. \A l \in c : l \in Lit /\ Value(l) \in {-1, 0, 1} /\ Value(l) < 0
  BY <1>0, LiteralTypes DEF Falsified
<1>5. PICK k, l \in c : /\ k # l /\ Unseen(k, control[level].trail)
                       /\ Unseen(l, control[level].trail)
  BY <1>3, <1>4 DEF Covered
<1>6. ASSUME NEW i \in c, Unseen(i, control[level].trail)
      PROVE  i = u
  <2>1. i \in work /\ i \in Lit /\ LevelOf(i) \in 0..level
    BY <1>0, LiteralTypes
  <2>2. ~(LevelOf(i) < level)
    BY <1>4, <1>6, <2>1 DEF Unseen
  <2>3. LevelOf(i) = level
    BY <1>2, <2>1, <2>2
  <2> QED
    BY <1>1, <2>1, <2>3 DEF Open
<1> QED
  BY <1>5, <1>6

(* A clause that is learned is not there already, and contains none that is, as
   long as its literals below the conflict level lie before that level on the trail. *)
THEOREM LearnedNew == Spec => LearnedIsNew
<1> DEFINE New == Learn /\ (\A l \in work : LevelOf(l) < level => Position(l) <= control[level].trail)
                    => ~ \E c \in DB : c \subseteq work
<1>1. IInv /\ SearchInv => [New]_vars
  BY LearnedFresh
<1> HIDE DEF New
<1>2. Spec => [][New]_vars
  BY <1>1, SearchInductive, PTL DEF Spec
<1> QED
  BY <1>2 DEF LearnedIsNew, New

(* Without chronological backtracking levels and positions agree, so that every
   clause that is learned is new. *)
THEOREM LearnedNewInOrder == Spec => [][Learn /\ ~opts.chrono => ~ \E c \in DB : c \subseteq work]_vars
<1> DEFINE New == Learn /\ ~opts.chrono => ~ \E c \in DB : c \subseteq work
<1>1. IInv /\ SearchInv => [New]_vars
  <2> SUFFICES ASSUME IInv, SearchInv, Learn, ~opts.chrono
               PROVE  ~ \E c \in DB : c \subseteq work
    OBVIOUS
  <2>1. TypeInv /\ TrailInv /\ work \in SUBSET Lit /\ level \in Nat /\ InOrder /\ Falsified(work)
    BY TrailTypes DEF IInv, SearchInv, Learn, Analyzing, TypeInv, TypeOK, TypeAnalysis, EntailInv, WorkInv
  <2>2. ASSUME NEW l \in work, LevelOf(l) < level
        PROVE  Position(l) <= control[level].trail
    <3>1. /\ l \in Lit /\ l \in Int /\ Abs(l) \in Var /\ LevelOf(l) \in 0..level
          /\ Value(l) \in {-1, 0, 1} /\ Value(l) < 0
      BY <2>1, LiteralTypes DEF Falsified
    <3>2. val[Abs(l)] # 0
      BY <3>1, Literals DEF Value, Abs
    <3>3. level \in 1..level
      BY <2>1, <2>2, <3>1
    <3>4. vlevel[Abs(l)] < level
      BY <2>2 DEF LevelOf
    <3>5. pos[Abs(l)] <= control[level].trail
      BY <2>1, <3>1, <3>2, <3>3, <3>4 DEF InOrder
    <3> QED
      BY <3>5 DEF Position
  <2> QED
    BY <2>2, LearnedFresh
<1> HIDE DEF New
<1>2. Spec => [][New]_vars
  BY <1>1, SearchInductive, PTL DEF Spec
<1> QED
  BY <1>2 DEF New

-----------------------------------------------------------------------------
(* Irredundant clauses.                                                    *)

(* Sets of literals are finite. *)
LEMMA LiteralsFinite == \A S \in SUBSET Lit : IsFiniteSet(S)
<1> DEFINE Negated == {-v : v \in Var}
           Negate == [l \in Negated |-> -l]
<1>1. Negate \in Injection(Negated, Var)
  BY VarAssumption DEF Injection, IsInjective
<1>2. IsFiniteSet(Lit)
  BY <1>1, VarAssumption, FS_Injection, FS_Union DEF Lit
<1> QED
  BY <1>2, FS_Subset

(* Every model of the irredundant clauses and root units satisfies c. *)
Held(c) == (\E s \in irr : s \subseteq c) \/ (\E l \in c : l \in RootLiterals)

(* The root-level units stay. *)
LEMMA RootsGrow ==
  ASSUME TypeInv, TrailInv, EntailInv, InOrder, [Next]_vars
  PROVE  \A l \in RootLiterals : l \in RootLiterals'
<1> SUFFICES ASSUME NEW v \in Var, val[v] # 0, vlevel[v] = 0
             PROVE  LitOf(v) \in RootLiterals'
  BY DEF RootLiterals
<1>1. val'[v] = val[v] /\ vlevel'[v] = 0
  BY RootUnitsStep
<1>2. LitOf(v)' = LitOf(v)
  BY <1>1 DEF LitOf
<1> QED
  BY <1>1, <1>2 DEF RootLiterals

(* A true literal of the root level is one of them. *)
LEMMA RootLiteral ==
  ASSUME TypeInv, NEW l \in Lit, Fixed(l) > 0
  PROVE  l \in RootLiterals
<1>1. LevelOf(l) = 0 /\ Value(l) > 0
  BY DEF Fixed
<1>2. Abs(l) \in Var /\ val[Abs(l)] # 0 /\ LitOf(Abs(l)) = l
  BY <1>1, LiteralTypes
<1> QED
  BY <1>1, <1>2 DEF RootLiterals, LevelOf

LEMMA KernelKept ==
  ASSUME TypeInv', IrredundantSuffices, unsat => unsat',
         \A l \in RootLiterals : l \in RootLiterals',
         \A c \in irr : Held(c)',
         \A c \in orig' : c \in orig \/ unsat' \/ IsTautology(c) \/ Held(c)'
  PROVE  IrredundantSuffices'
<1> DEFINE Kernel == irr \cup {{l} : l \in RootLiterals}
<1> SUFFICES ASSUME ~unsat', NEW m \in Models(Kernel)'
             PROVE  m \in Models(orig)'
  BY DEF IrredundantSuffices
<1>1. /\ m \in [Var -> BOOLEAN]
      /\ \A c \in irr' : \E l \in c : Makes(m, l)
      /\ \A l \in RootLiterals' : Makes(m, l)
  <2>1. /\ m \in [Var -> BOOLEAN]
        /\ \A c \in irr' \cup {{l} : l \in RootLiterals'} : \E l \in c : Makes(m, l)
    BY DEF Models
  <2>2. ASSUME NEW k \in RootLiterals'
        PROVE  Makes(m, k)
    <3>1. {k} \in irr' \cup {{l} : l \in RootLiterals'}
      OBVIOUS
    <3>2. PICK i \in {k} : Makes(m, i)
      BY <2>1, <3>1
    <3> QED
      BY <3>2
  <2> QED
    BY <2>1, <2>2
<1>2. ASSUME NEW c, Held(c)'
      PROVE  \E l \in c : Makes(m, l)
  BY <1>1, <1>2 DEF Held
<1>3. m \in Models(Kernel)
  <2>1. \A c \in irr : \E l \in c : Makes(m, l)
    BY <1>2
  <2>2. \A l \in RootLiterals : \E k \in {l} : Makes(m, k)
    BY <1>1
  <2> QED
    BY <1>1, <2>1, <2>2 DEF Models
<1>4. m \in Models(orig)
  BY <1>3 DEF IrredundantSuffices
<1>5. ASSUME NEW c \in orig', IsTautology(c)
      PROVE  \E l \in c : Makes(m, l)
  <2>1. orig' \subseteq SUBSET Lit
    BY DEF TypeInv, TypeOK, TypeDB
  <2>2. PICK l \in c : -l \in c
    BY <1>5 DEF IsTautology
  <2> QED
    BY <1>1, <2>1, <2>2, Complement
<1>6. \A c \in orig' : \E l \in c : Makes(m, l)
  BY <1>2, <1>4, <1>5 DEF Models
<1> QED
  BY <1>1, <1>6 DEF Models

(* A clause that subsumes the conflict is the resolvent, all of the conflict's
   literals but the resolved one; it inherits the irredundancy of both. *)
LEMMA StrengthenHeld ==
  ASSUME TypeInv, TrailInv, EntailInv, ReasonInv, FirstResolution, pc = "resolve",
         Cardinality(Open(work)) > 1, NEW l \in work, IsLatest(l, Open(work)),
         Strengthens(l), Strengthen(l, Antecedent(l))
  PROVE  /\ \A c \in irr : \E s \in irr' : s \subseteq c
         /\ \A s \in irr' : \E c \in irr : s \subseteq c
<1> DEFINE r == reason[Abs(l)]
           s == Antecedent(l)
           subsumes == resolved = 1 /\ Cardinality(s) < csize
           gone == IF subsumes THEN {r, conflict} ELSE {r}
           irredundant == r \in irr \/ (subsumes /\ r \in red /\ conflict \in irr)
<1>1. irr' = (irr \ gone) \cup (IF irredundant THEN {s} ELSE {})
  BY DEF Strengthen
<1>2. r \in DB /\ s \subseteq r
  BY OpenReason DEF Antecedent, NonRoot
<1>3. subsumes => s \subseteq conflict
  <2> SUFFICES ASSUME subsumes
               PROVE  s \subseteq conflict
    OBVIOUS
  <2>1. work = NonRoot(conflict) /\ Cardinality(s) < Cardinality(work)
    BY DEF FirstResolution
  <2>2. /\ work \in SUBSET Lit /\ s \in SUBSET Lit /\ work \ {l} \subseteq s
        /\ work \ {l} \in SUBSET Lit
    BY LatestOpen, ResolventType DEF Strengthens, Resolvent
  <2>3. IsFiniteSet(work) /\ IsFiniteSet(s)
    BY <2>2, LiteralsFinite
  <2>4. Cardinality(work \ {l}) = Cardinality(work) - 1
    BY <2>3, FS_RemoveElement
  <2>5. s # work \ {l} => Cardinality(work \ {l}) < Cardinality(s)
    <3>1. PICK w \in SUBSET Lit, t \in SUBSET Lit : w = work \ {l} /\ t = s
      BY <2>2
    <3>2. w \in SUBSET t /\ IsFiniteSet(t) /\ Cardinality(w) \in Nat /\ Cardinality(t) \in Nat
      BY <2>2, <2>3, <3>1, CardinalityType
    <3>3. /\ Cardinality(w) <= Cardinality(t)
          /\ Cardinality(t) = Cardinality(w) => t = w
      BY <3>2, FS_Subset
    <3> QED
      BY <3>1, <3>2, <3>3
  <2>6. s = work \ {l}
    BY <2>1, <2>2, <2>4, <2>5, CardinalityType
  <2> QED
    BY <2>1, <2>6 DEF NonRoot
<1> HIDE DEF r, s, subsumes
<1>4. irredundant => \E c \in irr : s \subseteq c
  BY <1>2, <1>3
<1> HIDE DEF irredundant
<1>5. \A t \in irr' : t \in irr \/ (t = s /\ irredundant)
  BY <1>1
<1>6. \A t \in irr' : \E c \in irr : t \subseteq c
  BY <1>4, <1>5
<1>7. \A c \in irr : \E t \in irr' : t \subseteq c
  BY <1>1, <1>2, <1>3 DEF DB, irredundant
<1> QED
  BY <1>6, <1>7

LEMMA ReduceHeld ==
  ASSUME TypeInv, Reduce
  PROVE  \A c \in irr : Held(c)'
<1> SUFFICES ASSUME NEW c \in irr
             PROVE  Held(c)'
  OBVIOUS
<1>1. /\ irr' = {FlushFalse(d) : d \in {e \in irr : ~RootSatisfied(e)}}
      /\ UNCHANGED <<val, vlevel>>
  BY DEF Reduce
<1>2. CASE RootSatisfied(c)
  <2>1. PICK l \in c : Fixed(l) > 0
    BY <1>2 DEF RootSatisfied
  <2>2. l \in RootLiterals
    BY <2>1, RootLiteral DEF TypeInv, TypeOK, TypeDB
  <2>3. RootLiterals' = RootLiterals
    BY <1>1 DEF RootLiterals, LitOf
  <2> QED
    BY <2>2, <2>3 DEF Held
<1>3. CASE ~RootSatisfied(c)
  <2>1. FlushFalse(c) \in irr' /\ FlushFalse(c) \subseteq c
    BY <1>1, <1>3 DEF FlushFalse
  <2> QED
    BY <2>1 DEF Held
<1> QED
  BY <1>2, <1>3

LEMMA AddHeld ==
  ASSUME TypeInv, TrailInv, EntailInv, InOrder, Add, NEW c, c = Head(inbox)
  PROVE  unsat' \/ IsTautology(c) \/ Held(c)'
<1>0. c \in SUBSET Lit /\ 0 \in 0..level
  BY TrailTypes, HeadTailProperties DEF Add, TypeInv, TypeOK, TypeDB
<1>2. PICK new \in SUBSET Lit : new = NewLiterals(c) /\ new \subseteq c
  BY <1>0 DEF NewLiterals
<1>3. CASE RootSatisfied(c)
  <2>1. PICK l \in c : Fixed(l) > 0
    BY <1>3 DEF RootSatisfied
  <2>2. l \in RootLiterals'
    BY <1>0, <2>1, RootLiteral, RootsGrow DEF Next, User
  <2> QED
    BY <2>2 DEF Held
<1>4. CASE \E l \in new : new = {l} /\ BacktrackAssign(0, l, {}, 0)
  <2>1. PICK l \in new : BacktrackAssign(0, l, {}, 0)
    BY <1>4
  <2>2. l \in Lit
    OBVIOUS
  <2>3. Abs(l) \in Var /\ val'[Abs(l)] = Sign(l) /\ vlevel'[Abs(l)] = 0
    BY <1>0, <2>1, <2>2, BacktrackAssignEffect, Literals
  <2>4. LitOf(Abs(l))' = l /\ val'[Abs(l)] # 0
    BY <2>2, <2>3, Literals DEF LitOf, Sign, Abs
  <2>5. l \in RootLiterals'
    BY <2>3, <2>4 DEF RootLiterals
  <2> QED
    BY <1>2, <2>5 DEF Held
<1>5. CASE new \in irr'
  BY <1>2, <1>5 DEF Held
<1>6. CASE unsat' \/ IsTautology(c)
  BY <1>6
<1>7. \/ unsat' \/ IsTautology(c) \/ RootSatisfied(c)
      \/ \E l \in new : new = {l} /\ BacktrackAssign(0, l, {}, 0)
      \/ new \in irr'
  BY <1>2 DEF Add
<1> QED
  BY <1>3, <1>4, <1>5, <1>6, <1>7

LEMMA IrredundantStep ==
  ASSUME IInv, SearchInv, IInv', IrredundantSuffices, [Next]_vars
  PROVE  IrredundantSuffices'
<1>0. /\ TypeInv /\ TrailInv /\ EntailInv /\ TypeInv' /\ ReasonInv /\ FirstResolution /\ InOrder
  BY DEF IInv, SearchInv
<1>1. \A l \in RootLiterals : l \in RootLiterals'
  BY <1>0, RootsGrow
<1>2. \A c : c \in irr' => Held(c)'
  BY DEF Held
<1>3. CASE Add
  <2>0. PICK c : c = Head(inbox)
    OBVIOUS
  <2>1. /\ irr \subseteq irr' /\ orig' = orig \cup {c} /\ (unsat => unsat')
    BY <1>3, <2>0 DEF Add
  <2>2. unsat' \/ IsTautology(c) \/ Held(c)'
    BY <1>0, <1>3, <2>0, AddHeld
  <2> QED
    BY <1>0, <1>1, <1>2, <2>1, <2>2, KernelKept
<1>4. CASE Reduce
  <2>1. orig' = orig /\ unsat' = unsat
    BY <1>4 DEF Reduce
  <2>2. \A c \in irr : Held(c)'
    BY <1>0, <1>4, ReduceHeld
  <2> QED
    BY <1>0, <1>1, <2>1, <2>2, KernelKept
<1>5. CASE StrengthenContinue \/ StrengthenForced
  <2>1. orig' = orig /\ unsat' = unsat /\ pc = "resolve" /\ Cardinality(Open(work)) > 1
    BY <1>5 DEF StrengthenContinue, StrengthenForced
  <2>2. PICK l \in work : /\ IsLatest(l, Open(work)) /\ Strengthens(l)
                          /\ Strengthen(l, Antecedent(l))
    BY <1>5 DEF StrengthenContinue, StrengthenForced
  <2>3. \A c \in irr : \E s \in irr' : s \subseteq c
    BY <1>0, <2>1, <2>2, StrengthenHeld
  <2>4. \A c \in irr : Held(c)'
    BY <2>3 DEF Held
  <2> QED
    BY <1>0, <1>1, <2>1, <2>4, KernelKept
<1>6. CASE irr' = irr /\ orig' = orig /\ (unsat => unsat')
  BY <1>0, <1>1, <1>2, <1>6, KernelKept
<1>7. [Next]_vars => \/ irr' = irr /\ orig' = orig /\ (unsat => unsat')
                     \/ Add \/ Reduce \/ StrengthenContinue \/ StrengthenForced
  <2>1. Propagate => irr' = irr /\ orig' = orig /\ unsat' = unsat
    BY DEF Propagate, PropagateUnit, PropagateConflict, PropagateNext, PropagateFail,
       PropagateAdded, dbVars
  <2>2. AnalyzeForced \/ AnalyzeRoot \/ AnalyzeStart \/ Resolve \/ FirstUIP \/ Learn
          => irr' = irr /\ orig' = orig /\ (unsat => unsat')
    BY DEF AnalyzeForced, AnalyzeRoot, AnalyzeStart, Resolve, FirstUIP, Learn, dbVars,
       LearnEmptyClause
  <2>3. Shrink => irr' = irr /\ orig' = orig /\ unsat' = unsat
    BY DEF Shrink, KeepBlock, ShrinkBlock, ShrinkAlongReason, ShrunkenBlock,
       ShrinkingFailed, MinimizeLiteral, MinimizeRecursively, MinimizeDone, shrinkFrame, dbVars
  <2>4. FoundModel \/ Interrupt \/ Restart \/ ReduceUnits \/ Decide \/ DecidePseudo \/ DecideFail
          => irr' = irr /\ orig' = orig /\ unsat' = unsat
    BY DEF FoundModel, Interrupt, Restart, ReduceUnits, Decide, DecidePseudo, DecideFail, dbVars
  <2>5. Assume \/ Constrain \/ Solve \/ Failed => irr' = irr /\ orig' = orig /\ unsat' = unsat
    BY DEF Assume, Constrain, Solve, Failed, dbVars
  <2>6. UNCHANGED vars => irr' = irr /\ orig' = orig /\ unsat' = unsat
    BY DEF vars, dbVars
  <2> QED
    BY <2>1, <2>2, <2>3, <2>4, <2>5, <2>6
       DEF Next, User, Solver, Finished, Analyze, Search
<1> QED
  BY <1>3, <1>4, <1>5, <1>6, <1>7

LEMMA IrredundantInit == Init => IrredundantSuffices
  BY DEF Init, IrredundantSuffices, Models

-----------------------------------------------------------------------------
(* The levels of the assumptions and of the constraint.                    *)

(* The i-th level is the one of the i-th assumption: the assumption is true on
   it, and the level's decision, if it has one. *)
AssumptionsDecided ==
  \A i \in 1..Len(assumptions) : i <= level =>
    /\ Value(assumptions[i]) > 0 /\ LevelOf(assumptions[i]) <= i
    /\ control[i].decision \in {0, assumptions[i]}

(* The level after the assumptions' is the one of the constraint. *)
ConstraintDecided ==
  level > Len(assumptions) /\ constraint # {} =>
    \E l \in constraint : Value(l) > 0 /\ LevelOf(l) <= Len(assumptions) + 1

(* Assumptions and constraint stay during a call, are dropped with its end, or
   the user changes them on the root level. *)
LEMMA QuestionsStay ==
  ASSUME TypeInv, [Next]_vars
  PROVE  \/ UNCHANGED <<assumptions, constraint>>
         \/ assumptions' = <<>> /\ constraint' = {}
         \/ level' = 0
<1>1. 0 \in 0..level /\ TypeAssign
  BY TrailTypes DEF TypeInv, TypeOK
<1>2. \A l, c, a : Backtrack(0) \/ BacktrackAssign(0, l, c, a) => level' = 0
  <2>1. Len(SubSeq(control, 1, 0)) = 0
    BY <1>1, ControlPrefix
  <2> QED
    BY <2>1 DEF Backtrack, BacktrackAssign, level
<1>3. Add \/ Assume \/ Constrain => level' = 0
  BY <1>2 DEF Add, Assume, Constrain
<1>4. Solve \/ Failed => \/ UNCHANGED <<assumptions, constraint>>
                         \/ assumptions' = <<>> /\ constraint' = {}
  BY DEF Solve, Failed, Leave, ResetUser, userVars
<1>5. Propagate \/ Analyze \/ Shrink => UNCHANGED <<assumptions, constraint>>
  BY DEF Propagate, PropagateUnit, PropagateConflict, PropagateNext, PropagateFail,
     PropagateAdded, Analyze, AnalyzeForced, AnalyzeRoot, AnalyzeStart, Resolve,
     StrengthenContinue, StrengthenForced, FirstUIP, Learn, Shrink, KeepBlock,
     ShrinkBlock, ShrinkAlongReason, ShrunkenBlock, ShrinkingFailed, MinimizeLiteral,
     MinimizeRecursively, MinimizeDone, shrinkFrame, userVars
<1>6. Search => \/ UNCHANGED <<assumptions, constraint>>
                \/ assumptions' = <<>> /\ constraint' = {}
  BY DEF Search, FoundModel, Interrupt, Restart, ReduceUnits, Reduce, Decide,
     DecidePseudo, DecideFail, ResetUser, userVars
<1>7. UNCHANGED vars => UNCHANGED <<assumptions, constraint>>
  BY DEF vars, userVars
<1> QED
  BY <1>3, <1>4, <1>5, <1>6, <1>7 DEF Next, User, Solver, Finished

LEMMA QuestionTypes ==
  ASSUME TypeInv
  PROVE  /\ Len(assumptions) \in Nat /\ constraint \in SUBSET Lit
         /\ \A i \in 1..Len(assumptions) : assumptions[i] \in Lit
  BY DEF TypeInv, TypeOK, TypeUser

(* Cutting the trail at level L leaves the levels up to L as they are. *)
LEMMA QuestionsCut ==
  ASSUME TypeInv, AssumptionsDecided, ConstraintDecided, NEW L \in 0..level, Cut(L),
         UNCHANGED <<assumptions, constraint>>
  PROVE  AssumptionsDecided' /\ ConstraintDecided'
<1>1. /\ level' = L /\ L \in Nat /\ level \in Nat /\ L <= level
      /\ \A k \in 1..L : control'[k] = control[k]
  BY TrailTypes DEF Cut
<1>2. ASSUME NEW k \in Lit, Value(k) > 0, LevelOf(k) <= L
      PROVE  Value(k)' > 0 /\ LevelOf(k)' = LevelOf(k)
  <2>1. Abs(k) \in Kept(L)
    BY <1>2, StaysBelow
  <2> QED
    BY <1>2, <2>1, CutLiteral
<1>3. ASSUME NEW i \in 1..Len(assumptions), i <= L
      PROVE  \A k \in Lit : k = assumptions[i] =>
               Value(k)' > 0 /\ LevelOf(k)' <= i /\ control'[i].decision \in {0, k}
  <2> SUFFICES ASSUME NEW k \in Lit, k = assumptions[i]
               PROVE  Value(k)' > 0 /\ LevelOf(k)' <= i /\ control'[i].decision \in {0, k}
    OBVIOUS
  <2>1. Value(k) > 0 /\ LevelOf(k) <= i /\ control[i].decision \in {0, k} /\ i \in 1..L
    BY <1>1, <1>3, QuestionTypes DEF AssumptionsDecided
  <2>2. LevelOf(k) <= L
    BY <1>1, <1>3, <2>1, LiteralTypes, QuestionTypes
  <2> QED
    BY <1>1, <1>2, <2>1, <2>2
<1>4. AssumptionsDecided'
  <2> SUFFICES ASSUME NEW i \in 1..Len(assumptions'), i <= level'
               PROVE  (Value(assumptions[i]) > 0 /\ LevelOf(assumptions[i]) <= i
                       /\ control[i].decision \in {0, assumptions[i]})'
    BY DEF AssumptionsDecided
  <2>1. i \in 1..Len(assumptions) /\ assumptions'[i] = assumptions[i] /\ i <= L
    BY <1>1
  <2>2. PICK k \in Lit : k = assumptions[i]
    BY <2>1, QuestionTypes
  <2>3. i' = i
    OBVIOUS
  <2> QED
    BY <1>3, <2>1, <2>2 DEF Value, LevelOf
<1>5. ConstraintDecided'
  <2> SUFFICES ASSUME L > Len(assumptions), constraint # {}
               PROVE  \E l \in constraint : Value(l)' > 0 /\ LevelOf(l)' <= Len(assumptions) + 1
    BY <1>1 DEF ConstraintDecided
  <2>1. PICK l \in constraint : Value(l) > 0 /\ LevelOf(l) <= Len(assumptions) + 1
    BY <1>1, QuestionTypes DEF ConstraintDecided
  <2>2. l \in Lit /\ LevelOf(l) <= L
    BY <1>1, <2>1, QuestionTypes, LiteralTypes
  <2> QED
    BY <1>2, <2>1, <2>2
<1> QED
  BY <1>4, <1>5

(* A new level is the one of the next assumption or of the constraint, if some
   assumption or the constraint has none yet. *)
LEMMA QuestionsDecide ==
  ASSUME TypeInv, AssumptionsDecided, ConstraintDecided, Decide \/ DecidePseudo
  PROVE  AssumptionsDecided' /\ ConstraintDecided'
<1>1. /\ UNCHANGED <<assumptions, constraint>> /\ level \in Nat
      /\ \/ DecidePseudo
         \/ \E l \in Lit : MayDecide(l) /\ Decision(l)
  BY TrailTypes DEF Decide, DecidePseudo, userVars
<1>2. PICK d \in Lit \cup {0} :
        /\ level' = level + 1 /\ \A k \in 1..level : control'[k] = control[k]
        /\ control'[level + 1].decision = d
        /\ \A k \in Lit : Value(k) > 0 => Value(k)' > 0 /\ LevelOf(k)' = LevelOf(k)
        /\ level < Len(assumptions) =>
             /\ d \in {0, NextAssumption}
             /\ \A k \in Lit : k = NextAssumption => Value(k)' > 0 /\ LevelOf(k)' <= level + 1
        /\ OnConstraint => \E k \in constraint : Value(k)' > 0 /\ LevelOf(k)' <= level + 1
  <2>1. CASE DecidePseudo
    <3>1. /\ level' = level + 1 /\ \A k \in 1..level : control'[k] = control[k]
          /\ control'[level + 1].decision = 0
          /\ UNCHANGED <<val, vlevel>>
      BY <2>1, PseudoEffect DEF DecidePseudo
    <3>2. \A k \in Lit : /\ Value(k)' = Value(k) /\ LevelOf(k)' = LevelOf(k)
                         /\ LevelOf(k) <= level + 1
      BY <1>1, <3>1, LiteralTypes DEF Value, LevelOf
    <3>3. \/ level < Len(assumptions) /\ Value(NextAssumption) > 0
          \/ OnConstraint /\ \E k \in constraint : Value(k) > 0
      BY <2>1 DEF DecidePseudo
    <3>4. OnConstraint => level = Len(assumptions)
      BY DEF OnConstraint
    <3>5. \A k \in constraint : k \in Lit
      BY QuestionTypes
    <3> QED
      BY <3>1, <3>2, <3>3, <3>4, <3>5, <1>1, QuestionTypes
  <2>2. CASE \E l \in Lit : MayDecide(l) /\ Decision(l)
    <3>1. PICK l \in Lit : MayDecide(l) /\ Decision(l)
      BY <2>2
    <3>2. Value(l) = 0
      BY <3>1 DEF MayDecide
    <3>3. /\ level' = level + 1 /\ \A k \in 1..level : control'[k] = control[k]
          /\ control'[level + 1].decision = l
          /\ val'[Abs(l)] = Sign(l) /\ vlevel'[Abs(l)] = level + 1
          /\ \A v \in Var \ {Abs(l)} : val'[v] = val[v] /\ vlevel'[v] = vlevel[v]
      BY <3>1, <3>2, DecisionEffect
    <3>4. Value(l)' > 0 /\ LevelOf(l)' = level + 1
      BY <3>3, Literals DEF Value, LevelOf, Sign, Abs
    <3>5. ASSUME NEW k \in Lit, Value(k) > 0
          PROVE  Value(k)' > 0 /\ LevelOf(k)' = LevelOf(k)
      <4>1. Abs(k) # Abs(l) /\ Abs(k) \in Var
        <5>1. val[Abs(k)] # 0 /\ val[Abs(l)] = 0
          BY <3>2, <3>5, LiteralTypes
        <5> QED
          BY <5>1, LiteralTypes
      <4>2. val'[Abs(k)] = val[Abs(k)] /\ vlevel'[Abs(k)] = vlevel[Abs(k)]
        BY <3>3, <4>1
      <4> QED
        BY <3>5, <4>2, SameValue
    <3>6. level < Len(assumptions) => l = NextAssumption
      BY <3>1 DEF MayDecide
    <3>7. OnConstraint => l \in constraint
      BY <1>1, <3>1, QuestionTypes DEF MayDecide, OnConstraint
    <3> QED
      BY <1>1, <3>3, <3>4, <3>5, <3>6, <3>7
  <2> QED
    BY <1>1, <2>1, <2>2
<1>3. AssumptionsDecided'
  <2> SUFFICES ASSUME NEW i \in 1..Len(assumptions'), i <= level'
               PROVE  (Value(assumptions[i]) > 0 /\ LevelOf(assumptions[i]) <= i
                       /\ control[i].decision \in {0, assumptions[i]})'
    BY DEF AssumptionsDecided
  <2>1. /\ i \in 1..Len(assumptions) /\ assumptions'[i] = assumptions[i]
        /\ i \in 1..level \/ i = level + 1
    BY <1>1, <1>2
  <2>2. PICK k \in Lit : k = assumptions[i]
    BY <2>1, QuestionTypes
  <2>3. CASE i = level + 1
    <3>1. level < Len(assumptions) /\ k = NextAssumption
      BY <1>1, <2>1, <2>2, <2>3, QuestionTypes DEF NextAssumption
    <3>2. Value(k)' > 0 /\ LevelOf(k)' <= i /\ control'[i].decision \in {0, k}
      BY <1>2, <2>3, <3>1
    <3> QED
      BY <2>1, <2>2, <3>2 DEF Value, LevelOf
  <2>4. CASE i \in 1..level
    <3>1. Value(k) > 0 /\ LevelOf(k) <= i /\ control[i].decision \in {0, k}
      BY <2>1, <2>2, <2>4, <1>1 DEF AssumptionsDecided
    <3>2. Value(k)' > 0 /\ LevelOf(k)' <= i /\ control'[i].decision \in {0, k}
      BY <1>2, <2>4, <3>1
    <3> QED
      BY <2>1, <2>2, <3>2 DEF Value, LevelOf
  <2> QED
    BY <2>1, <2>3, <2>4
<1>4. ConstraintDecided'
  <2> SUFFICES ASSUME level + 1 > Len(assumptions), constraint # {}
               PROVE  \E l \in constraint : Value(l)' > 0 /\ LevelOf(l)' <= Len(assumptions) + 1
    BY <1>1, <1>2 DEF ConstraintDecided
  <2>1. CASE level > Len(assumptions)
    <3>1. PICK l \in constraint : Value(l) > 0 /\ LevelOf(l) <= Len(assumptions) + 1
      BY <2>1 DEF ConstraintDecided
    <3> QED
      BY <1>2, <3>1, QuestionTypes
  <2>2. CASE level = Len(assumptions)
    BY <1>2, <2>2 DEF OnConstraint
  <2> QED
    BY <1>1, <2>1, <2>2, QuestionTypes
<1> QED
  BY <1>3, <1>4

LEMMA QuestionsStep ==
  ASSUME TypeInv, TrailInv, EntailInv, InOrder, TypeInv', AssumptionsDecided,
         ConstraintDecided, [Next]_vars
  PROVE  AssumptionsDecided' /\ ConstraintDecided'
<1>1. /\ Len(assumptions) \in Nat /\ Len(assumptions') \in Nat
      /\ level \in Nat
  BY QuestionTypes, TrailTypes DEF TypeInv, TypeOK, TypeUser
<1>2. CASE level' = 0
  BY <1>1, <1>2 DEF AssumptionsDecided, ConstraintDecided
<1>3. CASE assumptions' = <<>> /\ constraint' = {}
  BY <1>3 DEF AssumptionsDecided, ConstraintDecided
<1>4. CASE UNCHANGED <<assumptions, constraint>>
  <2>1. CASE UNCHANGED <<val, vlevel, pos, control>>
    BY <1>4, <2>1 DEF AssumptionsDecided, ConstraintDecided, Value, LevelOf, level
  <2>2. ASSUME NEW L \in 0..level, Cut(L)
        PROVE  AssumptionsDecided' /\ ConstraintDecided'
    BY <1>4, <2>2, QuestionsCut
  <2>3. CASE \E L \in 0..level : Backtrack(L)
    BY <2>2, <2>3, BacktrackCut
  <2>4. CASE \E L \in 0..level : \E u \in Lit : \E c \in SUBSET Lit : \E a \in 0..L :
               Drives(L, u, c, a)
    BY <2>2, <2>4, DrivesCut
  <2>5. CASE Decide \/ DecidePseudo
    BY <2>5, QuestionsDecide
  <2> QED
    BY <2>1, <2>3, <2>4, <2>5, TrailMoves
<1> QED
  BY <1>2, <1>3, <1>4, QuestionsStay

-----------------------------------------------------------------------------
(* Models.                                                                 *)

(* The variables of the clauses are in use. *)
InUse == \A c \in irr \cup orig : \A l \in c : Abs(l) <= maxVar

(* There is an answer between two calls only. *)
Answered == result # 0 => pc = "steady"

(* Irredundant clauses are new or part of an older one. *)
LEMMA IrredundantOrigin ==
  ASSUME IInv, SearchInv, [Next]_vars
  PROVE  \/ /\ orig' = orig /\ maxVar' = maxVar
            /\ \A s \in irr' : \E c \in irr : s \subseteq c
         \/ \E c \in SUBSET Lit : /\ orig' = orig \cup {c} /\ InitVars(c)
                                  /\ \A s \in irr' : s \in irr \/ s \subseteq c
         \/ \E c \in SUBSET Lit : InitVars(c) /\ orig' = orig /\ irr' = irr
<1>0. /\ TypeInv /\ TrailInv /\ EntailInv /\ ReasonInv /\ FirstResolution
  BY DEF IInv, SearchInv
<1>1. CASE Add
  <2>1. PICK c \in SUBSET Lit : c = Head(inbox)
    BY <1>0, <1>1, HeadTailProperties DEF Add, TypeInv, TypeOK, TypeDB
  <2>2. NewLiterals(c) \subseteq c
    BY DEF NewLiterals
  <2>3. irr' = irr \/ irr' = irr \cup {NewLiterals(c)}
    BY <1>1, <2>1 DEF Add
  <2>4. orig' = orig \cup {c} /\ InitVars(c)
    BY <1>1, <2>1 DEF Add
  <2> QED
    BY <2>2, <2>3, <2>4
<1>2. CASE Reduce
  <2>1. /\ irr' = {FlushFalse(c) : c \in {d \in irr : ~RootSatisfied(d)}}
        /\ orig' = orig /\ maxVar' = maxVar
    BY <1>2 DEF Reduce
  <2>2. \A c : FlushFalse(c) \subseteq c
    BY DEF FlushFalse
  <2> QED
    BY <2>1, <2>2
<1>3. CASE StrengthenContinue \/ StrengthenForced
  <2>1. orig' = orig /\ maxVar' = maxVar /\ pc = "resolve" /\ Cardinality(Open(work)) > 1
    BY <1>3 DEF StrengthenContinue, StrengthenForced
  <2>2. PICK l \in work : /\ IsLatest(l, Open(work)) /\ Strengthens(l)
                          /\ Strengthen(l, Antecedent(l))
    BY <1>3 DEF StrengthenContinue, StrengthenForced
  <2> QED
    BY <1>0, <2>1, <2>2, StrengthenHeld
<1>4. CASE Assume \/ Constrain
  <2>1. \A l \in Assumable : {l} \in SUBSET Lit
    BY UserAssumption
  <2>2. \A c \in Constraints : c \in SUBSET Lit
    BY UserAssumption
  <2>3. Assume => \E c \in SUBSET Lit : InitVars(c)
    BY <2>1 DEF Assume
  <2>4. Constrain => \E c \in SUBSET Lit : InitVars(c)
    BY <2>2 DEF Constrain
  <2> QED
    BY <1>4, <2>3, <2>4 DEF Assume, Constrain
<1>5. CASE UNCHANGED <<irr, orig, maxVar>>
  BY <1>5
<1>6. [Next]_vars => \/ UNCHANGED <<irr, orig, maxVar>>
                     \/ Add \/ Reduce \/ StrengthenContinue \/ StrengthenForced
                     \/ Assume \/ Constrain
  <2>1. Propagate => UNCHANGED <<irr, orig, maxVar>>
    BY DEF Propagate, PropagateUnit, PropagateConflict, PropagateNext, PropagateFail,
       PropagateAdded, dbVars
  <2>2. AnalyzeForced \/ AnalyzeRoot \/ AnalyzeStart \/ Resolve \/ FirstUIP \/ Learn
          => UNCHANGED <<irr, orig, maxVar>>
    BY DEF AnalyzeForced, AnalyzeRoot, AnalyzeStart, Resolve, FirstUIP, Learn, dbVars
  <2>3. Shrink => UNCHANGED <<irr, orig, maxVar>>
    BY DEF Shrink, KeepBlock, ShrinkBlock, ShrinkAlongReason, ShrunkenBlock,
       ShrinkingFailed, MinimizeLiteral, MinimizeRecursively, MinimizeDone, shrinkFrame, dbVars
  <2>4. FoundModel \/ Interrupt \/ Restart \/ ReduceUnits \/ Decide \/ DecidePseudo \/ DecideFail
          => UNCHANGED <<irr, orig, maxVar>>
    BY DEF FoundModel, Interrupt, Restart, ReduceUnits, Decide, DecidePseudo, DecideFail, dbVars
  <2>5. Solve \/ Failed => UNCHANGED <<irr, orig, maxVar>>
    BY DEF Solve, Failed, dbVars
  <2>6. UNCHANGED vars => UNCHANGED <<irr, orig, maxVar>>
    BY DEF vars, dbVars
  <2> QED
    BY <2>1, <2>2, <2>3, <2>4, <2>5, <2>6
       DEF Next, User, Solver, Finished, Analyze, Search
<1> QED
  BY <1>1, <1>2, <1>3, <1>4, <1>5, <1>6

LEMMA InUseStep ==
  ASSUME IInv, SearchInv, InUse, [Next]_vars
  PROVE  InUse'
<1>0. /\ maxVar \in Int /\ \A c \in irr \cup orig : c \subseteq Lit
      /\ \A l \in Lit : Abs(l) \in Int
  BY Literals, VarAssumption DEF IInv, TypeInv, TypeOK, TypeDB
<1>1. CASE /\ orig' = orig /\ maxVar' = maxVar
           /\ \A s \in irr' : \E c \in irr : s \subseteq c
  BY <1>0, <1>1 DEF InUse
<1>2. ASSUME NEW c \in SUBSET Lit, InitVars(c)
      PROVE  /\ maxVar' \in Int /\ maxVar' >= maxVar /\ \A l \in c : maxVar' >= Abs(l)
  BY <1>0, <1>2 DEF InitVars
<1>3. ASSUME NEW c \in SUBSET Lit, InitVars(c), orig' = orig \cup {c} \/ orig' = orig,
             \A s \in irr' : s \in irr \/ s \subseteq c
      PROVE  InUse'
  BY <1>0, <1>2, <1>3 DEF InUse
<1> QED
  BY <1>1, <1>3, IrredundantOrigin

LEMMA AnsweredStep ==
  ASSUME Answered, [Next]_vars
  PROVE  Answered'
<1>1. User => Answered'
  BY DEF Answered, User, Add, Assume, Constrain, Solve, Failed, Steady
<1>2. Propagate \/ Analyze => Answered'
  BY DEF Answered, Propagate, PropagateUnit, PropagateConflict, PropagateNext,
     PropagateFail, PropagateAdded, Visiting, Quiet, Analyze, AnalyzeForced, AnalyzeRoot,
     AnalyzeStart, Resolve, StrengthenContinue, StrengthenForced, FirstUIP, Learn
<1>3. Shrink => Answered'
  BY DEF Answered, Shrink, KeepBlock, ShrinkBlock, ShrinkAlongReason, ShrunkenBlock,
     ShrinkingFailed, MinimizeLiteral, MinimizeRecursively, MinimizeDone, shrinkFrame
<1>4. Search => Answered'
  BY DEF Answered, Search, FoundModel, Interrupt, Restart, ReduceUnits, Reduce, Decide,
     DecidePseudo, DecideFail, Reducing, Ready, Quiet
<1>5. UNCHANGED vars => Answered'
  BY DEF Answered, vars
<1> QED
  BY <1>1, <1>2, <1>3, <1>4, <1>5 DEF Next, Solver, Finished

(* When every variable in use is assigned and propagation is complete, the
   assignment satisfies what the user added and asks. *)
LEMMA ModelFound ==
  ASSUME IInv, SearchInv, IrredundantSuffices, AssumptionsDecided, ConstraintDecided, InUse,
         Ready, Satisfied
  PROVE  /\ \A c \in orig : \E l \in c : Value(l) > 0
         /\ \A i \in DOMAIN assumptions : Value(assumptions[i]) > 0
         /\ constraint # {} => \E l \in constraint : Value(l) > 0
<1> DEFINE m == [v \in Var |-> val[v] > 0]
<1>0. /\ TypeInv /\ ~unsat /\ PropagationComplete /\ maxVar \in Int /\ level \in Nat
      /\ orig \subseteq SUBSET Lit /\ irr \subseteq SUBSET Lit
      /\ DOMAIN assumptions = 1..Len(assumptions) /\ Len(assumptions) \in Nat
  <2>1. TypeInv /\ ~unsat /\ PropagationComplete
    BY PropagatedFully DEF IInv, EntailInv, UnsatInv, Ready, Quiet
  <2>2. level \in Nat
    BY <2>1, TrailTypes
  <2>3. /\ maxVar \in Int /\ orig \subseteq SUBSET Lit /\ irr \subseteq SUBSET Lit
        /\ DOMAIN assumptions = 1..Len(assumptions) /\ Len(assumptions) \in Nat
    BY <2>1, VarAssumption, LenProperties DEF TypeInv, TypeOK, TypeDB, TypeUser
  <2> QED
    BY <2>1, <2>2, <2>3
<1>1. \A c \in irr \cup orig : \A l \in c : l \in Lit /\ Value(l) # 0
  <2> SUFFICES ASSUME NEW c \in irr \cup orig, NEW l \in c
               PROVE  l \in Lit /\ Value(l) # 0
    OBVIOUS
  <2>1. l \in Lit /\ Abs(l) \in Var /\ Abs(l) <= maxVar
    BY <1>0, Literals DEF InUse
  <2> QED
    BY <1>0, <2>1, LiteralTypes DEF Satisfied
<1>2. ASSUME NEW l \in Lit, Value(l) # 0
      PROVE  Makes(m, l) <=> Value(l) > 0
  <2>1. Value(l) \in {-1, 0, 1} /\ Abs(l) \in Var /\ val[Abs(l)] \in {-1, 0, 1}
    BY <1>0, LiteralTypes, TrailTypes
  <2>2. (l > 0 /\ Abs(l) = l) \/ (l < 0 /\ Abs(l) = -l /\ ~(l > 0))
    BY Literals DEF Abs
  <2>3. m[Abs(l)] <=> val[Abs(l)] > 0
    BY <2>1
  <2> HIDE DEF m
  <2>4. CASE l > 0 /\ Abs(l) = l
    <3>1. Value(l) = val[Abs(l)] /\ (Makes(m, l) <=> m[Abs(l)])
      BY <2>4 DEF Value, Makes
    <3> QED
      BY <2>3, <3>1
  <2>5. CASE l < 0 /\ Abs(l) = -l /\ ~(l > 0)
    <3>1. Value(l) = -val[Abs(l)]
      BY <2>5 DEF Value
    <3>2. Makes(m, l) <=> ~m[Abs(l)]
      BY <2>5 DEF Makes
    <3>3. ~(val[Abs(l)] > 0) <=> Value(l) > 0
      BY <1>2, <2>1, <3>1
    <3> QED
      BY <2>3, <3>2, <3>3
  <2> QED
    BY <2>2, <2>4, <2>5
<1> HIDE DEF m
<1>3. \A c \in irr : \E l \in c : Makes(m, l)
  <2> SUFFICES ASSUME NEW c \in irr
               PROVE  \E l \in c : Makes(m, l)
    OBVIOUS
  <2>1. {l \in c : Value(l) = 0} = {}
    BY <1>1
  <2>2. ~(Cardinality({l \in c : Value(l) = 0}) > 1)
    BY <2>1, FS_EmptySet
  <2>3. \E l \in c : Value(l) > 0
    BY <1>0, <2>2 DEF PropagationComplete, DB
  <2> QED
    BY <1>1, <1>2, <2>3
<1>4. \A l \in RootLiterals : Makes(m, l)
  <2> SUFFICES ASSUME NEW v \in Var, val[v] # 0
               PROVE  Makes(m, LitOf(v))
    BY DEF RootLiterals
  <2>1. LitOf(v) \in Lit /\ Value(LitOf(v)) > 0
    BY <1>0, LitOfTypes
  <2>2. Value(LitOf(v)) # 0
    BY <1>0, <2>1, LiteralTypes
  <2> QED
    BY <1>2, <2>1, <2>2
<1>5. m \in Models(orig)
  <2>1. m \in [Var -> BOOLEAN]
    BY DEF m
  <2>2. \A l \in RootLiterals : \E k \in {l} : Makes(m, k)
    BY <1>4
  <2>3. m \in Models(irr \cup {{l} : l \in RootLiterals})
    BY <1>3, <2>1, <2>2 DEF Models
  <2> QED
    BY <1>0, <2>3 DEF IrredundantSuffices
<1>6. \A c \in orig : \E l \in c : Value(l) > 0
  BY <1>1, <1>2, <1>5 DEF Models
<1>7. level >= Len(assumptions) /\ (constraint # {} => level > Len(assumptions))
  BY <1>0 DEF Satisfied
<1>8. \A i \in DOMAIN assumptions : Value(assumptions[i]) > 0
  BY <1>0, <1>7 DEF AssumptionsDecided
<1>9. constraint # {} => \E l \in constraint : Value(l) > 0
  BY <1>7 DEF ConstraintDecided
<1> QED
  BY <1>6, <1>8, <1>9

LEMMA ModelStep ==
  ASSUME IInv, SearchInv, IrredundantSuffices, AssumptionsDecided, ConstraintDecided, InUse,
         Answered, ModelSound, [Next]_vars
  PROVE  ModelSound'
<1>1. CASE FoundModel
  <2>1. /\ Ready /\ Satisfied
        /\ UNCHANGED <<orig, assumptions, constraint, val>>
    BY <1>1 DEF FoundModel, dbVars, assignVars, userVars
  <2>2. /\ \A c \in orig : \E l \in c : Value(l) > 0
        /\ \A i \in DOMAIN assumptions : Value(assumptions[i]) > 0
        /\ constraint # {} => \E l \in constraint : Value(l) > 0
    BY <2>1, ModelFound
  <2> QED
    BY <2>1, <2>2 DEF ModelSound, Value
<1>2. CASE result' = 10 => result = 10 /\ UNCHANGED <<orig, assumptions, constraint, val>>
  BY <1>2 DEF ModelSound, Value
<1>3. User => result' # 10
  BY DEF User, Add, Assume, Constrain, Solve, Failed
<1>4. Propagate \/ Analyze => result' # 10
  BY DEF Answered, Propagate, PropagateUnit, PropagateConflict, PropagateNext,
     PropagateFail, PropagateAdded, Visiting, Quiet, Analyze, AnalyzeForced, AnalyzeRoot,
     AnalyzeStart, Resolve, StrengthenContinue, StrengthenForced, FirstUIP, Learn
<1>5. Shrink => result' # 10
  BY DEF Answered, Shrink, KeepBlock, ShrinkBlock, ShrinkAlongReason, ShrunkenBlock,
     ShrinkingFailed, MinimizeLiteral, MinimizeRecursively, MinimizeDone, shrinkFrame
<1>6. Search => FoundModel \/ result' # 10
  BY DEF Answered, Search, Interrupt, Restart, ReduceUnits, Reduce, Decide, DecidePseudo,
     DecideFail, Reducing, Ready, Quiet
<1>7. UNCHANGED vars => result' = result /\ UNCHANGED <<orig, assumptions, constraint, val>>
  BY DEF vars, dbVars, assignVars, userVars
<1> QED
  BY <1>1, <1>2, <1>3, <1>4, <1>5, <1>6, <1>7 DEF Next, Solver, Finished

-----------------------------------------------------------------------------
(* Failed assumptions.                                                     *)

Assumed == {assumptions[i] : i \in DOMAIN assumptions}
TrueLiterals == {l \in Lit : Value(l) > 0}

(* A non-empty set of natural numbers has a smallest element. *)
LEMMA Smallest ==
  ASSUME NEW S \in SUBSET Nat, S # {}
  PROVE  \E n \in S : \A k \in S : n <= k
<1> DEFINE R == OpToRel(<, Nat)
<1>1. IsWellFoundedOn(R, Nat)
  BY NatLessThanWellFounded
<1>2. \A j, k \in Nat : j < k => <<j, k>> \in R
  BY DEF OpToRel
<1> HIDE DEF R
<1>3. PICK n \in S : \A k \in S : ~ (<<k, n>> \in R)
  BY <1>1, WFMin
<1>4. \A k \in S : k \in Nat /\ n \in Nat
  OBVIOUS
<1>5. \A k \in S : ~(k < n)
  BY <1>2, <1>3, <1>4, Zenon
<1> QED
  BY <1>4, <1>5

(* On the levels of the assumptions, a decision is one. *)
LEMMA DecisionAssumed ==
  ASSUME TypeInv, TrailInv, AssumptionsDecided, level <= Len(assumptions),
         NEW l \in TrueLiterals, LevelOf(l) > 0, reason[Abs(l)] = {}
  PROVE  l \in Assumed
<1>1. /\ l \in Lit /\ Value(l) > 0 /\ Abs(l) \in Var /\ LitOf(Abs(l)) = l
      /\ LevelOf(l) \in 0..level /\ level \in Nat /\ l # 0
  BY LiteralTypes, TrailTypes, Literals DEF TrueLiterals
<1>2. control[LevelOf(l)].decision = l
  BY <1>1 DEF TrailInv, OnlyDecisions, LevelOf
<1>3. /\ LevelOf(l) \in 1..Len(assumptions) /\ LevelOf(l) <= level
      /\ DOMAIN assumptions = 1..Len(assumptions)
  BY <1>1, LenProperties DEF TypeInv, TypeOK, TypeUser
<1>4. assumptions[LevelOf(l)] = l
  BY <1>1, <1>2, <1>3 DEF AssumptionsDecided
<1> QED
  BY <1>3, <1>4 DEF Assumed

(* What implies a true literal is true, and was assigned before it. *)
LEMMA TrueAntecedents ==
  ASSUME TypeInv, ReasonInv, ~Analyzing, NEW l \in TrueLiterals,
         NEW k \in reason[Abs(l)] \ {l}
  PROVE  k \in Lit /\ -k \in TrueLiterals /\ Position(-k) < Position(l)
<1>1. /\ l \in Lit /\ Abs(l) \in Var /\ LitOf(Abs(l)) = l
  BY LiteralTypes DEF TrueLiterals
<1>2. k \in Lit
  BY <1>1 DEF TypeInv, TypeOK, TypeAssign
<1>3. Value(k) < 0 /\ Position(k) < pos[Abs(l)]
  BY <1>1, ProperReason DEF IsReason, Falsified
<1>4. -k \in Lit /\ Abs(-k) = Abs(k) /\ k \in Int
  BY <1>2, Literals
<1>5. Value(-k) > 0
  <2>1. (k > 0 /\ ~(-k > 0) /\ -(-k) = k) \/ (k < 0 /\ -k > 0)
    BY <1>2, Literals
  <2>2. val[Abs(k)] \in {-1, 0, 1} /\ Value(k) \in {-1, 0, 1}
    BY <1>2, LiteralTypes, TrailTypes
  <2>3. CASE k > 0 /\ ~(-k > 0) /\ -(-k) = k
    BY <1>3, <2>2, <2>3 DEF Value, Abs
  <2>4. CASE k < 0 /\ -k > 0
    <3>1. ~(k > 0) /\ Abs(k) = -k
      BY <1>4, <2>4 DEF Abs
    <3>2. Value(k) = -val[-k] /\ Value(-k) = val[-k] /\ val[-k] \in {-1, 0, 1}
      BY <2>2, <2>4, <3>1 DEF Value
    <3> QED
      BY <1>3, <3>2
  <2> QED
    BY <2>1, <2>3, <2>4
<1> QED
  BY <1>1, <1>2, <1>3, <1>4, <1>5 DEF TrueLiterals, Position

(* The search back from true literals meets true literals only, and leaves out
   no antecedent. *)
LEMMA ImpliedClosed ==
  ASSUME TypeInv, ReasonInv, ~Analyzing, NEW S \in SUBSET TrueLiterals
  PROVE  /\ S \subseteq ImpliedBy(S) /\ ImpliedBy(S) \subseteq TrueLiterals
         /\ \A l \in ImpliedBy(S) : \A k \in reason[Abs(l)] \ {l} : -k \in ImpliedBy(S)
<1> DEFINE closed == {T \in SUBSET Lit : S \subseteq T /\ Antecedents(T) \subseteq T}
<1>1. ImpliedBy(S) = {l \in Lit : \A T \in closed : l \in T}
  BY DEF ImpliedBy
<1>2. TrueLiterals \in closed
  <2>1. TrueLiterals \in SUBSET Lit
    BY DEF TrueLiterals
  <2>2. Antecedents(TrueLiterals) \subseteq TrueLiterals
    BY TrueAntecedents DEF Antecedents
  <2> QED
    BY <2>1, <2>2
<1>3. ImpliedBy(S) \subseteq TrueLiterals
  BY <1>1, <1>2
<1>4. S \subseteq ImpliedBy(S)
  BY <1>1 DEF TrueLiterals
<1>5. ASSUME NEW l \in ImpliedBy(S), NEW k \in reason[Abs(l)] \ {l}
      PROVE  -k \in ImpliedBy(S)
  <2>1. k \in Lit /\ -k \in Lit
    BY <1>3, TrueAntecedents DEF TrueLiterals
  <2>2. ASSUME NEW T \in closed
        PROVE  -k \in T
    <3>1. l \in T
      BY <1>1
    <3>2. -k \in Antecedents(T)
      BY <3>1 DEF Antecedents
    <3> QED
      BY <3>2
  <2> QED
    BY <1>1, <2>1, <2>2
<1> QED
  BY <1>3, <1>4, <1>5

(* What the search back meets holds in every model of the clauses in which the
   decisions it meets hold. *)
LEMMA DecisionsImply ==
  ASSUME TypeInv, EntailInv, ReasonInv, ~Analyzing, NEW S \in SUBSET TrueLiterals,
         NEW m \in Models(orig), \A l \in FailedDecisions(S) : Makes(m, l)
  PROVE  \A l \in ImpliedBy(S) : Makes(m, l)
<1> DEFINE wrong == {l \in ImpliedBy(S) : ~Makes(m, l)}
           places == {Position(l) : l \in wrong}
<1>0. /\ m \in [Var -> BOOLEAN]
      /\ ImpliedBy(S) \subseteq TrueLiterals /\ TrueLiterals \subseteq Lit
  BY ImpliedClosed DEF Models, TrueLiterals
<1> SUFFICES ASSUME wrong # {}
             PROVE  FALSE
  OBVIOUS
<1>1. places \in SUBSET Nat /\ places # {}
  BY <1>0, LiteralTypes
<1>2. PICK n \in places : \A k \in places : n <= k
  BY <1>1, Smallest
<1>3. PICK l \in wrong : Position(l) = n
  BY <1>2
<1>4. \A k \in wrong : ~(Position(k) < Position(l))
  BY <1>1, <1>2, <1>3
<1>5. /\ l \in ImpliedBy(S) /\ ~Makes(m, l) /\ l \in TrueLiterals /\ l \in Lit
      /\ Abs(l) \in Var /\ LitOf(Abs(l)) = l /\ val[Abs(l)] # 0 /\ LevelOf(l) \in Nat
  BY <1>0, <1>3, LiteralTypes, TrailTypes DEF TrueLiterals
<1>6. CASE LevelOf(l) = 0
  <2>1. Entailed({l})
    BY <1>5, <1>6 DEF EntailInv, AssignmentEntailed, RootsEntailed, LevelOf
  <2> QED
    BY <1>5, <2>1 DEF Entailed
<1>7. CASE LevelOf(l) > 0 /\ reason[Abs(l)] = {}
  BY <1>5, <1>7 DEF FailedDecisions
<1>8. CASE reason[Abs(l)] # {}
  <2>1. Entailed(reason[Abs(l)])
    BY <1>5, <1>8 DEF EntailInv, AssignmentEntailed, ReasonsEntailed
  <2>2. PICK k \in reason[Abs(l)] : Makes(m, k)
    BY <2>1 DEF Entailed
  <2>3. k \in reason[Abs(l)] \ {l}
    BY <1>5, <2>2
  <2>4. -k \in ImpliedBy(S) /\ Position(-k) < Position(l) /\ k \in Lit
    BY <1>5, <2>3, ImpliedClosed, TrueAntecedents
  <2>5. Makes(m, -k)
    BY <1>4, <2>4
  <2> QED
    BY <1>0, <2>2, <2>4, <2>5, Complement
<1> QED
  BY <1>5, <1>6, <1>7, <1>8

(* The negation of a false literal is true. *)
LEMMA FalseNegation ==
  ASSUME TypeInv, NEW l \in Lit, Value(l) < 0
  PROVE  -l \in TrueLiterals /\ LevelOf(-l) = LevelOf(l) /\ reason[Abs(-l)] = reason[Abs(l)]
<1>1. LitOf(Abs(l)) = -l /\ val[Abs(l)] # 0 /\ Abs(l) \in Var /\ Abs(-l) = Abs(l)
  BY FalseLiteral, Literals
<1> QED
  BY <1>1, LitOfTypes DEF TrueLiterals, LevelOf

LEMMA FailedSound ==
  ASSUME IInv, ReasonInv, AssumptionsDecided, level <= Len(assumptions), failed = {},
         unsatConstraint => Falsified(constraint), Failed
  PROVE  /\ failed' \subseteq Assumed
         /\ Models(orig \cup {{l} : l \in failed'}
                        \cup IF unsatConstraint THEN {constraint} ELSE {}) = {}
<1> DEFINE F == orig \cup {{l} : l \in failed'}
                     \cup IF unsatConstraint THEN {constraint} ELSE {}
<1>0. /\ TypeInv /\ TrailInv /\ EntailInv /\ ~Analyzing
      /\ constraint \in SUBSET Lit /\ \A i \in DOMAIN assumptions : assumptions[i] \in Lit
  BY DEF IInv, TypeInv, TypeOK, TypeUser, Failed, Steady, Analyzing
<1>1. ASSUME NEW m \in Models(F)
      PROVE  /\ m \in Models(orig) /\ m \in [Var -> BOOLEAN]
             /\ \A l \in failed' : Makes(m, l)
             /\ unsatConstraint => \E l \in constraint : Makes(m, l)
  <2>1. m \in [Var -> BOOLEAN] /\ \A c \in F : \E l \in c : Makes(m, l)
    BY DEF Models
  <2>2. \A l \in failed' : {l} \in F
    OBVIOUS
  <2>3. unsatConstraint => constraint \in F
    OBVIOUS
  <2>4. \A l \in failed' : \E k \in {l} : Makes(m, k)
    BY <2>1, <2>2
  <2>5. \A c \in orig : c \in F
    OBVIOUS
  <2> HIDE DEF F
  <2> QED
    BY <2>1, <2>3, <2>4, <2>5 DEF Models
<1> HIDE DEF F
<1>2. \A S \in SUBSET TrueLiterals : FailedDecisions(S) \subseteq Assumed
  BY <1>0, ImpliedClosed, DecisionAssumed DEF FailedDecisions
<1>3. ASSUME NEW S \in SUBSET TrueLiterals, FailedDecisions(S) \subseteq failed',
             NEW m \in Models(F)
      PROVE  \A l \in S : Makes(m, l)
  <2>1. \A l \in FailedDecisions(S) : Makes(m, l)
    BY <1>1, <1>3
  <2> QED
    BY <1>0, <1>1, <2>1, DecisionsImply, ImpliedClosed
<1>4. CASE unsatConstraint /\ failed' = failed \cup FailedDecisions({-l : l \in constraint})
  <2>1. PICK S \in SUBSET TrueLiterals : S = {-l : l \in constraint}
    BY <1>0, <1>4, FalseNegation DEF Falsified
  <2>2. failed' = FailedDecisions(S)
    BY <1>4, <2>1
  <2>3. ASSUME NEW m \in Models(F)
        PROVE  FALSE
    <3>1. PICK l \in constraint : Makes(m, l)
      BY <1>1, <1>4
    <3>2. Makes(m, -l)
      BY <1>3, <2>1, <2>2
    <3> QED
      BY <1>0, <1>1, <3>1, <3>2, Complement
  <2> QED
    BY <1>2, <2>2, <2>3 DEF F
<1>5. CASE ~unsatConstraint
  <2>1. PICK i \in FalsifiedAt : LET l == assumptions[i] IN
             \/ IsFirst(i, FailedUnits) /\ failed' = failed \cup {l}
             \/ /\ FailedUnits = {} /\ IsFirst(i, FailedClashing)
                /\ failed' = failed \cup {l, -l}
             \/ /\ FailedUnits \cup FailedClashing = {} /\ IsFirst(i, FailedLowest)
                /\ failed' = failed \cup {l} \cup FailedDecisions({-l})
    BY <1>5 DEF Failed
  <2>2. PICK l \in Lit : l = assumptions[i] /\ l \in Assumed /\ Value(l) < 0
    BY <1>0 DEF FalsifiedAt, Assumed
  <2>3. -l \in TrueLiterals /\ LevelOf(-l) = LevelOf(l) /\ reason[Abs(-l)] = reason[Abs(l)]
    BY <1>0, <2>2, FalseNegation
  <2>4. \A m \in Models(F) : ~(Makes(m, l) /\ Makes(m, -l))
    BY <1>1, <2>2, Complement
  <2>5. CASE IsFirst(i, FailedUnits) /\ failed' = failed \cup {l}
    <3>1. LevelOf(l) = 0
      BY <2>2, <2>5 DEF IsFirst, FailedUnits
    <3>2. Entailed({-l})
      BY <1>0, <2>2, <3>1, RootFalse DEF EntailInv, AssignmentEntailed
    <3>3. \A m \in Models(F) : Makes(m, -l) /\ Makes(m, l)
      BY <1>1, <2>5, <3>2 DEF Entailed
    <3>4. failed' \subseteq Assumed
      BY <2>2, <2>5
    <3> QED
      BY <2>4, <3>3, <3>4 DEF F
  <2>6. CASE IsFirst(i, FailedClashing) /\ failed' = failed \cup {l, -l}
    <3>1. LevelOf(l) > 0 /\ reason[Abs(l)] = {}
      BY <2>2, <2>6 DEF IsFirst, FailedClashing
    <3>2. -l \in Assumed
      BY <1>0, <2>3, <3>1, DecisionAssumed
    <3>3. \A m \in Models(F) : Makes(m, -l) /\ Makes(m, l)
      BY <1>1, <2>6
    <3>4. failed' \subseteq Assumed
      BY <2>2, <2>6, <3>2
    <3> QED
      BY <2>4, <3>3, <3>4 DEF F
  <2>7. CASE failed' = failed \cup {l} \cup FailedDecisions({-l})
    <3>1. PICK S \in SUBSET TrueLiterals : S = {-l}
      BY <2>3
    <3>2. failed' = {l} \cup FailedDecisions(S)
      BY <2>7, <3>1
    <3>3. \A m \in Models(F) : Makes(m, -l) /\ Makes(m, l)
      BY <1>1, <1>3, <3>1, <3>2
    <3>4. failed' \subseteq Assumed
      BY <1>2, <2>2, <3>2
    <3> QED
      BY <2>4, <3>3, <3>4 DEF F
  <2> QED
    BY <2>1, <2>2, <2>5, <2>6, <2>7
<1> QED
  BY <1>4, <1>5 DEF Failed

(* A constraint that cannot hold is reported with the next answer, and until
   then the user's calls stay on the root level. *)
Rejected ==
  unsatConstraint =>
    /\ pc = "steady" \/ caller = "add"
    /\ result = 0 => level = 0 /\ constraint = {} /\ (unsat \/ ~marked)

(* The failed assumptions are computed on the levels of the assumptions. *)
Pending ==
  result = 20 /\ ~marked => /\ level <= Len(assumptions)
                            /\ unsatConstraint => Falsified(constraint)

(* Literals are only marked as failed between an answer and the next call. *)
FailedMarked ==
  /\ unsat => marked
  /\ failed # {} => result = 20 /\ marked
  /\ failed \subseteq Assumed

FailedInv == Rejected /\ Pending /\ FailedMarked /\ CoreSound

(* Steps of the search that leave what the user asked alone. *)
LEMMA SearchAsked ==
  ASSUME Propagate \/ Analyze \/ Shrink \/ Search
  PROVE  \/ /\ UNCHANGED <<assumptions, constraint, unsatConstraint, failed, marked, unsat>>
            /\ pc # "steady" /\ result' \in {result, 10}
            /\ caller = "add" => caller' = "add" /\ (pc' = "steady" => control' = control)
         \/ AnalyzeRoot \/ Interrupt \/ DecideFail
<1>1. CASE Propagate
  BY <1>1 DEF Propagate, PropagateUnit, PropagateConflict, PropagateNext, PropagateFail,
     PropagateAdded, Visiting, Quiet, userVars, assignVars
<1>2. CASE Analyze
  BY <1>2 DEF Analyze, AnalyzeForced, AnalyzeStart, Resolve, StrengthenContinue,
     StrengthenForced, FirstUIP, Learn, userVars, assignVars
<1>3. CASE Shrink
  BY <1>3 DEF Shrink, KeepBlock, ShrinkBlock, ShrinkAlongReason, ShrunkenBlock,
     ShrinkingFailed, MinimizeLiteral, MinimizeRecursively, MinimizeDone, shrinkFrame,
     userVars, assignVars
<1>4. CASE Search
  BY <1>4 DEF Search, FoundModel, Restart, ReduceUnits, Reduce, Decide, DecidePseudo,
     Reducing, Ready, Quiet, userVars, assignVars
<1> QED
  BY <1>1, <1>2, <1>3, <1>4

LEMMA SearchFailed ==
  ASSUME TypeInv, TypeInv', AtRoot, AtRoot', UnsatInv, Answered, FailedInv,
         Propagate \/ Analyze \/ Shrink \/ Search
  PROVE  FailedInv'
<1>1. CASE /\ UNCHANGED <<assumptions, constraint, unsatConstraint, failed, marked, unsat>>
           /\ pc # "steady" /\ result' \in {result, 10}
           /\ caller = "add" => caller' = "add" /\ (pc' = "steady" => control' = control)
  <2>1. result = 0 /\ result' # 20 /\ failed = {}
    BY <1>1 DEF Answered, FailedInv, FailedMarked
  <2>2. unsatConstraint => caller' = "add" /\ level' = 0
    BY <1>1, <2>1 DEF FailedInv, Rejected, AtRoot, level
  <2> QED
    BY <1>1, <2>1, <2>2 DEF FailedInv, Rejected, Pending, FailedMarked, CoreSound, Assumed
<1>2. CASE AnalyzeRoot
  <2>1. /\ UNCHANGED <<assumptions, constraint, unsatConstraint, failed>>
        /\ unsat' /\ marked' /\ pc' = "steady" /\ pc = "analyze" /\ Backtrack(0)
    BY <1>2 DEF AnalyzeRoot, LearnEmptyClause
  <2>2. 0 \in 0..level
    BY TrailTypes
  <2>3. level' = 0
    BY <2>1, <2>2, BacktrackCut DEF Cut
  <2>4. result = 0 /\ failed = {}
    BY <2>1 DEF Answered, FailedInv, FailedMarked
  <2> QED
    BY <2>1, <2>3, <2>4 DEF FailedInv, Rejected, Pending, FailedMarked, CoreSound, Assumed
<1>3. CASE Interrupt
  <2>1. /\ assumptions' = <<>> /\ ~unsatConstraint' /\ marked' /\ result' = 0
        /\ failed' \subseteq failed /\ unsat' = unsat /\ pc = "propagate"
    BY <1>3 DEF Interrupt, ResetUser, Ready, Quiet
  <2>2. failed' = {}
    BY <2>1 DEF Answered, FailedInv, FailedMarked
  <2> QED
    BY <2>1, <2>2 DEF FailedInv, Rejected, Pending, FailedMarked, CoreSound
<1>4. CASE DecideFail
  <2>1. /\ UNCHANGED <<assumptions, constraint, failed, unsat, val, control>>
        /\ pc = "propagate" /\ pc' = "steady" /\ ~marked' /\ result' = 20 /\ caller = "search"
    BY <1>4 DEF DecideFail, Ready, Quiet, assignVars
  <2>2. ~unsat /\ failed = {} /\ ~unsatConstraint
    BY <2>1 DEF UnsatInv, Answered, FailedInv, FailedMarked, Rejected
  <2>3. level <= Len(assumptions) /\ level' = level
    BY <1>4, <2>1, QuestionTypes, TrailTypes DEF DecideFail, OnConstraint, level
  <2>4. unsatConstraint' => Falsified(constraint)'
    BY <1>4, <2>1, <2>2 DEF DecideFail, Falsified, Value
  <2> QED
    BY <2>1, <2>2, <2>3, <2>4 DEF FailedInv, Rejected, Pending, FailedMarked, CoreSound, Assumed
<1> QED
  BY <1>1, <1>2, <1>3, <1>4, SearchAsked

LEMMA UserFailed ==
  ASSUME IInv, SearchInv, TypeInv', AssumptionsDecided, FailedInv, User
  PROVE  FailedInv'
<1>0. /\ TypeInv /\ ReasonInv /\ 0 \in 0..level /\ TypeAssign /\ pc = "steady"
      /\ Len(assumptions') \in Nat /\ Len(assumptions) \in Nat
  BY TrailTypes, LenProperties
     DEF IInv, SearchInv, TypeInv, TypeOK, TypeUser, User, Add, Assume, Constrain, Solve,
         Failed, Steady
<1>1. \A l, c, a : Backtrack(0) \/ BacktrackAssign(0, l, c, a) => level' = 0
  <2>1. Len(SubSeq(control, 1, 0)) = 0
    BY <1>0, ControlPrefix
  <2> QED
    BY <2>1 DEF Backtrack, BacktrackAssign, level
<1>2. \/ result # 0 /\ failed \subseteq Assumed
      \/ result = 0 /\ failed = {}
  BY DEF FailedInv, FailedMarked
<1>3. ASSUME ResetUser, result' = 0 \/ unsat'
      PROVE  FailedInv'
  <2>1. /\ assumptions' = <<>> /\ constraint' = {} /\ ~unsatConstraint' /\ marked'
        /\ failed' = failed \ Assumed
    BY <1>3 DEF ResetUser, Assumed
  <2>2. failed' = {}
    BY <1>2, <2>1
  <2> QED
    BY <1>3, <2>1, <2>2 DEF FailedInv, Rejected, Pending, FailedMarked, CoreSound
<1>4. CASE Add
  <2>1. /\ result' = 0 /\ level' = 0
        /\ pc' = "steady" \/ caller' = "add"
        /\ \/ ResetUser
           \/ /\ result = 0 /\ UNCHANGED <<assumptions, constraint, unsatConstraint, failed>>
              /\ (marked' = marked /\ unsat' = unsat) \/ (unsat' /\ marked')
    BY <1>0, <1>1, <1>4 DEF Add, Leave, userVars
  <2>2. ASSUME result = 0, UNCHANGED <<assumptions, constraint, unsatConstraint, failed>>,
               (marked' = marked /\ unsat' = unsat) \/ (unsat' /\ marked')
        PROVE  FailedInv'
    BY <1>2, <2>1, <2>2 DEF FailedInv, Rejected, Pending, FailedMarked, CoreSound
  <2> QED
    BY <1>3, <2>1, <2>2
<1>5. CASE Assume
  <2>1. /\ result' = 0 /\ level' = 0 /\ pc' = "steady" /\ unsat' = unsat
        /\ result = 0 => UNCHANGED <<constraint, unsatConstraint, failed, marked>>
        /\ result # 0 => failed' = failed \ Assumed /\ ~unsatConstraint' /\ marked'
    BY <1>0, <1>1, <1>5 DEF Assume, Assumed
  <2>2. failed' = {}
    BY <1>2, <2>1
  <2> QED
    BY <2>1, <2>2 DEF FailedInv, Rejected, Pending, FailedMarked, CoreSound
<1>6. CASE Constrain
  <2>1. /\ result' = 0 /\ level' = 0 /\ pc' = "steady" /\ unsat' = unsat
        /\ unsat => marked'
        /\ unsatConstraint' => constraint' = {} /\ (unsat \/ ~marked')
        /\ result = 0 => failed' = failed
        /\ result # 0 => failed' = failed \ Assumed
    BY <1>0, <1>1, <1>6 DEF Constrain, Assumed
  <2>2. failed' = {}
    BY <1>2, <2>1
  <2> QED
    BY <2>1, <2>2 DEF FailedInv, Rejected, Pending, FailedMarked, CoreSound
<1>7. CASE Solve
  <2>1. /\ unsat' = unsat
        /\ ResetUser \/ (result = 0 /\ UNCHANGED userVars)
        /\ \/ /\ unsat \/ unsatConstraint'
              /\ result' = 20 /\ UNCHANGED <<val, control, pc>>
           \/ ~unsat /\ ~unsatConstraint' /\ result' = 0
    BY <1>7 DEF Solve, Leave, assignVars
  <2>2. CASE ResetUser
    <3>1. ~unsatConstraint'
      BY <2>2 DEF ResetUser
    <3> QED
      BY <1>3, <2>1, <2>2, <3>1
  <2>3. CASE result = 0 /\ UNCHANGED userVars
    <3>0. UNCHANGED <<assumptions, constraint, unsatConstraint, failed, marked>> /\ failed = {}
      BY <1>2, <2>3 DEF userVars
    <3>1. CASE ~unsat /\ ~unsatConstraint' /\ result' = 0
      BY <2>1, <3>0, <3>1 DEF FailedInv, Rejected, Pending, FailedMarked, CoreSound
    <3>2. CASE (unsat \/ unsatConstraint') /\ result' = 20 /\ UNCHANGED <<val, control, pc>>
      <4>1. level' = level /\ pc' = "steady"
        BY <1>0, <3>2 DEF level
      <4>2. unsatConstraint => level = 0 /\ constraint = {} /\ (unsat \/ ~marked)
        BY <2>3 DEF FailedInv, Rejected
      <4>3. ~marked => ~unsat /\ unsatConstraint
        BY <3>0, <3>2 DEF FailedInv, FailedMarked
      <4>4. Pending'
        BY <1>0, <3>0, <4>1, <4>2, <4>3 DEF Pending, Falsified
      <4>5. Rejected' /\ FailedMarked'
        BY <2>1, <3>0, <3>2, <4>1 DEF FailedInv, Rejected, FailedMarked
      <4>6. CoreSound'
        BY <2>1, <3>0, <3>2, <4>2 DEF CoreSound
      <4> QED
        BY <4>4, <4>5, <4>6 DEF FailedInv
    <3> QED
      BY <2>1, <3>1, <3>2
  <2> QED
    BY <2>1, <2>2, <2>3
<1>8. CASE Failed
  <2>1. /\ result = 20 /\ ~marked /\ marked' /\ pc' = "steady" /\ result' = 20
        /\ UNCHANGED <<orig, assumptions, constraint, unsatConstraint, unsat, val, control>>
    BY <1>8 DEF Failed, Steady, dbVars, assignVars
  <2>2. /\ failed = {} /\ level <= Len(assumptions)
        /\ unsatConstraint => Falsified(constraint)
    BY <2>1 DEF FailedInv, FailedMarked, Pending
  <2>3. /\ failed' \subseteq Assumed
        /\ Models(orig \cup {{l} : l \in failed'}
                       \cup IF unsatConstraint THEN {constraint} ELSE {}) = {}
    BY <1>0, <1>8, <2>2, FailedSound
  <2>4. CoreSound'
    BY <2>1, <2>3 DEF CoreSound, Assumed, Models
  <2>5. Assumed' = Assumed
    BY <2>1 DEF Assumed
  <2> QED
    BY <2>1, <2>3, <2>4, <2>5 DEF FailedInv, Rejected, Pending, FailedMarked
<1> QED
  BY <1>4, <1>5, <1>6, <1>7, <1>8 DEF User

-----------------------------------------------------------------------------
(* Answers.                                                                *)

AnswerInv == /\ IrredundantSuffices /\ AssumptionsDecided /\ ConstraintDecided
             /\ InUse /\ Answered /\ ModelSound /\ FailedInv

LEMMA AnswerInit == Init => AnswerInv
<1> SUFFICES ASSUME Init
             PROVE  AnswerInv
  OBVIOUS
<1>1. IrredundantSuffices
  BY IrredundantInit
<1>2. level = 0 /\ 1..Len(assumptions) = {}
  BY DEF Init, level
<1> QED
  BY <1>1, <1>2
     DEF Init, AnswerInv, AssumptionsDecided, ConstraintDecided, InUse, Answered, ModelSound,
         FailedInv, Rejected, Pending, FailedMarked, CoreSound

LEMMA AnswerStep ==
  ASSUME IInv, SearchInv, IInv', SearchInv', AnswerInv, [Next]_vars
  PROVE  AnswerInv'
<1>1. /\ TypeInv /\ TrailInv /\ EntailInv /\ InOrder /\ TypeInv' /\ AtRoot /\ AtRoot'
      /\ UnsatInv
  BY DEF IInv, SearchInv, EntailInv
<1>2. IrredundantSuffices'
  BY IrredundantStep DEF AnswerInv
<1>3. AssumptionsDecided' /\ ConstraintDecided'
  BY <1>1, QuestionsStep DEF AnswerInv
<1>4. InUse' /\ Answered'
  BY InUseStep, AnsweredStep DEF AnswerInv
<1>5. ModelSound'
  BY ModelStep DEF AnswerInv
<1>6. FailedInv'
  <2>1. CASE User
    BY <1>1, <2>1, UserFailed DEF AnswerInv
  <2>2. CASE Solver
    BY <1>1, <2>2, SearchFailed DEF AnswerInv, Solver
  <2>3. CASE UNCHANGED vars
    BY <2>3 DEF AnswerInv, FailedInv, Rejected, Pending, FailedMarked, CoreSound, Assumed,
       Falsified, Value, Models, level, vars, dbVars, assignVars, userVars
  <2> QED
    BY <2>1, <2>2, <2>3 DEF Next, Finished
<1> QED
  BY <1>2, <1>3, <1>4, <1>5, <1>6 DEF AnswerInv

LEMMA AnswerInductive == Spec => [](IInv /\ SearchInv /\ AnswerInv)
<1>1. Init => AnswerInv
  BY AnswerInit
<1>2. IInv /\ SearchInv /\ (IInv /\ SearchInv)' /\ AnswerInv /\ [Next]_vars => AnswerInv'
  BY AnswerStep
<1> QED
  BY <1>1, <1>2, SearchInductive, PTL DEF Spec

(* Subsuming, strengthening and reducing lose no constraint: as long as the
   formula is not known unsatisfiable, the irredundant clauses and the units
   of the root level imply every clause the user added. *)
THEOREM IrredundantEnough == Spec => []IrredundantSuffices
<1>1. AnswerInv => IrredundantSuffices
  BY DEF AnswerInv
<1> QED
  BY <1>1, AnswerInductive, PTL

(* Neither flipping literals below the current level, nor restarts that reuse
   the trail, nor learned units leave the level of an assumption behind on which
   the assumption does not hold. *)
THEOREM AssumptionsStay == Spec => []AssumptionsHold
<1>1. IInv /\ AnswerInv => AssumptionsHold
  <2> SUFFICES ASSUME IInv, AssumptionsDecided
               PROVE  AssumptionsHold
    BY DEF AnswerInv
  <2>1. DOMAIN assumptions = 1..Len(assumptions)
    BY LenProperties DEF IInv, TypeInv, TypeOK, TypeUser
  <2> QED
    BY <2>1 DEF AssumptionsDecided, AssumptionsHold
<1> QED
  BY <1>1, AnswerInductive, PTL

(* An answer 10 comes with an assignment that satisfies every clause added, every
   assumption and the constraint, redundant, strengthened and deleted clauses
   notwithstanding. *)
THEOREM ModelsSatisfy == Spec => []ModelSound
<1>1. AnswerInv => ModelSound
  BY DEF AnswerInv
<1> QED
  BY <1>1, AnswerInductive, PTL

(* The literals 'failed' reports after an answer 20 are assumptions, and no model
   of the clauses satisfies all of them, nor the constraint if that one failed. *)
THEOREM CoresFollow == Spec => []CoreSound
<1>1. AnswerInv => CoreSound
  BY DEF AnswerInv, FailedInv
<1> QED
  BY <1>1, AnswerInductive, PTL
=============================================================================
