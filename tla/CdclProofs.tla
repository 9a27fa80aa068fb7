----------------------------- MODULE CdclProofs -----------------------------
(***************************************************************************)
(* What the search core guarantees, in three layers:                       *)
(*   - types, together with the bounds on levels they rest on;             *)
(*   - the trail: positions, control frames, decisions and reasons fit     *)
(*     together, although backtracking leaves literals out of order;       *)
(*   - entailment: every clause, unit and answer follows from the clauses  *)
(*     the user added.                                                     *)
(* The third one needs the second one where analysis resolves the latest   *)
(* literal of the conflict level, which must have a reason.                *)
(***************************************************************************)
EXTENDS Cdcl, FiniteSetTheorems, SequenceTheorems, TLAPS

-----------------------------------------------------------------------------
(* Literals and options.                                                   *)

(* Literals come in complementary pairs over the variables. *)
LEMMA Literals ==
  /\ Var \subseteq Nat \ {0}
  /\ Lit \subseteq Int
  /\ \A v \in Var : v \in Lit /\ -v \in Lit /\ Abs(v) = v /\ Abs(-v) = v
  /\ \A l \in Lit : /\ l \in Int /\ l # 0 /\ -l \in Lit /\ -l # l
                    /\ Abs(l) \in Var /\ Abs(-l) = Abs(l)
                    /\ l = Abs(l) \/ l = -Abs(l)
                    /\ Sign(l) \in {-1, 1}
  /\ \A k, l \in Lit : Abs(k) = Abs(l) => k = l \/ k = -l
<1>1. Var \subseteq Nat \ {0}
  BY VarAssumption
<1>2. \A v \in Var : v \in Lit /\ -v \in Lit /\ Abs(v) = v /\ Abs(-v) = v
  BY <1>1 DEF Lit, Abs
<1>3. ASSUME NEW l \in Lit
      PROVE  /\ l \in Int /\ l # 0 /\ -l \in Lit /\ -l # l
             /\ Abs(l) \in Var /\ Abs(-l) = Abs(l)
             /\ l = Abs(l) \/ l = -Abs(l)
             /\ Sign(l) \in {-1, 1}
  <2>1. CASE l \in Var
    BY <1>1, <1>2, <2>1 DEF Abs, Sign
  <2>2. ASSUME NEW v \in Var, l = -v
        PROVE  <1>3!2
    <3>1. v \in Nat \ {0} /\ -l = v
      BY <1>1, <2>2
    <3> QED
      BY <1>2, <2>2, <3>1 DEF Abs, Sign
  <2> QED
    BY <2>1, <2>2 DEF Lit
<1>4. ASSUME NEW k \in Lit, NEW l \in Lit, Abs(k) = Abs(l)
      PROVE  k = l \/ k = -l
  <2>1. k \in Int /\ l \in Int
    BY <1>3
  <2> QED
    BY <2>1, <1>4 DEF Abs
<1> QED
  BY <1>1, <1>2, <1>3, <1>4

(* The options of a run are a record of the type declared for them. *)
LEMMA OptionTypes ==
  ASSUME opts \in OptionSets
  PROVE  /\ opts.chrono \in BOOLEAN /\ opts.chronoalways \in BOOLEAN
         /\ opts.chronolevelim \in Nat /\ opts.chronoreusetrail \in BOOLEAN
         /\ opts.otfs \in BOOLEAN /\ opts.shrink \in BOOLEAN
         /\ opts.minimize \in BOOLEAN
  BY OptionAssumption DEF Options

(* Sets of variables are finite. *)
LEMMA VarSubsets ==
  \A S \in SUBSET Var : IsFiniteSet(S) /\ Cardinality(S) \in Nat
  BY VarAssumption, FS_Subset, FS_CardinalityType

-----------------------------------------------------------------------------
(* Levels, and what backtracking and deciding do to the assignment.         *)

(* No variable has a level above the current one, and an unassigned variable
   has no level, reason or position. *)
LevelsBounded ==
  \A v \in Var : /\ vlevel[v] <= level
                 /\ val[v] = 0 => vlevel[v] = 0 /\ reason[v] = {} /\ pos[v] = 0
AssignInv == TypeAssign /\ LevelsBounded

(* Analysis past its start works above the root level. *)
Analyzing == pc \in {"resolve", "shrink", "block", "literal"}
AboveRoot == Analyzing => level > 0

TypeInv == TypeOK /\ LevelsBounded /\ AboveRoot

(* The level is a natural number. *)
LEMMA LevelType ==
  ASSUME TypeAssign
  PROVE  level \in Nat /\ level \in 0..level /\ 0 \in 0..level
  BY LenProperties DEF TypeAssign, level

(* A prefix of the control frames is a sequence of control frames. *)
LEMMA ControlPrefix ==
  ASSUME TypeAssign, NEW L \in 0..level
  PROVE  /\ level \in Nat
         /\ SubSeq(control, 1, L) \in Seq(Frames)
         /\ Len(SubSeq(control, 1, L)) = L
         /\ \A k \in 1..L : SubSeq(control, 1, L)[k] = control[k]
         /\ \A k \in 1..level : control[k] \in Frames
<1>1. control \in Seq(Frames)
  BY DEF TypeAssign
<1>2. level \in Nat /\ \A k \in 1..level : control[k] \in Frames
  BY <1>1, LenProperties, ElementOfSeq DEF level
<1>3. \A k \in 1..L : control[k] \in Frames
  BY <1>2
<1>4. L \in Int
  BY <1>2
<1> QED
  BY <1>2, <1>3, <1>4, SubSeqProperties

(* Positions on the trail are natural numbers. *)
LEMMA AssignedType ==
  ASSUME TypeAssign, NEW L \in 0..level
  PROVE  numAssigned \in Nat /\ Assigned(L) \in Nat
<1>1. numAssigned \in Nat
  BY VarSubsets DEF numAssigned
<1>2. level \in Nat /\ (L < level => control[L + 1] \in Frames)
  BY ControlPrefix
<1> QED
  BY <1>1, <1>2 DEF Assigned, Frames

(* What is left after backtracking to L is well typed. *)
LEMMA KeepTypes ==
  ASSUME TypeAssign, NEW L \in 0..level
  PROVE  /\ KeepVal(L) \in [Var -> {-1, 0, 1}]
         /\ KeepLevel(L) \in [Var -> Nat]
         /\ KeepReason(L) \in [Var -> SUBSET Lit]
         /\ KeepPos(L) \in [Var -> Nat]
         /\ KeepPropagated(L) \in Nat
<1>1. KeepVal(L) \in [Var -> {-1, 0, 1}] /\ KeepLevel(L) \in [Var -> Nat]
  BY DEF TypeAssign, KeepVal, KeepLevel
<1>2. KeepReason(L) \in [Var -> SUBSET Lit]
  BY DEF TypeAssign, KeepReason
<1>3. Assigned(L) \in Nat
  BY AssignedType
<1>4. \A v \in Var : Cardinality(Reassigned(v, L)) \in Nat
  BY VarSubsets DEF Reassigned
<1>5. KeepPos(L) \in [Var -> Nat]
  BY <1>3, <1>4 DEF TypeAssign, KeepPos
<1>6. KeepPropagated(L) \in Nat
  BY <1>3 DEF TypeAssign, KeepPropagated
<1> QED
  BY <1>1, <1>2, <1>5, <1>6

(* backtrack keeps the assignment well formed. *)
LEMMA BacktrackAssignment ==
  ASSUME AssignInv, NEW L \in 0..level, Backtrack(L)
  PROVE  AssignInv' /\ level' = L
<1> USE DEF AssignInv
<1>1. TypeAssign' /\ level' = L
  BY KeepTypes, ControlPrefix DEF Backtrack, TypeAssign, level
<1>2. ASSUME NEW v \in Var
      PROVE  /\ vlevel'[v] <= L
             /\ val'[v] = 0 => vlevel'[v] = 0 /\ reason'[v] = {} /\ pos'[v] = 0
  <2>1. CASE Stays(v, L)
    BY <2>1 DEF Backtrack, Stays, KeepVal, KeepLevel, KeepReason, KeepPos
  <2>2. CASE ~Stays(v, L)
    BY <2>2 DEF Backtrack, KeepVal, KeepLevel, KeepReason, KeepPos
  <2> QED
    BY <2>1, <2>2
<1> QED
  BY <1>1, <1>2 DEF LevelsBounded

(* So does backtracking followed by the assignment of a literal, on a level that
   is left. *)
LEMMA BacktrackAssignAssignment ==
  ASSUME AssignInv, NEW L \in 0..level, NEW l \in Lit, NEW c \in SUBSET Lit,
         NEW a \in 0..L, BacktrackAssign(L, l, c, a)
  PROVE  AssignInv' /\ level' = L
<1> USE DEF AssignInv
<1>1. Abs(l) \in Var /\ Sign(l) \in {-1, 1}
  BY Literals
<1>2. 1 + Cardinality({v \in Var : Stays(v, L)}) \in Nat
  BY VarSubsets
<1>3. level' = L /\ control' \in Seq(Frames)
  BY ControlPrefix DEF BacktrackAssign, level
<1>4. val' \in [Var -> {-1, 0, 1}] /\ vlevel' \in [Var -> Nat]
  BY <1>1, KeepTypes DEF BacktrackAssign
<1>5. reason' \in [Var -> SUBSET Lit]
  BY <1>1, KeepTypes DEF BacktrackAssign
<1>6. pos' \in [Var -> Nat] /\ propagated' \in Nat
  BY <1>1, <1>2, KeepTypes DEF BacktrackAssign
<1>7. ASSUME NEW v \in Var
      PROVE  /\ vlevel'[v] <= L
             /\ val'[v] = 0 => vlevel'[v] = 0 /\ reason'[v] = {} /\ pos'[v] = 0
  <2>1. CASE v = Abs(l)
    BY <2>1, <1>1, KeepTypes DEF BacktrackAssign
  <2>2. CASE v # Abs(l) /\ Stays(v, L)
    BY <2>2, KeepTypes DEF BacktrackAssign, Stays, KeepVal, KeepLevel, KeepReason, KeepPos
  <2>3. CASE v # Abs(l) /\ ~Stays(v, L)
    BY <2>3, KeepTypes DEF BacktrackAssign, KeepVal, KeepLevel, KeepReason, KeepPos
  <2> QED
    BY <2>1, <2>2, <2>3
<1>8. TypeAssign'
  BY <1>3, <1>4, <1>5, <1>6 DEF TypeAssign
<1> QED
  BY <1>3, <1>7, <1>8 DEF LevelsBounded

(* And a decision, and a pseudo decision. *)
LEMMA DecisionAssignment ==
  ASSUME AssignInv, NEW l \in Lit, Decision(l)
  PROVE  AssignInv' /\ level' = level + 1
<1> USE DEF AssignInv
<1>1. Abs(l) \in Var /\ Sign(l) \in {-1, 1}
  BY Literals
<1>2. level \in Nat /\ numAssigned \in Nat
  BY ControlPrefix, AssignedType DEF TypeAssign, level
<1>3. /\ control' \in Seq(Frames)
      /\ level' = level + 1
  <2>1. [decision |-> l, trail |-> numAssigned] \in Frames
    BY <1>2 DEF Frames
  <2> QED
    BY <2>1 DEF Decision, TypeAssign, level
<1>4. TypeAssign'
  BY <1>1, <1>2, <1>3 DEF Decision, TypeAssign
<1>5. LevelsBounded'
  BY <1>1, <1>2, <1>3 DEF Decision, TypeAssign, LevelsBounded
<1> QED
  BY <1>3, <1>4, <1>5

LEMMA PseudoDecisionAssignment ==
  ASSUME AssignInv, PseudoDecision
  PROVE  AssignInv' /\ level' = level + 1
<1> USE DEF AssignInv
<1>1. level \in Nat /\ numAssigned \in Nat
  BY ControlPrefix, AssignedType DEF TypeAssign, level
<1>2. /\ control' \in Seq(Frames)
      /\ level' = level + 1
  <2>1. [decision |-> 0, trail |-> numAssigned] \in Frames
    BY <1>1 DEF Frames
  <2> QED
    BY <2>1 DEF PseudoDecision, TypeAssign, level
<1> QED
  BY <1>1, <1>2 DEF PseudoDecision, TypeAssign, LevelsBounded

LEMMA SameAssignment ==
  ASSUME AssignInv, UNCHANGED assignVars
  PROVE  AssignInv' /\ level' = level
  BY DEF AssignInv, TypeAssign, LevelsBounded, assignVars, level

(* The level a literal is assigned on is one that backtracking leaves. *)
LEMMA AssignmentLevel ==
  ASSUME NEW L \in Nat, NEW l, NEW c, NEW a \in Nat, IsAssignmentLevel(a, l, c, L),
         \A k \in c \ {l} : LevelOf(k) <= L
  PROVE  a \in 0..L
  BY DEF IsAssignmentLevel, IsMaxLevel

(* The driving clause c of conflict analysis has one literal u on the conflict
   level: the solver backtracks below that level and above the others. *)
LEMMA DrivingLevel ==
  ASSUME TypeInv, level > 0, NEW c \in SUBSET Lit, NEW u \in c, Open(c) = {u},
         NEW jump \in 0..level, IsMaxLevel(jump, c \ {u}),
         NEW L \in 0..level, L \in ActualLevels(jump)
  PROVE  /\ L \in 0..level - 1 /\ LevelOf(u) = level
         /\ \A k \in c \ {u} : LevelOf(k) <= L
<1>1. level \in Nat /\ \A k \in Lit : LevelOf(k) \in Nat /\ LevelOf(k) <= level
  BY Literals, ControlPrefix DEF TypeInv, TypeOK, TypeAssign, LevelsBounded, LevelOf
<1>2. \A k \in c \ {u} : LevelOf(k) < level
  BY <1>1 DEF Open
<1>3. jump <= level - 1
  BY <1>1, <1>2 DEF IsMaxLevel
<1>4. opts.chronolevelim \in Nat
  BY OptionTypes DEF TypeInv, TypeOK, TypeDB
<1>5. L \in {level - 1} \cup {jump} \cup (jump..level - 1)
  BY <1>1, <1>3 DEF ActualLevels
<1>6. L <= level - 1 /\ jump <= L
  BY <1>1, <1>3, <1>5
<1>7. LevelOf(u) = level
  BY DEF Open
<1> QED
  BY <1>1, <1>3, <1>6, <1>7 DEF IsMaxLevel

(* What analysis works on stays within the literals. *)
LEMMA ResolventType ==
  ASSUME TypeInv, NEW l \in Lit
  PROVE  Antecedent(l) \in SUBSET Lit /\ Resolvent(l) \in SUBSET Lit
  BY Literals DEF TypeInv, TypeOK, TypeAssign, TypeAnalysis, Antecedent, Resolvent, NonRoot

LEMMA CardinalityType == \A c \in SUBSET Lit : Cardinality(c) \in Nat
<1> DEFINE Negated == {-v : v \in Var}
           Negate == [l \in Negated |-> -l]
<1>1. Negate \in Injection(Negated, Var)
  BY VarAssumption DEF Injection, IsInjective
<1>2. IsFiniteSet(Lit)
  BY <1>1, VarAssumption, FS_Injection, FS_Union DEF Lit
<1> QED
  BY <1>2, FS_Subset, FS_CardinalityType

(* Propagation preserves the type invariant. *)
LEMMA PropagateType ==
  ASSUME TypeInv, Propagate
  PROVE  TypeInv'
<1> USE DEF TypeInv
<1>1. CASE PropagateUnit
  <2>1. PICK c \in Watching : \E l \in c : \E a \in 0..level :
             BacktrackAssign(level, l, c, a)
    BY <1>1 DEF PropagateUnit
  <2>2. c \in SUBSET Lit /\ level \in 0..level
    BY LevelType DEF TypeOK, TypeDB, Watching, DB
  <2>3. AssignInv' /\ level' = level
    BY <2>1, <2>2, BacktrackAssignAssignment DEF AssignInv, TypeOK
  <2> QED
    BY <1>1, <2>3 DEF PropagateUnit, AssignInv, TypeOK, TypeDB, TypeAnalysis, TypeUser,
                      AboveRoot, Analyzing, dbVars, analyzeVars, userVars, countVars
<1>2. CASE PropagateConflict
  <2>1. AssignInv' /\ level' = level
    BY <1>2, SameAssignment DEF PropagateConflict, AssignInv, TypeOK
  <2>2. conflict' \subseteq Lit
    BY <1>2 DEF PropagateConflict, TypeOK, TypeDB, Watching, DB
  <2> QED
    BY <1>2, <2>1, <2>2 DEF PropagateConflict, AssignInv, TypeOK, TypeDB, TypeAnalysis,
          TypeUser, AboveRoot, Analyzing, dbVars, analyzeVars, userVars, countVars
<1>3. CASE PropagateNext
  BY <1>3 DEF PropagateNext, TypeOK, TypeDB, TypeAssign, TypeAnalysis, TypeUser,
       LevelsBounded, AboveRoot, Analyzing, level, dbVars, analyzeVars, userVars, countVars
<1>4. CASE PropagateFail
  BY <1>4 DEF PropagateFail, TypeOK, TypeDB, TypeAssign, TypeAnalysis, TypeUser,
       LevelsBounded, AboveRoot, Analyzing, level, dbVars, analyzeVars, userVars, countVars
<1>5. CASE PropagateAdded
  BY <1>5 DEF PropagateAdded, TypeOK, TypeDB, TypeAssign, TypeAnalysis, TypeUser, LevelsBounded,
       AboveRoot, Analyzing, level, dbVars, assignVars, analyzeVars, userVars, countVars
<1> QED
  BY <1>1, <1>2, <1>3, <1>4, <1>5 DEF Propagate

(* A clause that is strengthened, with the one it may subsume. *)
LEMMA StrengthenType ==
  ASSUME TypeInv, NEW l \in Lit, NEW s \in SUBSET Lit, Strengthen(l, s)
  PROVE  irr' \subseteq SUBSET Lit /\ red' \subseteq SUBSET Lit /\ conflicts' \in Nat
  BY DEF TypeInv, TypeOK, TypeDB, TypeUser, Strengthen

(* Conflict analysis preserves the type invariant. *)
LEMMA AnalyzeType ==
  ASSUME TypeInv, Analyze
  PROVE  TypeInv'
<1> USE DEF TypeInv
<1>0. /\ AssignInv /\ level \in Nat /\ level \in 0..level /\ 0 \in 0..level
      /\ \A l \in Lit : LevelOf(l) \in 0..level
  BY LevelType, Literals DEF AssignInv, TypeOK, TypeAssign, LevelsBounded, LevelOf
<1>1. CASE AnalyzeForced
  <2>1. PICK l \in conflict : \E a \in 0..level :
          /\ IsForced(l) /\ IsAssignmentLevel(a, l, conflict, LevelOf(l) - 1)
          /\ BacktrackAssign(LevelOf(l) - 1, l, conflict, a)
    BY <1>1 DEF AnalyzeForced
  <2>2. conflict \in SUBSET Lit /\ LevelOf(l) - 1 \in 0..level
    BY <2>1, <1>0 DEF TypeOK, TypeAnalysis, IsForced
  <2>3. \A k \in conflict \ {l} : LevelOf(k) <= LevelOf(l) - 1
    BY <2>1, <2>2, <1>0 DEF IsForced
  <2>4. \E a \in 0..LevelOf(l) - 1 : BacktrackAssign(LevelOf(l) - 1, l, conflict, a)
    BY <2>1, <2>2, <2>3, <1>0, AssignmentLevel
  <2>5. AssignInv'
    BY <2>2, <2>4, <1>0, BacktrackAssignAssignment
  <2> QED
    BY <1>1, <2>5 DEF AnalyzeForced, AssignInv, TypeOK, TypeDB, TypeAnalysis, TypeUser,
      AboveRoot, Analyzing, dbVars, analyzeVars, userVars, countVars
<1>2. CASE AnalyzeRoot
  <2>1. AssignInv'
    BY <1>0, <1>2, BacktrackAssignment DEF AnalyzeRoot
  <2> QED
    BY <1>2, <2>1 DEF AnalyzeRoot, LearnEmptyClause, AssignInv, TypeOK, TypeDB, TypeAnalysis, TypeUser,
      AboveRoot, Analyzing, dbVars, analyzeVars, userVars, countVars
<1>3. CASE AnalyzeStart
  <2>1. PICK L \in 1..level : Backtrack(L)
    BY <1>3 DEF AnalyzeStart
  <2>2. AssignInv' /\ level' = L
    BY <2>1, <1>0, BacktrackAssignment
  <2>3. NonRoot(conflict) \in SUBSET Lit /\ Cardinality(NonRoot(conflict)) \in Nat
    BY CardinalityType DEF TypeOK, TypeAnalysis, NonRoot
  <2> QED
    BY <1>3, <2>1, <2>2, <2>3 DEF AnalyzeStart, AssignInv, TypeOK, TypeDB, TypeAnalysis, TypeUser,
      AboveRoot, Analyzing, dbVars, analyzeVars, userVars, countVars
<1>4. CASE Resolve
  <2>1. work' \subseteq Lit
    BY <1>4, ResolventType DEF Resolve, TypeOK, TypeAnalysis
  <2>2. AssignInv' /\ level' = level
    BY <1>0, <1>4, SameAssignment DEF Resolve
  <2> QED
    BY <1>4, <2>1, <2>2 DEF Resolve, AssignInv, TypeOK, TypeDB, TypeAnalysis, TypeUser,
      AboveRoot, Analyzing, dbVars, analyzeVars, userVars, countVars
<1>5. CASE StrengthenContinue
  <2>1. PICK l \in work :
          /\ Strengthen(l, Antecedent(l))
          /\ reason' = [reason EXCEPT ![Abs(l)] = Antecedent(l)]
          /\ conflict' = Antecedent(l) /\ work' = Antecedent(l)
          /\ csize' = Cardinality(Antecedent(l))
          /\ Strengthens(l) /\ IsLatest(l, Open(work))
    BY <1>5 DEF StrengthenContinue
  <2>2. l \in Lit /\ Antecedent(l) \in SUBSET Lit /\ csize' \in Nat
    BY <2>1, ResolventType, CardinalityType DEF TypeOK, TypeAnalysis
  <2>3. level > 0 /\ vlevel[Abs(l)] = level
    BY <1>5, <2>1 DEF StrengthenContinue, AboveRoot, Analyzing, IsLatest, Open, LevelOf
  <2>4. AssignInv' /\ level' = level
    <3>1. /\ UNCHANGED <<val, vlevel, pos, propagated, control>>
          /\ level' = level
      BY <1>5 DEF StrengthenContinue, level
    <3>2. Abs(l) \in Var /\ val[Abs(l)] # 0
      BY <2>2, <2>3, <1>0, Literals DEF AssignInv, LevelsBounded
    <3>3. reason' \in [Var -> SUBSET Lit] /\ \A v \in Var \ {Abs(l)} : reason'[v] = reason[v]
      BY <1>0, <2>1, <2>2, <3>2 DEF AssignInv, TypeAssign
    <3> QED
      BY <1>0, <3>1, <3>2, <3>3 DEF AssignInv, TypeAssign, LevelsBounded
  <2>5. irr' \subseteq SUBSET Lit /\ red' \subseteq SUBSET Lit /\ conflicts' \in Nat
    BY <2>1, <2>2, StrengthenType
  <2> QED
    BY <1>5, <2>1, <2>2, <2>4, <2>5 DEF StrengthenContinue, AssignInv, TypeOK, TypeDB, TypeAnalysis, TypeUser,
      AboveRoot, Analyzing, dbVars, analyzeVars, userVars, countVars
<1>6. CASE StrengthenForced
  <2>1. PICK l \in work : \E f \in Antecedent(l) : \E j, L, a \in 0..level :
          /\ Open(Antecedent(l)) = {f}
          /\ Strengthen(l, Antecedent(l))
          /\ IsMaxLevel(j, Antecedent(l) \ {f}) /\ L \in ActualLevels(j)
          /\ IsAssignmentLevel(a, f, Antecedent(l), L)
          /\ BacktrackAssign(L, f, Antecedent(l), a)
    BY <1>6 DEF StrengthenForced
  <2>2. l \in Lit /\ Antecedent(l) \in SUBSET Lit /\ level > 0
    BY <1>6, ResolventType DEF TypeOK, TypeAnalysis, StrengthenForced, AboveRoot, Analyzing
  <2>3. PICK f \in Antecedent(l), j \in 0..level, L \in 0..level, a \in 0..level :
          /\ Open(Antecedent(l)) = {f}
          /\ IsMaxLevel(j, Antecedent(l) \ {f}) /\ L \in ActualLevels(j)
          /\ IsAssignmentLevel(a, f, Antecedent(l), L)
          /\ BacktrackAssign(L, f, Antecedent(l), a)
    BY <2>1
  <2>4. L \in 0..level - 1 /\ \A k \in Antecedent(l) \ {f} : LevelOf(k) <= L
    BY <2>2, <2>3, DrivingLevel
  <2>5. a \in 0..L
    BY <2>3, <2>4, AssignmentLevel
  <2>6. AssignInv'
    BY <2>2, <2>3, <2>5, <1>0, BacktrackAssignAssignment
  <2>7. irr' \subseteq SUBSET Lit /\ red' \subseteq SUBSET Lit /\ conflicts' \in Nat
    BY <2>1, <2>2, StrengthenType
  <2> QED
    BY <1>6, <2>6, <2>7 DEF StrengthenForced, NoAnalysis, AssignInv, TypeOK, TypeDB, TypeAnalysis, TypeUser,
      AboveRoot, Analyzing, dbVars, analyzeVars, userVars, countVars
<1>7. CASE FirstUIP
  <2>1. AssignInv' /\ level' = level
    BY <1>0, <1>7, SameAssignment DEF FirstUIP
  <2>2. todo' \subseteq Lit /\ block' \subseteq Lit
    BY <1>7 DEF FirstUIP, TypeOK, TypeAnalysis, Open
  <2> QED
    BY <1>7, <2>1, <2>2 DEF FirstUIP, AssignInv, TypeOK, TypeDB, TypeAnalysis, TypeUser,
      AboveRoot, Analyzing, dbVars, analyzeVars, userVars, countVars
<1>8. CASE Learn
  <2>1. PICK u \in work, jump \in 0..level, L \in 0..level, a \in 0..level :
          LET c == IF work = {u} THEN {} ELSE work IN
          /\ Open(work) = {u}
          /\ IsMaxLevel(jump, work \ {u}) /\ L \in ActualLevels(jump)
          /\ IsAssignmentLevel(a, u, c, L)
          /\ BacktrackAssign(L, u, c, a)
    BY <1>8 DEF Learn
  <2>2. work \in SUBSET Lit /\ level > 0
    BY <1>8 DEF TypeOK, TypeAnalysis, Learn, AboveRoot, Analyzing
  <2>3. L \in 0..level - 1 /\ \A k \in work \ {u} : LevelOf(k) <= L
    BY <2>1, <2>2, DrivingLevel
  <2> DEFINE c == IF work = {u} THEN {} ELSE work
  <2>4. a \in 0..L /\ c \in SUBSET Lit
    BY <2>1, <2>2, <2>3, AssignmentLevel
  <2>5. AssignInv'
    BY <2>1, <2>2, <2>4, <1>0, BacktrackAssignAssignment
  <2>6. red' \subseteq SUBSET Lit
    BY <1>8, <2>2 DEF Learn, TypeOK, TypeDB
  <2> QED
    BY <1>8, <2>5, <2>6 DEF Learn, NoAnalysis, AssignInv, TypeOK, TypeDB, TypeAnalysis, TypeUser,
      AboveRoot, Analyzing, dbVars, analyzeVars, userVars, countVars
<1> QED
  BY <1>1, <1>2, <1>3, <1>4, <1>5, <1>6, <1>7, <1>8 DEF Analyze

(* Shrinking and minimizing preserve the type invariant. *)
LEMMA ShrinkType ==
  ASSUME TypeInv, Shrink
  PROVE  TypeInv'
<1> USE DEF TypeInv
<1>1. UNCHANGED shrinkFrame /\ Analyzing /\ Analyzing'
  BY DEF Shrink, KeepBlock, ShrinkBlock, ShrinkAlongReason, ShrunkenBlock,
         ShrinkingFailed, MinimizeLiteral, MinimizeRecursively, MinimizeDone, Analyzing
<1>2. AssignInv' /\ level' = level
  BY <1>1, SameAssignment DEF shrinkFrame, AssignInv, TypeOK
<1>3. pc' \in {"shrink", "block", "literal"}
  BY DEF Shrink, KeepBlock, ShrinkBlock, ShrinkAlongReason, ShrunkenBlock,
         ShrinkingFailed, MinimizeLiteral, MinimizeRecursively, MinimizeDone
<1>4. work' \subseteq Lit
  BY ResolventType DEF TypeOK, TypeAnalysis, Shrink, KeepBlock, ShrinkBlock,
     ShrinkAlongReason, ShrunkenBlock, ShrinkingFailed, MinimizeLiteral,
     MinimizeRecursively, MinimizeDone
<1>5. saved' \subseteq Lit /\ todo' \subseteq Lit /\ block' \subseteq Lit
  BY DEF TypeOK, TypeAnalysis, Shrink, KeepBlock, ShrinkBlock, Lowest,
     ShrinkAlongReason, ShrunkenBlock, ShrinkingFailed, MinimizeLiteral,
     MinimizeRecursively, MinimizeDone
<1> QED
  BY <1>1, <1>2, <1>3, <1>4, <1>5 DEF shrinkFrame, AssignInv, TypeOK, TypeDB, TypeAnalysis, TypeUser,
      AboveRoot, Analyzing, dbVars, analyzeVars, userVars, countVars

(* A clause is only made shorter by removing its false literals. *)
LEMMA FlushType == \A c \in SUBSET Lit : FlushFalse(c) \in SUBSET Lit
  BY DEF FlushFalse

(* The part of the type invariant about what the user asks. *)
UserTyped ==
  /\ unsatConstraint \in BOOLEAN /\ marked \in BOOLEAN
  /\ assumptions \in Seq(Lit) /\ constraint \subseteq Lit /\ failed \subseteq Lit

LEMMA ResetUserType ==
  ASSUME UserTyped, ResetUser
  PROVE  UserTyped'
<1>1. assumptions' \in Seq(Lit)
  <2>1. assumptions' = <<>>
    BY DEF ResetUser
  <2> QED
    BY <2>1, EmptySeq
<1> QED
  BY <1>1 DEF UserTyped, ResetUser

(* The steps of the main loop preserve the type invariant. *)
LEMMA SearchType ==
  ASSUME TypeInv, Search
  PROVE  TypeInv'
<1> USE DEF TypeInv
<1>0. /\ AssignInv /\ level \in Nat /\ level \in 0..level /\ 0 \in 0..level
      /\ ~Analyzing
  BY LevelType DEF AssignInv, TypeOK, Analyzing, Search, FoundModel, Interrupt, Restart,
     ReduceUnits, Reduce, Decide, DecidePseudo, DecideFail, Reducing, Ready, Quiet
<1>1. CASE FoundModel
  <2>1. AssignInv'
    BY <1>0, <1>1, SameAssignment DEF FoundModel
  <2> QED
    BY <1>1, <2>1 DEF FoundModel, AssignInv, TypeOK, TypeDB, TypeAnalysis, TypeUser,
      AboveRoot, Analyzing, dbVars, analyzeVars, userVars, countVars
<1>2. CASE Interrupt
  <2>1. AssignInv'
    BY <1>0, <1>2, SameAssignment DEF Interrupt
  <2> QED
    BY <1>0, <1>2, <2>1, ResetUserType DEF Interrupt, AssignInv, UserTyped, TypeOK, TypeDB, TypeAnalysis, TypeUser,
      AboveRoot, Analyzing, dbVars, analyzeVars, userVars, countVars
<1>3. CASE Restart
  <2>1. PICK L \in Int : Backtrack(L) /\ L \in 0..level
    <3> DEFINE trivial == IF control[Len(assumptions) + 1].decision = 0
                          THEN Len(assumptions) + 1 ELSE Len(assumptions)
    <3>1. Len(assumptions) \in Nat
      BY LenProperties DEF TypeOK, TypeUser
    <3>2. trivial \in 0..level
      BY <1>0, <1>3, <3>1 DEF Restart
    <3> HIDE DEF trivial
    <3>3. PICK L \in trivial..(IF opts.restartreusetrail THEN level ELSE trivial) :
             Backtrack(L)
      BY <1>3 DEF Restart, trivial
    <3> QED
      BY <1>0, <3>2, <3>3
  <2>2. AssignInv'
    BY <1>0, <2>1, BacktrackAssignment
  <2> QED
    BY <1>0, <1>3, <2>2 DEF Restart, AssignInv, TypeOK, TypeDB, TypeAnalysis, TypeUser,
      AboveRoot, Analyzing, dbVars, analyzeVars, userVars, countVars
<1>4. CASE ReduceUnits
  <2>1. AssignInv'
    BY <1>0, <1>4, BacktrackAssignment DEF ReduceUnits
  <2> QED
    BY <1>0, <1>4, <2>1 DEF ReduceUnits, AssignInv, TypeOK, TypeDB, TypeAnalysis, TypeUser,
      AboveRoot, Analyzing, dbVars, analyzeVars, userVars, countVars
<1>5. CASE Reduce
  <2>1. reason' = [v \in Var |-> FlushFalse(reason[v])]
    BY <1>5 DEF Reduce
  <2>2. FlushFalse({}) = {}
    BY DEF FlushFalse
  <2>3. UNCHANGED <<val, vlevel, pos, propagated, control>> /\ level' = level
    BY <1>5 DEF Reduce, level
  <2>4. AssignInv'
    BY <1>0, <2>1, <2>2, <2>3, FlushType DEF AssignInv, TypeAssign, LevelsBounded
  <2>5. irr' \subseteq SUBSET Lit
    BY <1>5, FlushType DEF Reduce, TypeOK, TypeDB
  <2>6. red' \subseteq SUBSET Lit
    BY <1>5, FlushType DEF Reduce, TypeOK, TypeDB
  <2> QED
    BY <1>0, <1>5, <2>4, <2>5, <2>6 DEF Reduce, AssignInv, TypeOK, TypeDB, TypeAnalysis, TypeUser,
      AboveRoot, Analyzing, dbVars, analyzeVars, userVars, countVars
<1>6. CASE Decide
  <2>1. AssignInv'
    BY <1>0, <1>6, DecisionAssignment DEF Decide
  <2> QED
    BY <1>0, <1>6, <2>1 DEF Decide, AssignInv, TypeOK, TypeDB, TypeAnalysis, TypeUser,
      AboveRoot, Analyzing, dbVars, analyzeVars, userVars, countVars
<1>7. CASE DecidePseudo
  <2>1. AssignInv'
    BY <1>0, <1>7, PseudoDecisionAssignment DEF DecidePseudo
  <2> QED
    BY <1>0, <1>7, <2>1 DEF DecidePseudo, AssignInv, TypeOK, TypeDB, TypeAnalysis, TypeUser,
      AboveRoot, Analyzing, dbVars, analyzeVars, userVars, countVars
<1>8. CASE DecideFail
  <2>1. AssignInv'
    BY <1>0, <1>8, SameAssignment DEF DecideFail
  <2> QED
    BY <1>0, <1>8, <2>1 DEF DecideFail, AssignInv, TypeOK, TypeDB, TypeAnalysis, TypeUser,
      AboveRoot, Analyzing, dbVars, analyzeVars, userVars, countVars
<1> QED
  BY <1>1, <1>2, <1>3, <1>4, <1>5, <1>6, <1>7, <1>8 DEF Search

LEMMA LeaveType ==
  ASSUME UserTyped, Leave
  PROVE  UserTyped'
  BY ResetUserType DEF Leave, UserTyped, userVars

LEMMA InitVarsType ==
  ASSUME maxVar \in {0} \cup Var, NEW c \in SUBSET Lit, InitVars(c)
  PROVE  maxVar' \in {0} \cup Var
  BY Literals DEF InitVars

(* The calls of the user preserve the type invariant. *)
LEMMA UserType ==
  ASSUME TypeInv, User
  PROVE  TypeInv'
<1> USE DEF TypeInv
<1>0. /\ AssignInv /\ UserTyped /\ 0 \in 0..level
      /\ pc = "steady"
  BY LevelType DEF AssignInv, UserTyped, TypeOK, TypeUser, User, Add, Assume, Constrain,
     Solve, Failed, Steady
<1>1. CASE Add
  <2> DEFINE c == Head(inbox)
  <2>1. c \in SUBSET Lit /\ inbox' \in Seq(SUBSET Lit)
    BY <1>1, HeadTailProperties DEF Add, TypeOK, TypeDB
  <2>2. maxVar' \in {0} \cup Var /\ orig' \subseteq SUBSET Lit
    BY <1>1, <2>1, InitVarsType DEF Add, TypeOK, TypeDB
  <2>3. NewLiterals(c) \in SUBSET Lit
    BY <2>1 DEF NewLiterals
  <2>4. AssignInv'
    <3>1. CASE Backtrack(0)
      BY <1>0, <3>1, BacktrackAssignment
    <3>2. ASSUME NEW l \in NewLiterals(c), BacktrackAssign(0, l, {}, 0)
          PROVE  AssignInv'
      BY <1>0, <2>3, <3>2, BacktrackAssignAssignment
    <3> QED
      BY <1>1, <3>1, <3>2 DEF Add
  <2>5. UserTyped'
    <3>1. CASE Leave
      BY <1>0, <3>1, LeaveType
    <3>2. CASE ResetUser
      BY <1>0, <3>2, ResetUserType
    <3>3. CASE marked' = TRUE /\ UNCHANGED <<assumptions, constraint, unsatConstraint, failed>>
      BY <1>0, <3>3 DEF UserTyped
    <3> QED
      BY <1>1, <3>1, <3>2, <3>3 DEF Add
  <2>6. /\ irr' \subseteq SUBSET Lit /\ pc' \in {"steady", "propagate"}
        /\ caller' \in {"add", "search", "reduce"} /\ unsat' \in BOOLEAN
    BY <1>0, <1>1, <2>3 DEF Add, TypeOK, TypeDB, TypeAnalysis, TypeUser
  <2>7. result' = 0 /\ UNCHANGED <<opts, red, conflict, analyzeVars, conflicts, countVars>>
    BY <1>1 DEF Add
  <2> QED
    BY <2>1, <2>2, <2>4, <2>5, <2>6, <2>7 DEF AssignInv, UserTyped, TypeOK, TypeDB, TypeAnalysis, TypeUser,
      AboveRoot, Analyzing, dbVars, analyzeVars, userVars, countVars
<1>2. CASE Assume
  <2>1. AssignInv'
    BY <1>0, <1>2, BacktrackAssignment DEF Assume
  <2> DEFINE old == IF result # 0 THEN <<>> ELSE assumptions
  <2>2. old \in Seq(Lit)
    BY EmptySeq DEF TypeOK, TypeUser
  <2> HIDE DEF old
  <2>3. PICK l \in Assumable : assumptions' = Append(old, l) /\ InitVars({l})
    BY <1>2 DEF Assume, old
  <2>4. assumptions' \in Seq(Lit) /\ maxVar' \in {0} \cup Var
    BY <2>2, <2>3, UserAssumption, InitVarsType, AppendProperties DEF TypeOK, TypeDB
  <2>5. UserTyped'
    BY <1>0, <1>2, <2>4 DEF Assume, UserTyped
  <2> QED
    BY <1>0, <1>2, <2>1, <2>4, <2>5 DEF Assume, AssignInv, UserTyped, TypeOK, TypeDB, TypeAnalysis, TypeUser,
      AboveRoot, Analyzing, dbVars, analyzeVars, userVars, countVars
<1>3. CASE Constrain
  <2>1. AssignInv'
    BY <1>0, <1>3, BacktrackAssignment DEF Constrain
  <2>2. PICK c \in Constraints :
          LET holds == IsTautology(c) \/ RootSatisfied(c)
              rest == NewLiterals(c)
          IN /\ constraint' = IF holds THEN {} ELSE rest
             /\ unsatConstraint' = (~holds /\ rest = {})
             /\ marked' = (unsat \/ holds \/ rest # {})
             /\ InitVars(c)
    BY <1>3 DEF Constrain
  <2>3. /\ constraint' \subseteq Lit /\ unsatConstraint' \in BOOLEAN
        /\ marked' \in BOOLEAN /\ maxVar' \in {0} \cup Var
    <3>1. c \in SUBSET Lit /\ NewLiterals(c) \subseteq c
      BY UserAssumption DEF NewLiterals
    <3>2. unsat \in BOOLEAN
      BY DEF TypeOK, TypeUser
    <3> QED
      BY <2>2, <3>1, <3>2, InitVarsType DEF TypeOK, TypeDB
  <2>4. UserTyped'
    <3>1. assumptions' = <<>> \/ assumptions' = assumptions
      BY <1>3 DEF Constrain
    <3>2. assumptions' \in Seq(Lit)
      BY <1>0, <3>1, EmptySeq DEF UserTyped
    <3>3. failed' \subseteq Lit
      BY <1>0, <1>3 DEF Constrain, UserTyped
    <3> QED
      BY <2>3, <3>2, <3>3 DEF UserTyped
  <2> QED
    BY <1>0, <1>3, <2>1, <2>3, <2>4 DEF Constrain, AssignInv, UserTyped, TypeOK, TypeDB, TypeAnalysis, TypeUser,
      AboveRoot, Analyzing, dbVars, analyzeVars, userVars, countVars
<1>4. CASE Solve
  <2>1. AssignInv'
    BY <1>0, <1>4, BacktrackAssignment, SameAssignment DEF Solve
  <2>2. UserTyped'
    BY <1>0, <1>4, LeaveType DEF Solve
  <2> QED
    BY <1>0, <1>4, <2>1, <2>2 DEF Solve, AssignInv, UserTyped, TypeOK, TypeDB, TypeAnalysis, TypeUser,
      AboveRoot, Analyzing, dbVars, analyzeVars, userVars, countVars
<1>5. CASE Failed
  <2>1. AssignInv'
    BY <1>0, <1>5, SameAssignment DEF Failed
  <2>2. /\ \A S : FailedDecisions(S) \subseteq Lit
        /\ \A i \in FalsifiedAt : assumptions[i] \in Lit /\ -assumptions[i] \in Lit
    BY <1>0, Literals, LenProperties, ElementOfSeq DEF FailedDecisions, FalsifiedAt, UserTyped
  <2>3. failed' \subseteq Lit
    <3>1. failed \subseteq Lit
      BY <1>0 DEF UserTyped
    <3>2. \/ \E S : failed' = failed \cup FailedDecisions(S)
          \/ \E i \in FalsifiedAt :
               \/ failed' = failed \cup {assumptions[i]}
               \/ failed' = failed \cup {assumptions[i], -assumptions[i]}
               \/ \E S : failed' = failed \cup {assumptions[i]} \cup FailedDecisions(S)
      BY <1>5 DEF Failed
    <3> QED
      BY <2>2, <3>1, <3>2
  <2> QED
    BY <1>0, <1>5, <2>1, <2>3 DEF Failed, AssignInv, UserTyped, TypeOK, TypeDB, TypeAnalysis, TypeUser,
      AboveRoot, Analyzing, dbVars, analyzeVars, userVars, countVars
<1> QED
  BY <1>1, <1>2, <1>3, <1>4, <1>5 DEF User

(* The type invariant with the level bounds is inductive. *)
LEMMA TypeStep ==
  ASSUME TypeInv, [Next]_vars
  PROVE  TypeInv'
<1>1. CASE User
  BY <1>1, UserType
<1>2. CASE Solver
  BY <1>2, PropagateType, AnalyzeType, ShrinkType, SearchType DEF Solver
<1>3. CASE UNCHANGED vars
  BY <1>3 DEF TypeInv, TypeOK, TypeDB, TypeAssign, TypeAnalysis, TypeUser, LevelsBounded,
     AboveRoot, Analyzing, level, vars, dbVars, assignVars, analyzeVars, userVars, countVars
<1> QED
  BY <1>1, <1>2, <1>3 DEF Next, Finished

LEMMA TypeInit == Init => TypeInv
<1> SUFFICES ASSUME Init PROVE TypeInv
  OBVIOUS
<1>1. control \in Seq(Frames) /\ assumptions \in Seq(Lit) /\ level = 0
  BY EmptySeq DEF Init, level
<1>2. inbox \in Seq(SUBSET Lit)
  BY InputAssumption DEF Init
<1>3. TypeDB /\ TypeAnalysis
  BY <1>2 DEF Init, TypeDB, TypeAnalysis
<1>4. TypeAssign /\ LevelsBounded
  BY <1>1 DEF Init, TypeAssign, LevelsBounded
<1>5. TypeUser /\ AboveRoot
  BY <1>1 DEF Init, TypeUser, AboveRoot, Analyzing
<1> QED
  BY <1>3, <1>4, <1>5 DEF TypeInv, TypeOK

(* Type correctness of the search core, for every formula, every setting of the
   options and any number of calls. *)
THEOREM TypeCorrect == Spec => []TypeOK
<1>1. TypeInv => TypeOK
  BY DEF TypeInv
<1> QED
  BY <1>1, TypeInit, TypeStep, PTL DEF Spec

-----------------------------------------------------------------------------
(* The trail.                                                              *)

(* The literals assigned so far have the positions 1..numAssigned. *)
Positions ==
  /\ \A v \in Var : val[v] # 0 => pos[v] \in 1..numAssigned
  /\ \A v, w \in Var : val[v] # 0 /\ val[w] # 0 /\ pos[v] = pos[w] => v = w

(* Frames are pushed in order, and a frame with a decision is followed by it. *)
FramesOrdered ==
  /\ \A j, k \in 1..level : j <= k => control[j].trail <= control[k].trail
  /\ \A j, k \in 1..level : j < k /\ control[j].decision # 0
                             => control[j].trail < control[k].trail
  /\ \A k \in 1..level : /\ control[k].trail <= numAssigned
                         /\ control[k].decision # 0 => control[k].trail < numAssigned

LevelsAfterFrames ==
  \A v \in Var : vlevel[v] > 0 => pos[v] > control[vlevel[v]].trail

DecisionsPlaced ==
  \A k \in 1..level : LET l == control[k].decision IN
    l # 0 => Value(l) > 0 /\ LevelOf(l) = k /\ Position(l) = control[k].trail + 1

(* A literal above the root level without a reason is the decision. *)
OnlyDecisions ==
  \A v \in Var : vlevel[v] > 0 /\ reason[v] = {}
                => control[vlevel[v]].decision = LitOf(v)

TrailInv == /\ Positions /\ FramesOrdered /\ LevelsAfterFrames
            /\ DecisionsPlaced /\ OnlyDecisions

Kept(L) == {v \in Var : Stays(v, L)}
AssignedVars == {v \in Var : val[v] # 0}

(* No position up to the size of the trail is left out. *)
LEMMA NoGaps ==
  ASSUME TypeInv, Positions, NEW n \in 0..numAssigned
  PROVE  /\ Cardinality({v \in AssignedVars : pos[v] <= n}) = n
         /\ \A p \in 1..n : \E v \in AssignedVars : pos[v] = p
<1> DEFINE S == AssignedVars
           T == {v \in S : pos[v] <= n}
           g == [v \in S |-> pos[v]]
           f == [v \in T |-> pos[v]]
<1>0. /\ IsFiniteSet(S) /\ Cardinality(S) = numAssigned /\ numAssigned \in Nat
      /\ n \in Nat /\ n <= numAssigned
      /\ \A v \in Var : pos[v] \in Nat
  BY VarSubsets DEF AssignedVars, numAssigned, TypeInv, TypeOK, TypeAssign
<1>1. /\ IsFiniteSet(1..numAssigned) /\ Cardinality(1..numAssigned) = numAssigned
      /\ IsFiniteSet(1..n) /\ Cardinality(1..n) = n
  BY <1>0, FS_Interval
<1>2. g \in Injection(S, 1..numAssigned)
  BY DEF Injection, IsInjective, Positions, AssignedVars
<1>3. g \in Surjection(S, 1..numAssigned)
  BY <1>0, <1>1, <1>2, FS_Injection
<1>4. ASSUME NEW p \in 1..n
      PROVE  \E v \in S : pos[v] = p
  <2>1. p \in 1..numAssigned
    BY <1>0
  <2>2. PICK v \in S : g[v] = p
    BY <1>3, <2>1 DEF Surjection
  <2> QED
    BY <2>2
<1>5. f \in Injection(T, 1..n) /\ f \in Surjection(T, 1..n)
  BY <1>0, <1>4 DEF Injection, IsInjective, Surjection, Positions, AssignedVars
<1>6. Cardinality(T) = n
  BY <1>1, <1>5, FS_Injection
<1> QED
  BY <1>4, <1>6

(* The part of the trail below the cut stays, and the frames that stay end
   there. *)
LEMMA BelowCut ==
  ASSUME TypeInv, TrailInv, NEW L \in 0..level
  PROVE  /\ Assigned(L) \in 0..numAssigned
         /\ \A v \in AssignedVars : pos[v] <= Assigned(L) => v \in Kept(L)
         /\ \A k \in 1..L : /\ control[k].trail <= Assigned(L)
                            /\ control[k].decision # 0 => control[k].trail < Assigned(L)
<1>0. /\ level \in Nat /\ Assigned(L) \in Nat /\ numAssigned \in Nat
      /\ \A v \in Var : pos[v] \in Nat /\ vlevel[v] \in 0..level
      /\ \A k \in 1..level : control[k].trail \in Nat
  BY LevelType, AssignedType, ControlPrefix
     DEF TypeInv, TypeOK, TypeAssign, LevelsBounded, Frames
<1>1. Assigned(L) \in 0..numAssigned
  BY <1>0 DEF Assigned, TrailInv, FramesOrdered
<1>2. ASSUME NEW v \in AssignedVars, pos[v] <= Assigned(L), vlevel[v] > L
      PROVE  FALSE
  <2>1. L < level /\ L + 1 \in 1..level /\ vlevel[v] \in 1..level /\ v \in Var
    BY <1>0, <1>2 DEF AssignedVars
  <2>2. pos[v] > control[vlevel[v]].trail
    BY <1>0, <1>2, <2>1 DEF TrailInv, LevelsAfterFrames
  <2>3. control[L + 1].trail <= control[vlevel[v]].trail
    BY <1>0, <1>2, <2>1 DEF TrailInv, FramesOrdered
  <2> QED
    BY <1>0, <1>2, <2>1, <2>2, <2>3 DEF Assigned
<1>3. \A v \in AssignedVars : pos[v] <= Assigned(L) => v \in Kept(L)
  BY <1>0, <1>2 DEF Kept, Stays, AssignedVars
<1>4. \A k \in 1..L : /\ control[k].trail <= Assigned(L)
                      /\ control[k].decision # 0 => control[k].trail < Assigned(L)
  BY <1>0 DEF Assigned, TrailInv, FramesOrdered
<1> QED
  BY <1>1, <1>3, <1>4

(* backtrack moves the literals that stay to the front, without changing their
   order: they get the positions 1..Cardinality(Kept(L)). *)
LEMMA KeptPositions ==
  ASSUME TypeInv, TrailInv, NEW L \in 0..level
  PROVE  /\ Cardinality(Kept(L)) \in Nat /\ Assigned(L) <= Cardinality(Kept(L))
         /\ \A v \in Kept(L) : /\ KeepPos(L)[v] \in 1..Cardinality(Kept(L))
                               /\ pos[v] <= Assigned(L) => KeepPos(L)[v] = pos[v]
                               /\ pos[v] > Assigned(L) => KeepPos(L)[v] > Assigned(L)
         /\ \A v, w \in Kept(L) : KeepPos(L)[v] = KeepPos(L)[w] => v = w
<1> DEFINE A == Assigned(L)
           Below == {v \in AssignedVars : pos[v] <= A}
           Moved == {v \in Kept(L) : pos[v] > A}
<1>0. /\ A \in Nat /\ A \in 0..numAssigned
      /\ \A v \in Var : pos[v] \in Nat
      /\ Below \subseteq Kept(L) /\ Kept(L) \subseteq AssignedVars
      /\ AssignedVars \subseteq Var
  BY AssignedType, BelowCut DEF TypeInv, TypeOK, TypeAssign, Kept, Stays, AssignedVars
<1>1. Cardinality(Below) = A
  BY <1>0, NoGaps DEF TrailInv
<1>2. /\ IsFiniteSet(Below) /\ IsFiniteSet(Moved) /\ IsFiniteSet(Kept(L))
      /\ Cardinality(Moved) \in Nat /\ Cardinality(Kept(L)) \in Nat
  <2>1. Below \in SUBSET Var /\ Moved \in SUBSET Var /\ Kept(L) \in SUBSET Var
    BY <1>0
  <2> QED
    BY <2>1, VarSubsets
<1>3. Cardinality(Kept(L)) = A + Cardinality(Moved)
  <2>1. Kept(L) = Below \cup Moved /\ Below \cap Moved = {}
    BY <1>0
  <2>2. Cardinality(Below \cap Moved) = 0
    BY <2>1, FS_EmptySet
  <2> QED
    <3>1. Cardinality(Below \cup Moved)
            = Cardinality(Below) + Cardinality(Moved) - Cardinality(Below \cap Moved)
      BY <1>2, FS_Union
    <3> HIDE DEF A, Below, Moved
    <3> QED
      BY <1>0, <1>1, <1>2, <2>1, <2>2, <3>1
<1>4. \A v \in Kept(L) : pos[v] <= A => KeepPos(L)[v] = pos[v]
  BY <1>0 DEF KeepPos, Kept
<1>5. \A v \in Moved : KeepPos(L)[v] = A + Cardinality(Reassigned(v, L))
  BY <1>0 DEF KeepPos, Kept
<1>6. ASSUME NEW v \in Moved
      PROVE  /\ v \in Reassigned(v, L) /\ Reassigned(v, L) \subseteq Moved
             /\ IsFiniteSet(Reassigned(v, L))
             /\ Cardinality(Reassigned(v, L)) \in 1..Cardinality(Moved)
  <2>1. v \in Reassigned(v, L) /\ Reassigned(v, L) \subseteq Moved
    BY <1>0 DEF Reassigned, Kept
  <2>2. /\ IsFiniteSet(Reassigned(v, L))
        /\ Cardinality(Reassigned(v, L)) \in Nat
        /\ Cardinality(Reassigned(v, L)) <= Cardinality(Moved)
    BY <1>2, <2>1, FS_Subset, FS_CardinalityType
  <2>3. Cardinality(Reassigned(v, L)) # 0
    BY <2>1, <2>2, FS_EmptySet
  <2> QED
    BY <1>2, <2>1, <2>2, <2>3
<1>7. ASSUME NEW v \in Moved, NEW w \in Moved, pos[v] < pos[w]
      PROVE  Cardinality(Reassigned(v, L)) < Cardinality(Reassigned(w, L))
  <2>1. Reassigned(v, L) \subseteq Reassigned(w, L)
    BY <1>0, <1>7 DEF Reassigned, Kept
  <2>2. w \in Reassigned(w, L) /\ w \notin Reassigned(v, L)
    <3>1. pos[v] \in Nat /\ pos[w] \in Nat /\ ~(pos[w] <= pos[v])
      BY <1>0, <1>7 DEF Kept
    <3> QED
      BY <1>6, <3>1 DEF Reassigned
  <2> QED
    BY <1>2, <1>6, <2>1, <2>2, FS_Subset
<1>8. ASSUME NEW v \in Kept(L)
      PROVE  /\ KeepPos(L)[v] \in 1..Cardinality(Kept(L))
             /\ pos[v] <= A => KeepPos(L)[v] <= A
             /\ pos[v] > A => KeepPos(L)[v] > A
  <2>1. CASE pos[v] <= A
    <3>1. pos[v] \in 1..numAssigned
      BY <1>0 DEF TrailInv, Positions, AssignedVars
    <3> QED
      BY <1>0, <1>2, <1>3, <1>4, <2>1, <3>1
  <2>2. CASE pos[v] > A
    BY <1>0, <1>2, <1>3, <1>5, <1>6, <2>2
  <2> QED
    BY <1>0, <2>1, <2>2
<1>9. ASSUME NEW v \in Kept(L), NEW w \in Kept(L), KeepPos(L)[v] = KeepPos(L)[w]
      PROVE  v = w
  <2>0. /\ v \in AssignedVars /\ w \in AssignedVars
        /\ (pos[v] = pos[w] => v = w)
    BY <1>0 DEF TrailInv, Positions, AssignedVars
  <2>1. CASE pos[v] <= A
    BY <1>0, <1>4, <1>8, <1>9, <2>0, <2>1
  <2>2. CASE pos[v] > A
    <3>1. v \in Moved /\ w \in Moved
      BY <1>0, <1>8, <1>9, <2>0, <2>2
    <3>2. Cardinality(Reassigned(v, L)) = Cardinality(Reassigned(w, L))
      BY <1>0, <1>2, <1>5, <1>6, <1>9, <3>1
    <3>3. ~(pos[v] < pos[w]) /\ ~(pos[w] < pos[v])
      BY <1>2, <1>6, <1>7, <3>1, <3>2
    <3> QED
      BY <1>0, <2>0, <3>3
  <2> QED
    BY <1>0, <2>0, <2>1, <2>2
<1> QED
  BY <1>0, <1>2, <1>3, <1>4, <1>8, <1>9

(* The values the trail invariant is made of. *)
LEMMA TrailTypes ==
  ASSUME TypeInv
  PROVE  /\ level \in Nat /\ numAssigned \in Nat
         /\ \A v \in Var : /\ pos[v] \in Nat /\ vlevel[v] \in 0..level
                           /\ val[v] \in {-1, 0, 1}
                           /\ vlevel[v] > 0 => val[v] # 0
         /\ \A k \in 1..level : /\ control[k].trail \in Nat
                                /\ control[k].decision \in Lit \cup {0}
  BY LevelType, AssignedType, ControlPrefix, SMTT(30)
     DEF TypeInv, TypeOK, TypeAssign, LevelsBounded, Frames

(* backtrack (L) keeps the trail in order. *)
LEMMA BacktrackTrail ==
  ASSUME TypeInv, TrailInv, NEW L \in 0..level, Backtrack(L)
  PROVE  TrailInv'
<1>0. /\ level \in Nat /\ level' = L
      /\ \A k \in 1..L : k \in 1..level /\ control'[k] = control[k]
      /\ \A v \in Kept(L) : /\ v \in Var /\ val[v] # 0 /\ vlevel[v] \in 0..L
                            /\ val'[v] = val[v] /\ vlevel'[v] = vlevel[v]
                            /\ reason'[v] = reason[v] /\ pos'[v] = KeepPos(L)[v]
      /\ \A v \in Var \ Kept(L) : val'[v] = 0 /\ vlevel'[v] = 0
  BY TrailTypes, ControlPrefix
     DEF TypeInv, TypeOK, Backtrack, Kept, Stays, KeepVal, KeepLevel, KeepReason, level
<1>1. numAssigned' = Cardinality(Kept(L))
  <2>1. {v \in Var : val'[v] # 0} = Kept(L)
    BY <1>0
  <2> QED
    BY <2>1 DEF numAssigned
<1>2. Positions'
  BY <1>0, <1>1, KeptPositions DEF Positions
<1>3. FramesOrdered'
  <2>1. \A j, k \in 1..L : /\ j <= k => control[j].trail <= control[k].trail
                           /\ j < k /\ control[j].decision # 0
                                => control[j].trail < control[k].trail
    BY <1>0 DEF TrailInv, FramesOrdered
  <2>2. /\ Assigned(L) \in Nat /\ Assigned(L) <= numAssigned' /\ numAssigned' \in Nat
        /\ \A k \in 1..L : control[k].trail \in Nat
    BY <1>0, <1>1, TrailTypes, BelowCut, KeptPositions
  <2>3. \A k \in 1..L : /\ control[k].trail <= numAssigned'
                        /\ control[k].decision # 0 => control[k].trail < numAssigned'
    BY <2>2, BelowCut
  <2> QED
    BY <1>0, <2>1, <2>3 DEF FramesOrdered
<1>4. LevelsAfterFrames'
  <2> SUFFICES ASSUME NEW v \in Var, vlevel'[v] > 0
               PROVE  pos'[v] > control'[vlevel'[v]].trail
    BY DEF LevelsAfterFrames
  <2>1. v \in Kept(L) /\ vlevel[v] \in 1..L /\ vlevel'[v] = vlevel[v]
    BY <1>0
  <2>2. control[vlevel[v]].trail <= Assigned(L) /\ control[vlevel[v]].trail \in Nat
    BY <1>0, <2>1, BelowCut, TrailTypes
  <2>3. pos[v] > control[vlevel[v]].trail
    BY <1>0, <2>1 DEF TrailInv, LevelsAfterFrames
  <2> QED
    BY <1>0, <2>1, <2>2, <2>3, KeptPositions, BelowCut, TrailTypes
<1>5. DecisionsPlaced'
  <2> SUFFICES ASSUME NEW k \in 1..L, NEW d \in Lit, d = control[k].decision
               PROVE  Value(d)' > 0 /\ LevelOf(d)' = k /\ Position(d)' = control[k].trail + 1
    BY <1>0, TrailTypes DEF DecisionsPlaced, Value, LevelOf, Position
  <2>1. Value(d) > 0 /\ LevelOf(d) = k /\ Position(d) = control[k].trail + 1
    BY <1>0, Literals DEF TrailInv, DecisionsPlaced
  <2>2. Abs(d) \in Var /\ val[Abs(d)] # 0
    BY <2>1, Literals, TrailTypes DEF Value, Abs
  <2>3. Abs(d) \in Kept(L) /\ pos[Abs(d)] <= Assigned(L)
    <3>1. control[k].trail < Assigned(L)
      BY <1>0, Literals, BelowCut
    <3>2. k \in 1..level /\ control[k].trail \in Nat /\ Assigned(L) \in Nat
      BY <1>0, TrailTypes, BelowCut
    <3> QED
      BY <2>1, <2>2, <3>1, <3>2, TrailTypes DEF LevelOf, Position, Kept, Stays
  <2>4. pos'[Abs(d)] = pos[Abs(d)]
    BY <1>0, <2>3, KeptPositions
  <2> QED
    BY <1>0, <2>1, <2>3, <2>4, Literals DEF Value, LevelOf, Position, Abs
<1>6. OnlyDecisions'
  BY <1>0 DEF TrailInv, OnlyDecisions, LitOf
<1> QED
  BY <1>2, <1>3, <1>4, <1>5, <1>6 DEF TrailInv

(* So does backtrack (L) followed by an assignment: the new literal is the last
   one of the trail. *)
LEMMA BacktrackAssignTrail ==
  ASSUME TypeInv, TrailInv, NEW L \in 0..level, NEW l \in Lit, NEW c \in SUBSET Lit,
         NEW a \in 0..L, a > 0 => c # {}, Abs(l) \notin Kept(L),
         BacktrackAssign(L, l, c, a)
  PROVE  TrailInv'
<1> DEFINE u == Abs(l)
           n == Cardinality(Kept(L))
<1>00. /\ KeepVal(L) \in [Var -> {-1, 0, 1}] /\ KeepLevel(L) \in [Var -> Nat]
       /\ KeepReason(L) \in [Var -> SUBSET Lit] /\ KeepPos(L) \in [Var -> Nat]
       /\ u \in Var /\ Sign(l) \in {-1, 1} /\ n \in Nat
  BY KeepTypes, KeptPositions, Literals DEF TypeInv, TypeOK
<1>01. /\ val'[u] = Sign(l) /\ vlevel'[u] = a /\ pos'[u] = n + 1
       /\ a > 0 => reason'[u] # {}
       /\ \A v \in Var \ {u} : /\ val'[v] = KeepVal(L)[v] /\ vlevel'[v] = KeepLevel(L)[v]
                               /\ reason'[v] = KeepReason(L)[v] /\ pos'[v] = KeepPos(L)[v]
  BY <1>00 DEF BacktrackAssign, Kept
<1> HIDE DEF u, n
<1>0. /\ level \in Nat /\ level' = L
      /\ \A k \in 1..L : k \in 1..level /\ control'[k] = control[k]
  BY TrailTypes, ControlPrefix DEF TypeInv, TypeOK, BacktrackAssign, level
<1>1. /\ \A v \in Kept(L) : /\ v \in Var \ {u} /\ val[v] # 0 /\ vlevel[v] \in 0..L
                            /\ val'[v] = val[v] /\ vlevel'[v] = vlevel[v]
                            /\ reason'[v] = reason[v] /\ pos'[v] = KeepPos(L)[v]
      /\ \A v \in Var \ (Kept(L) \cup {u}) : val'[v] = 0 /\ vlevel'[v] = 0
  BY <1>0, <1>00, <1>01, TrailTypes DEF Kept, Stays, KeepVal, KeepLevel, KeepReason, u
<1>2. numAssigned' = n + 1
  <2>1. {v \in Var : val'[v] # 0} = Kept(L) \cup {u}
    BY <1>00, <1>01, <1>1
  <2>2. IsFiniteSet(Kept(L)) /\ u \notin Kept(L)
    BY VarSubsets DEF Kept, u
  <2> QED
    BY <2>1, <2>2, FS_AddElement DEF numAssigned, n
<1>3. Positions'
  <2>1. \A v \in Kept(L) : pos'[v] \in 1..n
    BY <1>1, KeptPositions DEF n
  <2>2. \A v \in Var : val'[v] # 0 => v \in Kept(L) \/ v = u
    BY <1>1
  <2>3. \A v, w \in Kept(L) : pos'[v] = pos'[w] => v = w
    BY <1>1, KeptPositions
  <2> QED
    BY <1>00, <1>01, <1>2, <2>1, <2>2, <2>3 DEF Positions
<1>4. /\ Assigned(L) \in Nat /\ Assigned(L) <= n
      /\ \A k \in 1..L : control[k].trail \in Nat /\ control[k].trail <= Assigned(L)
  BY <1>0, TrailTypes, BelowCut, KeptPositions DEF n
<1>5. FramesOrdered'
  <2>1. \A j, k \in 1..L : /\ j <= k => control[j].trail <= control[k].trail
                           /\ j < k /\ control[j].decision # 0
                                => control[j].trail < control[k].trail
    BY <1>0 DEF TrailInv, FramesOrdered
  <2>2. \A k \in 1..L : /\ control[k].trail <= numAssigned'
                        /\ control[k].trail < numAssigned'
    BY <1>00, <1>2, <1>4
  <2> QED
    BY <1>0, <2>1, <2>2 DEF FramesOrdered
<1>6. LevelsAfterFrames'
  <2> SUFFICES ASSUME NEW v \in Var, vlevel'[v] > 0
               PROVE  pos'[v] > control'[vlevel'[v]].trail
    BY DEF LevelsAfterFrames
  <2>1. CASE v = u
    BY <1>0, <1>00, <1>01, <1>4, <2>1
  <2>2. CASE v # u
    <3>1. v \in Kept(L) /\ vlevel[v] \in 1..L /\ vlevel'[v] = vlevel[v]
      BY <1>0, <1>1, <2>2
    <3>2. pos[v] > control[vlevel[v]].trail
      BY <1>0, <3>1 DEF TrailInv, LevelsAfterFrames
    <3> QED
      BY <1>0, <1>1, <1>4, <3>1, <3>2, KeptPositions, TrailTypes
  <2> QED
    BY <2>1, <2>2
<1>7. DecisionsPlaced'
  <2> SUFFICES ASSUME NEW k \in 1..L, NEW d \in Lit, d = control[k].decision
               PROVE  Value(d)' > 0 /\ LevelOf(d)' = k /\ Position(d)' = control[k].trail + 1
    BY <1>0, TrailTypes DEF DecisionsPlaced, Value, LevelOf, Position
  <2>1. Value(d) > 0 /\ LevelOf(d) = k /\ Position(d) = control[k].trail + 1
    BY <1>0, Literals DEF TrailInv, DecisionsPlaced
  <2>2. Abs(d) \in Var /\ val[Abs(d)] # 0
    BY <2>1, Literals, TrailTypes DEF Value, Abs
  <2>3. Abs(d) \in Kept(L) /\ pos[Abs(d)] <= Assigned(L)
    <3>1. control[k].trail < Assigned(L)
      BY <1>0, Literals, BelowCut
    <3> QED
      BY <1>0, <1>4, <2>1, <2>2, <3>1, TrailTypes DEF LevelOf, Position, Kept, Stays
  <2>4. pos'[Abs(d)] = pos[Abs(d)]
    BY <1>1, <2>3, KeptPositions
  <2> QED
    BY <1>1, <2>1, <2>3, <2>4, Literals DEF Value, LevelOf, Position, Abs
<1>8. OnlyDecisions'
  <2> SUFFICES ASSUME NEW v \in Var, vlevel'[v] > 0, reason'[v] = {}
               PROVE  control'[vlevel'[v]].decision = LitOf(v)'
    BY DEF OnlyDecisions
  <2>1. v \in Kept(L) /\ vlevel[v] \in 1..L
    BY <1>0, <1>00, <1>01, <1>1
  <2> QED
    BY <1>0, <1>1, <2>1 DEF TrailInv, OnlyDecisions, LitOf
<1> QED
  BY <1>3, <1>5, <1>6, <1>7, <1>8 DEF TrailInv


(* Pushing a frame leaves the others where they are. *)
LEMMA PushFrame ==
  ASSUME TypeInv, NEW d \in Lit \cup {0},
         control' = Append(control, [decision |-> d, trail |-> numAssigned])
  PROVE  /\ level' = level + 1
         /\ \A k \in 1..level : k \in 1..level' /\ control'[k] = control[k]
         /\ control'[level + 1].decision = d /\ control'[level + 1].trail = numAssigned
<1>1. control \in Seq(Frames) /\ [decision |-> d, trail |-> numAssigned] \in Frames
  BY TrailTypes DEF TypeInv, TypeOK, TypeAssign, Frames
<1> QED
  BY <1>1, TrailTypes, AppendProperties DEF level

(* A decision is the first literal of its level. *)
LEMMA DecisionTrail ==
  ASSUME TypeInv, TrailInv, NEW l \in Lit, Value(l) = 0, Decision(l)
  PROVE  TrailInv'
<1> DEFINE u == Abs(l)
<1>1. /\ u \in Var /\ Sign(l) \in {-1, 1} /\ val[u] = 0 /\ vlevel[u] = 0
      /\ l = u \/ l = -u
  BY Literals, TrailTypes DEF Value, Abs
<1>2. /\ val'[u] = Sign(l) /\ vlevel'[u] = level + 1 /\ pos'[u] = numAssigned + 1
      /\ \A v \in Var \ {u} : /\ val'[v] = val[v] /\ vlevel'[v] = vlevel[v]
                              /\ reason'[v] = reason[v] /\ pos'[v] = pos[v]
  BY <1>1 DEF Decision, TypeInv, TypeOK, TypeAssign
<1>3. LitOf(u)' = l
  BY <1>1, <1>2, Literals DEF LitOf, Sign, Abs
<1> HIDE DEF u
<1>0. /\ level \in Nat /\ level' = level + 1
      /\ \A k \in 1..level : k \in 1..level' /\ control'[k] = control[k]
      /\ control'[level + 1].decision = l /\ control'[level + 1].trail = numAssigned
  BY TrailTypes, PushFrame DEF Decision
<1>4. numAssigned' = numAssigned + 1
  <2>1. {v \in Var : val'[v] # 0} = AssignedVars \cup {u} /\ u \notin AssignedVars
    BY <1>1, <1>2 DEF AssignedVars
  <2>2. IsFiniteSet(AssignedVars)
    BY VarSubsets DEF AssignedVars
  <2>3. Cardinality(AssignedVars \cup {u}) = Cardinality(AssignedVars) + 1
    BY <2>1, <2>2, FS_AddElement
  <2> QED
    BY <2>1, <2>3 DEF numAssigned, AssignedVars
<1>5. Positions'
  <2>1. \A v \in Var : val'[v] # 0 => v = u \/ (v # u /\ val[v] # 0)
    BY <1>2
  <2>2. \A v \in Var \ {u} : val[v] # 0 => pos'[v] \in 1..numAssigned
    BY <1>2 DEF TrailInv, Positions
  <2>3. \A v, w \in Var \ {u} : val[v] # 0 /\ val[w] # 0 /\ pos'[v] = pos'[w] => v = w
    BY <1>2 DEF TrailInv, Positions
  <2> QED
    BY <1>1, <1>2, <1>4, <2>1, <2>2, <2>3, TrailTypes DEF Positions
<1>6. FramesOrdered'
  <2>1. \A k \in 1..level' : k \in 1..level \/ k = level + 1
    BY <1>0
  <2>2. \A j, k \in 1..level :
          /\ j <= k => control[j].trail <= control[k].trail
          /\ j < k /\ control[j].decision # 0 => control[j].trail < control[k].trail
    BY DEF TrailInv, FramesOrdered
  <2>3. \A k \in 1..level : /\ control[k].trail \in Nat /\ control[k].trail <= numAssigned
                            /\ control[k].decision # 0 => control[k].trail < numAssigned
    BY TrailTypes DEF TrailInv, FramesOrdered
  <2> QED
    BY <1>0, <1>4, <2>1, <2>2, <2>3, TrailTypes DEF FramesOrdered
<1>7. LevelsAfterFrames'
  <2> SUFFICES ASSUME NEW v \in Var, vlevel'[v] > 0
               PROVE  pos'[v] > control'[vlevel'[v]].trail
    BY DEF LevelsAfterFrames
  <2>1. CASE v = u
    BY <1>0, <1>2, <2>1, TrailTypes
  <2>2. CASE v # u
    BY <1>0, <1>2, <2>2, TrailTypes DEF TrailInv, LevelsAfterFrames
  <2> QED
    BY <2>1, <2>2
<1>8. DecisionsPlaced'
  <2> SUFFICES ASSUME NEW k \in 1..level', NEW d \in Lit, d = control'[k].decision
               PROVE  Value(d)' > 0 /\ LevelOf(d)' = k /\ Position(d)' = control'[k].trail + 1
    <3>1. \A k \in 1..level' : control'[k].decision \in Lit \cup {0}
      BY <1>0, TrailTypes
    <3> QED
      BY <3>1 DEF DecisionsPlaced, Value, LevelOf, Position
  <2>1. CASE k = level + 1
    BY <1>0, <1>1, <1>2, <2>1, Literals DEF Value, LevelOf, Position, Sign, Abs, u
  <2>2. CASE k \in 1..level
    <3>1. /\ Value(d) > 0 /\ LevelOf(d) = k /\ Position(d) = control[k].trail + 1
          /\ control'[k] = control[k]
      BY <1>0, <2>2, Literals DEF TrailInv, DecisionsPlaced
    <3>2. Abs(d) \in Var \ {u}
      BY <1>1, <3>1, Literals, TrailTypes DEF Value, Abs
    <3> QED
      BY <1>2, <3>1, <3>2, Literals DEF Value, LevelOf, Position, Abs
  <2> QED
    BY <1>0, <2>1, <2>2
<1>9. OnlyDecisions'
  <2> SUFFICES ASSUME NEW v \in Var, vlevel'[v] > 0, reason'[v] = {}
               PROVE  control'[vlevel'[v]].decision = LitOf(v)'
    BY DEF OnlyDecisions
  <2>1. CASE v = u
    BY <1>0, <1>2, <1>3, <2>1
  <2>2. CASE v # u
    BY <1>0, <1>2, <2>2, TrailTypes DEF TrailInv, OnlyDecisions, LitOf
  <2> QED
    BY <2>1, <2>2
<1> QED
  BY <1>5, <1>6, <1>7, <1>8, <1>9 DEF TrailInv

LEMMA PseudoDecisionTrail ==
  ASSUME TypeInv, TrailInv, PseudoDecision
  PROVE  TrailInv'
<1>00. /\ 0 \in Lit \cup {0} /\ UNCHANGED <<val, vlevel, reason, pos>>
       /\ control' = Append(control, [decision |-> 0, trail |-> numAssigned])
  BY DEF PseudoDecision
<1>0. /\ level \in Nat /\ level' = level + 1
      /\ \A k \in 1..level : k \in 1..level' /\ control'[k] = control[k]
      /\ control'[level + 1].decision = 0 /\ control'[level + 1].trail = numAssigned
      /\ UNCHANGED <<val, vlevel, reason, pos>> /\ numAssigned' = numAssigned
      /\ \A k \in 1..level' : k \in 1..level \/ k = level + 1
  <2>1. /\ level' = level + 1
        /\ \A k \in 1..level : k \in 1..level' /\ control'[k] = control[k]
        /\ control'[level + 1].decision = 0 /\ control'[level + 1].trail = numAssigned
    BY <1>00, PushFrame
  <2> QED
    <3>1. level \in Nat /\ numAssigned' = numAssigned
      BY <1>00, TrailTypes DEF numAssigned
    <3>2. \A k \in 1..level' : k \in 1..level \/ k = level + 1
      BY <2>1, <3>1
    <3>3. val' = val /\ vlevel' = vlevel /\ reason' = reason /\ pos' = pos
      BY <1>00
    <3> QED
      BY <2>1, <3>1, <3>2, <3>3, Zenon
<1>1. Positions'
  BY <1>0 DEF TrailInv, Positions
<1>2. FramesOrdered'
  <2>2. \A j, k \in 1..level :
          /\ j <= k => control[j].trail <= control[k].trail
          /\ j < k /\ control[j].decision # 0 => control[j].trail < control[k].trail
    BY DEF TrailInv, FramesOrdered
  <2>3. \A k \in 1..level : /\ control[k].trail \in Nat /\ control[k].trail <= numAssigned
                            /\ control[k].decision # 0 => control[k].trail < numAssigned
    BY TrailTypes DEF TrailInv, FramesOrdered
  <2> QED
    BY <1>0, <2>2, <2>3, TrailTypes DEF FramesOrdered
<1>3. LevelsAfterFrames' /\ OnlyDecisions'
  BY <1>0, TrailTypes DEF TrailInv, LevelsAfterFrames, OnlyDecisions, LitOf
<1>4. DecisionsPlaced'
  <2> SUFFICES ASSUME NEW k \in 1..level, NEW d \in Lit, d = control[k].decision
               PROVE  Value(d)' > 0 /\ LevelOf(d)' = k /\ Position(d)' = control[k].trail + 1
    BY <1>0, TrailTypes DEF DecisionsPlaced, Value, LevelOf, Position
  <2> QED
    BY <1>0, Literals DEF TrailInv, DecisionsPlaced, Value, LevelOf, Position
<1> QED
  BY <1>1, <1>2, <1>3, <1>4 DEF TrailInv

(* Steps that leave the trail alone, and make no reason empty. *)
LEMMA SameTrail ==
  ASSUME TrailInv, UNCHANGED <<val, vlevel, pos, control>>,
         \A v \in Var : reason'[v] = {} => reason[v] = {}
  PROVE  TrailInv'
<1>1. level' = level /\ numAssigned' = numAssigned
  BY DEF level, numAssigned
<1>2. /\ \A l : /\ Value(l)' = Value(l) /\ LevelOf(l)' = LevelOf(l)
                /\ Position(l)' = Position(l)
      /\ \A v : LitOf(v)' = LitOf(v)
  BY DEF Value, LevelOf, Position, LitOf
<1> QED
  BY <1>1, <1>2 DEF TrailInv, Positions, FramesOrdered, LevelsAfterFrames, DecisionsPlaced,
     OnlyDecisions, LitOf, Value, LevelOf, Position


(* A literal assigned above the root level has a reason, unless it is decided. *)
LEMMA ReasonNotEmpty ==
  ASSUME NEW a, NEW l, NEW c, NEW L, IsAssignmentLevel(a, l, c, L), a > 0
  PROVE  c # {}
  BY DEF IsAssignmentLevel

(* Every step keeps the trail in order. *)
LEMMA TrailStep ==
  ASSUME TypeInv, TrailInv, [Next]_vars
  PROVE  TrailInv'
<1>0. /\ level \in Nat /\ level \in 0..level /\ 0 \in 0..level
      /\ \A l \in Lit : LevelOf(l) \in 0..level
      /\ \A c \in DB : c \in SUBSET Lit
      /\ conflict \in SUBSET Lit /\ work \in SUBSET Lit
  BY LevelType, TrailTypes, Literals
     DEF TypeInv, TypeOK, TypeDB, TypeAnalysis, LevelOf, DB
<1>1. CASE PropagateUnit
  <2>0. PICK c \in DB : \E l \in c : \E a \in 0..level :
          /\ Value(l) = 0 /\ IsAssignmentLevel(a, l, c, level)
          /\ BacktrackAssign(level, l, c, a)
    BY <1>1 DEF PropagateUnit, Watching
  <2>1. PICK l \in c, a \in 0..level :
          /\ Value(l) = 0 /\ IsAssignmentLevel(a, l, c, level)
          /\ BacktrackAssign(level, l, c, a)
    BY <2>0
  <2>2. l \in Lit /\ Abs(l) \notin Kept(level)
    <3>1. l \in Lit /\ l \in Int
      BY <1>0, <2>1, Literals
    <3>2. val[Abs(l)] = 0
      BY <2>1, <3>1, Literals, TrailTypes DEF Value, Abs
    <3> QED
      BY <3>1, <3>2 DEF Kept, Stays
  <2> QED
    BY <1>0, <2>1, <2>2, ReasonNotEmpty, BacktrackAssignTrail
<1>2. CASE AnalyzeForced
  <2>1. PICK l \in conflict, a \in 0..level :
          /\ IsForced(l) /\ IsAssignmentLevel(a, l, conflict, LevelOf(l) - 1)
          /\ BacktrackAssign(LevelOf(l) - 1, l, conflict, a)
    BY <1>2 DEF AnalyzeForced
  <2>2. l \in Lit /\ LevelOf(l) - 1 \in 0..level /\ Abs(l) \notin Kept(LevelOf(l) - 1)
    BY <1>0, <2>1 DEF IsForced, Kept, Stays, LevelOf
  <2>3. a \in 0..LevelOf(l) - 1
    BY <1>0, <2>1, <2>2, AssignmentLevel DEF IsForced
  <2> QED
    BY <1>0, <2>1, <2>2, <2>3, ReasonNotEmpty, BacktrackAssignTrail
<1>3. CASE AnalyzeRoot
  BY <1>0, <1>3, BacktrackTrail DEF AnalyzeRoot
<1>4. CASE AnalyzeStart
  <2>1. PICK L \in 1..level : Backtrack(L)
    BY <1>4 DEF AnalyzeStart
  <2> QED
    BY <1>0, <2>1, BacktrackTrail
<1>5. CASE StrengthenContinue
  <2>1. PICK l \in work : /\ reason' = [reason EXCEPT ![Abs(l)] = Antecedent(l)]
                          /\ Strengthens(l)
    BY <1>5 DEF StrengthenContinue
  <2>2. Antecedent(l) # {}
    BY <2>1, FS_EmptySet DEF Strengthens
  <2>3. \A v \in Var : reason'[v] = {} => reason[v] = {}
    BY <2>1, <2>2 DEF TypeInv, TypeOK, TypeAssign
  <2> QED
    BY <1>5, <2>3, SameTrail DEF StrengthenContinue
<1>6. CASE StrengthenForced
  <2>0. PICK l \in work : \E f \in Antecedent(l) : \E j, L, a \in 0..level :
          /\ Open(Antecedent(l)) = {f}
          /\ IsMaxLevel(j, Antecedent(l) \ {f}) /\ L \in ActualLevels(j)
          /\ IsAssignmentLevel(a, f, Antecedent(l), L)
          /\ BacktrackAssign(L, f, Antecedent(l), a)
    BY <1>6 DEF StrengthenForced
  <2>1. PICK f \in Antecedent(l), j \in 0..level, L \in 0..level, a \in 0..level :
          /\ Open(Antecedent(l)) = {f}
          /\ IsMaxLevel(j, Antecedent(l) \ {f}) /\ L \in ActualLevels(j)
          /\ IsAssignmentLevel(a, f, Antecedent(l), L)
          /\ BacktrackAssign(L, f, Antecedent(l), a)
    BY <2>0
  <2>2. Antecedent(l) \in SUBSET Lit /\ level > 0
    BY <1>0, <1>6, <2>1, ResolventType DEF StrengthenForced, TypeInv, AboveRoot, Analyzing
  <2>3. /\ L \in 0..level - 1 /\ LevelOf(f) = level
        /\ \A k \in Antecedent(l) \ {f} : LevelOf(k) <= L
    BY <2>1, <2>2, DrivingLevel
  <2>4. a \in 0..L /\ Abs(f) \notin Kept(L)
    BY <1>0, <2>1, <2>3, AssignmentLevel DEF Kept, Stays, LevelOf
  <2> QED
    BY <1>0, <2>1, <2>2, <2>4, ReasonNotEmpty, BacktrackAssignTrail
<1>7. CASE Learn
  <2>1. PICK u \in work, jump \in 0..level, L \in 0..level, a \in 0..level :
          LET c == IF work = {u} THEN {} ELSE work IN
          /\ Open(work) = {u}
          /\ IsMaxLevel(jump, work \ {u}) /\ L \in ActualLevels(jump)
          /\ IsAssignmentLevel(a, u, c, L)
          /\ BacktrackAssign(L, u, c, a)
    BY <1>7 DEF Learn
  <2>2. level > 0
    BY <1>7 DEF Learn, TypeInv, AboveRoot, Analyzing
  <2>3. /\ L \in 0..level - 1 /\ LevelOf(u) = level
        /\ \A k \in work \ {u} : LevelOf(k) <= L
    BY <1>0, <2>1, <2>2, DrivingLevel
  <2> DEFINE c == IF work = {u} THEN {} ELSE work
  <2>4. a \in 0..L /\ c \in SUBSET Lit /\ Abs(u) \notin Kept(L)
    BY <1>0, <2>1, <2>3, AssignmentLevel DEF Kept, Stays, LevelOf
  <2> QED
    BY <1>0, <2>1, <2>4, ReasonNotEmpty, BacktrackAssignTrail
<1>8. CASE Restart
  <2> DEFINE trivial == IF control[Len(assumptions) + 1].decision = 0
                        THEN Len(assumptions) + 1 ELSE Len(assumptions)
  <2>1. Len(assumptions) \in Nat
    BY LenProperties DEF TypeInv, TypeOK, TypeUser
  <2>2. trivial \in 0..level
    BY <1>0, <1>8, <2>1 DEF Restart
  <2> HIDE DEF trivial
  <2>3. PICK L \in trivial..(IF opts.restartreusetrail THEN level ELSE trivial) :
             Backtrack(L)
    BY <1>8 DEF Restart, trivial
  <2> QED
    BY <1>0, <2>2, <2>3, BacktrackTrail
<1>9. CASE ReduceUnits \/ Assume \/ Constrain
  BY <1>0, <1>9, BacktrackTrail DEF ReduceUnits, Assume, Constrain
<1>10. CASE Reduce
  <2>1. \A v \in Var : reason'[v] = FlushFalse(reason[v])
    BY <1>10 DEF Reduce
  <2>2. \A c : FlushFalse(c) = {} => c = {}
    <3>1. Cardinality({}) < 2
      BY FS_EmptySet
    <3> QED
      BY <3>1 DEF FlushFalse
  <2> QED
    BY <1>10, <2>1, <2>2, SameTrail DEF Reduce
<1>11. CASE Decide
  BY <1>11, DecisionTrail, LevelType DEF Decide, MayDecide
<1>12. CASE DecidePseudo
  BY <1>12, PseudoDecisionTrail DEF DecidePseudo
<1>13. CASE Add
  <2>1. Head(inbox) \in SUBSET Lit
    BY <1>13, HeadTailProperties DEF Add, TypeInv, TypeOK, TypeDB
  <2>2. CASE Backtrack(0)
    BY <1>0, <2>2, BacktrackTrail
  <2>3. ASSUME NEW l \in NewLiterals(Head(inbox)), BacktrackAssign(0, l, {}, 0)
        PROVE  TrailInv'
    <3>1. l \in Lit /\ Abs(l) \notin Kept(0)
      <4>1. l \in Lit /\ (val[Abs(l)] = 0 \/ vlevel[Abs(l)] > 0)
        BY <2>1 DEF NewLiterals, LevelOf
      <4> QED
        BY <4>1, TrailTypes, Literals DEF Kept, Stays
    <3> QED
      BY <1>0, <2>3, <3>1, BacktrackAssignTrail
  <2> QED
    BY <1>13, <2>2, <2>3 DEF Add
<1>14. CASE Solve
  <2>1. CASE UNCHANGED assignVars
    BY <2>1, SameTrail DEF assignVars
  <2> QED
    BY <1>0, <1>14, <2>1, BacktrackTrail DEF Solve
<1>15. CASE Shrink
  BY <1>15, SameTrail DEF Shrink, KeepBlock, ShrinkBlock, ShrinkAlongReason, ShrunkenBlock,
     ShrinkingFailed, MinimizeLiteral, MinimizeRecursively, MinimizeDone,
     shrinkFrame, assignVars
<1>16. CASE PropagateConflict \/ PropagateFail \/ PropagateAdded \/ Resolve \/ FirstUIP
            \/ FoundModel \/ Interrupt \/ DecideFail \/ Failed
  BY <1>16, SameTrail DEF PropagateConflict, PropagateFail, PropagateAdded, Resolve, FirstUIP,
     FoundModel, Interrupt, DecideFail, Failed, assignVars
<1>17. CASE PropagateNext
  BY <1>17, SameTrail DEF PropagateNext
<1>18. CASE UNCHANGED vars
  BY <1>18, SameTrail DEF vars, assignVars
<1> QED
  BY <1>1, <1>2, <1>3, <1>4, <1>5, <1>6, <1>7, <1>8, <1>9, <1>10, <1>11, <1>12, <1>13,
     <1>14, <1>15, <1>16, <1>17, <1>18
     DEF Next, User, Solver, Finished, Propagate, Analyze, Search

LEMMA TrailInit == Init => TrailInv
<1> SUFFICES ASSUME Init PROVE TrailInv
  OBVIOUS
<1>1. level = 0
  BY EmptySeq DEF Init, level
<1> QED
  BY <1>1 DEF Init, TrailInv, Positions, FramesOrdered, LevelsAfterFrames,
     DecisionsPlaced, OnlyDecisions

(* With out-of-order literals, backtracking to any level, on-the-fly
   strengthening and restarts that reuse the trail: the trail lists the assigned
   variables without gaps, behind the frames of their levels, and decisions are
   where the control frames say. *)
THEOREM TrailCorrect == Spec => []TrailLevels
<1>1. TypeInv /\ TrailInv => TrailLevels
  <2> SUFFICES ASSUME TypeInv, TrailInv PROVE TrailLevels
    OBVIOUS
  <2>1. {pos[v] : v \in {w \in Var : val[w] # 0}} = 1..numAssigned
    <3>1. \A p \in 1..numAssigned : \E v \in AssignedVars : pos[v] = p
      <4>1. numAssigned \in 0..numAssigned
        BY TrailTypes
      <4> QED
        BY <4>1, NoGaps DEF TrailInv
    <3> QED
      BY <3>1 DEF TrailInv, Positions, AssignedVars
  <2>2. \A v \in Var : vlevel[v] > 0 => /\ vlevel[v] <= level
                                        /\ pos[v] > control[vlevel[v]].trail
    BY TrailTypes DEF TrailInv, LevelsAfterFrames
  <2> QED
    BY <2>1, <2>2 DEF TrailLevels, TrailInv, DecisionsPlaced
<1> QED
  BY <1>1, TypeInit, TypeStep, TrailInit, TrailStep, PTL DEF Spec


-----------------------------------------------------------------------------
(* Entailment.                                                             *)

(* A literal and its complement are never both made true. *)
LEMMA Complement ==
  ASSUME NEW m \in [Var -> BOOLEAN], NEW l \in Lit
  PROVE  Makes(m, l) <=> ~Makes(m, -l)
<1>1. l \in Int /\ l # 0 /\ (l > 0 => l \in Var) /\ (l < 0 => -l \in Var) /\ -(-l) = l
  BY Literals DEF Lit
<1> QED
  BY <1>1 DEF Makes

(* The resolution rule. *)
LEMMA Resolution ==
  ASSUME NEW c \in SUBSET Lit, NEW d \in SUBSET Lit, NEW l \in Lit,
         Entailed(c), Entailed(d)
  PROVE  Entailed((c \ {l}) \cup (d \ {-l}))
<1> SUFFICES ASSUME NEW m \in Models(orig)
             PROVE  \E k \in (c \ {l}) \cup (d \ {-l}) : Makes(m, k)
  BY DEF Entailed
<1>1. m \in [Var -> BOOLEAN]
  BY DEF Models
<1>2. CASE Makes(m, l)
  <2>1. PICK k \in d : Makes(m, k)
    BY DEF Entailed
  <2> QED
    BY <1>1, <1>2, <2>1, Complement
<1>3. CASE ~Makes(m, l)
  <2>1. PICK k \in c : Makes(m, k)
    BY DEF Entailed
  <2> QED
    BY <1>3, <2>1
<1> QED
  BY <1>2, <1>3

LEMMA Weakening ==
  ASSUME NEW c, NEW d, c \subseteq d, Entailed(c)
  PROVE  Entailed(d)
  BY DEF Entailed

(* Literals that are false in every model can be dropped. *)
LEMMA DropFalse ==
  ASSUME NEW c \in SUBSET Lit, NEW d, Entailed(c), \A k \in c \ d : Entailed({-k})
  PROVE  Entailed(d)
<1> SUFFICES ASSUME NEW m \in Models(orig)
             PROVE  \E k \in d : Makes(m, k)
  BY DEF Entailed
<1>1. m \in [Var -> BOOLEAN]
  BY DEF Models
<1>2. PICK k \in c : Makes(m, k)
  BY DEF Entailed
<1>3. k \notin d => Makes(m, -k)
  BY DEF Entailed
<1> QED
  BY <1>1, <1>2, <1>3, Complement

(* Adding clauses keeps what was entailed. *)
LEMMA EntailedLater ==
  ASSUME orig \subseteq orig', NEW c, Entailed(c)
  PROVE  Entailed(c)'
  BY DEF Entailed, Models

(* A literal is true or false by the value of its variable. *)
LEMMA FalseLiteral ==
  ASSUME TypeInv, NEW l \in Lit, Value(l) < 0
  PROVE  /\ val[Abs(l)] # 0 /\ LitOf(Abs(l)) = -l /\ ~(Value(-l) < 0)
<1>1. /\ l \in Int /\ l # 0 /\ Abs(l) \in Var
      /\ (l > 0 /\ Abs(l) = l) \/ (l < 0 /\ Abs(l) = -l /\ -(-l) = l)
  BY Literals DEF Abs
<1> QED
  BY <1>1, TrailTypes DEF Value, LitOf

DBEntailed == \A c \in DB : Entailed(c)
ReasonsEntailed == \A v \in Var : reason[v] # {} => Entailed(reason[v])
RootsEntailed == \A v \in Var : val[v] # 0 /\ vlevel[v] = 0 => Entailed({LitOf(v)})

(* The other literals of a reason are false, on no higher level. *)
ReasonsFalse ==
  \A v \in Var : \A l \in reason[v] :
    Abs(l) = v \/ (Value(l) < 0 /\ LevelOf(l) <= vlevel[v])

AssignmentEntailed == ReasonsEntailed /\ RootsEntailed /\ ReasonsFalse

(* A conflict is only pending where the main loop looks for it. *)
ConflictInv ==
  /\ pc \in {"propagate", "analyze"} /\ conflict # {} => Falsified(conflict) /\ Entailed(conflict)
  /\ pc = "analyze" => conflict # {}
  /\ pc = "steady" /\ ~unsat => conflict = {}

WorkInv ==
  /\ Analyzing => Falsified(work) /\ Entailed(work)
  /\ pc \in {"block", "literal"} => Falsified(saved) /\ Entailed(saved)
  /\ pc \in {"shrink", "block", "literal"} => Falsified(todo) /\ Falsified(block)

UnsatInv == unsat => Entailed({}) /\ pc = "steady"

EntailInv == DBEntailed /\ AssignmentEntailed /\ ConflictInv /\ WorkInv /\ UnsatInv

(* Everything the proofs rest on. *)
IInv == TypeInv /\ TrailInv /\ EntailInv

(* Literals that are false on the root level can be dropped. *)
LEMMA RootFalse ==
  ASSUME TypeInv, RootsEntailed, NEW k \in Lit, Value(k) < 0, LevelOf(k) = 0
  PROVE  Entailed({-k})
  BY FalseLiteral, Literals DEF RootsEntailed, LevelOf

LEMMA NonRootEntailed ==
  ASSUME TypeInv, RootsEntailed, NEW c \in SUBSET Lit, Entailed(c),
         \A k \in c : LevelOf(k) = 0 => Value(k) < 0
  PROVE  Entailed(NonRoot(c))
<1>1. \A k \in c : LevelOf(k) \in Nat
  <2>1. SUFFICES ASSUME NEW k \in c PROVE LevelOf(k) \in Nat
    OBVIOUS
  <2>2. Abs(k) \in Var
    BY Literals
  <2>3. vlevel[Abs(k)] \in 0..level /\ level \in Nat
    BY <2>2, TrailTypes
  <2> QED
    BY <2>3 DEF LevelOf
<1>2. \A k \in c \ NonRoot(c) : Entailed({-k})
  BY <1>1, RootFalse DEF NonRoot
<1> QED
  BY <1>2, DropFalse


(* What backtrack (L) does to a single variable. *)
LEMMA BacktrackEffect ==
  ASSUME TypeInv, NEW L \in 0..level, Backtrack(L)
  PROVE  \A v \in Var :
    /\ v \in Kept(L) => val'[v] = val[v] /\ vlevel'[v] = vlevel[v] /\ reason'[v] = reason[v]
    /\ v \notin Kept(L) => val'[v] = 0 /\ vlevel'[v] = 0 /\ reason'[v] = {}
  BY DEF Backtrack, Kept, KeepVal, KeepLevel, KeepReason

(* And backtrack (L) followed by the assignment of l. *)
LEMMA BacktrackAssignEffect ==
  ASSUME TypeInv, NEW L \in 0..level, NEW l \in Lit, NEW c \in SUBSET Lit, NEW a \in 0..L,
         BacktrackAssign(L, l, c, a)
  PROVE  /\ val'[Abs(l)] = Sign(l) /\ vlevel'[Abs(l)] = a
         /\ reason'[Abs(l)] = IF a = 0 THEN {} ELSE c
         /\ \A v \in Var \ {Abs(l)} :
              /\ v \in Kept(L) => /\ val'[v] = val[v] /\ vlevel'[v] = vlevel[v]
                                  /\ reason'[v] = reason[v]
              /\ v \notin Kept(L) => val'[v] = 0 /\ vlevel'[v] = 0 /\ reason'[v] = {}
<1>1. /\ KeepVal(L) \in [Var -> {-1, 0, 1}] /\ KeepLevel(L) \in [Var -> Nat]
      /\ KeepReason(L) \in [Var -> SUBSET Lit] /\ Abs(l) \in Var
  BY KeepTypes, Literals DEF TypeInv, TypeOK
<1>2. /\ val' = [KeepVal(L) EXCEPT ![Abs(l)] = Sign(l)]
      /\ vlevel' = [KeepLevel(L) EXCEPT ![Abs(l)] = a]
      /\ reason' = [KeepReason(L) EXCEPT ![Abs(l)] = IF a = 0 THEN {} ELSE c]
  BY DEF BacktrackAssign
<1>3. \A v \in Var :
        /\ v \in Kept(L) => /\ KeepVal(L)[v] = val[v] /\ KeepLevel(L)[v] = vlevel[v]
                            /\ KeepReason(L)[v] = reason[v]
        /\ v \notin Kept(L) => /\ KeepVal(L)[v] = 0 /\ KeepLevel(L)[v] = 0
                               /\ KeepReason(L)[v] = {}
  BY DEF Kept, KeepVal, KeepLevel, KeepReason
<1> QED
  BY <1>1, <1>2, <1>3

(* The value of a literal only depends on its variable. *)
LEMMA SameValue ==
  ASSUME NEW k \in Lit, val'[Abs(k)] = val[Abs(k)], vlevel'[Abs(k)] = vlevel[Abs(k)]
  PROVE  Value(k)' = Value(k) /\ LevelOf(k)' = LevelOf(k)
<1>1. (k > 0 /\ Abs(k) = k) \/ (~(k > 0) /\ Abs(k) = -k)
  BY Literals DEF Abs
<1> QED
  BY <1>1 DEF Value, LevelOf

(* False literals of a level that is left stay false. *)
LEMMA FalseKept ==
  ASSUME TypeInv, NEW L \in 0..level, NEW k \in Lit, Value(k) < 0, LevelOf(k) <= L
  PROVE  Abs(k) \in Kept(L)
  BY FalseLiteral, Literals DEF Kept, Stays, LevelOf

LEMMA BacktrackEntailed ==
  ASSUME TypeInv, AssignmentEntailed, orig \subseteq orig', NEW L \in 0..level, Backtrack(L)
  PROVE  AssignmentEntailed'
<1>1. ReasonsEntailed'
  <2> SUFFICES ASSUME NEW v \in Var, NEW r, r = reason'[v], r # {}
               PROVE  Entailed(r)'
    BY DEF ReasonsEntailed, Entailed
  <2>1. r = reason[v] /\ Entailed(r)
    BY BacktrackEffect DEF AssignmentEntailed, ReasonsEntailed
  <2> QED
    BY <2>1, EntailedLater
<1>2. RootsEntailed'
  <2> SUFFICES ASSUME NEW v \in Var, val'[v] # 0, vlevel'[v] = 0
               PROVE  Entailed({LitOf(v)})'
    BY DEF RootsEntailed
  <2>1. val'[v] = val[v] /\ vlevel'[v] = vlevel[v]
    BY BacktrackEffect
  <2>2. LitOf(v)' = LitOf(v) /\ Entailed({LitOf(v)})
    BY <2>1 DEF AssignmentEntailed, RootsEntailed, LitOf
  <2> QED
    BY <2>2, EntailedLater
<1>3. ReasonsFalse'
  <2> SUFFICES ASSUME NEW v \in Var, NEW k \in reason'[v], Abs(k) # v
               PROVE  Value(k)' < 0 /\ LevelOf(k)' <= vlevel'[v]
    BY DEF ReasonsFalse
  <2>1. v \in Kept(L) /\ vlevel'[v] = vlevel[v] /\ reason'[v] = reason[v]
    BY BacktrackEffect
  <2>2. k \in Lit /\ Value(k) < 0 /\ LevelOf(k) <= vlevel[v] /\ vlevel[v] <= L
    BY <2>1 DEF AssignmentEntailed, ReasonsFalse, Kept, Stays, TypeInv, TypeOK, TypeAssign
  <2>3. LevelOf(k) <= L
    BY <2>2, TrailTypes, Literals DEF LevelOf
  <2>4. Abs(k) \in Kept(L) /\ Abs(k) \in Var
    BY <2>2, <2>3, FalseKept, Literals
  <2>5. val'[Abs(k)] = val[Abs(k)] /\ vlevel'[Abs(k)] = vlevel[Abs(k)]
    BY <2>4, BacktrackEffect
  <2> QED
    BY <2>1, <2>2, <2>5, SameValue
<1> QED
  BY <1>1, <1>2, <1>3 DEF AssignmentEntailed

LEMMA BacktrackAssignEntailed ==
  ASSUME TypeInv, AssignmentEntailed, orig \subseteq orig', NEW L \in 0..level,
         NEW l \in Lit, NEW c \in SUBSET Lit, NEW a \in 0..L, Abs(l) \notin Kept(L),
         BacktrackAssign(L, l, c, a),
         a = 0 => Entailed({l})',
         a > 0 => Entailed(c),
         \A k \in c : Abs(k) = Abs(l) \/ (Value(k) < 0 /\ LevelOf(k) <= a)
  PROVE  AssignmentEntailed'
<1>0. \A v \in Var : v # Abs(l) =>
        /\ v \in Kept(L) => /\ val'[v] = val[v] /\ vlevel'[v] = vlevel[v]
                            /\ reason'[v] = reason[v]
        /\ v \notin Kept(L) => val'[v] = 0 /\ vlevel'[v] = 0 /\ reason'[v] = {}
  <2>1. \A v \in Var \ {Abs(l)} :
        /\ v \in Kept(L) => /\ val'[v] = val[v] /\ vlevel'[v] = vlevel[v]
                            /\ reason'[v] = reason[v]
        /\ v \notin Kept(L) => val'[v] = 0 /\ vlevel'[v] = 0 /\ reason'[v] = {}
    BY BacktrackAssignEffect
  <2> QED
    BY <2>1
<1>01. /\ vlevel'[Abs(l)] = a /\ reason'[Abs(l)] = IF a = 0 THEN {} ELSE c
       /\ level \in Nat /\ L \in Nat /\ a \in Nat /\ a <= L
  <2>1. vlevel'[Abs(l)] = a /\ reason'[Abs(l)] = IF a = 0 THEN {} ELSE c
    BY BacktrackAssignEffect
  <2>2. level \in Nat
    BY TrailTypes
  <2> QED
    BY <2>1, <2>2
<1>1. Abs(l) \in Var /\ LitOf(Abs(l))' = l
  BY BacktrackAssignEffect, Literals DEF LitOf, Sign, Abs
<1>2. ReasonsEntailed'
  <2> SUFFICES ASSUME NEW v \in Var, NEW r, r = reason'[v], r # {}
               PROVE  Entailed(r)'
    BY DEF ReasonsEntailed, Entailed
  <2>1. CASE v = Abs(l)
    <3>1. r = c /\ Entailed(r)
      BY <1>01, <2>1
    <3> QED
      BY <3>1, EntailedLater
  <2>2. CASE v # Abs(l)
    <3>1. r = reason[v]
      BY <1>0, <2>2
    <3>2. Entailed(r)
      BY <3>1 DEF AssignmentEntailed, ReasonsEntailed
    <3> QED
      BY <3>2, EntailedLater
  <2> QED
    BY <2>1, <2>2
<1>3. RootsEntailed'
  <2> SUFFICES ASSUME NEW v \in Var, val'[v] # 0, vlevel'[v] = 0
               PROVE  Entailed({LitOf(v)})'
    BY DEF RootsEntailed
  <2>1. CASE v = Abs(l)
    <3>1. a = 0
      BY <2>1, BacktrackAssignEffect
    <3> QED
      BY <1>1, <2>1, <3>1
  <2>2. CASE v # Abs(l)
    <3>1. val'[v] = val[v] /\ vlevel'[v] = vlevel[v]
      BY <1>0, <2>2
    <3>2. LitOf(v)' = LitOf(v) /\ Entailed({LitOf(v)})
      BY <3>1 DEF AssignmentEntailed, RootsEntailed, LitOf
    <3> QED
      BY <3>2, EntailedLater
  <2> QED
    BY <2>1, <2>2
<1>4. ASSUME NEW k \in Lit, Value(k) < 0, LevelOf(k) <= L
      PROVE  Value(k)' < 0 /\ LevelOf(k)' = LevelOf(k)
  <2>1. Abs(k) \in Kept(L) /\ Abs(k) \in Var \ {Abs(l)}
    BY <1>4, FalseKept, Literals
  <2>2. val'[Abs(k)] = val[Abs(k)] /\ vlevel'[Abs(k)] = vlevel[Abs(k)]
    BY <1>0, <2>1
  <2> QED
    BY <1>4, <2>2, SameValue
<1>5. ReasonsFalse'
  <2> SUFFICES ASSUME NEW v \in Var, NEW k \in reason'[v], Abs(k) # v
               PROVE  Value(k)' < 0 /\ LevelOf(k)' <= vlevel'[v]
    BY DEF ReasonsFalse
  <2>1. CASE v = Abs(l)
    <3>1. k \in c /\ vlevel'[v] = a /\ a \in Nat /\ a <= L /\ L \in Nat
      BY <1>01, <2>1
    <3>2. k \in Lit /\ Value(k) < 0 /\ LevelOf(k) <= a /\ LevelOf(k) \in Nat
      BY <2>1, <3>1, TrailTypes, Literals DEF LevelOf
    <3> QED
      BY <1>4, <3>1, <3>2
  <2>2. CASE v # Abs(l)
    <3>1. v \in Kept(L) /\ vlevel'[v] = vlevel[v] /\ reason'[v] = reason[v]
      BY <1>0, <2>2
    <3>2. k \in Lit /\ Value(k) < 0 /\ LevelOf(k) <= vlevel[v] /\ vlevel[v] <= L
      BY <3>1 DEF AssignmentEntailed, ReasonsFalse, Kept, Stays, TypeInv, TypeOK, TypeAssign
    <3>3. LevelOf(k) <= L
      BY <3>2, TrailTypes, Literals DEF LevelOf
    <3> QED
      BY <1>4, <3>1, <3>2, <3>3
  <2> QED
    BY <2>1, <2>2
<1> QED
  BY <1>2, <1>3, <1>5 DEF AssignmentEntailed

(* A literal implied by an entailed clause, on the level propagation, forced
   conflicts and learned clauses give it. *)
LEMMA ImpliedEntailed ==
  ASSUME TypeInv, AssignmentEntailed, orig' = orig, NEW L \in 0..level,
         NEW l \in Lit, NEW c \in SUBSET Lit, NEW a \in 0..L, Abs(l) \notin Kept(L),
         IsAssignmentLevel(a, l, c, L), BacktrackAssign(L, l, c, a),
         c # {}, Entailed(c),
         \A k \in c \ {l} : Value(k) < 0 /\ LevelOf(k) <= L
  PROVE  AssignmentEntailed'
<1>1. \A k \in c \ {l} : LevelOf(k) <= a /\ LevelOf(k) \in Nat
  BY TrailTypes, Literals DEF IsAssignmentLevel, IsMaxLevel, LevelOf
<1>2. ASSUME a = 0
      PROVE  Entailed({l})'
  <2>1. \A k \in c \ {l} : LevelOf(k) = 0
    BY <1>1, <1>2
  <2>2. \A k \in c \ {l} : Entailed({-k})
    BY <2>1, RootFalse DEF AssignmentEntailed
  <2>3. Entailed({l})
    BY <2>2, DropFalse
  <2> QED
    BY <2>3, EntailedLater
<1>3. \A k \in c : Abs(k) = Abs(l) \/ (Value(k) < 0 /\ LevelOf(k) <= a)
  BY <1>1
<1> QED
  BY <1>2, <1>3, BacktrackAssignEntailed

LEMMA DecisionEntailed ==
  ASSUME TypeInv, AssignmentEntailed, orig' = orig, NEW l \in Lit, Value(l) = 0, Decision(l)
  PROVE  AssignmentEntailed'
<1>1. /\ Abs(l) \in Var /\ val[Abs(l)] = 0 /\ level \in Nat
  BY Literals, TrailTypes DEF Value, Abs
<1>2. /\ val'[Abs(l)] = Sign(l) /\ vlevel'[Abs(l)] = level + 1 /\ reason'[Abs(l)] = {}
      /\ \A v \in Var \ {Abs(l)} : /\ val'[v] = val[v] /\ vlevel'[v] = vlevel[v]
                                   /\ reason'[v] = reason[v]
  BY <1>1 DEF Decision, TypeInv, TypeOK, TypeAssign
<1>3. ReasonsEntailed'
  BY <1>2, EntailedLater DEF AssignmentEntailed, ReasonsEntailed
<1>4. RootsEntailed'
  <2> SUFFICES ASSUME NEW v \in Var, val'[v] # 0, vlevel'[v] = 0
               PROVE  Entailed({LitOf(v)})'
    BY DEF RootsEntailed
  <2>0. v # Abs(l)
    BY <1>1, <1>2
  <2>1. LitOf(v)' = LitOf(v) /\ Entailed({LitOf(v)})
    BY <1>2, <2>0 DEF AssignmentEntailed, RootsEntailed, LitOf
  <2> QED
    BY <2>1, EntailedLater
<1>5. ReasonsFalse'
  <2> SUFFICES ASSUME NEW v \in Var, NEW k \in reason'[v], Abs(k) # v
               PROVE  Value(k)' < 0 /\ LevelOf(k)' <= vlevel'[v]
    BY DEF ReasonsFalse
  <2>1. /\ v # Abs(l) /\ reason'[v] = reason[v] /\ vlevel'[v] = vlevel[v]
        /\ k \in Lit /\ Value(k) < 0 /\ LevelOf(k) <= vlevel[v]
    BY <1>2 DEF AssignmentEntailed, ReasonsFalse, TypeInv, TypeOK, TypeAssign
  <2>2. Abs(k) \in Var \ {Abs(l)}
    BY <1>1, <2>1, FalseLiteral, Literals
  <2> QED
    BY <1>2, <2>1, <2>2, SameValue
<1> QED
  BY <1>3, <1>4, <1>5 DEF AssignmentEntailed

LEMMA SameEntailed ==
  ASSUME AssignmentEntailed, orig' = orig, UNCHANGED <<val, vlevel, reason>>
  PROVE  AssignmentEntailed'
  BY DEF AssignmentEntailed, ReasonsEntailed, RootsEntailed, ReasonsFalse, Entailed, Models,
     LitOf, Value, LevelOf


(* The clauses after a step that adds entailed clauses only. *)
LEMMA MoreClauses ==
  ASSUME DBEntailed, orig' = orig, \A c \in DB' : c \in DB \/ Entailed(c)
  PROVE  DBEntailed'
  BY DEF DBEntailed, DB, Entailed, Models

(* The clauses and literals of analysis after a step that leaves the assignment
   and the formula alone. *)
LEMMA SameFalse ==
  ASSUME orig' = orig, val' = val, NEW c
  PROVE  (Falsified(c)' <=> Falsified(c)) /\ (Entailed(c)' <=> Entailed(c))
  BY DEF Falsified, Value, Entailed, Models

(* Clauses that do not reach above level L stay falsified by backtrack (L). *)
LEMMA FalsifiedKept ==
  ASSUME TypeInv, NEW L \in 0..level, NEW c \in SUBSET Lit, Falsified(c),
         \A k \in c : LevelOf(k) <= L,
         \A v \in Kept(L) : val'[v] = val[v]
  PROVE  Falsified(c)'
<1> SUFFICES ASSUME NEW k \in c
             PROVE  Value(k)' < 0
  BY DEF Falsified
<1>1. Value(k) < 0 /\ Abs(k) \in Kept(L)
  BY FalseKept DEF Falsified
<1>2. (k > 0 /\ Abs(k) = k) \/ (~(k > 0) /\ Abs(k) = -k)
  BY Literals DEF Abs
<1> QED
  BY <1>1, <1>2 DEF Value

(* The latest of several open literals of a conflict has a reason. *)
LEMMA OpenHasReason ==
  ASSUME TypeInv, TrailInv, level > 0, Falsified(work), NEW l \in work,
         IsLatest(l, Open(work)), Cardinality(Open(work)) > 1
  PROVE  reason[Abs(l)] # {}
<1>0. work \in SUBSET Lit
  BY DEF TypeInv, TypeOK, TypeAnalysis
<1>1. PICK k \in Open(work) : k # l
  <2>1. Open(work) # {l}
    BY FS_Singleton
  <2> QED
    BY <2>1 DEF IsLatest
<1>2. /\ k \in Lit /\ Value(k) < 0 /\ vlevel[Abs(k)] = level
      /\ l \in Lit /\ Value(l) < 0 /\ vlevel[Abs(l)] = level
      /\ pos[Abs(k)] <= pos[Abs(l)]
  BY <1>0, <1>1 DEF Open, IsLatest, Falsified, LevelOf, Position
<1>3. Abs(k) # Abs(l)
  BY <1>1, <1>2, FalseLiteral, Literals
<1>4. Abs(k) \in Var /\ Abs(l) \in Var /\ val[Abs(k)] # 0 /\ val[Abs(l)] # 0
  BY <1>2, FalseLiteral, Literals
<1>5. SUFFICES ASSUME reason[Abs(l)] = {}
               PROVE  FALSE
  OBVIOUS
<1>6. level \in 1..level /\ control[level].decision = LitOf(Abs(l)) /\ LitOf(Abs(l)) = -l
  BY <1>2, <1>4, <1>5, TrailTypes, FalseLiteral DEF TrailInv, OnlyDecisions
<1>7. pos[Abs(l)] = control[level].trail + 1
  BY <1>2, <1>6, Literals DEF TrailInv, DecisionsPlaced, Position
<1>8. pos[Abs(k)] > control[level].trail
  BY <1>2, <1>4 DEF TrailInv, LevelsAfterFrames
<1>9. pos[Abs(k)] = pos[Abs(l)]
  BY <1>2, <1>4, <1>6, <1>7, <1>8, TrailTypes
<1> QED
  BY <1>3, <1>4, <1>9 DEF TrailInv, Positions

(* A resolution step of analysis, shrinking or minimisation. *)
LEMMA ResolventEntailed ==
  ASSUME TypeInv, AssignmentEntailed, Falsified(work), Entailed(work),
         NEW l \in Lit, Value(l) < 0, reason[Abs(l)] # {}
  PROVE  Falsified(Resolvent(l)) /\ Entailed(Resolvent(l))
<1>0. Abs(l) \in Var /\ reason[Abs(l)] \in SUBSET Lit /\ work \in SUBSET Lit
  BY Literals DEF TypeInv, TypeOK, TypeAssign, TypeAnalysis
<1> DEFINE c == reason[Abs(l)]
           r == (work \ {l}) \cup (c \ {-l})
<1>1. ASSUME NEW k \in c \ {-l}
      PROVE  Value(k) < 0
  BY <1>0, <1>1, Literals DEF AssignmentEntailed, ReasonsFalse
<1>2. Entailed(r) /\ r \in SUBSET Lit
  <2>1. Entailed(c) /\ c \in SUBSET Lit
    BY <1>0 DEF AssignmentEntailed, ReasonsEntailed
  <2> HIDE DEF c
  <2> QED
    BY <1>0, <2>1, Resolution
<1>3. \A k \in (c \ {-l}) \ NonRoot(c \ {-l}) : Entailed({-k})
  BY <1>0, <1>1, RootFalse, TrailTypes, Literals
     DEF NonRoot, AssignmentEntailed, LevelOf
<1>4. Resolvent(l) = (work \ {l}) \cup NonRoot(c \ {-l})
  BY DEF Resolvent, Antecedent
<1>5. \A k \in r \ Resolvent(l) : Entailed({-k})
  BY <1>3, <1>4
<1>6. Entailed(Resolvent(l))
  <2> HIDE DEF r
  <2> QED
    BY <1>2, <1>5, DropFalse
<1>7. Falsified(Resolvent(l))
  BY <1>1, <1>4 DEF Falsified, NonRoot
<1> QED
  BY <1>6, <1>7


-----------------------------------------------------------------------------
(* Every step keeps what is entailed.                                      *)

LEMMA PropagateEntailed ==
  ASSUME TypeInv, EntailInv, Propagate
  PROVE  EntailInv'
<1> USE DEF EntailInv
<1>1. CASE PropagateUnit
  <2>0. PICK c \in DB : \E l \in c : \E a \in 0..level :
          /\ Value(l) = 0 /\ Falsified(c \ {l}) /\ IsAssignmentLevel(a, l, c, level)
          /\ BacktrackAssign(level, l, c, a)
    BY <1>1 DEF PropagateUnit, Watching
  <2>1. PICK l \in c, a \in 0..level :
          /\ Value(l) = 0 /\ Falsified(c \ {l}) /\ IsAssignmentLevel(a, l, c, level)
          /\ BacktrackAssign(level, l, c, a)
    BY <2>0
  <2>2. /\ c \in SUBSET Lit /\ l \in Lit /\ l \in Int /\ level \in 0..level
        /\ \A k \in Lit : LevelOf(k) <= level
        /\ Abs(l) \in Var
    BY <2>1, TrailTypes, Literals DEF TypeInv, TypeOK, TypeDB, DB, LevelOf
  <2>3. Abs(l) \notin Kept(level)
    <3>1. val[Abs(l)] = 0
      BY <2>1, <2>2, Literals, TrailTypes DEF Value, Abs
    <3> QED
      BY <3>1 DEF Kept, Stays
  <2>4. a \in 0..level /\ Entailed(c) /\ c # {} /\ orig' = orig
    BY <1>1, <2>1 DEF PropagateUnit, DBEntailed, dbVars
  <2>5. \A k \in c \ {l} : Value(k) < 0 /\ LevelOf(k) <= level
    BY <2>1, <2>2 DEF Falsified
  <2>6. AssignmentEntailed'
    BY <2>1, <2>2, <2>3, <2>4, <2>5, ImpliedEntailed
  <2>7. \A v \in Kept(level) : val'[v] = val[v]
    <3>1. \A v \in Var \ {Abs(l)} : v \in Kept(level) => val'[v] = val[v]
      BY <2>1, <2>2, BacktrackAssignEffect, SMTT(30)
    <3> QED
      BY <2>3, <3>1 DEF Kept
  <2>8. conflict # {} => Falsified(conflict)'
    <3> SUFFICES ASSUME conflict # {}, NEW c0, c0 = conflict
                 PROVE  Falsified(c0)'
      BY <1>1 DEF PropagateUnit, Falsified
    <3>1. c0 \in SUBSET Lit /\ Falsified(c0)
      BY <1>1 DEF PropagateUnit, Visiting, ConflictInv, TypeInv, TypeOK, TypeAnalysis
    <3> QED
      BY <2>2, <2>7, <3>1, FalsifiedKept
  <2>9. /\ UNCHANGED <<orig, irr, red, conflict, pc, unsat>>
        /\ pc = "propagate" /\ ~Analyzing /\ ~unsat
    BY <1>1 DEF PropagateUnit, Visiting, dbVars, Analyzing, UnsatInv
  <2> QED
    BY <2>6, <2>8, <2>9 DEF DBEntailed, DB, ConflictInv, WorkInv, UnsatInv, Analyzing,
      Entailed, Models
<1>2. CASE PropagateConflict
  <2>1. PICK c \in DB : Falsified(c) /\ conflict' = c
    BY <1>2 DEF PropagateConflict, Watching
  <2>2. /\ UNCHANGED <<orig, irr, red, pc, unsat, val, vlevel, reason>>
        /\ pc = "propagate" /\ ~Analyzing /\ ~unsat
    BY <1>2 DEF PropagateConflict, Visiting, dbVars, assignVars, Analyzing, UnsatInv
  <2>3. Falsified(c)' /\ Entailed(c)'
    BY <2>1, <2>2, SameFalse DEF DBEntailed
  <2>4. Falsified(conflict)' /\ Entailed(conflict)'
    BY <2>1, <2>3 DEF Falsified, Entailed
  <2> QED
    BY <2>2, <2>4, SameEntailed, MoreClauses DEF DB, ConflictInv, WorkInv, UnsatInv, Analyzing
<1>3. CASE PropagateNext \/ PropagateFail \/ PropagateAdded
  <2>1. /\ UNCHANGED <<orig, irr, red, conflict, unsat, val, vlevel, reason>>
        /\ pc = "propagate" /\ ~unsat
        /\ \/ pc' = pc \/ (pc' = "analyze" /\ conflict # {})
           \/ (pc' = "steady" /\ conflict = {})
    BY <1>3 DEF PropagateNext, PropagateFail, PropagateAdded, Visiting, Quiet, dbVars,
       assignVars, UnsatInv
  <2>2. Falsified(conflict)' <=> Falsified(conflict)
    BY <2>1 DEF Falsified, Value
  <2>3. Entailed(conflict)' <=> Entailed(conflict)
    BY <2>1 DEF Entailed, Models
  <2> QED
    BY <2>1, <2>2, <2>3, SameEntailed, MoreClauses DEF DB, ConflictInv, WorkInv, UnsatInv, Analyzing
<1> QED
  BY <1>1, <1>2, <1>3 DEF Propagate

LEMMA ShrinkEntailed ==
  ASSUME TypeInv, EntailInv, Shrink
  PROVE  EntailInv'
<1> USE DEF EntailInv
<1>0. /\ UNCHANGED <<orig, irr, red, conflict, unsat, val, vlevel, reason>>
      /\ pc \in {"shrink", "block", "literal"} /\ pc' \in {"shrink", "block", "literal"}
      /\ ~unsat
  BY DEF Shrink, KeepBlock, ShrinkBlock, ShrinkAlongReason, ShrunkenBlock,
     ShrinkingFailed, MinimizeLiteral, MinimizeRecursively, MinimizeDone,
     shrinkFrame, dbVars, assignVars, UnsatInv
<1>1. /\ Falsified(work) /\ Entailed(work) /\ Falsified(todo) /\ Falsified(block)
      /\ work \in SUBSET Lit /\ block \in SUBSET Lit
  BY <1>0 DEF WorkInv, Analyzing, TypeInv, TypeOK, TypeAnalysis
<1>2. ASSUME NEW c, NEW d, NEW e, NEW f,
             c = work', d = saved', e = todo', f = block',
             Falsified(c) /\ Entailed(c),
             pc' \in {"block", "literal"} => Falsified(d) /\ Entailed(d),
             Falsified(e) /\ Falsified(f)
      PROVE  EntailInv'
  <2>1. /\ Falsified(c)' /\ Entailed(c)' /\ Falsified(e)' /\ Falsified(f)'
        /\ pc' \in {"block", "literal"} => Falsified(d)' /\ Entailed(d)'
    BY <1>0, <1>2, SameFalse
  <2>2. WorkInv'
    BY <1>2, <2>1 DEF WorkInv, Falsified, Entailed
  <2> QED
    BY <1>0, <2>2, SameEntailed, MoreClauses DEF DB, ConflictInv, UnsatInv
<1>3. CASE KeepBlock \/ ShrunkenBlock
  BY <1>1, <1>2, <1>3 DEF KeepBlock, ShrunkenBlock, Falsified
<1>4. CASE ShrinkBlock
  BY <1>1, <1>2, <1>4 DEF ShrinkBlock, Lowest, Falsified
<1>5. CASE ShrinkAlongReason
  <2>1. PICK l \in work : Implied(l) /\ work' = Resolvent(l)
    BY <1>5 DEF ShrinkAlongReason
  <2>2. l \in Lit /\ Value(l) < 0
    BY <1>1 DEF Falsified
  <2>3. Falsified(Resolvent(l)) /\ Entailed(Resolvent(l))
    BY <1>1, <2>1, <2>2, ResolventEntailed DEF Implied
  <2> QED
    BY <1>0, <1>1, <1>2, <1>5, <2>1, <2>3 DEF ShrinkAlongReason, WorkInv
<1>6. CASE ShrinkingFailed
  BY <1>0, <1>1, <1>2, <1>6 DEF ShrinkingFailed, WorkInv, Falsified
<1>7. CASE MinimizeLiteral
  <2>1. PICK l \in block :
          /\ todo' = todo \ {l} /\ block' = block \ {l}
          /\ IF Implied(l) THEN work' = Resolvent(l) /\ pc' = "literal"
                           ELSE UNCHANGED <<work, pc>>
    BY <1>7 DEF MinimizeLiteral
  <2>2. l \in Lit /\ Value(l) < 0
    BY <1>1 DEF Falsified
  <2>3. Implied(l) => Falsified(Resolvent(l)) /\ Entailed(Resolvent(l))
    BY <1>1, <2>2, ResolventEntailed DEF Implied
  <2>4. Falsified(todo \ {l}) /\ Falsified(block \ {l}) /\ saved' = work
    BY <1>1, <1>7 DEF Falsified, MinimizeLiteral
  <2> QED
    BY <1>1, <1>2, <2>1, <2>3, <2>4
<1>8. CASE MinimizeRecursively
  <2>1. PICK l \in work : Implied(l) /\ work' = Resolvent(l)
    BY <1>8 DEF MinimizeRecursively
  <2>2. l \in Lit /\ Value(l) < 0
    BY <1>1 DEF Falsified
  <2>3. Falsified(Resolvent(l)) /\ Entailed(Resolvent(l))
    BY <1>1, <2>1, <2>2, ResolventEntailed DEF Implied
  <2> QED
    BY <1>0, <1>1, <1>2, <1>8, <2>1, <2>3 DEF MinimizeRecursively, WorkInv
<1>9. CASE MinimizeDone
  BY <1>0, <1>1, <1>2, <1>9 DEF MinimizeDone, WorkInv
<1> QED
  BY <1>3, <1>4, <1>5, <1>6, <1>7, <1>8, <1>9 DEF Shrink


(* The step back to propagation with a literal l that the clause c implies, when
   analysis is done: forced conflicts, strengthened and learned clauses. *)
LEMMA DrivenEntailed ==
  ASSUME EntailInv, AssignmentEntailed', DBEntailed', conflict' = {}, pc' = "propagate",
         unsat' = unsat, pc # "steady"
  PROVE  EntailInv'
  BY DEF EntailInv, ConflictInv, WorkInv, UnsatInv, Analyzing

(* The antecedent of l is strengthened to the clause s. *)
LEMMA StrengthenClauses ==
  ASSUME DBEntailed, orig' = orig, NEW l, NEW s, Strengthen(l, s), Entailed(s)
  PROVE  DBEntailed'
<1>1. \A d \in DB' : d \in DB \/ d = s
  BY DEF Strengthen, DB
<1> QED
  BY <1>1, MoreClauses

LEMMA AnalyzeEntailed ==
  ASSUME TypeInv, TrailInv, EntailInv, Analyze
  PROVE  EntailInv'
<1> USE DEF EntailInv
<1>0. /\ orig' = orig /\ level \in Nat
      /\ conflict \in SUBSET Lit /\ work \in SUBSET Lit
      /\ \A k \in Lit : LevelOf(k) \in 0..level /\ Abs(k) \in Var
      /\ pc = "analyze" => /\ Falsified(conflict) /\ Entailed(conflict)
                           /\ conflict # {} /\ ~unsat
      /\ Analyzing => Falsified(work) /\ Entailed(work) /\ ~unsat /\ level > 0
  <2>1. orig' = orig
    BY DEF Analyze, AnalyzeForced, AnalyzeRoot, AnalyzeStart, Resolve, StrengthenContinue,
       StrengthenForced, FirstUIP, Learn, dbVars
  <2>2. /\ level \in Nat /\ conflict \in SUBSET Lit /\ work \in SUBSET Lit
        /\ \A k \in Lit : LevelOf(k) \in 0..level /\ Abs(k) \in Var
    BY TrailTypes, Literals DEF LevelOf, TypeInv, TypeOK, TypeAnalysis
  <2> QED
    BY <2>1, <2>2 DEF ConflictInv, WorkInv, UnsatInv, TypeInv, AboveRoot, Analyzing
<1>1. CASE AnalyzeForced
  <2>1. PICK l \in conflict, a \in 0..level :
          /\ IsForced(l) /\ IsAssignmentLevel(a, l, conflict, LevelOf(l) - 1)
          /\ BacktrackAssign(LevelOf(l) - 1, l, conflict, a)
    BY <1>1 DEF AnalyzeForced
  <2> DEFINE L == LevelOf(l) - 1
  <2>2. /\ l \in Lit /\ L \in 0..level /\ Abs(l) \notin Kept(L)
        /\ \A k \in conflict \ {l} : LevelOf(k) <= L
    BY <1>0, <2>1 DEF IsForced, Kept, Stays, LevelOf
  <2>3. a \in 0..L
    BY <1>0, <2>1, <2>2, AssignmentLevel DEF IsForced
  <2>4. /\ pc = "analyze" /\ UNCHANGED <<irr, red, unsat>>
        /\ conflict' = {} /\ pc' = "propagate"
    BY <1>1 DEF AnalyzeForced, dbVars
  <2>5. \A k \in conflict \ {l} : Value(k) < 0 /\ LevelOf(k) <= L
    BY <1>0, <2>2, <2>4 DEF Falsified
  <2>6. PICK M \in 0..level, c \in SUBSET Lit : M = L /\ c = conflict
    BY <1>0, <2>2
  <2> HIDE DEF L
  <2>7. AssignmentEntailed'
    <3>1. /\ IsAssignmentLevel(a, l, c, M) /\ BacktrackAssign(M, l, c, a)
          /\ a \in 0..M /\ Abs(l) \notin Kept(M)
      BY <2>1, <2>2, <2>3, <2>6 DEF L
    <3>2. c # {} /\ Entailed(c) /\ \A k \in c \ {l} : Value(k) < 0 /\ LevelOf(k) <= M
      BY <1>0, <2>4, <2>5, <2>6
    <3> QED
      BY <1>0, <2>2, <3>1, <3>2, ImpliedEntailed
  <2>8. DBEntailed'
    BY <1>0, <2>4, MoreClauses DEF DB
  <2> QED
    BY <2>4, <2>7, <2>8, DrivenEntailed
<1>2. CASE AnalyzeRoot
  <2>1. \A k \in conflict : LevelOf(k) = 0 /\ Value(k) < 0
    BY <1>0, <1>2 DEF AnalyzeRoot, IsMaxLevel, Falsified
  <2>2. \A k \in conflict \ {} : Entailed({-k})
    BY <1>0, <2>1, RootFalse DEF AssignmentEntailed
  <2>3. Entailed({})
    <3>1. Entailed(conflict)
      BY <1>0, <1>2 DEF AnalyzeRoot
    <3> QED
      BY <1>0, <2>2, <3>1, DropFalse
  <2>4. AssignmentEntailed'
    BY <1>0, <1>2, BacktrackEntailed DEF AnalyzeRoot
  <2>5. DBEntailed'
    BY <1>0, <1>2, MoreClauses DEF AnalyzeRoot, DB, dbVars
  <2>6. Entailed({})'
    BY <1>0, <2>3, EntailedLater
  <2> QED
    BY <1>2, <2>4, <2>5, <2>6 DEF AnalyzeRoot, LearnEmptyClause, ConflictInv, WorkInv, UnsatInv,
      Analyzing
<1>3. CASE AnalyzeStart
  <2>1. PICK L \in 1..level : /\ IF opts.chrono THEN IsMaxLevel(L, conflict) ELSE L = level
                              /\ Backtrack(L)
    BY <1>3 DEF AnalyzeStart
  <2>2. L \in 0..level /\ \A k \in conflict : LevelOf(k) <= L
    BY <1>0, <2>1 DEF IsMaxLevel
  <2>3. AssignmentEntailed'
    BY <1>0, <2>1, <2>2, BacktrackEntailed
  <2>4. DBEntailed'
    BY <1>0, <1>3, MoreClauses DEF AnalyzeStart, DB, dbVars
  <2>5. PICK c \in SUBSET Lit : c = NonRoot(conflict)
    BY <1>0 DEF NonRoot
  <2>6. Falsified(c) /\ Entailed(c) /\ \A k \in c : LevelOf(k) <= L
    <3>1. Falsified(conflict) /\ Entailed(conflict)
      BY <1>0, <1>3 DEF AnalyzeStart
    <3>2. Entailed(NonRoot(conflict))
      BY <1>0, <3>1, NonRootEntailed DEF Falsified, AssignmentEntailed
    <3> QED
      BY <2>2, <2>5, <3>1, <3>2 DEF NonRoot, Falsified
  <2>7. \A v \in Kept(L) : val'[v] = val[v]
    BY <2>1, <2>2, BacktrackEffect DEF Kept
  <2>8. Falsified(c)' /\ Entailed(c)'
    BY <1>0, <2>2, <2>6, <2>7, FalsifiedKept, EntailedLater
  <2>9. Falsified(work)' /\ Entailed(work)'
    BY <1>3, <2>5, <2>8 DEF AnalyzeStart, Falsified, Entailed
  <2> QED
    BY <1>0, <1>3, <2>3, <2>4, <2>9 DEF AnalyzeStart, ConflictInv, WorkInv, UnsatInv, Analyzing
<1>4. ASSUME NEW l \in work, pc = "resolve", IsLatest(l, Open(work)), Cardinality(Open(work)) > 1
      PROVE  Falsified(Resolvent(l)) /\ Entailed(Resolvent(l)) /\ l \in Lit
  <2>1. Analyzing
    BY <1>4 DEF Analyzing
  <2>2. l \in Lit /\ Value(l) < 0
    BY <1>0, <2>1 DEF Falsified
  <2>3. reason[Abs(l)] # {}
    BY <1>0, <1>4, <2>1, OpenHasReason
  <2> QED
    BY <1>0, <2>1, <2>2, <2>3, ResolventEntailed
<1>5. CASE Resolve
  <2>1. PICK l \in work : IsLatest(l, Open(work)) /\ work' = Resolvent(l)
    BY <1>5 DEF Resolve
  <2>2. Falsified(Resolvent(l)) /\ Entailed(Resolvent(l))
    BY <1>4, <1>5, <2>1 DEF Resolve
  <2>3. PICK c : c = Resolvent(l)
    OBVIOUS
  <2>4. /\ UNCHANGED <<irr, red, conflict, unsat, val, vlevel, reason, pc>>
        /\ pc = "resolve"
    BY <1>5 DEF Resolve, dbVars, assignVars
  <2>5. Falsified(c)' /\ Entailed(c)'
    BY <1>0, <2>2, <2>3, <2>4, SameFalse
  <2>6. Falsified(work)' /\ Entailed(work)'
    BY <2>1, <2>3, <2>5 DEF Falsified, Entailed
  <2> QED
    BY <1>0, <2>4, <2>6, SameEntailed, MoreClauses DEF DB, ConflictInv, WorkInv, UnsatInv, Analyzing
<1>6. CASE FirstUIP
  <2>1. /\ UNCHANGED <<irr, red, conflict, unsat, val, vlevel, reason, work>>
        /\ pc = "resolve" /\ pc' = "shrink" /\ todo' \subseteq work /\ block' \subseteq work
    BY <1>6 DEF FirstUIP, dbVars, assignVars
  <2>2. Falsified(work) /\ Entailed(work)
    BY <1>0, <2>1 DEF Analyzing
  <2>3. Falsified(work)' /\ Entailed(work)'
    BY <1>0, <2>1, <2>2 DEF Falsified, Value, Entailed, Models
  <2>4. Falsified(todo)' /\ Falsified(block)'
    BY <2>1, <2>3 DEF Falsified
  <2> QED
    BY <1>0, <2>1, <2>3, <2>4, SameEntailed, MoreClauses
       DEF DB, ConflictInv, WorkInv, UnsatInv, Analyzing
<1>7. CASE StrengthenContinue
  <2>1. PICK l \in work :
          /\ IsLatest(l, Open(work)) /\ Strengthens(l)
          /\ Strengthen(l, Antecedent(l))
          /\ reason' = [reason EXCEPT ![Abs(l)] = Antecedent(l)]
          /\ conflict' = Antecedent(l) /\ work' = Antecedent(l)
    BY <1>7 DEF StrengthenContinue
  <2>2. /\ UNCHANGED <<unsat, val, vlevel, pc>>
        /\ pc = "resolve" /\ Cardinality(Open(work)) > 1 /\ Analyzing
    BY <1>7 DEF StrengthenContinue, Analyzing
  <2>3. /\ l \in Lit /\ Abs(l) \in Var
        /\ Falsified(Antecedent(l)) /\ Entailed(Antecedent(l))
    <3>1. Falsified(Resolvent(l)) /\ Entailed(Resolvent(l)) /\ l \in Lit
      BY <1>4, <2>1, <2>2
    <3> QED
      BY <1>0, <2>1, <3>1 DEF Strengthens
  <2>4. PICK c \in SUBSET Lit : c = Antecedent(l)
    BY <2>3, ResolventType
  <2>5. Falsified(c) /\ Entailed(c) /\ Falsified(c)' /\ Entailed(c)'
    BY <1>0, <2>2, <2>3, <2>4, SameFalse
  <2>6. Falsified(work)' /\ Entailed(work)' /\ Falsified(conflict)' /\ Entailed(conflict)'
    BY <2>1, <2>4, <2>5 DEF Falsified, Entailed
  <2>7. /\ reason'[Abs(l)] = c /\ c \subseteq reason[Abs(l)]
        /\ \A v \in Var : v # Abs(l) => reason'[v] = reason[v]
    BY <2>1, <2>3, <2>4 DEF TypeInv, TypeOK, TypeAssign, Antecedent, NonRoot
  <2>8. ReasonsEntailed'
    <3> SUFFICES ASSUME NEW v \in Var, NEW r, r = reason'[v], r # {}
                 PROVE  Entailed(r)'
      BY DEF ReasonsEntailed, Entailed
    <3>1. CASE v = Abs(l)
      BY <2>5, <2>7, <3>1
    <3>2. CASE v # Abs(l)
      <4>1. Entailed(r)
        BY <2>7, <3>2 DEF AssignmentEntailed, ReasonsEntailed
      <4> QED
        BY <1>0, <4>1, EntailedLater
    <3> QED
      BY <3>1, <3>2
  <2>9. RootsEntailed' /\ ReasonsFalse'
    BY <1>0, <2>2, <2>7 DEF AssignmentEntailed, RootsEntailed, ReasonsFalse, Entailed, Models,
       LitOf, Value, LevelOf
  <2>10. DBEntailed'
    BY <1>0, <2>1, <2>3, StrengthenClauses
  <2> QED
    BY <1>0, <2>2, <2>6, <2>8, <2>9, <2>10
       DEF AssignmentEntailed, ConflictInv, WorkInv, UnsatInv, Analyzing
<1>8. CASE StrengthenForced
  <2>0. PICK l \in work : \E f \in Antecedent(l) : \E j, L, a \in 0..level :
          /\ IsLatest(l, Open(work)) /\ Strengthens(l)
          /\ Open(Antecedent(l)) = {f}
          /\ Strengthen(l, Antecedent(l))
          /\ IsMaxLevel(j, Antecedent(l) \ {f}) /\ L \in ActualLevels(j)
          /\ IsAssignmentLevel(a, f, Antecedent(l), L)
          /\ BacktrackAssign(L, f, Antecedent(l), a)
    BY <1>8 DEF StrengthenForced
  <2>1. PICK f \in Antecedent(l), j \in 0..level, L \in 0..level, a \in 0..level :
          /\ IsLatest(l, Open(work)) /\ Strengthens(l)
          /\ Open(Antecedent(l)) = {f}
          /\ Strengthen(l, Antecedent(l))
          /\ IsMaxLevel(j, Antecedent(l) \ {f}) /\ L \in ActualLevels(j)
          /\ IsAssignmentLevel(a, f, Antecedent(l), L)
          /\ BacktrackAssign(L, f, Antecedent(l), a)
    BY <2>0
  <2>2. /\ unsat' = unsat /\ conflict' = {} /\ pc' = "propagate"
        /\ pc = "resolve" /\ Cardinality(Open(work)) > 1 /\ Analyzing
    BY <1>8 DEF StrengthenForced, Analyzing
  <2>3. l \in Lit /\ Falsified(Antecedent(l)) /\ Entailed(Antecedent(l))
    <3>1. Falsified(Resolvent(l)) /\ Entailed(Resolvent(l)) /\ l \in Lit
      BY <1>4, <2>1, <2>2
    <3> QED
      BY <1>0, <2>1, <3>1 DEF Strengthens
  <2>4. PICK c \in SUBSET Lit : c = Antecedent(l)
    BY <2>3, ResolventType
  <2>5. f \in c /\ f \in Lit
    BY <2>4
  <2>6. /\ L \in 0..level - 1 /\ LevelOf(f) = level
        /\ \A k \in c \ {f} : LevelOf(k) <= L
    BY <1>0, <2>1, <2>2, <2>4, <2>5, DrivingLevel
  <2>7. a \in 0..L /\ Abs(f) \notin Kept(L)
    BY <1>0, <2>1, <2>4, <2>6, AssignmentLevel DEF Kept, Stays, LevelOf
  <2>8. AssignmentEntailed'
    <3>1. /\ IsAssignmentLevel(a, f, c, L) /\ BacktrackAssign(L, f, c, a)
          /\ c # {} /\ Entailed(c) /\ \A k \in c \ {f} : Value(k) < 0 /\ LevelOf(k) <= L
      BY <2>1, <2>3, <2>4, <2>5, <2>6 DEF Falsified
    <3> QED
      BY <1>0, <2>5, <2>7, <3>1, ImpliedEntailed
  <2>9. DBEntailed'
    BY <1>0, <2>1, <2>3, StrengthenClauses
  <2> QED
    BY <2>2, <2>8, <2>9, DrivenEntailed
<1>9. CASE Learn
  <2>1. PICK u \in work, jump \in 0..level, L \in 0..level, a \in 0..level :
          LET c == IF work = {u} THEN {} ELSE work IN
          /\ Open(work) = {u}
          /\ IsMaxLevel(jump, work \ {u}) /\ L \in ActualLevels(jump)
          /\ IsAssignmentLevel(a, u, c, L)
          /\ BacktrackAssign(L, u, c, a)
    BY <1>9 DEF Learn
  <2>2. /\ unsat' = unsat /\ conflict' = {} /\ pc' = "propagate" /\ pc = "shrink"
        /\ irr' = irr /\ red' \subseteq red \cup {work} /\ Analyzing
    BY <1>9 DEF Learn, Analyzing
  <2>3. PICK w \in SUBSET Lit : w = work
    BY <1>0
  <2>4. Falsified(w) /\ Entailed(w) /\ u \in w /\ u \in Lit
    BY <1>0, <2>2, <2>3
  <2>5. /\ L \in 0..level - 1 /\ LevelOf(u) = level
        /\ \A k \in w \ {u} : LevelOf(k) <= L
    BY <1>0, <2>1, <2>2, <2>3, <2>4, DrivingLevel
  <2>6. PICK c \in SUBSET Lit : c = IF w = {u} THEN {} ELSE w
    OBVIOUS
  <2>7. IsAssignmentLevel(a, u, c, L) /\ BacktrackAssign(L, u, c, a)
    BY <2>1, <2>3, <2>6
  <2>8. a \in 0..L /\ Abs(u) \notin Kept(L)
    BY <1>0, <2>5, <2>6, <2>7, AssignmentLevel DEF Kept, Stays, LevelOf
  <2>9. AssignmentEntailed'
    <3>1. CASE w = {u}
      <4>1. c = {} /\ a = 0
        BY <2>6, <2>7, <3>1 DEF IsAssignmentLevel
      <4>2. Entailed({u})'
        BY <1>0, <2>4, <3>1, EntailedLater
      <4> QED
        BY <1>0, <2>4, <2>7, <2>8, <4>1, <4>2, BacktrackAssignEntailed, SMTT(30)
    <3>2. CASE w # {u}
      <4>1. /\ c = w /\ c # {}
            /\ \A k \in c \ {u} : Value(k) < 0 /\ LevelOf(k) <= L
        BY <2>4, <2>5, <2>6, <3>2 DEF Falsified
      <4> QED
        BY <1>0, <2>4, <2>7, <2>8, <4>1, ImpliedEntailed
    <3> QED
      BY <3>1, <3>2
  <2>10. DBEntailed'
    BY <1>0, <2>2, <2>3, <2>4, MoreClauses DEF DB
  <2> QED
    BY <2>2, <2>9, <2>10, DrivenEntailed
<1> QED
  BY <1>1, <1>2, <1>3, <1>5, <1>6, <1>7, <1>8, <1>9 DEF Analyze


(* Removing literals that are false on the root level. *)
LEMMA FlushEntailed ==
  ASSUME TypeInv, RootsEntailed, NEW c \in SUBSET Lit, Entailed(c)
  PROVE  Entailed(FlushFalse(c)) /\ FlushFalse(c) \subseteq c
<1>1. ASSUME NEW k \in c, Fixed(k) < 0
      PROVE  Entailed({-k})
  <2>1. LevelOf(k) = 0 /\ Value(k) < 0
    BY <1>1 DEF Fixed
  <2> QED
    BY <2>1, RootFalse
<1>2. \A k \in c : Fixed(k) \in Int
  BY TrailTypes, Literals DEF Fixed, Value
<1>3. \A k \in c \ FlushFalse(c) : Entailed({-k})
  BY <1>1, <1>2 DEF FlushFalse
<1> QED
  BY <1>3, DropFalse DEF FlushFalse

LEMMA SearchEntailed ==
  ASSUME TypeInv, EntailInv, Search
  PROVE  EntailInv'
<1> USE DEF EntailInv
<1>0. /\ orig' = orig /\ unsat' = unsat /\ conflict' = conflict /\ conflict = {}
      /\ pc = "propagate" /\ pc' \in {"propagate", "steady"} /\ ~unsat
      /\ 0 \in 0..level /\ level \in Nat
  <2>1. /\ orig' = orig /\ unsat' = unsat /\ conflict' = conflict /\ conflict = {}
        /\ pc = "propagate" /\ pc' \in {"propagate", "steady"}
    BY DEF Search, FoundModel, Interrupt, Restart, ReduceUnits, Reduce, Decide, DecidePseudo,
       DecideFail, Reducing, Ready, Quiet, dbVars
  <2> QED
    BY <2>1, TrailTypes DEF UnsatInv
<1>1. ASSUME AssignmentEntailed', DBEntailed'
      PROVE  EntailInv'
  BY <1>0, <1>1 DEF ConflictInv, WorkInv, UnsatInv, Analyzing
<1>2. CASE Reduce
  <2>1. /\ UNCHANGED <<val, vlevel>>
        /\ reason' = [v \in Var |-> FlushFalse(reason[v])]
        /\ irr' = {FlushFalse(c) : c \in {d \in irr : ~RootSatisfied(d)}}
        /\ \E useless : red' = {FlushFalse(c) : c \in {d \in red \ useless : ~RootSatisfied(d)}}
    BY <1>2 DEF Reduce
  <2>2. \A c \in DB : Entailed(FlushFalse(c))
    BY FlushEntailed DEF DBEntailed, AssignmentEntailed, DB, TypeInv, TypeOK, TypeDB
  <2>3. \A v \in Var : /\ reason'[v] = FlushFalse(reason[v]) /\ reason[v] \in SUBSET Lit
                       /\ FlushFalse(reason[v]) \subseteq reason[v]
    BY <2>1 DEF TypeInv, TypeOK, TypeAssign, FlushFalse
  <2>4. ReasonsEntailed'
    <3> SUFFICES ASSUME NEW v \in Var, NEW r, r = reason'[v], r # {}
                 PROVE  Entailed(r)'
      BY DEF ReasonsEntailed, Entailed
    <3>1. Entailed(r)
      <4>1. r = FlushFalse(reason[v]) /\ reason[v] # {}
        BY <2>3
      <4>2. Entailed(reason[v])
        BY <4>1 DEF AssignmentEntailed, ReasonsEntailed
      <4> QED
        BY <2>3, <4>1, <4>2, FlushEntailed DEF AssignmentEntailed
    <3> QED
      BY <1>0, <3>1, EntailedLater
  <2>5. RootsEntailed' /\ ReasonsFalse'
    BY <1>0, <2>1, <2>3 DEF AssignmentEntailed, RootsEntailed, ReasonsFalse, Entailed, Models,
       LitOf, Value, LevelOf
  <2>6. \A c \in DB' : Entailed(c)
    BY <2>1, <2>2 DEF DB
  <2>7. DBEntailed'
    BY <1>0, <2>6, MoreClauses
  <2> QED
    BY <1>1, <2>4, <2>5, <2>7 DEF AssignmentEntailed
<1>3. CASE ~Reduce
  <2>1. irr' = irr /\ red' = red
    BY <1>3 DEF Search, FoundModel, Interrupt, Restart, ReduceUnits, Decide, DecidePseudo,
       DecideFail, dbVars
  <2>2. DBEntailed'
    BY <1>0, <2>1, MoreClauses DEF DB
  <2>3. AssignmentEntailed'
    <3>1. CASE Restart
      <4> DEFINE trivial == IF control[Len(assumptions) + 1].decision = 0
                            THEN Len(assumptions) + 1 ELSE Len(assumptions)
      <4>1. Len(assumptions) \in Nat
        BY LenProperties DEF TypeInv, TypeOK, TypeUser
      <4>2. trivial \in 0..level
        BY <1>0, <3>1, <4>1 DEF Restart
      <4> HIDE DEF trivial
      <4>3. PICK L \in trivial..(IF opts.restartreusetrail THEN level ELSE trivial) :
                 Backtrack(L)
        BY <3>1 DEF Restart, trivial
      <4> QED
        BY <1>0, <4>2, <4>3, BacktrackEntailed
    <3>2. CASE ReduceUnits
      BY <1>0, <3>2, BacktrackEntailed DEF ReduceUnits
    <3>3. CASE Decide
      <4>1. PICK l \in Lit : Value(l) = 0 /\ Decision(l)
        BY <3>3 DEF Decide, MayDecide
      <4> QED
        BY <1>0, <4>1, DecisionEntailed
    <3>4. CASE FoundModel \/ Interrupt \/ DecidePseudo \/ DecideFail
      BY <1>0, <3>4, SameEntailed DEF FoundModel, Interrupt, DecidePseudo, DecideFail,
         PseudoDecision, assignVars
    <3> QED
      BY <1>3, <3>1, <3>2, <3>3, <3>4 DEF Search
  <2> QED
    BY <1>1, <2>2, <2>3
<1> QED
  BY <1>2, <1>3

(* A clause of the user, without its literals that are false on the root level,
   follows from the clauses that include it. *)
LEMMA AddedEntailed ==
  ASSUME TypeInv, RootsEntailed, NEW c \in SUBSET Lit, NEW new, new = NewLiterals(c),
         orig' = orig \cup {c}, ~RootSatisfied(c)
  PROVE  Entailed(new)'
<1> SUFFICES ASSUME NEW m \in Models(orig')
             PROVE  \E k \in new : Makes(m, k)
  BY DEF Entailed, Models
<1>1. m \in Models(orig) /\ m \in [Var -> BOOLEAN] /\ \E k \in c : Makes(m, k)
  BY DEF Models
<1>2. PICK k \in c : Makes(m, k)
  BY <1>1
<1>3. ASSUME k \notin new
      PROVE  Makes(m, -k)
  <2>1. k \in Lit /\ val[Abs(k)] # 0 /\ ~(LevelOf(k) > 0) /\ ~(Fixed(k) > 0)
    BY <1>3 DEF NewLiterals, RootSatisfied
  <2>2. LevelOf(k) = 0 /\ Value(k) < 0
    <3>1. LevelOf(k) = 0
      BY <2>1, TrailTypes, Literals DEF LevelOf
    <3>2. (k > 0 /\ Abs(k) = k) \/ (~(k > 0) /\ Abs(k) = -k)
      BY Literals DEF Abs
    <3> QED
      BY <2>1, <3>1, <3>2, TrailTypes, Literals DEF Value, Fixed
  <2> QED
    BY <1>1, <2>1, <2>2, RootFalse DEF Entailed
<1> QED
  BY <1>1, <1>2, <1>3, Complement

LEMMA UserEntailed ==
  ASSUME TypeInv, EntailInv, User
  PROVE  EntailInv'
<1> USE DEF EntailInv
<1>0. /\ pc = "steady" /\ conflict' = conflict /\ (~unsat => conflict = {})
      /\ 0 \in 0..level /\ level \in Nat
  <2>1. pc = "steady" /\ conflict' = conflict
    BY DEF User, Add, Assume, Constrain, Solve, Failed, Steady
  <2> QED
    BY <2>1, TrailTypes DEF ConflictInv
<1>1. CASE Add
  <2>1. PICK c \in SUBSET Lit : c = Head(inbox)
    BY <1>1, HeadTailProperties DEF Add, TypeInv, TypeOK, TypeDB
  <2>2. orig' = orig \cup {c} /\ orig \subseteq orig' /\ red' = red
    BY <1>1, <2>1 DEF Add
  <2>3. PICK new \in SUBSET Lit : new = NewLiterals(c)
    BY DEF NewLiterals
  <2>4. ~RootSatisfied(c) => Entailed(new)'
    BY <2>2, <2>3, AddedEntailed DEF AssignmentEntailed
  <2>5. ASSUME irr' = irr
        PROVE  DBEntailed'
    BY <2>2, <2>5 DEF DBEntailed, DB, Entailed, Models
  <2>6. ASSUME Backtrack(0)
        PROVE  AssignmentEntailed'
    BY <1>0, <2>2, <2>6, BacktrackEntailed
  <2>7. unsat => Entailed({})'
    BY <2>2, EntailedLater DEF UnsatInv
  <2>8. \/ Backtrack(0) /\ UNCHANGED <<irr, pc, unsat>>
        \/ ~RootSatisfied(c) /\ new = {} /\ Backtrack(0) /\ unsat' /\ UNCHANGED <<irr, pc>>
        \/ \E l \in new : /\ ~RootSatisfied(c) /\ ~unsat /\ new = {l}
                          /\ BacktrackAssign(0, l, {}, 0) /\ pc' = "propagate"
                          /\ UNCHANGED <<irr, unsat>>
        \/ /\ ~RootSatisfied(c) /\ Backtrack(0) /\ irr' = irr \cup {new}
           /\ UNCHANGED <<pc, unsat>>
    BY <1>1, <2>1, <2>3 DEF Add
  <2>9. CASE Backtrack(0) /\ UNCHANGED <<irr, pc, unsat>>
    BY <1>0, <2>5, <2>6, <2>7, <2>9 DEF ConflictInv, WorkInv, UnsatInv, Analyzing
  <2>10. CASE ~RootSatisfied(c) /\ new = {} /\ Backtrack(0) /\ unsat' /\ UNCHANGED <<irr, pc>>
    BY <1>0, <2>4, <2>5, <2>6, <2>10 DEF ConflictInv, WorkInv, UnsatInv, Analyzing
  <2>11. ASSUME NEW l \in new, ~RootSatisfied(c), ~unsat, new = {l},
                BacktrackAssign(0, l, {}, 0), pc' = "propagate", UNCHANGED <<irr, unsat>>
         PROVE  EntailInv'
    <3>1. l \in Lit /\ Abs(l) \notin Kept(0)
      <4>1. l \in Lit /\ (val[Abs(l)] = 0 \/ vlevel[Abs(l)] > 0)
        BY <2>3, <2>11 DEF NewLiterals, LevelOf
      <4> QED
        BY <4>1, TrailTypes, Literals DEF Kept, Stays
    <3>2. Entailed({l})'
      BY <2>4, <2>11
    <3>3. AssignmentEntailed'
      BY <1>0, <2>2, <2>11, <3>1, <3>2, BacktrackAssignEntailed
    <3> QED
      BY <1>0, <2>5, <2>11, <3>3 DEF ConflictInv, WorkInv, UnsatInv, Analyzing
  <2>12. CASE /\ ~RootSatisfied(c) /\ Backtrack(0) /\ irr' = irr \cup {new}
              /\ UNCHANGED <<pc, unsat>>
    <3>1. DBEntailed'
      BY <2>2, <2>4, <2>12 DEF DBEntailed, DB, Entailed, Models
    <3> QED
      BY <1>0, <2>6, <2>7, <2>12, <3>1 DEF ConflictInv, WorkInv, UnsatInv, Analyzing
  <2> QED
    BY <2>8, <2>9, <2>10, <2>11, <2>12
<1>2. CASE Assume \/ Constrain \/ Solve \/ Failed
  <2>1. /\ UNCHANGED <<orig, irr, red, unsat>>
        /\ Backtrack(0) \/ UNCHANGED <<val, vlevel, reason>>
        /\ pc' = pc \/ (~unsat /\ pc' = "propagate")
    BY <1>2 DEF Assume, Constrain, Solve, Failed, dbVars, assignVars
  <2>2. AssignmentEntailed'
    BY <1>0, <2>1, BacktrackEntailed, SameEntailed
  <2>3. DBEntailed'
    BY <2>1, MoreClauses DEF DB
  <2>4. unsat => Entailed({})'
    BY <2>1, EntailedLater DEF UnsatInv
  <2> QED
    BY <1>0, <2>1, <2>2, <2>3, <2>4 DEF ConflictInv, WorkInv, UnsatInv, Analyzing
<1> QED
  BY <1>1, <1>2 DEF User

LEMMA EntailStep ==
  ASSUME TypeInv, TrailInv, EntailInv, [Next]_vars
  PROVE  EntailInv'
<1>1. CASE UNCHANGED vars
  BY <1>1 DEF EntailInv, DBEntailed, AssignmentEntailed, ReasonsEntailed, RootsEntailed,
     ReasonsFalse, ConflictInv, WorkInv, UnsatInv, Falsified, Entailed, Models, DB, LitOf, Value,
     LevelOf, Analyzing, vars, dbVars, assignVars, analyzeVars
<1> QED
  BY <1>1, PropagateEntailed, AnalyzeEntailed, ShrinkEntailed, SearchEntailed, UserEntailed
     DEF Next, Solver, Finished

LEMMA EntailInit == Init => EntailInv
  BY DEF Init, EntailInv, DBEntailed, AssignmentEntailed, ReasonsEntailed, RootsEntailed,
     ReasonsFalse, ConflictInv, WorkInv, UnsatInv, DB, Analyzing

LEMMA Inductive == Spec => []IInv
<1>1. Init => IInv
  BY TypeInit, TrailInit, EntailInit DEF IInv
<1>2. IInv /\ [Next]_vars => IInv'
  BY TypeStep, TrailStep, EntailStep DEF IInv
<1> QED
  BY <1>1, <1>2, PTL DEF Spec

(* Whatever is assumed, strengthened, shrunken, minimized, subsumed or reduced,
   every clause in memory, every resolvent and every root-level unit follows from
   the clauses the user added. *)
THEOREM ClausesFollow == Spec => []ClausesEntailed
<1>1. IInv => ClausesEntailed
  BY DEF IInv, EntailInv, DBEntailed, AssignmentEntailed, RootsEntailed, WorkInv, Analyzing,
     ClausesEntailed, RootLiterals
<1> QED
  BY <1>1, Inductive, PTL

(* The solver only gives up on a formula for good when it has no model. *)
THEOREM UnsatFollows == Spec => []UnsatSound
<1>1. IInv => UnsatSound
  BY DEF IInv, EntailInv, UnsatInv, UnsatSound, Entailed
<1> QED
  BY <1>1, Inductive, PTL
=============================================================================
