-------------------------- MODULE DerivationProofs --------------------------
(***************************************************************************)
(* What the techniques derive: the clauses keep their shape, everything    *)
(* derived follows from the clauses the user added, and no clause keeps a  *)
(* variable that was removed.                                              *)
(***************************************************************************)
EXTENDS InprocessingProofs, FiniteSetTheorems, WellFoundedInduction

-----------------------------------------------------------------------------
(* The parts of the type invariant. *)
Kind(c) == c \in Clause /\ Cardinality(c) > 1 /\ ~IsTautology(c)
TypeUser ==
  /\ opts \in Options /\ script \in Seq(Calls) /\ may \subseteq Techniques
  /\ original \subseteq Clause /\ frozen \in [Var -> Nat]
  /\ assumed \subseteq Lit
TypeDB == \A c \in DB : Kind(c)
TypeUnits ==
  units \subseteq Lit /\ unsat \in BOOLEAN /\ status \in [Var -> Statuses]
TypeStack ==
  extension \in Seq(Entries) /\ witness \subseteq Lit /\ tainted \subseteq Lit
TypeLimits == bound \in Nat /\ rounds \in Nat /\ learned \in Nat
TypePlace == pc \in Places /\ back \in Places
TypeJob ==
  /\ pivot \in Lit \cup {0} /\ cand \in Clause
  /\ todo \subseteq Clause \X Clause
  /\ queue \subseteq Clause /\ gate \subseteq Clause
  /\ work \subseteq Lit /\ trail \subseteq Lit /\ marked \subseteq Lit
  /\ private \in Seq(Entries) /\ reprs \in [Lit -> Lit]
  /\ count \in Int /\ flag \in BOOLEAN

(* The places at which the clauses are propagated: each of them is satisfied
   by a unit or has two literals that are not false. *)
Roots == {"simplify", "block", "blocking", "cover", "covering", "covered",
  "condition", "conditioning", "probe", "vivify", "last", "instantiate"}
Loose(c) == IsSatisfied(c) \/ Cardinality(Rest(c)) > 1
Settled == pc \in Roots => ~unsat /\ \A c \in DB : Loose(c)
Consistent == ~unsat => \A l \in units : -l \notin units

\* All clauses a backward candidate is compared with have a literal of it.
BackwardOk ==
  pc = "backward" /\ ~unsat /\ todo # {} =>
    work = {} /\ \E l \in Rest(cand) : \A p \in todo : l \in p[2]

\* The literals of the vivified clause are to be looked at, decided to be
\* false, or implied; something was decided before anything was implied.
VivifyOk ==
  pc \in {"vivify", "last"} =>
    /\ gate \subseteq DB /\ cand \in Of(flag) /\ ~IsSatisfied(cand)
    /\ work \subseteq Rest(cand) /\ Negated(marked) \subseteq Rest(cand) \ work
    /\ marked = {} => work = Rest(cand) /\ trail = {} /\ pivot = 0
    /\ count # 0 => /\ -count \in marked
                    /\ marked = {-count} => work = Rest(cand) \ {count}
    /\ pc = "last" => work = {} /\ count # 0

InstantiateOk ==
  pc = "instantiate" =>
    cand \in irr /\ pivot \in cand /\ Cardinality(Rest(cand)) > 2

\* Between the techniques, and while clauses are restored, no job is open.
Between2 ==
  \/ pc \in {"user", "restore", "simplify", "answered", "elim"}
  \/ pc = "propagate" /\ back # "substituted"
Counting == pc = "restore" \/ (pc = "propagate" /\ back = "restore")
NoneOpen ==
  /\ pivot = 0 /\ cand = {} /\ todo = {} /\ queue = {} /\ gate = {}
  /\ work = {} /\ trail = {} /\ marked = {} /\ private = <<>>
  /\ reprs = [l \in Lit |-> l] /\ flag = FALSE
Rested == Between2 => NoneOpen /\ (~Counting => count = 0)

Shapes ==
  /\ TypeUser /\ TypeDB /\ TypeUnits /\ TypeStack /\ TypeLimits /\ TypePlace
  /\ TypeJob
  /\ Settled /\ Consistent /\ BackwardOk /\ VivifyOk /\ InstantiateOk

LEMMA ShapesType == Shapes => TypeOK
  BY DEF Shapes, TypeOK, TypeUser, TypeDB, TypeUnits, TypeStack, TypeLimits,
         TypePlace, TypeJob, Kind, DB
-----------------------------------------------------------------------------
(* Literals and clauses. *)

LEMMA Literals ==
  /\ \A l \in Lit : /\ l \in Int /\ l # 0 /\ -l \in Lit /\ -(-l) = l /\ l # -l
                    /\ Abs(l) \in Var /\ Abs(-l) = Abs(l)
                    /\ l \in {Abs(l), -Abs(l)}
  /\ Var \subseteq Lit /\ 0 \notin Lit
  /\ \A v \in Var : Abs(v) = v /\ -v \in Lit /\ v # 0 /\ v \in Int /\ Abs(-v) = v
  BY VarAssumption, SMT DEF Lit, Abs

LEMMA SameVariable ==
  \A k, l \in Lit : Abs(k) = Abs(l) => k = l \/ k = -l
  BY VarAssumption, SMT DEF Lit, Abs

LEMMA LitFinite == IsFiniteSet(Lit)
<1>1. IsFiniteSet(Var)
  BY VarAssumption
<1> DEFINE N == {-v : v \in Var}
<1>2. IsFiniteSet(N)
  <2> DEFINE f == [v \in Var |-> -v]
  <2>1. f \in Surjection(Var, N)
    BY Zenon DEF Surjection
  <2> HIDE DEF f, N
  <2> QED
    BY <1>1, <2>1, FS_Surjection
<1> QED
  BY <1>1, <1>2, FS_Union DEF Lit

LEMMA Clauses0 ==
  ASSUME NEW c \in Clause
  PROVE  /\ IsFiniteSet(c) /\ Cardinality(c) \in Nat
         /\ c \subseteq Lit
         /\ c = {} <=> Cardinality(c) = 0
         /\ Rest(c) \in Clause /\ Rest(c) \subseteq c
         /\ Negated(c) \in Clause
         /\ \A l : c \ {l} \in Clause
<1>1. c \subseteq Lit
  BY DEF Clause
<1>2. IsFiniteSet(c)
  BY <1>1, LitFinite, FS_Subset
<1>3. Cardinality(c) \in Nat /\ (c = {} <=> Cardinality(c) = 0)
  BY <1>2, FS_CardinalityType, FS_EmptySet
<1>4. Negated(c) \in Clause
  BY <1>1, Literals DEF Negated, Clause
<1> QED
  BY <1>1, <1>2, <1>3, <1>4 DEF Rest, Clause

\* A subset of a clause has no more literals.
LEMMA Fewer ==
  ASSUME NEW c \in Clause, NEW d, d \subseteq c
  PROVE  d \in Clause /\ Cardinality(d) <= Cardinality(c)
  BY Clauses0, FS_Subset DEF Clause

LEMMA OneLess ==
  ASSUME NEW c \in Clause, NEW l \in c
  PROVE  Cardinality(c \ {l}) = Cardinality(c) - 1
  BY Clauses0, FS_RemoveElement

LEMMA OneLiteral ==
  ASSUME NEW c \in Clause, Cardinality(c) = 1
  PROVE  \E l \in Lit : c = {l}
<1>1. \E l : c = {l}
  BY Clauses0, FS_Singleton
<1> QED
  BY <1>1, Clauses0

LEMMA TwoLiterals ==
  ASSUME NEW c \in Clause, NEW k \in c, NEW l \in c, k # l
  PROVE  Cardinality(c) > 1
<1>1. Cardinality(c \ {k}) = Cardinality(c) - 1
  BY OneLess
<1>2. c \ {k} \in Clause /\ c \ {k} # {}
  BY Clauses0
<1>3. Cardinality(c \ {k}) > 0
  BY <1>2, Clauses0
<1> QED
  BY <1>1, <1>3, Clauses0

\* The literals of a clause with two literals.
LEMMA BinaryClause ==
  ASSUME NEW c \in Clause, Cardinality(c) = 2, NEW l \in c
  PROVE  \E k \in c : k # l /\ c = {l, k}
<1>1. c \ {l} \in Clause /\ Cardinality(c \ {l}) = 1
  BY OneLess, Clauses0
<1>2. PICK k \in Lit : c \ {l} = {k}
  BY <1>1, OneLiteral
<1> QED
  BY <1>2

LEMMA SubKind ==
  ASSUME NEW c, ~IsTautology(c), NEW d, d \subseteq c
  PROVE  ~IsTautology(d)
  BY DEF IsTautology

-----------------------------------------------------------------------------
(* What the parts of a step leave behind. *)

LEMMA Same ==
  ASSUME Shapes
  PROVE  /\ UNCHANGED userVars => TypeUser'
         /\ UNCHANGED dbVars => TypeDB'
         /\ UNCHANGED unitVars => TypeUnits' /\ Consistent'
         /\ UNCHANGED <<units, unsat>> => Consistent'
         /\ UNCHANGED <<stackVars, tainted>> => TypeStack'
         /\ UNCHANGED limitVars => TypeLimits'
         /\ UNCHANGED <<pc, back>> => TypePlace'
         /\ pc' \in Places /\ back' = back => TypePlace'
         /\ UNCHANGED jobVars => TypeJob'
<1>1. UNCHANGED userVars => TypeUser'
  BY Zenon DEF Shapes, TypeUser, userVars
<1>2. UNCHANGED dbVars => TypeDB'
  BY Zenon DEF Shapes, TypeDB, dbVars, DB
<1>3. UNCHANGED unitVars => TypeUnits' /\ Consistent'
  BY DEF Shapes, TypeUnits, Consistent, unitVars
<1>4. UNCHANGED <<units, unsat>> => Consistent'
  BY DEF Shapes, Consistent
<1>5. UNCHANGED <<stackVars, tainted>> => TypeStack'
  BY Zenon DEF Shapes, TypeStack, stackVars
<1>6. UNCHANGED limitVars => TypeLimits'
  BY Zenon DEF Shapes, TypeLimits, limitVars
<1>7. UNCHANGED jobVars => TypeJob'
  BY Zenon DEF Shapes, TypeJob, jobVars, markVars
<1> QED
  BY <1>1, <1>2, <1>3, <1>4, <1>5, <1>6, <1>7 DEF Shapes, TypePlace

LEMMA Emptied == ASSUME NoJob PROVE TypeJob'
<1>1. [l \in Lit |-> l] \in [Lit -> Lit]
  OBVIOUS
<1>2. <<>> \in Seq(Entries)
  OBVIOUS
<1>0. pivot' \in Lit \cup {0} /\ cand' \in Clause /\ count' \in Int
  BY DEF NoJob, Clause
<1>3. /\ todo' \subseteq Clause \X Clause
      /\ queue' \subseteq Clause /\ gate' \subseteq Clause
      /\ work' \subseteq Lit /\ trail' \subseteq Lit /\ marked' \subseteq Lit
      /\ flag' \in BOOLEAN
  BY Zenon DEF NoJob
<1>4. private' \in Seq(Entries) /\ reprs' \in [Lit -> Lit]
  BY <1>1, <1>2, Zenon DEF NoJob
<1> QED
  BY <1>0, <1>3, <1>4, Zenon DEF TypeJob

\* A step to a place that has no invariant of its own.
LEMMA Arrived ==
  ASSUME TypeUser', TypeDB', TypeUnits', TypeStack', TypeLimits', TypePlace',
         TypeJob', Settled', Consistent',
         pc' \notin {"backward", "vivify", "last", "instantiate"}
  PROVE  Shapes'
  BY DEF Shapes, BackwardOk, VivifyOk, InstantiateOk

LEMMA NotSettled ==
  ASSUME pc' \notin Roots
  PROVE  Settled'
  BY DEF Settled

LEMMA StaysSettled ==
  ASSUME Settled, pc \in Roots, UNCHANGED <<units, unsat>>,
         \A c \in DB' : c \in DB \/ Loose(c)
  PROVE  Settled'
  BY DEF Settled, Loose, IsSatisfied, Rest, False

LEMMA UnitsAssigned ==
  ASSUME TypeUnits, Consistent, NEW ls \in SUBSET Lit, NEW empty \in BOOLEAN,
         Assign(ls, empty)
  PROVE  TypeUnits' /\ Consistent' /\ (unsat => unsat')
<1>1. unsat' \in BOOLEAN /\ units' \subseteq Lit /\ (unsat => unsat')
  BY DEF TypeUnits, Assign
<1>2. status' \in [Var -> Statuses]
  BY SMT DEF TypeUnits, Assign, Statuses
<1>3. ASSUME ~unsat', NEW l \in units', -l \in units'
      PROVE  FALSE
  <2>1. ~unsat /\ \A k \in ls : -k \notin units \cup ls
    BY <1>3, Zenon DEF Assign
  <2>2. l \in Lit /\ -(-l) = l /\ units' = units \cup ls
    BY <1>1, Literals DEF Assign
  <2> QED
    BY <1>3, <2>1, <2>2, Zenon DEF Consistent
<1> QED
  BY <1>1, <1>2, <1>3 DEF TypeUnits, Consistent

\* The clauses after a step are some of those before, and new ones.
LEMMA ClausesKept ==
  ASSUME TypeDB, NEW N, \A c \in N : Kind(c),
         irr' \subseteq irr \cup N, red' \subseteq red \cup N
  PROVE  TypeDB'
  BY DEF TypeDB, DB

LEMMA ClauseAdded ==
  ASSUME TypeDB, NEW r, Kind(r),
         irr' \subseteq irr \cup {r}, red' \subseteq red \cup {r}
  PROVE  TypeDB'
  BY DEF TypeDB, DB

LEMMA ClausesFewer ==
  ASSUME TypeDB, irr' \subseteq irr, red' \subseteq red
  PROVE  TypeDB' /\ DB' \subseteq DB
  BY DEF TypeDB, DB

LEMMA Entry0 ==
  ASSUME TypeStack, NEW i \in DOMAIN extension
  PROVE  extension[i].witness \in Clause /\ extension[i].clause \in Clause
<1>1. extension[i] \in Entries
  BY SMT DEF TypeStack
<1> QED
  BY <1>1, SMT DEF Entries

LEMMA Pushed0 ==
  ASSUME TypeStack, NEW s \in Seq(Entries), Push(s), UNCHANGED tainted
  PROVE  TypeStack'
<1>1. extension \o s \in Seq(Entries)
  BY ConcatProperties, Zenon DEF TypeStack
<1>2. Remarked(s) \subseteq Lit
  <2>1. \A i \in DOMAIN s : s[i] \in Entries
    BY SMT
  <2>2. \A i \in DOMAIN s : s[i].witness \subseteq Lit
    BY <2>1, SMT DEF Entries, Clause
  <2> QED
    BY <2>2, Zenon DEF Remarked
<1> QED
  BY <1>1, <1>2 DEF Push, TypeStack

LEMMA OneEntry ==
  ASSUME NEW w \in SUBSET Lit, NEW c \in Clause
  PROVE  <<[witness |-> w, clause |-> c]>> \in Seq(Entries)
  BY SMT DEF Entries, Clause

LEMMA Shorter ==
  ASSUME NEW s \in Seq(Entries), NEW i \in 1..Len(s)
  PROVE  Without(s, i) \in Seq(Entries)
<1>1. \A j \in 1..(i - 1) : s[j] \in Entries
  BY SMT
<1>2. \A j \in (i + 1)..Len(s) : s[j] \in Entries
  BY SMT
<1>3. SubSeq(s, 1, i - 1) \in Seq(Entries)
  BY <1>1, SubSeqProperties, SMT
<1>4. SubSeq(s, i + 1, Len(s)) \in Seq(Entries)
  BY <1>2, SubSeqProperties, SMT
<1> QED
  BY <1>3, <1>4, ConcatProperties, Zenon DEF Without

-----------------------------------------------------------------------------
(* The shapes are kept: the user's calls, restoring and the search. *)

LEMMA OriginalAdded ==
  ASSUME Shapes, NEW c \in Clause, NEW where \in {"user", "restore"},
         AddOriginal(c, where)
  PROVE  /\ TypeDB' /\ TypeUnits' /\ Consistent' /\ TypePlace'
         /\ tainted' \subseteq Lit /\ pc' \in {where, "propagate"}
<1> DEFINE r == Rest(c)
           skip == unsat \/ IsTautology(c) \/ IsSatisfied(c)
           unit == IF ~skip /\ Cardinality(r) = 1 THEN r ELSE {}
<1>0. /\ TypeDB /\ TypeUnits /\ Consistent /\ TypePlace /\ TypeStack
      /\ c \subseteq Lit
  BY Clauses0 DEF Shapes
<1>1. r \in Clause /\ r \subseteq c /\ Cardinality(r) \in Nat /\ r \subseteq Lit
  BY Clauses0
<1>2. /\ irr' = IF skip \/ Cardinality(r) < 2 THEN irr ELSE irr \cup {r}
      /\ red' = red /\ units' = units \cup unit
      /\ unsat' = (unsat \/ (~skip /\ r = {}))
      /\ status' = [v \in Var |-> IF v \in VarsOf(unit) THEN "fixed"
                                  ELSE Reactivated(c)[v]]
      /\ tainted' = tainted \cup {l \in c : -l \in witness}
      /\ IF unit # {} THEN PropagateThen(where) ELSE GoTo(where)
  BY DEF AddOriginal, Taint
<1>3. TypeDB'
  <2>1. CASE skip \/ Cardinality(r) < 2
    BY <1>0, <1>2, <2>1, ClausesKept
  <2>2. CASE ~(skip \/ Cardinality(r) < 2)
    <3>1. Kind(r)
      BY <1>1, <2>2, SubKind DEF Kind
    <3>2. irr' \subseteq irr \cup {r} /\ red' \subseteq red \cup {r}
      BY <1>2
    <3> QED
      BY <1>0, <3>1, <3>2, ClauseAdded
  <2> QED
    BY <2>1, <2>2
<1>4. unit \subseteq r /\ \A l \in unit : -l \notin units
  BY DEF Rest, False
<1>5. TypeUnits'
  <2>1. unsat' \in BOOLEAN /\ units' \subseteq Lit
    BY <1>0, <1>1, <1>2, <1>4 DEF TypeUnits
  <2>2. \A v \in Var : Reactivated(c)[v] \in Statuses
    BY <1>0, SMT DEF TypeUnits, Reactivated, Statuses
  <2>3. status' \in [Var -> Statuses]
    BY <1>2, <2>2, SMT DEF Statuses
  <2> QED
    BY <2>1, <2>3 DEF TypeUnits
<1>6. Consistent'
  <2> SUFFICES ASSUME ~unsat', NEW l \in units', -l \in units'
               PROVE  FALSE
    BY DEF Consistent
  <2>1. ~unsat /\ l \in Lit /\ -(-l) = l /\ l # -l
    BY <1>2, <1>5, Literals DEF TypeUnits
  <2>2. CASE unit = {}
    BY <1>0, <1>2, <2>1, <2>2 DEF Consistent
  <2>3. CASE unit # {}
    <3>1. PICK k \in Lit : unit = {k}
      BY <1>1, <2>3, OneLiteral
    <3>2. -k \notin units
      BY <1>4, <3>1
    <3> QED
      BY <1>0, <1>2, <2>1, <3>1, <3>2 DEF Consistent
  <2> QED
    BY <2>2, <2>3
<1>7. TypePlace' /\ pc' \in {where, "propagate"}
  <2>1. where \in Places /\ "propagate" \in Places
    BY DEF Places
  <2> QED
    BY <1>0, <1>2, <2>1, Zenon DEF TypePlace, PropagateThen, GoTo
<1> QED
  BY <1>0, <1>2, <1>3, <1>5, <1>6, <1>7 DEF TypeStack

\* The next call of the script.
LEMMA Call0 ==
  ASSUME TypeUser, script # <<>>
  PROVE  Head(script) \in Calls /\ Tail(script) \in Seq(Calls)
  BY HeadTailProperties, Zenon DEF TypeUser

LEMMA CallTypes ==
  ASSUME NEW x \in Calls
  PROVE  /\ x.call = "add" => x.clause \in Clause
         /\ x.call \in {"assume", "freeze", "melt"} => x.lit \in Lit
         /\ x.call = "solve" =>
              x.may \subseteq Techniques /\ x.rounds \in Nat /\ x.learned \in Nat
  BY DEF Calls

LEMMA Fixable ==
  ASSUME TypeUnits, TypeStack, NEW ls \in SUBSET Lit, NEW st, st = Reactivated(ls)
  PROVE  st \in [Var -> Statuses] /\ tainted \cup {l \in ls : -l \in witness} \subseteq Lit
  BY SMT DEF TypeUnits, TypeStack, Reactivated, Statuses

LEMMA UserShapes ==
  ASSUME Shapes, Add \/ Assume \/ Freeze \/ Melt \/ Solve \/ Steady
  PROVE  Shapes'
<1> DEFINE x == Head(script)
<1>0. /\ TypeUser /\ TypeDB /\ TypeUnits /\ TypeStack /\ TypeLimits /\ TypePlace
      /\ TypeJob /\ Consistent
  BY DEF Shapes
<1>1. CASE Add
  <2>1. script # <<>> /\ x.call = "add" /\ script' = Tail(script)
        /\ original' = original \cup {x.clause} /\ AddOriginal(x.clause, "user")
        /\ UNCHANGED <<opts, may, frozen, assumed, extension, witness>>
        /\ UNCHANGED limitVars /\ UNCHANGED jobVars
    BY <1>1 DEF Add, IsCall, NextCall, stackVars
  <2>2. x \in Calls /\ Tail(script) \in Seq(Calls)
    BY <1>0, <2>1, Call0
  <2>3. x.clause \in Clause
    BY <2>1, <2>2, CallTypes
  <2>4. TypeUser'
    BY <1>0, <2>1, <2>2, <2>3 DEF TypeUser
  <2>5. /\ TypeDB' /\ TypeUnits' /\ Consistent' /\ TypePlace'
        /\ tainted' \subseteq Lit /\ pc' \in {"user", "propagate"}
    BY <2>1, <2>3, OriginalAdded
  <2>6. TypeStack'
    BY <1>0, <2>1, <2>5 DEF TypeStack
  <2>7. TypeLimits' /\ TypeJob' /\ Settled'
    BY <2>1, <2>5, Same, NotSettled DEF Roots
  <2> QED
    BY <2>4, <2>5, <2>6, <2>7, Arrived
<1>2. CASE Assume \/ Freeze \/ Melt
  <2>1. /\ script # <<>> /\ x.call \in {"assume", "freeze", "melt"}
        /\ script' = Tail(script) /\ pc = "user"
        /\ status' = Reactivated({x.lit})
        /\ tainted' = tainted \cup {l \in {x.lit} : -l \in witness}
        /\ UNCHANGED <<opts, may, original, units, unsat, extension, witness,
                       pc, back>>
        /\ UNCHANGED dbVars /\ UNCHANGED limitVars /\ UNCHANGED jobVars
    BY <1>2 DEF Assume, Freeze, Melt, IsCall, NextCall, stackVars, Taint
  <2>2. x \in Calls /\ Tail(script) \in Seq(Calls)
    BY <1>0, <2>1, Call0
  <2>3. x.lit \in Lit /\ Abs(x.lit) \in Var
    BY <2>1, <2>2, CallTypes, Literals
  <2>4. frozen' \in [Var -> Nat] /\ assumed' \subseteq Lit
    <3>1. CASE Assume
      BY <1>0, <2>3, <3>1 DEF Assume, TypeUser
    <3>2. CASE Freeze
      <4>1. frozen' = [frozen EXCEPT ![Abs(x.lit)] = @ + 1] /\ assumed' = assumed
        BY <3>2 DEF Freeze
      <4> QED
        BY <1>0, <2>3, <4>1 DEF TypeUser
    <3>3. CASE Melt
      <4>1. /\ frozen' = [frozen EXCEPT ![Abs(x.lit)] = @ - 1]
            /\ frozen[Abs(x.lit)] > 0 /\ assumed' = assumed
        BY <3>3 DEF Melt
      <4> QED
        BY <1>0, <2>3, <4>1 DEF TypeUser
    <3> QED
      BY <1>2, <3>1, <3>2, <3>3
  <2>5. TypeUser'
    BY <1>0, <2>1, <2>2, <2>4 DEF TypeUser
  <2>6. status' \in [Var -> Statuses] /\ tainted' \subseteq Lit
    <3>1. {x.lit} \in SUBSET Lit
      BY <2>3
    <3> QED
      BY <1>0, <2>1, <3>1, Fixable
  <2>7. TypeUnits' /\ TypeStack'
    BY <1>0, <2>1, <2>6 DEF TypeUnits, TypeStack
  <2>8. TypeDB' /\ TypeLimits' /\ TypeJob' /\ TypePlace' /\ Consistent'
    BY <2>1, Same
  <2>9. pc' = "user"
    BY <2>1
  <2> QED
    BY <2>5, <2>7, <2>8, <2>9, NotSettled, Arrived DEF Roots
<1>3. CASE Solve
  <2>1. /\ script # <<>> /\ x.call = "solve" /\ script' = Tail(script)
        /\ may' = x.may /\ rounds' = x.rounds /\ learned' = x.learned
        /\ UNCHANGED <<opts, original, frozen, assumed, bound>>
        /\ UNCHANGED dbVars /\ UNCHANGED unitVars
        /\ UNCHANGED <<stackVars, tainted>> /\ UNCHANGED jobVars
    BY <1>3 DEF Solve, IsCall
  <2>2. x \in Calls /\ Tail(script) \in Seq(Calls)
    BY <1>0, <2>1, Call0
  <2>3. x.may \subseteq Techniques /\ x.rounds \in Nat /\ x.learned \in Nat
    BY <2>1, <2>2, CallTypes
  <2>4. TypeUser' /\ TypeLimits'
    BY <1>0, <2>1, <2>2, <2>3 DEF TypeUser, TypeLimits
  <2>5. pc' \in {"answered", "propagate"} /\ TypePlace'
    BY <1>0, <1>3, Zenon DEF Solve, GoTo, PropagateThen, TypePlace, Places
  <2>6. TypeDB' /\ TypeUnits' /\ TypeStack' /\ TypeJob' /\ Consistent'
    BY <2>1, Same
  <2> QED
    BY <2>4, <2>5, <2>6, NotSettled, Arrived DEF Roots
<1>4. CASE Steady
  <2>1. /\ UNCHANGED <<opts, script, may, original, frozen>> /\ assumed' = {}
        /\ pc' = "user" /\ back' = back
        /\ UNCHANGED dbVars /\ UNCHANGED unitVars /\ UNCHANGED limitVars
        /\ UNCHANGED <<stackVars, tainted>> /\ UNCHANGED jobVars
    BY <1>4 DEF Steady, GoTo
  <2>2. TypeUser' /\ TypePlace'
    BY <1>0, <2>1 DEF TypeUser, TypePlace, Places
  <2>3. TypeDB' /\ TypeUnits' /\ TypeStack' /\ TypeLimits' /\ TypeJob' /\ Consistent'
    BY <2>1, Same
  <2> QED
    BY <2>1, <2>2, <2>3, NotSettled, Arrived DEF Roots
<1> QED
  BY <1>1, <1>2, <1>3, <1>4

LEMMA RestoreShapes ==
  ASSUME Shapes, RestoreFlush \/ RestoreClause \/ RestoreKeep \/ Restored,
         count \in Nat
  PROVE  Shapes'
<1>0. /\ TypeUser /\ TypeDB /\ TypeUnits /\ TypeStack /\ TypeLimits /\ TypePlace
      /\ TypeJob /\ Consistent /\ extension \in Seq(Entries)
  BY DEF Shapes, TypeStack
<1>1. CASE RestoreFlush \/ RestoreClause
  <2>1. count < Len(extension) /\ extension' = Without(extension, count + 1)
        /\ pc = "restore"
    BY <1>1 DEF RestoreFlush, RestoreClause, Restoring
  <2>2. count + 1 \in 1..Len(extension)
    BY <1>0, <2>1, LenProperties, SMT
  <2>3. extension' \in Seq(Entries)
    BY <1>0, <2>1, <2>2, Shorter
  <2>4. Entry \in Entries
    BY <1>0, <2>2, ElementOfSeq DEF Entry
  <2>5. Entry.clause \in Clause
    BY <2>4, SMT DEF Entries
  <2>6. /\ TypeDB' /\ TypeUnits' /\ Consistent' /\ TypePlace'
        /\ tainted' \subseteq Lit /\ pc' \in {"restore", "propagate"}
    <3>1. CASE RestoreFlush
      <4>1. UNCHANGED dbVars /\ UNCHANGED unitVars /\ UNCHANGED <<pc, back, tainted>>
        BY <3>1 DEF RestoreFlush
      <4> QED
        BY <1>0, <2>1, <4>1, Same DEF TypeStack
    <3>2. CASE RestoreClause
      BY <2>5, <3>2, OriginalAdded DEF RestoreClause
    <3> QED
      BY <1>1, <3>1, <3>2
  <2>7. UNCHANGED userVars /\ UNCHANGED limitVars /\ UNCHANGED jobVars /\ witness' = witness
    BY <1>1 DEF RestoreFlush, RestoreClause
  <2>8. TypeUser' /\ TypeLimits' /\ TypeJob'
    BY <2>7, Same
  <2>9. TypeStack'
    BY <1>0, <2>3, <2>6, <2>7 DEF TypeStack
  <2> QED
    BY <2>6, <2>8, <2>9, NotSettled, Arrived DEF Roots
<1>2. CASE RestoreKeep
  <2>1. /\ pc' = "restore" /\ count' = count + 1
        /\ UNCHANGED userVars /\ UNCHANGED dbVars /\ UNCHANGED unitVars
        /\ UNCHANGED <<stackVars, tainted>> /\ UNCHANGED limitVars
        /\ UNCHANGED <<pc, back>>
        /\ UNCHANGED <<pivot, cand, todo, queue, gate, work, markVars, flag>>
    BY <1>2 DEF RestoreKeep, Restoring
  <2>2. TypeJob'
    BY <1>0, <2>1 DEF TypeJob, markVars
  <2>3. /\ TypeUser' /\ TypeDB' /\ TypeUnits' /\ TypeStack' /\ TypeLimits'
        /\ TypePlace' /\ Consistent'
    BY <2>1, Same
  <2> QED
    BY <2>1, <2>2, <2>3, NotSettled, Arrived DEF Roots
<1>3. CASE Restored
  <2>1. /\ pc' = "propagate" /\ back' = "simplify" /\ count' = 0
        /\ witness' = Remarked(extension) /\ tainted' = {}
        /\ UNCHANGED userVars /\ UNCHANGED dbVars /\ UNCHANGED unitVars
        /\ UNCHANGED extension /\ UNCHANGED limitVars
        /\ UNCHANGED <<pivot, cand, todo, queue, gate, work, markVars, flag>>
    BY <1>3 DEF Restored, PropagateThen
  <2>2. TypeJob' /\ TypePlace'
    BY <1>0, <2>1 DEF TypeJob, markVars, TypePlace, Places
  <2>3. Remarked(extension) \subseteq Lit
    <3>1. \A i \in DOMAIN extension : extension[i].witness \subseteq Lit
      BY <1>0, Entry0 DEF Clause
    <3> QED
      BY <3>1, Zenon DEF Remarked
  <2>4. TypeStack'
    BY <1>0, <2>1, <2>3 DEF TypeStack
  <2>5. /\ TypeUser' /\ TypeDB' /\ TypeUnits' /\ TypeLimits' /\ Consistent'
    BY <2>1, Same
  <2> QED
    BY <2>1, <2>2, <2>4, <2>5, NotSettled, Arrived DEF Roots
<1> QED
  BY <1>1, <1>2, <1>3

LEMMA InForced ==
  ASSUME NEW F, NEW A, NEW l
  PROVE  l \in Forced(F, A) <=>
           \E c \in F : l \in c /\ l \notin A /\ Negated(c \ {l}) \subseteq A
<1> DEFINE G(c) == {k \in c : k \notin A /\ Negated(c \ {k}) \subseteq A}
<1>1. Forced(F, A) = UNION {G(c) : c \in F}
  BY DEF Forced
<1>2. \A c : l \in G(c) <=> l \in c /\ l \notin A /\ Negated(c \ {l}) \subseteq A
  OBVIOUS
<1> HIDE DEF G
<1>3. l \in UNION {G(c) : c \in F} <=> \E c \in F : l \in G(c)
  BY Zenon
<1> QED
  BY <1>1, <1>2, <1>3

LEMMA ForcingClause ==
  ASSUME NEW F, NEW A, NEW l \in Forced(F, A)
  PROVE  \E c \in F : l \in c /\ l \notin A /\ Negated(c \ {l}) \subseteq A
  BY InForced

\* What is forced are literals of the clauses.
LEMMA ForcedLits ==
  ASSUME NEW F, F \subseteq Clause, NEW A
  PROVE  Forced(F, A) \in SUBSET Lit
<1>1. ASSUME NEW l \in Forced(F, A)
      PROVE  l \in Lit
  <2>1. PICK c \in F : l \in c /\ l \notin A /\ Negated(c \ {l}) \subseteq A
    BY InForced
  <2> QED
    BY <2>1 DEF Clause
<1> QED
  BY <1>1

\* After propagation no clause is left with one literal, or none.
LEMMA QuietLoose ==
  ASSUME NEW c \in Clause, NEW F, c \in F,
         ~Falsified(F, units), Forced(F, units) = {}
  PROVE  Loose(c)
<1> SUFFICES ASSUME ~IsSatisfied(c), ~(Cardinality(Rest(c)) > 1)
             PROVE  FALSE
  BY DEF Loose
<1>1. /\ Rest(c) \in Clause /\ Cardinality(Rest(c)) \in Nat
      /\ c \subseteq Lit
  BY Clauses0
<1>2. CASE Rest(c) = {}
  BY <1>2 DEF Falsified, Rest, False, Negated
<1>3. CASE Rest(c) # {}
  <2>1. Cardinality(Rest(c)) = 1
    BY <1>1, <1>3, Clauses0
  <2>2. PICK l \in Lit : Rest(c) = {l}
    BY <1>1, <2>1, OneLiteral
  <2>3. l \in c /\ l \notin units
    BY <2>2 DEF Rest, IsSatisfied
  <2>4. Negated(c \ {l}) \subseteq units
    BY <2>2 DEF Negated, Rest, False
  <2> DEFINE A == units
  <2>5. l \in Forced(F, A) <=>
          \E d \in F : l \in d /\ l \notin A /\ Negated(d \ {l}) \subseteq A
    BY InForced
  <2> QED
    BY <2>3, <2>4, <2>5
<1> QED
  BY <1>2, <1>3

\* In the other direction, nothing is forced by clauses that are loose.
LEMMA LooseQuiet ==
  ASSUME NEW F, \A c \in F : c \in Clause /\ Loose(c),
         \A l \in units : -l \notin units
  PROVE  ~Falsified(F, units) /\ Forced(F, units) = {}
<1>1. ASSUME NEW c \in F, NEW l \in Lit, l \notin units,
             Negated(c \ {l}) \subseteq units
      PROVE  FALSE
  <2>1. c \in Clause /\ Loose(c)
    OBVIOUS
  <2>2. ~IsSatisfied(c)
    BY <1>1 DEF IsSatisfied, Negated
  <2>3. Rest(c) \subseteq {l}
    BY <1>1 DEF Rest, False, Negated
  <2>4. {l} \in Clause /\ Cardinality({l}) = 1
    BY FS_Singleton DEF Clause
  <2>5. Cardinality(Rest(c)) <= 1
    BY <2>3, <2>4, Fewer
  <2>6. Cardinality(Rest(c)) \in Nat
    BY <2>1, Clauses0
  <2> QED
    BY <2>1, <2>2, <2>5, <2>6 DEF Loose
<1>2. Forced(F, units) = {}
  <2>1. \A c \in F : c \subseteq Lit
    BY Clauses0
  <2>2. ASSUME NEW l \in Forced(F, units)
        PROVE  FALSE
    <3> DEFINE A == units
    <3>1. \E c \in F : l \in c /\ l \notin A /\ Negated(c \ {l}) \subseteq A
      BY InForced
    <3> QED
      BY <1>1, <2>1, <3>1
  <2> QED
    BY <2>2
<1>3. ASSUME NEW c \in F, Negated(c) \subseteq units
      PROVE  FALSE
  <2>1. c \in Clause /\ Loose(c) /\ {} \in Clause /\ Cardinality({}) = 0
    BY FS_EmptySet DEF Clause
  <2>2. ~IsSatisfied(c)
    BY <1>3 DEF IsSatisfied, Negated
  <2>3. Rest(c) = {}
    BY <1>3 DEF Rest, False, Negated
  <2> QED
    BY <2>1, <2>2, <2>3 DEF Loose
<1> QED
  BY <1>2, <1>3 DEF Falsified

LEMMA PropagateShapes ==
  ASSUME Shapes, back \in Backs, Propagate \/ Propagated
  PROVE  Shapes'
<1>0. /\ TypeUser /\ TypeDB /\ TypeUnits /\ TypeStack /\ TypeLimits /\ TypePlace
      /\ TypeJob /\ Consistent /\ DB \subseteq Clause
  BY DEF Shapes, TypeDB, Kind
<1>1. /\ UNCHANGED userVars /\ UNCHANGED dbVars /\ UNCHANGED <<stackVars, tainted>>
      /\ UNCHANGED limitVars /\ UNCHANGED back /\ UNCHANGED jobVars
  BY Zenon DEF Propagate, Propagated
<1>2. TypeUser' /\ TypeDB' /\ TypeStack' /\ TypeLimits' /\ TypeJob'
  BY <1>1, Same
<1>3. CASE Propagate
  <2>1. pc' = "propagate"
    BY <1>3 DEF Propagate
  <2>2. TypePlace'
    BY <1>0, <1>1, <1>3 DEF Propagate, TypePlace
  <2>3. TypeUnits' /\ Consistent'
    <3>1. {} \in SUBSET Lit /\ Forced(DB, units) \in SUBSET Lit
          /\ TRUE \in BOOLEAN /\ FALSE \in BOOLEAN
      BY <1>0, ForcedLits
    <3>2. Assign({}, TRUE) \/ Assign(Forced(DB, units), FALSE)
      BY <1>3 DEF Propagate
    <3> QED
      BY <1>0, <3>1, <3>2, UnitsAssigned
  <2> QED
    BY <1>2, <2>1, <2>2, <2>3, NotSettled, Arrived DEF Roots
<1>4. CASE Propagated
  <2>1. /\ pc = "propagate" /\ UNCHANGED unitVars
        /\ unsat \/ (~Falsified(DB, units) /\ Forced(DB, units) = {})
        /\ pc' = IF unsat /\ back = "simplify" THEN "answered" ELSE back
    BY <1>4 DEF Propagated
  <2>2. TypeUnits' /\ Consistent'
    BY <2>1, Same
  <2>3. TypePlace' /\ pc' \notin {"backward", "vivify", "last", "instantiate"}
    BY <1>0, <1>1, <2>1 DEF TypePlace, Places, Backs
  <2>4. Settled'
    <3> SUFFICES ASSUME pc' \in Roots
                 PROVE  ~unsat' /\ \A c \in DB' : Loose(c)'
      BY DEF Settled
    <3>1. ~unsat /\ pc' = "simplify"
      BY <2>1 DEF Backs, Roots
    <3>2. \A c \in DB : Loose(c)
      BY <1>0, <2>1, <3>1, QuietLoose
    <3>3. DB' = DB /\ units' = units /\ unsat' = unsat
      BY <1>1, <2>1 DEF dbVars, unitVars, DB
    <3> QED
      BY <3>1, <3>2, <3>3 DEF Loose, IsSatisfied, Rest, False
  <2> QED
    BY <1>2, <2>2, <2>3, <2>4, Arrived
<1> QED
  BY <1>3, <1>4

\* A clause that is derived.
LEMMA ClauseDerived ==
  ASSUME TypeDB, TypeUnits, Consistent, NEW r \in Clause, ~IsTautology(r),
         NEW redundant \in BOOLEAN, Derive(r, redundant)
  PROVE  TypeDB' /\ TypeUnits' /\ Consistent'
<1>1. r \subseteq Lit /\ Cardinality(r) \in Nat
  BY Clauses0
<1>2. TypeUnits' /\ Consistent'
  <2> DEFINE ls == IF Cardinality(r) = 1 THEN r ELSE {}
             empty == r = {}
  <2>1. ls \in SUBSET Lit /\ empty \in BOOLEAN
    BY <1>1
  <2>2. Assign(ls, empty)
    BY DEF Derive
  <2> HIDE DEF ls, empty
  <2> QED
    BY <2>1, <2>2, UnitsAssigned
<1>3. TypeDB'
  <2>1. CASE Cardinality(r) > 1
    <3>1. Kind(r)
      BY <2>1 DEF Kind
    <3>2. irr' \subseteq irr \cup {r} /\ red' \subseteq red \cup {r}
      BY DEF Derive
    <3> QED
      BY <3>1, <3>2, ClauseAdded
  <2>2. CASE ~(Cardinality(r) > 1)
    <3>1. irr' \subseteq irr /\ red' \subseteq red
      BY <2>2 DEF Derive
    <3> QED
      BY <3>1, ClausesFewer
  <2> QED
    BY <2>1, <2>2
<1> QED
  BY <1>2, <1>3

LEMMA ResolventClause ==
  ASSUME NEW c \in Clause, NEW d \in Clause, NEW l
  PROVE  Resolvent(c, d, l) \in Clause
  BY DEF Resolvent, Clause

\* Without its false literals a clause that is not satisfied is still one.
LEMMA Stripped ==
  ASSUME TypeDB, Settled, pc \in Roots, NEW c \in DB, ~IsSatisfied(c)
  PROVE  Kind(Rest(c)) /\ Loose(Rest(c))
<1>1. Kind(c) /\ Loose(c)
  BY DEF TypeDB, Settled
<1>2. c \in Clause /\ Rest(c) \in Clause /\ Rest(c) \subseteq c
      /\ Cardinality(Rest(c)) > 1
  BY <1>1, Clauses0 DEF Kind, Loose
<1>3. ~IsTautology(Rest(c))
  BY <1>1, <1>2, SubKind DEF Kind
<1>4. Rest(Rest(c)) = Rest(c)
  BY DEF Rest
<1> QED
  BY <1>2, <1>3, <1>4 DEF Kind, Loose

LEMMA AllStripped ==
  ASSUME TypeDB, Settled, pc \in Roots,
         irr' = {Rest(c) : c \in Open(irr)}, red' = {Rest(c) : c \in Open(red)}
  PROVE  TypeDB' /\ \A c \in DB' : Loose(c)
<1>1. ASSUME NEW d \in DB'
      PROVE  Kind(d) /\ Loose(d)
  <2>1. PICK c \in DB : d = Rest(c) /\ ~IsSatisfied(c)
    BY <1>1 DEF DB, Open
  <2> QED
    BY <2>1, Stripped
<1> QED
  BY <1>1 DEF TypeDB

LEMMA SearchShapes ==
  ASSUME Shapes, Learn \/ Collect \/ Answer
  PROVE  Shapes'
<1>0. /\ TypeUser /\ TypeDB /\ TypeUnits /\ TypeStack /\ TypeLimits /\ TypePlace
      /\ TypeJob /\ Consistent /\ Settled /\ DB \subseteq Clause
  BY DEF Shapes, TypeDB, Kind
<1>1. CASE Learn
  <2>1. /\ learned > 0 /\ learned' = learned - 1
        /\ pc' = "propagate" /\ back' = "simplify"
        /\ UNCHANGED userVars /\ UNCHANGED <<stackVars, tainted>>
        /\ UNCHANGED <<bound, rounds>> /\ UNCHANGED jobVars
    BY <1>1 DEF Learn, PropagateThen
  <2>2. PICK c \in DB, d \in DB : \E l \in c :
          ~IsTautology(Resolvent(c, d, l)) /\ Derive(Rest(Resolvent(c, d, l)), TRUE)
    BY <1>1 DEF Learn
  <2>3. PICK l \in c :
          ~IsTautology(Resolvent(c, d, l)) /\ Derive(Rest(Resolvent(c, d, l)), TRUE)
    BY <2>2
  <2> DEFINE r == Rest(Resolvent(c, d, l))
             redundant == TRUE
  <2>4. r \in Clause /\ ~IsTautology(r)
    <3>1. Resolvent(c, d, l) \in Clause
      BY <1>0, ResolventClause
    <3>2. r \in Clause /\ r \subseteq Resolvent(c, d, l)
      BY <3>1, Clauses0
    <3> QED
      BY <2>3, <3>2, SubKind
  <2>5. TypeDB' /\ TypeUnits' /\ Consistent'
    <3>1. Derive(r, redundant) /\ redundant \in BOOLEAN
      BY <2>3
    <3> HIDE DEF r, redundant
    <3> QED
      BY <1>0, <2>4, <3>1, ClauseDerived
  <2>6. TypeUser' /\ TypeStack' /\ TypeJob'
    BY <2>1, Same
  <2>7. TypeLimits' /\ TypePlace'
    BY <1>0, <2>1 DEF TypeLimits, TypePlace, Places
  <2> QED
    BY <2>1, <2>5, <2>6, <2>7, NotSettled, Arrived DEF Roots
<1>2. CASE Collect
  <2>1. /\ pc = "simplify"
        /\ irr' = {Rest(c) : c \in Open(irr)} /\ red' = {Rest(c) : c \in Open(red)}
        /\ UNCHANGED userVars /\ UNCHANGED unitVars
        /\ UNCHANGED <<stackVars, tainted>> /\ UNCHANGED limitVars
        /\ UNCHANGED <<pc, back>> /\ UNCHANGED jobVars
    BY <1>2 DEF Collect
  <2>2. TypeDB' /\ \A c \in DB' : Loose(c)
    BY <1>0, <2>1, AllStripped DEF Roots
  <2>3. Settled'
    BY <1>0, <2>1, <2>2, StaysSettled DEF Roots, unitVars
  <2>4. /\ TypeUser' /\ TypeUnits' /\ TypeStack' /\ TypeLimits' /\ TypePlace'
        /\ TypeJob' /\ Consistent'
    BY <2>1, Same
  <2> QED
    BY <2>1, <2>2, <2>3, <2>4, Arrived
<1>3. CASE Answer
  <2>1. /\ pc' = "answered" /\ back' = back
        /\ UNCHANGED userVars /\ UNCHANGED dbVars /\ UNCHANGED unitVars
        /\ UNCHANGED <<stackVars, tainted>> /\ UNCHANGED limitVars
        /\ UNCHANGED jobVars
    BY <1>3 DEF Answer, GoTo
  <2>2. TypePlace'
    BY <1>0, <2>1 DEF TypePlace, Places
  <2>3. /\ TypeUser' /\ TypeDB' /\ TypeUnits' /\ TypeStack' /\ TypeLimits'
        /\ TypeJob' /\ Consistent'
    BY <2>1, Same
  <2> QED
    BY <2>1, <2>2, <2>3, NotSettled, Arrived DEF Roots
<1> QED
  BY <1>1, <1>2, <1>3

-----------------------------------------------------------------------------
(* The shapes are kept: elimination. *)

LEMMA ArrivedElim ==
  ASSUME TypeUser', TypeDB', TypeUnits', TypeStack', TypeLimits', TypePlace',
         TypeJob', Consistent', BackwardOk', pc' \notin Roots
  PROVE  Shapes'
  BY DEF Shapes, Settled, VivifyOk, InstantiateOk, Roots

LEMMA NoPairsLeft ==
  ASSUME pc' # "backward" \/ todo' = {}
  PROVE  BackwardOk'
  BY DEF BackwardOk

LEMMA RoundShapes ==
  ASSUME Shapes, \/ StartElim \/ Try \/ ElimRoundDone \/ NextElimRound
                 \/ IncreaseBound \/ Tried
  PROVE  Shapes'
<1>0. /\ TypeUser /\ TypeDB /\ TypeUnits /\ TypeStack /\ TypeLimits /\ TypePlace
      /\ TypeJob /\ Consistent /\ Settled /\ DB \subseteq Clause
  BY DEF Shapes, TypeDB, Kind
<1>1. CASE StartElim
  <2>1. /\ rounds > 0 /\ rounds' = rounds - 1 /\ pc' = "elim" /\ back' = back
        /\ irr' = Open(irr) /\ red' = red
        /\ UNCHANGED userVars /\ UNCHANGED unitVars
        /\ UNCHANGED <<stackVars, tainted>> /\ UNCHANGED <<bound, learned>>
        /\ UNCHANGED jobVars
    BY <1>1 DEF StartElim, Start, GoTo
  <2>2. TypeDB'
    BY <1>0, <2>1, ClausesFewer DEF Open
  <2>3. TypeLimits' /\ TypePlace'
    BY <1>0, <2>1 DEF TypeLimits, TypePlace, Places
  <2>4. TypeUser' /\ TypeUnits' /\ TypeStack' /\ TypeJob' /\ Consistent'
    BY <2>1, Same
  <2> QED
    BY <2>1, <2>2, <2>3, <2>4, NoPairsLeft, ArrivedElim DEF Roots
<1>2. CASE Try
  <2>1. /\ pc' = "gates" /\ back' = back
        /\ \E l \in Lit : /\ pivot' = l
                          /\ count' = Cardinality(Occs(l)) +
                                      Cardinality(Occs(-l)) + bound
        /\ UNCHANGED userVars /\ UNCHANGED dbVars /\ UNCHANGED unitVars
        /\ UNCHANGED <<stackVars, tainted>> /\ UNCHANGED limitVars
        /\ UNCHANGED <<cand, todo, queue, gate, work, markVars, flag>>
    BY <1>2 DEF Try, GoTo
  <2>2. \A l : Cardinality(Occs(l)) \in Nat
    <3>1. IsFiniteSet(Clause)
      BY LitFinite, FS_SUBSET DEF Clause
    <3>2. irr \subseteq Clause
      BY <1>0 DEF DB
    <3>3. IsFiniteSet(irr)
      BY <3>1, <3>2, FS_Subset
    <3>4. ASSUME NEW l
          PROVE  Cardinality(Occs(l)) \in Nat
      <4>1. Occs(l) \subseteq irr
        BY DEF Occs
      <4>2. IsFiniteSet(Occs(l))
        BY <3>3, <4>1, FS_Subset
      <4> QED
        BY <4>2, FS_CardinalityType
    <3> QED
      BY <3>4
  <2>3. pivot' \in Lit /\ count' \in Int
    <3>1. PICK l \in Lit : /\ pivot' = l
                           /\ count' = Cardinality(Occs(l)) +
                                       Cardinality(Occs(-l)) + bound
      BY <2>1
    <3> QED
      BY <1>0, <2>2, <3>1 DEF TypeLimits
  <2>4. TypeJob' /\ TypePlace'
    BY <1>0, <2>1, <2>3 DEF TypeJob, markVars, TypePlace, Places
  <2>5. /\ TypeUser' /\ TypeDB' /\ TypeUnits' /\ TypeStack' /\ TypeLimits'
        /\ Consistent'
    BY <2>1, Same
  <2> QED
    BY <2>1, <2>4, <2>5, NoPairsLeft, ArrivedElim DEF Roots
<1>3. CASE ElimRoundDone
  <2>1. /\ pc' = "propagate" /\ back' = "simplify"
        /\ irr' = irr /\ red' \subseteq red
        /\ UNCHANGED userVars /\ UNCHANGED unitVars
        /\ UNCHANGED <<stackVars, tainted>> /\ UNCHANGED limitVars
        /\ UNCHANGED jobVars
    BY <1>3 DEF ElimRoundDone, PropagateThen
  <2>2. TypeDB'
    BY <1>0, <2>1, ClausesFewer
  <2>3. TypePlace'
    BY <1>0, <2>1 DEF TypePlace, Places
  <2>4. /\ TypeUser' /\ TypeUnits' /\ TypeStack' /\ TypeLimits' /\ TypeJob'
        /\ Consistent'
    BY <2>1, Same
  <2> QED
    BY <2>1, <2>2, <2>3, <2>4, NoPairsLeft, ArrivedElim DEF Roots
<1>3b. CASE NextElimRound
  <2>1. /\ pc = "elim" /\ pc' = pc /\ back' = back
        /\ irr' = Open(irr) /\ red' \subseteq red
        /\ UNCHANGED userVars /\ UNCHANGED unitVars
        /\ UNCHANGED <<stackVars, tainted>> /\ UNCHANGED limitVars
        /\ UNCHANGED jobVars
    BY <1>3b DEF NextElimRound
  <2>2. TypeDB'
    BY <1>0, <2>1, ClausesFewer DEF Open
  <2>3. TypePlace'
    BY <1>0, <2>1 DEF TypePlace
  <2>4. /\ TypeUser' /\ TypeUnits' /\ TypeStack' /\ TypeLimits' /\ TypeJob'
        /\ Consistent'
    BY <2>1, Same
  <2> QED
    BY <2>1, <2>2, <2>3, <2>4, NoPairsLeft, ArrivedElim DEF Roots
<1>4. CASE IncreaseBound
  <2>1. /\ pc = "simplify" /\ bound < opts.elimboundmax
        /\ bound' \in {1, opts.elimboundmax, 2 * bound}
        /\ UNCHANGED userVars /\ UNCHANGED dbVars /\ UNCHANGED unitVars
        /\ UNCHANGED <<stackVars, tainted>> /\ UNCHANGED <<rounds, learned>>
        /\ UNCHANGED <<pc, back>> /\ UNCHANGED jobVars
    BY <1>4 DEF IncreaseBound
  <2>2. opts.elimboundmax \in Nat
    BY <1>0, OptionAssumption DEF TypeUser
  <2>3. TypeLimits'
    BY <1>0, <2>1, <2>2 DEF TypeLimits
  <2>4. Settled'
    BY <1>0, <2>1, StaysSettled DEF Roots, unitVars, dbVars, DB
  <2>5. /\ TypeUser' /\ TypeDB' /\ TypeUnits' /\ TypeStack' /\ TypePlace'
        /\ TypeJob' /\ Consistent'
    BY <2>1, Same
  <2> QED
    BY <2>1, <2>3, <2>4, <2>5, Arrived
<1>5. CASE Tried
  <2>1. /\ pc' = "elim" /\ back' = back /\ NoJob
        /\ UNCHANGED userVars /\ UNCHANGED dbVars /\ UNCHANGED unitVars
        /\ UNCHANGED <<stackVars, tainted>> /\ UNCHANGED limitVars
    BY <1>5 DEF Tried, GoTo
  <2>2. TypePlace'
    BY <1>0, <2>1 DEF TypePlace, Places
  <2>3. /\ TypeUser' /\ TypeDB' /\ TypeUnits' /\ TypeStack' /\ TypeLimits'
        /\ TypeJob' /\ Consistent'
    BY <2>1, Same, Emptied
  <2> QED
    BY <2>1, <2>2, <2>3, NoPairsLeft, ArrivedElim DEF Roots
<1> QED
  BY <1>1, <1>2, <1>3, <1>3b, <1>4, <1>5

LEMMA GateShapes ==
  ASSUME Shapes, ElimPropagate \/ FindUnit \/ FindGarbage \/ GatesFound
  PROVE  Shapes'
<1>0. /\ TypeUser /\ TypeDB /\ TypeUnits /\ TypeStack /\ TypeLimits /\ TypePlace
      /\ TypeJob /\ Consistent /\ DB \subseteq Clause /\ BackwardOk
  BY DEF Shapes, TypeDB, Kind
<1>1. CASE ElimPropagate
  <2>1. /\ pc \in {"gates", "bounded", "backward"} /\ work # {} /\ ~unsat
        /\ red' = red /\ UNCHANGED <<pc, back>>
        /\ UNCHANGED userVars /\ UNCHANGED <<stackVars, tainted>>
        /\ UNCHANGED limitVars
        /\ UNCHANGED <<pivot, cand, todo, queue, gate, markVars, count, flag>>
    BY <1>1 DEF ElimPropagate, Propagating
  <2>2. PICK l \in work :
          LET new == Forced(Open(Occs(-l)), units)
          IN /\ Assign(new, Falsified(Occs(-l), units))
             /\ irr' \subseteq irr
             /\ work' = (work \ {l}) \cup new
    BY <1>1 DEF ElimPropagate
  <2> DEFINE new == Forced(Open(Occs(-l)), units)
             empty == Falsified(Occs(-l), units)
  <2>3. new \in SUBSET Lit
    <3>1. Open(Occs(-l)) \subseteq Clause
      BY <1>0 DEF Open, Occs, DB
    <3> QED
      BY <3>1, ForcedLits
  <2>4. TypeUnits' /\ Consistent'
    <3>1. Assign(new, empty) /\ empty \in BOOLEAN
      BY <2>2 DEF Falsified
    <3> HIDE DEF new, empty
    <3> QED
      BY <1>0, <2>3, <3>1, UnitsAssigned
  <2>5. TypeDB'
    BY <1>0, <2>1, <2>2, ClausesFewer
  <2>6. TypeJob'
    <3>1. work' \subseteq Lit
      BY <1>0, <2>2, <2>3 DEF TypeJob
    <3> QED
      BY <1>0, <2>1, <3>1 DEF TypeJob, markVars
  <2>7. TypeUser' /\ TypeStack' /\ TypeLimits' /\ TypePlace'
    BY <2>1, Same
  <2>8. pc' # "backward" \/ todo' = {}
    BY <1>0, <2>1 DEF BackwardOk
  <2> QED
    BY <2>1, <2>4, <2>5, <2>6, <2>7, <2>8, NoPairsLeft, ArrivedElim DEF Roots
<1>2. CASE FindUnit
  <2>1. /\ pc = "gates" /\ UNCHANGED <<pc, back>>
        /\ UNCHANGED userVars /\ UNCHANGED dbVars
        /\ UNCHANGED <<stackVars, tainted>> /\ UNCHANGED limitVars
        /\ UNCHANGED <<pivot, cand, todo, queue, gate, markVars, count, flag>>
    BY <1>2 DEF FindUnit, Finding
  <2>2. PICK u \in Lit : Assign({u}, FALSE) /\ work' = {u}
    BY <1>2 DEF FindUnit
  <2>3. TypeUnits' /\ Consistent'
    <3>1. {u} \in SUBSET Lit /\ FALSE \in BOOLEAN
      OBVIOUS
    <3> QED
      BY <1>0, <2>2, <3>1, UnitsAssigned
  <2>4. TypeJob'
    BY <1>0, <2>1, <2>2 DEF TypeJob, markVars
  <2>5. TypeUser' /\ TypeDB' /\ TypeStack' /\ TypeLimits' /\ TypePlace'
    BY <2>1, Same
  <2> QED
    BY <2>1, <2>3, <2>4, <2>5, NoPairsLeft, ArrivedElim DEF Roots
<1>3. CASE FindGarbage
  <2>1. /\ pc = "gates" /\ irr' \subseteq irr /\ red' = red
        /\ UNCHANGED <<pc, back>>
        /\ UNCHANGED userVars /\ UNCHANGED unitVars
        /\ UNCHANGED <<stackVars, tainted>> /\ UNCHANGED limitVars
        /\ UNCHANGED jobVars
    BY <1>3 DEF FindGarbage, Finding
  <2>2. TypeDB'
    BY <1>0, <2>1, ClausesFewer
  <2>3. /\ TypeUser' /\ TypeUnits' /\ TypeStack' /\ TypeLimits' /\ TypePlace'
        /\ TypeJob' /\ Consistent'
    BY <2>1, Same
  <2> QED
    BY <2>1, <2>2, <2>3, NoPairsLeft, ArrivedElim DEF Roots
<1>4. CASE GatesFound
  <2>1. /\ pc' = "bounded" /\ back' = back
        /\ UNCHANGED userVars /\ UNCHANGED dbVars /\ UNCHANGED unitVars
        /\ UNCHANGED <<stackVars, tainted>> /\ UNCHANGED limitVars
        /\ UNCHANGED <<pivot, cand, queue, work, markVars, count, flag>>
    BY <1>4 DEF GatesFound, GoTo
  <2>2. PICK g \in (IF Gates = {} THEN {{}} ELSE Gates) :
          gate' = g /\ todo' = ResolvedPairs(g)
    BY <1>4 DEF GatesFound
  <2>3. \A l : Occs(l) \subseteq Clause
    BY <1>0 DEF Occs, DB
  <2>4. g \subseteq Clause
    <3>1. \A shapes : \A h \in GatesOf(shapes) : h \subseteq Occs(pivot) \cup Occs(-pivot)
      BY DEF GatesOf
    <3>2. \A h \in Gates : h \subseteq Occs(pivot) \cup Occs(-pivot)
      BY <3>1 DEF Gates
    <3> QED
      BY <2>2, <2>3, <3>2
  <2>5. TypeJob'
    <3>1. ResolvedPairs(g) \subseteq Occs(pivot) \X Occs(-pivot)
      BY DEF ResolvedPairs
    <3>2. todo' \subseteq Clause \X Clause
      BY <2>2, <2>3, <3>1
    <3> QED
      BY <1>0, <2>1, <2>2, <2>4, <3>2 DEF TypeJob, markVars
  <2>6. TypePlace'
    BY <1>0, <2>1 DEF TypePlace, Places
  <2>7. /\ TypeUser' /\ TypeDB' /\ TypeUnits' /\ TypeStack' /\ TypeLimits'
        /\ Consistent'
    BY <2>1, Same
  <2> QED
    BY <2>1, <2>5, <2>6, <2>7, NoPairsLeft, ArrivedElim DEF Roots
<1> QED
  BY <1>1, <1>2, <1>3, <1>4

\* A pair of clauses that are resolved, and their resolvent.
LEMMA PairClauses ==
  ASSUME TypeDB, NEW p \in Live
  PROVE  /\ p \in todo /\ p[1] \in irr /\ p[2] \in irr
         /\ PairResolvent(p) \in Clause
<1>1. p \in todo /\ p[1] \in irr /\ p[2] \in irr
  BY DEF Live
<1>2. p[1] \in Clause /\ p[2] \in Clause
  BY <1>1 DEF TypeDB, DB, Kind
<1>3. Resolvent(p[1], p[2], pivot) \in Clause
  BY <1>2, ResolventClause
<1>4. PairResolvent(p) \in Clause
  BY <1>3, Clauses0 DEF PairResolvent
<1> QED
  BY <1>1, <1>4

LEMMA ResolveShapes ==
  ASSUME Shapes, NEW where \in {"bounded", "add"},
         ResolveNothing(where) \/ ResolveUnit(where) \/ ResolveStrengthen(where)
  PROVE  Shapes'
<1>0. /\ TypeUser /\ TypeDB /\ TypeUnits /\ TypeStack /\ TypeLimits /\ TypePlace
      /\ TypeJob /\ Consistent /\ DB \subseteq Clause
  BY DEF Shapes, TypeDB, Kind
<1>1. /\ pc = where /\ UNCHANGED <<pc, back>> /\ red' = red
      /\ UNCHANGED userVars /\ UNCHANGED <<stackVars, tainted>>
      /\ UNCHANGED limitVars
      /\ UNCHANGED <<pivot, queue, gate, markVars, count, flag>>
  BY DEF ResolveNothing, ResolveUnit, ResolveStrengthen, Resolving, dbVars
<1>2. PICK p \in Live : Advance(p)
  BY DEF ResolveNothing, ResolveUnit, ResolveStrengthen
<1>3. cand' \in Clause /\ todo' \subseteq todo
  BY <1>0, <1>2, PairClauses DEF Advance, DB
<1>4. TypeUser' /\ TypeStack' /\ TypeLimits' /\ TypePlace'
  BY <1>1, Same
<1>5. ASSUME work' \subseteq Lit
      PROVE  TypeJob'
  BY <1>0, <1>1, <1>3, <1>5 DEF TypeJob, markVars
<1>6. pc' \notin Roots /\ BackwardOk'
  BY <1>1 DEF Roots, BackwardOk
<1>7. CASE ResolveNothing(where)
  <2>1. irr' \subseteq irr /\ UNCHANGED unitVars /\ work' = work
    BY <1>7 DEF ResolveNothing
  <2>2. TypeDB' /\ TypeUnits' /\ Consistent'
    BY <1>0, <1>1, <2>1, ClausesFewer, Same
  <2>3. TypeJob'
    BY <1>0, <1>5, <2>1 DEF TypeJob
  <2> QED
    BY <1>4, <1>6, <2>2, <2>3, ArrivedElim
<1>8. CASE ResolveUnit(where)
  <2>1. PICK q \in Live :
          LET r == PairResolvent(q)
          IN Assign(r, r = {}) /\ work' = IF where = "bounded" THEN r ELSE {}
    BY <1>8 DEF ResolveUnit
  <2> DEFINE r == PairResolvent(q)
             empty == r = {}
  <2>2. r \in SUBSET Lit
    BY <1>0, PairClauses DEF Clause
  <2>3. Assign(r, empty) /\ empty \in BOOLEAN
    BY <2>1
  <2>4. work' \subseteq Lit
    BY <2>1, <2>2
  <2> HIDE DEF r, empty
  <2>5. TypeUnits' /\ Consistent'
    BY <1>0, <2>2, <2>3, UnitsAssigned
  <2>6. TypeDB'
    BY <1>8, Same DEF ResolveUnit
  <2> QED
    BY <1>4, <1>5, <1>6, <2>4, <2>5, <2>6, ArrivedElim
<1>9. CASE ResolveStrengthen(where)
  <2>1. /\ work' = work /\ UNCHANGED unitVars
        /\ \E q \in Live : /\ Proper(q) /\ Cardinality(PairResolvent(q)) > 1
                           /\ irr' \subseteq irr \cup {PairResolvent(q)}
    BY <1>9 DEF ResolveStrengthen
  <2>2. PICK q \in Live : /\ Proper(q) /\ Cardinality(PairResolvent(q)) > 1
                          /\ irr' \subseteq irr \cup {PairResolvent(q)}
    BY <2>1
  <2>3. Kind(PairResolvent(q))
    BY <1>0, <2>2, PairClauses DEF Kind, Proper
  <2>4. TypeDB'
    BY <1>0, <1>1, <2>2, <2>3, ClauseAdded
  <2>5. TypeUnits' /\ Consistent'
    BY <2>1, Same
  <2>6. TypeJob'
    BY <1>0, <1>5, <2>1 DEF TypeJob
  <2> QED
    BY <1>4, <1>6, <2>4, <2>5, <2>6, ArrivedElim
<1> QED
  BY <1>7, <1>8, <1>9

LEMMA BoundedShapes ==
  ASSUME Shapes, CountResolvent \/ Bounded \/ GiveUp \/ Eliminate
  PROVE  Shapes'
<1>0. /\ TypeUser /\ TypeDB /\ TypeUnits /\ TypeStack /\ TypeLimits /\ TypePlace
      /\ TypeJob /\ Consistent /\ DB \subseteq Clause
  BY DEF Shapes, TypeDB, Kind
<1>1. /\ pc' \in {"bounded", "add", "backward"} /\ back' = back
      /\ UNCHANGED userVars /\ UNCHANGED dbVars
      /\ UNCHANGED <<units, unsat>> /\ UNCHANGED <<stackVars, tainted>>
      /\ UNCHANGED limitVars
      /\ UNCHANGED <<pivot, queue, gate, work, markVars, flag>>
  BY DEF CountResolvent, Bounded, GiveUp, Eliminate, Resolving, GoTo, unitVars
<1>2. TypeUser' /\ TypeDB' /\ TypeStack' /\ TypeLimits' /\ Consistent'
  BY <1>1, Same
<1>3. TypePlace'
  BY <1>0, <1>1 DEF TypePlace, Places
<1>4. TypeUnits'
  <2>1. CASE status' = status
    BY <1>0, <1>1, <2>1 DEF TypeUnits
  <2>2. CASE status' = [status EXCEPT ![Abs(pivot)] = "eliminated"]
    BY <1>0, <1>1, <2>2 DEF TypeUnits, Statuses
  <2> QED
    BY <2>1, <2>2 DEF CountResolvent, Bounded, GiveUp, Eliminate, unitVars
<1>5. cand' \in Clause /\ todo' \subseteq Clause \X Clause
  <2>0. {} \in Clause /\ {} \subseteq Clause \X Clause
    BY DEF Clause
  <2>1. CASE NoPairs
    BY <2>0, <2>1 DEF NoPairs
  <2>2. CASE \E p \in Live : Advance(p)
    <3>1. PICK p \in Live : Advance(p)
      BY <2>2
    <3> QED
      BY <1>0, <3>1, PairClauses DEF Advance, DB, TypeJob
  <2>3. CASE cand' = {} /\ todo' = ResolvedPairs(gate)
    <3>1. \A l : Occs(l) \subseteq Clause
      BY <1>0 DEF Occs, DB
    <3>2. ResolvedPairs(gate) \subseteq Occs(pivot) \X Occs(-pivot)
      BY DEF ResolvedPairs
    <3> QED
      BY <2>0, <2>3, <3>1, <3>2
  <2> QED
    BY <2>1, <2>2, <2>3 DEF CountResolvent, Bounded, GiveUp, Eliminate
<1>6. count' \in Int
  BY <1>0 DEF CountResolvent, Bounded, GiveUp, Eliminate, TypeJob
<1>7. TypeJob'
  BY <1>0, <1>1, <1>5, <1>6 DEF TypeJob, markVars
<1>8. pc' # "backward" \/ todo' = {}
  <2>1. CASE CountResolvent
    BY <2>1 DEF CountResolvent, Resolving, NoPairs
  <2> QED
    BY <2>1 DEF Bounded, GiveUp, Eliminate, NoPairs, GoTo
<1> QED
  BY <1>1, <1>2, <1>3, <1>4, <1>7, <1>8, NoPairsLeft, ArrivedElim DEF Roots

LEMMA AddShapes ==
  ASSUME Shapes, AddResolvent \/ Weaken
  PROVE  Shapes'
<1>0. /\ TypeUser /\ TypeDB /\ TypeUnits /\ TypeStack /\ TypeLimits /\ TypePlace
      /\ TypeJob /\ Consistent /\ DB \subseteq Clause
  BY DEF Shapes, TypeDB, Kind
<1>1. CASE AddResolvent
  <2>1. /\ pc = "add" /\ UNCHANGED <<pc, back>> /\ red' = red
        /\ UNCHANGED userVars /\ UNCHANGED unitVars
        /\ UNCHANGED <<stackVars, tainted>> /\ UNCHANGED limitVars
        /\ UNCHANGED <<pivot, gate, work, markVars, count, flag>>
    BY <1>1 DEF AddResolvent, Resolving
  <2>2. PICK p \in Live :
          /\ IsResolvent(p) /\ Advance(p)
          /\ irr' = irr \cup {PairResolvent(p)} /\ Enqueue(PairResolvent(p))
    BY <1>1 DEF AddResolvent
  <2>3. Kind(PairResolvent(p)) /\ p[1] \in Clause
    BY <1>0, <2>2, PairClauses DEF Kind, Proper, IsResolvent, DB
  <2>4. TypeDB'
    BY <1>0, <2>1, <2>2, <2>3, ClauseAdded
  <2>5. TypeJob'
    <3>1. queue' \subseteq Clause /\ cand' \in Clause /\ todo' \subseteq todo
      BY <1>0, <2>2, <2>3 DEF Enqueue, Kind, TypeJob, Advance
    <3> QED
      BY <1>0, <2>1, <3>1 DEF TypeJob, markVars
  <2>6. /\ TypeUser' /\ TypeUnits' /\ TypeStack' /\ TypeLimits' /\ TypePlace'
        /\ Consistent'
    BY <2>1, Same
  <2> QED
    BY <2>1, <2>4, <2>5, <2>6, NoPairsLeft, ArrivedElim DEF Roots
<1>2. CASE Weaken
  <2>1. /\ pc = "add" /\ UNCHANGED <<pc, back>> /\ red' = red /\ irr' \subseteq irr
        /\ UNCHANGED userVars /\ UNCHANGED unitVars /\ UNCHANGED tainted
        /\ UNCHANGED limitVars /\ UNCHANGED jobVars
    BY <1>2 DEF Weaken
  <2>2. PICK w \in {pivot, -pivot} : \E c \in Occs(w) :
          \/ Push(<<[witness |-> {w}, clause |-> c]>>)
          \/ UNCHANGED stackVars
    BY <1>2 DEF Weaken
  <2>3. PICK c \in Occs(w) :
          \/ Push(<<[witness |-> {w}, clause |-> c]>>)
          \/ UNCHANGED stackVars
    BY <2>2
  <2>4. TypeStack'
    <3> DEFINE s == <<[witness |-> {w}, clause |-> c]>>
    <3>1. c \in Clause /\ w \in c
      BY <1>0 DEF Occs, DB
    <3>2. s \in Seq(Entries)
      <4>1. {w} \in SUBSET Lit
        BY <3>1, Clauses0
      <4> QED
        BY <3>1, <4>1, OneEntry
    <3>3. CASE Push(s)
      <4> HIDE DEF s
      <4> QED
        BY <1>0, <2>1, <3>2, <3>3, Pushed0
    <3>4. CASE UNCHANGED stackVars
      BY <2>1, <3>4, Same
    <3> QED
      BY <2>3, <3>3, <3>4
  <2>5. TypeDB'
    BY <1>0, <2>1, ClausesFewer
  <2>6. /\ TypeUser' /\ TypeUnits' /\ TypeLimits' /\ TypePlace'
        /\ TypeJob' /\ Consistent'
    BY <2>1, Same
  <2> QED
    BY <2>1, <2>4, <2>5, <2>6, NoPairsLeft, ArrivedElim DEF Roots
<1> QED
  BY <1>1, <1>2

LEMMA FewerPairs ==
  ASSUME BackwardOk, pc = "backward", todo' \subseteq todo,
         UNCHANGED <<cand, work, units, unsat>>
  PROVE  BackwardOk'
<1>1. Rest(cand)' = Rest(cand)
  BY DEF Rest, False
<1> QED
  BY <1>1 DEF BackwardOk

\* The clause that a candidate strengthens has another literal.
LEMMA StrengthenedLonger ==
  ASSUME Shapes, NEW p \in todo, Comparing(p), Matches(p[2]),
         NEW l \in Clashing(p[2])
  PROVE  /\ p[2] \in irr /\ p[2] \in Clause /\ cand \in Clause /\ l \in p[2]
         /\ Rest(p[2]) \ {l} # {}
<1> DEFINE d == p[2]
<1>0. TypeDB /\ TypeJob /\ BackwardOk /\ Consistent
  BY DEF Shapes
<1>1. d \in irr /\ d \in Clause /\ cand \in Clause /\ Rest(cand) \in Clause
  BY <1>0, Clauses0 DEF Comparing, Live, TypeDB, DB, Kind, TypeJob
<1>2. l \in d /\ l \in Lit /\ l \in Rest(d) /\ -l \in Rest(cand) /\ l # -l
  <2>1. l \in Rest(d) /\ l \in Negated(Rest(cand))
    BY DEF Clashing
  <2>2. l \in d /\ l \in Lit
    BY <1>1, <2>1, Clauses0
  <2>3. PICK k \in Rest(cand) : l = -k
    BY <2>1 DEF Negated
  <2>4. k \in Lit
    BY <1>1, <2>3, Clauses0
  <2> QED
    BY <2>1, <2>2, <2>3, <2>4, Literals
<1>3. PICK k \in Rest(cand) : k \in d
  BY <1>0 DEF BackwardOk, Comparing
<1>4. k \in Rest(d)
  BY <1>3 DEF Rest
<1>5. CASE k # l
  BY <1>1, <1>2, <1>4, <1>5
<1>6. CASE k = l
  <2>1. Cardinality(Rest(cand)) > 1 /\ Cardinality(Rest(cand)) \in Nat
    BY <1>1, <1>2, <1>3, <1>6, TwoLiterals, Clauses0
  <2>2. SUFFICES ASSUME Rest(d) \subseteq {l}
                 PROVE  FALSE
    BY <1>1, <1>2
  <2>3. Common(d) \cup Clashing(d) \subseteq {l}
    BY <2>2 DEF Common, Clashing
  <2>4. {l} \in Clause /\ Cardinality({l}) = 1
    BY <1>2, FS_Singleton DEF Clause
  <2>5. Cardinality(Common(d) \cup Clashing(d)) <= 1
    BY <2>3, <2>4, Fewer
  <2> QED
    BY <2>1, <2>5 DEF Matches
<1> QED
  BY <1>1, <1>2, <1>5, <1>6

LEMMA BackwardShapes ==
  ASSUME Shapes, \/ Dequeue \/ BackwardSatisfied \/ BackwardSkip
                 \/ BackwardSubsume \/ BackwardStrengthen \/ BackwardPass
  PROVE  Shapes'
<1>0. /\ TypeUser /\ TypeDB /\ TypeUnits /\ TypeStack /\ TypeLimits /\ TypePlace
      /\ TypeJob /\ Consistent /\ DB \subseteq Clause /\ BackwardOk
  BY DEF Shapes, TypeDB, Kind
<1>1. /\ pc = "backward" /\ UNCHANGED <<pc, back>> /\ red' = red
      /\ UNCHANGED userVars /\ UNCHANGED <<stackVars, tainted>>
      /\ UNCHANGED limitVars
      /\ UNCHANGED <<pivot, gate, markVars, count>>
  BY DEF Dequeue, BackwardSatisfied, BackwardSkip, BackwardSubsume,
         BackwardStrengthen, BackwardPass, Comparing, dbVars
<1>2. TypeUser' /\ TypeStack' /\ TypeLimits' /\ TypePlace' /\ pc' \notin Roots
  BY <1>1, Same DEF Roots
<1>3. ASSUME cand' \in Clause, todo' \subseteq Clause \X Clause,
             queue' \subseteq Clause, work' \subseteq Lit, flag' \in BOOLEAN
      PROVE  TypeJob'
  BY <1>0, <1>1, <1>3 DEF TypeJob, markVars
<1>4. CASE Dequeue
  <2>1. /\ todo = {} /\ work = {} /\ work' = work /\ UNCHANGED unitVars
        /\ flag' = FALSE /\ irr' \subseteq irr
        /\ cand' \in queue /\ queue' \subseteq queue
    BY <1>4 DEF Dequeue
  <2>2. PICK c \in queue :
          /\ cand' = c
          /\ \/ todo' = {}
             \/ \E l \in Rest(c) : todo' = {c} \X (Occs(l) \ {c})
    BY <1>4 DEF Dequeue
  <2>3. \A l : Occs(l) \subseteq Clause
    BY <1>0 DEF Occs, DB
  <2>4. cand' \in Clause /\ todo' \subseteq Clause \X Clause
    BY <1>0, <2>2, <2>3 DEF TypeJob
  <2>5. TypeJob'
    BY <1>0, <1>3, <2>1, <2>4 DEF TypeJob
  <2>6. BackwardOk'
    <3>1. Rest(cand)' = Rest(c)
      BY <2>1, <2>2 DEF Rest, False, unitVars
    <3>2. CASE todo' = {}
      BY <3>2, NoPairsLeft
    <3>3. CASE \E l \in Rest(c) : todo' = {c} \X (Occs(l) \ {c})
      <4>1. PICK l \in Rest(c) : todo' = {c} \X (Occs(l) \ {c})
        BY <3>3
      <4>2. \A p \in todo' : l \in p[2]
        BY <4>1 DEF Occs
      <4> QED
        BY <2>1, <3>1, <4>2 DEF BackwardOk
    <3> QED
      BY <2>2, <3>2, <3>3
  <2>7. TypeDB' /\ TypeUnits' /\ Consistent'
    BY <1>0, <1>1, <2>1, ClausesFewer, Same
  <2> QED
    BY <1>2, <2>5, <2>6, <2>7, ArrivedElim
<1>5. CASE \/ BackwardSatisfied \/ BackwardSkip \/ BackwardSubsume
           \/ BackwardPass
  <2>1. /\ UNCHANGED <<cand, work, queue>> /\ UNCHANGED unitVars
        /\ irr' \subseteq irr /\ todo' \subseteq todo /\ flag' \in {flag, TRUE}
    BY <1>5 DEF BackwardSatisfied, BackwardSkip, BackwardSubsume, BackwardPass,
                dbVars
  <2>2. TypeJob'
    BY <1>0, <1>3, <2>1 DEF TypeJob
  <2>3. TypeDB' /\ TypeUnits' /\ Consistent'
    BY <1>0, <1>1, <2>1, ClausesFewer, Same
  <2>4. BackwardOk'
    BY <1>0, <1>1, <2>1, FewerPairs DEF unitVars
  <2> QED
    BY <1>2, <2>2, <2>3, <2>4, ArrivedElim
<1>6. CASE BackwardStrengthen
  <2>1. cand' = cand
    BY <1>6 DEF BackwardStrengthen
  <2>2. PICK p \in todo : \E l \in Clashing(p[2]) :
          LET d == p[2]
              s == Rest(d) \ {l}
          IN /\ Comparing(p) /\ Left(d) /\ Matches(d)
             /\ IF IsSatisfied(d)
                THEN /\ irr' = irr \ {d} /\ flag' = TRUE /\ todo' = todo \ {p}
                     /\ UNCHANGED <<unitVars, work, queue>>
                ELSE IF Cardinality(s) = 1
                THEN /\ Assign(s, FALSE) /\ work' = s /\ todo' = {}
                     /\ UNCHANGED <<irr, queue, flag>>
                ELSE /\ todo' = todo \ {p}
                     /\ IF Cardinality(Occs(l)) <= opts.elimocclim
                        THEN irr' = (irr \ {d}) \cup {d \ {l}} /\ Enqueue(d \ {l})
                        ELSE UNCHANGED <<irr, queue>>
                     /\ UNCHANGED <<unitVars, work, flag>>
    BY <1>6 DEF BackwardStrengthen
  <2> DEFINE d == p[2]
  <2>3. PICK l \in Clashing(d) :
          LET s == Rest(d) \ {l}
          IN /\ Comparing(p) /\ Left(d) /\ Matches(d)
             /\ IF IsSatisfied(d)
                THEN /\ irr' = irr \ {d} /\ flag' = TRUE /\ todo' = todo \ {p}
                     /\ UNCHANGED <<unitVars, work, queue>>
                ELSE IF Cardinality(s) = 1
                THEN /\ Assign(s, FALSE) /\ work' = s /\ todo' = {}
                     /\ UNCHANGED <<irr, queue, flag>>
                ELSE /\ todo' = todo \ {p}
                     /\ IF Cardinality(Occs(l)) <= opts.elimocclim
                        THEN irr' = (irr \ {d}) \cup {d \ {l}} /\ Enqueue(d \ {l})
                        ELSE UNCHANGED <<irr, queue>>
                     /\ UNCHANGED <<unitVars, work, flag>>
    BY <2>2
  <2> DEFINE s == Rest(d) \ {l}
             shorter == d \ {l}
             none == FALSE
  <2>4. d \in irr /\ d \in Clause /\ l \in d /\ s # {} /\ s \subseteq d
    BY <2>3, StrengthenedLonger DEF Rest
  <2>5. s \in SUBSET Lit /\ s \in Clause
    BY <2>4, Clauses0 DEF Clause
  <2>6. CASE IsSatisfied(d)
    <3>1. /\ irr' \subseteq irr /\ flag' = TRUE /\ todo' \subseteq todo
          /\ UNCHANGED unitVars /\ UNCHANGED <<work, queue>>
      BY <2>3, <2>6
    <3>2. TypeJob'
      BY <1>0, <1>3, <2>1, <3>1 DEF TypeJob
    <3>3. TypeDB' /\ TypeUnits' /\ Consistent'
      BY <1>0, <1>1, <3>1, ClausesFewer, Same
    <3>4. BackwardOk'
      BY <1>0, <1>1, <2>1, <3>1, FewerPairs DEF unitVars
    <3> QED
      BY <1>2, <3>2, <3>3, <3>4, ArrivedElim
  <2>7. CASE ~IsSatisfied(d) /\ Cardinality(s) = 1
    <3>1. /\ Assign(s, none) /\ work' = s /\ todo' = {} /\ none \in BOOLEAN
          /\ irr' = irr /\ queue' = queue /\ flag' = flag
      BY <2>3, <2>7
    <3>2. TypeJob'
      BY <1>0, <1>3, <2>1, <2>5, <3>1 DEF TypeJob
    <3>3. TypeUnits' /\ Consistent'
      <4> HIDE DEF s, none
      <4> QED
        BY <1>0, <2>5, <3>1, UnitsAssigned
    <3>4. TypeDB' /\ BackwardOk'
      BY <1>0, <1>1, <3>1, ClausesFewer, NoPairsLeft
    <3> QED
      BY <1>2, <3>2, <3>3, <3>4, ArrivedElim
  <2>8. CASE ~IsSatisfied(d) /\ Cardinality(s) # 1
    <3>1. /\ todo' \subseteq todo /\ UNCHANGED unitVars /\ work' = work /\ flag' = flag
          /\ irr' \subseteq irr \cup {shorter}
          /\ queue' \subseteq queue \cup {shorter}
      BY <2>3, <2>8 DEF Enqueue
    <3>2. Kind(shorter)
      <4>1. Cardinality(s) > 1
        BY <2>4, <2>5, <2>8, Clauses0
      <4>2. shorter \in Clause /\ s \subseteq shorter
        BY <2>4, Clauses0
      <4>3. Cardinality(shorter) > 1
        BY <2>5, <4>1, <4>2, Fewer, Clauses0
      <4>4. ~IsTautology(d)
        BY <1>0, <2>4 DEF TypeDB, DB, Kind
      <4>5. ~IsTautology(shorter)
        BY <4>4, SubKind
      <4> QED
        BY <4>2, <4>3, <4>5 DEF Kind
    <3>3. TypeDB'
      <4> HIDE DEF shorter
      <4> QED
        BY <1>0, <1>1, <3>1, <3>2, ClauseAdded
    <3>4. TypeJob'
      <4>1. shorter \in Clause
        BY <3>2 DEF Kind
      <4> HIDE DEF shorter
      <4> QED
        BY <1>0, <1>3, <2>1, <3>1, <4>1 DEF TypeJob
    <3>5. TypeUnits' /\ Consistent'
      BY <3>1, Same
    <3>6. BackwardOk'
      BY <1>0, <1>1, <2>1, <3>1, FewerPairs DEF unitVars
    <3> QED
      BY <1>2, <3>3, <3>4, <3>5, <3>6, ArrivedElim
  <2> QED
    BY <2>6, <2>7, <2>8
<1> QED
  BY <1>4, <1>5, <1>6

LEMMA EliminatingShapes ==
  ASSUME Shapes, Eliminating
  PROVE  Shapes'
  BY RoundShapes, GateShapes, ResolveShapes, BoundedShapes, AddShapes,
     BackwardShapes DEF Eliminating

-----------------------------------------------------------------------------
(* The shapes are kept: blocked and covered clauses, and conditioning. *)

\* A step on the root level, to a place without an invariant of its own.
LEMMA StaysRoot ==
  ASSUME Shapes, pc \in Roots, UNCHANGED <<units, unsat>>,
         status' \in [Var -> Statuses], UNCHANGED limitVars,
         UNCHANGED userVars, back' = back,
         pc' \in {"simplify", "block", "blocking", "cover", "covering", "covered",
                  "condition", "conditioning", "probe"},
         irr' \subseteq irr, red' \subseteq red,
         TypeStack', TypeJob'
  PROVE  Shapes'
<1>0. TypePlace /\ TypeDB /\ Settled /\ TypeUnits
  BY DEF Shapes
<1>1. TypeUser' /\ TypeLimits' /\ Consistent'
  BY Same
<1>5. TypeUnits'
  BY <1>0 DEF TypeUnits
<1>2. TypeDB' /\ DB' \subseteq DB
  BY <1>0, ClausesFewer
<1>3. Settled'
  BY <1>0, <1>2, StaysSettled
<1>4. TypePlace' /\ pc' \notin {"backward", "vivify", "last", "instantiate"}
  BY <1>0 DEF TypePlace, Places
<1> QED
  BY <1>1, <1>2, <1>3, <1>4, <1>5, Arrived

\* A technique that starts.
LEMMA StartsRoot ==
  ASSUME Shapes, NEW technique, Start(technique), UNCHANGED <<unitVars, bound>>,
         back' = back,
         pc' \in {"simplify", "block", "cover", "condition", "probe"},
         TypeDB', \A c \in DB' : c \in DB \/ Loose(c), TypeJob'
  PROVE  Shapes'
<1>0. TypePlace /\ TypeDB /\ Settled /\ TypeLimits
  BY DEF Shapes
<1>1. /\ pc = "simplify" /\ rounds > 0 /\ rounds' = rounds - 1
      /\ learned' = learned
      /\ UNCHANGED userVars /\ UNCHANGED <<stackVars, tainted>>
      /\ UNCHANGED unitVars /\ bound' = bound
  BY DEF Start
<1>2. TypeUser' /\ TypeUnits' /\ TypeStack' /\ Consistent'
  BY <1>1, Same
<1>3. TypeLimits'
  BY <1>0, <1>1 DEF TypeLimits
<1>4. Settled'
  BY <1>0, <1>1, StaysSettled DEF unitVars, Roots
<1>5. TypePlace' /\ pc' \notin {"backward", "vivify", "last", "instantiate"}
  BY <1>0 DEF TypePlace, Places
<1> QED
  BY <1>2, <1>3, <1>4, <1>5, Arrived

LEMMA BlockShapes ==
  ASSUME Shapes, PivotFree,
         \/ StartBlock \/ BlockLiteral \/ BlockClause \/ LiteralBlocked
         \/ BlockDone
  PROVE  Shapes'
<1>0. /\ TypeUser /\ TypeDB /\ TypeUnits /\ TypeStack /\ TypeLimits /\ TypePlace
      /\ TypeJob /\ Consistent /\ Settled /\ irr \subseteq Clause
      /\ status \in [Var -> Statuses]
  BY DEF Shapes, TypeDB, Kind, DB, TypeUnits
<1>1. CASE StartBlock
  <2>1. /\ pc = "simplify" /\ pc' = "block" /\ back' = back
        /\ irr' = {Rest(c) : c \in Open(irr)} /\ red' = {Rest(c) : c \in Open(red)}
        /\ UNCHANGED <<unitVars, bound>> /\ Start("block")
        /\ UNCHANGED <<pivot, cand, todo, queue, gate, work, trail,
                       private, reprs, count, flag>>
    BY <1>1 DEF StartBlock, Start, GoTo
  <2>2. TypeDB' /\ \A c \in DB' : Loose(c)
    BY <1>0, <2>1, AllStripped DEF Roots
  <2>3. TypeJob'
    <3>1. \A c \in irr' : Negated(c) \subseteq Lit
      BY <2>2, Clauses0 DEF TypeDB, DB, Kind, Clause
    <3>2. marked' \subseteq Lit
      BY <1>1, <3>1 DEF StartBlock
    <3> QED
      BY <1>0, <2>1, <3>2 DEF TypeJob
  <2> QED
    BY <2>1, <2>2, <2>3, StartsRoot
<1>2. CASE BlockLiteral
  <2>1. /\ pc = "block" /\ pc' = "blocking" /\ back' = back
        /\ UNCHANGED userVars /\ UNCHANGED dbVars /\ UNCHANGED unitVars
        /\ UNCHANGED <<stackVars, tainted>> /\ UNCHANGED limitVars
        /\ UNCHANGED <<cand, todo, gate, work, markVars, count, flag>>
    BY <1>2 DEF BlockLiteral, GoTo
  <2>2. PICK l \in Lit :
          /\ pivot' = l
          /\ queue' = IF Occs(-l) = {} THEN Occs(l)
                      ELSE IF Cardinality(Occs(-l)) = 1 THEN BlockedByOne(l)
                      ELSE BlockedByMany(l)
    BY <1>2 DEF BlockLiteral
  <2>3. queue' \subseteq irr
    BY <2>2 DEF Occs, BlockedByOne, BlockedByMany, BlockCandidates
  <2>4. TypeJob'
    BY <1>0, <2>1, <2>2, <2>3 DEF TypeJob, markVars
  <2>5. TypeStack'
    BY <2>1, Same
  <2> QED
    BY <1>0, <2>1, <2>4, <2>5, StaysRoot DEF Roots, dbVars, unitVars
<1>3. CASE BlockClause
  <2>1. /\ pc = "blocking" /\ UNCHANGED <<pc, back>>
        /\ irr' \subseteq irr /\ red' = red /\ queue' \subseteq queue
        /\ UNCHANGED userVars /\ UNCHANGED unitVars /\ UNCHANGED tainted
        /\ UNCHANGED limitVars
        /\ UNCHANGED <<pivot, cand, todo, gate, work, markVars, count, flag>>
    BY <1>3 DEF BlockClause
  <2>2. PICK c \in queue : Push(<<[witness |-> {pivot}, clause |-> c]>>)
    BY <1>3 DEF BlockClause
  <2>3. TypeJob'
    BY <1>0, <2>1 DEF TypeJob, markVars
  <2>4. TypeStack'
    <3> DEFINE s == <<[witness |-> {pivot}, clause |-> c]>>
    <3>1. c \in Clause /\ pivot \in c
      BY <1>0, <2>1 DEF TypeJob, PivotFree
    <3>2. s \in Seq(Entries)
      <4>1. {pivot} \in SUBSET Lit
        BY <3>1, Clauses0
      <4> QED
        BY <3>1, <4>1, OneEntry
    <3> HIDE DEF s
    <3> QED
      BY <1>0, <2>1, <2>2, <3>2, Pushed0 DEF s
  <2> QED
    BY <1>0, <2>1, <2>3, <2>4, StaysRoot DEF Roots, unitVars
<1>4. CASE LiteralBlocked
  <2>1. /\ pc = "blocking" /\ pc' = "block" /\ back' = back
        /\ status' \in {status, [status EXCEPT ![Abs(pivot)] = "pure"]}
        /\ flag' \in {flag, TRUE}
        /\ UNCHANGED userVars /\ UNCHANGED dbVars /\ UNCHANGED <<units, unsat>>
        /\ UNCHANGED <<stackVars, tainted>> /\ UNCHANGED limitVars
        /\ UNCHANGED <<pivot, cand, todo, queue, gate, work, markVars, count>>
    BY <1>4 DEF LiteralBlocked, GoTo
  <2>2. status' \in [Var -> Statuses]
    BY <1>0, <2>1 DEF Statuses
  <2>3. TypeStack' /\ TypeJob'
    BY <1>0, <2>1, Same DEF TypeJob, markVars
  <2> QED
    BY <2>1, <2>2, <2>3, StaysRoot DEF Roots, dbVars
<1>5. CASE BlockDone
  <2>1. /\ pc = "block" /\ pc' = "simplify" /\ back' = back /\ NoJob
        /\ irr' = irr /\ red' \subseteq red
        /\ UNCHANGED userVars /\ UNCHANGED unitVars
        /\ UNCHANGED <<stackVars, tainted>> /\ UNCHANGED limitVars
    BY <1>5 DEF BlockDone, GoTo
  <2>2. TypeStack' /\ TypeJob'
    BY <2>1, Same, Emptied
  <2> QED
    BY <1>0, <2>1, <2>2, StaysRoot DEF Roots, unitVars
<1> QED
  BY <1>1, <1>2, <1>3, <1>4, <1>5

LEMMA CoveredEntry ==
  ASSUME TypeJob, NEW l \in work
  PROVE  Append(private, Covered(l)) \in Seq(Entries)
<1>1. Covered(l) \in Entries
  BY DEF Covered, TypeJob, Entries, Clause
<1>2. private \in Seq(Entries)
  BY DEF TypeJob
<1> QED
  BY <1>1, <1>2, AppendProperties

LEMMA PushedEntries ==
  ASSUME TypeJob
  PROVE  Entries1 \in Seq(Entries)
<1>1. private \in Seq(Entries) /\ cand \in Clause
  BY DEF TypeJob
<1>2. Len(private) \in Nat /\ DOMAIN private = 1..Len(private)
  BY <1>1, LenProperties
<1>3. ASSUME NEW i \in DOMAIN private
      PROVE  Entries1[i] \in Entries
  <2>1. private[i] \in Entries
    BY <1>1, <1>2, <1>3, ElementOfSeq
  <2> DEFINE e == private[i]
  <2>2. Entries1[i] = [e EXCEPT !.clause =
           IF i < Len(private) THEN @ \cup (cand \ Rest(cand)) ELSE @]
    BY <1>3, Zenon DEF Entries1
  <2>3. e.clause \cup (cand \ Rest(cand)) \in Clause /\ e.clause \in Clause
        /\ e.witness \in Clause
    BY <1>1, <2>1 DEF Entries, Clause
  <2>4. [e EXCEPT !.clause =
           IF i < Len(private) THEN @ \cup (cand \ Rest(cand)) ELSE @] \in Entries
    <3>1. e \in Entries
      BY <2>1
    <3> HIDE DEF e
    <3> QED
      BY <2>3, <3>1 DEF Entries
  <2> QED
    BY <2>2, <2>4
<1>4. Entries1 \in [1..Len(private) -> Entries]
  BY <1>2, <1>3, Zenon DEF Entries1
<1> DEFINE s == Entries1
           n == Len(private)
<1>5. n \in Nat /\ s \in [1..n -> Entries]
  BY <1>2, <1>4
<1> HIDE DEF s, n
<1>6. s \in Seq(Entries)
  BY <1>5, SMT
<1> QED
  BY <1>6 DEF s

LEMMA CoverShapes ==
  ASSUME Shapes, \/ StartCover \/ CoverClause \/ CoverAsymmetric
                 \/ CoverLiteral \/ ClauseCovered
  PROVE  Shapes'
<1>0. /\ TypeUser /\ TypeDB /\ TypeUnits /\ TypeStack /\ TypeLimits /\ TypePlace
      /\ TypeJob /\ Consistent /\ Settled /\ irr \subseteq Clause
      /\ status \in [Var -> Statuses]
  BY DEF Shapes, TypeDB, Kind, DB, TypeUnits
<1>1. CASE StartCover
  <2>1. /\ pc' = "cover" /\ back' = back
        /\ irr' \subseteq irr /\ red' = red /\ queue' \subseteq irr
        /\ UNCHANGED <<unitVars, bound>> /\ Start("cover")
        /\ UNCHANGED <<pivot, cand, todo, gate, work, markVars, count, flag>>
    BY <1>1 DEF StartCover, GoTo, Open
  <2>2. TypeDB' /\ DB' \subseteq DB
    BY <1>0, <2>1, ClausesFewer
  <2>3. TypeJob'
    BY <1>0, <2>1 DEF TypeJob, markVars
  <2> QED
    BY <2>1, <2>2, <2>3, StartsRoot
<1>2. CASE CoverClause
  <2>1. /\ pc = "cover" /\ pc' = "covering" /\ back' = back
        /\ queue' \subseteq queue
        /\ UNCHANGED userVars /\ UNCHANGED dbVars /\ UNCHANGED unitVars
        /\ UNCHANGED <<stackVars, tainted>> /\ UNCHANGED limitVars
        /\ UNCHANGED <<pivot, todo, gate, private, reprs, count, flag>>
    BY <1>2 DEF CoverClause, GoTo
  <2>2. PICK c \in queue : /\ cand' = c /\ marked' = Rest(c) /\ work' = Rest(c)
                           /\ trail' = Negated(Rest(c))
    BY <1>2 DEF CoverClause
  <2>3. c \in Clause /\ Rest(c) \subseteq Lit /\ Negated(Rest(c)) \subseteq Lit
    BY <1>0, Clauses0 DEF TypeJob, Clause
  <2>4. TypeJob'
    BY <1>0, <2>1, <2>2, <2>3 DEF TypeJob
  <2>5. TypeStack'
    BY <2>1, Same
  <2> QED
    BY <1>0, <2>1, <2>4, <2>5, StaysRoot DEF Roots, dbVars, unitVars
<1>3. CASE CoverAsymmetric
  <2>1. /\ pc = "covering" /\ UNCHANGED <<pc, back>>
        /\ UNCHANGED userVars /\ UNCHANGED dbVars /\ UNCHANGED unitVars
        /\ UNCHANGED <<stackVars, tainted>> /\ UNCHANGED limitVars
        /\ UNCHANGED <<pivot, cand, todo, queue, gate, marked, private,
                       reprs, count, flag>>
        /\ trail' = trail \cup Forced(irr \ {cand}, Holds) /\ work' = marked
    BY <1>3 DEF CoverAsymmetric
  <2>2. Forced(irr \ {cand}, Holds) \in SUBSET Lit
    BY <1>0, ForcedLits
  <2>3. TypeJob'
    BY <1>0, <2>1, <2>2 DEF TypeJob
  <2>4. TypeStack'
    BY <2>1, Same
  <2> QED
    BY <1>0, <2>1, <2>3, <2>4, StaysRoot DEF Roots, dbVars, unitVars
<1>4. CASE CoverLiteral
  <2>1. /\ pc = "covering" /\ back' = back /\ pc' \in {"covering", "covered"}
        /\ UNCHANGED userVars /\ UNCHANGED dbVars /\ UNCHANGED unitVars
        /\ UNCHANGED <<stackVars, tainted>> /\ UNCHANGED limitVars
        /\ UNCHANGED <<pivot, cand, todo, queue, gate, reprs, count, flag>>
    BY <1>4 DEF CoverLiteral, GoTo
  <2>2. PICK l \in work :
          \/ work' = work \ {l} /\ UNCHANGED <<trail, marked, private>>
          \/ /\ private' = Append(private, Covered(l))
             /\ marked' = marked \cup InCommon(l) /\ work' = marked'
             /\ trail' = trail \cup Negated(InCommon(l))
    BY <1>4 DEF CoverLiteral
  <2>3. InCommon(l) \in Clause /\ Negated(InCommon(l)) \subseteq Lit
    <3>1. ASSUME NEW k \in InCommon(l)
          PROVE  k \in Lit
      <4>1. PICK d \in Resolving1(l) : k \in d
        BY DEF InCommon
      <4>2. d \in irr
        BY <4>1 DEF Resolving1, Occs
      <4>3. d \in Clause
        BY <1>0, <4>2
      <4> QED
        BY <4>1, <4>3, Clauses0
    <3>2. InCommon(l) \in Clause
      BY <3>1 DEF Clause
    <3>3. Negated(InCommon(l)) \in Clause
      BY <3>2, Clauses0
    <3> QED
      BY <3>2, <3>3 DEF Clause
  <2>4. /\ work' \subseteq Lit /\ trail' \subseteq Lit /\ marked' \subseteq Lit
        /\ private' \in Seq(Entries)
    <3>1. Append(private, Covered(l)) \in Seq(Entries)
      BY <1>0, CoveredEntry
    <3>2. InCommon(l) \subseteq Lit
      BY <2>3 DEF Clause
    <3>3. /\ work \subseteq Lit /\ trail \subseteq Lit /\ marked \subseteq Lit
          /\ private \in Seq(Entries)
      BY <1>0 DEF TypeJob
    <3> QED
      BY <2>2, <2>3, <3>1, <3>2, <3>3
  <2>5. TypeJob'
    BY <1>0, <2>1, <2>4 DEF TypeJob
  <2>6. TypeStack'
    BY <2>1, Same
  <2> QED
    BY <1>0, <2>1, <2>5, <2>6, StaysRoot DEF Roots, dbVars, unitVars
<1>5. CASE ClauseCovered
  <2>1. /\ pc \in {"covering", "covered"} /\ pc' = "cover" /\ back' = back
        /\ irr' \subseteq irr /\ red' = red
        /\ cand' = {} /\ marked' = {} /\ work' = {} /\ trail' = {}
        /\ private' = <<>>
        /\ UNCHANGED userVars /\ UNCHANGED unitVars /\ UNCHANGED tainted
        /\ UNCHANGED limitVars
        /\ UNCHANGED <<pivot, todo, queue, gate, reprs, count, flag>>
        /\ Push(Entries1) \/ UNCHANGED stackVars
    BY <1>5 DEF ClauseCovered, GoTo
  <2>2. TypeStack'
    <3>1. CASE Push(Entries1)
      <4> DEFINE s == Entries1
      <4>1. s \in Seq(Entries) /\ Push(s)
        BY <1>0, <3>1, PushedEntries
      <4> HIDE DEF s
      <4> QED
        BY <1>0, <2>1, <4>1, Pushed0
    <3>2. CASE UNCHANGED stackVars
      BY <2>1, <3>2, Same
    <3> QED
      BY <2>1, <3>1, <3>2
  <2>3. TypeJob'
    <3>1. {} \in Clause /\ <<>> \in Seq(Entries)
      BY DEF Clause
    <3> QED
      BY <1>0, <2>1, <3>1 DEF TypeJob
  <2> QED
    BY <1>0, <2>1, <2>2, <2>3, StaysRoot DEF Roots, unitVars
<1> QED
  BY <1>1, <1>2, <1>3, <1>4, <1>5

LEMMA ConditionShapes ==
  ASSUME Shapes, \/ StartCondition \/ ConditionClause \/ ConditionUnassign
                 \/ ConditionDone \/ RoundDone
  PROVE  Shapes'
<1>0. /\ TypeUser /\ TypeDB /\ TypeUnits /\ TypeStack /\ TypeLimits /\ TypePlace
      /\ TypeJob /\ Consistent /\ Settled /\ irr \subseteq Clause
      /\ status \in [Var -> Statuses]
  BY DEF Shapes, TypeDB, Kind, DB, TypeUnits
<1>6. \A F, A : Conditionals(F, A) \subseteq A
  BY DEF Conditionals
<1>1. CASE StartCondition
  <2>1. /\ pc' = "condition" /\ back' = back
        /\ irr' \subseteq irr /\ red' = red
        /\ gate' \subseteq irr /\ queue' \subseteq irr
        /\ UNCHANGED <<unitVars, bound>> /\ Start("condition")
        /\ UNCHANGED <<pivot, cand, todo, work, private, reprs, count, flag>>
    BY <1>1 DEF StartCondition, GoTo, Open
  <2>2. PICK neg \in SUBSET Var :
          LET A == Negated(neg) \cup
                   {v \in Var : Active(v) /\ ~Frozen(v) /\ v \notin neg}
          IN trail' = A /\ marked' = Conditionals(Open(irr), A)
    BY <1>1 DEF StartCondition
  <2>3. Negated(neg) \subseteq Lit /\ Var \subseteq Lit
    BY Literals DEF Negated
  <2>4. trail' \subseteq Lit /\ marked' \subseteq trail'
    BY <1>6, <2>2, <2>3
  <2>5. TypeDB' /\ DB' \subseteq DB
    BY <1>0, <2>1, ClausesFewer
  <2>6. TypeJob'
    BY <1>0, <2>1, <2>4 DEF TypeJob
  <2> QED
    BY <2>1, <2>5, <2>6, StartsRoot
<1>2. CASE ConditionClause
  <2>1. /\ pc = "condition" /\ pc' = "conditioning" /\ back' = back
        /\ queue' \subseteq queue /\ cand' \in queue
        /\ UNCHANGED userVars /\ UNCHANGED dbVars /\ UNCHANGED unitVars
        /\ UNCHANGED <<stackVars, tainted>> /\ UNCHANGED limitVars
        /\ UNCHANGED <<pivot, todo, gate, work, markVars, count, flag>>
    BY <1>2 DEF ConditionClause, GoTo
  <2>2. TypeJob'
    BY <1>0, <2>1 DEF TypeJob, markVars
  <2>3. TypeStack'
    BY <2>1, Same
  <2> QED
    BY <1>0, <2>1, <2>2, <2>3, StaysRoot DEF Roots, dbVars, unitVars
<1>3. CASE ConditionUnassign
  <2>1. /\ pc = "conditioning" /\ UNCHANGED <<pc, back>>
        /\ UNCHANGED userVars /\ UNCHANGED dbVars /\ UNCHANGED unitVars
        /\ UNCHANGED <<stackVars, tainted>> /\ UNCHANGED limitVars
        /\ UNCHANGED <<pivot, cand, todo, queue, gate, private, reprs, count,
                       flag>>
    BY <1>3 DEF ConditionUnassign
  <2>2. PICK l \in Unassignable :
          /\ trail' = trail \ {l} /\ work' = work \cup {l}
          /\ marked' = (marked \ {l}) \cup Unsupported(l)
    BY <1>3 DEF ConditionUnassign
  <2>3. l \in trail /\ Unsupported(l) \subseteq trail
    BY <2>2 DEF Unassignable, Unsupported, Autarky
  <2>4. TypeJob'
    BY <1>0, <2>1, <2>2, <2>3 DEF TypeJob
  <2>5. TypeStack'
    BY <2>1, Same
  <2> QED
    BY <1>0, <2>1, <2>4, <2>5, StaysRoot DEF Roots, dbVars, unitVars
<1>4. CASE ConditionDone
  <2>1. /\ pc = "conditioning" /\ pc' = "condition" /\ back' = back
        /\ irr' \subseteq irr /\ red' = red
        /\ trail' = trail \cup work /\ marked' = Conditionals(gate, trail')
        /\ work' = {} /\ cand' = {}
        /\ UNCHANGED userVars /\ UNCHANGED unitVars /\ UNCHANGED tainted
        /\ UNCHANGED limitVars
        /\ UNCHANGED <<pivot, todo, queue, gate, private, reprs, count, flag>>
        /\ \/ Push(<<[witness |-> Autarky, clause |-> cand]>>)
           \/ UNCHANGED stackVars
    BY <1>4 DEF ConditionDone, GoTo
  <2>2. TypeStack'
    <3>1. CASE Push(<<[witness |-> Autarky, clause |-> cand]>>)
      <4> DEFINE s == <<[witness |-> Autarky, clause |-> cand]>>
      <4>1. Autarky \in SUBSET Lit /\ cand \in Clause
        BY <1>0 DEF Autarky, TypeJob
      <4>2. s \in Seq(Entries) /\ Push(s)
        BY <3>1, <4>1, OneEntry
      <4> HIDE DEF s
      <4> QED
        BY <1>0, <2>1, <4>2, Pushed0
    <3>2. CASE UNCHANGED stackVars
      BY <2>1, <3>2, Same
    <3> QED
      BY <2>1, <3>1, <3>2
  <2>3. TypeJob'
    <3>1. trail' \subseteq Lit /\ marked' \subseteq trail' /\ {} \in Clause
      BY <1>0, <1>6, <2>1 DEF TypeJob, Clause
    <3> QED
      BY <1>0, <2>1, <3>1 DEF TypeJob
  <2> QED
    BY <1>0, <2>1, <2>2, <2>3, StaysRoot DEF Roots, unitVars
<1>5. CASE RoundDone
  <2>1. /\ pc \in {"cover", "condition"} /\ pc' = "simplify" /\ back' = back
        /\ NoJob
        /\ UNCHANGED userVars /\ UNCHANGED dbVars /\ UNCHANGED unitVars
        /\ UNCHANGED <<stackVars, tainted>> /\ UNCHANGED limitVars
    BY <1>5 DEF RoundDone, GoTo
  <2>2. TypeStack' /\ TypeJob'
    BY <2>1, Same, Emptied
  <2> QED
    BY <1>0, <2>1, <2>2, StaysRoot DEF Roots, dbVars, unitVars
<1> QED
  BY <1>1, <1>2, <1>3, <1>4, <1>5

LEMMA BlocksShapes ==
  ASSUME Shapes, PivotFree, Blocks
  PROVE  Shapes'
  BY BlockShapes, CoverShapes, ConditionShapes DEF Blocks

-----------------------------------------------------------------------------
(* The binary implication graph. *)

\* What is closed under the implications has all that is reached from it.
LEMMA ReachedWithin ==
  ASSUME NEW F, NEW l, NEW T, l \in T,
         \A c \in Binaries(F) : \A k \in c : -k \in T => c \ {k} \subseteq T
  PROVE  Reached(F, l) \subseteq T
<1> DEFINE B == Binaries(F)
           S == T \cap LitsOf(B)
<1>1. ASSUME NEW c \in B, NEW k \in c, -k \in S \cup {l}
      PROVE  c \ {k} \subseteq S \cup {l}
  <2>1. -k \in T
    BY <1>1
  <2>2. c \ {k} \subseteq T
    BY <2>1
  <2>3. c \subseteq LitsOf(B)
    BY DEF LitsOf
  <2> QED
    BY <2>2, <2>3
<1>2. Closed(B, S \cup {l})
  BY <1>1, Zenon DEF Closed
<1>3. S \in {U \in SUBSET LitsOf(B) : Closed(B, U \cup {l})}
  BY <1>2
<1>4. \A k \in Reached(F, l) : k \in S \cup {l}
  BY <1>3, Zenon DEF Reached
<1> QED
  BY <1>4

LEMMA ReachedLits ==
  ASSUME NEW F, F \subseteq Clause, NEW l \in Lit
  PROVE  Reached(F, l) \subseteq Lit /\ l \in Reached(F, l)
<1>1. \A c \in Binaries(F) : c \subseteq Lit
  BY DEF Binaries, Clause
<1>2. Reached(F, l) \subseteq Lit
  BY <1>1, ReachedWithin
<1>3. l \in Reached(F, l)
  BY Zenon DEF Reached
<1> QED
  BY <1>2, <1>3

\* A literal that has a representative.
Replaceable(l) == Active(l) /\ ~Frozen(l)

(* A set of numbers has a smallest one. *)
LEMMA SmallestNumber ==
  ASSUME NEW T \in SUBSET Nat, T # {}
  PROVE  \E x \in T : \A y \in T : x <= y
<1> DEFINE R == OpToRel(<, Nat)
<1>1. IsWellFoundedOn(R, Nat)
  BY NatLessThanWellFounded
<1>2. \A x, y \in Nat : <<y, x>> \in R <=> y < x
  BY DEF OpToRel
<1> HIDE DEF R
<1>3. PICK x \in T : \A y \in T : ~ (<<y, x>> \in R)
  BY <1>1, WFMin
<1>4. \A y \in T : x \in Nat /\ y \in Nat /\ ~(y < x)
  BY <1>2, <1>3
<1> QED
  BY <1>4

LEMMA ReprChosen ==
  ASSUME TypeDB, NEW l \in Lit
  PROVE  /\ Repr(l) \in Lit
         /\ ~Replaceable(l) => Repr(l) = l
         /\ Replaceable(l) => /\ Repr(l) \in Component(l)
                              /\ \A j \in Component(l) : Abs(Repr(l)) <= Abs(j)
<1>1. CASE ~Replaceable(l)
  BY <1>1, Zenon DEF Repr, Replaceable
<1>2. CASE Replaceable(l)
  <2> DEFINE C == Component(l)
             N == {Abs(j) : j \in C}
             Smallest(k) == \A j \in C : Abs(k) <= Abs(j)
  <2>1. Implications \subseteq Clause
    BY DEF Implications, Binaries, TypeDB, Kind
  <2>2. C \subseteq Lit /\ l \in C
    BY <2>1, ReachedLits, Zenon DEF Component
  <2>3. Repr(l) = CHOOSE k \in C : Smallest(k)
    BY <1>2, Zenon DEF Repr, Replaceable
  <2>4. \A j \in C : Abs(j) \in Nat
    BY <2>2, Literals, VarAssumption
  <2> HIDE DEF C
  <2>5. N \in SUBSET Nat /\ N # {}
    BY <2>2, <2>4
  <2>6. PICK x \in N : \A y \in N : x <= y
    <3> HIDE DEF N
    <3> QED
      BY <2>5, SmallestNumber
  <2>7. PICK k \in C : x = Abs(k)
    BY <2>6
  <2>8. Smallest(k)
    BY <2>6, <2>7
  <2>9. Repr(l) \in C /\ Smallest(Repr(l))
    <3> HIDE DEF Smallest
    <3> QED
      BY <2>3, <2>7, <2>8, Zenon
  <2> QED
    BY <1>2, <2>2, <2>9 DEF C
<1> QED
  BY <1>1, <1>2

-----------------------------------------------------------------------------
(* The shapes are kept: substitution, binary clauses and probing. *)

\* A technique, or a handler, that ends with propagation.
LEMMA Propagates ==
  ASSUME Shapes, pc' = "propagate", back' = "simplify", UNCHANGED userVars,
         TypeDB', TypeUnits', Consistent', UNCHANGED <<stackVars, tainted>>,
         TypeLimits', TypeJob'
  PROVE  Shapes'
<1>1. TypeUser' /\ TypeStack'
  BY Same
<1>2. TypePlace'
  BY DEF TypePlace, Places
<1> QED
  BY <1>1, <1>2, NotSettled, Arrived DEF Roots

LEMMA Start1Types ==
  ASSUME Shapes, NEW technique, Start1(technique)
  PROVE  /\ pc = "simplify" /\ UNCHANGED userVars /\ UNCHANGED bound
         /\ UNCHANGED <<stackVars, tainted>> /\ UNCHANGED jobVars
         /\ Start(technique) /\ TypeLimits' /\ TypeJob'
<1>1. TypeLimits
  BY DEF Shapes
<1>2. /\ pc = "simplify" /\ UNCHANGED userVars /\ UNCHANGED bound
      /\ UNCHANGED <<stackVars, tainted>> /\ UNCHANGED jobVars
      /\ rounds > 0 /\ rounds' = rounds - 1 /\ learned' = learned
  BY DEF Start1, Start
<1>3. TypeLimits'
  BY <1>1, <1>2 DEF TypeLimits
<1>4. TypeJob'
  BY <1>2, Same
<1> QED
  BY <1>2, <1>3, <1>4 DEF Start1

LEMMA UnitDerived ==
  ASSUME TypeUnits, Consistent, NEW l \in Lit, NEW empty \in BOOLEAN,
         Assign({l}, empty)
  PROVE  TypeUnits' /\ Consistent'
<1>1. {l} \in SUBSET Lit
  OBVIOUS
<1> QED
  BY <1>1, UnitsAssigned

LEMMA TwoEntries ==
  ASSUME NEW e \in Entries, NEW f \in Entries
  PROVE  <<e, f>> \in Seq(Entries)
  OBVIOUS

LEMMA SubstituteShapes ==
  ASSUME Shapes, \/ Contradiction \/ StartDecompose \/ PushEquivalence
                 \/ SubstituteClause \/ ClausesSubstituted \/ Substituted
  PROVE  Shapes'
<1>0. /\ TypeUser /\ TypeDB /\ TypeUnits /\ TypeStack /\ TypeLimits /\ TypePlace
      /\ TypeJob /\ Consistent /\ Settled /\ DB \subseteq Clause
      /\ status \in [Var -> Statuses]
  BY DEF Shapes, TypeDB, Kind, TypeUnits
<1>1. CASE Contradiction
  <2>1. /\ pc' = "propagate" /\ back' = "simplify" /\ rounds > 0
        /\ rounds' = rounds - 1 /\ learned' = learned /\ bound' = bound
        /\ UNCHANGED userVars /\ UNCHANGED dbVars
        /\ UNCHANGED <<stackVars, tainted>> /\ UNCHANGED jobVars
    BY <1>1 DEF Contradiction, Start, PropagateThen
  <2>2. PICK l \in Lit : Assign({l}, TRUE)
    BY <1>1 DEF Contradiction
  <2>3. TypeUnits' /\ Consistent'
    <3>1. TRUE \in BOOLEAN
      OBVIOUS
    <3> QED
      BY <1>0, <2>2, <3>1, UnitDerived
  <2>4. TypeLimits'
    BY <1>0, <2>1 DEF TypeLimits
  <2>5. TypeDB' /\ TypeJob'
    BY <2>1, Same
  <2> QED
    BY <2>1, <2>3, <2>4, <2>5, Propagates
<1>2. CASE StartDecompose
  <2>1. /\ pc' = "represent" /\ back' = back /\ rounds > 0
        /\ rounds' = rounds - 1 /\ learned' = learned /\ bound' = bound
        /\ UNCHANGED userVars /\ UNCHANGED dbVars /\ UNCHANGED unitVars
        /\ UNCHANGED <<stackVars, tainted>>
        /\ UNCHANGED <<pivot, cand, todo, gate, trail, marked, private, count,
                       flag>>
        /\ reprs' = [l \in Lit |-> Repr(l)] /\ work' \subseteq Var
        /\ queue' \subseteq DB
    BY <1>2 DEF StartDecompose, Start, GoTo
  <2>2. reprs' \in [Lit -> Lit]
    BY <1>0, <2>1, ReprChosen
  <2>3. TypeJob'
    BY <1>0, <2>1, <2>2, Literals DEF TypeJob
  <2>4. TypeLimits' /\ TypePlace'
    BY <1>0, <2>1 DEF TypeLimits, TypePlace, Places
  <2>5. TypeUser' /\ TypeDB' /\ TypeUnits' /\ TypeStack' /\ Consistent'
    BY <2>1, Same
  <2> QED
    BY <2>1, <2>3, <2>4, <2>5, NotSettled, Arrived DEF Roots
<1>3. CASE PushEquivalence
  <2>1. /\ pc = "represent" /\ UNCHANGED <<pc, back>>
        /\ UNCHANGED userVars /\ UNCHANGED dbVars /\ UNCHANGED unitVars
        /\ UNCHANGED tainted /\ UNCHANGED limitVars
        /\ UNCHANGED <<pivot, cand, todo, queue, gate, markVars, count, flag>>
    BY <1>3 DEF PushEquivalence
  <2>2. PICK v \in work : Push(EquivalenceEntries(v)) /\ work' = work \ {v}
    BY <1>3 DEF PushEquivalence
  <2>3. v \in Lit /\ -v \in Lit /\ reprs[v] \in Lit /\ -reprs[v] \in Lit
    <3>1. v \in Lit /\ reprs[v] \in Lit
      BY <1>0 DEF TypeJob
    <3> QED
      BY <3>1, Literals
  <2>4. TypeStack'
    <3> DEFINE s == EquivalenceEntries(v)
               e == [witness |-> {-v}, clause |-> {-v, reprs[v]}]
               f == [witness |-> {v}, clause |-> {v, -reprs[v]}]
    <3>1. e \in Entries /\ f \in Entries
      BY <2>3 DEF Entries, Clause
    <3>2. s = <<e, f>>
      BY DEF EquivalenceEntries
    <3>3. s \in Seq(Entries) /\ Push(s)
      <4> HIDE DEF e, f
      <4> QED
        BY <2>2, <3>1, <3>2, TwoEntries
    <3> HIDE DEF s
    <3> QED
      BY <1>0, <2>1, <3>3, Pushed0
  <2>5. TypeJob'
    BY <1>0, <2>1, <2>2 DEF TypeJob, markVars
  <2>6. /\ TypeUser' /\ TypeDB' /\ TypeUnits' /\ TypeLimits' /\ TypePlace'
        /\ Consistent'
    BY <2>1, Same
  <2> QED
    BY <2>1, <2>4, <2>5, <2>6, NotSettled, Arrived DEF Roots
<1>4. CASE SubstituteClause
  <2>1. /\ pc = "represent" /\ UNCHANGED <<pc, back>>
        /\ UNCHANGED userVars /\ UNCHANGED <<stackVars, tainted>>
        /\ UNCHANGED limitVars
        /\ UNCHANGED <<pivot, cand, todo, work, markVars, count, flag>>
    BY <1>4 DEF SubstituteClause
  <2>2. PICK c \in queue :
          LET replaced == {reprs[l] : l \in Rest(c)}
              r        == Rest(replaced)
          IN /\ queue' = queue \ {c}
             /\ IF Dropped(c, replaced)
                THEN /\ gate' = gate \cup {c}
                     /\ UNCHANGED <<dbVars, unitVars>>
                ELSE IF Cardinality(r) < 2
                THEN /\ Assign(r, r = {})
                     /\ irr' = irr \ {c} /\ red' = red \ {c} /\ UNCHANGED gate
                ELSE /\ irr' = Replace(irr, c, r) /\ red' = Replace(red, c, r)
                     /\ UNCHANGED <<unitVars, gate>>
    BY <1>4 DEF SubstituteClause
  <2> DEFINE replaced == {reprs[l] : l \in Rest(c)}
             r == Rest(replaced)
             empty == r = {}
  <2>3. r \in Clause /\ c \in Clause
    <3>1. c \in Clause
      BY <1>0 DEF TypeJob
    <3>2. \A l \in Rest(c) : l \in Lit
      BY <3>1, Clauses0
    <3>3. reprs \in [Lit -> Lit]
      BY <1>0 DEF TypeJob
    <3>4. replaced \in Clause
      BY <3>2, <3>3 DEF Clause
    <3> QED
      BY <3>1, <3>4, Clauses0
  <2>4. TypeJob'
    BY <1>0, <2>1, <2>2 DEF TypeJob, markVars
  <2>5. TypeUser' /\ TypeStack' /\ TypeLimits' /\ TypePlace'
    BY <2>1, Same
  <2>6. CASE Dropped(c, replaced)
    <3>1. TypeDB' /\ TypeUnits' /\ Consistent'
      BY <2>2, <2>6, Same
    <3> QED
      BY <2>1, <2>4, <2>5, <3>1, NotSettled, Arrived DEF Roots
  <2>7. CASE ~Dropped(c, replaced) /\ Cardinality(r) < 2
    <3>1. /\ Assign(r, empty) /\ irr' \subseteq irr /\ red' \subseteq red
          /\ empty \in BOOLEAN
      BY <2>2, <2>7
    <3>2. r \in SUBSET Lit
      BY <2>3 DEF Clause
    <3>3. TypeUnits' /\ Consistent'
      <4> HIDE DEF r, empty
      <4> QED
        BY <1>0, <3>1, <3>2, UnitsAssigned
    <3>4. TypeDB'
      BY <1>0, <3>1, ClausesFewer
    <3> QED
      BY <2>1, <2>4, <2>5, <3>3, <3>4, NotSettled, Arrived DEF Roots
  <2>8. CASE ~Dropped(c, replaced) /\ ~(Cardinality(r) < 2)
    <3>1. /\ irr' = Replace(irr, c, r) /\ red' = Replace(red, c, r)
          /\ UNCHANGED unitVars
      BY <2>2, <2>8
    <3>2. Kind(r)
      BY <2>3, <2>8, Clauses0 DEF Kind, Dropped
    <3>3. TypeDB'
      <4> HIDE DEF r
      <4>1. irr' \subseteq irr \cup {r} /\ red' \subseteq red \cup {r}
        BY <3>1 DEF Replace
      <4> QED
        BY <1>0, <3>2, <4>1, ClauseAdded
    <3>4. TypeUnits' /\ Consistent'
      BY <3>1, Same
    <3> QED
      BY <2>1, <2>4, <2>5, <3>3, <3>4, NotSettled, Arrived DEF Roots
  <2> QED
    BY <2>6, <2>7, <2>8
<1>5. CASE ClausesSubstituted
  <2>1. /\ pc' = "propagate" /\ back' = "substituted"
        /\ irr' \subseteq irr /\ red' \subseteq red
        /\ UNCHANGED userVars /\ UNCHANGED unitVars
        /\ UNCHANGED <<stackVars, tainted>> /\ UNCHANGED limitVars
        /\ UNCHANGED jobVars
    BY <1>5 DEF ClausesSubstituted, PropagateThen
  <2>2. TypePlace' /\ TypeDB'
    BY <1>0, <2>1, ClausesFewer DEF TypePlace, Places
  <2>3. /\ TypeUser' /\ TypeUnits' /\ TypeStack' /\ TypeLimits' /\ TypeJob'
        /\ Consistent'
    BY <2>1, Same
  <2> QED
    BY <2>1, <2>2, <2>3, NotSettled, Arrived DEF Roots
<1>6. CASE Substituted
  <2>1. /\ pc' = "propagate" /\ back' = "simplify" /\ NoJob
        /\ UNCHANGED userVars /\ UNCHANGED dbVars /\ UNCHANGED <<units, unsat>>
        /\ UNCHANGED <<stackVars, tainted>> /\ UNCHANGED limitVars
    BY <1>6 DEF Substituted, PropagateThen
  <2>2. TypeUnits'
    <3>1. status' \in [Var -> Statuses]
      BY <1>0, <1>6, SMT DEF Substituted, Statuses
    <3> QED
      BY <1>0, <2>1, <3>1 DEF TypeUnits
  <2>3. TypeDB' /\ TypeLimits' /\ TypeJob' /\ Consistent'
    BY <2>1, Same, Emptied
  <2> QED
    BY <2>1, <2>2, <2>3, Propagates
<1> QED
  BY <1>1, <1>2, <1>3, <1>4, <1>5, <1>6

LEMMA BinaryShapes ==
  ASSUME Shapes, \/ Ternary \/ Deduplicate \/ HyperUnary \/ Transitive
                 \/ TransitiveFailed
  PROVE  Shapes'
<1>0. /\ TypeDB /\ TypeUnits /\ TypeStack /\ Consistent /\ DB \subseteq Clause
  BY DEF Shapes, TypeDB, Kind
<1>1. CASE Ternary
  <2>1. /\ pc' = "propagate" /\ back' = "simplify" /\ UNCHANGED unitVars
        /\ Start1("ternary")
    BY <1>1 DEF Ternary, PropagateThen
  <2>2. PICK c \in DB, d \in DB : \E l \in c :
          LET r == Resolvent(c, d, l)
              redundant == Cardinality(r) = 3 \/ {c, d} \cap irr = {}
              subsumed == IF Cardinality(r) = 2 THEN {c, d} ELSE {}
          IN /\ -l \in d /\ IsHyperTernary(r)
             /\ irr' = (irr \ subsumed) \cup (IF redundant THEN {} ELSE {r})
             /\ red' = (red \ subsumed) \cup (IF redundant THEN {r} ELSE {})
    BY <1>1 DEF Ternary
  <2>3. PICK l \in c :
          LET r == Resolvent(c, d, l)
              redundant == Cardinality(r) = 3 \/ {c, d} \cap irr = {}
              subsumed == IF Cardinality(r) = 2 THEN {c, d} ELSE {}
          IN /\ -l \in d /\ IsHyperTernary(r)
             /\ irr' = (irr \ subsumed) \cup (IF redundant THEN {} ELSE {r})
             /\ red' = (red \ subsumed) \cup (IF redundant THEN {r} ELSE {})
    BY <2>2
  <2> DEFINE r == Resolvent(c, d, l)
  <2>7. irr' \subseteq irr \cup {r} /\ red' \subseteq red \cup {r}
    BY <2>3
  <2>4. Kind(r)
    BY <1>0, <2>3, ResolventClause DEF Kind, IsHyperTernary
  <2>5. TypeDB'
    <3> HIDE DEF r
    <3> QED
      BY <1>0, <2>4, <2>7, ClauseAdded
  <2>6. TypeUnits' /\ Consistent'
    BY <2>1, Same
  <2> QED
    BY <2>1, <2>5, <2>6, Start1Types, Propagates
<1>2. CASE Deduplicate \/ Transitive
  <2>1. /\ pc' = "simplify" /\ back' = back /\ UNCHANGED unitVars
        /\ Start1("dedup") \/ Start1("transred")
        /\ irr' \subseteq irr /\ red' \subseteq red
    BY <1>2 DEF Deduplicate, Transitive, GoTo
  <2>2. PICK technique \in {"dedup", "transred"} : Start1(technique)
    BY <2>1
  <2>3. TypeDB' /\ DB' \subseteq DB
    BY <1>0, <2>1, ClausesFewer
  <2>4. TypeJob' /\ bound' = bound /\ Start(technique)
    BY <2>2, Start1Types
  <2> QED
    BY <2>1, <2>3, <2>4, StartsRoot
<1>3. CASE HyperUnary \/ TransitiveFailed
  <2>1. /\ pc' = "propagate" /\ back' = "simplify" /\ UNCHANGED dbVars
        /\ Start1("dedup") \/ Start1("transred")
        /\ \E l \in Lit : Assign({l}, FALSE)
    BY <1>3 DEF HyperUnary, TransitiveFailed, PropagateThen
  <2>2. PICK l \in Lit : Assign({l}, FALSE)
    BY <2>1
  <2>3. TypeUnits' /\ Consistent'
    <3>1. FALSE \in BOOLEAN
      OBVIOUS
    <3> QED
      BY <1>0, <2>2, <3>1, UnitDerived
  <2>4. TypeDB'
    BY <2>1, Same
  <2>5. PICK technique \in {"dedup", "transred"} : Start1(technique)
    BY <2>1
  <2> QED
    BY <2>1, <2>3, <2>4, <2>5, Start1Types, Propagates
<1> QED
  BY <1>1, <1>2, <1>3

\* A step on the root level that may leave new clauses with two open literals.
LEMMA StaysLoose ==
  ASSUME Shapes, pc \in Roots, UNCHANGED unitVars, UNCHANGED limitVars,
         UNCHANGED userVars, back' = back, pc' \in {"simplify", "probe"},
         TypeDB', \A c \in DB' : c \in DB \/ Loose(c),
         UNCHANGED <<stackVars, tainted>>, TypeJob'
  PROVE  Shapes'
<1>0. TypePlace /\ Settled
  BY DEF Shapes
<1>1. TypeUser' /\ TypeLimits' /\ TypeUnits' /\ Consistent' /\ TypeStack'
  BY Same
<1>3. Settled'
  BY <1>0, StaysSettled DEF unitVars
<1>4. TypePlace' /\ pc' \notin {"backward", "vivify", "last", "instantiate"}
  BY <1>0 DEF TypePlace, Places
<1> QED
  BY <1>1, <1>3, <1>4, Arrived

\* On the root level units have been propagated.
LEMMA UnitsClosed ==
  ASSUME Shapes, pc \in Roots, NEW c \in Binaries(DB), NEW l \in c, -l \in units
  PROVE  c \ {l} \subseteq units
<1>0. /\ TypeDB /\ Settled /\ Consistent /\ c \in DB /\ Cardinality(c) = 2
  BY DEF Shapes, Binaries
<1>1. c \in Clause /\ Loose(c) /\ ~unsat
  BY <1>0 DEF TypeDB, Kind, Settled
<1>2. PICK k \in c : k # l /\ c = {l, k}
  BY <1>0, <1>1, BinaryClause
<1>3. Rest(c) \subseteq {k}
  BY <1>2 DEF Rest, False
<1>4. {k} \in Clause /\ Cardinality({k}) = 1
  BY <1>1, <1>2, FS_Singleton DEF Clause
<1>5. Cardinality(Rest(c)) <= 1 /\ Cardinality(Rest(c)) \in Nat
  BY <1>1, <1>3, <1>4, Fewer, Clauses0
<1>6. PICK j \in c : j \in units
  BY <1>1, <1>5 DEF Loose, IsSatisfied
<1>7. j = k
  BY <1>0, <1>1, <1>2, <1>6 DEF Consistent
<1> QED
  BY <1>2, <1>6, <1>7

LEMMA ReachedUnits ==
  ASSUME Shapes, pc \in Roots, NEW l \in units
  PROVE  Reached(DB, l) \subseteq units
<1> DEFINE T == units
<1>1. \A c \in Binaries(DB) : \A k \in c : -k \in T => c \ {k} \subseteq T
  BY UnitsClosed
<1> QED
  BY <1>1, ReachedWithin

\* The clause of hyper binary resolution.
LEMMA HyperBinary ==
  ASSUME Shapes, pc = "probe", ~Falsified(DB, Holds), NEW c \in DB, NEW l \in c,
         l \notin Holds, Negated(c \ {l}) \subseteq Holds,
         Negated(c \ {l}) \ units # {},
         NEW dom \in Dominators(Negated(c \ {l}) \ units)
  PROVE  Kind({-dom, l}) /\ Loose({-dom, l})
<1>0. TypeDB /\ TypeJob /\ c \in Clause
  BY DEF Shapes, TypeDB, Kind
<1>1. dom \in trail /\ Negated(c \ {l}) \ units \subseteq Reached(DB, dom)
  BY DEF Dominators
<1>2. dom \in Lit /\ l \in Lit /\ -dom \in Lit /\ -(-dom) = dom /\ dom # -dom
      /\ l # -l
  BY <1>0, <1>1, Literals, Clauses0 DEF TypeJob
<1>3. dom \in Holds /\ dom # l /\ dom \notin units
  <2>1. dom \in Holds /\ dom # l
    BY <1>1 DEF Holds
  <2>2. dom \in units => Reached(DB, dom) \subseteq units
    BY ReachedUnits DEF Roots
  <2> QED
    BY <1>1, <2>1, <2>2
<1>4. -l \notin Holds
  <2> SUFFICES ASSUME -l \in Holds
               PROVE  FALSE
    OBVIOUS
  <2>1. Negated(c) \subseteq Holds
    BY DEF Negated
  <2> QED
    BY <2>1 DEF Falsified
<1>5. -dom # l
  BY <1>2, <1>3, <1>4
<1> DEFINE b == {-dom, l}
<1>6. b \in Clause /\ Cardinality(b) > 1
  <2>1. b \in Clause
    BY <1>2 DEF Clause
  <2> QED
    BY <1>5, <2>1, TwoLiterals
<1>7. ~IsTautology(b)
  <2>1. -dom # -l
    BY <1>2, <1>3, Literals
  <2>2. \A k \in b : -k \notin b
    BY <1>2, <1>3, <1>5, <2>1
  <2> QED
    BY <2>2 DEF IsTautology
<1>8. Rest(b) = b
  <2>1. -l \notin units /\ -(-dom) \notin units
    BY <1>2, <1>3, <1>4 DEF Holds
  <2> QED
    BY <2>1 DEF Rest, False
<1> QED
  BY <1>6, <1>7, <1>8 DEF Kind, Loose

LEMMA ProbeShapes ==
  ASSUME Shapes, \/ StartProbe \/ ProbeBinary \/ ProbeLong \/ FailedLiteral
                 \/ Probed
  PROVE  Shapes'
<1>0. /\ TypeDB /\ TypeUnits /\ TypeStack /\ Consistent /\ DB \subseteq Clause
      /\ TypeJob /\ Settled /\ status \in [Var -> Statuses]
  BY DEF Shapes, TypeDB, Kind, TypeUnits
<1>1. CASE StartProbe
  <2>1. /\ pc' = "probe" /\ back' = back /\ Start("probe")
        /\ UNCHANGED dbVars /\ UNCHANGED <<unitVars, bound>>
        /\ UNCHANGED <<cand, todo, queue, gate, work, marked, private, reprs,
                       count, flag>>
        /\ \E l \in Lit : pivot' = l /\ trail' = {l}
    BY <1>1 DEF StartProbe, GoTo
  <2>2. TypeJob'
    BY <1>0, <2>1 DEF TypeJob
  <2>3. TypeDB' /\ DB' = DB
    BY <2>1, Same DEF dbVars, DB
  <2> QED
    BY <2>1, <2>2, <2>3, StartsRoot
<1>2. CASE ProbeBinary
  <2>1. /\ pc = "probe" /\ UNCHANGED <<pc, back>>
        /\ UNCHANGED userVars /\ UNCHANGED dbVars /\ UNCHANGED unitVars
        /\ UNCHANGED <<stackVars, tainted>> /\ UNCHANGED limitVars
        /\ UNCHANGED <<pivot, cand, todo, queue, gate, work, marked, private,
                       reprs, count, flag>>
        /\ trail' = trail \cup Forced(Binaries(DB), Holds)
    BY <1>2 DEF ProbeBinary, Probing
  <2>2. Forced(Binaries(DB), Holds) \in SUBSET Lit
    <3>1. Binaries(DB) \subseteq Clause
      BY <1>0 DEF Binaries
    <3> QED
      BY <3>1, ForcedLits
  <2>3. TypeJob' /\ TypeStack'
    BY <1>0, <2>1, <2>2, Same DEF TypeJob
  <2> QED
    BY <1>0, <2>1, <2>3, StaysRoot DEF Roots, dbVars, unitVars
<1>3. CASE ProbeLong
  <2>1. /\ pc = "probe" /\ ~Falsified(DB, Holds) /\ UNCHANGED <<pc, back>>
        /\ UNCHANGED userVars /\ UNCHANGED unitVars
        /\ UNCHANGED <<stackVars, tainted>> /\ UNCHANGED limitVars
        /\ UNCHANGED <<pivot, cand, todo, queue, gate, work, marked, private,
                       reprs, count, flag>>
    BY <1>3 DEF ProbeLong, Probing
  <2>2. PICK c \in DB : \E l \in c :
          LET others == Negated(c \ {l}) \ units
          IN /\ l \notin Holds /\ others # {}
             /\ Negated(c \ {l}) \subseteq Holds
             /\ trail' = trail \cup {l}
             /\ \/ UNCHANGED dbVars
                \/ \E dom \in Dominators(others) :
                     /\ irr' \subseteq irr \cup {{-dom, l}}
                     /\ red' \subseteq red \cup {{-dom, l}}
    <3>1. PICK c \in DB : \E l \in c :
            LET others == Negated(c \ {l}) \ units
            IN /\ l \notin Holds /\ others # {}
               /\ Negated(c \ {l}) \subseteq Holds
               /\ trail' = trail \cup {l}
               /\ IF Cardinality(others) = 1 THEN UNCHANGED dbVars
                  ELSE \E dom \in Dominators(others) :
                    LET redundant == ~Contained(dom, c) \/ c \notin irr
                        removed == IF Contained(dom, c) THEN {c} ELSE {}
                        binary == {{-dom, l}}
                    IN /\ irr' = (irr \ removed) \cup
                                 (IF redundant THEN {} ELSE binary)
                       /\ red' = (red \ removed) \cup
                                 (IF redundant THEN binary ELSE {})
      BY <1>3, Zenon DEF ProbeLong
    <3>2. ASSUME NEW removed, NEW redundant, NEW b,
                 irr' = (irr \ removed) \cup (IF redundant THEN {} ELSE {b}),
                 red' = (red \ removed) \cup (IF redundant THEN {b} ELSE {})
          PROVE  irr' \subseteq irr \cup {b} /\ red' \subseteq red \cup {b}
      BY <3>2
    <3> QED
      BY <3>1, <3>2, Zenon
  <2>3. PICK l \in c :
          LET others == Negated(c \ {l}) \ units
          IN /\ l \notin Holds /\ others # {}
             /\ Negated(c \ {l}) \subseteq Holds
             /\ trail' = trail \cup {l}
             /\ \/ UNCHANGED dbVars
                \/ \E dom \in Dominators(others) :
                     /\ irr' \subseteq irr \cup {{-dom, l}}
                     /\ red' \subseteq red \cup {{-dom, l}}
    BY <2>2
  <2>4. TypeJob'
    <3>1. l \in Lit
      BY <1>0, Clauses0
    <3> QED
      BY <1>0, <2>1, <2>3, <3>1 DEF TypeJob
  <2>5. TypeDB' /\ \A d \in DB' : d \in DB \/ Loose(d)
    <3>1. CASE UNCHANGED dbVars
      BY <3>1, Same DEF dbVars, DB
    <3>2. CASE \E dom \in Dominators(Negated(c \ {l}) \ units) :
                 /\ irr' \subseteq irr \cup {{-dom, l}}
                 /\ red' \subseteq red \cup {{-dom, l}}
      <4>1. PICK dom \in Dominators(Negated(c \ {l}) \ units) :
                 /\ irr' \subseteq irr \cup {{-dom, l}}
                 /\ red' \subseteq red \cup {{-dom, l}}
        BY <3>2
      <4> DEFINE b == {-dom, l}
      <4>2. Kind(b) /\ Loose(b)
        BY <2>1, <2>3, HyperBinary
      <4>3. irr' \subseteq irr \cup {b} /\ red' \subseteq red \cup {b}
        BY <4>1
      <4> HIDE DEF b
      <4>4. TypeDB'
        BY <1>0, <4>2, <4>3, ClauseAdded
      <4> QED
        BY <4>2, <4>3, <4>4 DEF DB
    <3> QED
      BY <2>3, <3>1, <3>2
  <2> QED
    BY <2>1, <2>4, <2>5, StaysLoose DEF Roots
<1>4. CASE FailedLiteral
  <2>1. /\ pc' = "propagate" /\ back' = "simplify" /\ NoJob
        /\ UNCHANGED userVars /\ UNCHANGED dbVars
        /\ UNCHANGED <<stackVars, tainted>> /\ UNCHANGED limitVars
    BY <1>4 DEF FailedLiteral, PropagateThen
  <2>2. PICK uip \in trail : Assign({-uip}, FALSE)
    BY <1>4 DEF FailedLiteral, Dominators
  <2>3. TypeUnits' /\ Consistent'
    <3> DEFINE l == -uip
    <3>1. l \in Lit /\ FALSE \in BOOLEAN
      BY <1>0, Literals DEF TypeJob
    <3> HIDE DEF l
    <3> QED
      BY <1>0, <2>2, <3>1, UnitDerived DEF l
  <2>4. TypeDB' /\ TypeLimits' /\ TypeJob'
    BY <2>1, Same, Emptied
  <2> QED
    BY <2>1, <2>3, <2>4, Propagates
<1>5. CASE Probed
  <2>1. /\ pc = "probe" /\ pc' = "simplify" /\ back' = back /\ NoJob
        /\ UNCHANGED userVars /\ UNCHANGED dbVars /\ UNCHANGED unitVars
        /\ UNCHANGED <<stackVars, tainted>> /\ UNCHANGED limitVars
    BY <1>5 DEF Probed, Probing, GoTo
  <2>2. TypeStack' /\ TypeJob'
    BY <2>1, Same, Emptied
  <2> QED
    BY <1>0, <2>1, <2>2, StaysRoot DEF Roots, dbVars, unitVars
<1> QED
  BY <1>1, <1>2, <1>3, <1>4, <1>5

LEMMA ReducesShapes ==
  ASSUME Shapes, Reduces
  PROVE  Shapes'
  BY SubstituteShapes, BinaryShapes, ProbeShapes DEF Reduces

-----------------------------------------------------------------------------
(* The shapes are kept: subsumption, vivification and instantiation. *)

LEMMA Replaced ==
  ASSUME NEW c, NEW redundant, NEW new, ReplaceBy(c, redundant, new)
  PROVE  /\ irr' \subseteq irr \cup new /\ red' \subseteq red \cup new
         /\ DB' \subseteq DB \cup new
<1>1. CASE redundant
  BY <1>1 DEF ReplaceBy, DB
<1>2. CASE ~redundant
  BY <1>2 DEF ReplaceBy, DB
<1> QED
  BY <1>1, <1>2

LEMMA UnassignedLoose ==
  ASSUME NEW c \in Clause, Unassigned(c), NEW d \in SUBSET c, Cardinality(d) > 1
  PROVE  Loose(d)
<1>1. \A l \in c : -l \notin units
  <2> SUFFICES ASSUME NEW l \in c, -l \in units
               PROVE  FALSE
    OBVIOUS
  <2>1. l \in Lit /\ Abs(-l) = Abs(l)
    BY Clauses0, Literals
  <2>2. Abs(l) \in VarsOf(c) /\ Abs(-l) \in VarsOf(units)
    BY Zenon DEF VarsOf
  <2> QED
    BY <2>1, <2>2 DEF Unassigned
<1>2. Rest(d) = d
  BY <1>1 DEF Rest, False
<1> QED
  BY <1>2 DEF Loose

LEMMA SubsumeShapes ==
  ASSUME Shapes, Subsume \/ Strengthen \/ VivifyFlush \/ VivifySatisfied
  PROVE  Shapes'
<1>0. TypeDB /\ Settled
  BY DEF Shapes
<1>1. /\ pc = "simplify" /\ pc' = "simplify" /\ back' = back
      /\ UNCHANGED unitVars
  BY DEF Subsume, Strengthen, VivifyFlush, VivifySatisfied, Start1, Start, GoTo
<1>2. PICK technique \in {"subsume", "vivify"} : Start1(technique)
  BY DEF Subsume, Strengthen, VivifyFlush, VivifySatisfied
<1>3. TypeJob' /\ bound' = bound /\ Start(technique)
  BY <1>2, Start1Types
<1>4. SUFFICES TypeDB' /\ \A c \in DB' : c \in DB \/ Loose(c)
  BY <1>1, <1>3, StartsRoot
<1>5. CASE Subsume
  <2>1. PICK fromRed \in BOOLEAN, toRed \in BOOLEAN :
          \E d \in Of(fromRed), c \in Of(toRed) :
            /\ irr' = (IF toRed THEN irr ELSE irr \ {c}) \cup
                      (IF Promoted(fromRed, toRed) THEN {d} ELSE {})
            /\ red' = (IF toRed THEN red \ {c} ELSE red) \
                      (IF Promoted(fromRed, toRed) THEN {d} ELSE {})
    BY <1>5 DEF Subsume
  <2>2. PICK d \in Of(fromRed) :
            irr' \subseteq irr \cup {d} /\ red' \subseteq red
    BY <2>1
  <2>3. d \in DB
    BY DEF Of, DB
  <2>4. Kind(d)
    BY <1>0, <2>3 DEF TypeDB
  <2>5. TypeDB'
    BY <1>0, <2>2, <2>4, ClauseAdded
  <2> QED
    BY <2>2, <2>3, <2>5 DEF DB
<1>6. CASE Strengthen
  <2>1. PICK redundant \in BOOLEAN : \E c \in Of(redundant), d \in DB : \E l \in d :
          /\ Subsumable(c, d) /\ -l \in c
          /\ ReplaceBy(c, redundant, {c \ {-l}})
    BY <1>6 DEF Strengthen
  <2>2. PICK c \in Of(redundant), d \in DB : \E l \in d :
          /\ Subsumable(c, d) /\ -l \in c
          /\ ReplaceBy(c, redundant, {c \ {-l}})
    BY <2>1
  <2>3. PICK l \in d : /\ Subsumable(c, d) /\ -l \in c
                       /\ ReplaceBy(c, redundant, {c \ {-l}})
    BY <2>2
  <2> DEFINE k == -l
             r == c \ {k}
             new == {r}
  <2>4. c \in DB /\ Kind(c)
    BY <1>0 DEF TypeDB, Of, DB
  <2>5. c \in Clause /\ Cardinality(c) > 2 /\ Cardinality(c) \in Nat
    BY <2>3, <2>4, Clauses0 DEF Kind, Subsumable
  <2>6. Cardinality(r) > 1 /\ r \in Clause
    <3>1. k \in c
      BY <2>3
    <3> HIDE DEF k
    <3>2. Cardinality(c \ {k}) = Cardinality(c) - 1
      BY <2>5, <3>1, OneLess
    <3>3. c \ {k} \in Clause
      BY <2>5, Clauses0
    <3> QED
      BY <2>5, <3>2, <3>3
  <2>7. Kind(r) /\ Loose(r)
    <3>1. ~IsTautology(r)
      BY <2>4, SubKind DEF Kind
    <3>2. r \in SUBSET c /\ Unassigned(c)
      BY <2>3 DEF Subsumable
    <3> HIDE DEF r
    <3> QED
      BY <2>5, <2>6, <3>1, <3>2, UnassignedLoose DEF Kind
  <2>8. irr' \subseteq irr \cup new /\ red' \subseteq red \cup new
        /\ DB' \subseteq DB \cup new
    <3>1. ReplaceBy(c, redundant, new)
      BY <2>3
    <3> HIDE DEF new
    <3> QED
      BY <3>1, Replaced
  <2> HIDE DEF r
  <2>9. TypeDB'
    BY <1>0, <2>7, <2>8, ClauseAdded
  <2> QED
    BY <2>7, <2>8, <2>9
<1>7. CASE VivifyFlush \/ VivifySatisfied
  <2>1. PICK redundant \in BOOLEAN : \E c \in Of(redundant) :
          ReplaceBy(c, redundant, {})
    BY <1>7 DEF VivifyFlush, VivifySatisfied
  <2>2. PICK c \in Of(redundant) : ReplaceBy(c, redundant, {})
    BY <2>1
  <2>3. irr' \subseteq irr /\ red' \subseteq red /\ DB' \subseteq DB
    BY <2>2, Replaced
  <2> QED
    BY <1>0, <2>3, ClausesFewer
<1> QED
  BY <1>5, <1>6, <1>7

\* Nothing is implied before anything is decided.
LEMMA NothingForced ==
  ASSUME Shapes, pc \in {"vivify", "last"}, marked = {}
  PROVE  /\ Holds = units /\ ~Conflict /\ Forced(gate, Holds) = {}
         /\ \A l \in work : -l \notin Holds
<1>0. /\ TypeDB /\ Settled /\ Consistent /\ VivifyOk
      /\ gate \subseteq DB /\ trail = {} /\ work \subseteq Rest(cand)
  BY DEF Shapes, VivifyOk
<1>1. Holds = units
  BY <1>0 DEF Holds
<1>2. ~unsat /\ \A c \in gate : c \in Clause /\ Loose(c)
  BY <1>0 DEF Settled, Roots, TypeDB, Kind
<1>3. ~Falsified(gate, units) /\ Forced(gate, units) = {}
  BY <1>0, <1>2, LooseQuiet DEF Consistent
<1> QED
  BY <1>0, <1>1, <1>3 DEF Conflict, Rest, False

LEMMA VivifyMoves ==
  ASSUME Shapes, \/ ImplyTrail \/ VivifyDecide \/ VivifyImplied \/ VivifyLast
  PROVE  Shapes'
<1>0. /\ TypeUser /\ TypeDB /\ TypeUnits /\ TypeStack /\ TypeLimits /\ TypePlace
      /\ TypeJob /\ Consistent /\ Settled /\ DB \subseteq Clause /\ VivifyOk
      /\ InstantiateOk
  BY DEF Shapes, TypeDB, Kind
<1>1. /\ pc \in {"vivify", "last", "instantiate"} /\ back' = back
      /\ pc' \in {"vivify", "last", "instantiate"}
      /\ UNCHANGED userVars /\ UNCHANGED dbVars /\ UNCHANGED unitVars
      /\ UNCHANGED <<stackVars, tainted>> /\ UNCHANGED limitVars
      /\ UNCHANGED <<cand, todo, queue, gate, private, reprs, flag>>
  BY DEF ImplyTrail, VivifyDecide, VivifyImplied, VivifyLast, GoTo, markVars
<1>2. /\ TypeUser' /\ TypeDB' /\ TypeUnits' /\ TypeStack' /\ TypeLimits'
      /\ Consistent'
  BY <1>1, Same
<1>3. TypePlace' /\ BackwardOk'
  BY <1>0, <1>1 DEF TypePlace, Places, BackwardOk
<1>4. Settled'
  BY <1>0, <1>1, StaysSettled DEF Roots, unitVars, dbVars, DB
<1>5. /\ DB' = DB /\ Rest(cand)' = Rest(cand) /\ Of(flag)' = Of(flag)
      /\ IsSatisfied(cand)' = IsSatisfied(cand) /\ irr' = irr
  BY <1>1 DEF dbVars, unitVars, DB, Rest, False, Of, IsSatisfied
<1>6. ASSUME pivot' \in Lit \cup {0}, work' \subseteq Lit, trail' \subseteq Lit,
             marked' \subseteq Lit, count' \in Int
      PROVE  TypeJob'
  BY <1>0, <1>1, <1>6 DEF TypeJob
<1>7. CASE ImplyTrail
  <2>1. /\ pc' = pc /\ UNCHANGED <<pivot, work, marked, count>>
        /\ trail' = trail \cup Forced(gate, Holds) /\ Forced(gate, Holds) # {}
    BY <1>7 DEF ImplyTrail
  <2>2. Forced(gate, Holds) \in SUBSET Lit
    BY <1>0, ForcedLits DEF TypeJob
  <2>3. TypeJob'
    BY <1>0, <1>6, <2>1, <2>2 DEF TypeJob
  <2>4. VivifyOk'
    <3> SUFFICES ASSUME pc' \in {"vivify", "last"}
                 PROVE  VivifyOk'
      BY DEF VivifyOk
    <3>1. marked # {}
      BY <2>1, NothingForced
    <3> QED
      BY <1>0, <1>1, <1>5, <2>1, <3>1 DEF VivifyOk
  <2>5. InstantiateOk'
    BY <1>0, <1>1, <1>5, <2>1 DEF InstantiateOk
  <2> QED
    BY <1>2, <1>3, <1>4, <2>3, <2>4, <2>5 DEF Shapes
<1>8. CASE VivifyDecide
  <2>1. pc = "vivify" /\ pc' = "vivify" /\ pivot' = pivot
    BY <1>8 DEF VivifyDecide
  <2>2. PICK l \in work :
          /\ trail' = trail \cup {-l} /\ marked' = marked \cup {-l}
          /\ work' = work \ {l} /\ count' = l
    BY <1>8 DEF VivifyDecide
  <2>3. /\ gate \subseteq DB /\ cand \in Of(flag) /\ ~IsSatisfied(cand)
        /\ work \subseteq Rest(cand) /\ Negated(marked) \subseteq Rest(cand) \ work
        /\ marked = {} => work = Rest(cand)
    BY <1>0, <2>1 DEF VivifyOk
  <2>4. l \in Lit /\ -l \in Lit /\ -(-l) = l /\ l # 0 /\ l \in Int
    BY <1>0, Literals DEF TypeJob
  <2>5. TypeJob'
    BY <1>0, <1>6, <2>1, <2>2, <2>4 DEF TypeJob
  <2>6. Negated(marked') \subseteq Rest(cand) \ work'
    <3>1. Negated(marked') = Negated(marked) \cup {l}
      BY <2>2, <2>4 DEF Negated
    <3> QED
      BY <2>2, <2>3, <3>1
  <2>7. -count' \in marked' /\ (marked' = {-count'} => work' = Rest(cand) \ {count'})
    <3> SUFFICES ASSUME marked' = {-l}
                 PROVE  work' = Rest(cand) \ {l}
      BY <2>2
    <3>1. -l \notin marked
      <4> SUFFICES ASSUME -l \in marked
                   PROVE  FALSE
        OBVIOUS
      <4>1. l \in Negated(marked)
        BY <2>4 DEF Negated
      <4> QED
        BY <2>3, <4>1
    <3>2. marked = {}
      BY <2>2, <3>1
    <3> QED
      BY <2>2, <2>3, <3>2
  <2>8. VivifyOk'
    <3>1. marked' # {} /\ gate' \subseteq DB' /\ cand' \in Of(flag)'
          /\ ~IsSatisfied(cand)' /\ work' \subseteq Rest(cand)'
      BY <1>1, <1>5, <2>2, <2>3
    <3>2. Negated(marked)' \subseteq Rest(cand)' \ work'
      BY <1>5, <2>6 DEF Negated
    <3> QED
      BY <1>5, <2>1, <2>7, <3>1, <3>2 DEF VivifyOk
  <2>9. InstantiateOk'
    BY <2>1 DEF InstantiateOk
  <2> QED
    BY <1>2, <1>3, <1>4, <2>5, <2>8, <2>9 DEF Shapes
<1>9. CASE VivifyImplied
  <2>1. /\ pc = "vivify" /\ pc' = "vivify" /\ count' = 0
        /\ UNCHANGED <<trail, marked>>
    BY <1>9 DEF VivifyImplied, markVars
  <2>2. PICK l \in work : -l \in Holds /\ pivot' = l /\ work' = work \ {l}
    BY <1>9 DEF VivifyImplied
  <2>3. marked # {}
    BY <2>1, <2>2, NothingForced
  <2>4. TypeJob'
    BY <1>0, <1>6, <2>1, <2>2 DEF TypeJob
  <2>5. VivifyOk'
    <3>1. work' \subseteq Rest(cand)
      BY <1>0, <2>1, <2>2 DEF VivifyOk
    <3>2. Negated(marked)' \subseteq Rest(cand) \ work'
      BY <1>0, <2>1, <2>2 DEF VivifyOk, Negated
    <3> QED
      BY <1>0, <1>1, <1>5, <2>1, <2>3, <3>1, <3>2 DEF VivifyOk
  <2>6. InstantiateOk'
    BY <2>1 DEF InstantiateOk
  <2> QED
    BY <1>2, <1>3, <1>4, <2>4, <2>5, <2>6 DEF Shapes
<1>10. CASE VivifyLast
  <2>1. /\ pc = "vivify" /\ pc' = "last" /\ work = {} /\ count # 0
        /\ trail' = (marked \ {-count}) \cup {count}
        /\ UNCHANGED <<pivot, work, marked, count>>
    BY <1>10 DEF VivifyLast, GoTo
  <2>2. -count \in marked /\ count \in Int
    BY <1>0, <2>1 DEF VivifyOk, TypeJob
  <2>3. count \in Lit
    <3>1. -count \in Lit
      BY <1>0, <2>2 DEF TypeJob
    <3>2. -(-count) \in Lit
      BY <3>1, Literals
    <3> QED
      BY <2>2, <3>2
  <2>4. TypeJob'
    BY <1>0, <1>6, <2>1, <2>3 DEF TypeJob
  <2>5. VivifyOk'
    <3>1. Negated(marked)' = Negated(marked)
      BY <2>1 DEF Negated
    <3> QED
      BY <1>0, <1>1, <1>5, <2>1, <2>2, <3>1 DEF VivifyOk
  <2>6. InstantiateOk'
    BY <2>1 DEF InstantiateOk
  <2> QED
    BY <1>2, <1>3, <1>4, <2>4, <2>5, <2>6 DEF Shapes
<1> QED
  BY <1>7, <1>8, <1>9, <1>10

\* What is found to be implied.
LEMMA FoundLiteral ==
  ASSUME NEW l \in Found
  PROVE  \/ l = 0 /\ Conflict
         \/ l \in work /\ l \in Holds
<1>1. CASE Conflict
  BY <1>1 DEF Found
<1>2. CASE ~Conflict
  BY <1>2 DEF Found
<1> QED
  BY <1>1, <1>2

\* A clause of some literals of the candidate replaces it.
LEMMA StrengthenShapes ==
  ASSUME Shapes, pc \in {"vivify", "last"}, NEW r,
         r = cand \/ r \subseteq Rest(cand), r # {}, VivifyStrengthen(r)
  PROVE  Shapes'
<1>0. /\ TypeDB /\ TypeUnits /\ Consistent /\ VivifyOk /\ Settled
  BY DEF Shapes
<1>1. cand \in DB /\ Kind(cand)
  BY <1>0 DEF VivifyOk, Of, DB, TypeDB
<1>2. r \subseteq cand /\ r \in Clause /\ ~IsTautology(r) /\ r \in SUBSET Lit
      /\ Cardinality(r) \in Nat /\ Cardinality(r) # 0
  <2>1. cand \in Clause /\ Rest(cand) \subseteq cand
    BY <1>1, Clauses0 DEF Kind
  <2>2. r \subseteq cand
    BY <2>1
  <2>3. r \in Clause
    BY <2>1, <2>2, Fewer
  <2> QED
    BY <1>1, <2>2, <2>3, SubKind, Clauses0 DEF Kind
<1> DEFINE ls == IF Cardinality(r) = 1 THEN r ELSE {}
           none == FALSE
           new == IF Cardinality(r) = 1 THEN {} ELSE {r}
<1>3. /\ Assign(ls, none) /\ ReplaceBy(cand, flag, new) /\ NoJob
      /\ pc' = "propagate" /\ back' = "simplify" /\ UNCHANGED userVars
      /\ UNCHANGED <<stackVars, tainted>> /\ UNCHANGED limitVars
  BY DEF VivifyStrengthen, PropagateThen
<1>4. ls \in SUBSET Lit /\ none \in BOOLEAN
  BY <1>2
<1>5. TypeDB'
  <2>1. \A c \in new : Kind(c)
    BY <1>2 DEF Kind
  <2> HIDE DEF new
  <2>2. irr' \subseteq irr \cup new /\ red' \subseteq red \cup new
    BY <1>3, Replaced
  <2> QED
    BY <1>0, <2>1, <2>2, ClausesKept
<1>6. TypeUnits' /\ Consistent'
  <2> HIDE DEF ls, none
  <2> QED
    BY <1>0, <1>3, <1>4, UnitsAssigned
<1>7. TypeLimits' /\ TypeJob'
  BY <1>3, Same, Emptied
<1> QED
  BY <1>3, <1>5, <1>6, <1>7, Propagates

\* The decisions, and the literals found to be implied, are of the candidate.
LEMMA LearnedLiterals ==
  ASSUME Shapes, pc = "vivify", NEW l \in Found, NEW needed \in SUBSET marked
  PROVE  Negated(needed) \cup ({l} \ {0}) \subseteq Rest(cand)
<1>1. work \subseteq Rest(cand) /\ Negated(marked) \subseteq Rest(cand)
  BY DEF Shapes, VivifyOk
<1>2. Negated(needed) \subseteq Negated(marked)
  BY DEF Negated
<1> QED
  BY <1>1, <1>2, FoundLiteral

\* Not all literals of the candidate are removed.
LEMMA SomeDecision ==
  ASSUME Shapes,
         \/ pc = "vivify" /\ work = {} /\ count = 0 /\ pivot # 0
         \/ pc = "last"
  PROVE  Negated(marked) \
         (IF pc = "last" /\ Conflict THEN {count} ELSE {}) # {}
<1>0. /\ TypeDB /\ VivifyOk /\ Settled /\ TypeJob
  BY DEF Shapes
<1>1. marked # {} => Negated(marked) # {}
  BY DEF Negated
<1>2. CASE pc = "vivify"
  BY <1>0, <1>1, <1>2 DEF VivifyOk
<1>3. CASE pc = "last" /\ ~Conflict
  BY <1>0, <1>1, <1>3 DEF VivifyOk
<1>4. CASE pc = "last" /\ Conflict
  <2>1. /\ -count \in marked /\ (marked = {-count} => Rest(cand) = {count})
        /\ cand \in DB /\ ~IsSatisfied(cand) /\ count \in Int
        /\ Negated(marked) \subseteq Rest(cand)
    <3>1. /\ -count \in marked
          /\ (marked = {-count} => {} = Rest(cand) \ {count})
          /\ cand \in Of(flag) /\ ~IsSatisfied(cand)
          /\ Negated(marked) \subseteq Rest(cand)
      BY <1>0, <1>4 DEF VivifyOk
    <3>2. count \in Int /\ marked \subseteq Lit
      BY <1>0 DEF TypeJob
    <3>3. count \in Negated(marked)
      <4>1. -(-count) \in Negated(marked)
        BY <3>1 DEF Negated
      <4> QED
        BY <3>2, <4>1
    <3>4. cand \in DB
      BY <3>1 DEF Of, DB
    <3>5. marked = {-count} => Rest(cand) = {count}
      BY <3>1, <3>3
    <3> QED
      BY <3>1, <3>2, <3>4, <3>5
  <2>2. cand \in Clause /\ Rest(cand) \in Clause /\ Cardinality(Rest(cand)) > 1
    <3>1. cand \in Clause
      BY <1>0, <2>1 DEF TypeDB, Kind
    <3>2. Loose(cand)
      BY <1>0, <1>4, <2>1 DEF Settled, Roots
    <3> QED
      BY <2>1, <3>1, <3>2, Clauses0 DEF Loose
  <2>3. ASSUME Negated(marked) \subseteq {count}
        PROVE  FALSE
    <3>1. \A k \in marked : k = -count
      <4> SUFFICES ASSUME NEW k \in marked
                   PROVE  k = -count
        OBVIOUS
      <4>1. k \in Int /\ -k \in Negated(marked)
        BY <1>0, Literals DEF TypeJob, Negated
      <4>2. -k = count
        BY <2>3, <4>1
      <4> QED
        BY <2>1, <4>1, <4>2
    <3>2. Rest(cand) = {count}
      BY <2>1, <3>1
    <3>3. Cardinality(Rest(cand)) = 1
      BY <3>2, FS_Singleton
    <3> QED
      BY <2>2, <3>3
  <2> QED
    BY <1>4, <2>3
<1> QED
  BY <1>2, <1>3, <1>4

LEMMA VivifyShapes ==
  ASSUME Shapes, Rested, \/ StartVivify \/ VivifySubsume \/ VivifyLearn
                         \/ VivifyRemove \/ VivifyKeep
  PROVE  Shapes'
<1>0. /\ TypeUser /\ TypeDB /\ TypeUnits /\ TypeStack /\ TypeLimits /\ TypePlace
      /\ TypeJob /\ Consistent /\ Settled /\ DB \subseteq Clause /\ VivifyOk
      /\ status \in [Var -> Statuses]
  BY DEF Shapes, TypeDB, Kind, TypeUnits
<1>1. CASE StartVivify
  <2>1. /\ pc = "simplify" /\ pc' = "vivify" /\ back' = back /\ rounds > 0
        /\ rounds' = rounds - 1 /\ learned' = learned /\ bound' = bound
        /\ UNCHANGED userVars /\ UNCHANGED dbVars /\ UNCHANGED unitVars
        /\ UNCHANGED <<stackVars, tainted>>
        /\ UNCHANGED <<pivot, todo, queue, trail, marked, private, reprs, count>>
    BY <1>1 DEF StartVivify, Start, GoTo, markVars
  <2>2. PICK redundant \in BOOLEAN : \E c \in Of(redundant) :
          /\ ~IsSatisfied(c) /\ cand' = c /\ flag' = redundant
          /\ gate' = Watched(c, redundant) /\ work' = Rest(c)
    BY <1>1 DEF StartVivify
  <2>3. PICK c \in Of(redundant) :
          /\ ~IsSatisfied(c) /\ cand' = c /\ flag' = redundant
          /\ gate' = Watched(c, redundant) /\ work' = Rest(c)
    BY <2>2
  <2>4. c \in DB /\ gate' \subseteq DB
    BY <2>3 DEF Of, DB, Watched
  <2>5. c \in Clause /\ Rest(c) \subseteq Lit
    BY <1>0, <2>4, Clauses0 DEF Clause
  <2>6. TypeJob'
    BY <1>0, <2>1, <2>3, <2>4, <2>5 DEF TypeJob
  <2>7. /\ DB' = DB /\ Of(flag)' = Of(redundant) /\ Rest(cand)' = Rest(c)
        /\ IsSatisfied(cand)' = IsSatisfied(c)
    BY <2>1, <2>3 DEF dbVars, DB, unitVars, Of, Rest, False, IsSatisfied
  <2>8. marked' = {} /\ trail' = {} /\ pivot' = 0 /\ count' = 0
    BY <2>1 DEF Rested, Between2, NoneOpen, Counting
  <2>9. VivifyOk'
    <3>1. Negated(marked)' = {}
      BY <2>8 DEF Negated
    <3> QED
      BY <2>1, <2>3, <2>4, <2>7, <2>8, <3>1 DEF VivifyOk
  <2>10. TypeLimits' /\ TypePlace'
    BY <1>0, <2>1 DEF TypeLimits, TypePlace, Places
  <2>11. TypeUser' /\ TypeDB' /\ TypeUnits' /\ TypeStack' /\ Consistent'
    BY <2>1, Same
  <2>12. Settled'
    BY <1>0, <2>1, <2>7, StaysSettled DEF Roots, unitVars
  <2>13. BackwardOk' /\ InstantiateOk'
    BY <2>1 DEF BackwardOk, InstantiateOk
  <2> QED
    BY <2>6, <2>9, <2>10, <2>11, <2>12, <2>13 DEF Shapes
<1>2. CASE VivifySubsume \/ VivifyKeep
  <2>1. /\ pc \in {"vivify", "last"} /\ pc' = "simplify" /\ back' = back /\ NoJob
        /\ UNCHANGED userVars /\ UNCHANGED unitVars
        /\ UNCHANGED <<stackVars, tainted>> /\ UNCHANGED limitVars
    BY <1>2 DEF VivifySubsume, VivifyKeep, GoTo
  <2>2. irr' \subseteq irr /\ red' \subseteq red
    <3>1. ReplaceBy(cand, flag, {}) \/ UNCHANGED dbVars
      BY <1>2 DEF VivifySubsume, VivifyKeep
    <3> QED
      BY <3>1 DEF ReplaceBy, dbVars
  <2>3. TypeStack' /\ TypeJob'
    BY <2>1, Same, Emptied
  <2> QED
    BY <1>0, <2>1, <2>2, <2>3, StaysRoot DEF Roots, unitVars
<1>3. CASE VivifyLearn
  <2>1. PICK l \in Found, needed \in SUBSET marked :
          LET r == Negated(needed) \cup ({l} \ {0})
          IN r # {} /\ VivifyStrengthen(IF r = Rest(cand) THEN cand ELSE r)
    BY <1>3 DEF VivifyLearn
  <2> DEFINE r == Negated(needed) \cup ({l} \ {0})
             s == IF r = Rest(cand) THEN cand ELSE r
  <2>2. pc = "vivify"
    BY <1>3 DEF VivifyLearn
  <2>3. r \subseteq Rest(cand)
    BY <2>2, LearnedLiterals
  <2>4. s = cand \/ s \subseteq Rest(cand)
    BY <2>3
  <2>5. s # {} /\ VivifyStrengthen(s)
    BY <2>1 DEF Rest
  <2> HIDE DEF s
  <2> QED
    BY <2>2, <2>4, <2>5, StrengthenShapes
<1>4. CASE VivifyRemove
  <2> DEFINE s == Negated(marked) \
                  (IF pc = "last" /\ Conflict THEN {count} ELSE {})
  <2>1. /\ \/ pc = "vivify" /\ work = {} /\ count = 0 /\ pivot # 0
           \/ pc = "last"
        /\ VivifyStrengthen(s)
    BY <1>4 DEF VivifyRemove
  <2>2. s # {}
    BY <2>1, SomeDecision
  <2>3. s \subseteq Rest(cand)
    BY <1>0, <2>1 DEF VivifyOk
  <2>4. pc \in {"vivify", "last"}
    BY <2>1
  <2> HIDE DEF s
  <2> QED
    BY <2>1, <2>2, <2>3, <2>4, StrengthenShapes
<1> QED
  BY <1>1, <1>2, <1>3, <1>4

LEMMA InstantiateShapes ==
  ASSUME Shapes, Instantiate \/ Instantiated
  PROVE  Shapes'
<1>0. /\ TypeUser /\ TypeDB /\ TypeUnits /\ TypeStack /\ TypeLimits /\ TypePlace
      /\ TypeJob /\ Consistent /\ Settled /\ DB \subseteq Clause
      /\ InstantiateOk
  BY DEF Shapes, TypeDB, Kind, TypeUnits
<1>1. CASE Instantiate
  <2>1. /\ pc = "simplify" /\ pc' = "instantiate" /\ back' = back /\ rounds > 0
        /\ rounds' = rounds - 1 /\ learned' = learned /\ bound' = bound
        /\ UNCHANGED userVars /\ UNCHANGED dbVars /\ UNCHANGED unitVars
        /\ UNCHANGED <<stackVars, tainted>>
        /\ UNCHANGED <<todo, queue, work, marked, private, reprs, count, flag>>
    BY <1>1 DEF Instantiate, Start, GoTo
  <2>2. PICK c \in irr : \E l \in c :
          /\ Cardinality(Rest(c)) > 2
          /\ cand' = c /\ pivot' = l /\ gate' = DB
          /\ trail' = {l} \cup Negated(Rest(c) \ {l})
    BY <1>1 DEF Instantiate
  <2>3. PICK l \in c :
          /\ Cardinality(Rest(c)) > 2
          /\ cand' = c /\ pivot' = l /\ gate' = DB
          /\ trail' = {l} \cup Negated(Rest(c) \ {l})
    BY <2>2
  <2>4. c \in Clause /\ l \in Lit /\ Negated(Rest(c) \ {l}) \subseteq Lit
    <3>1. c \in Clause /\ l \in Lit
      BY <1>0, Clauses0 DEF DB
    <3>2. Negated(c) \subseteq Lit /\ Rest(c) \ {l} \subseteq c
      BY <3>1, Clauses0 DEF Clause
    <3> QED
      BY <3>1, <3>2 DEF Negated
  <2>5. TypeJob'
    BY <1>0, <2>1, <2>3, <2>4 DEF TypeJob
  <2>6. Rest(cand)' = Rest(c) /\ irr' = irr /\ DB' = DB
    BY <2>1, <2>3 DEF unitVars, dbVars, Rest, False, DB
  <2>7. InstantiateOk' /\ BackwardOk' /\ VivifyOk'
    BY <2>1, <2>3, <2>6 DEF InstantiateOk, BackwardOk, VivifyOk
  <2>8. TypeLimits' /\ TypePlace'
    BY <1>0, <2>1 DEF TypeLimits, TypePlace, Places
  <2>9. TypeUser' /\ TypeDB' /\ TypeUnits' /\ TypeStack' /\ Consistent'
    BY <2>1, Same
  <2>10. Settled'
    BY <1>0, <2>1, <2>6, StaysSettled DEF Roots, unitVars
  <2> QED
    BY <2>5, <2>7, <2>8, <2>9, <2>10 DEF Shapes
<1>2. CASE Instantiated
  <2>1. /\ pc = "instantiate" /\ pc' = "simplify" /\ back' = back /\ NoJob
        /\ red' = red /\ irr' \subseteq irr \cup {cand \ {pivot}}
        /\ UNCHANGED userVars /\ UNCHANGED unitVars
        /\ UNCHANGED <<stackVars, tainted>> /\ UNCHANGED limitVars
    BY <1>2 DEF Instantiated, GoTo
  <2> DEFINE r == cand \ {pivot}
  <2>2. cand \in DB /\ Kind(cand) /\ Cardinality(Rest(cand)) > 2
    BY <1>0, <2>1 DEF InstantiateOk, DB, TypeDB
  <2>3. cand \in Clause /\ Rest(cand) \in Clause /\ r \in Clause
        /\ Cardinality(r) \in Nat
    BY <2>2, Clauses0 DEF Kind
  <2>4. Rest(r) = Rest(cand) \ {pivot}
    BY DEF Rest
  <2>5. Cardinality(Rest(r)) > 1 /\ Cardinality(Rest(r)) <= Cardinality(r)
        /\ Cardinality(Rest(r)) \in Nat
    <3>1. Rest(r) \in Clause /\ Rest(r) \subseteq r
          /\ Cardinality(Rest(r)) \in Nat
      <4> HIDE DEF r
      <4> QED
        BY <2>3, Clauses0
    <3>2. Cardinality(Rest(r)) <= Cardinality(r)
      <4> HIDE DEF r
      <4> QED
        BY <2>3, <3>1, Fewer
    <3>3. CASE pivot \in Rest(cand)
      <4>1. Cardinality(Rest(cand) \ {pivot}) = Cardinality(Rest(cand)) - 1
        BY <2>3, <3>3, OneLess
      <4>2. Cardinality(Rest(cand)) \in Nat
        BY <2>3, Clauses0
      <4> QED
        BY <2>2, <2>4, <3>1, <3>2, <4>1, <4>2
    <3>4. CASE pivot \notin Rest(cand)
      <4>1. Rest(r) = Rest(cand)
        BY <2>4, <3>4
      <4> QED
        BY <2>2, <3>1, <3>2, <4>1
    <3> QED
      BY <3>3, <3>4
  <2>6. Kind(r) /\ Loose(r)
    <3>1. ~IsTautology(r)
      BY <2>2, SubKind DEF Kind
    <3> QED
      BY <2>3, <2>5, <3>1 DEF Kind, Loose
  <2> HIDE DEF r
  <2>7. irr' \subseteq irr \cup {r} /\ red' \subseteq red \cup {r}
    BY <2>1 DEF r
  <2>8. TypeDB'
    BY <1>0, <2>6, <2>7, ClauseAdded
  <2>9. \A c \in DB' : c \in DB \/ Loose(c)
    BY <2>6, <2>7 DEF DB
  <2>10. TypeJob'
    BY <2>1, Emptied
  <2> QED
    BY <2>1, <2>8, <2>9, <2>10, StaysLoose DEF Roots
<1> QED
  BY <1>1, <1>2

LEMMA StrengthensShapes ==
  ASSUME Shapes, Rested, Strengthens
  PROVE  Shapes'
  BY SubsumeShapes, VivifyMoves, VivifyShapes, InstantiateShapes DEF Strengthens

-----------------------------------------------------------------------------
(* Between the techniques no job is open. *)

LEMMA JobClosed == ASSUME NoJob PROVE Rested'
  BY Zenon DEF NoJob, Rested, NoneOpen

LEMMA JobElsewhere == ASSUME ~Between2' PROVE Rested'
  BY Zenon DEF Rested

LEMMA JobUntouched ==
  ASSUME Rested, Between2, UNCHANGED jobVars, Counting => Counting'
  PROVE  Rested'
<1>1. NoneOpen'
  BY Zenon DEF Rested, NoneOpen, jobVars, markVars
<1>2. ~Counting' => count' = 0
  BY Zenon DEF Rested, jobVars
<1> QED
  BY <1>1, <1>2, Zenon DEF Rested

LEMMA RestedExternal ==
  ASSUME Rested, back \in Backs, External
  PROVE  Rested'
<1>1. CASE Add \/ Assume \/ Freeze \/ Melt \/ Solve \/ Steady \/ Learn
           \/ Collect \/ Answer
  <2>1. pc \in {"user", "answered", "simplify"} /\ UNCHANGED jobVars
    BY <1>1, Zenon DEF Add, Assume, Freeze, Melt, Solve, Steady, Learn, Collect,
                       Answer, IsCall
  <2>2. Between2 /\ ~Counting
    BY <2>1 DEF Between2, Counting
  <2> QED
    BY <2>1, <2>2, JobUntouched
<1>2. CASE RestoreFlush \/ RestoreClause
  <2>1. /\ pc = "restore" /\ UNCHANGED jobVars
        /\ pc' = "restore" \/ (pc' = "propagate" /\ back' = "restore")
    BY <1>2, Zenon DEF RestoreFlush, RestoreClause, Restoring, AddOriginal,
                       GoTo, PropagateThen
  <2>2. Between2 /\ Counting'
    BY <2>1 DEF Between2, Counting
  <2> QED
    BY <2>1, <2>2, JobUntouched
<1>3. CASE RestoreKeep
  <2>1. /\ pc = "restore" /\ pc' = "restore"
        /\ UNCHANGED <<pivot, cand, todo, queue, gate, work, markVars, flag>>
    BY <1>3 DEF RestoreKeep, Restoring
  <2> QED
    BY <2>1 DEF Rested, Between2, NoneOpen, Counting, markVars
<1>4. CASE Restored
  <2>1. /\ pc = "restore" /\ count' = 0
        /\ UNCHANGED <<pivot, cand, todo, queue, gate, work, markVars, flag>>
    BY <1>4 DEF Restored
  <2> QED
    BY <2>1 DEF Rested, Between2, NoneOpen, Counting, markVars
<1>5. CASE Propagate
  <2>1. pc = "propagate" /\ UNCHANGED <<pc, back>> /\ UNCHANGED jobVars
    BY <1>5 DEF Propagate
  <2>2. CASE Between2
    BY <2>1, <2>2, JobUntouched DEF Counting
  <2>3. CASE ~Between2
    BY <2>1, <2>3, JobElsewhere DEF Between2
  <2> QED
    BY <2>2, <2>3
<1>6. CASE Propagated
  <2>1. /\ pc = "propagate" /\ UNCHANGED back /\ UNCHANGED jobVars
        /\ pc' = back \/ (back = "simplify" /\ pc' = "answered")
    BY <1>6, Zenon DEF Propagated
  <2>2. CASE back = "substituted"
    BY <2>1, <2>2, JobElsewhere DEF Between2
  <2>3. CASE back # "substituted"
    <3>1. Between2 /\ (Counting => Counting')
      BY <2>1, <2>3 DEF Between2, Counting
    <3> QED
      BY <2>1, <3>1, JobUntouched
  <2> QED
    BY <2>2, <2>3
<1> QED
  BY <1>1, <1>2, <1>3, <1>4, <1>5, <1>6 DEF External

LEMMA RestedEliminating ==
  ASSUME Rested, Eliminating
  PROVE  Rested'
<1>1. CASE StartElim \/ ElimRoundDone \/ NextElimRound \/ IncreaseBound
  <2>1. pc \in {"simplify", "elim"} /\ UNCHANGED jobVars
    BY <1>1, Zenon DEF StartElim, ElimRoundDone, NextElimRound, IncreaseBound,
                       Start
  <2>2. Between2 /\ ~Counting
    BY <2>1 DEF Between2, Counting
  <2> QED
    BY <2>1, <2>2, JobUntouched
<1>2. CASE Tried
  BY <1>2, JobClosed DEF Tried
<1>3. CASE \/ Try \/ ElimPropagate \/ FindUnit \/ FindGarbage
           \/ GatesFound \/ (\E where \in {"bounded", "add"} :
                ResolveNothing(where) \/ ResolveUnit(where)
                  \/ ResolveStrengthen(where))
           \/ CountResolvent \/ Bounded \/ GiveUp \/ AddResolvent \/ Weaken
           \/ Eliminate
  <2>1. pc' \in {"gates", "bounded", "add", "backward"}
    BY <1>3 DEF Try, ElimPropagate, FindUnit, FindGarbage, GatesFound,
         ResolveNothing, ResolveUnit, ResolveStrengthen, CountResolvent,
         Bounded, GiveUp, AddResolvent, Weaken, Eliminate, Finding, Resolving,
         GoTo
  <2> QED
    BY <2>1, JobElsewhere DEF Between2
<1>4. CASE Dequeue \/ BackwardSatisfied \/ BackwardSkip
           \/ BackwardSubsume \/ BackwardStrengthen \/ BackwardPass
  <2>1. pc' = "backward"
    BY <1>4 DEF Dequeue, BackwardSatisfied, BackwardSkip, BackwardSubsume,
         BackwardStrengthen, BackwardPass, Comparing
  <2> QED
    BY <2>1, JobElsewhere DEF Between2
<1> QED
  BY <1>1, <1>2, <1>3, <1>4 DEF Eliminating

LEMMA RestedBlocks ==
  ASSUME Rested, Blocks
  PROVE  Rested'
<1>1. CASE BlockDone \/ RoundDone
  BY <1>1, JobClosed DEF BlockDone, RoundDone
<1>2. CASE \/ StartBlock \/ BlockLiteral \/ BlockClause \/ LiteralBlocked
           \/ StartCover \/ CoverClause \/ CoverAsymmetric \/ CoverLiteral
           \/ ClauseCovered
  <2>1. pc' \in {"block", "blocking", "cover", "covering", "covered"}
    BY <1>2, Zenon DEF StartBlock, BlockLiteral, BlockClause, LiteralBlocked,
         StartCover, CoverClause, CoverAsymmetric, CoverLiteral, ClauseCovered,
         GoTo
  <2> QED
    BY <2>1, JobElsewhere DEF Between2
<1>3. CASE \/ StartCondition \/ ConditionClause \/ ConditionUnassign
           \/ ConditionDone
  <2>1. pc' \in {"condition", "conditioning"}
    BY <1>3, Zenon DEF StartCondition, ConditionClause, ConditionUnassign,
         ConditionDone, GoTo
  <2> QED
    BY <2>1, JobElsewhere DEF Between2
<1> QED
  BY <1>1, <1>2, <1>3 DEF Blocks

LEMMA RestedStart1 ==
  ASSUME Rested, NEW technique, Start1(technique)
  PROVE  Rested'
<1>1. pc = "simplify" /\ UNCHANGED jobVars
  BY DEF Start1, Start
<1>2. Between2 /\ ~Counting
  BY <1>1 DEF Between2, Counting
<1> QED
  BY <1>1, <1>2, JobUntouched

LEMMA RestedReduces ==
  ASSUME Rested, Reduces
  PROVE  Rested'
<1>1. CASE Substituted \/ FailedLiteral \/ Probed
  BY <1>1, JobClosed DEF Substituted, FailedLiteral, Probed
<1>2. CASE Contradiction
  <2>1. Start1("decompose")
    BY <1>2 DEF Contradiction, Start1
  <2> QED
    BY <2>1, RestedStart1
<1>3. CASE Ternary \/ Deduplicate \/ HyperUnary \/ Transitive
           \/ TransitiveFailed
  BY <1>3, RestedStart1, Zenon DEF Ternary, Deduplicate, HyperUnary, Transitive,
                                   TransitiveFailed
<1>4. CASE StartDecompose \/ PushEquivalence \/ SubstituteClause
           \/ StartProbe \/ ProbeBinary \/ ProbeLong
  <2>1. pc' \in {"represent", "probe"}
    BY <1>4, Zenon DEF StartDecompose, PushEquivalence, SubstituteClause,
         StartProbe, ProbeBinary, ProbeLong, Probing, GoTo
  <2> QED
    BY <2>1, JobElsewhere DEF Between2
<1>5. CASE ClausesSubstituted
  <2>1. pc' = "propagate" /\ back' = "substituted"
    BY <1>5 DEF ClausesSubstituted, PropagateThen
  <2> QED
    BY <2>1, JobElsewhere DEF Between2
<1> QED
  BY <1>1, <1>2, <1>3, <1>4, <1>5 DEF Reduces

LEMMA RestedStrengthens ==
  ASSUME Rested, Strengthens
  PROVE  Rested'
<1>1. CASE VivifySubsume \/ VivifyKeep \/ Instantiated
  BY <1>1, JobClosed DEF VivifySubsume, VivifyKeep, Instantiated
<1>2. CASE VivifyLearn \/ VivifyRemove
  BY <1>2, JobClosed, Zenon DEF VivifyLearn, VivifyRemove, VivifyStrengthen
<1>3. CASE Subsume \/ Strengthen \/ VivifyFlush \/ VivifySatisfied
  BY <1>3, RestedStart1, Zenon DEF Subsume, Strengthen, VivifyFlush,
                                   VivifySatisfied
<1>4. CASE StartVivify \/ ImplyTrail \/ VivifyDecide \/ VivifyImplied
           \/ VivifyLast \/ Instantiate
  <2>1. pc' \in {"vivify", "last", "instantiate"}
    BY <1>4, Zenon DEF StartVivify, ImplyTrail, VivifyDecide, VivifyImplied,
         VivifyLast, Instantiate, GoTo
  <2> QED
    BY <2>1, JobElsewhere DEF Between2
<1> QED
  BY <1>1, <1>2, <1>3, <1>4 DEF Strengthens

-----------------------------------------------------------------------------
(* The types. *)

DInv == IInv /\ Rested /\ Shapes

LEMMA ShapesStart == Init => Rested /\ Shapes
<1> SUFFICES ASSUME Init PROVE Rested /\ Shapes
  OBVIOUS
<1>1. TypeUser
  <2>1. script \in Seq(Calls) /\ opts \in Options
    BY ScriptAssumption DEF Init
  <2>2. may = {} /\ original = {} /\ frozen = [v \in Var |-> 0] /\ assumed = {}
    BY DEF Init
  <2> QED
    BY <2>1, <2>2 DEF TypeUser
<1>2. DB = {}
  BY DEF Init, DB
<1>3. TypeDB
  BY <1>2 DEF TypeDB
<1>4. TypeUnits /\ Consistent
  <2>1. units = {} /\ unsat = FALSE /\ status = [v \in Var |-> "unused"]
    BY DEF Init
  <2> QED
    BY <2>1 DEF TypeUnits, Consistent, Statuses
<1>5. TypeStack
  <2>1. extension = <<>> /\ witness = {} /\ tainted = {}
    BY DEF Init
  <2> QED
    BY <2>1 DEF TypeStack
<1>6. TypeLimits
  BY DEF Init, TypeLimits
<1>7. pc = "user" /\ back = "user"
  BY DEF Init
<1>8. /\ pivot = 0 /\ cand = {} /\ todo = {} /\ queue = {} /\ gate = {}
      /\ work = {} /\ trail = {} /\ marked = {} /\ private = <<>>
      /\ reprs = [l \in Lit |-> l] /\ count = 0 /\ flag = FALSE
  BY Zenon DEF Init
<1>9. TypeJob
  <2>1. reprs \in [Lit -> Lit] /\ private \in Seq(Entries)
    BY <1>8
  <2>2. pivot \in Lit \cup {0} /\ cand \in Clause /\ count \in Int
    BY <1>8 DEF Clause
  <2> QED
    BY <1>8, <2>1, <2>2, Zenon DEF TypeJob
<1>10. TypePlace /\ Settled /\ BackwardOk /\ VivifyOk /\ InstantiateOk
  BY <1>7 DEF TypePlace, Places, Settled, Roots, BackwardOk, VivifyOk,
              InstantiateOk
<1>11. Rested
  BY <1>8 DEF Rested, NoneOpen
<1> QED
  BY <1>1, <1>3, <1>4, <1>5, <1>6, <1>9, <1>10, <1>11 DEF Shapes

LEMMA ShapesStep ==
  ASSUME DInv, [Next]_vars
  PROVE  DInv'
<1>0. /\ IInv /\ Rested /\ Shapes /\ back \in Backs /\ PivotFree
      /\ pc = "restore" => count \in Nat
  BY DEF DInv, IInv, JobInv, Clean
<1>1. IInv'
  BY <1>0, NextStep
<1>2. CASE Next
  <2>1. CASE External
    <3>1. Rested'
      BY <1>0, <2>1, RestedExternal
    <3>2. CASE Add \/ Assume \/ Freeze \/ Melt \/ Solve \/ Steady
      BY <1>0, <1>1, <3>1, <3>2, UserShapes DEF DInv
    <3>3. CASE RestoreFlush \/ RestoreClause \/ RestoreKeep \/ Restored
      <4>1. pc = "restore"
        BY <3>3 DEF RestoreFlush, RestoreClause, RestoreKeep, Restored,
                    Restoring
      <4> QED
        BY <1>0, <1>1, <3>1, <3>3, <4>1, RestoreShapes DEF DInv
    <3>4. CASE Propagate \/ Propagated
      BY <1>0, <1>1, <3>1, <3>4, PropagateShapes DEF DInv
    <3>5. CASE Learn \/ Collect \/ Answer
      BY <1>0, <1>1, <3>1, <3>5, SearchShapes DEF DInv
    <3> QED
      BY <2>1, <3>2, <3>3, <3>4, <3>5 DEF External
  <2>2. CASE Eliminating
    BY <1>0, <1>1, <2>2, EliminatingShapes, RestedEliminating DEF DInv
  <2>3. CASE Blocks
    BY <1>0, <1>1, <2>3, BlocksShapes, RestedBlocks DEF DInv
  <2>4. CASE Reduces
    BY <1>0, <1>1, <2>4, ReducesShapes, RestedReduces DEF DInv
  <2>5. CASE Strengthens
    BY <1>0, <1>1, <2>5, StrengthensShapes, RestedStrengthens DEF DInv
  <2> QED
    BY <1>2, <2>1, <2>2, <2>3, <2>4, <2>5 DEF Next
<1>3. CASE UNCHANGED vars
  <2>1. /\ UNCHANGED <<userVars, dbVars, unitVars, stackVars, tainted,
                       limitVars, pc, back>>
        /\ UNCHANGED jobVars
    BY <1>3, Zenon DEF vars
  <2>2. Rested'
    BY <1>0, <2>1, Zenon DEF Rested, Between2, Counting, NoneOpen, jobVars,
                             markVars
  <2>3. /\ TypeUser' /\ TypeDB' /\ TypeUnits' /\ Consistent' /\ TypeStack'
        /\ TypeLimits' /\ TypePlace' /\ TypeJob'
    BY <1>0, <2>1, Same
  <2>4. Settled' /\ BackwardOk' /\ VivifyOk' /\ InstantiateOk'
    BY <1>0, <2>1, Zenon DEF Shapes, Settled, Roots, BackwardOk, VivifyOk,
         InstantiateOk, Loose, IsSatisfied, Rest, False, DB, Of, Negated,
         unitVars, dbVars, jobVars, markVars
  <2> QED
    BY <1>1, <2>2, <2>3, <2>4 DEF DInv, Shapes
<1> QED
  BY <1>2, <1>3

(* The inprocessing keeps its types: no technique leaves a clause of the
   database that is a unit, empty or a tautology, and the assignments and
   representatives it works with are of the literals there are. *)
THEOREM InprocessingTyped == Spec => []TypeOK
<1>1. Init => DInv
  BY Start0, ShapesStart DEF DInv
<1>2. DInv /\ [Next]_vars => DInv'
  BY ShapesStep
<1>3. DInv => TypeOK
  BY ShapesType DEF DInv
<1> QED
  BY <1>1, <1>2, <1>3, PTL DEF Spec

-----------------------------------------------------------------------------
(* What is derived.  A total assignment is the set of its true literals; it
   satisfies a clause if it has a literal of it. *)

Assignments == {T \in SUBSET Lit : \A l \in Lit : -l \in T <=> l \notin T}

Base(T) == ~unsat /\ units \subseteq T /\ \A c \in DB : c \cap T # {}
Removed(T) == \A i \in DOMAIN extension : extension[i].clause \cap T # {}
\* The clauses a technique holds, and the representatives.
Held(T) ==
  /\ \A c \in queue \cup gate : c \cap T # {}
  /\ cand # {} => cand \cap T # {}
  /\ \A i \in DOMAIN private : private[i].clause \cap T # {}
  /\ pc \in {"covering", "covered"} => marked \cap T # {}
  /\ \A l \in Lit : reprs[l] \in T <=> l \in T
\* What follows from the decisions of vivification and instantiation.
Decided(T) ==
  /\ pc = "vivify" /\ marked \subseteq T => trail \subseteq T
  /\ pc \in {"vivify", "last"} /\ marked \subseteq T =>
       (Rest(cand) \ work) \cap T = {}
  /\ pc = "last" /\ count \in T /\ marked \ {-count} \subseteq T =>
       trail \subseteq T
  /\ pc = "instantiate" /\ pivot \in T /\ (Rest(cand) \ {pivot}) \cap T = {} =>
       trail \subseteq T
Sound(T) == Base(T) /\ Removed(T) /\ Held(T) /\ Decided(T)

LEMMA Negation2 ==
  ASSUME NEW T \in Assignments
  PROVE  T \subseteq Lit /\ \A l \in Lit : -l \in T <=> l \notin T
  BY DEF Assignments

\* A satisfied clause is satisfied by a literal that is not false.
LEMMA RestTrue ==
  ASSUME NEW T \in Assignments, Base(T), NEW c, c \cap T # {}
  PROVE  Rest(c) \cap T # {}
<1>1. PICK k \in c : k \in T
  OBVIOUS
<1>2. -k \notin T
  BY <1>1, Negation2
<1>3. k \in Rest(c)
  BY <1>1, <1>2 DEF Base, Rest, False
<1> QED
  BY <1>1, <1>3

LEMMA ResolventTrue ==
  ASSUME NEW T \in Assignments, NEW c, NEW d, NEW l,
         c \cap T # {}, d \cap T # {}
  PROVE  Resolvent(c, d, l) \cap T # {}
<1>1. CASE l \in T
  <2>1. -l \notin T
    BY <1>1, Negation2
  <2> QED
    BY <2>1 DEF Resolvent
<1>2. CASE l \notin T
  BY <1>2 DEF Resolvent
<1> QED
  BY <1>1, <1>2

\* A clause of one literal.
LEMMA UnitTrue ==
  ASSUME NEW T, NEW r \in Clause, r \cap T # {}
  PROVE  r # {} /\ (Cardinality(r) = 1 => r \subseteq T)
<1>1. ASSUME Cardinality(r) = 1
      PROVE  r \subseteq T
  <2>1. PICK l \in Lit : r = {l}
    BY <1>1, OneLiteral
  <2> QED
    BY <2>1
<1> QED
  BY <1>1

\* Both binary clauses with l and k, or -k, are satisfied.
LEMMA UnitOfTwo ==
  ASSUME NEW T \in Assignments, NEW l, NEW k \in Lit,
         {l, k} \cap T # {}, {l, -k} \cap T # {}
  PROVE  l \in T
  BY Negation2

LEMMA AssignTrue ==
  ASSUME NEW T \in Assignments, Base(T), NEW ls \in SUBSET T, NEW empty,
         ~empty, Assign(ls, empty)
  PROVE  ~unsat' /\ units' \subseteq T
<1>1. units' = units \cup ls /\ units' \subseteq T
  BY DEF Base, Assign
<1>2. \A l \in ls : -l \notin units \cup ls
  <2>1. \A l \in ls : l \in Lit /\ l \in T
    BY Negation2
  <2>2. \A l \in ls : -l \notin T
    BY <2>1, Negation2
  <2> QED
    BY <1>1, <2>2
<1> QED
  BY <1>1, <1>2, Zenon DEF Base, Assign

\* Unit propagation.
LEMMA ForcedTrue ==
  ASSUME NEW T \in Assignments, NEW F \in SUBSET Clause,
         \A c \in F : c \cap T # {}, NEW A \in SUBSET T
  PROVE  Forced(F, A) \subseteq T /\ ~Falsified(F, A)
<1>1. ASSUME NEW l \in Forced(F, A)
      PROVE  l \in T
  <2>1. PICK c \in F : l \in c /\ l \notin A /\ Negated(c \ {l}) \subseteq A
    BY <1>1, ForcingClause
  <2>2. PICK k \in c : k \in T
    OBVIOUS
  <2>3. -k \notin T
    BY <2>2, Negation2
  <2>4. -k \notin Negated(c \ {l})
    BY <2>1, <2>3
  <2> QED
    BY <2>2, <2>4 DEF Negated
<1>2. ASSUME NEW c \in F, Negated(c) \subseteq A
      PROVE  FALSE
  <2>1. PICK k \in c : k \in T
    OBVIOUS
  <2>2. -k \notin T
    BY <2>1, Negation2
  <2> QED
    BY <1>2, <2>2 DEF Negated
<1> QED
  BY <1>1, <1>2 DEF Falsified

\* Reachability in the binary implication graph.
LEMMA ReachedTrue ==
  ASSUME NEW T \in Assignments, NEW F \in SUBSET Clause,
         \A c \in F : c \cap T # {}, NEW l \in T
  PROVE  Reached(F, l) \subseteq T
<1>1. ASSUME NEW c \in Binaries(F), NEW k \in c, -k \in T
      PROVE  c \ {k} \subseteq T
  <2>1. c \in Clause /\ Cardinality(c) = 2 /\ c \cap T # {} /\ k \in Lit
    BY DEF Binaries, Clause
  <2>2. PICK j \in c : j # k /\ c = {k, j}
    BY <2>1, BinaryClause
  <2>3. k \notin T
    BY <1>1, <2>1, Negation2
  <2> QED
    BY <2>1, <2>2, <2>3
<1> QED
  BY <1>1, ReachedWithin

LEMMA NothingNew ==
  ASSUME NEW F, NEW T, NEW A, Forced(F, (T \cap LitsOf(F)) \cup A) \subseteq T
  PROVE  Forced(F, (T \cap LitsOf(F)) \cup A) = {}
<1> DEFINE B == (T \cap LitsOf(F)) \cup A
<1>1. ASSUME NEW k \in Forced(F, B)
      PROVE  FALSE
  <2>1. PICK c \in F : k \in c /\ k \notin B /\ Negated(c \ {k}) \subseteq B
    <3> HIDE DEF B
    <3> QED
      BY ForcingClause
  <2>2. k \in LitsOf(F)
    BY <2>1 DEF LitsOf
  <2> QED
    BY <2>1, <2>2
<1> QED
  BY <1>1

LEMMA ImpliedTrue ==
  ASSUME NEW T \in Assignments, NEW F \in SUBSET Clause,
         \A c \in F : c \cap T # {}, NEW A \in SUBSET T, NEW l, Refutes(F, A, l)
  PROVE  l \in T
<1> DEFINE S == T \cap LitsOf(F)
<1>1. S \cup A \in SUBSET T
  OBVIOUS
<1>2. Forced(F, S \cup A) \subseteq T
  BY <1>1, ForcedTrue
<1>3. Forced(F, S \cup A) = {}
  BY <1>2, NothingNew
<1>4. S \in {U \in SUBSET LitsOf(F) : Forced(F, U \cup A) = {}}
  BY <1>3
<1>5. \A k \in Implied(F, A) : k \in S \cup A
  BY <1>4, Zenon DEF Implied
<1>6. Implied(F, A) \in SUBSET T
  BY <1>5
<1>7. ~Falsified(F, Implied(F, A))
  <2> DEFINE I == Implied(F, A)
  <2>1. I \in SUBSET T
    BY <1>6
  <2> HIDE DEF I
  <2>2. ~Falsified(F, I)
    BY <2>1, ForcedTrue
  <2> QED
    BY <2>2 DEF I
<1> QED
  BY <1>6, <1>7 DEF Refutes

-----------------------------------------------------------------------------
(* What the parts of a step leave satisfied. *)

LEMMA BaseStep ==
  ASSUME NEW T, Base(T), ~unsat', units' \subseteq T,
         NEW N, \A c \in N : c \cap T # {},
         irr' \subseteq irr \cup N, red' \subseteq red \cup N
  PROVE  Base(T)'
  BY DEF Base, DB

LEMMA BaseFewer ==
  ASSUME NEW T, Base(T), UNCHANGED <<units, unsat>>,
         irr' \subseteq irr, red' \subseteq red
  PROVE  Base(T)'
  BY DEF Base, DB

LEMMA BaseAdded ==
  ASSUME NEW T, Base(T), UNCHANGED <<units, unsat>>, NEW r, r \cap T # {},
         irr' \subseteq irr \cup {r}, red' \subseteq red \cup {r}
  PROVE  Base(T)'
  BY DEF Base, DB

LEMMA BaseAssigned ==
  ASSUME NEW T \in Assignments, Base(T), NEW ls \in SUBSET T, NEW empty, ~empty,
         Assign(ls, empty), irr' \subseteq irr, red' \subseteq red
  PROVE  Base(T)'
<1>1. ~unsat' /\ units' \subseteq T
  BY AssignTrue
<1> QED
  BY <1>1 DEF Base, DB

LEMMA BaseDerived ==
  ASSUME NEW T \in Assignments, Base(T), NEW r \in Clause, r \cap T # {},
         NEW redundant, Derive(r, redundant)
  PROVE  Base(T)'
<1> DEFINE ls == IF Cardinality(r) = 1 THEN r ELSE {}
<1>1. r # {} /\ ls \in SUBSET T
  BY UnitTrue
<1>2. Assign(ls, r = {})
  BY DEF Derive
<1>3. ~unsat' /\ units' \subseteq T
  <2> HIDE DEF ls
  <2> QED
    BY <1>1, <1>2, AssignTrue
<1>4. irr' \subseteq irr \cup {r} /\ red' \subseteq red \cup {r}
  BY DEF Derive
<1> QED
  BY <1>3, <1>4 DEF Base, DB

\* The stack.
LEMMA RemovedSame ==
  ASSUME NEW T, Removed(T), UNCHANGED extension
  PROVE  Removed(T)'
  BY Zenon DEF Removed

LEMMA RemovedPushed ==
  ASSUME NEW T, Removed(T), TypeStack, NEW s \in Seq(Entries), Push(s),
         \A i \in DOMAIN s : s[i].clause \cap T # {}
  PROVE  Removed(T)'
<1>1. extension \in Seq(Entries) /\ extension' = extension \o s
  BY DEF TypeStack, Push
<1>2. /\ DOMAIN extension = 1..Len(extension) /\ Len(extension) \in Nat
      /\ DOMAIN s = 1..Len(s) /\ Len(s) \in Nat
  BY <1>1, LenProperties
<1>3. /\ Len(extension \o s) = Len(extension) + Len(s)
      /\ DOMAIN (extension \o s) = 1..(Len(extension) + Len(s))
      /\ \A i \in 1..(Len(extension) + Len(s)) :
           (extension \o s)[i] = IF i <= Len(extension) THEN extension[i]
                                 ELSE s[i - Len(extension)]
  BY <1>1, <1>2, ConcatProperties, LenProperties
<1>4. ASSUME NEW i \in DOMAIN extension'
      PROVE  (extension')[i].clause \cap T # {}
  <2>1. i \in 1..(Len(extension) + Len(s)) /\ i \in Nat
    BY <1>1, <1>2, <1>3
  <2>2. CASE i <= Len(extension)
    <3>1. i \in DOMAIN extension /\ (extension')[i] = extension[i]
      BY <1>1, <1>2, <1>3, <2>1, <2>2
    <3> QED
      BY <3>1, Zenon DEF Removed
  <2>3. CASE ~(i <= Len(extension))
    <3>1. i - Len(extension) \in DOMAIN s
          /\ (extension')[i] = s[i - Len(extension)]
      BY <1>1, <1>2, <1>3, <2>1, <2>3
    <3> QED
      BY <3>1, Zenon
  <2> QED
    BY <2>2, <2>3
<1> QED
  BY <1>4 DEF Removed

LEMMA RemovedOne ==
  ASSUME NEW T, Removed(T), TypeStack, NEW w \in SUBSET Lit, NEW c \in Clause,
         c \cap T # {}, Push(<<[witness |-> w, clause |-> c]>>)
  PROVE  Removed(T)'
<1> DEFINE e == [witness |-> w, clause |-> c]
           s == <<e>>
<1>1. s \in Seq(Entries)
  BY OneEntry
<1>2. \A i \in DOMAIN s : s[i] = e
  BY SMT
<1>3. \A i \in DOMAIN s : s[i].clause \cap T # {}
  BY <1>2
<1>4. Push(s)
  OBVIOUS
<1> HIDE DEF s
<1> QED
  BY <1>1, <1>3, <1>4, RemovedPushed

\* An entry goes.
LEMMA RemovedShorter ==
  ASSUME NEW T, Removed(T), Stack, NEW k \in 1..Len(extension),
         extension' = Without(extension, k)
  PROVE  Removed(T)'
<1>1. \A i \in DOMAIN extension' :
        \E j \in DOMAIN extension : (extension')[i] = extension[j]
  BY WithoutOne DEF Stack, Usable
<1> QED
  BY <1>1, Zenon DEF Removed

\* The job.
LEMMA HeldSame ==
  ASSUME NEW T, Held(T), UNCHANGED <<queue, gate, cand, private, reprs>>,
         pc' \notin {"covering", "covered"}
  PROVE  Held(T)'
  BY Zenon DEF Held

LEMMA DecidedElsewhere ==
  ASSUME NEW T, pc' \notin {"vivify", "last", "instantiate"}
  PROVE  Decided(T)'
  BY Zenon DEF Decided

LEMMA JobSame ==
  ASSUME NEW T, Held(T), UNCHANGED jobVars,
         pc' \notin {"covering", "covered", "vivify", "last", "instantiate"}
  PROVE  Held(T)' /\ Decided(T)'
<1>1. UNCHANGED <<queue, gate, cand, private, reprs>>
  BY DEF jobVars, markVars
<1> QED
  BY <1>1, HeldSame, DecidedElsewhere

LEMMA JobGone ==
  ASSUME NEW T, NoJob,
         pc' \notin {"covering", "covered", "vivify", "last", "instantiate"}
  PROVE  Held(T)' /\ Decided(T)'
<1>1. /\ queue' = {} /\ gate' = {} /\ cand' = {} /\ private' = <<>>
      /\ reprs' = [l \in Lit |-> l]
  BY Zenon DEF NoJob
<1>2. Held(T)'
  BY <1>1 DEF Held
<1> QED
  BY <1>2, DecidedElsewhere

-----------------------------------------------------------------------------
(* The user's calls, restoring and the search derive what is implied. *)

LEMMA OriginalTrue ==
  ASSUME NEW T \in Assignments, Base(T), NEW c \in Clause, c \cap T # {},
         NEW where, AddOriginal(c, where)
  PROVE  Base(T)' /\ pc' \in {where, "propagate"}
<1> DEFINE r == Rest(c)
           skip == unsat \/ IsTautology(c) \/ IsSatisfied(c)
           unit == IF ~skip /\ Cardinality(r) = 1 THEN r ELSE {}
<1>1. r \in Clause /\ r \cap T # {}
  BY Clauses0, RestTrue
<1>2. unit \subseteq T /\ r # {}
  BY <1>1, UnitTrue
<1>3. /\ irr' \subseteq irr \cup {r} /\ red' = red /\ units' = units \cup unit
      /\ unsat' = (unsat \/ (~skip /\ r = {}))
      /\ pc' \in {where, "propagate"}
  BY Zenon DEF AddOriginal, GoTo, PropagateThen
<1>4. ~unsat' /\ units' \subseteq T
  BY <1>2, <1>3 DEF Base
<1> HIDE DEF r
<1> QED
  BY <1>1, <1>3, <1>4 DEF Base, DB

LEMMA SoundUser ==
  ASSUME Shapes, NEW T \in Assignments, Sound(T),
         \A c \in original' : c \cap T # {},
         Add \/ Assume \/ Freeze \/ Melt \/ Solve \/ Steady
  PROVE  Sound(T)'
<1>0. Base(T) /\ Removed(T) /\ Held(T) /\ TypeUser
  BY DEF Sound, Shapes
<1>1. CASE Add
  <2>1. /\ script # <<>> /\ Head(script).call = "add"
        /\ original' = original \cup {Head(script).clause}
        /\ AddOriginal(Head(script).clause, "user")
        /\ UNCHANGED extension /\ UNCHANGED jobVars
    BY <1>1, Zenon DEF Add, IsCall, stackVars
  <2>2. Head(script).clause \in Clause
    BY <1>0, <2>1, Call0, CallTypes
  <2>3. Head(script).clause \cap T # {}
    BY <2>1
  <2>4. Base(T)' /\ pc' \in {"user", "propagate"}
    BY <1>0, <2>1, <2>2, <2>3, OriginalTrue
  <2>5. Removed(T)' /\ Held(T)' /\ Decided(T)'
    BY <1>0, <2>1, <2>4, RemovedSame, JobSame
  <2> QED
    BY <2>4, <2>5 DEF Sound
<1>2. CASE Assume \/ Freeze \/ Melt \/ Solve \/ Steady
  <2>1. /\ UNCHANGED <<units, unsat>> /\ UNCHANGED dbVars
        /\ UNCHANGED extension /\ UNCHANGED jobVars
        /\ pc' \in {"user", "answered", "propagate"}
    BY <1>2, Zenon DEF Assume, Freeze, Melt, Solve, Steady, IsCall, GoTo,
                PropagateThen, unitVars, stackVars
  <2>2. Base(T)'
    BY <1>0, <2>1, BaseFewer DEF dbVars
  <2>3. Removed(T)' /\ Held(T)' /\ Decided(T)'
    BY <1>0, <2>1, RemovedSame, JobSame
  <2> QED
    BY <2>2, <2>3 DEF Sound
<1> QED
  BY <1>1, <1>2

LEMMA SoundRestore ==
  ASSUME DInv, NEW T \in Assignments, Sound(T),
         RestoreFlush \/ RestoreClause \/ RestoreKeep \/ Restored
  PROVE  Sound(T)'
<1>0. /\ Base(T) /\ Removed(T) /\ Held(T) /\ TypeStack /\ Stack
      /\ pc = "restore" => count \in Nat
  BY DEF Sound, DInv, IInv, JobInv, Clean, Shapes
<1>1. CASE RestoreFlush \/ RestoreClause
  <2>1. /\ count < Len(extension) /\ extension' = Without(extension, count + 1)
        /\ pc = "restore" /\ UNCHANGED jobVars
    BY <1>1 DEF RestoreFlush, RestoreClause, Restoring
  <2>2. extension \in Seq(Entries)
    BY <1>0 DEF TypeStack
  <2>3. count + 1 \in 1..Len(extension) /\ count + 1 \in DOMAIN extension
    BY <1>0, <2>1, <2>2, LenProperties, SMT
  <2>4. Removed(T)'
    BY <1>0, <2>1, <2>3, RemovedShorter
  <2>5. Base(T)' /\ pc' \in {"restore", "propagate"}
    <3>1. CASE RestoreFlush
      <4>1. UNCHANGED <<units, unsat>> /\ UNCHANGED dbVars /\ pc' = pc
        BY <3>1 DEF RestoreFlush, unitVars
      <4> QED
        BY <1>0, <2>1, <4>1, BaseFewer DEF dbVars
    <3>2. CASE RestoreClause
      <4>1. Entry.clause \in Clause /\ Entry.clause \cap T # {}
        BY <1>0, <2>3, Entry0, Zenon DEF Removed, Entry
      <4> QED
        BY <1>0, <3>2, <4>1, OriginalTrue DEF RestoreClause
    <3> QED
      BY <1>1, <3>1, <3>2
  <2>6. Held(T)' /\ Decided(T)'
    BY <1>0, <2>1, <2>5, JobSame
  <2> QED
    BY <2>4, <2>5, <2>6 DEF Sound
<1>2. CASE RestoreKeep \/ Restored
  <2>1. /\ UNCHANGED <<units, unsat>> /\ UNCHANGED dbVars
        /\ UNCHANGED extension /\ pc' \in {"restore", "propagate"}
        /\ UNCHANGED <<queue, gate, cand, private, reprs>>
    BY <1>2 DEF RestoreKeep, Restored, Restoring, PropagateThen, unitVars,
                stackVars, markVars
  <2>2. Base(T)'
    BY <1>0, <2>1, BaseFewer DEF dbVars
  <2>3. Removed(T)' /\ Held(T)' /\ Decided(T)'
    BY <1>0, <2>1, RemovedSame, HeldSame, DecidedElsewhere
  <2> QED
    BY <2>2, <2>3 DEF Sound
<1> QED
  BY <1>1, <1>2

\* The clauses of the database are satisfied.
LEMMA DBTrue ==
  ASSUME Shapes, NEW T, Base(T)
  PROVE  /\ DB \subseteq Clause /\ \A c \in DB : c \cap T # {}
         /\ irr \subseteq Clause /\ \A c \in irr : c \cap T # {}
         /\ units \in SUBSET T
  BY DEF Shapes, TypeDB, Kind, Base, DB

LEMMA SoundPropagate ==
  ASSUME DInv, NEW T \in Assignments, Sound(T), Propagate \/ Propagated
  PROVE  Sound(T)'
<1>0. /\ Base(T) /\ Removed(T) /\ Held(T) /\ Shapes /\ back \in Backs
  BY DEF Sound, DInv, IInv, JobInv, Clean
<1>1. /\ UNCHANGED dbVars /\ UNCHANGED extension /\ UNCHANGED jobVars
      /\ pc' \in Backs \cup {"propagate", "answered"}
  BY <1>0, Zenon DEF Propagate, Propagated, stackVars
<1>2. Base(T)'
  <2>1. CASE Propagate
    <3> DEFINE F == DB
    <3>1. F \subseteq Clause /\ \A c \in F : c \cap T # {}
      BY <1>0, DBTrue
    <3>2. units \in SUBSET T
      BY <1>0 DEF Base
    <3> HIDE DEF F
    <3>3. Forced(F, units) \in SUBSET T /\ ~Falsified(F, units)
      BY <3>1, <3>2, ForcedTrue
    <3>4. Assign(Forced(F, units), FALSE)
      BY <2>1, <3>3 DEF Propagate, F
    <3> DEFINE ls == Forced(F, units)
    <3>5. ls \in SUBSET T /\ Assign(ls, FALSE)
      BY <3>3, <3>4
    <3> HIDE DEF ls
    <3> QED
      BY <1>0, <1>1, <3>5, BaseAssigned DEF dbVars
  <2>2. CASE Propagated
    BY <1>0, <1>1, <2>2, BaseFewer DEF Propagated, dbVars, unitVars
  <2> QED
    BY <2>1, <2>2
<1>3. Removed(T)' /\ Held(T)' /\ Decided(T)'
  BY <1>0, <1>1, RemovedSame, JobSame DEF Backs
<1> QED
  BY <1>2, <1>3 DEF Sound

LEMMA SoundSearch ==
  ASSUME Shapes, NEW T \in Assignments, Sound(T), Learn \/ Collect \/ Answer
  PROVE  Sound(T)'
<1>0. /\ Base(T) /\ Removed(T) /\ Held(T) /\ DB \subseteq Clause
      /\ \A c \in DB : c \cap T # {}
  BY DBTrue DEF Sound
<1>1. /\ UNCHANGED extension /\ UNCHANGED jobVars
      /\ pc' \in {"propagate", "simplify", "answered"}
  BY Zenon DEF Learn, Collect, Answer, GoTo, PropagateThen, stackVars
<1>2. Base(T)'
  <2>1. CASE Learn
    <3>1. PICK c \in DB, d \in DB : \E l \in c :
            LET r == Resolvent(c, d, l)
            IN /\ -l \in d /\ ~IsTautology(r) /\ ~IsSatisfied(r)
               /\ Rest(r) \notin DB
               /\ Derive(Rest(r), TRUE)
      BY <2>1, Zenon DEF Learn
    <3>2. PICK l \in c : Derive(Rest(Resolvent(c, d, l)), TRUE)
      BY <3>1, Zenon
    <3>3. l \in Lit /\ c \in Clause /\ d \in Clause
      BY <1>0, Clauses0
    <3> DEFINE q == Resolvent(c, d, l)
    <3>4. q \in Clause /\ q \cap T # {}
      BY <1>0, <3>3, ResolventClause, ResolventTrue
    <3> DEFINE r == Rest(q)
    <3>5. r \in Clause /\ r \cap T # {}
      <4> HIDE DEF q
      <4> QED
        BY <1>0, <3>4, Clauses0, RestTrue
    <3>6. Derive(r, TRUE)
      BY <3>2
    <3> HIDE DEF r
    <3> QED
      BY <1>0, <3>5, <3>6, BaseDerived
  <2>2. CASE Collect
    <3>1. irr' = {Rest(c) : c \in Open(irr)} /\ red' = {Rest(c) : c \in Open(red)}
          /\ UNCHANGED unitVars
      BY <2>2 DEF Collect
    <3>2. \A d \in DB' : \E c \in DB : d = Rest(c)
      BY <3>1 DEF DB, Open
    <3>3. \A d \in DB' : d \cap T # {}
      BY <1>0, <3>2, RestTrue
    <3> QED
      BY <1>0, <3>1, <3>3 DEF Base, unitVars
  <2>3. CASE Answer
    BY <1>0, <2>3, BaseFewer DEF Answer, unitVars, dbVars
  <2> QED
    BY <2>1, <2>2, <2>3
<1>3. Removed(T)' /\ Held(T)' /\ Decided(T)'
  BY <1>0, <1>1, RemovedSame, JobSame
<1> QED
  BY <1>2, <1>3 DEF Sound

-----------------------------------------------------------------------------
(* Elimination derives what is implied. *)

\* A step of a round, or of the trial of a variable, as far as it pushes
\* nothing and holds no new clause.
LEMMA TrialSound ==
  ASSUME NEW T, Removed(T), Held(T), Base(T)', UNCHANGED extension,
         UNCHANGED <<gate, private, reprs>>, queue' \subseteq queue,
         UNCHANGED cand \/ cand' = {} \/ cand' \cap T # {},
         pc' \in {"propagate", "simplify", "elim", "gates", "bounded", "add",
                  "backward"}
  PROVE  Sound(T)'
<1>1. Held(T)'
  BY DEF Held
<1> QED
  BY <1>1, RemovedSame, DecidedElsewhere DEF Sound

LEMMA SoundRound ==
  ASSUME Shapes, NEW T \in Assignments, Sound(T),
         \/ StartElim \/ Try \/ ElimRoundDone \/ NextElimRound
         \/ IncreaseBound \/ Tried \/ Bounded \/ GiveUp \/ CountResolvent \/ Eliminate
  PROVE  Sound(T)'
<1>0. Base(T) /\ Removed(T) /\ Held(T) /\ TypeDB
  BY DEF Sound, Shapes
<1>1. CASE StartElim \/ ElimRoundDone \/ NextElimRound \/ IncreaseBound
           \/ Try \/ Bounded \/ GiveUp \/ Eliminate
  <2>2. /\ UNCHANGED extension /\ UNCHANGED <<gate, private, reprs, queue>>
        /\ UNCHANGED cand \/ cand' = {}
        /\ pc' \in {"propagate", "simplify", "elim", "gates", "bounded", "add",
                    "backward"}
    <3>1. CASE StartElim \/ ElimRoundDone \/ NextElimRound \/ IncreaseBound
      BY <3>1 DEF StartElim, ElimRoundDone, NextElimRound, IncreaseBound,
                  Start, GoTo, PropagateThen, stackVars, jobVars, markVars
    <3>2. CASE Try \/ Bounded \/ GiveUp \/ Eliminate
      BY <3>2 DEF Try, Bounded, GiveUp, Eliminate, NoPairs, GoTo, stackVars,
                  markVars
    <3> QED
      BY <1>1, <3>1, <3>2
  <2>3. Base(T)'
    <3>1. CASE StartElim \/ ElimRoundDone \/ NextElimRound
      BY <1>0, <3>1, BaseFewer DEF StartElim, ElimRoundDone, NextElimRound,
                                   Start, Open, unitVars
    <3>2. CASE IncreaseBound \/ Try \/ Bounded \/ GiveUp \/ Eliminate
      BY <1>0, <3>2, BaseFewer DEF IncreaseBound, Try, Bounded, GiveUp,
                                   Eliminate, dbVars, unitVars
    <3> QED
      BY <1>1, <3>1, <3>2
  <2> QED
    BY <1>0, <2>2, <2>3, TrialSound
<1>2. CASE Tried
  <2>1. /\ NoJob /\ pc' = "elim" /\ UNCHANGED <<units, unsat>>
        /\ irr' = irr /\ red' = red /\ UNCHANGED extension
    BY <1>2 DEF Tried, GoTo, unitVars, dbVars, stackVars
  <2>2. Base(T)'
    BY <1>0, <2>1, BaseFewer
  <2> QED
    BY <1>0, <2>1, <2>2, RemovedSame, JobGone DEF Sound
<1>3. CASE CountResolvent
  <2>1. /\ UNCHANGED <<units, unsat>> /\ irr' = irr /\ red' = red
        /\ UNCHANGED extension /\ UNCHANGED <<gate, private, reprs, queue>>
        /\ pc' \in {"bounded", "backward"}
    BY <1>3 DEF CountResolvent, Resolving, GoTo, unitVars, dbVars, stackVars,
                markVars
  <2>2. \E p \in Live : NoPairs \/ Advance(p)
    BY <1>3, Zenon DEF CountResolvent
  <2>3. cand' = {} \/ cand' \in irr
    BY <2>2 DEF NoPairs, Advance, Live
  <2>4. cand' = {} \/ cand' \cap T # {}
    BY <1>0, <2>3 DEF Base, DB
  <2>5. Base(T)'
    BY <1>0, <2>1, BaseFewer
  <2> QED
    BY <1>0, <2>1, <2>4, <2>5, TrialSound
<1> QED
  BY <1>1, <1>2, <1>3

LEMMA ShapeTrue ==
  ASSUME NEW T \in Assignments, Base(T), NEW c \in Shape(irr)
  PROVE  c \cap T # {}
<1>1. PICK d \in irr : c = Rest(d)
  BY DEF Shape, Open
<1>2. d \cap T # {}
  BY DEF Base, DB
<1> QED
  BY <1>1, <1>2, RestTrue

LEMMA SoundGate ==
  ASSUME Shapes, NEW T \in Assignments, Sound(T),
         ElimPropagate \/ FindUnit \/ FindGarbage \/ GatesFound
  PROVE  Sound(T)'
<1>0. /\ Base(T) /\ Removed(T) /\ Held(T) /\ irr \subseteq Clause
      /\ \A c \in irr : c \cap T # {}
      /\ units \in SUBSET T
  BY DBTrue DEF Sound
<1>1. CASE ElimPropagate
  <2>1. /\ UNCHANGED extension /\ UNCHANGED <<gate, private, reprs, queue, cand>>
        /\ pc' \in {"gates", "bounded", "backward"} /\ red' = red
    BY <1>1 DEF ElimPropagate, stackVars, markVars
  <2>2. PICK l \in work :
          LET new == Forced(Open(Occs(-l)), units)
          IN /\ Assign(new, Falsified(Occs(-l), units))
             /\ irr' = irr \ (Occs(l) \cup
                         {c \in Occs(-l) : c \cap (units \cup new) # {}})
    BY <1>1, Zenon DEF ElimPropagate
  <2> DEFINE O == Occs(-l)
             F == Open(O)
             new == Forced(F, units)
             false == Falsified(O, units)
  <2>3. /\ O \subseteq Clause /\ \A c \in O : c \cap T # {}
        /\ F \subseteq Clause /\ \A c \in F : c \cap T # {}
    BY <1>0 DEF Occs, Open
  <2>4. new \in SUBSET T
    <3> HIDE DEF F
    <3> QED
      BY <1>0, <2>3, ForcedTrue
  <2>5. ~false
    <3> HIDE DEF O
    <3> QED
      BY <1>0, <2>3, ForcedTrue
  <2>6. Assign(new, false) /\ irr' \subseteq irr
    BY <2>2
  <2>7. Base(T)'
    <3> HIDE DEF new, false
    <3> QED
      BY <1>0, <2>1, <2>4, <2>5, <2>6, BaseAssigned
  <2> QED
    BY <1>0, <2>1, <2>7, TrialSound
<1>2. CASE FindUnit
  <2>1. /\ UNCHANGED extension /\ UNCHANGED <<gate, private, reprs, queue, cand>>
        /\ pc' = "gates" /\ irr' = irr /\ red' = red
    BY <1>2 DEF FindUnit, Finding, stackVars, markVars, dbVars
  <2>2. PICK u \in Lit, l \in Lit :
          {{u, l}, {u, -l}} \subseteq Shape(irr) /\ Assign({u}, FALSE)
    BY <1>2, Zenon DEF FindUnit
  <2>3. {u, l} \cap T # {} /\ {u, -l} \cap T # {}
    BY <1>0, <2>2, ShapeTrue
  <2>4. {u} \in SUBSET T
    BY <2>3, UnitOfTwo
  <2>5. Base(T)'
    BY <1>0, <2>1, <2>2, <2>4, BaseAssigned
  <2> QED
    BY <1>0, <2>1, <2>5, TrialSound
<1>3. CASE FindGarbage
  <2>1. /\ UNCHANGED extension /\ UNCHANGED <<gate, private, reprs, queue, cand>>
        /\ pc' = "gates" /\ irr' \subseteq irr /\ red' = red
        /\ UNCHANGED <<units, unsat>>
    BY <1>3 DEF FindGarbage, Finding, stackVars, jobVars, markVars, unitVars
  <2>2. Base(T)'
    BY <1>0, <2>1, BaseFewer
  <2> QED
    BY <1>0, <2>1, <2>2, TrialSound
<1>4. CASE GatesFound
  <2>1. /\ UNCHANGED extension /\ UNCHANGED <<private, reprs, queue, cand>>
        /\ pc' = "bounded" /\ irr' = irr /\ red' = red
        /\ UNCHANGED <<units, unsat>>
    BY <1>4 DEF GatesFound, GoTo, stackVars, jobVars, markVars, unitVars, dbVars
  <2>2. gate' \subseteq irr
    <3>1. PICK g \in (IF Gates = {} THEN {{}} ELSE Gates) : gate' = g
      BY <1>4 DEF GatesFound
    <3>2. \A shapes : \A h \in GatesOf(shapes) :
            h \subseteq Occs(pivot) \cup Occs(-pivot)
      BY DEF GatesOf
    <3>3. \A h \in Gates : h \subseteq Occs(pivot) \cup Occs(-pivot)
      BY <3>2 DEF Gates
    <3> QED
      BY <3>1, <3>3 DEF Occs
  <2>3. Base(T)'
    BY <1>0, <2>1, BaseFewer
  <2>4. Held(T)'
    BY <1>0, <2>1, <2>2 DEF Held
  <2> QED
    BY <1>0, <2>1, <2>3, <2>4, RemovedSame, DecidedElsewhere DEF Sound
<1> QED
  BY <1>1, <1>2, <1>3, <1>4

LEMMA PairTrue ==
  ASSUME Shapes, NEW T \in Assignments, Base(T), NEW p \in Live
  PROVE  /\ PairResolvent(p) \in Clause /\ PairResolvent(p) \cap T # {}
         /\ p[1] \cap T # {}
<1>1. /\ p[1] \in irr /\ p[2] \in irr /\ PairResolvent(p) \in Clause
  BY PairClauses DEF Shapes
<1>2. p[1] \cap T # {} /\ p[2] \cap T # {}
  BY <1>1, DBTrue
<1> DEFINE q == Resolvent(p[1], p[2], pivot)
<1>3. q \cap T # {}
  BY <1>2, ResolventTrue
<1>4. PairResolvent(p) = Rest(q)
  BY DEF PairResolvent
<1> HIDE DEF q
<1> QED
  BY <1>1, <1>2, <1>3, <1>4, RestTrue

LEMMA SoundResolve ==
  ASSUME Shapes, NEW T \in Assignments, Sound(T), NEW where \in {"bounded", "add"},
         \/ ResolveNothing(where) \/ ResolveUnit(where)
         \/ ResolveStrengthen(where)
  PROVE  Sound(T)'
<1>0. Base(T) /\ Removed(T) /\ Held(T)
  BY DEF Sound
<1>1. /\ UNCHANGED extension /\ UNCHANGED <<gate, private, reprs, queue>>
      /\ pc' \in {"bounded", "add"} /\ red' = red /\ pc = where /\ ~unsat
  BY DEF ResolveNothing, ResolveUnit, ResolveStrengthen, Resolving, stackVars,
         markVars, dbVars
<1>2. PICK p \in Live :
        /\ cand' = p[1]
        /\ \/ irr' \subseteq irr /\ UNCHANGED <<units, unsat>>
           \/ /\ Assign(PairResolvent(p), PairResolvent(p) = {})
              /\ Cardinality(PairResolvent(p)) < 2 /\ irr' = irr
           \/ /\ irr' \subseteq irr \cup {PairResolvent(p)}
              /\ UNCHANGED <<units, unsat>>
  <2>1. CASE ResolveNothing(where)
    BY <2>1 DEF ResolveNothing, Advance, unitVars
  <2>2. CASE ResolveUnit(where)
    BY <2>2, Zenon DEF ResolveUnit, Advance, dbVars
  <2>3. CASE ResolveStrengthen(where)
    BY <2>3 DEF ResolveStrengthen, Advance, unitVars
  <2> QED
    BY <2>1, <2>2, <2>3
<1> DEFINE r == PairResolvent(p)
<1>3. r \in Clause /\ r \cap T # {} /\ p[1] \cap T # {}
  BY <1>0, PairTrue
<1>4. Base(T)'
  <2>1. CASE UNCHANGED <<units, unsat>>
    <3>1. irr' \subseteq irr \cup {r} /\ red' \subseteq red \cup {r}
      BY <1>1, <1>2, <2>1
    <3> HIDE DEF r
    <3> QED
      BY <1>0, <1>3, <2>1, <3>1, BaseAdded
  <2>2. CASE /\ Assign(PairResolvent(p), PairResolvent(p) = {})
             /\ Cardinality(PairResolvent(p)) < 2 /\ irr' = irr
    <3> HIDE DEF r
    <3>1. r # {} /\ (Cardinality(r) = 1 => r \subseteq T)
      BY <1>3, UnitTrue
    <3>2. Cardinality(r) \in Nat /\ Cardinality(r) # 0
      BY <1>3, <3>1, Clauses0
    <3>3. Cardinality(r) < 2 /\ Assign(r, r = {})
      BY <2>2 DEF r
    <3>4. r \in SUBSET T /\ ~(r = {})
      BY <3>1, <3>2, <3>3
    <3> QED
      BY <1>0, <1>1, <2>2, <3>3, <3>4, BaseAssigned
  <2> QED
    BY <1>2, <2>1, <2>2
<1> QED
  BY <1>0, <1>1, <1>2, <1>3, <1>4, TrialSound

LEMMA SoundAdd ==
  ASSUME Shapes, NEW T \in Assignments, Sound(T), AddResolvent \/ Weaken
  PROVE  Sound(T)'
<1>0. Base(T) /\ Removed(T) /\ Held(T) /\ TypeStack /\ TypeJob
  BY DEF Sound, Shapes
<1>1. CASE AddResolvent
  <2>1. PICK p \in Live : /\ cand' = p[1]
                          /\ irr' = irr \cup {PairResolvent(p)}
                          /\ queue' \subseteq queue \cup {PairResolvent(p)}
    BY <1>1 DEF AddResolvent, Advance, Enqueue
  <2> DEFINE r == PairResolvent(p)
  <2>2. r \in Clause /\ r \cap T # {} /\ p[1] \cap T # {}
    BY <1>0, PairTrue
  <2>3. /\ UNCHANGED extension /\ UNCHANGED <<gate, private, reprs>>
        /\ pc' = "add" /\ red' = red /\ UNCHANGED <<units, unsat>>
    BY <1>1 DEF AddResolvent, Resolving, stackVars, markVars, unitVars
  <2>4. Base(T)'
    <3>1. irr' \subseteq irr \cup {r} /\ red' \subseteq red \cup {r}
      BY <2>1, <2>3
    <3> HIDE DEF r
    <3> QED
      BY <1>0, <2>2, <2>3, <3>1, BaseAdded
  <2>5. Held(T)'
    BY <1>0, <2>1, <2>2, <2>3 DEF Held
  <2> QED
    BY <1>0, <2>3, <2>4, <2>5, RemovedSame, DecidedElsewhere DEF Sound
<1>2. CASE Weaken
  <2>1. /\ pc' = "add" /\ red' = red /\ UNCHANGED <<units, unsat>>
        /\ UNCHANGED jobVars
    BY <1>2 DEF Weaken, unitVars
  <2>2. PICK w \in {pivot, -pivot} : \E c \in Occs(w) :
          /\ irr' = irr \ {c}
          /\ IF Weakened(c) THEN Push(<<[witness |-> {w}, clause |-> c]>>)
             ELSE UNCHANGED stackVars
    BY <1>2, Zenon DEF Weaken
  <2>3. PICK c \in Occs(w) :
          /\ irr' = irr \ {c}
          /\ IF Weakened(c) THEN Push(<<[witness |-> {w}, clause |-> c]>>)
             ELSE UNCHANGED stackVars
    BY <2>2
  <2>4. c \in irr /\ w \in c
    BY DEF Occs
  <2>5. c \in Clause /\ c \cap T # {} /\ {w} \in SUBSET Lit
    <3>1. c \in Clause /\ c \cap T # {}
      BY <1>0, <2>4, DBTrue
    <3> QED
      BY <2>4, <3>1, Clauses0
  <2>6. Removed(T)'
    <3> DEFINE s == {w}
    <3>1. CASE Weakened(c)
      <4>1. s \in SUBSET Lit /\ Push(<<[witness |-> s, clause |-> c]>>)
        BY <2>3, <2>5, <3>1
      <4> HIDE DEF s
      <4> QED
        BY <1>0, <2>5, <4>1, RemovedOne
    <3>2. CASE ~Weakened(c)
      BY <1>0, <2>3, <3>2, RemovedSame DEF stackVars
    <3> QED
      BY <3>1, <3>2
  <2>7. Base(T)'
    BY <1>0, <2>1, <2>3, BaseFewer
  <2> QED
    BY <1>0, <2>1, <2>6, <2>7, JobSame DEF Sound
<1> QED
  BY <1>1, <1>2

\* A clause that matches a candidate but for one clashing literal has all the
\* other literals of the candidate.
LEMMA MatchesRest ==
  ASSUME Shapes, NEW p \in todo, Comparing(p), Matches(p[2]),
         NEW l \in Clashing(p[2])
  PROVE  /\ p[2] \in irr /\ cand \in Clause /\ -l \in Rest(cand) /\ l \in Lit
         /\ l \notin Rest(cand) /\ -l \notin p[2]
         /\ Rest(cand) \subseteq Rest(p[2]) \cup {-l}
<1> DEFINE d == p[2]
<1>0. TypeDB /\ TypeJob
  BY DEF Shapes
<1>1. /\ d \in irr /\ d \in Clause /\ ~IsTautology(d) /\ cand \in Clause
      /\ Rest(cand) \in Clause
  BY <1>0, Clauses0 DEF Comparing, Live, TypeDB, DB, Kind, TypeJob
<1>2. l \in Rest(d) /\ l \in Lit /\ -l \in Rest(cand) /\ l # -l
  <2>1. l \in Rest(d) /\ l \in Negated(Rest(cand))
    BY DEF Clashing
  <2>2. PICK k \in Rest(cand) : l = -k
    BY <2>1 DEF Negated
  <2>3. k \in Lit
    BY <1>1, <2>2, Clauses0
  <2> QED
    BY <2>1, <2>2, <2>3, Literals
<1>3. -l \notin d
  BY <1>1, <1>2 DEF IsTautology, Rest
<1> DEFINE C == Common(d)
           X == Clashing(d)
           R == Rest(cand)
<1>4. C \subseteq R /\ C \subseteq Rest(d) /\ -l \notin C /\ -l \in R
  BY <1>2, <1>3 DEF Common, Rest
<1>5. /\ R \in Clause /\ C \in Clause /\ X \in Clause
      /\ IsFiniteSet(C) /\ IsFiniteSet(X)
      /\ Cardinality(X) \in Nat /\ Cardinality(C) \in Nat /\ Cardinality(R) \in Nat
  <2>1. R \in Clause /\ X \subseteq d
    BY <1>1 DEF Clashing, Rest
  <2>2. C \in Clause /\ X \in Clause
    BY <1>1, <1>4, <2>1, Fewer
  <2> HIDE DEF C, X, R
  <2> QED
    BY <2>1, <2>2, Clauses0
<1>6. Cardinality(X) <= 1 /\ Cardinality(C \cup X) = Cardinality(R)
  BY DEF Matches
<1>7. X = {l}
  <2>1. l \in X
    OBVIOUS
  <2>2. ASSUME NEW k \in X, k # l
        PROVE  FALSE
    <3> HIDE DEF X
    <3>1. Cardinality(X) > 1
      BY <1>5, <2>1, <2>2, TwoLiterals
    <3> QED
      BY <1>5, <1>6, <3>1
  <2> QED
    BY <2>1, <2>2
<1> HIDE DEF C, X, R
<1> DEFINE S == C \cup {-l}
<1>8. S \subseteq R /\ S \in Clause /\ Cardinality(S) \in Nat
      /\ S \ {-l} = C /\ -l \in S
  <2>1. S \subseteq R
    BY <1>4
  <2>2. S \in Clause
    BY <1>5, <2>1, Fewer
  <2>3. Cardinality(S) \in Nat
    <3> HIDE DEF S
    <3> QED
      BY <2>2, Clauses0
  <2> QED
    BY <1>4, <2>1, <2>2, <2>3
<1>9. Cardinality(S) = Cardinality(C) + 1
  <2> HIDE DEF S
  <2>1. Cardinality(S \ {-l}) = Cardinality(S) - 1
    BY <1>8, OneLess
  <2> QED
    BY <1>5, <1>8, <2>1
\* The union with the clashing literal has one literal more, at most.
<1>10. Cardinality(R) <= Cardinality(C) + 1
  <2>1. CASE l \in C
    <3>1. C \cup X = C
      BY <1>7, <2>1
    <3>2. Cardinality(C) = Cardinality(R)
      BY <1>6, <3>1, Zenon
    <3> HIDE DEF S
    <3> QED
      BY <1>5, <3>2
  <2>2. CASE l \notin C
    <3> DEFINE U == C \cup {l}
    <3>1. U \in Clause /\ U \ {l} = C /\ l \in U
      BY <1>2, <1>5, <2>2 DEF Clause
    <3>2. Cardinality(U \ {l}) = Cardinality(U) - 1 /\ Cardinality(U) \in Nat
      <4> HIDE DEF U
      <4> QED
        BY <3>1, OneLess, Clauses0
    <3>3. Cardinality(U) = Cardinality(R)
      BY <1>6, <1>7
    <3>4. Cardinality(C) = Cardinality(U) - 1 /\ Cardinality(U) \in Nat
      <4> HIDE DEF U
      <4> QED
        BY <3>1, <3>2, Zenon
    <3> HIDE DEF U, S
    <3> QED
      BY <1>5, <3>3, <3>4
  <2> QED
    BY <2>1, <2>2
<1>11. S = R
  <2>1. IsFiniteSet(R) /\ S \in SUBSET R
    BY <1>5, <1>8, Clauses0
  <2>2. Cardinality(S) >= Cardinality(R)
    BY <1>5, <1>9, <1>10
  <2> HIDE DEF S
  <2> QED
    BY <1>5, <1>8, <2>1, <2>2, FS_Subset
<1>12. l \notin R
  <2> SUFFICES ASSUME l \in R
               PROVE  FALSE
    OBVIOUS
  <2>1. l \in C
    BY <1>2, <1>11
  <2>2. C \cup X = C
    BY <1>7, <2>1
  <2>3. Cardinality(C) = Cardinality(R)
    BY <1>6, <2>2, Zenon
  <2>4. Cardinality(R) = Cardinality(C) + 1
    BY <1>9, <1>11, Zenon
  <2> HIDE DEF S
  <2> QED
    BY <1>5, <2>3, <2>4
<1> QED
  BY <1>1, <1>2, <1>3, <1>4, <1>11, <1>12 DEF R

LEMMA StrengthenedTrue ==
  ASSUME Shapes, NEW T \in Assignments, Sound(T), NEW p \in todo, Comparing(p),
         Matches(p[2]), NEW l \in Clashing(p[2])
  PROVE  (Rest(p[2]) \ {l}) \cap T # {} /\ (p[2] \ {l}) \cap T # {}
<1>0. Base(T) /\ Held(T)
  BY DEF Sound
<1>1. /\ p[2] \in irr /\ -l \in Rest(cand) /\ l \in Lit
      /\ l \notin Rest(cand) /\ Rest(cand) \subseteq Rest(p[2]) \cup {-l}
  BY MatchesRest
<1>2. Rest(p[2]) \cap T # {}
  <2>1. p[2] \cap T # {}
    BY <1>0, <1>1, DBTrue
  <2> QED
    BY <1>0, <2>1, RestTrue
<1>3. Rest(cand) \cap T # {}
  <2>1. cand # {}
    BY <1>1 DEF Rest
  <2>2. cand \cap T # {}
    BY <1>0, <2>1 DEF Held
  <2> QED
    BY <1>0, <2>2, RestTrue
<1>4. (Rest(p[2]) \ {l}) \cap T # {}
  <2>1. CASE l \in T
    <3>1. -l \notin T
      BY <1>1, <2>1, Negation2
    <3>2. PICK k \in Rest(cand) : k \in T
      BY <1>3
    <3> QED
      BY <1>1, <3>1, <3>2
  <2>2. CASE l \notin T
    BY <1>2, <2>2
  <2> QED
    BY <2>1, <2>2
<1> QED
  BY <1>4 DEF Rest

LEMMA SoundBackward ==
  ASSUME Shapes, NEW T \in Assignments, Sound(T),
         \/ Dequeue \/ BackwardSatisfied \/ BackwardSkip \/ BackwardSubsume
         \/ BackwardStrengthen \/ BackwardPass
  PROVE  Sound(T)'
<1>0. Base(T) /\ Removed(T) /\ Held(T)
  BY DEF Sound
<1>1. CASE Dequeue \/ BackwardSatisfied \/ BackwardSkip \/ BackwardSubsume
           \/ BackwardPass
  <2>1. /\ irr' \subseteq irr /\ red' = red /\ UNCHANGED <<units, unsat>>
        /\ UNCHANGED extension /\ UNCHANGED <<gate, private, reprs>>
        /\ pc' = "backward" /\ queue' \subseteq queue
        /\ cand' = cand \/ cand' \in queue
    <3>1. CASE Dequeue
      BY <3>1 DEF Dequeue, unitVars, stackVars, markVars
    <3>2. CASE BackwardSatisfied \/ BackwardSubsume
      BY <3>2 DEF BackwardSatisfied, BackwardSubsume, Comparing, unitVars,
                  stackVars, markVars
    <3>3. CASE BackwardSkip \/ BackwardPass
      BY <3>3 DEF BackwardSkip, BackwardPass, Comparing, unitVars, dbVars,
                  stackVars, markVars
    <3> QED
      BY <1>1, <3>1, <3>2, <3>3
  <2>2. cand' = cand \/ cand' \cap T # {}
    BY <1>0, <2>1 DEF Held
  <2>3. Base(T)'
    BY <1>0, <2>1, BaseFewer
  <2> QED
    BY <1>0, <2>1, <2>2, <2>3, TrialSound
<1>2. CASE BackwardStrengthen
  <2>1. PICK p \in todo : \E l \in Clashing(p[2]) :
          LET d == p[2]
              s == Rest(d) \ {l}
          IN /\ Comparing(p) /\ Matches(d)
             /\ \/ /\ irr' \subseteq irr /\ UNCHANGED <<units, unsat>>
                   /\ queue' = queue
                \/ /\ Cardinality(s) = 1 /\ Assign(s, FALSE)
                   /\ irr' = irr /\ queue' = queue
                \/ /\ irr' \subseteq irr \cup {d \ {l}}
                   /\ queue' \subseteq queue \cup {d \ {l}}
                   /\ UNCHANGED <<units, unsat>>
    BY <1>2 DEF BackwardStrengthen, Enqueue, unitVars
  <2>2. PICK l \in Clashing(p[2]) :
          /\ Comparing(p) /\ Matches(p[2])
          /\ \/ /\ irr' \subseteq irr /\ UNCHANGED <<units, unsat>>
                /\ queue' = queue
             \/ /\ Cardinality(Rest(p[2]) \ {l}) = 1
                /\ Assign(Rest(p[2]) \ {l}, FALSE)
                /\ irr' = irr /\ queue' = queue
             \/ /\ irr' \subseteq irr \cup {p[2] \ {l}}
                /\ queue' \subseteq queue \cup {p[2] \ {l}}
                /\ UNCHANGED <<units, unsat>>
    BY <2>1
  <2> DEFINE s == Rest(p[2]) \ {l}
             r == p[2] \ {l}
  <2>3. s \cap T # {} /\ r \cap T # {}
    BY <2>2, StrengthenedTrue
  <2>4. s \in Clause
    <3>1. p[2] \in Clause
      BY <2>2, MatchesRest, DBTrue, <1>0
    <3> QED
      BY <3>1 DEF Rest, Clause
  <2>5. /\ red' = red /\ pc' = "backward" /\ UNCHANGED extension
        /\ UNCHANGED <<gate, private, reprs, cand>>
    BY <1>2 DEF BackwardStrengthen, Comparing, stackVars, markVars
  <2>6. queue' \subseteq queue \cup {r}
    BY <2>2
  <2>7. Base(T)'
    <3>1. CASE Cardinality(s) = 1 /\ Assign(s, FALSE) /\ irr' = irr
      <4>1. Cardinality(s) = 1 /\ Assign(s, FALSE)
        BY <3>1
      <4> HIDE DEF s
      <4>2. s \in SUBSET T
        BY <2>3, <2>4, <4>1, UnitTrue
      <4> QED
        BY <1>0, <2>5, <3>1, <4>1, <4>2, BaseAssigned
    <3>2. CASE irr' \subseteq irr \cup {r} /\ UNCHANGED <<units, unsat>>
      <4>1. irr' \subseteq irr \cup {r} /\ red' \subseteq red \cup {r}
        BY <2>5, <3>2
      <4> HIDE DEF r
      <4> QED
        BY <1>0, <2>3, <3>2, <4>1, BaseAdded
    <3> QED
      BY <2>2, <3>1, <3>2
  <2>8. Held(T)'
    BY <1>0, <2>3, <2>5, <2>6 DEF Held
  <2> QED
    BY <1>0, <2>5, <2>7, <2>8, RemovedSame, DecidedElsewhere DEF Sound
<1> QED
  BY <1>1, <1>2

LEMMA SoundEliminating ==
  ASSUME Shapes, NEW T \in Assignments, Sound(T), Eliminating
  PROVE  Sound(T)'
  BY SoundRound, SoundGate, SoundResolve, SoundAdd, SoundBackward
     DEF Eliminating

-----------------------------------------------------------------------------
(* The clauses that are removed without being implied were, before. *)

\* A technique that only removes clauses.
LEMMA RemovingSound ==
  ASSUME NEW T, Base(T), Removed(T), UNCHANGED extension,
         UNCHANGED <<units, unsat>>, irr' \subseteq irr, red' \subseteq red,
         Held(T)', Decided(T)'
  PROVE  Sound(T)'
  BY BaseFewer, RemovedSame DEF Sound

LEMMA SoundBlock ==
  ASSUME Shapes, PivotFree, NEW T \in Assignments, Sound(T),
         \/ StartBlock \/ BlockLiteral \/ BlockClause \/ LiteralBlocked
         \/ BlockDone
  PROVE  Sound(T)'
<1>0. /\ Base(T) /\ Removed(T) /\ Held(T) /\ TypeStack /\ TypeJob
      /\ irr \subseteq Clause /\ \A c \in irr : c \cap T # {}
  BY DBTrue DEF Sound, Shapes
<1>1. CASE StartBlock
  <2>1. /\ irr' = {Rest(c) : c \in Open(irr)} /\ red' = {Rest(c) : c \in Open(red)}
        /\ UNCHANGED <<units, unsat>> /\ UNCHANGED extension /\ pc' = "block"
        /\ UNCHANGED <<queue, gate, cand, private, reprs>>
    BY <1>1 DEF StartBlock, Start, GoTo, unitVars, stackVars
  <2>2. \A d \in DB' : \E c \in DB : d = Rest(c)
    BY <2>1 DEF DB, Open
  <2>3. \A d \in DB' : d \cap T # {}
    BY <1>0, <2>2, RestTrue DEF Base
  <2>4. Base(T)'
    BY <1>0, <2>1, <2>3 DEF Base
  <2> QED
    BY <1>0, <2>1, <2>4, RemovedSame, HeldSame, DecidedElsewhere DEF Sound
<1>2. CASE BlockLiteral
  <2>1. /\ UNCHANGED <<units, unsat>> /\ UNCHANGED <<irr, red, extension>>
        /\ pc' = "blocking" /\ UNCHANGED <<gate, cand, private, reprs>>
    BY <1>2 DEF BlockLiteral, GoTo, dbVars, unitVars, stackVars, markVars
  <2>2. queue' \subseteq irr
    BY <1>2 DEF BlockLiteral, BlockedByOne, BlockedByMany, BlockCandidates, Occs
  <2>3. Held(T)'
    BY <1>0, <2>1, <2>2 DEF Held
  <2> QED
    BY <1>0, <2>1, <2>3, RemovingSound, DecidedElsewhere
<1>3. CASE BlockClause
  <2>1. PICK c \in queue :
          /\ Push(<<[witness |-> {pivot}, clause |-> c]>>)
          /\ irr' = irr \ {c} /\ queue' = queue \ {c}
    BY <1>3 DEF BlockClause
  <2>2. /\ UNCHANGED <<units, unsat, red>> /\ pc' = "blocking"
        /\ UNCHANGED <<gate, cand, private, reprs>>
    BY <1>3 DEF BlockClause, unitVars, markVars
  <2>3. c \in Clause /\ c \cap T # {} /\ {pivot} \in SUBSET Lit
    <3>1. c \in Clause /\ c \cap T # {} /\ pivot \in c
      BY <1>0, <1>3 DEF TypeJob, Held, PivotFree, BlockClause
    <3> QED
      BY <3>1, Clauses0
  <2>4. Base(T)'
    BY <1>0, <2>1, <2>2, BaseFewer
  <2>5. Removed(T)'
    <3> DEFINE w == {pivot}
    <3>1. w \in SUBSET Lit /\ Push(<<[witness |-> w, clause |-> c]>>)
      BY <2>1, <2>3
    <3> HIDE DEF w
    <3> QED
      BY <1>0, <2>3, <3>1, RemovedOne
  <2>6. Held(T)'
    BY <1>0, <2>1, <2>2 DEF Held
  <2> QED
    BY <2>2, <2>4, <2>5, <2>6, DecidedElsewhere DEF Sound
<1>4. CASE LiteralBlocked
  <2>1. /\ UNCHANGED <<units, unsat, extension, irr, red>> /\ pc' = "block"
        /\ UNCHANGED <<queue, gate, cand, private, reprs>>
    BY <1>4 DEF LiteralBlocked, GoTo, dbVars, stackVars, markVars
  <2> QED
    BY <1>0, <2>1, RemovingSound, HeldSame, DecidedElsewhere
<1>5. CASE BlockDone
  <2>1. /\ UNCHANGED <<units, unsat, extension, irr>> /\ red' \subseteq red
        /\ NoJob /\ pc' = "simplify"
    BY <1>5 DEF BlockDone, GoTo, unitVars, stackVars
  <2> QED
    BY <1>0, <2>1, RemovingSound, JobGone
<1> QED
  BY <1>1, <1>2, <1>3, <1>4, <1>5

LEMMA SoundCover ==
  ASSUME Shapes, NEW T \in Assignments, Sound(T),
         \/ StartCover \/ CoverClause \/ CoverAsymmetric \/ CoverLiteral
         \/ ClauseCovered
  PROVE  Sound(T)'
<1>0. /\ Base(T) /\ Removed(T) /\ Held(T) /\ TypeStack /\ TypeJob
      /\ irr \subseteq Clause /\ \A c \in irr : c \cap T # {}
  BY DBTrue DEF Sound, Shapes
<1>1. CASE StartCover
  <2>1. /\ irr' \subseteq irr /\ red' = red /\ UNCHANGED <<units, unsat>>
        /\ UNCHANGED extension /\ pc' = "cover" /\ queue' \subseteq irr
        /\ UNCHANGED <<gate, cand, private, reprs>>
    BY <1>1 DEF StartCover, Start, Open, GoTo, unitVars, stackVars, markVars
  <2>2. Held(T)'
    BY <1>0, <2>1 DEF Held
  <2> QED
    BY <1>0, <2>1, <2>2, RemovingSound, DecidedElsewhere
<1>2. CASE CoverClause
  <2>1. PICK c \in queue : /\ cand' = c /\ queue' = queue \ {c}
                           /\ marked' = Rest(c)
    BY <1>2 DEF CoverClause
  <2>2. /\ irr' = irr /\ red' = red /\ UNCHANGED <<units, unsat, extension>>
        /\ pc' = "covering" /\ UNCHANGED <<gate, private, reprs>>
    BY <1>2 DEF CoverClause, GoTo, dbVars, unitVars, stackVars
  <2>3. c \cap T # {} /\ Rest(c) \cap T # {}
    BY <1>0, RestTrue DEF Held
  <2>4. Held(T)'
    BY <1>0, <2>1, <2>2, <2>3 DEF Held
  <2> QED
    BY <1>0, <2>2, <2>4, RemovingSound, DecidedElsewhere
<1>3. CASE CoverAsymmetric
  <2>1. /\ irr' = irr /\ red' = red /\ UNCHANGED <<units, unsat, extension>>
        /\ pc = "covering" /\ pc' = "covering"
        /\ UNCHANGED <<queue, gate, cand, private, reprs, marked>>
    BY <1>3 DEF CoverAsymmetric, dbVars, unitVars, stackVars
  <2>2. Held(T)'
    BY <1>0, <2>1 DEF Held
  <2> QED
    BY <1>0, <2>1, <2>2, RemovingSound, DecidedElsewhere
<1>4. CASE CoverLiteral
  <2>1. /\ irr' = irr /\ red' = red /\ UNCHANGED <<units, unsat, extension>>
        /\ pc = "covering" /\ pc' \in {"covering", "covered"}
        /\ UNCHANGED <<queue, gate, cand, reprs>>
        /\ marked \subseteq marked'
        /\ \/ private' = private
           \/ \E l \in work : private' = Append(private, Covered(l))
    BY <1>4 DEF CoverLiteral, GoTo, dbVars, unitVars, stackVars
  <2>2. marked \cap T # {}
    BY <1>0, <2>1 DEF Held
  <2>3. \A i \in DOMAIN private' : (private')[i].clause \cap T # {}
    <3>1. CASE private' = private
      BY <1>0, <3>1, Zenon DEF Held
    <3>2. CASE \E l \in work : private' = Append(private, Covered(l))
      <4>1. PICK l \in work : private' = Append(private, Covered(l))
        BY <3>2
      <4> DEFINE e == Covered(l)
      <4>2. e.clause = marked
        BY DEF Covered
      <4> HIDE DEF e
      <4>3. \A i \in DOMAIN private' :
              \/ i \in DOMAIN private /\ (private')[i] = private[i]
              \/ (private')[i] = e
        <5>1. private \in Seq(Entries)
          BY <1>0 DEF TypeJob
        <5>2. private' = Append(private, e)
          BY <4>1 DEF e
        <5> QED
          BY <5>1, <5>2, SMT
      <4> QED
        BY <1>0, <2>2, <4>2, <4>3, Zenon DEF Held
    <3> QED
      BY <2>1, <3>1, <3>2
  <2>4. Held(T)'
    BY <1>0, <2>1, <2>2, <2>3 DEF Held
  <2> QED
    BY <1>0, <2>1, <2>4, RemovingSound, DecidedElsewhere
<1>5. CASE ClauseCovered
  <2>1. /\ cand' = {} /\ private' = <<>> /\ pc' = "cover" /\ red' = red
        /\ UNCHANGED <<units, unsat, queue, gate, reprs>>
    BY <1>5 DEF ClauseCovered, GoTo, unitVars
  <2>2. \/ Push(Entries1) /\ irr' = irr \ {cand}
        \/ UNCHANGED <<extension, irr>>
    BY <1>5 DEF ClauseCovered, stackVars
  <2>3. Removed(T)'
    <3>1. CASE Push(Entries1)
      <4>1. Entries1 \in Seq(Entries)
        BY <1>0, PushedEntries
      <4>2. \A i \in DOMAIN Entries1 : Entries1[i].clause \cap T # {}
        <5> SUFFICES ASSUME NEW i \in DOMAIN Entries1
                     PROVE  Entries1[i].clause \cap T # {}
          OBVIOUS
        <5>1. i \in DOMAIN private
          BY DEF Entries1
        <5>2. private[i] \in Entries
          BY <1>0, <5>1, SMT DEF TypeJob
        <5>3. private[i].clause \subseteq Entries1[i].clause
          BY <5>1, <5>2 DEF Entries1, Entries
        <5>4. private[i].clause \cap T # {}
          BY <1>0, <5>1, Zenon DEF Held
        <5> QED
          BY <5>3, <5>4
      <4> DEFINE s == Entries1
      <4> HIDE DEF s
      <4>3. s \in Seq(Entries) /\ Push(s) /\ \A i \in DOMAIN s : s[i].clause \cap T # {}
        BY <3>1, <4>1, <4>2 DEF s
      <4> QED
        BY <1>0, <4>3, RemovedPushed
    <3>2. CASE UNCHANGED extension
      BY <1>0, <3>2, RemovedSame
    <3> QED
      BY <2>2, <3>1, <3>2
  <2>4. Base(T)'
    BY <1>0, <2>1, <2>2, BaseFewer
  <2>5. Held(T)'
    BY <1>0, <2>1 DEF Held
  <2> QED
    BY <2>1, <2>3, <2>4, <2>5, DecidedElsewhere DEF Sound
<1> QED
  BY <1>1, <1>2, <1>3, <1>4, <1>5


LEMMA SoundCondition ==
  ASSUME Shapes, NEW T \in Assignments, Sound(T),
         \/ StartCondition \/ ConditionClause \/ ConditionUnassign
         \/ ConditionDone \/ RoundDone
  PROVE  Sound(T)'
<1>0. /\ Base(T) /\ Removed(T) /\ Held(T) /\ TypeStack /\ TypeJob
      /\ irr \subseteq Clause /\ \A c \in irr : c \cap T # {}
  BY DBTrue DEF Sound, Shapes
<1>1. CASE StartCondition \/ ConditionClause \/ ConditionUnassign
  <2>1. /\ irr' \subseteq irr /\ red' = red
        /\ UNCHANGED <<units, unsat, extension, private, reprs>>
        /\ queue' \subseteq queue \cup irr /\ gate' \subseteq gate \cup irr
        /\ pc' \in {"condition", "conditioning"}
        /\ cand' = cand \/ cand' \in queue
    <3>1. CASE StartCondition
      <4>1. /\ irr' = Open(irr) /\ gate' = Open(irr) /\ queue' \subseteq Open(irr)
        BY <3>1 DEF StartCondition
      <4>2. /\ red' = red /\ pc' = "condition" /\ cand' = cand
            /\ UNCHANGED <<units, unsat, extension, private, reprs>>
        BY <3>1 DEF StartCondition, Start, GoTo, unitVars, stackVars
      <4> QED
        BY <4>1, <4>2 DEF Open
    <3>2. CASE ConditionClause
      BY <3>2 DEF ConditionClause, GoTo, dbVars, unitVars, stackVars, markVars
    <3>3. CASE ConditionUnassign
      BY <3>3 DEF ConditionUnassign, dbVars, unitVars, stackVars
    <3> QED
      BY <1>1, <3>1, <3>2, <3>3
  <2>2. Held(T)'
    BY <1>0, <2>1 DEF Held
  <2> QED
    BY <1>0, <2>1, <2>2, RemovingSound, DecidedElsewhere
<1>2. CASE ConditionDone
  <2>1. /\ red' = red /\ UNCHANGED <<units, unsat, private, reprs, queue, gate>>
        /\ pc' = "condition" /\ cand' = {}
    BY <1>2 DEF ConditionDone, GoTo, unitVars
  <2>2. \/ /\ cand \cap Autarky # {} /\ irr' = irr \ {cand}
           /\ Push(<<[witness |-> Autarky, clause |-> cand]>>)
        \/ UNCHANGED <<extension, irr>>
    BY <1>2 DEF ConditionDone, stackVars
  <2>3. Removed(T)'
    <3>1. CASE UNCHANGED extension
      BY <1>0, <3>1, RemovedSame
    <3>2. CASE /\ cand \cap Autarky # {}
               /\ Push(<<[witness |-> Autarky, clause |-> cand]>>)
      <4>1. Autarky \in SUBSET Lit /\ cand \in Clause
        BY <1>0 DEF Autarky, TypeJob
      <4>2. cand \cap T # {}
        BY <1>0, <3>2 DEF Held
      <4> DEFINE w == Autarky
      <4>3. w \in SUBSET Lit /\ Push(<<[witness |-> w, clause |-> cand]>>)
        BY <3>2, <4>1
      <4> HIDE DEF w
      <4> QED
        BY <1>0, <4>1, <4>2, <4>3, RemovedOne
    <3> QED
      BY <2>2, <3>1, <3>2
  <2>4. Base(T)'
    BY <1>0, <2>1, <2>2, BaseFewer
  <2>5. Held(T)'
    BY <1>0, <2>1 DEF Held
  <2> QED
    BY <2>1, <2>3, <2>4, <2>5, DecidedElsewhere DEF Sound
<1>3. CASE RoundDone
  <2>1. /\ UNCHANGED <<units, unsat, extension, irr, red>>
        /\ NoJob /\ pc' = "simplify"
    BY <1>3 DEF RoundDone, GoTo, dbVars, unitVars, stackVars
  <2> QED
    BY <1>0, <2>1, RemovingSound, JobGone
<1> QED
  BY <1>1, <1>2, <1>3

LEMMA SoundBlocks ==
  ASSUME Shapes, PivotFree, NEW T \in Assignments, Sound(T), Blocks
  PROVE  Sound(T)'
  BY SoundBlock, SoundCover, SoundCondition DEF Blocks

-----------------------------------------------------------------------------
(* Substitution, binary clauses and probing derive what is implied. *)

\* Equivalent literals are both true or both false.
LEMMA ComponentTrue ==
  ASSUME Shapes, NEW T \in Assignments, Base(T), NEW l \in Lit,
         NEW k \in Component(l)
  PROVE  k \in T <=> l \in T
<1> DEFINE F == Implications
<1>1. F \in SUBSET Clause /\ \A c \in F : c \cap T # {}
  <2>1. DB \subseteq Clause /\ \A c \in DB : c \cap T # {}
    BY DBTrue
  <2> QED
    BY <2>1 DEF Implications, Binaries
<1>2. k \in Reached(F, l) /\ l \in Reached(F, k)
  BY DEF Component
<1> HIDE DEF F
<1>3. l \in T => Reached(F, l) \subseteq T
  BY <1>1, ReachedTrue
<1>4. k \in T => Reached(F, k) \subseteq T
  BY <1>1, ReachedTrue
<1> QED
  BY <1>2, <1>3, <1>4

LEMMA ReprTrue ==
  ASSUME Shapes, NEW T \in Assignments, Base(T), NEW l \in Lit
  PROVE  Repr(l) \in T <=> l \in T
<1>1. TypeDB
  BY DEF Shapes
<1>2. CASE Replaceable(l)
  BY <1>1, <1>2, ReprChosen, ComponentTrue
<1>3. CASE ~Replaceable(l)
  BY <1>1, <1>3, ReprChosen
<1> QED
  BY <1>2, <1>3

LEMMA NoContradiction ==
  ASSUME Shapes, NEW T \in Assignments, Base(T), NEW l \in Lit
  PROVE  -l \notin Component(l)
BY ComponentTrue, Negation2

\* The representatives of the literals of a satisfied clause.
LEMMA ReplacedTrue ==
  ASSUME NEW T \in Assignments, Base(T), Held(T), NEW c \in Clause,
         c \cap T # {}
  PROVE  Rest({reprs[l] : l \in Rest(c)}) \cap T # {}
<1> DEFINE replaced == {reprs[l] : l \in Rest(c)}
<1>1. PICK l \in Rest(c) : l \in T
  BY RestTrue
<1>2. reprs[l] \in T
  BY <1>1, Negation2 DEF Held
<1>3. replaced \cap T # {}
  BY <1>1, <1>2
<1> HIDE DEF replaced
<1>4. Rest(replaced) \cap T # {}
  BY <1>3, RestTrue
<1> QED
  BY <1>4 DEF replaced

LEMMA SoundSubstitute ==
  ASSUME Shapes, NEW T \in Assignments, Sound(T),
         \/ Contradiction \/ StartDecompose \/ PushEquivalence
         \/ SubstituteClause \/ ClausesSubstituted \/ Substituted
  PROVE  Sound(T)'
<1>0. /\ Base(T) /\ Removed(T) /\ Held(T) /\ TypeStack /\ TypeJob
      /\ DB \subseteq Clause /\ \A c \in DB : c \cap T # {}
  BY DBTrue DEF Sound, Shapes
<1>1. CASE Contradiction
  <2>1. PICK l \in Lit : -l \in Component(l)
    BY <1>1 DEF Contradiction
  <2> QED
    BY <1>0, <2>1, NoContradiction
<1>2. CASE StartDecompose
  <2>1. /\ pc' = "represent" /\ UNCHANGED dbVars /\ UNCHANGED unitVars
        /\ UNCHANGED stackVars /\ UNCHANGED <<cand, gate, private>>
        /\ reprs' = [l \in Lit |-> Repr(l)] /\ queue' \subseteq DB
    BY <1>2 DEF StartDecompose, Start, GoTo
  <2>2. Base(T)'
    BY <1>0, <2>1, BaseFewer DEF dbVars, unitVars
  <2>3. \A l \in Lit : (reprs')[l] \in T <=> l \in T
    BY <1>0, <2>1, ReprTrue
  <2>4. Held(T)'
    BY <1>0, <2>1, <2>3 DEF Held
  <2> QED
    BY <1>0, <2>1, <2>2, <2>4, RemovedSame, DecidedElsewhere DEF Sound, stackVars
<1>3. CASE PushEquivalence
  <2>1. /\ pc = "represent" /\ pc' = pc /\ UNCHANGED dbVars /\ UNCHANGED unitVars
        /\ UNCHANGED <<cand, queue, gate, private, reprs>>
    BY <1>3 DEF PushEquivalence, markVars
  <2>2. PICK v \in work : Push(EquivalenceEntries(v))
    BY <1>3 DEF PushEquivalence
  <2>3. /\ v \in Lit /\ -v \in Lit /\ reprs[v] \in Lit /\ -reprs[v] \in Lit
    <3>1. v \in Lit /\ reprs[v] \in Lit
      BY <1>0 DEF TypeJob
    <3> QED
      BY <3>1, Literals
  <2> DEFINE s == EquivalenceEntries(v)
             e == [witness |-> {-v}, clause |-> {-v, reprs[v]}]
             f == [witness |-> {v}, clause |-> {v, -reprs[v]}]
  <2>4. e \in Entries /\ f \in Entries
    BY <2>3 DEF Entries, Clause
  <2>5. s = <<e, f>>
    BY DEF EquivalenceEntries
  <2>6. e.clause \cap T # {} /\ f.clause \cap T # {}
    <3>1. reprs[v] \in T <=> v \in T
      BY <1>0, <2>3 DEF Held
    <3>2. -v \in T <=> v \notin T
      BY <2>3, Negation2
    <3>3. -reprs[v] \in T <=> reprs[v] \notin T
      BY <2>3, Negation2
    <3> QED
      BY <3>1, <3>2, <3>3
  <2>7. /\ s \in Seq(Entries) /\ Push(s)
        /\ \A i \in DOMAIN s : s[i].clause \cap T # {}
    <3> HIDE DEF e, f
    <3>1. s \in Seq(Entries) /\ Push(s)
      BY <2>2, <2>4, <2>5, TwoEntries
    <3>2. \A i \in DOMAIN s : s[i] = e \/ s[i] = f
      BY <2>5, SMT
    <3> QED
      BY <2>6, <3>1, <3>2
  <2>8. Removed(T)'
    <3> HIDE DEF s
    <3> QED
      BY <1>0, <2>7, RemovedPushed
  <2>9. Base(T)'
    BY <1>0, <2>1, BaseFewer DEF dbVars, unitVars
  <2>10. Held(T)'
    BY <1>0, <2>1, HeldSame
  <2> QED
    BY <2>1, <2>8, <2>9, <2>10, DecidedElsewhere DEF Sound
<1>4. CASE SubstituteClause
  <2>1. /\ pc = "represent" /\ pc' = pc /\ UNCHANGED stackVars
        /\ UNCHANGED <<cand, private, reprs>>
    BY <1>4 DEF SubstituteClause, markVars
  <2>2. PICK c \in queue :
          LET replaced == {reprs[l] : l \in Rest(c)}
              r        == Rest(replaced)
          IN /\ queue' = queue \ {c}
             /\ IF Dropped(c, replaced)
                THEN /\ gate' = gate \cup {c}
                     /\ UNCHANGED <<dbVars, unitVars>>
                ELSE IF Cardinality(r) < 2
                THEN /\ Assign(r, r = {})
                     /\ irr' = irr \ {c} /\ red' = red \ {c} /\ UNCHANGED gate
                ELSE /\ irr' = Replace(irr, c, r) /\ red' = Replace(red, c, r)
                     /\ UNCHANGED <<unitVars, gate>>
    BY <1>4 DEF SubstituteClause
  <2> DEFINE replaced == {reprs[l] : l \in Rest(c)}
             r == Rest(replaced)
             empty == r = {}
  <2>3. /\ c \in Clause /\ c \cap T # {} /\ r \cap T # {} /\ r \in Clause
    <3>1. c \in Clause /\ c \cap T # {}
      BY <1>0 DEF TypeJob, Held
    <3>2. \A l \in Rest(c) : l \in Lit
      BY <3>1, Clauses0
    <3>3. reprs \in [Lit -> Lit]
      BY <1>0 DEF TypeJob
    <3>4. replaced \in Clause
      BY <3>2, <3>3 DEF Clause
    <3>5. r \cap T # {}
      BY <1>0, <3>1, ReplacedTrue
    <3> QED
      BY <3>1, <3>4, <3>5, Clauses0
  <2>4. Held(T)'
    <3>1. queue' \subseteq queue /\ gate' \subseteq gate \cup {c}
      BY <2>2
    <3> QED
      BY <1>0, <2>1, <2>3, <3>1 DEF Held
  <2>5. Base(T)'
    <3>1. CASE Dropped(c, replaced)
      BY <1>0, <2>2, <3>1, BaseFewer DEF dbVars, unitVars
    <3>2. CASE ~Dropped(c, replaced) /\ Cardinality(r) < 2
      <4>1. Assign(r, empty) /\ irr' \subseteq irr /\ red' \subseteq red
        BY <2>2, <3>2
      <4>2. ~empty /\ Cardinality(r) = 1
        <5>1. r # {}
          BY <2>3
        <5> QED
          BY <2>3, <3>2, <5>1, Clauses0, FS_EmptySet
      <4>3. r \in SUBSET T
        <5> HIDE DEF r
        <5> QED
          BY <2>3, <4>2, UnitTrue
      <4> HIDE DEF r, empty
      <4> QED
        BY <1>0, <4>1, <4>2, <4>3, BaseAssigned
    <3>3. CASE ~Dropped(c, replaced) /\ ~(Cardinality(r) < 2)
      <4>1. /\ irr' = Replace(irr, c, r) /\ red' = Replace(red, c, r)
            /\ UNCHANGED unitVars
        BY <2>2, <3>3
      <4> HIDE DEF r
      <4>2. irr' \subseteq irr \cup {r} /\ red' \subseteq red \cup {r}
        BY <4>1 DEF Replace
      <4> QED
        BY <1>0, <2>3, <4>1, <4>2, BaseAdded DEF unitVars
    <3> QED
      BY <3>1, <3>2, <3>3
  <2> QED
    BY <1>0, <2>1, <2>4, <2>5, RemovedSame, DecidedElsewhere DEF Sound, stackVars
<1>5. CASE ClausesSubstituted
  <2>1. /\ pc' = "propagate" /\ irr' \subseteq irr /\ red' \subseteq red
        /\ UNCHANGED unitVars /\ UNCHANGED stackVars /\ UNCHANGED jobVars
    BY <1>5 DEF ClausesSubstituted, PropagateThen
  <2> QED
    BY <1>0, <2>1, BaseFewer, RemovedSame, JobSame DEF Sound, unitVars, stackVars
<1>6. CASE Substituted
  <2>1. /\ pc' = "propagate" /\ NoJob /\ UNCHANGED dbVars
        /\ UNCHANGED <<units, unsat>> /\ UNCHANGED stackVars
    BY <1>6 DEF Substituted, PropagateThen
  <2> QED
    BY <1>0, <2>1, BaseFewer, RemovedSame, JobGone DEF Sound, dbVars, stackVars
<1> QED
  BY <1>1, <1>2, <1>3, <1>4, <1>5, <1>6

\* A technique that takes one clause or literal leaves the stack and the job.
LEMMA Start1Sound ==
  ASSUME NEW T, Sound(T), NEW technique, Start1(technique), Base(T)',
         pc' \in {"simplify", "propagate"}
  PROVE  Sound(T)'
<1>1. UNCHANGED extension /\ UNCHANGED jobVars
  BY DEF Start1, Start, stackVars
<1> QED
  BY <1>1, RemovedSame, JobSame DEF Sound

LEMMA SoundBinary ==
  ASSUME Shapes, NEW T \in Assignments, Sound(T),
         \/ Ternary \/ Deduplicate \/ HyperUnary \/ Transitive
         \/ TransitiveFailed
  PROVE  Sound(T)'
<1>0. Base(T) /\ DB \subseteq Clause /\ \A c \in DB : c \cap T # {}
  BY DBTrue DEF Sound
<1>1. CASE Ternary
  <2>1. pc' = "propagate" /\ UNCHANGED unitVars /\ Start1("ternary")
    BY <1>1 DEF Ternary, PropagateThen
  <2>2. PICK c \in DB, d \in DB : \E l \in c :
          LET r == Resolvent(c, d, l)
              redundant == Cardinality(r) = 3 \/ {c, d} \cap irr = {}
              subsumed == IF Cardinality(r) = 2 THEN {c, d} ELSE {}
          IN /\ irr' = (irr \ subsumed) \cup (IF redundant THEN {} ELSE {r})
             /\ red' = (red \ subsumed) \cup (IF redundant THEN {r} ELSE {})
    BY <1>1 DEF Ternary
  <2>3. PICK l \in c :
          LET r == Resolvent(c, d, l)
              redundant == Cardinality(r) = 3 \/ {c, d} \cap irr = {}
              subsumed == IF Cardinality(r) = 2 THEN {c, d} ELSE {}
          IN /\ irr' = (irr \ subsumed) \cup (IF redundant THEN {} ELSE {r})
             /\ red' = (red \ subsumed) \cup (IF redundant THEN {r} ELSE {})
    BY <2>2
  <2> DEFINE r == Resolvent(c, d, l)
  <2>4. irr' \subseteq irr \cup {r} /\ red' \subseteq red \cup {r}
    BY <2>3
  <2>5. r \cap T # {}
    BY <1>0, ResolventTrue
  <2>6. Base(T)'
    <3> HIDE DEF r
    <3> QED
      BY <1>0, <2>1, <2>4, <2>5, BaseAdded DEF unitVars
  <2> QED
    BY <2>1, <2>6, Start1Sound
<1>2. CASE Deduplicate \/ Transitive
  <2>1. /\ pc' = "simplify" /\ UNCHANGED unitVars
        /\ Start1("dedup") \/ Start1("transred")
        /\ irr' \subseteq irr /\ red' \subseteq red
    BY <1>2 DEF Deduplicate, Transitive, GoTo
  <2>2. Base(T)'
    BY <1>0, <2>1, BaseFewer DEF unitVars
  <2> QED
    BY <2>1, <2>2, Start1Sound
<1>3. CASE HyperUnary \/ TransitiveFailed
  <2>1. /\ pc' = "propagate" /\ UNCHANGED dbVars
        /\ Start1("dedup") \/ Start1("transred")
    BY <1>3 DEF HyperUnary, TransitiveFailed, PropagateThen
  <2>2. \E l \in Lit : l \in T /\ Assign({l}, FALSE)
    <3>1. CASE HyperUnary
      <4>1. PICK l \in Lit, k \in Lit : /\ {{l, k}, {l, -k}} \subseteq Binaries(DB)
                                        /\ Assign({l}, FALSE)
        BY <3>1 DEF HyperUnary
      <4>2. {l, k} \cap T # {} /\ {l, -k} \cap T # {}
        BY <1>0, <4>1 DEF Binaries
      <4> QED
        BY <4>1, <4>2, UnitOfTwo
    <3>2. CASE TransitiveFailed
      <4>1. PICK c \in Binaries(DB), l \in Lit, k \in Lit, irredundant \in BOOLEAN :
              /\ {k, -k} \subseteq Reached(Path(c, irredundant), -l)
              /\ Assign({l}, FALSE)
        BY <3>2 DEF TransitiveFailed
      <4> DEFINE F == Path(c, irredundant)
                 m == -l
      <4>2. F \in SUBSET Clause /\ \A b \in F : b \cap T # {}
        BY <1>0 DEF Path, DB
      <4>3. {k, -k} \subseteq Reached(F, m)
        BY <4>1
      <4>4. m \notin T
        <5> HIDE DEF F, m
        <5>1. m \in T => Reached(F, m) \subseteq T
          BY <4>2, ReachedTrue
        <5> QED
          BY <4>3, <5>1, Negation2
      <4> QED
        BY <4>1, <4>4, Negation2
    <3> QED
      BY <1>3, <3>1, <3>2
  <2>3. PICK l \in T : Assign({l}, FALSE)
    BY <2>2
  <2> DEFINE ls == {l}
  <2>4. ls \in SUBSET T /\ Assign(ls, FALSE)
    BY <2>3
  <2>5. Base(T)'
    <3> HIDE DEF ls
    <3> QED
      BY <1>0, <2>1, <2>4, BaseAssigned DEF dbVars
  <2> QED
    BY <2>1, <2>5, Start1Sound
<1> QED
  BY <1>1, <1>2, <1>3

\* A dominator that is true makes the literals it dominates true.
LEMMA DominatorTrue ==
  ASSUME Shapes, NEW T \in Assignments, Base(T), NEW ls,
         NEW dom \in Dominators(ls \ units), dom \in T
  PROVE  ls \subseteq T
<1> DEFINE F == DB
<1>1. F \in SUBSET Clause /\ \A c \in F : c \cap T # {}
  BY DBTrue
<1>2. ls \ units \subseteq Reached(F, dom)
  BY DEF Dominators
<1> HIDE DEF F
<1>3. Reached(F, dom) \subseteq T
  BY <1>1, ReachedTrue
<1> QED
  BY <1>2, <1>3 DEF Base

\* A satisfied clause has a literal that is not false.
LEMMA OthersFalse ==
  ASSUME NEW T \in Assignments, NEW c, c \cap T # {}, NEW l,
         Negated(c \ {l}) \subseteq T
  PROVE  l \in c /\ l \in T
<1>1. PICK k \in c : k \in T
  OBVIOUS
<1>2. -k \notin T
  BY <1>1, Negation2
<1> QED
  BY <1>1, <1>2 DEF Negated

LEMMA SoundProbe ==
  ASSUME Shapes, NEW T \in Assignments, Sound(T),
         \/ StartProbe \/ ProbeBinary \/ ProbeLong \/ FailedLiteral \/ Probed
  PROVE  Sound(T)'
<1>0. /\ Base(T) /\ Removed(T) /\ Held(T) /\ TypeJob
      /\ DB \subseteq Clause /\ \A c \in DB : c \cap T # {}
  BY DBTrue DEF Sound, Shapes
<1>1. CASE StartProbe \/ ProbeBinary
  <2>1. /\ pc' = "probe" /\ UNCHANGED dbVars /\ UNCHANGED unitVars
        /\ UNCHANGED stackVars /\ UNCHANGED <<queue, gate, cand, private, reprs>>
    BY <1>1 DEF StartProbe, ProbeBinary, Probing, Start, GoTo
  <2>2. Base(T)'
    BY <1>0, <2>1, BaseFewer DEF dbVars, unitVars
  <2> QED
    BY <1>0, <2>1, <2>2, RemovedSame, HeldSame, DecidedElsewhere
    DEF Sound, stackVars
<1>2. CASE ProbeLong
  <2>1. /\ pc' = "probe" /\ UNCHANGED unitVars /\ UNCHANGED stackVars
        /\ UNCHANGED <<queue, gate, cand, private, reprs>>
    BY <1>2 DEF ProbeLong, Probing
  <2>2. PICK c \in DB : \E l \in c :
          LET others == Negated(c \ {l}) \ units
          IN \/ UNCHANGED dbVars
             \/ \E dom \in Dominators(others) :
                  /\ irr' \subseteq irr \cup {{-dom, l}}
                  /\ red' \subseteq red \cup {{-dom, l}}
    <3>1. PICK c \in DB : \E l \in c :
            LET others == Negated(c \ {l}) \ units
            IN IF Cardinality(others) = 1 THEN UNCHANGED dbVars
               ELSE \E dom \in Dominators(others) :
                    LET redundant == ~Contained(dom, c) \/ c \notin irr
                        removed == IF Contained(dom, c) THEN {c} ELSE {}
                        binary == {{-dom, l}}
                    IN /\ irr' = (irr \ removed) \cup
                                 (IF redundant THEN {} ELSE binary)
                       /\ red' = (red \ removed) \cup
                                 (IF redundant THEN binary ELSE {})
      BY <1>2, Zenon DEF ProbeLong
    <3>2. ASSUME NEW removed, NEW redundant, NEW b,
                 irr' = (irr \ removed) \cup (IF redundant THEN {} ELSE {b}),
                 red' = (red \ removed) \cup (IF redundant THEN {b} ELSE {})
          PROVE  irr' \subseteq irr \cup {b} /\ red' \subseteq red \cup {b}
      BY <3>2
    <3> QED
      BY <3>1, <3>2, Zenon
  <2>3. PICK l \in c :
          \/ UNCHANGED dbVars
          \/ \E dom \in Dominators(Negated(c \ {l}) \ units) :
               /\ irr' \subseteq irr \cup {{-dom, l}}
               /\ red' \subseteq red \cup {{-dom, l}}
    BY <2>2
  <2>4. Base(T)'
    <3>1. CASE UNCHANGED dbVars
      BY <1>0, <2>1, <3>1, BaseFewer DEF dbVars, unitVars
    <3>2. CASE \E dom \in Dominators(Negated(c \ {l}) \ units) :
                 /\ irr' \subseteq irr \cup {{-dom, l}}
                 /\ red' \subseteq red \cup {{-dom, l}}
      <4>1. PICK dom \in Dominators(Negated(c \ {l}) \ units) :
                 /\ irr' \subseteq irr \cup {{-dom, l}}
                 /\ red' \subseteq red \cup {{-dom, l}}
        BY <3>2
      <4> DEFINE b == {-dom, l}
      <4>2. dom \in Lit
        BY <1>0 DEF Dominators, TypeJob
      <4>3. b \cap T # {}
        <5>1. CASE dom \in T
          <6>1. Negated(c \ {l}) \subseteq T
            BY <1>0, <5>1, DominatorTrue
          <6> QED
            BY <1>0, <6>1, OthersFalse
        <5>2. CASE dom \notin T
          BY <4>2, <5>2, Negation2
        <5> QED
          BY <5>1, <5>2
      <4>4. irr' \subseteq irr \cup {b} /\ red' \subseteq red \cup {b}
        BY <4>1
      <4> HIDE DEF b
      <4> QED
        BY <1>0, <2>1, <4>3, <4>4, BaseAdded DEF unitVars
    <3> QED
      BY <2>3, <3>1, <3>2
  <2> QED
    BY <1>0, <2>1, <2>4, RemovedSame, HeldSame, DecidedElsewhere
    DEF Sound, stackVars
<1>3. CASE FailedLiteral
  <2>1. /\ pc' = "propagate" /\ NoJob /\ UNCHANGED dbVars /\ UNCHANGED stackVars
    BY <1>3 DEF FailedLiteral, PropagateThen
  <2>2. PICK c \in DB : \E uip \in Dominators(Negated(c) \ units) :
          Assign({-uip}, FALSE)
    BY <1>3 DEF FailedLiteral
  <2>3. PICK uip \in Dominators(Negated(c) \ units) : Assign({-uip}, FALSE)
    BY <2>2
  <2>4. uip \in Lit
    BY <1>0 DEF Dominators, TypeJob
  <2>5. uip \notin T
    <3> SUFFICES ASSUME uip \in T
                 PROVE  FALSE
      OBVIOUS
    <3>1. Negated(c) \subseteq T
      BY <1>0, DominatorTrue
    <3>2. PICK k \in c : k \in T
      BY <1>0
    <3>3. -k \notin T
      BY <3>2, Negation2
    <3> QED
      BY <3>1, <3>3 DEF Negated
  <2> DEFINE ls == {-uip}
  <2>6. ls \in SUBSET T /\ Assign(ls, FALSE)
    BY <2>3, <2>4, <2>5, Negation2
  <2>7. Base(T)'
    <3> HIDE DEF ls
    <3> QED
      BY <1>0, <2>1, <2>6, BaseAssigned DEF dbVars
  <2> QED
    BY <1>0, <2>1, <2>7, RemovedSame, JobGone DEF Sound, stackVars
<1>4. CASE Probed
  <2>1. /\ pc' = "simplify" /\ NoJob /\ UNCHANGED dbVars /\ UNCHANGED unitVars
        /\ UNCHANGED stackVars
    BY <1>4 DEF Probed, Probing, GoTo
  <2>2. Base(T)'
    BY <1>0, <2>1, BaseFewer DEF dbVars, unitVars
  <2> QED
    BY <1>0, <2>1, <2>2, RemovedSame, JobGone DEF Sound, stackVars
<1> QED
  BY <1>1, <1>2, <1>3, <1>4

LEMMA SoundReduces ==
  ASSUME Shapes, NEW T \in Assignments, Sound(T), Reduces
  PROVE  Sound(T)'
  BY SoundSubstitute, SoundBinary, SoundProbe DEF Reduces

-----------------------------------------------------------------------------
(* Subsumption, vivification and instantiation derive what is implied. *)

LEMMA SoundSubsume ==
  ASSUME Shapes, NEW T \in Assignments, Sound(T),
         Subsume \/ Strengthen \/ VivifyFlush \/ VivifySatisfied
  PROVE  Sound(T)'
<1>0. /\ Base(T) /\ TypeDB /\ DB \subseteq Clause /\ \A c \in DB : c \cap T # {}
  BY DBTrue DEF Sound, Shapes
<1>1. pc' = "simplify" /\ UNCHANGED unitVars
  BY DEF Subsume, Strengthen, VivifyFlush, VivifySatisfied, GoTo
<1>2. PICK technique \in {"subsume", "vivify"} : Start1(technique)
  BY DEF Subsume, Strengthen, VivifyFlush, VivifySatisfied
<1>3. SUFFICES Base(T)'
  BY <1>1, <1>2, Start1Sound
<1>4. CASE Subsume
  <2>1. PICK fromRed \in BOOLEAN, toRed \in BOOLEAN :
          \E d \in Of(fromRed), c \in Of(toRed) :
            /\ irr' = (IF toRed THEN irr ELSE irr \ {c}) \cup
                      (IF Promoted(fromRed, toRed) THEN {d} ELSE {})
            /\ red' = (IF toRed THEN red \ {c} ELSE red) \
                      (IF Promoted(fromRed, toRed) THEN {d} ELSE {})
    BY <1>4 DEF Subsume
  <2>2. PICK d \in Of(fromRed) :
            irr' \subseteq irr \cup {d} /\ red' \subseteq red
    BY <2>1
  <2>3. d \cap T # {}
    BY <1>0 DEF Of, DB
  <2> QED
    BY <1>0, <1>1, <2>2, <2>3, BaseAdded DEF unitVars
<1>5. CASE Strengthen
  <2>1. PICK redundant \in BOOLEAN : \E c \in Of(redundant), d \in DB : \E l \in d :
          /\ -l \in c /\ d \ {l} \subseteq c
          /\ ReplaceBy(c, redundant, {c \ {-l}})
    BY <1>5 DEF Strengthen
  <2>2. PICK c \in Of(redundant), d \in DB : \E l \in d :
          /\ -l \in c /\ d \ {l} \subseteq c
          /\ ReplaceBy(c, redundant, {c \ {-l}})
    BY <2>1
  <2>3. PICK l \in d : /\ -l \in c /\ d \ {l} \subseteq c
                       /\ ReplaceBy(c, redundant, {c \ {-l}})
    BY <2>2
  <2> DEFINE k == -l
             r == c \ {k}
             new == {r}
  <2>4. c \in DB /\ c \in Clause /\ ~IsTautology(d)
    BY <1>0 DEF Of, DB, TypeDB, Kind
  <2>5. r \cap T # {}
    <3>1. c \cap T # {} /\ d \cap T # {}
      BY <1>0, <2>4
    <3>2. CASE k \in T
      <4>1. l \notin T
        BY <3>2, Negation2
      <4>2. PICK j \in d : j \in T
        BY <3>1
      <4>3. j # k
        BY <2>4 DEF IsTautology
      <4>4. j \in c
        BY <2>3, <4>1, <4>2
      <4> HIDE DEF k
      <4> QED
        BY <4>2, <4>3, <4>4
    <3>3. CASE k \notin T
      <4> HIDE DEF k
      <4> QED
        BY <3>1, <3>3
    <3> QED
      BY <3>2, <3>3
  <2>6. irr' \subseteq irr \cup new /\ red' \subseteq red \cup new
    <3>1. ReplaceBy(c, redundant, new)
      BY <2>3
    <3> HIDE DEF new
    <3> QED
      BY <3>1, Replaced
  <2> HIDE DEF r
  <2> QED
    BY <1>0, <1>1, <2>5, <2>6, BaseAdded DEF unitVars
<1>6. CASE VivifyFlush \/ VivifySatisfied
  <2>1. PICK redundant \in BOOLEAN : \E c \in Of(redundant) :
          ReplaceBy(c, redundant, {})
    BY <1>6 DEF VivifyFlush, VivifySatisfied
  <2>2. PICK c \in Of(redundant) : ReplaceBy(c, redundant, {})
    BY <2>1
  <2>3. irr' \subseteq irr /\ red' \subseteq red
    BY <2>2, Replaced
  <2> QED
    BY <1>0, <1>1, <2>3, BaseFewer DEF unitVars
<1> QED
  BY <1>4, <1>5, <1>6

\* The clauses propagated are satisfied: nothing is false under true literals.
LEMMA GateTrue ==
  ASSUME Shapes, NEW T \in Assignments, Base(T), Held(T), trail \subseteq T
  PROVE  Holds \subseteq T /\ Forced(gate, Holds) \subseteq T /\ ~Conflict
<1> DEFINE F == gate
           A == Holds
<1>1. F \in SUBSET Clause /\ \A c \in F : c \cap T # {}
  BY DEF Shapes, TypeJob, Held
<1>2. A \in SUBSET T
  BY DEF Holds, Base
<1>3. Forced(F, A) \subseteq T /\ ~Falsified(F, A)
  <2> HIDE DEF F, A
  <2> QED
    BY <1>1, <1>2, ForcedTrue
<1> QED
  BY <1>2, <1>3 DEF Conflict

LEMMA SoundVivifyMoves ==
  ASSUME Shapes, NEW T \in Assignments, Sound(T),
         \/ ImplyTrail \/ VivifyDecide \/ VivifyImplied \/ VivifyLast
  PROVE  Sound(T)'
<1>0. /\ Base(T) /\ Removed(T) /\ Held(T) /\ Decided(T) /\ TypeJob
  BY DEF Sound, Shapes
<1>1. /\ pc \in {"vivify", "last", "instantiate"}
      /\ pc' \in {"vivify", "last", "instantiate"}
      /\ UNCHANGED dbVars /\ UNCHANGED unitVars /\ UNCHANGED stackVars
      /\ UNCHANGED <<cand, queue, gate, private, reprs>>
  BY DEF ImplyTrail, VivifyDecide, VivifyImplied, VivifyLast, GoTo, markVars
<1>2. Base(T)'
  BY <1>0, <1>1, BaseFewer DEF dbVars, unitVars
<1>3. Removed(T)'
  BY <1>0, <1>1, RemovedSame DEF stackVars
<1>4. Held(T)'
  BY <1>0, <1>1, HeldSame
<1>5. Rest(cand)' = Rest(cand)
  BY <1>1 DEF unitVars, Rest, False
<1>6. CASE ImplyTrail
  <2>1. /\ UNCHANGED <<pc, pivot, work, marked, count>>
        /\ trail' = trail \cup Forced(gate, Holds)
    BY <1>6 DEF ImplyTrail
  <2>2. trail \subseteq T => trail' \subseteq T
    BY <1>0, <2>1, GateTrue
  <2>3. Decided(T)'
    BY <1>0, <1>5, <2>1, <2>2 DEF Decided
  <2> QED
    BY <1>2, <1>3, <1>4, <2>3 DEF Sound
<1>7. CASE VivifyDecide
  <2>1. pc = "vivify" /\ pc' = "vivify"
    BY <1>7 DEF VivifyDecide
  <2>2. PICK l \in work :
          /\ trail' = trail \cup {-l} /\ marked' = marked \cup {-l}
          /\ work' = work \ {l}
    BY <1>7 DEF VivifyDecide
  <2>3. l \in Lit
    BY <1>0 DEF TypeJob
  <2>4. Decided(T)'
    <3> SUFFICES ASSUME marked' \subseteq T
                 PROVE  trail' \subseteq T /\ (Rest(cand) \ work') \cap T = {}
      BY <1>5, <2>1 DEF Decided
    <3>1. marked \subseteq T /\ -l \in T /\ l \notin T
      BY <2>2, <2>3, Negation2
    <3>2. trail \subseteq T /\ (Rest(cand) \ work) \cap T = {}
      BY <1>0, <2>1, <3>1 DEF Decided
    <3> QED
      BY <2>2, <3>1, <3>2
  <2> QED
    BY <1>2, <1>3, <1>4, <2>4 DEF Sound
<1>8. CASE VivifyImplied
  <2>1. pc = "vivify" /\ pc' = "vivify" /\ UNCHANGED <<trail, marked>>
    BY <1>8 DEF VivifyImplied, markVars
  <2>2. PICK l \in work : -l \in Holds /\ work' = work \ {l}
    BY <1>8 DEF VivifyImplied
  <2>3. l \in Lit
    BY <1>0 DEF TypeJob
  <2>4. Decided(T)'
    <3> SUFFICES ASSUME marked \subseteq T
                 PROVE  trail \subseteq T /\ (Rest(cand) \ work') \cap T = {}
      BY <1>5, <2>1 DEF Decided
    <3>1. trail \subseteq T /\ (Rest(cand) \ work) \cap T = {}
      BY <1>0, <2>1 DEF Decided
    <3>2. -l \in T
      BY <1>0, <2>2, <3>1, GateTrue
    <3>3. l \notin T
      BY <2>3, <3>2, Negation2
    <3> QED
      BY <2>2, <3>1, <3>3
  <2> QED
    BY <1>2, <1>3, <1>4, <2>4 DEF Sound
<1>9. CASE VivifyLast
  <2>1. /\ pc = "vivify" /\ pc' = "last"
        /\ trail' = (marked \ {-count}) \cup {count}
        /\ UNCHANGED <<work, marked, count>>
    BY <1>9 DEF VivifyLast, GoTo
  <2>2. Decided(T)'
    BY <1>0, <1>5, <2>1 DEF Decided
  <2> QED
    BY <1>2, <1>3, <1>4, <2>2 DEF Sound
<1> QED
  BY <1>6, <1>7, <1>8, <1>9

\* A satisfied clause replaces the candidate.
LEMMA StrengthenSound ==
  ASSUME Shapes, NEW T \in Assignments, Sound(T), NEW r \in Clause,
         r \cap T # {}, VivifyStrengthen(r)
  PROVE  Sound(T)'
<1>0. Base(T) /\ Removed(T)
  BY DEF Sound
<1> DEFINE ls == IF Cardinality(r) = 1 THEN r ELSE {}
           new == IF Cardinality(r) = 1 THEN {} ELSE {r}
<1>1. /\ Assign(ls, FALSE) /\ ReplaceBy(cand, flag, new) /\ NoJob
      /\ pc' = "propagate" /\ UNCHANGED stackVars
  BY DEF VivifyStrengthen, PropagateThen
<1>2. ls \in SUBSET T
  BY UnitTrue
<1>3. ~unsat' /\ units' \subseteq T
  <2> HIDE DEF ls
  <2> QED
    BY <1>0, <1>1, <1>2, AssignTrue
<1>4. \A c \in new : c \cap T # {}
  OBVIOUS
<1>5. Base(T)'
  <2> HIDE DEF new
  <2>1. irr' \subseteq irr \cup new /\ red' \subseteq red \cup new
    BY <1>1, Replaced
  <2> QED
    BY <1>0, <1>3, <1>4, <2>1, BaseStep
<1> QED
  BY <1>0, <1>1, <1>5, RemovedSame, JobGone DEF Sound, stackVars

\* Not all decisions are true, or the candidate would be false.
LEMMA DecisionTrue ==
  ASSUME Shapes, NEW T \in Assignments, Sound(T), pc \in {"vivify", "last"},
         work = {}
  PROVE  Negated(marked) \cap T # {}
<1>0. Base(T) /\ Held(T) /\ Decided(T) /\ VivifyOk /\ TypeDB /\ TypeJob
  BY DEF Sound, Shapes
<1>1. cand \in DB
  BY <1>0 DEF VivifyOk, Of, DB
<1>2. cand \cap T # {}
  BY <1>0, <1>1 DEF Base
<1>3. Rest(cand) \cap T # {}
  BY <1>0, <1>2, RestTrue
<1>4. ~(marked \subseteq T)
  BY <1>0, <1>3 DEF Decided
<1>5. PICK k \in marked : k \notin T
  BY <1>4
<1>6. -k \in T
  BY <1>0, <1>5, Negation2 DEF TypeJob
<1> QED
  BY <1>5, <1>6 DEF Negated

\* A conflict with the last literal true, and the others false.
LEMMA LastTrue ==
  ASSUME Shapes, NEW T \in Assignments, Sound(T), pc = "last", Conflict
  PROVE  (Negated(marked) \ {count}) \cap T # {}
<1>0. Base(T) /\ Held(T) /\ Decided(T) /\ VivifyOk /\ TypeJob
  BY DEF Sound, Shapes
<1>1. -count \in marked /\ work = {}
  BY <1>0 DEF VivifyOk
<1>2. count \in Int /\ marked \subseteq Lit /\ -count \in Lit /\ -(-count) = count
  BY <1>0, <1>1 DEF TypeJob
<1>3. CASE marked \ {-count} \subseteq T
  <2>1. count \notin T
    BY <1>0, <1>3, GateTrue DEF Decided
  <2>2. -count \in T
    BY <1>2, <2>1, Negation2
  <2>3. marked \subseteq T
    BY <1>3, <2>2
  <2>4. Negated(marked) \cap T # {}
    BY <1>1, DecisionTrue
  <2>5. PICK k \in marked : -k \in T
    BY <2>4 DEF Negated
  <2> QED
    BY <1>2, <2>3, <2>5, Negation2
<1>4. CASE ~(marked \ {-count} \subseteq T)
  <2>1. PICK k \in marked : k # -count /\ k \notin T
    BY <1>4
  <2>2. -k \in T /\ k \in Int
    BY <1>2, <2>1, Negation2, Literals
  <2>3. -k # count
    BY <1>2, <2>1, <2>2
  <2> QED
    BY <2>1, <2>2, <2>3 DEF Negated
<1> QED
  BY <1>3, <1>4

LEMMA SoundVivify ==
  ASSUME Shapes, Rested, NEW T \in Assignments, Sound(T),
         \/ StartVivify \/ VivifySubsume \/ VivifyLearn \/ VivifyRemove
         \/ VivifyKeep
  PROVE  Sound(T)'
<1>0. /\ Base(T) /\ Removed(T) /\ Held(T) /\ Decided(T) /\ TypeDB /\ TypeJob
      /\ VivifyOk /\ DB \subseteq Clause /\ \A c \in DB : c \cap T # {}
  BY DBTrue DEF Sound, Shapes
<1>1. CASE StartVivify
  <2>1. /\ pc = "simplify" /\ pc' = "vivify" /\ UNCHANGED dbVars
        /\ UNCHANGED unitVars /\ UNCHANGED stackVars
        /\ UNCHANGED <<queue, trail, marked, private, reprs>>
    BY <1>1 DEF StartVivify, Start, GoTo, markVars
  <2>2. PICK redundant \in BOOLEAN : \E c \in Of(redundant) :
          /\ cand' = c /\ gate' = Watched(c, redundant) /\ work' = Rest(c)
    BY <1>1 DEF StartVivify
  <2>3. PICK c \in Of(redundant) :
          /\ cand' = c /\ gate' = Watched(c, redundant) /\ work' = Rest(c)
    BY <2>2
  <2>4. c \in DB /\ gate' \subseteq DB
    BY <2>3 DEF Of, DB, Watched
  <2>5. Rest(cand)' = Rest(c) /\ trail' = {}
    BY <2>1, <2>3 DEF unitVars, Rest, False, Rested, Between2, NoneOpen
  <2>6. Decided(T)'
    BY <2>1, <2>3, <2>5 DEF Decided
  <2>7. Held(T)'
    BY <1>0, <2>1, <2>3, <2>4 DEF Held
  <2>8. Base(T)'
    BY <1>0, <2>1, BaseFewer DEF dbVars, unitVars
  <2> QED
    BY <1>0, <2>1, <2>6, <2>7, <2>8, RemovedSame DEF Sound, stackVars
<1>2. CASE VivifySubsume \/ VivifyKeep
  <2>1. pc' = "simplify" /\ NoJob /\ UNCHANGED unitVars /\ UNCHANGED stackVars
    BY <1>2 DEF VivifySubsume, VivifyKeep, GoTo
  <2>2. irr' \subseteq irr /\ red' \subseteq red
    <3>1. ReplaceBy(cand, flag, {}) \/ UNCHANGED dbVars
      BY <1>2 DEF VivifySubsume, VivifyKeep
    <3> QED
      BY <3>1 DEF ReplaceBy, dbVars
  <2>3. Base(T)'
    BY <1>0, <2>1, <2>2, BaseFewer DEF unitVars
  <2> QED
    BY <1>0, <2>1, <2>3, RemovedSame, JobGone DEF Sound, stackVars
<1>3. CASE VivifyLearn
  <2>1. PICK l \in Found, needed \in SUBSET marked :
          LET r == Negated(needed) \cup ({l} \ {0})
          IN /\ Refutes(gate, units \cup needed, l)
             /\ VivifyStrengthen(IF r = Rest(cand) THEN cand ELSE r)
    BY <1>3 DEF VivifyLearn
  <2> DEFINE r == Negated(needed) \cup ({l} \ {0})
             s == IF r = Rest(cand) THEN cand ELSE r
  <2>2. pc = "vivify"
    BY <1>3 DEF VivifyLearn
  <2>3. r \cap T # {}
    <3>1. CASE needed \subseteq T
      <4> DEFINE F == gate
                 A == units \cup needed
      <4>1. F \in SUBSET Clause /\ \A c \in F : c \cap T # {}
        BY <1>0 DEF TypeJob, Held
      <4>2. A \in SUBSET T /\ Refutes(F, A, l)
        BY <1>0, <2>1, <3>1 DEF Base
      <4>3. l \in T
        <5> HIDE DEF F, A
        <5> QED
          BY <4>1, <4>2, ImpliedTrue
      <4>4. l # 0
        BY <4>3, Negation2, Literals
      <4> QED
        BY <4>3, <4>4
    <3>2. CASE ~(needed \subseteq T)
      <4>1. PICK k \in needed : k \notin T
        BY <3>2
      <4>2. -k \in T
        BY <1>0, <4>1, Negation2 DEF TypeJob
      <4> QED
        BY <4>1, <4>2 DEF Negated
    <3> QED
      BY <3>1, <3>2
  <2>4. cand \in Clause /\ cand \in DB
    BY <1>0, <2>2 DEF VivifyOk, Of, DB
  <2>5. r \in Clause
    <3>1. r \subseteq Rest(cand)
      BY <2>2, LearnedLiterals
    <3> HIDE DEF r
    <3> QED
      BY <2>4, <3>1, Clauses0 DEF Clause
  <2>6. s \in Clause /\ s \cap T # {} /\ VivifyStrengthen(s)
    BY <1>0, <2>1, <2>3, <2>4, <2>5
  <2> HIDE DEF s
  <2> QED
    BY <2>6, StrengthenSound
<1>4. CASE VivifyRemove
  <2> DEFINE s == Negated(marked) \
                  (IF pc = "last" /\ Conflict THEN {count} ELSE {})
  <2>1. /\ VivifyStrengthen(s)
        /\ \/ pc = "vivify" /\ work = {}
           \/ pc = "last"
    BY <1>4 DEF VivifyRemove
  <2>2. work = {}
    BY <1>0, <2>1 DEF VivifyOk
  <2>3. s \in Clause
    <3>1. Negated(marked) \subseteq Lit
      BY <1>0, Literals DEF TypeJob, Negated
    <3> QED
      BY <3>1 DEF Clause
  <2>4. s \cap T # {}
    <3>1. CASE pc = "last" /\ Conflict
      BY <3>1, LastTrue
    <3>2. CASE ~(pc = "last" /\ Conflict)
      BY <2>1, <2>2, <3>2, DecisionTrue
    <3> QED
      BY <3>1, <3>2
  <2> HIDE DEF s
  <2> QED
    BY <2>1, <2>3, <2>4, StrengthenSound
<1> QED
  BY <1>1, <1>2, <1>3, <1>4

LEMMA SoundInstantiate ==
  ASSUME Shapes, NEW T \in Assignments, Sound(T), Instantiate \/ Instantiated
  PROVE  Sound(T)'
<1>0. /\ Base(T) /\ Removed(T) /\ Held(T) /\ Decided(T) /\ InstantiateOk
      /\ DB \subseteq Clause /\ \A c \in DB : c \cap T # {}
  BY DBTrue DEF Sound, Shapes
<1>1. CASE Instantiate
  <2>1. /\ pc' = "instantiate" /\ UNCHANGED dbVars /\ UNCHANGED unitVars
        /\ UNCHANGED stackVars /\ UNCHANGED <<queue, private, reprs>>
    BY <1>1 DEF Instantiate, Start, GoTo
  <2>2. PICK c \in irr : \E l \in c :
          /\ cand' = c /\ pivot' = l /\ gate' = DB
          /\ trail' = {l} \cup Negated(Rest(c) \ {l})
    BY <1>1 DEF Instantiate
  <2>3. PICK l \in c :
          /\ cand' = c /\ pivot' = l /\ gate' = DB
          /\ trail' = {l} \cup Negated(Rest(c) \ {l})
    BY <2>2
  <2>4. c \in DB /\ c \in Clause
    BY <1>0 DEF DB
  <2>5. Rest(cand)' = Rest(c)
    BY <2>1, <2>3 DEF unitVars, Rest, False
  <2>6. Decided(T)'
    <3> SUFFICES ASSUME l \in T, (Rest(c) \ {l}) \cap T = {}
                 PROVE  {l} \cup Negated(Rest(c) \ {l}) \subseteq T
      BY <2>1, <2>3, <2>5 DEF Decided
    <3>1. \A k \in Rest(c) \ {l} : k \in Lit /\ k \notin T
      BY <2>4, Clauses0
    <3>2. \A k \in Rest(c) \ {l} : -k \in T
      BY <3>1, Negation2
    <3> QED
      BY <3>2 DEF Negated
  <2>7. Held(T)'
    BY <1>0, <2>1, <2>3, <2>4 DEF Held
  <2>8. Base(T)'
    BY <1>0, <2>1, BaseFewer DEF dbVars, unitVars
  <2> QED
    BY <1>0, <2>1, <2>6, <2>7, <2>8, RemovedSame DEF Sound, stackVars
<1>2. CASE Instantiated
  <2>1. /\ pc = "instantiate" /\ pc' = "simplify" /\ NoJob /\ red' = red
        /\ irr' = IF Conflict THEN (irr \ {cand}) \cup {cand \ {pivot}} ELSE irr
        /\ UNCHANGED unitVars /\ UNCHANGED stackVars
    BY <1>2 DEF Instantiated, GoTo
  <2> DEFINE r == cand \ {pivot}
  <2>2. Base(T)'
    <3>1. CASE Conflict
      <4>1. r \cap T # {}
        <5> SUFFICES ASSUME r \cap T = {}
                     PROVE  FALSE
          OBVIOUS
        <5>1. cand \cap T # {}
          BY <1>0, <2>1 DEF InstantiateOk, DB
        <5>2. pivot \in T /\ (Rest(cand) \ {pivot}) \cap T = {}
          BY <5>1 DEF Rest
        <5>3. trail \subseteq T
          BY <1>0, <2>1, <5>2 DEF Decided
        <5> QED
          BY <1>0, <3>1, <5>3, GateTrue
      <4>2. irr' \subseteq irr \cup {r} /\ red' \subseteq red \cup {r}
        BY <2>1, <3>1
      <4> HIDE DEF r
      <4> QED
        BY <1>0, <2>1, <4>1, <4>2, BaseAdded DEF unitVars
    <3>2. CASE ~Conflict
      BY <1>0, <2>1, <3>2, BaseFewer DEF unitVars
    <3> QED
      BY <3>1, <3>2
  <2> QED
    BY <1>0, <2>1, <2>2, RemovedSame, JobGone DEF Sound, stackVars
<1> QED
  BY <1>1, <1>2

LEMMA SoundStrengthens ==
  ASSUME Shapes, Rested, NEW T \in Assignments, Sound(T), Strengthens
  PROVE  Sound(T)'
  BY SoundSubsume, SoundVivifyMoves, SoundVivify, SoundInstantiate
  DEF Strengthens

-----------------------------------------------------------------------------
(* The clauses the user added imply everything derived. *)

Derived ==
  \A T \in Assignments : (\A c \in original : c \cap T # {}) => Sound(T)

LEMMA OriginalStays ==
  ASSUME [Next]_vars
  PROVE  original \subseteq original'
<1>1. CASE Next
  <2>1. CASE External
    BY <2>1, Zenon DEF External, Add, Assume, Freeze, Melt, Solve, Steady,
       RestoreFlush, RestoreClause, RestoreKeep, Restored, Propagate, Propagated, Learn,
       Collect, Answer, userVars
  <2>2. CASE Eliminating
    BY <2>2, Zenon DEF Eliminating, StartElim, ElimRoundDone, NextElimRound, IncreaseBound,
       Start, Tried, Try, ElimPropagate, FindUnit, FindGarbage, GatesFound, ResolveNothing,
       ResolveUnit, ResolveStrengthen, CountResolvent, Bounded, GiveUp,
       AddResolvent, Weaken, Eliminate, Dequeue, BackwardSatisfied,
       BackwardSkip, BackwardSubsume, BackwardStrengthen, BackwardPass, userVars
  <2>3. CASE Blocks
    BY <2>3, Zenon DEF Blocks, StartBlock, BlockLiteral, BlockClause, LiteralBlocked,
       BlockDone, StartCover, CoverClause, CoverAsymmetric, CoverLiteral,
       ClauseCovered, StartCondition, ConditionClause, ConditionUnassign,
       ConditionDone, RoundDone, Start, userVars
  <2>4. CASE Reduces
    BY <2>4, Zenon DEF Reduces, Contradiction, StartDecompose, PushEquivalence,
       SubstituteClause, ClausesSubstituted, Substituted, Ternary, Deduplicate,
       HyperUnary, Transitive, TransitiveFailed, StartProbe, ProbeBinary,
       ProbeLong, FailedLiteral, Probed, Start1, Start, userVars
  <2>5. CASE Strengthens
    BY <2>5, Zenon DEF Strengthens, Subsume, Strengthen, VivifyFlush, StartVivify,
       VivifySatisfied, ImplyTrail, VivifyDecide, VivifyImplied, VivifySubsume,
       VivifyLearn, VivifyLast, VivifyRemove, VivifyKeep, VivifyStrengthen,
       Instantiate, Instantiated, Start1, Start, userVars
  <2> QED
    BY <1>1, <2>1, <2>2, <2>3, <2>4, <2>5 DEF Next
<1>2. CASE UNCHANGED vars
  BY <1>2 DEF vars, userVars
<1> QED
  BY <1>1, <1>2

LEMMA DerivedStart == Init => Derived
<1> SUFFICES ASSUME Init, NEW T \in Assignments
             PROVE  Sound(T)
  BY DEF Derived
<1>1. /\ irr = {} /\ red = {} /\ units = {} /\ unsat = FALSE /\ pc = "user"
      /\ extension = <<>> /\ cand = {} /\ queue = {} /\ gate = {}
      /\ private = <<>> /\ reprs = [l \in Lit |-> l]
  BY DEF Init
<1>2. Base(T) /\ Removed(T) /\ Held(T) /\ Decided(T)
  BY <1>1 DEF Base, Removed, Held, Decided, DB
<1> QED
  BY <1>2 DEF Sound

LEMMA SoundStep ==
  ASSUME DInv, NEW T \in Assignments, Sound(T), [Next]_vars,
         \A c \in original' : c \cap T # {}
  PROVE  Sound(T)'
<1>0. Rested /\ Shapes /\ PivotFree
  BY DEF DInv, IInv, JobInv
<1>1. CASE Next
  <2>1. CASE External
    BY <1>0, <2>1, SoundUser, SoundRestore, SoundPropagate, SoundSearch
    DEF External
  <2> QED
    BY <1>0, <1>1, <2>1, SoundEliminating, SoundBlocks, SoundReduces,
       SoundStrengthens DEF Next
<1>2. CASE UNCHANGED vars
  <2>1. /\ UNCHANGED dbVars /\ UNCHANGED unitVars /\ UNCHANGED stackVars
        /\ UNCHANGED pc /\ UNCHANGED jobVars
    BY <1>2, Zenon DEF vars
  <2>2. Rest(cand)' = Rest(cand)
    BY <2>1 DEF unitVars, jobVars, Rest, False
  <2> QED
    BY <2>1, <2>2 DEF Sound, Base, Removed, Held, Decided, dbVars, DB, unitVars,
                      stackVars, jobVars, markVars
<1> QED
  BY <1>1, <1>2

LEMMA DerivedStep ==
  ASSUME DInv, Derived, [Next]_vars
  PROVE  Derived'
<1> SUFFICES ASSUME NEW T \in Assignments, \A c \in original' : c \cap T # {}
             PROVE  Sound(T)'
  BY DEF Derived, Assignments
<1>1. \A c \in original : c \cap T # {}
  BY OriginalStays
<1>2. Sound(T)
  BY <1>1 DEF Derived
<1> QED
  BY <1>2, SoundStep

\* The assignment of a model.
LEMMA ModelAssignment ==
  ASSUME NEW m, NEW T, T = {l \in Lit : Makes(m, l)}
  PROVE  /\ T \in Assignments
         /\ \A c \in Clause : (\E l \in c : Makes(m, l)) <=> c \cap T # {}
<1>1. ASSUME NEW l \in Lit
      PROVE  Makes(m, -l) <=> ~Makes(m, l)
  <2>1. l \in Int /\ l # 0 /\ -(-l) = l
    BY Literals
  <2>2. CASE l > 0
    BY <2>1, <2>2 DEF Makes
  <2>3. CASE ~(l > 0)
    <3>1. -l > 0
      BY <2>1, <2>3
    <3> QED
      BY <2>1, <2>3, <3>1 DEF Makes
  <2> QED
    BY <2>2, <2>3
<1>2. T \in Assignments
  BY <1>1, Literals DEF Assignments
<1>3. \A c \in Clause : \A l \in c : l \in Lit
  BY DEF Clause
<1> QED
  BY <1>2, <1>3

LEMMA DerivedIsEntailed == DInv /\ Derived => DerivedEntailed
<1> SUFFICES ASSUME DInv, Derived, NEW m \in Models(original)
             PROVE  ~unsat /\ Satisfies(m, DB \cup StackClauses \cup
                                           UnitClauses(units))
  BY DEF DerivedEntailed
<1>0. TypeUser /\ TypeDB /\ TypeUnits /\ TypeStack
  BY DEF DInv, Shapes
<1> DEFINE T == {l \in Lit : Makes(m, l)}
<1>1. /\ T \in Assignments
      /\ \A c \in Clause : (\E l \in c : Makes(m, l)) <=> c \cap T # {}
  BY ModelAssignment
<1>m. \A l \in T : Makes(m, l)
  OBVIOUS
<1> HIDE DEF T
<1>2. \A c \in original : c \cap T # {}
  BY <1>0, <1>1 DEF Models, Satisfies, TypeUser
<1>3. Base(T) /\ Removed(T)
  BY <1>1, <1>2 DEF Derived, Sound
<1>4. \A c \in DB : \E l \in c : Makes(m, l)
  BY <1>0, <1>1, <1>3 DEF TypeDB, Kind, Base
<1>5. \A c \in StackClauses : \E l \in c : Makes(m, l)
  <2> SUFFICES ASSUME NEW i \in DOMAIN extension
               PROVE  \E l \in extension[i].clause : Makes(m, l)
    BY DEF StackClauses
  <2>1. extension[i].clause \cap T # {}
    BY <1>3 DEF Removed
  <2> QED
    BY <1>m, <2>1
<1>6. \A c \in UnitClauses(units) : \E l \in c : Makes(m, l)
  BY <1>3, <1>m DEF UnitClauses, Base
<1> QED
  BY <1>3, <1>4, <1>5, <1>6, Zenon DEF Satisfies, Base

(* No technique derives anything that the clauses the user added do not imply:
   the clauses it keeps or pushes on the extension stack, the units and the
   empty clause.  The steps of each technique, gates, autarkies, equivalences,
   hyper resolution, failed literals and vivification, are resolutions. *)
THEOREM DerivationsEntailed == Spec => []DerivedEntailed
<1>1. Init => DInv /\ Derived
  BY Start0, ShapesStart, DerivedStart DEF DInv
<1>2. DInv /\ Derived /\ [Next]_vars => DInv' /\ Derived'
  BY ShapesStep, DerivedStep
<1>3. DInv /\ Derived => DerivedEntailed
  BY DerivedIsEntailed
<1> QED
  BY <1>1, <1>2, <1>3, PTL DEF Spec

-----------------------------------------------------------------------------
(* No clause keeps a variable that was removed. *)
Usual == {"active", "fixed"}
Gone == {"eliminated", "pure"}
Fresh(c) == \A l \in c : status[Abs(l)] \in Usual

\* Redundant clauses lose their removed variables when a technique ends.
Lagging ==
  \/ pc \in {"elim", "gates", "bounded", "add", "backward"}
  \/ pc \in {"block", "blocking"} /\ flag
FreshIrr == \A c \in irr : Fresh(c)
FreshRed ==
  \A c \in red : \A l \in c :
    status[Abs(l)] \in Usual \cup (IF Lagging THEN Gone ELSE {})

\* All clauses with a pure literal are about to be removed.
BlockOk ==
  pc = "blocking" =>
    /\ queue \subseteq Occs(pivot)
    /\ Occs(-pivot) = {} => Occs(pivot) \subseteq queue
ProbeOk == pc = "probe" => Fresh(trail)

\* Representatives represent themselves, and every clause with a literal that
\* is represented by another one is about to be replaced or removed.
Substituting ==
  pc \in {"represent", "substituted"}
  \/ (pc = "propagate" /\ back = "substituted")
Kept(c) == \A l \in c : reprs[l] = l
ReprOk ==
  Substituting =>
    \A l \in Lit : /\ reprs[l] = l <=> reprs[-l] = -l
                   /\ reprs[reprs[l]] = reprs[l]
                   /\ reprs[l] # l => status[Abs(reprs[l])] \in Usual
KeptOk ==
  Substituting =>
    \A c \in DB : Kept(c) \/ (pc = "represent" /\ c \in queue \cup gate)
FInv ==
  ~unsat => FreshIrr /\ FreshRed /\ BlockOk /\ ProbeOk /\ ReprOk /\ KeptOk

\* Nothing but the clauses is to be kept fresh.
Plain == pc \notin {"blocking", "probe"} /\ ~Substituting
Improves == \A v \in Var : status[v] \in Usual => status'[v] \in Usual
Fixes == \A v \in Var : status'[v] \in {status[v], "fixed"}

LEMMA FreshVariables ==
  ASSUME TypeDB, NEW c \in DB, NEW l \in c
  PROVE  l \in Lit /\ Abs(l) \in Var
  BY Literals DEF TypeDB, Kind, Clause

LEMMA FreshDB ==
  ASSUME ~unsat, FInv, ~Lagging, NEW c \in DB
  PROVE  Fresh(c)
  BY DEF FInv, FreshIrr, FreshRed, Fresh, DB

\* A step whose clauses have literals of clauses there are, or used variables.
LEMMA FreshClauses ==
  ASSUME TypeDB, FInv, ~unsat, ~Lagging, Improves,
         \A c \in DB' : \A l \in c :
           (\E d \in DB : l \in d) \/ (status')[Abs(l)] \in Usual
  PROVE  FreshIrr' /\ FreshRed'
<1>1. \A c \in DB' : \A l \in c : (status')[Abs(l)] \in Usual
  <2> SUFFICES ASSUME NEW c \in DB', NEW l \in c, NEW d \in DB, l \in d
               PROVE  (status')[Abs(l)] \in Usual
    OBVIOUS
  <2>1. status[Abs(l)] \in Usual /\ Abs(l) \in Var
    BY FreshDB, FreshVariables DEF Fresh
  <2> QED
    BY <2>1, Zenon DEF Improves
<1> QED
  BY <1>1, Zenon DEF FreshIrr, FreshRed, Fresh, DB

LEMMA FreshStep ==
  ASSUME TypeDB, FInv, unsat' \/ ~unsat, ~Lagging, Improves, Plain',
         \A c \in DB' : \A l \in c :
           (\E d \in DB : l \in d) \/ (status')[Abs(l)] \in Usual
  PROVE  FInv'
<1> SUFFICES ASSUME ~unsat
             PROVE  FreshIrr' /\ FreshRed' /\ BlockOk' /\ ProbeOk' /\ ReprOk'
                    /\ KeptOk'
  BY DEF FInv
<1>1. FreshIrr' /\ FreshRed'
  BY FreshClauses
<1> QED
  BY <1>1, Zenon DEF BlockOk, ProbeOk, ReprOk, KeptOk, Plain

\* The representatives are chosen once for all clauses.
LEMMA FreshRepresented ==
  ASSUME TypeDB, TypeJob, FInv, unsat' \/ ~unsat, ~Lagging, Improves,
         Substituting, Substituting', UNCHANGED reprs, KeptOk',
         \A c \in DB' : \A l \in c : (\E d \in DB : l \in d)
           \/ (status')[Abs(l)] \in Usual
  PROVE  FInv'
<1> SUFFICES ASSUME ~unsat
             PROVE  FreshIrr' /\ FreshRed' /\ BlockOk' /\ ProbeOk' /\ ReprOk'
                    /\ KeptOk'
  BY DEF FInv
<1>1. FreshIrr' /\ FreshRed'
  BY FreshClauses, Zenon
<1>2. ReprOk'
  <2> SUFFICES ASSUME NEW l \in Lit
               PROVE  /\ (reprs')[l] = l <=> (reprs')[-l] = -l
                      /\ (reprs')[(reprs')[l]] = (reprs')[l]
                      /\ (reprs')[l] # l =>
                           (status')[Abs((reprs')[l])] \in Usual
    BY Zenon DEF ReprOk
  <2>1. Abs(reprs[l]) \in Var
    BY Literals DEF TypeJob
  <2>2. ReprOk
    BY DEF FInv
  <2> QED
    BY <2>1, <2>2, Zenon DEF ReprOk, Improves
<1> QED
  BY <1>1, <1>2 DEF BlockOk, ProbeOk, Substituting

\* The clauses and their variables stay.
LEMMA FreshSame ==
  ASSUME TypeDB, FInv, unsat' \/ ~unsat, ~Lagging, Improves, Plain',
         irr' \subseteq irr, red' \subseteq red
  PROVE  FInv'
<1>1. \A c \in DB' : \A l \in c : \E d \in DB : l \in d
  BY DEF DB
<1> QED
  BY <1>1, FreshStep, Zenon

LEMMA AssignFixes ==
  ASSUME TypeUnits, NEW ls, NEW empty, Assign(ls, empty)
  PROVE  Fixes /\ Improves /\ (unsat' \/ ~unsat)
  BY DEF TypeUnits, Assign, Fixes, Improves, Usual

LEMMA SameImproves ==
  ASSUME UNCHANGED unitVars
  PROVE  Improves /\ Fixes /\ (unsat' \/ ~unsat)
  BY DEF Improves, Fixes, unitVars

-----------------------------------------------------------------------------
(* The variables stay fresh: the user's calls, restoring and the search. *)

\* A variable that is used becomes active.
LEMMA ReactivatedUsual ==
  ASSUME TypeUnits, NEW ls \in SUBSET Lit, NEW v \in Var
  PROVE  /\ status[v] \in Usual => Reactivated(ls)[v] \in Usual
         /\ v \in VarsOf(ls) => Reactivated(ls)[v] \in Usual
  BY DEF TypeUnits, Reactivated, Usual

LEMMA OriginalFresh ==
  ASSUME Shapes, FInv, NEW c \in Clause, NEW where \in {"user", "restore"},
         AddOriginal(c, where), ~Lagging
  PROVE  FInv'
<1>0. TypeDB /\ TypeUnits /\ c \subseteq Lit /\ Rest(c) \subseteq c
  BY Clauses0 DEF Shapes
<1>1. ASSUME NEW v \in Var
      PROVE  /\ status[v] \in Usual => (status')[v] \in Usual
             /\ v \in VarsOf(c) => (status')[v] \in Usual
  <2>1. (status')[v] \in {"fixed", Reactivated(c)[v]}
    BY Zenon DEF AddOriginal
  <2> QED
    BY <1>0, <2>1, ReactivatedUsual DEF Usual
<1>2. Improves /\ (unsat' \/ ~unsat)
  BY <1>1 DEF Improves, AddOriginal
<1>3. irr' \subseteq irr \cup {Rest(c)} /\ red' = red
  BY DEF AddOriginal
<1>4. \A l \in Rest(c) : (status')[Abs(l)] \in Usual
  <2> SUFFICES ASSUME NEW l \in Rest(c)
               PROVE  (status')[Abs(l)] \in Usual
    OBVIOUS
  <2>1. Abs(l) \in Var /\ Abs(l) \in VarsOf(c)
    BY <1>0, Literals DEF VarsOf
  <2> QED
    BY <1>1, <2>1
<1>5. ASSUME NEW d \in DB', NEW l \in d
      PROVE  (\E e \in DB : l \in e) \/ (status')[Abs(l)] \in Usual
  BY <1>3, <1>4, <1>5 DEF DB
<1>6. Plain'
  <2>1. pc' \in {"user", "restore"}
        \/ (pc' = "propagate" /\ back' \in {"user", "restore"})
    BY Zenon DEF AddOriginal, PropagateThen, GoTo
  <2> QED
    BY <2>1 DEF Plain, Substituting
<1> QED
  BY <1>0, <1>2, <1>5, <1>6, FreshStep

LEMMA FreshUser ==
  ASSUME Shapes, FInv, Add \/ Assume \/ Freeze \/ Melt \/ Solve \/ Steady
  PROVE  FInv'
<1>0. TypeDB /\ TypeUnits /\ TypeUser
  BY DEF Shapes
<1>1. pc \in {"user", "answered"} /\ ~Lagging
  BY Zenon DEF Add, Assume, Freeze, Melt, Solve, Steady, IsCall, Lagging
<1>2. CASE Add
  <2>1. /\ script # <<>> /\ Head(script).call = "add"
        /\ AddOriginal(Head(script).clause, "user")
    BY <1>2, Zenon DEF Add, IsCall
  <2>2. Head(script).clause \in Clause
    BY <1>0, <2>1, Call0, CallTypes
  <2> QED
    BY <1>1, <2>1, <2>2, OriginalFresh
<1>3. CASE Assume \/ Freeze \/ Melt
  <2>1. /\ script # <<>> /\ Head(script).call \in {"assume", "freeze", "melt"}
        /\ status' = Reactivated({Head(script).lit}) /\ pc = "user"
        /\ UNCHANGED <<pc, unsat>> /\ UNCHANGED dbVars
    BY <1>3 DEF Assume, Freeze, Melt, IsCall
  <2>2. Head(script).lit \in Lit
    BY <1>0, <2>1, Call0, CallTypes
  <2>3. {Head(script).lit} \in SUBSET Lit
    BY <2>2
  <2>4. Improves
    BY <1>0, <2>1, <2>3, ReactivatedUsual, Zenon DEF Improves
  <2>5. Plain' /\ irr' \subseteq irr /\ red' \subseteq red
    BY <2>1 DEF Plain, Substituting, dbVars
  <2> QED
    BY <1>0, <1>1, <2>1, <2>4, <2>5, FreshSame
<1>4. CASE Solve \/ Steady
  <2>1. UNCHANGED dbVars /\ UNCHANGED unitVars
        /\ pc' \in {"answered", "propagate", "user"}
        /\ (pc' = "propagate" => back' \in {"simplify", "restore"})
    BY <1>4, Zenon DEF Solve, Steady, GoTo, PropagateThen
  <2>2. Plain' /\ irr' \subseteq irr /\ red' \subseteq red /\ Improves
        /\ (unsat' \/ ~unsat)
    BY <2>1, SameImproves DEF Plain, Substituting, dbVars, unitVars
  <2> QED
    BY <1>0, <1>1, <2>2, FreshSame
<1> QED
  BY <1>2, <1>3, <1>4

LEMMA FreshRestore ==
  ASSUME DInv, FInv, RestoreFlush \/ RestoreClause \/ RestoreKeep \/ Restored
  PROVE  FInv'
<1>0. /\ Shapes /\ TypeDB /\ TypeStack /\ ~Lagging /\ pc = "restore"
      /\ count \in Nat
  BY DEF DInv, IInv, JobInv, Clean, Shapes, Lagging, RestoreFlush,
         RestoreClause, RestoreKeep, Restored, Restoring
<1>1. CASE RestoreClause
  <2>1. count < Len(extension) /\ AddOriginal(Entry.clause, "restore")
    BY <1>1 DEF RestoreClause, Restoring
  <2>2. count + 1 \in DOMAIN extension
    BY <1>0, <2>1, LenProperties, SMT DEF TypeStack
  <2>3. Entry.clause \in Clause
    BY <1>0, <2>2, Entry0 DEF Entry
  <2> QED
    BY <1>0, <2>1, <2>3, OriginalFresh
<1>2. CASE RestoreFlush \/ RestoreKeep \/ Restored
  <2>1. UNCHANGED dbVars /\ UNCHANGED unitVars
        /\ (pc' = "restore" \/ (pc' = "propagate" /\ back' = "simplify"))
    BY <1>0, <1>2, Zenon DEF RestoreFlush, RestoreKeep, Restored, PropagateThen
  <2>2. Plain' /\ irr' \subseteq irr /\ red' \subseteq red /\ Improves
        /\ (unsat' \/ ~unsat)
    BY <2>1, SameImproves DEF Plain, Substituting, dbVars, unitVars
  <2> QED
    BY <1>0, <2>2, FreshSame
<1> QED
  BY <1>1, <1>2

\* Propagation after clauses were substituted leaves the representatives alone.
LEMMA FreshPropagate ==
  ASSUME DInv, FInv, Propagate \/ Propagated
  PROVE  FInv'
<1>0. /\ TypeDB /\ TypeUnits /\ TypeJob /\ ~Lagging /\ pc = "propagate"
      /\ back \in Backs
  BY DEF DInv, IInv, JobInv, Clean, Shapes, Lagging, Propagate, Propagated
<1>1. UNCHANGED dbVars /\ UNCHANGED <<back, reprs>>
      /\ pc' \in {"propagate", "answered", back}
      /\ (back = "substituted" => pc' \in {"propagate", "substituted"})
  BY <1>0, Zenon DEF Propagate, Propagated, jobVars, markVars
<1>2. Improves /\ (unsat' \/ ~unsat)
  <2>1. CASE Propagate
    BY <1>0, <2>1, AssignFixes, Zenon DEF Propagate
  <2>2. CASE Propagated
    BY <2>2, SameImproves DEF Propagated, unitVars
  <2> QED
    BY <2>1, <2>2
<1>3. irr' \subseteq irr /\ red' \subseteq red
  BY <1>1 DEF dbVars
<1>4. CASE back # "substituted"
  <2>1. Plain'
    BY <1>0, <1>1, <1>4 DEF Plain, Substituting, Backs
  <2> QED
    BY <1>0, <1>2, <1>3, <2>1, FreshSame
<1>5. CASE back = "substituted"
  <2> SUFFICES ASSUME ~unsat
               PROVE  FInv'
    BY <1>2 DEF FInv
  <2>1. Substituting /\ ReprOk /\ KeptOk
    BY <1>0, <1>5 DEF FInv, Substituting
  <2>2. KeptOk'
    BY <1>0, <1>1, <2>1, Zenon DEF KeptOk, Kept, DB, dbVars
  <2>3. Substituting'
    BY <1>0, <1>1, <1>5 DEF Substituting
  <2>4. \A c \in DB' : \A l \in c : \E d \in DB : l \in d
    BY <1>3 DEF DB
  <2> QED
    BY <1>0, <1>1, <1>2, <2>1, <2>2, <2>3, <2>4, FreshRepresented
<1> QED
  BY <1>4, <1>5

LEMMA FreshSearch ==
  ASSUME Shapes, FInv, Learn \/ Collect \/ Answer
  PROVE  FInv'
<1>0. TypeDB /\ TypeUnits /\ pc = "simplify" /\ ~Lagging
  BY DEF Shapes, Lagging, Learn, Collect, Answer
<1>1. CASE Learn
  <2>1. PICK c \in DB, d \in DB : \E l \in c : Derive(Rest(Resolvent(c, d, l)), TRUE)
    BY <1>1, Zenon DEF Learn
  <2>2. PICK l \in c : Derive(Rest(Resolvent(c, d, l)), TRUE)
    BY <2>1
  <2> DEFINE r == Rest(Resolvent(c, d, l))
  <2>3. r \subseteq c \cup d
    BY DEF Rest, Resolvent
  <2>4. Derive(r, TRUE)
    BY <2>2
  <2> HIDE DEF r
  <2>5. Improves /\ (unsat' \/ ~unsat)
    BY <1>0, <2>4, AssignFixes, Zenon DEF Derive
  <2>6. irr' \subseteq irr \cup {r} /\ red' \subseteq red \cup {r}
    BY <2>4 DEF Derive
  <2>7. ASSUME NEW e \in DB', NEW k \in e
        PROVE  \E f \in DB : k \in f
    BY <2>3, <2>6, <2>7 DEF DB
  <2>8. Plain'
    BY <1>1 DEF Learn, PropagateThen, Plain, Substituting
  <2> QED
    BY <1>0, <2>5, <2>7, <2>8, FreshStep
<1>2. CASE Collect \/ Answer
  <2>1. /\ irr' = {Rest(c) : c \in Open(irr)} \/ irr' = irr
        /\ red' = {Rest(c) : c \in Open(red)} \/ red' = red
        /\ UNCHANGED unitVars /\ pc' \in {"simplify", "answered"}
    BY <1>0, <1>2 DEF Collect, Answer, GoTo, dbVars
  <2>2. ASSUME NEW e \in DB', NEW k \in e
        PROVE  \E f \in DB : k \in f
    <3>1. e \in DB \/ \E c \in DB : e = Rest(c)
      BY <2>1, <2>2, Zenon DEF DB, Open
    <3> QED
      BY <2>2, <3>1 DEF Rest
  <2>3. Plain' /\ Improves /\ (unsat' \/ ~unsat)
    BY <2>1, SameImproves DEF Plain, Substituting, unitVars
  <2> QED
    BY <1>0, <2>2, <2>3, FreshStep
<1> QED
  BY <1>1, <1>2

-----------------------------------------------------------------------------
(* The variables stay fresh: elimination. *)

LEMMA FreshElim ==
  ASSUME TypeDB, FInv, unsat' \/ ~unsat, Fixes, red' \subseteq red,
         pc' \in {"elim", "gates", "bounded", "add", "backward"},
         \A c \in irr' : \A l \in c : \E d \in irr : l \in d
  PROVE  FInv'
<1> SUFFICES ASSUME ~unsat
             PROVE  FreshIrr' /\ FreshRed' /\ BlockOk' /\ ProbeOk' /\ ReprOk'
                    /\ KeptOk'
  BY DEF FInv
<1>1. ASSUME NEW c \in irr', NEW l \in c
      PROVE  (status')[Abs(l)] \in Usual
  <2>1. PICK d \in irr : l \in d
    BY <1>1
  <2>2. status[Abs(l)] \in Usual
    BY <2>1 DEF FInv, FreshIrr, Fresh
  <2>3. Abs(l) \in Var
    BY <2>1, FreshVariables DEF DB
  <2> QED
    BY <2>2, <2>3 DEF Fixes, Usual
<1>2. FreshIrr'
  BY <1>1, Zenon DEF FreshIrr, Fresh
<1>3. ASSUME NEW c \in red', NEW l \in c
      PROVE  (status')[Abs(l)] \in Usual \cup Gone
  <2>1. status[Abs(l)] \in Usual \cup Gone
    BY <1>3 DEF FInv, FreshRed
  <2>2. Abs(l) \in Var
    BY <1>3, FreshVariables DEF DB
  <2> QED
    BY <2>1, <2>2 DEF Fixes, Usual
<1>4. FreshRed'
  <2>1. Lagging'
    BY DEF Lagging
  <2> QED
    BY <1>3, <2>1, Zenon DEF FreshRed
<1> QED
  BY <1>2, <1>4 DEF BlockOk, ProbeOk, ReprOk, KeptOk, Substituting

LEMMA FreshTrial ==
  ASSUME Shapes, FInv, \/ StartElim \/ Try \/ ElimPropagate \/ FindUnit
                       \/ FindGarbage \/ GatesFound \/ NextElimRound
  PROVE  FInv'
<1>0. TypeDB /\ TypeUnits
  BY DEF Shapes
<1>1. irr' \subseteq irr /\ red' \subseteq red
  <2>1. CASE StartElim
    BY <2>1, Zenon DEF StartElim, Open
  <2>2. CASE ElimPropagate
    BY <2>2, Zenon DEF ElimPropagate
  <2>3. CASE FindGarbage
    BY <2>3, Zenon DEF FindGarbage
  <2>4. CASE Try \/ FindUnit \/ GatesFound
    BY <2>4, Zenon DEF Try, FindUnit, GatesFound, dbVars
  <2>5. CASE NextElimRound
    BY <2>5, Zenon DEF NextElimRound, Open
  <2> QED
    BY <2>1, <2>2, <2>3, <2>4, <2>5
<1>2. Fixes /\ (unsat' \/ ~unsat)
  <2>1. CASE ElimPropagate
    BY <1>0, <2>1, AssignFixes, Zenon DEF ElimPropagate
  <2>2. CASE FindUnit
    BY <1>0, <2>2, AssignFixes, Zenon DEF FindUnit
  <2>3. CASE StartElim \/ Try \/ FindGarbage \/ GatesFound \/ NextElimRound
    <3>1. UNCHANGED unitVars
      BY <2>3, Zenon DEF StartElim, Try, FindGarbage, GatesFound, NextElimRound
    <3> QED
      BY <3>1, SameImproves
  <2> QED
    BY <2>1, <2>2, <2>3
<1>3. pc' \in {"elim", "gates", "bounded", "add", "backward"}
  <2>1. CASE StartElim \/ Try \/ GatesFound
    BY <2>1, Zenon DEF StartElim, Try, GatesFound, GoTo
  <2>2. CASE ElimPropagate \/ FindUnit \/ FindGarbage
    <3>1. pc \in {"gates", "bounded", "backward"} /\ UNCHANGED pc
      BY <2>2, Zenon DEF ElimPropagate, FindUnit, FindGarbage, Finding
    <3> QED
      BY <3>1
  <2>3. CASE NextElimRound
    BY <2>3, Zenon DEF NextElimRound
  <2> QED
    BY <2>1, <2>2, <2>3
<1>4. \A c \in irr' : \A l \in c : \E d \in irr : l \in d
  BY <1>1
<1> QED
  BY <1>0, <1>1, <1>2, <1>3, <1>4, FreshElim

LEMMA FreshResolve ==
  ASSUME Shapes, FInv, NEW where \in {"bounded", "add"},
         ResolveNothing(where) \/ ResolveUnit(where)
           \/ ResolveStrengthen(where) \/ AddResolvent
  PROVE  FInv'
<1>0. TypeDB /\ TypeUnits
  BY DEF Shapes
<1>1. ASSUME NEW p \in Live, NEW l \in PairResolvent(p)
      PROVE  \E d \in irr : l \in d
  BY <1>1 DEF Live, PairResolvent, Rest, Resolvent
<1>2. /\ \A c \in irr' : c \in irr \/ \E p \in Live : c = PairResolvent(p)
      /\ red' = red
  <2>1. CASE ResolveNothing(where)
    BY <2>1, Zenon DEF ResolveNothing
  <2>2. CASE ResolveUnit(where)
    BY <2>2, Zenon DEF ResolveUnit, dbVars
  <2>3. CASE ResolveStrengthen(where)
    BY <2>3, Zenon DEF ResolveStrengthen
  <2>4. CASE AddResolvent
    BY <2>4, Zenon DEF AddResolvent
  <2> QED
    BY <2>1, <2>2, <2>3, <2>4
<1>3. Fixes /\ (unsat' \/ ~unsat)
  <2>1. CASE ResolveUnit(where)
    BY <1>0, <2>1, AssignFixes, Zenon DEF ResolveUnit
  <2>2. CASE ResolveNothing(where) \/ ResolveStrengthen(where) \/ AddResolvent
    <3>1. UNCHANGED unitVars
      BY <2>2, Zenon DEF ResolveNothing, ResolveStrengthen, AddResolvent
    <3> QED
      BY <3>1, SameImproves
  <2> QED
    BY <2>1, <2>2
<1>4. pc' \in {"elim", "gates", "bounded", "add", "backward"}
  <2>1. pc \in {"bounded", "add"} /\ UNCHANGED pc
    BY Zenon DEF ResolveNothing, ResolveUnit, ResolveStrengthen, AddResolvent,
                 Resolving
  <2> QED
    BY <2>1
<1>5. \A c \in irr' : \A l \in c : \E d \in irr : l \in d
  BY <1>1, <1>2
<1> QED
  BY <1>0, <1>2, <1>3, <1>4, <1>5, FreshElim

\* The eliminated variable is in no irredundant clause any more.
LEMMA FreshEliminate ==
  ASSUME Shapes, FInv, Eliminate
  PROVE  FInv'
<1>0. TypeDB /\ TypeUnits /\ pivot \in Lit \cup {0}
  BY DEF Shapes, TypeJob
<1>1. /\ pc = "add" /\ pc' = "backward" /\ UNCHANGED dbVars /\ unsat' = unsat
      /\ status' = status
         \/ status' = [status EXCEPT ![Abs(pivot)] = "eliminated"]
      /\ unsat \/ Occs(pivot) \cup Occs(-pivot) = {}
  BY DEF Eliminate, GoTo
<1> SUFFICES ASSUME ~unsat
             PROVE  FreshIrr' /\ FreshRed' /\ BlockOk' /\ ProbeOk' /\ ReprOk'
                    /\ KeptOk'
  BY <1>1 DEF FInv
<1>2. \A v \in Var : (status')[v] \in {status[v], "eliminated"}
                     /\ (v # Abs(pivot) => (status')[v] = status[v])
  BY <1>0, <1>1 DEF TypeUnits
<1>3. ASSUME NEW c \in irr, NEW l \in c
      PROVE  (status')[Abs(l)] \in Usual
  <2>1. l \in Lit /\ Abs(l) \in Var /\ status[Abs(l)] \in Usual
    BY <1>0, FreshVariables DEF DB, FInv, FreshIrr, Fresh
  <2>2. l # pivot /\ l # -pivot
    BY <1>1, <1>3 DEF Occs
  <2>3. Abs(l) # Abs(pivot)
    <3>1. CASE pivot = 0
      <4>1. Abs(pivot) = 0
        BY <3>1 DEF Abs
      <4> QED
        BY <2>1, <4>1, Literals
    <3>2. CASE pivot \in Lit
      BY <2>1, <2>2, <3>2, SameVariable
    <3> QED
      BY <1>0, <3>1, <3>2
  <2> QED
    BY <1>2, <2>1, <2>3
<1>4. FreshIrr'
  BY <1>1, <1>3, Zenon DEF FreshIrr, Fresh, dbVars
<1>5. ASSUME NEW c \in red', NEW l \in c
      PROVE  (status')[Abs(l)] \in Usual \cup Gone
  <2>1. c \in red
    BY <1>1 DEF dbVars
  <2>2. status[Abs(l)] \in Usual \cup Gone /\ Abs(l) \in Var
    BY <1>0, <2>1, FreshVariables DEF DB, FInv, FreshRed
  <2> QED
    BY <1>2, <2>2 DEF Gone
<1>6. FreshRed'
  <2>1. Lagging'
    BY <1>1 DEF Lagging
  <2> QED
    BY <1>5, <2>1, Zenon DEF FreshRed
<1> QED
  BY <1>1, <1>4, <1>6 DEF BlockOk, ProbeOk, ReprOk, KeptOk, Substituting

LEMMA FreshBounded ==
  ASSUME Shapes, FInv, CountResolvent \/ Bounded \/ GiveUp \/ Weaken \/ Tried
  PROVE  FInv'
<1>0. TypeDB
  BY DEF Shapes
<1>1. irr' \subseteq irr /\ red' = red /\ UNCHANGED unitVars
  BY Zenon DEF CountResolvent, Bounded, GiveUp, Weaken, Tried, dbVars
<1>2. pc' \in {"elim", "gates", "bounded", "add", "backward"}
  BY SMT DEF CountResolvent, Bounded, GiveUp, Weaken, Tried, Resolving, GoTo
<1>3. Fixes /\ (unsat' \/ ~unsat)
  BY <1>1, SameImproves DEF unitVars
<1>4. \A c \in irr' : \A l \in c : \E d \in irr : l \in d
  BY <1>1
<1> QED
  BY <1>0, <1>1, <1>2, <1>3, <1>4, FreshElim

LEMMA FreshBackward ==
  ASSUME Shapes, FInv, Dequeue \/ BackwardSatisfied \/ BackwardSkip \/ BackwardSubsume
                       \/ BackwardStrengthen \/ BackwardPass
  PROVE  FInv'
<1>0. TypeDB /\ TypeUnits
  BY DEF Shapes
<1>1. pc' = "backward" /\ red' = red
  BY Zenon DEF Dequeue, BackwardSatisfied, BackwardSkip, BackwardSubsume,
         BackwardStrengthen, BackwardPass, Comparing, dbVars
<1>2. Fixes /\ (unsat' \/ ~unsat)
  <2>1. CASE BackwardStrengthen
    <3>1. PICK p \in todo :
            UNCHANGED unitVars \/ \E l \in Clashing(p[2]) :
                                     Assign(Rest(p[2]) \ {l}, FALSE)
      BY <2>1, Zenon DEF BackwardStrengthen
    <3>2. CASE UNCHANGED unitVars
      BY <3>2, SameImproves
    <3>3. CASE \E l \in Clashing(p[2]) : Assign(Rest(p[2]) \ {l}, FALSE)
      <4>1. PICK l \in Clashing(p[2]) : Assign(Rest(p[2]) \ {l}, FALSE)
        BY <3>3
      <4> QED
        BY <1>0, <4>1, AssignFixes, Zenon
    <3> QED
      BY <3>1, <3>2, <3>3
  <2>2. CASE Dequeue \/ BackwardSatisfied \/ BackwardSkip \/ BackwardSubsume
             \/ BackwardPass
    <3>1. UNCHANGED unitVars
      BY <2>2, Zenon DEF Dequeue, BackwardSatisfied, BackwardSkip,
                         BackwardSubsume, BackwardPass
    <3> QED
      BY <3>1, SameImproves
  <2> QED
    BY <2>1, <2>2
<1>3. \A c \in irr' : \E d \in irr : c \subseteq d
  <2>1. CASE BackwardStrengthen
    <3>1. PICK p \in todo :
            /\ Comparing(p)
            /\ irr' = irr \/ irr' = irr \ {p[2]}
               \/ \E l \in Clashing(p[2]) :
                    irr' = (irr \ {p[2]}) \cup {p[2] \ {l}}
      BY <2>1, Zenon DEF BackwardStrengthen
    <3>2. p[2] \in irr
      BY <3>1 DEF Comparing, Live
    <3> QED
      BY <3>1, <3>2
  <2>2. CASE Dequeue
    BY <2>2, Zenon DEF Dequeue
  <2>3. CASE BackwardSatisfied \/ BackwardSkip \/ BackwardSubsume
             \/ BackwardPass
    BY <2>3, Zenon DEF BackwardSatisfied, BackwardSkip,
         BackwardSubsume, BackwardPass, dbVars
  <2> QED
    BY <2>1, <2>2, <2>3
<1>4. \A c \in irr' : \A l \in c : \E d \in irr : l \in d
  BY <1>3
<1> QED
  BY <1>0, <1>1, <1>2, <1>4, FreshElim

LEMMA FreshRound ==
  ASSUME Shapes, FInv, ElimRoundDone \/ IncreaseBound
  PROVE  FInv'
<1>0. TypeDB
  BY DEF Shapes
<1>1. CASE IncreaseBound
  <2>1. /\ pc = "simplify" /\ pc' = "simplify" /\ UNCHANGED dbVars
        /\ UNCHANGED unitVars
    BY <1>1 DEF IncreaseBound
  <2>2. ~Lagging /\ Plain' /\ Improves /\ (unsat' \/ ~unsat)
        /\ irr' \subseteq irr /\ red' \subseteq red
    BY <2>1, SameImproves DEF Lagging, Plain, Substituting, unitVars, dbVars
  <2> QED
    BY <1>0, <2>2, FreshSame
<1>2. CASE ElimRoundDone
  <2>1. /\ pc = "elim" /\ pc' = "propagate" /\ back' = "simplify"
        /\ UNCHANGED unitVars /\ irr' = irr
        /\ red' = IF unsat THEN red ELSE {c \in red : ~Stale(c)}
    BY <1>2 DEF ElimRoundDone, PropagateThen
  <2> SUFFICES ASSUME ~unsat
               PROVE  FreshIrr' /\ FreshRed' /\ BlockOk' /\ ProbeOk' /\ ReprOk'
                      /\ KeptOk'
    BY <2>1 DEF FInv, unitVars
  <2>2. FreshIrr'
    BY <2>1, Zenon DEF FInv, FreshIrr, Fresh, unitVars
  <2>3. ASSUME NEW c \in red', NEW l \in c
        PROVE  (status')[Abs(l)] \in Usual
    <3>1. c \in red /\ ~Stale(c) /\ status' = status
      BY <2>1, <2>3 DEF unitVars
    <3>2. status[Abs(l)] \in Usual \cup Gone
      BY <3>1 DEF FInv, FreshRed
    <3>3. status[Abs(l)] \notin Gone
      BY <3>1, Zenon DEF Stale, Gone
    <3> QED
      BY <3>1, <3>2, <3>3
  <2>4. FreshRed'
    BY <2>3, Zenon DEF FreshRed
  <2> QED
    BY <2>1, <2>2, <2>4 DEF BlockOk, ProbeOk, ReprOk, KeptOk, Substituting
<1> QED
  BY <1>1, <1>2

LEMMA FreshEliminating ==
  ASSUME Shapes, FInv, Eliminating
  PROVE  FInv'
  BY FreshTrial, FreshResolve, FreshEliminate, FreshBounded, FreshBackward,
     FreshRound, Zenon DEF Eliminating

-----------------------------------------------------------------------------
(* The variables stay fresh: removing clauses that are not implied. *)

\* A step of 'block' that leaves the status of the variables alone.
LEMMA FreshBlocking ==
  ASSUME FInv, UNCHANGED unitVars, irr' \subseteq irr, red' = red, flag' = flag,
         pc \in {"block", "blocking"}, pc' \in {"block", "blocking"}, BlockOk'
  PROVE  FInv'
<1> SUFFICES ASSUME ~unsat
             PROVE  FreshIrr' /\ FreshRed' /\ BlockOk' /\ ProbeOk' /\ ReprOk'
                    /\ KeptOk'
  BY DEF FInv, unitVars
<1>1. FreshIrr'
  BY Zenon DEF FInv, FreshIrr, Fresh, unitVars
<1>2. FreshRed'
  <2>1. Lagging' = Lagging
    BY DEF Lagging
  <2>2. status' = status /\ FreshRed
    BY DEF FInv, unitVars
  <2> QED
    BY <2>1, <2>2, Zenon DEF FreshRed
<1> QED
  BY <1>1, <1>2 DEF ProbeOk, ReprOk, KeptOk, Substituting

\* The blocked clauses of a literal are found: all of its clauses if no clause
\* has its negation.
LEMMA FreshBlockLiteral ==
  ASSUME FInv, BlockLiteral
  PROVE  FInv'
<1>1. /\ pc = "block" /\ pc' = "blocking" /\ UNCHANGED unitVars
      /\ UNCHANGED dbVars /\ flag' = flag
  BY Zenon DEF BlockLiteral, GoTo
<1>2. PICK l \in Lit :
        /\ pivot' = l
        /\ queue' = IF Occs(-l) = {} THEN Occs(l)
                    ELSE IF Cardinality(Occs(-l)) = 1 THEN BlockedByOne(l)
                    ELSE BlockedByMany(l)
  BY Zenon DEF BlockLiteral
<1>3. BlockedByOne(l) \subseteq Occs(l) /\ BlockedByMany(l) \subseteq Occs(l)
  BY Zenon DEF BlockedByOne, BlockedByMany, BlockCandidates
<1>4. queue' \subseteq Occs(l) /\ (Occs(-l) = {} => Occs(l) \subseteq queue')
  BY <1>2, <1>3
<1>5. Occs(l)' = Occs(l) /\ Occs(-l)' = Occs(-l)
  BY <1>1 DEF Occs, dbVars
<1>6. Occs(pivot)' = Occs(l) /\ Occs(-pivot)' = Occs(-l)
  BY <1>1, <1>2, Zenon DEF Occs, dbVars
<1>7. BlockOk'
  BY <1>4, <1>6, Zenon DEF BlockOk
<1> QED
  BY <1>1, <1>7, FreshBlocking DEF dbVars

LEMMA FreshBlockClause ==
  ASSUME TypeDB, FInv, BlockClause
  PROVE  FInv'
<1>1. /\ pc = "blocking" /\ pc' = "blocking" /\ UNCHANGED unitVars
      /\ red' = red /\ flag' = flag /\ pivot' = pivot
  BY Zenon DEF BlockClause
<1>2. PICK c \in queue : irr' = irr \ {c} /\ queue' = queue \ {c}
  BY Zenon DEF BlockClause
<1> SUFFICES ASSUME ~unsat
             PROVE  FInv'
  BY <1>1 DEF FInv, unitVars
<1>3. queue \subseteq Occs(pivot) /\ (Occs(-pivot) = {} => Occs(pivot) \subseteq queue)
  BY <1>1 DEF FInv, BlockOk
<1>4. Occs(pivot)' = Occs(pivot) \ {c} /\ Occs(-pivot)' = Occs(-pivot) \ {c}
  BY <1>1, <1>2, Zenon DEF Occs
<1>5. c \notin Occs(-pivot)
  <2>1. c \in irr /\ pivot \in c
    BY <1>3 DEF Occs
  <2>2. ~IsTautology(c)
    BY <2>1 DEF TypeDB, Kind, DB
  <2> QED
    BY <2>1, <2>2 DEF Occs, IsTautology
<1>6. BlockOk'
  BY <1>2, <1>3, <1>4, <1>5, Zenon DEF BlockOk
<1> QED
  BY <1>1, <1>2, <1>6, FreshBlocking

\* A pure literal: all clauses of its variable are gone.
LEMMA FreshLiteralBlocked ==
  ASSUME Shapes, FInv, LiteralBlocked
  PROVE  FInv'
<1>0. TypeDB /\ TypeUnits /\ pivot \in Lit \cup {0}
  BY DEF Shapes, TypeJob
<1>1. /\ pc = "blocking" /\ pc' = "block" /\ UNCHANGED dbVars
      /\ queue = {} /\ unsat' = unsat
  BY DEF LiteralBlocked, GoTo
<1>2. CASE Occs(-pivot) # {}
  <2>1. UNCHANGED unitVars /\ flag' = flag
    BY <1>2 DEF LiteralBlocked, unitVars
  <2>2. BlockOk'
    BY <1>1 DEF BlockOk
  <2> QED
    BY <1>1, <2>1, <2>2, FreshBlocking DEF dbVars
<1>3. CASE Occs(-pivot) = {}
  <2> SUFFICES ASSUME ~unsat
               PROVE  FreshIrr' /\ FreshRed' /\ BlockOk' /\ ProbeOk' /\ ReprOk'
                      /\ KeptOk'
    BY <1>1 DEF FInv
  <2>1. status' = [status EXCEPT ![Abs(pivot)] = "pure"] /\ flag' = TRUE
    BY <1>3 DEF LiteralBlocked
  <2>2. \A v \in Var : (status')[v] \in {status[v], "pure"}
                       /\ (v # Abs(pivot) => (status')[v] = status[v])
    BY <1>0, <2>1 DEF TypeUnits
  <2>3. Occs(pivot) = {}
    BY <1>1, <1>3 DEF FInv, BlockOk
  <2>4. ASSUME NEW c \in irr, NEW l \in c
        PROVE  (status')[Abs(l)] \in Usual
    <3>1. l \in Lit /\ Abs(l) \in Var /\ status[Abs(l)] \in Usual
      BY <1>0, FreshVariables DEF DB, FInv, FreshIrr, Fresh
    <3>2. l # pivot /\ l # -pivot
      BY <1>3, <2>3, <2>4 DEF Occs
    <3>3. Abs(l) # Abs(pivot)
      <4>1. CASE pivot = 0
        <5>1. Abs(pivot) = 0
          BY <4>1 DEF Abs
        <5> QED
          BY <3>1, <5>1, Literals
      <4>2. CASE pivot \in Lit
        BY <3>1, <3>2, <4>2, SameVariable
      <4> QED
        BY <1>0, <4>1, <4>2
    <3> QED
      BY <2>2, <3>1, <3>3
  <2>5. FreshIrr'
    BY <1>1, <2>4, Zenon DEF FreshIrr, Fresh, dbVars
  <2>6. ASSUME NEW c \in red', NEW l \in c
        PROVE  (status')[Abs(l)] \in Usual \cup Gone
    <3>1. c \in red
      BY <1>1 DEF dbVars
    <3>2. status[Abs(l)] \in Usual \cup Gone /\ Abs(l) \in Var
      BY <1>0, <3>1, FreshVariables DEF DB, FInv, FreshRed
    <3> QED
      BY <2>2, <3>2 DEF Gone
  <2>7. FreshRed'
    <3>1. Lagging'
      BY <1>1, <2>1 DEF Lagging
    <3> QED
      BY <2>6, <3>1, Zenon DEF FreshRed
  <2> QED
    BY <1>1, <2>5, <2>7 DEF BlockOk, ProbeOk, ReprOk, KeptOk, Substituting
<1> QED
  BY <1>2, <1>3

LEMMA FreshBlockDone ==
  ASSUME FInv, BlockDone
  PROVE  FInv'
<1>1. /\ pc = "block" /\ pc' = "simplify" /\ UNCHANGED unitVars
      /\ irr' = irr /\ red' = IF flag THEN {c \in red : ~Stale(c)} ELSE red
  BY DEF BlockDone, GoTo
<1> SUFFICES ASSUME ~unsat
             PROVE  FreshIrr' /\ FreshRed' /\ BlockOk' /\ ProbeOk' /\ ReprOk'
                    /\ KeptOk'
  BY <1>1 DEF FInv, unitVars
<1>2. FreshIrr'
  BY <1>1, Zenon DEF FInv, FreshIrr, Fresh, unitVars
<1>3. ASSUME NEW c \in red', NEW l \in c
      PROVE  (status')[Abs(l)] \in Usual
  <2>1. c \in red /\ status' = status
    BY <1>1, <1>3 DEF unitVars
  <2>2. status[Abs(l)] \in Usual \cup (IF Lagging THEN Gone ELSE {})
    BY <1>3, <2>1 DEF FInv, FreshRed
  <2>3. CASE flag
    <3>1. ~Stale(c)
      BY <1>1, <2>3
    <3>2. status[Abs(l)] \notin Gone
      BY <3>1, Zenon DEF Stale, Gone
    <3> QED
      BY <2>1, <2>2, <3>2
  <2>4. CASE ~flag
    BY <1>1, <2>1, <2>2, <2>4 DEF Lagging
  <2> QED
    BY <2>3, <2>4
<1>4. FreshRed'
  BY <1>3, Zenon DEF FreshRed
<1> QED
  BY <1>1, <1>2, <1>4 DEF BlockOk, ProbeOk, ReprOk, KeptOk, Substituting

LEMMA FreshBlocks ==
  ASSUME Shapes, FInv, Blocks
  PROVE  FInv'
<1>0. TypeDB
  BY DEF Shapes
<1>1. CASE StartBlock
  <2>1. /\ pc = "simplify" /\ pc' = "block" /\ UNCHANGED unitVars
        /\ irr' = {Rest(c) : c \in Open(irr)} /\ red' = {Rest(c) : c \in Open(red)}
    BY <1>1 DEF StartBlock, Start, GoTo
  <2>2. ASSUME NEW e \in DB', NEW k \in e
        PROVE  \E f \in DB : k \in f
    <3>1. \E c \in DB : e = Rest(c)
      BY <2>1, <2>2, Zenon DEF DB, Open
    <3> QED
      BY <2>2, <3>1 DEF Rest
  <2>3. ~Lagging /\ Plain' /\ Improves /\ (unsat' \/ ~unsat)
    BY <2>1, SameImproves DEF Lagging, Plain, Substituting
  <2> QED
    BY <1>0, <2>2, <2>3, FreshStep
<1>2. CASE \/ StartCover \/ CoverClause \/ CoverAsymmetric \/ CoverLiteral
           \/ ClauseCovered \/ StartCondition \/ ConditionClause
           \/ ConditionUnassign \/ ConditionDone \/ RoundDone
  <2>1. UNCHANGED unitVars /\ irr' \subseteq irr /\ red' = red
    BY <1>2, Zenon DEF StartCover, CoverClause, CoverAsymmetric, CoverLiteral,
       ClauseCovered, StartCondition, ConditionClause, ConditionUnassign,
       ConditionDone, RoundDone, dbVars, Open
  <2>2. /\ pc \in {"simplify", "cover", "covering", "covered", "condition",
                   "conditioning"}
        /\ pc' \in {"simplify", "cover", "covering", "covered", "condition",
                    "conditioning"}
    BY <1>2, Zenon DEF StartCover, CoverClause, CoverAsymmetric, CoverLiteral,
       ClauseCovered, StartCondition, ConditionClause, ConditionUnassign,
       ConditionDone, RoundDone, Start, GoTo
  <2>3. ~Lagging /\ Plain' /\ Improves /\ (unsat' \/ ~unsat)
    BY <2>1, <2>2, SameImproves DEF Lagging, Plain, Substituting
  <2> QED
    BY <1>0, <2>1, <2>3, FreshSame
<1> QED
  BY <1>0, <1>1, <1>2, FreshBlockLiteral, FreshBlockClause, FreshLiteralBlocked,
     FreshBlockDone DEF Blocks

-----------------------------------------------------------------------------
(* Components of the implication graph, and what is true of them without any
   look at the clauses. *)

\* What is reached is closed under the implications.
LEMMA ReachedClosed ==
  ASSUME NEW F, NEW l, NEW c \in Binaries(F), NEW x \in c, -x \in Reached(F, l)
  PROVE  c \ {x} \subseteq Reached(F, l)
<1> SUFFICES ASSUME NEW y \in c \ {x}
             PROVE  y \in Reached(F, l)
  OBVIOUS
<1> DEFINE B == Binaries(F)
<1>1. y \in LitsOf(B)
  BY DEF LitsOf
<1>2. ASSUME NEW S \in SUBSET LitsOf(B), Closed(B, S \cup {l})
      PROVE  y \in S \cup {l}
  <2>1. -x \in S \cup {l}
    BY <1>2, Zenon DEF Reached
  <2>2. c \ {x} \subseteq S \cup {l}
    BY <1>2, <2>1, Zenon DEF Closed
  <2> QED
    BY <2>2
<1> QED
  BY <1>1, <1>2, Zenon DEF Reached

LEMMA ReachedFurther ==
  ASSUME NEW F, NEW l, NEW k \in Reached(F, l)
  PROVE  Reached(F, k) \subseteq Reached(F, l)
<1> DEFINE T == Reached(F, l)
<1>1. \A c \in Binaries(F) : \A x \in c : -x \in T => c \ {x} \subseteq T
  BY ReachedClosed
<1> HIDE DEF T
<1>2. Reached(F, k) \subseteq T
  <2>1. k \in T
    BY DEF T
  <2> QED
    BY <1>1, <2>1, ReachedWithin
<1> QED
  BY <1>2 DEF T

\* An implication can be read from both of its ends.
LEMMA ReachedNegated ==
  ASSUME NEW F, F \subseteq Clause, NEW l \in Lit, NEW k \in Reached(F, l)
  PROVE  -l \in Reached(F, -k)
<1>1. k \in Lit
  BY ReachedLits
<1> SUFFICES ASSUME -l \notin Reached(F, -k)
             PROVE  FALSE
  OBVIOUS
<1> DEFINE R == Reached(F, -k)
           S == {x \in Lit : -x \notin R}
<1>2. l \in S
  OBVIOUS
<1>3. ASSUME NEW c \in Binaries(F), NEW x \in c, -x \in S
      PROVE  c \ {x} \subseteq S
  <2>1. c \in Clause /\ Cardinality(c) = 2 /\ x \in Lit
    BY DEF Binaries, Clause
  <2>2. PICK y \in c : y # x /\ c = {x, y}
    BY <2>1, BinaryClause
  <2>3. y \in Lit /\ x \notin R
    BY <1>3, <2>1, <2>2, Literals DEF Clause
  <2>4. ASSUME -y \in R
        PROVE  FALSE
    <3>1. c \ {y} \subseteq R
      BY <2>4, ReachedClosed
    <3> QED
      BY <2>2, <2>3, <3>1
  <2> QED
    BY <2>2, <2>3, <2>4
<1> HIDE DEF S
<1>4. Reached(F, l) \subseteq S
  BY <1>2, <1>3, ReachedWithin
<1>5. -k \notin R
  BY <1>4 DEF S
<1>6. -k \in Lit
  BY <1>1, Literals
<1> QED
  BY <1>5, <1>6, ReachedLits

LEMMA ImplicationClauses ==
  ASSUME TypeDB
  PROVE  Implications \subseteq Clause
  BY DEF Implications, Binaries, TypeDB, Kind

LEMMA ComponentNegated ==
  ASSUME TypeDB, NEW l \in Lit, NEW k \in Component(l)
  PROVE  -k \in Component(-l)
<1>1. k \in Reached(Implications, l) /\ l \in Reached(Implications, k)
  BY Zenon DEF Component
<1>2. k \in Lit
  BY <1>1, ImplicationClauses, ReachedLits
<1>3. -l \in Reached(Implications, -k) /\ -k \in Reached(Implications, -l)
  BY <1>1, <1>2, ImplicationClauses, ReachedNegated
<1> QED
  BY <1>3, Zenon DEF Component

LEMMA ComponentSame ==
  ASSUME NEW l, NEW k \in Component(l)
  PROVE  Component(k) = Component(l)
<1>1. k \in Reached(Implications, l) /\ l \in Reached(Implications, k)
  BY Zenon DEF Component
<1>2. Reached(Implications, k) = Reached(Implications, l)
  BY <1>1, ReachedFurther
<1>3. ASSUME NEW j \in Reached(Implications, l)
      PROVE  k \in Reached(Implications, j) <=> l \in Reached(Implications, j)
  BY <1>1, <1>3, ReachedFurther
<1> QED
  BY <1>2, <1>3, Zenon DEF Component

\* The other literals of a component are active.
LEMMA ComponentActive ==
  ASSUME NEW l \in Lit, Active(l), NEW k \in Component(l), TypeDB
  PROVE  Active(k)
<1> DEFINE T == {x \in Lit : Active(x)}
<1>1. ASSUME NEW c \in Binaries(Implications), NEW x \in c, -x \in T
      PROVE  c \ {x} \subseteq T
  BY ImplicationClauses DEF Binaries, Implications, Clause
<1>2. l \in T
  OBVIOUS
<1> HIDE DEF T
<1>3. Reached(Implications, l) \subseteq T
  BY <1>1, <1>2, ReachedWithin
<1> QED
  BY <1>3, Zenon DEF Component, T

LEMMA ReplaceableNegated ==
  ASSUME NEW l \in Lit
  PROVE  Replaceable(-l) <=> Replaceable(l)
<1>1. Abs(-l) = Abs(l) /\ -(-l) = l
  BY Literals
<1>2. {l, -l} = {-l, -(-l)}
  BY <1>1
<1> QED
  BY <1>1, <1>2, Zenon DEF Replaceable, Active, Frozen

\* A representative represents itself.
LEMMA ReprOfRepr ==
  ASSUME TypeDB, NEW l \in Lit
  PROVE  Repr(Repr(l)) = Repr(l)
<1> DEFINE k == Repr(l)
<1>0. k \in Lit
  BY ReprChosen
<1>1. CASE ~Replaceable(l)
  BY <1>1, ReprChosen
<1>2. CASE ~Replaceable(k)
  BY <1>0, <1>2, ReprChosen
<1>3. CASE Replaceable(l) /\ Replaceable(k)
  <2>1. k \in Component(l)
    BY <1>3, ReprChosen
  <2>2. Component(k) = Component(l)
    BY <2>1, ComponentSame
  <2>3. /\ Repr(l) = CHOOSE m \in Component(l) :
                       \A j \in Component(l) : Abs(m) <= Abs(j)
        /\ Repr(k) = CHOOSE m \in Component(k) :
                       \A j \in Component(k) : Abs(m) <= Abs(j)
    <3> HIDE DEF k
    <3> QED
      BY <1>3, Zenon DEF Repr, Replaceable
  <2> QED
    BY <2>2, <2>3
<1> QED
  BY <1>1, <1>2, <1>3

\* A literal represents itself if its negation does, unless both are equal.
LEMMA ReprOfNegation ==
  ASSUME TypeDB, \A k \in Lit : Active(k) => -k \notin Component(k),
         NEW l \in Lit, Repr(l) = l
  PROVE  Repr(-l) = -l
<1>0. -l \in Lit /\ -(-l) = l
  BY Literals
<1>1. CASE ~Replaceable(l)
  BY <1>0, <1>1, ReplaceableNegated, ReprChosen
<1>2. CASE Replaceable(l)
  <2> DEFINE m == Repr(-l)
  <2>1. Replaceable(-l)
    BY <1>2, ReplaceableNegated
  <2>2. m \in Lit /\ m \in Component(-l)
        /\ \A j \in Component(-l) : Abs(m) <= Abs(j)
    BY <1>0, <2>1, ReprChosen
  <2>3. \A j \in Component(l) : Abs(l) <= Abs(j)
    BY <1>2, ReprChosen
  <2> HIDE DEF m
  <2>4. -m \in Component(l)
    BY <1>0, <2>2, ComponentNegated
  <2>5. l \in Component(l)
    <3>1. l \in Reached(Implications, l)
      BY ImplicationClauses, ReachedLits
    <3> QED
      BY <3>1, Zenon DEF Component
  <2>6. -l \in Component(-l)
    BY <2>5, ComponentNegated
  <2>7. Abs(m) <= Abs(-l) /\ Abs(l) <= Abs(-m)
    BY <2>2, <2>3, <2>4, <2>6
  <2>8. Abs(m) = Abs(l)
    <3>1. Abs(-l) = Abs(l) /\ Abs(-m) = Abs(m) /\ Abs(l) \in Var /\ Abs(m) \in Var
      BY <2>2, Literals
    <3>2. Abs(m) \in Nat /\ Abs(l) \in Nat
      BY <3>1, VarAssumption
    <3>3. Abs(m) <= Abs(l) /\ Abs(l) <= Abs(m)
      BY <2>7, <3>1, Zenon
    <3> QED
      BY <3>2, <3>3, SMT
  <2>9. m = l \/ m = -l
    BY <2>2, <2>8, SameVariable
  <2>10. m # l
    <3>1. Active(-l)
      BY <2>1 DEF Replaceable
    <3>2. -(-l) \notin Component(-l)
      BY <1>0, <3>1
    <3> QED
      BY <1>0, <2>2, <3>2
  <2> QED
    BY <2>9, <2>10 DEF m
<1> QED
  BY <1>1, <1>2

-----------------------------------------------------------------------------
(* The variables stay fresh: equivalent literals. *)

LEMMA FreshDecompose ==
  ASSUME Shapes, FInv, StartDecompose
  PROVE  FInv'
<1>0. TypeDB /\ TypeUnits /\ DB \subseteq Clause
  BY DEF Shapes, TypeDB, Kind
<1>1. /\ pc = "simplify" /\ pc' = "represent" /\ UNCHANGED unitVars
      /\ UNCHANGED dbVars /\ reprs' = [l \in Lit |-> Repr(l)]
      /\ \A l \in Lit : Active(l) => -l \notin Component(l)
      /\ work' = {v \in Var : (reprs')[v] # v}
      /\ queue' = IF work' = {} THEN {}
                  ELSE {c \in DB : \E l \in c : ~Active(l) \/ (reprs')[l] # l}
  BY DEF StartDecompose, Start, GoTo
<1> SUFFICES ASSUME ~unsat
             PROVE  FreshIrr' /\ FreshRed' /\ BlockOk' /\ ProbeOk' /\ ReprOk'
                    /\ KeptOk'
  BY <1>1 DEF FInv, unitVars
<1>2. FreshIrr' /\ FreshRed'
  <2>1. ~Lagging /\ Improves
    BY <1>1, SameImproves DEF Lagging
  <2>2. \A c \in DB' : \A l \in c : \E d \in DB : l \in d
    BY <1>1 DEF DB, dbVars
  <2> QED
    BY <1>0, <2>1, <2>2, FreshClauses, Zenon
<1>3. \A l \in Lit : -l \in Lit /\ -(-l) = l /\ Repr(l) \in Lit
  BY <1>0, Literals, ReprChosen
<1>4. \A l \in Lit : /\ Repr(l) = l <=> Repr(-l) = -l
                     /\ Repr(Repr(l)) = Repr(l)
  <2> SUFFICES ASSUME NEW l \in Lit
               PROVE  (Repr(l) = l <=> Repr(-l) = -l) /\ Repr(Repr(l)) = Repr(l)
    OBVIOUS
  <2>1. Repr(l) = l => Repr(-l) = -l
    BY <1>0, <1>1, ReprOfNegation
  <2>2. Repr(-l) = -l => Repr(l) = l
    <3> DEFINE k == -l
    <3>1. k \in Lit /\ -k = l
      BY <1>3
    <3> HIDE DEF k
    <3>2. Repr(k) = k => Repr(-k) = -k
      BY <1>0, <1>1, <3>1, ReprOfNegation
    <3> QED
      BY <3>1, <3>2 DEF k
  <2> QED
    BY <1>0, <2>1, <2>2, ReprOfRepr
<1>5. \A l \in Lit : Repr(l) # l => status[Abs(Repr(l))] \in Usual
  <2> SUFFICES ASSUME NEW l \in Lit, Repr(l) # l
               PROVE  status[Abs(Repr(l))] \in Usual
    OBVIOUS
  <2>1. Active(l) /\ Repr(l) \in Component(l)
    BY <1>0, ReprChosen DEF Replaceable
  <2>2. Active(Repr(l))
    BY <1>0, <2>1, ComponentActive
  <2> QED
    BY <2>2 DEF Active, Usual
<1>6. \A l \in Lit : (reprs')[l] = Repr(l)
  BY <1>1
<1>7. ReprOk'
  <2> SUFFICES ASSUME NEW l \in Lit
               PROVE  /\ (reprs')[l] = l <=> (reprs')[-l] = -l
                      /\ (reprs')[(reprs')[l]] = (reprs')[l]
                      /\ (reprs')[l] # l =>
                           (status')[Abs((reprs')[l])] \in Usual
    BY Zenon DEF ReprOk
  <2>1. (reprs')[l] = Repr(l) /\ (reprs')[-l] = Repr(-l)
        /\ (reprs')[Repr(l)] = Repr(Repr(l))
    BY <1>3, <1>6
  <2>2. status' = status
    BY <1>1 DEF unitVars
  <2> QED
    BY <1>4, <1>5, <2>1, <2>2
<1>8. ASSUME NEW c \in DB, c \notin queue'
      PROVE  \A l \in c : (reprs')[l] = l
  <2>1. CASE work' # {}
    BY <1>1, <1>8, <2>1
  <2>2. CASE work' = {}
    <3> SUFFICES ASSUME NEW l \in c
                 PROVE  (reprs')[l] = l
      OBVIOUS
    <3>1. l \in Lit /\ Abs(l) \in Var /\ l \in {Abs(l), -Abs(l)}
      BY <1>0, Literals DEF Clause
    <3>2. Abs(l) \in Lit /\ Repr(Abs(l)) = Abs(l)
      BY <1>1, <1>6, <2>2, <3>1, Literals
    <3>3. Repr(-Abs(l)) = -Abs(l)
      BY <1>4, <3>2
    <3> QED
      BY <1>6, <3>1, <3>2, <3>3
  <2> QED
    BY <2>1, <2>2
<1>9. KeptOk'
  <2>1. DB' = DB
    BY <1>1 DEF DB, dbVars
  <2> QED
    BY <1>1, <1>8, <2>1, Zenon DEF KeptOk, Kept
<1> QED
  BY <1>1, <1>2, <1>7, <1>9 DEF BlockOk, ProbeOk

\* The literals of a clause are replaced by their representatives.
LEMMA FreshReplace ==
  ASSUME Shapes, FInv, SubstituteClause
  PROVE  FInv'
<1>0. TypeDB /\ TypeUnits /\ TypeJob
  BY DEF Shapes
<1>1. pc = "represent" /\ pc' = "represent" /\ UNCHANGED reprs /\ ~unsat
  BY Zenon DEF SubstituteClause, markVars
<1>2. PICK c \in queue :
        LET replaced == {reprs[l] : l \in Rest(c)}
            r        == Rest(replaced)
        IN /\ queue' = queue \ {c}
           /\ IF Dropped(c, replaced)
              THEN /\ gate' = gate \cup {c}
                   /\ UNCHANGED <<dbVars, unitVars>>
              ELSE IF Cardinality(r) < 2
              THEN /\ Assign(r, r = {})
                   /\ irr' = irr \ {c} /\ red' = red \ {c} /\ UNCHANGED gate
              ELSE /\ irr' = Replace(irr, c, r) /\ red' = Replace(red, c, r)
                   /\ UNCHANGED <<unitVars, gate>>
  BY DEF SubstituteClause
<1> DEFINE replaced == {reprs[l] : l \in Rest(c)}
           r == Rest(replaced)
           empty == r = {}
           Moved == irr' = Replace(irr, c, r) /\ red' = Replace(red, c, r)
<1>3. Substituting /\ Substituting' /\ ~Lagging /\ ReprOk /\ KeptOk
      /\ FreshIrr /\ FreshRed
  BY <1>1 DEF Substituting, Lagging, FInv
<1>4. c \in Clause /\ c \subseteq Lit
  BY <1>0 DEF TypeJob, Clause
<1>5. ASSUME NEW k \in r
      PROVE  /\ reprs[k] = k
             /\ (\E l \in c : k = l) \/ status[Abs(k)] \in Usual
             /\ Abs(k) \in Var
  <2>1. PICK l \in c : k = reprs[l]
    BY DEF Rest
  <2>2. reprs[k] = k /\ (k # l => status[Abs(k)] \in Usual)
    BY <1>3, <1>4, <2>1, Zenon DEF ReprOk
  <2>3. k \in Lit
    BY <1>0, <1>4, <2>1 DEF TypeJob
  <2> QED
    BY <2>1, <2>2, <2>3, Literals
<1>6. Improves /\ (unsat' \/ ~unsat)
  <2>1. UNCHANGED unitVars \/ Assign(r, empty)
    BY <1>2
  <2>2. empty \in BOOLEAN
    OBVIOUS
  <2> HIDE DEF r, empty
  <2> QED
    BY <1>0, <1>1, <2>1, AssignFixes, SameImproves
<1>7. \/ UNCHANGED dbVars /\ gate' = gate \cup {c}
      \/ irr' = irr \ {c} /\ red' = red \ {c} /\ gate' = gate
      \/ Moved /\ gate' = gate
  BY <1>2
<1>8. ASSUME NEW d \in DB'
      PROVE  (d \in DB /\ (d = c => c \in gate')) \/ (d = r /\ c \in DB)
  <2> HIDE DEF r
  <2>1. CASE UNCHANGED dbVars /\ gate' = gate \cup {c}
    BY <1>8, <2>1 DEF DB, dbVars
  <2>2. CASE irr' = irr \ {c} /\ red' = red \ {c}
    BY <1>8, <2>2 DEF DB
  <2>3. CASE Moved
    BY <1>8, <2>3 DEF DB, Replace
  <2> QED
    BY <1>7, <2>1, <2>2, <2>3
<1>9. KeptOk'
  <2> SUFFICES ASSUME NEW d \in DB'
               PROVE  (\A l \in d : reprs[l] = l) \/ d \in queue' \cup gate'
    BY <1>1, Zenon DEF KeptOk, Kept
  <2>1. CASE d = r
    BY <1>5, <2>1
  <2>2. CASE d \in DB /\ (d = c => c \in gate')
    <3>1. (\A l \in d : reprs[l] = l) \/ d \in queue \cup gate
      BY <1>3, <2>2 DEF KeptOk, Kept
    <3>2. queue' = queue \ {c} /\ gate \subseteq gate'
      BY <1>2, <1>7
    <3> QED
      BY <2>2, <3>1, <3>2
  <2> QED
    BY <1>8, <2>1, <2>2
<1>10. ASSUME NEW d \in DB', NEW k \in d
       PROVE  (\E e \in DB : k \in e) \/ (status')[Abs(k)] \in Usual
  <2>1. CASE d \in DB
    BY <1>10, <2>1
  <2>2. CASE d = r /\ c \in DB
    <3>1. /\ (\E l \in c : k = l) \/ status[Abs(k)] \in Usual
          /\ Abs(k) \in Var
      BY <1>5, <1>10, <2>2
    <3>2. CASE \E l \in c : k = l
      BY <2>2, <3>2
    <3>3. CASE status[Abs(k)] \in Usual
      BY <1>6, <3>1, <3>3, Zenon DEF Improves
    <3> QED
      BY <3>1, <3>2, <3>3
  <2> QED
    BY <1>8, <2>1, <2>2
<1> QED
  BY <1>0, <1>1, <1>3, <1>6, <1>9, <1>10, FreshRepresented

LEMMA FreshPushed ==
  ASSUME Shapes, FInv, PushEquivalence \/ ClausesSubstituted
  PROVE  FInv'
<1>0. TypeDB /\ TypeUnits /\ TypeJob
  BY DEF Shapes
<1>1. /\ pc = "represent" /\ UNCHANGED <<reprs, queue, gate>>
      /\ UNCHANGED unitVars
  BY Zenon DEF PushEquivalence, ClausesSubstituted, markVars, jobVars
<1>2. Improves /\ (unsat' \/ ~unsat)
  BY <1>1, SameImproves
<1> SUFFICES ASSUME ~unsat
             PROVE  FInv'
  BY <1>2 DEF FInv
<1>3. Substituting /\ ~Lagging /\ KeptOk
  BY <1>1 DEF Substituting, Lagging, FInv
<1>4. CASE PushEquivalence
  <2>1. pc' = "represent" /\ UNCHANGED dbVars
    BY <1>1, <1>4, Zenon DEF PushEquivalence
  <2>2. KeptOk'
    BY <1>1, <1>3, <2>1, Zenon DEF KeptOk, Kept, DB, dbVars
  <2>3. Substituting'
    BY <2>1 DEF Substituting
  <2>4. \A c \in DB' : \A l \in c : \E d \in DB : l \in d
    BY <2>1 DEF DB, dbVars
  <2> QED
    BY <1>0, <1>1, <1>2, <1>3, <2>2, <2>3, <2>4, FreshRepresented
<1>5. CASE ClausesSubstituted
  <2>1. /\ pc' = "propagate" /\ back' = "substituted" /\ queue = {}
        /\ irr' = irr \ gate /\ red' = red \ gate
    BY <1>5 DEF ClausesSubstituted, PropagateThen
  <2>2. KeptOk'
    <3>1. ASSUME NEW c \in DB'
          PROVE  \A l \in c : reprs[l] = l
      <4>1. c \in DB /\ c \notin gate
        BY <2>1 DEF DB
      <4> QED
        BY <1>3, <2>1, <4>1 DEF KeptOk, Kept
    <3> QED
      BY <1>1, <3>1, Zenon DEF KeptOk, Kept
  <2>3. Substituting'
    BY <2>1 DEF Substituting
  <2>4. \A c \in DB' : \A l \in c : \E d \in DB : l \in d
    BY <2>1 DEF DB
  <2> QED
    BY <1>0, <1>1, <1>2, <1>3, <2>2, <2>3, <2>4, FreshRepresented
<1> QED
  BY <1>4, <1>5

\* No clause has a variable that is marked as substituted.
LEMMA FreshSubstituted ==
  ASSUME Shapes, FInv, Substituted
  PROVE  FInv'
<1>0. TypeDB /\ TypeUnits /\ DB \subseteq Clause
  BY DEF Shapes, TypeDB, Kind
<1>1. /\ pc = "substituted" /\ pc' = "propagate" /\ back' = "simplify"
      /\ UNCHANGED dbVars /\ unsat' = unsat
  BY DEF Substituted, PropagateThen
<1> SUFFICES ASSUME ~unsat
             PROVE  FInv'
  BY <1>1 DEF FInv
<1>2. KeptOk /\ ReprOk /\ FreshIrr /\ FreshRed /\ Substituting /\ ~Lagging
  BY <1>1 DEF FInv, Substituting, Lagging
<1>3. \A v \in Var : reprs[v] = v => (status')[v] = status[v]
  BY DEF Substituted
<1>4. ASSUME NEW c \in DB, NEW l \in c
      PROVE  (status')[Abs(l)] \in Usual
  <2>1. status[Abs(l)] \in Usual /\ l \in Lit /\ Abs(l) \in Var
    BY <1>0, <1>2, FreshDB, FreshVariables DEF Fresh
  <2>2. reprs[l] = l
    BY <1>1, <1>2 DEF KeptOk, Kept
  <2>3. l = Abs(l) \/ l = -Abs(l)
    BY <2>1, Literals
  <2>4. reprs[Abs(l)] = Abs(l)
    <3> DEFINE v == Abs(l)
    <3>1. v \in Lit /\ (l = v \/ l = -v)
      BY <2>1, <2>3, Literals
    <3> HIDE DEF v
    <3>2. reprs[v] = v <=> reprs[-v] = -v
      BY <1>2, <3>1 DEF ReprOk
    <3>3. reprs[v] = v
      BY <2>2, <3>1, <3>2
    <3> QED
      BY <3>3 DEF v
  <2> QED
    BY <1>3, <2>1, <2>4
<1>5. FreshIrr' /\ FreshRed'
  <2>1. \A c \in DB' : \A l \in c : (status')[Abs(l)] \in Usual
    BY <1>1, <1>4 DEF DB, dbVars
  <2> QED
    BY <2>1, Zenon DEF FreshIrr, FreshRed, Fresh, DB
<1> QED
  BY <1>1, <1>5 DEF FInv, BlockOk, ProbeOk, ReprOk, KeptOk, Substituting

-----------------------------------------------------------------------------
(* The variables stay fresh: the other techniques on binary clauses. *)

LEMMA FreshSimple ==
  ASSUME Shapes, FInv, pc = "simplify", Improves, unsat' \/ ~unsat,
         pc' \in {"simplify", "vivify", "instantiate"}
           \/ (pc' = "propagate" /\ back' = "simplify"),
         \A c \in DB' : \A l \in c : \E d \in DB : l \in d
  PROVE  FInv'
<1>1. TypeDB /\ ~Lagging /\ Plain'
  BY DEF Shapes, Lagging, Plain, Substituting
<1> QED
  BY <1>1, FreshStep

\* Clauses are removed only, or stay, or a literal is assigned.
LEMMA FreshFewer ==
  ASSUME Shapes, FInv, pc = "simplify",
         pc' \in {"simplify", "vivify", "instantiate"}
           \/ (pc' = "propagate" /\ back' = "simplify"),
         irr' \subseteq irr, red' \subseteq red, NEW ls, NEW empty,
         UNCHANGED unitVars \/ Assign(ls, empty)
  PROVE  FInv'
<1>1. Improves /\ (unsat' \/ ~unsat)
  BY AssignFixes, SameImproves DEF Shapes
<1>2. \A c \in DB' : \A l \in c : \E d \in DB : l \in d
  BY DEF DB
<1> QED
  BY <1>1, <1>2, FreshSimple

LEMMA FreshUnits ==
  ASSUME Shapes, FInv, Contradiction \/ HyperUnary \/ TransitiveFailed
  PROVE  FInv'
<1>1. /\ pc = "simplify" /\ pc' = "propagate" /\ back' = "simplify"
      /\ UNCHANGED dbVars
      /\ \E l : \E empty \in BOOLEAN : Assign({l}, empty)
  BY DEF Contradiction, HyperUnary, TransitiveFailed, PropagateThen, Start,
         Start1
<1>2. PICK l : \E empty \in BOOLEAN : Assign({l}, empty)
  BY <1>1
<1>3. PICK empty \in BOOLEAN : Assign({l}, empty)
  BY <1>2
<1>4. irr' \subseteq irr /\ red' \subseteq red
  BY <1>1 DEF dbVars
<1> DEFINE ls == {l}
<1>5. Assign(ls, empty)
  BY <1>3
<1> HIDE DEF ls
<1> QED
  BY <1>1, <1>4, <1>5, FreshFewer

LEMMA FreshBinaries ==
  ASSUME Shapes, FInv, Ternary \/ Deduplicate \/ Transitive
  PROVE  FInv'
<1>1. /\ pc = "simplify" /\ UNCHANGED unitVars
      /\ pc' = "simplify" \/ (pc' = "propagate" /\ back' = "simplify")
  BY DEF Ternary, Deduplicate, Transitive, GoTo, PropagateThen, Start, Start1
<1>2. Improves /\ (unsat' \/ ~unsat)
  BY <1>1, SameImproves
<1>3. CASE Ternary
  <2>1. PICK c \in DB, d \in DB : \E l \in c :
          LET r == Resolvent(c, d, l)
              redundant == Cardinality(r) = 3 \/ {c, d} \cap irr = {}
              subsumed == IF Cardinality(r) = 2 THEN {c, d} ELSE {}
          IN /\ irr' = (irr \ subsumed) \cup (IF redundant THEN {} ELSE {r})
             /\ red' = (red \ subsumed) \cup (IF redundant THEN {r} ELSE {})
    BY <1>3 DEF Ternary
  <2>2. PICK l \in c : /\ irr' \subseteq irr \cup {Resolvent(c, d, l)}
                       /\ red' \subseteq red \cup {Resolvent(c, d, l)}
    BY <2>1
  <2>3. \A e \in DB' : \A k \in e : \E f \in DB : k \in f
    BY <2>2 DEF DB, Resolvent
  <2> QED
    BY <1>1, <1>2, <2>3, FreshSimple
<1>4. CASE Deduplicate \/ Transitive
  <2>1. irr' \subseteq irr /\ red' \subseteq red
    BY <1>4 DEF Deduplicate, Transitive
  <2>2. \A e \in DB' : \A k \in e : \E f \in DB : k \in f
    BY <2>1 DEF DB
  <2> QED
    BY <1>1, <1>2, <2>2, FreshSimple
<1> QED
  BY <1>3, <1>4

-----------------------------------------------------------------------------
(* The variables stay fresh: probing. *)

\* The trail is of literals of variables that are used.
LEMMA FreshProbe ==
  ASSUME Shapes, FInv, unsat' \/ ~unsat, pc' = "probe", ~Lagging, Improves,
         \A l \in trail' : status[Abs(l)] \in Usual /\ Abs(l) \in Var,
         \A c \in DB' : \A l \in c :
           (\E d \in DB : l \in d)
           \/ (Abs(l) \in Var /\ status[Abs(l)] \in Usual)
  PROVE  FInv'
<1> SUFFICES ASSUME ~unsat
             PROVE  FreshIrr' /\ FreshRed' /\ BlockOk' /\ ProbeOk' /\ ReprOk'
                    /\ KeptOk'
  BY DEF FInv
<1>1. TypeDB
  BY DEF Shapes
<1>2. \A c \in DB' : \A l \in c :
        (\E d \in DB : l \in d) \/ (status')[Abs(l)] \in Usual
  BY Zenon DEF Improves
<1>3. FreshIrr' /\ FreshRed'
  BY <1>1, <1>2, FreshClauses
<1>4. \A l \in trail' : (status')[Abs(l)] \in Usual
  BY Zenon DEF Improves
<1> QED
  BY <1>3, <1>4 DEF BlockOk, ProbeOk, ReprOk, KeptOk, Substituting, Fresh

LEMMA FreshProbes ==
  ASSUME Shapes, FInv, ~unsat, pc = "probe"
  PROVE  /\ ~Lagging
         /\ \A l \in trail : status[Abs(l)] \in Usual /\ Abs(l) \in Var
         /\ \A c \in DB : \A l \in c :
              status[Abs(l)] \in Usual /\ Abs(l) \in Var
<1>1. TypeDB /\ trail \subseteq Lit /\ ~Lagging
  BY DEF Shapes, TypeJob, Lagging
<1>2. \A l \in trail : status[Abs(l)] \in Usual /\ Abs(l) \in Var
  BY <1>1, Literals DEF FInv, ProbeOk, Fresh
<1>3. \A c \in DB : \A l \in c : status[Abs(l)] \in Usual /\ Abs(l) \in Var
  BY <1>1, FreshDB, FreshVariables DEF Fresh
<1> QED
  BY <1>1, <1>2, <1>3

LEMMA FreshProbing ==
  ASSUME Shapes, FInv, StartProbe \/ ProbeBinary \/ ProbeLong
  PROVE  FInv'
<1>1. UNCHANGED unitVars
  BY Zenon DEF StartProbe, ProbeBinary, ProbeLong
<1>2. Improves /\ (unsat' \/ ~unsat)
  BY <1>1, SameImproves
<1> SUFFICES ASSUME ~unsat
             PROVE  FInv'
  BY <1>2 DEF FInv
<1>3. CASE StartProbe
  <2>1. PICK l \in Lit : Active(l) /\ trail' = {l}
    BY <1>3 DEF StartProbe, IsProbe
  <2>2. pc = "simplify" /\ pc' = "probe" /\ UNCHANGED dbVars
    BY <1>3 DEF StartProbe, Start, GoTo
  <2>3. \A k \in trail' : status[Abs(k)] \in Usual /\ Abs(k) \in Var
    BY <2>1, Literals DEF Active, Usual
  <2>4. \A c \in DB' : \A k \in c : \E d \in DB : k \in d
    BY <2>2 DEF DB, dbVars
  <2> QED
    BY <1>2, <2>2, <2>3, <2>4, FreshProbe DEF Lagging
<1>4. CASE ProbeBinary
  <2>1. /\ pc = "probe" /\ pc' = "probe" /\ UNCHANGED dbVars
        /\ trail' = trail \cup Forced(Binaries(DB), Holds)
    BY <1>4, Zenon DEF ProbeBinary, Probing
  <2>2. \A l \in Forced(Binaries(DB), Holds) : \E c \in DB : l \in c
    BY DEF Forced, Binaries
  <2>3. \A k \in trail' : status[Abs(k)] \in Usual /\ Abs(k) \in Var
    BY <2>1, <2>2, FreshProbes
  <2>4. \A c \in DB' : \A k \in c : \E d \in DB : k \in d
    BY <2>1 DEF DB, dbVars
  <2> QED
    BY <1>2, <2>1, <2>3, <2>4, FreshProbes, FreshProbe
<1>5. CASE ProbeLong
  <2>1. pc = "probe" /\ pc' = "probe"
    BY <1>5, Zenon DEF ProbeLong, Probing
  <2>2. PICK c \in DB, l \in UNION DB :
          /\ l \in c /\ trail' = trail \cup {l}
          /\ \/ UNCHANGED dbVars
             \/ \E dom \in trail : /\ irr' \subseteq irr \cup {{-dom, l}}
                                   /\ red' \subseteq red \cup {{-dom, l}}
    <3>1. PICK c \in DB : \E l \in c :
            LET others == Negated(c \ {l}) \ units
            IN /\ trail' = trail \cup {l}
               /\ IF Cardinality(others) = 1 THEN UNCHANGED dbVars
                  ELSE \E dom \in Dominators(others) :
                         LET redundant == ~Contained(dom, c) \/ c \notin irr
                             removed == IF Contained(dom, c) THEN {c} ELSE {}
                             binary == {{-dom, l}}
                         IN /\ irr' = (irr \ removed) \cup
                                      (IF redundant THEN {} ELSE binary)
                            /\ red' = (red \ removed) \cup
                                      (IF redundant THEN binary ELSE {})
      BY <1>5 DEF ProbeLong
    <3>2. PICK l \in c :
            LET others == Negated(c \ {l}) \ units
            IN /\ trail' = trail \cup {l}
               /\ IF Cardinality(others) = 1 THEN UNCHANGED dbVars
                  ELSE \E dom \in Dominators(others) :
                         /\ irr' \subseteq irr \cup {{-dom, l}}
                         /\ red' \subseteq red \cup {{-dom, l}}
      BY <3>1
    <3>3. \A others : Dominators(others) \subseteq trail
      BY DEF Dominators
    <3>4. l \in UNION DB
      BY <3>1
    <3> QED
      BY <3>2, <3>3, <3>4
  <2>3. \A k \in trail' : status[Abs(k)] \in Usual /\ Abs(k) \in Var
    BY <2>1, <2>2, FreshProbes
  <2>4. CASE UNCHANGED dbVars
    <3>1. \A e \in DB' : \A k \in e : \E d \in DB : k \in d
      BY <2>4 DEF DB, dbVars
    <3> QED
      BY <1>2, <2>1, <2>3, <3>1, FreshProbes, FreshProbe
  <2>5. ASSUME NEW dom \in trail, irr' \subseteq irr \cup {{-dom, l}},
               red' \subseteq red \cup {{-dom, l}}
        PROVE  FInv'
    <3>1. dom \in Lit /\ Abs(-dom) = Abs(dom)
      BY Literals DEF Shapes, TypeJob
    <3>2. status[Abs(-dom)] \in Usual /\ Abs(-dom) \in Var
      BY <2>1, <3>1, FreshProbes
    <3> DEFINE n == -dom
    <3>3. \A e \in DB' : \A k \in e :
            (\E d \in DB : k \in d) \/ k = n
      BY <2>2, <2>5 DEF DB
    <3>4. status[Abs(n)] \in Usual /\ Abs(n) \in Var
      BY <3>2
    <3> HIDE DEF n
    <3>5. \A e \in DB' : \A k \in e :
            (\E d \in DB : k \in d)
            \/ (Abs(k) \in Var /\ status[Abs(k)] \in Usual)
      BY <3>3, <3>4, Zenon
    <3> QED
      BY <1>2, <2>1, <2>3, <3>5, FreshProbes, FreshProbe
  <2> QED
    BY <2>2, <2>4, <2>5
<1> QED
  BY <1>3, <1>4, <1>5

LEMMA FreshProbed ==
  ASSUME Shapes, FInv, FailedLiteral \/ Probed
  PROVE  FInv'
<1>1. /\ pc = "probe" /\ UNCHANGED dbVars
      /\ pc' = "simplify" \/ (pc' = "propagate" /\ back' = "simplify")
  BY DEF FailedLiteral, Probed, Probing, GoTo, PropagateThen
<1>2. UNCHANGED unitVars \/ \E l : Assign({l}, FALSE)
  BY DEF FailedLiteral, Probed
<1>3. Improves /\ (unsat' \/ ~unsat)
  <2>1. CASE UNCHANGED unitVars
    BY <2>1, SameImproves
  <2>2. ASSUME NEW l, Assign({l}, FALSE)
        PROVE  Improves /\ (unsat' \/ ~unsat)
    <3> DEFINE ls == {l}
               empty == FALSE
    <3>1. Assign(ls, empty) /\ TypeUnits
      BY <2>2 DEF Shapes
    <3> HIDE DEF ls, empty
    <3> QED
      BY <3>1, AssignFixes
  <2> QED
    BY <1>2, <2>1, <2>2
<1>4. irr' \subseteq irr /\ red' \subseteq red /\ Plain' /\ ~Lagging
  BY <1>1 DEF dbVars, Plain, Substituting, Lagging
<1> QED
  BY <1>3, <1>4, FreshSame DEF Shapes

LEMMA FreshReduces ==
  ASSUME Shapes, FInv, Reduces
  PROVE  FInv'
  BY FreshUnits, FreshDecompose, FreshPushed, FreshReplace, FreshSubstituted,
     FreshBinaries, FreshProbing, FreshProbed DEF Reduces

-----------------------------------------------------------------------------
(* The variables stay fresh: strengthening. *)

\* Every clause has its literals in a clause there was.
LEMMA FreshWithin ==
  ASSUME Shapes, FInv, Improves, unsat' \/ ~unsat, ~Lagging, Plain',
         \A c \in DB' : \E d \in DB : c \subseteq d
  PROVE  FInv'
<1>1. \A c \in DB' : \A l \in c : \E d \in DB : l \in d
  BY DEF DB
<1> QED
  BY <1>1, FreshStep DEF Shapes

LEMMA ReplacedWithin ==
  ASSUME NEW redundant \in BOOLEAN, NEW c, NEW new, ReplaceBy(c, redundant, new),
         \A r \in new : \E d \in DB : r \subseteq d
  PROVE  \A e \in DB' : \E d \in DB : e \subseteq d
<1>1. DB' \subseteq DB \cup new
  BY DEF ReplaceBy, DB
<1> QED
  BY <1>1

LEMMA FreshSubsume ==
  ASSUME Shapes, FInv,
         Subsume \/ Strengthen \/ VivifyFlush \/ VivifySatisfied
  PROVE  FInv'
<1>1. /\ pc = "simplify" /\ pc' = "simplify" /\ UNCHANGED unitVars
  BY DEF Subsume, Strengthen, VivifyFlush, VivifySatisfied, GoTo, Start, Start1
<1>2. /\ Improves /\ (unsat' \/ ~unsat) /\ ~Lagging /\ Plain'
  BY <1>1, SameImproves DEF Lagging, Plain, Substituting
<1>3. CASE Subsume
  <2>1. DB' \subseteq DB
    BY <1>3 DEF Subsume, DB, Of
  <2> QED
    BY <1>2, <2>1, FreshWithin
<1>4. CASE Strengthen
  <2>1. PICK redundant \in BOOLEAN : \E c \in Of(redundant) : \E l :
          ReplaceBy(c, redundant, {c \ {l}})
    BY <1>4, Zenon DEF Strengthen
  <2>2. PICK c \in Of(redundant) : \E l :
          ReplaceBy(c, redundant, {c \ {l}})
    BY <2>1
  <2>3. PICK l : ReplaceBy(c, redundant, {c \ {l}})
    BY <2>2
  <2>4. c \in DB
    BY DEF Of, DB
  <2> QED
    BY <1>2, <2>3, <2>4, ReplacedWithin, FreshWithin
<1>5. CASE VivifyFlush \/ VivifySatisfied
  <2>1. PICK redundant \in BOOLEAN : \E c : ReplaceBy(c, redundant, {})
    BY <1>5, Zenon DEF VivifyFlush, VivifySatisfied
  <2>2. PICK c : ReplaceBy(c, redundant, {})
    BY <2>1
  <2> QED
    BY <1>2, <2>2, ReplacedWithin, FreshWithin
<1> QED
  BY <1>3, <1>4, <1>5

\* Steps that only choose, decide and imply.
LEMMA FreshDecided ==
  ASSUME Shapes, FInv,
         \/ StartVivify \/ ImplyTrail \/ VivifyDecide \/ VivifyImplied
         \/ VivifyLast \/ VivifyKeep \/ Instantiate
  PROVE  FInv'
<1>1. /\ UNCHANGED dbVars /\ UNCHANGED unitVars
      /\ pc \in {"simplify", "vivify", "last", "instantiate"}
      /\ pc' \in {"simplify", "vivify", "last", "instantiate"}
  <2>1. CASE StartVivify \/ Instantiate
    BY <2>1, Zenon DEF StartVivify, Instantiate, GoTo, Start
  <2>2. CASE ImplyTrail \/ VivifyDecide \/ VivifyImplied
    <3>1. pc \in {"vivify", "last", "instantiate"} /\ UNCHANGED pc
          /\ UNCHANGED dbVars /\ UNCHANGED unitVars
      BY <2>2, Zenon DEF ImplyTrail, VivifyDecide, VivifyImplied
    <3> QED
      BY <3>1
  <2>3. CASE VivifyLast \/ VivifyKeep
    BY <2>3, Zenon DEF VivifyLast, VivifyKeep, GoTo
  <2> QED
    BY <2>1, <2>2, <2>3
<1>2. Improves /\ (unsat' \/ ~unsat)
  BY <1>1, SameImproves
<1>3. irr' \subseteq irr /\ red' \subseteq red /\ ~Lagging /\ Plain'
  BY <1>1 DEF dbVars, Lagging, Plain, Substituting
<1> QED
  BY <1>2, <1>3, FreshSame DEF Shapes

\* What replaces the candidate has literals of it only.
LEMMA FreshVivified ==
  ASSUME Shapes, FInv, pc \in {"vivify", "last"}, NEW r \in SUBSET cand,
         VivifyStrengthen(r)
  PROVE  FInv'
<1>1. cand \in DB /\ flag \in BOOLEAN /\ TypeUnits
  BY DEF Shapes, VivifyOk, Of, DB, TypeJob
<1>2. ~Lagging /\ Plain'
  BY DEF Lagging, Plain, Substituting, VivifyStrengthen, PropagateThen
<1> DEFINE ls == IF Cardinality(r) = 1 THEN r ELSE {}
           empty == FALSE
           new == IF Cardinality(r) = 1 THEN {} ELSE {r}
<1>3. Assign(ls, empty) /\ ReplaceBy(cand, flag, new)
  BY DEF VivifyStrengthen
<1>4. \A d \in new : \E e \in DB : d \subseteq e
  BY <1>1
<1> HIDE DEF ls, empty, new
<1>5. Improves /\ (unsat' \/ ~unsat)
  BY <1>1, <1>3, AssignFixes
<1>6. \A e \in DB' : \E d \in DB : e \subseteq d
  BY <1>1, <1>3, <1>4, ReplacedWithin
<1> QED
  BY <1>2, <1>5, <1>6, FreshWithin

LEMMA FreshVivify ==
  ASSUME Shapes, FInv, VivifySubsume \/ VivifyLearn \/ VivifyRemove
  PROVE  FInv'
<1>1. pc \in {"vivify", "last"} /\ VivifyOk /\ TypeJob
  BY DEF VivifySubsume, VivifyLearn, VivifyRemove, Shapes
<1>2. /\ work \subseteq Rest(cand) /\ Negated(marked) \subseteq Rest(cand)
      /\ Rest(cand) \subseteq cand /\ flag \in BOOLEAN
  BY <1>1 DEF VivifyOk, Rest, TypeJob
<1>3. CASE VivifySubsume
  <2>1. /\ UNCHANGED unitVars /\ pc' = "simplify"
        /\ ReplaceBy(cand, flag, {})
    BY <1>3 DEF VivifySubsume, GoTo
  <2>2. /\ Improves /\ (unsat' \/ ~unsat) /\ ~Lagging /\ Plain'
    BY <1>1, <2>1, SameImproves DEF Lagging, Plain, Substituting
  <2> QED
    BY <1>2, <2>1, <2>2, ReplacedWithin, FreshWithin
<1>4. CASE VivifyLearn
  <2>1. PICK l \in Found, needed \in SUBSET marked :
          LET r == Negated(needed) \cup ({l} \ {0})
          IN VivifyStrengthen(IF r = Rest(cand) THEN cand ELSE r)
    BY <1>4, Zenon DEF VivifyLearn
  <2> DEFINE r == Negated(needed) \cup ({l} \ {0})
             s == IF r = Rest(cand) THEN cand ELSE r
  <2>2. VivifyStrengthen(s)
    BY <2>1
  <2>3. l = 0 \/ l \in work
    BY DEF Found
  <2>4. Negated(needed) \subseteq Negated(marked)
    BY DEF Negated
  <2>5. s \in SUBSET cand
    BY <1>2, <2>3, <2>4
  <2> HIDE DEF s
  <2> QED
    BY <1>1, <2>2, <2>5, FreshVivified
<1>5. CASE VivifyRemove
  <2> DEFINE s == Negated(marked) \
                    (IF pc = "last" /\ Conflict THEN {count} ELSE {})
  <2>1. VivifyStrengthen(s)
    BY <1>5, Zenon DEF VivifyRemove
  <2>2. s \in SUBSET cand
    BY <1>2
  <2> HIDE DEF s
  <2> QED
    BY <1>1, <2>1, <2>2, FreshVivified
<1> QED
  BY <1>3, <1>4, <1>5

LEMMA FreshInstantiated ==
  ASSUME Shapes, FInv, Instantiated
  PROVE  FInv'
<1>1. /\ pc = "instantiate" /\ pc' = "simplify" /\ UNCHANGED unitVars
      /\ irr' \subseteq irr \cup {cand \ {pivot}} /\ red' = red
  BY DEF Instantiated, GoTo
<1>2. cand \in DB
  BY <1>1 DEF Shapes, InstantiateOk, DB
<1>3. /\ Improves /\ (unsat' \/ ~unsat) /\ ~Lagging /\ Plain'
  BY <1>1, SameImproves DEF Lagging, Plain, Substituting
<1>4. \A e \in DB' : \E d \in DB : e \subseteq d
  BY <1>1, <1>2 DEF DB
<1> QED
  BY <1>3, <1>4, FreshWithin

LEMMA FreshStrengthens ==
  ASSUME Shapes, FInv, Strengthens
  PROVE  FInv'
  BY FreshSubsume, FreshDecided, FreshVivify, FreshInstantiated
     DEF Strengthens

-----------------------------------------------------------------------------
(* All steps together. *)

LEMMA FreshStart == Init => FInv
  BY DEF Init, FInv, FreshIrr, FreshRed, BlockOk, ProbeOk, ReprOk, KeptOk,
         Substituting

LEMMA FreshStutter ==
  ASSUME FInv, UNCHANGED vars
  PROVE  FInv'
<1>1. /\ UNCHANGED <<irr, red, units, unsat, status, pc, back>>
      /\ UNCHANGED <<pivot, queue, gate, trail, reprs, flag>>
  BY DEF vars, dbVars, unitVars, jobVars, markVars
<1> QED
  BY <1>1, Zenon DEF FInv, FreshIrr, FreshRed, Fresh, Lagging, BlockOk, Occs,
     ProbeOk, ReprOk, KeptOk, Kept, Substituting, DB

LEMMA FreshNext ==
  ASSUME DInv, FInv, [Next]_vars
  PROVE  FInv'
<1>1. Shapes
  BY DEF DInv
<1> QED
  BY <1>1, FreshUser, FreshRestore, FreshPropagate, FreshSearch,
     FreshEliminating, FreshBlocks, FreshReduces, FreshStrengthens,
     FreshStutter DEF Next, External

LEMMA FreshBetween == FInv => NoStaleVariables
<1> SUFFICES ASSUME FInv, Between, ~unsat, NEW c \in DB
             PROVE  \A l \in c : status[Abs(l)] \in {"active", "fixed"}
  BY DEF NoStaleVariables
<1>1. ~Lagging
  BY DEF Between, Lagging
<1> QED
  BY <1>1, FreshDB DEF Fresh, Usual

(* Between the techniques no clause has a variable that was eliminated, found
   pure or substituted: the clauses of an eliminated variable are replaced by
   resolvents without it, those with a substituted one get its representative,
   which represents itself, and redundant ones, which no technique looks at
   while it runs, are removed when it ends. *)
THEOREM VariablesFresh == Spec => []NoStaleVariables
<1>1. Init => DInv /\ FInv
  BY Start0, ShapesStart, FreshStart DEF DInv
<1>2. DInv /\ FInv /\ [Next]_vars => DInv' /\ FInv'
  BY ShapesStep, FreshNext
<1>3. FInv => NoStaleVariables
  BY FreshBetween
<1> QED
  BY <1>1, <1>2, <1>3, PTL DEF Spec

=============================================================================
