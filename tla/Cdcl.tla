-------------------------------- MODULE Cdcl --------------------------------
(***************************************************************************)
(* The conflict-driven search core of CaDiCaL: the internal solver         *)
(* (Internal) as the API calls 'add', 'assume', 'constrain', 'solve' and   *)
(* 'failed' drive it, with the main loop cdcl_loop_with_inprocessing,      *)
(* propagation, conflict analysis (first UIP, on-the-fly strengthening,    *)
(* shrinking and minimisation), chronological backtracking, restarts and   *)
(* clause-database reduction.                                              *)
(*                                                                         *)
(* A literal is a non-zero integer and -l its complement, as in the code.  *)
(* A clause is the set of its literals.  Three things are abstracted:      *)
(*   - which unvisited watch finds a unit clause: propagation visits the   *)
(*     trail in order, may use any clause containing the literal it        *)
(*     visits, and leaves that literal only when no clause all of whose    *)
(*     other literals but one are visited is left unit;                    *)
(*   - the heuristics: any unassigned variable, any phase, any trail level *)
(*     a comparison of scores could choose (module DecisionQueue has the   *)
(*     queue);                                                             *)
(*   - inprocessing, which is not part of this module.                     *)
(***************************************************************************)
EXTENDS Integers, Sequences, FiniteSets

CONSTANTS
  Var,            \* the variables 1..max_var
  Inputs,         \* the sequences of clauses a user may add, in order
  OptionSets,     \* the option settings a run may use
  Assumable,      \* the literals a user may assume
  Constraints,    \* the clauses a user may set as constraint
  MaxAssumptions, \* bound: assumptions per 'solve' call
  MaxSolves,      \* bound: 'solve' calls
  MaxReductions,  \* bound: clause-database reductions
  MaxInterrupts,  \* bound: 'solve' calls stopped by a limit or 'terminate'
  RestartInt      \* opts.restartint

Lit == Var \cup {-v : v \in Var}
Abs(l) == IF l < 0 THEN -l ELSE l
Sign(l) == IF l < 0 THEN -1 ELSE 1
IsTautology(c) == \E l \in c : -l \in c

Options ==
  [chrono : BOOLEAN, chronoalways : BOOLEAN, chronolevelim : Nat,
   chronoreusetrail : BOOLEAN, otfs : BOOLEAN, shrink : BOOLEAN,
   minimize : BOOLEAN, eagersubsume : BOOLEAN, restart : BOOLEAN,
   restartreusetrail : BOOLEAN, reduce : BOOLEAN, forcephase : BOOLEAN]

ASSUME VarAssumption == Var \subseteq Nat \ {0} /\ IsFiniteSet(Var)
ASSUME InputAssumption == Inputs \subseteq Seq(SUBSET Lit)
ASSUME OptionAssumption == OptionSets \subseteq Options
ASSUME UserAssumption == Assumable \subseteq Lit /\ Constraints \subseteq SUBSET Lit
ASSUME BoundAssumption ==
  {MaxAssumptions, MaxSolves, MaxReductions, MaxInterrupts, RestartInt} \subseteq Nat

-----------------------------------------------------------------------------
VARIABLES
  opts,       \* Options opts
  maxVar,     \* max_var: the variables up to it are in use
  orig,       \* every clause added so far (External::original)
  inbox,      \* clauses the user has not added yet
  irr, red,   \* the irredundant and the redundant clauses not marked garbage
  val,        \* vals: -1, 0 or 1 for every variable
  vlevel,     \* Var::level of the assigned variables, 0 for the others
  reason,     \* Var::reason, {} for none
  pos,        \* Var::trail: the position on the trail, from 1; 0 if unassigned
  propagated, \* number of literals of the trail already propagated
  control,    \* the levels 1..level: decision (0: pseudo level), trail
  conflict,   \* conflict, {} for none
  pc,         \* where the handler that runs is
  caller,     \* on whose behalf propagate runs
  work,       \* 'clause': the resolvent of conflict analysis
  saved,      \* 'clause' before the block or literal now tried
  todo,       \* its literals still to be shrunken or minimized
  block,      \* those of them being shrunken or minimized now
  resolved,   \* resolution steps since the last conflict clause (0..2)
  csize,      \* conflict_size
  unsat,      \* unsat
  assumptions, constraint, unsatConstraint,
  failed,     \* the literals with their 'failed' bit set
  marked,     \* marked_failed
  result,     \* 10, 20 or 0: the state SATISFIED, UNSATISFIED or STEADY
  conflicts,  \* conflicts since the last restart, up to RestartInt + 1
  reductions, solves, interrupts

dbVars      == <<maxVar, orig, inbox, irr, red>>
assignVars  == <<val, vlevel, reason, pos, propagated, control>>
analyzeVars == <<work, saved, todo, block, resolved, csize>>
userVars    == <<assumptions, constraint, unsatConstraint, failed, marked>>
countVars   == <<reductions, solves, interrupts>>
vars == <<opts, dbVars, assignVars, conflict, pc, caller, analyzeVars, unsat,
          userVars, result, conflicts, countVars>>

-----------------------------------------------------------------------------
(* The state of the assignment.                                            *)

Frames == [decision : Lit \cup {0}, trail : Nat]
level == Len(control)
DB == irr \cup red
Value(l) == IF l > 0 THEN val[l] ELSE -val[-l]
LevelOf(l) == vlevel[Abs(l)]
LitOf(v) == IF val[v] < 0 THEN -v ELSE v
Fixed(l) == IF LevelOf(l) = 0 THEN Value(l) ELSE 0
Falsified(c) == \A l \in c : Value(l) < 0
NonRoot(c) == {l \in c : LevelOf(l) > 0}
Position(l) == pos[Abs(l)]
numAssigned == Cardinality({v \in Var : val[v] # 0}) \* the size of the trail
IsLatest(l, S) == l \in S /\ \A k \in S : Position(k) <= Position(l)
IsEarliest(l, S) == l \in S /\ \A k \in S : Position(l) <= Position(k)
IsMaxLevel(a, S) == /\ a = 0 \/ \E l \in S : a = LevelOf(l)
                    /\ \A l \in S : LevelOf(l) <= a

(* assignment_level, and the level 'search_assign' stores: l is implied by
   the reason c, and the decision level is L. *)
IsAssignmentLevel(a, l, c, L) ==
  IF c = {} THEN a = 0
  ELSE IF opts.chrono THEN IsMaxLevel(a, c \ {l}) ELSE a = L

(* backtrack (L): literals of a level above L are unassigned, the others of
   the cut-off part of the trail are kept, in order ("reassigned").  When
   L = level nothing changes, as with the early return of the code.  Level,
   reason and position of an unassigned variable are reset here (the code
   does not read them before it sets them again). *)
Assigned(L) == IF L < level THEN control[L + 1].trail ELSE numAssigned
(* Seeded fault: the whole cut-off part of the trail is unassigned. *)
Stays_BelowCut(v, L) == val[v] # 0 /\ pos[v] <= Assigned(L)
Stays(v, L) == val[v] # 0 /\ vlevel[v] <= L
KeepVal(L) == [v \in Var |-> IF Stays(v, L) THEN val[v] ELSE 0]
KeepLevel(L) == [v \in Var |-> IF Stays(v, L) THEN vlevel[v] ELSE 0]
KeepReason(L) == [v \in Var |-> IF Stays(v, L) THEN reason[v] ELSE {}]
Reassigned(v, L) == {w \in Var : /\ Stays(w, L) /\ pos[w] > Assigned(L)
                                 /\ pos[w] <= pos[v]}
(* Seeded fault: literals that stay keep the place they had. *)
KeepPos_Unmoved(L) == [v \in Var |-> IF Stays(v, L) THEN pos[v] ELSE 0]
KeepPos(L) == [v \in Var |->
                IF ~Stays(v, L) THEN 0
                ELSE IF pos[v] <= Assigned(L) THEN pos[v]
                ELSE Assigned(L) + Cardinality(Reassigned(v, L))]
(* Seeded fault: out-of-order literals are not propagated again. *)
KeepPropagated_AfterKept(L) ==
  LET kept == Cardinality({v \in Var : Stays(v, L)})
  IN IF propagated > kept THEN kept ELSE propagated
KeepPropagated(L) == IF propagated > Assigned(L) THEN Assigned(L) ELSE propagated

Backtrack(L) ==
  /\ val' = KeepVal(L)
  /\ vlevel' = KeepLevel(L)
  /\ reason' = KeepReason(L)
  /\ pos' = KeepPos(L)
  /\ propagated' = KeepPropagated(L)
  /\ control' = SubSeq(control, 1, L)

(* backtrack (L) followed by search_assign of l at level a with reason c. *)
BacktrackAssign(L, l, c, a) ==
  /\ val' = [KeepVal(L) EXCEPT ![Abs(l)] = Sign(l)]
  /\ vlevel' = [KeepLevel(L) EXCEPT ![Abs(l)] = a]
  /\ reason' = [KeepReason(L) EXCEPT ![Abs(l)] = IF a = 0 THEN {} ELSE c]
  /\ pos' = [KeepPos(L) EXCEPT ![Abs(l)] =
                1 + Cardinality({v \in Var : Stays(v, L)})]
  /\ propagated' = KeepPropagated(L)
  /\ control' = SubSeq(control, 1, L)

(* new_trail_level, with search_assume_decision unless the level is a pseudo
   level of an assumption or constraint that holds already. *)
Decision(l) ==
  /\ control' = Append(control, [decision |-> l, trail |-> numAssigned])
  /\ val' = [val EXCEPT ![Abs(l)] = Sign(l)]
  /\ vlevel' = [vlevel EXCEPT ![Abs(l)] = level + 1]
  /\ reason' = [reason EXCEPT ![Abs(l)] = {}]
  /\ pos' = [pos EXCEPT ![Abs(l)] = numAssigned + 1]
  /\ UNCHANGED propagated

PseudoDecision ==
  /\ control' = Append(control, [decision |-> 0, trail |-> numAssigned])
  /\ UNCHANGED <<val, vlevel, reason, pos, propagated>>

-----------------------------------------------------------------------------
(* propagate.  Visiting the next literal p of the trail means going over the
   watches of -p.  After a binary conflict the loop goes on over the binary
   watches that are left, which may assign more literals.                  *)

Visiting == pc = "propagate" /\ propagated < numAssigned
IsFalseWatch(l) == Value(l) < 0 /\ Position(l) = propagated + 1
Watching == {c \in DB : \E l \in c : IsFalseWatch(l)}
Unvisited(c) == {l \in c : Value(l) < 0 => Position(l) > propagated + 1}

PropagateUnit ==
  /\ Visiting
  /\ \E c \in Watching : \E l \in c : \E a \in 0..level :
       /\ conflict # {} => Cardinality(conflict) = 2 /\ Cardinality(c) = 2
       /\ Value(l) = 0 /\ Falsified(c \ {l})
       /\ IsAssignmentLevel(a, l, c, level)
       /\ BacktrackAssign(level, l, c, a)
  /\ UNCHANGED <<opts, dbVars, conflict, pc, caller, analyzeVars, unsat,
                 userVars, result, conflicts, countVars>>

PropagateConflict ==
  /\ Visiting /\ conflict = {}
  /\ \E c \in Watching : Falsified(c) /\ conflict' = c
  /\ UNCHANGED <<opts, dbVars, assignVars, pc, caller, analyzeVars, unsat,
                 userVars, result, conflicts, countVars>>

(* Seeded fault: the loop over the watches stops at the first blocked one. *)
PropagateNext_Early ==
  /\ Visiting /\ conflict = {}
  /\ \A c \in Watching : Unvisited(c) # {}
  /\ propagated' = propagated + 1
  /\ UNCHANGED <<opts, dbVars, val, vlevel, reason, pos, control, conflict,
                 pc, caller, analyzeVars, unsat, userVars, result, conflicts,
                 countVars>>

PropagateNext ==
  /\ Visiting /\ conflict = {}
  /\ \A c \in Watching : Cardinality(Unvisited(c)) <= 1
                         => \E l \in Unvisited(c) : Value(l) > 0
  /\ propagated' = propagated + 1
  /\ UNCHANGED <<opts, dbVars, val, vlevel, reason, pos, control, conflict,
                 pc, caller, analyzeVars, unsat, userVars, result, conflicts,
                 countVars>>

PropagateFail ==
  /\ Visiting /\ conflict # {}
  /\ propagated' = propagated + 1
  /\ conflicts' = IF conflicts > RestartInt THEN conflicts ELSE conflicts + 1
  /\ pc' = "analyze"
  /\ UNCHANGED <<opts, dbVars, val, vlevel, reason, pos, control, conflict,
                 caller, analyzeVars, unsat, userVars, result, countVars>>

Quiet == pc = "propagate" /\ conflict = {} /\ propagated = numAssigned
Ready == Quiet /\ caller = "search"

(* assign_original_unit returns to the user once its unit is propagated. *)
PropagateAdded ==
  /\ Quiet /\ caller = "add"
  /\ pc' = "steady"
  /\ UNCHANGED <<opts, dbVars, assignVars, conflict, caller, analyzeVars,
                 unsat, userVars, result, conflicts, countVars>>

-----------------------------------------------------------------------------
(* analyze.                                                                *)

ActualLevels(jump) == \* determine_actual_backtrack_level
  IF ~opts.chrono THEN {jump}
  ELSE IF opts.chronoalways THEN {level - 1}
  ELSE IF jump >= level - 1 \/ jump < Len(assumptions) THEN {jump}
  ELSE IF level - jump > opts.chronolevelim THEN {level - 1}
  ELSE IF opts.chronoreusetrail THEN jump..level - 1
  ELSE {jump}

NoAnalysis == /\ work' = {} /\ saved' = {} /\ todo' = {} /\ block' = {}
              /\ resolved' = 0 /\ csize' = 0

(* find_conflict_level: one literal alone on the highest level of the
   conflict is flipped at once, with the conflict as its reason. *)
IsForced(l) == /\ opts.chrono /\ l \in conflict /\ LevelOf(l) > 0
               /\ \A k \in conflict \ {l} : LevelOf(k) < LevelOf(l)

AnalyzeForced ==
  /\ pc = "analyze"
  /\ \E l \in conflict : \E a \in 0..level :
       /\ IsForced(l)
       /\ IsAssignmentLevel(a, l, conflict, LevelOf(l) - 1)
       /\ BacktrackAssign(LevelOf(l) - 1, l, conflict, a)
  /\ conflict' = {} /\ pc' = "propagate"
  /\ UNCHANGED <<opts, dbVars, caller, analyzeVars, unsat, userVars, result,
                 conflicts, countVars>>

LearnEmptyClause == unsat' = TRUE /\ marked' = TRUE

(* Seeded fault: a conflict below the last assumption counts as unconditional. *)
AnalyzeRoot_Assumed ==
  /\ pc = "analyze"
  /\ level <= Len(assumptions)
  /\ Backtrack(0)
  /\ LearnEmptyClause
  /\ pc' = "steady"
  /\ result' = IF caller = "add" THEN 0 ELSE 20
  /\ UNCHANGED <<opts, dbVars, conflict, caller, analyzeVars, assumptions,
                 constraint, unsatConstraint, failed, conflicts, countVars>>

AnalyzeRoot ==
  /\ pc = "analyze"
  /\ IF opts.chrono THEN IsMaxLevel(0, conflict) ELSE level = 0
  /\ Backtrack(0)
  /\ LearnEmptyClause
  /\ pc' = "steady"
  /\ result' = IF caller = "add" THEN 0 ELSE 20
  /\ UNCHANGED <<opts, dbVars, conflict, caller, analyzeVars, assumptions,
                 constraint, unsatConstraint, failed, conflicts, countVars>>

AnalyzeStart ==
  /\ pc = "analyze" /\ ~ \E l \in conflict : IsForced(l)
  /\ \E L \in 1..level :
       /\ IF opts.chrono THEN IsMaxLevel(L, conflict) ELSE L = level
       /\ Backtrack(L)
  /\ work' = NonRoot(conflict) /\ csize' = Cardinality(NonRoot(conflict))
  /\ resolved' = 1 /\ pc' = "resolve"
  /\ UNCHANGED <<opts, dbVars, conflict, caller, saved, todo, block, unsat,
                 userVars, result, conflicts, countVars>>

(* Resolving away the false literal l, the negation of an implied one;
   root-level literals are dropped (analyze_literal). *)
Antecedent(l) == NonRoot(reason[Abs(l)] \ {-l})
Resolvent(l) == (work \ {l}) \cup Antecedent(l)
Open(c) == {l \in c : LevelOf(l) = level}

(* The resolvent equals the antecedent without the resolved literal, which
   is what "resolvent_size < antecedent_size" says of them: the antecedent is
   strengthened on the fly (otfs_strengthen_clause). *)
Strengthens(l) == /\ opts.otfs /\ Cardinality(Antecedent(l)) > 1
                  /\ Resolvent(l) = Antecedent(l)

Resolve ==
  /\ pc = "resolve" /\ Cardinality(Open(work)) > 1
  /\ \E l \in work : /\ IsLatest(l, Open(work)) /\ ~Strengthens(l)
                     /\ work' = Resolvent(l)
  /\ resolved' = 2
  /\ UNCHANGED <<opts, dbVars, assignVars, conflict, pc, caller, saved, todo,
                 block, csize, unsat, userVars, result, conflicts, countVars>>

(* The antecedent of l is strengthened to s.  If it was the first one
   resolved with the conflict and s is shorter than the conflict, s also
   subsumes the conflict (otfs_subsume_clause) and inherits its
   irredundancy. *)
(* Seeded fault: a redundant strengthened clause replaces an irredundant one. *)
Strengthen_StaysRedundant(l, s) ==
  LET c == reason[Abs(l)]
      subsumes == resolved = 1 /\ Cardinality(s) < csize
      gone == IF subsumes THEN {c, conflict} ELSE {c}
  IN /\ irr' = (irr \ gone) \cup (IF c \in irr THEN {s} ELSE {})
     /\ red' = (red \ gone) \cup (IF c \in red THEN {s} ELSE {})
     /\ conflicts' = IF subsumes /\ conflicts <= RestartInt THEN conflicts + 1
                                                            ELSE conflicts

Strengthen(l, s) ==
  LET c == reason[Abs(l)]
      subsumes == resolved = 1 /\ Cardinality(s) < csize
      gone == IF subsumes THEN {c, conflict} ELSE {c}
      irredundant == c \in irr \/ (subsumes /\ c \in red /\ conflict \in irr)
  IN /\ irr' = (irr \ gone) \cup (IF irredundant THEN {s} ELSE {})
     /\ red' = (red \ gone) \cup (IF c \in red /\ ~irredundant THEN {s} ELSE {})
     /\ conflicts' = IF subsumes /\ conflicts <= RestartInt THEN conflicts + 1
                                                            ELSE conflicts

StrengthenContinue ==
  /\ pc = "resolve" /\ Cardinality(Open(work)) > 1
  /\ \E l \in work :
       /\ IsLatest(l, Open(work)) /\ Strengthens(l)
       /\ Cardinality(Open(Antecedent(l))) > 1
       /\ Strengthen(l, Antecedent(l))
       /\ reason' = [reason EXCEPT ![Abs(l)] = Antecedent(l)]
       /\ conflict' = Antecedent(l) /\ work' = Antecedent(l)
       /\ csize' = Cardinality(Antecedent(l))
  /\ resolved' = 1
  /\ UNCHANGED <<opts, maxVar, orig, inbox, val, vlevel, pos, propagated, control, pc,
                 caller, saved, todo, block, unsat, userVars, result, countVars>>

StrengthenForced ==
  /\ pc = "resolve" /\ Cardinality(Open(work)) > 1
  /\ \E l \in work : \E f \in Antecedent(l) : \E j, L, a \in 0..level :
       /\ IsLatest(l, Open(work)) /\ Strengthens(l)
       /\ Open(Antecedent(l)) = {f}
       /\ Strengthen(l, Antecedent(l))
       /\ IsMaxLevel(j, Antecedent(l) \ {f}) /\ L \in ActualLevels(j)
       /\ IsAssignmentLevel(a, f, Antecedent(l), L)
       /\ BacktrackAssign(L, f, Antecedent(l), a)
  /\ conflict' = {} /\ pc' = "propagate" /\ NoAnalysis
  /\ UNCHANGED <<opts, maxVar, orig, inbox, caller, unsat, userVars, result, countVars>>

(* The first UIP clause is derived.  Its literals below the conflict level
   are next shrunken and minimized, if the options say so. *)
FirstUIP ==
  /\ pc = "resolve" /\ Cardinality(Open(work)) = 1
  /\ pc' = "shrink"
  /\ todo' = IF opts.shrink \/ opts.minimize THEN work \ Open(work) ELSE {}
  /\ block' = IF opts.shrink THEN {} ELSE todo'
  /\ UNCHANGED <<opts, dbVars, assignVars, conflict, caller, work, saved,
                 resolved, csize, unsat, userVars, result, conflicts, countVars>>

-----------------------------------------------------------------------------
(* shrink_and_minimize_clause and minimize_clause, one resolution at a time.
   Levels are shrunken from the lowest to the highest: the literals of a level
   are resolved until one is left, and the literals of lower levels this
   brings in must be implied by the others.  If that fails the literals of the
   level are minimized one by one, in the order of the trail.               *)

Lowest(S) == {l \in S : \A k \in S : LevelOf(l) <= LevelOf(k)}
OnBlock(c) == {l \in c : \E k \in block : LevelOf(l) = LevelOf(k)}
Extra == (work \ saved) \ OnBlock(work)
Implied(l) == reason[Abs(l)] # {}

shrinkFrame == <<opts, dbVars, assignVars, conflict, caller, resolved, csize,
                 unsat, userVars, result, conflicts, countVars>>

KeepBlock == \* a level with a single literal
  /\ pc = "shrink" /\ block = {} /\ Cardinality(Lowest(todo)) = 1
  /\ todo' = todo \ Lowest(todo)
  /\ UNCHANGED <<shrinkFrame, pc, work, saved, block>>

ShrinkBlock ==
  /\ pc = "shrink" /\ block = {} /\ Cardinality(Lowest(todo)) > 1
  /\ block' = Lowest(todo) /\ saved' = work /\ pc' = "block"
  /\ UNCHANGED <<shrinkFrame, work, todo>>

ShrinkAlongReason ==
  /\ pc = "block"
  /\ \E l \in work :
       /\ IF Cardinality(OnBlock(work)) > 1 THEN IsLatest(l, OnBlock(work))
                                            ELSE IsLatest(l, Extra)
       /\ Implied(l)
       /\ work' = Resolvent(l)
  /\ UNCHANGED <<shrinkFrame, pc, saved, todo, block>>

ShrunkenBlock == \* shrunken_block_uip
  /\ pc = "block" /\ Cardinality(OnBlock(work)) = 1 /\ Extra = {}
  /\ todo' = todo \ block /\ block' = {} /\ pc' = "shrink"
  /\ UNCHANGED <<shrinkFrame, work, saved>>

ShrinkingFailed == \* shrunken_block_no_uip
  /\ pc = "block" /\ Cardinality(OnBlock(work)) = 1
  /\ \E l \in work : IsLatest(l, Extra) /\ ~Implied(l)
  /\ work' = saved /\ pc' = "shrink"
  /\ todo' = todo \ block
  /\ block' = IF opts.minimize THEN block ELSE {}
  /\ UNCHANGED <<shrinkFrame, saved>>

MinimizeLiteral ==
  /\ pc = "shrink" /\ block # {}
  /\ \E l \in block :
       /\ IsEarliest(l, block)
       /\ todo' = todo \ {l} /\ block' = block \ {l}
       /\ IF Implied(l) THEN work' = Resolvent(l) /\ pc' = "literal"
                        ELSE UNCHANGED <<work, pc>>
  /\ saved' = work
  /\ UNCHANGED shrinkFrame

MinimizeRecursively ==
  /\ pc = "literal"
  /\ \E l \in work \ saved : /\ IsLatest(l, work \ saved) /\ Implied(l)
                             /\ LevelOf(l) < level
                             /\ work' = Resolvent(l)
  /\ UNCHANGED <<shrinkFrame, pc, saved, todo, block>>

(* Seeded fault: a decision counts as implied by the other literals. *)
MinimizeDone_OnDecision ==
  /\ pc = "literal"
  /\ \/ work \subseteq saved /\ UNCHANGED work
     \/ \E l \in work \ saved : /\ IsLatest(l, work \ saved)
                                /\ ~Implied(l) /\ work' = work \ {l}
  /\ pc' = "shrink"
  /\ UNCHANGED <<shrinkFrame, saved, todo, block>>

MinimizeDone == \* succeeded, or reached a decision
  /\ pc = "literal"
  /\ \/ work \subseteq saved /\ UNCHANGED work
     \/ /\ \E l \in work \ saved : /\ IsLatest(l, work \ saved)
                                   /\ ~Implied(l) \/ LevelOf(l) = level
        /\ work' = saved
  /\ pc' = "shrink"
  /\ UNCHANGED <<shrinkFrame, saved, todo, block>>

(* new_driving_clause, backtracking and search_assign_driving, then
   eagerly_subsume_recently_learned_clauses. *)
Learn ==
  /\ pc = "shrink" /\ todo = {} /\ block = {}
  /\ \E u \in work : \E jump, L, a \in 0..level :
       LET c == IF work = {u} THEN {} ELSE work IN
       /\ Open(work) = {u}
       /\ IsMaxLevel(jump, work \ {u}) /\ L \in ActualLevels(jump)
       /\ IsAssignmentLevel(a, u, c, L)
       /\ BacktrackAssign(L, u, c, a)
  /\ red' = IF Cardinality(work) = 1 THEN red
            ELSE {work} \cup {d \in red : ~(opts.eagersubsume /\ work \subseteq d)}
  /\ conflict' = {} /\ pc' = "propagate" /\ NoAnalysis
  /\ UNCHANGED <<opts, maxVar, orig, inbox, irr, caller, unsat, userVars, result,
                 conflicts, countVars>>

-----------------------------------------------------------------------------
(* The rest of the main loop, entered when propagation is complete.        *)

(* Seeded fault: the pseudo level of the constraint is not asked for. *)
Satisfied_NoConstraint == /\ level >= Len(assumptions)
                          /\ \A v \in Var : v <= maxVar => val[v] # 0
Satisfied == /\ level >= Len(assumptions) + (IF constraint = {} THEN 0 ELSE 1)
             /\ \A v \in Var : v <= maxVar => val[v] # 0

FoundModel ==
  /\ Ready /\ Satisfied
  /\ result' = 10 /\ pc' = "steady"
  /\ UNCHANGED <<opts, dbVars, assignVars, conflict, caller, analyzeVars,
                 unsat, userVars, conflicts, countVars>>

(* Seeded fault: the failed bits of dropped assumptions stay set. *)
ResetUser_KeepFailed ==
  /\ assumptions' = <<>> /\ constraint' = {} /\ unsatConstraint' = FALSE
  /\ marked' = TRUE /\ UNCHANGED failed
ResetUser == \* reset_assumptions and reset_constraint
  /\ assumptions' = <<>> /\ constraint' = {} /\ unsatConstraint' = FALSE
  /\ failed' = failed \ {assumptions[i] : i \in DOMAIN assumptions}
  /\ marked' = TRUE

(* search_limits_hit or terminated_asynchronously: 'solve' returns 0. *)
Interrupt ==
  /\ Ready /\ ~Satisfied /\ interrupts < MaxInterrupts
  /\ interrupts' = interrupts + 1
  /\ result' = 0 /\ pc' = "steady" /\ ResetUser
  /\ UNCHANGED <<opts, dbVars, assignVars, conflict, caller, analyzeVars,
                 unsat, conflicts, reductions, solves>>

(* restarting and restart.  The averages of the glue that also have to agree
   are abstracted.  reuse_trail keeps the assumptions, the pseudo level of the
   constraint, and any number of decisions above them. *)
(* Seeded fault: the limit of the next restart is not moved. *)
Restart_NoLimit ==
  /\ Ready /\ ~Satisfied /\ opts.restart
  /\ level >= Len(assumptions) + 2 /\ conflicts > RestartInt
  /\ \E L \in Len(assumptions)..level : Backtrack(L)
  /\ UNCHANGED <<opts, dbVars, conflict, conflicts, pc, caller, analyzeVars,
                 unsat, userVars, result, countVars>>
Restart ==
  /\ Ready /\ ~Satisfied /\ opts.restart
  /\ level >= Len(assumptions) + 2 /\ conflicts > RestartInt
  /\ LET trivial == IF control[Len(assumptions) + 1].decision = 0
                    THEN Len(assumptions) + 1 ELSE Len(assumptions)
     IN \E L \in trivial..(IF opts.restartreusetrail THEN level ELSE trivial) :
          Backtrack(L)
  /\ conflicts' = 0
  /\ UNCHANGED <<opts, dbVars, conflict, pc, caller, analyzeVars, unsat,
                 userVars, result, countVars>>

(* reducing and reduce.  The first step is propagate_out_of_order_units, which
   propagates a unit that was assigned above the root level, from the root
   level.  The second one is mark_satisfied_clauses_as_garbage, the marking of
   any redundant clauses that are not reasons, and garbage_collection. *)
Reducing == /\ Ready /\ ~Satisfied /\ opts.reduce /\ red # {}
            /\ reductions < MaxReductions
OutOfOrderUnit == level > 0 /\ \E v \in Var :
                    val[v] # 0 /\ vlevel[v] = 0 /\ pos[v] > control[1].trail
FlushFalse(c) == \* remove_falsified_literals
  LET rest == {l \in c : Fixed(l) >= 0} IN
  IF Cardinality(rest) < 2 THEN c ELSE rest
RootSatisfied(c) == \E l \in c : Fixed(l) > 0

ReduceUnits ==
  /\ Reducing /\ OutOfOrderUnit
  /\ Backtrack(0)
  /\ caller' = "reduce"
  /\ UNCHANGED <<opts, dbVars, conflict, pc, analyzeVars, unsat, userVars,
                 result, conflicts, countVars>>

(* Seeded fault: the reasons of the trail are not protected. *)
Reduce_Unprotected ==
  /\ (Reducing /\ ~OutOfOrderUnit) \/ (Quiet /\ caller = "reduce")
  /\ \E useless \in SUBSET red :
       red' = {FlushFalse(c) : c \in {d \in red \ useless : ~RootSatisfied(d)}}
  /\ irr' = {FlushFalse(c) : c \in {d \in irr : ~RootSatisfied(d)}}
  /\ reason' = [v \in Var |-> FlushFalse(reason[v])]
  /\ reductions' = reductions + 1
  /\ caller' = "search"
  /\ UNCHANGED <<opts, maxVar, orig, inbox, val, vlevel, pos, propagated, control,
                 conflict, pc, analyzeVars, unsat, userVars, result, conflicts,
                 solves, interrupts>>
Reduce ==
  /\ (Reducing /\ ~OutOfOrderUnit) \/ (Quiet /\ caller = "reduce")
  /\ \E useless \in SUBSET (red \ {reason[v] : v \in Var}) :
       red' = {FlushFalse(c) : c \in {d \in red \ useless : ~RootSatisfied(d)}}
  /\ irr' = {FlushFalse(c) : c \in {d \in irr : ~RootSatisfied(d)}}
  /\ reason' = [v \in Var |-> FlushFalse(reason[v])]
  /\ reductions' = reductions + 1
  /\ caller' = "search"
  /\ UNCHANGED <<opts, maxVar, orig, inbox, val, vlevel, pos, propagated, control,
                 conflict, pc, analyzeVars, unsat, userVars, result, conflicts,
                 solves, interrupts>>

(* decide: the next assumption, then the constraint, then any literal. *)
NextAssumption == assumptions[level + 1]
OnConstraint == level = Len(assumptions) /\ constraint # {}
(* Seeded fault: the last assumption is skipped. *)
MayDecide_SkipLast(l) ==
  IF level + 1 < Len(assumptions) THEN l = NextAssumption /\ Value(l) = 0
  ELSE Value(l) = 0 /\ Abs(l) <= maxVar
MayDecide(l) ==
  IF level < Len(assumptions) THEN l = NextAssumption /\ Value(l) = 0
  ELSE IF OnConstraint
  THEN l \in constraint /\ Value(l) = 0 /\ \A k \in constraint : Value(k) <= 0
  ELSE Value(l) = 0 /\ Abs(l) <= maxVar /\ (opts.forcephase => l > 0)

Decide ==
  /\ Ready /\ ~Satisfied
  /\ \E l \in Lit : MayDecide(l) /\ Decision(l)
  /\ UNCHANGED <<opts, dbVars, conflict, pc, caller, analyzeVars, unsat,
                 userVars, result, conflicts, countVars>>

DecidePseudo ==
  /\ Ready /\ ~Satisfied
  /\ \/ level < Len(assumptions) /\ Value(NextAssumption) > 0
     \/ OnConstraint /\ \E k \in constraint : Value(k) > 0
  /\ PseudoDecision
  /\ UNCHANGED <<opts, dbVars, conflict, pc, caller, analyzeVars, unsat,
                 userVars, result, conflicts, countVars>>

DecideFail ==
  /\ Ready /\ ~Satisfied
  /\ \/ /\ level < Len(assumptions) /\ Value(NextAssumption) < 0
        /\ UNCHANGED unsatConstraint
     \/ /\ OnConstraint /\ Falsified(constraint)
        /\ unsatConstraint' = TRUE
  /\ marked' = FALSE
  /\ result' = 20 /\ pc' = "steady"
  /\ UNCHANGED <<opts, dbVars, assignVars, conflict, caller, analyzeVars,
                 unsat, assumptions, constraint, failed, conflicts, countVars>>

-----------------------------------------------------------------------------
(* The API calls, each of which first leaves a state SATISFIED or
   UNSATISFIED (transition_to_steady_state).                               *)

Steady == pc = "steady"

(* Seeded fault: the new maximum is one past the largest index. *)
InitVars_PastEnd(c) == /\ maxVar' \in {maxVar} \cup {Abs(l) + 1 : l \in c}
                       /\ maxVar' >= maxVar /\ \A l \in c : maxVar' > Abs(l)
InitVars(c) == /\ maxVar' \in {maxVar} \cup {Abs(l) : l \in c}
               /\ maxVar' >= maxVar /\ \A l \in c : maxVar' >= Abs(l)
Leave == IF result # 0 THEN ResetUser ELSE UNCHANGED userVars

(* add_new_original_clause of the next clause of the user. *)
NewLiterals(c) == {l \in c : val[Abs(l)] = 0 \/ LevelOf(l) > 0}
Add ==
  /\ Steady /\ inbox # <<>> /\ solves < MaxSolves
  /\ result' = 0 /\ inbox' = Tail(inbox) /\ orig' = orig \cup {Head(inbox)}
  /\ InitVars(Head(inbox))
  /\ LET c == Head(inbox)
         new == NewLiterals(c)
         skip == unsat \/ IsTautology(c) \/ RootSatisfied(c)
     IN \/ /\ skip
           /\ Backtrack(0) /\ Leave
           /\ UNCHANGED <<irr, pc, caller, unsat>>
        \/ /\ ~skip /\ new = {}
           /\ Backtrack(0)
           /\ IF result # 0 THEN ResetUser
                            ELSE marked' = TRUE /\ UNCHANGED <<assumptions, constraint, unsatConstraint, failed>>
           /\ unsat' = TRUE
           /\ UNCHANGED <<irr, pc, caller>>
        \/ \E l \in new :
           /\ ~skip /\ new = {l}
           /\ BacktrackAssign(0, l, {}, 0) /\ Leave
           /\ pc' = "propagate" /\ caller' = "add"
           /\ UNCHANGED <<irr, unsat>>
        \/ /\ ~skip /\ Cardinality(new) > 1
           /\ Backtrack(0) /\ Leave
           /\ irr' = irr \cup {new}
           /\ UNCHANGED <<pc, caller, unsat>>
  /\ UNCHANGED <<opts, red, conflict, analyzeVars, conflicts, countVars>>

(* assume: a literal already assumed is ignored. *)
Assume ==
  /\ Steady /\ solves < MaxSolves
  /\ \E l \in Assumable :
       LET old == IF result # 0 THEN <<>> ELSE assumptions IN
       /\ Len(old) < MaxAssumptions
       /\ \A i \in DOMAIN old : old[i] # l
       /\ assumptions' = Append(old, l) /\ InitVars({l})
  /\ Backtrack(0)
  /\ IF result # 0
       THEN /\ constraint' = {} /\ unsatConstraint' = FALSE /\ marked' = TRUE
            /\ failed' = failed \ {assumptions[i] : i \in DOMAIN assumptions}
       ELSE UNCHANGED <<constraint, unsatConstraint, marked, failed>>
  /\ result' = 0
  /\ UNCHANGED <<opts, orig, inbox, irr, red, conflict, pc, caller, analyzeVars, unsat,
                 conflicts, countVars>>

(* constrain, up to the terminating 0: the last constraint is replaced. *)
Constrain ==
  /\ Steady /\ solves < MaxSolves
  /\ result # 0 \/ (constraint = {} /\ ~unsatConstraint)
  /\ \E c \in Constraints :
       LET holds == IsTautology(c) \/ RootSatisfied(c)
           rest == NewLiterals(c)
       IN /\ constraint' = IF holds THEN {} ELSE rest
          /\ unsatConstraint' = (~holds /\ rest = {})
          /\ marked' = (unsat \/ holds \/ rest # {})
          /\ InitVars(c)
  /\ IF result # 0
       THEN /\ assumptions' = <<>>
            /\ failed' = failed \ {assumptions[i] : i \in DOMAIN assumptions}
       ELSE UNCHANGED <<assumptions, failed>>
  /\ Backtrack(0)
  /\ result' = 0
  /\ UNCHANGED <<opts, orig, inbox, irr, red, conflict, pc, caller, analyzeVars, unsat,
                 conflicts, countVars>>

(* solve up to the main loop (already_solved): the propagation on the root
   level it starts with is the one of the main loop. *)
Solve ==
  /\ Steady /\ solves < MaxSolves
  /\ solves' = solves + 1 /\ Leave
  /\ IF unsat \/ unsatConstraint'
       THEN /\ result' = 20
            /\ UNCHANGED <<assignVars, pc, caller>>
       ELSE /\ result' = 0 /\ Backtrack(0)
            /\ pc' = "propagate" /\ caller' = "search"
  /\ UNCHANGED <<opts, dbVars, conflict, analyzeVars, unsat, conflicts,
                 reductions, interrupts>>

(* failing, called by 'failed' and the first time only: the assumption found
   falsified first and the assumptions, i.e., the decisions, that imply its
   negation; or those that imply the negation of every constraint literal. *)
FalsifiedAt == {i \in DOMAIN assumptions : Value(assumptions[i]) < 0}
IsFirst(i, S) == i \in S /\ \A j \in S : i <= j
FailedUnits == {i \in FalsifiedAt : LevelOf(assumptions[i]) = 0}
FailedClashing == {i \in FalsifiedAt : LevelOf(assumptions[i]) > 0
                                       /\ reason[Abs(assumptions[i])] = {}}
FailedLowest == {i \in FalsifiedAt : \A j \in FalsifiedAt :
                   LevelOf(assumptions[i]) <= LevelOf(assumptions[j])}

Antecedents(S) == UNION {{-k : k \in reason[Abs(l)] \ {l}} : l \in S}
ImpliedBy(S) == \* what the search back from the true literals S analyzes
  LET closed == {T \in SUBSET Lit : S \subseteq T /\ Antecedents(T) \subseteq T}
  IN {l \in Lit : \A T \in closed : l \in T}
FailedDecisions(S) == {l \in Lit : /\ l \in ImpliedBy(S)
                                   /\ LevelOf(l) > 0 /\ reason[Abs(l)] = {}}

Failed ==
  /\ Steady /\ result = 20 /\ ~marked
  /\ marked' = TRUE
  /\ \/ /\ unsatConstraint
        /\ failed' = failed \cup FailedDecisions({-l : l \in constraint})
     \/ /\ ~unsatConstraint
        /\ \E i \in FalsifiedAt :
             LET l == assumptions[i] IN
             \/ IsFirst(i, FailedUnits) /\ failed' = failed \cup {l}
             \/ /\ FailedUnits = {} /\ IsFirst(i, FailedClashing)
                /\ failed' = failed \cup {l, -l}
             \/ /\ FailedUnits \cup FailedClashing = {} /\ IsFirst(i, FailedLowest)
                /\ failed' = failed \cup {l} \cup FailedDecisions({-l})
  /\ UNCHANGED <<opts, dbVars, assignVars, conflict, pc, caller, analyzeVars,
                 unsat, assumptions, constraint, unsatConstraint, result,
                 conflicts, countVars>>

-----------------------------------------------------------------------------
Init ==
  /\ opts \in OptionSets /\ inbox \in Inputs
  /\ maxVar = 0 /\ orig = {} /\ irr = {} /\ red = {}
  /\ val = [v \in Var |-> 0] /\ vlevel = [v \in Var |-> 0]
  /\ reason = [v \in Var |-> {}]
  /\ pos = [v \in Var |-> 0] /\ propagated = 0 /\ control = <<>>
  /\ conflict = {} /\ pc = "steady" /\ caller = "add"
  /\ work = {} /\ saved = {} /\ todo = {} /\ block = {}
  /\ resolved = 0 /\ csize = 0
  /\ unsat = FALSE
  /\ assumptions = <<>> /\ constraint = {} /\ unsatConstraint = FALSE
  /\ failed = {} /\ marked = TRUE
  /\ result = 0 /\ conflicts = 0
  /\ reductions = 0 /\ solves = 0 /\ interrupts = 0

User == Add \/ Assume \/ Constrain \/ Solve \/ Failed
Propagate == PropagateUnit \/ PropagateConflict \/ PropagateNext
             \/ PropagateFail \/ PropagateAdded
Analyze == AnalyzeForced \/ AnalyzeRoot \/ AnalyzeStart \/ Resolve
           \/ StrengthenContinue \/ StrengthenForced \/ FirstUIP \/ Learn
Shrink == KeepBlock \/ ShrinkBlock \/ ShrinkAlongReason \/ ShrunkenBlock
          \/ ShrinkingFailed \/ MinimizeLiteral \/ MinimizeRecursively
          \/ MinimizeDone
Search == FoundModel \/ Interrupt \/ Restart \/ ReduceUnits \/ Reduce
          \/ Decide \/ DecidePseudo \/ DecideFail
Solver == Propagate \/ Analyze \/ Shrink \/ Search

(* The user has made the calls the bounds allow. *)
Finished == /\ Steady /\ solves = MaxSolves /\ (result = 20 => marked)
            /\ UNCHANGED vars

Next == User \/ Solver \/ Finished

(* 'solve' runs on its own thread of control: once called, its loop goes on. *)
Spec == Init /\ [][Next]_vars /\ WF_vars(Solver)

-----------------------------------------------------------------------------
(* Properties.                                                             *)

(* The type invariant, in four parts. *)
TypeDB ==
  /\ opts \in OptionSets /\ inbox \in Seq(SUBSET Lit)
  /\ maxVar \in {0} \cup Var
  /\ orig \subseteq SUBSET Lit /\ irr \subseteq SUBSET Lit /\ red \subseteq SUBSET Lit
TypeAssign ==
  /\ val \in [Var -> {-1, 0, 1}] /\ vlevel \in [Var -> Nat]
  /\ reason \in [Var -> SUBSET Lit]
  /\ pos \in [Var -> Nat] /\ propagated \in Nat
  /\ control \in Seq(Frames)
TypeAnalysis ==
  /\ conflict \subseteq Lit
  /\ pc \in {"steady", "propagate", "analyze", "resolve", "shrink", "block", "literal"}
  /\ caller \in {"add", "search", "reduce"}
  /\ work \subseteq Lit /\ saved \subseteq Lit /\ todo \subseteq Lit /\ block \subseteq Lit
  /\ resolved \in 0..2 /\ csize \in Nat
TypeUser ==
  /\ unsat \in BOOLEAN /\ unsatConstraint \in BOOLEAN /\ marked \in BOOLEAN
  /\ assumptions \in Seq(Lit) /\ constraint \subseteq Lit /\ failed \subseteq Lit
  /\ result \in {0, 10, 20} /\ conflicts \in Nat
  /\ reductions \in Nat /\ solves \in Nat /\ interrupts \in Nat
TypeOK == TypeDB /\ TypeAssign /\ TypeAnalysis /\ TypeUser

Makes(m, l) == IF l > 0 THEN m[l] ELSE ~m[-l]
Models(F) == {m \in [Var -> BOOLEAN] : \A c \in F : \E l \in c : Makes(m, l)}
Entailed(c) == \A m \in Models(orig) : \E l \in c : Makes(m, l)
RootLiterals == {LitOf(v) : v \in {w \in Var : val[w] # 0 /\ vlevel[w] = 0}}

(* Every clause in memory, every resolvent analysis works on, the conflict and
   every unit of the root level follow from the clauses the user added,
   whatever was assumed, strengthened, shrunken or reduced on the way. *)
ClausesEntailed ==
  /\ \A c \in DB : Entailed(c)
  /\ pc \in {"resolve", "shrink", "block", "literal"} => Entailed(work)
  /\ \A l \in RootLiterals : Entailed({l})

(* 'unsat' is set only for an unsatisfiable formula: no assumption or
   constraint of an earlier or the current call leaks into it. *)
UnsatSound == unsat => Models(orig) = {}

(* An answer 10 comes with an assignment that satisfies every clause added,
   every assumption and the constraint of this call. *)
ModelSound ==
  result = 10 => /\ \A c \in orig : \E l \in c : Value(l) > 0
                 /\ \A i \in DOMAIN assumptions : Value(assumptions[i]) > 0
                 /\ constraint # {} => \E l \in constraint : Value(l) > 0

(* After an answer 20 that is not unconditional, the literals 'failed' reports
   are assumptions of this call, and the clauses have no model in which they
   all hold (and the constraint does, if it is the constraint that failed). *)
CoreSound ==
  result = 20 /\ marked /\ ~unsat =>
    /\ failed \subseteq {assumptions[i] : i \in DOMAIN assumptions}
    /\ Models(orig \cup {{l} : l \in failed}
                   \cup IF unsatConstraint THEN {constraint} ELSE {}) = {}

(* The irredundant clauses and root units alone still imply everything added:
   subsuming, strengthening and reducing lose no constraint of the user, so
   the redundant clauses may be thrown away at any time. *)
IrredundantSuffices ==
  ~unsat => Models(irr \cup {{l} : l \in RootLiterals}) \subseteq Models(orig)

(* The trail against the levels, with out-of-order literals: it lists the
   assigned variables, without gaps; a literal of level k comes after the k-th
   control frame was pushed; the decision of level k is where the frame says. *)
TrailLevels ==
  /\ {pos[v] : v \in {w \in Var : val[w] # 0}} = 1..numAssigned
  /\ \A v \in Var : vlevel[v] > 0 => /\ vlevel[v] <= level
                                     /\ pos[v] > control[vlevel[v]].trail
  /\ \A k \in 1..level : LET l == control[k].decision IN
       l # 0 => /\ Value(l) > 0 /\ LevelOf(l) = k
                /\ Position(l) = control[k].trail + 1

(* The reason of a literal contains it, its other literals are false, assigned
   earlier and on no higher level, one of them on the literal's own, and it is
   a clause that reduction and subsumption have not thrown away. *)
ReasonsImply ==
  pc = "propagate" => \A v \in Var :
    LET l == LitOf(v)
        c == reason[v] IN
    c # {} => /\ l \in c /\ c \in DB
              /\ Falsified(c \ {l})
              /\ \A k \in c \ {l} : Position(k) < pos[v]
              /\ IsMaxLevel(vlevel[v], c \ {l})

(* Whenever the loop goes on to decide, restart, reduce or answer, no clause is
   falsified and none is unit: 'propagated' is set back far enough for the
   literals that backtracking leaves on the trail out of order. *)
PropagationComplete ==
  Ready => \A c \in DB : \/ \E l \in c : Value(l) > 0
                         \/ Cardinality({l \in c : Value(l) = 0}) > 1

(* Chronological backtracking, restarts and learned units never leave a level
   of an assumption on which the assumption does not hold. *)
AssumptionsHold ==
  pc = "propagate" => \A i \in DOMAIN assumptions :
    i <= level => Value(assumptions[i]) > 0 /\ LevelOf(assumptions[i]) <= i

(* Units of the root level are never unassigned or flipped, not even those
   assigned out of order above the root level. *)
RootUnitsKept ==
  [][\A v \in Var : val[v] # 0 /\ vlevel[v] = 0
        => val'[v] = val[v] /\ vlevel'[v] = 0]_vars

(* A clause that is learned is new: no clause in memory has all its literals in
   it.  The literals below the conflict level have to lie before that level on
   the trail: a clause that literals assigned out of order falsify may be found
   only after another conflict, so that what is learned contains it. *)
LearnedIsNew ==
  [][Learn /\ (\A l \in work : LevelOf(l) < level => Position(l) <= control[level].trail)
       => ~ \E c \in DB : c \subseteq work]_vars

(* 'solve' returns. *)
SolveReturns == pc # "steady" ~> pc = "steady"

=============================================================================
