--------------------------- MODULE Reconstruction ---------------------------
(***************************************************************************)
(* What every inprocessing technique of CaDiCaL shares: the clauses and    *)
(* root-level units of Internal, the status of the variables, and the      *)
(* extension stack of External, with the witnesses that 'extend' flips to  *)
(* turn a model of the simplified formula into one of the formula the user *)
(* added.  The user's calls and the restoring of clauses are here too.     *)
(*                                                                         *)
(* A literal is a non-zero integer, a clause the set of its literals, an   *)
(* assignment the set of the variables it makes true.  Garbage clauses are *)
(* gone at once, and two clauses with the same literals are one.  External *)
(* and internal variables have the same names here.                        *)
(***************************************************************************)
EXTENDS Integers, Sequences, FiniteSets

CONSTANTS
  Var,        \* the variables
  Scripts,    \* the sequences of calls a user may make
  Options     \* the option settings a run may use

Lit == Var \cup {-v : v \in Var}
Clause == SUBSET Lit
Abs(l) == IF l < 0 THEN -l ELSE l
VarsOf(c) == {Abs(l) : l \in c}
Negated(c) == {-l : l \in c}
IsTautology(c) == \E l \in c : -l \in c

Techniques == {"elim", "block", "cover", "condition", "decompose", "probe",
  "ternary", "transred", "dedup", "subsume", "vivify", "instantiate",
  "collect"}
Calls ==
  [call : {"add"}, clause : Clause] \cup
  [call : {"assume", "freeze", "melt"}, lit : Lit] \cup
  [call : {"solve"}, may : SUBSET Techniques, rounds : Nat, learned : Nat]

ASSUME VarAssumption == Var \subseteq Nat \ {0} /\ IsFiniteSet(Var)
ASSUME ScriptAssumption == Scripts \subseteq Seq(Calls)
ASSUME OptionAssumption == Options \subseteq
  [restoreall : 0..2, restoreflush : BOOLEAN, elimsubst : BOOLEAN,
   elimbackward : BOOLEAN, elimocclim : Nat, elimclslim : Nat,
   elimboundmax : Nat, blockminclslim : Nat, blockmaxclslim : Nat,
   blockocclim : Nat]
-----------------------------------------------------------------------------
VARIABLES
  opts,       \* the options in use
  script,     \* the calls still to come
  may,        \* the techniques this 'solve' call may run
  original,   \* every clause the user added (External::original)
  irr, red,   \* the irredundant and the redundant clauses
  units,      \* the literals assigned on the root level
  unsat,      \* unsat
  status,     \* Flags::status
  frozen,     \* frozentab: how often each variable is frozen
  assumed,    \* assumptions
  extension,  \* extension: the removed clauses with their witnesses
  witness,    \* the literals marked as witness
  tainted,    \* the literals marked as tainted
  bound,      \* lim.elimbound
  pc, back,   \* where the handler that runs is, and where it goes on
  pivot,      \* its literal, or 0
  cand,       \* its clause, or {}
  todo,       \* the pairs of clauses it has to look at
  queue,      \* the clauses it has to take as candidates
  gate,       \* clauses it has marked
  work,       \* literals it has to propagate or to look at
  trail,      \* literals it has assigned above the root level
  marked,     \* literals it has marked
  private,    \* entries it prepares for the extension stack
  reprs,      \* the representative of each literal
  count,      \* a counter
  flag,       \* a flag
  rounds,     \* bound: techniques this 'solve' call may still start
  learned     \* bound: clauses the search may still learn in it

userVars  == <<opts, script, may, original, frozen, assumed>>
dbVars    == <<irr, red>>
unitVars  == <<units, unsat, status>>
stackVars == <<extension, witness>>
limitVars == <<bound, rounds, learned>>
markVars  == <<trail, marked, private, reprs>>
jobVars   == <<pivot, cand, todo, queue, gate, work, markVars, count, flag>>
vars == <<userVars, dbVars, unitVars, stackVars, tainted, limitVars, pc, back,
          jobVars>>

DB == irr \cup red
Statuses == {"unused", "active", "fixed", "eliminated", "substituted", "pure"}
Active(l) == status[Abs(l)] = "active"
Frozen(l) == frozen[Abs(l)] > 0 \/ {l, -l} \cap assumed # {}
Entries == [witness : Clause, clause : Clause]

(* val (l) on the root level. *)
True(l) == l \in units
False(l) == -l \in units
IsSatisfied(c) == c \cap units # {}
Rest(c) == {l \in c : ~False(l)}   \* the literals not false
Open(F) == {c \in F : ~IsSatisfied(c)}

-----------------------------------------------------------------------------
(* assign_unit, mark_fixed and learn_empty_clause: the literals ls become
   true on the root level; a clash, or an empty clause, makes the formula
   inconsistent. *)
Assign(ls, empty) ==
  /\ units' = units \cup ls
  /\ unsat' = (unsat \/ empty \/ \E l \in ls : -l \in units \cup ls)
  /\ status' = [v \in Var |->
                 IF v \in VarsOf(ls \ units) THEN "fixed" ELSE status[v]]

(* A derived clause of root-level open literals r: the empty clause, a unit,
   or a clause added to the irredundant or the redundant ones. *)
Derive(r, redundant) ==
  /\ Assign(IF Cardinality(r) = 1 THEN r ELSE {}, r = {})
  /\ irr' = IF Cardinality(r) > 1 /\ ~redundant THEN irr \cup {r} ELSE irr
  /\ red' = IF Cardinality(r) > 1 /\ redundant THEN red \cup {r} ELSE red

(* A handler is done and everything goes on at 'where', or first with the
   propagation of units. *)
NoJob == /\ pivot' = 0 /\ cand' = {} /\ todo' = {} /\ queue' = {}
         /\ gate' = {} /\ work' = {} /\ trail' = {} /\ marked' = {}
         /\ private' = <<>> /\ reprs' = [l \in Lit |-> l]
         /\ count' = 0 /\ flag' = FALSE
GoTo(where) == pc' = where /\ UNCHANGED back
PropagateThen(where) == pc' = "propagate" /\ back' = where

(* The witness literals that are marked: when a clause is pushed, and again
   by restore_clauses, which resets the marks. *)
(* Seeded fault: they are not. *)
Remarked_None(stack) == {}
Remarked(stack) == UNION {stack[i].witness : i \in DOMAIN stack}

(* push_clause_on_extension_stack for each of the entries. *)
Push(entries) ==
  /\ extension' = extension \o entries
  /\ witness' = witness \cup Remarked(entries)

(* Unit propagation of the clauses F under the true literals A: the literals
   forced in one pass, and whether a clause is falsified. *)
Forced(F, A) == UNION {{l \in c : l \notin A /\ Negated(c \ {l}) \subseteq A} :
                         c \in F}
Falsified(F, A) == \E c \in F : Negated(c) \subseteq A

(* propagate () on the root level, over all clauses. *)
Propagate ==
  /\ pc = "propagate" /\ ~unsat
  /\ IF Falsified(DB, units) THEN Assign({}, TRUE)
     ELSE Forced(DB, units) # {} /\ Assign(Forced(DB, units), FALSE)
  /\ UNCHANGED <<userVars, dbVars, stackVars, tainted, limitVars, pc, back,
                 jobVars>>

Propagated ==
  /\ pc = "propagate"
  /\ unsat \/ (~Falsified(DB, units) /\ Forced(DB, units) = {})
  /\ pc' = IF unsat /\ back = "simplify" THEN "answered" ELSE back
  /\ UNCHANGED <<userVars, dbVars, unitVars, stackVars, tainted, limitVars,
                 back, jobVars>>

-----------------------------------------------------------------------------
(* The calls of the user.  internalize makes the literals ls usable: an
   unused or removed variable becomes active, and a literal whose negation is
   a witness on the extension stack is tainted. *)
Reactivated(ls) ==
  [v \in Var |-> IF v \in VarsOf(ls) /\ status[v] # "fixed" THEN "active"
                 ELSE status[v]]
Taint(ls) == tainted' = tainted \cup {l \in ls : -l \in witness}

IsCall(name) == pc = "user" /\ script # <<>> /\ Head(script).call = name
NextCall == script' = Tail(script) /\ UNCHANGED <<opts, may>>

(* internalize for every literal and add_new_original_clause: an original
   unit is propagated at once. *)
AddOriginal(c, where) ==
  LET skip == unsat \/ IsTautology(c) \/ IsSatisfied(c)
      unit == IF ~skip /\ Cardinality(Rest(c)) = 1 THEN Rest(c) ELSE {}
  IN /\ irr' = IF skip \/ Cardinality(Rest(c)) < 2 THEN irr
               ELSE irr \cup {Rest(c)}
     /\ units' = units \cup unit
     /\ unsat' = (unsat \/ (~skip /\ Rest(c) = {}))
     /\ status' = [v \in Var |-> IF v \in VarsOf(unit) THEN "fixed"
                                 ELSE Reactivated(c)[v]]
     /\ IF unit # {} THEN PropagateThen(where) ELSE GoTo(where)
     /\ Taint(c)
     /\ UNCHANGED red

Add ==
  /\ IsCall("add") /\ NextCall
  /\ original' = original \cup {Head(script).clause}
  /\ AddOriginal(Head(script).clause, "user")
  /\ UNCHANGED <<frozen, assumed, stackVars, limitVars, jobVars>>

Assume ==
  /\ IsCall("assume") /\ NextCall
  /\ assumed' = assumed \cup {Head(script).lit}
  /\ status' = Reactivated({Head(script).lit}) /\ Taint({Head(script).lit})
  /\ UNCHANGED <<original, frozen, dbVars, units, unsat, stackVars, limitVars,
                 pc, back, jobVars>>

Freeze ==
  /\ IsCall("freeze") /\ NextCall
  /\ frozen' = [frozen EXCEPT ![Abs(Head(script).lit)] = @ + 1]
  /\ status' = Reactivated({Head(script).lit}) /\ Taint({Head(script).lit})
  /\ UNCHANGED <<original, assumed, dbVars, units, unsat, stackVars, limitVars,
                 pc, back, jobVars>>

Melt ==
  /\ IsCall("melt") /\ NextCall
  /\ frozen[Abs(Head(script).lit)] > 0
  /\ frozen' = [frozen EXCEPT ![Abs(Head(script).lit)] = @ - 1]
  /\ status' = Reactivated({Head(script).lit}) /\ Taint({Head(script).lit})
  /\ UNCHANGED <<original, assumed, dbVars, units, unsat, stackVars, limitVars,
                 pc, back, jobVars>>

(* already_solved propagates, then restore_clauses. *)
Solve ==
  /\ IsCall("solve")
  /\ script' = Tail(script) /\ may' = Head(script).may
  /\ rounds' = Head(script).rounds /\ learned' = Head(script).learned
  /\ IF unsat THEN GoTo("answered")
     ELSE PropagateThen(IF tainted = {} /\ opts.restoreall < 2 THEN "simplify"
                        ELSE "restore")
  /\ UNCHANGED <<opts, original, frozen, assumed, dbVars, unitVars, stackVars,
                 tainted, bound, jobVars>>

-----------------------------------------------------------------------------
(* restore_clauses goes once over the extension stack, from the bottom:
   'count' entries are done.  Restoring a clause may taint literals. *)
Entry == extension[count + 1]
Without(s, i) == SubSeq(s, 1, i - 1) \o SubSeq(s, i + 1, Len(s))
Restoring == pc = "restore" /\ ~unsat /\ count < Len(extension)
Flushable(e) == opts.restoreflush /\ IsSatisfied(e.clause)
Needed(e) == opts.restoreall > 0 \/ \E w \in e.witness : -w \in tainted

RestoreFlush ==
  /\ Restoring /\ Flushable(Entry)
  /\ extension' = Without(extension, count + 1)
  /\ UNCHANGED <<userVars, dbVars, unitVars, witness, tainted, limitVars, pc,
                 back, jobVars>>

RestoreClause ==
  /\ Restoring /\ ~Flushable(Entry) /\ Needed(Entry)
  /\ AddOriginal(Entry.clause, "restore")
  /\ extension' = Without(extension, count + 1)
  /\ UNCHANGED <<userVars, witness, limitVars, jobVars>>

RestoreKeep ==
  /\ Restoring /\ ~Flushable(Entry) /\ ~Needed(Entry)
  /\ count' = count + 1
  /\ UNCHANGED <<userVars, dbVars, unitVars, stackVars, tainted, limitVars, pc,
                 back, pivot, cand, todo, queue, gate, work, markVars, flag>>

Restored ==
  /\ pc = "restore" /\ (unsat \/ count = Len(extension))
  /\ witness' = Remarked(extension)
  /\ tainted' = {} /\ count' = 0
  /\ PropagateThen("simplify")
  /\ UNCHANGED <<userVars, dbVars, unitVars, extension, limitVars, pivot, cand,
                 todo, queue, gate, work, markVars, flag>>

-----------------------------------------------------------------------------
(* The search between the techniques learns clauses: resolvents of clauses
   it has.  It may stop with an answer at any time. *)
Resolvent(c, d, l) == (c \ {l}) \cup (d \ {-l})

Learn ==
  /\ pc = "simplify" /\ learned > 0
  /\ learned' = learned - 1
  /\ \E c, d \in DB : \E l \in c :
       LET r == Resolvent(c, d, l)
       IN /\ -l \in d /\ ~IsTautology(r) /\ ~IsSatisfied(r)
          /\ Rest(r) \notin DB
          /\ Derive(Rest(r), TRUE)
  /\ PropagateThen("simplify")
  /\ UNCHANGED <<userVars, stackVars, tainted, bound, rounds, jobVars>>

Answer ==
  /\ pc = "simplify" /\ GoTo("answered")
  /\ UNCHANGED <<userVars, dbVars, unitVars, stackVars, tainted, limitVars,
                 jobVars>>

(* transition_to_steady_state forgets the assumptions. *)
Steady ==
  /\ pc = "answered" /\ script # <<>>
  /\ GoTo("user") /\ assumed' = {}
  /\ UNCHANGED <<opts, script, may, original, frozen, dbVars, unitVars,
                 stackVars, tainted, limitVars, jobVars>>

(* garbage_collection: satisfied clauses and false literals are removed. *)
Collect ==
  /\ pc = "simplify" /\ "collect" \in may
  /\ irr' = {Rest(c) : c \in Open(irr)} /\ red' = {Rest(c) : c \in Open(red)}
  /\ UNCHANGED <<userVars, unitVars, stackVars, tainted, limitVars, pc, back,
                 jobVars>>

(* A technique starts: all of them run on the root level, with everything
   propagated. *)
Start(technique) ==
  /\ pc = "simplify" /\ technique \in may /\ rounds > 0
  /\ rounds' = rounds - 1
  /\ UNCHANGED <<userVars, stackVars, tainted, learned>>

-----------------------------------------------------------------------------
Init ==
  /\ opts \in Options /\ script \in Scripts /\ may = {} /\ original = {}
  /\ irr = {} /\ red = {} /\ units = {} /\ unsat = FALSE
  /\ status = [v \in Var |-> "unused"] /\ frozen = [v \in Var |-> 0]
  /\ assumed = {} /\ extension = <<>> /\ witness = {} /\ tainted = {}
  /\ bound = 0 /\ pc = "user" /\ back = "user" /\ pivot = 0 /\ cand = {}
  /\ todo = {} /\ queue = {} /\ gate = {} /\ work = {} /\ trail = {}
  /\ marked = {} /\ private = <<>> /\ reprs = [l \in Lit |-> l] /\ count = 0
  /\ flag = FALSE /\ rounds = 0 /\ learned = 0

External ==
  \/ Add \/ Assume \/ Freeze \/ Melt \/ Solve \/ Steady
  \/ RestoreFlush \/ RestoreClause \/ RestoreKeep \/ Restored
  \/ Propagate \/ Propagated \/ Learn \/ Collect \/ Answer

-----------------------------------------------------------------------------
(* extend: from the top of the extension stack down, the witness literals of
   a clause that is not satisfied are made true. *)
Makes(m, l) == IF l > 0 THEN l \in m ELSE -l \notin m
Satisfies(m, F) == \A c \in F : \E l \in c : Makes(m, l)
Flip(m, ls) == (m \ VarsOf(ls)) \cup {v \in VarsOf(ls) : v \notin m}
ExtendEntry(m, e) ==
  IF Satisfies(m, {e.clause}) THEN m
  ELSE Flip(m, {w \in e.witness : ~Makes(m, w)})
Extend(m) ==
  LET after[i \in 0..Len(extension)] ==   \* the entries above i are done
        IF i = Len(extension) THEN m
        ELSE ExtendEntry(after[i + 1], extension[i + 1])
  IN after[0]

UnitClauses(ls) == {{l} : l \in ls}
Used == {v \in Var : status[v] # "unused"}
Models(F) == {m \in SUBSET Used : Satisfies(m, F)}
=============================================================================
