---------------------------- MODULE ApiInvariant ----------------------------
(***************************************************************************)
(* The inductive invariant of the solver with a propagator and the tester. *)
(*                                                                         *)
(* What is said of the solver is said of a record c, and not of the        *)
(* variable core: most operations are functions on such records, and the   *)
(* same predicates describe their results.  Some of it must hold inside    *)
(* operations that a step composes (Struct, Hearing, Late, Sound); the     *)
(* rest only between steps and depends on the label the search is at       *)
(* (CoreAt, ConflictAt, ControlAt, PendingAt, AnswerAt).                   *)
(***************************************************************************)
EXTENDS ApiTester

\* The literal l is true in the model m.
Tru(m, l) == IF l > 0 THEN l \in m ELSE -l \notin m

-----------------------------------------------------------------------------
(* The trail t and the sizes k it had before each decision.                *)

\* No variable is on the trail twice.
Distinct(t) ==
  \A i, j \in DOMAIN t : t[i].lit \in {t[j].lit, -t[j].lit} => i = j

\* Levels are opened one after the other.  Literals may be on the trail behind
\* those of higher levels ('chrono'), but not before their own level begins,
\* and only its first one is a decision.
Staged(t, k) ==
  /\ \A a, b \in DOMAIN k : a <= b => k[a] <= k[b]
  /\ \A a \in DOMAIN k : k[a] <= Len(t)
  /\ \A i \in DOMAIN t :
       /\ t[i].level <= Len(k)
       /\ t[i].level = 0 => t[i].reason = None
       /\ t[i].reason = None /\ t[i].level > 0 => i = k[t[i].level] + 1
       /\ \A a \in DOMAIN k : i <= k[a] => t[i].level < a

\* The clause cl is a reason for the i-th literal of the trail: the others
\* were false before, on levels that are not higher.
FalseBefore(t, i, l) ==
  \E j \in 1..i - 1 : t[j].lit = -l /\ t[j].level <= t[i].level
Justified(t, i, cl) ==
  t[i].lit \in cl /\ \A l \in cl \ {t[i].lit} : FalseBefore(t, i, l)

\* All reasons that are clauses are such reasons.
Ordered(t) ==
  \A i \in DOMAIN t :
    t[i].reason \notin {None, External} => Justified(t, i, t[i].reason)

\* The propagator has a lemma that is one for each literal it has propagated
\* and not explained.
LateOk(t, connected, observed, lemmas, reasonOf) ==
  \A i \in DOMAIN t : t[i].reason = External =>
    /\ connected /\ Abs(t[i].lit) \in observed /\ reasonOf[t[i].lit] # 0
    /\ Justified(t, i, lemmas[reasonOf[t[i].lit]].lits)
Late(c) == LateOk(c.trail, c.connected, c.observed, c.lemmas, c.reasonOf)

\* A clause over the variables V.
Over(cl, V) == \A l \in cl : Abs(l) \in V

\* Everything is about variables of the solver, and the positions are on the
\* trail.
Known(c) ==
  /\ \A i \in DOMAIN c.trail : Abs(c.trail[i].lit) \in c.vars
  /\ \A d \in c.clauses : Over(d.lits, c.vars)
  /\ \A i \in DOMAIN c.lemmas : Over(c.lemmas[i].lits, c.vars)
  /\ c.observed \subseteq c.vars /\ \A v \in c.observed : c.frozen[v] > 0
  /\ \A l \in Lit : c.reasonOf[l] <= Len(c.lemmas)
  /\ c.propagated <= Len(c.trail) /\ c.notified <= Len(c.trail)

-----------------------------------------------------------------------------
(* The propagator has heard the trail: 'heard' has what it was told, level *)
(* by level, and 'notified' says how far.                                  *)

\* What it has heard is true, and was so on the level it heard it on.
HeardTrue(t, heard) ==
  \A a \in DOMAIN heard : \A x \in DOMAIN heard[a] :
    \E i \in DOMAIN t : t[i].lit = heard[a][x] /\ t[i].level < a

\* It was told of the observed variables up to 'notified', on a level that it
\* keeps as long as the trail keeps the literal.
ToldFor(t, k, heard, j) ==
  \E a \in DOMAIN heard : \E x \in DOMAIN heard[a] :
    heard[a][x] = t[j].lit /\ \A b \in DOMAIN k : j <= k[b] => a <= b
HeardAll(t, k, heard, notified, observed) ==
  \A j \in 1..notified : Abs(t[j].lit) \in observed => ToldFor(t, k, heard, j)

\* What every change of the solver keeps of its data structures.
Struct(c) ==
  /\ c \in Core /\ Distinct(c.trail) /\ Staged(c.trail, c.control) /\ Known(c)
  /\ Len(c.heard) = IF Listens(c) THEN Level(c) + 1 ELSE 1
  /\ ~Listens(c) => \A b \in DOMAIN c.control : c.notified <= c.control[b]
  /\ ~c.connected => c.heard = <<<<>>>> /\ c.observed = {} /\ c.lemmas = <<>>

\* It has heard of the variables O; every level it was told of began on what
\* it was told.
Hearing(c, O) ==
  /\ HeardTrue(c.trail, c.heard)
  /\ HeardAll(c.trail, c.control, c.heard, c.notified, O)
  /\ Listens(c) => \A b \in DOMAIN c.control : c.control[b] <= c.notified
Hears(c) == Hearing(c, c.observed)

\* A literal that is not fixed was told once, on the level it was found on.
Once(c) ==
  \A a \in DOMAIN c.heard : \A x \in DOMAIN c.heard[a] : \A j \in DOMAIN c.trail :
    c.heard[a][x] = c.trail[j].lit /\ c.trail[j].level > 0 =>
      /\ j <= c.notified
      /\ \A b \in DOMAIN c.control : a <= b => j <= c.control[b]
      /\ \A a2 \in DOMAIN c.heard : \A y \in DOMAIN c.heard[a2] :
           c.heard[a2][y] = c.trail[j].lit => a2 = a /\ y = x

-----------------------------------------------------------------------------
(* What the solver knows follows from what it was given: it holds in the   *)
(* models W of the formula and the theory.                                 *)

Sound(c, W) ==
  \A m \in W :
    /\ \A d \in c.clauses : Holds(m, d.lits)
    /\ \A i \in DOMAIN c.trail :
         /\ c.trail[i].level = 0 => Tru(m, c.trail[i].lit)
         /\ c.trail[i].reason \notin {None, External}
              => Holds(m, c.trail[i].reason)
    /\ \A i \in DOMAIN c.lemmas : Holds(m, c.lemmas[i].lits)
    /\ ~c.unsat
    /\ c.conflict # None => Holds(m, c.conflict)

-----------------------------------------------------------------------------
(* Conflicts, and lemmas that the propagator has still to give.            *)

\* The trail falsifies the conflict.
Falsified(c) == \A l \in c.conflict : \E i \in DOMAIN c.trail : c.trail[i].lit = -l

\* The literals that are fixed.
Roots(t) == {t[i].lit : i \in {j \in DOMAIN t : t[j].level = 0}}

\* The lemmas that are needed: not given, and not satisfied for good.
Pending(c) == {i \in DOMAIN c.lemmas : ~c.lemmas[i].added
                 /\ ~c.lemmas[i].isReason
                 /\ c.lemmas[i].lits \cap Roots(c.trail) = {}}

-----------------------------------------------------------------------------
(* The invariant at each label.                                            *)

Resting == {"idle", "start", "done"}
Asking == {"cbpropagate", "ask", "lemma", "model", "askmodel", "lemmamodel"}

\* The invariant at the label l of the search: c is the solver, m the mock
\* propagator, q the query, g whether it asks again, W the models.
CoreAt(c, q, l, W) ==
  /\ Struct(c) /\ Hears(c) /\ Late(c) /\ ~c.private /\ Sound(c, W)
  /\ c.unsat \/ q.unsat_constraint \/ c.connected \/ l \notin {"idle", "start"}
       => Ordered(c.trail)
  /\ l \notin Resting => Once(c)

\* A conflict is analyzed at once.  Only a contradiction may stay, and a
\* conflict that the propagation before a lemma has found ('unsat or conflict
\* will be caught later'): at the root, or when the lemma is no longer needed.
ConflictAt(c, m, q, l) ==
  /\ c.conflict # None =>
       \/ c.unsat
       \/ /\ Falsified(c)
          /\ \/ l = "analyze"
             \/ l = "lemma" /\ (Level(c) = 0 \/ m.next \notin Pending(c))
  /\ l = "analyze" => c.conflict # None
  /\ c.unsat \/ q.unsat_constraint => l \in Resting \cup {"loop"}

\* Which callbacks can come, what was told and propagated before them, and
\* which lemma the propagator stands at.
ControlAt(c, m, l) ==
  /\ l \in Asking => c.connected
  /\ l \in {"cbpropagate", "ask", "askmodel", "lemmamodel"}
       \/ (l = "decide" /\ c.connected) => c.notified = Len(c.trail)
  /\ l = "decide" => c.propagated = Len(c.trail)
  /\ m.must # 0 => l = "askmodel" /\ m.must \in DOMAIN c.lemmas
  /\ m.next \in 1..Len(c.lemmas) + 1
  /\ l \in {"lemma", "lemmamodel"} => m.next \in DOMAIN c.lemmas
  /\ l = "lemma" => ~c.lemmas[m.next].added /\ ~c.lemmas[m.next].isReason

\* The query is about variables of the solver.
AskedAt(c, q, a) ==
  /\ Over(ToSet(q.assumptions), c.vars) /\ Over(q.constraint, c.vars)
  /\ Over(ToSet(a.clause), c.vars) /\ Over(ToSet(a.constraint), c.vars)

\* An answer 10 is not given for a contradiction, and the state 'SATISFIED'
\* lasts until the model is left.
AnswerAt(c, q, l, r, s) ==
  /\ l = "done" /\ r = 10 => ~c.unsat /\ ~q.unsat_constraint
  /\ s = "SATISFIED" =>
       /\ l = "idle" /\ ~q.unsat_constraint
       /\ c.unsat => Level(c) = 0

\* The propagator looks at no lemma behind the first that is needed, and while
\* one is, the search does not go on: it stays at the first level, at the root
\* when a decision is due or a model was found, and the pause that the
\* propagator makes after three calls does not make it forget.
FirstNeeded(m) == IF m.must # 0 THEN m.must ELSE m.next
PendingAt(c, m, l, g) ==
  /\ \A i \in Pending(c) : FirstNeeded(m) <= i
  /\ l \notin Resting /\ Pending(c) # {} =>
       /\ Level(c) <= 1
       /\ l \in {"decide", "model", "askmodel", "lemmamodel"} => Level(c) = 0
       /\ m.count > 2 =>
            \/ Level(c) = 0 /\ l # "decide"
            \/ c.unsat \/ l \in {"lemma", "analyze"}
            \/ (l = "ask" /\ g)
       /\ l = "cbpropagate" \/ (l = "ask" /\ ~g) =>
            c.propagated = Len(c.trail) \/ Level(c) = 0
  /\ l = "ask" /\ g => c.propagated = Len(c.trail)
  /\ l = "cbpropagate" => ~g

\* The arguments of a call are what it takes.
CallOk(k) ==
  /\ k.op \in {"add", "constrain"} => k.lit \in Lit \cup {0}
  /\ k.op = "assume" => k.lit \in Lit
  /\ k.op \in {"melt", "freeze", "flip", "observe"} => k.lit \in Var
  /\ k.op = "lemma" => k.clause \in Clause
  /\ k.op = "later" => k.clause \in SUBSET Var

-----------------------------------------------------------------------------
(* The invariant.                                                          *)

Worlds == Models(user.formula \cup Theory)
CoreInv == CoreAt(core, query, pc, Models(user.formula \cup Theory))
ConflictInv == ConflictAt(core, mock, query, pc)
ControlInv == ControlAt(core, mock, pc)
AskedInv == AskedAt(core, query, adding)
AnswerInv == AnswerAt(core, query, pc, result, state)
PendingInv == PendingAt(core, mock, pc, again)

\* The tester has generated calls of the solver.
OpNames ==
  {"add", "constrain", "assume", "melt", "freeze", "flip", "observe", "lemma",
   "later", "connect", "disconnect", "solve", "simplify", "propagate",
   "lookahead", "val", "reset"}
CallSet ==
  {k \in [op : OpNames, lit : Int, clause : SUBSET Int] : CallOk(k)}
CallsInv == calls \in Seq(CallSet)

Typed ==
  /\ query \in Query /\ user \in User /\ adding \in Adding
  /\ again \in BOOLEAN /\ termination_forced \in BOOLEAN /\ result \in {0, 10, 20}
  /\ state \in VALID \cup {"SOLVING", "DELETING"}

\* Whatever is called and whatever the callbacks answer, the solver's view of
\* the trail and the propagator's fit together at every place of the search:
\* levels, reasons given or promised, conflicts that may be overlooked for a
\* while, and lemmas that are still to come.
ApiInv ==
  /\ mock \in Mock /\ CoreInv /\ ConflictInv /\ ControlInv /\ PendingInv
  /\ AskedInv /\ AnswerInv /\ CallsInv /\ Typed
=============================================================================
