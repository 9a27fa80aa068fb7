------------------------- MODULE ExternalPropagator -------------------------
(***************************************************************************)
(* The search of CaDiCaL with a user's propagator connected (IPASIR-UP):   *)
(* the CDCL loop, what it tells the propagator, when it calls it back, and *)
(* how clauses that come late enter a trail on which literals may be out   *)
(* of order.  The propagator is the one of the model-based tester mobical. *)
(*                                                                         *)
(* A literal is a non-zero integer and a clause the set of its literals.   *)
(* Learned clauses are the first UIP clauses without minimisation, and a   *)
(* literal is propagated over every clause it falsifies a literal of       *)
(* (module Cdcl has what is left out here).  Callbacks take no time of     *)
(* their own: a step is one callback and what the solver does after it.    *)
(***************************************************************************)
EXTENDS Integers, Sequences, FiniteSets, SequencesExt, FiniteSetsExt, TLC

CONSTANTS
  Var,          \* the variables
  MaxReasons,   \* how many literals the propagator may propagate
  MaxLosses,    \* how many external clauses 'reduce' may delete
  MaxRestarts   \* how many restarts there may be

Lit == Var \cup {-v : v \in Var}
Clause == SUBSET Lit
Abs(l) == IF l < 0 THEN -l ELSE l
IsTautology(c) == \E l \in c : -l \in c
None == {}          \* no reason, no conflict, no clause
External == {0}     \* external_reason

ASSUME VarAssumption == Var \subseteq Nat \ {0} /\ IsFiniteSet(Var)
ASSUME BoundAssumption ==
  MaxReasons \in Nat /\ MaxLosses \in Nat /\ MaxRestarts \in Nat
-----------------------------------------------------------------------------
VARIABLES
  core,       \* the solver, and what it has told the propagator (see Core)
  mock,       \* the rest of the propagator's state (see Mock)
  query,      \* the assumptions and the constraint of this call
  pc,         \* where the search is
  again,      \* cb_repropagate_needed, added_new_clauses
  result,     \* 0, 10 or 20 as 'solve' returns it
  termination_forced,
  budget      \* what is left of these bounds

searchVars ==
  <<core, mock, query, pc, again, result, termination_forced, budget>>

Entry == [lit : Lit, level : Nat, reason : Clause \cup {External}]
Core == [
  chrono : BOOLEAN,       \* opts.chrono
  vars : SUBSET Var,      \* the variables the solver has seen
  clauses : SUBSET [lits : Clause, red : BOOLEAN],
  trail : Seq(Entry),
  control : Seq(Nat),     \* the size of the trail before each decision
  propagated : Nat,
  notified : Nat,         \* how far the propagator knows the trail
  conflict : Clause,
  unsat : BOOLEAN,
  newest : Clause,        \* newest_clause
  extended : BOOLEAN,     \* External::vals are up to date,
  model : SUBSET Var,     \* and these variables are true in them
  connected : BOOLEAN,    \* external_prop
  private : BOOLEAN,      \* private_steps
  observed : SUBSET Var,
  frozen : [Var -> Nat],
  heard : Seq(Seq(Lit)),  \* observed_trail, the propagator's trail
  lemmas : Seq([lits : Clause, added : BOOLEAN, isReason : BOOLEAN]),
  reasonOf : [Lit -> Nat]]    \* reason_map, 0 when there is none
Query == [
  kind : {"solve", "simplify", "propagate"},
  assumptions : Seq(Lit),
  constraint : Clause,
  unsat_constraint : BOOLEAN]
Mock == [
  next : Nat,             \* add_lemma_idx
  must : Nat,             \* must_add_idx, 0 when nothing must be added
  count : Nat,            \* added_lemma_count
  fresh : SUBSET Var]     \* new_observed_variables
-----------------------------------------------------------------------------
(* The trail. *)

\* The elements of a sequence at the positions I, in their order.
Nth(I, k) == CHOOSE i \in I : Cardinality({j \in I : j < i}) = k - 1
Chosen(s, I) == [k \in 1..Cardinality(I) |-> s[Nth(I, k)]]

Level(c) == Len(c.control)
Lits(c) == {c.trail[i].lit : i \in DOMAIN c.trail}
LitSeq(c) == [i \in DOMAIN c.trail |-> c.trail[i].lit]
IsObserved(c, i) == Abs(c.trail[i].lit) \in c.observed
IsTrue(c, l) == l \in Lits(c)
IsFalse(c, l) == -l \in Lits(c)
IsAssigned(c, l) == IsTrue(c, l) \/ IsFalse(c, l)
PosOf(c, l) == CHOOSE i \in DOMAIN c.trail : c.trail[i].lit \in {l, -l}
LevelOf(c, l) == c.trail[PosOf(c, l)].level
ReasonOf(c, l) == c.trail[PosOf(c, l)].reason
MaxLevel(c, ls) == Max({0} \cup {LevelOf(c, l) : l \in ls})
IsFixed(c, l) == IsAssigned(c, l) /\ LevelOf(c, l) = 0
Listens(c) == c.connected /\ ~c.private
Model(c) == {v \in Var : IsTrue(c, v)}

\* extend and reset_extended (nobody reads the values after the latter)
Extended(c) == [c EXCEPT !.extended = TRUE, !.model = Model(c)]
Unextended(c) == [c EXCEPT !.extended = FALSE, !.model = {}]

\* The propagator hears of literals on the decision level it is on.
Told(c, ls) ==
  [c EXCEPT !.heard[Len(c.heard)] = @ \o ls]

\* notify_assignments: every literal the propagator does not know yet.
Notified(c) ==
  IF ~Listens(c) \/ c.notified >= Len(c.trail) THEN c
  ELSE LET new == {i \in c.notified + 1..Len(c.trail) : IsObserved(c, i)}
       IN  [Told(c, Chosen(LitSeq(c), new)) EXCEPT !.notified = Len(c.trail)]

\* search_assign: a literal without a level has no reason either.
Assign(c, l, level, reason) ==
  [c EXCEPT !.trail = Append(@, [lit |-> l, level |-> level,
                                 reason |-> IF level = 0 THEN None
                                            ELSE reason])]
\* the lowest level of the other literals instead of the highest
Implied_Fault(c, l, cl) ==
  Assign(c, l, IF c.chrono
               THEN Min({Level(c)} \cup {LevelOf(c, k) : k \in cl \ {l}})
               ELSE Level(c), cl)
Implied(c, l, cl) ==
  Assign(c, l, IF c.chrono THEN MaxLevel(c, cl \ {l}) ELSE Level(c), cl)

\* the propagator does not hear of the new level
NewLevel_Fault(c) == [c EXCEPT !.control = Append(@, Len(c.trail))]

\* new_trail_level and notify_decision
NewLevel(c) ==
  [c EXCEPT !.control = Append(@, Len(c.trail)),
            !.heard = IF Listens(c) THEN Append(@, <<>>) ELSE @]

\* the literals kept are not propagated again
TrailCut_Fault(c, level, cut, kept) ==
  [c EXCEPT !.trail = SubSeq(@, 1, cut) \o kept,
            !.propagated = Min({@, cut + Len(kept)}),
            !.control = SubSeq(@, 1, level)]

\* The trail up to 'cut' stays, and the literals 'kept' behind it.
TrailCut(c, level, cut, kept) ==
  [c EXCEPT !.trail = SubSeq(@, 1, cut) \o kept,
            !.propagated = Min({@, cut}),
            !.control = SubSeq(@, 1, level)]

\* backtrack: literals of lower levels stay on the trail behind the cut, and
\* the propagator, which has dropped them with their level, hears of them
\* again.
Backtracked(c, level) ==
  IF level >= Level(c) THEN c
  ELSE LET cut == c.control[level + 1]
           kept == Chosen(c.trail, {i \in cut + 1..Len(c.trail) :
                                      c.trail[i].level <= level})
           back == [TrailCut(c, level, cut, kept) EXCEPT
             !.heard = IF Listens(c) THEN SubSeq(@, 1, level + 1) ELSE @,
             !.notified = IF Listens(c) THEN Min({@, cut}) ELSE @]
       IN  IF kept = <<>> THEN back ELSE Notified(back)

\* One step of propagate: the next literal is done when no clause with its
\* negation is falsified or has a single literal left.
PropagateNext(c) ==
  LET l == c.trail[c.propagated + 1].lit
      watches == {d.lits : d \in {e \in c.clauses : -l \in e.lits}}
      falsified == {d \in watches : \A k \in d : IsFalse(c, k)}
      left(d) == {k \in d : ~IsFalse(c, k)}
      units == {d \in watches : /\ Cardinality(left(d)) = 1
                                /\ \A k \in left(d) : ~IsTrue(c, k)}
  IN  IF falsified # {}
      THEN [c EXCEPT !.conflict = CHOOSE d \in falsified : TRUE,
                     !.propagated = @ + 1]
      ELSE IF units # {}
      THEN LET d == CHOOSE d \in units : TRUE
           IN  Implied(c, CHOOSE k \in left(d) : TRUE, d)
      ELSE [c EXCEPT !.propagated = @ + 1]

Propagated(c) ==
  LET run[n \in 0..2 * Cardinality(Var)] ==
        IF n = 0 THEN c
        ELSE LET d == run[n - 1]
             IN  IF d.conflict # None \/ d.propagated = Len(d.trail) THEN d
                 ELSE PropagateNext(d)
  IN  run[2 * Cardinality(Var)]
-----------------------------------------------------------------------------
(* A clause of the user or of the propagator. *)

\* move_literals_to_watch: a true literal of a low level first, then one
\* without a value, then a false one of a high level.
WatchRank(c, l) ==
  LET top == Level(c) + 1
  IN  IF IsTrue(c, l) THEN 3 * top - LevelOf(c, l)
      ELSE IF IsFalse(c, l) THEN LevelOf(c, l) ELSE top
ToWatch(c, cl) ==
  CHOOSE l \in cl : \A k \in cl : WatchRank(c, k) <= WatchRank(c, l)

\* handle_external_clause: the clause is falsified or has one literal left.
ClauseHandled(c, cl) ==
  LET first == ToWatch(c, cl)
      second == ToWatch(c, cl \ {first})
      back == IF c.chrono THEN c ELSE Backtracked(c, LevelOf(c, second))
  IN  IF Level(c) = 0 \/ ~IsFalse(c, second) \/ IsTrue(c, first) THEN c
      ELSE IF IsFalse(back, first) THEN [back EXCEPT !.conflict = cl]
      ELSE Notified(Implied(back, first, cl))

\* A unit sends the solver to the root, where it is propagated.
UnitAdded(c, l) ==
  LET root == Backtracked(IF IsFalse(c, l)
                          THEN Backtracked(c, LevelOf(c, l) - 1) ELSE c, 0)
      unit == Propagated(Assign(root, l, 0, None))
  IN  [unit EXCEPT !.unsat = unit.conflict # None]

\* every false literal goes
Remaining_Fault(c, cl) == {l \in cl : ~IsFalse(c, l)}

\* The literals of a clause that can still be true; the others are fixed.
Remaining(c, cl) == {l \in cl : ~(IsFixed(c, l) /\ IsFalse(c, l))}

\* add_new_original_clause.  With 'keep', when the reason of a literal is
\* asked for in the middle of the analysis, the trail must stay as it is.
ClauseAdded(c, cl, red, keep) ==
  LET old == [Unextended(c) EXCEPT !.newest = None]
      rest == Remaining(c, cl)
      new == [old EXCEPT !.newest = rest,
                         !.clauses = @ \cup {[lits |-> rest, red |-> red]}]
  IN  IF c.unsat \/ IsTautology(cl)
           \/ \E l \in cl : IsFixed(c, l) /\ IsTrue(c, l)
      THEN old
      ELSE IF rest = {} THEN [old EXCEPT !.unsat = TRUE]
      ELSE IF Cardinality(rest) = 1
      THEN LET l == CHOOSE k \in rest : TRUE
           IN  IF keep
               THEN [old EXCEPT !.trail[PosOf(c, l)].level = 0,
                                !.trail[PosOf(c, l)].reason = None]
               ELSE UnitAdded(old, l)
      ELSE IF keep THEN new ELSE ClauseHandled(new, rest)

\* learn_external_reason_clause: the propagator gives the clause it had in
\* mind when it propagated the literal.
ReasonLearned(c, l, keep) ==
  LET i == c.reasonOf[l]
  IN  ClauseAdded([c EXCEPT !.lemmas[i].added = TRUE], c.lemmas[i].lits,
                  FALSE, keep)
-----------------------------------------------------------------------------
(* Conflicts. *)

\* explain_reason: the literals of a clause whose own reasons matter.
ReasonExplained(a, cl, l) ==
  LET given(c, o) == [c EXCEPT !.trail[PosOf(c, o)].reason = c.newest]
      known(c, o) == IF ReasonOf(c, o) = External
                     THEN given(ReasonLearned(c, -o, TRUE), o) ELSE c
      mark(c, o, seen) ==
        [core |-> c,
         seen |-> IF LevelOf(c, o) > 0 /\ ReasonOf(c, o) # None
                  THEN seen \cup {Abs(o)} ELSE seen]
      touch(o, b) == IF Abs(o) \in b.seen \/ LevelOf(b.core, o) = 0 THEN b
                     ELSE mark(known(b.core, o), o, b.seen)
  IN  FoldSet(touch, a, cl \ {l})

\* explain_external_propagations: first the reasons, from the end of the
\* trail, then the levels, which only now can be known, from its start.
ReasonsAsked(c) ==
  LET from(a, e) == IF Abs(e.lit) \in a.seen /\ e.level > 0 /\ e.reason # None
                    THEN ReasonExplained(a, e.reason, e.lit) ELSE a
      n == Len(c.trail)
      asked[i \in 0..n] == \* the last i literals of the trail
        IF i = 0 THEN ReasonExplained([core |-> c, seen |-> {}], c.conflict, 0)
        ELSE from(asked[i - 1], asked[i - 1].core.trail[n + 1 - i])
  IN  asked[n]
LevelsCorrected(a) ==
  LET lower(d, i, real) ==
        [d EXCEPT !.trail[i].level = Min({@, real}),
                  !.trail[i].reason = IF real = 0 THEN None ELSE @]
      step(d, i) ==
        LET e == d.trail[i]
        IN  IF Abs(e.lit) \notin a.seen \/ e.reason = None THEN d
            ELSE lower(d, i, MaxLevel(d, e.reason \ {e.lit}))
      corrected[i \in 0..Len(a.core.trail)] == \* the first i literals
        IF i = 0 THEN a.core ELSE step(corrected[i - 1], i)
  IN  corrected[Len(a.core.trail)]
Explained(c) == LevelsCorrected(ReasonsAsked(c))

\* The first UIP clause of a conflict on the current level.
Learned(c) ==
  LET onLevel(cl) == {l \in cl : LevelOf(c, l) = Level(c)}
      above(cl) == {l \in cl : LevelOf(c, l) > 0}
      resolved[n \in 0..Len(c.trail)] ==
        IF n = 0 THEN above(c.conflict)
        ELSE LET cl == resolved[n - 1]
                 last == CHOOSE l \in onLevel(cl) :
                           \A k \in onLevel(cl) : PosOf(c, k) <= PosOf(c, l)
             IN  IF Cardinality(onLevel(cl)) <= 1 THEN cl
                 ELSE (cl \cup above(ReasonOf(c, last))) \ {last, -last}
  IN  resolved[Len(c.trail)]

\* The conflict has a single literal of its level: that literal is flipped.
Forced(c, top, l) ==
  [Notified(Implied(Backtracked(c, top - 1), l, c.conflict))
     EXCEPT !.conflict = None]

\* The clause 'cl' learned from the conflict drives the literal 'uip'.
Driven(c, cl, uip, jump) ==
  LET second == MaxLevel(c, cl \ {uip})
      back == Backtracked(c, Max({second, Min({jump, Level(c) - 1})}))
      learned == [back EXCEPT
                    !.clauses = @ \cup {[lits |-> cl, red |-> TRUE]}]
  IN  [Notified(IF Cardinality(cl) = 1 THEN Assign(back, uip, 0, None)
                ELSE Implied(learned, uip, cl)) EXCEPT !.conflict = None]
Resolved(c, cl, jump) ==
  Driven(c, cl, CHOOSE l \in cl : LevelOf(c, l) = Level(c), jump)

\* analyze, with the level to go back to where the options leave a choice.
AnalyzedFrom(c, jump, top) ==
  LET forced == {l \in c.conflict : LevelOf(c, l) = top}
      level == Backtracked(c, top)
  IN  IF top = 0 THEN [level EXCEPT !.unsat = TRUE]
      ELSE IF Cardinality(forced) = 1
      THEN Forced(c, top, CHOOSE k \in forced : TRUE)
      ELSE Resolved(level, Learned(level), jump)
Analyzed(c, jump) ==
  LET from(d) == AnalyzedFrom(d, jump, MaxLevel(d, d.conflict))
  IN  from(IF Listens(c) THEN Explained(c) ELSE c)
-----------------------------------------------------------------------------
(* Decisions. *)

PseudoLevels(q) ==
  Len(q.assumptions) + IF q.constraint = {} THEN 0 ELSE 1
Satisfied(c, q) ==
  /\ Level(c) >= PseudoLevels(q)
  /\ Cardinality(Lits(c)) = Cardinality(c.vars)
  /\ c.propagated = Len(c.trail)

Decided(c, l) == LET d == NewLevel(c) IN Assign(d, l, Level(d), None)

\* no empty level for an assumption that is true already
Assumed_Fault(c, q) ==
  LET l == q.assumptions[Level(c) + 1]
  IN  IF IsTrue(c, l) THEN c ELSE Decided(c, l)

\* The next assumption: decided, or an empty level when it is true already.
Assumed(c, q) ==
  LET l == q.assumptions[Level(c) + 1]
  IN  IF IsTrue(c, l) THEN NewLevel(c) ELSE Decided(c, l)
AssumptionFails(c, q) ==
  Level(c) < Len(q.assumptions) /\ IsFalse(c, q.assumptions[Level(c) + 1])

\* try_to_satisfy_formula_by_saved_phases: decisions the propagator is not
\* told of, after a local search that found every phase to be 'sign'.
Walked(c, q, sign) ==
  LET step(w) ==
        LET d == w.core
            free == {v \in d.vars : ~IsAssigned(d, v)}
            next == IF Level(d) < Len(q.assumptions) THEN Assumed(d, q)
                    ELSE Decided(d, sign * Min(free))
            after == Propagated(next)
        IN  IF w.stop THEN w
            ELSE IF Satisfied(d, q)
            THEN [w EXCEPT !.res = 10, !.stop = TRUE]
            ELSE IF AssumptionFails(d, q)
            THEN [w EXCEPT !.res = 20, !.stop = TRUE]
            ELSE IF after.conflict # None
            THEN [w EXCEPT !.stop = TRUE,
                    !.core = [Backtracked(after, 0) EXCEPT !.conflict = None]]
            ELSE [w EXCEPT !.core = after]
      run[n \in 0..Cardinality(Var) + Len(q.assumptions) + 1] ==
        IF n = 0 THEN [core |-> [c EXCEPT !.private = TRUE], res |-> 0,
                       stop |-> FALSE]
        ELSE step(run[n - 1])
      end == run[Cardinality(Var) + Len(q.assumptions) + 1]
  IN  [end EXCEPT !.core.private = FALSE]

\* renotify_full_trail: the propagator hears the whole trail, each literal on
\* the highest level reached so far.
Renotified(c) ==
  LET reached(i) == Max({c.trail[j].level : j \in 1..i})
      literals(k) == Chosen(LitSeq(c), {i \in DOMAIN c.trail :
                                          reached(i) = k /\ IsObserved(c, i)})
  IN  IF ~Listens(c) THEN c
      ELSE IF Level(c) = 0 THEN Notified(c)
      ELSE [c EXCEPT !.notified = Len(c.trail),
             !.heard = [k \in 1..Level(c) + 1 |->
               IF k = 1 THEN @[1] \o literals(0) ELSE literals(k - 1)]]
-----------------------------------------------------------------------------
(* What the propagator answers. *)

\* add_observed_var: a variable with a value the propagator could not hear of
\* in its place loses it, and a fixed one is told at once.
Observed(c, v) ==
  LET seen == [Unextended(c) EXCEPT
                 !.observed = @ \cup {v}, !.vars = @ \cup {v},
                 !.frozen[v] = @ + 1]
      back == IF ~IsAssigned(c, v) THEN seen
              ELSE Backtracked(seen, Max({0, LevelOf(c, v) - 1}))
  IN  IF v \in c.observed THEN Unextended(c)
      ELSE IF IsFixed(c, v) THEN Told(back, <<IF IsTrue(c, v) THEN v ELSE -v>>)
      ELSE back

\* cb_has_external_clause: the propagator observes a new variable, then the
\* lemma the last model falsified comes first, and after more than two
\* lemmas it pauses.
Asked(c, m) ==
  LET new == IF m.fresh = {} THEN c ELSE Observed(c, Min(m.fresh))
      known == IF m.fresh = {} THEN m
               ELSE [m EXCEPT !.fresh = @ \ {Min(@)}]
      open == {i \in m.next..Len(c.lemmas) : ~c.lemmas[i].added
                                             /\ ~c.lemmas[i].isReason}
      answer(mk, has) == [core |-> new, mock |-> mk, has |-> has]
  IN  IF c.lemmas = <<>> THEN [core |-> c, mock |-> m, has |-> FALSE]
      ELSE IF m.must # 0
      THEN answer([known EXCEPT !.next = m.must, !.must = 0, !.count = @ + 1],
                  TRUE)
      ELSE IF m.count > 2 THEN answer([known EXCEPT !.count = 0], FALSE)
      ELSE IF open = {}
      THEN answer([known EXCEPT !.next = Len(c.lemmas) + 1], FALSE)
      ELSE answer([known EXCEPT !.next = Min(open), !.count = @ + 1], TRUE)

\* cb_add_external_clause_lit and add_external_clause: lemmas are forgettable.
LemmaAdded(c, m) ==
  ClauseAdded([c EXCEPT !.lemmas[m.next].added = TRUE],
              c.lemmas[m.next].lits, TRUE, FALSE)

\* What the propagator knows of the variables it observes.
Heard(c) ==
  LET flat == FlattenSeq(c.heard)
  IN  Chosen(flat, {i \in DOMAIN flat : Abs(flat[i]) \in c.observed})

\* cb_propagate: what the propagator may come up with, the literal it
\* propagates and the clause it has in mind.  Which one it takes depends on a
\* sum of literals.
Proposals(c) ==
  LET heard == Heard(c)
      lo == heard[1]
      hi == heard[Len(heard)]
      unassigned == {v \in c.observed : {v, -v} \cap ToSet(heard) = {}}
      u == Min(unassigned)
      proposal(l, cl) == [lit |-> l, clause |-> cl]
  IN  IF heard = <<>> \/ unassigned = {} THEN {}
      ELSE {proposal(u, {u, -hi}), proposal(u, {u}),
            proposal(-lo, {-lo, -hi})}
           \cup (IF Cardinality(ToSet(heard)) > 1
                 THEN {proposal(u, {u, -lo, -hi})} ELSE {})
\* the literal gets the clause before its own
Proposed_Fault(c, p) ==
  [c EXCEPT !.lemmas = Append(@, [lits |-> p.clause, added |-> FALSE,
                                  isReason |-> TRUE]),
            !.reasonOf[p.lit] = Len(c.lemmas)]
Proposed(c, p) ==
  [c EXCEPT !.lemmas = Append(@, [lits |-> p.clause, added |-> FALSE,
                                  isReason |-> TRUE]),
            !.reasonOf[p.lit] = Len(c.lemmas) + 1]

\* a conflict is left for later
Interrupted_Fault(c) == c.unsat

\* After a clause has come, its consequences.
Interrupted(c) == c.unsat \/ c.conflict # None
Settled(c) == IF Interrupted(c) THEN c ELSE Propagated(c)

\* The body of the loop of external_propagate for one literal.
ExternallyPropagated(c, l) ==
  Settled(IF ~IsFalse(c, l) /\ Level(c) > 0
          THEN Notified(Assign(c, l, Level(c), External))
          ELSE ReasonLearned(c, l, FALSE))

\* only the lemmas that were not given yet
FalsifiedLemmas_Fault(c) ==
  {i \in DOMAIN c.lemmas : /\ ~c.lemmas[i].added
                           /\ ~\E l \in c.lemmas[i].lits : IsTrue(c, l)}

\* cb_check_found_model: the lemmas the model falsifies.
FalsifiedLemmas(c) ==
  {i \in DOMAIN c.lemmas : ~\E l \in c.lemmas[i].lits : IsTrue(c, l)}
-----------------------------------------------------------------------------
(* The search. *)

Goto(c, label) == core' = c /\ pc' = label
\* Where the loop goes after a callback.
Interrupt(c) == Goto(c, IF c.unsat THEN "loop" ELSE "analyze")
Resume(c, label) ==
  IF Interrupted(c) THEN Interrupt(c) ELSE Goto(Notified(c), label)

\* the request stays for the next call
Finish_Fault(c, res) ==
  Goto(c, "done") /\ result' = res /\ UNCHANGED termination_forced

\* finalize and reset_solving: a request to terminate ends with this call.
Finish(c, res) ==
  /\ Goto(c, "done")
  /\ result' = res
  /\ termination_forced' = FALSE

\* solve up to the loop, already_solved and the part of propagate_assumptions
\* before its loop.
Begin ==
  LET root == Propagated(Backtracked(core, 0))
  IN  /\ pc = "start"
      /\ IF core.unsat \/ query.unsat_constraint
         THEN Finish(core, 20)
         ELSE IF root.conflict # None
         THEN Finish([root EXCEPT !.unsat = TRUE], 20)
         ELSE IF query.kind = "simplify"
         THEN Finish(root, 0)
         ELSE /\ Goto(root, "loop")
              /\ UNCHANGED <<result, termination_forced>>
      /\ UNCHANGED <<mock, query, again, budget>>

\* local_search found all phases to be 'sign' and they are tried.
PhasesTried(c, res) ==
  IF res = 20 \/ (res = 10 /\ ~c.connected) THEN Finish(c, res)
  ELSE /\ Goto(IF res = 10 THEN Backtracked(c, 0) ELSE c, "loop")
       /\ UNCHANGED <<result, termination_forced>>
LocalSearch ==
  LET root == Propagated(Backtracked(core, 0))
  IN  /\ pc = "start" /\ query.kind = "solve" /\ query.constraint = {}
      /\ ~core.unsat /\ ~query.unsat_constraint /\ root.conflict = None
      /\ \E sign \in {1, -1} :
           LET tried == Walked(root, query, sign)
           IN  PhasesTried(Renotified(tried.core), tried.res)
      /\ UNCHANGED <<mock, query, again, budget>>

\* The head of the loop.
Propagate ==
  LET c == Propagated(core)
  IN  /\ pc = "loop"
      /\ IF core.unsat \/ query.unsat_constraint
         THEN Finish(core, 20) /\ UNCHANGED again
         ELSE /\ IF c.conflict # None
                 THEN Goto(c, "analyze") /\ UNCHANGED again
                 ELSE IF c.connected
                 THEN Goto(Notified(c), "cbpropagate") /\ again' = FALSE
                 ELSE Goto(c, "decide") /\ UNCHANGED again
              /\ UNCHANGED <<result, termination_forced>>
      /\ UNCHANGED <<mock, query, budget>>

Analyze ==
  /\ pc = "analyze"
  /\ \E jump \in IF core.chrono THEN {0, Level(core) - 1} ELSE {0} :
       Goto(Analyzed(core, jump), "loop")
  /\ UNCHANGED <<mock, query, again, result, termination_forced, budget>>

\* cb_propagate returns a literal.
CbPropagate ==
  /\ pc = "cbpropagate" /\ budget.reasons > 0
  /\ \E p \in Proposals(core) :
       Resume(ExternallyPropagated(Proposed(core, p), p.lit), "cbpropagate")
  /\ budget' = [budget EXCEPT !.reasons = @ - 1]
  /\ UNCHANGED <<mock, query, again, result, termination_forced>>

\* cb_propagate returns zero.
CbPropagateNothing ==
  /\ pc = "cbpropagate"
  /\ Goto(core, "ask")
  /\ UNCHANGED <<mock, query, again, result, termination_forced, budget>>

\* ask_external_clause.  Only the first time it is followed by a propagation
\* of what a new observed variable has undone.
ClauseAsked(c, has) ==
  IF has THEN Goto(c, "lemma") /\ UNCHANGED again
  ELSE IF Interrupted(c) THEN Interrupt(c) /\ UNCHANGED again
  ELSE IF again THEN Goto(Notified(c), "cbpropagate") /\ again' = FALSE
  ELSE Goto(c, "decide") /\ UNCHANGED again
AskClause ==
  LET asked == Asked(core, mock)
  IN  /\ pc = "ask"
      /\ mock' = asked.mock
      /\ ClauseAsked(IF again THEN asked.core
                  ELSE Notified(Propagated(asked.core)), asked.has)
      /\ UNCHANGED <<query, result, termination_forced, budget>>

AddLemma ==
  /\ pc = "lemma"
  /\ mock' = [mock EXCEPT !.next = @ + 1]
  /\ Resume(Settled(LemmaAdded(core, mock)), "ask")
  /\ again' = TRUE
  /\ UNCHANGED <<query, result, termination_forced, budget>>

\* A model is found; a connected propagator is asked about it.
FoundModel ==
  /\ pc = "decide" /\ Satisfied(core, query)
  /\ IF core.connected
     THEN Goto(core, "model") /\ UNCHANGED <<result, termination_forced>>
     ELSE Finish(core, 10)
  /\ UNCHANGED <<mock, query, again, budget>>

\* terminated_asynchronously
Terminated ==
  /\ pc = "decide" /\ ~Satisfied(core, query) /\ termination_forced
  /\ Finish(core, 0)
  /\ UNCHANGED <<mock, query, again, budget>>

Searching == pc = "decide" /\ ~Satisfied(core, query) /\ ~termination_forced
NoLimit == /\ pc' = "loop"
           /\ UNCHANGED <<mock, query, again, result, termination_forced>>

\* restart, after which some levels may be kept
Restart ==
  /\ Searching /\ query.kind = "solve" /\ budget.restarts > 0
  /\ Level(core) >= Len(query.assumptions) + 2
  /\ \E level \in Len(query.assumptions)..Level(core) - 1 :
       core' = Backtracked(core, level)
  /\ budget' = [budget EXCEPT !.restarts = @ - 1]
  /\ NoLimit

\* reduce: a redundant clause goes unless it is a reason.
Reduce ==
  /\ Searching /\ query.kind = "solve" /\ budget.losses > 0
  /\ \E d \in core.clauses :
       /\ d.red
       /\ \A i \in DOMAIN core.trail : core.trail[i].reason # d.lits
       /\ core' = [core EXCEPT !.clauses = @ \ {d}]
  /\ budget' = [budget EXCEPT !.losses = @ - 1]
  /\ NoLimit

\* propagate_assumptions stops when all of them are decided.
AssumptionsDone ==
  /\ Searching /\ query.kind = "propagate"
  /\ Level(core) >= PseudoLevels(query)
  /\ Finish(core, 0)
  /\ UNCHANGED <<mock, query, again, budget>>

Deciding == Searching /\ (query.kind = "propagate" =>
                            Level(core) < PseudoLevels(query))

DecideAssumption ==
  /\ Deciding /\ Level(core) < Len(query.assumptions)
  /\ IF AssumptionFails(core, query)
     THEN Finish(core, 20) /\ UNCHANGED <<mock, query, again>>
     ELSE core' = Assumed(core, query) /\ NoLimit
  /\ UNCHANGED budget

DecideConstraint ==
  LET open == {l \in query.constraint : ~IsFalse(core, l)}
      true == {l \in open : IsTrue(core, l)}
  IN  /\ Deciding /\ query.constraint # {}
      /\ Level(core) = Len(query.assumptions)
      /\ \/ /\ open = {}
            /\ query' = [query EXCEPT !.unsat_constraint = TRUE]
            /\ Finish(core, 20)
            /\ UNCHANGED <<mock, again>>
         \/ true # {} /\ core' = NewLevel(core) /\ NoLimit
         \/ true = {} /\ NoLimit /\ \E l \in open : core' = Decided(core, l)
      /\ UNCHANGED budget

\* The rest of decide; the propagator is not asked.
Decide ==
  /\ Deciding /\ Level(core) >= PseudoLevels(query)
  /\ \E v \in core.vars, sign \in {1, -1} :
       ~IsAssigned(core, v) /\ core' = Decided(core, sign * v)
  /\ NoLimit
  /\ UNCHANGED budget

\* external_check_solution: one round of its outer loop up to the question
\* for a clause.
CheckModel ==
  LET c == Notified(core)
      bad == FalsifiedLemmas(c)
  IN  /\ pc = "model"
      /\ IF ~Satisfied(c, query)
         THEN Goto(c, "loop") /\ UNCHANGED <<mock, result, termination_forced>>
         ELSE IF bad = {}
         THEN Finish(Extended(c), 10) /\ UNCHANGED mock
         ELSE /\ Goto(Extended(c), "askmodel")
              /\ mock' = [mock EXCEPT !.must = Min(bad)]
              /\ UNCHANGED <<result, termination_forced>>
      /\ again' = FALSE
      /\ UNCHANGED <<query, budget>>

AskAfterModel ==
  LET asked == Asked(core, mock)
  IN  /\ pc = "askmodel"
      /\ mock' = asked.mock
      /\ IF asked.has \/ again \/ ~Satisfied(asked.core, query)
         THEN /\ Goto(asked.core, IF asked.has THEN "lemmamodel"
                                  ELSE IF again THEN "model" ELSE "loop")
              /\ UNCHANGED <<result, termination_forced>>
         ELSE Finish(asked.core, 10)
      /\ UNCHANGED <<query, again, budget>>

ModelRefuted(c) ==
  LET changed == \/ Len(c.trail) # Len(core.trail)
                 \/ Level(c) # Level(core)
                 \/ c.propagated < Len(c.trail)
  IN  IF c.unsat THEN Goto(c, "loop")
      ELSE IF c.conflict # None
      THEN Goto(Backtracked(c, MaxLevel(c, c.conflict)), "analyze")
      ELSE Goto(c, IF changed THEN "model" ELSE "askmodel")
AddAfterModel ==
  /\ pc = "lemmamodel"
  /\ mock' = [mock EXCEPT !.next = @ + 1]
  /\ ModelRefuted(LemmaAdded(core, mock))
  /\ again' = TRUE
  /\ UNCHANGED <<query, result, termination_forced, budget>>

Search ==
  \/ Begin \/ LocalSearch \/ Propagate \/ Analyze
  \/ CbPropagate \/ CbPropagateNothing \/ AskClause \/ AddLemma
  \/ FoundModel \/ CheckModel \/ AskAfterModel \/ AddAfterModel
  \/ Terminated \/ Restart \/ Reduce
  \/ AssumptionsDone \/ DecideAssumption \/ DecideConstraint \/ Decide
-----------------------------------------------------------------------------
(* What the propagator may rely on, and what the search may rely on. *)

Callback == pc \in {"cbpropagate", "ask", "model", "askmodel"}

Agree(c) ==
  LET seen == {l \in Lits(c) : Abs(l) \in c.observed}
      heard == Heard(c)
  IN  /\ ToSet(heard) = seen
      /\ Len(c.heard) = Level(c) + 1
      /\ \A i, j \in DOMAIN heard :
           heard[i] = heard[j] => i = j \/ IsFixed(c, heard[i])

\* compare_trails of mobical: in every callback the observed literals that
\* are true in the solver are those the propagator has heard of, on as many
\* levels, each once unless it is fixed.
TrailsAgree ==
  Callback => Agree(IF pc = "model" THEN Notified(core) ELSE core)

\* While there is a search, the reason of a literal has it as its only true
\* literal, and the others came before it, on levels not above its own: the
\* analysis goes through the trail from its end and never turns back.
ReasonsOrdered ==
  pc \notin {"idle", "start"} => \A i \in DOMAIN core.trail :
    LET e == core.trail[i]
    IN  e.reason \notin {None, External} =>
          /\ e.lit \in e.reason
          /\ \A l \in e.reason \ {e.lit} :
               /\ IsFalse(core, l)
               /\ PosOf(core, l) < i
               /\ LevelOf(core, l) <= e.level
=============================================================================
