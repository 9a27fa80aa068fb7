# A TLA+ model of CaDiCaL, with the DLIS decision heuristic

The repository holds a thesis on decision heuristics for SAT and the solver it
changes: CaDiCaL 2.1.3 (`src/implementations/cadical/src`) with a DLIS heuristic
added behind `opts.dlis`. This directory models the solver: how it searches, what
it learns, what it answers, how it finds its decisions, how it simplifies the clauses
between two searches and puts the model together again, and what it owes to its user,
to a connected propagator and to a second thread. Paths below are relative to
`src/implementations/cadical/src`.

## 1. Inventory

| Component | State | Operations | What makes it correct |
|---|---|---|---|
| Search core: `internal.cpp` (`cdcl_loop_with_inprocessing`), `propagate.cpp`, `analyze.cpp`, `backtrack.cpp`, `decide.cpp`, `minimize.cpp`, `shrink.cpp`, `restart.cpp`, `reduce.cpp` | `vals`, `vtab` (level, trail position, reason), `trail`, `control`, `propagated`, `conflict`, clauses, `unsat` | propagate, analyze (first UIP, OTFS, shrink, minimize), backtrack, decide, restart, reduce | learned clauses follow from the input; reasons imply their literals; nothing is left unpropagated; the call returns |
| Incremental interface: `assume.cpp`, `constrain.cpp`, `clause.cpp`, `solver.cpp` | `assumptions`, `constraint`, `unsat_constraint`, failed flags, `marked_failed` | add, assume, constrain, solve, failed, resets | models satisfy everything asked for; cores are sufficient; nothing leaks into the next call |
| Decision queue: `queue.hpp`, `queue.cpp`, `internal.hpp` (`update_queue_unassigned`), parts of `analyze.cpp`, `backtrack.cpp`, `decide.cpp`, `compact.cpp`, `internal.cpp` (DLIS) | `links`, `btab`, `queue.{first,last,unassigned,bumped}`, `stats.bumped` | init_enqueue, bump_queue, unassign, next decision (VMTF, DLIS), shuffle, flush | a decision is the unassigned variable that was bumped last, or scores best |
| EVSIDS scores: `score.cpp`, `heap.hpp` | heap, `stab`, `score_inc` | bump, rescale, lazy pop | heap order; no unassigned variable is missing |
| Watches: `watch.cpp`, `propagate.cpp` | `wtab`, blocking literals, `clause.pos` | watch, re-watch | a clause is visited before it can be missed |
| Clause memory: `collect.cpp`, `arena.cpp` | arena, garbage and moved flags | garbage_collection, moving | no dangling reason or watch |
| Schedules: `limit.cpp`, `reluctant.hpp`, `ema.cpp` | limits, averages | restarting, stabilizing, reducing | every schedule fires again |
| Phases: `phases.cpp`, `rephase.cpp`, `walk.cpp`, `lucky.cpp` | saved, target and best phases | rephase | heuristic only |
| External solver: `external.cpp`, `extend.cpp`, `restore.cpp` | original clauses, extension stack, frozen counts, tainted and witness marks, the extended model | internalize, freeze, melt, push, extend, restore_clauses | a model of the simplified formula extends to one of the input; a frozen variable is never flipped |
| Inprocessing: `elim.cpp`, `gates.cpp`, `backward.cpp`, `block.cpp`, `cover.cpp`, `condition.cpp`, `decompose.cpp`, `ternary.cpp`, `deduplicate.cpp`, `transred.cpp`, `probe.cpp`, `subsume.cpp`, `vivify.cpp`, `instantiate.cpp` | irredundant and redundant clauses, root-level units, status of each variable, the working state of the technique | the techniques, in any order that limits and options allow | what is derived follows; what is removed can be reconstructed; no clause keeps a removed variable |
| Solver API: `solver.cpp`, `cadical.hpp` | the state of the contract, `adding_clause`, `adding_constraint`, `termination_forced` | all calls with their contracts; terminate from another thread | right answers and models; the call returns; a request to terminate is used once |
| External propagator: `external_propagate.cpp` | observed variables, `notified`, external reasons, the state of each callback round | notify, cb_propagate, cb_add_reason_clause, cb_add_external_clause, cb_check_found_model | the solver's trail and the user's agree; late reasons and late clauses fit the trail |
| Tester: `mobical.cpp` | the trace of calls, the mock propagator | generate, execute | its calls keep the contract |
| Proofs: `proof.cpp`, `lratbuilder.cpp`, checkers, tracers | clause ids, chains | add, derive, delete | each step is checkable |
| Lookahead: `lookahead.cpp` | probes, cubes | lookahead, generate_cubes | a literal, or a split of the search space |
| Options, parser, statistics, profiling, scripts, thesis | - | - | not part of the search |

The components interact by calls on one thread. The main loop calls one of
propagate / analyze / restart / reduce / inprocessing / decide per turn and each
runs to its end; the API calls come between the runs of the loop and find the
trail as the last call left it. The one asynchronous input is `terminate ()`,
which another thread or a signal handler may call at any time.

Inprocessing runs from the loop, at a restart, and each technique runs to its end. The
propagator is called back from inside the loop and may add clauses and variables there.

What is hard here is not concurrency but order and staleness. Chronological
backtracking assigns literals on levels below the current one, so "on the trail
before" no longer means "on a lower level", and literals survive a backtrack.
Analysis changes reasons in the middle of using them. Reduction deletes clauses
the trail refers to. Answers about assumptions are computed late, from what the
last call left. Several pointers (`queue.unassigned`, `propagated`) are updated
lazily. A removed clause is not implied by the others: only the order of the extension
stack, the witnesses and the restoring of clauses keep the answer right. A propagator
explains a literal long after it propagated it, and its clauses come to a trail that has
moved on. `PROJECT.json` lists the hazards with their lines.

## 2. Modules

| Module | What it is |
|---|---|
| `Cdcl` | the search core with the incremental interface, a state machine |
| `MCCdcl` | formulas and option settings for TLC |
| `CdclProofs` | type correctness, the trail invariant, and that learned clauses and the answer "unsatisfiable" follow from the input |
| `CdclSearchProofs` | that reasons imply, propagation is complete, units of the root level stay and learned clauses are new; that assumptions hold, models satisfy, cores suffice and the irredundant clauses are enough |
| `DecisionOrder` | what the decision queue promises: an order and a last unassigned variable |
| `DecisionQueue` | the linked list, stamps and lazy pointer that implement it |
| `MCDecisionQueue` | instances for TLC |
| `DecisionQueueProofs` | the list and pointer invariants, that a decision is the best one, the order of bumping, and the refinement |
| `Reconstruction` | clauses, units, variable status, the extension stack, the user's calls, restoring, extending a model |
| `Elimination` | bounded variable elimination, with gates and backward subsumption |
| `Blocking` | blocked, covered and globally blocked clause elimination |
| `Equivalences` | decompose, ternary resolution, deduplication, transitive reduction, probing |
| `Strengthening` | subsumption, vivification, instantiation |
| `Inprocessing` | all of these in one specification, and its properties |
| `MCInprocessing` | scripts of user calls and option settings for TLC |
| `InprocessingProofs` | the extension stack is usable, and no frozen variable is a witness |
| `DerivationProofs` | that the clauses keep their shape, what inprocessing derives follows, and no clause keeps a removed variable |
| `ExternalPropagator` | the search with a propagator connected |
| `SolverApi` | the calls of the user around it, and a thread that terminates it |
| `ApiTester` | the tests mobical makes of these calls, with its propagator |
| `MCApi` | tests for TLC |
| `ApiInvariant` | the inductive invariant of the three modules above |
| `ApiTrailProofs` | what the operations on the trail keep, up to the explained reasons of a conflict |
| `ApiSearchProofs` | that analysis, decisions, local search and the callbacks keep the invariant |
| `ApiProofs` | that the calls and the tester keep it, and the properties that follow; requests to terminate are answered once |

`Inprocessing` extends `Strengthening`, which extends `Equivalences`, `Blocking`, `Elimination`
and `Reconstruction`; `ApiTester` extends `SolverApi` and `ExternalPropagator`. `Cdcl`,
`DecisionQueue`, `Inprocessing` and `ApiTester` are four views of the solver with different data:
`Cdcl` has conflict analysis in detail and leaves inprocessing and the propagator out,
`Inprocessing` has a search that only resolves, `ApiTester` has a plain first-UIP search.

### Cdcl

Variables keep the names of the source where they have one. A literal is a
non-zero integer, a clause the set of its literals, the trail the function `pos`
(place on the trail), `control` the stack of decision levels without the entry for
level 0. `work` is the clause under analysis, `saved`, `todo` and `block` belong to
shrinking and minimisation. `pc` says where the code is:

    steady -> propagate -> analyze -> resolve -> shrink <-> block / literal -> propagate

- *Propagation.* The code walks the watch list of each trail literal in order.
  `PropagateUnit` may use any clause in which the literal being visited is false
  and all other literals but one are false; `PropagateNext` leaves the literal only
  when no clause all of whose other literals were visited is unit or false. That
  is what two watched literals guarantee (a clause may be noticed earlier, but not
  later), and it leaves open which clause becomes the reason. After a binary
  conflict the rest of the watch list is still used for binary clauses, as in the
  code. `PropagateFail` enters analysis.
- *Analysis.* `AnalyzeForced` flips a literal alone on its level, `AnalyzeRoot` derives
  the empty clause, `AnalyzeStart` backtracks to the conflict level. `Resolve` goes up
  the trail; `StrengthenContinue` and `StrengthenForced` are on-the-fly
  strengthening with or without a literal to flip; `FirstUIP` ends it. Shrinking and minimisation
  are modelled one resolution at a time, so that the clause is known after each.
  `Learn` adds it, removes recently learned clauses it subsumes, backtracks by one of
  the rules of `determine_actual_backtrack_level` and assigns the flipped literal.
- *Backtracking.* `Backtrack (L)` unassigns literals above level L and moves the kept
  ones down, and sets `propagated` back.
- *The rest of the loop*: `FoundModel`, `Interrupt` (limits and termination),
  `Restart`, `ReduceUnits` and `Reduce`, `Decide`, `DecidePseudo`, `DecideFail`.
- *The user*: `Add`, `Assume`, `Constrain`, `Solve`, `Failed`, in any order the API allows;
  each begins with the resets of `transition_to_steady_state`.

Abstracted: which decision (any unassigned variable, either phase), which level to
reuse at a restart (any the comparison could give), which useless clauses a
reduction takes (any set of unprotected ones; clauses of small glue and recently used
ones are an instance of the choice), averages and conflict-count schedules other than the
restart limit, one numbering of variables. Assumed: `ilb` and `ilbassumptions` are 0,
`shrink` is 0 or 3, no external propagator, no inprocessing.

### DecisionQueue and DecisionOrder

`prev`, `next`, `first`, `last`, `unassigned`, `bumped`, `btab`, and `stamp` (`stats.bumped`) are the
fields of the code. Each action is one call: `InitEnqueue` and `InitEnqueueReverse`
(the two branches of `init_enqueue`), `Unassign`, `BumpQueue` (one variable of `bump_variables`,
in the order of the unsigned ranks), `ShuffleReverse` and `ShuffleRandom`, `Compact`.
The two searches are loops with a cursor: `StartWalk`/`Walk`/`EndWalk` for
`next_decision_variable_on_queue`, `StartDlis`/`DlisStep`/`EndDlis` for
`next_decision_variable_with_dlis`. `Assign` stands for propagation and for decisions
taken elsewhere. The variables in the queue are those in use but for `hole`, the
fixed variable that compaction leaves out. `stats.bumped` never wraps (it is 64 bits
wide and asserted); `RankModulus` stands for 2^64, small in the instances, and the model
takes stamps modulo it exactly where the code converts them.

`DecisionOrder` has only the order and the set of unassigned variables.
`ImplementsOrder` says that the queue, under the mapping that puts u before v
when its stamp is smaller, does what the order does; the steps of a walk are
stuttering steps. The abstract `Decide` answers for arbitrary scores; with equal
scores it is the last unassigned variable, VMTF's answer.

### Reconstruction and Inprocessing

The state is what outlives a technique (`irr`, `red`, `units`, `unsat`, `status`, `extension`,
`witness`, `tainted`, `frozen`, `assumed`) and what the technique under way works with (`pivot`,
`cand`, `todo`, `queue`, `gate`, `work`, `trail`, `marked`, `private`, `reprs`, `count`, `flag`); `pc` says
which technique it is and how far. A clause is a set of literals, without duplicates in the
database, and a garbage clause is gone at once.

- *The user* runs a script: `Add`, `Assume`, `Freeze`, `Melt`, `Solve`. Using a literal whose negation is a
  witness taints it and reactivates its variable. `Solve` propagates, then goes over the
  extension stack (`RestoreFlush`, `RestoreClause`, `RestoreKeep`, `Restored`) and then runs techniques in any order until
  `Answer`. `Learn` is the search: it resolves two clauses. `Collect` is garbage collection.
- *Elimination*: `Try` picks a candidate; `FindUnit`, `FindGarbage`, `GatesFound` look for a definition;
  `ResolveNothing`, `ResolveUnit`, `ResolveStrengthen`, `CountResolvent` are the outcomes of `resolve_clauses` for the next
  pair, first to count and then (`AddResolvent`) to add; `Weaken` moves one clause of the pivot to the
  extension stack, `Eliminate` ends it; `Dequeue` and the `Backward...` actions are `elim_backward_clauses`.
  A round ends by `ElimRoundDone`, or by `NextElimRound`, which begins the next with units still unpropagated.
  Units found while resolvents are counted are propagated over the irredundant clauses
  (`ElimPropagate`); those found while they are added are not, as in the code.
- *Blocking*: `BlockLiteral` finds the blocked clauses of a literal, `BlockClause` removes one,
  `LiteralBlocked` marks a pure literal. `CoverAsymmetric`, `CoverLiteral` and `ClauseCovered` are the two kinds of
  propagation of `cover_clause` and its end. `StartCondition` takes a total assignment;
  `ConditionUnassign` is the fixpoint that shrinks the autarky for one candidate.
- *Equivalences*: `StartDecompose` computes the components of the binary implication graph
  semantically, `PushEquivalence`, `SubstituteClause`, `ClausesSubstituted`, `Substituted` are the steps of a round.
  `ProbeBinary` and `ProbeLong` propagate a probe with hyper binary resolution by dominators.
- *Strengthening*: vivification decides the negated literals of a candidate one after the other
  and ends by `VivifySubsume`, `VivifyLearn`, `VivifyRemove` or `VivifyKeep`; `VivifyLast` is `vivifyinst`.

Abstracted: schedules, effort limits and occurrence lists (any candidate that the code's
conditions allow, any number of times); propagation is its closure; the order of
literals in a clause. Clauses removed in an elimination round stay in the occurrence lists of the code and make them
longer, so which literal of a backward candidate has the shortest list is not a function of the modelled state: `Dequeue` takes
any literal. This adds steps, and the properties hold with them; the script of `backward`, where a property fails, is one where the shortest list
is the one the counterexample uses. Between two elimination rounds `elim` may call `subsume_round` on units not yet
propagated; here subsumption starts from a propagated trail (as `block` and `cover`, also called there, make it). Bounds: `rounds` techniques and `learned` clauses for each call, in the script.

### ExternalPropagator, SolverApi and ApiTester

`core` is the solver with what it has told the propagator: the trail with a level and a
reason for each literal, `control`, the clauses, the observed variables, the trail the propagator
has heard (`heard`, a sequence of levels) and the lemmas it may give. It is one record because
the handlers are compositions of functions that change it, as the methods of `Internal` are:
`Backtracked`, `Propagated`, `ClauseAdded`, `Explained`, `Analyzed`, `Notified`. A step of the search is one callback with
all that the solver does after it:

    start -> loop -> analyze / decide -> cbpropagate -> ask <-> lemma -> loop -> model <-> askmodel, lemmamodel -> done

- `CbPropagate` assigns a literal the propagator proposes, with the reason still unknown
  (`External`), or learns its clause at once when it is falsified. `Explained` asks for the reasons of the
  literals of a conflict and their antecedents and corrects their levels.
- `AddLemma` is `add_external_clause`: the clause loses root-level false literals, is watched by its two
  best literals, and backtracks, propagates or conflicts according to its levels.
- `FoundModel`, `CheckModel`, `AskAfterModel`, `AddAfterModel` are `external_check_solution`.
- `Reduce` deletes forgettable lemmas, which `FalsifiedLemmas` may have to give again.
- The mock propagator is that of mobical. Which literal it proposes, a sum over the
  trail, is left open.
- `SolverApi` has one action for each call, with the state it demands and leaves. `Call` starts and `Return`
  ends `solve`, `simplify` and `propagate`; `Terminate` is the other thread, possible at
  any time: while a call runs, or before the one that it ends.
- `ApiTester` turns a test (a sequence of rounds) into calls as `Trace::generate` does, and makes them as
  `Trace::execute` does, leaving out those the contract forbids and giving lemmas before the `solve` they follow.

Bounds: `MaxReasons` literals the propagator may propagate, `MaxLosses` lemmas lost, `MaxRestarts`
restarts, `MaxRequests` requests of the other thread.

## 3. What the runs check

| Run | Instance | Properties |
|---|---|---|
| `cdcl_search` | 7 formulas of 4 to 8 clauses over up to 6 variables, `chrono` with and without `chronoalways`, and back-jumping without OTFS and shrinking; one call, no assumptions | `TypeOK`, `ClausesEntailed`, `TrailLevels`, `ReasonsImply`, `PropagationComplete`, `LearnedIsNew`, `SolveReturns` |
| `cdcl_reduce` | 2 formulas, both phases, one reduction, clauses added between two calls | `IrredundantSuffices`, `RootUnitsKept` |
| `cdcl_incremental` | 2 formulas over 3 variables, up to 2 assumptions, a constraint, an interrupted call, 2 calls | `UnsatSound`, `ModelSound`, `CoreSound`, `AssumptionsHold` |
| `queue_vmtf` | 4 variables, 2 bumps, a compaction, default options | `TypeOK`, `AfterPointerAssigned`, `WalkStaysOnQueue`, `BumpedInOrder`, `DecisionFound`, `ImplementsOrder` |
| `queue_dlis` | 3 variables, `dlis`, `reverse` and shuffling, scores 0 and 1 | `Linked`, `DecisionIsBest` |
| `inprocessing` | 22 scripts of calls over 3 to 9 variables, each with the techniques it is for, under 3 option settings | `TypeOK`, `DerivedEntailed`, `ModelExtends`, `NoStaleVariables`, `StackConsistent`, `WitnessNotFrozen` |
| `backward` | one script of 16 clauses, elimination only | `ModelExtends`, violated |
| `api` | 9 tests of up to 3 rounds over 4 variables, with and without `chrono` | `TypeOK`, `TrailsAgree`, `ReasonsOrdered`, `LateReasons`, `NothingMissed`, `ClausesEntailed`, `AnswerSound`, `ModelKept`, `UnknownsRequested`, `ObservedFrozen`, `SolveReturns` |
| `api_model` | one clause, solve and lookahead | `ModelKept`, violated |
| `api_decide` | the tests of `api` | `DecisionSuggested`, violated |
| `queue_rank` | `reverse` | `BumpedInOrder`, violated |
| `queue_pointer` | `dlis` | `PointerUnassigned`, violated |

The formulas are the bounds that matter. They were chosen so that the cases of
the hazards happen: a unit learned above the root level that falsifies a clause
whose other literals lie lower (`OutOfOrder`), a kept literal that becomes a unit's
only false literal when the satisfying literal goes (`Missed`), two literals of one
level in the learned clause, with shrinking that succeeds and that fails
(`Blocks`, `BlocksFail`, `Minimal`), a strengthened clause that subsumes an
irredundant one (`Subsuming`), enough conflicts for a restart with levels left (`Tight`).
`chronolevelim` is 1 so that both branches of the choice of a backtrack level are
taken on three levels. The conflict counter is capped one above the restart limit
(it is only compared with it), solve calls, reductions and interrupts are counted up
to a bound. The queue runs bound `stats.bumped` and the number of shuffles and
compactions; an inner, a first and a last element all occur.

The scripts of `inprocessing` are for one to three techniques each, so that all of their branches are taken
in few states: elimination with each kind of gate, with a unit found on either pass, with
incremental calls that restore what was removed and with frozen variables
(`Eliminate1` to `Eliminate6`, `Passed`); blocked, covered and globally blocked clauses with restoring
(`Block1` to `Block3`); equivalences with frozen representatives and a contradiction; failed literals,
binary resolvents and paths; each end of vivification. Three option settings give large and small
limits and `restoreflush`. One or two rounds of techniques run per call: what they can break together,
a stale clause or an entry out of order, takes two.

The tests of `api` are what makes the hazards of late clauses happen: a propagator that is kept,
replaced or removed between calls, with variables it observes only later (`Relinked`); a constraint,
a melted observed variable and lemmas that fix variables (`Constrained`); a model that is flipped,
and every call that is not `solve` (`Processed`); lemmas of two and three literals that come to a
trail of several levels, where they are satisfied, unit or falsified, on the decision level
or below (`LateLemmas`). One late reason, one lost lemma, one restart and one request suffice for each
of these to meet the others; with four variables there are three levels to backtrack over and
to be out of order on.

Every property has a mutant in `PROJECT.json`, a plausible fault seeded in a
definition (named `X_Fault` next to X); TLC finds the property violated under it.

*Fairness.* `Spec` of `Cdcl` has weak fairness of the solver's actions taken together: once
called, `solve` is a sequential loop that keeps taking steps. Nothing is assumed of the user.
`SolveReturns` holds because of the conflict limit between restarts and because learned
clauses are new. `DecisionQueue` has weak fairness of the steps of a search already begun. `ApiTester` has weak fairness
of the solver's thread, written out as "infinitely often idle, or infinitely often a step of the
solver", because TLC takes too long to decide whether a composed handler is enabled. Nothing is
assumed of the terminating thread: how many requests it will make is chosen in the initial state,
so that a solver that waited for one would be a deadlock.

*Deadlock* is checked in the `Cdcl` runs, where `Finished` marks the intended end, and in the `api` runs, where
`Ended` does. The queue runs switch it off: when all variables have root-level values nothing
remains to decide. So do the inprocessing runs: a script ends.

## 4. What the violated runs show

- `queue_rank`: the stamps `btab` are signed, but `analyze_bumped_rank` returns them as
  `uint64_t`. With `opts.reverse` (and after shuffling from a low `queue.bumped`) stamps are
  negative and rank last, so `bump_variables` does not bump in queue order, as
  its comment says. The queue stays well-formed (`queue_dlis` has `reverse` on), only
  the relative order of bumped variables changes.
- `queue_pointer`: the comment in `next_decision_variable_with_dlis` says that the
  pointer always points to an unassigned variable. It does not; the `val (idx)` test
  next to the comment is needed, and it makes the search right (`DecisionIsBest`).

- `backward`: `elim_backward_clause` never resets its flag `satisfied` in the loop over the clauses it compares
  (`backward.cpp:49`). After one clause that is satisfied on the root level, every later one that is not too large
  is marked garbage too, with no entry on the extension stack; the extended model falsifies it. In the run the resolvent `{7, 8, 9}` is compared
  with the clauses of 8, which has the shortest of the three lists: 4 clauses, against 6 of 7 and 5 of 9, counting removed ones (3 against
  4 and 4 without). `{8, 5, 7}` has the root-level literal 5 and `{8, -7, -9}` goes with it. A program that links the
  solver, gives it the clauses of the script, freezes 2 to 9, sets `elimboundmax` to 0, `elimrounds` to 1, switches the other techniques off
  and allows one preprocessing round gets the answer 10 and a model that falsifies `{8, -7, -9}`.
- `api_model`: `Solver::lookahead` (`solver.cpp:654`) does not leave the state `SATISFIED`, although the solver
  underneath backtracks. The next `val` extends a trail without decisions and its values
  need not satisfy the clauses. (`connect_external_propagator` and `add_observed_var` do the same.)
- `api_decide`: `decide` (`decide.cpp:123`) never calls `ask_decision`, so `cb_decide` of a connected propagator is never asked.

Smaller disagreements met on the way, without a run: the zero of `add` or `constrain`, `reserve` and `assume`
set the state `STEADY` although a clause of the other kind may be incomplete; `cadical.hpp:266` says that
`lookahead` resets the assumptions, which `Solver::lookahead` does not; a request to terminate that comes
after `reset_solving`, or between two calls, ends the next call (`UnknownsRequested` allows for it); the type predicates of
`mobical.cpp:1304` cast to `int` and lose the call types above bit 31; `external_check_solution` shadows
`trail_changed`, with no effect; `flip.cpp:34` asserts that the literal has a value, which fails after a `lookahead` or
`disconnect_external_propagator` that has taken the trail but not the state `SATISFIED` (the model leaves such a call out).

## 5. What is proved

All statements are theorems of the specification for every set of variables, formula, option
setting and bound that satisfies the named assumptions of the modules.

- `CdclProofs!TypeCorrect`: `Spec => []TypeOK`, from `TypeInv`, which adds that no variable
  has a level above the current one, that an unassigned variable has no level, reason or
  position, and that analysis past its start works above the root level.
- `CdclProofs!TrailCorrect`: `Spec => []TrailLevels`.
- `CdclProofs!ClausesFollow`: `Spec => []ClausesEntailed`.
- `CdclProofs!UnsatFollows`: `Spec => []UnsatSound`.
- `CdclSearchProofs!ReasonsSound`: `Spec => []ReasonsImply`, and in the same way `PropagationIsComplete`
  for `PropagationComplete`; `RootUnitsStay`: `Spec => RootUnitsKept`.
- `CdclSearchProofs!LearnedNew`: `Spec => LearnedIsNew`; `LearnedNewInOrder` is the same, without the condition
  on the trail, for runs without `chrono`.
- `CdclSearchProofs!IrredundantEnough`: `Spec => []IrredundantSuffices`, and in the same way `AssumptionsStay`,
  `ModelsSatisfy` and `CoresFollow` for `AssumptionsHold`, `ModelSound` and `CoreSound`.

- `DecisionQueueProofs!QueueLinked`: `Spec => []Linked`, and in the same way `PointerCovers`,
  `WalkSafe`, `DecisionCorrect` and `QueueTyped` for `AfterPointerAssigned`, `WalkStaysOnQueue`, `DecisionIsBest`
  and `TypeOK`.
- `DecisionQueueProofs!QueueImplementsOrder`: `Spec => ImplementsOrder`.
- `DecisionQueueProofs!BumpOrder`: `Spec => BumpedInOrder`, assuming `DefaultOptions`: neither
  `reverse` nor `shuffle`, and stamps that stay below the modulus of the ranks.

- `InprocessingProofs!FrozenNeverWitness`: `Spec => WitnessNotFrozen`, and `StackAlwaysUsable`: `Spec => []StackConsistent`.
- `DerivationProofs!InprocessingTyped`: `Spec => []TypeOK`, and in the same way
  `DerivationsEntailed` for `DerivedEntailed` and `VariablesFresh` for `NoStaleVariables`.
- `ApiProofs!InvariantKept`: `Spec => []ApiInv`, for the solver with a propagator, the calls on it and the tester, and from it
  `ApiTyped` for `TypeOK`, `SearchTrailsAgree` for `TrailsAgree`, `SearchReasonsOrdered` for `ReasonsOrdered`, `LateReasonsKnown` for
  `LateReasons`, `SolverClausesEntailed` for `ClausesEntailed` and `ObservedStayFrozen` for `ObservedFrozen`.
- `ApiProofs!RequestsAnsweredOnce`: `Spec => []UnknownsRequested`.

The theorems of `CdclProofs` rest on one inductive invariant, `IInv == TypeInv /\ TrailInv /\ EntailInv`.
`TrailLevels` is not inductive: after a backtrack the kept literals must have room below
the frames that stay, so `TrailInv` says that the positions are 1..n without gaps, that
frames are ordered, that a literal of level k is placed after frame k (`LevelsAfterFrames`),
that the decision of a frame stands right at it, and that only decisions have no
reason above the root level. `ClausesEntailed` is not inductive either: `work` stays
entailed because the antecedent of each resolution is, for which the reasons (also those
whose clause was strengthened or deleted from the database) must be entailed and false
but for their literal, root-level literals must be entailed units, and the literal
resolved must have a reason. The last is `assert (reason)` in the code; it is the lemma
`OpenHasReason`: of two or more literals on the conflict level the one latest on the
trail is not the decision, because the decision stands first on its level. "Entailed" is
semantic (every model of the input satisfies the clause), so the proofs have no
induction over derivations.

The theorems of `CdclSearchProofs` about the search need `SearchInv`. `ReasonsImply` is about the time of propagation, and analysis
changes clauses that are reasons: `ReasonInv` says for every place of the code which reasons may be stale (only those of
literals analysis will unassign). `PropagationComplete` is the interesting one. It speaks of the end of propagation,
and what is visited again depends on what backtracking kept. `TrailCovered` says that each clause whose other literals
were visited and are false has a literal that is true, or one that will be visited again, or is the conflict; `FramesCovered`
says the same for the trail each control frame would leave, since a backtrack to it resets `propagated` to its place.
Without `chrono` both hold because the trail is ordered by levels (`InOrder`). `FirstResolution` is about on-the-fly
strengthening, which may only go on with a clause that is still false; `AtRoot` says that reductions and restarts see a
propagated root level. `LearnedIsNew` follows from `FramesCovered`: at the frame of the conflict level a clause without
a true literal has two literals that are not yet false, and a learned clause has one, its UIP. With `chrono` this needs a condition, that
no other literal of the learned clause was assigned out of order after that frame. Without the condition it does not hold:
the search may falsify two clauses by out-of-order literals, analyze the one it finds first, and learn
a clause that contains the other. An example is the formula `-1 -3 4`, `-1 -3 -4`, `3 -2 5`, `3 -2 6`, `3 -1 -7`, `3 -1 -8`, `-5 -6 7 8`,
`-2 7 8` under `chronoalways` without `shrink`: the decisions 1, 2, 3 and two conflicts lead to `-2 3 7 8`. It is
an observation about `chrono` and no error of the solver: the clause is redundant. It needs 8 variables, more than the formulas of `cdcl_search` have.

The theorems about answers need `AnswerInv`. The answer is computed from what the last call left, so the
invariant keeps what the answer will need: the levels on which assumptions and the constraint were decided
(`AssumptionsDecided`, `ConstraintDecided`), that a removed irredundant clause is implied by what remains (`IrredundantSuffices`,
`InUse`), and, for a failed assumption, why it is false (`Rejected`, `Pending`) until `failed` walks the trail
(`FailedMarked`). That a core is sufficient is an argument about the walk from a false assumption back through the
reasons. `ImpliedBy` is therefore defined as the least set closed under reasons, not by recursion: a literal of the set
that is false in a model and first on the trail has a reason all of whose other literals come earlier, which is a
contradiction without induction over the walk.

The theorems about the queue rest on `QInv`. The pointer is the interesting part. That no
unassigned variable is after it is not inductive, because `Unassign` compares with the stamp
cached in `queue.bumped`, not with the stamp of the variable pointed to. The two may differ: bumping
an assigned variable raises the second, compaction moves the pointer and leaves the first.
`PointerInv` therefore bounds the stamps of unassigned variables by the cached stamp, and says
that every queued variable with a stamp up to the cached one is at or before the pointer. It also
says that, outside analysis and backtracking, the first variable has a stamp up to the cached one;
without it, a new variable put in front by `reverse` could be hidden. `WalkInv` and `DlisInv`
describe a search that is under way. `Linked` is preserved by bumping by a case split on the
neighbours, and by shuffling and compaction because the number of smaller stamps in a finite set
counts its elements (`Ranks`), so that each but the extreme ones has a neighbour. For
`QueueImplementsOrder` each action maps to one abstract step or to a stutter; the witness for the
scores of `Decide` is the number of watches counted by DLIS, all zero under VMTF.

`FrozenNeverWitness` is about a test that is made once and an entry that is pushed much later: the pivot
of an elimination is tested in `Try` and pushed by `Weaken`, after units were propagated and clauses
resolved; cover collects entries in `private`, condition unassigns literals, decompose pushes two
entries per variable after it computed all representatives. `JobInv` says, for each place `pc` may be at, what the
literals held by the technique still satisfy (`PivotFree`, `CoverFree`, `ConditionFree`, `EquivalenceFree`), and that a
technique leaves nothing behind for the next one (`Clean`): condition would otherwise take up literals of
somebody else. For `StackAlwaysUsable`, restoring takes entries out of the middle of the stack and then
builds the marks anew from what is left; `cover` lengthens the clauses of entries it has already
prepared. Both theorems assume nothing of the script, the order of the techniques or
the options.

`InprocessingTyped` says more than that variables keep their types: each clause of the database has at least two
literals and is not a tautology, which every technique relies on and has to keep (`TypeDB`). `Shapes` adds what that takes.
`Settled`: wherever a technique starts, units are propagated, so that each clause that is not satisfied has
two literals left; a clause without its false literals is then no unit. Eliminations are the exception, which is why their
units go to `work` and their clauses are tested again. `BackwardOk`: the candidate keeps a literal all compared clauses
have, so that a strengthened clause is not empty. `VivifyOk` relates the literals of the candidate still to be decided, the
decided and the implied ones. `Rested` says that no technique leaves pairs, entries or marks to the next.

`DerivedEntailed` speaks of all models of the input, and its proof takes one total assignment T at a time. `Sound (T)` says that T
satisfies the units, the clauses and the removed clauses of the extension stack (those are no
longer implied by the database, but restoring brings them back), and what a technique is about to turn into one of these: the
entries cover has prepared, the units under propagation, and, for probing and
vivification, that T satisfies all that is implied if it satisfies what was decided (`Held`, `Decided`). The lemma `SoundStep` says
that every step but a new clause of the user keeps `Sound (T)`; a new clause keeps it for the T that satisfy
the clause. `Derived` is the conclusion for all T that satisfy the input, and `DerivedIsEntailed` goes back from
total assignments to the models of the definition. A closure (propagation, the components of the
implication graph) is defined as the least set closed under a step, so that each proof about it is one application of
minimality and no induction.

`VariablesFresh` needs `FInv`, because while a technique runs the property does not hold. Elimination and blocking look at
irredundant clauses only, so redundant ones may have removed variables until the end of the technique collects them (`Lagging`), while
the irredundant ones may not (`FreshIrr`). A pure literal is marked after the last of its clauses was blocked: `BlockOk` says that a literal
whose negation has no occurrences has all its own in the queue of candidates. Decompose is the hard case. It computes all
representatives, then replaces clauses one by one, propagates, and marks the variables as substituted last. `KeptOk` says that each
clause that is not queued or marked as garbage consists of literals that represent themselves, and `ReprOk` that a representative represents itself, is active
or fixed, and that a literal represents itself exactly if its negation does. The last holds because reaching is closed under
contraposition (`ReachedNegated`), so that the components of a literal and of its negation are negations of each other, and because no
component has both, which decompose tests first; otherwise a clause could keep a substituted variable by its other literal.

Two corrections of the model came out of these proofs: giving up an elimination left pairs in `todo` that
`elim_backward_clauses` does not look at, and the rounds of `decompose` ended without the propagation that ends them in the code.

The properties of the API cannot be proved one by one. That an observed variable stays frozen needs that the operations on
the solver return solvers at all, that is, that the recursions in `Propagated`, `Explained` and `Disconnected` are defined, hence
that the trail is finite and names each variable once; `ReasonsOrdered` needs what a lemma says of the trail when it comes late, and
this needs that the propagator was told that trail. So there is one invariant, `ApiInv` in `ApiInvariant`, which the run `api` checks too:

- `Struct`: the trail has each variable once; levels are opened in order, and a literal of level k is behind the place where level k
  begins, but may be behind later levels too (`Staged`); there are as many heard levels as levels. Every operation keeps this, also
  those that are only parts of a step.
- `Hears` and `Once`: what was told is true on its level, and all observed literals up to `notified` were told. The interesting case
  is a literal kept out of order by backtracking. Then `notified` goes back to the cut, and the propagator
  hears the literal again, on the level it is kept on (`ToldFor`: on a level that lasts as long as the literal).
- `Ordered` and `Late`: reasons were false before. `Late` says so of lemmas the propagator has not given yet, so that asking for
  one (`ReasonsAsked`) turns a promise into a reason. Both are the same formula `Justified`, so one lemma serves backtracking,
  assignment, lowering of levels and explanation for both. Between searches `Ordered` may fail: `flip` changes a literal under
  the reasons of others. This is harmless, because a flip needs a model without a contradiction or a propagator, and the next search or
  connection begins with a backtrack to level 0, where there are no reasons.
- `Sound (W)`: clauses, fixed literals, reasons and lemmas hold in the models W of formula and theory. A lemma of the propagator
  makes W smaller. `Theory` counts the lemmas of former propagators, because clauses that came from them stay.
- `ConflictInv`, `ControlInv` and `PendingInv` say which label goes with which state. `external_propagate` overlooks a conflict for a
  while: the propagation after `cb_has_external_clause` may find one although a lemma comes next (`external_propagate.cpp:328` says
  "unsat or conflict will be caught later"), and the lemma is added with it. `ConflictInv` says when this can
  be: on level 0, or with a lemma that is already satisfied there; then adding it cannot backtrack over the conflict. That it
  holds depends on the propagator of mobical: while it has a lemma it must give, the search is at most
  on level 1 (`PendingInv`), because it offers its lemmas before each decision and pauses only after three.
- `AskedInv`, `AnswerInv` and `CallsInv` say what the calls leave and find: queries are about variables of the solver, generated
  calls about literals, and the state `SATISFIED` has no failed constraint, and with a contradiction no trail to flip.

The proofs follow the model: a handler is a composition of functions on the record `core`, so each function has a lemma that what holds before
it (`Loose`) holds after it, with what it leaves alone (`Frame`, `View`), and each action cites the lemmas of its functions. `Good` gathers
what holds at a label, and for each label a lemma says what suffices to get there (`AnalyzeGood`, `AskGood`, `DecideGood` and so on).
Recursion is by functions on 0..n. That such a function exists and keeps a property is shown by taking the smallest n for which it fails.
These theorems assume of the constants only what the modules name.

`UnknownsRequested` is not inductive, since a request may be under way: `RequestInv` counts the answers given,
the request that has set the flag, and the search that has ended for one but not yet returned,
and bounds their sum by the requests made. It holds because every end of a search clears the flag.

Only model-checked: that models extend (`ModelExtends`: an induction over the extension
stack, and it does not hold for every script, as the run `backward` shows); of the API, `NothingMissed`, `AnswerSound` and `ModelKept`.
The first says that propagation is complete at a decision. It would need for `core` what `TrailCovered` and `FramesCovered` are in `Cdcl`,
through clauses that come late, are watched out of order, or are forgotten with the trail. The second rests on the first
(a model is a trail that propagation has no objection to), and the third, like the run `api_model`, depends on which calls come between
`solve` and `val`. Out of the prover's reach: `SolveReturns` and
`DecisionFound` (liveness). `BumpedInOrder` is not proved for shuffling, and fails for `reverse` (section 4).

## 6. Plan

Done: the search core and the incremental interface (`Cdcl`), the decision queue and its
refinement, the extension stack with all inprocessing techniques, the API with the external
propagator, the tester and the terminating thread; type and safety proofs of all of them.

Next, in this order:

1. `Watches`: blocking literals, saved positions and re-watching under `chrono`, shown to implement the propagation
   of `Cdcl`; then garbage collection with moved clauses.
2. `NothingMissed` of the API: the invariant of `Cdcl` about frames, for clauses that come late; then `AnswerSound`.
3. The renumbering of variables by `compact`, as a refinement between external and internal names.

## 7. Not modelled

- *Watch lists, arena, clause memory* (`watch.cpp`, `arena.cpp`, the moving part of `collect.cpp`): below the level of
  these modules, which say what two watches guarantee. One hazard of the list is without a
  property for this reason: the re-watching of a clause whose false watch is of a high level.
- *Proof production and checkers, tracers*: observers of the solver. That derived clauses follow is
  checked semantically.
- *EVSIDS scores, averages, schedules*: floating-point numbers that choose among the steps the
  modules leave open.
- *Phases, rephasing, local search, lucky phases*: they choose phases. `ExternalPropagator` has what they do to a
  propagator's view of the trail (private steps), with restrictions: `Walked` tries saved phases that all have one sign and
  decides the smallest free variable first, and `Begin` leaves out the lucky phases, the answer 10 at once when there are no variables
  (the tests have some) and `produce_failed_assumptions` (the failed assumptions are in `Cdcl`).
- *Lookahead's probing and `generate_cubes`*: a heuristic choice, and a driver of it. What `lookahead` leaves
  behind is in `SolverApi`.
- *`opts.ilb`, `shrink` 1 and 2, search limits* in `Cdcl`; *`remove_observed_var` and the `reset_` calls made by the user, the listener
  for fixed assignments, lazy propagators, re-notification under `opts.ilb`* in `SolverApi`.
- *Renumbering* of internal variables by compaction, but for its effect on the decision queue.
- *Reading, shrinking, forking and memory limits of mobical*, the stand-alone program, parsing, options,
  reporting, statistics: input and output.
- *The thesis, the benchmarks and their scripts*: text and data.
