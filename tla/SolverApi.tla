------------------------------ MODULE SolverApi ------------------------------
(***************************************************************************)
(* The interface of CaDiCaL (class Solver over class External): the states *)
(* of its contract, what each call does to the solver underneath, and a    *)
(* second thread that asks it to terminate.                                *)
(*                                                                         *)
(* A call other than 'solve', 'simplify' and 'propagate' is one step.  No  *)
(* inprocessing takes place here (module Inprocessing has it), so external *)
(* and internal variables are the same and the reconstruction stack is     *)
(* empty.                                                                  *)
(***************************************************************************)
EXTENDS ExternalPropagator

CONSTANTS
  Chrono,       \* the values of opts.chrono
  MaxRequests   \* how often the second thread may ask to terminate

ASSUME ApiAssumption == Chrono \subseteq BOOLEAN /\ MaxRequests \in Nat

VARIABLES
  state,     \* of the contract
  adding,    \* the clause and the constraint that miss their zero
  user       \* what the user has asked for (see User)

apiVars == <<searchVars, state, adding, user>>

READY == {"CONFIGURING", "STEADY", "SATISFIED", "UNSATISFIED"}
VALID == READY \cup {"ADDING"}
Adding == [clause : Seq(Lit), constraint : Seq(Lit)]
User == [
  formula : SUBSET Clause,
  constraint : SUBSET Clause,  \* none or one
  theory : SUBSET Clause,      \* the lemmas of former propagators
  requests : Nat,              \* to terminate
  unknowns : Nat]              \* answers 0 of 'solve'
-----------------------------------------------------------------------------
NoQuery(q) == [q EXCEPT !.assumptions = <<>>, !.constraint = {},
                        !.unsat_constraint = FALSE]
NoMock == [next |-> 1, must |-> 0, count |-> 0, fresh |-> {}]

ApiInit ==
  /\ core \in [chrono : Chrono, vars : {{}}, clauses : {{}}, trail : {<<>>},
               control : {<<>>}, propagated : {0}, notified : {0},
               conflict : {None}, unsat : {FALSE}, newest : {None},
               extended : {FALSE}, model : {{}},
               connected : {FALSE}, private : {FALSE}, observed : {{}},
               frozen : {[v \in Var |-> 0]}, heard : {<<<<>>>>},
               lemmas : {<<>>}, reasonOf : {[l \in Lit |-> 0]}]
  /\ mock = NoMock
  /\ query = [kind |-> "solve", assumptions |-> <<>>, constraint |-> {},
              unsat_constraint |-> FALSE]
  /\ pc = "idle" /\ again = FALSE /\ result = 0
  /\ termination_forced = FALSE
  /\ budget \in [reasons : {MaxReasons}, losses : {MaxLosses},
                 restarts : {MaxRestarts}, requests : 0..MaxRequests]
  /\ state = "CONFIGURING"
  /\ adding = [clause |-> <<>>, constraint |-> <<>>]
  /\ user = [formula |-> {}, constraint |-> {}, theory |-> {},
             requests |-> 0, unknowns |-> 0]

\* transition_to_steady_state: an answer is forgotten and the query with it.
Answered == state \in {"SATISFIED", "UNSATISFIED"}
SteadyQuery == IF Answered THEN NoQuery(query) ELSE query
SteadyUser == IF Answered THEN [user EXCEPT !.constraint = {}] ELSE user

Idle == pc = "idle" /\ state \in VALID
SearchKept == UNCHANGED <<mock, pc, again, result, termination_forced, budget>>
-----------------------------------------------------------------------------
(* Clauses, assumptions and constraints. *)

\* add: the clause is complete with the zero.  The state is STEADY then, even
\* with an incomplete constraint: transition_to_steady_state has left ADDING.
Add(l) ==
  LET c == Unextended(Backtracked(core, 0))
      cl == ToSet(adding.clause)
  IN  /\ Idle
      /\ query' = SteadyQuery
      /\ IF l = 0
         THEN /\ core' = ClauseAdded(c, cl, FALSE, FALSE)
              /\ adding' = [adding EXCEPT !.clause = <<>>]
              /\ user' = [SteadyUser EXCEPT !.formula = @ \cup {cl}]
              /\ state' = "STEADY"
         ELSE /\ core' = [Unextended(core) EXCEPT !.vars = @ \cup {Abs(l)}]
              /\ adding' = [adding EXCEPT !.clause = Append(@, l)]
              /\ user' = SteadyUser
              /\ state' = "ADDING"
      /\ SearchKept

\* constrain: a new constraint replaces the last one, and loses its literals
\* that are false at the root.
Constrain(l) ==
  LET c == Unextended(Backtracked(core, 0))
      cl == ToSet(adding.constraint)
      satisfied == IsTautology(cl) \/ \E k \in cl : IsTrue(c, k)
      rest == {k \in cl : ~IsFalse(c, k)}
      fresh == IF adding.constraint = <<>>
               THEN [SteadyQuery EXCEPT !.constraint = {},
                                        !.unsat_constraint = FALSE]
               ELSE SteadyQuery
  IN  /\ Idle
      /\ IF l = 0
         THEN /\ core' = c
              /\ query' = IF satisfied THEN fresh
                          ELSE [fresh EXCEPT !.constraint = rest,
                                             !.unsat_constraint = rest = {}]
              /\ adding' = [adding EXCEPT !.constraint = <<>>]
              /\ user' = [SteadyUser EXCEPT !.constraint = {cl}]
              /\ state' = "STEADY"
         ELSE /\ core' = [Unextended(core) EXCEPT !.vars = @ \cup {Abs(l)}]
              /\ query' = fresh
              /\ adding' = [adding EXCEPT !.constraint = Append(@, l)]
              /\ user' = [SteadyUser EXCEPT !.constraint = {}]
              /\ state' = "ADDING"
      /\ SearchKept

Assume(l) ==
  /\ Idle
  /\ core' = [Unextended(Backtracked(core, 0)) EXCEPT
                !.vars = @ \cup {Abs(l)}]
  /\ query' = [SteadyQuery EXCEPT
                 !.assumptions = IF l \in ToSet(@) THEN @ ELSE Append(@, l)]
  /\ user' = SteadyUser
  /\ state' = "STEADY"
  /\ SearchKept /\ UNCHANGED adding
-----------------------------------------------------------------------------
(* Solving. *)

\* solve, simplify and propagate up to the search.  Only in the first two
\* another thread sees the state SOLVING.
Call(kind) ==
  /\ pc = "idle" /\ state \in (IF kind = "propagate" THEN VALID ELSE READY)
  /\ pc' = "start"
  /\ query' = [SteadyQuery EXCEPT !.kind = kind]
  /\ user' = SteadyUser
  /\ state' = IF kind = "propagate" THEN "STEADY" ELSE "SOLVING"
  /\ core' = IF kind = "propagate" THEN core ELSE Unextended(core)
  /\ UNCHANGED <<mock, again, result, termination_forced, budget, adding>>

\* The rest of call_external_solve_and_check_results and of propagate.
Return ==
  LET unknown == result = 0 /\ query.kind # "propagate"
  IN  /\ pc = "done"
      /\ pc' = "idle"
      /\ state' = CASE result = 10 -> "SATISFIED"
                    [] result = 20 -> "UNSATISFIED"
                    [] OTHER -> "STEADY"
      /\ query' = IF unknown THEN NoQuery(query) ELSE query
      /\ user' = [user EXCEPT
           !.constraint = IF unknown THEN {} ELSE @,
           !.unknowns = IF result = 0 /\ query.kind = "solve" THEN @ + 1
                        ELSE @]
      /\ core' = IF /\ result = 10 /\ query.kind = "propagate"
                    /\ ~core.extended
                 THEN Extended(core) ELSE core
      /\ UNCHANGED <<mock, again, result, termination_forced, budget, adding>>

\* terminate, which sets a flag that the search looks at from time to time:
\* during a call, or before the one it ends
Terminate ==
  /\ state \in VALID \cup {"SOLVING"} /\ budget.requests > 0
  /\ termination_forced' = TRUE
  /\ user' = [user EXCEPT !.requests = @ + 1]
  /\ budget' = [budget EXCEPT !.requests = @ - 1]
  /\ UNCHANGED <<core, mock, query, pc, again, result, state, adding>>

\* lookahead (the literal it looks for changes nothing), which the propagator
\* does not hear of before its end
Lookahead ==
  LET back == Unextended(IF core.connected THEN Backtracked(core, 0)
                         ELSE core)
      root == Propagated(Backtracked(back, 0))
  IN  /\ Idle
      /\ core' = Notified(
           IF core.unsat \/ query.unsat_constraint THEN back
           ELSE [root EXCEPT !.unsat = @ \/ root.conflict # None])
      /\ termination_forced' = FALSE
      /\ UNCHANGED <<mock, query, pc, again, result, budget, state, adding,
                     user>>
-----------------------------------------------------------------------------
(* The model. *)

\* val, which extends the model when it has to
Val ==
  /\ Idle /\ state = "SATISFIED"
  /\ core' = IF core.extended THEN core ELSE Extended(core)
  /\ SearchKept /\ UNCHANGED <<query, state, adding, user>>

\* the literal itself is taken for the other one
Flippable_Fault(c, l) ==
  \A d \in c.clauses : l \in d.lits => \E k \in d.lits : IsTrue(c, k)

\* flip: a literal changes its value when every clause it satisfies is
\* satisfied by another one too.  The code asserts that it has a value: a call
\* has to find the model still on the trail, which some calls after 'solve'
\* take away without leaving the state SATISFIED.
Flippable(c, l) ==
  \A d \in c.clauses : l \in d.lits => \E k \in d.lits \ {l} : IsTrue(c, k)
Flip(v) ==
  LET l == IF IsTrue(core, v) THEN v ELSE -v
  IN  /\ Idle /\ state = "SATISFIED" /\ ~core.connected
      /\ v \in core.vars => IsAssigned(core, v)
      /\ core' = IF /\ v \in core.vars /\ ~IsFixed(core, v)
                    /\ Flippable(core, l)
                 THEN [Unextended(core) EXCEPT
                         !.trail[PosOf(core, v)].lit = -l]
                 ELSE core
      /\ SearchKept /\ UNCHANGED <<query, state, adding, user>>

\* freeze and melt; an observed variable cannot be melted completely.
Freeze(v) ==
  /\ Idle
  /\ core' = [Unextended(core) EXCEPT !.frozen[v] = @ + 1,
                                      !.vars = @ \cup {v}]
  /\ SearchKept /\ UNCHANGED <<query, state, adding, user>>
\* an observed variable is melted like any other
Molten_Fault(c, v) == [Unextended(c) EXCEPT !.frozen[v] = @ - 1]
Molten(c, v) ==
  [Unextended(c) EXCEPT
     !.frozen[v] = IF @ = 1 /\ v \in c.observed THEN 1 ELSE @ - 1]
Melt(v) ==
  /\ Idle /\ core.frozen[v] > 0
  /\ core' = Molten(core, v)
  /\ SearchKept /\ UNCHANGED <<query, state, adding, user>>
-----------------------------------------------------------------------------
(* The propagator. *)

\* remove_observed_var
Unobserved(c, v) ==
  LET back == IF IsFixed(c, v) THEN c ELSE Backtracked(c, 0)
  IN  Molten([back EXCEPT !.observed = @ \ {v}], v)

\* reset_observed_vars and the end of disconnect_external_propagator
Disconnected(c) ==
  LET none == FoldSet(LAMBDA v, d : Unobserved(d, v),
                      [Unextended(c) EXCEPT !.notified = 0], c.observed)
  IN  IF ~c.connected THEN c
      ELSE [none EXCEPT !.connected = FALSE, !.heard = <<<<>>>>,
                        !.lemmas = <<>>, !.reasonOf = [l \in Lit |-> 0]]

FormerTheory(c) == {c.lemmas[i].lits : i \in DOMAIN c.lemmas}
Replaced ==
  /\ mock' = NoMock
  /\ user' = [user EXCEPT !.theory = @ \cup FormerTheory(core)]
  /\ UNCHANGED <<query, pc, again, result, termination_forced, budget, state,
                 adding>>

Disconnect == Idle /\ core' = Disconnected(core) /\ Replaced

\* connect_external_propagator, with a new propagator that has heard nothing
Connect ==
  /\ Idle
  /\ core' = [Backtracked(Disconnected(core), 0) EXCEPT !.connected = TRUE]
  /\ Replaced

\* add_observed_var
Observe(v) ==
  /\ Idle /\ core.connected
  /\ core' = Observed(core, v)
  /\ SearchKept /\ UNCHANGED <<query, state, adding, user>>

\* A clause the propagator will give when it is asked; a literal the solver
\* does not observe is left out (LemmaCall of mobical).
Lemma(cl) ==
  /\ Idle
  /\ core' = IF ~core.connected THEN core
             ELSE [core EXCEPT !.lemmas = Append(@,
                    [lits |-> {l \in cl : Abs(l) \in core.observed},
                     added |-> FALSE, isReason |-> FALSE])]
  /\ SearchKept /\ UNCHANGED <<query, state, adding, user>>
\* The variables the propagator will observe later on.
ObserveLater(vs) ==
  /\ Idle /\ core.connected
  /\ mock' = [mock EXCEPT !.fresh = vs]
  /\ UNCHANGED <<core, pc, again, result, termination_forced, budget, query,
                 state, adding, user>>
-----------------------------------------------------------------------------
(* What the user may rely on. *)

Theory == user.theory \cup FormerTheory(core)
Holds(m, cl) == \E l \in cl : IF l > 0 THEN l \in m ELSE -l \notin m
Models(cls) == {m \in SUBSET Var : \A cl \in cls : Holds(m, cl)}
Units(ls) == {{ls[i]} : i \in DOMAIN ls}

\* Everything the solver keeps follows from what it was given: its clauses,
\* the literals it has fixed, and that there is no model.
ClausesEntailed ==
  \A m \in Models(user.formula \cup Theory) :
    /\ \A d \in core.clauses : Holds(m, d.lits)
    /\ \A i \in DOMAIN core.trail :
         core.trail[i].level = 0 => Holds(m, {core.trail[i].lit})
    /\ ~core.unsat

\* 10 comes with a model of the clauses, the assumptions, the constraint and
\* the lemmas of the connected propagator, even those 'reduce' has deleted;
\* 20 is said only when there is none.
AnswerSound ==
  LET asked == user.formula \cup user.constraint \cup Units(query.assumptions)
  IN  pc = "done" =>
        /\ result = 10 => Model(core) \in Models(asked \cup FormerTheory(core))
        /\ result = 20 => Models(asked \cup Theory) = {}

\* In state SATISFIED what 'val' answers satisfies the clauses, through
\* further queries and flips.
ModelKept ==
  state = "SATISFIED" =>
    (IF core.extended THEN core.model ELSE Model(core))
      \in Models(user.formula)

\* 'solve' gives up only when it was asked to, once for each request at most.
UnknownsRequested == user.unknowns <= user.requests

\* An observed variable stays frozen, whatever else is melted.
ObservedFrozen == \A v \in core.observed : core.frozen[v] > 0

\* The literals the propagator has propagated and not explained yet: it has
\* a clause for each, whose other literals were false before and still are.
\* That clause is what the analysis will ask for, after any backtracking.
LateReasons ==
  \A i \in DOMAIN core.trail :
    LET e == core.trail[i]
        cl == core.lemmas[core.reasonOf[e.lit]].lits
    IN  e.reason = External =>
          /\ core.connected /\ core.reasonOf[e.lit] # 0
          /\ e.lit \in cl
          /\ \A l \in cl \ {e.lit} : IsFalse(core, l) /\ PosOf(core, l) < i
                                     /\ LevelOf(core, l) <= e.level

\* When a decision is due no clause, and none that came late, is falsified or
\* has a single literal left that could be propagated.
NothingMissed ==
  pc = "decide" =>
    \A d \in core.clauses :
      \/ \E l \in d.lits : IsTrue(core, l)
      \/ Cardinality({l \in d.lits : ~IsAssigned(core, l)}) > 1
=============================================================================
