------------------------------ MODULE ApiTester ------------------------------
(***************************************************************************)
(* mobical, the model-based tester, on top of the solver's interface: what *)
(* sequences of calls it makes (Trace::generate), how it executes them     *)
(* (Trace::execute, which gives the lemmas before the 'solve' they follow, *)
(* and leaves calls out that the contract forbids), and a second thread    *)
(* that terminates the solver.                                             *)
(***************************************************************************)
EXTENDS SolverApi

CONSTANTS
  Plans,  \* what may be tested: sequences of rounds
  Wish    \* the literal the propagator would decide, if it were asked

\* The calls of a round, as 'generate' makes them or 'shrink' leaves them.
Round == [
  clauses : Seq(Seq(Lit)),
  link : {"keep", "connect", "disconnect"},
  observe : Seq(Var),
  later : SUBSET Var,
  constraint : Seq(Lit),
  assume : Seq(Lit),
  melt : Seq(Var),
  freeze : Seq(Var),
  process : Seq({"solve", "simplify", "propagate", "lookahead"}),
  lemmas : Seq(Clause),
  flip : Seq(Var)]

ASSUME TesterAssumption == Plans \subseteq Seq(Round) /\ Wish \in Lit

VARIABLE calls  \* the calls still to be made

vars == <<apiVars, calls>>
-----------------------------------------------------------------------------
(* Trace::generate. *)

Op(op, l, cl) == [op |-> op, lit |-> l, clause |-> cl]
Each(op, ls) == [i \in DOMAIN ls |-> Op(op, ls[i], {})]
Just(op) == <<Op(op, 0, {})>>
WithZero(op, ls) == Each(op, ls) \o Just(op)

\* generate_propagator: a new propagator is connected only after the last one
\* is disconnected.
Link(r, connected) ==
  CASE r.link = "disconnect" /\ connected -> Just("disconnect")
    [] r.link = "connect" ->
         (IF connected THEN Just("disconnect") ELSE <<>>) \o Just("connect")
           \o Each("observe", r.observe) \o <<Op("later", 0, r.later)>>
    [] OTHER -> <<>>

\* The calls of one round; flips are not tried while a propagator is
\* connected, and only a 'solve' is followed by lemmas.
RoundCalls(r, before, connected) ==
  FlattenSeq([i \in DOMAIN r.clauses |-> WithZero("add", r.clauses[i])])
    \o Link(r, before)
    \o (IF r.constraint = <<>> THEN <<>>
        ELSE WithZero("constrain", r.constraint))
    \o Each("assume", r.assume)
    \o Each("melt", r.melt) \o Each("freeze", r.freeze)
    \o FlattenSeq([i \in DOMAIN r.process |->
         Just(r.process[i])
           \o (IF r.process[i] = "solve" /\ connected
               THEN [j \in DOMAIN r.lemmas |-> Op("lemma", 0, r.lemmas[j])]
               ELSE <<>>)])
    \o Just("val")
    \o (IF connected THEN <<>> ELSE Each("flip", r.flip) \o Just("val"))

Generated(plan) ==
  LET step(a, r) ==
        LET connected == CASE r.link = "connect" -> TRUE
                           [] r.link = "disconnect" -> FALSE
                           [] OTHER -> a.connected
        IN  [calls |-> a.calls \o RoundCalls(r, a.connected, connected),
             connected |-> connected]
      made[n \in 0..Len(plan)] == \* the first n rounds
        IF n = 0 THEN [calls |-> <<>>, connected |-> FALSE]
        ELSE step(made[n - 1], plan[n])
  IN  made[Len(plan)].calls \o Just("reset")
-----------------------------------------------------------------------------
(* Trace::execute. *)

Skipped == UNCHANGED apiVars
Reset ==
  /\ Idle
  /\ state' = "DELETING"
  /\ SearchKept /\ UNCHANGED <<core, query, adding, user>>

\* The calls of which some are left out, because the contract forbids them.
Guarded(c) ==
  \/ (c.op = "melt" /\ IF core.frozen[c.lit] > 0 THEN Melt(c.lit) ELSE Skipped)
  \/ (c.op = "val" /\ IF state = "SATISFIED" THEN Val ELSE Skipped)
  \/ (c.op = "flip" /\ IF state = "SATISFIED" THEN Flip(c.lit) ELSE Skipped)
  \/ (c.op = "observe" /\ IF core.connected THEN Observe(c.lit) ELSE Skipped)
  \/ (c.op = "later" /\ IF core.connected THEN ObserveLater(c.clause)
                       ELSE Skipped)

Made(c) ==
  \/ (c.op = "add" /\ Add(c.lit))
  \/ (c.op = "constrain" /\ Constrain(c.lit))
  \/ (c.op = "assume" /\ Assume(c.lit))
  \/ (c.op = "connect" /\ Connect)
  \/ (c.op = "disconnect" /\ Disconnect)
  \/ (c.op = "freeze" /\ Freeze(c.lit))
  \/ (c.op \in {"solve", "simplify", "propagate"} /\ Call(c.op))
  \/ (c.op = "lookahead" /\ Lookahead)
  \/ (c.op = "reset" /\ Reset)

LemmaFollows ==
  calls[1].op = "solve" /\ Len(calls) > 1 /\ calls[2].op = "lemma"

\* A lemma is given before the 'solve' it follows.
ExecuteLemma ==
  /\ pc = "idle" /\ calls # <<>> /\ LemmaFollows
  /\ Lemma(calls[2].clause)
  /\ calls' = RemoveAt(calls, 2)

Execute ==
  /\ pc = "idle" /\ calls # <<>> /\ ~LemmaFollows
  /\ Made(calls[1]) \/ Guarded(calls[1])
  /\ calls' = Tail(calls)

Init == ApiInit /\ \E plan \in Plans : calls = Generated(plan)

SolverStep ==
  /\ (Search /\ UNCHANGED <<state, adding, user>>) \/ Return
  /\ UNCHANGED calls
Ended == pc = "idle" /\ calls = <<>> /\ UNCHANGED vars
Next ==
  \/ Execute \/ ExecuteLemma \/ Ended
  \/ SolverStep
  \/ (Terminate /\ UNCHANGED calls)

\* The solver's thread goes on while it is called; nothing is said of the
\* other thread.  This is WF_vars(SolverStep), written out because TLC takes
\* too long to tell whether SolverStep is enabled: it is until the call has
\* returned (or the runs, which have no deadlock, would stop: where no request
\* is left there is no other step).
Fairness == []<>(pc = "idle") \/ []<><<SolverStep>>_vars
Spec == Init /\ [][Next]_vars /\ Fairness
-----------------------------------------------------------------------------
\* Every call of 'solve' or 'simplify' ends, whatever the propagator answers
\* and whether or not it is asked to terminate.
SolveReturns == state = "SOLVING" ~> state # "SOLVING"

\* "Ask the external propagator for the next decision literal": a decision
\* that no assumption and no constraint asks for is the propagator's, when
\* it has an observed and unassigned literal to suggest.
DecisionSuggested ==
  [][ /\ Decide /\ core.connected
      /\ Abs(Wish) \in core.observed /\ ~IsAssigned(core, Wish)
      => IsTrue(core', Wish) ]_vars

TypeOK ==
  /\ core \in Core /\ core.observed \subseteq core.vars
  /\ core.propagated <= Len(core.trail) /\ core.notified <= Len(core.trail)
  /\ \A i \in DOMAIN core.control : core.control[i] <= Len(core.trail)
  /\ \A l \in Lit : core.reasonOf[l] <= Len(core.lemmas)
  /\ mock \in Mock /\ query \in Query /\ user \in User
  /\ again \in BOOLEAN /\ termination_forced \in BOOLEAN
  /\ result \in {0, 10, 20}
  /\ state \in VALID \cup {"SOLVING", "DELETING"} /\ adding \in Adding
=============================================================================
