----------------------------- MODULE Elimination -----------------------------
(***************************************************************************)
(* Bounded variable elimination (elim, gates and backward): a variable is  *)
(* tried by finding a gate that defines it, resolving its clauses pairwise *)
(* until there are too many resolvents, then adding the resolvents and     *)
(* removing its clauses to the extension stack, and at last subsuming and  *)
(* strengthening clauses with the resolvents (backward).  Resolving finds  *)
(* units, which are propagated over the irredundant clauses, and           *)
(* strengthens its antecedents.                                            *)
(*                                                                         *)
(* 'pivot' is the literal tried, 'todo' the pairs of clauses still to be   *)
(* resolved, 'gate' the gate clauses, 'count' the resolvents, 'queue' the  *)
(* resolvents to be tried as backward subsuming clauses, 'work' the units  *)
(* still to be propagated; 'cand' is the backward candidate and 'flag' its *)
(* 'satisfied'.                                                            *)
(***************************************************************************)
EXTENDS Reconstruction

Occs(l) == {c \in irr : l \in c}
Pairs(l) == Occs(l) \X Occs(-l)

(* elim_round: clauses satisfied on the root level are removed, then the
   candidates are tried one after the other, each of them any number of
   times (it is rescheduled when a clause of it is removed).  The round ends
   after any of them (limits, termination). *)
StartElim ==
  /\ Start("elim")
  /\ irr' = Open(irr)
  /\ GoTo("elim")
  /\ UNCHANGED <<red, unitVars, bound, jobVars>>

(* Redundant clauses with an eliminated or pure variable go at the end of the
   round (and before a garbage collection). *)
(* Seeded fault: they stay. *)
Stale_None(c) == FALSE
Stale(c) == \E l \in c : status[Abs(l)] \in {"eliminated", "pure"}

ElimRoundDone ==
  /\ pc = "elim"
  /\ red' = IF unsat THEN red ELSE {c \in red : ~Stale(c)}
  /\ PropagateThen("simplify")
  /\ UNCHANGED <<userVars, irr, unitVars, stackVars, tainted, limitVars,
                 jobVars>>

(* elim starts its next round with the units of the last one unpropagated. *)
NextElimRound ==
  /\ pc = "elim" /\ ~unsat
  /\ irr' = Open(irr) /\ red' = {c \in red : ~Stale(c)}
  /\ UNCHANGED <<userVars, unitVars, stackVars, tainted, limitVars, pc, back,
                 jobVars>>

(* increase_elimination_bound, after a completed phase. *)
IncreaseBound ==
  /\ pc = "simplify" /\ "elim" \in may /\ bound < opts.elimboundmax
  /\ bound' = IF bound = 0 THEN 1
              ELSE IF 2 * bound > opts.elimboundmax THEN opts.elimboundmax
              ELSE 2 * bound
  /\ UNCHANGED <<userVars, dbVars, unitVars, stackVars, tainted, rounds,
                 learned, pc, back, jobVars>>

(* try_to_eliminate_variable: the pivot is the phase with fewer clauses, and
   'count' resolvents are allowed. *)
(* Seeded fault: an assumption does not count as frozen. *)
Candidate_Assumed(l) ==
  /\ Active(l) /\ frozen[Abs(l)] = 0
  /\ Cardinality(Occs(l)) <= Cardinality(Occs(-l))
  /\ Occs(l) = {} \/ Cardinality(Occs(-l)) <= opts.elimocclim
Candidate(l) ==
  /\ Active(l) /\ ~Frozen(l)
  /\ Cardinality(Occs(l)) <= Cardinality(Occs(-l))
  /\ Occs(l) = {} \/ Cardinality(Occs(-l)) <= opts.elimocclim

Try ==
  /\ pc = "elim" /\ ~unsat
  /\ \E l \in Lit :
       /\ Candidate(l)
       /\ pivot' = l
       /\ count' = Cardinality(Occs(l)) + Cardinality(Occs(-l)) + bound
  /\ GoTo("gates")
  /\ UNCHANGED <<userVars, dbVars, unitVars, stackVars, tainted, limitVars,
                 cand, todo, queue, gate, work, markVars, flag>>

-----------------------------------------------------------------------------
(* elim_propagate: one literal of 'work' is propagated over its irredundant
   clauses, the satisfied ones are removed. *)
Assigned(l) == True(l) \/ False(l)
Propagating == work # {} /\ ~unsat

ElimPropagate ==
  /\ pc \in {"gates", "bounded", "backward"} /\ Propagating
  /\ \E l \in work :
       LET new == Forced(Open(Occs(-l)), units)
       IN /\ Assign(new, Falsified(Occs(-l), units))
          /\ irr' = irr \ (Occs(l) \cup
                      {c \in Occs(-l) : c \cap (units \cup new) # {}})
          /\ work' = (work \ {l}) \cup new
  /\ UNCHANGED <<userVars, red, stackVars, tainted, limitVars, pc, back, pivot,
                 cand, todo, queue, gate, markVars, count, flag>>

-----------------------------------------------------------------------------
(* find_gate_clauses.  A gate that defines the pivot is a set of clauses of
   one of four shapes; literals that are false do not count. *)
Shape(F) == {Rest(c) : c \in Open(F)}
Equivalences(p) == {{{-p, s}, {p, -s}} : s \in Lit \ {p, -p}}
AndGates(p) ==
  {{Rest(c)} \cup {{p, -l} : l \in Rest(c) \ {-p}} :
     c \in {c \in Open(Occs(-p)) : Cardinality(c) > 2}}
IfThenElses(p) ==
  {{{p, t[1], t[2]}, {p, -t[1], t[3]}, {-p, t[1], -t[2]}, {-p, -t[1], -t[3]}} :
     t \in {t \in Lit \X Lit \X Lit :
             Cardinality(VarsOf({p, t[1], t[2], t[3]})) = 4}}
Xors(p) ==
  {{Negated(n) \cup (r \ n) :
      n \in {n \in SUBSET r : Cardinality(n) % 2 = 0}} :
     r \in {r \in Shape(Occs(p)) : Cardinality(r) > 2}}

GatesOf(shapes) ==
  {g \in SUBSET (Occs(pivot) \cup Occs(-pivot)) :
     /\ g \subseteq Open(g) /\ Shape(g) \in shapes
     /\ Cardinality(g) = Cardinality(Shape(g))}
Gates ==
  IF ~opts.elimsubst \/ Occs(pivot) = {} THEN {}
  ELSE IF GatesOf(Equivalences(pivot)) # {} THEN GatesOf(Equivalences(pivot))
  ELSE IF GatesOf(AndGates(pivot)) # {} THEN GatesOf(AndGates(pivot))
  ELSE IF GatesOf(AndGates(-pivot)) # {} THEN GatesOf(AndGates(-pivot))
  ELSE IF GatesOf(IfThenElses(pivot)) # {} THEN GatesOf(IfThenElses(pivot))
  ELSE GatesOf(Xors(pivot))

Finding == /\ pc = "gates" /\ work = {} /\ ~unsat /\ ~Assigned(pivot)
           /\ opts.elimsubst /\ Occs(pivot) # {}

(* Two binary clauses with the pivot that resolve to a unit. *)
FindUnit ==
  /\ Finding
  /\ \E u, l \in Lit :
       /\ Abs(pivot) \in {Abs(u), Abs(l)}
       /\ {{u, l}, {u, -l}} \subseteq Shape(irr)
       /\ Assign({u}, FALSE) /\ work' = {u}
  /\ UNCHANGED <<userVars, dbVars, stackVars, tainted, limitVars, pc, back,
                 pivot, cand, todo, queue, gate, markVars, count, flag>>

(* Satisfied clauses and one of two equal binary clauses are removed. *)
FindGarbage ==
  /\ Finding
  /\ \E c \in Occs(pivot) \cup Occs(-pivot) :
       /\ \/ IsSatisfied(c)
          \/ Cardinality(Rest(c)) = 2 /\ Rest(c) \in Shape(irr \ {c})
       /\ irr' = irr \ {c}
  /\ UNCHANGED <<userVars, red, unitVars, stackVars, tainted, limitVars, pc,
                 back, jobVars>>

(* Only a gate clause and a clause not of the gate have to be resolved. *)
ResolvedPairs(g) ==
  {p \in Occs(pivot) \X Occs(-pivot) : g # {} => (p[1] \in g) # (p[2] \in g)}

GatesFound ==
  /\ pc = "gates" /\ work = {} /\ ~unsat /\ ~Assigned(pivot)
  /\ \E g \in IF Gates = {} THEN {{}} ELSE Gates :
       gate' = g /\ todo' = ResolvedPairs(g)
  /\ GoTo("bounded")
  /\ UNCHANGED <<userVars, dbVars, unitVars, stackVars, tainted, limitVars,
                 pivot, cand, queue, work, markVars, count, flag>>

-----------------------------------------------------------------------------
(* resolve_clauses, for the next pair of two clauses that are still there:
   the clauses with the pivot come in the order of their size, and for each
   of them those with its negation. *)
Live == {p \in todo : p[1] \in irr /\ p[2] \in irr}
IsNext(p) ==
  /\ p \in Live
  /\ IF \E q \in Live : q[1] = cand THEN p[1] = cand
     ELSE \A q \in Live : Cardinality(p[1]) <= Cardinality(q[1])
  /\ \A q \in Live : q[1] = p[1] => Cardinality(p[2]) <= Cardinality(q[2])
Resolving(where) ==
  pc = where /\ work = {} /\ ~unsat /\ ~Assigned(pivot)
PairResolvent(p) == Rest(Resolvent(p[1], p[2], pivot))
Advance(p) == cand' = p[1] /\ todo' = todo \ {p}
NoPairs == cand' = {} /\ todo' = {}

(* The pair has a satisfied clause, which is removed (the shorter one if both
   are), or its resolvent is a tautology. *)
ResolveNothing(where) ==
  /\ Resolving(where)
  /\ \E p \in Live : IsNext(p) /\ Advance(p) /\
       \/ \E c \in {p[1], p[2]} :
            /\ IsSatisfied(c)
            /\ \A d \in {p[1], p[2]} \ {c} :
                 IsSatisfied(d) => Cardinality(c) <= Cardinality(d)
            /\ irr' = irr \ {c}
       \/ IsTautology(PairResolvent(p)) /\ UNCHANGED irr
  /\ UNCHANGED <<userVars, red, unitVars, stackVars, tainted, limitVars, pc,
                 back, pivot, queue, gate, work, markVars, count, flag>>

Proper(p) == /\ IsNext(p) /\ ~IsSatisfied(p[1]) /\ ~IsSatisfied(p[2])
             /\ ~IsTautology(PairResolvent(p))

(* An empty or a unit resolvent.  The unit is propagated at once while the
   resolvents are counted, but not while they are added: the pivot could be
   assigned. *)
ResolveUnit(where) ==
  /\ Resolving(where)
  /\ \E p \in Live :
       LET r == PairResolvent(p)
       IN /\ Proper(p) /\ Advance(p) /\ Cardinality(r) < 2
          /\ Assign(r, r = {})
          /\ work' = IF where = "bounded" THEN r ELSE {}
  /\ UNCHANGED <<userVars, dbVars, stackVars, tainted, limitVars, pc, back,
                 pivot, queue, gate, markVars, count, flag>>

(* elim_on_the_fly_self_subsumption: the resolvent is an antecedent without
   the pivot, and replaces it (or both). *)
Subsumed(p) ==
  {c \in {p[1], p[2]} : Rest(c) \ {pivot, -pivot} = PairResolvent(p)}

ResolveStrengthen(where) ==
  /\ Resolving(where)
  /\ \E p \in Live :
       /\ Proper(p) /\ Advance(p) /\ Cardinality(PairResolvent(p)) > 1
       /\ Subsumed(p) # {}
       /\ irr' = (irr \ Subsumed(p)) \cup {PairResolvent(p)}
  /\ UNCHANGED <<userVars, red, unitVars, stackVars, tainted, limitVars, pc,
                 back, pivot, queue, gate, work, markVars, count, flag>>

IsResolvent(p) == /\ Proper(p) /\ Cardinality(PairResolvent(p)) > 1
                  /\ Subsumed(p) = {}

(* elim_resolvents_are_bounded counts a resolvent. *)
CountResolvent ==
  /\ Resolving("bounded")
  /\ \E p \in Live :
       /\ IsResolvent(p)
       /\ IF count = 0 \/ Cardinality(PairResolvent(p)) > opts.elimclslim
          THEN NoPairs /\ GoTo("backward") /\ UNCHANGED count
          ELSE Advance(p) /\ count' = count - 1 /\ UNCHANGED <<pc, back>>
  /\ UNCHANGED <<userVars, dbVars, unitVars, stackVars, tainted, limitVars,
                 pivot, queue, gate, work, markVars, flag>>

(* There are few enough: all pairs are resolved again, to add them. *)
Bounded ==
  /\ Resolving("bounded") /\ Live = {}
  /\ todo' = ResolvedPairs(gate) /\ cand' = {}
  /\ GoTo("add")
  /\ UNCHANGED <<userVars, dbVars, unitVars, stackVars, tainted, limitVars,
                 pivot, queue, gate, work, markVars, count, flag>>

(* The pivot was assigned, or the formula is inconsistent. *)
GiveUp ==
  /\ pc \in {"gates", "bounded"} /\ (unsat \/ (work = {} /\ Assigned(pivot)))
  /\ NoPairs /\ GoTo("backward")
  /\ UNCHANGED <<userVars, dbVars, unitVars, stackVars, tainted, limitVars,
                 pivot, queue, gate, work, markVars, count, flag>>

(* elim_add_resolvents. *)
Enqueue(c) == queue' = IF opts.elimbackward THEN queue \cup {c} ELSE queue

AddResolvent ==
  /\ Resolving("add")
  /\ \E p \in Live :
       /\ IsResolvent(p) /\ Advance(p)
       /\ irr' = irr \cup {PairResolvent(p)} /\ Enqueue(PairResolvent(p))
  /\ UNCHANGED <<userVars, red, unitVars, stackVars, tainted, limitVars, pc,
                 back, pivot, gate, work, markVars, count, flag>>

(* mark_eliminated_clauses_as_garbage: first the clauses with the pivot, then
   those with its negation go on the extension stack, or only the gate
   clauses if there is a gate. *)
Weakened(c) == gate = {} \/ c \in gate

Weaken ==
  /\ pc = "add" /\ ~unsat /\ Live = {}
  /\ \E w \in {pivot, -pivot} : \E c \in Occs(w) :
       /\ w = -pivot => Occs(pivot) = {}
       /\ irr' = irr \ {c}
       /\ IF Weakened(c) THEN Push(<<[witness |-> {w}, clause |-> c]>>)
          ELSE UNCHANGED stackVars
  /\ UNCHANGED <<userVars, red, unitVars, tainted, limitVars, pc, back,
                 jobVars>>

Eliminate ==
  /\ pc = "add" /\ (unsat \/ Occs(pivot) \cup Occs(-pivot) = {})
  /\ status' = IF ~Active(pivot) THEN status
               ELSE [status EXCEPT ![Abs(pivot)] = "eliminated"]
  /\ NoPairs /\ GoTo("backward")
  /\ UNCHANGED <<userVars, dbVars, units, unsat, stackVars, tainted, limitVars,
                 pivot, queue, gate, work, markVars, count, flag>>
-----------------------------------------------------------------------------
(* elim_backward_clauses takes the clauses from the queue; elim_backward_clause
   compares a candidate with the clauses of the literal with the shortest list.
   Clauses removed since the round began are still in the lists and count, but
   are no part of the state here: any literal is possible. *)
Dequeue ==
  /\ pc = "backward" /\ todo = {} /\ work = {} /\ ~unsat
  /\ \E c \in queue :
       /\ queue' = queue \ {c} /\ flag' = FALSE /\ cand' = c
       /\ irr' = IF IsSatisfied(c) THEN irr \ {c} ELSE irr
       /\ IF c \notin irr \/ IsSatisfied(c) THEN todo' = {}
          ELSE \E l \in Rest(c) :
                 todo' = IF Cardinality(Occs(l)) > opts.elimocclim THEN {}
                         ELSE {c} \X (Occs(l) \ {c})
  /\ UNCHANGED <<userVars, red, unitVars, stackVars, tainted, limitVars, pc,
                 back, pivot, gate, work, markVars, count>>

(* The literals of d that the candidate has, and those it has negated. *)
Common(d) == Rest(d) \cap Rest(cand)
Clashing(d) == Rest(d) \cap Negated(Rest(cand))
Matches(d) ==
  /\ Cardinality(Clashing(d)) <= 1
  /\ Cardinality(Common(d) \cup Clashing(d)) = Cardinality(Rest(cand))

(* The clause d of the pair is looked at until it turns out to be satisfied,
   has two clashing literals or has all literals of the candidate: a
   satisfied one may be left early.  'satisfied' is not reset between two
   clauses. *)
Comparing(p) ==
  /\ pc = "backward" /\ work = {} /\ ~unsat
  /\ p \in Live /\ Cardinality(p[2]) >= Cardinality(Rest(cand))
Left(d) ==
  ~flag /\ (IsSatisfied(d) => Matches(d) \/ Cardinality(Clashing(d)) > 1)

BackwardSatisfied ==
  /\ \E p \in todo :
       /\ Comparing(p) /\ (flag \/ IsSatisfied(p[2]))
       /\ irr' = irr \ {p[2]}
       /\ todo' = todo \ {p}
  /\ flag' = TRUE
  /\ UNCHANGED <<userVars, red, unitVars, stackVars, tainted, limitVars, pc,
                 back, pivot, cand, queue, gate, work, markVars, count>>

BackwardSkip ==
  /\ \E p \in todo :
       /\ Comparing(p) /\ Left(p[2]) /\ ~Matches(p[2])
       /\ todo' = IF Cardinality(Clashing(p[2])) > 1 THEN {} ELSE todo \ {p}
  /\ UNCHANGED <<userVars, dbVars, unitVars, stackVars, tainted, limitVars, pc,
                 back, pivot, cand, queue, gate, work, markVars, count, flag>>

BackwardSubsume ==
  /\ \E p \in todo :
       /\ Comparing(p) /\ Left(p[2]) /\ Matches(p[2]) /\ Clashing(p[2]) = {}
       /\ irr' = irr \ {p[2]}
       /\ todo' = todo \ {p}
  /\ UNCHANGED <<userVars, red, unitVars, stackVars, tainted, limitVars, pc,
                 back, pivot, cand, queue, gate, work, markVars, count, flag>>

(* One clashing literal: the clause is strengthened, a unit propagated. *)
BackwardStrengthen ==
  /\ \E p \in todo : \E l \in Clashing(p[2]) :
       LET d == p[2]
           s == Rest(d) \ {l}
       IN /\ Comparing(p) /\ Left(d) /\ Matches(d)
          /\ IF IsSatisfied(d)
             THEN /\ irr' = irr \ {d} /\ flag' = TRUE /\ todo' = todo \ {p}
                  /\ UNCHANGED <<unitVars, work, queue>>
             ELSE IF Cardinality(s) = 1
             THEN /\ Assign(s, FALSE) /\ work' = s /\ todo' = {}
                  /\ UNCHANGED <<irr, queue, flag>>
             ELSE /\ todo' = todo \ {p}
                  /\ IF Cardinality(Occs(l)) <= opts.elimocclim
                     THEN irr' = (irr \ {d}) \cup {d \ {l}} /\ Enqueue(d \ {l})
                     ELSE UNCHANGED <<irr, queue>>
                  /\ UNCHANGED <<unitVars, work, flag>>
  /\ UNCHANGED <<userVars, red, stackVars, tainted, limitVars, pc, back, pivot,
                 cand, gate, markVars, count>>

(* Clauses removed or too short in the meantime are passed over. *)
BackwardPass ==
  /\ pc = "backward" /\ work = {} /\ ~unsat
  /\ \E p \in todo : ~Comparing(p)
  /\ todo' = {p \in todo : Comparing(p)}
  /\ UNCHANGED <<userVars, dbVars, unitVars, stackVars, tainted, limitVars, pc,
                 back, pivot, cand, queue, gate, work, markVars, count, flag>>

Tried ==
  /\ pc = "backward" /\ (unsat \/ (queue = {} /\ todo = {} /\ work = {}))
  /\ NoJob /\ GoTo("elim")
  /\ UNCHANGED <<userVars, dbVars, unitVars, stackVars, tainted, limitVars>>

-----------------------------------------------------------------------------
Eliminating ==
  \/ StartElim \/ Try \/ ElimPropagate \/ FindUnit \/ FindGarbage
  \/ GatesFound \/ (\E where \in {"bounded", "add"} :
       ResolveNothing(where) \/ ResolveUnit(where) \/ ResolveStrengthen(where))
  \/ CountResolvent \/ Bounded \/ GiveUp \/ AddResolvent \/ Weaken
  \/ Eliminate \/ Dequeue \/ BackwardSatisfied \/ BackwardSkip
  \/ BackwardSubsume \/ BackwardStrengthen \/ BackwardPass \/ Tried
  \/ ElimRoundDone \/ NextElimRound \/ IncreaseBound
=============================================================================
