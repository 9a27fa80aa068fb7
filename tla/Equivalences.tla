----------------------------- MODULE Equivalences -----------------------------
(***************************************************************************)
(* The techniques that work on the binary implication graph: equivalent    *)
(* literal substitution (decompose), hyper ternary resolution (ternary),   *)
(* duplicated binary clauses and hyper unary resolution (deduplicate),     *)
(* transitive reduction (transred) and failed literal probing with hyper   *)
(* binary resolution (probe, with its default opts.probehbr).              *)
(***************************************************************************)
EXTENDS Blocking

LitsOf(F) == UNION F \cup Negated(UNION F)
Binaries(F) == {c \in F : Cardinality(c) = 2}
Closed(F, S) == \A c \in F : \A l \in c : -l \in S => c \ {l} \subseteq S

(* The literals reached from l in the implication graph of binary clauses. *)
Reached(F, l) ==
  LET B      == Binaries(F)
      closed == {S \in SUBSET LitsOf(B) : Closed(B, S \cup {l})}
  IN {k \in LitsOf(B) \cup {l} : \A S \in closed : k \in S \cup {l}}

(* decompose_round: 'work' has the variables to be pushed on the extension
   stack, 'queue' the clauses to be replaced, 'gate' the satisfied ones, which
   are removed at the end. *)
Implications == {c \in Binaries(DB) : \A l \in c : Active(l)}
Component(l) ==
  {k \in Reached(Implications, l) : l \in Reached(Implications, k)}
Repr(l) ==
  LET equal == Component(l)
  IN IF ~Active(l) \/ Frozen(l) THEN l
     ELSE CHOOSE k \in equal : \A j \in equal : Abs(k) <= Abs(j)

(* A literal and its negation in one component. *)
Contradiction ==
  /\ Start("decompose")
  /\ \E l \in Lit : Active(l) /\ -l \in Component(l) /\ Assign({l}, TRUE)
  /\ PropagateThen("simplify")
  /\ UNCHANGED <<dbVars, bound, jobVars>>

StartDecompose ==
  /\ Start("decompose")
  /\ \A l \in Lit : Active(l) => -l \notin Component(l)
  /\ reprs' = [l \in Lit |-> Repr(l)]
  /\ work' = {v \in Var : reprs'[v] # v}
  /\ queue' = IF work' = {} THEN {}
              ELSE {c \in DB : \E l \in c : ~Active(l) \/ reprs'[l] # l}
  /\ GoTo("represent")
  /\ UNCHANGED <<dbVars, unitVars, bound, pivot, cand, todo, gate, trail,
                 marked, private, count, flag>>

(* The two implications between a variable and its representative. *)
(* Seeded fault: only one of them. *)
EquivalenceEntries_One(v) ==
  <<[witness |-> {-v}, clause |-> {-v, reprs[v]}]>>
EquivalenceEntries(v) ==
  <<[witness |-> {-v}, clause |-> {-v, reprs[v]}],
    [witness |-> {v}, clause |-> {v, -reprs[v]}]>>

PushEquivalence ==
  /\ pc = "represent"
  /\ \E v \in work : Push(EquivalenceEntries(v)) /\ work' = work \ {v}
  /\ UNCHANGED <<userVars, dbVars, unitVars, tainted, limitVars, pc, back,
                 pivot, cand, todo, queue, gate, markVars, count, flag>>

Replace(F, c, r) == IF c \in F THEN (F \ {c}) \cup {r} ELSE F

(* The new clause r of the clause c is satisfied, or a tautology. *)
(* Seeded fault: tautologies are kept. *)
Dropped_Satisfied(c, r) == IsSatisfied(c) \/ IsSatisfied(r)
Dropped(c, r) == IsSatisfied(c) \/ IsSatisfied(r) \/ IsTautology(Rest(r))

SubstituteClause ==
  /\ pc = "represent" /\ work = {} /\ ~unsat
  /\ \E c \in queue :
       LET replaced == {reprs[l] : l \in Rest(c)}
           r        == Rest(replaced)
       IN /\ queue' = queue \ {c}
          /\ IF Dropped(c, replaced)
             THEN /\ gate' = gate \cup {c}
                  /\ UNCHANGED <<dbVars, unitVars>>
             ELSE IF Cardinality(r) < 2
             THEN /\ Assign(r, r = {})
                  /\ irr' = irr \ {c} /\ red' = red \ {c} /\ UNCHANGED gate
             ELSE /\ irr' = Replace(irr, c, r) /\ red' = Replace(red, c, r)
                  /\ UNCHANGED <<unitVars, gate>>
  /\ UNCHANGED <<userVars, stackVars, tainted, limitVars, pc, back, pivot,
                 cand, todo, work, markVars, count, flag>>

ClausesSubstituted ==
  /\ pc = "represent" /\ work = {} /\ (queue = {} \/ unsat)
  /\ irr' = irr \ gate /\ red' = red \ gate
  /\ PropagateThen("substituted")
  /\ UNCHANGED <<userVars, unitVars, stackVars, tainted, limitVars, jobVars>>

Substituted ==
  /\ pc = "substituted"
  /\ status' = [v \in Var |->
       IF ~unsat /\ reprs[v] # v /\ status[v] = "active" /\
            status[Abs(reprs[v])] # "fixed"
       THEN "substituted" ELSE status[v]]
  /\ NoJob /\ PropagateThen("simplify")
  /\ UNCHANGED <<userVars, dbVars, units, unsat, stackVars, tainted,
                 limitVars>>

-----------------------------------------------------------------------------
(* The following take one clause or literal after the other. *)
Start1(technique) == Start(technique) /\ UNCHANGED <<bound, jobVars>>
Unassigned(c) == VarsOf(c) \cap VarsOf(units) = {}

(* hyper_ternary_resolve: r is not too long, and no clause subsumes it. *)
IsHyperTernary(r) ==
  /\ ~IsTautology(r) /\ Cardinality(r) \in 2..3
  /\ \A c \in DB : Cardinality(c) > 1 => ~(c \subseteq r)

(* ternary_lit: a binary resolvent replaces its antecedents. *)
Ternary ==
  /\ Start1("ternary")
  /\ \E c, d \in DB : \E l \in c :
       LET r == Resolvent(c, d, l)
           redundant == Cardinality(r) = 3 \/ {c, d} \cap irr = {}
           subsumed == IF Cardinality(r) = 2 THEN {c, d} ELSE {}
       IN /\ -l \in d /\ Cardinality(c) = 3 /\ Cardinality(d) = 3
          /\ Unassigned(c) /\ Unassigned(d) /\ IsHyperTernary(r)
          /\ irr' = (irr \ subsumed) \cup (IF redundant THEN {} ELSE {r})
          /\ red' = (red \ subsumed) \cup (IF redundant THEN {r} ELSE {})
  /\ PropagateThen("simplify")
  /\ UNCHANGED unitVars

(* mark_duplicated_binary_clauses_as_garbage: the irredundant copy stays. *)
Deduplicate ==
  /\ Start1("dedup")
  /\ red' = red \ Binaries(irr) /\ GoTo("simplify")
  /\ UNCHANGED <<irr, unitVars>>

HyperUnary ==
  /\ Start1("dedup")
  /\ \E l, k \in Lit : /\ {{l, k}, {l, -k}} \subseteq Binaries(DB)
                       /\ Active(l) /\ Assign({l}, FALSE)
  /\ PropagateThen("simplify")
  /\ UNCHANGED dbVars

(* transred: an irredundant clause is only removed for a path of irredundant
   clauses. *)
Path(c, irredundant) ==
  IF irredundant THEN irr \ {c} ELSE irr \cup (red \ {c})

Transitive ==
  /\ Start1("transred")
  /\ \E c \in Binaries(DB), l \in Lit, irredundant \in BOOLEAN :
       /\ c \in (IF irredundant THEN irr ELSE red) /\ l \in c /\ Unassigned(c)
       /\ c \ {l} \subseteq Reached(Path(c, irredundant), -l)
       /\ IF irredundant THEN irr' = irr \ {c} /\ UNCHANGED red
          ELSE red' = red \ {c} /\ UNCHANGED irr
  /\ GoTo("simplify")
  /\ UNCHANGED unitVars

TransitiveFailed ==
  /\ Start1("transred")
  /\ \E c \in Binaries(DB), l, k \in Lit, irredundant \in BOOLEAN :
       /\ c \in (IF irredundant THEN irr ELSE red) /\ l \in c /\ Unassigned(c)
       /\ {k, -k} \subseteq Reached(Path(c, irredundant), -l)
       /\ Assign({l}, FALSE)
  /\ PropagateThen("simplify")
  /\ UNCHANGED dbVars

-----------------------------------------------------------------------------
(* probe_round: 'pivot' is the probe, 'trail' what it implies. *)
IsProbe(l) ==
  /\ Active(l)
  /\ \E c \in Binaries({Rest(c) : c \in Open(DB)}) : -l \in c
  /\ \A c \in Binaries({Rest(c) : c \in Open(DB)}) : l \notin c

StartProbe ==
  /\ Start("probe")
  /\ \E l \in Lit : IsProbe(l) /\ pivot' = l /\ trail' = {l}
  /\ GoTo("probe")
  /\ UNCHANGED <<dbVars, unitVars, bound, cand, todo, queue, gate, work,
                 marked, private, reprs, count, flag>>

Probing == pc = "probe" /\ ~Falsified(DB, Holds)

(* probe_propagate2: binary clauses come first. *)
ProbeBinary ==
  /\ Probing /\ Forced(Binaries(DB), Holds) # {}
  /\ trail' = trail \cup Forced(Binaries(DB), Holds)
  /\ UNCHANGED <<userVars, dbVars, unitVars, stackVars, tainted, limitVars, pc,
                 back, pivot, cand, todo, queue, gate, work, marked, private,
                 reprs, count, flag>>

(* The literals that dominate the literals ls in the trail. *)
(* Seeded fault: those that imply one of them. *)
Dominators_One(ls) == {l \in trail : ls \cap Reached(DB, l) # {}}
Dominators(ls) == {l \in trail : ls \subseteq Reached(DB, l)}

(* hyper_binary_resolve of a long reason for l: the resolvent replaces the
   reason if it subsumes it. *)
Contained(dom, c) == -dom \in c

ProbeLong ==
  /\ Probing /\ Forced(Binaries(DB), Holds) = {}
  /\ \E c \in DB : \E l \in c :
       LET others == Negated(c \ {l}) \ units   \* of the probe's level
       IN /\ Cardinality(c) > 2 /\ l \notin Holds
          /\ others # {} /\ others \subseteq trail
          /\ Negated(c \ {l}) \subseteq Holds
          /\ trail' = trail \cup {l}
          /\ IF Cardinality(others) = 1 THEN UNCHANGED dbVars
             ELSE \E dom \in Dominators(others) :
                    LET redundant == ~Contained(dom, c) \/ c \notin irr
                        removed == IF Contained(dom, c) THEN {c} ELSE {}
                        binary == {{-dom, l}}
                    IN /\ irr' = (irr \ removed) \cup
                                 (IF redundant THEN {} ELSE binary)
                       /\ red' = (red \ removed) \cup
                                 (IF redundant THEN binary ELSE {})
  /\ UNCHANGED <<userVars, unitVars, stackVars, tainted, limitVars, pc, back,
                 pivot, cand, todo, queue, gate, work, marked, private, reprs,
                 count, flag>>

(* failed_literal: the negation of the first literal that implies the
   conflict is a unit. *)
FailedLiteral ==
  /\ pc = "probe"
  /\ \E c \in DB : \E uip \in Dominators(Negated(c) \ units) :
       /\ Negated(c) \subseteq Holds /\ Assign({-uip}, FALSE)
  /\ NoJob /\ PropagateThen("simplify")
  /\ UNCHANGED <<userVars, dbVars, stackVars, tainted, limitVars>>

Probed ==
  /\ Probing /\ Forced(DB, Holds) = {}
  /\ NoJob /\ GoTo("simplify")
  /\ UNCHANGED <<userVars, dbVars, unitVars, stackVars, tainted, limitVars>>

-----------------------------------------------------------------------------
Reduces ==
  \/ Contradiction \/ StartDecompose \/ PushEquivalence
  \/ SubstituteClause \/ ClausesSubstituted \/ Substituted
  \/ Ternary \/ Deduplicate \/ HyperUnary \/ Transitive \/ TransitiveFailed
  \/ StartProbe \/ ProbeBinary \/ ProbeLong \/ FailedLiteral \/ Probed
=============================================================================
