----------------------------- MODULE Strengthening -----------------------------
(***************************************************************************)
(* The techniques that remove literals of clauses, or clauses implied by   *)
(* others: subsumption and strengthening (subsume), vivification (vivify)  *)
(* and instantiation (instantiate).                                        *)
(***************************************************************************)
EXTENDS Equivalences

(* The redundancy of a clause: it has two copies if it is in both sets. *)
Of(redundant) == IF redundant THEN red ELSE irr
ReplaceBy(c, redundant, new) ==
  IF redundant THEN red' = (red \ {c}) \cup new /\ UNCHANGED irr
  ELSE irr' = (irr \ {c}) \cup new /\ UNCHANGED red

(* subsume_check: d subsumes c, or does but for one literal. *)
Subsumable(c, d) == /\ Cardinality(c) > 2 /\ Cardinality(d) <= Cardinality(c)
                    /\ Unassigned(c) /\ Unassigned(d)
Promoted(fromRed, toRed) == fromRed /\ ~toRed

(* subsume_clause: a redundant clause that subsumes an irredundant one becomes
   irredundant. *)
Subsume ==
  /\ Start1("subsume")
  /\ \E fromRed, toRed \in BOOLEAN : \E d \in Of(fromRed), c \in Of(toRed) :
       /\ Subsumable(c, d) /\ d \subseteq c /\ <<d, fromRed>> # <<c, toRed>>
       /\ irr' = (IF toRed THEN irr ELSE irr \ {c}) \cup
                 (IF Promoted(fromRed, toRed) THEN {d} ELSE {})
       /\ red' = (IF toRed THEN red \ {c} ELSE red) \
                 (IF Promoted(fromRed, toRed) THEN {d} ELSE {})
  /\ GoTo("simplify")
  /\ UNCHANGED unitVars

(* strengthen_clause: the negation of the literal is removed. *)
Strengthen ==
  /\ Start1("subsume")
  /\ \E redundant \in BOOLEAN : \E c \in Of(redundant), d \in DB : \E l \in d :
       /\ Subsumable(c, d) /\ -l \in c /\ d \ {l} \subseteq c
       /\ ReplaceBy(c, redundant, {c \ {-l}})
  /\ GoTo("simplify")
  /\ UNCHANGED unitVars

-----------------------------------------------------------------------------
(* vivify: the candidate 'cand' is irredundant, or redundant if 'flag' is
   set; 'gate' are the clauses propagated, without it, 'work' its literals
   not looked at, 'marked' the decisions (negations of literals of it), 'count'
   the last literal if it is decided, 'pivot' one that can be removed. *)
(* flush_vivification_schedule: clauses subsumed by others to be vivified. *)
VivifyFlush ==
  /\ Start1("vivify")
  /\ \E redundant \in BOOLEAN : \E c, d \in Of(redundant) :
       c # d /\ c \subseteq d /\ ReplaceBy(d, redundant, {})
  /\ GoTo("simplify")
  /\ UNCHANGED unitVars

(* The clauses watched: only irredundant ones for irredundant candidates. *)
Watched(c, redundant) ==
  IF redundant THEN irr \cup (red \ {c}) ELSE irr \ {c}

StartVivify ==
  /\ Start("vivify")
  /\ \E redundant \in BOOLEAN : \E c \in Of(redundant) :
       /\ Cardinality(c) > 2 /\ ~IsSatisfied(c)
       /\ cand' = c /\ flag' = redundant
       /\ gate' = Watched(c, redundant) /\ work' = Rest(c)
  /\ GoTo("vivify")
  /\ UNCHANGED <<dbVars, unitVars, bound, pivot, todo, queue, markVars, count>>

VivifySatisfied ==
  /\ Start1("vivify")
  /\ \E redundant \in BOOLEAN : \E c \in Of(redundant) :
       Cardinality(c) > 2 /\ IsSatisfied(c) /\ ReplaceBy(c, redundant, {})
  /\ GoTo("simplify")
  /\ UNCHANGED unitVars

(* vivify_propagate and inst_propagate. *)
Conflict == Falsified(gate, Holds)
Quiet == ~Conflict /\ Forced(gate, Holds) = {}
ImplyTrail ==
  /\ pc \in {"vivify", "last", "instantiate"} /\ ~Conflict
  /\ Forced(gate, Holds) # {}
  /\ trail' = trail \cup Forced(gate, Holds)
  /\ UNCHANGED <<userVars, dbVars, unitVars, stackVars, tainted, limitVars, pc,
                 back, pivot, cand, todo, queue, gate, work, marked, private,
                 reprs, count, flag>>

VivifyDecide ==
  /\ pc = "vivify" /\ Quiet
  /\ \E l \in work :
       /\ {l, -l} \cap Holds = {}
       /\ trail' = trail \cup {-l} /\ marked' = marked \cup {-l}
       /\ work' = work \ {l} /\ count' = l
  /\ UNCHANGED <<userVars, dbVars, unitVars, stackVars, tainted, limitVars, pc,
                 back, pivot, cand, todo, queue, gate, private, reprs, flag>>

(* A literal implied to be false can be removed. *)
VivifyImplied ==
  /\ pc = "vivify" /\ Quiet
  /\ \E l \in work : -l \in Holds /\ pivot' = l /\ work' = work \ {l}
  /\ count' = 0
  /\ UNCHANGED <<userVars, dbVars, unitVars, stackVars, tainted, limitVars, pc,
                 back, cand, todo, queue, gate, markVars, flag>>

(* Unit propagation over F of the literals A runs into a conflict, or derives
   the literal l. *)
Implied(F, A) ==
  LET closed == {S \in SUBSET LitsOf(F) : Forced(F, S \cup A) = {}}
  IN {k \in LitsOf(F) \cup A : \A S \in closed : k \in S \cup A}
Refutes(F, A, l) == Falsified(F, Implied(F, A)) \/ l \in Implied(F, A)

(* The candidate is implied: by a conflict, or because its literal l is. *)
Found ==
  (IF Conflict THEN {0} ELSE {}) \cup {l \in work : Quiet /\ l \in Holds}
OnlyBinary(l) == Refutes(Binaries(gate), units \cup marked, l)

(* It is removed if it is irredundant or only binary clauses are involved. *)
VivifySubsume ==
  /\ pc = "vivify"
  /\ \E l \in Found : ~flag \/ OnlyBinary(l)
  /\ ReplaceBy(cand, flag, {})
  /\ NoJob /\ GoTo("simplify")
  /\ UNCHANGED <<userVars, unitVars, stackVars, tainted, limitVars>>

(* vivify_strengthen: the clause r replaces the candidate. *)
VivifyStrengthen(r) ==
  /\ Assign(IF Cardinality(r) = 1 THEN r ELSE {}, FALSE)
  /\ ReplaceBy(cand, flag, IF Cardinality(r) = 1 THEN {} ELSE {r})
  /\ NoJob /\ PropagateThen("simplify")
  /\ UNCHANGED <<userVars, stackVars, tainted, limitVars>>

(* vivify_post_process_analysis: a redundant candidate is replaced by the
   literals the analysis needs, or kept if it needs them all. *)
VivifyLearn ==
  /\ pc = "vivify" /\ flag
  /\ \E l \in Found, needed \in SUBSET marked :
       LET r == Negated(needed) \cup ({l} \ {0})
       IN /\ Refutes(gate, units \cup needed, l) /\ r # {}
          /\ VivifyStrengthen(IF r = Rest(cand) THEN cand ELSE r)

(* vivifyinst: the last literal, if it is a decision, is assumed to be true
   instead; it can be removed if that fails. *)
VivifyLast ==
  /\ pc = "vivify" /\ Quiet /\ work = {} /\ count # 0
  /\ trail' = (marked \ {-count}) \cup {count}
  /\ GoTo("last")
  /\ UNCHANGED <<userVars, dbVars, unitVars, stackVars, tainted, limitVars,
                 pivot, cand, todo, queue, gate, work, marked, private, reprs,
                 count, flag>>

(* The decisions, without the literal to be removed, are the new clause. *)
VivifyRemove ==
  /\ \/ pc = "vivify" /\ Quiet /\ work = {} /\ count = 0 /\ pivot # 0
     \/ pc = "last" /\ (Conflict \/ (Quiet /\ pivot # 0))
  /\ VivifyStrengthen(Negated(marked) \
                      (IF pc = "last" /\ Conflict THEN {count} ELSE {}))

VivifyKeep ==
  /\ pc = "last" /\ Quiet /\ pivot = 0
  /\ NoJob /\ GoTo("simplify")
  /\ UNCHANGED <<userVars, dbVars, unitVars, stackVars, tainted, limitVars>>

-----------------------------------------------------------------------------
(* instantiate_candidate: the literal 'pivot' of the irredundant clause 'cand'
   is removed if assuming it, with the others false, fails. *)
Instantiate ==
  /\ Start("instantiate")
  /\ \E c \in irr : \E l \in c :
       /\ Active(l) /\ ~Frozen(l)
       /\ ~IsSatisfied(c) /\ Cardinality(Rest(c)) > 2
       /\ cand' = c /\ pivot' = l /\ gate' = DB
       /\ trail' = {l} \cup Negated(Rest(c) \ {l})
  /\ GoTo("instantiate")
  /\ UNCHANGED <<dbVars, unitVars, bound, todo, queue, work, marked, private,
                 reprs, count, flag>>

Instantiated ==
  /\ pc = "instantiate" /\ (Conflict \/ Quiet)
  /\ irr' = IF Conflict THEN (irr \ {cand}) \cup {cand \ {pivot}} ELSE irr
  /\ NoJob /\ GoTo("simplify")
  /\ UNCHANGED <<userVars, red, unitVars, stackVars, tainted, limitVars>>

-----------------------------------------------------------------------------
Strengthens ==
  \/ Subsume \/ Strengthen \/ VivifyFlush \/ StartVivify \/ VivifySatisfied
  \/ ImplyTrail \/ VivifyDecide \/ VivifyImplied \/ VivifySubsume
  \/ VivifyLearn \/ VivifyLast \/ VivifyRemove \/ VivifyKeep
  \/ Instantiate \/ Instantiated
=============================================================================
