------------------------------- MODULE Blocking -------------------------------
(***************************************************************************)
(* The techniques that remove clauses which are not implied by the others: *)
(* blocked clause elimination with pure literals (block), covered clause   *)
(* elimination (cover) and globally blocked clause elimination             *)
(* (condition).                                                            *)
(***************************************************************************)
EXTENDS Elimination

(* block: 'pivot' is the literal blocked on, 'queue' the clauses found to be
   blocked, 'marked' the literals not to be tried, 'flag' whether a literal
   was pure.  A literal is tried again whenever a clause with its negation is
   removed: here any literal at any time, in any order. *)
StartBlock ==
  /\ Start("block")
  /\ irr' = {Rest(c) : c \in Open(irr)} /\ red' = {Rest(c) : c \in Open(red)}
  /\ marked' = UNION {Negated(c) : c \in {c \in irr' :
                        Cardinality(c) > opts.blockmaxclslim}}
  /\ GoTo("block")
  /\ UNCHANGED <<unitVars, bound, pivot, cand, todo, queue, gate, work, trail,
                 private, reprs, count, flag>>

BlockSized(c) == Cardinality(c) \in opts.blockminclslim..opts.blockmaxclslim
Others(c, l) == c \ {l}

(* is_blocked_clause: all resolvents of c on l are tautological. *)
IsBlocked(c, l) ==
  \A d \in Occs(-l) : \E k \in Others(c, l) : -k \in Others(d, -l)

(* block_literal_with_one_negative_occ. *)
BlockedByOne(l) ==
  {c \in Occs(l) : BlockSized(c) /\ IsBlocked(c, l) /\
     \A d \in Occs(-l) : Cardinality(d) <= opts.blockmaxclslim}

(* block_literal_with_at_least_two_negative_occs. *)
BlockCandidates(l) ==
  {c \in Occs(l) : BlockSized(c) /\
     \E k \in Others(c, l), d \in Occs(-l) : -k \in d}
BlockImpossible(l) ==
  /\ Cardinality(BlockCandidates(l)) > 1
  /\ \E d \in Occs(-l) : \A k \in Others(d, -l) :
       -k \notin UNION BlockCandidates(l)
BlockedByMany(l) ==
  IF \E d \in Occs(-l) : Cardinality(d) > opts.blockmaxclslim
       \/ BlockImpossible(l)
  THEN {} ELSE {c \in BlockCandidates(l) : IsBlocked(c, l)}

(* block_literal: a literal without negative occurrences is pure. *)
BlockLiteral ==
  /\ pc = "block"
  /\ \E l \in Lit :
       /\ Active(l) /\ ~Frozen(l) /\ l \notin marked
       /\ Cardinality(Occs(-l)) <= opts.blockocclim
       /\ Occs(l) # {} \/ Occs(-l) = {}
       /\ pivot' = l
       /\ queue' = IF Occs(-l) = {} THEN Occs(l)
                   ELSE IF Cardinality(Occs(-l)) = 1 THEN BlockedByOne(l)
                   ELSE BlockedByMany(l)
  /\ GoTo("blocking")
  /\ UNCHANGED <<userVars, dbVars, unitVars, stackVars, tainted, limitVars,
                 cand, todo, gate, work, markVars, count, flag>>

BlockClause ==
  /\ pc = "blocking"
  /\ \E c \in queue :
       /\ Push(<<[witness |-> {pivot}, clause |-> c]>>)
       /\ irr' = irr \ {c} /\ queue' = queue \ {c}
  /\ UNCHANGED <<userVars, red, unitVars, tainted, limitVars, pc, back, pivot,
                 cand, todo, gate, work, markVars, count, flag>>

(* mark_pure, if the literal has no negative occurrences. *)
LiteralBlocked ==
  /\ pc = "blocking" /\ queue = {}
  /\ IF Occs(-pivot) = {}
     THEN status' = [status EXCEPT ![Abs(pivot)] = "pure"] /\ flag' = TRUE
     ELSE UNCHANGED <<status, flag>>
  /\ GoTo("block")
  /\ UNCHANGED <<userVars, dbVars, units, unsat, stackVars, tainted, limitVars,
                 pivot, cand, todo, queue, gate, work, markVars, count>>

BlockDone ==
  /\ pc = "block"
  /\ red' = IF flag THEN {c \in red : ~Stale(c)} ELSE red
  /\ NoJob /\ GoTo("simplify")
  /\ UNCHANGED <<userVars, irr, unitVars, stackVars, tainted, limitVars>>

-----------------------------------------------------------------------------
(* cover: the literals of the candidate 'cand' are assigned false ('trail' has
   their negations), 'marked' are the covered literals, 'work' those still to
   be tried and 'private' the entries prepared for the extension stack. *)
StartCover ==
  /\ Start("cover") /\ ~opts.restoreflush
  /\ irr' = Open(irr) /\ queue' = {c \in Open(irr) : \E l \in c : ~Frozen(l)}
  /\ GoTo("cover")
  /\ UNCHANGED <<red, unitVars, bound, pivot, cand, todo, gate, work, markVars,
                 count, flag>>

CoverClause ==
  /\ pc = "cover"
  /\ \E c \in queue :
       /\ cand' = c /\ queue' = queue \ {c}
       /\ marked' = Rest(c) /\ work' = Rest(c) /\ trail' = Negated(Rest(c))
  /\ GoTo("covering")
  /\ UNCHANGED <<userVars, dbVars, unitVars, stackVars, tainted, limitVars,
                 pivot, todo, gate, private, reprs, count, flag>>

Covered(l) == [witness |-> {l}, clause |-> marked]
Holds == units \cup trail

(* cover_propagate_asymmetric, over the other irredundant clauses. *)
CoverAsymmetric ==
  LET new == Forced(irr \ {cand}, Holds)
  IN /\ pc = "covering" /\ ~Falsified(irr \ {cand}, Holds) /\ new # {}
     /\ trail' = trail \cup new /\ work' = marked
     /\ UNCHANGED <<userVars, dbVars, unitVars, stackVars, tainted, limitVars,
                    pc, back, pivot, cand, todo, queue, gate, marked, private,
                    reprs, count, flag>>

(* cover_propagate_covered: the open literals that all clauses with -l, if
   not satisfied otherwise, have in common. *)
Resolving1(l) == {d \in Occs(-l) : Others(d, -l) \cap Holds = {}}
InCommon(l) ==
  {k \in UNION Resolving1(l) :
     k # -l /\ -k \notin Holds /\ \A d \in Resolving1(l) : k \in d}

CoverLiteral ==
  /\ pc = "covering"
  /\ ~Falsified(irr \ {cand}, Holds) /\ Forced(irr \ {cand}, Holds) = {}
  /\ \E l \in work :
       IF Frozen(l) \/ (Resolving1(l) # {} /\ InCommon(l) = {})
       THEN work' = work \ {l} /\ UNCHANGED <<trail, marked, private, pc,
                                              back>>
       ELSE /\ private' = Append(private, Covered(l))
            /\ marked' = marked \cup InCommon(l) /\ work' = marked'
            /\ trail' = trail \cup Negated(InCommon(l))
            /\ IF Resolving1(l) = {} THEN GoTo("covered")
               ELSE UNCHANGED <<pc, back>>
  /\ UNCHANGED <<userVars, dbVars, unitVars, stackVars, tainted, limitVars,
                 pivot, cand, todo, queue, gate, reprs, count, flag>>

(* The candidate is covered: it became a tautology, and was not before the
   first covered literal.  Its false literals are added to all the entries
   but the last. *)
Entries1 ==
  [i \in DOMAIN private |->
    [private[i] EXCEPT !.clause =
       IF i < Len(private) THEN @ \cup (cand \ Rest(cand)) ELSE @]]

ClauseCovered ==
  /\ \/ pc = "covered"
     \/ pc = "covering" /\ (Falsified(irr \ {cand}, Holds) \/
          (work = {} /\ Forced(irr \ {cand}, Holds) = {}))
  /\ IF private # <<>> /\ (pc = "covered" \/ Falsified(irr \ {cand}, Holds))
     THEN Push(Entries1) /\ irr' = irr \ {cand}
     ELSE UNCHANGED <<stackVars, irr>>
  /\ cand' = {} /\ marked' = {} /\ work' = {} /\ trail' = {} /\ private' = <<>>
  /\ GoTo("cover")
  /\ UNCHANGED <<userVars, red, unitVars, tainted, limitVars, pivot, todo,
                 queue, gate, reprs, count, flag>>

-----------------------------------------------------------------------------
(* condition runs in the middle of the search: 'trail' is the assignment of
   the decision levels, made total on the variables that are active and not
   frozen, 'gate' the clauses it watches and 'queue' the candidates it may
   remove.  'marked' are the conditional literals, the other true literals
   are the autarky, 'work' those unassigned for the candidate 'cand'. *)
Conditionals(F, A) ==
  {l \in A : \E c \in F : c \cap A = {} /\ -l \in c}

StartCondition ==
  /\ Start("condition")
  /\ irr' = Open(irr) /\ gate' = Open(irr)
  /\ \E neg \in SUBSET {v \in Var : Active(v) /\ ~Frozen(v)} :
       LET A == Negated(neg) \cup
                {v \in Var : Active(v) /\ ~Frozen(v) /\ v \notin neg}
       IN /\ trail' = A /\ marked' = Conditionals(Open(irr), A)
          /\ queue' = {c \in Open(irr) : c \cap A # {}}
  /\ GoTo("condition")
  /\ UNCHANGED <<red, unitVars, bound, pivot, cand, todo, work, private, reprs,
                 count, flag>>

Autarky == trail \ marked

ConditionClause ==
  /\ pc = "condition"
  /\ \E c \in queue : cand' = c /\ queue' = queue \ {c} /\ c \cap Autarky # {}
  /\ GoTo("conditioning")
  /\ UNCHANGED <<userVars, dbVars, unitVars, stackVars, tainted, limitVars,
                 pivot, todo, gate, work, markVars, count, flag>>

(* A conditional literal not negated in the candidate is unassigned; autarky
   literals falsified in a clause that is not satisfied any more become
   conditional. *)
Unsupported(l) ==
  {k \in Autarky : \E d \in gate : l \in d /\ -k \in d /\ d \cap trail = {l}}

Unassignable == {l \in marked \cap trail : -l \notin cand}
ConditionUnassign ==
  /\ pc = "conditioning" /\ cand \cap Autarky # {}
  /\ \E l \in Unassignable :
       /\ trail' = trail \ {l} /\ work' = work \cup {l}
       /\ marked' = (marked \ {l}) \cup Unsupported(l)
  /\ UNCHANGED <<userVars, dbVars, unitVars, stackVars, tainted, limitVars, pc,
                 back, pivot, cand, todo, queue, gate, private, reprs, count,
                 flag>>

(* A remaining autarky that satisfies the candidate is its witness.  Then the
   assignment is as before. *)
ConditionDone ==
  /\ pc = "conditioning" /\ (Unassignable = {} \/ cand \cap Autarky = {})
  /\ IF cand \cap Autarky # {}
     THEN /\ Push(<<[witness |-> Autarky, clause |-> cand]>>)
          /\ irr' = irr \ {cand}
     ELSE UNCHANGED <<stackVars, irr>>
  /\ trail' = trail \cup work /\ marked' = Conditionals(gate, trail')
  /\ work' = {} /\ cand' = {}
  /\ GoTo("condition")
  /\ UNCHANGED <<userVars, red, unitVars, tainted, limitVars, pivot, todo,
                 queue, gate, private, reprs, count, flag>>

RoundDone ==
  /\ pc \in {"cover", "condition"}
  /\ NoJob /\ GoTo("simplify")
  /\ UNCHANGED <<userVars, dbVars, unitVars, stackVars, tainted, limitVars>>

-----------------------------------------------------------------------------
Blocks ==
  \/ StartBlock \/ BlockLiteral \/ BlockClause \/ LiteralBlocked \/ BlockDone
  \/ StartCover \/ CoverClause \/ CoverAsymmetric \/ CoverLiteral
  \/ ClauseCovered \/ StartCondition \/ ConditionClause \/ ConditionUnassign
  \/ ConditionDone \/ RoundDone
=============================================================================
