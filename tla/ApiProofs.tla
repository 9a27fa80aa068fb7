----------------------------- MODULE ApiProofs ------------------------------
(***************************************************************************)
(* Every step of the solver, of the calls on it and of the tester keeps    *)
(* the invariant, and the properties of the solver with a propagator       *)
(* follow from it for all constants: any number of variables, any formula, *)
(* any plan of calls.  At the end, requests to terminate.                  *)
(***************************************************************************)
EXTENDS ApiSearchProofs

-----------------------------------------------------------------------------
(* The solver between two searches.                                        *)

\* What holds between two searches
IdlePre(c, m, q, W, o) ==
  /\ Loose(c, W, o) /\ ~c.private /\ NextOf(m, c) /\ m.must = 0
  /\ c.conflict = None \/ c.unsat
  /\ c.unsat \/ q.unsat_constraint \/ c.connected => Ordered(c.trail)

\* follows from the invariant,
LEMMA IdlePres ==
  ASSUME NEW c, NEW m, NEW q, NEW g, NEW W, Good(c, m, q, "idle", g, W), NEW o, ~o
  PROVE  IdlePre(c, m, q, W, o)
<1>1. Loose(c, W, o) /\ ~c.private /\ NextOf(m, c)
  BY RestBase
<1>2. (c.conflict = None \/ c.unsat) /\ m.must = 0
  BY CalmStart
<1>3. c.unsat \/ q.unsat_constraint \/ c.connected => Ordered(c.trail)
  BY DEF Good, CoreAt
<1> QED
  BY <1>1, <1>2, <1>3 DEF IdlePre

\* and the invariant from it.
LEMMA IdleGood ==
  ASSUME NEW d, NEW m, NEW q, NEW W, NEW o, IdlePre(d, m, q, W, o), NEW g,
         NEW l \in {"idle", "start"}
  PROVE  Good(d, m, q, l, g, W)
<1>1. CoreAt(d, q, l, W)
  BY CoreIdle DEF IdlePre
<1>2. ConflictAt(d, m, q, l)
  BY DEF IdlePre, ConflictAt, Resting
<1>3. ControlAt(d, m, l)
  BY DEF IdlePre, ControlAt, NextOf, Asking
<1>4. PendingAt(d, m, l, g)
  BY DEF IdlePre, PendingAt, NextOf, Resting
<1> QED
  BY <1>1, <1>2, <1>3, <1>4 DEF Good, IdlePre, NextOf

\* a solver that is unsatisfiable stays on level 0.
UnsatLow(c, d) == (c.unsat => Level(c) = 0) => (d.unsat => Level(d) = 0)

\* What every call between two searches keeps.
Idled(c, d, m, p, V, o) ==
  /\ IdlePre(d, m, p, V, o) /\ c.vars \subseteq d.vars /\ UnsatLow(c, d)
  /\ d.connected = c.connected

\* When calls keep it: those that keep the lemmas,
LEMMA IdleMore ==
  ASSUME NEW c, NEW m, NEW q, NEW W, NEW o, IdlePre(c, m, q, W, o),
         NEW d, NEW V, Loose(d, V, o), d.private = c.private, d.connected = c.connected,
         LemmasKept(c, d), c.vars \subseteq d.vars, Roots(c.trail) \subseteq Roots(d.trail),
         d.conflict = None \/ d.unsat, NEW p,
         d.unsat \/ p.unsat_constraint \/ d.connected => Ordered(d.trail), UnsatLow(c, d)
  PROVE  Idled(c, d, m, p, V, o) /\ Kept(c, d)
<1>1. Struct(c) /\ Struct(d) /\ NextOf(m, c)
  BY DEF IdlePre, Loose
<1>2. Pending(d) \subseteq Pending(c) /\ Len(d.lemmas) = Len(c.lemmas)
  BY <1>1, PendingLess DEF LemmasKept
<1>3. NextOf(m, d)
  BY <1>1, <1>2 DEF NextOf
<1>4. FormerTheory(d) = FormerTheory(c)
  BY <1>1, LemmasTheory
<1> QED
  BY <1>3, <1>4 DEF Idled, IdlePre, Kept

\* those the search does not see,
LEMMA IdleCalm ==
  ASSUME NEW c, NEW m, NEW q, NEW W, NEW o, IdlePre(c, m, q, W, o),
         NEW d, Calm(c, d, W, o), NEW p, p.unsat_constraint => q.unsat_constraint
  PROVE  Idled(c, d, m, p, W, o) /\ Kept(c, d)
<1>1. /\ Loose(d, W, o) /\ (Ordered(c.trail) => Ordered(d.trail))
      /\ d.trail = c.trail /\ d.control = c.control /\ d.connected = c.connected
      /\ d.private = c.private /\ d.conflict = c.conflict /\ d.unsat = c.unsat
      /\ d.lemmas = c.lemmas /\ c.vars \subseteq d.vars
  BY DEF Calm, Quiet
<1>2. Struct(c) /\ Struct(d)
  BY <1>1 DEF IdlePre, Loose
<1>3. LemmasKept(c, d) /\ Roots(c.trail) \subseteq Roots(d.trail)
  BY <1>1, <1>2, PendingSame
<1>4. UnsatLow(c, d)
  BY <1>1 DEF UnsatLow, Level
<1>5. d.conflict = None \/ d.unsat
  BY <1>1 DEF IdlePre
<1>6. d.unsat \/ p.unsat_constraint \/ d.connected => Ordered(d.trail)
  BY <1>1 DEF IdlePre
<1> QED
  BY <1>1, <1>3, <1>4, <1>5, <1>6, IdleMore

\* backtracking to level 0
RootedIdle(c, b, W, o) ==
  /\ Loose(b, W, o) /\ Ordered(b.trail) /\ Level(b) = 0 /\ Same(c, b)
  /\ b.conflict = c.conflict /\ Roots(b.trail) = Roots(c.trail)

\* for which this holds,
LEMMA RootBack ==
  ASSUME NEW c, NEW W, NEW o, Loose(c, W, o), NEW b, b = Backtracked(c, 0)
  PROVE  RootedIdle(c, b, W, o)
<1>1. BackFacts(c, b, 0) /\ Loose(b, W, o) /\ Level(b) = 0
  BY BackFine
<1>2. Struct(c)
  BY DEF Loose
<1> QED
  BY <1>1, <1>2, BackRoots, RootAny DEF BackFacts, RootedIdle

\* so that it keeps it,
LEMMA IdleRoot ==
  ASSUME NEW c, NEW m, NEW q, NEW W, NEW o, IdlePre(c, m, q, W, o),
         NEW b, b = Backtracked(c, 0), NEW p
  PROVE  Idled(c, b, m, p, W, o) /\ Kept(c, b) /\ Level(b) = 0 /\ Ordered(b.trail)
<1>1. RootedIdle(c, b, W, o)
  BY RootBack DEF IdlePre
<1>2. /\ Loose(b, W, o) /\ Ordered(b.trail) /\ Level(b) = 0
      /\ b.conflict = c.conflict /\ Roots(b.trail) = Roots(c.trail)
      /\ b.private = c.private /\ b.connected = c.connected /\ b.lemmas = c.lemmas
      /\ b.vars = c.vars /\ b.unsat = c.unsat
  BY <1>1 DEF RootedIdle, Same
<1>3. Struct(c) /\ Struct(b)
  BY <1>2 DEF IdlePre, Loose
<1>4. LemmasKept(c, b)
  BY <1>2, <1>3, PendingSame
<1>5. UnsatLow(c, b) /\ (b.conflict = None \/ b.unsat)
  BY <1>2 DEF UnsatLow, IdlePre
<1> QED
  BY <1>2, <1>4, <1>5, IdleMore

\* and several calls.
LEMMA IdleTrans ==
  ASSUME NEW c, NEW d, NEW e, NEW m, NEW p, NEW W, NEW q, NEW V, NEW o,
         Idled(c, d, m, p, W, o), Kept(c, d), Idled(d, e, m, q, V, o), Kept(d, e)
  PROVE  Idled(c, e, m, q, V, o) /\ Kept(c, e)
<1>1. Kept(c, e)
  BY KeptTrans
<1> QED
  BY <1>1 DEF Idled, UnsatLow, Kept

\* It is kept, with the theory:
IdleKept(c, d, m, p, V, o) == Idled(c, d, m, p, V, o) /\ Kept(c, d)

\* for fewer models,
LEMMA IdleLess ==
  ASSUME NEW c, NEW m, NEW q, NEW W, NEW o, IdlePre(c, m, q, W, o), NEW V \in SUBSET W
  PROVE  IdlePre(c, m, q, V, o)
  BY LooseLess DEF IdlePre

\* with another query,
LEMMA IdleAsked ==
  ASSUME NEW c, NEW m, NEW q, NEW W, NEW o, IdlePre(c, m, q, W, o),
         NEW p, p.unsat_constraint => q.unsat_constraint
  PROVE  IdleKept(c, c, m, p, W, o)
<1>1. IdlePre(c, m, p, W, o)
  BY DEF IdlePre
<1>2. Kept(c, c)
  BY KeptSelf
<1> QED
  BY <1>1, <1>2 DEF IdleKept, Idled, UnsatLow

\* by forgetting the extension,
LEMMA IdlePlain ==
  ASSUME NEW c, NEW m, NEW q, NEW W, NEW o, IdlePre(c, m, q, W, o),
         NEW d, d = Unextended(c), NEW p, p.unsat_constraint => q.unsat_constraint
  PROVE  IdleKept(c, d, m, p, W, o)
<1>1. Calm(c, d, W, o)
  BY UnextendedCalm DEF IdlePre
<1> QED
  BY <1>1, IdleCalm DEF IdleKept

\* with
PlainOf(c) == Unextended(Backtracked(c, 0))

\* and without the trail,
LEMMA IdleBack ==
  ASSUME NEW c, NEW m, NEW q, NEW W, NEW o, IdlePre(c, m, q, W, o),
         NEW d, d = PlainOf(c), NEW p
  PROVE  IdleKept(c, d, m, p, W, o) /\ Level(d) = 0 /\ Ordered(d.trail)
<1> DEFINE b == Backtracked(c, 0)
<1>1. Idled(c, b, m, p, W, o) /\ Kept(c, b) /\ Level(b) = 0 /\ Ordered(b.trail)
  BY IdleRoot
<1>2. d = Unextended(b)
  BY DEF PlainOf
<1> HIDE DEF b
<1>3. IdlePre(b, m, p, W, o)
  BY <1>1 DEF Idled
<1>4. Calm(b, d, W, o)
  BY <1>2, <1>3, UnextendedCalm DEF IdlePre
<1>5. Idled(b, d, m, p, W, o) /\ Kept(b, d)
  BY <1>3, <1>4, IdleCalm
<1>6. Idled(c, d, m, p, W, o) /\ Kept(c, d)
  BY <1>1, <1>5, IdleTrans
<1> QED
  BY <1>1, <1>4, <1>6 DEF IdleKept, Calm, Quiet, Level

\* by new variables,
LEMMA IdleGrow ==
  ASSUME NEW c, NEW u, NEW m, NEW p, NEW W, NEW o, IdleKept(c, u, m, p, W, o),
         NEW l \in Lit, NEW d, d = VarsPut(u, u.vars \cup {Abs(l)})
  PROVE  IdleKept(c, d, m, p, W, o) /\ Abs(l) \in d.vars
<1> DEFINE X == u.vars \cup {Abs(l)}
<1>1. Idled(c, u, m, p, W, o) /\ Kept(c, u) /\ IdlePre(u, m, p, W, o)
  BY DEF IdleKept, Idled
<1>2. Loose(u, W, o) /\ Struct(u)
  BY <1>1 DEF IdlePre, Loose
<1>3. X \in SUBSET Var /\ u.vars \subseteq X /\ d = VarsPut(u, X)
  BY <1>2, LitFacts, StructFields DEF FieldTypes
<1> HIDE DEF X
<1>4. Calm(u, d, W, o) /\ d.vars = X
  BY <1>2, <1>3, VarsPutFine
<1>5. Idled(u, d, m, p, W, o) /\ Kept(u, d)
  BY <1>1, <1>4, IdleCalm
<1>6. Idled(c, d, m, p, W, o) /\ Kept(c, d)
  BY <1>1, <1>5, IdleTrans
<1> QED
  BY <1>4, <1>6 DEF IdleKept, X

\* No natural number is below 0.
LEMMA NoneBelow == \A n \in Nat : n <= 0 => n = 0
  OBVIOUS

\* by a new clause, for the models of it,
LEMMA IdleClause ==
  ASSUME NEW c, NEW m, NEW q, NEW W, NEW o, IdlePre(c, m, q, W, o), NEW cl \in Clause,
         Over(cl, c.vars), NEW V \in SUBSET W, \A n \in V : Holds(n, cl),
         NEW red \in BOOLEAN, NEW d, d = ClauseAdded(PlainOf(c), cl, red, FALSE), NEW p
  PROVE  IdleKept(c, d, m, p, V, o)
<1> DEFINE b == PlainOf(c)
<1>1. IdlePre(c, m, q, V, o)
  BY IdleLess
<1>2. IdleKept(c, b, m, p, V, o) /\ Level(b) = 0 /\ Ordered(b.trail)
  BY <1>1, IdleBack
<1>3. d = ClauseAdded(b, cl, red, FALSE)
  OBVIOUS
<1> HIDE DEF b
<1>4. /\ Idled(c, b, m, p, V, o) /\ Kept(c, b) /\ IdlePre(b, m, p, V, o)
      /\ Loose(b, V, o) /\ Struct(b) /\ (b.conflict = None \/ b.unsat)
  BY <1>2 DEF IdleKept, Idled, IdlePre, Loose
<1>5. AddOk(b, V, cl)
  <2>1. Over(cl, b.vars)
    BY <1>4 DEF Over, Kept
  <2> QED
    BY <1>4, <2>1 DEF AddOk
<1>6. AddedFacts(b, d, cl, V, o)
  BY <1>3, <1>4, <1>5, AddedFine
<1>7. AddFacts(b, d, V, o) /\ (d.conflict = None \/ d.unsat)
  BY <1>2, <1>4, <1>6 DEF AddedFacts, Calmed
<1>8. /\ Loose(d, V, o) /\ Ordered(d.trail) /\ Frame(b, d) /\ Level(d) <= 0
      /\ Roots(b.trail) \subseteq Roots(d.trail)
  BY <1>2, <1>7 DEF AddFacts
<1>9. Level(d) = 0
  <2>1. Level(d) \in Nat
    BY <1>8, StructFields DEF Loose
  <2> QED
    BY <1>8, <2>1, NoneBelow, Zenon
<1>10. View(b, d)
  BY <1>8, ViewFacts
<1>11. /\ LemmasKept(b, d) /\ d.private = b.private /\ d.connected = b.connected
       /\ b.vars \subseteq d.vars
  BY <1>10 DEF View
<1>12. Idled(b, d, m, p, V, o) /\ Kept(b, d)
  <2>1. UnsatLow(b, d)
    BY <1>9 DEF UnsatLow
  <2> QED
    BY <1>4, <1>7, <1>8, <1>11, <2>1, IdleMore
<1>13. Idled(c, d, m, p, V, o) /\ Kept(c, d)
  BY <1>4, <1>12, IdleTrans
<1> QED
  BY <1>13 DEF IdleKept

\* by extending a model,
LEMMA IdleExtended ==
  ASSUME NEW c, NEW m, NEW q, NEW W, NEW o, IdlePre(c, m, q, W, o),
         NEW d, d = Extended(c)
  PROVE  IdleKept(c, d, m, q, W, o)
<1>1. Calm(c, d, W, o)
  BY ExtendedFine DEF IdlePre
<1> QED
  BY <1>1, IdleCalm DEF IdleKept

\* by 'freeze',
LEMMA IdleFrozen ==
  ASSUME NEW c, NEW m, NEW q, NEW W, NEW o, IdlePre(c, m, q, W, o), NEW v \in Var,
         NEW d, d = FreezeOf(c, v)
  PROVE  IdleKept(c, d, m, q, W, o)
<1>1. Calm(c, d, W, o)
  BY FreezeFine DEF IdlePre
<1> QED
  BY <1>1, IdleCalm DEF IdleKept

\* by 'melt',
LEMMA IdleMolten ==
  ASSUME NEW c, NEW m, NEW q, NEW W, NEW o, IdlePre(c, m, q, W, o), NEW v \in Var,
         c.frozen[v] > 0, NEW d, d = Molten(c, v)
  PROVE  IdleKept(c, d, m, q, W, o)
<1>1. Calm(c, d, W, o)
  BY MoltenFine DEF IdlePre
<1> QED
  BY <1>1, IdleCalm DEF IdleKept

\* by 'add_observed_var',
LEMMA IdleObserved ==
  ASSUME NEW c, NEW m, NEW q, NEW W, NEW o, IdlePre(c, m, q, W, o), NEW v \in Var,
         c.connected, NEW d, d = Observed(c, v)
  PROVE  IdleKept(c, d, m, q, W, o)
<1>1. Loose(c, W, o) /\ Struct(c)
  BY DEF IdlePre, Loose
<1>2. ObservedFacts(c, d, W, o)
  BY <1>1, ObservedFine
<1>3. /\ Loose(d, W, o) /\ (Ordered(c.trail) => Ordered(d.trail)) /\ Settings(c, d)
      /\ Roots(c.trail) \subseteq Roots(d.trail) /\ Level(d) <= Level(c) /\ Struct(d)
  BY <1>2 DEF ObservedFacts, Loose
<1>4. /\ d.connected = c.connected /\ d.private = c.private /\ d.lemmas = c.lemmas
      /\ d.conflict = c.conflict /\ d.unsat = c.unsat /\ c.vars \subseteq d.vars
  BY <1>3 DEF Settings
<1>5. LemmasKept(c, d)
  BY <1>1, <1>3, <1>4, PendingSame
<1>6. Level(c) \in Nat /\ Level(d) \in Nat
  BY <1>1, <1>3, StructFields
<1>7. UnsatLow(c, d)
  BY <1>3, <1>4, <1>6 DEF UnsatLow
<1>8. (d.conflict = None \/ d.unsat) /\ Ordered(d.trail)
  BY <1>3, <1>4 DEF IdlePre
<1> QED
  BY <1>3, <1>4, <1>5, <1>7, <1>8, IdleMore DEF IdleKept

\* by a new lemma of the user, restricted to the observed variables:
NewLemma(c, cl) ==
  [lits |-> {l \in cl : Abs(l) \in c.observed}, added |-> FALSE, isReason |-> FALSE]

\* it is one over the variables of the solver
LEMMA NewLemmaIs ==
  ASSUME NEW c, Struct(c), NEW cl \in Clause, NEW r, r = NewLemma(c, cl)
  PROVE  r \in LemmaSet /\ Over(r.lits, c.vars)
<1>1. c.observed \subseteq c.vars
  BY StructFields DEF Known
<1> DEFINE s == {l \in cl : Abs(l) \in c.observed}
<1>2. s \in Clause /\ Over(s, c.vars)
  BY <1>1 DEF Clause, Over
<1>3. r.lits = s /\ r \in [lits : {s}, added : BOOLEAN, isReason : BOOLEAN]
  BY Zenon DEF NewLemma
<1> HIDE DEF s
<1>4. r \in LemmaSet
  BY <1>2, <1>3 DEF LemmaSet
<1> QED
  BY <1>2, <1>3, <1>4

\* at the end of the list,
LEMMA Appended ==
  ASSUME NEW T, NEW s \in Seq(T), NEW r \in T, NEW t, t = Append(s, r)
  PROVE  /\ Len(s) \in Nat /\ Len(t) = Len(s) + 1 /\ DOMAIN t = 1..Len(s) + 1
         /\ DOMAIN s = 1..Len(s) /\ t[Len(s) + 1] = r
         /\ \A i \in 1..Len(s) : t[i] = s[i] /\ i \in DOMAIN t
         /\ \A i \in DOMAIN t : i \in 1..Len(s) \/ i = Len(s) + 1
  OBVIOUS

\* and becomes part of the theory;
LEMMA IdleLemma ==
  ASSUME NEW c, NEW m, NEW q, NEW W, NEW o, IdlePre(c, m, q, W, o), c.connected,
         NEW r \in LemmaSet, Over(r.lits, c.vars), NEW V \in SUBSET W,
         \A n \in V : Holds(n, r.lits), NEW d, d = LemmaPut(c, r)
  PROVE  /\ Idled(c, d, m, q, V, o) /\ d.vars = c.vars
         /\ FormerTheory(d) = FormerTheory(c) \cup {r.lits}
<1>1. Loose(c, W, o) /\ Struct(c) /\ NextOf(m, c) /\ m.must = 0
  BY DEF IdlePre, Loose
<1>2. PutFacts(c, d, V, o) /\ d.lemmas = Append(c.lemmas, r)
  BY <1>1, LemmaPutFine
<1>3. /\ Loose(d, V, o) /\ (Ordered(c.trail) => Ordered(d.trail))
      /\ d.vars = c.vars /\ d.connected = c.connected /\ d.private = c.private
      /\ d.trail = c.trail /\ d.control = c.control
      /\ d.conflict = c.conflict /\ d.unsat = c.unsat
  BY <1>2 DEF PutFacts
<1>4. c.lemmas \in Seq(LemmaSet)
  BY <1>1, StructFields DEF FieldTypes
<1> DEFINE n == Len(c.lemmas)
<1>5. /\ n \in Nat /\ Len(d.lemmas) = n + 1 /\ DOMAIN d.lemmas = 1..n + 1
      /\ DOMAIN c.lemmas = 1..n /\ d.lemmas[n + 1] = r
      /\ \A i \in 1..n : d.lemmas[i] = c.lemmas[i] /\ i \in DOMAIN d.lemmas
      /\ \A i \in DOMAIN d.lemmas : i \in 1..n \/ i = n + 1
  BY <1>2, <1>4, Appended
<1> HIDE DEF n
<1>6. FormerTheory(d) = FormerTheory(c) \cup {r.lits}
  <2>1. \A x \in FormerTheory(d) : x \in FormerTheory(c) \cup {r.lits}
    <3> SUFFICES ASSUME NEW i \in DOMAIN d.lemmas
                 PROVE d.lemmas[i].lits \in FormerTheory(c) \cup {r.lits}
      BY DEF FormerTheory
    <3>1. CASE i \in 1..n
      BY <1>5, <3>1 DEF FormerTheory
    <3>2. CASE i = n + 1
      BY <1>5, <3>2
    <3> QED
      BY <1>5, <3>1, <3>2
  <2>2. \A x \in FormerTheory(c) : x \in FormerTheory(d)
    <3> SUFFICES ASSUME NEW i \in DOMAIN c.lemmas
                 PROVE c.lemmas[i].lits \in FormerTheory(d)
      BY DEF FormerTheory
    <3> QED
      BY <1>5 DEF FormerTheory
  <2>3. r.lits \in FormerTheory(d)
    <3>1. n + 1 \in DOMAIN d.lemmas
      BY <1>5
    <3> QED
      BY <1>5, <3>1 DEF FormerTheory
  <2> QED
    BY <2>1, <2>2, <2>3
<1>7. Pending(d) \subseteq Pending(c) \cup {n + 1}
  <2> SUFFICES ASSUME NEW i \in DOMAIN d.lemmas, i \in 1..n, i \in Pending(d)
               PROVE  i \in Pending(c)
    BY <1>5 DEF Pending
  <2> QED
    BY <1>3, <1>5 DEF Pending
<1>8. NextOf(m, d)
  <2>1. m \in Mock /\ m.next \in 1..n + 1 /\ (\A i \in Pending(c) : m.next <= i)
    BY <1>1 DEF NextOf, FirstNeeded, n
  <2>2. m.next \in 1..Len(d.lemmas) + 1 /\ m.next <= n + 1
    BY <1>5, <2>1
  <2>3. \A i \in Pending(d) : m.next <= i
    BY <1>7, <2>1, <2>2
  <2> QED
    BY <1>1, <2>1, <2>2, <2>3 DEF NextOf, FirstNeeded
<1>9. UnsatLow(c, d)
  BY <1>3 DEF UnsatLow, Level
<1>10. IdlePre(d, m, q, V, o)
  BY <1>1, <1>3, <1>8 DEF IdlePre
<1> QED
  BY <1>3, <1>6, <1>9, <1>10 DEF Idled

\* by variables to observe later,
LEMMA IdleLater ==
  ASSUME NEW c, NEW m, NEW q, NEW W, NEW o, IdlePre(c, m, q, W, o), NEW s \in SUBSET Var,
         NEW k, k = [m EXCEPT !.fresh = s]
  PROVE  IdleKept(c, c, k, q, W, o)
<1>1. m \in Mock
  BY DEF IdlePre, NextOf
<1>2. k \in Mock /\ k.next = m.next /\ k.must = m.must
  BY <1>1 DEF Mock
<1>3. IdlePre(c, k, q, W, o)
  BY <1>2 DEF IdlePre, NextOf, FirstNeeded
<1>4. Kept(c, c)
  BY KeptSelf
<1> QED
  BY <1>3, <1>4 DEF IdleKept, Idled, UnsatLow

\* by telling the trail.
LEMMA IdleNotified ==
  ASSUME NEW c, NEW b, NEW m, NEW q, NEW W, NEW o, IdleKept(c, b, m, q, W, o),
         NEW d, d = Notified(b)
  PROVE  IdleKept(c, d, m, q, W, o)
<1>1. /\ IdlePre(b, m, q, W, o) /\ Loose(b, W, o) /\ Struct(b)
      /\ Idled(c, b, m, q, W, o) /\ Kept(c, b)
  BY DEF IdleKept, Idled, IdlePre, Loose
<1>2. /\ Loose(d, W, o) /\ (Ordered(b.trail) => Ordered(d.trail))
      /\ Same(b, d) /\ d.trail = b.trail /\ d.control = b.control
      /\ d.conflict = b.conflict
  BY <1>1, NotifiedFine
<1>3. /\ d.private = b.private /\ d.connected = b.connected /\ d.unsat = b.unsat
      /\ d.lemmas = b.lemmas /\ b.vars \subseteq d.vars /\ Struct(d)
  BY <1>2 DEF Same, Loose
<1>4. LemmasKept(b, d) /\ Roots(b.trail) \subseteq Roots(d.trail)
  BY <1>1, <1>2, <1>3, PendingSame
<1>5. UnsatLow(b, d)
  BY <1>2, <1>3 DEF UnsatLow, Level
<1>6. (d.conflict = None \/ d.unsat)
      /\ (d.unsat \/ q.unsat_constraint \/ d.connected => Ordered(d.trail))
  BY <1>1, <1>2, <1>3 DEF IdlePre
<1>7. Idled(b, d, m, q, W, o) /\ Kept(b, d)
  BY <1>1, <1>2, <1>3, <1>4, <1>5, <1>6, IdleMore
<1>8. Idled(c, d, m, q, W, o) /\ Kept(c, d)
  BY <1>1, <1>7, IdleTrans
<1> QED
  BY <1>8 DEF IdleKept

-----------------------------------------------------------------------------
(* Lookahead.                                                              *)

\* The steps of 'lookahead': back to level 0 if a propagator listens,
LookBack(c) == Unextended(IF c.connected THEN Backtracked(c, 0) ELSE c)

\* and else as well, to propagate there.
LookRoot(c) == Propagated(Backtracked(LookBack(c), 0))

\* A conflict there is one for good.
LookEnd(c, stop) ==
  IF stop THEN LookBack(c)
  ELSE UnsatSet(LookRoot(c), LookRoot(c).unsat \/ LookRoot(c).conflict # None)

\* So 'lookahead' keeps it.
LEMMA IdleLook ==
  ASSUME NEW c, NEW m, NEW q, NEW W, NEW o, IdlePre(c, m, q, W, o), NEW stop,
         ~stop => ~c.unsat, NEW d, d = LookEnd(c, stop)
  PROVE  IdleKept(c, d, m, q, W, o)
<1> DEFINE b == LookBack(c)
           r == Propagated(Backtracked(b, 0))
           x == (r.unsat \/ r.conflict # None)
<1>1. IdleKept(c, b, m, q, W, o)
  <2>1. CASE c.connected
    <3>1. b = PlainOf(c)
      BY <2>1 DEF LookBack, PlainOf
    <3> QED
      BY <3>1, IdleBack
  <2>2. CASE ~c.connected
    <3>1. b = Unextended(c)
      BY <2>2 DEF LookBack
    <3> QED
      BY <3>1, IdlePlain
  <2> QED
    BY <2>1, <2>2
<1>2. CASE stop
  BY <1>1, <1>2 DEF LookEnd
<1>3. CASE ~stop
  <2>1. d = UnsatSet(r, x)
    BY <1>3 DEF LookEnd, LookRoot
  <2>2. b.unsat = c.unsat
    <3> DEFINE e == IF c.connected THEN Backtracked(c, 0) ELSE c
    <3>1. Loose(c, W, o)
      BY DEF IdlePre
    <3>2. Loose(e, W, o) /\ e.unsat = c.unsat
      <4>1. CASE c.connected
        <5>1. e = Backtracked(c, 0)
          BY <4>1
        <5> HIDE DEF e
        <5>2. RootedIdle(c, e, W, o)
          BY <3>1, <5>1, RootBack
        <5> QED
          BY <5>2 DEF RootedIdle, Same
      <4>2. CASE ~c.connected
        BY <3>1, <4>2
      <4> QED
        BY <4>1, <4>2
    <3>3. b = Unextended(e)
      BY DEF LookBack
    <3> HIDE DEF e, b
    <3>4. UnextendedFacts(e, b, W, o)
      BY <3>2, <3>3, UnextendedFine
    <3> QED
      BY <3>2, <3>4 DEF UnextendedFacts, Quiet
  <2> HIDE DEF b
  <2>3. /\ Idled(c, b, m, q, W, o) /\ Kept(c, b) /\ IdlePre(b, m, q, W, o)
        /\ Loose(b, W, o) /\ Struct(b) /\ b.conflict = None /\ ~b.unsat
    BY <1>1, <1>3, <2>2 DEF IdleKept, Idled, IdlePre, Loose
  <2>4. RootedFacts(b, r, W, o)
    BY <2>3, RootedFine
  <2> HIDE DEF r
  <2>5. /\ Loose(r, W, o) /\ Ordered(r.trail) /\ Level(r) = 0 /\ Same(b, r)
        /\ Roots(b.trail) \subseteq Roots(r.trail) /\ (r.conflict # None => W = {})
    BY <2>3, <2>4 DEF RootedFacts
  <2>6. ~r.unsat /\ r.unsat \in BOOLEAN
    <3>1. Struct(r) /\ r.unsat = b.unsat
      BY <2>5 DEF Loose, Same
    <3> QED
      BY <2>3, <3>1, StructFields DEF FieldTypes
  <2>7. x \in BOOLEAN /\ (x => W = {}) /\ (x <=> r.conflict # None)
    BY <2>5, <2>6
  <2> HIDE DEF x
  <2>8. UnsatFacts(r, d, x, W, o)
    BY <2>1, <2>5, <2>7, UnsatSetFine
  <2>9. /\ Loose(d, W, o) /\ Ordered(d.trail) /\ Frame(r, d) /\ d.trail = r.trail
        /\ d.control = r.control /\ d.conflict = r.conflict /\ d.unsat = x
    BY <2>5, <2>8 DEF UnsatFacts
  <2>10. Frame(b, d)
    BY <2>5, <2>9, FrameFacts, Zenon
  <2>11. View(b, d)
    BY <2>10, ViewFacts
  <2>12. /\ LemmasKept(b, d) /\ d.private = b.private /\ d.connected = b.connected
         /\ b.vars \subseteq d.vars
    BY <2>11 DEF View
  <2>13. UnsatLow(b, d) /\ (d.conflict = None \/ d.unsat)
         /\ Roots(b.trail) \subseteq Roots(d.trail)
    BY <2>5, <2>7, <2>9 DEF UnsatLow, Level
  <2>14. Idled(b, d, m, q, W, o) /\ Kept(b, d)
    BY <2>3, <2>9, <2>12, <2>13, IdleMore
  <2>15. Idled(c, d, m, q, W, o) /\ Kept(c, d)
    BY <2>3, <2>14, IdleTrans
  <2> QED
    BY <2>15 DEF IdleKept
<1> QED
  BY <1>2, <1>3

-----------------------------------------------------------------------------
(* A value is flipped.                                                     *)

\* One literal of a trail takes the other value.
Flips(t, s, p) ==
  /\ t \in Seq(Entry) /\ s \in Seq(Entry) /\ Len(s) = Len(t)
  /\ DOMAIN s = DOMAIN t /\ DOMAIN t = 1..Len(t) /\ p \in DOMAIN t
  /\ \A i \in DOMAIN t :
       /\ s[i].level = t[i].level /\ s[i].reason = t[i].reason
       /\ s[i].lit \in {t[i].lit, -t[i].lit} /\ t[i].lit \in Lit /\ s[i].lit \in Lit
       /\ i # p => s[i] = t[i]

\* This is done by 'flip'.
FlipOf(c, p) == [c EXCEPT !.trail[p].lit = -c.trail[p].lit]

\* It changes the trail only.
LEMMA FlipFields ==
  ASSUME NEW c \in Core, NEW p \in DOMAIN c.trail, NEW d, d = FlipOf(c, p)
  PROVE  d \in Core /\ PutsTrail(c, d, d.trail) /\ Flips(c.trail, d.trail, p)
<1> DEFINE t == c.trail
           l == t[p].lit
           e == [t[p] EXCEPT !.lit = -l]
           s == [t EXCEPT ![p] = e]
<1>0. IsState(c) /\ FieldTypes(c)
  BY CoreState
<1>1. t \in Seq(Entry) /\ DOMAIN t = 1..Len(t)
  BY <1>0 DEF FieldTypes
<1>2. t[p] \in Entry
  BY <1>1
<1>3. l \in Lit /\ -l \in Lit
  <2>1. l \in Lit
    BY <1>2, EntryFacts
  <2> QED
    BY <2>1, LitFacts
<1>4. d = PutTrail(c, s)
  BY DEF FlipOf, PutTrail
<1> DEFINE k == -l
<1> HIDE DEF k
<1>5. e \in Entry /\ e.lit = -l /\ e.level = t[p].level /\ e.reason = t[p].reason
  <2>1. k \in Lit /\ k = -l
    BY <1>3 DEF k
  <2> DEFINE f == [t[p] EXCEPT !.lit = k]
  <2>2. f \in Entry /\ f.lit = k /\ f.level = t[p].level /\ f.reason = t[p].reason
    BY <1>2, <2>1 DEF Entry
  <2>3. e = f
    BY <2>1
  <2> HIDE DEF e, f
  <2> QED
    BY <2>1, <2>2, <2>3
<1> HIDE DEF e
<1>6. EntryTypes(t, s, p, e)
  BY <1>1, <1>5, EntrySet
<1>7. PutsTrail(c, d, s)
  BY <1>0, <1>4, TrailIsPut
<1> HIDE DEF s
<1>8. IsState(d)
  <2>1. IsState(c)
    BY <1>0
  <2>2. IsState([c EXCEPT !.trail = s])
    BY <2>1, Puts, Zenon
  <2> QED
    BY <1>4, <2>2, Zenon DEF PutTrail
<1>9. FieldTypes(d)
  BY <1>0, <1>6, <1>7 DEF FieldTypes, PutsTrail, EntryTypes
<1>10. d \in Core /\ d.trail = s
  BY <1>7, <1>8, <1>9, StateCore DEF PutsTrail
<1>11. \A i \in DOMAIN t : t[i] \in Entry /\ t[i].lit \in Lit
  <2>1. \A i \in DOMAIN t : t[i] \in Entry
    BY <1>1
  <2> QED
    BY <2>1, EntryFacts
<1> HIDE DEF l
<1>12. Flips(t, s, p)
  <2>1. /\ s \in Seq(Entry) /\ Len(s) = Len(t) /\ DOMAIN s = DOMAIN t /\ s[p] = e
        /\ \A i \in DOMAIN t : i # p => s[i] = t[i]
    BY <1>6 DEF EntryTypes
  <2>2. ASSUME NEW i \in DOMAIN t
        PROVE  /\ s[i].level = t[i].level /\ s[i].reason = t[i].reason
               /\ s[i].lit \in {t[i].lit, -t[i].lit} /\ t[i].lit \in Lit /\ s[i].lit \in Lit
               /\ i # p => s[i] = t[i]
    <3>1. CASE i # p
      BY <1>11, <2>1, <3>1
    <3>2. CASE i = p
      BY <1>3, <1>5, <1>11, <2>1, <3>2 DEF l
    <3> QED
      BY <3>1, <3>2
  <2> QED
    BY <1>1, <2>1, <2>2 DEF Flips
<1> QED
  BY <1>7, <1>10, <1>12

\* Neither the levels nor what is fixed depends on it.
LEMMA FlipTrail ==
  ASSUME NEW t, NEW s, NEW p, Flips(t, s, p)
  PROVE  /\ Distinct(t) => Distinct(s)
         /\ \A k \in Seq(Nat) : Staged(t, k) => Staged(s, k)
         /\ t[p].level > 0 => Roots(s) = Roots(t)
<1>1. /\ t \in Seq(Entry) /\ s \in Seq(Entry) /\ Len(s) = Len(t)
      /\ DOMAIN s = DOMAIN t /\ DOMAIN t = 1..Len(t) /\ p \in DOMAIN t
      /\ \A i \in DOMAIN t :
           /\ s[i].level = t[i].level /\ s[i].reason = t[i].reason
           /\ s[i].lit \in {t[i].lit, -t[i].lit} /\ t[i].lit \in Lit /\ s[i].lit \in Lit
           /\ i # p => s[i] = t[i]
  BY DEF Flips
<1>2. ASSUME Distinct(t) PROVE Distinct(s)
  <2> SUFFICES ASSUME NEW i \in DOMAIN s, NEW j \in DOMAIN s,
                      s[i].lit \in {s[j].lit, -s[j].lit}
               PROVE  i = j
    BY DEF Distinct
  <2> DEFINE a == t[i].lit
             b == t[j].lit
             x == s[i].lit
             y == s[j].lit
  <2>0. /\ a \in Lit /\ b \in Lit /\ x \in Lit /\ y \in Lit
        /\ x \in {a, -a} /\ y \in {b, -b} /\ x \in {y, -y}
    BY <1>1
  <2> HIDE DEF a, b, x, y
  <2>1. Abs(x) = Abs(a) /\ Abs(y) = Abs(b) /\ Abs(x) = Abs(y)
    BY <2>0, LitFacts, Zenon
  <2>2. a \in {b, -b}
    BY <2>0, <2>1, LitFacts, Zenon
  <2>3. t[i].lit \in {t[j].lit, -t[j].lit}
    BY <2>2 DEF a, b
  <2> QED
    BY <1>1, <1>2, <2>3 DEF Distinct
<1>3. ASSUME NEW k \in Seq(Nat), Staged(t, k) PROVE Staged(s, k)
  BY <1>1, <1>3 DEF Staged
<1>4. ASSUME t[p].level > 0 PROVE Roots(s) = Roots(t)
  <2>1. \A i \in DOMAIN t : t[i].level = 0 => s[i].lit = t[i].lit
    BY <1>1, <1>4
  <2> QED
    BY <1>1, <2>1 DEF Roots
<1> QED
  BY <1>2, <1>3, <1>4

\* What 'flip' keeps;
FlipFacts(c, d, W, o) ==
  /\ Loose(d, W, o) /\ Roots(d.trail) = Roots(c.trail) /\ d.control = c.control
  /\ d.connected = c.connected /\ d.private = c.private /\ d.lemmas = c.lemmas
  /\ d.conflict = c.conflict /\ d.unsat = c.unsat /\ d.vars = c.vars

\* it needs a solver without a propagator, whose heard literals and reasons
\* would not follow.
LEMMA FlipFine ==
  ASSUME NEW c, NEW W, NEW o, Loose(c, W, o), ~o, ~c.connected,
         NEW p \in DOMAIN c.trail, c.trail[p].level > 0, NEW d, d = FlipOf(c, p)
  PROVE  FlipFacts(c, d, W, o)
<1>1. Struct(c) /\ Hears(c) /\ Late(c) /\ Sound(c, W) /\ c \in Core
  BY DEF Loose, Struct
<1>2. d \in Core /\ PutsTrail(c, d, d.trail) /\ Flips(c.trail, d.trail, p)
  BY <1>1, FlipFields
<1>3. /\ d.lemmas = c.lemmas /\ d.control = c.control /\ d.heard = c.heard
      /\ d.notified = c.notified /\ d.propagated = c.propagated
      /\ d.conflict = c.conflict /\ d.unsat = c.unsat /\ d.clauses = c.clauses
      /\ d.vars = c.vars /\ d.connected = c.connected
      /\ d.private = c.private /\ d.observed = c.observed /\ d.frozen = c.frozen
      /\ d.reasonOf = c.reasonOf
  BY <1>2 DEF PutsTrail
<1> DEFINE t == c.trail
           s == d.trail
<1>4. /\ Len(s) = Len(t)
      /\ DOMAIN s = DOMAIN t /\ DOMAIN t = 1..Len(t) /\ p \in DOMAIN t
      /\ \A i \in DOMAIN t :
           /\ s[i].level = t[i].level /\ s[i].reason = t[i].reason
           /\ s[i].lit \in {t[i].lit, -t[i].lit} /\ t[i].lit \in Lit
           /\ i # p => s[i] = t[i]
  BY <1>2 DEF Flips
<1>5. Distinct(s) /\ Staged(s, c.control) /\ Roots(s) = Roots(t)
  BY <1>1, <1>2, FlipTrail, StructFields
<1>6. c.heard = <<<<>>>> /\ c.observed = {} /\ c.lemmas = <<>> /\ Known(c)
  BY <1>1 DEF Struct
<1>7. ~Listens(c) /\ ~Listens(d) /\ Level(d) = Level(c)
  BY <1>3 DEF Listens, Level
<1> HIDE DEF t, s
<1>8. Known(d)
  <2>1. \A i \in DOMAIN s : Abs(s[i].lit) \in d.vars
    <3> TAKE i \in DOMAIN s
    <3>1. Abs(t[i].lit) \in c.vars /\ Abs(s[i].lit) = Abs(t[i].lit)
      BY <1>4, <1>6, LitFacts DEF Known, t
    <3> QED
      BY <1>3, <3>1
  <2> QED
    BY <1>3, <1>4, <1>6, <2>1 DEF Known, s, t
<1>9. Struct(d)
  BY <1>1, <1>2, <1>3, <1>5, <1>6, <1>7, <1>8 DEF Struct, s
<1>10. Hears(d)
  <2>1. d.observed = {} /\ HeardTrue(s, d.heard)
    <3>1. \A a \in DOMAIN d.heard : DOMAIN d.heard[a] = {}
      BY <1>3, <1>6
    <3> QED
      BY <1>3, <1>6, <3>1 DEF HeardTrue
  <2> QED
    BY <1>7, <2>1 DEF Hears, Hearing, HeardAll, s
<1>11. \A i \in DOMAIN t : t[i].reason # External
  BY <1>1 DEF Late, LateOk, t
<1>12. Late(d)
  BY <1>4, <1>11 DEF Late, LateOk, s
<1>13. Sound(d, W)
  <2> SUFFICES ASSUME NEW m \in W
               PROVE
    /\ \A e \in d.clauses : Holds(m, e.lits)
    /\ \A i \in DOMAIN d.trail :
         /\ d.trail[i].level = 0 => Tru(m, d.trail[i].lit)
         /\ d.trail[i].reason \notin {None, External}
              => Holds(m, d.trail[i].reason)
    /\ \A i \in DOMAIN d.lemmas : Holds(m, d.lemmas[i].lits)
    /\ ~d.unsat
    /\ d.conflict # None => Holds(m, d.conflict)
    BY Zenon DEF Sound
  <2>1. /\ \A e \in c.clauses : Holds(m, e.lits)
        /\ \A i \in DOMAIN t :
             /\ t[i].level = 0 => Tru(m, t[i].lit)
             /\ t[i].reason \notin {None, External}
                  => Holds(m, t[i].reason)
        /\ \A i \in DOMAIN c.lemmas : Holds(m, c.lemmas[i].lits)
        /\ ~c.unsat
        /\ c.conflict # None => Holds(m, c.conflict)
    BY <1>1, Zenon DEF Sound, t
  <2>2. t[p].level # 0
    BY DEF t
  <2>3. ASSUME NEW i \in DOMAIN s
        PROVE  /\ s[i].level = 0 => Tru(m, s[i].lit)
               /\ s[i].reason \notin {None, External} => Holds(m, s[i].reason)
    <3>1. s[i].level = 0 => s[i] = t[i]
      BY <1>4, <2>2
    <3>2. s[i].level = t[i].level /\ s[i].reason = t[i].reason
      BY <1>4
    <3> QED
      BY <1>4, <2>1, <3>1, <3>2, Zenon
  <2> QED
    BY <1>3, <2>1, <2>3, Zenon DEF s
<1> QED
  BY <1>3, <1>5, <1>9, <1>10, <1>12, <1>13 DEF FlipFacts, Loose, s, t

\* So 'flip' keeps it.
LEMMA IdleFlip ==
  ASSUME NEW c, NEW m, NEW q, NEW W, NEW o, IdlePre(c, m, q, W, o), ~o, ~c.connected,
         ~c.unsat, ~q.unsat_constraint, NEW p \in DOMAIN c.trail, c.trail[p].level > 0,
         NEW d, d = FlipOf(Unextended(c), p)
  PROVE  IdleKept(c, d, m, q, W, o)
<1> DEFINE u == Unextended(c)
<1>1. Loose(c, W, o) /\ Struct(c)
  BY DEF IdlePre, Loose
<1>2. UnextendedFacts(c, u, W, o)
  BY <1>1, UnextendedFine
<1>3. IdleKept(c, u, m, q, W, o)
  BY IdlePlain
<1> HIDE DEF u
<1>4. /\ Loose(u, W, o) /\ u.trail = c.trail /\ u.connected = c.connected
      /\ u.unsat = c.unsat /\ Struct(u)
  BY <1>2 DEF UnextendedFacts, Quiet, Loose
<1>5. FlipFacts(u, d, W, o)
  BY <1>4, FlipFine DEF u
<1>6. /\ Loose(d, W, o) /\ Roots(u.trail) \subseteq Roots(d.trail) /\ d.control = u.control
      /\ d.connected = u.connected /\ d.private = u.private /\ d.lemmas = u.lemmas
      /\ d.conflict = u.conflict /\ d.unsat = u.unsat /\ u.vars \subseteq d.vars
      /\ Struct(d)
  BY <1>5 DEF FlipFacts, Loose
<1>7. LemmasKept(u, d) /\ UnsatLow(u, d)
  BY <1>4, <1>6, PendingSame DEF UnsatLow, Level
<1>8. IdlePre(u, m, q, W, o) /\ Idled(c, u, m, q, W, o) /\ Kept(c, u)
  BY <1>3 DEF IdleKept, Idled
<1>9. d.conflict = None \/ d.unsat
  BY <1>6, <1>8 DEF IdlePre
<1>10. ~(d.unsat \/ q.unsat_constraint \/ d.connected)
  BY <1>4, <1>6
<1>11. Idled(u, d, m, q, W, o) /\ Kept(u, d)
  BY <1>6, <1>7, <1>8, <1>9, <1>10, IdleMore
<1>12. Idled(c, d, m, q, W, o) /\ Kept(c, d)
  BY <1>8, <1>11, IdleTrans
<1> QED
  BY <1>12 DEF IdleKept

-----------------------------------------------------------------------------
(* A propagator is disconnected.                                           *)

\* A variable is no longer observed:
Leaves(c, d, O) ==
  /\ d \in Core
  /\ d.trail = c.trail /\ d.control = c.control /\ d.heard = c.heard
  /\ d.notified = c.notified /\ d.connected = c.connected /\ d.private = c.private
  /\ d.reasonOf = c.reasonOf /\ d.chrono = c.chrono
  /\ d.propagated = c.propagated /\ d.clauses = c.clauses
  /\ d.conflict = c.conflict /\ d.unsat = c.unsat
  /\ d.vars = c.vars /\ d.lemmas = c.lemmas
  /\ d.observed = O /\ \A x \in O : d.frozen[x] > 0

\* by 'remove_observed_var'.
LeftOf(c, v) == Molten([c EXCEPT !.observed = @ \ {v}], v)

\* It changes the observed and the frozen variables,
LEMMA LeavesFields ==
  ASSUME NEW c, Struct(c), NEW v \in c.observed, NEW d, d = LeftOf(c, v)
  PROVE  Leaves(c, d, c.observed \ {v})
<1> DEFINE O == c.observed \ {v}
           y == [c EXCEPT !.observed = O]
           a == [y EXCEPT !.extended = FALSE]
           u == [a EXCEPT !.model = {}]
           n == IF u.frozen[v] = 1 /\ v \in y.observed THEN 1 ELSE u.frozen[v] - 1
           g == [u.frozen EXCEPT ![v] = n]
           z == FrozenPut(u, g)
<1>1. IsState(c) /\ FieldTypes(c) /\ Known(c) /\ c \in Core
  BY StructFields
<1>2. IsState(u)
  <2>1. IsState(c)
    BY <1>1
  <2>2. IsState(y)
    BY <2>1, Puts, Zenon
  <2> HIDE DEF y
  <2>3. IsState(a)
    BY <2>2, Puts, Zenon
  <2> HIDE DEF a
  <2> QED
    BY <2>3, Puts, Zenon
<1>3. d = z
  <2>1. IsState(y)
    <3>1. IsState(c)
      BY <1>1
    <3> QED
      BY <3>1, Puts, Zenon
  <2>2. d = Molten(y, v)
    BY DEF LeftOf
  <2> HIDE DEF y
  <2>3. u = Unextended(y)
    BY <2>1, SMT DEF Unextended, IsState, Fields
  <2> HIDE DEF u
  <2> QED
    BY <2>2, <2>3, Zenon DEF Molten, FrozenPut
<1>4. /\ u.trail = c.trail /\ u.control = c.control /\ u.heard = c.heard
      /\ u.notified = c.notified /\ u.connected = c.connected /\ u.private = c.private
      /\ u.reasonOf = c.reasonOf /\ u.chrono = c.chrono
      /\ u.propagated = c.propagated /\ u.clauses = c.clauses
      /\ u.conflict = c.conflict /\ u.unsat = c.unsat
      /\ u.vars = c.vars /\ u.lemmas = c.lemmas /\ u.newest = c.newest
      /\ u.observed = O /\ u.frozen = c.frozen /\ y.observed = O
      /\ u.extended \in BOOLEAN /\ u.model \in SUBSET Var
  BY <1>1, SMT DEF IsState, Fields
<1> HIDE DEF y, a, u
<1>5. g \in [Var -> Nat] /\ \A x \in O : g[x] > 0
  <2>1. c.frozen \in [Var -> Nat] /\ c.observed \in SUBSET Var
        /\ \A x \in c.observed : c.frozen[x] > 0
    BY <1>1 DEF FieldTypes, Known
  <2>2. v \in Var /\ c.frozen[v] \in Nat /\ c.frozen[v] > 0
    BY <2>1
  <2>3. n \in Nat /\ v \notin O
    BY <1>4, <2>2
  <2> HIDE DEF n
  <2> QED
    BY <1>4, <2>1, <2>2, <2>3
<1> HIDE DEF g
<1>6. IsState(z)
  BY <1>2, Puts, Zenon DEF FrozenPut
<1>7. /\ Quiet(u, z) /\ z.vars = u.vars /\ z.frozen = g /\ z.lemmas = u.lemmas
      /\ z.extended = u.extended /\ z.model = u.model /\ z.newest = u.newest
  BY <1>2, SMT DEF FrozenPut, Quiet, IsState, Fields
<1> HIDE DEF z
<1>8. FieldTypes(z)
  <2>1. O \in SUBSET Var
    BY <1>1 DEF FieldTypes
  <2> HIDE DEF O
  <2> QED
    BY <1>1, <1>4, <1>5, <1>7, <2>1 DEF FieldTypes, Quiet
<1>9. z \in Core
  BY <1>6, <1>8, StateCore
<1> QED
  BY <1>3, <1>4, <1>5, <1>7, <1>9 DEF Leaves, Quiet

\* not the clauses,
LEMMA LeavesSound ==
  ASSUME NEW c, NEW d, NEW O, Leaves(c, d, O), NEW W, Sound(c, W)
  PROVE  Sound(d, W)
<1>1. d.clauses = c.clauses /\ d.trail = c.trail /\ d.lemmas = c.lemmas
      /\ d.unsat = c.unsat /\ d.conflict = c.conflict
  BY DEF Leaves
<1> QED
  BY <1>1, Zenon DEF Sound

\* and the data structures stay as they must be.
LEMMA LeavesStruct ==
  ASSUME NEW c, Struct(c), c.connected, NEW d, NEW O, Leaves(c, d, O), O \subseteq c.observed
  PROVE  Struct(d)
<1>1. Known(c) /\ Distinct(c.trail) /\ Staged(c.trail, c.control)
      /\ (Len(c.heard) = IF Listens(c) THEN Level(c) + 1 ELSE 1)
      /\ (~Listens(c) => \A b \in DOMAIN c.control : c.notified <= c.control[b])
  BY DEF Struct
<1>2. /\ d \in Core /\ d.trail = c.trail /\ d.control = c.control /\ d.heard = c.heard
      /\ d.notified = c.notified /\ d.connected = c.connected /\ d.private = c.private
      /\ d.reasonOf = c.reasonOf /\ d.propagated = c.propagated /\ d.clauses = c.clauses
      /\ d.vars = c.vars /\ d.lemmas = c.lemmas
      /\ d.observed = O /\ \A x \in O : d.frozen[x] > 0
  BY DEF Leaves
<1>3. (Listens(d) <=> Listens(c)) /\ Level(d) = Level(c)
  BY <1>2 DEF Listens, Level
<1>4. Known(d)
  BY <1>1, <1>2 DEF Known
<1> QED
  BY <1>1, <1>2, <1>3, <1>4 DEF Struct

\* What holds while all variables are taken from the propagator one by one; it
\* has forgotten what it heard.
Leaving(c, x, O, W) ==
  /\ Struct(x) /\ Late(x) /\ Sound(x, W) /\ Ordered(x.trail)
  /\ Level(x) = 0 \/ x.notified = 0
  /\ x.observed = O /\ x.connected = c.connected /\ x.private = c.private
  /\ x.lemmas = c.lemmas /\ x.conflict = c.conflict /\ x.unsat = c.unsat
  /\ x.vars = c.vars /\ Roots(x.trail) = Roots(c.trail) /\ Level(x) <= Level(c)

\* A variable that has a value has it for good.
RootsOnly(x, v) == \A i \in DOMAIN x.trail : Abs(x.trail[i].lit) = v => x.trail[i].level = 0

\* The trail is given up for a variable that is not fixed,
LEMMA LeavingBack ==
  ASSUME NEW c, Struct(c), NEW x, NEW O, NEW W, Leaving(c, x, O, W), NEW v \in Var,
         NEW b, b = IF IsFixed(x, v) THEN x ELSE Backtracked(x, 0)
  PROVE  Leaving(c, b, O, W) /\ RootsOnly(b, v)
<1>1. /\ Struct(x) /\ Late(x) /\ Sound(x, W) /\ Ordered(x.trail)
      /\ x.observed = O /\ x.connected = c.connected /\ x.private = c.private
      /\ x.lemmas = c.lemmas /\ x.conflict = c.conflict /\ x.unsat = c.unsat
      /\ x.vars = c.vars /\ Roots(x.trail) = Roots(c.trail) /\ Level(x) <= Level(c)
  BY DEF Leaving
<1>2. CASE IsFixed(x, v)
  <2>1. b = x
    BY <1>2
  <2>2. RootsOnly(x, v)
    <3> SUFFICES ASSUME NEW i \in DOMAIN x.trail, Abs(x.trail[i].lit) = v
                 PROVE  x.trail[i].level = 0
      BY DEF RootsOnly
    <3>1. v \in Lit /\ Abs(v) = v
      BY VarFacts
    <3>2. x.trail[i].lit \in Lit
      BY <1>1, StructFields, TrailTypes
    <3>3. x.trail[i].lit \in {v, -v}
      <4> DEFINE k == x.trail[i].lit
      <4>1. k \in Lit /\ Abs(k) = Abs(v)
        BY <3>1, <3>2
      <4> HIDE DEF k
      <4>2. k \in {v, -v}
        BY <3>1, <4>1, LitFacts, Zenon
      <4> QED
        BY <4>2 DEF k
    <3>4. SpotIs(x, v, i)
      BY <1>1, <3>1, <3>3, Spot
    <3> QED
      BY <1>2, <3>4 DEF SpotIs, IsFixed
  <2> QED
    BY <2>1, <2>2
<1>3. CASE ~IsFixed(x, v)
  <2>1. b = Backtracked(x, 0)
    BY <1>3
  <2>2. BackFacts(x, b, 0) /\ Late(b) /\ Sound(b, W) /\ (Ordered(x.trail) => Ordered(b.trail))
    BY <1>1, <2>1, BackSound
  <2>3. Struct(b) /\ Same(x, b) /\ b.conflict = x.conflict
        /\ Level(b) = IF 0 >= Level(x) THEN Level(x) ELSE 0
    BY <2>2 DEF BackFacts
  <2>4. Level(x) \in Nat /\ Level(c) \in Nat
    BY <1>1, StructFields
  <2>5. Level(b) = 0 /\ Level(b) <= Level(c)
    BY <2>3, <2>4
  <2>6. Roots(b.trail) = Roots(x.trail)
    BY <1>1, <2>2, BackRoots
  <2>7. RootsOnly(b, v)
    <3>1. Staged(b.trail, b.control) /\ \A i \in DOMAIN b.trail : b.trail[i].level \in Nat
      BY <2>3, StructFields, TrailTypes
    <3>2. \A i \in DOMAIN b.trail : b.trail[i].level <= 0
      BY <2>5, <3>1 DEF Staged, Level
    <3>3. \A i \in DOMAIN b.trail : b.trail[i].level = 0
      BY <3>1, <3>2
    <3> QED
      BY <3>3 DEF RootsOnly
  <2> QED
    BY <1>1, <2>2, <2>3, <2>5, <2>6, <2>7 DEF Leaving, Same
<1> QED
  BY <1>2, <1>3

\* so one more of them leaves.
LEMMA UnobservedFine ==
  ASSUME NEW c, Struct(c), c.connected, NEW x, NEW O, NEW W, Leaving(c, x, O, W),
         NEW v \in O, NEW y, y = Unobserved(x, v)
  PROVE  Leaving(c, y, O \ {v}, W)
<1> DEFINE b == IF IsFixed(x, v) THEN x ELSE Backtracked(x, 0)
<1>0. v \in Var
  BY StructFields DEF Leaving, FieldTypes
<1>1. Leaving(c, b, O, W) /\ RootsOnly(b, v)
  BY <1>0, LeavingBack
<1>2. y = LeftOf(b, v)
  BY DEF Unobserved, LeftOf
<1> HIDE DEF b
<1>3. /\ Struct(b) /\ Late(b) /\ Sound(b, W) /\ Ordered(b.trail)
      /\ (Level(b) = 0 \/ b.notified = 0)
      /\ b.observed = O /\ b.connected = c.connected /\ b.private = c.private
      /\ b.lemmas = c.lemmas /\ b.conflict = c.conflict /\ b.unsat = c.unsat
      /\ b.vars = c.vars /\ Roots(b.trail) = Roots(c.trail) /\ Level(b) <= Level(c)
  BY <1>1 DEF Leaving
<1>4. Leaves(b, y, O \ {v})
  BY <1>2, <1>3, LeavesFields
<1>5. Struct(y) /\ Sound(y, W)
  BY <1>3, <1>4, LeavesStruct, LeavesSound
<1>6. /\ y.trail = b.trail /\ y.control = b.control
      /\ y.notified = b.notified /\ y.connected = b.connected /\ y.private = b.private
      /\ y.reasonOf = b.reasonOf /\ y.conflict = b.conflict /\ y.unsat = b.unsat
      /\ y.vars = b.vars /\ y.lemmas = b.lemmas /\ y.observed = O \ {v}
  BY <1>4 DEF Leaves
<1>7. Late(y)
  <2>1. LateOk(b.trail, b.connected, O, b.lemmas, b.reasonOf)
    BY <1>3 DEF Late
  <2>2. \A i \in DOMAIN b.trail : b.trail[i].reason = External => Abs(b.trail[i].lit) # v
    <3>1. External # None
      BY VarFacts
    <3>2. \A i \in DOMAIN b.trail : b.trail[i].level = 0 => b.trail[i].reason = None
      BY <1>3, StructFields DEF Staged
    <3> QED
      BY <1>1, <3>1, <3>2 DEF RootsOnly
  <2>3. LateOk(b.trail, b.connected, O \ {v}, b.lemmas, b.reasonOf)
    BY <2>1, <2>2, Zenon DEF LateOk
  <2> QED
    BY <1>6, <2>3 DEF Late
<1> QED
  BY <1>3, <1>5, <1>6, <1>7 DEF Leaving, Level

\* Leaving for all of a set of variables, by recursion,
LeaveRun(g, a, S) ==
  g = [s \in SUBSET S |->
         IF s = {} THEN a
         ELSE Unobserved(g[s \ {CHOOSE x \in s : TRUE}], CHOOSE x \in s : TRUE)]

\* with values in the set of solvers.
LeaveStep(p) == IF Unobserved(p[2], p[1]) \in Core THEN Unobserved(p[2], p[1]) ELSE p[2]

\* Every one leaves,
LEMMA LeaveAll ==
  ASSUME NEW c, Struct(c), c.connected, NEW W, NEW S, IsFiniteSet(S),
         NEW a, Leaving(c, a, S, W), NEW f,
         f[{}] = a,
         \A s \in SUBSET S : \A x \in s :
           x = (CHOOSE y \in s : TRUE) /\ Leaving(c, f[s \ {x}], S \ (s \ {x}), W)
             => f[s] = Unobserved(f[s \ {x}], x)
  PROVE  \A s \in SUBSET S : Leaving(c, f[s], S \ s, W)
<1> DEFINE D == {s \in SUBSET S : Leaving(c, f[s], S \ s, W)}
<1>1. {} \in D
  <2>1. S \ {} = S
    OBVIOUS
  <2> QED
    BY <2>1, Zenon
<1>2. ASSUME NEW s \in SUBSET S, \A x \in s : s \ {x} \in D
      PROVE  s \in D
  <2>1. CASE s = {}
    BY <1>1, <2>1
  <2>2. CASE s # {}
    <3>1. PICK x \in s : x = CHOOSE y \in s : TRUE
      BY <2>2
    <3> DEFINE r == s \ {x}
    <3>2. Leaving(c, f[r], S \ r, W)
      BY <1>2, <3>1
    <3>3. f[s] = Unobserved(f[r], x)
      BY <3>1, <3>2
    <3>4. x \in S \ r /\ (S \ r) \ {x} = S \ s
      BY <3>1
    <3>5. Leaving(c, f[s], (S \ r) \ {x}, W)
      <4> DEFINE y == f[r]
                 z == f[s]
                 O == S \ r
      <4>1. Leaving(c, y, O, W) /\ x \in O /\ z = Unobserved(y, x)
        BY <3>2, <3>3, <3>4
      <4> HIDE DEF y, z, O
      <4>2. Leaving(c, z, O \ {x}, W)
        BY <4>1, UnobservedFine
      <4> QED
        BY <4>2 DEF z, O
    <3> QED
      BY <3>4, <3>5
  <2> QED
    BY <2>1, <2>2
<1> HIDE DEF D
<1>3. \A s \in SUBSET S : s \in D
  BY <1>1, <1>2, AllSubsets
<1> QED
  BY <1>3 DEF D

\* and the function exists.
LEMMA LeaveRuns ==
  ASSUME NEW c, Struct(c), c.connected, NEW W, NEW S, IsFiniteSet(S),
         NEW a, Leaving(c, a, S, W)
  PROVE  /\ \E f : LeaveRun(f, a, S)
         /\ \A f : LeaveRun(f, a, S) => Leaving(c, f[S], {}, W)
<1> DEFINE G == [p \in S \X Core |-> LeaveStep(p)]
<1>1. a \in Core
  BY DEF Leaving, Struct
<1>2. G \in [S \X Core -> Core]
  <2>1. \A p \in S \X Core : LeaveStep(p) \in Core
    BY Zenon DEF LeaveStep
  <2> QED
    BY <2>1
<1>3. PICK f \in [SUBSET S -> Core] : FoldsTo(f, S, a, G)
  BY <1>1, <1>2, FoldExists
<1>4. \A s \in SUBSET S :
        f[s] = IF s = {} THEN a
               ELSE G[(CHOOSE x \in s : TRUE), f[s \ {CHOOSE x \in s : TRUE}]]
  BY <1>3 DEF FoldsTo
<1>5. ASSUME NEW s \in SUBSET S, NEW x \in s, x = (CHOOSE y \in s : TRUE),
             Leaving(c, f[s \ {x}], S \ (s \ {x}), W)
      PROVE  f[s] = Unobserved(f[s \ {x}], x)
  <2> DEFINE y == f[s \ {x}]
  <2>1. f[s] = G[x, y]
    BY <1>4, <1>5
  <2>2. x \in S /\ y \in Core /\ x \in S \ (s \ {x})
    BY <1>3
  <2>3. Unobserved(y, x) \in Core
    <3> DEFINE z == Unobserved(y, x)
               O == S \ (s \ {x})
    <3>1. Leaving(c, y, O, W) /\ x \in O /\ z = Unobserved(y, x)
      BY <1>5, <2>2
    <3> HIDE DEF y, z, O
    <3>2. Leaving(c, z, O \ {x}, W)
      BY <3>1, UnobservedFine
    <3>3. z \in Core
      BY <3>2 DEF Leaving, Struct
    <3> QED
      BY <3>3 DEF z
  <2> HIDE DEF y
  <2>4. G[x, y] = LeaveStep(<<x, y>>)
    BY <2>2
  <2>5. LeaveStep(<<x, y>>) = Unobserved(y, x)
    BY <2>3, Zenon DEF LeaveStep
  <2> QED
    BY <2>1, <2>4, <2>5 DEF y
<1> HIDE DEF G
<1>6. \A s \in SUBSET S : Leaving(c, f[s], S \ s, W)
  <2>1. f[{}] = a
    BY <1>4
  <2> QED
    BY <1>5, <2>1, LeaveAll
<1>7. LeaveRun(f, a, S)
  <2>1. ASSUME NEW s \in SUBSET S, s # {}
        PROVE  f[s] = Unobserved(f[s \ {CHOOSE x \in s : TRUE}], CHOOSE x \in s : TRUE)
    <3>1. PICK x \in s : x = CHOOSE y \in s : TRUE
      BY <2>1
    <3>2. s \ {x} \in SUBSET S
      OBVIOUS
    <3>3. Leaving(c, f[s \ {x}], S \ (s \ {x}), W)
      BY <1>6, <3>2, Zenon
    <3>4. f[s] = Unobserved(f[s \ {x}], x)
      BY <1>5, <3>1, <3>3
    <3> QED
      BY <3>1, <3>4
  <2>2. f = [s \in SUBSET S |-> f[s]] /\ f[{}] = a
    BY <1>3, <1>4
  <2> DEFINE h == [s \in SUBSET S |->
         IF s = {} THEN a
         ELSE Unobserved(f[s \ {CHOOSE x \in s : TRUE}], CHOOSE x \in s : TRUE)]
  <2>3. \A s \in SUBSET S : f[s] = h[s]
    BY <2>1, <2>2, Zenon
  <2>4. h = [s \in SUBSET S |-> h[s]]
    OBVIOUS
  <2> HIDE DEF h
  <2>5. f = h
    BY <2>2, <2>3, <2>4
  <2> QED
    BY <2>5, Zenon DEF LeaveRun, h
<1>8. ASSUME NEW g, LeaveRun(g, a, S)
      PROVE  Leaving(c, g[S], {}, W)
  <2>1. \A s \in SUBSET S :
          g[s] = IF s = {} THEN a
                 ELSE Unobserved(g[s \ {CHOOSE x \in s : TRUE}], CHOOSE x \in s : TRUE)
    BY <1>8, Zenon DEF LeaveRun
  <2>2. g[{}] = a
    BY <2>1
  <2>3. ASSUME NEW s \in SUBSET S, NEW x \in s, x = (CHOOSE y \in s : TRUE)
        PROVE  g[s] = Unobserved(g[s \ {x}], x)
    BY <2>1, <2>3, Zenon
  <2>4. \A s \in SUBSET S : Leaving(c, g[s], S \ s, W)
    BY <2>2, <2>3, LeaveAll
  <2>5. S \ S = {} /\ S \in SUBSET S
    OBVIOUS
  <2> QED
    BY <2>4, <2>5, Zenon
<1> QED
  BY <1>7, <1>8

\* The propagator is disconnected at last:
CutOff(x, o) ==
  [x EXCEPT !.connected = o, !.heard = <<<<>>>>, !.lemmas = <<>>,
            !.reasonOf = [l \in Lit |-> 0]]

\* the fields it changes,
CutOffIs(x, e, o) ==
  /\ e \in Core /\ e.connected = o /\ e.heard = <<<<>>>> /\ e.lemmas = <<>>
  /\ e.reasonOf = [l \in Lit |-> 0]
  /\ e.trail = x.trail /\ e.control = x.control /\ e.notified = x.notified
  /\ e.private = x.private /\ e.propagated = x.propagated /\ e.clauses = x.clauses
  /\ e.conflict = x.conflict /\ e.unsat = x.unsat /\ e.vars = x.vars
  /\ e.observed = x.observed /\ e.frozen = x.frozen

\* as it does,
LEMMA CutOffFields ==
  ASSUME NEW x, Struct(x), NEW o \in BOOLEAN, NEW e, e = CutOff(x, o)
  PROVE  CutOffIs(x, e, o)
<1> DEFINE h == <<<<>>>>
           k == <<>>
           r == [l \in Lit |-> 0]
           y == [x EXCEPT !.connected = o]
           z == [y EXCEPT !.heard = h]
           u == [z EXCEPT !.lemmas = k]
           w == [u EXCEPT !.reasonOf = r]
<1>1. IsState(x) /\ FieldTypes(x)
  BY StructFields
<1>2. h \in Seq(Seq(Lit)) /\ k \in Seq(LemmaSet) /\ r \in [Lit -> Nat]
  OBVIOUS
<1>3. e = w
  BY <1>1, SMT DEF CutOff, IsState, Fields
<1> HIDE DEF h, k, r
<1>4. IsState(w)
  <2>1. IsState(x)
    BY <1>1
  <2>2. IsState(y)
    BY <2>1, Puts, Zenon
  <2> HIDE DEF y
  <2>3. IsState(z)
    BY <2>2, Puts, Zenon
  <2> HIDE DEF z
  <2>4. IsState(u)
    BY <2>3, Puts, Zenon
  <2> HIDE DEF u
  <2> QED
    BY <2>4, Puts, Zenon
<1>5. /\ w.connected = o /\ w.heard = h /\ w.lemmas = k /\ w.reasonOf = r
      /\ w.trail = x.trail /\ w.control = x.control /\ w.notified = x.notified
      /\ w.private = x.private /\ w.propagated = x.propagated /\ w.clauses = x.clauses
      /\ w.conflict = x.conflict /\ w.unsat = x.unsat /\ w.vars = x.vars
      /\ w.observed = x.observed /\ w.frozen = x.frozen
      /\ w.chrono = x.chrono /\ w.newest = x.newest
      /\ w.extended = x.extended /\ w.model = x.model
  BY <1>1, SMT DEF IsState, Fields
<1> HIDE DEF y, z, u, w
<1>6. FieldTypes(w)
  BY <1>1, <1>2, <1>5 DEF FieldTypes
<1>7. w \in Core
  BY <1>4, <1>6, StateCore
<1> QED
  BY <1>3, <1>5, <1>7, Zenon DEF CutOffIs, h, k, r

\* and what this gives:
CutOffHolds(c, e, W, o) ==
  /\ Loose(e, W, o) /\ Ordered(e.trail) /\ ~e.connected /\ e.private = c.private
  /\ e.lemmas = <<>> /\ e.conflict = c.conflict /\ e.unsat = c.unsat
  /\ e.vars = c.vars /\ Level(e) <= Level(c) /\ Level(e) \in Nat

\* everything the search relies on, without a propagator.
LEMMA CutOffFine ==
  ASSUME NEW c, Struct(c), NEW x, NEW W, Leaving(c, x, {}, W),
         NEW o \in BOOLEAN, ~o, NEW e, e = CutOff(x, o)
  PROVE  CutOffHolds(c, e, W, o)
<1>1. /\ Struct(x) /\ Late(x) /\ Sound(x, W) /\ Ordered(x.trail)
      /\ (Level(x) = 0 \/ x.notified = 0)
      /\ x.observed = {} /\ x.private = c.private
      /\ x.conflict = c.conflict /\ x.unsat = c.unsat
      /\ x.vars = c.vars /\ Level(x) <= Level(c)
  BY DEF Leaving
<1>2. CutOffIs(x, e, o)
  BY <1>1, CutOffFields
<1>3. /\ e \in Core /\ e.connected = o /\ e.heard = <<<<>>>> /\ e.lemmas = <<>>
      /\ e.reasonOf = [l \in Lit |-> 0]
      /\ e.trail = x.trail /\ e.control = x.control /\ e.notified = x.notified
      /\ e.private = x.private /\ e.propagated = x.propagated /\ e.clauses = x.clauses
      /\ e.conflict = x.conflict /\ e.unsat = x.unsat /\ e.vars = x.vars
      /\ e.observed = {} /\ e.frozen = x.frozen
  BY <1>1, <1>2 DEF CutOffIs
<1>4. ~e.connected /\ ~Listens(e) /\ Level(e) = Level(x) /\ Level(x) \in Nat
  BY <1>1, <1>3, StructFields DEF Listens, Level
<1>5. Known(x) /\ Distinct(x.trail) /\ Staged(x.trail, x.control) /\ FieldTypes(x)
  BY <1>1, StructFields DEF Struct
<1>6. Known(e)
  <2>1. e.lemmas = <<>> /\ DOMAIN e.lemmas = {} /\ Len(e.lemmas) = 0
    BY <1>3
  <2>2. \A l \in Lit : e.reasonOf[l] = 0
    BY <1>3
  <2>3. \A l \in Lit : e.reasonOf[l] <= Len(e.lemmas)
    BY <2>1, <2>2
  <2> QED
    BY <1>3, <1>5, <2>1, <2>3 DEF Known
<1>7. \A b \in DOMAIN e.control : e.notified <= e.control[b]
  <2>1. e.control \in Seq(Nat) /\ e.notified \in Nat
    BY <1>3, <1>5 DEF FieldTypes
  <2>2. DOMAIN e.control = 1..Level(e) /\ \A b \in DOMAIN e.control : e.control[b] \in Nat
    BY <2>1, ControlTypes DEF Level
  <2>3. CASE Level(x) = 0
    BY <1>4, <2>2, <2>3
  <2>4. CASE x.notified = 0
    BY <1>3, <2>2, <2>4
  <2> QED
    BY <1>1, <2>3, <2>4
<1>8. Struct(e)
  <2>1. Len(e.heard) = 1
    BY <1>3
  <2> QED
    BY <1>3, <1>4, <1>5, <1>6, <1>7, <2>1 DEF Struct
<1>9. Hears(e)
  <2>1. \A a \in DOMAIN e.heard : DOMAIN e.heard[a] = {}
    BY <1>3
  <2>2. HeardTrue(e.trail, e.heard)
    BY <2>1 DEF HeardTrue
  <2>3. HeardAll(e.trail, e.control, e.heard, e.notified, e.observed)
    BY <1>3 DEF HeardAll
  <2> QED
    BY <1>4, <2>2, <2>3 DEF Hears, Hearing
<1>10. Late(e)
  BY <1>1, <1>3 DEF Late, LateOk
<1>11. Sound(e, W)
  <2>1. DOMAIN e.lemmas = {}
    BY <1>3
  <2> QED
    BY <1>1, <1>3, <2>1, Zenon DEF Sound
<1>12. Loose(e, W, o)
  BY <1>8, <1>9, <1>10, <1>11 DEF Loose
<1> QED
  BY <1>1, <1>3, <1>4, <1>12 DEF CutOffHolds

\* It starts by forgetting what was told:
NotedPut(c, n) == [c EXCEPT !.notified = n]

\* the fields this changes,
NotedIs(c, b, n) ==
  /\ b \in Core /\ b.notified = n
  /\ b.connected = c.connected /\ b.heard = c.heard /\ b.lemmas = c.lemmas
  /\ b.reasonOf = c.reasonOf
  /\ b.trail = c.trail /\ b.control = c.control
  /\ b.private = c.private /\ b.propagated = c.propagated /\ b.clauses = c.clauses
  /\ b.conflict = c.conflict /\ b.unsat = c.unsat /\ b.vars = c.vars
  /\ b.observed = c.observed /\ b.frozen = c.frozen

\* as it does.
LEMMA NotedFields ==
  ASSUME NEW c \in Core, NEW n \in Nat, NEW u, u = Unextended(c), NEW b, b = NotedPut(u, n)
  PROVE  NotedIs(c, b, n)
<1> DEFINE z == [u EXCEPT !.notified = n]
<1>1. IsState(c) /\ FieldTypes(c)
  BY CoreState
<1>2. IsState(u)
  <2>1. IsState(c)
    BY <1>1
  <2> DEFINE a == [c EXCEPT !.extended = FALSE]
  <2>2. IsState(a)
    BY <2>1, Puts, Zenon
  <2>3. u = [a EXCEPT !.model = {}]
    BY <2>1, SMT DEF Unextended, IsState, Fields
  <2> HIDE DEF a
  <2>4. IsState([a EXCEPT !.model = {}])
    BY <2>2, Puts, Zenon
  <2> QED
    BY <2>3, <2>4, Zenon
<1>3. IsState(z)
  BY <1>2, Puts, Zenon
<1>4. /\ u.trail = c.trail /\ u.control = c.control /\ u.heard = c.heard
      /\ u.connected = c.connected /\ u.private = c.private
      /\ u.reasonOf = c.reasonOf /\ u.chrono = c.chrono
      /\ u.propagated = c.propagated /\ u.clauses = c.clauses
      /\ u.conflict = c.conflict /\ u.unsat = c.unsat
      /\ u.vars = c.vars /\ u.lemmas = c.lemmas /\ u.newest = c.newest
      /\ u.observed = c.observed /\ u.frozen = c.frozen
      /\ u.extended \in BOOLEAN /\ u.model \in SUBSET Var
  BY <1>1, SMT DEF Unextended, IsState, Fields
<1>5. /\ z.notified = n
      /\ z.trail = u.trail /\ z.control = u.control /\ z.heard = u.heard
      /\ z.connected = u.connected /\ z.private = u.private
      /\ z.reasonOf = u.reasonOf /\ z.chrono = u.chrono
      /\ z.propagated = u.propagated /\ z.clauses = u.clauses
      /\ z.conflict = u.conflict /\ z.unsat = u.unsat
      /\ z.vars = u.vars /\ z.lemmas = u.lemmas /\ z.newest = u.newest
      /\ z.observed = u.observed /\ z.frozen = u.frozen
      /\ z.extended = u.extended /\ z.model = u.model
  BY <1>2, SMT DEF IsState, Fields
<1>6. b = z
  BY DEF NotedPut
<1> HIDE DEF z
<1>7. FieldTypes(z)
  BY <1>1, <1>4, <1>5 DEF FieldTypes
<1>8. z \in Core
  BY <1>3, <1>7, StateCore
<1> QED
  BY <1>4, <1>5, <1>6, <1>8 DEF NotedIs

\* So the variables begin to leave.
LEMMA LeavingBase ==
  ASSUME NEW c, NEW W, NEW o, Loose(c, W, o), Ordered(c.trail), c.connected,
         ~c.private, NEW n, n = 0, NEW u, u = Unextended(c), NEW b, b = NotedPut(u, n)
  PROVE  Leaving(c, b, c.observed, W)
<1>1. Struct(c) /\ Late(c) /\ Sound(c, W) /\ c \in Core /\ Level(c) \in Nat
  BY StructFields DEF Loose
<1>2. NotedIs(c, b, n)
  BY <1>1, NotedFields
<1>3. /\ b \in Core /\ b.notified = 0
      /\ b.connected = c.connected /\ b.heard = c.heard /\ b.lemmas = c.lemmas
      /\ b.reasonOf = c.reasonOf
      /\ b.trail = c.trail /\ b.control = c.control
      /\ b.private = c.private /\ b.propagated = c.propagated /\ b.clauses = c.clauses
      /\ b.conflict = c.conflict /\ b.unsat = c.unsat /\ b.vars = c.vars
      /\ b.observed = c.observed /\ b.frozen = c.frozen
  BY <1>2 DEF NotedIs
<1>4. Listens(c) /\ Listens(b) /\ Level(b) = Level(c)
  BY <1>3 DEF Listens, Level
<1>5. Known(b)
  <2>1. Known(c) /\ Len(c.trail) \in Nat
    BY <1>1, StructFields, TrailTypes DEF Struct
  <2> QED
    BY <1>3, <2>1 DEF Known
<1>6. Struct(b)
  <2>1. /\ Distinct(c.trail) /\ Staged(c.trail, c.control)
        /\ Len(c.heard) = (IF Listens(c) THEN Level(c) + 1 ELSE 1)
    BY <1>1 DEF Struct
  <2> QED
    BY <1>3, <1>4, <1>5, <2>1 DEF Struct
<1>7. Late(b)
  BY <1>1, <1>3 DEF Late
<1>8. Sound(b, W)
  BY <1>1, <1>3, Zenon DEF Sound
<1>9. Level(b) <= Level(c)
  BY <1>1, <1>4
<1>10. Roots(b.trail) = Roots(c.trail) /\ Ordered(b.trail)
  BY <1>3
<1> QED
  BY <1>3, <1>6, <1>7, <1>8, <1>9, <1>10, Zenon DEF Leaving

\* The solver after all variables have left.
LeaveEnd(a, S) == (CHOOSE f : LeaveRun(f, a, S))[S]

\* 'disconnect_external_propagator' in these steps.
LEMMA DisconnectedIs ==
  ASSUME NEW c, c.connected, NEW a, a = NotedPut(Unextended(c), 0)
  PROVE  Disconnected(c) = CutOff(LeaveEnd(a, c.observed), FALSE)
<1> DEFINE S == c.observed
           b == [Unextended(c) EXCEPT !.notified = 0]
           u == FoldSet(LAMBDA v, d : Unobserved(d, v), b, S)
<1>1. u = LeaveEnd(b, S)
  <2> HIDE DEF b, S
  <2> QED
    BY Zenon DEF FoldSet, MapThenFoldSet, LeaveRun, LeaveEnd, u
<1>2. b = a
  BY Zenon DEF NotedPut
<1>3. Disconnected(c) = [u EXCEPT !.connected = FALSE, !.heard = <<<<>>>>,
                        !.lemmas = <<>>, !.reasonOf = [l \in Lit |-> 0]]
  BY Zenon DEF Disconnected
<1> HIDE DEF u, b
<1> QED
  BY <1>1, <1>2, <1>3, Zenon DEF CutOff

\* The variables have left,
LEMMA LeaveEndFine ==
  ASSUME NEW c, NEW W, NEW o, Loose(c, W, o), Ordered(c.trail), c.connected, ~c.private,
         NEW a, a = NotedPut(Unextended(c), 0), NEW x, x = LeaveEnd(a, c.observed)
  PROVE  Leaving(c, x, {}, W)
<1>1. Struct(c)
  BY DEF Loose
<1> DEFINE S == c.observed
<1>2. IsFiniteSet(S)
  BY <1>1, StructFields, VarFacts, FS_Subset DEF FieldTypes
<1>3. Leaving(c, a, S, W)
  BY LeavingBase
<1> HIDE DEF S
<1>4. /\ \E f : LeaveRun(f, a, S)
      /\ \A f : LeaveRun(f, a, S) => Leaving(c, f[S], {}, W)
  BY <1>1, <1>2, <1>3, LeaveRuns
<1>5. LeaveRun(CHOOSE f : LeaveRun(f, a, S), a, S)
  BY <1>4, Zenon
<1> QED
  BY <1>4, <1>5, Zenon DEF LeaveEnd, S

\* and no propagator wants anything.
LEMMA NoMockFine ==
  ASSUME NEW d, d.lemmas = <<>>
  PROVE  NextOf(NoMock, d) /\ NoMock.must = 0 /\ FormerTheory(d) = {}
<1>1. DOMAIN d.lemmas = {} /\ Len(d.lemmas) = 0
  OBVIOUS
<1>2. NoMock \in Mock /\ NoMock.next = 1 /\ NoMock.must = 0
  BY DEF NoMock, Mock
<1>3. Pending(d) = {} /\ FormerTheory(d) = {}
  BY <1>1 DEF Pending, FormerTheory
<1> QED
  BY <1>1, <1>2, <1>3 DEF NextOf

\* What 'disconnect' keeps between two searches:
CutIdle(c, d, q, W, o) ==
  /\ IdlePre(d, NoMock, q, W, o) /\ UnsatLow(c, d) /\ d.vars = c.vars
  /\ d.lemmas = <<>> /\ ~d.connected /\ (c.connected => Ordered(d.trail))

\* the solver can go on without the propagator.
LEMMA IdleCut ==
  ASSUME NEW c, NEW m, NEW q, NEW W, NEW o \in BOOLEAN, ~o, IdlePre(c, m, q, W, o),
         NEW d, d = Disconnected(c)
  PROVE  CutIdle(c, d, q, W, o)
<1>1. Loose(c, W, o) /\ ~c.private /\ (c.conflict = None \/ c.unsat) /\ Struct(c)
      /\ (c.unsat \/ q.unsat_constraint \/ c.connected => Ordered(c.trail))
  BY DEF IdlePre, Loose
<1>2. CASE ~c.connected
  <2>1. d = c
    BY <1>2, Zenon DEF Disconnected
  <2>2. d.lemmas = <<>>
    BY <1>1, <1>2, <2>1 DEF Struct
  <2>3. NextOf(NoMock, d) /\ NoMock.must = 0
    BY <2>2, NoMockFine
  <2>4. IdlePre(d, NoMock, q, W, o)
    BY <1>1, <2>1, <2>3 DEF IdlePre
  <2> QED
    BY <1>2, <2>1, <2>2, <2>4 DEF CutIdle, UnsatLow
<1>3. CASE c.connected
  <2> DEFINE a == NotedPut(Unextended(c), 0)
             x == LeaveEnd(a, c.observed)
  <2>1. Leaving(c, x, {}, W)
    BY <1>1, <1>3, LeaveEndFine, Zenon
  <2>2. d = CutOff(x, o)
    <3>1. d = CutOff(x, FALSE)
      BY <1>3, DisconnectedIs, Zenon
    <3>2. o = FALSE
      OBVIOUS
    <3> QED
      BY <3>1, <3>2, Zenon
  <2> HIDE DEF a, x
  <2>3. CutOffHolds(c, d, W, o)
    BY <1>1, <2>1, <2>2, CutOffFine
  <2>4. /\ Loose(d, W, o) /\ Ordered(d.trail) /\ ~d.connected /\ d.private = c.private
        /\ d.lemmas = <<>> /\ d.conflict = c.conflict /\ d.unsat = c.unsat
        /\ d.vars = c.vars /\ Level(d) <= Level(c) /\ Level(d) \in Nat
    BY <2>3 DEF CutOffHolds
  <2>5. NextOf(NoMock, d) /\ NoMock.must = 0
    BY <2>4, NoMockFine
  <2>6. IdlePre(d, NoMock, q, W, o)
    BY <1>1, <2>4, <2>5 DEF IdlePre
  <2>7. UnsatLow(c, d)
    <3>1. Level(c) = 0 => Level(d) = 0
      BY <2>4
    <3> QED
      BY <2>4, <3>1 DEF UnsatLow
  <2> QED
    BY <2>4, <2>6, <2>7 DEF CutIdle
<1> QED
  BY <1>2, <1>3

-----------------------------------------------------------------------------
(* A propagator is connected.                                              *)

\* A propagator is connected:
Linked(b, t) == [b EXCEPT !.connected = t]

\* the fields this changes,
LinkedIs(b, d, t) ==
  /\ d \in Core /\ d.connected = t
  /\ d.heard = b.heard /\ d.lemmas = b.lemmas /\ d.reasonOf = b.reasonOf
  /\ d.trail = b.trail /\ d.control = b.control /\ d.notified = b.notified
  /\ d.private = b.private /\ d.propagated = b.propagated /\ d.clauses = b.clauses
  /\ d.conflict = b.conflict /\ d.unsat = b.unsat /\ d.vars = b.vars
  /\ d.observed = b.observed /\ d.frozen = b.frozen

\* as it does.
LEMMA LinkedFields ==
  ASSUME NEW b, Struct(b), NEW t \in BOOLEAN, NEW d, d = Linked(b, t)
  PROVE  LinkedIs(b, d, t)
<1> DEFINE y == [b EXCEPT !.connected = t]
<1>1. IsState(b) /\ FieldTypes(b)
  BY StructFields
<1>2. IsState(y)
  <2>1. IsState(b)
    BY <1>1
  <2> QED
    BY <2>1, Puts, Zenon
<1>3. /\ y.connected = t
      /\ y.heard = b.heard /\ y.lemmas = b.lemmas /\ y.reasonOf = b.reasonOf
      /\ y.trail = b.trail /\ y.control = b.control /\ y.notified = b.notified
      /\ y.private = b.private /\ y.propagated = b.propagated /\ y.clauses = b.clauses
      /\ y.conflict = b.conflict /\ y.unsat = b.unsat /\ y.vars = b.vars
      /\ y.observed = b.observed /\ y.frozen = b.frozen
      /\ y.chrono = b.chrono /\ y.newest = b.newest
      /\ y.extended = b.extended /\ y.model = b.model
  BY <1>1, SMT DEF IsState, Fields
<1>4. d = y
  BY DEF Linked
<1> HIDE DEF y
<1>5. FieldTypes(y)
  BY <1>1, <1>3 DEF FieldTypes
<1>6. y \in Core
  BY <1>2, <1>5, StateCore
<1> QED
  BY <1>3, <1>4, <1>6, Zenon DEF LinkedIs

\* An empty control stack has no levels, and a propagator that has heard
\* nothing hears on one.
LEMMA Singles ==
  /\ \A k \in Seq(Nat) : Len(k) = 0 => DOMAIN k = {}
  /\ \A h : h = <<<<>>>> => Len(h) = 0 + 1
  OBVIOUS

\* On level 0 it has heard all there is to hear.
LEMMA IdleLinked ==
  ASSUME NEW b, NEW q, NEW W, NEW o, ~o, IdlePre(b, NoMock, q, W, o), b.lemmas = <<>>,
         ~b.connected, Level(b) = 0, Ordered(b.trail), NEW t \in BOOLEAN, t,
         NEW d, d = Linked(b, t), NEW p
  PROVE  /\ IdlePre(d, NoMock, p, W, o) /\ d.vars = b.vars /\ d.lemmas = <<>>
         /\ Level(d) = 0 /\ d.unsat = b.unsat
<1>1. Loose(b, W, o) /\ ~b.private /\ (b.conflict = None \/ b.unsat)
      /\ NextOf(NoMock, b) /\ NoMock.must = 0
  BY DEF IdlePre
<1>2. Struct(b) /\ Hears(b) /\ Late(b) /\ Sound(b, W)
  BY <1>1 DEF Loose
<1>3. /\ d \in Core /\ d.connected = t
      /\ d.heard = b.heard /\ d.lemmas = b.lemmas /\ d.reasonOf = b.reasonOf
      /\ d.trail = b.trail /\ d.control = b.control /\ d.notified = b.notified
      /\ d.private = b.private /\ d.propagated = b.propagated /\ d.clauses = b.clauses
      /\ d.conflict = b.conflict /\ d.unsat = b.unsat /\ d.vars = b.vars
      /\ d.observed = b.observed /\ d.frozen = b.frozen
  <2>1. LinkedIs(b, d, t)
    BY <1>2, LinkedFields, Zenon
  <2> QED
    BY <2>1, Zenon DEF LinkedIs
<1>4. Level(d) = 0 /\ Listens(d) /\ ~Listens(b) /\ b.heard = <<<<>>>> /\ b.observed = {}
  BY <1>1, <1>2, <1>3 DEF Level, Listens, Struct
<1>5. Known(d)
  <2>1. Known(b)
    BY <1>2 DEF Struct
  <2> QED
    BY <1>3, <2>1 DEF Known
<1>6. DOMAIN d.control = {}
  <2>1. d.control \in Seq(Nat)
    BY <1>2, <1>3, StructFields DEF FieldTypes
  <2> QED
    BY <1>4, <2>1, Singles, Zenon DEF Level
<1>7. Struct(d)
  <2>1. Distinct(b.trail) /\ Staged(b.trail, b.control)
    BY <1>2 DEF Struct
  <2>2. Len(d.heard) = Level(d) + 1
    BY <1>3, <1>4, Singles, Zenon
  <2>3. d.connected
    BY <1>3
  <2> QED
    BY <1>3, <1>4, <1>5, <2>1, <2>2, <2>3 DEF Struct
<1>8. Hears(d)
  <2>1. HeardTrue(d.trail, d.heard) /\ HeardAll(d.trail, d.control, d.heard, d.notified, d.observed)
    BY <1>2, <1>3 DEF Hears, Hearing
  <2> QED
    BY <1>6, <2>1 DEF Hears, Hearing
<1>9. Late(d)
  <2>1. \A i \in DOMAIN d.trail : d.trail[i].reason # External
    BY <1>2, <1>3 DEF Late, LateOk
  <2> QED
    BY <2>1 DEF Late, LateOk
<1>10. Sound(d, W)
  BY <1>2, <1>3, Zenon DEF Sound
<1>11. Loose(d, W, o)
  BY <1>7, <1>8, <1>9, <1>10 DEF Loose
<1>12. NextOf(NoMock, d)
  BY <1>3, NoMockFine
<1>13. Ordered(d.trail)
  BY <1>3
<1> QED
  BY <1>1, <1>3, <1>4, <1>11, <1>12, <1>13 DEF IdlePre

\* 'connect_external_propagator' in these steps.
Connected(c, t) == Linked(Backtracked(Disconnected(c), 0), t)

\* What 'connect' keeps between two searches:
ConnectedTo(c, d, q, W, o) ==
  /\ IdlePre(d, NoMock, q, W, o) /\ UnsatLow(c, d)
  /\ c.vars \subseteq d.vars /\ d.lemmas = <<>>

\* it disconnects first and gives up the trail.
LEMMA IdleConnect ==
  \A c, m, q, W : \A o, t \in BOOLEAN :
    ~o /\ t /\ IdlePre(c, m, q, W, o) => ConnectedTo(c, Connected(c, t), q, W, o)
<1> SUFFICES ASSUME NEW c, NEW m, NEW q, NEW W, NEW o \in BOOLEAN, NEW t \in BOOLEAN,
                    ~o, t, IdlePre(c, m, q, W, o),
                    NEW d, d = Connected(c, t)
             PROVE  ConnectedTo(c, d, q, W, o)
  OBVIOUS
<1> DEFINE u == Disconnected(c)
           b == Backtracked(u, 0)
<1>1. CutIdle(c, u, q, W, o)
  BY IdleCut
<1>2. d = Linked(b, t)
  BY DEF Connected
<1> HIDE DEF u
<1>3. /\ IdlePre(u, NoMock, q, W, o) /\ u.vars = c.vars
      /\ u.lemmas = <<>> /\ ~u.connected
  BY <1>1 DEF CutIdle
<1>4. Idled(u, b, NoMock, q, W, o) /\ Kept(u, b) /\ Level(b) = 0 /\ Ordered(b.trail)
  BY <1>3, IdleRoot
<1> HIDE DEF b
<1>5. IdlePre(b, NoMock, q, W, o) /\ u.vars \subseteq b.vars /\ ~b.connected
  BY <1>3, <1>4 DEF Idled
<1>6. b.lemmas = <<>>
  BY <1>5 DEF IdlePre, Loose, Struct
<1>7. /\ IdlePre(d, NoMock, q, W, o) /\ d.vars = b.vars /\ d.lemmas = <<>>
      /\ Level(d) = 0 /\ d.unsat = b.unsat
  <2>1. /\ IdlePre(b, NoMock, q, W, o) /\ b.lemmas = <<>> /\ ~b.connected
        /\ Level(b) = 0 /\ Ordered(b.trail) /\ d = Linked(b, t)
    BY <1>2, <1>4, <1>5, <1>6
  <2> QED
    BY <2>1, IdleLinked, Zenon
<1> QED
  BY <1>3, <1>5, <1>7 DEF UnsatLow, ConnectedTo

-----------------------------------------------------------------------------
(* The steps of the search keep the invariant.                             *)

\* The invariant of the search, of the variables.
GoodNow == Good(core, mock, query, pc, again, Worlds)

\* The whole invariant has it as a part,
LEMMA ApiGood ==
  ASSUME ApiInv
  PROVE  GoodNow /\ AskedInv /\ AnswerInv /\ CallsInv /\ Typed
  BY DEF ApiInv, GoodNow, Good, Worlds, CoreInv, ConflictInv, ControlInv, PendingInv

\* and follows from it with the parts about the calls.
LEMMA GoodApi ==
  ASSUME GoodNow, AskedInv, AnswerInv, CallsInv, Typed
  PROVE  ApiInv
  BY DEF ApiInv, GoodNow, Good, Worlds, CoreInv, ConflictInv, ControlInv, PendingInv

\* What a step of the search has to keep, of the variables:
Stepped ==
  /\ Result(core, core', mock', query', pc', again', Worlds)
  /\ query' \in Query /\ query'.assumptions = query.assumptions
  /\ query'.constraint = query.constraint
  /\ again' \in BOOLEAN /\ result' \in {0, 10, 20} /\ termination_forced' \in BOOLEAN
  /\ pc' = "done" /\ result' = 10 => ~core'.unsat /\ ~query'.unsat_constraint

\* at the end of the search,
LEMMA FinishIs ==
  ASSUME NEW c, NEW res, Finish(c, res)
  PROVE  core' = c /\ pc' = "done" /\ result' = res /\ termination_forced' \in BOOLEAN
  BY Zenon DEF Finish, Goto

\* at every label,
LEMMA SteppedOn ==
  ASSUME ApiInv, UNCHANGED query, NEW l, pc' = l,
         Result(core, core', mock', query, l, again', Worlds),
         again' \in BOOLEAN, result' \in {0, 10, 20}, termination_forced' \in BOOLEAN,
         l = "done" /\ result' = 10 => ~core'.unsat /\ ~query.unsat_constraint
  PROVE  Stepped
<1>1. query \in Query
  BY DEF ApiInv, Typed
<1> QED
  BY <1>1 DEF Stepped

\* at those where the search goes on,
LEMMA SteppedTo ==
  ASSUME ApiInv, UNCHANGED query, NEW l, l # "done", pc' = l,
         UNCHANGED <<result, termination_forced>>,
         Result(core, core', mock', query, l, again', Worlds), again' \in BOOLEAN
  PROVE  Stepped
<1>1. result' \in {0, 10, 20} /\ termination_forced' \in BOOLEAN
  BY DEF ApiInv, Typed
<1> QED
  BY <1>1, SteppedOn, Zenon

\* and where it ends.
LEMMA SteppedEnd ==
  ASSUME ApiInv, UNCHANGED query, NEW d, NEW res \in {0, 10, 20}, Finish(d, res),
         Result(core, d, mock', query, "done", again', Worlds), again' \in BOOLEAN,
         res = 10 => ~d.unsat /\ ~query.unsat_constraint
  PROVE  Stepped
<1>1. core' = d /\ pc' = "done" /\ result' = res /\ termination_forced' \in BOOLEAN
  BY FinishIs
<1> QED
  BY <1>1, SteppedOn, Zenon

\* The invariant at a known label.
LEMMA NowAt ==
  ASSUME ApiInv, NEW l, pc = l
  PROVE  Good(core, mock, query, l, again, Worlds) /\ again \in BOOLEAN
  BY ApiGood DEF GoodNow, Typed

\* Every step of the search keeps it: the start,
LEMMA BeginStep ==
  ASSUME ApiInv, Begin
  PROVE  Stepped
<1> DEFINE root == Propagated(Backtracked(core, 0))
           u == [root EXCEPT !.unsat = TRUE]
<1>1. pc = "start" /\ UNCHANGED <<mock, query, again>>
  BY DEF Begin
<1>2. Good(core, mock, query, "start", again, Worlds) /\ again' \in BOOLEAN
      /\ mock' = mock /\ again' = again /\ query' = query
  BY <1>1, NowAt
<1>3. \/ (core.unsat \/ query.unsat_constraint) /\ Finish(core, 20)
      \/ ~core.unsat /\ root.conflict # None /\ Finish(u, 20)
      \/ ~core.unsat /\ root.conflict = None /\ Finish(root, 0)
      \/ ~core.unsat /\ root.conflict = None /\ core' = root /\ pc' = "loop"
         /\ UNCHANGED <<result, termination_forced>>
  BY Zenon DEF Begin, Goto
<1>4. CASE (core.unsat \/ query.unsat_constraint) /\ Finish(core, 20)
  <2>1. Result(core, core, mock, query, "done", again, Worlds)
    BY <1>2, <1>4, BeginDone
  <2> QED
    BY <1>2, <1>4, <2>1, SteppedEnd
<1>5. CASE ~core.unsat /\ root.conflict # None /\ Finish(u, 20)
  <2>1. Result(core, u, mock, query, "done", again, Worlds)
    BY <1>2, <1>5, BeginUnsat, Zenon
  <2> HIDE DEF u, root
  <2> QED
    BY <1>2, <1>5, <2>1, SteppedEnd
<1>6. CASE ~core.unsat /\ root.conflict = None /\ Finish(root, 0)
  <2>1. Result(core, root, mock, query, "done", again, Worlds)
    BY <1>2, <1>6, BeginOn, Zenon
  <2> HIDE DEF u, root
  <2> QED
    BY <1>2, <1>6, <2>1, SteppedEnd
<1>7. CASE /\ ~core.unsat /\ root.conflict = None /\ core' = root /\ pc' = "loop"
           /\ UNCHANGED <<result, termination_forced>>
  <2>1. Result(core, root, mock, query, "loop", again, Worlds)
    BY <1>2, <1>7, BeginOn, Zenon
  <2> HIDE DEF u, root
  <2> QED
    BY <1>2, <1>7, <2>1, SteppedTo
<1> QED
  BY <1>3, <1>4, <1>5, <1>6, <1>7, Zenon

\* (the query is about variables of the solver)
LEMMA AskedQuery ==
  ASSUME ApiInv
  PROVE  QueryOk(core, query) /\ \A l \in query.constraint : l \in Lit /\ Abs(l) \in core.vars
<1>1. query \in Query /\ AskedInv
  BY DEF ApiInv, Typed
<1>2. query.assumptions \in Seq(Lit) /\ query.constraint \in Clause
  BY <1>1 DEF Query
<1>3. Over(ToSet(query.assumptions), core.vars) /\ Over(query.constraint, core.vars)
  BY <1>1 DEF AskedInv, AskedAt
<1>4. Len(query.assumptions) \in Nat /\ DOMAIN query.assumptions = 1..Len(query.assumptions)
  BY <1>2
<1>5. \A i \in 1..Len(query.assumptions) : Abs(query.assumptions[i]) \in core.vars
  BY <1>3, <1>4 DEF Over, ToSet
<1>6. \A l \in query.constraint : l \in Lit /\ Abs(l) \in core.vars
  BY <1>2, <1>3 DEF Over, Clause
<1> QED
  BY <1>2, <1>4, <1>5, <1>6 DEF QueryOk

\* local search,
LEMMA LocalSearchStep ==
  ASSUME ApiInv, LocalSearch
  PROVE  Stepped
<1> DEFINE root == Propagated(Backtracked(core, 0))
<1>1. pc = "start" /\ query.constraint = {} /\ ~core.unsat /\ ~query.unsat_constraint
      /\ root.conflict = None /\ UNCHANGED <<mock, query, again>>
  BY DEF LocalSearch
<1>2. PICK sign \in {1, -1} :
        PhasesTried(Renotified(Walked(root, query, sign).core), Walked(root, query, sign).res)
  BY Zenon DEF LocalSearch
<1> DEFINE w == Walked(root, query, sign)
           r == Renotified(w.core)
           b == Backtracked(r, 0)
<1>3. Good(core, mock, query, "start", again, Worlds) /\ again' \in BOOLEAN
      /\ mock' = mock /\ again' = again /\ query' = query
  BY <1>1, NowAt
<1>4. TriedResult(core, r, mock, query, again, Worlds, w.res)
  <2>1. QueryOk(core, query)
    BY AskedQuery
  <2> QED
    BY <1>1, <1>3, <2>1, LocalSearchFine, Zenon
<1>5. /\ Result(core, r, mock, query, "done", again, Worlds)
      /\ Result(core, b, mock, query, "loop", again, Worlds)
      /\ (w.res = 0 => Result(core, r, mock, query, "loop", again, Worlds))
      /\ r.unsat = core.unsat /\ w.res \in {0, 10, 20}
  BY <1>4, Zenon DEF TriedResult
<1>6. \/ Finish(r, w.res)
      \/ /\ (core' = b /\ w.res = 10) \/ (core' = r /\ w.res # 10 /\ w.res # 20)
         /\ pc' = "loop" /\ UNCHANGED <<result, termination_forced>>
  BY <1>2, Zenon DEF PhasesTried, Goto
<1> HIDE DEF root, w, r, b
<1>7. CASE Finish(r, w.res)
  BY <1>1, <1>3, <1>5, <1>7, SteppedEnd
<1>8. CASE /\ (core' = b /\ w.res = 10) \/ (core' = r /\ w.res # 10 /\ w.res # 20)
           /\ pc' = "loop" /\ UNCHANGED <<result, termination_forced>>
  <2>1. Result(core, core', mock, query, "loop", again, Worlds)
    BY <1>5, <1>8
  <2> QED
    BY <1>3, <1>8, <2>1, SteppedTo
<1> QED
  BY <1>6, <1>7, <1>8

\* propagation,
LEMMA PropagateStep ==
  ASSUME ApiInv, Propagate
  PROVE  Stepped
<1> DEFINE c == Propagated(core)
           e == Notified(c)
<1>1. pc = "loop" /\ mock' = mock /\ query' = query
  BY DEF Propagate
<1>2. Good(core, mock, query, "loop", again, Worlds) /\ again \in BOOLEAN
  BY <1>1, NowAt
<1>3. \/ Finish(core, 20) /\ UNCHANGED again
      \/ /\ ~core.unsat /\ ~query.unsat_constraint
         /\ UNCHANGED <<result, termination_forced>>
         /\ \/ c.conflict # None /\ core' = c /\ pc' = "analyze" /\ again' = again
            \/ c.conflict = None /\ c.connected /\ core' = e /\ pc' = "cbpropagate"
               /\ again' \in BOOLEAN /\ ~again'
            \/ c.conflict = None /\ ~c.connected /\ core' = c /\ pc' = "decide"
               /\ again' = again
  BY Zenon DEF Propagate, Goto
<1>4. CASE Finish(core, 20) /\ UNCHANGED again
  <2>1. Result(core, core, mock, query, "done", again, Worlds)
    BY <1>2, PropagateDone
  <2> QED
    BY <1>1, <1>2, <1>4, <2>1, SteppedEnd
<1>5. CASE /\ ~core.unsat /\ ~query.unsat_constraint
           /\ UNCHANGED <<result, termination_forced>>
           /\ \/ c.conflict # None /\ core' = c /\ pc' = "analyze" /\ again' = again
              \/ c.conflict = None /\ c.connected /\ core' = e /\ pc' = "cbpropagate"
                 /\ again' \in BOOLEAN /\ ~again'
              \/ c.conflict = None /\ ~c.connected /\ core' = c /\ pc' = "decide"
                 /\ again' = again
  <2>1. ASSUME NEW h \in BOOLEAN, ~h
        PROVE  /\ (c.conflict # None => Result(core, c, mock, query, "analyze", again, Worlds))
               /\ (c.conflict = None /\ c.connected =>
                     Result(core, e, mock, query, "cbpropagate", h, Worlds))
               /\ (c.conflict = None /\ ~c.connected =>
                     Result(core, c, mock, query, "decide", again, Worlds))
    BY <1>2, <1>5, <2>1, PropagateFine, Zenon
  <2>2. PICK h \in BOOLEAN : ~h
    BY SomeFalse
  <2> HIDE DEF c, e
  <2>3. Result(core, core', mock, query, pc', again', Worlds) /\ again' \in BOOLEAN
    BY <1>2, <1>5, <2>1, <2>2
  <2>4. pc' # "done"
    BY <1>5
  <2> QED
    BY <1>1, <1>5, <2>3, <2>4, SteppedTo
<1> QED
  BY <1>3, <1>4, <1>5

\* the analysis of a conflict,
LEMMA AnalyzeStep ==
  ASSUME ApiInv, Analyze
  PROVE  Stepped
<1>1. pc = "analyze" /\ mock' = mock /\ query' = query /\ again' = again
      /\ UNCHANGED <<result, termination_forced>>
  BY DEF Analyze
<1>2. PICK jump \in IF core.chrono THEN {0, Level(core) - 1} ELSE {0} :
        core' = Analyzed(core, jump) /\ pc' = "loop"
  BY Zenon DEF Analyze, Goto
<1>3. Good(core, mock, query, "analyze", again, Worlds) /\ again \in BOOLEAN
  BY <1>1, NowAt
<1>4. Result(core, core', mock, query, "loop", again, Worlds)
  BY <1>2, <1>3, AnalyzeFine, Zenon
<1> QED
  BY <1>1, <1>2, <1>3, <1>4, SteppedTo

\* a propagator with nothing to propagate,
LEMMA CbNothingStep ==
  ASSUME ApiInv, CbPropagateNothing
  PROVE  Stepped
<1>1. pc = "cbpropagate" /\ core' = core /\ pc' = "ask" /\ mock' = mock /\ query' = query
      /\ again' = again /\ UNCHANGED <<result, termination_forced>>
  BY DEF CbPropagateNothing, Goto
<1>2. Good(core, mock, query, "cbpropagate", again, Worlds) /\ again \in BOOLEAN
  BY <1>1, NowAt
<1>3. Result(core, core, mock, query, "ask", again, Worlds)
  BY <1>2, CbNothingFine
<1> QED
  BY <1>1, <1>2, <1>3, SteppedTo

\* the question for a lemma,
LEMMA AskClauseStep ==
  ASSUME ApiInv, AskClause
  PROVE  Stepped
<1> DEFINE a == Asked(core, mock)
           d == a.core
           mk == a.mock
           has == a.has
           f == Notified(Propagated(d))
           e == IF again THEN d ELSE f
<1>1. pc = "ask" /\ mock' = mk /\ query' = query /\ UNCHANGED <<result, termination_forced>>
      /\ ClauseAsked(e, has)
  BY Zenon DEF AskClause
<1>2. Good(core, mock, query, "ask", again, Worlds) /\ again \in BOOLEAN
  BY <1>1, NowAt
<1>3. PICK h \in BOOLEAN : ~h
  BY SomeFalse
<1>4. AskResult(core, e, mk, has, query, again, h, Worlds)
  <2>1. CASE again
    <3>1. e = d
      BY <2>1
    <3> QED
      BY <1>2, <1>3, <2>1, <3>1, AskAgainFine, Zenon
  <2>2. CASE ~again
    <3>1. e = f
      BY <2>2
    <3> QED
      BY <1>2, <2>2, <3>1, AskFirstFine, Zenon
  <2> QED
    BY <2>1, <2>2
<1>5. \/ has /\ core' = e /\ pc' = "lemma" /\ again' = again
      \/ ~has /\ Interrupted(e) /\ core' = e /\ pc' = (IF e.unsat THEN "loop" ELSE "analyze")
         /\ again' = again
      \/ ~has /\ ~Interrupted(e) /\ again /\ core' = Notified(e) /\ pc' = "cbpropagate"
         /\ again' \in BOOLEAN /\ ~again'
      \/ ~has /\ ~Interrupted(e) /\ ~again /\ core' = e /\ pc' = "decide" /\ again' = again
  BY <1>1, Zenon DEF ClauseAsked, Goto, Interrupt
<1> HIDE DEF a, d, mk, has, f, e
<1>6. Result(core, core', mk, query, pc', again', Worlds) /\ again' \in BOOLEAN
  <2>1. /\ has => Result(core, e, mk, query, "lemma", again, Worlds)
        /\ ~has /\ Interrupted(e) =>
             Result(core, e, mk, query, IF e.unsat THEN "loop" ELSE "analyze", again, Worlds)
        /\ ~has /\ ~Interrupted(e) /\ again =>
             Result(core, Notified(e), mk, query, "cbpropagate", h, Worlds)
        /\ ~has /\ ~Interrupted(e) /\ ~again =>
             Result(core, e, mk, query, "decide", again, Worlds)
    BY <1>4 DEF AskResult
  <2>2. CASE has /\ core' = e /\ pc' = "lemma" /\ again' = again
    BY <1>2, <2>1, <2>2
  <2>3. CASE /\ ~has /\ Interrupted(e) /\ core' = e
             /\ pc' = (IF e.unsat THEN "loop" ELSE "analyze") /\ again' = again
    BY <1>2, <2>1, <2>3
  <2>4. CASE /\ ~has /\ ~Interrupted(e) /\ again /\ core' = Notified(e)
             /\ pc' = "cbpropagate" /\ again' \in BOOLEAN /\ ~again'
    <3>1. again' = h
      BY <1>3, <2>4
    <3> QED
      BY <2>1, <2>4, <3>1
  <2>5. CASE ~has /\ ~Interrupted(e) /\ ~again /\ core' = e /\ pc' = "decide" /\ again' = again
    BY <1>2, <2>1, <2>5
  <2> QED
    BY <1>5, <2>2, <2>3, <2>4, <2>5
<1>7. pc' # "done"
  BY <1>5
<1> QED
  BY <1>1, <1>6, <1>7, SteppedTo

\* (where the loop of the callbacks goes on)
LEMMA ResumeStep ==
  ASSUME NEW e, NEW k, NEW W, NEW l, l # "done", NEW h, ResumeOk(e, k, query, W, l, h),
         Resume(e, l)
  PROVE  /\ Good(core', k, query, pc', h, W) /\ pc' # "done"
         /\ core' = e \/ (core' = Notified(e) /\ Kept(e, Notified(e)))
<1>1. \/ e.unsat /\ core' = e /\ pc' = "loop"
      \/ ~e.unsat /\ e.conflict # None /\ core' = e /\ pc' = "analyze"
      \/ ~Interrupted(e) /\ core' = Notified(e) /\ pc' = l
  BY Zenon DEF Resume, Interrupt, Interrupted, Goto
<1>2. /\ (e.unsat => Good(e, k, query, "loop", h, W))
      /\ (~e.unsat /\ e.conflict # None => Good(e, k, query, "analyze", h, W))
      /\ (~Interrupted(e) => Good(Notified(e), k, query, l, h, W) /\ Kept(e, Notified(e)))
  BY DEF ResumeOk
<1> QED
  BY <1>1, <1>2

\* its lemma,
LEMMA AddLemmaStep ==
  ASSUME ApiInv, AddLemma
  PROVE  Stepped
<1> DEFINE e == Settled(LemmaAdded(core, mock))
           k == NextPut(mock)
<1>1. pc = "lemma" /\ mock' = k /\ query' = query /\ Resume(e, "ask")
      /\ UNCHANGED <<result, termination_forced>> /\ again' \in BOOLEAN /\ again'
  BY Zenon DEF AddLemma, NextPut
<1>2. Good(core, mock, query, "lemma", again, Worlds) /\ again \in BOOLEAN
  BY <1>1, NowAt
<1>3. ASSUME NEW h \in BOOLEAN, h
      PROVE  ResumeOk(e, k, query, Worlds, "ask", h) /\ Kept(core, e)
  BY <1>2, <1>3, AddLemmaFine, Zenon
<1>4. PICK h \in BOOLEAN : h
  BY SomeTrue
<1> HIDE DEF e, k
<1>5. ResumeOk(e, k, query, Worlds, "ask", h) /\ Kept(core, e)
  BY <1>3, <1>4
<1>6. /\ Good(core', k, query, pc', h, Worlds) /\ pc' # "done"
      /\ core' = e \/ (core' = Notified(e) /\ Kept(e, Notified(e)))
  BY <1>1, <1>5, ResumeStep
<1>7. Kept(core, core')
  BY <1>5, <1>6, KeptTrans
<1>8. h = again'
  BY <1>1, <1>4
<1>9. Result(core, core', k, query, pc', again', Worlds)
  BY <1>6, <1>7, <1>8 DEF Result
<1> QED
  BY <1>1, <1>6, <1>9, SteppedTo

\* a model,
LEMMA FoundModelStep ==
  ASSUME ApiInv, FoundModel
  PROVE  Stepped
<1>1. pc = "decide" /\ mock' = mock /\ query' = query /\ again' = again
  BY DEF FoundModel
<1>2. Good(core, mock, query, "decide", again, Worlds) /\ again \in BOOLEAN
  BY <1>1, NowAt
<1>3. /\ Result(core, core, mock, query, "done", again, Worlds)
      /\ core.connected => Result(core, core, mock, query, "model", again, Worlds)
  BY <1>2, FoundModelFine
<1>4. \/ core.connected /\ core' = core /\ pc' = "model"
         /\ UNCHANGED <<result, termination_forced>>
      \/ Finish(core, 10)
  BY Zenon DEF FoundModel, Goto
<1>5. CASE /\ core.connected /\ core' = core /\ pc' = "model"
           /\ UNCHANGED <<result, termination_forced>>
  BY <1>1, <1>2, <1>3, <1>5, SteppedTo
<1>6. CASE Finish(core, 10)
  <2>1. ~core.unsat /\ ~query.unsat_constraint
    BY <1>2 DEF Good, ConflictAt, Resting
  <2> QED
    BY <1>1, <1>2, <1>3, <1>6, <2>1, SteppedEnd
<1> QED
  BY <1>4, <1>5, <1>6

\* the check of it,
LEMMA CheckModelStep ==
  ASSUME ApiInv, CheckModel
  PROVE  Stepped
<1> DEFINE d == Notified(core)
           e == Extended(d)
           bad == FalsifiedLemmas(d)
           k == MustPut(mock, Min(bad))
<1>1. pc = "model" /\ query' = query /\ again' \in BOOLEAN
  BY Zenon DEF CheckModel
<1>2. Good(core, mock, query, "model", again, Worlds)
  BY <1>1, NowAt
<1>3. \/ core' = d /\ pc' = "loop" /\ UNCHANGED <<mock, result, termination_forced>>
      \/ Finish(e, 10) /\ UNCHANGED mock
      \/ bad # {} /\ core' = e /\ pc' = "askmodel" /\ mock' = k
         /\ UNCHANGED <<result, termination_forced>>
  BY Zenon DEF CheckModel, Goto, MustPut
<1>4. CheckResult(core, d, e, mock, query, again', Worlds)
  BY <1>2, CheckModelFine, Zenon
<1>5. /\ Result(core, d, mock, query, "loop", again', Worlds)
      /\ Result(core, e, mock, query, "done", again', Worlds) /\ e.unsat = core.unsat
      /\ bad # {} => Result(core, e, k, query, "askmodel", again', Worlds)
  BY <1>4, Zenon DEF CheckResult
<1> HIDE DEF d, e, bad, k
<1>6. CASE core' = d /\ pc' = "loop" /\ UNCHANGED <<mock, result, termination_forced>>
  BY <1>1, <1>5, <1>6, SteppedTo
<1>7. CASE Finish(e, 10) /\ UNCHANGED mock
  <2>1. ~core.unsat /\ ~query.unsat_constraint
    BY <1>2 DEF Good, ConflictAt, Resting
  <2>2. ~e.unsat
    BY <1>5, <2>1
  <2> QED
    BY <1>1, <1>5, <1>7, <2>1, <2>2, SteppedEnd
<1>8. CASE /\ bad # {} /\ core' = e /\ pc' = "askmodel" /\ mock' = k
           /\ UNCHANGED <<result, termination_forced>>
  BY <1>1, <1>5, <1>8, SteppedTo
<1> QED
  BY <1>3, <1>6, <1>7, <1>8

\* the question for a clause against it,
LEMMA AskAfterStep ==
  ASSUME ApiInv, AskAfterModel
  PROVE  Stepped
<1> DEFINE a == Asked(core, mock)
           d == a.core
           k == a.mock
           has == a.has
<1>1. pc = "askmodel" /\ mock' = k /\ query' = query /\ again' = again
  BY Zenon DEF AskAfterModel
<1>2. Good(core, mock, query, "askmodel", again, Worlds) /\ again \in BOOLEAN
  BY <1>1, NowAt
<1>3. \/ /\ core' = d /\ UNCHANGED <<result, termination_forced>>
         /\ \/ has /\ pc' = "lemmamodel"
            \/ pc' = "model"
            \/ pc' = "loop"
      \/ Finish(d, 10)
  BY Zenon DEF AskAfterModel, Goto
<1>4. AskModelResult(core, d, k, has, query, again, Worlds)
  BY <1>2, AskModelFine, Zenon
<1>5. /\ has => Result(core, d, k, query, "lemmamodel", again, Worlds)
      /\ Result(core, d, k, query, "model", again, Worlds)
      /\ Result(core, d, k, query, "loop", again, Worlds)
      /\ Result(core, d, k, query, "done", again, Worlds) /\ d.unsat = core.unsat
  BY <1>4, Zenon DEF AskModelResult
<1> HIDE DEF a, d, k, has
<1>6. CASE /\ core' = d /\ UNCHANGED <<result, termination_forced>>
           /\ \/ has /\ pc' = "lemmamodel"
              \/ pc' = "model"
              \/ pc' = "loop"
  <2>1. Result(core, core', mock', query, pc', again', Worlds) /\ pc' # "done"
    BY <1>1, <1>5, <1>6
  <2> QED
    BY <1>1, <1>2, <1>6, <2>1, SteppedTo
<1>7. CASE Finish(d, 10)
  <2>1. ~core.unsat /\ ~query.unsat_constraint
    BY <1>2 DEF Good, ConflictAt, Resting
  <2>2. ~d.unsat
    BY <1>5, <2>1
  <2> QED
    BY <1>1, <1>2, <1>5, <1>7, <2>1, <2>2, SteppedEnd
<1> QED
  BY <1>3, <1>6, <1>7

\* that clause,
LEMMA AddAfterStep ==
  ASSUME ApiInv, AddAfterModel
  PROVE  Stepped
<1> DEFINE d == LemmaAdded(core, mock)
           k == NextPut(mock)
           b == BackConflict(d)
<1>1. pc = "lemmamodel" /\ mock' = k /\ query' = query /\ again' \in BOOLEAN
      /\ UNCHANGED <<result, termination_forced>> /\ ModelRefuted(d)
  BY Zenon DEF AddAfterModel, NextPut
<1>2. Good(core, mock, query, "lemmamodel", again, Worlds)
  BY <1>1, NowAt
<1>3. AddModelResult(core, d, k, query, again', Worlds)
  BY <1>2, AddModelFine, Zenon
<1>4. /\ d.unsat => Result(core, d, k, query, "loop", again', Worlds)
      /\ ~d.unsat /\ d.conflict # None => Result(core, b, k, query, "analyze", again', Worlds)
      /\ ~d.unsat /\ d.conflict = None => Result(core, d, k, query, "model", again', Worlds)
      /\ ~d.unsat /\ d.conflict = None /\ ~Moved(core, d) =>
           Result(core, d, k, query, "askmodel", again', Worlds)
  BY <1>3, Zenon DEF AddModelResult
<1>5. \/ d.unsat /\ core' = d /\ pc' = "loop"
      \/ ~d.unsat /\ d.conflict # None /\ core' = b /\ pc' = "analyze"
      \/ ~d.unsat /\ d.conflict = None /\ core' = d
         /\ (pc' = "model" \/ (pc' = "askmodel" /\ ~Moved(core, d)))
  BY <1>1, Zenon DEF ModelRefuted, Goto, BackConflict, Moved
<1> HIDE DEF d, k, b
<1>6. Result(core, core', k, query, pc', again', Worlds) /\ pc' # "done"
  BY <1>4, <1>5
<1> QED
  BY <1>1, <1>6, SteppedTo

\* (the search ends before a decision)
LEMMA EndsHere ==
  ASSUME ApiInv, pc = "decide", UNCHANGED <<mock, query, again>>,
         NEW res \in {0, 20}, Finish(core, res)
  PROVE  Stepped
<1>1. Good(core, mock, query, "decide", again, Worlds) /\ again \in BOOLEAN
  BY NowAt
<1>2. Result(core, core, mock, query, "done", again, Worlds)
  BY <1>1, DecideDone
<1>3. mock' = mock /\ again' = again /\ res # 10 /\ res \in {0, 10, 20}
  OBVIOUS
<1> QED
  BY <1>1, <1>2, <1>3, SteppedEnd

\* (it goes on)
LEMMA Looped ==
  ASSUME ApiInv, NoLimit, Result(core, core', mock, query, "loop", again, Worlds)
  PROVE  Stepped
<1>1. pc' = "loop" /\ mock' = mock /\ query' = query /\ again' = again
      /\ UNCHANGED <<result, termination_forced>>
  BY DEF NoLimit
<1>2. again \in BOOLEAN
  BY DEF ApiInv, Typed
<1> QED
  BY <1>1, <1>2, SteppedTo

\* the end for a request or for a limit,
LEMMA StopStep ==
  ASSUME ApiInv, Terminated \/ AssumptionsDone
  PROVE  Stepped
<1>1. Finish(core, 0) /\ pc = "decide" /\ UNCHANGED <<mock, query, again>>
  BY DEF Terminated, AssumptionsDone, Searching
<1> QED
  BY <1>1, EndsHere

\* a restart,
LEMMA RestartStep ==
  ASSUME ApiInv, Restart
  PROVE  Stepped
<1>1. pc = "decide" /\ NoLimit
  BY DEF Restart, Searching
<1>2. PICK L \in Len(query.assumptions)..Level(core) - 1 : core' = Backtracked(core, L)
  BY Zenon DEF Restart
<1>3. Good(core, mock, query, "decide", again, Worlds)
  BY <1>1, NowAt
<1>4. L \in Nat
  <2>1. Len(query.assumptions) \in Nat
    BY AskedQuery DEF QueryOk
  <2>2. Level(core) \in Nat
    BY <1>3, StructFields DEF Good, CoreAt
  <2> QED
    BY <2>1, <2>2
<1>5. Result(core, core', mock, query, "loop", again, Worlds)
  BY <1>2, <1>3, <1>4, RestartFine, Zenon
<1> QED
  BY <1>1, <1>5, Looped

\* a reduction,
LEMMA ReduceStep ==
  ASSUME ApiInv, Reduce
  PROVE  Stepped
<1>1. pc = "decide" /\ NoLimit
  BY DEF Reduce, Searching
<1>2. PICK x \in core.clauses : core' = [core EXCEPT !.clauses = @ \ {x}]
  BY Zenon DEF Reduce
<1> DEFINE s == core.clauses \ {x}
<1>3. core' = ClausesPut(core, s) /\ s \subseteq core.clauses
  BY <1>2 DEF ClausesPut
<1>4. Good(core, mock, query, "decide", again, Worlds)
  BY <1>1, NowAt
<1> HIDE DEF s
<1>5. Result(core, core', mock, query, "loop", again, Worlds)
  BY <1>3, <1>4, ReduceFine, Zenon
<1> QED
  BY <1>1, <1>5, Looped

\* an assumption,
LEMMA AssumptionStep ==
  ASSUME ApiInv, DecideAssumption
  PROVE  Stepped
<1>1. pc = "decide" /\ Level(core) < Len(query.assumptions)
  BY DEF DecideAssumption, Deciding, Searching
<1>2. \/ Finish(core, 20) /\ UNCHANGED <<mock, query, again>>
      \/ ~AssumptionFails(core, query) /\ core' = Assumed(core, query) /\ NoLimit
  BY Zenon DEF DecideAssumption
<1>3. CASE Finish(core, 20) /\ UNCHANGED <<mock, query, again>>
  BY <1>1, <1>3, EndsHere
<1>4. CASE ~AssumptionFails(core, query) /\ core' = Assumed(core, query) /\ NoLimit
  <2>1. Good(core, mock, query, "decide", again, Worlds) /\ QueryOk(core, query)
    BY <1>1, NowAt, AskedQuery
  <2>2. Result(core, core', mock, query, "loop", again, Worlds)
    BY <1>1, <1>4, <2>1, AssumedGood, Zenon
  <2> QED
    BY <1>4, <2>2, Looped
<1> QED
  BY <1>2, <1>3, <1>4

\* (a constraint that fails)
LEMMA UnsatQuery ==
  ASSUME NEW q \in Query, NEW x \in BOOLEAN, NEW p, p = [q EXCEPT !.unsat_constraint = x]
  PROVE  p \in Query /\ p.assumptions = q.assumptions /\ p.constraint = q.constraint
<1> DEFINE A == Seq(Lit)
<1>1. q \in [kind : {"solve", "simplify", "propagate"}, assumptions : A,
             constraint : Clause, unsat_constraint : BOOLEAN]
  BY DEF Query
<1> HIDE DEF A
<1>2. p \in [kind : {"solve", "simplify", "propagate"}, assumptions : A,
             constraint : Clause, unsat_constraint : BOOLEAN]
      /\ p.assumptions = q.assumptions /\ p.constraint = q.constraint
  BY <1>1
<1> QED
  BY <1>2 DEF Query, A

\* a constraint,
LEMMA ConstraintStep ==
  ASSUME ApiInv, DecideConstraint
  PROVE  Stepped
<1>1. pc = "decide"
  BY DEF DecideConstraint, Deciding, Searching
<1>2. Good(core, mock, query, "decide", again, Worlds) /\ again \in BOOLEAN
  BY <1>1, NowAt
<1>3. \/ /\ \E x \in BOOLEAN : x /\ query' = [query EXCEPT !.unsat_constraint = x]
         /\ Finish(core, 20) /\ UNCHANGED <<mock, again>>
      \/ core' = NewLevel(core) /\ NoLimit
      \/ NoLimit /\ \E l \in query.constraint :
                      ~IsFalse(core, l) /\ ~IsTrue(core, l) /\ core' = Decided(core, l)
  <2> DEFINE open == {l \in query.constraint : ~IsFalse(core, l)}
             true == {l \in open : IsTrue(core, l)}
  <2>1. \/ /\ query' = [query EXCEPT !.unsat_constraint = TRUE]
           /\ Finish(core, 20) /\ UNCHANGED <<mock, again>>
        \/ core' = NewLevel(core) /\ NoLimit
        \/ true = {} /\ NoLimit /\ \E l \in open : core' = Decided(core, l)
    BY Zenon DEF DecideConstraint
  <2>2. CASE true = {} /\ NoLimit /\ \E l \in open : core' = Decided(core, l)
    <3>1. PICK l \in open : core' = Decided(core, l)
      BY <2>2
    <3>2. l \in query.constraint /\ ~IsFalse(core, l) /\ l \notin true
      BY <2>2
    <3>3. ~IsTrue(core, l)
      BY <3>2
    <3> QED
      BY <2>2, <3>1, <3>2, <3>3
  <2>3. CASE /\ query' = [query EXCEPT !.unsat_constraint = TRUE]
             /\ Finish(core, 20) /\ UNCHANGED <<mock, again>>
    BY <2>3, Zenon
  <2> QED
    BY <2>1, <2>2, <2>3
<1>4. CASE /\ \E x \in BOOLEAN : x /\ query' = [query EXCEPT !.unsat_constraint = x]
           /\ Finish(core, 20) /\ UNCHANGED <<mock, again>>
  <2>1. PICK x \in BOOLEAN : x /\ query' = [query EXCEPT !.unsat_constraint = x]
    BY <1>4
  <2>2. query \in Query
    BY DEF ApiInv, Typed
  <2>3. query' \in Query /\ query'.assumptions = query.assumptions
        /\ query'.constraint = query.constraint
    BY <2>1, <2>2, UnsatQuery, Zenon
  <2>4. core' = core /\ pc' = "done" /\ result' = 20 /\ termination_forced' \in BOOLEAN
    BY <1>4, FinishIs
  <2>5. Result(core, core, mock, query', "done", again, Worlds)
    BY <1>2, DecideDone
  <2>6. mock' = mock /\ again' = again
    BY <1>4
  <2>7. Result(core, core', mock', query', pc', again', Worlds)
    BY <2>4, <2>5, <2>6
  <2> QED
    BY <1>2, <2>3, <2>4, <2>6, <2>7 DEF Stepped
<1>5. CASE core' = NewLevel(core) /\ NoLimit
  <2>1. Result(core, core', mock, query, "loop", again, Worlds)
    BY <1>2, <1>5, NewLevelGood, Zenon
  <2> QED
    BY <1>5, <2>1, Looped
<1>6. CASE NoLimit /\ \E l \in query.constraint :
                      ~IsFalse(core, l) /\ ~IsTrue(core, l) /\ core' = Decided(core, l)
  <2>1. PICK l \in query.constraint :
          ~IsFalse(core, l) /\ ~IsTrue(core, l) /\ core' = Decided(core, l)
    BY <1>6
  <2>2. l \in Lit /\ Abs(l) \in core.vars
    BY AskedQuery
  <2>3. ~IsAssigned(core, l)
    BY <2>1 DEF IsAssigned
  <2>4. Result(core, core', mock, query, "loop", again, Worlds)
    BY <1>2, <2>1, <2>2, <2>3, DecideFine, Zenon
  <2> QED
    BY <1>6, <2>4, Looped
<1> QED
  BY <1>3, <1>4, <1>5, <1>6

\* and a decision.
LEMMA DecideStep ==
  ASSUME ApiInv, Decide
  PROVE  Stepped
<1>1. pc = "decide" /\ NoLimit
  BY DEF Decide, Deciding, Searching
<1>2. Good(core, mock, query, "decide", again, Worlds)
  BY <1>1, NowAt
<1>3. PICK v \in core.vars, sign \in {1, -1} :
        ~IsAssigned(core, v) /\ core' = Decided(core, sign * v)
  BY Zenon DEF Decide
<1> DEFINE l == sign * v
<1>4. v \in Var
  BY <1>2, StructFields DEF Good, CoreAt, FieldTypes
<1>5. l \in {v, -v}
  BY <1>4, VarFacts
<1>6. l \in Lit /\ Abs(l) = v /\ -l \in {v, -v}
  BY <1>4, <1>5, VarFacts
<1>7. ~IsAssigned(core, l)
  BY <1>3, <1>5, <1>6 DEF IsAssigned, IsTrue, IsFalse
<1> HIDE DEF l
<1>8. Result(core, core', mock, query, "loop", again, Worlds)
  <2>1. core' = Decided(core, l) /\ Abs(l) \in core.vars
    BY <1>3, <1>6 DEF l
  <2> QED
    BY <1>2, <1>6, <1>7, <2>1, DecideFine, Zenon
<1> QED
  BY <1>1, <1>8, Looped

\* The models are those of the formula, of what the user gave as theory, and
\* of the lemmas the propagator has.
LEMMA WorldsIs ==
  /\ Worlds = Models(user.formula \cup (user.theory \cup FormerTheory(core)))
  /\ Worlds' = Models(user'.formula \cup (user'.theory \cup FormerTheory(core')))
  BY Zenon DEF Worlds, Theory

\* They stay while these do.
LEMMA WorldsKept ==
  ASSUME UNCHANGED user, FormerTheory(core') = FormerTheory(core)
  PROVE  Worlds' = Worlds
  BY WorldsIs, Zenon

\* The query is about variables of the solver still
LEMMA OverMore ==
  ASSUME NEW s, NEW V, Over(s, V), NEW U, V \subseteq U
  PROVE  Over(s, U)
  BY DEF Over

\* when it has more of them.
LEMMA AskedMore ==
  ASSUME NEW c, NEW q, NEW a, AskedAt(c, q, a), NEW d, c.vars \subseteq d.vars,
         NEW p, p.assumptions = q.assumptions, p.constraint = q.constraint
  PROVE  AskedAt(d, p, a)
  BY OverMore DEF AskedAt

\* So every step but 'cb_propagate' keeps the invariant of the search.
LEMMA SearchStepped ==
  ASSUME ApiInv, Search, ~CbPropagate
  PROVE  Stepped
BY BeginStep, LocalSearchStep, PropagateStep, AnalyzeStep, CbNothingStep, AskClauseStep,
   AddLemmaStep, FoundModelStep, CheckModelStep, AskAfterStep, AddAfterStep, StopStep,
   RestartStep, ReduceStep, AssumptionStep, ConstraintStep, DecideStep, Zenon DEF Search

-----------------------------------------------------------------------------
(* The search does, whatever 'cb_propagate' brings.                        *)

\* There is a search then.
LEMMA SearchBusy ==
  ASSUME Search
  PROVE  pc \notin {"idle", "done"}
BY Zenon DEF Search, Begin, LocalSearch, Propagate, Analyze, CbPropagate,
   CbPropagateNothing, AskClause, AddLemma, FoundModel, CheckModel, AskAfterModel,
   AddAfterModel, Terminated, Restart, Reduce, AssumptionsDone, DecideAssumption,
   DecideConstraint, Decide, Searching, Deciding

\* The same with the models after the step,
Searched ==
  /\ Good(core', mock', query', pc', again', Worlds') /\ core.vars \subseteq core'.vars
  /\ query' \in Query /\ query'.assumptions = query.assumptions
  /\ query'.constraint = query.constraint
  /\ again' \in BOOLEAN /\ result' \in {0, 10, 20} /\ termination_forced' \in BOOLEAN
  /\ pc' = "done" /\ result' = 10 => ~core'.unsat /\ ~query'.unsat_constraint

\* which are those before it for these steps.
LEMMA SteppedSearched ==
  ASSUME Stepped, UNCHANGED user
  PROVE  Searched
<1>1. Result(core, core', mock', query', pc', again', Worlds)
  BY DEF Stepped
<1>2. Good(core', mock', query', pc', again', Worlds) /\ core.vars \subseteq core'.vars
      /\ FormerTheory(core') = FormerTheory(core)
  BY <1>1 DEF Result, Kept
<1>3. Worlds' = Worlds
  BY <1>2, WorldsKept
<1> QED
  BY <1>2, <1>3 DEF Stepped, Searched

\* 'cb_propagate' may bring a clause, which takes some models away:
LEMMA ModelsMore ==
  ASSUME NEW F, NEW cl, NEW G, G = F \cup {cl}
  PROVE  /\ Models(G) \in SUBSET Models(F)
         /\ \A y \in Models(G) : Holds(y, cl)
  BY DEF Models

\* the invariant holds for the rest.
LEMMA CbSearched ==
  ASSUME ApiInv, CbPropagate, UNCHANGED user
  PROVE  Searched
<1>1. pc = "cbpropagate" /\ mock' = mock /\ query' = query /\ again' = again
      /\ UNCHANGED <<result, termination_forced>>
  BY DEF CbPropagate
<1>2. Good(core, mock, query, "cbpropagate", again, Worlds) /\ again \in BOOLEAN
  BY <1>1, NowAt
<1>3. PICK p \in Proposals(core) :
        Resume(ExternallyPropagated(Proposed(core, p), p.lit), "cbpropagate")
  BY Zenon DEF CbPropagate
<1> DEFINE cl == p.clause
           e == ExternallyPropagated(Proposed(core, p), p.lit)
           F == user.formula \cup (user.theory \cup FormerTheory(core))
           G == F \cup {cl}
           V == Models(G)
<1>4. V \in SUBSET Worlds /\ \A y \in V : Holds(y, cl)
  <2>1. Worlds = Models(F)
    BY WorldsIs
  <2> HIDE DEF F, cl
  <2> QED
    BY <2>1, ModelsMore
<1>5. CbResult(core, e, mock, query, again, V, cl)
  <2> HIDE DEF G
  <2>1. V \in SUBSET Worlds /\ \A y \in V : Holds(y, p.clause)
    BY <1>4
  <2> HIDE DEF V
  <2> QED
    BY <1>2, <1>3, <2>1, CbFine, Zenon
<1>6. /\ ResumeOk(e, mock, query, V, "cbpropagate", again)
      /\ core.vars \subseteq e.vars /\ FormerTheory(e) = FormerTheory(core) \cup {cl}
  BY <1>5, Zenon DEF CbResult
<1>7. Resume(e, "cbpropagate")
  BY <1>3
<1> HIDE DEF e, V
<1>8. /\ Good(core', mock, query, pc', again, V) /\ pc' # "done"
      /\ core' = e \/ (core' = Notified(e) /\ Kept(e, Notified(e)))
  BY <1>6, <1>7, ResumeStep
<1>9. core.vars \subseteq core'.vars /\ FormerTheory(core') = FormerTheory(core) \cup {cl}
  BY <1>6, <1>8 DEF Kept
<1>10. Worlds' = V
  <2>1. user' = user
    OBVIOUS
  <2>2. Worlds' = Models(user.formula \cup (user.theory \cup FormerTheory(core')))
    BY <2>1, WorldsIs, Zenon
  <2>3. user.formula \cup (user.theory \cup FormerTheory(core')) = G
    BY <1>9
  <2> QED
    BY <2>2, <2>3, Zenon DEF V
<1>11. query \in Query /\ result' \in {0, 10, 20} /\ termination_forced' \in BOOLEAN
  BY <1>1 DEF ApiInv, Typed
<1> QED
  BY <1>1, <1>2, <1>8, <1>9, <1>10, <1>11 DEF Searched

\* The whole invariant after the step,
LEMMA GoodApiNext ==
  ASSUME GoodNow', AskedInv', AnswerInv', CallsInv', Typed'
  PROVE  ApiInv'
  BY DEF ApiInv, GoodNow, Good, Worlds, CoreInv, ConflictInv, ControlInv, PendingInv

\* for a step of the search.
LEMMA SearchInv ==
  ASSUME ApiInv, Search, UNCHANGED <<state, adding, user, calls>>
  PROVE  ApiInv'
<1>1. Searched
  BY SearchStepped, SteppedSearched, CbSearched
<1>2. pc # "idle"
  BY SearchBusy
<1>3. AskedInv /\ AnswerInv /\ CallsInv /\ Typed
  BY ApiGood
<1>4. GoodNow'
  BY <1>1, Zenon DEF Searched, GoodNow
<1>5. AskedInv'
  <2>1. core.vars \subseteq core'.vars /\ query'.assumptions = query.assumptions
        /\ query'.constraint = query.constraint
    BY <1>1 DEF Searched
  <2>2. AskedAt(core, query, adding)
    BY <1>3 DEF AskedInv
  <2>3. AskedAt(core', query', adding)
    BY <2>1, <2>2, AskedMore
  <2> QED
    BY <2>3 DEF AskedInv
<1>6. AnswerInv'
  <2>1. state' # "SATISFIED"
    BY <1>2, <1>3 DEF AnswerInv, AnswerAt
  <2>2. pc' = "done" /\ result' = 10 => ~core'.unsat /\ ~query'.unsat_constraint
    BY <1>1 DEF Searched
  <2>3. AnswerAt(core', query', pc', result', state')
    BY <2>1, <2>2 DEF AnswerAt
  <2> QED
    BY <2>3 DEF AnswerInv
<1>7. CallsInv'
  BY <1>3 DEF CallsInv
<1>8. Typed'
  BY <1>1, <1>3 DEF Searched, Typed
<1> QED
  BY <1>4, <1>5, <1>6, <1>7, <1>8, GoodApiNext

-----------------------------------------------------------------------------
(* The calls of the user keep the invariant.                               *)

\* A query asks no more than another one.
QueryLess(q, p) ==
  /\ p \in Query /\ (p.unsat_constraint => q.unsat_constraint)
  /\ \A V : Over(ToSet(q.assumptions), V) => Over(ToSet(p.assumptions), V)
  /\ \A V : Over(q.constraint, V) => Over(p.constraint, V)

\* It asks no more than itself,
LEMMA QuerySelf ==
  ASSUME NEW q \in Query
  PROVE  QueryLess(q, q)
  BY DEF QueryLess

\* and none asks least.
LEMMA NoQueryLess ==
  ASSUME NEW q \in Query, NEW p, p = NoQuery(q)
  PROVE  QueryLess(q, p) /\ (p.unsat_constraint => p.constraint # {})
<1>1. p.assumptions = <<>> /\ p.constraint = {} /\ ~p.unsat_constraint /\ p.kind = q.kind
  BY DEF NoQuery, Query
<1> DEFINE A == Seq(Lit)
<1>2. p \in Query
  <2>1. <<>> \in A
    OBVIOUS
  <2>2. {} \in Clause
    BY DEF Clause
  <2> HIDE DEF A
  <2> HIDE DEF Clause
  <2>3. q \in [kind : {"solve", "simplify", "propagate"}, assumptions : A,
               constraint : Clause, unsat_constraint : BOOLEAN]
    BY Zenon DEF Query, A
  <2>4. p \in [kind : {"solve", "simplify", "propagate"}, assumptions : A,
               constraint : Clause, unsat_constraint : BOOLEAN]
    BY <2>1, <2>2, <2>3 DEF NoQuery
  <2> QED
    BY <2>4, Zenon DEF Query, A
<1>3. ToSet(p.assumptions) = {}
  BY <1>1 DEF ToSet
<1> QED
  BY <1>1, <1>2, <1>3 DEF QueryLess, Over

\* So it is about variables of the solver as well.
LEMMA AskedLess ==
  ASSUME NEW c, NEW q, NEW a, AskedAt(c, q, a), NEW d, c.vars \subseteq d.vars,
         NEW p, QueryLess(q, p)
  PROVE  AskedAt(d, p, a)
<1>1. Over(ToSet(p.assumptions), c.vars) /\ Over(p.constraint, c.vars)
  BY DEF AskedAt, QueryLess
<1> QED
  BY <1>1, OverMore DEF AskedAt

\* What is to be shown of a step that ends between two calls or begins one.
CalledTo(p, l, o) ==
  /\ IdlePre(core', mock', p, Worlds', o) /\ AskedAt(core', p, adding')
  /\ AnswerAt(core', p, l, result', state')
  /\ p \in Query /\ user' \in User /\ adding' \in Adding
  /\ result' \in {0, 10, 20} /\ again' \in BOOLEAN /\ termination_forced' \in BOOLEAN
  /\ state' \in VALID \cup {"SOLVING", "DELETING"}

\* A call that goes from one query to the next keeps the invariant.
LEMMA CalledInv ==
  ASSUME NEW l \in {"idle", "start"}, pc' = l, NEW p, query' = p, NEW o,
         CalledTo(p, l, o), CallsInv'
  PROVE  ApiInv'
<1>1. IdlePre(core', mock', p, Worlds', o)
  BY DEF CalledTo
<1>2. Good(core', mock', p, l, again', Worlds')
  BY <1>1, IdleGood
<1>3. GoodNow'
  BY <1>2 DEF GoodNow
<1>4. AskedInv' /\ AnswerInv' /\ Typed'
  BY DEF CalledTo, AskedInv, AnswerInv, Typed
<1> QED
  BY <1>3, <1>4, GoodApiNext

\* The models depend on three fields.
LEMMA WorldsSame ==
  ASSUME user'.formula = user.formula, user'.theory = user.theory,
         FormerTheory(core') = FormerTheory(core)
  PROVE  Worlds' = Worlds
  BY WorldsIs, Zenon

\* The user notes an answer,
LEMMA ReturnUser ==
  ASSUME user \in User, NEW s \in SUBSET Clause, NEW n \in Nat,
         user' = [user EXCEPT !.constraint = s, !.unknowns = n]
  PROVE  user' \in User /\ user'.formula = user.formula /\ user'.theory = user.theory
BY DEF User

\* and 'solve' returns,
LEMMA ReturnInv ==
  ASSUME ApiInv, Return, UNCHANGED calls
  PROVE  ApiInv'
<1>1. pc = "done" /\ pc' = "idle" /\ UNCHANGED <<mock, again, result, termination_forced, budget, adding>>
  BY DEF Return
<1>2. Good(core, mock, query, "done", again, Worlds)
  BY <1>1, NowAt
<1>3. PICK o \in BOOLEAN : ~o
  BY SomeFalse
<1>4. \A p : IdlePre(core, mock, p, Worlds, o)
  <2>1. Loose(core, Worlds, o) /\ ~core.private /\ NextOf(mock, core)
    BY <1>2, <1>3, RestBase
  <2>2. (core.conflict = None \/ core.unsat) /\ mock.must = 0
    BY <1>2, CalmStart
  <2>3. Ordered(core.trail)
    BY <1>2 DEF Good, CoreAt
  <2> QED
    BY <2>1, <2>2, <2>3 DEF IdlePre
<1>5. IdleKept(core, core', mock, query', Worlds, o)
  <2>1. core' = core \/ core' = Extended(core)
    BY Zenon DEF Return
  <2>2. CASE core' = core
    BY <1>4, <2>2, IdleAsked
  <2>3. CASE core' = Extended(core)
    <3>1. IdlePre(core, mock, query', Worlds, o)
      BY <1>4
    <3> QED
      BY <2>3, <3>1, IdleExtended
  <2> QED
    BY <2>1, <2>2, <2>3
<1>6. core.vars \subseteq core'.vars /\ FormerTheory(core') = FormerTheory(core)
      /\ IdlePre(core', mock, query', Worlds, o) /\ UnsatLow(core, core')
  BY <1>5 DEF IdleKept, Idled, Kept
<1>7. query \in Query /\ user \in User /\ adding \in Adding /\ result \in {0, 10, 20}
      /\ again \in BOOLEAN /\ termination_forced \in BOOLEAN
  BY DEF ApiInv, Typed
<1>8. query' = query \/ (result = 0 /\ query' = NoQuery(query))
  BY Zenon DEF Return
<1>9. QueryLess(query, query')
  BY <1>7, <1>8, QuerySelf, NoQueryLess
<1>10. user' \in User /\ user'.formula = user.formula /\ user'.theory = user.theory
  <2> DEFINE s == IF result = 0 /\ query.kind # "propagate" THEN {} ELSE user.constraint
             n == IF result = 0 /\ query.kind = "solve" THEN user.unknowns + 1
                  ELSE user.unknowns
  <2>1. user' = [user EXCEPT !.constraint = s, !.unknowns = n]
    BY Zenon DEF Return
  <2>2. s \in SUBSET Clause /\ n \in Nat
    BY <1>7 DEF User
  <2> HIDE DEF s, n
  <2> QED
    BY <1>7, <2>1, <2>2, ReturnUser
<1>11. Worlds' = Worlds
  BY <1>6, <1>10, WorldsSame
<1>12. AskedAt(core', query', adding)
  <2>1. AskedAt(core, query, adding)
    BY DEF ApiInv, AskedInv
  <2> QED
    BY <1>6, <1>9, <2>1, AskedLess
<1>13. state' \in {"SATISFIED", "UNSATISFIED", "STEADY"} /\ (state' = "SATISFIED" => result = 10)
  BY DEF Return
<1>14. AnswerAt(core', query', "idle", result, state')
  <2>1. state' = "SATISFIED" => ~core.unsat /\ ~query.unsat_constraint /\ query' = query
    BY <1>1, <1>8, <1>13 DEF ApiInv, AnswerInv, AnswerAt
  <2> QED
    BY <1>6, <2>1 DEF AnswerAt, UnsatLow
<1>15. state' \in VALID \cup {"SOLVING", "DELETING"}
  BY <1>13 DEF VALID, READY
<1>16. CalledTo(query', "idle", o)
  BY <1>1, <1>6, <1>7, <1>9, <1>10, <1>11, <1>12, <1>14, <1>15 DEF CalledTo, QueryLess
<1>17. CallsInv'
  BY DEF ApiInv, CallsInv
<1> QED
  BY <1>1, <1>16, <1>17, CalledInv

\* or is asked to terminate.
LEMMA TerminateInv ==
  ASSUME ApiInv, Terminate, UNCHANGED calls
  PROVE  ApiInv'
<1>1. UNCHANGED <<core, mock, query, pc, again, result, state, adding>> /\ termination_forced' \in BOOLEAN
      /\ user' = [user EXCEPT !.requests = @ + 1]
  BY Zenon DEF Terminate
<1>2. user \in User
  BY DEF ApiInv, Typed
<1>3. user' \in User /\ user'.formula = user.formula /\ user'.theory = user.theory
  BY <1>1, <1>2 DEF User
<1>4. Worlds' = Worlds
  BY <1>1, <1>3, WorldsSame
<1>5. GoodNow /\ AskedInv /\ AnswerInv /\ CallsInv /\ Typed
  BY ApiGood
<1>6. GoodNow'
  BY <1>1, <1>4, <1>5 DEF GoodNow
<1>7. AskedInv' /\ AnswerInv'
  BY <1>1, <1>5 DEF AskedInv, AnswerInv
<1>8. Typed' /\ CallsInv'
  BY <1>1, <1>3, <1>5 DEF Typed, CallsInv
<1> QED
  BY <1>6, <1>7, <1>8, GoodApiNext

\* What holds between two searches, of the variables.
LEMMA IdleNow ==
  ASSUME ApiInv, pc = "idle", NEW o, ~o
  PROVE  /\ IdlePre(core, mock, query, Worlds, o) /\ Struct(core)
         /\ query \in Query /\ user \in User /\ adding \in Adding
         /\ again \in BOOLEAN /\ termination_forced \in BOOLEAN
         /\ result \in {0, 10, 20} /\ state \in VALID \cup {"SOLVING", "DELETING"}
         /\ AskedAt(core, query, adding) /\ AnswerAt(core, query, "idle", result, state)
         /\ mock \in Mock
<1>1. Good(core, mock, query, "idle", again, Worlds)
  BY NowAt
<1>2. IdlePre(core, mock, query, Worlds, o)
  BY <1>1, IdlePres
<1>3. Struct(core)
  BY <1>1 DEF Good, CoreAt
<1> QED
  BY <1>2, <1>3 DEF ApiInv, Typed, AskedInv, AnswerInv

\* A call that changes the solver alone, and not what was asked or answered.
LEMMA IdleStep ==
  ASSUME ApiInv, pc = "idle", UNCHANGED <<query, pc, again, result, state, adding>>,
         user' \in User, termination_forced' \in BOOLEAN, CallsInv', NEW o, ~o,
         core.vars \subseteq core'.vars, UnsatLow(core, core'),
         IdlePre(core', mock', query, Worlds', o)
  PROVE  ApiInv'
<1>1. /\ query \in Query /\ adding \in Adding /\ again \in BOOLEAN /\ result \in {0, 10, 20}
      /\ state \in VALID \cup {"SOLVING", "DELETING"}
      /\ AskedAt(core, query, adding) /\ AnswerAt(core, query, "idle", result, state)
  BY IdleNow
<1>3. AskedAt(core', query, adding)
  BY <1>1, AskedMore
<1>4. AnswerAt(core', query, "idle", result, state)
  BY <1>1 DEF AnswerAt, UnsatLow
<1>5. CalledTo(query, "idle", o)
  BY <1>1, <1>3, <1>4 DEF CalledTo
<1> QED
  BY <1>5, CalledInv

\* Calls that keep it keep the invariant:
LEMMA IdleStepKept ==
  ASSUME ApiInv, pc = "idle", UNCHANGED <<query, pc, again, result, state, adding, user>>,
         termination_forced' \in BOOLEAN, CallsInv', NEW o, ~o,
         IdleKept(core, core', mock', query, Worlds, o)
  PROVE  ApiInv'
<1>1. Idled(core, core', mock', query, Worlds, o) /\ FormerTheory(core') = FormerTheory(core)
  BY DEF IdleKept, Kept
<1>2. Worlds' = Worlds
  BY <1>1, WorldsKept
<1>3. user' \in User
  BY IdleNow
<1>4. Idled(core, core', mock', query, Worlds', o)
  BY <1>1, <1>2
<1> QED
  BY <1>3, <1>4, IdleStep DEF Idled

\* A call after which the state is no longer SATISFIED.
LEMMA SteadyStep ==
  ASSUME ApiInv, pc = "idle", UNCHANGED <<again, result, termination_forced>>,
         NEW l \in {"idle", "start"}, pc' = l,
         state' \in VALID \cup {"SOLVING", "DELETING"}, state' # "SATISFIED",
         NEW p \in Query, query' = p, AskedAt(core', p, adding'),
         user' \in User, adding' \in Adding, CallsInv', NEW o, ~o,
         IdlePre(core', mock', p, Worlds', o)
  PROVE  ApiInv'
<1>1. again \in BOOLEAN /\ result \in {0, 10, 20} /\ termination_forced \in BOOLEAN
  BY IdleNow
<1>2. AnswerAt(core', p, l, result', state')
  BY DEF AnswerAt
<1>3. CalledTo(p, l, o)
  BY <1>1, <1>2 DEF CalledTo
<1> QED
  BY <1>3, CalledInv

\* those whose conditions do not hold,
LEMMA SkippedInv ==
  ASSUME ApiInv, pc = "idle", UNCHANGED apiVars, CallsInv'
  PROVE  ApiInv'
<1>1. PICK o \in BOOLEAN : ~o
  BY SomeFalse
<1>2. core' = core /\ mock' = mock
      /\ UNCHANGED <<query, pc, again, result, state, adding, user, termination_forced>>
  BY DEF apiVars, searchVars
<1>3. IdleKept(core, core, mock, query, Worlds, o)
  BY <1>1, IdleNow, IdleAsked
<1>4. termination_forced' \in BOOLEAN
  BY <1>2, <1>1, IdleNow
<1> QED
  BY <1>1, <1>2, <1>3, <1>4, IdleStepKept

\* those that change the solver only,
LEMMA KeptInv ==
  ASSUME ApiInv, pc = "idle", SearchKept, UNCHANGED <<query, state, adding, user>>, CallsInv',
         NEW o, ~o, NEW d, core' = d, IdleKept(core, d, mock, query, Worlds, o)
  PROVE  ApiInv'
<1>1. mock' = mock /\ UNCHANGED <<query, pc, again, result, state, adding, user, termination_forced>>
  BY DEF SearchKept
<1>2. termination_forced' \in BOOLEAN
  BY <1>1, IdleNow
<1>3. IdleKept(core, core', mock', query, Worlds, o)
  BY <1>1
<1> QED
  BY <1>1, <1>2, <1>3, IdleStepKept

\* 'val',
LEMMA ValInv ==
  ASSUME ApiInv, Val, CallsInv'
  PROVE  ApiInv'
<1>1. PICK o \in BOOLEAN : ~o
  BY SomeFalse
<1>2. pc = "idle" /\ SearchKept /\ UNCHANGED <<query, state, adding, user>>
      /\ (core' = core \/ core' = Extended(core))
  BY Zenon DEF Val, Idle
<1>3. IdlePre(core, mock, query, Worlds, o)
  BY <1>1, <1>2, IdleNow
<1>4. IdleKept(core, core, mock, query, Worlds, o)
  BY <1>3, IdleAsked
<1>5. IdleKept(core, Extended(core), mock, query, Worlds, o)
  BY <1>3, IdleExtended
<1> QED
  BY <1>1, <1>2, <1>4, <1>5, KeptInv, Zenon

\* 'freeze',
LEMMA FreezeInv ==
  ASSUME ApiInv, NEW v \in Var, Freeze(v), CallsInv'
  PROVE  ApiInv'
<1>1. PICK o \in BOOLEAN : ~o
  BY SomeFalse
<1>2. pc = "idle" /\ SearchKept /\ UNCHANGED <<query, state, adding, user>>
      /\ core' = FreezeOf(core, v)
  BY Zenon DEF Freeze, Idle, FreezeOf
<1>3. IdlePre(core, mock, query, Worlds, o)
  BY <1>1, <1>2, IdleNow
<1>4. IdleKept(core, FreezeOf(core, v), mock, query, Worlds, o)
  BY <1>3, IdleFrozen
<1> QED
  BY <1>1, <1>2, <1>4, KeptInv, Zenon

\* 'melt',
LEMMA MeltInv ==
  ASSUME ApiInv, NEW v \in Var, Melt(v), CallsInv'
  PROVE  ApiInv'
<1>1. PICK o \in BOOLEAN : ~o
  BY SomeFalse
<1>2. pc = "idle" /\ SearchKept /\ UNCHANGED <<query, state, adding, user>>
      /\ core' = Molten(core, v) /\ core.frozen[v] > 0
  BY Zenon DEF Melt, Idle
<1>3. IdlePre(core, mock, query, Worlds, o)
  BY <1>1, <1>2, IdleNow
<1>4. IdleKept(core, Molten(core, v), mock, query, Worlds, o)
  BY <1>2, <1>3, IdleMolten
<1> QED
  BY <1>1, <1>2, <1>4, KeptInv, Zenon

\* 'add_observed_var',
LEMMA ObserveInv ==
  ASSUME ApiInv, NEW v \in Var, Observe(v), CallsInv'
  PROVE  ApiInv'
<1>1. PICK o \in BOOLEAN : ~o
  BY SomeFalse
<1>2. pc = "idle" /\ SearchKept /\ UNCHANGED <<query, state, adding, user>>
      /\ core' = Observed(core, v) /\ core.connected
  BY Zenon DEF Observe, Idle
<1>3. IdlePre(core, mock, query, Worlds, o)
  BY <1>1, <1>2, IdleNow
<1>4. IdleKept(core, Observed(core, v), mock, query, Worlds, o)
  BY <1>2, <1>3, IdleObserved
<1> QED
  BY <1>1, <1>2, <1>4, KeptInv, Zenon

\* the variables to observe later,
LEMMA LaterInv ==
  ASSUME ApiInv, NEW s \in SUBSET Var, ObserveLater(s), CallsInv'
  PROVE  ApiInv'
<1>1. PICK o \in BOOLEAN : ~o
  BY SomeFalse
<1>2. pc = "idle" /\ core' = core /\ mock' = [mock EXCEPT !.fresh = s]
      /\ UNCHANGED <<query, pc, again, result, state, adding, user, termination_forced>>
  BY Zenon DEF ObserveLater, Idle
<1>3. IdlePre(core, mock, query, Worlds, o) /\ termination_forced \in BOOLEAN
  BY <1>1, <1>2, IdleNow
<1>4. IdleKept(core, core, mock', query, Worlds, o)
  BY <1>2, <1>3, IdleLater
<1>5. IdleKept(core, core', mock', query, Worlds, o) /\ termination_forced' \in BOOLEAN
  BY <1>2, <1>3, <1>4
<1> QED
  BY <1>1, <1>2, <1>5, IdleStepKept

\* 'lookahead',
LEMMA LookaheadInv ==
  ASSUME ApiInv, Lookahead, CallsInv'
  PROVE  ApiInv'
<1>1. PICK o \in BOOLEAN : ~o
  BY SomeFalse
<1> DEFINE stop == core.unsat \/ query.unsat_constraint
           b == LookEnd(core, stop)
<1>2. /\ pc = "idle" /\ mock' = mock /\ termination_forced' \in BOOLEAN
      /\ UNCHANGED <<query, pc, again, result, state, adding, user>>
  BY Zenon DEF Lookahead, Idle
<1>3. core' = Notified(b)
  BY Zenon DEF Lookahead, LookEnd, LookRoot, LookBack, UnsatSet
<1>4. IdlePre(core, mock, query, Worlds, o)
  BY <1>1, <1>2, IdleNow
<1>5. IdleKept(core, b, mock, query, Worlds, o)
  <2>1. ~stop => ~core.unsat
    OBVIOUS
  <2> HIDE DEF stop
  <2> QED
    BY <1>4, <2>1, IdleLook
<1> HIDE DEF b
<1>6. IdleKept(core, core', mock', query, Worlds, o)
  BY <1>2, <1>3, <1>5, IdleNotified, Zenon
<1> QED
  BY <1>1, <1>2, <1>6, IdleStepKept

\* (the literal to flip is on the trail)
LEMMA FlipIs ==
  ASSUME NEW c, Struct(c), NEW v \in Var, IsAssigned(c, v), ~IsFixed(c, v),
         NEW l, l = (IF IsTrue(c, v) THEN v ELSE -v)
  PROVE  \E p \in DOMAIN c.trail :
           /\ PosOf(c, v) = p /\ c.trail[p].lit = l /\ c.trail[p].level > 0
<1>1. v \in Lit
  BY DEF Lit
<1>2. Valued(c, v)
  BY <1>1, Values
<1>3. LevelOf(c, v) # 0
  BY DEF IsFixed
<1>4. CASE IsTrue(c, v)
  <2>1. PICK i \in DOMAIN c.trail : c.trail[i].lit = v /\ SpotIs(c, v, i)
    BY <1>2, <1>4 DEF Valued
  <2>2. c.trail[i].level > 0 /\ PosOf(c, v) = i
    <3>1. Level(c) \in Nat
      BY DEF Struct, Core, Level
    <3> QED
      BY <1>3, <2>1, <3>1 DEF SpotIs
  <2> QED
    BY <1>4, <2>1, <2>2
<1>5. CASE ~IsTrue(c, v)
  <2>1. PICK i \in DOMAIN c.trail : c.trail[i].lit = -v /\ SpotIs(c, v, i)
    BY <1>2, <1>5 DEF Valued, IsAssigned
  <2>2. c.trail[i].level > 0 /\ PosOf(c, v) = i
    <3>1. Level(c) \in Nat
      BY DEF Struct, Core, Level
    <3> QED
      BY <1>3, <2>1, <3>1 DEF SpotIs
  <2> QED
    BY <1>5, <2>1, <2>2
<1> QED
  BY <1>4, <1>5

\* 'flip',
LEMMA FlipInv ==
  ASSUME ApiInv, NEW v \in Var, Flip(v), CallsInv'
  PROVE  ApiInv'
<1>1. PICK o \in BOOLEAN : ~o
  BY SomeFalse
<1> DEFINE l == IF IsTrue(core, v) THEN v ELSE -v
<1>2. /\ pc = "idle" /\ SearchKept /\ UNCHANGED <<query, state, adding, user>>
      /\ state = "SATISFIED" /\ ~core.connected
      /\ (v \in core.vars => IsAssigned(core, v))
  BY Zenon DEF Flip, Idle
<1>3. \/ core' = core
      \/ /\ v \in core.vars /\ ~IsFixed(core, v)
         /\ core' = [Unextended(core) EXCEPT !.trail[PosOf(core, v)].lit = -l]
  BY Zenon DEF Flip
<1>4. IdlePre(core, mock, query, Worlds, o) /\ Struct(core)
      /\ AnswerAt(core, query, "idle", result, state)
  BY <1>1, <1>2, IdleNow
<1>5. CASE core' = core
  <2>1. IdleKept(core, core, mock, query, Worlds, o)
    BY <1>4, IdleAsked
  <2> QED
    BY <1>1, <1>2, <1>5, <2>1, KeptInv, Zenon
<1>6. CASE /\ v \in core.vars /\ ~IsFixed(core, v)
           /\ core' = [Unextended(core) EXCEPT !.trail[PosOf(core, v)].lit = -l]
  <2>1. PICK p \in DOMAIN core.trail :
          PosOf(core, v) = p /\ core.trail[p].lit = l /\ core.trail[p].level > 0
    BY <1>2, <1>4, <1>6, FlipIs
  <2> DEFINE u == Unextended(core)
             d == FlipOf(u, p)
  <2>2. u.trail = core.trail
    BY <1>4 DEF Struct, Core, Unextended
  <2>3. core' = d
    <3> HIDE DEF l
    <3>1. core' = [u EXCEPT !.trail[p].lit = -l]
      BY <1>6, <2>1
    <3>2. u.trail[p].lit = l
      BY <2>1, <2>2
    <3> HIDE DEF u
    <3> QED
      BY <3>1, <3>2, Zenon DEF FlipOf
  <2>4. ~core.unsat /\ ~query.unsat_constraint
    <3>1. ~query.unsat_constraint /\ (core.unsat => Level(core) = 0)
      BY <1>2, <1>4 DEF AnswerAt
    <3>2. SpotIs(core, v, p)
      <4>1. v \in Lit
        BY DEF Lit
      <4> QED
        BY <1>4, <2>1, <4>1, Spot
    <3>3. Level(core) \in Nat
      BY <1>4 DEF Struct, Core, Level
    <3>4. core.trail[p].level \in 0..Level(core) /\ core.trail[p].level > 0
      BY <2>1, <3>2 DEF SpotIs
    <3> QED
      BY <3>1, <3>3, <3>4
  <2>5. IdleKept(core, d, mock, query, Worlds, o)
    BY <1>1, <1>2, <1>4, <2>1, <2>4, IdleFlip
  <2> HIDE DEF d
  <2> QED
    BY <1>1, <1>2, <2>3, <2>5, KeptInv, Zenon
<1> QED
  BY <1>3, <1>5, <1>6

\* the end of the solver,
LEMMA ResetInv ==
  ASSUME ApiInv, Reset, CallsInv'
  PROVE  ApiInv'
<1>1. PICK o \in BOOLEAN : ~o
  BY SomeFalse
<1>2. pc = "idle" /\ pc' = "idle" /\ state' = "DELETING" /\ core' = core /\ mock' = mock
      /\ query' = query /\ adding' = adding /\ user' = user
      /\ UNCHANGED <<again, result, termination_forced>>
  BY Zenon DEF Reset, Idle, SearchKept
<1>3. IdlePre(core, mock, query, Worlds, o) /\ AskedAt(core, query, adding)
      /\ query \in Query /\ adding \in Adding /\ user \in User
  BY <1>1, <1>2, IdleNow
<1>4. Worlds' = Worlds
  BY <1>2, WorldsSame
<1>5. IdlePre(core', mock', query, Worlds', o) /\ AskedAt(core', query, adding')
      /\ user' \in User /\ adding' \in Adding
  BY <1>2, <1>3, <1>4
<1>6. state' \in VALID \cup {"SOLVING", "DELETING"} /\ state' # "SATISFIED"
  BY <1>2
<1> QED
  BY <1>1, <1>2, <1>3, <1>5, <1>6, SteadyStep, Zenon

\* (a propagator goes, and its lemmas are part of what was asked)
LEMMA ReplacedIs ==
  ASSUME Replaced, user \in User, FormerTheory(core) \in SUBSET Clause,
         FormerTheory(core') = {}
  PROVE  /\ mock' = NoMock /\ user' \in User /\ Worlds' = Worlds
         /\ UNCHANGED <<query, pc, again, result, termination_forced, state, adding>>
<1> DEFINE F == FormerTheory(core)
<1>1. mock' = NoMock /\ user' = [user EXCEPT !.theory = @ \cup F]
      /\ UNCHANGED <<query, pc, again, result, termination_forced, state, adding>>
  BY Zenon DEF Replaced
<1> HIDE DEF F
<1>2. F \in SUBSET Clause
  BY DEF F
<1>3. user' \in User /\ user'.formula = user.formula /\ user'.theory = user.theory \cup F
  BY <1>1, <1>2 DEF User
<1>4. user'.theory \cup {} = user.theory \cup F
  BY <1>3
<1>5. Worlds' = Worlds
  BY <1>3, <1>4, WorldsIs, Zenon DEF F
<1> QED
  BY <1>1, <1>3, <1>5

\* (they are clauses)
LEMMA TheoryClauses ==
  ASSUME NEW c, Struct(c)
  PROVE  FormerTheory(c) \in SUBSET Clause
<1>1. c.lemmas \in Seq([lits : Clause, added : BOOLEAN, isReason : BOOLEAN])
  BY DEF Struct, Core
<1>2. ASSUME NEW i \in DOMAIN c.lemmas
      PROVE  c.lemmas[i].lits \in Clause
  <2> DEFINE R == [lits : Clause, added : BOOLEAN, isReason : BOOLEAN]
  <2>1. c.lemmas[i] \in R
    <3> HIDE DEF R
    <3>1. c.lemmas \in Seq(R)
      BY <1>1 DEF R
    <3> QED
      BY <3>1
  <2> HIDE DEF Clause
  <2> QED
    BY <2>1
<1> QED
  BY <1>2 DEF FormerTheory

\* 'disconnect_external_propagator',
LEMMA DisconnectInv ==
  ASSUME ApiInv, Disconnect, CallsInv'
  PROVE  ApiInv'
<1>1. PICK o \in BOOLEAN : ~o
  BY SomeFalse
<1> DEFINE d == Disconnected(core)
<1>2. pc = "idle" /\ core' = d /\ Replaced
  BY Zenon DEF Disconnect, Idle
<1>3. IdlePre(core, mock, query, Worlds, o) /\ Struct(core) /\ user \in User
      /\ termination_forced \in BOOLEAN
  BY <1>1, <1>2, IdleNow
<1>4. CutIdle(core, d, query, Worlds, o)
  BY <1>1, <1>3, IdleCut
<1> HIDE DEF d
<1>5. /\ IdlePre(d, NoMock, query, Worlds, o) /\ UnsatLow(core, d)
      /\ core.vars \subseteq d.vars /\ FormerTheory(d) = {}
  BY <1>4, NoMockFine DEF CutIdle
<1>6. FormerTheory(core) \in SUBSET Clause /\ FormerTheory(core') = {}
  BY <1>2, <1>3, <1>5, TheoryClauses
<1>7. /\ mock' = NoMock /\ user' \in User /\ Worlds' = Worlds
      /\ UNCHANGED <<query, pc, again, result, termination_forced, state, adding>>
  BY <1>2, <1>3, <1>6, ReplacedIs, Zenon
<1> QED
  BY <1>1, <1>2, <1>3, <1>5, <1>7, IdleStep

\* 'connect_external_propagator',
LEMMA ConnectInv ==
  ASSUME ApiInv, Connect, CallsInv'
  PROVE  ApiInv'
<1>1. (\E o \in BOOLEAN : ~o) /\ (\E t \in BOOLEAN : t)
  BY SomeFalse, SomeTrue
<1>2. PICK o \in BOOLEAN : ~o
  BY <1>1
<1>3. PICK t \in BOOLEAN : t
  BY <1>1
<1>4. t = TRUE
  BY <1>3
<1> DEFINE d == Connected(core, t)
<1>5. pc = "idle" /\ Replaced
      /\ core' = [Backtracked(Disconnected(core), 0) EXCEPT !.connected = TRUE]
  BY Zenon DEF Connect, Idle
<1>6. core' = d
  BY <1>4, <1>5, Zenon DEF Connected, Linked
<1>7. IdlePre(core, mock, query, Worlds, o) /\ Struct(core) /\ user \in User
      /\ termination_forced \in BOOLEAN
  BY <1>2, <1>5, IdleNow
<1> HIDE <1>4
<1>8. /\ IdlePre(d, NoMock, query, Worlds, o) /\ UnsatLow(core, d)
      /\ core.vars \subseteq d.vars /\ d.lemmas = <<>>
  <2>1. ConnectedTo(core, d, query, Worlds, o)
    BY <1>2, <1>3, <1>7, IdleConnect, Zenon
  <2> HIDE DEF d
  <2> QED
    BY <2>1 DEF ConnectedTo
<1> HIDE DEF d
<1>9. FormerTheory(d) = {}
  BY <1>8, NoMockFine
<1>10. FormerTheory(core) \in SUBSET Clause /\ FormerTheory(core') = {}
  BY <1>6, <1>7, <1>9, TheoryClauses
<1>11. /\ mock' = NoMock /\ user' \in User /\ Worlds' = Worlds
       /\ UNCHANGED <<query, pc, again, result, termination_forced, state, adding>>
  BY <1>5, <1>7, <1>10, ReplacedIs, Zenon
<1>12. /\ UnsatLow(core, core') /\ core.vars \subseteq core'.vars
       /\ IdlePre(core', mock', query, Worlds', o) /\ termination_forced' \in BOOLEAN
  BY <1>6, <1>7, <1>8, <1>11
<1> QED
  BY <1>2, <1>5, <1>11, <1>12, IdleStep

\* (a query is forgotten after the answer was used)
LEMMA SteadyQueryIs ==
  ASSUME query \in Query, NEW q, q = SteadyQuery
  PROVE  QueryLess(query, q) /\ q \in Query /\ (q.unsat_constraint => query.unsat_constraint)
<1>1. q = query \/ q = NoQuery(query)
  BY Zenon DEF SteadyQuery
<1>2. QueryLess(query, q)
  BY <1>1, QuerySelf, NoQueryLess
<1> QED
  BY <1>2 DEF QueryLess

\* (nor does the user)
SameTheory(u, w) == w \in User /\ w.formula = u.formula /\ w.theory = u.theory

\* (forget what was added)
LEMMA SteadyUserIs ==
  ASSUME user \in User, NEW u, u = SteadyUser
  PROVE  SameTheory(user, u)
BY DEF SteadyUser, SameTheory, User

\* (so that the models stay)
LEMMA UserWorlds ==
  ASSUME NEW u, user' = u, SameTheory(user, u), FormerTheory(core') = FormerTheory(core)
  PROVE  Worlds' = Worlds
<1>1. user'.formula = user.formula /\ user'.theory = user.theory
  BY DEF SameTheory
<1> QED
  BY <1>1, WorldsSame

\* A call that leaves the clauses and the theory alone, and the state SATISFIED.
LEMMA AskingStep ==
  ASSUME ApiInv, pc = "idle", UNCHANGED <<mock, again, result, termination_forced>>,
         NEW l \in {"idle", "start"}, pc' = l,
         state' \in VALID \cup {"SOLVING", "DELETING"}, state' # "SATISFIED",
         NEW p \in Query, query' = p, AskedAt(core', p, adding'), adding' \in Adding,
         NEW u, user' = u, SameTheory(user, u), CallsInv', NEW o, ~o, NEW d, core' = d,
         IdleKept(core, d, mock, p, Worlds, o)
  PROVE  ApiInv'
<1>1. Idled(core, d, mock, p, Worlds, o) /\ FormerTheory(d) = FormerTheory(core)
  BY DEF IdleKept, Kept
<1>2. Worlds' = Worlds
  BY <1>1, UserWorlds
<1>3. IdlePre(core', mock', p, Worlds', o) /\ user' \in User
  BY <1>1, <1>2 DEF Idled, SameTheory
<1> QED
  BY <1>3, SteadyStep

\* 'solve', 'simplify' and 'propagate',
LEMMA CallInv ==
  ASSUME ApiInv, NEW kind \in {"solve", "simplify", "propagate"}, Call(kind), UNCHANGED adding,
         CallsInv'
  PROVE  ApiInv'
<1>1. PICK o \in BOOLEAN : ~o
  BY SomeFalse
<1> DEFINE q == SteadyQuery
           p == [q EXCEPT !.kind = kind]
           u == SteadyUser
<1>2. /\ pc = "idle" /\ pc' = "start" /\ query' = p /\ user' = u
      /\ state' \in {"STEADY", "SOLVING"}
      /\ core' = core \/ core' = Unextended(core)
      /\ UNCHANGED <<mock, again, result, termination_forced, adding>>
  BY Zenon DEF Call
<1>3. IdlePre(core, mock, query, Worlds, o) /\ query \in Query /\ user \in User
      /\ adding \in Adding /\ AskedAt(core, query, adding)
  BY <1>1, <1>2, IdleNow
<1>4. QueryLess(query, q) /\ q \in Query /\ (q.unsat_constraint => query.unsat_constraint)
  BY <1>3, SteadyQueryIs
<1>5. SameTheory(user, u)
  BY <1>3, SteadyUserIs
<1> HIDE DEF q, u
<1>6. /\ p \in Query /\ p.assumptions = q.assumptions /\ p.constraint = q.constraint
      /\ p.unsat_constraint = q.unsat_constraint
  <2> DEFINE A == Seq(Lit)
  <2>1. q \in [kind : {"solve", "simplify", "propagate"}, assumptions : A,
               constraint : Clause, unsat_constraint : BOOLEAN]
    BY <1>4, Zenon DEF Query
  <2> HIDE DEF A
  <2> HIDE DEF Clause
  <2>2. /\ p \in [kind : {"solve", "simplify", "propagate"}, assumptions : A,
                  constraint : Clause, unsat_constraint : BOOLEAN]
        /\ p.assumptions = q.assumptions /\ p.constraint = q.constraint
        /\ p.unsat_constraint = q.unsat_constraint
    BY <2>1
  <2> QED
    BY <2>2, Zenon DEF Query, A
<1> HIDE DEF p
<1>7. QueryLess(query, p)
  BY <1>4, <1>6 DEF QueryLess
<1>8. IdleKept(core, core', mock, p, Worlds, o)
  <2>1. p.unsat_constraint => query.unsat_constraint
    BY <1>7 DEF QueryLess
  <2>2. IdleKept(core, core, mock, p, Worlds, o)
    BY <1>3, <2>1, IdleAsked
  <2>3. IdleKept(core, Unextended(core), mock, p, Worlds, o)
    BY <1>3, <2>1, IdlePlain
  <2> QED
    BY <1>2, <2>2, <2>3
<1>9. core.vars \subseteq core'.vars
  BY <1>8 DEF IdleKept, Kept
<1>10. AskedAt(core', p, adding')
  BY <1>2, <1>3, <1>7, <1>9, AskedLess
<1>11. state' \in VALID \cup {"SOLVING", "DELETING"} /\ state' # "SATISFIED"
  BY <1>2 DEF VALID, READY
<1> QED
  BY <1>1, <1>2, <1>3, <1>5, <1>6, <1>8, <1>10, <1>11, AskingStep

\* (a lemma takes models away)
LEMMA LemmaWorlds ==
  ASSUME NEW F, NEW T, NEW S, NEW cl, NEW R, R = S \cup {cl}
  PROVE  /\ Models(F \cup (T \cup R)) \in SUBSET Models(F \cup (T \cup S))
         /\ \A n \in Models(F \cup (T \cup R)) : Holds(n, cl)
<1> DEFINE A == F \cup (T \cup S)
           B == F \cup (T \cup R)
<1>1. B = A \cup {cl}
  OBVIOUS
<1> HIDE DEF A, B
<1>2. Models(B) \in SUBSET Models(A) /\ \A n \in Models(B) : Holds(n, cl)
  BY <1>1, ModelsMore
<1> QED
  BY <1>2 DEF A, B

\* a lemma of the user,
LEMMA LemmaInv ==
  ASSUME ApiInv, NEW cl \in Clause, Lemma(cl), CallsInv'
  PROVE  ApiInv'
<1>1. PICK o \in BOOLEAN : ~o
  BY SomeFalse
<1> DEFINE r == NewLemma(core, cl)
           d == LemmaPut(core, r)
<1>2. /\ pc = "idle" /\ SearchKept /\ UNCHANGED <<query, state, adding, user>>
      /\ (~core.connected /\ core' = core) \/ (core.connected /\ core' = d)
  BY Zenon DEF Lemma, Idle, NewLemma, LemmaPut
<1>3. IdlePre(core, mock, query, Worlds, o) /\ Struct(core) /\ user \in User
      /\ termination_forced \in BOOLEAN
  BY <1>1, <1>2, IdleNow
<1>4. CASE ~core.connected /\ core' = core
  <2>1. IdleKept(core, core, mock, query, Worlds, o)
    BY <1>3, IdleAsked
  <2> QED
    BY <1>1, <1>2, <1>4, <2>1, KeptInv, Zenon
<1>5. CASE core.connected /\ core' = d
  <2>1. r \in LemmaSet /\ Over(r.lits, core.vars)
    BY <1>3, NewLemmaIs
  <2> HIDE DEF r
  <2> DEFINE V == Models(user.formula \cup (user.theory \cup (FormerTheory(core) \cup {r.lits})))
  <2>2. V \in SUBSET Worlds /\ \A n \in V : Holds(n, r.lits)
    <3>1. Worlds = Models(user.formula \cup (user.theory \cup FormerTheory(core)))
      BY WorldsIs
    <3> DEFINE F == user.formula
               T == user.theory
               S == FormerTheory(core)
               k == r.lits
               R == S \cup {k}
    <3>2. R = S \cup {k}
      OBVIOUS
    <3> HIDE DEF F, T, S, k, R
    <3>3. /\ Models(F \cup (T \cup R)) \in SUBSET Models(F \cup (T \cup S))
          /\ \A n \in Models(F \cup (T \cup R)) : Holds(n, k)
      BY <3>2, LemmaWorlds, Zenon
    <3> QED
      BY <3>1, <3>3, Zenon DEF V, F, T, S, k, R
  <2> HIDE DEF V
  <2>3. /\ Idled(core, d, mock, query, V, o) /\ d.vars = core.vars
        /\ FormerTheory(d) = FormerTheory(core) \cup {r.lits}
    BY <1>3, <1>5, <2>1, <2>2, IdleLemma
  <2> HIDE DEF d
  <2>4. Worlds' = V
    <3>1. user' = user /\ FormerTheory(core') = FormerTheory(core) \cup {r.lits}
      BY <1>2, <1>5, <2>3
    <3> QED
      BY <3>1, WorldsIs, Zenon DEF V
  <2>5. UNCHANGED <<mock, query, pc, again, result, state, adding, termination_forced, user>>
    BY <1>2 DEF SearchKept
  <2>6. /\ core.vars \subseteq core'.vars /\ UnsatLow(core, core')
        /\ IdlePre(core', mock', query, Worlds', o)
        /\ user' \in User /\ termination_forced' \in BOOLEAN
    BY <1>3, <1>5, <2>3, <2>4, <2>5 DEF Idled
  <2> QED
    BY <1>1, <1>2, <2>5, <2>6, IdleStep
<1> QED
  BY <1>2, <1>4, <1>5

\* (the literals of a clause)
LEMMA ListEnds ==
  /\ <<>> \in Seq(Lit) /\ ToSet(<<>>) = {}
  /\ \A s \in Seq(Lit) : ToSet(s) \in Clause
  /\ \A s \in Seq(Lit), l \in Lit :
       Append(s, l) \in Seq(Lit) /\ ToSet(Append(s, l)) = ToSet(s) \cup {l}
<1>1. <<>> \in Seq(Lit)
  OBVIOUS
<1>2. ToSet(<<>>) = {}
  BY DEF ToSet
<1>3. \A s \in Seq(Lit) : ToSet(s) \in Clause
  BY DEF ToSet, Clause
<1>4. \A s \in Seq(Lit), l \in Lit :
        Append(s, l) \in Seq(Lit) /\ ToSet(Append(s, l)) = ToSet(s) \cup {l}
  <2> SUFFICES ASSUME NEW s \in Seq(Lit), NEW l \in Lit
               PROVE  Append(s, l) \in Seq(Lit) /\ ToSet(Append(s, l)) = ToSet(s) \cup {l}
    OBVIOUS
  <2> DEFINE t == Append(s, l)
  <2>1. t = Append(s, l)
    OBVIOUS
  <2> HIDE DEF t
  <2>2. /\ Len(s) \in Nat /\ Len(t) = Len(s) + 1 /\ DOMAIN t = 1..Len(s) + 1
        /\ DOMAIN s = 1..Len(s) /\ t[Len(s) + 1] = l
        /\ \A i \in 1..Len(s) : t[i] = s[i] /\ i \in DOMAIN t
        /\ \A i \in DOMAIN t : i \in 1..Len(s) \/ i = Len(s) + 1
    BY <2>1, Appended
  <2>3. t \in Seq(Lit)
    BY <2>1
  <2>4. ToSet(t) = ToSet(s) \cup {l}
    <3>1. ASSUME NEW x \in ToSet(t)
          PROVE  x \in ToSet(s) \cup {l}
      BY <2>2 DEF ToSet
    <3>2. ASSUME NEW x \in ToSet(s)
          PROVE  x \in ToSet(t)
      BY <2>2 DEF ToSet
    <3>3. l \in ToSet(t)
      BY <2>2 DEF ToSet
    <3> QED
      BY <3>1, <3>2, <3>3
  <2> QED
    BY <2>1, <2>3, <2>4
<1> QED
  BY <1>1, <1>2, <1>3, <1>4

\* (the clause that is added)
ClauseOf(a, s) == [a EXCEPT !.clause = s]

\* (the constraint that is added)
ConstraintOf(a, s) == [a EXCEPT !.constraint = s]

\* (are read literal by literal)
LEMMA AddingIs ==
  ASSUME NEW a \in Adding, NEW s \in Seq(Lit)
  PROVE  /\ ClauseOf(a, s) \in Adding /\ ClauseOf(a, s).clause = s
         /\ ClauseOf(a, s).constraint = a.constraint
         /\ ConstraintOf(a, s) \in Adding /\ ConstraintOf(a, s).constraint = s
         /\ ConstraintOf(a, s).clause = a.clause
         /\ a.clause \in Seq(Lit) /\ a.constraint \in Seq(Lit)
<1> DEFINE A == Seq(Lit)
<1>1. a \in [clause : A, constraint : A] /\ s \in A
  BY Zenon DEF Adding
<1> HIDE DEF A
<1>2. /\ ClauseOf(a, s) \in [clause : A, constraint : A]
      /\ ConstraintOf(a, s) \in [clause : A, constraint : A]
      /\ ClauseOf(a, s).clause = s /\ ClauseOf(a, s).constraint = a.constraint
      /\ ConstraintOf(a, s).constraint = s /\ ConstraintOf(a, s).clause = a.clause
      /\ a.clause \in A /\ a.constraint \in A
  BY <1>1 DEF ClauseOf, ConstraintOf
<1> QED
  BY <1>2, Zenon DEF Adding, A

\* (over variables of the solver)
LEMMA OverSome ==
  /\ \A V : Over({}, V)
  /\ \A s, V, l : Over(s, V) /\ Abs(l) \in V => Over(s \cup {l}, V)
  BY DEF Over

\* the end of a clause,
LEMMA AddEndInv ==
  ASSUME ApiInv, NEW l, l = 0, Add(l), CallsInv'
  PROVE  ApiInv'
<1>1. (\E x \in BOOLEAN : ~x)
  BY SomeFalse
<1>2. PICK o \in BOOLEAN : ~o
  BY <1>1
<1>3. PICK red \in BOOLEAN : ~red
  BY <1>1
<1> DEFINE q == SteadyQuery
           u == SteadyUser
           cl == ToSet(adding.clause)
           d == ClauseAdded(PlainOf(core), cl, red, FALSE)
           e == <<>>
<1>4. /\ pc = "idle" /\ query' = q
      /\ core' = ClauseAdded(PlainOf(core), cl, FALSE, FALSE)
      /\ adding' = ClauseOf(adding, e)
      /\ user' = [u EXCEPT !.formula = @ \cup {cl}]
      /\ state' = "STEADY" /\ SearchKept
  BY Zenon DEF Add, Idle, PlainOf, ClauseOf
<1>5. core' = d
  <2>1. red = FALSE
    BY <1>3
  <2> QED
    BY <1>4, <2>1, Zenon
<1>6. IdlePre(core, mock, query, Worlds, o) /\ query \in Query /\ user \in User
      /\ adding \in Adding /\ AskedAt(core, query, adding)
  BY <1>2, <1>4, IdleNow
<1>7. QueryLess(query, q) /\ q \in Query
  BY <1>6, SteadyQueryIs
<1>8. SameTheory(user, u)
  BY <1>6, SteadyUserIs
<1>9. e \in Seq(Lit) /\ ToSet(e) = {}
  BY ListEnds
<1> HIDE DEF q, u, e
<1>10. /\ adding' \in Adding /\ adding'.clause = e /\ adding'.constraint = adding.constraint
       /\ adding.clause \in Seq(Lit)
  BY <1>4, <1>6, <1>9, AddingIs, Zenon
<1>11. cl \in Clause /\ Over(cl, core.vars)
  BY <1>6, <1>10, ListEnds DEF AskedAt
<1> HIDE DEF cl
<1> DEFINE F == user.formula
           G == user.theory \cup FormerTheory(core)
           V == Models((F \cup {cl}) \cup G)
<1>12. V \in SUBSET Worlds /\ \A n \in V : Holds(n, cl)
  <2>1. Worlds = Models(F \cup G)
    BY WorldsIs
  <2>2. (F \cup {cl}) \cup G = (F \cup G) \cup {cl}
    OBVIOUS
  <2> HIDE DEF F, G
  <2>3. /\ Models((F \cup {cl}) \cup G) \in SUBSET Models(F \cup G)
        /\ \A n \in Models((F \cup {cl}) \cup G) : Holds(n, cl)
    BY <2>2, ModelsMore, Zenon
  <2> QED
    BY <2>1, <2>3
<1> HIDE DEF V
<1>13. IdleKept(core, d, mock, q, V, o)
  <2> HIDE <1>4, <1>5
  <2> QED
    BY <1>6, <1>11, <1>12, IdleClause, Zenon
<1> HIDE DEF d
<1>14. Idled(core, d, mock, q, V, o) /\ FormerTheory(d) = FormerTheory(core)
       /\ core.vars \subseteq d.vars
  BY <1>13 DEF IdleKept, Kept
<1>15. user' \in User /\ user'.formula = F \cup {cl} /\ user'.theory = user.theory
  <2>1. u \in User /\ u.formula = F /\ u.theory = user.theory
    BY <1>8 DEF SameTheory
  <2> QED
    BY <1>4, <1>11, <2>1 DEF User
<1>16. Worlds' = V
  <2>1. FormerTheory(core') = FormerTheory(core)
    BY <1>5, <1>14
  <2> QED
    BY <1>15, <2>1, WorldsIs, Zenon DEF V, G
<1>17. AskedAt(core', q, adding')
  <2>1. AskedAt(core', q, adding)
    BY <1>5, <1>6, <1>7, <1>14, AskedLess
  <2>2. Over(ToSet(adding'.clause), core'.vars)
    BY <1>9, <1>10, OverSome
  <2> QED
    BY <1>10, <2>1, <2>2 DEF AskedAt
<1>18. IdlePre(core', mock', q, Worlds', o) /\ pc' = "idle"
       /\ UNCHANGED <<again, result, termination_forced>>
  BY <1>4, <1>5, <1>14, <1>16 DEF Idled, SearchKept
<1>19. state' \in VALID \cup {"SOLVING", "DELETING"} /\ state' # "SATISFIED"
  BY <1>4 DEF VALID, READY
<1> QED
  BY <1>2, <1>4, <1>7, <1>10, <1>15, <1>17, <1>18, <1>19, SteadyStep

\* (a literal can bring a variable)
GrowOf(u, l) == VarsPut(u, u.vars \cup {Abs(l)})

\* (which changes nothing else)
LEMMA IdleGrown ==
  ASSUME NEW c, NEW m, NEW q, NEW W, NEW o, IdlePre(c, m, q, W, o),
         NEW p, p.unsat_constraint => q.unsat_constraint, NEW l \in Lit,
         NEW d, d = GrowOf(Unextended(c), l)
  PROVE  IdleKept(c, d, m, p, W, o) /\ Abs(l) \in d.vars /\ c.vars \subseteq d.vars
<1> DEFINE u == Unextended(c)
<1>1. IdleKept(c, u, m, p, W, o)
  BY IdlePlain
<1>2. d = VarsPut(u, u.vars \cup {Abs(l)})
  BY DEF GrowOf
<1> HIDE DEF u
<1>3. IdleKept(c, d, m, p, W, o) /\ Abs(l) \in d.vars
  BY <1>1, <1>2, IdleGrow
<1> QED
  BY <1>3 DEF IdleKept, Kept

\* 'add',
LEMMA AddInv ==
  ASSUME ApiInv, NEW l \in Lit \cup {0}, Add(l), CallsInv'
  PROVE  ApiInv'
<1>1. CASE l = 0
  BY <1>1, AddEndInv
<1>2. CASE l # 0
  <2>1. PICK o \in BOOLEAN : ~o
    BY SomeFalse
  <2> DEFINE q == SteadyQuery
             w == SteadyUser
             d == GrowOf(Unextended(core), l)
             s == Append(adding.clause, l)
  <2>2. /\ pc = "idle" /\ query' = q /\ core' = d
        /\ adding' = ClauseOf(adding, s)
        /\ user' = w /\ state' = "ADDING" /\ SearchKept
    BY <1>2, Zenon DEF Add, Idle, GrowOf, VarsPut, ClauseOf
  <2>3. IdlePre(core, mock, query, Worlds, o) /\ query \in Query /\ user \in User
        /\ adding \in Adding /\ AskedAt(core, query, adding) /\ l \in Lit
    BY <1>2, <2>1, <2>2, IdleNow
  <2>4. QueryLess(query, q) /\ q \in Query /\ (q.unsat_constraint => query.unsat_constraint)
    BY <2>3, SteadyQueryIs
  <2>5. SameTheory(user, w)
    BY <2>3, SteadyUserIs
  <2>6. adding.clause \in Seq(Lit)
    BY <2>3, ListEnds, AddingIs, Zenon
  <2>7. s \in Seq(Lit) /\ ToSet(s) = ToSet(adding.clause) \cup {l}
    BY <2>3, <2>6, ListEnds
  <2> HIDE DEF q, w, s
  <2>8. adding' \in Adding /\ adding'.clause = s /\ adding'.constraint = adding.constraint
    BY <2>2, <2>3, <2>7, AddingIs, Zenon
  <2>9. IdleKept(core, d, mock, q, Worlds, o) /\ Abs(l) \in d.vars /\ core.vars \subseteq d.vars
    BY <2>3, <2>4, IdleGrown
  <2> HIDE DEF d
  <2>10. AskedAt(core', q, adding')
    <3>1. AskedAt(d, q, adding)
      BY <2>3, <2>4, <2>9, AskedLess
    <3>2. Over(ToSet(adding.clause) \cup {l}, d.vars)
      BY <2>9, <3>1, OverSome DEF AskedAt
    <3> QED
      BY <2>2, <2>7, <2>8, <3>1, <3>2 DEF AskedAt
  <2>11. state' \in VALID \cup {"SOLVING", "DELETING"} /\ state' # "SATISFIED" /\ pc' = "idle"
         /\ UNCHANGED <<mock, again, result, termination_forced>>
    BY <2>2 DEF VALID, READY, SearchKept
  <2> QED
    BY <2>1, <2>2, <2>4, <2>5, <2>8, <2>9, <2>10, <2>11, AskingStep
<1> QED
  BY <1>1, <1>2

\* (one more assumption)
AssumptionsOf(q, s) == [q EXCEPT !.assumptions = s]

\* (is one of the query)
LEMMA AssumptionsIs ==
  ASSUME NEW q \in Query, NEW s \in Seq(Lit), NEW p, p = AssumptionsOf(q, s)
  PROVE  /\ p \in Query /\ p.assumptions = s /\ p.constraint = q.constraint
         /\ p.unsat_constraint = q.unsat_constraint /\ q.assumptions \in Seq(Lit)
<1> DEFINE A == Seq(Lit)
<1>1. q \in [kind : {"solve", "simplify", "propagate"}, assumptions : A,
             constraint : Clause, unsat_constraint : BOOLEAN] /\ s \in A
  BY Zenon DEF Query
<1> HIDE DEF A
<1> HIDE DEF Clause
<1>2. /\ p \in [kind : {"solve", "simplify", "propagate"}, assumptions : A,
                constraint : Clause, unsat_constraint : BOOLEAN]
      /\ p.assumptions = s /\ p.constraint = q.constraint
      /\ p.unsat_constraint = q.unsat_constraint /\ q.assumptions \in A
  BY <1>1 DEF AssumptionsOf
<1> QED
  BY <1>2, Zenon DEF Query, A

\* 'assume',
LEMMA AssumeInv ==
  ASSUME ApiInv, NEW l \in Lit, Assume(l), CallsInv'
  PROVE  ApiInv'
<1>1. PICK o \in BOOLEAN : ~o
  BY SomeFalse
<1> DEFINE q == SteadyQuery
           w == SteadyUser
           b == PlainOf(core)
           d == GrowOf(b, l)
           s == IF l \in ToSet(q.assumptions) THEN q.assumptions ELSE Append(q.assumptions, l)
           p == AssumptionsOf(q, s)
<1>2. /\ pc = "idle" /\ query' = p /\ core' = d
      /\ user' = w /\ state' = "STEADY" /\ SearchKept /\ adding' = adding
  BY Zenon DEF Assume, Idle, GrowOf, VarsPut, PlainOf, AssumptionsOf
<1>3. IdlePre(core, mock, query, Worlds, o) /\ query \in Query /\ user \in User
      /\ adding \in Adding /\ AskedAt(core, query, adding)
  BY <1>1, <1>2, IdleNow
<1>4. QueryLess(query, q) /\ q \in Query
  BY <1>3, SteadyQueryIs
<1>5. SameTheory(user, w)
  BY <1>3, SteadyUserIs
<1> HIDE DEF q, w
<1>6. q.assumptions \in Seq(Lit)
  BY <1>4, ListEnds, AssumptionsIs, Zenon
<1>7. s \in Seq(Lit) /\ ToSet(s) \subseteq ToSet(q.assumptions) \cup {l}
  BY <1>6, ListEnds
<1> HIDE DEF s
<1>8. p \in Query /\ p.assumptions = s /\ p.constraint = q.constraint
  BY <1>4, <1>7, AssumptionsIs
<1> HIDE DEF p
<1>9. IdleKept(core, d, mock, p, Worlds, o) /\ Abs(l) \in d.vars
  <2>1. IdleKept(core, b, mock, p, Worlds, o)
    BY <1>3, IdleBack
  <2>2. d = VarsPut(b, b.vars \cup {Abs(l)})
    BY DEF GrowOf
  <2> HIDE DEF b, d
  <2> QED
    BY <2>1, <2>2, IdleGrow
<1> HIDE DEF d
<1>10. core.vars \subseteq d.vars
  BY <1>9 DEF IdleKept, Kept
<1>11. AskedAt(core', p, adding')
  <2>1. AskedAt(d, q, adding)
    BY <1>3, <1>4, <1>10, AskedLess
  <2>2. Over(ToSet(q.assumptions) \cup {l}, d.vars)
    BY <1>9, <2>1, OverSome DEF AskedAt
  <2>3. Over(ToSet(p.assumptions), d.vars)
    BY <1>7, <1>8, <2>2 DEF Over
  <2> QED
    BY <1>2, <1>8, <2>1, <2>3 DEF AskedAt
<1>12. state' \in VALID \cup {"SOLVING", "DELETING"} /\ state' # "SATISFIED" /\ pc' = "idle"
       /\ UNCHANGED <<mock, again, result, termination_forced>> /\ adding' \in Adding
  BY <1>2, <1>3 DEF VALID, READY, SearchKept
<1> QED
  BY <1>1, <1>2, <1>5, <1>8, <1>9, <1>11, <1>12, AskingStep

\* (the constraint)
ConstraintPut(q, s, x) == [q EXCEPT !.constraint = s, !.unsat_constraint = x]

\* (is one of the query)
LEMMA ConstraintPutIs ==
  ASSUME NEW q \in Query, NEW s \in Clause, NEW x \in BOOLEAN, NEW p, p = ConstraintPut(q, s, x)
  PROVE  /\ p \in Query /\ p.assumptions = q.assumptions /\ p.constraint = s
         /\ p.unsat_constraint = x
<1> DEFINE A == Seq(Lit)
<1>1. q \in [kind : {"solve", "simplify", "propagate"}, assumptions : A,
             constraint : Clause, unsat_constraint : BOOLEAN]
  BY Zenon DEF Query
<1> HIDE DEF A
<1> HIDE DEF Clause
<1>2. /\ p \in [kind : {"solve", "simplify", "propagate"}, assumptions : A,
                constraint : Clause, unsat_constraint : BOOLEAN]
      /\ p.assumptions = q.assumptions /\ p.constraint = s
      /\ p.unsat_constraint = x
  BY <1>1 DEF ConstraintPut
<1> QED
  BY <1>2, Zenon DEF Query, A

\* A new constraint forgets the last one.
FreshOf(a, q) ==
  IF a.constraint = <<>>
  THEN [q EXCEPT !.constraint = {}, !.unsat_constraint = FALSE] ELSE q

\* (a new constraint replaces the last one)
LEMMA FreshIs ==
  ASSUME NEW q \in Query, NEW a, NEW p, p = FreshOf(a, q)
  PROVE  QueryLess(q, p) /\ p \in Query
<1>1. PICK x \in BOOLEAN : ~x
  BY SomeFalse
<1>2. x = FALSE
  BY <1>1
<1> DEFINE e == {}
<1>3. p = q \/ p = ConstraintPut(q, e, x)
  BY <1>2, Zenon DEF FreshOf, ConstraintPut
<1> HIDE <1>2
<1>4. e \in Clause /\ \A V : Over(e, V)
  BY OverSome DEF Clause
<1> HIDE DEF e
<1>5. CASE p = q
  BY <1>5, QuerySelf
<1>6. CASE p = ConstraintPut(q, e, x)
  <2>1. /\ p \in Query /\ p.assumptions = q.assumptions /\ p.constraint = e
        /\ p.unsat_constraint = x
    BY <1>4, <1>6, ConstraintPutIs
  <2> QED
    BY <1>1, <1>4, <2>1 DEF QueryLess
<1> QED
  BY <1>3, <1>5, <1>6 DEF QueryLess

\* (and the user remembers it)
UserConstraint(u, s) == [u EXCEPT !.constraint = s]

\* (which changes no model)
LEMMA UserConstraintIs ==
  ASSUME NEW w, SameTheory(user, w), NEW s \in SUBSET Clause, NEW v, v = UserConstraint(w, s)
  PROVE  SameTheory(user, v)
BY DEF UserConstraint, SameTheory, User

\* the end of a constraint,
LEMMA ConstrainEndInv ==
  ASSUME ApiInv, NEW l, l = 0, Constrain(l), CallsInv'
  PROVE  ApiInv'
<1>1. PICK o \in BOOLEAN : ~o
  BY SomeFalse
<1> DEFINE q == SteadyQuery
           w == SteadyUser
           cl == ToSet(adding.constraint)
           d == PlainOf(core)
           e == <<>>
           f == FreshOf(adding, q)
           rest == {k \in cl : ~IsFalse(d, k)}
           empty == (rest = {})
           p == ConstraintPut(f, rest, empty)
           k == {cl}
           v == UserConstraint(w, k)
<1>2. /\ pc = "idle" /\ (query' = f \/ query' = p)
      /\ core' = d /\ adding' = ConstraintOf(adding, e)
      /\ user' = v /\ state' = "STEADY" /\ SearchKept
  BY Zenon DEF Constrain, Idle, PlainOf, ConstraintOf, FreshOf, UserConstraint, ConstraintPut
<1>3. IdlePre(core, mock, query, Worlds, o) /\ query \in Query /\ user \in User
      /\ adding \in Adding /\ AskedAt(core, query, adding)
  BY <1>1, <1>2, IdleNow
<1>4. QueryLess(query, q) /\ q \in Query
  BY <1>3, SteadyQueryIs
<1>5. SameTheory(user, w)
  BY <1>3, SteadyUserIs
<1>6. e \in Seq(Lit) /\ ToSet(e) = {}
  BY ListEnds
<1> HIDE DEF q, w, e
<1>7. /\ adding' \in Adding /\ adding'.constraint = e /\ adding'.clause = adding.clause
      /\ adding.constraint \in Seq(Lit)
  BY <1>2, <1>3, <1>6, AddingIs, Zenon
<1>8. cl \in Clause /\ Over(cl, core.vars)
  BY <1>3, <1>7, ListEnds DEF AskedAt
<1>9. k \in SUBSET Clause
  BY <1>8
<1>10. rest \in Clause /\ Over(rest, core.vars) /\ empty \in BOOLEAN
  BY <1>8 DEF Clause, Over
<1> HIDE DEF cl, rest, k, empty
<1>11. SameTheory(user, v)
  BY <1>5, <1>9, UserConstraintIs
<1> HIDE DEF v
<1>12. QueryLess(q, f) /\ f \in Query
  BY <1>4, FreshIs
<1> HIDE DEF f
<1>13. /\ p \in Query /\ p.assumptions = f.assumptions /\ p.constraint = rest
  BY <1>10, <1>12, ConstraintPutIs
<1> HIDE DEF p
<1>14. ASSUME NEW x
       PROVE  IdleKept(core, d, mock, x, Worlds, o)
  BY <1>3, IdleBack
<1> HIDE DEF d
<1>15. core.vars \subseteq d.vars
  BY <1>14 DEF IdleKept, Kept
<1>16. AskedAt(d, f, adding)
  <2>1. AskedAt(d, q, adding)
    BY <1>3, <1>4, <1>15, AskedLess
  <2> QED
    BY <1>12, <2>1, AskedLess
<1>17. Over(ToSet(adding'.constraint), d.vars) /\ Over(rest, d.vars)
  BY <1>6, <1>7, <1>10, <1>15, OverSome, OverMore
<1>18. AskedAt(core', query', adding') /\ query' \in Query
  <2>1. query' = f \/ (query'.assumptions = f.assumptions /\ query'.constraint = rest)
    BY <1>2, <1>13
  <2> QED
    BY <1>2, <1>7, <1>12, <1>13, <1>16, <1>17, <2>1 DEF AskedAt
<1>19. state' \in VALID \cup {"SOLVING", "DELETING"} /\ state' # "SATISFIED" /\ pc' = "idle"
       /\ UNCHANGED <<mock, again, result, termination_forced>>
  BY <1>2 DEF VALID, READY, SearchKept
<1>20. IdleKept(core, d, mock, query', Worlds, o)
  BY <1>14
<1> QED
  BY <1>1, <1>2, <1>7, <1>11, <1>18, <1>19, <1>20, AskingStep

\* and 'constrain'.
LEMMA ConstrainInv ==
  ASSUME ApiInv, NEW l \in Lit \cup {0}, Constrain(l), CallsInv'
  PROVE  ApiInv'
<1>1. CASE l = 0
  BY <1>1, ConstrainEndInv
<1>2. CASE l # 0
  <2>1. PICK o \in BOOLEAN : ~o
    BY SomeFalse
  <2> DEFINE q == SteadyQuery
             w == SteadyUser
             d == GrowOf(Unextended(core), l)
             s == Append(adding.constraint, l)
             f == FreshOf(adding, q)
             k == {}
             v == UserConstraint(w, k)
  <2>2. /\ pc = "idle" /\ query' = f /\ core' = d
        /\ adding' = ConstraintOf(adding, s)
        /\ user' = v /\ state' = "ADDING" /\ SearchKept
    BY <1>2, Zenon DEF Constrain, Idle, GrowOf, VarsPut, ConstraintOf, FreshOf, UserConstraint
  <2>3. IdlePre(core, mock, query, Worlds, o) /\ query \in Query /\ user \in User
        /\ adding \in Adding /\ AskedAt(core, query, adding) /\ l \in Lit
    BY <1>2, <2>1, <2>2, IdleNow
  <2>4. QueryLess(query, q) /\ q \in Query
    BY <2>3, SteadyQueryIs
  <2>5. SameTheory(user, w)
    BY <2>3, SteadyUserIs
  <2>6. adding.constraint \in Seq(Lit)
    BY <2>3, ListEnds, AddingIs, Zenon
  <2>7. s \in Seq(Lit) /\ ToSet(s) = ToSet(adding.constraint) \cup {l}
    BY <2>3, <2>6, ListEnds
  <2>8. k \in SUBSET Clause
    OBVIOUS
  <2> HIDE DEF q, w, s, k
  <2>9. adding' \in Adding /\ adding'.constraint = s /\ adding'.clause = adding.clause
    BY <2>2, <2>3, <2>7, AddingIs, Zenon
  <2>10. SameTheory(user, v)
    BY <2>5, <2>8, UserConstraintIs
  <2> HIDE DEF v
  <2>11. QueryLess(q, f) /\ f \in Query
    BY <2>4, FreshIs
  <2> HIDE DEF f
  <2>12. IdleKept(core, d, mock, f, Worlds, o) /\ Abs(l) \in d.vars /\ core.vars \subseteq d.vars
    <3>1. f.unsat_constraint => query.unsat_constraint
      BY <2>4, <2>11 DEF QueryLess
    <3> QED
      BY <2>3, <3>1, IdleGrown
  <2> HIDE DEF d
  <2>13. AskedAt(core', f, adding')
    <3>1. AskedAt(d, q, adding)
      BY <2>3, <2>4, <2>12, AskedLess
    <3>2. AskedAt(d, f, adding)
      BY <2>11, <3>1, AskedLess
    <3>3. Over(ToSet(adding.constraint) \cup {l}, d.vars)
      BY <2>12, <3>2, OverSome DEF AskedAt
    <3> QED
      BY <2>2, <2>7, <2>9, <3>2, <3>3 DEF AskedAt
  <2>14. state' \in VALID \cup {"SOLVING", "DELETING"} /\ state' # "SATISFIED" /\ pc' = "idle"
         /\ UNCHANGED <<mock, again, result, termination_forced>>
    BY <2>2 DEF VALID, READY, SearchKept
  <2> QED
    BY <2>1, <2>2, <2>9, <2>10, <2>11, <2>12, <2>13, <2>14, AskingStep
<1> QED
  BY <1>1, <1>2

-----------------------------------------------------------------------------
(* The calls of the tester keep the invariant.                             *)

\* The arguments of a call are literals or variables as they must be.
LEMMA CallIs ==
  ASSUME NEW k \in CallSet
  PROVE  CallOk(k)
  BY DEF CallSet

\* Every call keeps the invariant,
LEMMA MadeInv ==
  ASSUME ApiInv, NEW k \in CallSet, Made(k), CallsInv'
  PROVE  ApiInv'
<1>1. CallOk(k)
  BY CallIs
<1>2. CASE k.op = "add" /\ Add(k.lit)
  BY <1>1, <1>2, AddInv DEF CallOk
<1>3. CASE k.op = "constrain" /\ Constrain(k.lit)
  BY <1>1, <1>3, ConstrainInv DEF CallOk
<1>4. CASE k.op = "assume" /\ Assume(k.lit)
  BY <1>1, <1>4, AssumeInv DEF CallOk
<1>5. CASE k.op = "connect" /\ Connect
  BY <1>5, ConnectInv
<1>6. CASE k.op = "disconnect" /\ Disconnect
  BY <1>6, DisconnectInv
<1>7. CASE k.op = "freeze" /\ Freeze(k.lit)
  BY <1>1, <1>7, FreezeInv DEF CallOk
<1>8. CASE k.op \in {"solve", "simplify", "propagate"} /\ Call(k.op)
  <2>1. UNCHANGED adding
    BY <1>8, Zenon DEF Call
  <2> QED
    BY <1>8, <2>1, CallInv
<1>9. CASE k.op = "lookahead" /\ Lookahead
  BY <1>9, LookaheadInv
<1>10. CASE k.op = "reset" /\ Reset
  BY <1>10, ResetInv
<1> QED
  BY <1>2, <1>3, <1>4, <1>5, <1>6, <1>7, <1>8, <1>9, <1>10, Zenon DEF Made

\* whether it is made or left out,
LEMMA GuardedInv ==
  ASSUME ApiInv, pc = "idle", NEW k \in CallSet, Guarded(k), CallsInv'
  PROVE  ApiInv'
<1>1. CallOk(k)
  BY CallIs
<1>2. \/ Skipped
      \/ k.op = "melt" /\ Melt(k.lit)
      \/ Val
      \/ k.op = "flip" /\ Flip(k.lit)
      \/ k.op = "observe" /\ Observe(k.lit)
      \/ k.op = "later" /\ ObserveLater(k.clause)
  BY Zenon DEF Guarded
<1>3. CASE Skipped
  <2>1. UNCHANGED apiVars
    BY <1>3 DEF Skipped
  <2> QED
    BY <2>1, SkippedInv
<1>4. CASE k.op = "melt" /\ Melt(k.lit)
  BY <1>1, <1>4, MeltInv DEF CallOk
<1>5. CASE Val
  BY <1>5, ValInv
<1>6. CASE k.op = "flip" /\ Flip(k.lit)
  BY <1>1, <1>6, FlipInv DEF CallOk
<1>7. CASE k.op = "observe" /\ Observe(k.lit)
  BY <1>1, <1>7, ObserveInv DEF CallOk
<1>8. CASE k.op = "later" /\ ObserveLater(k.clause)
  <2>1. k.clause \in SUBSET Var
    BY <1>1, <1>8 DEF CallOk
  <2> QED
    BY <1>8, <2>1, LaterInv
<1> QED
  BY <1>2, <1>3, <1>4, <1>5, <1>6, <1>7, <1>8

\* when the tester makes it,
LEMMA ExecuteInv ==
  ASSUME ApiInv, Execute
  PROVE  ApiInv'
<1> DEFINE k == calls[1]
<1>1. pc = "idle" /\ calls # <<>> /\ (Made(k) \/ Guarded(k)) /\ calls' = Tail(calls)
  BY Zenon DEF Execute
<1>2. calls \in Seq(CallSet)
  BY DEF ApiInv, CallsInv
<1>3. k \in CallSet /\ Tail(calls) \in Seq(CallSet)
  BY <1>1, <1>2
<1>4. CallsInv'
  BY <1>1, <1>3 DEF CallsInv
<1> HIDE DEF k
<1> QED
  BY <1>1, <1>3, <1>4, MadeInv, GuardedInv

\* and a lemma that comes during a search.
LEMMA ExecuteLemmaInv ==
  ASSUME ApiInv, ExecuteLemma
  PROVE  ApiInv'
<1> DEFINE k == calls[2]
<1>1. /\ Len(calls) > 1 /\ k.op = "lemma" /\ Lemma(k.clause) /\ calls' = RemoveAt(calls, 2)
  BY Zenon DEF ExecuteLemma, LemmaFollows
<1>2. calls \in Seq(CallSet)
  BY DEF ApiInv, CallsInv
<1>3. k \in CallSet
  BY <1>1, <1>2
<1>4. RemoveAt(calls, 2) \in Seq(CallSet)
  <2>1. SubSeq(calls, 1, 2 - 1) \in Seq(CallSet) /\ SubSeq(calls, 2 + 1, Len(calls)) \in Seq(CallSet)
    BY <1>1, <1>2
  <2> QED
    BY <2>1 DEF RemoveAt
<1>5. CallsInv'
  BY <1>1, <1>4 DEF CallsInv
<1>6. k.clause \in Clause
  BY <1>1, <1>3, CallIs DEF CallOk
<1> HIDE DEF k
<1> QED
  BY <1>1, <1>5, <1>6, LemmaInv

\* So does a stutter,
LEMMA StayInv ==
  ASSUME ApiInv, UNCHANGED vars
  PROVE  ApiInv'
<1>1. UNCHANGED <<core, mock, query, pc, again, result, termination_forced, state, adding,
                  user, calls>>
  BY DEF vars, apiVars, searchVars
<1>2. GoodNow /\ AskedInv /\ AnswerInv /\ CallsInv /\ Typed
  BY ApiGood
<1>3. Worlds' = Worlds
  BY <1>1, WorldsSame
<1>4. GoodNow'
  BY <1>1, <1>2, <1>3 DEF GoodNow
<1>5. AskedInv' /\ AnswerInv' /\ CallsInv' /\ Typed'
  BY <1>1, <1>2 DEF AskedInv, AnswerInv, CallsInv, Typed
<1> QED
  BY <1>4, <1>5, GoodApiNext

\* and every step of the tester.
LEMMA ApiNext ==
  ASSUME ApiInv, [Next]_vars
  PROVE  ApiInv'
<1>1. CASE Execute
  BY <1>1, ExecuteInv
<1>2. CASE ExecuteLemma
  BY <1>2, ExecuteLemmaInv
<1>3. CASE SolverStep
  <2>1. CASE Search /\ UNCHANGED <<state, adding, user>> /\ UNCHANGED calls
    BY <2>1, SearchInv
  <2>2. CASE Return /\ UNCHANGED calls
    BY <2>2, ReturnInv
  <2> QED
    BY <1>3, <2>1, <2>2, Zenon DEF SolverStep
<1>4. CASE Terminate /\ UNCHANGED calls
  BY <1>4, TerminateInv
<1>5. CASE UNCHANGED vars
  BY <1>5, StayInv
<1> QED
  BY <1>1, <1>2, <1>3, <1>4, <1>5, Zenon DEF Next, Ended

-----------------------------------------------------------------------------
(* The calls that the tester generates are calls the solver knows.         *)

\* The tester's calls are calls the solver knows: a list made of lists,
LEMMA FlatOver ==
  ASSUME NEW S, NEW h \in Seq(Seq(S))
  PROVE  FlattenSeq(h) \in Seq(S)
<1> DEFINE T == Seq(S)
           N == Len(h)
           g == CHOOSE f : FlatRun(f, h, N)
<1>1. CASE N = 0
  <2>1. h = <<>>
    <3> HIDE DEF T
    <3>1. h \in Seq(T)
      BY DEF T
    <3> QED
      BY <1>1, <3>1
  <2>2. FlattenSeq(h) = h
    BY <1>1, Zenon DEF FlattenSeq
  <2>3. <<>> \in Seq(S)
    OBVIOUS
  <2> QED
    BY <2>1, <2>2, <2>3, Zenon
<1>2. CASE N # 0
  <2>1. N \in Nat \ {0} /\ \A a \in 1..N : h[a] \in T
    <3> HIDE DEF T
    <3>1. h \in Seq(T)
      BY DEF T
    <3> QED
      BY <1>2, <3>1
  <2>2. FlattenSeq(h) = g[N]
    BY <1>2, Zenon DEF FlattenSeq, FlatRun
  <2>3. FlatRun(g, h, N)
    <3>1. \E f : FlatRun(f, h, N)
      BY <2>1, FlatExists DEF T
    <3> QED
      BY <3>1
  <2> HIDE DEF g, N
  <2>4. \A i \in 1..N : g[i] = IF i = 1 THEN h[i] ELSE g[i - 1] \o h[i]
    BY <2>3 DEF FlatRun
  <2> DEFINE D == {n \in 0..N : n = 0 \/ g[n] \in T}
  <2>5. 0 \in D
    BY <2>1
  <2>6. ASSUME NEW n \in 1..N, n - 1 \in D PROVE n \in D
    <3>1. h[n] \in T
      BY <2>1
    <3>2. CASE n = 1
      BY <2>4, <3>1, <3>2
    <3>3. CASE n # 1
      <4>1. g[n - 1] \in T /\ g[n] = g[n - 1] \o h[n]
        <5>1. n - 1 \in 1..N /\ n - 1 # 0
          BY <2>1, <3>3
        <5> QED
          BY <2>4, <2>6, <3>3, <5>1
      <4>2. g[n] \in T
        BY <3>1, <4>1
      <4> QED
        BY <4>2
    <3> QED
      BY <3>2, <3>3
  <2>7. N \in D
    <3> HIDE DEF D
    <3>1. \A n \in 0..N : n \in D
      BY <2>1, <2>5, <2>6, AllSteps
    <3> QED
      BY <2>1, <3>1
  <2> QED
    BY <2>1, <2>2, <2>7
<1> QED
  BY <1>1, <1>2

\* literals, clauses and sets of variables,
LEMMA IntLit == Lit \subseteq Int /\ Clause \subseteq SUBSET Int /\ SUBSET Var \subseteq SUBSET Int
                /\ Var \subseteq Int /\ {} \in SUBSET Int
<1>1. Var \subseteq Int /\ {} \in SUBSET Int
  BY VarAssumption
<1>2. Lit \subseteq Int
  <2>1. \A l \in Lit : l \in Int
    BY <1>1 DEF Lit
  <2> QED
    BY <2>1
<1> QED
  BY <1>1, <1>2 DEF Clause

\* a call with its arguments,
LEMMA OpIs ==
  ASSUME NEW op \in OpNames, NEW l \in Int, NEW cl \in SUBSET Int,
         op \in {"add", "constrain"} => l \in Lit \cup {0},
         op = "assume" => l \in Lit,
         op \in {"melt", "freeze", "flip", "observe"} => l \in Var,
         op = "lemma" => cl \in Clause,
         op = "later" => cl \in SUBSET Var
  PROVE  Op(op, l, cl) \in CallSet
<1> DEFINE k == Op(op, l, cl)
<1>2. k.op = op /\ k.lit = l /\ k.clause = cl
  BY DEF Op
<1>3. k \in [op : OpNames, lit : Int, clause : SUBSET Int]
  BY DEF Op
<1> HIDE DEF k
<1>4. CallOk(k)
  BY <1>2 DEF CallOk
<1> QED
  BY <1>3, <1>4 DEF CallSet, k

\* one without,
LEMMA JustIs ==
  ASSUME NEW op \in OpNames \ {"assume", "melt", "freeze", "flip", "observe", "lemma", "later"}
  PROVE  Just(op) \in Seq(CallSet)
<1> DEFINE e == {}
           k == Op(op, 0, e)
<1>1. k \in CallSet
  <2>1. 0 \in Int /\ e \in SUBSET Int
    OBVIOUS
  <2>2. 0 \in Lit \cup {0}
    OBVIOUS
  <2> HIDE DEF e
  <2> QED
    BY <2>1, <2>2, OpIs
<1> HIDE DEF k
<1>2. Just(op) = <<k>>
  BY Zenon DEF Just, k
<1> QED
  BY <1>1, <1>2

\* one for each literal of a list,
LEMMA EachIs ==
  ASSUME NEW op \in {"add", "constrain", "assume", "melt", "freeze", "flip", "observe"},
         NEW X, NEW ls \in Seq(X), X \subseteq Var \/ (X \subseteq Lit /\ op \in {"add", "constrain", "assume"})
  PROVE  Each(op, ls) \in Seq(CallSet)
<1> DEFINE e == {}
           N == Len(ls)
<1>1. N \in Nat /\ DOMAIN ls = 1..N /\ \A i \in 1..N : ls[i] \in X
  OBVIOUS
<1>2. ASSUME NEW i \in 1..N
      PROVE  Op(op, ls[i], e) \in CallSet
  <2>1. ls[i] \in X /\ Var \subseteq Lit
    BY <1>1 DEF Lit
  <2> DEFINE l == ls[i]
  <2>2. l \in Int /\ e \in SUBSET Int /\ op \in OpNames /\ l \in Lit
    BY <2>1, IntLit DEF OpNames
  <2>3. op \notin {"add", "constrain", "assume"} => l \in Var
    BY <2>1
  <2> HIDE DEF e, l
  <2>4. Op(op, l, e) \in CallSet
    BY <2>2, <2>3, OpIs
  <2> QED
    BY <2>4 DEF l
<1> HIDE DEF N
<1>3. Each(op, ls) = [i \in 1..N |-> Op(op, ls[i], e)]
  BY <1>1, Zenon DEF Each
<1> HIDE DEF e
<1> QED
  BY <1>1, <1>2, <1>3

\* a list ended by 0.
LEMMA WithZeroIs ==
  ASSUME NEW op \in {"add", "constrain"}, NEW ls \in Seq(Lit)
  PROVE  WithZero(op, ls) \in Seq(CallSet)
<1>1. Each(op, ls) \in Seq(CallSet)
  BY EachIs
<1>2. Just(op) \in Seq(CallSet)
  BY JustIs DEF OpNames
<1> QED
  BY <1>1, <1>2 DEF WithZero

\* The calls that make the solver work.
Names == {"solve", "simplify", "propagate", "lookahead"}

\* The parts of a round
RoundOk(r) ==
  /\ r.clauses \in Seq(Seq(Lit)) /\ r.observe \in Seq(Var) /\ r.later \in SUBSET Var
  /\ r.constraint \in Seq(Lit) /\ r.assume \in Seq(Lit) /\ r.melt \in Seq(Var)
  /\ r.freeze \in Seq(Var) /\ r.process \in Seq(Names) /\ r.lemmas \in Seq(Clause)
  /\ r.flip \in Seq(Var)

\* have the types they must have,
LEMMA RoundIs ==
  ASSUME NEW r \in Round
  PROVE  RoundOk(r)
<1> DEFINE A == Seq(Seq(Lit))
           B == Seq(Var)
           C == Seq(Lit)
           D == Seq(Names)
           E == Seq(Clause)
           L == {"keep", "connect", "disconnect"}
           P == SUBSET Var
<1>1. r \in [clauses : A, link : L, observe : B, later : P, constraint : C, assume : C,
             melt : B, freeze : B, process : D, lemmas : E, flip : B]
  BY Zenon DEF Round, Names
<1> HIDE DEF A, B, C, D, E, L, P
<1>2. /\ r.clauses \in A /\ r.observe \in B /\ r.later \in P
      /\ r.constraint \in C /\ r.assume \in C /\ r.melt \in B
      /\ r.freeze \in B /\ r.process \in D /\ r.lemmas \in E /\ r.flip \in B
  BY <1>1
<1> QED
  BY <1>2, Zenon DEF RoundOk, A, B, C, D, E, P

\* lists are joined,
LEMMA Joined ==
  ASSUME NEW S, NEW s \in Seq(S), NEW t \in Seq(S)
  PROVE  s \o t \in Seq(S)
  OBVIOUS

\* a propagator comes or goes,
LEMMA LinkIs ==
  ASSUME NEW r \in Round, NEW b \in BOOLEAN
  PROVE  Link(r, b) \in Seq(CallSet)
<1> DEFINE Q == Seq(CallSet)
           j == Just("disconnect")
           h == Just("connect")
           ob == Each("observe", r.observe)
           k == Op("later", 0, r.later)
           f == <<k>>
           e == <<>>
<1>1. RoundOk(r)
  BY RoundIs
<1>2. j \in Q /\ h \in Q /\ e \in Q
  BY JustIs DEF OpNames
<1>3. ob \in Q
  BY <1>1, EachIs DEF RoundOk
<1>4. k \in CallSet
  <2>1. r.later \in SUBSET Var /\ r.later \in SUBSET Int /\ 0 \in Int
    <3>1. r.later \in SUBSET Var
      BY <1>1 DEF RoundOk
    <3>2. r.later \in SUBSET Int
      BY <3>1, IntLit, Zenon
    <3>3. 0 \in Int
      OBVIOUS
    <3> QED
      BY <3>1, <3>2, <3>3, Zenon
  <2> DEFINE z == r.later
  <2> HIDE DEF z
  <2>2. Op("later", 0, z) \in CallSet
    BY <2>1, OpIs DEF z, OpNames
  <2> QED
    BY <2>2 DEF z
<1>5. f \in Q
  BY <1>4
<1>6. \/ Link(r, b) = j \/ Link(r, b) = e
      \/ Link(r, b) = j \o h \o ob \o f \/ Link(r, b) = e \o h \o ob \o f
  BY Zenon DEF Link
<1>7. \A s, t \in Q : s \o t \in Q
  BY Joined
<1> HIDE DEF Q, j, h, ob, f, e
<1>8. Link(r, b) \in Q
  <2>1. j \o h \in Q /\ e \o h \in Q
    BY <1>2, <1>7, Zenon
  <2>2. j \o h \o ob \in Q /\ e \o h \o ob \in Q
    BY <1>3, <1>7, <2>1, Zenon
  <2>3. j \o h \o ob \o f \in Q /\ e \o h \o ob \o f \in Q
    BY <1>5, <1>7, <2>2, Zenon
  <2> QED
    BY <1>2, <1>6, <2>3, Zenon
<1> QED
  BY <1>8 DEF Q

\* lists are mapped,
LEMMA MappedIs ==
  ASSUME NEW S, NEW T, NEW s \in Seq(S), NEW f, f = [i \in DOMAIN s |-> f[i]],
         \A i \in DOMAIN s : s[i] \in S => f[i] \in T
  PROVE  f \in Seq(T)
<1> DEFINE N == Len(s)
<1>1. N \in Nat /\ DOMAIN s = 1..N /\ \A i \in 1..N : s[i] \in S
  OBVIOUS
<1>2. \A i \in 1..N : f[i] \in T
  BY <1>1
<1>3. f = [i \in 1..N |-> f[i]]
  BY <1>1
<1> HIDE DEF N
<1> QED
  BY <1>1, <1>2, <1>3

\* so that a round is a list of calls.
LEMMA RoundCallsIs ==
  ASSUME NEW r \in Round, NEW a \in BOOLEAN, NEW b \in BOOLEAN
  PROVE  RoundCalls(r, a, b) \in Seq(CallSet)
<1> DEFINE Q == Seq(CallSet)
           adds == [i \in DOMAIN r.clauses |-> WithZero("add", r.clauses[i])]
           lemmas == [j \in DOMAIN r.lemmas |-> Op("lemma", 0, r.lemmas[j])]
           e == <<>>
           after(i) == IF r.process[i] = "solve" /\ b THEN lemmas ELSE e
           runs == [i \in DOMAIN r.process |-> Just(r.process[i]) \o after(i)]
           c == IF r.constraint = <<>> THEN e ELSE WithZero("constrain", r.constraint)
           v == Just("val")
           f == Each("flip", r.flip)
           g == IF b THEN e ELSE f \o v
           as == Each("assume", r.assume)
           ms == Each("melt", r.melt)
           fs == Each("freeze", r.freeze)
           ln == Link(r, a)
           fa == FlattenSeq(adds)
           fr == FlattenSeq(runs)
<1>1. RoundOk(r)
  BY RoundIs
<1>2. \A s, t \in Q : s \o t \in Q
  BY Joined
<1>3. e \in Q /\ v \in Q
  BY JustIs DEF OpNames
<1>4. as \in Q /\ ms \in Q /\ fs \in Q /\ f \in Q
  <2>1. /\ r.assume \in Seq(Lit) /\ r.melt \in Seq(Var) /\ r.freeze \in Seq(Var)
        /\ r.flip \in Seq(Var)
    BY <1>1 DEF RoundOk
  <2> QED
    BY <2>1, EachIs
<1>5. c \in Q
  BY <1>1, <1>3, WithZeroIs DEF RoundOk
<1>6. ln \in Q
  BY LinkIs
<1>7. fa \in Q
  <2> DEFINE L == Seq(Lit)
             s == r.clauses
  <2>1. s \in Seq(L)
    BY <1>1 DEF RoundOk
  <2>2. adds = [i \in DOMAIN s |-> adds[i]]
    BY Zenon
  <2>3. \A i \in DOMAIN s : s[i] \in L => adds[i] \in Q
    <3>1. ASSUME NEW i \in DOMAIN s, s[i] \in L
          PROVE  adds[i] \in Q
      <4>1. adds[i] = WithZero("add", s[i])
        OBVIOUS
      <4>2. WithZero("add", s[i]) \in Q
        BY <3>1, WithZeroIs
      <4> QED
        BY <4>1, <4>2, Zenon
    <3> QED
      BY <3>1
  <2> HIDE DEF adds, L, s, Q
  <2>4. adds \in Seq(Q)
    BY <2>1, <2>2, <2>3, MappedIs
  <2> QED
    BY <2>4, FlatOver DEF Q
<1>8. lemmas \in Q
  <2> DEFINE s == r.lemmas
  <2>1. s \in Seq(Clause)
    BY <1>1 DEF RoundOk
  <2>2. lemmas = [i \in DOMAIN s |-> lemmas[i]]
    BY Zenon
  <2>3. \A i \in DOMAIN s : s[i] \in Clause => lemmas[i] \in CallSet
    <3>1. ASSUME NEW i \in DOMAIN s, s[i] \in Clause
          PROVE  lemmas[i] \in CallSet
      <4> DEFINE cl == s[i]
      <4>1. lemmas[i] = Op("lemma", 0, cl)
        OBVIOUS
      <4>2. cl \in Clause /\ cl \in SUBSET Int /\ 0 \in Int
        <5>1. cl \in SUBSET Int
          BY <3>1, IntLit, Zenon
        <5>2. 0 \in Int
          OBVIOUS
        <5> QED
          BY <3>1, <5>1, <5>2, Zenon
      <4> HIDE DEF cl
      <4>3. Op("lemma", 0, cl) \in CallSet
        BY <4>2, OpIs DEF OpNames
      <4> QED
        BY <4>1, <4>3, Zenon
    <3> QED
      BY <3>1
  <2> HIDE DEF lemmas, s
  <2>4. lemmas \in Seq(CallSet)
    BY <2>1, <2>2, <2>3, MappedIs
  <2> QED
    BY <2>4
<1>9. fr \in Q
  <2> DEFINE s == r.process
  <2>1. s \in Seq(Names)
    BY <1>1 DEF RoundOk
  <2>2. runs = [i \in DOMAIN s |-> runs[i]]
    BY Zenon
  <2>3. \A i \in DOMAIN s : s[i] \in Names => runs[i] \in Q
    <3>1. ASSUME NEW i \in DOMAIN s, s[i] \in Names
          PROVE  runs[i] \in Q
      <4>1. runs[i] = Just(s[i]) \o after(i)
        OBVIOUS
      <4>2. after(i) \in Q
        BY <1>3, <1>8, Zenon
      <4>3. Just(s[i]) \in Q
        BY <3>1, JustIs DEF Names, OpNames
      <4> HIDE DEF s, after, Q, runs
      <4> QED
        BY <1>2, <4>1, <4>2, <4>3
    <3> QED
      BY <3>1
  <2> HIDE DEF runs, s, Q
  <2>4. runs \in Seq(Q)
    BY <2>1, <2>2, <2>3, MappedIs
  <2> QED
    BY <2>4, FlatOver DEF Q
<1>10. g \in Q
  <2> HIDE DEF Q, e, f, v
  <2> QED
    BY <1>2, <1>3, <1>4
<1>11. RoundCalls(r, a, b) = fa \o ln \o c \o as \o ms \o fs \o fr \o v \o g
  BY Zenon DEF RoundCalls
<1> HIDE DEF Q, fa, ln, c, as, ms, fs, fr, v, g
<1>12. RoundCalls(r, a, b) \in Q
  <2>1. fa \o ln \in Q
    BY <1>2, <1>6, <1>7
  <2>2. fa \o ln \o c \in Q
    BY <1>2, <1>5, <2>1
  <2>3. fa \o ln \o c \o as \in Q
    BY <1>2, <1>4, <2>2
  <2>4. fa \o ln \o c \o as \o ms \in Q
    BY <1>2, <1>4, <2>3
  <2>5. fa \o ln \o c \o as \o ms \o fs \in Q
    BY <1>2, <1>4, <2>4
  <2>6. fa \o ln \o c \o as \o ms \o fs \o fr \in Q
    BY <1>2, <1>9, <2>5
  <2>7. fa \o ln \o c \o as \o ms \o fs \o fr \o v \in Q
    BY <1>2, <1>3, <2>6
  <2> QED
    BY <1>2, <1>10, <1>11, <2>7
<1> QED
  BY <1>12 DEF Q

\* After a round there is a propagator or not,
LinkedAfter(a, r) ==
  CASE r.link = "connect" -> TRUE
    [] r.link = "disconnect" -> FALSE
    [] OTHER -> a.connected

\* and there are its calls behind those of the rounds before.
RoundAfter(a, r) ==
  [calls |-> a.calls \o RoundCalls(r, a.connected, LinkedAfter(a, r)),
   connected |-> LinkedAfter(a, r)]

\* The rounds so far
Progress == [calls : Seq(CallSet), connected : BOOLEAN]

\* from none
NothingYet == [calls |-> <<>>, connected |-> FALSE]

\* to all of them, by recursion.
GenRun(f, plan) ==
  f = [n \in 0..Len(plan) |-> IF n = 0 THEN NothingYet ELSE RoundAfter(f[n - 1], plan[n])]

\* The calls of a plan are made like this,
LEMMA GeneratedAs ==
  ASSUME NEW plan
  PROVE  Generated(plan) = (CHOOSE f : GenRun(f, plan))[Len(plan)].calls \o Just("reset")
BY Zenon DEF Generated, GenRun, NothingYet, RoundAfter, LinkedAfter

\* one round,
LEMMA RoundAfterIs ==
  ASSUME NEW a \in Progress, NEW r \in Round
  PROVE  RoundAfter(a, r) \in Progress
<1> DEFINE Q == Seq(CallSet)
           x == a.connected
           y == LinkedAfter(a, r)
           s == a.calls
           t == RoundCalls(r, x, y)
<1>1. x \in BOOLEAN /\ s \in Q
  <2> HIDE DEF Q
  <2>1. a \in [calls : Q, connected : BOOLEAN]
    BY DEF Progress, Q
  <2> QED
    BY <2>1
<1>2. y \in BOOLEAN
  <2>1. y = TRUE \/ y = FALSE \/ y = x
    BY Zenon DEF LinkedAfter
  <2> HIDE DEF y, x
  <2> QED
    BY <1>1, <2>1
<1> HIDE DEF x, y
<1>3. t \in Q
  BY <1>1, <1>2, RoundCallsIs
<1> HIDE DEF s, t
<1>4. s \o t \in Q
  BY <1>1, <1>3, Joined
<1>5. RoundAfter(a, r) = [calls |-> s \o t, connected |-> y]
  BY Zenon DEF RoundAfter, s, t, x, y
<1> HIDE DEF Q
<1>6. RoundAfter(a, r) \in [calls : Q, connected : BOOLEAN]
  BY <1>2, <1>4, <1>5
<1> QED
  BY <1>6 DEF Progress, Q

\* after none,
LEMMA NothingYetIs == NothingYet \in Progress
<1> DEFINE Q == Seq(CallSet)
           e == <<>>
<1>1. e \in Q
  OBVIOUS
<1>2. NothingYet = [calls |-> e, connected |-> FALSE]
  BY Zenon DEF NothingYet
<1> HIDE DEF Q, e
<1>3. NothingYet \in [calls : Q, connected : BOOLEAN]
  BY <1>1, <1>2
<1> QED
  BY <1>3 DEF Progress, Q

\* by a function that exists,
LEMMA GenExists ==
  ASSUME NEW plan \in Seq(Round)
  PROVE  \E f : GenRun(f, plan)
<1> DEFINE T == Progress
           N == Len(plan)
           G == [p \in (1..N) \X T |-> RoundAfter(p[2], plan[p[1]])]
           b == NothingYet
<1>1. N \in Nat /\ \A k \in 1..N : plan[k] \in Round
  <2> HIDE DEF T
  <2> HIDE DEF Round
  <2> QED
    OBVIOUS
<1>2. b \in T
  BY NothingYetIs
<1> HIDE DEF N, b
<1>3. G \in [(1..N) \X T -> T]
  <2>1. \A k \in 1..N : \A a \in T : RoundAfter(a, plan[k]) \in T
    BY <1>1, RoundAfterIs
  <2> HIDE DEF T
  <2> QED
    BY <2>1
<1>4. \A k \in 1..N : \A a \in T : G[k, a] = RoundAfter(a, plan[k])
  <2> HIDE DEF T
  <2> QED
    OBVIOUS
<1> HIDE DEF T, G
<1>5. PICK f \in [0..N -> T] : RunOf(f, b, N, G)
  BY <1>1, <1>2, <1>3, RunExists
<1>6. f = [n \in 0..N |-> IF n = 0 THEN b ELSE G[n, f[n - 1]]]
  BY <1>5 DEF RunOf
<1>7. \A n \in 0..N : (IF n = 0 THEN b ELSE G[n, f[n - 1]])
                      = (IF n = 0 THEN b ELSE RoundAfter(f[n - 1], plan[n]))
  <2>1. \A n \in 0..N : n # 0 => n \in 1..N /\ n - 1 \in 0..N
    BY <1>1
  <2>2. \A n \in 0..N : n # 0 => f[n - 1] \in T
    BY <2>1
  <2>3. \A n \in 0..N : n # 0 => G[n, f[n - 1]] = RoundAfter(f[n - 1], plan[n])
    BY <1>4, <2>1, <2>2, Zenon
  <2> QED
    BY <2>3
<1>8. f = [n \in 0..N |-> IF n = 0 THEN b ELSE RoundAfter(f[n - 1], plan[n])]
  <2> DEFINE h == [n \in 0..N |-> IF n = 0 THEN b ELSE RoundAfter(f[n - 1], plan[n])]
             g == [n \in 0..N |-> IF n = 0 THEN b ELSE G[n, f[n - 1]]]
  <2>1. g = h
    BY <1>7, Zenon
  <2> QED
    BY <1>6, <2>1, Zenon
<1> QED
  BY <1>8, Zenon DEF GenRun, N, b

\* and that has calls as values,
LEMMA GenRuns ==
  ASSUME NEW plan \in Seq(Round), NEW f, GenRun(f, plan)
  PROVE  f[Len(plan)] \in Progress
<1> DEFINE N == Len(plan)
           D == {n \in 0..N : f[n] \in Progress}
<1>1. N \in Nat /\ \A k \in 1..N : plan[k] \in Round
  <2> HIDE DEF Round, Progress
  <2> QED
    OBVIOUS
<1>2. \A n \in 0..N : f[n] = IF n = 0 THEN NothingYet ELSE RoundAfter(f[n - 1], plan[n])
  <2> HIDE DEF NothingYet, RoundAfter, N
  <2>1. f = [n \in 0..N |-> IF n = 0 THEN NothingYet ELSE RoundAfter(f[n - 1], plan[n])]
    BY Zenon DEF GenRun, N
  <2> QED
    BY <2>1, Zenon
<1> HIDE DEF N
<1>3. 0 \in D
  BY <1>1, <1>2, NothingYetIs
<1>4. ASSUME NEW n \in 1..N, n - 1 \in D PROVE n \in D
  <2>1. n \in 0..N /\ n # 0 /\ f[n - 1] \in Progress /\ plan[n] \in Round
    BY <1>1, <1>4
  <2>2. f[n] = RoundAfter(f[n - 1], plan[n])
    BY <1>2, <2>1
  <2>3. RoundAfter(f[n - 1], plan[n]) \in Progress
    BY <2>1, RoundAfterIs
  <2> QED
    BY <2>1, <2>2, <2>3
<1> HIDE DEF D
<1>5. \A n \in 0..N : n \in D
  BY <1>1, <1>3, <1>4, AllSteps
<1>6. N \in 0..N
  BY <1>1
<1> QED
  BY <1>5, <1>6 DEF D, N

\* so the tester's calls are calls.
LEMMA GeneratedIs ==
  ASSUME NEW plan \in Plans
  PROVE  Generated(plan) \in Seq(CallSet)
<1> DEFINE f == CHOOSE h : GenRun(h, plan)
           Q == Seq(CallSet)
<1>1. plan \in Seq(Round)
  BY TesterAssumption
<1>2. GenRun(f, plan)
  <2>1. \E h : GenRun(h, plan)
    BY <1>1, GenExists
  <2> QED
    BY <2>1
<1>3. Generated(plan) = f[Len(plan)].calls \o Just("reset")
  BY GeneratedAs
<1> HIDE DEF f
<1>4. f[Len(plan)] \in Progress
  BY <1>1, <1>2, GenRuns
<1> DEFINE a == f[Len(plan)]
           s == a.calls
           t == Just("reset")
<1>5. s \in Q
  <2> HIDE DEF Q, a
  <2>1. a \in [calls : Q, connected : BOOLEAN]
    BY <1>4 DEF Progress, Q, a
  <2> QED
    BY <2>1
<1>6. t \in Q
  BY JustIs DEF OpNames
<1> HIDE DEF s, t
<1>7. s \o t \in Q
  BY <1>5, <1>6, Joined
<1> QED
  BY <1>3, <1>7 DEF s, t

-----------------------------------------------------------------------------
(* The solver starts in the invariant, and stays in it.                    *)

\* The solver at the start:
StartOf(c) ==
  /\ c.chrono \in BOOLEAN /\ c.vars = {} /\ c.clauses = {} /\ c.trail = <<>>
  /\ c.control = <<>> /\ c.propagated = 0 /\ c.notified = 0 /\ c.conflict = None
  /\ ~c.unsat /\ ~c.connected /\ ~c.private /\ c.observed = {}
  /\ c.heard = <<<<>>>> /\ c.lemmas = <<>> /\ (\A l \in Lit : c.reasonOf[l] = 0)

\* as it is made,
LEMMA InitCore ==
  ASSUME ApiInit
  PROVE  core \in Core /\ StartOf(core)
<1> DEFINE e == <<>>
           h == <<<<>>>>
           z == {}
           fr == [v \in Var |-> 0]
           rs == [l \in Lit |-> 0]
           A == Seq(Entry)
           B == Seq(Nat)
           C == Seq(Seq(Lit))
           D == Seq([lits : Clause, added : BOOLEAN, isReason : BOOLEAN])
           E == SUBSET [lits : Clause, red : BOOLEAN]
           F == [Var -> Nat]
           R == [Lit -> Nat]
<1>1. core \in [chrono : Chrono, vars : {z}, clauses : {z}, trail : {e},
               control : {e}, propagated : {0}, notified : {0},
               conflict : {None}, unsat : {FALSE}, newest : {None},
               extended : {FALSE}, model : {z},
               connected : {FALSE}, private : {FALSE}, observed : {z},
               frozen : {fr}, heard : {h},
               lemmas : {e}, reasonOf : {rs}]
  BY Zenon DEF ApiInit
<1>2. Chrono \subseteq BOOLEAN
  BY ApiAssumption
<1>3. e \in A /\ e \in B /\ e \in D /\ h \in C
  OBVIOUS
<1>4. fr \in F /\ rs \in R /\ \A l \in Lit : rs[l] = 0
  OBVIOUS
<1>5. z \in SUBSET Var /\ z \in E /\ None \in Clause
  BY DEF None, Clause
<1> HIDE DEF e, h, z, fr, rs, A, B, C, D, E, F, R
<1> HIDE DEF Clause, None
<1>6. IsState(core)
  BY <1>1, SMT DEF IsState, Fields
<1>7. /\ core.chrono \in BOOLEAN /\ core.vars = z /\ core.clauses = z /\ core.trail = e
      /\ core.control = e /\ core.propagated = 0 /\ core.notified = 0
      /\ core.conflict = None /\ core.observed = z
      /\ core.heard = h /\ core.lemmas = e /\ core.reasonOf = rs
      /\ core.newest = None /\ core.model = z /\ core.frozen = fr
  BY <1>1, <1>2
<1>8. /\ core.unsat \in BOOLEAN /\ core.connected \in BOOLEAN /\ core.private \in BOOLEAN
      /\ core.extended \in BOOLEAN /\ ~core.unsat /\ ~core.connected /\ ~core.private
  BY <1>1
<1>9. FieldTypes(core)
  <2>1. /\ core.vars \in SUBSET Var /\ core.clauses \in E /\ core.trail \in A
        /\ core.control \in B /\ core.propagated \in Nat /\ core.notified \in Nat
        /\ core.conflict \in Clause /\ core.newest \in Clause /\ core.model \in SUBSET Var
        /\ core.observed \in SUBSET Var /\ core.frozen \in F /\ core.heard \in C
        /\ core.lemmas \in D /\ core.reasonOf \in R
    BY <1>3, <1>4, <1>5, <1>7
  <2> QED
    BY <1>7, <1>8, <2>1, Zenon
       DEF FieldTypes, A, B, C, D, E, F, R, LemmaSet, ClauseSet
<1>10. core \in Core
  BY <1>6, <1>9, StateCore
<1> QED
  BY <1>4, <1>7, <1>8, <1>10, Zenon DEF StartOf, e, h, z

\* it has what the search relies on,
LEMMA InitLoose ==
  ASSUME NEW c \in Core, StartOf(c), NEW W, NEW o, ~o
  PROVE  Loose(c, W, o)
<1> DEFINE e == <<>>
           z == {}
<1>1. /\ c.vars = z /\ c.clauses = z /\ c.trail = e /\ c.control = e
      /\ c.propagated = 0 /\ c.notified = 0 /\ c.conflict = None /\ ~c.unsat
      /\ ~c.connected /\ c.observed = z /\ c.heard = <<e>> /\ c.lemmas = e
      /\ \A l \in Lit : c.reasonOf[l] = 0
  BY DEF StartOf
<1>2. DOMAIN e = {} /\ Len(e) = 0
  OBVIOUS
<1>3. DOMAIN <<e>> = {1} /\ <<e>>[1] = e /\ Len(<<e>>) = 1
  OBVIOUS
<1>4. z = {}
  OBVIOUS
<1> HIDE DEF e, z
<1>5. Known(c)
  BY <1>1, <1>2, <1>4 DEF Known
<1>6. Struct(c)
  <2>1. Distinct(c.trail) /\ Staged(c.trail, c.control)
    BY <1>1, <1>2 DEF Distinct, Staged
  <2>2. Len(c.heard) = (IF Listens(c) THEN Level(c) + 1 ELSE 1)
        /\ (~Listens(c) => \A b \in DOMAIN c.control : c.notified <= c.control[b])
    BY <1>1, <1>2, <1>3 DEF Listens
  <2>3. c.heard = <<<<>>>> /\ c.observed = {} /\ c.lemmas = <<>>
    BY <1>1, <1>4, Zenon DEF e
  <2> QED
    BY <1>5, <2>1, <2>2, <2>3 DEF Struct
<1>7. Hears(c)
  <2>1. HeardTrue(c.trail, c.heard)
    BY <1>1, <1>2, <1>3 DEF HeardTrue
  <2>2. HeardAll(c.trail, c.control, c.heard, c.notified, c.observed)
    BY <1>1 DEF HeardAll
  <2> QED
    BY <1>1, <2>1, <2>2 DEF Hears, Hearing, Listens
<1>8. Late(c) /\ Sound(c, W)
  BY <1>1, <1>2, <1>4 DEF Late, LateOk, Sound
<1> QED
  BY <1>6, <1>7, <1>8 DEF Loose

\* and the invariant holds.
LEMMA InitInv ==
  ASSUME Init
  PROVE  ApiInv
<1> DEFINE q == [kind |-> "solve", assumptions |-> <<>>, constraint |-> {},
                 unsat_constraint |-> FALSE]
           ad == [clause |-> <<>>, constraint |-> <<>>]
           us == [formula |-> {}, constraint |-> {}, theory |-> {},
                  requests |-> 0, unknowns |-> 0]
<1>1. ApiInit /\ \E plan \in Plans : calls = Generated(plan)
  BY DEF Init
<1>2. /\ mock = NoMock /\ query = q /\ pc = "idle" /\ again = FALSE /\ result = 0
      /\ termination_forced = FALSE /\ state = "CONFIGURING" /\ adding = ad /\ user = us
  BY <1>1, Zenon DEF ApiInit
<1>3. PICK o \in BOOLEAN : ~o
  BY SomeFalse
<1>4. core \in Core /\ StartOf(core)
  BY <1>1, InitCore
<1>5. q \in Query /\ q.assumptions = <<>> /\ q.constraint = {} /\ ~q.unsat_constraint
  <2> DEFINE A == Seq(Lit)
             e == <<>>
             z == {}
  <2>1. e \in A /\ z \in Clause
    BY DEF Clause
  <2>2. q = [kind |-> "solve", assumptions |-> e, constraint |-> z, unsat_constraint |-> FALSE]
    BY Zenon
  <2> HIDE DEF A, e, z, q
  <2> HIDE DEF Clause
  <2>3. /\ q \in [kind : {"solve", "simplify", "propagate"}, assumptions : A,
                  constraint : Clause, unsat_constraint : BOOLEAN]
        /\ q.assumptions = e /\ q.constraint = z /\ ~q.unsat_constraint
    BY <2>1, <2>2
  <2> QED
    BY <2>3, Zenon DEF Query, A, e, z
<1>6. ad \in Adding /\ ad.clause = <<>> /\ ad.constraint = <<>>
  BY DEF Adding
<1>7. us \in User
  BY DEF User
<1>8. IdlePre(core, mock, query, Worlds, o)
  <2>1. Loose(core, Worlds, o)
    BY <1>3, <1>4, InitLoose
  <2>2. ~core.private /\ core.conflict = None /\ core.lemmas = <<>> /\ core.trail = <<>>
    BY <1>4 DEF StartOf
  <2>3. NextOf(mock, core) /\ mock.must = 0
    BY <1>2, <2>2, NoMockFine
  <2>4. Ordered(core.trail)
    BY <2>2 DEF Ordered
  <2> QED
    BY <2>1, <2>2, <2>3, <2>4 DEF IdlePre
<1>9. Good(core, mock, query, "idle", again, Worlds)
  BY <1>8, IdleGood
<1>10. GoodNow
  BY <1>2, <1>9 DEF GoodNow
<1>11. AskedInv
  <2>1. ToSet(<<>>) = {}
    BY ListEnds
  <2> HIDE DEF q, ad
  <2>2. /\ ToSet(query.assumptions) = {} /\ query.constraint = {}
        /\ ToSet(adding.clause) = {} /\ ToSet(adding.constraint) = {}
    BY <1>2, <1>5, <1>6, <2>1
  <2> QED
    BY <2>2, OverSome DEF AskedInv, AskedAt
<1>12. AnswerInv
  BY <1>2 DEF AnswerInv, AnswerAt
<1>13. CallsInv
  BY <1>1, GeneratedIs DEF CallsInv
<1>14. Typed
  <2> HIDE DEF q, ad, us
  <2>1. again \in BOOLEAN /\ termination_forced \in BOOLEAN /\ result \in {0, 10, 20}
        /\ state \in VALID \cup {"SOLVING", "DELETING"}
    BY <1>2 DEF VALID, READY
  <2> QED
    BY <1>2, <1>5, <1>6, <1>7, <2>1 DEF Typed
<1> QED
  BY <1>10, <1>11, <1>12, <1>13, <1>14, GoodApi

\* The invariant of the solver with its propagator and its tester holds in
\* every reachable state: whatever calls 'mobical.cpp' generates, in whatever
\* order the propagator answers.
THEOREM InvariantKept == Spec => []ApiInv
<1>1. Init => ApiInv
  BY InitInv
<1>2. ApiInv /\ [Next]_vars => ApiInv'
  BY ApiNext
<1> QED
  BY <1>1, <1>2, PTL DEF Spec

\* A literal that was false before position i is false, and was so on a level
\* not above that of the entry at i.
LEMMA BeforeIs ==
  ASSUME NEW c, Struct(c), NEW i \in DOMAIN c.trail, NEW l \in Lit,
         FalseBefore(c.trail, i, l)
  PROVE  IsFalse(c, l) /\ PosOf(c, l) < i /\ LevelOf(c, l) <= c.trail[i].level
<1>1. c.trail \in Seq(Entry) /\ Len(c.trail) \in Nat /\ DOMAIN c.trail = 1..Len(c.trail)
  BY StructFields, TrailTypes DEF Struct
<1>2. PICK j \in 1..i - 1 : c.trail[j].lit = -l /\ c.trail[j].level <= c.trail[i].level
  BY DEF FalseBefore
<1>3. j \in DOMAIN c.trail /\ j < i
  BY <1>1, <1>2
<1>4. SpotIs(c, l, j)
  BY <1>2, <1>3, Spot
<1>5. IsFalse(c, l)
  BY <1>2, <1>3 DEF IsFalse, Lits
<1> QED
  BY <1>2, <1>3, <1>4, <1>5 DEF SpotIs

-----------------------------------------------------------------------------
(* The properties follow from the invariant.                               *)

\* What a reason says, in the words of the property.
LEMMA JustifiedIs ==
  ASSUME NEW c, Struct(c), NEW i \in DOMAIN c.trail, NEW cl \in Clause,
         Justified(c.trail, i, cl)
  PROVE  /\ c.trail[i].lit \in cl
         /\ \A l \in cl \ {c.trail[i].lit} :
              IsFalse(c, l) /\ PosOf(c, l) < i /\ LevelOf(c, l) <= c.trail[i].level
<1>1. ASSUME NEW l \in cl \ {c.trail[i].lit}
      PROVE  IsFalse(c, l) /\ PosOf(c, l) < i /\ LevelOf(c, l) <= c.trail[i].level
  <2>1. l \in Lit /\ FalseBefore(c.trail, i, l)
    BY DEF Justified, Clause
  <2> QED
    BY <2>1, BeforeIs
<1> QED
  BY <1>1 DEF Justified

\* The trail of a reachable state.
LEMMA NowStruct ==
  ASSUME ApiInv
  PROVE  /\ CoreAt(core, query, pc, Worlds) /\ Struct(core) /\ core \in Core
         /\ core.trail \in Seq(Entry) /\ DOMAIN core.trail = 1..Len(core.trail)
         /\ \A i \in DOMAIN core.trail :
              core.trail[i].lit \in Lit /\ core.trail[i].reason \in Clause \cup {External}
<1>1. CoreAt(core, query, pc, Worlds) /\ Struct(core)
  BY DEF ApiInv, CoreInv, CoreAt, Worlds
<1>2. core \in Core /\ core.trail \in Seq(Entry)
  BY <1>1, StructFields DEF Struct
<1> QED
  BY <1>1, <1>2, TrailTypes

\* The solver, the propagator, the query, the answer and the calls to make are
\* values the code can hold, whatever is called and whatever the callbacks
\* answer.
THEOREM ApiTyped == Spec => []TypeOK
<1>1. ASSUME ApiInv PROVE TypeOK
  <2>1. Struct(core) /\ core \in Core
    BY <1>1, NowStruct
  <2>2. Known(core) /\ Staged(core.trail, core.control)
    BY <2>1 DEF Struct
  <2>3. /\ core.observed \subseteq core.vars
        /\ core.propagated <= Len(core.trail) /\ core.notified <= Len(core.trail)
        /\ \A l \in Lit : core.reasonOf[l] <= Len(core.lemmas)
    BY <2>2 DEF Known
  <2>4. \A i \in DOMAIN core.control : core.control[i] <= Len(core.trail)
    BY <2>2 DEF Staged
  <2>5. mock \in Mock /\ Typed
    BY <1>1 DEF ApiInv
  <2> QED
    BY <2>1, <2>3, <2>4, <2>5 DEF TypeOK, Typed
<1> QED
  BY <1>1, InvariantKept, PTL

\* What 'compare_trails' of mobical checks, in every callback: the observed
\* literals that are true in the solver are those the propagator has heard of,
\* on as many levels, each once unless it is fixed ('notify_assignments',
\* 'notify_decision', 'notify_backtrack').
THEOREM SearchTrailsAgree == Spec => []TrailsAgree
<1>1. ASSUME ApiInv PROVE TrailsAgree
  <2> SUFFICES ASSUME Callback PROVE Agree(IF pc = "model" THEN Notified(core) ELSE core)
    BY DEF TrailsAgree
  <2>1. CoreAt(core, query, pc, Worlds) /\ ControlAt(core, mock, pc)
    BY <1>1, NowStruct DEF ApiInv, ControlInv
  <2>2. /\ Struct(core) /\ Hears(core) /\ ~core.private
        /\ pc \notin Resting => Once(core)
    BY <2>1 DEF CoreAt
  <2>3. Once(core) /\ core.connected
    BY <2>1, <2>2 DEF Callback, Resting, ControlAt, Asking
  <2>4. Listens(core)
    BY <2>2, <2>3 DEF Listens
  <2>5. CASE pc = "model"
    <3> DEFINE d == Notified(core)
    <3>1. d = Notified(core)
      OBVIOUS
    <3> HIDE DEF d
    <3>2. Struct(d) /\ Same(core, d) /\ d.notified = Len(d.trail)
      BY <2>2, <2>4, <3>1, NotifiedStruct
    <3>3. Once(d)
      BY <2>2, <2>3, <3>1, NotifiedOnce
    <3>4. Hears(d)
      <4>1. core.observed \in SUBSET core.observed /\ d.observed = core.observed
        BY <3>2 DEF Same
      <4> QED
        BY <2>2, <3>1, <4>1, NotifiedHears DEF Hears
    <3>5. Listens(d)
      BY <2>4, <3>2 DEF Listens, Same
    <3>6. Agree(d)
      BY <3>2, <3>3, <3>4, <3>5, Agrees
    <3> QED
      BY <2>5, <3>1, <3>6
  <2>6. CASE pc # "model"
    <3>1. core.notified = Len(core.trail)
      BY <2>1, <2>6 DEF Callback, ControlAt
    <3>2. Agree(core)
      BY <2>2, <2>3, <2>4, <3>1, Agrees
    <3> QED
      BY <2>6, <3>2
  <2> QED
    BY <2>5, <2>6
<1> QED
  BY <1>1, InvariantKept, PTL

\* While there is a search, a clause that is the reason of a literal contains
\* it, and its other literals became false before it and not on a higher
\* level.  'analyze' relies on it when it goes through the trail from its end,
\* also after 'chrono' and after lemmas that came late.
THEOREM SearchReasonsOrdered == Spec => []ReasonsOrdered
<1>1. ASSUME ApiInv PROVE ReasonsOrdered
  <2>1. CoreAt(core, query, pc, Worlds) /\ Struct(core)
    BY <1>1, NowStruct
  <2> SUFFICES ASSUME pc \notin {"idle", "start"}, NEW i \in DOMAIN core.trail,
                      core.trail[i].reason \notin {None, External}
               PROVE  /\ core.trail[i].lit \in core.trail[i].reason
                      /\ \A l \in core.trail[i].reason \ {core.trail[i].lit} :
                           /\ IsFalse(core, l) /\ PosOf(core, l) < i
                           /\ LevelOf(core, l) <= core.trail[i].level
    BY DEF ReasonsOrdered
  <2>2. Ordered(core.trail)
    BY <2>1 DEF CoreAt
  <2>3. Justified(core.trail, i, core.trail[i].reason)
    BY <2>2 DEF Ordered
  <2>4. core.trail[i].reason \in Clause
    BY <1>1, NowStruct
  <2> QED
    BY <2>1, <2>3, <2>4, JustifiedIs
<1> QED
  BY <1>1, InvariantKept, PTL

\* A literal whose reason the propagator has yet to give is one it has a lemma
\* for, and this lemma is a reason for it in the same sense, after any
\* backtracking: 'cb_add_reason_clause_lit' will return a clause that the
\* analysis can use.
THEOREM LateReasonsKnown == Spec => []LateReasons
<1>1. ASSUME ApiInv PROVE LateReasons
  <2>1. CoreAt(core, query, pc, Worlds) /\ Struct(core) /\ core \in Core
    BY <1>1, NowStruct
  <2> SUFFICES ASSUME NEW i \in DOMAIN core.trail, core.trail[i].reason = External,
                      NEW e, e = core.trail[i],
                      NEW cl, cl = core.lemmas[core.reasonOf[e.lit]].lits
               PROVE  /\ core.connected /\ core.reasonOf[e.lit] # 0 /\ e.lit \in cl
                      /\ \A l \in cl \ {e.lit} :
                           /\ IsFalse(core, l) /\ PosOf(core, l) < i
                           /\ LevelOf(core, l) <= e.level
    BY Zenon DEF LateReasons
  <2>2. Late(core)
    BY <2>1 DEF CoreAt
  <2>3. core.connected /\ core.reasonOf[e.lit] # 0 /\ Justified(core.trail, i, cl)
    BY <2>2 DEF Late, LateOk
  <2>4. cl \in Clause
    <3>1. e.lit \in Lit
      BY <1>1, NowStruct
    <3>2. core.reasonOf[e.lit] \in Nat /\ core.reasonOf[e.lit] <= Len(core.lemmas)
      BY <2>1, <3>1, StructFields DEF Struct, Known, Core
    <3>3. /\ Len(core.lemmas) \in Nat /\ DOMAIN core.lemmas = 1..Len(core.lemmas)
          /\ \A j \in DOMAIN core.lemmas : core.lemmas[j].lits \in Clause
      BY <2>1, LemmaTypes
    <3>4. PICK k \in Nat : k = core.reasonOf[e.lit]
      BY <3>2
    <3>5. k # 0 /\ k <= Len(core.lemmas)
      BY <2>3, <3>2, <3>4
    <3>6. k \in DOMAIN core.lemmas
      BY <3>3, <3>4, <3>5
    <3> QED
      BY <3>3, <3>4, <3>6
  <2> QED
    BY <2>1, <2>3, <2>4, JustifiedIs
<1> QED
  BY <1>1, InvariantKept, PTL

\* The clauses of the solver and the literals it has fixed follow from what
\* the user added and the lemmas of the propagators: learned clauses, reasons
\* given late and clauses shortened as they are added take no model away, and
\* 'unsat' means that there is none.
THEOREM SolverClausesEntailed == Spec => []ClausesEntailed
<1>1. ASSUME ApiInv PROVE ClausesEntailed
  <2>1. CoreAt(core, query, pc, Worlds)
    BY <1>1, NowStruct
  <2>2. Sound(core, Worlds)
    BY <2>1 DEF CoreAt
  <2> SUFFICES ASSUME NEW m \in Worlds
               PROVE  /\ \A d \in core.clauses : Holds(m, d.lits)
                      /\ \A i \in DOMAIN core.trail :
                           core.trail[i].level = 0 => Holds(m, {core.trail[i].lit})
                      /\ ~core.unsat
    BY Zenon DEF ClausesEntailed, Worlds
  <2>3. /\ \A d \in core.clauses : Holds(m, d.lits)
        /\ \A i \in DOMAIN core.trail :
             core.trail[i].level = 0 => Tru(m, core.trail[i].lit)
        /\ ~core.unsat
    BY <2>2 DEF Sound
  <2>4. ASSUME NEW i \in DOMAIN core.trail, core.trail[i].level = 0
        PROVE  Holds(m, {core.trail[i].lit})
    BY <2>3, <2>4 DEF Tru, Holds
  <2> QED
    BY <2>3, <2>4
<1> QED
  BY <1>1, InvariantKept, PTL

\* A variable that the propagator observes is one of the solver and is frozen,
\* so that inprocessing cannot remove it, after any sequence of 'freeze',
\* 'melt', 'add_observed_var', 'remove_observed_var', 'connect' and
\* 'disconnect'.
THEOREM ObservedStayFrozen == Spec => []ObservedFrozen
<1>1. ASSUME ApiInv PROVE ObservedFrozen
  BY <1>1, NowStruct DEF Struct, Known, ObservedFrozen
<1> QED
  BY <1>1, InvariantKept, PTL

-----------------------------------------------------------------------------
(* Requests to terminate.  They are never answered twice: 'solve' returns  *)
(* 0 at most once for each call of 'terminate', whenever the other thread  *)
(* makes it, and whatever became of the calls before.                      *)

\* A request that has set the flag, and one that has ended the search whose
\* result is still to be returned, both wait to be counted.
Waiting == IF termination_forced THEN 1 ELSE 0
Returning == IF pc = "done" /\ result = 0 /\ query.kind = "solve" THEN 1 ELSE 0

UserIsRecord ==
  user = [formula |-> user.formula, constraint |-> user.constraint,
          theory |-> user.theory, requests |-> user.requests,
          unknowns |-> user.unknowns]
RequestInv ==
  /\ UserIsRecord
  /\ user.requests \in Nat /\ user.unknowns \in Nat
  /\ user.unknowns + Waiting + Returning <= user.requests

\* Steps that count nothing keep the invariant when they leave no more
\* requests waiting.
LEMMA NothingCounted ==
  ASSUME RequestInv, UserIsRecord',
         user'.requests = user.requests, user'.unknowns = user.unknowns,
         Waiting' + Returning' <= Waiting + Returning
  PROVE  RequestInv'
  BY SMT DEF RequestInv, Waiting, Returning

LEMMA GoesOn ==
  ASSUME RequestInv, UNCHANGED <<user, termination_forced>>, pc' # "done"
  PROVE  RequestInv'
  BY NothingCounted, SMT DEF RequestInv, UserIsRecord, Waiting, Returning

\* A search that ends without an answer to 'solve' has been asked to.
LEMMA Ends ==
  ASSUME RequestInv, NEW c, NEW res, Finish(c, res), UNCHANGED user,
         pc # "done",
         res = 0 /\ query'.kind = "solve" => termination_forced
  PROVE  RequestInv'
<1>1. termination_forced' = FALSE /\ result' = res
  BY DEF Finish
<1>2. /\ Returning' <= Waiting /\ Waiting' = 0 /\ Returning = 0
      /\ Waiting \in {0, 1} /\ Returning' \in {0, 1}
  BY <1>1, SMT DEF Waiting, Returning
<1> QED
  BY <1>1, <1>2, SMT DEF RequestInv, UserIsRecord

\* The user's calls that only change what is asked.
LEMMA Asks ==
  ASSUME RequestInv, UNCHANGED termination_forced, pc' # "done",
         UserIsRecord',
         user'.requests = user.requests, user'.unknowns = user.unknowns
  PROVE  RequestInv'
  BY NothingCounted, SMT DEF RequestInv, Waiting, Returning

\* transition_to_steady_state keeps the counts.
LEMMA SteadyCounts ==
  ASSUME UserIsRecord, NEW u,
         \/ u = SteadyUser
         \/ \E F : u = [SteadyUser EXCEPT !.formula = F]
         \/ \E C : u = [SteadyUser EXCEPT !.constraint = C]
  PROVE  /\ u = [formula |-> u.formula, constraint |-> u.constraint,
                 theory |-> u.theory, requests |-> u.requests,
                 unknowns |-> u.unknowns]
         /\ u.requests = user.requests /\ u.unknowns = user.unknowns
  BY SMT DEF UserIsRecord, SteadyUser
-----------------------------------------------------------------------------
(* The search. *)

LEMMA SearchStep ==
  ASSUME RequestInv, Search, UNCHANGED <<state, adding, user>>
  PROVE  RequestInv'
<1>1. CASE Begin
  <2> DEFINE root == Propagated(Backtracked(core, 0))
  <2>1. pc = "start" /\ UNCHANGED query
    BY <1>1 DEF Begin
  <2>2. \/ Finish(core, 20) \/ Finish([root EXCEPT !.unsat = TRUE], 20)
        \/ (query.kind = "simplify" /\ Finish(root, 0))
        \/ (pc' = "loop" /\ UNCHANGED termination_forced)
    BY <1>1, Zenon DEF Begin, Goto
  <2> HIDE DEF root
  <2> QED
    BY <2>1, <2>2, Ends, GoesOn, SMT
<1>2. CASE LocalSearch
  <2>1. pc = "start" /\ UNCHANGED query
    BY <1>2 DEF LocalSearch
  <2>2. PICK c, res : PhasesTried(c, res)
    BY <1>2, Zenon DEF LocalSearch
  <2>3. (Finish(c, res) /\ res \in {10, 20})
        \/ (pc' = "loop" /\ UNCHANGED termination_forced)
    BY <2>2 DEF PhasesTried, Goto
  <2> QED
    BY <2>1, <2>3, Ends, GoesOn, SMT
<1>3. CASE Propagate
  <2>1. pc = "loop" /\ UNCHANGED query
    BY <1>3 DEF Propagate
  <2>2. \/ Finish(core, 20)
        \/ (pc' \in {"analyze", "cbpropagate", "decide"}
            /\ UNCHANGED termination_forced)
    BY <1>3, Zenon DEF Propagate, Goto
  <2> QED
    BY <2>1, <2>2, Ends, GoesOn, SMT
<1>4. CASE Analyze
  BY <1>4, GoesOn, Zenon DEF Analyze, Goto
<1>5. CASE CbPropagate
  <2>1. PICK c : Resume(c, "cbpropagate")
    BY <1>5, Zenon DEF CbPropagate
  <2> QED
    BY <1>5, <2>1, GoesOn, Zenon DEF CbPropagate, Resume, Interrupt, Goto
<1>6. CASE CbPropagateNothing
  BY <1>6, GoesOn, Zenon DEF CbPropagateNothing, Goto
<1>7. CASE AskClause
  <2>1. PICK c, has : ClauseAsked(c, has)
    BY <1>7, Zenon DEF AskClause
  <2> QED
    BY <1>7, <2>1, GoesOn, Zenon DEF AskClause, ClauseAsked, Interrupt, Goto
<1>8. CASE AddLemma
  BY <1>8, GoesOn, Zenon DEF AddLemma, Resume, Interrupt, Goto
<1>9. CASE FoundModel
  BY <1>9, Ends, GoesOn, SMT DEF FoundModel, Goto
<1>10. CASE CheckModel
  <2>1. pc = "model" /\ UNCHANGED query
    BY <1>10 DEF CheckModel
  <2>2. \/ Finish(Extended(Notified(core)), 10)
        \/ (pc' \in {"loop", "askmodel"} /\ UNCHANGED termination_forced)
    BY <1>10, Zenon DEF CheckModel, Goto
  <2> QED
    BY <2>1, <2>2, Ends, GoesOn, SMT
<1>11. CASE AskAfterModel
  <2>1. pc = "askmodel" /\ UNCHANGED query
    BY <1>11 DEF AskAfterModel
  <2>2. \/ \E c : Finish(c, 10)
        \/ (pc' \in {"lemmamodel", "model", "loop"}
            /\ UNCHANGED termination_forced)
    BY <1>11, Zenon DEF AskAfterModel, Goto
  <2> QED
    BY <2>1, <2>2, Ends, GoesOn, SMT
<1>12. CASE AddAfterModel
  <2>1. PICK c : ModelRefuted(c)
    BY <1>12, Zenon DEF AddAfterModel
  <2>2. pc' \in {"loop", "analyze", "model", "askmodel"}
    BY <2>1, Zenon DEF ModelRefuted, Goto
  <2> QED
    BY <1>12, <2>2, GoesOn, SMT DEF AddAfterModel
<1>13. CASE Terminated
  BY <1>13, Ends, Zenon DEF Terminated
<1>14. CASE Restart \/ Reduce
  BY <1>14, GoesOn, Zenon DEF Restart, Reduce, NoLimit
<1>15. CASE AssumptionsDone
  BY <1>15, Ends, SMT DEF AssumptionsDone, Searching
<1>16. CASE DecideAssumption
  <2>1. pc = "decide"
    BY <1>16 DEF DecideAssumption, Deciding, Searching
  <2>2. \/ Finish(core, 20)
        \/ NoLimit
    BY <1>16, Zenon DEF DecideAssumption
  <2> QED
    BY <2>1, <2>2, Ends, GoesOn, SMT DEF NoLimit
<1>17. CASE DecideConstraint
  <2>1. pc = "decide"
    BY <1>17 DEF DecideConstraint, Deciding, Searching
  <2>2. \/ Finish(core, 20)
        \/ NoLimit
    BY <1>17, Zenon DEF DecideConstraint
  <2> QED
    BY <2>1, <2>2, Ends, GoesOn, SMT DEF NoLimit
<1>18. CASE Decide
  BY <1>18, GoesOn, Zenon DEF Decide, NoLimit
<1> QED
  BY <1>1, <1>2, <1>3, <1>4, <1>5, <1>6, <1>7, <1>8, <1>9, <1>10, <1>11,
     <1>12, <1>13, <1>14, <1>15, <1>16, <1>17, <1>18 DEF Search
-----------------------------------------------------------------------------
(* The two threads. *)

\* 'solve' returns 0 and the request it answers no longer waits.
LEMMA ReturnStep ==
  ASSUME RequestInv, Return
  PROVE  RequestInv'
<1> DEFINE zero == result = 0 /\ query.kind = "solve"
<1>1. /\ user'.requests = user.requests
      /\ user'.unknowns = IF zero THEN user.unknowns + 1 ELSE user.unknowns
      /\ UserIsRecord'
  <2> DEFINE C == IF result = 0 /\ query.kind # "propagate" THEN {}
                  ELSE user.constraint
             n == IF zero THEN user.unknowns + 1 ELSE user.unknowns
  <2>1. user' = [user EXCEPT !.constraint = C, !.unknowns = n]
    BY Zenon DEF Return
  <2> HIDE DEF C, n
  <2>2. /\ user'.requests = user.requests /\ user'.unknowns = n
        /\ UserIsRecord'
    <3>1. user' = [formula |-> user.formula, constraint |-> C,
                   theory |-> user.theory, requests |-> user.requests,
                   unknowns |-> n]
      <4>1. UserIsRecord
        BY DEF RequestInv
      <4> DEFINE mid == [user EXCEPT !.constraint = C]
      <4>2. user' = [mid EXCEPT !.unknowns = n]
        BY <2>1
      <4>3. mid = [formula |-> user.formula, constraint |-> C,
                   theory |-> user.theory, requests |-> user.requests,
                   unknowns |-> user.unknowns]
        BY <4>1, SMT DEF UserIsRecord
      <4> HIDE DEF mid
      <4> QED
        BY <4>2, <4>3, SMT
    <3> QED
      BY <3>1, SMT DEF UserIsRecord
  <2> QED
    BY <2>2 DEF n
<1>2. pc = "done" /\ pc' = "idle" /\ UNCHANGED termination_forced
  BY DEF Return
<1>3. Returning = (IF zero THEN 1 ELSE 0) /\ Returning' = 0
      /\ Waiting' = Waiting
  BY <1>2 DEF Returning, Waiting
<1> HIDE DEF zero
<1> QED
  BY <1>1, <1>2, <1>3, SMT DEF RequestInv, Waiting

LEMMA TerminateStep ==
  ASSUME RequestInv, Terminate
  PROVE  RequestInv'
<1>1. /\ user'.requests = user.requests + 1
      /\ user'.unknowns = user.unknowns /\ UserIsRecord'
  BY SMT DEF Terminate, RequestInv, UserIsRecord
<1>2. Returning' = Returning /\ termination_forced' = TRUE
  BY DEF Terminate, Returning
<1> QED
  BY <1>1, <1>2, SMT DEF RequestInv, Waiting, Returning

LEMMA LookaheadStep ==
  ASSUME RequestInv, Lookahead
  PROVE  RequestInv'
<1>1. UNCHANGED user /\ termination_forced' = FALSE /\ Returning' = Returning
      /\ Returning \in {0, 1}
  BY DEF Lookahead, Returning
<1> QED
  BY <1>1, SMT DEF RequestInv, UserIsRecord, Waiting

\* The calls that belong to the formula and the query.
LEMMA QueryStep ==
  ASSUME RequestInv, NEW l, NEW kind,
         Add(l) \/ Constrain(l) \/ Assume(l) \/ Call(kind)
  PROVE  RequestInv'
<1>1. \/ user' = SteadyUser
      \/ \E F : user' = [SteadyUser EXCEPT !.formula = F]
      \/ \E C : user' = [SteadyUser EXCEPT !.constraint = C]
  BY Zenon DEF Add, Constrain, Assume, Call
<1>2. UNCHANGED termination_forced /\ pc' # "done"
  BY Zenon DEF Add, Constrain, Assume, Call, Idle, SearchKept
<1>3. UserIsRecord
  BY DEF RequestInv
<1> QED
  BY <1>1, <1>2, <1>3, SteadyCounts, Asks, Zenon DEF UserIsRecord

\* The calls that change neither.
LEMMA OtherStep ==
  ASSUME RequestInv, NEW v, NEW cl,
         \/ Val \/ Flip(v) \/ Freeze(v) \/ Melt(v) \/ Observe(v)
         \/ ObserveLater(cl) \/ Lemma(cl) \/ Reset
  PROVE  RequestInv'
<1>1. UNCHANGED <<user, termination_forced, pc>> /\ pc = "idle"
  BY SMT DEF Val, Flip, Freeze, Melt, Observe, ObserveLater, Lemma, Reset,
             Idle, SearchKept
<1> QED
  BY <1>1, GoesOn, SMT

LEMMA PropagatorStep ==
  ASSUME RequestInv, Connect \/ Disconnect
  PROVE  RequestInv'
<1>1. Replaced /\ pc = "idle"
  BY DEF Connect, Disconnect, Idle
<1>2. UNCHANGED <<termination_forced, pc>>
  BY <1>1 DEF Replaced
<1>3. \E T : user' = [user EXCEPT !.theory = T]
  BY <1>1, Zenon DEF Replaced
<1>4. /\ user'.requests = user.requests /\ user'.unknowns = user.unknowns
      /\ UserIsRecord'
  BY <1>3, SMT DEF RequestInv, UserIsRecord
<1> QED
  BY <1>1, <1>2, <1>4, Asks, SMT

LEMMA Unchanged ==
  ASSUME RequestInv, UNCHANGED apiVars
  PROVE  RequestInv'
  BY Zenon DEF RequestInv, UserIsRecord, Waiting, Returning, apiVars, searchVars

LEMMA ExecuteStep ==
  ASSUME RequestInv, Execute \/ ExecuteLemma
  PROVE  RequestInv'
<1>1. CASE ExecuteLemma
  BY <1>1, OtherStep, Zenon DEF ExecuteLemma
<1>2. CASE Execute /\ Made(calls[1])
  BY <1>2, QueryStep, OtherStep, PropagatorStep, LookaheadStep, Zenon DEF Made
<1>3. CASE Execute /\ Guarded(calls[1])
  BY <1>3, OtherStep, Unchanged, Zenon DEF Guarded, Skipped
<1> QED
  BY <1>1, <1>2, <1>3 DEF Execute
-----------------------------------------------------------------------------
LEMMA RequestInit == Init => RequestInv
<1> SUFFICES ASSUME Init PROVE RequestInv
  OBVIOUS
<1>1. /\ user = [formula |-> {}, constraint |-> {}, theory |-> {},
                 requests |-> 0, unknowns |-> 0]
      /\ pc = "idle" /\ termination_forced = FALSE
  BY Zenon DEF Init, ApiInit
<1>2. Waiting = 0 /\ Returning = 0
  BY <1>1, Zenon DEF Waiting, Returning
<1> QED
  BY <1>1, <1>2, SMT DEF RequestInv, UserIsRecord

LEMMA RequestNext ==
  ASSUME RequestInv, [Next]_vars
  PROVE  RequestInv'
<1>1. CASE UNCHANGED vars
  BY <1>1, Unchanged DEF vars
<1>2. CASE Execute \/ ExecuteLemma
  BY <1>2, ExecuteStep
<1>3. CASE Ended
  BY <1>3, Unchanged DEF Ended, vars
<1>4. CASE SolverStep
  BY <1>4, SearchStep, ReturnStep DEF SolverStep
<1>5. CASE Terminate /\ UNCHANGED calls
  BY <1>5, TerminateStep
<1> QED
  BY <1>1, <1>2, <1>3, <1>4, <1>5 DEF Next

\* 'solve' gives up at most once for each request: 'reset_solving' clears the
\* flag at the end of a call, so that no request ends two of them.
THEOREM RequestsAnsweredOnce == Spec => []UnknownsRequested
<1>1. Init => RequestInv
  BY RequestInit
<1>2. RequestInv /\ [Next]_vars => RequestInv'
  BY RequestNext
<1>3. RequestInv => UnknownsRequested
  BY SMT DEF RequestInv, Waiting, Returning, UnknownsRequested
<1> QED
  BY <1>1, <1>2, <1>3, PTL DEF Spec
=============================================================================
