----------------------------- MODULE Inprocessing -----------------------------
(***************************************************************************)
(* The inprocessing of CaDiCaL as a whole: the user's calls, the restoring *)
(* of clauses and all techniques of the modules Reconstruction,            *)
(* Elimination, Blocking, Equivalences and Strengthening, in any order the *)
(* options and limits allow, and what they must not break.                 *)
(***************************************************************************)
EXTENDS Strengthening

Next == External \/ Eliminating \/ Blocks \/ Reduces \/ Strengthens
Spec == Init /\ [][Next]_vars

-----------------------------------------------------------------------------
Places == {"user", "restore", "propagate", "simplify", "answered", "elim",
  "gates", "bounded", "add", "backward", "block", "blocking", "cover",
  "covering", "covered", "condition", "conditioning", "represent",
  "substituted", "probe", "vivify", "last", "instantiate"}

(* The variables keep their types: clauses and assignments are of the literals
   there are, and a clause that is kept has two literals or more and is not a
   tautology. *)
TypeOK ==
  /\ opts \in Options /\ script \in Seq(Calls) /\ may \subseteq Techniques
  /\ original \subseteq Clause /\ irr \subseteq Clause /\ red \subseteq Clause
  /\ \A c \in DB : Cardinality(c) > 1 /\ ~IsTautology(c)
  /\ units \subseteq Lit /\ unsat \in BOOLEAN
  /\ status \in [Var -> Statuses] /\ frozen \in [Var -> Nat]
  /\ assumed \subseteq Lit /\ extension \in Seq(Entries)
  /\ witness \subseteq Lit /\ tainted \subseteq Lit /\ bound \in Nat
  /\ pc \in Places /\ back \in Places /\ pivot \in Lit \cup {0}
  /\ cand \in Clause /\ todo \subseteq Clause \X Clause
  /\ queue \subseteq Clause /\ gate \subseteq Clause
  /\ work \subseteq Lit /\ trail \subseteq Lit /\ marked \subseteq Lit
  /\ private \in Seq(Entries) /\ reprs \in [Lit -> Lit]
  /\ count \in Int /\ flag \in BOOLEAN
  /\ rounds \in Nat /\ learned \in Nat

(* No technique derives anything the user's clauses do not imply: every clause
   it has, removed clauses on the extension stack, units and the empty clause
   included (each derivation in the code is a resolution, or several). *)
StackClauses == {extension[i].clause : i \in DOMAIN extension}
DerivedEntailed ==
  \A m \in Models(original) :
    ~unsat /\ Satisfies(m, DB \cup StackClauses \cup UnitClauses(units))

(* What External::extend needs: between the techniques and when 'solve'
   answers, every model of the irredundant clauses, the units and the
   assumptions extends, by the flips of the extension stack, to a model of all
   the clauses the user added that keeps the assumptions.  (Clauses removed are
   not implied by the others: only the order of the stack, its witnesses and
   the restoring of clauses make this true.) *)
Between == pc \in {"simplify", "answered"}
ModelExtends ==
  Between /\ ~unsat =>
    \A m \in Models(irr \cup UnitClauses(units \cup assumed)) :
      Satisfies(Extend(m), original \cup UnitClauses(assumed))

(* Between the techniques no clause has a variable that was removed: such a
   clause would survive the removal of what defines the variable. *)
NoStaleVariables ==
  Between /\ ~unsat =>
    \A c \in DB : \A l \in c : status[Abs(l)] \in {"active", "fixed"}

(* Every entry of the extension stack can be used when it is needed: its
   witness, made true, satisfies its clause, and the literals of the witness
   are marked, so that a use of a negation of them is noticed and the clause
   restored. *)
StackConsistent ==
  \A i \in DOMAIN extension :
    /\ extension[i].witness \cap extension[i].clause # {}
    /\ extension[i].witness \subseteq witness

(* A variable the user has frozen, or assumed, is never a witness of a clause
   that is removed: its value must not be flipped (External::freeze). *)
WitnessNotFrozen ==
  [][\A i \in DOMAIN extension' : i > Len(extension) =>
       \A w \in extension'[i].witness : ~Frozen(w)]_vars
=============================================================================
