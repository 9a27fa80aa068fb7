------------------------------- MODULE MCCdcl -------------------------------
(* Instances of the search core for TLC. *)
EXTENDS Cdcl

Default == [chrono |-> TRUE, chronoalways |-> FALSE, chronolevelim |-> 1,
            chronoreusetrail |-> TRUE, otfs |-> TRUE, shrink |-> TRUE,
            minimize |-> TRUE, eagersubsume |-> TRUE, restart |-> TRUE,
            restartreusetrail |-> TRUE, reduce |-> TRUE, forcephase |-> TRUE]
Always == [Default EXCEPT !.chronoalways = TRUE]
Jump == [Default EXCEPT !.chrono = FALSE, !.shrink = FALSE, !.otfs = FALSE]

(* Eight clauses over three variables: unsatisfiable without units. *)
Three == <<{1, 2, 3}, {1, 2, -3}, {1, -2, 3}, {1, -2, -3},
           {-1, 2, 3}, {-1, 2, -3}, {-1, -2, 3}, {-1, -2, -3}>>
(* A unit learned above the root level falsifies a clause that has a single
   literal on the highest level. *)
OutOfOrder == <<{-3, 4}, {-3, -4}, {3, -1, 4}, {3, -4, -2}, {1, 2, 3}>>
(* Enough conflicts for a restart while two levels are left. *)
Tight == <<{-1, -2, -3}, {-1, -2, 3}, {-1, 2, -3}, {-1, 2, 3}, {-4, -5}, {5, -5}>>
(* A literal that backtracking leaves on the trail becomes a unit's only false
   literal, when the literal that satisfied the clause is unassigned. *)
Missed == <<{-3, 4}, {-5, -1, 6}, {-5, -1, -6}, {5, 4}, {5, -3, -2}>>
(* A learned clause strengthens to one that subsumes an irredundant clause. *)
Subsuming == <<{-1, -2, 3}, {-2, -1, 4}, {-2, -3, -4}>>
(* Two literals of the learned clause come from one level. *)
Blocks == <<{-1, 2}, {-1, 3}, {-4, -2, 5}, {-4, -3, -5}>>
BlocksFail == <<{-6, -1, 2}, {-1, 3}, {-4, -2, 5}, {-4, -3, -5}>>
Minimal == <<{-1, 2}, {-2, 3}, {-4, -1, 5}, {-4, -3, -5}>>

MCVar == 1..6
MCInputs == {Three, OutOfOrder, Tight, Missed, Blocks, BlocksFail, Minimal}
MCOptions == {Default, Always, Jump}
MCAssumable == {}
MCConstraints == {}
(* For reductions: one more variable, and free phases. *)
RedVar == 1..5
RedInputs == {Append(OutOfOrder, {5, -5}), Subsuming}
RedOptions == {[Default EXCEPT !.forcephase = FALSE]}
(* For the incremental runs: a satisfiable formula, extended to an
   unsatisfiable one between the calls, and one with units. *)
Grow == <<{-1, 2}, {-2, 3}, {1, -3}, {1, 2, 3}, {-1, -2, -3}>>
Units == <<{1, 2, 3}, {-3, 1}, {-1}, {2, -2}, {-1, 3}, {-2}>>
IncVar == 1..3
IncInputs == {Grow, Units}
IncOptions == {[Default EXCEPT !.reduce = FALSE], Always}
IncAssumable == {1, -2, 3}
IncConstraints == {{-1, -3}, {2}}

=============================================================================
