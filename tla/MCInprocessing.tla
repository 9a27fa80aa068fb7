---------------------------- MODULE MCInprocessing ----------------------------
(* Scripts of calls for Inprocessing, each with the techniques it is for, and
   the setting in which backward subsumption removes a clause it must not. *)
EXTENDS Inprocessing

MCVar == 1..9
Clauses(s) == [i \in DOMAIN s |-> [call |-> "add", clause |-> s[i]]]
Lits(name, s) == [i \in DOMAIN s |-> [call |-> name, lit |-> s[i]]]
Run(techniques) ==
  <<[call |-> "solve", may |-> techniques, rounds |-> 1, learned |-> 0]>>
Run2(techniques) ==
  <<[call |-> "solve", may |-> techniques, rounds |-> 2, learned |-> 1]>>

(* A variable is eliminated, then used again; one is assumed. *)
Eliminate1 ==
  Clauses(<<{1, 2}, {-1, 3}, {-2, -3}, {1, -2, 3}>>) \o Run({"elim", "collect"})
  \o Clauses(<<{-1, -2}, {2, 3}>>) \o Run({"elim"})
Eliminate2 ==
  Clauses(<<{1, 2}, {-1, -2}, {1, 3}, {-1, 2, -3}>>) \o Run2({"elim"})
  \o Lits("assume", <<1>>) \o Run({"elim"})
(* Gates: an if-then-else and an exclusive or. *)
Eliminate3 ==
  Clauses(<<{1, 2, 3}, {1, -2, 4}, {-1, 2, -3}, {-1, -2, -4}, {1, 3, 4}>>)
  \o Lits("freeze", <<2, 3, 4>>) \o Run({"elim"})
Eliminate4 ==
  Clauses(<<{1, 2, 3}, {1, -2, -3}, {-1, 2, -3}, {-1, -2, 3}, {1, 2, 4}>>)
  \o Lits("freeze", <<2, 3, 4>>) \o Run({"elim"})
(* Backward subsumption with clauses satisfied in the meantime: units found
   while the resolvents are added are not propagated. *)
Eliminate5 ==
  Clauses(<<{1, 2}, {-1, 3}, {2, 3, 4}, {2, -3, 4}, {2, 4}, {3, 4}>>)
  \o Lits("freeze", <<2, 3, 4>>) \o Run({"elim"})
(* A clause too short to be subsumed by the resolvent. *)
Passed ==
  Clauses(<<{1, 2, 3}, {-1, 4}, {2, 5}>>)
  \o Lits("freeze", <<2, 3, 4, 5>>) \o Run({"elim"})
Unpropagated ==
  <<{1, 2}, {-1, 2}, {-2, -3}, {1, 5, 6}, {1, 4, 3}, {-1, 4}, {-1, 5, -4},
    {-4, -6}, {1, 7, 8}, {-1, 7, 9}, {8, 5, 7}>>
Backward(clauses) ==
  Clauses(clauses) \o Lits("freeze", <<2, 3, 4, 5, 6, 7, 8, 9>>)
  \o Run({"elim"})
Eliminate6 == Backward(Unpropagated)
(* The resolvent {7, 8, 9} is compared with the clauses of 8, of which there are
   fewer than of 7 and of 9, with or without the removed ones. *)
Eliminate7 ==
  Backward(Unpropagated \o
           <<{8, -7, -9}, {7, 9}, {7, -8}, {9, 5}, {9, -8}>>)

(* Pure and blocked literals, covered and globally blocked clauses. *)
Block1 ==
  Clauses(<<{1, 2}, {-1, 3}, {-2, -3}, {1, -2, 3}>>) \o Run({"block"})
  \o Clauses(<<{-1, -2}, {2, 3}>>) \o Run({"block"})
Block2 ==
  Clauses(<<{1, 2}, {-1, -2, 3}, {1, -3}>>) \o Run({"cover", "condition"})
  \o Lits("assume", <<1>>) \o Run({"cover", "condition", "block"})
Block3 ==
  Lits("freeze", <<1>>) \o Clauses(<<{1, 2}, {-2, 3}>>)
  \o Run({"condition", "block"}) \o Lits("melt", <<1>>)
  \o Clauses(<<{-1, 2}>>) \o Run({"elim", "block"})
(* Equivalent literals, with and without frozen ones; a contradiction. *)
Equal1 ==
  Clauses(<<{1, 2}, {-1, -2}, {-2, -3}, {1, 2, 3}>>)
  \o Run2({"decompose", "elim"})
  \o Clauses(<<{-1, -2}, {2, 3}>>) \o Run({"decompose"})
Equal2 ==
  Lits("freeze", <<1>>)
  \o Clauses(<<{1, -2}, {-1, 2}, {1, -3}, {-1, 3}, {2, 3}>>)
  \o Run({"decompose"}) \o Lits("assume", <<2>>) \o Run({"decompose", "dedup"})
Equal3 ==
  Clauses(<<{1, 2}, {-1, 2}, {1, -2}, {-1, -2}>>) \o Run({"decompose"})
(* Failed literals, hyper binary and ternary resolution, paths. *)
Binary1 ==
  Clauses(<<{1, -2}, {1, -3}, {-1, 2, 3}, {-1, 2, -3}, {-2, 3}>>)
  \o Run2({"probe", "ternary"}) \o Run({"transred", "dedup"})
Binary2 ==
  Clauses(<<{1, 2}, {2, 3}, {2, -3}, {1, -2, 3}>>)
  \o Run({"probe", "dedup", "transred"})
Binary3 ==
  Clauses(<<{1, -2}, {1, -3}, {2, 3, 4}, {-4, 1}, {-1, 2}>>)
  \o Run({"probe", "transred"})
(* Vivification, subsumption and instantiation. *)
Vivify1 ==
  Clauses(<<{1, 2, 3}, {1, -2, 3}, {1, 2, 4}, {-3, 2}, {2, 3}>>)
  \o Run({"vivify"})
Vivify2 ==
  Clauses(<<{1, 2, 3}, {1, -2, 4}, {-1, 2, 3}, {-4, 3}>>)
  \o Run({"subsume", "instantiate"})
Vivify3 ==
  Clauses(<<{1, 2, 3}, {-1, 3, 4}, {-2, 3, 4}, {1, 2, -3, 4}>>)
  \o Run({"vivify", "subsume"})

(* A clause the search has learned; units that satisfy clauses, and make two
   of them equal. *)
Vivify4 ==
  Clauses(<<{1, 2, 4}, {-4, 3}, {1, 2, 5}, {1, 2, -5}>>)
  \o Run2({"vivify", "subsume"})
Learned ==
  Clauses(<<{1, 2}, {-2, 3}, {-3, 4}>>) \o Run2({"transred"})
Units ==
  Clauses(<<{1, 2, 3}, {1, 2, 4}, {-1, 2, 5}, {3, -4}, {-1, -2},
            {-3}, {5}>>)
  \o Run({"elim", "vivify"})

MCScripts ==
  {Eliminate1, Eliminate2, Eliminate3, Eliminate4, Eliminate5, Eliminate6,
   Passed,
   Block1, Block2, Block3, Equal1, Equal2, Equal3, Binary1, Binary2, Binary3,
   Vivify1, Vivify2, Vivify3, Vivify4, Units,
   Learned}

Default ==
  [restoreall |-> 0, restoreflush |-> FALSE, elimsubst |-> TRUE,
   elimbackward |-> TRUE, elimocclim |-> 4, elimclslim |-> 3,
   elimboundmax |-> 2, blockminclslim |-> 2, blockmaxclslim |-> 3,
   blockocclim |-> 3]
Generous ==
  [Default EXCEPT !.elimocclim = 10, !.elimclslim = 10, !.elimboundmax = 0]
MCOptions == {Default, [Default EXCEPT !.restoreflush = TRUE], Generous}

BackwardScripts == {Eliminate7}
BackwardOptions == {Generous}
=============================================================================
