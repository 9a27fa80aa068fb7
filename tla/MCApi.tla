-------------------------------- MODULE MCApi --------------------------------
(***************************************************************************)
(* Small tests for ApiTester, of one to three rounds over four variables.  *)
(***************************************************************************)
EXTENDS ApiInvariant

\* A round that only solves.
Plain == [clauses |-> <<>>, link |-> "keep", observe |-> <<>>, later |-> {},
          constraint |-> <<>>, assume |-> <<>>, melt |-> <<>>,
          freeze |-> <<>>, process |-> <<"solve">>, lemmas |-> <<>>,
          flip |-> <<>>]
\* A round with a new propagator, which observes variable 3 later than 1, 2.
Theory12 == [Plain EXCEPT !.link = "connect", !.observe = <<1, 2>>,
                          !.later = {3}]

\* Without an answer in between, the propagator is kept, replaced or removed.
Relinked ==
  {<<[Theory12 EXCEPT !.clauses = <<<<1, 2>>, <<-1, 3>>>>,
                      !.melt = <<1>>, !.lemmas = <<{-1, -2}>>,
                      !.assume = <<2>>],
     [Plain EXCEPT !.clauses = <<<<-3, 2>>>>, !.link = link,
                   !.observe = <<3, 1>>, !.constraint = <<1, -2>>,
                   !.assume = <<1, 3>>, !.lemmas = <<{-3, 2}>>]>> :
     link \in {"keep", "connect", "disconnect"}}

\* A constraint and lemmas that fix variables while an observed one is melted.
Constrained ==
  {<<[Theory12 EXCEPT !.clauses = <<<<1, 2, 3>>>>, !.constraint = <<3, -1>>,
                      !.melt = <<1>>, !.freeze = <<1>>,
                      !.lemmas = <<{-1, -2}, {1, -2}>>],
     [Plain EXCEPT !.constraint = <<2, -1>>]>>}

\* A model that is flipped, a propagator that comes later, every other call.
Processed ==
  {<<[Plain EXCEPT !.clauses = <<<<1, 2, 3>>>>, !.flip = <<1, 2, 3>>,
                   !.freeze = <<1>>],
     [Theory12 EXCEPT !.clauses = <<<<-1, -2, 3>>>>, !.process = <<call>>,
                      !.melt = <<1, 1>>, !.lemmas = <<{2}>>],
     [Plain EXCEPT !.clauses = <<<<1, -3>>>>]>> :
     call \in {"solve", "lookahead", "simplify", "propagate"}}

\* Lemmas of two and three literals that come to a trail of several levels.
LateLemmas ==
  {<<[Theory12 EXCEPT !.clauses = <<<<3, 1>>, <<-3, -1>>>>,
                      !.observe = <<1, 2, 4>>,
                      !.lemmas = <<{-1, -2}, {-2, -4}, {1, 2, 4}, {-1, -4}>>]>>}

MCPlans == Relinked \cup Constrained \cup Processed \cup LateLemmas
MCWish == 2

\* A call that changes no clause after an answer, and 'val' behind it.
ModelPlans ==
  {<<[Plain EXCEPT !.clauses = <<<<1, 2, 3>>>>,
                   !.process = <<"solve", "lookahead">>]>>}
=============================================================================
