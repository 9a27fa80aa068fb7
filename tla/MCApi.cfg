CONSTANTS
  Var = {1, 2, 3, 4}
  MaxReasons = 1
  MaxLosses = 1
  MaxRestarts = 1
  Chrono = {TRUE, FALSE}
  MaxRequests = 1
  Plans <- MCPlans
  Wish <- MCWish
SPECIFICATION Spec
INVARIANTS
  TypeOK
  TrailsAgree
  ReasonsOrdered
  LateReasons
  NothingMissed
  ClausesEntailed
  AnswerSound
  ModelKept
  UnknownsRequested
  ObservedFrozen
  ApiInv
PROPERTY SolveReturns
