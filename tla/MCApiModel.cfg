CONSTANTS
  Var = {1, 2, 3}
  MaxReasons = 1
  MaxLosses = 1
  MaxRestarts = 1
  Chrono = {TRUE, FALSE}
  MaxRequests = 1
  Plans <- ModelPlans
  Wish <- MCWish
SPECIFICATION Spec
INVARIANT ModelKept
