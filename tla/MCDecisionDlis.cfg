CONSTANTS
  Var <- SmallVar
  Reverse = TRUE
  Dlis = TRUE
  Shuffling = TRUE
  RankModulus = 64
  MaxOccs = 2
  MaxBumped = 2
  MaxRounds = 1
CHECK_DEADLOCK FALSE
SPECIFICATION Spec
INVARIANTS Linked DecisionIsBest
