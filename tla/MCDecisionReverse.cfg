CONSTANTS
  Var <- SmallVar
  Reverse = TRUE
  Dlis = FALSE
  Shuffling = FALSE
  RankModulus = 64
  MaxOccs = 0
  MaxBumped = 6
  MaxRounds = 1
CHECK_DEADLOCK FALSE
SPECIFICATION Spec
PROPERTIES BumpedInOrder
