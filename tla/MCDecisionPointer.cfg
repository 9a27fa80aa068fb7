CONSTANTS
  Var <- SmallVar
  Reverse = FALSE
  Dlis = TRUE
  Shuffling = FALSE
  RankModulus = 64
  MaxOccs = 0
  MaxBumped = 6
  MaxRounds = 1
CHECK_DEADLOCK FALSE
SPECIFICATION Spec
INVARIANTS PointerUnassigned
