CONSTANTS
  Var <- MCVar
  Reverse = FALSE
  Dlis = FALSE
  Shuffling = FALSE
  RankModulus = 64
  MaxOccs = 0
  MaxBumped = 6
  MaxRounds = 1
CHECK_DEADLOCK FALSE
SPECIFICATION Spec
INVARIANTS TypeOK AfterPointerAssigned WalkStaysOnQueue
PROPERTIES BumpedInOrder DecisionFound ImplementsOrder
