CONSTANTS
  Var <- IncVar
  Inputs <- IncInputs
  OptionSets <- IncOptions
  Assumable <- IncAssumable
  Constraints <- IncConstraints
  MaxAssumptions = 2
  MaxSolves = 2
  MaxReductions = 1
  MaxInterrupts = 1
  RestartInt = 1
SPECIFICATION Spec
INVARIANTS UnsatSound ModelSound CoreSound AssumptionsHold
