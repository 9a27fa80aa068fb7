CONSTANTS
  Var <- MCVar
  Inputs <- MCInputs
  OptionSets <- MCOptions
  Assumable <- MCAssumable
  Constraints <- MCConstraints
  MaxAssumptions = 0
  MaxSolves = 1
  MaxReductions = 1
  MaxInterrupts = 0
  RestartInt = 1
SPECIFICATION Spec
INVARIANTS TypeOK ClausesEntailed TrailLevels ReasonsImply PropagationComplete
PROPERTIES LearnedIsNew SolveReturns
