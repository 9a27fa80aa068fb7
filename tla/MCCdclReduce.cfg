CONSTANTS
  Var <- RedVar
  Inputs <- RedInputs
  OptionSets <- RedOptions
  Assumable <- MCAssumable
  Constraints <- MCConstraints
  MaxAssumptions = 0
  MaxSolves = 2
  MaxReductions = 1
  MaxInterrupts = 0
  RestartInt = 1
SPECIFICATION Spec
INVARIANTS IrredundantSuffices
PROPERTIES RootUnitsKept
