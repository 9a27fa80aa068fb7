SPECIFICATION Spec
CONSTANTS
  Var <- MCVar
  Scripts <- BackwardScripts
  Options <- BackwardOptions
INVARIANT ModelExtends
CHECK_DEADLOCK FALSE
