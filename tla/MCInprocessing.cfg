SPECIFICATION Spec
CONSTANTS
  Var <- MCVar
  Scripts <- MCScripts
  Options <- MCOptions
INVARIANTS
  TypeOK DerivedEntailed ModelExtends NoStaleVariables
  StackConsistent
PROPERTY WitnessNotFrozen
CHECK_DEADLOCK FALSE
