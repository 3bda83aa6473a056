SPECIFICATION Spec
CONSTANTS
  var1 = var1
  var2 = var2
  Var = {var1, var2}
  Construct = {"factory", "find_file"}
  Method = {"set", "render"}
  MaxStatements = 3
  MaxCalls = 2
  Nested = FALSE
  SelfAssign = FALSE
INVARIANTS TypeOK RecordedOnce AttributionSound AttributionComplete
CHECK_DEADLOCK FALSE
SYMMETRY VarSymmetry
