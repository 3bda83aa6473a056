SPECIFICATION Spec
CONSTANTS
  Var = {"v"}
  Construct = {"factory"}
  Method = {"set"}
  MaxStatements = 5
  MaxCalls = 1
  Nested = TRUE
  SelfAssign = FALSE
INVARIANTS AttributionSound
CHECK_DEADLOCK FALSE
