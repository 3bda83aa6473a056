SPECIFICATION Spec
CONSTANTS
  x = x
  y = y
  p1 = p1
  p2 = p2
  q1 = q1
  q2 = q2
  f1 = f1
  f2 = f2
  None = None
  File = {f1, f2}
  Name = {x, y}
  Variable = {p1, p2, q1, q2}
  VarName <- MCVarName
  GlobalVars = {q2}
  Contents <- MCContents
  Arrays = {1, 2, 3, 4, 5, 6, 7}
  Spare = 1
  MaxBuilds = 3
INVARIANTS SnapshotStable PublishedExact VarsAreUnion
CHECK_DEADLOCK FALSE
