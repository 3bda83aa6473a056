SPECIFICATION Spec
CONSTANTS
  x = x
  y = y
  f1 = f1
  f2 = f2
  None = None
  File = {f1}
  Name = {x, y}
  Layer = {1, 2}
  Texts <- MCTextsShort
  Views0 <- MCViews
  MissingViews = FALSE
  MaxEdits = 1
  MaxBatch = 2
  SameName = TRUE
INVARIANTS EditsDisjoint
CHECK_DEADLOCK FALSE
