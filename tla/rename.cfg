SPECIFICATION Spec
CONSTANTS
  x = x
  y = y
  f1 = f1
  f2 = f2
  None = None
  File = {f1, f2}
  Name = {x, y}
  Layer = {1, 2}
  Texts <- MCTexts
  Views0 <- MCViews
  MissingViews = TRUE
  MaxEdits = 3
  MaxBatch = 2
  SameName = FALSE
INVARIANTS DocTypeOK WarningsBelong EditsFit EditsDisjoint
PROPERTIES ReferencesFollow
CHECK_DEADLOCK FALSE
SYMMETRY FileSymmetry
