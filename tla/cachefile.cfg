SPECIFICATION Spec
CONSTANTS
  s1 = s1
  s2 = s2
  s3 = s3
  v1 = v1
  v2 = v2
  i1 = i1
  i2 = i2
  i3 = i3
  i4 = i4
  Saver = {s1, s2}
  Value = {v1, v2}
  Inode = {i1, i2, i3, i4}
  Parts = 3
  Overlap = FALSE
  Hole = Hole
  None = None
INVARIANTS CompleteReads
PROPERTIES ReplacesAtomically
