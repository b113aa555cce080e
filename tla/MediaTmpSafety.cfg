CONSTANTS
  Jobs = {j1, j2, j3}
  Media = {m1, m2}
  Platforms = {p1}
  Photos = {m1}
  None = None
SPECIFICATION Spec
SYMMETRY JobSymmetry
INVARIANTS
  AloneIsWhole
  SeriesIsWhole
  CleanAfterSend
