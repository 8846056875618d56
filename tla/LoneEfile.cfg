CONSTANTS
  Proc = {p1, p2}
  Rcpt = {r1, r2}
  Inode = {i1, i2, i3}
  None = None
  Punt = FALSE
  DiskErrors = FALSE
  LostAnswers = FALSE
  MaxCrashes = 0
SPECIFICATION Spec
SYMMETRY Symmetry
INVARIANTS NoLoneEfile
