CONSTANTS
  Proc = {p1, p2}
  Rcpt = {r1, r2}
  Inode = {i1, i2, i3}
  None = None
  Punt = FALSE
  DiskErrors = TRUE
  LostAnswers = FALSE
  MaxCrashes = 1
SPECIFICATION Spec
SYMMETRY Symmetry
INVARIANTS TypeOK NoLoss PromiseInv
