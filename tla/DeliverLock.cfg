CONSTANTS
  Proc = {p1, p2, p3}
  Rcpt = {r1}
  Inode = {i1, i2}
  None = None
  Punt = FALSE
  DiskErrors = FALSE
  LostAnswers = FALSE
  MaxCrashes = 0
SPECIFICATION FairSpec
INVARIANTS NoDouble NoLoneEfile
PROPERTIES OneVerdict Settles
