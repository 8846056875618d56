CONSTANTS
  Proc = {p1}
  Rcpt = {r1, r2}
  Inode = {i1, i2, i3}
  None = None
  Punt = TRUE
  DiskErrors = FALSE
  LostAnswers = TRUE
  MaxCrashes = 0
SPECIFICATION FairSpec
INVARIANTS OnceUnlessKilled CleanExit
PROPERTIES LeavesSpool
