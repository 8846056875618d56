CONSTANTS
  LocalRunner = {l1, l2}
  SlowRunner = {s1, s2}
  Receiver = {c1}
  Launched = {{l1, l2, s1, s2, c1}, {l1, s1, s2, c1}}
  Proc = {l1, l2, s1, s2, c1}
  Rcpt = {r1}
  Inode = {i1}
  None = None
  DiskErrors = TRUE
SPECIFICATION FairSpec
INVARIANTS NoLoss NoLoneEfile HandledOnce NothingStranded
PROPERTIES Settles
