CONSTANTS
  g1 = g1
  g2 = g2
  g3 = g3
  g4 = g4
  mbox = mbox
  sndr = sndr
  Addr = {g1, g2, g3, g4, mbox, sndr}
  None = None
  NSearch = 2
  MaxRetries = 1
  StartTls = 1
  MaxFaults = 2
  MaxTries = 2
  Worlds <- MCWorlds
SPECIFICATION Spec
CHECK_DEADLOCK FALSE
INVARIANTS NoLeak NoneMissed
PROPERTIES UnknownIsReal
