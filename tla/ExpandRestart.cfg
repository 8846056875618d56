CONSTANTS
  Id = {r, a, b, c, d}
  r = r
  a = a
  b = b
  c = c
  d = d
  Root = r
  None = None
  Tree <- Trees
  MaxCrashes = 2
SPECIFICATION FairSpec
INVARIANTS NoLoss OneHolder DeliveredOnceExpanded AssertsHold
PROPERTIES Settles
