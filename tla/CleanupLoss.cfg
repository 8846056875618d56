CONSTANTS
  Id = {r, a, b, c, d}
  r = r
  a = a
  b = b
  c = c
  d = d
  Root = r
  None = None
  Tree <- TwoGroups
  MaxCrashes = 1
SPECIFICATION Spec
INVARIANTS NoLoss
