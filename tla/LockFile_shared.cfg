CONSTANTS
  None = None
  p1 = p1
  p2 = p2
  s1 = s1
  s2 = s2
  Processes = {p1, p2}
  Slots = {s1, s2}
  Handle <- TwoAndOne
  Actuals = {a1, a2}
  Inodes = {i1, i2, i3}
  MaxOpens = 1
SPECIFICATION FairSpec

  
INVARIANTS
  Exclusion
  InUseStays
