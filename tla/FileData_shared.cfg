CONSTANTS
  t1 = t1
  t2 = t2
  Threads = {t1, t2}
  Capacity = 3
  MaxBuffers = 3
  IovMax = 2
SPECIFICATION DataSpec
SYMMETRY Symmetry
INVARIANTS
  DataTypeOK
  BuffersLand
  AppendsApart
  ExtentsHonest

