CONSTANTS
  t1 = t1
  t2 = t2
  t3 = t3
  Threads = {t1, t2, t3}
  MaxChanges = 3
  Sizes = {1, 2}
  Kinds = {"write", "zero"}
  OneSync = TRUE
  SyncOnClose = TRUE
SPECIFICATION Spec
SYMMETRY Symmetry
CHECK_DEADLOCK FALSE
INVARIANTS
  SyncCoversWrites
  CloseCoversWrites
  CountNeverWraps
