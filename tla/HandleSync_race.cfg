CONSTANTS
  t1 = t1
  t2 = t2
  t3 = t3
  Threads = {t1, t2}
  MaxChanges = 2
  Sizes = {1}
  Kinds = {"write"}
  OneSync = FALSE
  SyncOnClose = TRUE
SPECIFICATION Spec
SYMMETRY Symmetry
CHECK_DEADLOCK FALSE
INVARIANT SyncCovers
