CONSTANTS
  w1 = w1
  w2 = w2
  c1 = c1
  c2 = c2
  Workers = {w1, w2}
  Clients = {c1, c2}
  MaxOps = 2
  Kinds = {"io", "user"}
SPECIFICATION FairSpec
INVARIANTS
  HeldOnce
  PreconditionForgotten
  ErrorsPropagate
  NeverFatal
PROPERTIES
  ReleasedAfterFilters
  FuturesBecomeReady
  ImplementsFairAbstractOps
