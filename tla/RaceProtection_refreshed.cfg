CONSTANTS
  None = None
  Expired = Expired
  d1 = d1
  d2 = d2
  p1 = p1
  p2 = p2
  h1 = h1
  h2 = h2
  l1 = l1
  l2 = l2
  Mine = Mine
  Dirs = {d1, d2}
  Paths = {p1, p2}
  DirHandles = {h1, h2}
  Threads = {t1}
  Worker = t1
  Leaves = {l1, l2}
  Others = {other}
  Refreshers = {r1}
  MaxTries = 2
  MaxRenames = 2
  Alone = FALSE
SPECIFICATION RaceSpec
SYMMETRY Symmetry
INVARIANTS
  RaceFree

