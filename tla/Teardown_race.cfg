CONSTANTS
  h1 = h1
  h2 = h2
  h3 = h3
  o1 = o1
  o2 = o2
  o3 = o3
  Nobody = Nobody
  NoOp = NoOp
  Handles = {h1, h2}
  Fds = {3}
  Ops = {o1, o2}
  MaxScheduled = 3
  MaxFails = 2
  MaxNaps = 0
SPECIFICATION TeardownSpec
INVARIANT
  FiltersOutlive
