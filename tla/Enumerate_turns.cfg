CONSTANTS
  Users = {u1, u2}
  Places = 3
  Full = 2
  MaxItems = 2
  MaxChanges = 2
  Overlap = FALSE
SPECIFICATION FairEnumSpec
INVARIANTS
  EnumTypeOK
  EnumeratesAll
PROPERTY LoopEnds
