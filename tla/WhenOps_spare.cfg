CONSTANTS
  None = None
  Workers = {w1, w2}
  Ops = {o1, o2}
  Calls = {a, b}
  MaxWaiting = 1
SPECIFICATION FairWhenSpec
CHECK_DEADLOCK FALSE
INVARIANTS
  SetOnce
  AllTells
PROPERTY AnswersCome
