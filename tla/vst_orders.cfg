SPECIFICATION Spec
CONSTANTS
  Ids = {i1, i2}
  Callers = {c1, c2}
  Connect = connect
  i1 = i1
  i2 = i2
  c1 = c1
  c2 = c2
  Budgets <- MCBudgets
INVARIANTS
  TypeOK
  ExecutedAccounted
PROPERTIES
  WritesAhead
  TurnsCome
CHECK_DEADLOCK FALSE
