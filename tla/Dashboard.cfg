SPECIFICATION Spec
CONSTANTS
  t1 = t1
  t2 = t2
  u1 = u1
  u2 = u2
  Tasks = {t1, t2}
  Users = {u1, u2}
  MaxToasts = 2
  MaxAlerts = 2
  Budgets <- MCBudgets
INVARIANTS
  OneOpenPerType
  AcknowledgedOnce
  ShownOnce
  StoreFollows
SYMMETRY Symmetry
CHECK_DEADLOCK FALSE
