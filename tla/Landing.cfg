SPECIFICATION Spec
CONSTANTS
  v1 = v1
  v2 = v2
  e1 = e1
  e2 = e2
  Visitors = {v1, v2}
  Emails = {e1, e2}
  MaxAccounts = 3
  MaxSubmits = 3
  MaxMishaps = 1
INVARIANTS
  NoOrphans
  GrantedIsLasting
  LeadsMatchUsers
SYMMETRY Symmetry
CHECK_DEADLOCK FALSE
