SPECIFICATION Spec
CONSTANTS
  b1 = b1
  b2 = b2
  s1 = s1
  s2 = s2
  Browsers = {b1, b2}
  Slots = {s1, s2}
  Links = {1}
  MaxTokens = 3
  MaxResets = 1
  MaxMishaps = 1
INVARIANTS
  SessionsMatchCookies
  ReuseHasACause
  ResetEndsSessions
  SocketFollowsUser
SYMMETRY Symmetry
CHECK_DEADLOCK FALSE
