SPECIFICATION SpecPage
CONSTANTS
  m1 = m1
  m2 = m2
  s1 = s1
  s2 = s2
  Motors = {m1, m2}
  Slots = {s1, s2}
  Hundredth = 1
  Scaled <- MCScaled
  Rated <- MCRated
  Standard0 <- MCStandard
  Default <- MCDefault
  ThresholdDtos <- MCThresholdDtos
  ParamDtos <- MCParamDtos
  MaxRequests = 2
  MaxCrashes = 1
INVARIANTS
  ThresholdsInForce
  ThresholdsOrdered
  SettingsInForce
  PageFollows
SYMMETRY SlotSymmetry
CHECK_DEADLOCK FALSE
