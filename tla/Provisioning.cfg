SPECIFICATION FairSpec
CONSTANTS
  Builtin = 1
  MaxMotors = 3
  Slots = {1, 2}
  MaxRequests = 3
  MaxMishaps = 2
INVARIANTS
  InStep
  AddIsNotForgotten
  RestartKeepsMotors
PROPERTIES
  RetainedIsServed
CHECK_DEADLOCK FALSE
