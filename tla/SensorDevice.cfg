SPECIFICATION FairDevice
CONSTANTS
  t1 = t1
  c1 = c1
  v1 = v1
  v2 = v2
  None = None
  Tasks = {t1}
  Values = {v1, v2}
  StuckReadings = 2
  MaxCrashes = 1
  MaxFaults = 1
  MaxRestarts = 2
  StuckValue = v1
  Commands = {c1}
  MaxInbox = 1
INVARIANTS
  OneAutoRestart
  PendingIsUnanswered
PROPERTIES
  PersistentIsFinal
  FaultsRecoverWhileUp
  FaultIsNoticed
CHECK_DEADLOCK FALSE
