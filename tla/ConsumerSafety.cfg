SPECIFICATION ConsumerSpec
CONSTANTS
  s1 = s1
  t1 = t1
  t2 = t2
  Sensors = {s1}
  Tasks = {t1, t2}
  AlarmReadings = 1
  MaxAutoRestarts = 0
  MaxOverruns = 0
  MaxCrashes = 0
  MaxFaults = 1
  Stalls = TRUE
  OperatorActs = FALSE
INVARIANTS
  WatchedUnlessOffline
PROPERTIES
  HealthNeedsTelemetry
SYMMETRY SlotSymmetry
