SPECIFICATION FairSpec
CONSTANTS
  s1 = s1
  s2 = s2
  t1 = t1
  Sensors = {s1, s2}
  Tasks = {t1}
  AlarmReadings = 2
  MaxAutoRestarts = 1
  MaxOverruns = 0
  MaxCrashes = 0
  MaxFaults = 0
PROPERTIES
  ImplementsLifecycle
