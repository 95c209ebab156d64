SPECIFICATION FairSpec
CONSTANTS
  s1 = s1
  t1 = t1
  t2 = t2
  Sensors = {s1}
  Tasks = {t1, t2}
  AlarmReadings = 1
  MaxAutoRestarts = 1
  MaxOverruns = 0
  MaxCrashes = 0
  MaxFaults = 1
PROPERTIES
  AlarmEnds
