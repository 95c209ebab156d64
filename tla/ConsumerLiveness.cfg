SPECIFICATION FairConsumerSpec
CONSTANTS
  s1 = s1
  t1 = t1
  Sensors = {s1}
  Tasks = {t1}
  AlarmReadings = 1
  MaxAutoRestarts = 1
  MaxOverruns = 0
  MaxCrashes = 1
  MaxFaults = 0
  Stalls = FALSE
  OperatorActs = TRUE
PROPERTIES
  RestartConcludes
  TelemetryRestoresHealth
