SPECIFICATION Spec
CONSTANTS
  s1 = s1
  t1 = t1
  t2 = t2
  Sensors = {s1}
  Tasks = {t1, t2}
  AlarmReadings = 1
  MaxAutoRestarts = 1
  MaxOverruns = 1
  MaxCrashes = 1
  MaxFaults = 1
INVARIANTS
  EvaluationMutex
  RestartBudget
  WritesAgree
  AlarmIsCovered
PROPERTIES
  LifecycleSteps
SYMMETRY Symmetry
