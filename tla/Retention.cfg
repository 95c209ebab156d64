SPECIFICATION FairRetention
CONSTANTS
  MaxBuffer = 2
  MaxReadings = 2
  MaxFailures = 1
  MaxCrashes = 1
  Sensors = {1, 2}
  RetentionHours = 1
  MaxHour = 2
INVARIANTS
  NothingForgotten
  StoredWithoutGaps
  AggregatesAreExact
  PurgedAreAggregated
PROPERTIES
  EventuallyStored
CHECK_DEADLOCK FALSE
