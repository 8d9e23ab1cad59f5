SPECIFICATION Spec
CHECK_DEADLOCK FALSE
CONSTANTS
  Series <- MCSeries
  Batch = 1
  PageSize = 1
  Filters = {"open"}
  MaxRows = 2
  MaxAlerts = 3
  MaxCrashes = 1
INVARIANTS
  SchemaMatchesVersion
  PagesComplete
PROPERTIES
  RetentionExact
