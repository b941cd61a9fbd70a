\* Three changes, overtaking replies and three failures.
CONSTANTS
  PipelineThreads = {"worker", "cron", "loop"}
  MaxChanges = 3
  MaxInFlight = 2
  MaxFailures = 3
  MaxDelay = 3
SPECIFICATION Spec
INVARIANTS
  TypeOK
PROPERTIES
  PageSettles
