\* One change by a background task of the deployed server; nothing fails.
CONSTANTS
  PipelineThreads = {"worker"}
  MaxChanges = 1
  MaxInFlight = 2
  MaxFailures = 0
  MaxDelay = 3
SPECIFICATION Spec
PROPERTIES
  StreamHearsOfChanges
