SPECIFICATION Spec
CONSTANTS
  Cap = 2
  Base = 5
  Start = 5
  Step = 1
  Retention = 1
  MaxTime = 8
  MaxRecords = 2
  MaxFailures = 0
  MaxRestarts = 1
INVARIANT CleanUpReachesDisk
