SPECIFICATION Spec
CONSTANTS
  Cap = 2
  Base = 5
  Start = 9
  Step = 1
  Retention = 1
  MaxTime = 11
  MaxRecords = 2
  MaxFailures = 0
  MaxRestarts = 1
INVARIANT KeptOnDisk
