SPECIFICATION MigrationSpec
CONSTANTS
  MaxPlaced = 2
  MaxCrashes = 0
  NoFile = NoFile
PROPERTY RemovedOnlyMigrated
