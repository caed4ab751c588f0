SPECIFICATION ImportSpec
CONSTANTS
  ann = ann
  bob = bob
  NoUser = NoUser
  User = {ann}
  MaxJobs = 1
  MaxAttempts = 2
  MaxQueuedPerUser = 2
  MaxRunning = 1
  MaxImportRestarts = 2
PROPERTY
  PoisonedIsSetAside
CHECK_DEADLOCK FALSE
