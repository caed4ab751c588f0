SPECIFICATION FilingSpec
CONSTANTS
  f1 = f1
  f2 = f2
  File = {f1, f2}
  MaxAttempts = 1
  Uploads = {}
  FilesEarly = TRUE
PROPERTY
  ClaimedCaseKeepsReceipts
CHECK_DEADLOCK FALSE
