SPECIFICATION Spec
CONSTANTS
  ann = ann
  bob = bob
  NoUser = NoUser
  User = {ann, bob}
  MaxJobs = 2
  MaxAttempts = 2
  MaxQueuedPerUser = 2
  MaxRunning = 1
  MaxImportRestarts = 1
  line1 = line1
  line2 = line2
  priced1 = priced1
  priced2 = priced2
  request1 = request1
  read1 = read1
  key1 = key1
  fast = fast
  slow = slow
  Unpriced = {line1, line2, priced1, priced2}
  Priceable = {priced1, priced2}
  Arriving = {priced2}
  Batch = 1
  MaxRestarts = 1
  Asker = {request1}
  Reading = {read1}
  Keys <- OneKey
  Models <- TwoModels
  PerMinute = 1
  MaxConcurrent = 2
  MaxVersion = 2
  MaxFaults = 2
  MaxHides = 1
INVARIANTS
  ImportsHold
PROPERTIES
  EndedStaysEnded
  EverythingEnds
  CatchesUp
CHECK_DEADLOCK FALSE
