SPECIFICATION Spec
CONSTANTS
  file1 = file1
  file2 = file2
  org1 = org1
  org2 = org2
  admin = admin
  ann = ann
  bob = bob
  home = home
  away = away
  receipt = receipt
  somebody = somebody
  request1 = request1
  read1 = read1
  read2 = read2
  key1 = key1
  fast = fast
  slow = slow
  File = {file1, file2}
  MaxAttempts = 2
  Uploads = {file1}
  FilesEarly = FALSE
  Tenant = {org1, org2}
  Admin = {admin}
  MaxIssued = 2
  MaxCalls = 2
  Person = {ann, bob}
  MaxPasswords = 2
  MaxVersion = 1
  MaxHashing = 2
  Address = {home, away}
  LockAfter = 2
  SpreadAfter = 3
  MaxAtOnce = 2
  FxReceipt = {receipt}
  Somebody = {somebody}
  Figure = {2, 5}
  BoardSource = "ecb"
  MaxDay = 2
  MaxAnswers = 2
  Asker = {request1}
  Reading = {read1, read2}
  Keys <- OneKey
  Models <- TwoModels
  PerMinute = 1
  MaxConcurrent = 2
  DefaultBoard <- Defaults
  BoardMax = 2
  OldBoard <- OldBoards
  MaxStops = 2
INVARIANTS
  FilingHolds
  XeroHolds
  AccountsHold
  LockHolds
  FxHolds
  PoolHolds
  MigrationHolds
PROPERTIES
  NothingElseTaken
  PricedAsTheDaySays
CHECK_DEADLOCK FALSE
