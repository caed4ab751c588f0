SPECIFICATION ReceiptsSpec
CONSTANTS
  f1 = f1
  f2 = f2
  ann = ann
  bob = bob
  r1 = r1
  r2 = r2
  in = in
  jp = jp
  File = {f1, f2}
  User = {ann, bob}
  Owner <- BothAnns
  Concurrency = 2
  PerUser = 1
  Delays = 1
  Parts = 1
  CutSplits = FALSE
  ClockInTick = FALSE
  MaxRestarts = 1
  Receipt = {r1, r2}
  Shared = {r1}
  MaxTyped = 1
  MaxJobs = 1
  MaxTroubles = 1
  Country = {in, jp}
  Admin = {ann}
  LastDay = 4
  Rate <- Rates
  Share = {50}
  PerKm = {5850}
  Km = {1500, 1600}
  MaxDays = 3
  MaxKm = 1500
  MaxRateChanges = 1
  MaxPolicyChanges = 1
  MaxCaseChanges = 1
  MaxAdded = 2
CHECK_DEADLOCK FALSE
SYMMETRY Symmetric
INVARIANTS QueueHolds NoRowLeftReading AwakeWhileWaiting ReviewHolds AllowancesHold PaidByRates
PROPERTY TypedStays
