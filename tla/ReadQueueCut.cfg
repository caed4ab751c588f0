SPECIFICATION Spec
CONSTANTS
  f1 = f1
  f2 = f2
  ann = ann
  bob = bob
  File = {f1, f2}
  User = {ann, bob}
  Owner <- OneEach
  Concurrency = 1
  PerUser = 1
  Delays = 1
  Parts = 1
  CutSplits = TRUE
  ClockInTick = FALSE
  MaxRestarts = 1
CHECK_DEADLOCK FALSE
INVARIANT NoRowLeftReading
