SPECIFICATION PostSpec
CONSTANTS
  Receipt = {r1}
  Case = {c1}
  NoCase = NoCase
  Rate = {x1, x2}
  OwnRate = {}
  Covers = {"title"}
  NoCover = NoCover
  Days = {1}
  NoRate = NoRate
  Background = {"upload", "price"}
  MaxNumber = 1
  MaxWaiting = 1
  Attempt = {a1}
  Setting = {"loaded"}
  SlowPosts = FALSE
  MaxBills = 2
CHECK_DEADLOCK FALSE
INVARIANT BillSaysCase
