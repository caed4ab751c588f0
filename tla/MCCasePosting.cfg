SPECIFICATION PostSpec
CONSTANTS
  Receipt = {r1, r2}
  Case = {c1}
  NoCase = NoCase
  Rate = {x1, x2}
  OwnRate = {x1, x2}
  Covers = {"title", "other"}
  NoCover = NoCover
  Days = {1}
  NoRate = NoRate
  Background = {"upload"}
  MaxNumber = 1
  MaxWaiting = 1
  Attempt = {a1, a2}
  Setting = {"loaded"}
  SlowPosts = FALSE
  MaxBills = 2
SYMMETRY Symmetric
CHECK_DEADLOCK FALSE
INVARIANTS PostsHold BillSaysCase
PROPERTY RegisterSpec
