SPECIFICATION FilesSpec
CONSTANTS
  Receipt = {r1}
  Case = {c1}
  NoCase = NoCase
  Rate = {x1}
  OwnRate = {x1}
  Covers = {"title"}
  NoCover = NoCover
  Days = {1, 2}
  NoRate = NoRate
  Background = {"upload", "rereadReading"}
  MaxNumber = 1
  MaxWaiting = 1
  Attempt = {a1, a2}
  Setting = {"loaded"}
  SlowPosts = TRUE
  MaxBills = 2
  Layout <- Layouts
  TogetherMax = 2
  DrawnMax = 3
  TextMax = 3
  BatchSize = 2
  Seen <- OnImages
  Documents <- OnPages
  NoShop = "none"
  MaxRereads = 1
  Reply <- Replies
  FitStep = 2
  OneUnit = 10
  GstRate = 9
  Bundle <- Bundles
  ReadOf <- ReadAs
  HeaderHits = 3
  HeaderRows = 4
  MaxReceipts = 2
  Invented = "party"
  Paper = {"p1", "p2"}
  Person = {"owner", "admin"}
  claimant = "owner"
  RunGap = 3
  PairGap = 1
  Edits <- OwnEdits
  Start <- StartPlaces
  Lapse = {2, 4}
  MaxDeeds = 4
  PageSize = {1, 2}
INVARIANTS SameCaseSameBill FilesHold ReadingsHold
PROPERTIES BillKept MarkerNeverStuck
CHECK_DEADLOCK FALSE
