SPECIFICATION CasesSpec
CONSTANTS
  Receipt = {r1, r2}
  Case = {c1, c2}
  NoCase = NoCase
  Rate = {x0, x1}
  OwnRate = {x0}
  Covers = {"title"}
  NoCover = NoCover
  Days = {1}
  NoRate = NoRate
  Background = {"upload", "edit", "price", "reread"}
  MaxNumber = 2
  MaxWaiting = 2
  meg = meg
  ned = ned
  trip1 = trip1
  pdf1 = pdf1
  photo1 = photo1
  heic1 = heic1
  logo1 = logo1
  letter1 = letter1
  letter2 = letter2
  mail1 = mail1
  mail2 = mail2
  zip1 = zip1
  form1 = form1
  Recipient = {meg, ned}
  MailCase = {trip1}
  OwnerOf <- Trips
  Mail = {mail1, mail2}
  Archive = {zip1, form1}
  What <- Contents
  Post = {1, 2}
  Nobody = Nobody
  Zones = {"sg", "uk"}
  DailyLimit = 1
  MaxFiles = 2
  Quota = 2
  MaxPosts = 3
  MaxMailChanges = 1
SYMMETRY Symmetric
CHECK_DEADLOCK FALSE
INVARIANTS CasesHold ClaimedChecked MailHolds NothingUnsaid
PROPERTY ClaimedCaseFrozen
