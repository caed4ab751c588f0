SPECIFICATION Spec
CONSTANTS
  phone = phone
  photo1 = photo1
  photo2 = photo2
  Phone = {phone}
  Photo = {photo1, photo2}
  MaxUses = 1
  MaxLivePerUser = 1
  MaxCodes = 2
  MaxTries = 2
  MaxStoring = 2
  WidenDays = 1
  MaxDay = 3
  Day = {1, 3}
  MaxMoves = 1
  MaxChanges = 2
  folio = folio
  zip = zip
  Receipt = {folio}
  Container = {zip}
  Inside <- Zipped
  Slots = 1
  MaxSends <- Sends
  me = me
  her = her
  Line = {me, her}
  Own = me
  Others = {her}
  Read <- Printouts
  Amount = {0, 5}
  Total = {0, 3, 7}
  Step = 1
  Unit = 1
  MaxRows = 4
  MaxEdits = 2
  card1 = card1
  talk1 = talk1
  Card = {card1}
  Conversation = {talk1}
  PerHour = 2
  MaxRounds = 2
  MaxProposals = 1
INVARIANTS
  CaptureHolds
  CoverHolds
  UploadsHold
  RecordHolds
  AssistantHolds
PROPERTIES
  ShownStays
CHECK_DEADLOCK FALSE
