-------------------------------- MODULE MCFiles --------------------------------
(* Posts that may outlive their marker (CasePosting), and what is made of a  *)
(* file (FileReading), of an answer (ReceiptReading), of an uploaded claim   *)
(* (ClaimReading) and of what was done to a case (CaseHistory), each on its  *)
(* own in one run: `part' says which.                                        *)
EXTENDS MCCasePosting, FileReading, ReceiptReading, ClaimReading, CaseHistory

(* Files: photos, scans short and long, typed pages among scanned ones, and a *)
(* document of one receipt.                                                   *)
Pages(n, typed, one) == [pages |-> n, typed |-> typed, one |-> one]
Layouts == {Photo, Pages(1, {}, FALSE), Pages(2, {}, FALSE), Pages(4, {}, FALSE), Pages(1, {1}, FALSE),
            Pages(2, {1, 2}, FALSE), Pages(2, {1, 2}, TRUE), Pages(4, {1, 2}, FALSE), Pages(4, {1}, FALSE)}
Saw(shop, total, no, box, of) == [shop |-> shop, total |-> total, no |-> no, box |-> box, pages |-> of]
OnImages == {Saw("A", TRUE, 0, "left", {}), Saw("B", TRUE, 0, "right", {}), Saw("B", FALSE, 0, "left", {}), Saw("none", FALSE, 0, "none", {})}
OnPages == {Saw("A", TRUE, 0, "none", {1}), Saw("B", TRUE, 1, "none", {2}), Saw("A", TRUE, 2, "none", {2}),
            Saw("A", TRUE, 0, "none", {}), Saw("A", TRUE, 0, "none", {1, 2})}

(* Answers: a dish of 10.00, then charges, taxes above, inside and of another *)
(* rate, discounts, payments and a total printed as rows.                     *)
Row(as, word, cents, rate, of, who) ==
  [said |-> as, word |-> word, cents |-> cents, rate |-> rate, included |-> FALSE, on |-> of, who |-> who]
Dish == Row("item", "goods", 1000, 0, 0, "own")
Pool == {
  Row("item", "goods", 500, 0, 0, "her"),     Row("item", "goods", 0, 0, 0, "own"),
  Row("tax", "service", 100, 10, 0, "own"),   Row("charge", "tip", 50, 0, 0, "own"),
  Row("tax", "tax", 110, 10, 0, "own"),       Row("tax", "tax", 110, 10, 1, "own"),
  Row("tax", "taxIncluded", 100, 10, 0, "own"), Row("tax", "tax", 1000, 10, 0, "own"),
  Row("discount", "goods", 100, 0, 1, "own"), Row("item", "rounding", -3, 0, 0, "own"),
  Row("item", "payment", 1210, 0, 0, "own"),  Row("item", "total", 1100, 0, 0, "own")}
Short == {<<Dish, p>> : p \in Pool} \cup {<<Dish, p, q>> : p \in Pool, q \in Pool}
Credit == <<Row("item", "goods", -100, 0, 0, "own")>>
Answers(rows, summaries, old) ==
  [rows : rows, total : {0, 1000, 1100, 1210}, summary : summaries, folio : BOOLEAN, legacy : {old}, gst : {TRUE}]
Replies ==
  Answers({<<Dish, p, q, r>> : p \in Pool, q \in Pool, r \in Pool}, {NoTax, 110}, FALSE)
  \cup Answers(Short \cup {Credit}, {NoTax, 110, 210}, FALSE) \cup Answers(Short, {NoTax}, TRUE)

(* Claims: a form of two lines or two forms of one, with a heading over two   *)
(* rows and a line that says "Total"; and archives up to and past the limit.  *)
Zipped(f, t) == [file |-> f, type |-> t]
fileA == Zipped("a", "fine")
fileB == Zipped("b", "fine")
fileC == Zipped("c", "fine")
ZipItems == {fileA, fileB, Zipped("a", "large"), Zipped("a", "torn"), Zipped("c", "junk"), Zipped("c", "other")}
Zips  == {<<>>} \cup {<<e>> : e \in ZipItems} \cup {<<d, e>> : d \in ZipItems, e \in ZipItems}
Cells(heads, numeric, date, no, amount, marker, word, category, claim) ==
  [heads |-> heads, text |-> word # "" \/ ~numeric, figure |-> numeric, described |-> word # "", date |-> date, no |-> no,
   amount |-> amount, marker |-> marker, word |-> word, category |-> category, isClaim |-> claim]
Title  == Cells(0, FALSE, NoDay, 0, Unstated, FALSE, "", NoCategory, FALSE)
Header == Cells(3, FALSE, NoDay, 0, Unstated, FALSE, "title", NoCategory, FALSE)
Below  == Cells(0, FALSE, NoDay, 0, Unstated, TRUE, "", NoCategory, FALSE)
Foot   == Below
Template == Cells(0, TRUE, NoDay, 0, 0, FALSE, "", NoCategory, FALSE)
Line(day, no, amount, word, marker, category) == Cells(0, TRUE, day, no, amount, marker, word, category, TRUE)
FormRows ==
  {Line(d, 1, a, "taxi", m, NoCategory) : d \in {2, 3}, a \in {Unstated, 1000, 1005}, m \in BOOLEAN} \cup
  {Line(2, 1, 1000, "", FALSE, NoCategory), Line(NoDay, 1, 1000, "meal", FALSE, "travel"),
   Line(NoDay, 0, 500, "meal", FALSE, NoCategory), Template, Foot}
Sheet(rs) == [rows |-> rs, categories |-> {"meals", "travel"}]
OneForm  == {<<Sheet(<<Title, Header, Below, x, y, Foot>>)>> : x \in FormRows, y \in FormRows}
TwoForms == {<<Sheet(<<Header, x, Foot>>), Sheet(<<Title, Header, Below, Below, y>>)>> : x \in FormRows, y \in FormRows}
Plain    == <<Sheet(<<Header, Line(2, 1, 1000, "taxi", FALSE, NoCategory), Foot>>)>>
Bundles ==
  {[archives |-> z, forms |-> f] : z \in {<< <<fileA, fileB>> >>, << <<fileA>>, <<fileA>> >>, << <<fileA, fileC>> >>}, f \in OneForm \cup TwoForms}
  \cup {[archives |-> <<y, z>>, forms |-> Plain] : y \in Zips, z \in Zips}
Read(date, total, word) == [date |-> date, total |-> total, word |-> word]
ReadAs == [a |-> <<Read(2, 1000, "meal")>>, b |-> <<Read(3, 1000, "taxi"), Read(2, 1005, "taxi")>>, c |-> <<>>]

(* A case's history: two receipts, one in the case and one in the other;       *)
(* corrected by their owner, or by an admin.                                   *)
StartPlaces == {("p1" :> "A") @@ ("p2" :> "B")}
OwnEdits    == {[by |-> "owner", turns |-> TRUE], [by |-> "admin", turns |-> FALSE]}

VARIABLE part

rest == <<fileVars, readingVars, claimReadingVars, historyVars>>

\* What does not run is about a photo, a credit note and no claim.
FileIdle ==
  /\ layout = Photo /\ reading = "new" /\ asks = <<>> /\ parts = <<>> /\ said = {} /\ heard = <<>>
  /\ reread = [row |-> 0, from |-> Ask("none", <<>>), nth |-> 0, times |-> 0]
ReadingIdle ==
  /\ reply = [rows |-> Credit, total |-> 0, summary |-> NoTax, folio |-> FALSE, legacy |-> FALSE, gst |-> TRUE]
  /\ stage = "answered" /\ listed = <<>> /\ charged = 0 /\ taxTotal = NoTax /\ figure = NoTax
ClaimIdle ==
  /\ bundle = [archives |-> << <<>> >>, forms |-> Plain] /\ doing = "unpacking"
  /\ entries = <<>> /\ skipped = {} /\ lines = <<>> /\ reads = <<>>
  /\ pairs = {} /\ answered = {} /\ suggested = {} /\ claimed = {}

HistoryIdle ==
  /\ status = "open" /\ inB = TRUE /\ checked = {} /\ place = [r \in Paper |-> "A"]
  /\ money = [r \in Paper |-> "SGD"] /\ log = <<>> /\ events = <<>> /\ clock = 0 /\ deeds = 0

FilesInit ==
  /\ PostInit
  /\ \/ part = "post"    /\ FileIdle /\ ReadingIdle /\ ClaimIdle /\ HistoryIdle
     \/ part = "file"    /\ FileInit /\ ReadingIdle /\ ClaimIdle /\ HistoryIdle
     \/ part = "receipt" /\ FileIdle /\ ReadingInit /\ ClaimIdle /\ HistoryIdle
     \/ part = "claim"   /\ FileIdle /\ ReadingIdle /\ ClaimReadingInit /\ HistoryIdle
     \/ part = "history" /\ FileIdle /\ ReadingIdle /\ ClaimIdle /\ HistoryInit

FilesNext ==
  /\ UNCHANGED part
  /\ \/ part = "post"    /\ PostNext         /\ UNCHANGED rest
     \/ part = "file"    /\ FileNext         /\ UNCHANGED <<allVars, readingVars, claimReadingVars, historyVars>>
     \/ part = "receipt" /\ ReadingNext      /\ UNCHANGED <<allVars, fileVars, claimReadingVars, historyVars>>
     \/ part = "claim"   /\ ClaimReadingNext /\ UNCHANGED <<allVars, fileVars, readingVars, historyVars>>
     \/ part = "history" /\ HistoryNext      /\ UNCHANGED <<allVars, fileVars, readingVars, claimReadingVars>>

\* What reading makes of an answer and of a claim, and what a case's history tells: nothing
\* is charged twice, dropped without a note or told twice.
ReadingsHold == RowsHold /\ ClaimReadHolds /\ HistoryHolds

FilesSpec == FilesInit /\ [][FilesNext]_<<part, allVars, rest>> /\ PostFairness
=============================================================================
