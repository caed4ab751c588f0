------------------------------- MODULE Cases -------------------------------
(***************************************************************************)
(* Receipts, the cases they are filed in, and who may change what when:    *)
(* reports/workflow.js, store/reports.js, receipts/edit.js, fx/apply.js    *)
(* and the routes that call them.                                          *)
(*                                                                         *)
(* The program is one process.  A handler runs alone between two awaits,   *)
(* so an action is the stretch of a handler up to its next await, and      *)
(* `waiting' holds the handlers that are at one: a file being converted, a *)
(* rate being fetched, a receipt being read again.  What they do when they *)
(* go on is the action that takes them out of `waiting'.                   *)
(*                                                                         *)
(* Of a receipt's details only two things are kept: the base-currency      *)
(* figure its lines come to (`base', NoRate while a line has none), which  *)
(* stands for everything a bill would say of it, and whether its lines add *)
(* up to its total (`adds', FALSE while it has no lines at all).  A figure *)
(* also tells whether the receipt is in the company's own currency         *)
(* (OwnRate): one that is has its rate at once, of 1, and waits for none.  *)
(* Of a case's cover, what a bill says of it: its title or purpose and the *)
(* advance (`cover'), and the day it was claimed.                          *)
(***************************************************************************)
EXTENDS Naturals, FiniteSets

CONSTANTS
  Receipt,     \* ids an expense row may get; an id is never used again
  Case,        \* ids an expense_reports row may get; never used again either
  NoCase,      \* report_id NULL: the receipt is in no case
  Rate,        \* base figures a receipt can be priced at
  OwnRate,     \* those of a receipt in the company's own currency
  NoRate,      \* no figure: a line without a rate
  Covers,      \* what a cover may say on a bill
  NoCover,     \* the cover of a case that was never there
  Days,        \* the days, where the company is, a case may be claimed on
  Background,  \* the kinds of handler that wait at an await in this instance
  MaxNumber,   \* bound: how many case numbers are given out
  MaxWaiting   \* bound: a new handler starts only while fewer are waiting

\* upload: routes/receipts.js storeReceipt, converting the file
\* edit:   receipts/edit.js, whose applyFx waits for a rate
\* price:  an applyFx or overrideFx on its own: a refresh, a typed rate, the
\*         sweeper, the daily close, a reopened case priced again
\* reread: routes/expenses.js, waiting for the reader
\* rereadReading: the same, asked of a row that is still being read
\* Without "edit" and "price" every receipt is in the company's own currency
\* (Rate = OwnRate), where applyFx asks nobody and ends where it starts.
Kinds == {"upload", "edit", "price", "reread", "rereadReading"}

ASSUME CasesAssumption ==
  /\ NoCase \notin Case
  /\ NoRate \notin Rate
  /\ OwnRate \subseteq Rate
  /\ "price" \in Background \/ Rate = OwnRate
  /\ NoCover \notin Covers
  /\ Days \subseteq Nat \ {0}
  /\ Background \subseteq Kinds
  /\ MaxNumber \in Nat
  /\ MaxWaiting \in Nat

VARIABLES
  caseStatus,     \* expense_reports.status; "absent" before, "deleted" after
  number,         \* the case's number, 0 while it has none
  nextReportNo,   \* companies.next_report_no
  xeroError,      \* whether xero_error holds the posting marker, and its age
  xeroInvoiceId,  \* the bill recorded on the case, 0 when none
  cover,          \* its title, purpose and advance
  claimDay,       \* the day of expense_reports.claimed_at, 0 when not set
  expStatus,      \* expenses.status; "absent" before, "deleted" after
  reportId,       \* the case the receipt is in
  claimedAt,      \* whether claimed_at is set
  base, adds,     \* see above
  waiting         \* the handlers at an await

caseVars == <<caseStatus, number, nextReportNo, xeroError, xeroInvoiceId, cover, claimDay>>
expVars  == <<expStatus, reportId, claimedAt, base, adds>>
vars     == <<caseVars, expVars, waiting>>

CaseStatus == {"absent", "draft", "open", "claimed", "deleted"}
ExpStatus  == {"absent", "reading", "review-needed", "reviewed", "duplicate", "deleted"}
Marker     == {"none", "posting", "stale"}
Figure     == Rate \cup {NoRate}
Handler    == [kind : Background, expense : Receipt, into : Case \cup {NoCase}]

TypeOK ==
  /\ caseStatus \in [Case -> CaseStatus]
  /\ number \in [Case -> Nat]
  /\ nextReportNo \in Nat \ {0}
  /\ xeroError \in [Case -> Marker]
  /\ xeroInvoiceId \in [Case -> Nat]
  /\ cover \in [Case -> Covers \cup {NoCover}]
  /\ claimDay \in [Case -> Days \cup {0}]
  /\ expStatus \in [Receipt -> ExpStatus]
  /\ reportId \in [Receipt -> Case \cup {NoCase}]
  /\ claimedAt \in [Receipt -> BOOLEAN]
  /\ base \in [Receipt -> Figure]
  /\ adds \in [Receipt -> BOOLEAN]
  /\ waiting \subseteq Handler

Init ==
  /\ caseStatus = [c \in Case |-> "absent"]
  /\ number = [c \in Case |-> 0]
  /\ nextReportNo = 1
  /\ xeroError = [c \in Case |-> "none"]
  /\ xeroInvoiceId = [c \in Case |-> 0]
  /\ cover = [c \in Case |-> NoCover]
  /\ claimDay = [c \in Case |-> 0]
  /\ expStatus = [r \in Receipt |-> "absent"]
  /\ reportId = [r \in Receipt |-> NoCase]
  /\ claimedAt = [r \in Receipt |-> FALSE]
  /\ base = [r \in Receipt |-> NoRate]
  /\ adds = [r \in Receipt |-> FALSE]
  /\ waiting = {}

-----------------------------------------------------------------------------
(* Who may change what.                                                    *)

Exists(r)   == expStatus[r] \notin {"absent", "deleted"}
Editable(c) == caseStatus[c] \in {"draft", "open"}
Members(c)  == {r \in Receipt : reportId[r] = c}

\* mutant: a marker counts however old it is.
IsMarked(c) == xeroError[c] # "none"

\* A fresh marker: one older than POST_STALE_MS is "stale" and does not count.
IsPosting(c) == xeroError[c] = "posting"

IsLocked(r)  == reportId[r] \in Case /\ ~Editable(reportId[r])
InPosting(r) == reportId[r] \in Case /\ IsPosting(reportId[r])
IsPosted(r)  == reportId[r] \in Case /\ xeroInvoiceId[reportId[r]] # 0

\* mutant: details may be corrected while the bill is on its way.
DetailsOpenWhilePosting(r) ==
  \/ ~Exists(r)
  \/ IsPosted(r)
  \/ expStatus[r] \in {"duplicate", "reading"}

\* Details: anybody who may see the receipt, claimed or not, until it is posted.
DetailsBlocked(r) ==
  \/ ~Exists(r)
  \/ IsPosted(r)
  \/ InPosting(r)
  \/ expStatus[r] \in {"duplicate", "reading"}

\* Actions: the owner's, while the case is open.
ActionBlocked(r) == ~Exists(r) \/ IsLocked(r)

Priced(r) == base[r] # NoRate

\* In a currency whose rate is waited for: not the company's own.
Foreign(r) == base[r] \notin OwnRate

\* Every write to a case's row through setState, _saveCover or mergeInto sets
\* updated_at, which is also the age of a posting marker left on the row.
Touched(c) == [xeroError EXCEPT ![c] = IF @ = "stale" THEN "posting" ELSE @]

\* A handler goes to wait; and the receipts an applyFx now waits for.
Waits(kind, r, c) ==
  /\ kind \in Background
  /\ Cardinality(waiting) < MaxWaiting
  /\ waiting' = waiting \cup {[kind |-> kind, expense |-> r, into |-> c]}

Pricing(S) ==
  IF "price" \in Background
  THEN {[kind |-> "price", expense |-> r, into |-> NoCase] : r \in S}
  ELSE {}

\* Rows removed: their case, claim and lines go with them.
Remove(S) ==
  /\ expStatus' = [r \in Receipt |-> IF r \in S THEN "deleted" ELSE expStatus[r]]
  /\ reportId'  = [r \in Receipt |-> IF r \in S THEN NoCase ELSE reportId[r]]
  /\ claimedAt' = [r \in Receipt |-> r \notin S /\ claimedAt[r]]
  /\ base' = [r \in Receipt |-> IF r \in S THEN NoRate ELSE base[r]]
  /\ adds' = [r \in Receipt |-> r \notin S /\ adds[r]]

-----------------------------------------------------------------------------
(* Cases.                                                                  *)

NextNumber(c) ==
  /\ nextReportNo <= MaxNumber
  /\ number' = [number EXCEPT ![c] = nextReportNo]
  /\ nextReportNo' = nextReportNo + 1

\* _saveCover, and a new row's own cover.
SaveCover(c) == \E v \in Covers : cover' = [cover EXCEPT ![c] = v]

CreateCase(c) ==
  /\ caseStatus[c] = "absent"
  /\ caseStatus' = [caseStatus EXCEPT ![c] = "open"]
  /\ NextNumber(c)
  /\ SaveCover(c)
  /\ UNCHANGED <<xeroError, xeroInvoiceId, claimDay, expVars, waiting>>

CreateDraft(c) ==
  /\ caseStatus[c] = "absent"
  /\ caseStatus' = [caseStatus EXCEPT ![c] = "draft"]
  /\ SaveCover(c)
  /\ UNCHANGED <<number, nextReportNo, xeroError, xeroInvoiceId, claimDay, expVars, waiting>>

OpenDraft(c) ==
  /\ caseStatus[c] = "draft"
  /\ caseStatus' = [caseStatus EXCEPT ![c] = "open"]
  /\ NextNumber(c)
  /\ SaveCover(c)
  /\ UNCHANGED <<xeroError, xeroInvoiceId, claimDay, expVars, waiting>>

\* By its owner, or by the AI that fills it: fields a bill shows, or others.
EditCover(c) ==
  /\ Editable(c)
  /\ SaveCover(c)
  /\ xeroError' = Touched(c)
  /\ UNCHANGED <<caseStatus, number, nextReportNo, xeroInvoiceId, claimDay, expVars, waiting>>

\* The receipts of a deleted case are left outside any case (ON DELETE SET NULL).
DeleteCase(c) ==
  /\ Editable(c)
  /\ caseStatus' = [caseStatus EXCEPT ![c] = "deleted"]
  /\ reportId' = [r \in Receipt |-> IF reportId[r] = c THEN NoCase ELSE reportId[r]]
  /\ UNCHANGED <<number, nextReportNo, xeroError, xeroInvoiceId, cover, claimDay, expStatus, claimedAt, base, adds, waiting>>

\* Discard on the New case page: a draft, with every receipt in it.
DiscardDraft(c) ==
  /\ caseStatus[c] = "draft"
  /\ caseStatus' = [caseStatus EXCEPT ![c] = "deleted"]
  /\ Remove(Members(c))
  /\ UNCHANGED <<number, nextReportNo, xeroError, xeroInvoiceId, cover, claimDay, waiting>>

\* mutant: only what was checked moves, the rest is left on the case that goes.
MergeCheckedOnly(c, d) ==
  /\ c # d /\ Editable(c) /\ Editable(d)
  /\ reportId' = [r \in Receipt |-> IF reportId[r] = c /\ expStatus[r] = "reviewed" THEN d ELSE reportId[r]]
  /\ caseStatus' = [caseStatus EXCEPT ![c] = "deleted"]
  /\ xeroError' = Touched(d)
  /\ UNCHANGED <<number, nextReportNo, xeroInvoiceId, cover, claimDay, expStatus, claimedAt, base, adds, waiting>>

MergeCases(c, d) ==
  /\ c # d /\ Editable(c) /\ Editable(d)
  /\ reportId' = [r \in Receipt |-> IF reportId[r] = c THEN d ELSE reportId[r]]
  /\ caseStatus' = [caseStatus EXCEPT ![c] = "deleted"]
  /\ xeroError' = Touched(d)
  /\ UNCHANGED <<number, nextReportNo, xeroInvoiceId, cover, claimDay, expStatus, claimedAt, base, adds, waiting>>

\* What a claim could have been made of: checked, priced, adding up, and not
\* put through on its own already.
Claimable(r) == expStatus[r] = "reviewed" /\ Priced(r) /\ adds[r] /\ ~claimedAt[r]

MarkClaimed(c) ==
  /\ caseStatus[c] = "open"
  /\ Members(c) # {}
  /\ \A r \in Members(c) : Claimable(r)
  /\ caseStatus' = [caseStatus EXCEPT ![c] = "claimed"]
  /\ claimedAt' = [r \in Receipt |-> reportId[r] = c \/ claimedAt[r]]
  /\ \E d \in Days : claimDay' = [claimDay EXCEPT ![c] = d]
  /\ xeroError' = Touched(c)
  /\ UNCHANGED <<number, nextReportNo, xeroInvoiceId, cover, expStatus, reportId, base, adds, waiting>>

\* mutant: reopened with a bill in Xero.
ReopenPosted(c) ==
  /\ caseStatus[c] = "claimed"
  /\ ~IsPosting(c)
  /\ caseStatus' = [caseStatus EXCEPT ![c] = "open"]
  /\ claimedAt' = [r \in Receipt |-> reportId[r] # c /\ claimedAt[r]]
  /\ claimDay' = [claimDay EXCEPT ![c] = 0]
  /\ xeroError' = Touched(c)
  /\ waiting' = waiting \cup Pricing({r \in Members(c) : Foreign(r)})
  /\ UNCHANGED <<number, nextReportNo, xeroInvoiceId, cover, expStatus, reportId, base, adds>>

\* Reopened, its receipts are priced again (routes/reports.js), and that work
\* goes on after the answer.
Reopen(c) ==
  /\ caseStatus[c] = "claimed"
  /\ xeroInvoiceId[c] = 0
  /\ ~IsPosting(c)
  /\ caseStatus' = [caseStatus EXCEPT ![c] = "open"]
  /\ claimedAt' = [r \in Receipt |-> reportId[r] # c /\ claimedAt[r]]
  /\ claimDay' = [claimDay EXCEPT ![c] = 0]
  /\ xeroError' = Touched(c)
  /\ waiting' = waiting \cup Pricing({r \in Members(c) : Foreign(r)})
  /\ UNCHANGED <<number, nextReportNo, xeroInvoiceId, cover, expStatus, reportId, base, adds>>

-----------------------------------------------------------------------------
(* Receipts arriving.                                                      *)

\* An id no row has, and none is about to be stored under.
Fresh(r) ==
  /\ expStatus[r] = "absent"
  /\ \A h \in waiting : h.kind = "upload" => h.expense # r

\* A new row, being read, in case c or in none.
NewRow(r, c) ==
  /\ expStatus[r] = "absent"
  /\ expStatus' = [expStatus EXCEPT ![r] = "reading"]
  /\ reportId' = [reportId EXCEPT ![r] = c]

CheckCase(c) == c = NoCase \/ (c \in Case /\ Editable(c))

Upload(r, c) ==
  /\ Fresh(r)
  /\ CheckCase(c)
  /\ Waits("upload", r, c)
  /\ UNCHANGED <<caseVars, expVars>>

\* Converting took a moment, and the case may have been claimed in it; the file
\* may also be refused for itself (no kind we take, over the quota, there already).
StoreReceipt(h) ==
  /\ h \in waiting /\ h.kind = "upload"
  /\ waiting' = waiting \ {h}
  /\ \/ /\ CheckCase(h.into)
        /\ NewRow(h.expense, h.into)
     \/ UNCHANGED <<expStatus, reportId>>
  /\ UNCHANGED <<caseVars, claimedAt, base, adds>>

\* Another receipt found in the file of r goes where r is, if that still takes
\* receipts; r may have moved on while its file was read.
Sibling(r, s) ==
  /\ Exists(r)
  /\ Fresh(s)
  /\ NewRow(s, IF IsLocked(r) THEN NoCase ELSE reportId[r])
  /\ UNCHANGED <<caseVars, claimedAt, base, adds, waiting>>

\* A first read lands only on a row still 'reading', and releases it however
\* it ended.
ReadEnds(r) ==
  /\ expStatus[r] = "reading"
  /\ expStatus' = [expStatus EXCEPT ![r] = "review-needed"]
  /\ \E b \in Figure, a \in BOOLEAN :
       /\ base' = [base EXCEPT ![r] = b]
       /\ adds' = [adds EXCEPT ![r] = a]
  /\ UNCHANGED <<caseVars, reportId, claimedAt, waiting>>

\* Try now, on a row nobody touched since its read failed.
RetryRead(r) ==
  /\ expStatus[r] = "review-needed" /\ ~Priced(r) /\ ~adds[r] /\ ~claimedAt[r]
  /\ expStatus' = [expStatus EXCEPT ![r] = "reading"]
  /\ UNCHANGED <<caseVars, reportId, claimedAt, base, adds, waiting>>

\* A per diem or a mileage line: checked from the start, and a per diem takes
\* the place of the one there was (`old', at most one).  In the company's own
\* currency it has its figure at once; otherwise it has none until its rate
\* has been waited for.
AddAllowance(r, c, old) ==
  /\ Editable(c)
  /\ Fresh(r)
  /\ old \subseteq Members(c) /\ Cardinality(old) <= 1
  /\ \E b \in OwnRate \cup (IF "price" \in Background THEN {NoRate} ELSE {}) :
       /\ waiting' = waiting \cup Pricing(IF b = NoRate THEN {r} ELSE {})
       /\ expStatus' = [s \in Receipt |-> IF s = r THEN "reviewed" ELSE IF s \in old THEN "deleted" ELSE expStatus[s]]
       /\ reportId' = [s \in Receipt |-> IF s = r THEN c ELSE IF s \in old THEN NoCase ELSE reportId[s]]
       /\ base' = [s \in Receipt |-> IF s = r THEN b ELSE IF s \in old THEN NoRate ELSE base[s]]
       /\ adds' = [s \in Receipt |-> s = r \/ (s \notin old /\ adds[s])]
  /\ claimedAt' = [s \in Receipt |-> s \notin old /\ claimedAt[s]]
  /\ UNCHANGED caseVars

-----------------------------------------------------------------------------
(* Details, by a person: until the case is in Xero.                        *)

\* mutant: whatever case it is in.
DemotedLockedToo(r, ok) ==
  [expStatus EXCEPT ![r] = IF @ = "reviewed" /\ ~ok THEN "review-needed" ELSE @]

\* A receipt whose lines stopped adding up is not checked any more; in a
\* claimed case it keeps its status.
Demoted(r, ok) ==
  [expStatus EXCEPT ![r] = IF @ = "reviewed" /\ ~ok /\ ~IsLocked(r) THEN "review-needed" ELSE @]

\* What an edit that waits for no rate leaves: a figure in the company's own
\* currency, or, where no amount, date or currency changed, the lines as they
\* were, saying something else.
SettledEdit(r, b, a) ==
  \/ b \in OwnRate
  \/ a = adds[r] /\ (b = base[r] \/ (Priced(r) /\ Foreign(r) /\ b \in Rate))

\* editDetails, editLines, editPrinted: the writes before the rate is asked for.
\* Lines made again lose their figure, lines that only follow the total keep it.
EditDetails(r) ==
  /\ ~DetailsBlocked(r)
  /\ \E b \in Figure, a \in BOOLEAN :
       /\ base' = [base EXCEPT ![r] = b]
       /\ adds' = [adds EXCEPT ![r] = a]
       /\ \/ /\ b = NoRate \/ (Priced(r) /\ b \notin OwnRate)
             /\ Waits("edit", r, NoCase) /\ UNCHANGED expStatus
          \/ SettledEdit(r, b, a) /\ expStatus' = Demoted(r, a) /\ UNCHANGED waiting
  /\ UNCHANGED <<caseVars, reportId, claimedAt>>

\* applyFx, after its await: whatever is on the lines now is priced, or loses
\* its price, with no second look at the case; a row gone meanwhile is nobody's,
\* and one put in the company's own currency is left alone.
Reprice(r) ==
  IF Exists(r) /\ Foreign(r)
  THEN \E b \in Figure \ OwnRate : base' = [base EXCEPT ![r] = b]
  ELSE UNCHANGED base

EditEnds(h) ==
  /\ h \in waiting /\ h.kind = "edit"
  /\ waiting' = waiting \ {h}
  /\ Reprice(h.expense)
  /\ expStatus' = Demoted(h.expense, adds[h.expense])
  /\ UNCHANGED <<caseVars, reportId, claimedAt, adds>>

\* setRate and refreshRate.
AskRate(r) ==
  /\ ~DetailsBlocked(r) /\ Foreign(r)
  /\ Waits("price", r, NoCase)
  /\ UNCHANGED <<caseVars, expVars>>

\* The sweeper (a line without a rate) and the close of a day (any line priced
\* that day and not claimed): asked of the receipts as they are listed.
SweepRate(r) ==
  /\ Exists(r) /\ Foreign(r) /\ expStatus[r] # "duplicate"
  /\ ~IsLocked(r)
  /\ ~Priced(r) \/ ~claimedAt[r]
  /\ Waits("price", r, NoCase)
  /\ UNCHANGED <<caseVars, expVars>>

PriceEnds(h) ==
  /\ h \in waiting /\ h.kind = "price"
  /\ waiting' = waiting \ {h}
  /\ Reprice(h.expense)
  /\ UNCHANGED <<caseVars, expStatus, reportId, claimedAt, adds>>

-----------------------------------------------------------------------------
(* Actions on a receipt: its owner's, while its case is open.              *)

Reread(r) ==
  /\ ~ActionBlocked(r)
  /\ Waits(IF expStatus[r] = "reading" THEN "rereadReading" ELSE "reread", r, NoCase)
  /\ UNCHANGED <<caseVars, expVars>>

\* The reader's second answer always lands, claimed since or not, and is
\* priced: at once in the company's own currency, and otherwise after a wait
\* with no figure; a row left 'reading' is released with it.  Or it found nothing, and
\* then the row is released if it was 'reading' when the re-read was asked for.
\* Or it failed.
RereadEnds(h) ==
  LET r == h.expense IN
  /\ h \in waiting /\ h.kind \in {"reread", "rereadReading"}
  /\ \/ /\ Exists(r)
        /\ \E b \in OwnRate \cup {NoRate}, a \in BOOLEAN :
             /\ base' = [base EXCEPT ![r] = b]
             /\ adds' = [adds EXCEPT ![r] = a]
             /\ waiting' = (waiting \ {h}) \cup Pricing(IF b = NoRate THEN {r} ELSE {})
        /\ expStatus' = [expStatus EXCEPT ![r] = IF @ = "reading" THEN "review-needed" ELSE @]
     \/ /\ h.kind = "rereadReading" /\ Exists(r)
        /\ expStatus' = [expStatus EXCEPT ![r] = "review-needed"]
        /\ waiting' = waiting \ {h}
        /\ UNCHANGED <<base, adds>>
     \/ /\ waiting' = waiting \ {h}
        /\ UNCHANGED <<base, adds, expStatus>>
  /\ UNCHANGED <<caseVars, reportId, claimedAt>>

Review(r) ==
  /\ ~ActionBlocked(r)
  /\ expStatus[r] \notin {"duplicate", "reading"}
  /\ adds[r]
  /\ expStatus' = [expStatus EXCEPT ![r] = "reviewed"]
  /\ UNCHANGED <<caseVars, reportId, claimedAt, base, adds, waiting>>

Unreview(r) ==
  /\ ~ActionBlocked(r)
  /\ expStatus[r] \notin {"duplicate", "reading"}
  /\ expStatus' = [expStatus EXCEPT ![r] = "review-needed"]
  /\ UNCHANGED <<caseVars, reportId, claimedAt, base, adds, waiting>>

\* Into a case, out of one (c = NoCase), or between two.
FileInCase(r, c) ==
  /\ ~ActionBlocked(r)
  /\ expStatus[r] # "duplicate"
  /\ c # reportId[r]
  /\ c \in Case => Editable(c) /\ ~(claimedAt[r] /\ reportId[r] = NoCase)
  /\ reportId' = [reportId EXCEPT ![r] = c]
  /\ UNCHANGED <<caseVars, expStatus, claimedAt, base, adds, waiting>>

MarkExpenseClaimed(r) ==
  /\ Exists(r) /\ ~IsLocked(r)
  /\ reportId[r] = NoCase
  /\ expStatus[r] = "reviewed" /\ Priced(r) /\ adds[r]
  /\ claimedAt' = [claimedAt EXCEPT ![r] = TRUE]
  /\ UNCHANGED <<caseVars, expStatus, reportId, base, adds, waiting>>

UnmarkExpenseClaimed(r) ==
  /\ Exists(r) /\ ~IsLocked(r)
  /\ claimedAt' = [claimedAt EXCEPT ![r] = FALSE]
  /\ waiting' = waiting \cup Pricing(IF Foreign(r) THEN {r} ELSE {})
  /\ UNCHANGED <<caseVars, expStatus, reportId, base, adds>>

\* mutant: deleted whatever its case is.
DeleteLockedToo(r) ==
  /\ Exists(r)
  /\ Remove({r})
  /\ UNCHANGED <<caseVars, waiting>>

DeleteExpense(r) ==
  /\ ~ActionBlocked(r)
  /\ Remove({r})
  /\ UNCHANGED <<caseVars, waiting>>

\* The parts of one split file made one receipt again: r stays, the others go.
MergeParts(r, parts) ==
  /\ ~ActionBlocked(r)
  /\ parts # {} /\ r \notin parts
  /\ \A s \in parts : Exists(s) /\ ~IsLocked(s) /\ reportId[s] = reportId[r]
  /\ Remove(parts)
  /\ UNCHANGED <<caseVars, waiting>>

\* The process stops and starts: what was at an await is gone, every row stays.
Restart ==
  /\ waiting' = {}
  /\ UNCHANGED <<caseVars, expVars>>

-----------------------------------------------------------------------------
CaseStep ==
  \E c \in Case :
    \/ CreateCase(c)
    \/ CreateDraft(c)
    \/ OpenDraft(c)
    \/ EditCover(c)
    \/ DeleteCase(c)
    \/ DiscardDraft(c)
    \/ \E d \in Case : MergeCases(c, d)
    \/ MarkClaimed(c)
    \/ Reopen(c)

ReceiptStep ==
  \E r \in Receipt :
    \/ \E c \in Case \cup {NoCase} : Upload(r, c)
    \/ \E s \in Receipt : Sibling(r, s)
    \/ ReadEnds(r)
    \/ RetryRead(r)
    \/ \E c \in Case, old \in SUBSET Receipt : AddAllowance(r, c, old)
    \/ EditDetails(r)
    \/ AskRate(r)
    \/ SweepRate(r)
    \/ Reread(r)
    \/ Review(r)
    \/ Unreview(r)
    \/ \E c \in Case \cup {NoCase} : FileInCase(r, c)
    \/ MarkExpenseClaimed(r)
    \/ UnmarkExpenseClaimed(r)
    \/ DeleteExpense(r)
    \/ \E parts \in SUBSET Receipt : MergeParts(r, parts)

HandlerStep ==
  \E h \in waiting :
    \/ StoreReceipt(h)
    \/ EditEnds(h)
    \/ PriceEnds(h)
    \/ RereadEnds(h)

Next == CaseStep \/ ReceiptStep \/ HandlerStep

Spec == Init /\ [][Next \/ Restart]_vars

-----------------------------------------------------------------------------
(* What makes the claims right.                                            *)

\* A claimed case holds receipts, and every one of them is claimed with it: the
\* case is all or nothing (workflow.js markClaimed), and no upload, sibling,
\* move, merge or delete leaves a receipt in it that is not.
ClaimedTogether ==
  \A c \in Case : caseStatus[c] = "claimed" =>
    /\ \E r \in Receipt : reportId[r] = c
    /\ \A r \in Receipt : reportId[r] = c => claimedAt[r]

\* And every one of them stays checked: "a claim with an unchecked receipt is
\* not a claim anybody could have made" (workflow.js markClaimed), and nothing
\* that ends later, an edit, a read or a re-read, may take the check away.
ClaimedChecked ==
  \A r \in Receipt :
    reportId[r] # NoCase /\ caseStatus[reportId[r]] = "claimed" => expStatus[r] = "reviewed"

\* A receipt sitting in a case that is not claimed is not claimed either: one
\* put through on its own is in no case, so it cannot be claimed a second time
\* with one (workflow.js markExpenseClaimed, edit.js fileInCase).
NeverClaimedTwice ==
  \A r \in Receipt : claimedAt[r] /\ reportId[r] # NoCase => caseStatus[reportId[r]] = "claimed"

\* A receipt is only ever in a case that is there, and a row that is not there
\* is in none: deleting and merging cases leave nothing pointing at the old one.
NoDanglingReceipt ==
  \A r \in Receipt :
    /\ reportId[r] # NoCase => caseStatus[reportId[r]] \in {"draft", "open", "claimed"}
    /\ ~Exists(r) => reportId[r] = NoCase /\ ~claimedAt[r]

\* A case has a number exactly when it is more than a draft, and no two cases,
\* the deleted ones included, were ever given the same one (store/reports.js).
NumbersGivenOnce ==
  /\ \A c \in Case :
       /\ caseStatus[c] \in {"absent", "draft"} => number[c] = 0
       /\ caseStatus[c] \in {"open", "claimed"} => number[c] # 0
       /\ number[c] < nextReportNo
  /\ \A c, d \in Case : number[c] # 0 /\ number[c] = number[d] => c = d

\* While a case stays claimed, no receipt goes in or out of it, and the only
\* way out of being claimed is to be reopened, its receipts unclaimed with it.
ClaimedCaseFrozen ==
  [][\A c \in Case : caseStatus[c] = "claimed" =>
       \/ caseStatus'[c] = "claimed" /\ \A r \in Receipt : (reportId[r] = c) <=> (reportId'[r] = c)
       \/ /\ caseStatus'[c] = "open"
          /\ \A r \in Receipt : reportId[r] = c => reportId'[r] = c /\ ~claimedAt'[r]]_vars

\* Claims stay whole: a claimed case holds receipts, all claimed with it, nothing
\* is claimed twice, left on a case that is gone, or numbered twice, whatever
\* lands late (reports/workflow.js, store/reports.js).
CasesHold ==
  TypeOK /\ ClaimedTogether /\ NeverClaimedTwice /\ NoDanglingReceipt /\ NumbersGivenOnce
=============================================================================
