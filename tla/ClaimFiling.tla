------------------------------ MODULE ClaimFiling ------------------------------
(***************************************************************************)
(* The records one claim import makes, and what becomes of them: saved one *)
(* by one (claims/claim-record.js), taken back before the import runs      *)
(* again and when it is stopped or undone (claims/claim-undo.js), filed    *)
(* into a case when the last is saved (claims/claim-import.js _asCase).    *)
(* Each record waits for an exchange rate once it is there, and its owner  *)
(* may check it, file it, claim its case or delete it from then on.        *)
(*                                                                         *)
(* Of a file only its bytes matter: `File' is the set of distinct contents *)
(* in the archive, each of which becomes one record at every attempt.  A   *)
(* record is named by its file and the attempt that made it; attempt 0 is  *)
(* the same file uploaded by hand.                                         *)
(***************************************************************************)
EXTENDS Naturals, FiniteSets

CONSTANTS
  File,
  MaxAttempts,  \* MAX_ATTEMPTS of the queue
  Uploads,      \* bound: the files somebody also uploads by hand
  FilesEarly    \* whether the owner files records that are still being saved

ASSUME ClaimFilingAssumption ==
  /\ MaxAttempts \in Nat \ {0}
  /\ Uploads \subseteq File
  /\ FilesEarly \in BOOLEAN

Case   == {"started", "made", "own"}
NoCase == "none"
Id     == File \X (0..MaxAttempts)
NoId   == <<>>

VARIABLES
  status,      \* expenses.status; "pending" is a receipt row with no expense
  inCase,      \* expenses.report_id
  fileOf,      \* the record whose copy of the file the receipt row names
  onDisk,      \* the copies there are, by the record that stored them
  caseStatus,
  elders,      \* for each case, the records that were there before it
  startedFrom, \* job.reportId
  attempt,
  doing,       \* what the engine is at
  toSave,      \* the files the running attempt has still to save
  claimable    \* the ids it has kept for the case

rowVars  == <<status, inCase, fileOf, onDisk>>
caseVars == <<caseStatus, elders>>
jobVars  == <<startedFrom, attempt, doing, toSave, claimable>>
filingVars     == <<rowVars, caseVars, jobVars>>

Status == {"absent", "pending", "review-needed", "reviewed", "duplicate", "deleted"}

FilingTypeOK ==
  /\ status \in [Id -> Status]
  /\ inCase \in [Id -> Case \cup {NoCase}]
  /\ fileOf \in [Id -> Id \cup {NoId}]
  /\ onDisk \subseteq Id
  /\ caseStatus \in [Case -> {"absent", "open", "claimed", "deleted"}]
  /\ elders \in [Case -> SUBSET Id]
  /\ startedFrom \in {NoCase, "started"}
  /\ attempt \in 0..MaxAttempts
  /\ doing \in {"queued", "saving", "done", "stopped", "undone"}
  /\ toSave \subseteq File
  /\ claimable \subseteq Id

FilingInit ==
  /\ status = [r \in Id |-> "absent"]
  /\ inCase = [r \in Id |-> NoCase]
  /\ fileOf = [r \in Id |-> NoId]
  /\ onDisk = {}
  /\ startedFrom \in {NoCase, "started"}
  /\ caseStatus = [c \in Case |-> IF c = startedFrom THEN "open" ELSE "absent"]
  /\ elders = [c \in Case |-> {}]
  /\ attempt = 0
  /\ doing = "queued"
  /\ toSave = {}
  /\ claimable = {}

-----------------------------------------------------------------------------
HasRow(r)   == status[r] \notin {"absent", "deleted"}
Expense(r)  == HasRow(r) /\ status[r] # "pending"
Editable(c) == c \in Case /\ caseStatus[c] = "open"
IsLocked(r) == inCase[r] \in Case /\ ~Editable(inCase[r])
Import      == {r \in Id : r[2] > 0}
Members     == {r \in Import : Expense(r)}
\* mutant: only receipts somebody has checked are looked among.
TwinsChecked(r) == {s \in Id : s[1] = r[1] /\ s # r /\ status[s] = "reviewed"}

\* The receipt rows with the same bytes.
Twins(r) == {s \in Id : s[1] = r[1] /\ s # r /\ HasRow(s)}
Saving == doing = "saving"

-----------------------------------------------------------------------------
(* The owner, at any time the program is at an await.                      *)

\* An upload by hand: its bytes are looked for among the receipts there are.
UploadByHand(f) ==
  LET r == <<f, 0>> IN
  /\ f \in Uploads /\ status[r] = "absent"
  /\ Twins(r) = {}
  /\ status' = [status EXCEPT ![r] = "review-needed"]
  /\ fileOf' = [fileOf EXCEPT ![r] = r]
  /\ onDisk' = onDisk \cup {r}
  /\ UNCHANGED <<inCase, caseVars, jobVars>>

CheckRecord(r) ==
  /\ status[r] = "review-needed" /\ ~IsLocked(r)
  /\ status' = [status EXCEPT ![r] = "reviewed"]
  /\ UNCHANGED <<inCase, fileOf, onDisk, caseVars, jobVars>>

CreateCase ==
  /\ caseStatus["own"] = "absent"
  /\ caseStatus' = [caseStatus EXCEPT !["own"] = "open"]
  /\ elders' = [elders EXCEPT !["own"] = Members]
  /\ UNCHANGED <<rowVars, jobVars>>

FileInCase(r, c) ==
  /\ status[r] \in {"review-needed", "reviewed"}
  /\ ~IsLocked(r) /\ inCase[r] # c
  /\ Editable(c)
  /\ FilesEarly \/ ~Saving
  /\ inCase' = [inCase EXCEPT ![r] = c]
  /\ UNCHANGED <<status, fileOf, onDisk, caseVars, jobVars>>

MarkClaimed(c) ==
  LET members == {r \in Id : inCase[r] = c} IN
  /\ caseStatus[c] = "open"
  /\ members # {} /\ \A r \in members : status[r] = "reviewed"
  /\ caseStatus' = [caseStatus EXCEPT ![c] = "claimed"]
  /\ UNCHANGED <<rowVars, elders, jobVars>>

Reopen(c) ==
  /\ caseStatus[c] = "claimed"
  /\ caseStatus' = [caseStatus EXCEPT ![c] = "open"]
  /\ UNCHANGED <<rowVars, elders, jobVars>>

-----------------------------------------------------------------------------
(* Removing records, and the files nothing else uses.                      *)

\* The rows of R go, and each stored copy that no expense left points at.
RemovedRows(R) ==
  /\ status' = [r \in Id |-> IF r \in R THEN "deleted" ELSE status[r]]
  /\ inCase' = [r \in Id |-> IF r \in R THEN NoCase ELSE inCase[r]]
  /\ fileOf' = [r \in Id |-> IF r \in R THEN NoId ELSE fileOf[r]]
  /\ onDisk' = onDisk \ {fileOf[r] : r \in {s \in R : \A t \in Id \ R : Expense(t) => fileOf[t] # fileOf[s]}}

DeleteRecord(r) ==
  /\ Expense(r) /\ ~IsLocked(r)
  /\ RemovedRows({r})
  /\ UNCHANGED <<caseVars, jobVars>>

\* mutant: a record in a claimed case is taken too.
UndoEverything == Members \cup {r \in Import : status[r] = "pending"}

\* What undoImport takes: every record of the import that is not in a claimed
\* case, and the receipt rows that no expense points at.
ToUndo == {r \in Members : ~IsLocked(r)} \cup {r \in Import : status[r] = "pending"}

\* A case it empties goes too, if it is no older than the first of the records.
GoesToo(c) == Editable(c) /\ elders[c] \cap Members # {}

UndoImport ==
  LET emptied == {c \in {inCase[r] : r \in Members} :
                    \A r \in Id : inCase[r] = c => r \in ToUndo} IN
  /\ RemovedRows(ToUndo)
  /\ caseStatus' = [c \in Case |-> IF c \in emptied /\ GoesToo(c) THEN "deleted" ELSE caseStatus[c]]
  /\ UNCHANGED elders

-----------------------------------------------------------------------------
(* The engine.                                                             *)

\* Everything is read and matched; what an earlier attempt saved goes first.
Begin ==
  /\ doing = "queued" /\ attempt < MaxAttempts
  /\ UndoImport
  /\ doing' = "saving" /\ attempt' = attempt + 1 /\ toSave' = File /\ claimable' = {}
  /\ UNCHANGED startedFrom

\* Where the bytes of a new record are kept: the copy there is, or its own.
CopyFor(r) == IF Twins(r) = {} THEN r ELSE fileOf[CHOOSE s \in Twins(r) : TRUE]

\* createClaimRecord up to the wait for a rate.  Bytes already held make a
\* duplicate that shares the copy there is; any others are stored.
SaveRecord(f) ==
  LET r == <<f, attempt>>  known == Twins(r) # {} IN
  /\ Saving /\ f \in toSave
  /\ status' = [status EXCEPT ![r] = IF known THEN "duplicate" ELSE "review-needed"]
  /\ fileOf' = [fileOf EXCEPT ![r] = CopyFor(r)]
  /\ onDisk' = onDisk \cup {CopyFor(r)}
  /\ claimable' = IF known THEN claimable ELSE claimable \cup {r}
  /\ toSave' = toSave \ {f}
  /\ UNCHANGED <<inCase, caseVars, startedFrom, attempt, doing>>

\* A cancel noticed before the next record, or an error at this one.
StopSaving ==
  /\ Saving /\ toSave # {}
  /\ UndoImport
  /\ doing' = "stopped"
  /\ UNCHANGED <<startedFrom, attempt, toSave, claimable>>

\* The last record is priced: what arrived together becomes a case, or joins
\* the one the import was started from when that still takes receipts.  The
\* ids were kept as each was made; one deleted since is passed over.
AsCase ==
  LET into == IF Editable(startedFrom) THEN startedFrom ELSE "made"
      filed == {r \in claimable : Expense(r)} IN
  /\ Saving /\ toSave = {}
  /\ IF claimable = {} THEN UNCHANGED <<inCase, caseVars>>
     ELSE /\ inCase' = [r \in Id |-> IF r \in filed THEN into ELSE inCase[r]]
          /\ caseStatus' = [caseStatus EXCEPT ![into] = "open"]
          /\ elders' = [elders EXCEPT ![into] = IF into = "made" THEN Members ELSE @]
  /\ doing' = "done"
  /\ UNCHANGED <<status, fileOf, onDisk, startedFrom, attempt, toSave, claimable>>

UndoDone ==
  /\ doing = "done"
  /\ UndoImport
  /\ doing' = "undone"
  /\ UNCHANGED <<startedFrom, attempt, toSave, claimable>>

\* The server stops: between two records, or with the file of the next one
\* stored and its expense not written yet.
FilingRestart ==
  /\ Saving
  /\ \/ UNCHANGED rowVars
     \/ \E f \in toSave : LET r == <<f, attempt>> IN
          /\ status' = [status EXCEPT ![r] = "pending"]
          /\ fileOf' = [fileOf EXCEPT ![r] = CopyFor(r)]
          /\ onDisk' = onDisk \cup {CopyFor(r)}
          /\ UNCHANGED inCase
  /\ doing' = "queued"
  /\ UNCHANGED <<caseVars, startedFrom, attempt, toSave, claimable>>

FilingNext ==
  \/ \E f \in File : UploadByHand(f)
  \/ \E r \in Id : CheckRecord(r) \/ DeleteRecord(r)
  \/ CreateCase
  \/ \E r \in Id, c \in Case : FileInCase(r, c)
  \/ \E c \in Case : MarkClaimed(c) \/ Reopen(c)
  \/ Begin
  \/ \E f \in File : SaveRecord(f)
  \/ StopSaving \/ AsCase \/ UndoDone \/ FilingRestart

FilingSpec == FilingInit /\ [][FilingNext]_filingVars

-----------------------------------------------------------------------------
(* Properties.                                                             *)

\* One file is one receipt to claim, however often it is imported, run again
\* after a restart, or uploaded by hand beside the import: every other record
\* of it is a duplicate.
OneReceiptPerFile ==
  \A f \in File : Cardinality({r \in Id : r[1] = f /\ status[r] \in {"review-needed", "reviewed"}}) <= 1

\* A record that is being saved is called a duplicate of something that is
\* there to stay, never of what an earlier attempt of the same import left.
NeverItsOwnTwin ==
  \A r \in Import : status[r] = "duplicate" /\ r[2] = attempt /\ Saving =>
    \A s \in Import : s[1] = r[1] /\ s # r /\ HasRow(s) => s[2] = attempt \/ inCase[s] # NoCase

\* A duplicate can never be checked, so one in a case would keep it from being
\* claimed for good.
NoDuplicateFiled == \A r \in Id : status[r] = "duplicate" => inCase[r] = NoCase

\* The file a receipt shows is there as long as the receipt is, whichever of
\* the records that share it were removed, and in whatever order.
FileKept == \A r \in Id : Expense(r) => fileOf[r] \in onDisk

\* Once an import has reached an end nothing of it is left that no list shows:
\* a receipt row with no expense would refuse its file for ever.
NoHiddenRow == doing \in {"done", "stopped", "undone"} => \A r \in Import : status[r] # "pending"

\* What was put through in a claimed case stays in it until the owner reopens
\* it: no undo, no attempt run again and no filing takes a receipt out.
ClaimedCaseKeepsReceipts ==
  [][\A r \in Id : IsLocked(r) /\ caseStatus'[inCase[r]] = "claimed" => inCase'[r] = inCase[r]]_filingVars

\* Taking an import back never takes a case that was there before its records.
OlderCaseStays == [][\A c \in Case : caseStatus[c] = "open" /\ elders[c] = {} => caseStatus'[c] # "deleted"]_filingVars

\* What an import leaves is what it should: one receipt for each file, no
\* duplicate in a case, no receipt without its file and no row out of sight
\* (claims/claim-record.js, claim-undo.js, claim-import.js).
FilingHolds ==
  /\ FilingTypeOK
  /\ OneReceiptPerFile /\ NeverItsOwnTwin /\ NoDuplicateFiled
  /\ FileKept /\ NoHiddenRow

\* Neither claimed cases nor older ones lose anything by an import or its undo.
NothingElseTaken == ClaimedCaseKeepsReceipts /\ OlderCaseStays
=============================================================================
