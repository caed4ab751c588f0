----------------------------- MODULE CaseUploads -------------------------------
(***************************************************************************)
(* Files going into a case: the page's rows and what sends them            *)
(* (useUploader.js), the routes that store a file, or each file of a zip   *)
(* or an email (routes/receipts.js), and the one list the page makes of    *)
(* its rows and what the server says it holds (intake-logic.js mergeRows). *)
(* A receipt stands for its bytes: one inside a container may also be      *)
(* dropped by itself.  Claims are handed to the import and left out.       *)
(***************************************************************************)
EXTENDS Naturals, FiniteSets

CONSTANTS
  Receipt,     \* receipts dropped by themselves or inside a container
  Container,   \* zips and emails
  Inside,      \* the receipts of each
  Slots,       \* SLOTS
  MaxSends     \* bound: how often each file is sent

ASSUME CaseUploadsAssumption ==
  /\ IsFiniteSet(Receipt) /\ IsFiniteSet(Container)
  /\ Inside \in [Container -> SUBSET Receipt]
  /\ Slots \in Nat \ {0} /\ MaxSends \in [Receipt \cup Container -> Nat \ {0}]

Item == Receipt \cup Container
Busy == {"queued", "preparing", "uploading"}
Sending == UNION {{i} \X (1..MaxSends[i]) : i \in Item}

VARIABLES
  case,     \* the draft: made when something first needs it
  row,      \* the row of each file dropped
  held,     \* the files held aside, to be sent or sent again
  pumping,  \* pump waits for the case
  run,      \* what is at work on each file
  try,      \* how often each has been sent
  job,      \* each sending, as the server has it
  inCase,   \* the receipts the case holds
  local,    \* the receipts this page has a row for, with the server's id
  files,    \* what the answer shown says the case holds
  knew,     \* the rows stored before that answer was asked for
  ask       \* an answer on its way

uploadVars == <<case, row, held, pumping, run, try, job, inCase, local, files, knew, ask>>

NoJob == [at |-> "none", todo |-> {}, got |-> {}]
NoAsk == [at |-> "none", files |-> {}, knew |-> {}]

UploadTypeOK ==
  /\ case \in {"none", "draft", "deleting", "gone"}
  /\ row \in [Item -> Busy \cup {"none", "stored", "duplicate", "refused", "failed", "removed", "split"}]
  /\ held \subseteq Item /\ pumping \in BOOLEAN
  /\ run \in [Item -> {"none", "preparing", "sending"}]
  /\ \A i \in Item : try[i] \in 0..MaxSends[i]
  /\ job \in [Sending -> [at : {"none", "way", "storing", "done", "refused", "dup", "over"},
                          todo : SUBSET Receipt, got : SUBSET Receipt]]
  /\ inCase \subseteq Receipt /\ local \subseteq Receipt /\ files \subseteq Receipt /\ knew \subseteq Receipt
  /\ ask \in [at : {"none", "way", "back"}, files : SUBSET Receipt, knew : SUBSET Receipt]

UploadInit ==
  /\ case = "none" /\ row = [i \in Item |-> "none"] /\ held = {} /\ pumping = FALSE
  /\ run = [i \in Item |-> "none"] /\ try = [i \in Item |-> 0]
  /\ job = [s \in Sending |-> NoJob]
  /\ inCase = {} /\ local = {} /\ files = {} /\ knew = {} /\ ask = NoAsk

pageRows == <<row, held, pumping, run, try>>
answers  == <<local, files, knew, ask>>

-----------------------------------------------------------------------------
(* The rows and their slots.                                               *)

Active(rn) == Cardinality({i \in Item : rn[i] # "none"})

\* pump: one at a time, and only while a slot is free and a row waits.
Pump(rw, rn) == pumping' = (pumping \/ (Active(rn) < Slots /\ \E i \in Item : rw[i] = "queued"))

\* A file is dropped; retry sends a failed one again.
Queue(i) ==
  /\ row' = [row EXCEPT ![i] = "queued"]
  /\ Pump(row', run)

Drop(i) ==
  /\ row[i] = "none" /\ case \in {"none", "draft"}
  /\ Queue(i) /\ held' = held \cup {i}
  /\ UNCHANGED <<case, run, try, job, inCase, answers>>

Retry(i) ==
  /\ row[i] = "failed" /\ i \in held /\ try[i] < MaxSends[i]
  /\ Queue(i)
  /\ UNCHANGED <<case, held, run, try, job, inCase, answers>>

\* ensureCase answers; the rows may all have been taken off meanwhile.
Starts(i) ==
  /\ run' = [run EXCEPT ![i] = IF i \in Receipt THEN "preparing" ELSE "sending"]
  /\ row' = [row EXCEPT ![i] = IF i \in Receipt THEN "preparing" ELSE "uploading"]
  /\ pumping' = (Active(run') < Slots /\ \E j \in Item : row'[j] = "queued")
  /\ IF i \in Receipt THEN UNCHANGED <<try, job>>
     ELSE /\ try' = [try EXCEPT ![i] = @ + 1]
          /\ job' = [job EXCEPT ![<<i, try[i] + 1>>] = [NoJob EXCEPT !.at = "way", !.todo = Inside[i]]]

HasCase ==
  /\ pumping /\ case \in {"none", "draft"} /\ case' = "draft"
  /\ \/ \E i \in Item : row[i] = "queued" /\ Starts(i)
     \/ /\ \A i \in Item : row[i] # "queued"
        /\ pumping' = FALSE /\ UNCHANGED <<row, run, try, job>>
  /\ UNCHANGED <<held, inCase, answers>>

NoCase ==
  /\ pumping /\ case = "none"
  /\ row' = [i \in Item |-> IF row[i] = "queued" THEN "failed" ELSE row[i]]
  /\ pumping' = FALSE
  /\ UNCHANGED <<case, held, run, try, job, inCase, answers>>

\* What was at work on a file is over: its slot is free.
RunOver(i, state) ==
  /\ run' = [run EXCEPT ![i] = "none"]
  /\ row' = [row EXCEPT ![i] = IF @ \in Busy THEN state ELSE @]
  /\ held' = IF state \in {"failed", "queued"} THEN held ELSE held \ {i}
  /\ Pump(row', run')

\* prepareReceipt: ready to go, unless its row was taken off meanwhile...
Prepared(i) ==
  /\ run[i] = "preparing"
  /\ IF row[i] = "preparing"
     THEN /\ run' = [run EXCEPT ![i] = "sending"] /\ row' = [row EXCEPT ![i] = "uploading"]
          /\ try' = [try EXCEPT ![i] = @ + 1]
          /\ job' = [job EXCEPT ![<<i, try[i] + 1>>] = [NoJob EXCEPT !.at = "way", !.todo = {i}]]
          /\ UNCHANGED <<held, pumping>>
     ELSE RunOver(i, "removed") /\ UNCHANGED <<try, job>>
  /\ UNCHANGED <<case, inCase, answers>>

\* ...or not an image, or over a limit.
NotPrepared(i) ==
  /\ run[i] = "preparing" /\ RunOver(i, "refused")
  /\ UNCHANGED <<case, try, job, inCase, answers>>

-----------------------------------------------------------------------------
(* The server.                                                             *)

\* A receipt converts, and its case is looked at again when it is stored.
Arrive(s) ==
  /\ job[s].at = "way"
  /\ job' = [job EXCEPT ![s].at = IF case \in {"draft", "deleting"} THEN "storing" ELSE "refused"]
  /\ UNCHANGED <<case, pageRows, inCase, answers>>

\* storeReceipt, for the file or for the next one in the container.
Store(s, r) ==
  /\ job[s].at = "storing" /\ r \in job[s].todo
  /\ LET open  == case \in {"draft", "deleting"}
         fresh == open /\ r \notin inCase IN
     /\ inCase' = IF fresh THEN inCase \cup {r} ELSE inCase
     /\ job' = [job EXCEPT
          ![s].todo = @ \ {r},
          ![s].got = IF fresh THEN @ \cup {r} ELSE @,
          ![s].at = IF s[1] \in Receipt
                    THEN IF fresh THEN "done" ELSE IF open THEN "dup" ELSE "refused"
                    ELSE IF job[s].todo = {r} THEN "done" ELSE "storing"]
  /\ UNCHANGED <<case, pageRows, answers>>

Empty(s) ==
  /\ job[s].at = "storing" /\ job[s].todo = {}
  /\ job' = [job EXCEPT ![s].at = "done"]
  /\ UNCHANGED <<case, pageRows, inCase, answers>>

\* The answer.  A container's row gives way to one for each receipt stored.
Current(s) == run[s[1]] = "sending" /\ try[s[1]] = s[2]

Answer(s) ==
  /\ job[s].at \in {"done", "dup", "refused"}
  /\ job' = [job EXCEPT ![s].at = "over"]
  /\ IF Current(s)
     THEN /\ RunOver(s[1], CASE job[s].at = "dup" -> "duplicate"
                             [] job[s].at = "refused" -> "refused"
                             [] OTHER -> IF s[1] \in Receipt THEN "stored" ELSE "split")
          /\ local' = local \cup job[s].got
     ELSE UNCHANGED <<row, held, pumping, run, local>>
  /\ UNCHANGED <<case, try, inCase, files, knew, ask>>

\* The connection drops: whatever the server makes of it, the row has failed.
Drops(s) ==
  /\ Current(s) /\ job[s].at # "over"
  /\ RunOver(s[1], "failed")
  /\ job' = [job EXCEPT ![s] = IF @.at = "way" THEN [@ EXCEPT !.at = "over"] ELSE @]
  /\ UNCHANGED <<case, try, inCase, answers>>

\* remove: a row still going is stopped first; the server may have it already.
Remove(i) ==
  /\ row[i] \notin {"none", "removed", "split"} /\ case = "draft"
  /\ row' = [row EXCEPT ![i] = "removed"] /\ held' = held \ {i}
  /\ run' = [run EXCEPT ![i] = IF @ = "sending" THEN "none" ELSE @]
  /\ local' = local \ {i}
  /\ Pump(row', run')
  /\ UNCHANGED <<case, try, job, inCase, files, knew, ask>>

\* discard: stop, then the case and every receipt in it are deleted.
Discard ==
  /\ case = "draft" /\ case' = "deleting"
  /\ row' = [i \in Item |-> IF row[i] \in Busy THEN "removed" ELSE row[i]]
  /\ held' = {i \in held : row[i] \notin Busy}
  /\ run' = [i \in Item |-> IF run[i] = "sending" THEN "none" ELSE run[i]]
  /\ Pump(row', run')
  /\ UNCHANGED <<try, job, inCase, answers>>

Deleted ==
  /\ case = "deleting" /\ case' = "gone" /\ inCase' = {}
  /\ UNCHANGED <<pageRows, job, answers>>

\* A receipt leaves the case in another tab.  Sent again it is another one,
\* so the rows of the one that left are forgotten here.
Leaves(r) ==
  /\ r \in inCase /\ case = "draft" /\ inCase' = inCase \ {r}
  /\ job' = [s \in Sending |-> [job[s] EXCEPT !.got = @ \ {r}]]
  /\ local' = local \ {r} /\ knew' = knew \ {r} /\ ask' = [ask EXCEPT !.knew = @ \ {r}]
  /\ UNCHANGED <<case, pageRows, files>>

-----------------------------------------------------------------------------
(* What the page shows.                                                    *)

\* mutant: an answer counts from when it came, not from when it was asked.
FreshWhenTaken == local

KnewThen == ask.knew

Ask ==
  /\ ask.at = "none" /\ case = "draft"
  /\ ask' = [at |-> "way", files |-> {}, knew |-> local]
  /\ UNCHANGED <<case, pageRows, job, inCase, local, files, knew>>

AskAnswered ==
  /\ ask.at = "way" /\ ask' = [ask EXCEPT !.at = "back", !.files = inCase]
  /\ UNCHANGED <<case, pageRows, job, inCase, local, files, knew>>

Taken ==
  /\ ask.at = "back" /\ ask' = NoAsk
  /\ files' = ask.files /\ knew' = KnewThen
  /\ UNCHANGED <<case, pageRows, job, inCase, local>>

\* mergeRows: the server's files, then the rows it may not have heard of yet.
Listed == files \cup (local \ knew)

UploadNext ==
  \/ \E i \in Item : Drop(i) \/ Retry(i) \/ Prepared(i) \/ NotPrepared(i) \/ Remove(i)
  \/ HasCase \/ NoCase
  \/ \E s \in Sending : Arrive(s) \/ Empty(s) \/ Answer(s) \/ Drops(s) \/ \E r \in Receipt : Store(s, r)
  \/ Discard \/ Deleted \/ \E r \in Receipt : Leaves(r)
  \/ Ask \/ AskAnswered \/ Taken

UploadSpec == UploadInit /\ [][UploadNext]_uploadVars

-----------------------------------------------------------------------------
(* Properties.                                                             *)

\* A file waiting to be sent is waited for: by pump, or by the slots it will
\* be started from.  No more files than slots are at work.
NoneForgotten ==
  /\ Active(run) <= Slots
  /\ (\E i \in Item : row[i] = "queued") => pumping \/ Active(run) = Slots

\* What may still be sent is held aside, and nothing else is.
HeldWhileNeeded == \A i \in Item : i \in held <=> row[i] \in Busy \cup {"failed"}

\* What this page put in the case and has not been taken out is in its list,
\* whatever answers come late.
EveryFileListed == case = "draft" => local \cap inCase \subseteq Listed

\* A discarded case leaves no receipt behind, however late one is stored.
DiscardIsWhole == case = "gone" => inCase = {}

\* Files dropped into a case arrive in it once, show, and are never forgotten.
UploadsHold == UploadTypeOK /\ NoneForgotten /\ HeldWhileNeeded /\ EveryFileListed /\ DiscardIsWhole
=============================================================================
