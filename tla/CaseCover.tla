------------------------------- MODULE CaseCover -------------------------------
(***************************************************************************)
(* A trip's cover while its owner and the AI both write it: the form and   *)
(* its saves (useCover.js, NewCase.jsx, CaseDetails.jsx), the record of    *)
(* whose each field is (store/reports.js), and the AI keeping its fields   *)
(* up with the receipts (reports/cover-auto.js).                           *)
(* A value is a day, 0 is empty, a title is the last day it names.  The    *)
(* kind, where and the nights follow the same rules and are left out.      *)
(***************************************************************************)
EXTENDS Naturals, FiniteSets, FiniteSetsExt

CONSTANTS
  WidenDays,   \* WIDEN_DAYS
  MaxDay,      \* bound: days are 1..MaxDay
  Day,         \* bound: the days receipts fall on
  MaxMoves,    \* bound: how often receipts land or leave
  MaxChanges   \* bound: fields typed in

ASSUME CaseCoverAssumption ==
  WidenDays \in Nat /\ MaxDay \in Nat \ {0} /\ Day \subseteq 1..MaxDay /\ MaxMoves \in Nat /\ MaxChanges \in Nat

DraftField == {"periodFrom", "periodTo", "title"}
OpenField  == {"periodFrom", "periodTo"}
Field      == DraftField
Value      == 0..MaxDay
Unsaid     == MaxDay + 1
Typed      == {0, MaxDay}    \* what the person types: nothing, or the last day
Blank      == [f \in Field |-> 0]

VARIABLES
  status,            \* "none" until a file or Create makes the case
  cover,             \* its fields
  auto, user,        \* cover_ai
  days,              \* the days of its receipts that are read and dated
  values,            \* what the form shows
  dirty, sending,    \* typed and not sent; on the way
  due,               \* a save has been asked for: the timer, leaving a field
  patch,             \* the PATCH on its way
  poll,              \* the cover a poll brings, and what was saved since it left
  form,              \* the form: open, or where a press of Done has got to
  making,            \* the values the draft is being made with
  mine,              \* history: the last the person said of each field
  late,              \* history: what was typed after Done was pressed
  moves, changes

caseVars == <<status, cover, auto, user, days>>
formVars   == <<values, dirty, sending, due, patch, poll, form, making>>
coverVars  == <<caseVars, formVars, mine, late, moves, changes>>

NoPatch == [at |-> "none", fields |-> {}, values |-> Blank]
NoPoll  == [is |-> FALSE, cover |-> Blank, saved |-> {}]
NotMaking == [is |-> FALSE, fields |-> {}, values |-> Blank]

CoverTypeOK ==
  /\ status \in {"none", "draft", "open", "claimed"}
  /\ cover \in [Field -> Value] /\ values \in [Field -> Value]
  /\ auto \subseteq DraftField /\ user \subseteq DraftField /\ days \subseteq Day
  /\ dirty \subseteq Field /\ sending \subseteq Field /\ late \subseteq Field
  /\ due \in BOOLEAN /\ mine \in [Field -> 0..Unsaid]
  /\ patch \in [at : {"none", "way", "saved", "failed"}, fields : SUBSET Field, values : [Field -> Value]]
  /\ poll \in [is : BOOLEAN, cover : [Field -> Value], saved : SUBSET Field]
  /\ making \in [is : BOOLEAN, fields : SUBSET Field, values : [Field -> Value]]
  /\ form \in {"new", "closed", "open", "waiting", "saving"}
  /\ moves \in 0..MaxMoves /\ changes \in 0..MaxChanges

CoverInit ==
  /\ status = "none" /\ cover = Blank /\ auto = {} /\ user = {} /\ days = {}
  /\ values = Blank /\ dirty = {} /\ sending = {} /\ due = FALSE
  /\ patch = NoPatch /\ poll = NoPoll /\ form = "new" /\ making = NotMaking
  /\ mine = [f \in Field |-> Unsaid] /\ late = {}
  /\ moves = 0 /\ changes = 0

-----------------------------------------------------------------------------
(* What the receipts say (cover-suggest.js, openTarget).                   *)

Suggested(ds) == [f \in DraftField |-> IF f = "periodFrom" THEN Min(ds) ELSE Max(ds)]

\* The receipts beside the dates the case has, when it has both.
Near(c, ds) == {d \in ds : d + WidenDays >= c["periodFrom"] /\ d <= c["periodTo"] + WidenDays}

\* openTarget: an empty end is filled, an end the AI owns follows the
\* receipts beside the dates, and any other stays where it is.
OpenTarget(c, owned, ds) ==
  LET dated == c["periodFrom"] # 0 /\ c["periodTo"] # 0 IN
  [f \in OpenField |->
    IF c[f] = 0 THEN Suggested(ds)[f]
    ELSE IF dated /\ f \in owned /\ Near(c, ds) # {} THEN Suggested(Near(c, ds))[f]
    ELSE c[f]]

\* The fields refresh may write: the ones the owner has not set, and on an
\* open case not one that holds what the AI did not write.
Writes(st, c, au, us) ==
  CASE st = "draft" -> DraftField \ us
    [] st = "open"  -> {f \in OpenField \ us : c[f] = 0 \/ f \in au}
    [] OTHER        -> {}

\* refresh, over the receipts' days: nothing dated, nothing is written.
Refresh(c, au, us, ds) ==
  IF ds = {} THEN cover' = c /\ auto' = au
  ELSE LET w      == Writes(status, c, au, us)
           target == IF status = "open" THEN OpenTarget(c, au, ds) ELSE Suggested(ds) IN
       /\ cover' = [f \in Field |-> IF f \in w THEN target[f] ELSE c[f]]
       /\ auto' = (au \ us) \cup w

\* Reads land, or receipts are taken out, and their days are these now.
ReceiptsMove(ds) ==
  /\ status \in {"draft", "open"} /\ ds # days /\ moves < MaxMoves
  /\ days' = ds /\ moves' = moves + 1
  /\ Refresh(cover, auto, user, ds)
  /\ UNCHANGED <<status, user, formVars, mine, late, changes>>

-----------------------------------------------------------------------------
(* The form.                                                               *)

Change(f, v) ==
  /\ form # "closed" /\ changes < MaxChanges
  /\ values' = [values EXCEPT ![f] = v]
  /\ mine' = [mine EXCEPT ![f] = v]
  /\ dirty' = dirty \cup {f}
  /\ due' = (status # "none")
  /\ late' = IF form \in {"waiting", "saving"} THEN late \cup {f} ELSE late
  /\ changes' = changes + 1
  /\ UNCHANGED <<caseVars, sending, patch, poll, form, making, moves>>

\* send, with no other save on its way: what is unsaved goes together.
Send ==
  /\ patch = NoPatch /\ dirty # {}
  /\ patch' = [at |-> "way", fields |-> dirty, values |-> values]
  /\ sending' = dirty /\ dirty' = {} /\ due' = FALSE

TimedSend ==
  /\ due /\ status \in {"draft", "open"} /\ Send
  /\ UNCHANGED <<caseVars, values, poll, form, making, mine, late, moves, changes>>

\* PATCH /reports/:id: what it carries becomes the owner's, unless the case
\* no longer takes edits.  The answer may be lost.
PatchArrives(answer) ==
  /\ patch.at = "way"
  /\ IF status \in {"draft", "open"}
     THEN /\ cover' = [f \in Field |-> IF f \in patch.fields THEN patch.values[f] ELSE cover[f]]
          /\ user' = user \cup (patch.fields \cap DraftField)
          /\ auto' = auto \ patch.fields
          /\ patch' = [patch EXCEPT !.at = answer]
     ELSE UNCHANGED <<cover, user, auto>> /\ patch' = [patch EXCEPT !.at = "failed"]
  /\ UNCHANGED <<status, days, values, dirty, sending, due, poll, form, making, mine, late, moves, changes>>

PatchLost ==
  /\ patch.at = "way"
  /\ patch' = [patch EXCEPT !.at = "failed"]
  /\ UNCHANGED <<caseVars, values, dirty, sending, due, poll, form, making, mine, late, moves, changes>>

\* The answer.  A save that failed leaves its fields unsaved, for the next
\* change or the next Done: a save that waited behind it is not tried.
PatchAnswered(stillDue) ==
  /\ patch.at \in {"saved", "failed"}
  /\ patch' = NoPatch /\ sending' = {}
  /\ IF patch.at = "saved"
     THEN /\ poll' = [poll EXCEPT !.saved = @ \cup patch.fields]
          /\ form' = IF form = "saving" THEN "closed" ELSE form
          /\ UNCHANGED <<dirty, due>>
     ELSE /\ dirty' = dirty \cup patch.fields
          /\ due' = (due /\ stillDue)
          /\ form' = IF form \in {"waiting", "saving"} THEN "open" ELSE form
          /\ UNCHANGED poll
  /\ UNCHANGED <<caseVars, values, making, mine, late, moves, changes>>

\* A poll leaves, and its answer comes back with the cover as it was.
PollRead ==
  /\ ~poll.is /\ status # "none" /\ ~making.is
  /\ poll' = [is |-> TRUE, cover |-> cover, saved |-> {}]
  /\ UNCHANGED <<caseVars, values, dirty, sending, due, patch, form, making, mine, late, moves, changes>>

\* fromServer: the fields a poll's values may land in.
\* mutant: a field whose save is on its way is written over.
LandsOverSending(f) == f \notin dirty /\ f \notin poll.saved

Lands(f) == f \notin dirty /\ f \notin sending /\ f \notin poll.saved

\* `inside' holds the field the person is in, if any.
PollLands(inside) ==
  /\ poll.is
  /\ values' = [f \in Field |-> IF Lands(f) /\ f \notin inside THEN poll.cover[f] ELSE values[f]]
  /\ poll' = NoPoll
  /\ UNCHANGED <<caseVars, dirty, sending, due, patch, form, making, mine, late, moves, changes>>

-----------------------------------------------------------------------------
(* Making the case (NewCase.jsx).                                          *)

\* ensureCase: a draft is made with what has been typed so far...
MakeDraft ==
  /\ form = "new" /\ status = "none" /\ ~making.is
  /\ making' = [is |-> TRUE, fields |-> dirty, values |-> values]
  /\ UNCHANGED <<caseVars, values, dirty, sending, due, patch, poll, form, mine, late, moves, changes>>

\* createReport: what was given and is not empty is the owner's.
Created(st, fields, vals) ==
  /\ status' = st
  /\ cover' = [f \in Field |-> IF f \in fields THEN vals[f] ELSE 0]
  /\ user' = {f \in fields \cap DraftField : vals[f] # 0}
  /\ mine' = [f \in Field |-> IF f \in fields /\ vals[f] = 0 /\ mine[f] = 0 THEN Unsaid ELSE mine[f]]
  /\ auto' = {}

\* ...and adopted: a field typed in again meanwhile is still to be sent.
AdoptedFields == {f \in making.fields : values[f] = making.values[f]}

DraftMade ==
  /\ making.is
  /\ Created("draft", making.fields, making.values)
  /\ dirty' = dirty \ AdoptedFields
  /\ due' = (dirty' # {})
  /\ making' = NotMaking
  /\ UNCHANGED <<days, values, sending, patch, poll, form, late, moves, changes>>

DraftNotMade ==
  /\ making.is /\ making' = NotMaking
  /\ UNCHANGED <<caseVars, values, dirty, sending, due, patch, poll, form, mine, late, moves, changes>>

\* Create case with no file yet: what was typed makes an open case at once.
CreateOpen ==
  /\ form = "new" /\ status = "none" /\ ~making.is /\ values["title"] # 0
  /\ Created("open", dirty, values)
  /\ dirty' = {} /\ form' = "closed"
  /\ UNCHANGED <<days, values, sending, due, patch, poll, making, late, moves, changes>>

\* Create case: what is unsaved goes with it and is the owner's; an empty
\* title is filled for them.  A save on its way has arrived before it.
CreateCase ==
  /\ form = "new" /\ status = "draft" /\ patch.at # "way"
  /\ LET sent == dirty \cup sending
         said == [f \in Field |-> IF f \in sent THEN values[f] ELSE cover[f]]
         untitled == said["title"] = 0
         name == IF days = {} THEN MaxDay ELSE Max(days) IN
     /\ cover' = [said EXCEPT !["title"] = IF untitled THEN name ELSE @]
     /\ user' = IF untitled THEN (user \cup (sent \cap DraftField)) \ {"title"} ELSE user \cup (sent \cap DraftField)
     /\ auto' = IF untitled THEN (auto \ sent) \cup {"title"} ELSE auto \ sent
     /\ mine' = [mine EXCEPT !["title"] = IF untitled THEN Unsaid ELSE @]
  /\ status' = "open" /\ form' = "closed"
  /\ dirty' = {} /\ sending' = {} /\ due' = FALSE /\ patch' = NoPatch
  /\ values' = cover'    \* another page, loaded afresh
  /\ poll' = NoPoll
  /\ UNCHANGED <<days, making, late, moves, changes>>

-----------------------------------------------------------------------------
(* The details of an open case (CaseDetails.jsx).                          *)

Edit ==
  /\ form = "closed" /\ status = "open"
  /\ form' = "open"
  /\ UNCHANGED <<caseVars, values, dirty, sending, due, patch, poll, making, mine, late, moves, changes>>

Done ==
  /\ form = "open"
  /\ form' = "waiting" /\ late' = {}
  /\ UNCHANGED <<caseVars, values, dirty, sending, due, patch, poll, making, mine, moves, changes>>

\* flush: a save on its way is waited for, then what is unsaved is sent.
NothingLeft == dirty = {} /\ patch = NoPatch

FlushCloses ==
  /\ form = "waiting" /\ NothingLeft
  /\ form' = "closed"
  /\ UNCHANGED <<caseVars, values, dirty, sending, due, patch, poll, making, mine, late, moves, changes>>

FlushSends ==
  /\ form = "waiting" /\ Send
  /\ form' = "saving"
  /\ UNCHANGED <<caseVars, values, poll, making, mine, late, moves, changes>>

\* Apply: what the receipts say of the dates becomes the person's.
FillApplies ==
  /\ form = "closed" /\ status = "open" /\ days # {} /\ changes < MaxChanges
  /\ LET t == OpenTarget(cover, DraftField, days)
         set(g) == [f \in Field |-> IF f \in OpenField THEN t[f] ELSE g[f]] IN
     /\ cover' = set(cover) /\ mine' = set(mine)
     /\ dirty \cap OpenField = {} /\ sending \cap OpenField = {}
  /\ user' = user \cup OpenField /\ auto' = auto \ OpenField
  /\ changes' = changes + 1
  /\ UNCHANGED <<status, days, formVars, late, moves>>

\* cover-ai: the fields go back to the AI, which fills them at once.
HandBack(fs) ==
  /\ form = "closed" /\ status = "open" /\ days # {}
  /\ user' = user \ fs
  /\ mine' = [f \in Field |-> IF f \in fs THEN Unsaid ELSE mine[f]]
  /\ Refresh(cover, auto \cup fs, user \ fs, days)
  /\ UNCHANGED <<status, days, formVars, late, moves, changes>>

\* Claimed from this page, and reopened.
Claim ==
  /\ form = "closed" /\ status = "open" /\ status' = "claimed"
  /\ UNCHANGED <<cover, auto, user, days, formVars, mine, late, moves, changes>>
Reopen ==
  /\ status = "claimed" /\ status' = "open"
  /\ UNCHANGED <<cover, auto, user, days, formVars, mine, late, moves, changes>>

CoverNext ==
  \/ \E ds \in SUBSET Day : ReceiptsMove(ds)
  \/ \E f \in Field, v \in Typed : Change(f, v)
  \/ TimedSend
  \/ \E answer \in {"saved", "failed"} : PatchArrives(answer)
  \/ PatchLost
  \/ \E b \in BOOLEAN : PatchAnswered(b)
  \/ PollRead
  \/ \E inside \in {{}} \cup {{f} : f \in Field} : PollLands(inside)
  \/ MakeDraft \/ DraftMade \/ DraftNotMade \/ CreateOpen \/ CreateCase
  \/ Edit \/ Done \/ FlushCloses \/ FlushSends
  \/ FillApplies \/ \E fs \in {OpenField, {"periodTo"}} : HandBack(fs)
  \/ Claim \/ Reopen

CoverSpec == CoverInit /\ [][CoverNext]_coverVars

-----------------------------------------------------------------------------
(* Properties.                                                             *)

\* What the person last said of a field is what the case has, or is still to
\* be sent as they said it: no poll, refresh, failed save or new draft puts
\* another value in its place.
NothingTypedLost ==
  \A f \in Field : mine[f] # Unsaid =>
    \/ cover[f] = mine[f] /\ f \notin dirty
    \/ f \in dirty \cup sending /\ values[f] = mine[f]

\* A form that has closed left nothing unsaved but what was typed after Done.
DoneIsSaved == form = "closed" => dirty \cup sending \subseteq late

\* A field is the owner's or the AI's, and the AI's always hold something.
OneHand ==
  /\ auto \cap user = {}
  /\ \A f \in auto : cover[f] # 0

\* What is typed is the person's and reaches the case, whatever the AI writes.
CoverHolds == CoverTypeOK /\ NothingTypedLost /\ OneHand /\ DoneIsSaved
=============================================================================
