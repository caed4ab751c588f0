------------------------------ MODULE CaseReview ------------------------------
(***************************************************************************)
(* The two pages a receipt is checked on: the review of a case            *)
(* (pages/CaseReview.jsx) and the receipt's own page                       *)
(* (pages/ExpenseReview.jsx), over the one form both hold it in            *)
(* (components/receipt/useReceiptForm.js).                                 *)
(*                                                                         *)
(* A receipt has two parts, saved by two requests one after the other: its *)
(* details (PATCH) and its lines, or its rows as printed (PUT).  A part    *)
(* says what was there at first, what the person typed, or what somebody   *)
(* else or the reader wrote since.  A single line that follows the total   *)
(* belongs to the details, and the one line made of a total for a receipt  *)
(* without any is left out.                                                *)
(***************************************************************************)
EXTENDS Naturals, Sequences
ListOps == INSTANCE SequencesExt

CONSTANTS
  Receipt,       \* the receipts of the case, in the order it is asked to show them (a set)
  Shared,        \* those of them somebody else changes too: another tab, an admin, the assistant
  MaxTyped,      \* bound on times a box is typed in
  MaxJobs,       \* bound on buttons pressed
  MaxTroubles    \* bound on changes made elsewhere, and on requests that fail or whose answer is lost

Page   == {"case", "receipt"}
Part   == {"details", "lines"}
Value  == {"first", "typed", "else"}
Standing == {"reading", "needed", "reviewed", "gone"}
NoReceipt == "none"

ASSUME CaseReviewAssumption ==
  Receipt # {} /\ NoReceipt \notin Receipt /\ Shared \subseteq Receipt /\ MaxTyped \in Nat /\ MaxJobs \in Nat /\ MaxTroubles \in Nat

NotDoing == [kind |-> "none"]
Untyped == [p \in Part |-> "nothing"]

VARIABLES
  page,      \* which of the two pages it is; "left" once the case is claimed
  server,    \* each receipt as the server holds it
  view,      \* as the page last showed it
  sel,       \* selRef, or the id of the receipt's page
  form,      \* the boxes
  base,      \* baseline: what they said when loaded
  dirty,     \* dirtyRef
  doing,     \* what the page is busy with
  flight,    \* GETs under way, in the order they were asked
  owed,      \* what was typed and neither saved nor given up
  seen,      \* receipts shown as checked that still are
  astray,    \* a request wrote something nobody typed
  missed,    \* a save said Saved, and the server does not hold what the boxes said
  typings, presses, troubles

pageVars   == <<page, view, sel, form, base, dirty>>
ghosts     == <<owed, seen, astray, missed>>
bounds     == <<typings, presses, troubles>>
reviewVars == <<pageVars, server, doing, flight, ghosts, bounds>>

Boxes(e) == [p \in Part |-> e[p]]
Blank    == [p \in Part |-> "first"]

ReviewInit ==
  /\ page \in Page
  /\ sel = CHOOSE r \in Receipt : TRUE
  /\ \E begins \in IF page = "case" THEN {"needed", "reviewed"} ELSE {"reading"} :
       server = [r \in Receipt |-> [status |-> IF r = sel THEN begins ELSE IF page = "case" THEN begins ELSE "needed",
                                    details |-> "first", lines |-> "first"]]
  /\ view = server
  /\ form = Blank /\ base = Blank /\ dirty = FALSE
  /\ doing = NotDoing /\ flight = <<>>
  /\ owed = Untyped /\ seen = {} /\ astray = FALSE /\ missed = FALSE
  /\ typings = 0 /\ presses = 0 /\ troubles = 0

ToCheck(v)  == {r \in Receipt : v[r].status = "needed"}
InCase(v)   == {r \in Receipt : v[r].status # "gone"}
ShownChecked(v) == {r \in Receipt : v[r].status = "reviewed" /\ server[r].status = "reviewed"}
\* The boxes are held still: LOCKING on the case's page, only a save on the receipt's.
HeldStill == IF page = "case" THEN doing.kind # "none"
        ELSE doing.kind # "none" /\ doing.saving
BoxesLocked == HeldStill \/ sel = NoReceipt \/ view[sel].status \notin {"needed", "reviewed"}

-----------------------------------------------------------------------------
(* The boxes. *)

\* mutant: a poll lands in boxes being typed in.
LoadOver(e, keep) ==
  /\ form' = Boxes(e) /\ base' = Boxes(e) /\ dirty' = FALSE
LoadFrom(e, keep) ==
  IF keep /\ dirty THEN UNCHANGED <<form, base, dirty>>
  ELSE form' = Boxes(e) /\ base' = Boxes(e) /\ dirty' = FALSE

\* Boxes typed in, or put back to what they said.
Type(parts) ==
  /\ ~BoxesLocked /\ typings < MaxTyped /\ typings' = typings + 1
  /\ \E v \in {[p \in Part |-> "typed"], base} :
       /\ \A p \in parts : v[p] # form[p]
       /\ form' = [p \in Part |-> IF p \in parts THEN v[p] ELSE form[p]]
       /\ owed' = [p \in Part |-> IF p \in parts THEN v[p] ELSE owed[p]]
  /\ dirty' = TRUE
  /\ UNCHANGED <<page, view, sel, base, server, doing, flight, seen, astray, missed, presses, troubles>>

\* Another receipt: with something typed it is asked first, and given up.  Nothing
\* stops it while a request is under way.
Show(r) ==
  /\ sel' = r
  /\ LoadFrom(view[r], FALSE)
  /\ owed' = Untyped
MovedOn == IF doing.kind = "none" \/ doing.step \notin {"details", "lines"} THEN doing ELSE [doing EXCEPT !.loose = TRUE]
Move(r) ==
  /\ page = "case" /\ sel # NoReceipt /\ r # sel /\ view[r].status # "gone"
  /\ Show(r)
  /\ doing' = MovedOn
  /\ UNCHANGED <<page, view, server, flight, seen, astray, missed, troubles>>

\* Another receipt's page: everything starts again, from a GET that is in before the
\* first poll goes out.
OpenReceipt(r) ==
  /\ page = "receipt" /\ r # sel /\ server[r].status # "gone"
  /\ view' = [view EXCEPT ![r] = server[r]]
  /\ sel' = r /\ LoadFrom(server[r], FALSE) /\ owed' = Untyped
  /\ doing' = MovedOn
  /\ UNCHANGED <<page, server, flight, seen, astray, missed, troubles>>

-----------------------------------------------------------------------------
(* Asking for the case, or the receipt, again.  An answer says what held *)
(* when it was asked for, and may come after later ones.                 *)

AskFor(by, r) == flight' = Append(flight, [by |-> by, on |-> r, stale |-> FALSE, says |-> server])

\* useVisiblePolling, one at a time; and a change the assistant made (useOnChanged).
Poll ==
  /\ page # "left" /\ sel # NoReceipt
  /\ \A i \in DOMAIN flight : flight[i].by # "poll"
  /\ AskFor("poll", sel)
  /\ UNCHANGED <<pageVars, server, doing, ghosts, troubles>>

\* What the page has to go by once GET i is in: on the case's page an older one
\* than is shown already counts for nothing, and on a receipt's page one for another.
Newest(i) ==
  IF page = "case" THEN IF flight[i].stale THEN view ELSE flight[i].says
  ELSE [view EXCEPT ![flight[i].on] = flight[i].says[flight[i].on]]
\* Every GET asked before one that is shown is older than what is shown.
Landed(i) ==
  ListOps!RemoveAt([j \in DOMAIN flight |-> IF page = "case" /\ j < i /\ ~flight[i].stale THEN [flight[j] EXCEPT !.stale = TRUE, !.says = <<>>] ELSE flight[j]], i)

\* arrange: the first that needs the person, else one being read, else one done.
FirstToShow(v) ==
  IF ToCheck(v) # {} THEN CHOOSE r \in ToCheck(v) : TRUE
  ELSE IF InCase(v) # {} THEN CHOOSE r \in InCase(v) : TRUE ELSE NoReceipt
StillToCheck(v) == IF sel \in ToCheck(v) \/ ToCheck(v) = {} THEN sel ELSE FirstToShow(v)
NextAfter(v, r) ==
  IF ToCheck(v) \ {r} # {} THEN CHOOSE q \in ToCheck(v) \ {r} : TRUE ELSE r

\* reload: the receipt on screen stays, with what is typed, unless it left the case.
Fill(v, want, keep) ==
  /\ view' = v
  /\ sel' = IF want # NoReceipt /\ v[want].status # "gone" THEN want ELSE FirstToShow(v)
  /\ IF sel' = NoReceipt THEN form' = Blank /\ base' = Blank /\ dirty' = FALSE
     ELSE LoadFrom(v[sel'], keep /\ sel' = sel)
  /\ owed' = IF sel' = sel THEN owed ELSE Untyped
  /\ seen' = ShownChecked(v) \cup (seen \cap {r \in Receipt : server[r].status = "reviewed"})

PollShown(i) ==
  /\ page # "left" /\ flight[i].by = "poll"
  /\ IF page = "case" THEN Fill(Newest(i), sel, TRUE) /\ UNCHANGED <<page, astray, missed>>
     ELSE IF flight[i].on # sel THEN UNCHANGED <<pageVars, ghosts>>
     ELSE /\ view' = Newest(i)
          /\ LoadFrom(view'[sel], TRUE)
          /\ UNCHANGED <<page, sel, owed, seen, astray, missed>>
  /\ flight' = Landed(i)
  /\ UNCHANGED <<server, doing, troubles>>

-----------------------------------------------------------------------------
(* What the page does, one request after another. *)

Kinds == IF page = "case" THEN {"check", "save", "rate", "reread", "delete", "bulk", "claim"}
         ELSE {"check", "save", "rate", "reread"}
\* Re-read and Delete ask first, and what is typed goes; on a receipt's page Re-read does not ask.
GivesUp(kind) == kind \in {"reread", "delete"}
Allowed(kind) ==
  CASE kind = "check"  -> view[sel].status = "needed"
    [] kind = "save"   -> view[sel].status \in {"needed", "reviewed"} /\ dirty
    [] kind = "rate"   -> view[sel].status \in {"needed", "reviewed"}
    [] kind = "reread" -> view[sel].status \in {"needed", "reviewed"}
    [] kind = "delete" -> TRUE
    [] kind = "bulk"   -> ToCheck(view) # {}
    [] kind = "claim"  -> ToCheck(view) = {} /\ \A r \in InCase(view) : view[r].status = "reviewed"
\* A receipt's page asks again after every save, before the rest; the case's page at the end.
NextStep(kind) == IF kind = "save" \/ page = "receipt" THEN "ask" ELSE "act"
\* settle: from here the boxes count as saved.
Settle(j, srv) ==
  /\ dirty' = FALSE
  /\ doing' = [j EXCEPT !.step = NextStep(j.kind), !.boxes = Blank, !.owed = Untyped, !.loose = FALSE]
  /\ owed' = IF j.loose THEN owed ELSE Untyped
  /\ missed' = (missed \/ (~j.loose /\ \E p \in Part : j.boxes[p] = "typed" /\ srv[j.on][p] = "first"))

\* A part goes out when the boxes differ from what they said when loaded: the details
\* as the save begins, the lines once the details are in.
Sends(j, p) == j.boxes[p] # base[p]
\* The boxes a save sends are those of the moment it began.
Start(kind) ==
  /\ page # "left" /\ doing.kind = "none" /\ sel # NoReceipt
  /\ kind \in Kinds /\ Allowed(kind) /\ presses < MaxJobs /\ presses' = presses + 1
  /\ LET saves == ~GivesUp(kind) /\ (kind \in {"bulk", "claim"} => dirty)
         j == [kind |-> kind, on |-> sel, boxes |-> form, owed |-> owed, loose |-> ~dirty, saving |-> saves, todo |-> {}, step |-> "act"]
     IN IF ~saves THEN doing' = [j EXCEPT !.boxes = Blank, !.owed = Untyped, !.loose = FALSE] /\ UNCHANGED <<dirty, owed, missed>>
        ELSE IF Sends(j, "details") THEN doing' = [j EXCEPT !.step = "details"] /\ UNCHANGED <<dirty, owed, missed>>
        ELSE IF Sends(j, "lines") THEN doing' = [j EXCEPT !.step = "lines"] /\ UNCHANGED <<dirty, owed, missed>>
        ELSE Settle(j, server)
  /\ UNCHANGED <<page, view, sel, form, base, server, flight, seen, astray, typings, troubles>>

Busy(step) == doing.kind # "none" /\ doing.step = step
Fails == troubles < MaxTroubles /\ troubles' = troubles + 1
Written(p) == server' = [server EXCEPT ![doing.on][p] = doing.boxes[p]]
\* Written though nobody typed it: never, but for a person who moved on meanwhile.
Astray(p) == astray' = (astray \/ (~doing.loose /\ doing.boxes[p] # "typed" /\ doing.owed[p] = "nothing"))
\* The request that failed is the end of it; its reason is shown.
GaveUp == doing' = NotDoing
Open(r) == server[r].status \in {"needed", "reviewed"}

SaveDetails ==
  /\ Busy("details")
  /\ UNCHANGED <<page, view, sel, form, base, flight, seen>>
  /\ \/ /\ Open(doing.on) /\ Written("details") /\ Astray("details") /\ UNCHANGED troubles
        /\ IF Sends(doing, "lines")
             THEN /\ doing' = [doing EXCEPT !.step = "lines"]
                  /\ owed' = IF doing.loose THEN owed ELSE [owed EXCEPT !["details"] = "nothing"]
                  /\ UNCHANGED <<dirty, missed>>
             ELSE Settle(doing, server')
     \/ \* refused, or done and the answer lost
        /\ Fails \/ (~Open(doing.on) /\ UNCHANGED troubles)
        /\ \/ UNCHANGED <<server, astray>>
           \/ Open(doing.on) /\ Written("details") /\ Astray("details")
        /\ GaveUp /\ UNCHANGED <<dirty, owed, missed>>

SaveLines ==
  /\ Busy("lines")
  /\ UNCHANGED <<page, view, sel, form, base, flight, seen>>
  /\ \/ /\ Open(doing.on) /\ Written("lines") /\ Astray("lines") /\ UNCHANGED troubles
        /\ Settle(doing, server')
     \/ /\ Fails \/ (~Open(doing.on) /\ UNCHANGED troubles)
        /\ \/ UNCHANGED <<server, astray>>
           \/ Open(doing.on) /\ Written("lines") /\ Astray("lines")
        /\ GaveUp /\ UNCHANGED <<dirty, owed, missed>>

\* The request the button is for.
Rewritten(r) == [server EXCEPT ![r] = [status |-> "needed", details |-> "else", lines |-> "else"]]
Acted ==
  CASE doing.kind = "check"  -> Open(doing.on) /\ server' = [server EXCEPT ![doing.on].status = "reviewed"]
    [] doing.kind = "reread" -> Open(doing.on) /\ server' = Rewritten(doing.on)
    [] doing.kind = "delete" -> server' = [server EXCEPT ![doing.on].status = "gone"]
    [] OTHER -> UNCHANGED server
\* Check that is refused shows the receipt as it is now; the others keep the boxes.
ActRefused ==
  /\ Fails \/ (~Open(doing.on) /\ UNCHANGED troubles)
  /\ doing' = IF doing.kind = "check" /\ page = "case" THEN [doing EXCEPT !.step = "ask"] ELSE NotDoing
Act ==
  /\ Busy("act") /\ doing.kind \notin {"bulk", "claim"}
  /\ \/ /\ Acted
        /\ owed' = IF GivesUp(doing.kind) THEN Untyped ELSE owed
        /\ IF doing.kind = "delete" THEN sel' = NoReceipt /\ form' = Blank /\ base' = Blank /\ dirty' = FALSE
           ELSE UNCHANGED <<sel, form, base, dirty>>
        /\ doing' = [doing EXCEPT !.step = "ask"]
        /\ UNCHANGED troubles
     \/ ActRefused /\ (UNCHANGED server \/ Acted) /\ UNCHANGED <<sel, form, base, dirty, owed>>
  /\ seen' = {r \in seen : server'[r].status = "reviewed"}
  /\ UNCHANGED <<page, view, flight, astray, missed>>

\* Claiming leaves the page.
ClaimCase ==
  /\ Busy("act") /\ doing.kind = "claim"
  /\ \/ page' = "left" /\ UNCHANGED troubles
     \/ Fails /\ UNCHANGED page
  /\ doing' = NotDoing
  /\ UNCHANGED <<view, sel, form, base, dirty, server, flight, ghosts>>

\* The page asks for what it shows again, and what is typed does not hold it up.
AskAgain ==
  /\ Busy("ask") \/ (Busy("act") /\ doing.kind = "bulk")
  /\ doing' = [doing EXCEPT !.step = IF doing.step = "act" THEN "list" ELSE "shown"]
  /\ AskFor("own", doing.on)
  /\ UNCHANGED <<pageVars, server, ghosts, troubles>>

OwnLost(i) ==
  /\ flight[i].by = "own" /\ Fails
  /\ flight' = ListOps!RemoveAt(flight, i) /\ doing' = NotDoing
  /\ UNCHANGED <<pageVars, server, ghosts>>

\* After Check and Delete, the next one still to check comes on screen; after Check all,
\* the one refused.
OwnShown(i) ==
  /\ flight[i].by = "own" /\ Busy("shown")
  /\ IF page = "receipt" /\ flight[i].on # sel THEN UNCHANGED <<pageVars, ghosts>>
     ELSE IF page = "case" THEN
       LET v == Newest(i)
           checked == doing.kind = "check" /\ v[doing.on].status = "reviewed"
       IN /\ \E want \in IF checked THEN {NextAfter(v, doing.on)}
                          ELSE IF doing.kind = "bulk" THEN IF doing.todo # {} THEN doing.todo ELSE {StillToCheck(v)}
                          ELSE {sel} :
               Fill(v, want, FALSE)
          /\ UNCHANGED <<page, astray, missed>>
     ELSE /\ view' = Newest(i)
          /\ LoadFrom(view'[sel], FALSE)
          \* typed since the save, while the rest was under way: it goes with the answer
          /\ owed' = IF doing.saving THEN owed ELSE Untyped
          /\ UNCHANGED <<page, sel, seen, astray, missed>>
  /\ flight' = Landed(i)
  /\ doing' = IF page = "receipt" /\ doing.saving /\ doing.kind # "save" THEN [doing EXCEPT !.step = "act", !.saving = FALSE] ELSE NotDoing
  /\ UNCHANGED <<server, troubles>>

\* Check all with nothing to fix: what passes stays checked, the first refusal ends it.
BulkListed(i) ==
  /\ flight[i].by = "own" /\ Busy("list")
  /\ view' = Newest(i)
  /\ seen' = ShownChecked(view') \cup (seen \cap {r \in Receipt : server[r].status = "reviewed"})
  /\ \E unflagged \in SUBSET ToCheck(view') : doing' = [doing EXCEPT !.step = "each", !.todo = unflagged]
  /\ flight' = Landed(i)
  /\ UNCHANGED <<page, sel, form, base, dirty, server, owed, astray, missed, troubles>>
BulkOne ==
  /\ Busy("each")
  /\ IF doing.todo = {} THEN doing' = [doing EXCEPT !.step = "ask"] /\ UNCHANGED <<server, troubles>>
     ELSE \E r \in doing.todo :
       \/ /\ Open(r) /\ server' = [server EXCEPT ![r].status = "reviewed"]
          /\ doing' = [doing EXCEPT !.todo = @ \ {r}] /\ UNCHANGED troubles
       \/ /\ Fails \/ (~Open(r) /\ UNCHANGED troubles)
          /\ doing' = [doing EXCEPT !.step = "ask", !.todo = {r}] /\ UNCHANGED server
  /\ UNCHANGED <<pageVars, flight, ghosts>>

-----------------------------------------------------------------------------
(* Elsewhere. *)

Elsewhere(r) ==
  /\ r \in Shared /\ troubles < MaxTroubles /\ troubles' = troubles + 1 /\ page # "left"
  /\ \/ Open(r) /\ server' = [server EXCEPT ![r] = [@ EXCEPT !.details = "else", !.lines = "else"]]
     \/ server[r].status # "gone"     /\ server' = [server EXCEPT ![r].status = "gone"]
  /\ seen' = {q \in seen : server'[q].status = "reviewed"}
  /\ UNCHANGED <<pageVars, doing, flight, owed, astray, missed>>

\* The read lands, or is stopped to type the receipt (Type it myself).
AReadLands(r) ==
  /\ server[r].status = "reading" /\ page # "left"
  /\ server' = Rewritten(r)
  /\ UNCHANGED <<pageVars, doing, flight, ghosts, troubles>>

AnyKind == {"check", "save", "rate", "reread", "delete", "bulk", "claim"}
Others ==
  \/ \E r \in Receipt : Move(r) \/ OpenReceipt(r) \/ Elsewhere(r) \/ AReadLands(r)
  \/ Poll \/ SaveDetails \/ SaveLines \/ Act \/ ClaimCase \/ AskAgain \/ BulkOne
  \/ \E i \in DOMAIN flight :
       PollShown(i) \/ OwnLost(i) \/ OwnShown(i) \/ BulkListed(i)
ReviewNext ==
  \/ \E parts \in SUBSET Part \ {{}} : Type(parts)
  \/ \E kind \in AnyKind : Start(kind)
  \/ Others /\ UNCHANGED <<typings, presses>>

ReviewSpec == ReviewInit /\ [][ReviewNext]_reviewVars

ReviewTypeOk ==
  /\ page \in Page \cup {"left"} /\ sel \in Receipt \cup {NoReceipt}
  /\ server \in [Receipt -> [status : Standing, details : Value, lines : Value]]
  /\ form \in [Part -> Value] /\ base \in [Part -> Value]
  /\ owed \in [Part -> Value \cup {"nothing"}] /\ seen \subseteq Receipt
  /\ typings \in 0..MaxTyped /\ presses \in 0..MaxJobs /\ troubles \in 0..MaxTroubles

\* What is typed stays in its box, on its receipt, until it is saved or given up.
TypedKept == \A p \in Part : owed[p] # "nothing" => dirty /\ form[p] = owed[p]
\* A save writes no part the person did not touch: not a blank over what was read since.
OnlyTyped == ~astray
\* Saved means the server holds what was typed, until it is changed elsewhere.
SavedIsTyped == ~missed
\* A receipt shown as checked is not put back among those to check by an older answer.
CheckedStaysShown == page = "case" => \A r \in seen : view[r].status = "reviewed"

\* The pages a receipt is checked on lose, invent and put back nothing
\* (useReceiptForm.js save and loadFrom, CaseReview.jsx load and LOCKING).
ReviewHolds == ReviewTypeOk /\ TypedKept /\ OnlyTyped /\ SavedIsTyped /\ CheckedStaysShown
=============================================================================
