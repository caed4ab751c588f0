------------------------------ MODULE CaseHistory ------------------------------
(***************************************************************************)
(* A case's Activity tab (reports/activity.js): one list put together from *)
(* the case's events (store/reports.js) and its receipts' own logs         *)
(* (store/changes.js), each thing done said once.                          *)
(* The case is "A", "B" is another of the same person's; a receipt is in   *)
(* one of them, in none, or deleted.  What is done takes a moment each,    *)
(* further apart than the 5 s a row and its event are paired over.  The    *)
(* wording, the counts and the events with nothing under them (Xero,       *)
(* allowances) are left out.                                               *)
(***************************************************************************)
EXTENDS Naturals, FiniteSets, Sequences, TLC
LOCAL INSTANCE FiniteSetsExt
LOCAL INSTANCE SequencesExt

CONSTANTS
  Paper,      \* the receipts
  Person,     \* the owner and an admin, who may correct a receipt too
  claimant,
  RunGap,     \* RUN_GAP_MS and COALESCE_MS, both a quarter of an hour
  PairGap,    \* PAIR_MS and AFTER_CLAIM_MS, a few seconds
  Edits,      \* bound: by whom a receipt is corrected, and whether its currency is
  Start,      \* bound: where the receipts are
  Lapse,      \* bound: how long after the last thing the next may be done
  MaxDeeds,   \* bound: how many things are done
  PageSize    \* bound: how many items a page is asked for

ASSUME CaseHistoryAssumption ==
  /\ claimant \in Person /\ RunGap \in Nat /\ PairGap \in Nat
  /\ Edits \subseteq [by : Person, turns : BOOLEAN] /\ Lapse \subseteq Nat \ 0..PairGap /\ MaxDeeds \in Nat /\ PageSize \subseteq Nat \ {0}

VARIABLES
  status,      \* of A: "draft" (without a number yet), "open", "claimed"
  inB,        \* whether B is still there
  place,      \* where each receipt is
  checked,    \* which are marked checked
  money,      \* the currency on each
  log,        \* expense_changes, oldest first
  events,     \* A's report_events, oldest first
  clock, deeds

historyVars == <<status, inB, place, checked, money, log, events, clock, deeds>>

Currency == {"SGD", "MYR"}
Other(c) == IF c = "SGD" THEN "MYR" ELSE "SGD"

\* _caseNo: a draft has no number and goes by "a draft case".
CaseName(c) == IF c = "A" /\ status = "draft" THEN "draft" ELSE c

HistoryTypeOK ==
  /\ status \in {"draft", "open", "claimed"} /\ inB \in BOOLEAN
  /\ place \in [Paper -> {"A", "B", "none", "deleted"}] /\ checked \subseteq Paper
  /\ money \in [Paper -> Currency]
  /\ \A p \in DOMAIN log : log[p].of \in Paper /\ log[p].by \in Person /\ log[p].at <= clock
  /\ \A i \in DOMAIN events : events[i].by \in Person /\ events[i].at <= clock
  /\ deeds \in 0..MaxDeeds

HistoryInit ==
  /\ status \in {"draft", "open"} /\ inB = TRUE /\ checked = {}
  /\ place \in Start
  /\ money = [r \in Paper |-> "SGD"]
  /\ log = <<>> /\ clock = 0 /\ deeds = 0
  /\ events = <<[what |-> "created", by |-> claimant, at |-> 0, of |-> {}]>>

-----------------------------------------------------------------------------
(* What is done, and what is written of it.                                *)

TakesChanges == status # "claimed"

After(d) == deeds < MaxDeeds /\ deeds' = deeds + 1 /\ clock' = clock + d
Does  == After(Min(Lapse))
DoesAtLength == \E d \in Lapse : After(d)

\* `ours' is history: whether the row is of a receipt while it is in A; `in'
\* too, the receipt's currency before and after.
Wrote(r, w, field, from, to, ours, in) ==
  [of |-> r, by |-> w, field |-> field, from |-> from, to |-> to, at |-> clock', ours |-> ours, in |-> in]
Unturned(r) == <<money[r], money[r]>>
Noted(what, w, of) == [what |-> what, by |-> w, at |-> clock', of |-> of]

\* record: the rows, and on a claimed case the note that names them.
Record(rows, r, w) ==
  /\ log' = log \o rows
  /\ events' = IF place[r] = "A" /\ status = "claimed" THEN Append(events, Noted("afterClaim", w, {r})) ELSE events

\* coalesceEvent: the latest event goes on when it is the same by the same
\* person, not long ago.
Coalesce(what, w, of) ==
  LET last == events[Len(events)]
      goes == last.what = what /\ last.by = w /\ last.at + RunGap >= clock' IN
  IF goes THEN [events EXCEPT ![Len(events)] = Noted(what, w, of \cup last.of)]
          ELSE Append(events, Noted(what, w, of))

\* fileInCase: into a case, out of one, or from one to the other.
FileIn(r, to) ==
  /\ Does /\ place[r] # "deleted" /\ to # place[r]
  /\ ("A" \in {to, place[r]} => TakesChanges) /\ (to = "B" => inB)
  /\ place' = [place EXCEPT ![r] = to]
  /\ log' = Append(log, Wrote(r, claimant, "case", CaseName(place[r]), CaseName(to), "A" \in {to, place[r]}, Unturned(r)))
  /\ events' = IF place[r] = "A" THEN Append(events, Noted("removed", claimant, {r})) ELSE events
  /\ UNCHANGED <<status, inB, checked, money>>

\* setStatus, both ways; a check in a case is one event for a run of them.
Check(r) ==
  /\ DoesAtLength /\ place[r] # "deleted" /\ r \notin checked /\ (place[r] = "A" => TakesChanges)
  /\ checked' = checked \cup {r}
  /\ log' = Append(log, Wrote(r, claimant, "status", "to check", "checked", place[r] = "A", Unturned(r)))
  /\ events' = IF place[r] = "A" THEN Coalesce("checked", claimant, {}) ELSE events
  /\ UNCHANGED <<status, inB, place, money>>

Uncheck(r) ==
  /\ Does /\ r \in checked /\ (place[r] = "A" => TakesChanges)
  /\ checked' = checked \ {r}
  /\ log' = Append(log, Wrote(r, claimant, "status", "checked", "to check", place[r] = "A", Unturned(r)))
  /\ UNCHANGED <<status, inB, place, money, events>>

\* review-all: every receipt of the case at once, one event for the lot.
CheckAll ==
  LET rs == SetToSeq({r \in Paper : place[r] = "A"} \ checked) IN
  /\ Does /\ TakesChanges /\ rs # <<>>
  /\ checked' = checked \cup {rs[k] : k \in DOMAIN rs}
  /\ log' = log \o [k \in DOMAIN rs |-> Wrote(rs[k], claimant, "status", "to check", "checked", TRUE, Unturned(rs[k]))]
  /\ events' = Append(events, Noted("checked", claimant, {}))
  /\ UNCHANGED <<status, inB, place, money>>

\* A receipt corrected: its total, and its currency with it or not.
Edit(r, w, turns) ==
  LET c    == IF turns THEN Other(money[r]) ELSE money[r]
      in   == <<money[r], c>>
      ours == place[r] = "A"
      total == Wrote(r, w, "total", "set", "set", ours, in) IN
  /\ Does /\ place[r] # "deleted"
  /\ money' = [money EXCEPT ![r] = c]
  /\ Record(IF turns THEN <<Wrote(r, w, "currency", money[r], c, ours, in), total>> ELSE <<total>>, r, w)
  /\ UNCHANGED <<status, inB, place, checked>>

\* The cover saved again and again (noteDetailsEdited).
Cover ==
  /\ DoesAtLength /\ TakesChanges
  /\ events' = Coalesce("details", claimant, {})
  /\ UNCHANGED <<status, inB, place, checked, money, log>>

\* The case created from its draft, claimed, and opened again.
Turn(from, to, what) ==
  /\ Does /\ status = from
  /\ (to = "claimed" => {r \in Paper : place[r] = "A"} \subseteq checked)
  /\ status' = to
  /\ events' = Append(events, Noted(what, claimant, {}))
  /\ UNCHANGED <<inB, place, checked, money, log>>

\* mergeInto: B's receipts come over without a row of their own, and with
\* them what was done to each since it came into B.
CameIn(r) == LET q == {p \in DOMAIN log : log[p].of = r /\ log[p].field = "case"} IN IF q = {} THEN 0 ELSE Max(q)
Merge ==
  /\ Does /\ TakesChanges /\ inB
  /\ inB' = FALSE
  /\ place' = [r \in Paper |-> IF place[r] = "B" THEN "A" ELSE place[r]]
  /\ log' = [p \in DOMAIN log |->
              [log[p] EXCEPT !.ours = @ \/ (place[log[p].of] = "B" /\ p >= CameIn(log[p].of))]]
  /\ events' = Append(events, Noted("merged", claimant, {}))
  /\ UNCHANGED <<status, checked, money>>

\* A receipt deleted: its log goes with it, and the case says so.
Delete(r) ==
  /\ Does /\ place[r] # "deleted" /\ (place[r] = "A" => TakesChanges)
  /\ place' = [place EXCEPT ![r] = "deleted"]
  /\ checked' = checked \ {r}
  /\ log' = SelectSeq(log, LAMBDA row : row.of # r)
  /\ events' = IF place[r] = "A" THEN Append(events, Noted("deleted", claimant, {})) ELSE events
  /\ UNCHANGED <<status, inB, money>>

HistoryNext ==
  \/ \E r \in Paper, to \in {"A", "B", "none"} : FileIn(r, to)
  \/ \E r \in Paper : Check(r) \/ Uncheck(r)
  \/ CheckAll
  \/ \E r \in Paper, e \in Edits : Edit(r, e.by, e.turns)
  \/ Cover
  \/ Turn("draft", "open", "opened") \/ Turn("open", "claimed", "claimed") \/ Turn("claimed", "open", "reopened")
  \/ Merge
  \/ \E r \in Paper : Delete(r)
  \/ deeds = MaxDeeds /\ UNCHANGED historyVars

HistorySpec == HistoryInit /\ [][HistoryNext]_historyVars

-----------------------------------------------------------------------------
(* The list (caseActivity).                                                *)

Rows == DOMAIN log
Number == IF status = "draft" THEN "unnumbered" ELSE "A"
CaseRows == {p \in Rows : log[p].field = "case"}
OfCase(r) == {p \in CaseRows : log[p].of = r}
Since(p, at, gap) == log[p].at <= at /\ at - log[p].at <= gap

\* _pairRemoved: the row of a receipt leaving a case that was written with
\* the event, the latest before it; none when the receipt is deleted since.
LeftWith(i) == Max({0} \cup {p \in CaseRows : log[p].from # "none" /\ log[p].by = events[i].by /\ Since(p, events[i].at, PairGap)})
Removed == {i \in DOMAIN events : events[i].what = "removed"}
PairedOut == {LeftWith(i) : i \in Removed} \ {0}

\* The receipts in the case now, and those that left it.
InCase(r) == place[r] = "A"
Heard == {r \in Paper : InCase(r) \/ \E p \in OfCase(r) : p \in PairedOut \/ Number \in {log[p].from, log[p].to}}

\* The last move of a receipt that is here now brought it here, whatever its
\* log calls the case.
IsInByNumber(p) == log[p].to = Number   \* mutant: the last move is known by its name alone
IsIn(p)  == (InCase(log[p].of) /\ p = Max(OfCase(log[p].of))) \/ log[p].to = Number
IsOut(p) == p \in PairedOut \/ log[p].from = Number

\* Whether a receipt was here when a row of its log was written.
Here(p) ==
  LET before == {q \in OfCase(log[p].of) : q < p} IN
  IF before # {} THEN IsIn(Max(before))
  ELSE IF OfCase(log[p].of) # {} THEN IsOut(Min(OfCase(log[p].of))) ELSE InCase(log[p].of)
KeptRows == {p \in Rows : log[p].of \in Heard /\ IF p \in CaseRows THEN IsIn(p) \/ IsOut(p) ELSE Here(p)}

\* checkRun: each within the gap of the next, back from the event's moment.
ChecksRun(at, ps) ==
  LET moments == {at} \cup {log[p].at : p \in ps} IN
  {p \in ps : \A m \in moments : m > log[p].at => \E n \in moments : n < m /\ m - n <= RunGap}

\* The rows each event says: a `checked' event its run of checks, from the
\* event before it on; a `removed' one the row written with it.
Folded[i \in 0..Len(events)] ==
  IF i = 0 THEN {}
  ELSE LET earlier == Folded[i - 1]
           since   == IF i > 1 THEN events[i - 1].at ELSE 0
           checks  == {p \in KeptRows : log[p].field = "status" /\ log[p].to = "checked" /\ log[p].by = events[i].by
                                    /\ log[p].at \in since..events[i].at} \ earlier IN
       CASE events[i].what = "checked" -> earlier \cup ChecksRun(events[i].at, checks)
         [] events[i].what = "removed" -> earlier \cup ({LeftWith(i)} \ {0})
         [] OTHER -> earlier

\* The rows an edit after the claim is told by, instead of its own note.
Named(i) == {p \in KeptRows : log[p].by = events[i].by /\ Since(p, events[i].at, PairGap)}

Told(scope, id, at) == [scope |-> scope, id |-> id, at |-> at]
Items ==
  {Told("case", i, events[i].at) : i \in {j \in DOMAIN events : events[j].what = "afterClaim" => Named(j) = {}}}
  \cup {Told("receipt", p, log[p].at) : p \in KeptRows \ Folded[Len(events)]}

\* Newest first; at one moment the case's event before the rows it sums up.
Above(x, y) ==
  \/ x.at > y.at
  \/ x.at = y.at /\ (IF x.scope = y.scope THEN x.id > y.id ELSE x.scope = "case")

\* A page: the first n before a moment, and the rest of its last moment.
Page(items, before, n) ==
  LET shown == {x \in items : x.at < before}
      first == {x \in shown : Cardinality({y \in shown : Above(y, x)}) < n}
      last  == Min({x.at : x \in first}) IN
  IF Cardinality(first) < n THEN first ELSE {x \in shown : x.at >= last}

\* _currencies: the currency before and after a row, back from today's.
Worn(p) ==
  LET turns == {q \in Rows : log[q].of = log[p].of /\ log[q].field = "currency"}
      later == {q \in turns : log[q].at > log[p].at}
      now   == {q \in turns : log[q].at = log[p].at}
      after == IF now # {} THEN log[Max(now)].to ELSE IF later # {} THEN log[Min(later)].from ELSE money[log[p].of] IN
  <<IF now # {} THEN log[Max(now)].from ELSE after, after>>

-----------------------------------------------------------------------------
(* What the list promises.                                                 *)

\* The stays that are over and began under another name, in a draft or in a
\* case since merged into this one: nothing of them but the leaving is told.
Lost(p) ==
  LET r     == log[p].of
      begun == {q \in OfCase(r) : q <= p}
      next  == {q \in OfCase(r) : q > p} IN
  /\ begun # {} /\ log[Max(begun)].to \notin {"A", "none"}
  /\ p \in CaseRows => log[p].from \notin {"A", "draft"}
  /\ (next # {} \/ ~InCase(r))

\* reports/activity.js:20-29: everything done to a receipt while it was in
\* the case is told, and once: by a line of its own or folded into the event
\* that sums it up, never both; what was done to it elsewhere is not told; an
\* edit after the claim is told by its rows or, when they are gone, by the
\* case's note; an amount wears the currency it had; and turning the pages
\* neither skips nor repeats anything, whatever a page holds.
HistoryHolds ==
  LET items == Items
      folded == Folded[Len(events)] IN
  /\ \A p \in Rows : ~Lost(p) =>
       (log[p].ours <=> Told("receipt", p, log[p].at) \in items \/ p \in folded)
  /\ \A p \in Rows : ~(Told("receipt", p, log[p].at) \in items /\ p \in folded)
  /\ \A i \in Removed : LeftWith(i) # 0 => {log[LeftWith(i)].of} = events[i].of
  /\ \A i \in DOMAIN events : events[i].what = "afterClaim" =>
       (Told("case", i, events[i].at) \in items <=>
        ~\E p \in Rows : log[p].at = events[i].at /\ Told("receipt", p, log[p].at) \in items)
  /\ \A p \in KeptRows : Worn(p) = log[p].in
  /\ \A n \in PageSize, b \in {x.at : x \in items} \cup {clock + 1} :
       LET page == Page(items, b, n) IN
       \A x \in items : x.at < b => x \in page \/ (page # {} /\ \A y \in page : x.at < y.at)
=============================================================================
