---------------------------- MODULE PrintedRecord ------------------------------
(***************************************************************************)
(* A receipt kept as printed: the rows on the page, edited by position     *)
(* (PrintedPanel.jsx, ui/utils/printed.js), the record the server takes of *)
(* them and the claim lines it makes (receipts/printed.js).  Amounts are   *)
(* cents; a line stands for its category and person together.  Which of    *)
(* its charges a tax's printed rate bears out is left open.                *)
(***************************************************************************)
EXTENDS Integers, Sequences, FiniteSets

Seqs == INSTANCE SequencesExt
Sets == INSTANCE FiniteSetsExt
Funs == INSTANCE Functions

CONSTANTS
  Read,      \* records as the reader made them: sequences of rows
  Line,      \* the claim lines there may be
  Own,       \* the claimant's own, in the receipt's category
  Others,    \* the lines of other people
  Amount,    \* amounts typed
  Total,     \* totals typed
  Step,      \* the currency's step
  Unit,      \* how far off the rows may be and still give lines of their own
  MaxRows,   \* bound: rows
  MaxEdits   \* bound: edits

Kind  == {"item", "charge", "discount", "tax", "rounding"}
UNDER == {"tax", "charge", "discount"}
HOLDS == {"item", "charge", "discount"}

NoLine == "none"
NoRate == 0

Row == [id : Nat, under : Nat, kind : Kind, named : BOOLEAN, cents : Int,
        on : Nat, included : BOOLEAN, rate : Nat, line : Line \cup {NoLine}]

\* A row stands on its own or under the one it is printed under, which may hold
\* it; and among any rows there is one that stands under none of them.
Placeable(rs) ==
  /\ \A i \in DOMAIN rs : rs[i].on # 0 =>
       rs[i].on \in DOMAIN rs /\ rs[rs[i].on].kind \in HOLDS /\ rs[rs[i].on].id = rs[i].under
  /\ \A some \in SUBSET DOMAIN rs : some # {} => \E i \in some : rs[i].on \notin some

\* Of the reader's rows only those validate takes are kept as printed.
ASSUME PrintedAssumption ==
  /\ Own \in Line \ Others /\ Others \subseteq Line /\ IsFiniteSet(Line)
  /\ Amount \subseteq Int /\ Total \subseteq Int /\ Step \in Nat /\ Unit \in Nat
  /\ MaxRows \in Nat /\ MaxEdits \in Nat
  /\ \A rs \in Read : rs \in Seq(Row) /\ Len(rs) <= MaxRows /\ Placeable(rs)

\* `id' and `under' are no part of the code: which row this is, and which one
\* it is printed under.
blankRow(kind, id) == [id |-> id, under |-> 0, kind |-> kind, named |-> FALSE, cents |-> 0,
                       on |-> 0, included |-> FALSE, rate |-> NoRate, line |-> NoLine]

VARIABLES
  rows,     \* the rows on the page
  total,    \* the total paid
  edits,    \* how many
  nextId,
  record,   \* what the server keeps
  claim     \* the lines it made of it

printedVars == <<rows, total, edits, nextId, record, claim>>

-----------------------------------------------------------------------------
(* Rows by position (ui/utils/printed.js).                                 *)

\* onOf: the row this one is under, when it may be.
OnOf(rs, i) ==
  IF /\ rs[i].kind \in UNDER /\ rs[i].on \in DOMAIN rs \ {i}
     /\ rs[rs[i].on].kind \in HOLDS
  THEN rs[i].on ELSE 0

IsBlank(r) == ~r.named /\ r.cents = 0

\* The rows kept, with every `on' moved to where its row now is.
Before(keep, i) == Cardinality({k \in keep : k < i})
Reindex(rs, keep) ==
  LET place == [n \in 1..Cardinality(keep) |-> CHOOSE i \in keep : Before(keep, i) = n - 1]
      At(o) == IF o \in keep THEN Before(keep, o) + 1 ELSE 0 IN
  [n \in DOMAIN place |-> [rs[place[n]] EXCEPT !.on = At(@)]]

\* mutant: a row put in does not move the row that stood in its place.
InsertRowAfter(rs, at, row) ==
  LET Along(r) == [r EXCEPT !.on = IF @ > at THEN @ + 1 ELSE @] IN
  Seqs!InsertAt([i \in DOMAIN rs |-> Along(rs[i])], at, Along(row))

InsertRow(rs, at, row) ==
  LET Along(r) == [r EXCEPT !.on = IF @ >= at THEN @ + 1 ELSE @] IN
  Seqs!InsertAt([i \in DOMAIN rs |-> Along(rs[i])], at, Along(row))

Dependents(rs, i) ==
  LET grown[n \in 0..Len(rs)] ==
        IF n = 0 THEN {} ELSE grown[n - 1] \cup {j \in DOMAIN rs \ {i} : rs[j].on \in {i} \cup grown[n - 1]}
  IN grown[Len(rs)]

RemoveRow(rs, i) == Reindex(rs, DOMAIN rs \ ({i} \cup Dependents(rs, i)))

SplitRow(rs, i, id) ==
  LET half == (rs[i].cents + 1) \div 2 IN
  InsertRow([rs EXCEPT ![i].cents = half], i + 1, [rs[i] EXCEPT !.id = id, !.cents = @ - half])

\* Where a new row of a kind goes.
InsertPlace(rs, kind) ==
  LET items == {i \in DOMAIN rs : rs[i].kind = "item"}
      tail  == {i \in DOMAIN rs : rs[i].on = 0 /\ (rs[i].kind = "rounding" \/ (rs[i].kind = "tax" /\ rs[i].included))} IN
  CASE kind = "item" -> IF items = {} THEN 1 ELSE Sets!Max({Sets!Max(items)} \cup Dependents(rs, Sets!Max(items))) + 1
    [] kind # "item" /\ kind # "rounding" /\ tail # {} -> Sets!Min(tail)
    [] OTHER -> Len(rs) + 1

Changed(rs, i, kind) ==
  [j \in DOMAIN rs |->
    IF j # i THEN IF kind \notin HOLDS /\ rs[j].on = i THEN [rs[j] EXCEPT !.on = 0, !.under = 0] ELSE rs[j]
    ELSE [rs[j] EXCEPT !.kind = kind,
                       !.included = @ /\ kind = "tax",
                       !.rate = IF kind = "rounding" THEN NoRate ELSE @,
                       !.line = IF kind = "item" /\ @ = NoLine THEN Own ELSE @]]

\* arrange: what is drawn where.  The taxes a folio prints under two rows or
\* more are folded into one.
Alike(rs, i, j) == rs[i].rate = rs[j].rate /\ rs[i].included = rs[j].included
Folded(rs) == {i \in DOMAIN rs : /\ rs[i].kind = "tax" /\ OnOf(rs, i) # 0
                                 /\ \E j \in DOMAIN rs \ {i} : rs[j].kind = "tax" /\ OnOf(rs, j) # 0 /\ Alike(rs, i, j)}
Placed(rs) == {i \in DOMAIN rs : OnOf(rs, i) = 0} \cup Folded(rs)
Drawn(rs) ==
  LET shown[n \in 0..Len(rs)] ==
        IF n = 0 THEN Placed(rs) ELSE shown[n - 1] \cup {i \in DOMAIN rs : OnOf(rs, i) \in shown[n - 1]}
  IN shown[Len(rs)]

\* toRecord: blank rows are left out, and only what may sit under a row does.
ToRecord(rs) ==
  LET kept == Reindex(rs, {i \in DOMAIN rs : ~IsBlank(rs[i])}) IN
  [i \in DOMAIN kept |-> [kept[i] EXCEPT !.on = IF kept[i].kind \in UNDER THEN @ ELSE 0,
                                         !.rate = IF kept[i].kind = "rounding" THEN NoRate ELSE @,
                                         !.line = IF kept[i].kind \in HOLDS THEN @ ELSE NoLine]]

-----------------------------------------------------------------------------
(* The record and its claim lines (receipts/printed.js).                   *)

Signed(r) == IF r.kind = "discount" /\ r.cents > 0 THEN -r.cents ELSE r.cents

RowsSum(rs) == Funs!SumFunction([i \in DOMAIN rs |-> IF rs[i].kind = "tax" /\ rs[i].included THEN 0 ELSE Signed(rs[i])])

HalfPercent(t) == (t * 5 + 500) \div 1000

AddsUp(rs, t) ==
  LET gap == t - RowsSum(rs)
      slack == IF \E i \in DOMAIN rs : rs[i].kind = "tax" /\ OnOf(rs, i) # 0 THEN Sets!Max({Step, HalfPercent(t)})
               ELSE IF \E i \in DOMAIN rs : rs[i].kind = "rounding" THEN 1 ELSE Step IN
  rs = <<>> \/ (-slack <= gap /\ gap <= slack)

\* validate: what is refused, and what is kept.
SitsRight(rs, i) ==
  LET up[n \in 0..Len(rs)] == IF n = 0 THEN i ELSE IF up[n - 1] = 0 THEN 0 ELSE rs[up[n - 1]].on IN
  rs[i].on # 0 => /\ rs[i].on \in DOMAIN rs \ {i} /\ rs[rs[i].on].kind \in HOLDS
                  /\ \A n \in 1..Len(rs) : up[n] # i
Valid(rs, t) ==
  /\ t >= 0 /\ Len(rs) <= MaxRows
  /\ \A i \in DOMAIN rs : SitsRight(rs, i) /\ (rs[i].kind \in {"item", "charge", "tax"} => rs[i].cents >= 0)
Kept(rs) == [i \in DOMAIN rs |-> [rs[i] EXCEPT !.cents = Signed(rs[i]), !.included = @ /\ rs[i].kind = "tax"]]

Positive(n) == IF n > 0 THEN n ELSE 0

Taxes(rs) == {i \in DOMAIN rs : rs[i].kind = "tax"}

\* Math.round(n * w / all).
Share(n, w, all) == (2 * n * w + all) \div (2 * all)

\* _split: `n' over the lines of the items `over', in their order, by the items' weights; the last
\* line takes what rounding leaves.
SplitBy(n, weight, last, all) ==
  LET part == [k \in DOMAIN weight |-> IF all > 0 THEN Share(n, weight[k], all) ELSE Share(n, 1, Cardinality(DOMAIN weight))] IN
  [k \in Line |-> IF k \notin DOMAIN weight THEN 0
                  ELSE IF k # last THEN part[k] ELSE n - Funs!SumFunctionOnSet(part, DOMAIN weight \ {last})]
LastOf(over, line) ==
  LET First(k) == Sets!Min({x \in over : line[x] = k}) IN
  CHOOSE k \in {line[x] : x \in over} : \A y \in over : First(line[y]) <= First(k)
SplitOver(n, over, weight, line) ==
  LET of == [k \in {line[x] : x \in over} |-> Positive(Funs!SumFunctionOnSet(weight, {x \in over : line[x] = k}))] IN
  SplitBy(n, of, LastOf(over, line), Funs!SumFunction(of))

\* The items, by position; 0 stands for them on a receipt that itemises nothing.
Items(rs) == LET items == {i \in DOMAIN rs : rs[i].kind = "item"} IN IF items = {} THEN {0} ELSE items
CentsOf(rs, t) ==
  [i \in Items(rs) |-> IF i # 0 THEN rs[i].cents ELSE Positive(t - RowsSum(rs))]
LineOf(rs) == [i \in Items(rs) |-> IF i = 0 THEN Own ELSE IF rs[i].line = NoLine THEN Own ELSE rs[i].line]

\* The row another finally sits under.
Anchor(rs) ==
  LET at[i \in DOMAIN rs] == IF rs[i].kind = "item" \/ rs[i].on = 0 THEN i ELSE at[rs[i].on] IN at

\* How what is anchored at row `a' is spread: on its item, or over the items
\* of its line by their cents, or over all.
OverOf(rs, line, a) ==
  LET mine == {x \in DOMAIN line : line[x] = rs[a].line} IN IF mine # {} THEN mine ELSE DOMAIN line
WeightOn(cents, over, a) ==
  [x \in DOMAIN cents |->
     IF a \in DOMAIN cents THEN IF x = a THEN 1 ELSE 0
     ELSE IF x \notin over THEN 0
     ELSE IF \E o \in over : cents[o] > 0 THEN cents[x] ELSE 1]
Placement(rs, cents, line, anchor) == [i \in DOMAIN rs |-> WeightOn(cents, OverOf(rs, line, anchor[i]), anchor[i])]
Spread(weight) == {x \in DOMAIN weight : weight[x] > 0 \/ \A o \in DOMAIN weight : weight[o] = 0}

\* What a tax was charged on: its row, or the items of its rate, or every item;
\* with the charges on them its rate bears out, `borne'.
TaxedItems(rs, i, all) ==
  LET alike == {x \in all \ {0} : rs[x].rate # NoRate /\ rs[x].rate = rs[i].rate} IN
  IF rs[i].on # 0 THEN {rs[i].on} ELSE IF alike # {} THEN alike ELSE all
OnCharge(rs, i) == rs[i].on # 0 /\ rs[rs[i].on].kind # "item"
\* An item's part of a row of n.
PartOf(n, weight, x) ==
  Share(n * weight[x], 1, Sets!Max({1, Funs!SumFunction(weight)}))
TaxWeight(rs, cents, place, i, borne) ==
  [x \in DOMAIN cents |->
     IF OnCharge(rs, i) THEN rs[rs[i].on].cents * place[rs[i].on][x]
     ELSE cents[x] + Funs!SumFunction([j \in {j \in DOMAIN rs : rs[j].kind = "discount" \/ j \in borne} |->
                                         PartOf(rs[j].cents, place[j], x)])]
TaxShares(rs, cents, line, place, borne) ==
  [i \in Taxes(rs) |->
     SplitOver(rs[i].cents,
               IF OnCharge(rs, i) THEN Spread(place[rs[i].on]) ELSE TaxedItems(rs, i, DOMAIN cents),
               TaxWeight(rs, cents, place, i, borne), line)]

\* Where the rounding goes: the claimant's own line, else their largest, else the largest.
Largest(of, cents) == CHOOSE k \in of : \A o \in of : cents[o] <= cents[k]
RoundingTo(keys, cents) ==
  IF Own \in keys THEN Own ELSE Largest(IF keys \ Others # {} THEN keys \ Others ELSE keys, cents)

\* Every line's share of the rows: the items, then row by row, then the taxes not in them already.
RowShares(r, weight, line, was) ==
  CASE r.kind \in {"charge", "discount"} -> SplitOver(r.cents, Spread(weight), weight, line)
    [] r.kind = "rounding" -> [k \in Line |-> IF k = RoundingTo(Funs!Range(line), was) THEN r.cents ELSE 0]
    [] OTHER -> [k \in Line |-> 0]
Joined(one, other) == [k \in Line |-> one[k] + other[k]]
Shares(rs, cents, line, place, taxed) ==
  LET after[i \in 0..Len(rs)] ==
        IF i = 0 THEN [k \in Line |-> Funs!SumFunctionOnSet(cents, {x \in DOMAIN cents : line[x] = k})]
        ELSE Joined(after[i - 1], RowShares(rs[i], place[i], line, after[i - 1]))
      added == {i \in DOMAIN taxed : ~rs[i].included}
  IN Joined(after[Len(rs)], [k \in Line |-> Funs!SumFunction([i \in added |-> taxed[i][k]])])

NoClaim == [of |-> 0, line |-> [k \in Line |-> 0], taxes |-> <<>>]

\* claimLines: a line of nothing or less is made the claimant's own, and so is what rounding leaves;
\* where too much is left, there is one line.
OneLine(t, off, own, ownThere) ==
  LET far == Sets!Max({Unit, Share(t, 15, 100)}) IN
  \/ ~(-far <= off /\ off <= far)
  \/ (off # 0 \/ (ownThere /\ own <= 0)) /\ own + off <= 0
TaxesOn(rs, taxed, mine) ==
  [i \in DOMAIN rs |-> [k \in Line |->
     IF i \notin DOMAIN taxed \/ (k \in mine /\ k # Own) THEN 0
     ELSE IF k = Own THEN Funs!SumFunctionOnSet(taxed[i], mine \cup {Own}) ELSE taxed[i][k]]]
Settled(rs, t, taxed, toOwn, lines, off, one) ==
  [of |-> t,
   line |-> IF one THEN [k \in Line |-> IF k = Own THEN t ELSE 0] ELSE [lines EXCEPT ![Own] = @ + off],
   taxes |-> TaxesOn(rs, taxed, IF one THEN Line ELSE toOwn)]
Compared(rs, t, taxed, ownThere, toOwn, lines, off) ==
  Settled(rs, t, taxed, toOwn, lines, off, OneLine(t, off, lines[Own], ownThere))
Gathered(rs, t, taxed, ownThere, toOwn, share) ==
  LET lines == [k \in Line |-> IF k = Own THEN share[Own] + Funs!SumFunctionOnSet(share, toOwn)
                               ELSE IF k \in toOwn THEN 0 ELSE share[k]] IN
  Compared(rs, t, taxed, ownThere, toOwn, lines, t - Funs!SumFunction(lines))
Claimed(rs, t, taxed, keys, share) ==
  LET toOwn == {k \in keys \ {Own} : share[k] <= 0} IN
  Gathered(rs, t, taxed, Own \in keys \/ toOwn # {}, toOwn, share)
Shared(rs, t, cents, line, place, taxed) ==
  Claimed(rs, t, taxed, Funs!Range(line), Shares(rs, cents, line, place, taxed))
Taxed(rs, t, borne, cents, line, place) ==
  Shared(rs, t, cents, line, place, TaxShares(rs, cents, line, place, borne))
Spreading(rs, t, borne, cents, line) ==
  Taxed(rs, t, borne, cents, line, Placement(rs, cents, line, Anchor(rs)))
ClaimLines(rs, t, borne) ==
  IF t <= 0 THEN NoClaim ELSE Spreading(rs, t, borne, CentsOf(rs, t), LineOf(rs))

-----------------------------------------------------------------------------
(* The page.                                                               *)

PrintedInit ==
  /\ rows \in Read /\ total \in Total /\ total >= 0
  /\ edits = 0 /\ nextId = Len(rows) + 1
  /\ record = rows /\ claim = NoClaim

EditPrinted(rs) ==
  /\ edits < MaxEdits /\ edits' = edits + 1
  /\ rows' = rs /\ UNCHANGED <<record, claim>>

SetAmount(i) ==
  \E n \in Amount \ {rows[i].cents} :
    EditPrinted([rows EXCEPT ![i].cents = n]) /\ UNCHANGED <<total, nextId>>

SetTotal ==
  /\ \E t \in Total \ {total} : total' = t
  /\ EditPrinted(rows) /\ UNCHANGED nextId

ChangeKind(i) ==
  \E kind \in Kind \ {rows[i].kind} : EditPrinted(Changed(rows, i, kind)) /\ UNCHANGED <<total, nextId>>

SetIncluded(i) ==
  /\ rows[i].kind = "tax" /\ EditPrinted([rows EXCEPT ![i].included = ~@])
  /\ UNCHANGED <<total, nextId>>

SetLine(i) ==
  /\ rows[i].kind = "item"
  /\ \E k \in Line \ {rows[i].line} : EditPrinted([rows EXCEPT ![i].line = k])
  /\ UNCHANGED <<total, nextId>>

Put(row) ==
  /\ Len(rows) < MaxRows /\ nextId' = nextId + 1
  /\ EditPrinted(InsertRow(rows, InsertPlace(rows, row.kind), row)) /\ UNCHANGED total

Add == \E kind \in Kind : Put([blankRow(kind, nextId) EXCEPT !.line = IF kind = "item" THEN Own ELSE NoLine])

\* The gap as a row: an item nobody itemised, or a discount of as much.
AddGap ==
  /\ ~AddsUp(rows, total)
  /\ LET gap == total - RowsSum(rows) IN
     Put([blankRow(IF gap > 0 THEN "item" ELSE "discount", nextId) EXCEPT
            !.named = TRUE, !.cents = gap, !.line = IF gap > 0 THEN Own ELSE NoLine])

Take(i) == EditPrinted(RemoveRow(rows, i)) /\ UNCHANGED <<total, nextId>>

Halve(i) ==
  /\ Len(rows) < MaxRows /\ nextId' = nextId + 1
  /\ EditPrinted(SplitRow(rows, i, nextId)) /\ UNCHANGED total

\* editPrinted: refused, or kept and made into lines.
Save ==
  /\ rows # record \/ total # claim.of
  /\ Valid(ToRecord(rows), total)
  /\ record' = Kept(ToRecord(rows))
  /\ \E borne \in SUBSET {i \in DOMAIN record' : record'[i].kind = "charge"} : claim' = ClaimLines(record', total, borne)
  /\ rows' = record'
  /\ UNCHANGED <<total, edits, nextId>>

PrintedNext ==
  \/ \E i \in DOMAIN rows : SetAmount(i) \/ ChangeKind(i) \/ SetIncluded(i) \/ SetLine(i) \/ Take(i) \/ Halve(i)
  \/ SetTotal \/ Add \/ AddGap \/ Save

PrintedSpec == PrintedInit /\ [][PrintedNext]_printedVars

-----------------------------------------------------------------------------
(* Properties.                                                             *)

PrintedTypeOK ==
  /\ total \in Int /\ edits \in 0..MaxEdits /\ Len(rows) <= MaxRows
  /\ \A i \in DOMAIN rows : rows[i].kind \in Kind /\ rows[i].on \in 0..Len(rows) /\ rows[i].line \in Line \cup {NoLine}

\* A row stays under the row it was printed under, wherever the rows above
\* them come and go, and so it is in the record.
OnFollows ==
  \A rs \in {rows, record} : \A i \in DOMAIN rs :
    OnOf(rs, i) # 0 => rs[OnOf(rs, i)].id = rs[i].under

\* Every row of the page is drawn somewhere.
AllDrawn == Drawn(rows) = DOMAIN rows

\* Nothing typed makes rows sit wrong: a save is refused for a figure only.
RefusedForFiguresOnly == \A i \in DOMAIN ToRecord(rows) : SitsRight(ToRecord(rows), i)

\* The claim lines come to the total, none of them to less than nothing...
LinesMatchTotal ==
  /\ \A k \in Line : claim.line[k] >= 0
  /\ Funs!SumFunction(claim.line) = claim.of

\* ...and every tax printed is on them, to the cent.
TaxesKept ==
  claim # NoClaim => \A i \in Taxes(record) :
    Funs!SumFunction(claim.taxes[i]) = record[i].cents

\* A record's rows keep their places and its lines their sums, whatever is
\* done to it on the page.
RecordHolds == PrintedTypeOK /\ OnFollows /\ AllDrawn /\ RefusedForFiguresOnly /\ LinesMatchTotal /\ TaxesKept
=============================================================================
