----------------------------- MODULE ReceiptReading -----------------------------
(***************************************************************************)
(* What is made of the reader's answer for one receipt (receipt-parser.js   *)
(* normalise): the kind of each row from its words, what is not a charge    *)
(* left out, the taxes told apart from their summaries, and the rows, total *)
(* and tax the expense keeps.  One step to a stage, in the code's order.    *)
(*                                                                         *)
(* Amounts are cents.  Of a row's label only the word that tells its kind   *)
(* is kept (line-kinds.js).  `on' is the position the reader gave, and      *)
(* `onRow' the row that meant; 0 is none of either.  No total is 0, no rate *)
(* is 0, and no tax summary is NoTax.                                       *)
(***************************************************************************)
EXTENDS Integers, Sequences
LOCAL INSTANCE SequencesExt
LOCAL INSTANCE FiniteSetsExt
LOCAL INSTANCE Functions

CONSTANTS
  Reply,     \* answers: [rows, total, summary, folio, legacy, gst]
  FitStep,   \* the smallest amount a receipt moves by
  OneUnit,   \* a unit of the currency, 100 cents
  GstRate    \* Singapore's GST on the day, in percent

ASSUME ReadingAssumption == FitStep \in Nat /\ OneUnit \in Nat /\ GstRate \in Nat

VARIABLES
  reply,    \* the answer
  stage,    \* what was done last
  listed,   \* the rows as they now stand
  charged,  \* the total charged, as now known
  taxTotal, \* the receipt's own tax total, where it stands
  figure    \* the tax kept

readingVars == <<reply, stage, listed, charged, taxTotal, figure>>

NoTax == -1
Saids == {"item", "charge", "discount", "tax", "rounding", "none"}
Words == {"goods", "service", "tip", "levy", "tax", "taxIncluded", "rounding", "payment", "total"}
Stages == <<"answered", "kinds", "charges", "taxes", "restated", "under", "summary", "added", "kept">>

ReadingTypeInv ==
  /\ reply \in Reply /\ stage \in ToSet(Stages)
  /\ charged \in Nat /\ taxTotal \in Nat \cup {NoTax} /\ figure \in Nat \cup {NoTax}
  /\ \A i \in DOMAIN listed : listed[i].kind \in Saids /\ listed[i].word \in Words

ReadingInit ==
  /\ reply \in Reply
  /\ stage = "answered" /\ listed = <<>> /\ charged = 0 /\ taxTotal = NoTax /\ figure = NoTax

Moves(from, to) == stage = from /\ stage' = to /\ UNCHANGED reply

-----------------------------------------------------------------------------
(* Sums.                                                                   *)

Round(a, b)  == (2 * a + b) \div (2 * b)
Off(a, b)    == IF a > b THEN a - b ELSE b - a
Greater(a, b) == IF a > b THEN a ELSE b
SumOf(rs, Of(_)) == MapThenSumSet(LAMBDA i : Of(rs[i]), DOMAIN rs)
Inside(r)    == r.kind = "tax" /\ r.included
\* As the reader signed them.
SumAsRead(rs) == SumOf(rs, LAMBDA r : IF Inside(r) THEN 0 ELSE r.cents)
Only(rs, Is(_)) == SelectSeq(rs, Is)
CentsIn(rs)  == SumOf(rs, LAMBDA r : r.cents)

\* The same with two rows or more, to a unit.
AccountFor(rs, t) == t # 0 /\ Len(rs) >= 2 /\ Off(SumAsRead(rs), t) <= Greater(OneUnit, Round(t * 5, 100000))

\* Do they add up the way the screen asks (printed.addsUp)?  A discount takes off however it
\* is signed.  Taxes printed per charge carry their own rounding; a position means the row that
\* is there now.
Charge(r) == IF Inside(r) THEN 0 ELSE IF r.kind = "discount" /\ r.cents > 0 THEN -r.cents ELSE r.cents
PerCharge(rs) == \E i \in DOMAIN rs : /\ rs[i].kind = "tax" /\ rs[i].on \in DOMAIN rs \ {i}
                                      /\ rs[rs[i].on].kind \in {"item", "charge", "discount"}
Slack(rs, t) ==
  IF PerCharge(rs) THEN Greater(FitStep, Round(t * 5, 1000))
  ELSE IF \E i \in DOMAIN rs : rs[i].kind = "rounding" THEN 1 ELSE FitStep
Fits(rs, t) == t # 0 /\ (rs = <<>> \/ Off(SumOf(rs, Charge), t) <= Slack(rs, t))

-----------------------------------------------------------------------------
(* The kind of a row.                                                      *)

NotTax(word) == word \in {"service", "tip", "levy"}
KindOf(said, word, cents) ==
  IF said = "rounding" \/ (said # "tax" /\ word = "rounding") THEN "rounding"
  ELSE IF cents < 0 THEN "discount"
  ELSE IF said = "tax" THEN IF NotTax(word) THEN "charge" ELSE "tax"
  ELSE IF said # "discount" /\ word \in {"tax", "taxIncluded"} THEN "tax"
  ELSE IF said = "none" THEN IF NotTax(word) THEN "charge" ELSE "item"
  ELSE IF said = "item" /\ NotTax(word) THEN "charge"
  ELSE said

\* A reply in the older shape does not say kinds.  What is read of a row: `id' says which it is.
RowOf(x, i) ==
  LET kind == KindOf(IF reply.legacy THEN "none" ELSE x.said, x.word, x.cents)
  IN [id |-> i, kind |-> kind, word |-> x.word, cents |-> x.cents,
      rate |-> IF kind \in {"tax", "charge", "discount"} THEN x.rate ELSE 0,
      included |-> kind = "tax" /\ (x.word = "taxIncluded" \/ x.included),
      on |-> x.on, onRow |-> IF x.on \in DOMAIN reply.rows \ {i} THEN x.on ELSE 0,
      who |-> IF kind = "rounding" THEN "own" ELSE x.who]

\* _carryTransfers: on a folio, a tax that names nobody is the person's of the charge before it.
CarryTransfers(rs) ==
  [i \in DOMAIN rs |->
     LET before == {j \in 1 .. i - 1 : rs[j].kind # "tax"}
     IN IF rs[i].kind = "tax" /\ rs[i].who = "own" /\ before # {} THEN [rs[i] EXCEPT !.who = rs[Max(before)].who] ELSE rs[i]]

KindsTold ==
  /\ Moves("answered", "kinds")
  /\ LET rs == [i \in DOMAIN reply.rows |-> RowOf(reply.rows[i], i)]
     IN listed' = IF reply.folio THEN CarryTransfers(rs) ELSE rs
  /\ UNCHANGED <<charged, taxTotal, figure>>

-----------------------------------------------------------------------------
(* The charges, and the amount charged.                                    *)

\* Every charge of it takes money off, or the total does: a refund is not claimed.
Refund ==
  LET moved == {r \in {RowOf(reply.rows[i], i) : i \in DOMAIN reply.rows} : r.cents # 0 /\ ~Inside(r)}
  IN reply.total < 0 \/ (moved # {} /\ \A r \in moved : r.cents < 0)

\* Payments and totals printed as rows are no charges; nor is a row equal to the total, when
\* the others come to it without.
DropPayments(rs, t) ==
  LET kept   == Only(rs, LAMBDA r : r.word \notin {"payment", "total"})
      same   == {i \in DOMAIN kept : kept[i].kind # "tax" /\ kept[i].cents = t}
      others == RemoveAt(kept, Min(same))
  IN IF t = 0 \/ Len(kept) < 2 \/ same = {} THEN kept
     ELSE IF AccountFor(others, t) THEN others ELSE kept

\* A tip written in under the total read is part of what was charged.
WithTip(rs, t) ==
  LET tip == CentsIn(Only(rs, LAMBDA r : r.kind # "tax" /\ r.word = "tip" /\ r.cents > 0))
  IN IF t # 0 /\ tip # 0 /\ Off(SumAsRead(rs), t) > 1 /\ Off(SumAsRead(rs), t + tip) <= 1 THEN t + tip ELSE t

Charges ==
  /\ Moves("kinds", "charges")
  /\ LET t == IF Refund THEN 0 ELSE reply.total
     IN listed' = DropPayments(listed, t) /\ charged' = WithTip(listed', t)
  /\ UNCHANGED <<taxTotal, figure>>

-----------------------------------------------------------------------------
(* The taxes.                                                              *)

\* No tax is more than the total, nor much more than its rate makes of it.
Misread(r, t) == r.kind = "tax" /\ (r.cents > t \/ (r.rate # 0 /\ r.cents > Round(t * r.rate * 3, 200) + OneUnit))
TaxesRead ==
  /\ Moves("charges", "taxes")
  /\ listed' = Only(listed, LAMBDA r : charged = 0 \/ ~Misread(r, charged))
  /\ UNCHANGED <<charged, taxTotal, figure>>

\* The taxes that say again what those above them said: of their rate, or all of them together.
Repeats(rs) ==
  LET above(gone, i) == {j \in 1 .. i - 1 : rs[j].kind = "tax"} \ gone
      cents(S) == MapThenSumSet(LAMBDA j : rs[j].cents, S)
      upto[i \in 0 .. Len(rs)] ==
        IF i = 0 THEN [gone |-> {}, summary |-> NoTax]
        ELSE LET was  == upto[i - 1]
                 all  == above(was.gone, i)
                 rate == {j \in all : rs[i].rate # 0 /\ rs[j].rate = rs[i].rate}
             IN IF rs[i].kind # "tax" \/ rs[i].onRow # 0 THEN was
                ELSE IF rate # {} /\ Off(rs[i].cents, cents(rate)) <= 1 THEN [was EXCEPT !.gone = @ \cup {i}]
                ELSE IF \E j, k \in all : j # k /\ Off(rs[i].cents, cents(all)) <= 1
                     THEN [gone |-> was.gone \cup {i}, summary |-> rs[i].cents]
                ELSE was
  IN upto[Len(rs)]
WithoutAt(rs, gone) == LET left == SetToSortSeq(DOMAIN rs \ gone, <) IN [k \in DOMAIN left |-> rs[left[k]]]
\* mutant: the taxes are put inside the prices whether or not the rest then adds up.
RestatedBlindly(rs, t) ==
  LET again == Repeats(rs)
      out == WithoutAt(rs, again.gone)
  IN IF t = 0 \/ Fits(rs, t) THEN [rows |-> rs, summary |-> NoTax]
     ELSE IF Fits(out, t) THEN [rows |-> out, summary |-> again.summary]
     ELSE [rows |-> [i \in DOMAIN out |-> [out[i] EXCEPT !.included = @ \/ out[i].kind = "tax"]], summary |-> again.summary]
Restated(rs, t) ==
  LET again  == Repeats(rs)
      out    == WithoutAt(rs, again.gone)
      inside == [i \in DOMAIN out |-> [out[i] EXCEPT !.included = @ \/ out[i].kind = "tax"]]
  IN IF t = 0 \/ Fits(rs, t) THEN [rows |-> rs, summary |-> NoTax]
     ELSE IF Fits(out, t) THEN [rows |-> out, summary |-> again.summary]
     ELSE IF inside # out /\ Fits(inside, t) THEN [rows |-> inside, summary |-> again.summary]
     ELSE [rows |-> rs, summary |-> NoTax]
Restate ==
  /\ Moves("taxes", "restated")
  /\ listed' = Restated(listed, charged).rows
  /\ taxTotal' = IF reply.summary # NoTax THEN reply.summary ELSE Restated(listed, charged).summary
  /\ UNCHANGED <<charged, figure>>

\* A tax or service charge printed straight after one person's items is under the largest of
\* them, when its rate of them (with the charges already under them) is its amount.
RunBefore(rs, i) ==
  LET items == {j \in 1 .. i - 1 : rs[j].kind = "item"}
      last  == Max(items)
      first == Min({j \in items : \A k \in j .. last : rs[k].kind = "item"})
  IN IF items = {} THEN {} ELSE first .. last
Largest(rs, run) == CHOOSE j \in run : /\ \A k \in run : rs[k].cents <= rs[j].cents
                                       /\ \A k \in run : rs[k].cents = rs[j].cents => j <= k
BorneOut(rs, run, i) ==
  LET ids   == {rs[j].id : j \in run}
      base  == MapThenSumSet(LAMBDA j : rs[j].cents, run)
      under == Only(rs, LAMBDA r : r.onRow \in ids /\ r.kind = "charge" /\ r.rate # 0)
  IN Off(Round((IF rs[i].kind = "tax" THEN base + CentsIn(under) ELSE base) * rs[i].rate, 100), rs[i].cents)
       <= Greater(2, Round(rs[i].cents, 100))
UnderTheCharge(rs) ==
  LET upto[i \in 0 .. Len(rs)] ==
        IF i = 0 THEN rs
        ELSE LET now == upto[i - 1]
                 run == RunBefore(now, i)
             IN IF /\ now[i].kind \in {"tax", "charge"} /\ ~Inside(now[i])
                   /\ now[i].onRow = 0 /\ now[i].rate # 0 /\ run # {}
                   /\ \A j, k \in run : now[j].who = now[k].who
                   /\ BorneOut(now, run, i)
                THEN [now EXCEPT ![i] = [@ EXCEPT !.onRow = now[Largest(now, run)].id]]
                ELSE now
  IN upto[Len(rs)]
Under ==
  /\ Moves("restated", "under")
  /\ listed' = IF reply.folio THEN UnderTheCharge(listed) ELSE listed
  /\ UNCHANGED <<charged, taxTotal, figure>>

\* The receipt's own tax total, unless the rows bear it out less than themselves.
TaxRows(rs) == Only(rs, LAMBDA r : r.kind = "tax")
Service(rs) == CentsIn(Only(rs, LAMBDA r : r.kind = "charge" /\ r.word = "service" /\ r.cents > 0))
Doubted(s, rs, t) ==
  LET rowsTax == CentsIn(TaxRows(rs)) IN
  \/ t # 0 /\ s > t
  \/ s = 0 /\ rowsTax > 0
  \/ Service(rs) > 0 /\ rowsTax > 0 /\ Off(s, rowsTax + Service(rs)) <= 1
  \/ Len(TaxRows(rs)) >= 2 /\ AccountFor(rs, t) /\ Off(s, rowsTax) > Greater(OneUnit, Round(rowsTax, 100))
Summary ==
  /\ Moves("under", "summary")
  /\ taxTotal' = IF taxTotal # NoTax /\ Doubted(taxTotal, listed, charged) THEN NoTax ELSE taxTotal
  /\ UNCHANGED <<listed, charged, figure>>

\* A tax totalled and in no row is a row: inside the prices unless they only add up with it.
\* Singapore's GST named and printed nowhere is worked out.
AddedTax(cents, rate, included) ==
  [id |-> 0, kind |-> "tax", word |-> "tax", cents |-> cents, rate |-> rate, included |-> included, on |-> 0, onRow |-> 0, who |-> "own"]
WithTax(rs, t, s) ==
  LET plain == AddedTax(s, 0, FALSE)
      inside == Fits(rs, t) \/ ~Fits(Append(rs, plain), t)
  IN Append(rs, [plain EXCEPT !.included = inside])
Added ==
  /\ Moves("summary", "added")
  /\ listed' = IF TaxRows(listed) # <<>> THEN listed
               ELSE IF listed # <<>> /\ taxTotal > 0 THEN WithTax(listed, charged, taxTotal)
               ELSE IF reply.gst /\ charged # 0 /\ taxTotal = NoTax
                    THEN Append(listed, AddedTax(Round(charged * GstRate, 100 + GstRate), GstRate, TRUE))
               ELSE listed
  /\ UNCHANGED <<charged, taxTotal, figure>>

-----------------------------------------------------------------------------
(* What is kept.                                                           *)

\* Every `on' the position of the row it is under, where it may be under it.
Kept(rs) ==
  [i \in DOMAIN rs |->
     LET at == {k \in DOMAIN rs \ {i} : rs[i].onRow # 0 /\ rs[k].id = rs[i].onRow /\ rs[k].kind \in {"item", "charge", "discount"}}
     IN [rs[i] EXCEPT !.on = IF at # {} /\ rs[i].kind \notin {"item", "rounding"} THEN Min(at) ELSE 0,
                      !.cents = Charge([rs[i] EXCEPT !.included = FALSE])]]
\* Rows under each other are refused, and kept standing on their own.
Circular(rs) ==
  LET up[i \in DOMAIN rs, n \in 0 .. Len(rs)] == IF n = 0 THEN i ELSE IF up[i, n - 1] = 0 THEN 0 ELSE rs[up[i, n - 1]].on
  IN \E i \in DOMAIN rs : \E n \in 1 .. Len(rs) : up[i, n] = i
Flat(rs) == [i \in DOMAIN rs |-> [rs[i] EXCEPT !.on = 0]]

\* printed.taxOf.
TaxFigure(rs, t, s) ==
  IF s = 0 /\ TaxRows(rs) = <<>> THEN 0
  ELSE IF s > 0 /\ (t = 0 \/ s <= t) THEN s
  ELSE IF TaxRows(rs) = <<>> THEN NoTax ELSE CentsIn(TaxRows(rs))

Keep ==
  /\ Moves("added", "kept")
  /\ listed' = IF Refund THEN <<>> ELSE IF Circular(Kept(listed)) THEN Flat(Kept(listed)) ELSE Kept(listed)
  /\ figure' = IF Refund THEN NoTax ELSE TaxFigure(listed', charged, taxTotal)
  /\ UNCHANGED <<charged, taxTotal>>

ReadingNext == KindsTold \/ Charges \/ TaxesRead \/ Restate \/ Under \/ Summary \/ Added \/ Keep
ReadingSpec == ReadingInit /\ [][ReadingNext]_readingVars

-----------------------------------------------------------------------------
Done == stage = "kept" /\ charged # 0
\* The rows before any tax is told from its summary.
AsRead ==
  LET rs   == [i \in DOMAIN reply.rows |-> RowOf(reply.rows[i], i)]
      kept == DropPayments(IF reply.folio THEN CarryTransfers(rs) ELSE rs, reply.total)
  IN Only(kept, LAMBDA r : ~Misread(r, charged))
Same(rs, ss) == {<<r.id, r.included>> : r \in ToSet(rs)} \ {<<0, TRUE>>, <<0, FALSE>>}
                = {<<r.id, r.included>> : r \in ToSet(ss)}

\* Rows that add up are kept as read, and so are rows that nothing makes add up
\* (receipt-parser.js:199); a tax put to them never makes what added up not do so.
AddsUpOrAsRead ==
  Done => /\ Fits(AsRead, charged) => Same(listed, AsRead)
          /\ Same(listed, AsRead) \/ Fits(listed, charged)
          /\ (Fits(AsRead, charged) /\ ~PerCharge(AsRead)) => Fits(listed, charged)
\* A service charge, a tip or a levy is never tax, whatever it was called, nor counted in it;
\* and one tax is no more than the total.
TaxIsTax ==
  /\ \A i \in DOMAIN listed : listed[i].kind = "tax" => ~NotTax(listed[i].word)
  /\ Done => LET taxes == Only(listed, LAMBDA r : r.kind = "tax")
             IN /\ Service(listed) > 1 /\ CentsIn(taxes) > 0 => figure # CentsIn(taxes) + Service(listed)
                /\ Len(taxes) <= 1 => figure <= charged
\* What leaves out payments and restated totals never leaves out the bill itself.  Not so for
\* an amount under a unit beside rows of nothing, nor beside a tax that is then found misread: the
\* rows then seem to come to the total without the charge.
BillStands ==
  ( /\ Done /\ charged > OneUnit /\ \A i \in DOMAIN reply.rows : ~Misread(RowOf(reply.rows[i], i), charged)
    /\ \E i \in DOMAIN reply.rows : reply.rows[i].word = "goods" /\ reply.rows[i].cents > 0 )
    => \E i \in DOMAIN listed : listed[i].kind # "tax" /\ listed[i].cents > 0

RowsHold == AddsUpOrAsRead /\ TaxIsTax /\ BillStands
=============================================================================
