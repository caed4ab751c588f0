------------------------------ MODULE FileReading ------------------------------
(***************************************************************************)
(* How a stored file is read (receipts/read-receipt.js readParts) and one   *)
(* row of it read again (readOne): which pages go to the reader together,   *)
(* what of its answers becomes a receipt of its own (receipt-parser.js),    *)
(* and what is said of the pages that become none.                          *)
(*                                                                         *)
(* A photo is page 0 of itself; the pages of a PDF are 1, 2, ...  What the  *)
(* reader answers is anything, except that it answers the same question the *)
(* same way (temperature 0), as long as it can be reached.  Of a receipt    *)
(* the reader saw, a merchant, whether it has a total, its number, its      *)
(* place on the image and its pages are kept.                               *)
(***************************************************************************)
EXTENDS Integers, Sequences, FiniteSets, Functions

CONSTANTS
  Layout,       \* files: [pages, typed, one]: how many pages, which have text, whether they are one document
  TogetherMax,  \* MAX_PAGES_ONE_DOC: a longer scan is a stack of receipts
  DrawnMax,     \* MAX_PAGES: pages drawn at most
  TextMax,      \* pages whose text is taken at most
  BatchSize,    \* BATCH_SIZE: scanned pages to a question
  Seen,         \* what an image or a text may be read as: [shop, total, no, box, pages]
  Documents,    \* what several pages read together may be
  NoShop,       \* no merchant
  MaxRereads    \* bound

ASSUME FileAssumption ==
  /\ {BatchSize, TogetherMax, TextMax} \subseteq Nat \ {0}
  /\ DrawnMax \in Nat /\ TogetherMax <= DrawnMax
  /\ \A l \in Layout : l.pages \in Nat /\ l.typed \subseteq 1 .. l.pages

VARIABLES
  layout,   \* the file
  reading,  \* "new", "asking", "blanks" (the scanned pages of a typed file), "read"
  asks,     \* the questions still to be put, in order
  parts,    \* the receipts made of it, each a row: [r, page, box, from, nth]
  said,     \* pages the notes left on the row name
  heard,    \* the answers so far: [ask, list]
  reread    \* what the last re-read came to: [row, from, nth], row 0 for none, and how many there were

fileVars == <<layout, reading, asks, parts, said, heard, reread>>

Ask(how, pages) == [how |-> how, pages |-> pages]
Photo      == [pages |-> 0, typed |-> {}, one |-> FALSE]
Upto(n)    == [i \in 1 .. n |-> i]
\* The numbers of a set, the least first.
InOrder(S) == [k \in 1 .. Cardinality(S) |-> CHOOSE p \in S : Cardinality({q \in S : q < p}) = k - 1]
Least(m, n) == IF m < n THEN m ELSE n

FileTypeInv ==
  /\ layout \in Layout /\ reading \in {"new", "asking", "blanks", "read"}
  /\ \A i \in DOMAIN asks : asks[i].how \in {"image", "pages", "text", "batch", "alone"}
  /\ said \subseteq 0 .. layout.pages
  /\ \A i \in DOMAIN parts : parts[i].page \in 0 .. layout.pages
  /\ reread.row \in 0 .. Len(parts) /\ reread.times \in 0 .. MaxRereads

FileInit ==
  /\ layout \in Layout
  /\ reading = "new" /\ asks = <<>> /\ parts = <<>> /\ said = {} /\ heard = <<>>
  /\ reread = [row |-> 0, from |-> Ask("none", <<>>), nth |-> 0, times |-> 0]

-----------------------------------------------------------------------------
(* When an answer of several receipts is taken for several. *)

ReadSomething(r) == r.total \/ r.shop # NoShop

\* Places on an image are its sides, which lie beside each other; "none" is no usable box.
Overlaps(b, c) == b = c
Splittable(es) ==
  /\ Len(es) >= 2
  /\ \A i \in DOMAIN es : es[i].box # "none" /\ ReadSomething(es[i])
  /\ \A i, j \in DOMAIN es : i # j => ~Overlaps(es[i].box, es[j].box)

OtherMerchant(r, s) == r.shop # NoShop /\ s.shop # NoShop /\ r.shop # s.shop
OtherNumber(r, s)   == r.no # 0 /\ s.no # 0 /\ r.no # s.no
SeparateDocuments(es, n) ==
  /\ Len(es) >= 2
  /\ \A i \in DOMAIN es : es[i].pages # {} /\ es[i].pages \subseteq 1 .. n /\ ReadSomething(es[i])
  /\ \A i, j \in DOMAIN es : i # j => /\ es[i].pages \cap es[j].pages = {}
                                      /\ OtherMerchant(es[i], es[j]) \/ OtherNumber(es[i], es[j])

IsSplit(q, es) ==
  CASE q.how = "pages" -> SeparateDocuments(es, Len(q.pages))
    [] q.how = "image" -> Splittable(es)
    [] OTHER           -> FALSE

FirstPage(r) == CHOOSE p \in r.pages : \A s \in r.pages : p <= s
Made(q, page, box, r, nth) == [r |-> r, page |-> page, box |-> box, from |-> q, nth |-> nth]
\* The receipts of an answer: each of them where they can be told apart, else the first.
FromParsed(q, es, at) ==
  IF es = <<>> THEN <<>>
  ELSE IF ~IsSplit(q, es) THEN <<Made(q, at, "none", es[1], 1)>>
  ELSE [k \in DOMAIN es |-> Made(q, IF q.how = "pages" THEN FirstPage(es[k]) ELSE at,
                                 IF q.how = "pages" THEN "none" ELSE es[k].box, es[k], k)]

-----------------------------------------------------------------------------
(* What is asked of a file. *)

\* Pages past the last one whose text is taken are not looked at.
TextPages == {p \in layout.typed : p <= TextMax}
\* Typed pages that are receipts of their own: at least two have text, and not of one document.
SplittablePages == Cardinality(TextPages) >= 2 /\ ~layout.one
TextAsks ==
  IF SplittablePages THEN [i \in 1 .. Cardinality(TextPages) |-> Ask("text", <<InOrder(TextPages)[i]>>)]
  ELSE <<Ask("text", Upto(Least(layout.pages, TextMax)))>>

\* So many scanned pages to a question; one left over is asked about alone.
Batched(ps) ==
  [i \in 1 .. ((Len(ps) + BatchSize - 1) \div BatchSize) |->
     LET slice == SubSeq(ps, (i - 1) * BatchSize + 1, Least(i * BatchSize, Len(ps)))
     IN Ask(IF Len(slice) = 1 THEN "alone" ELSE "batch", slice)]
ScanAsks(n) ==
  IF n > TogetherMax THEN Batched(Upto(n))
  ELSE IF n = 1 THEN <<Ask("image", <<1>>)>> ELSE <<Ask("pages", Upto(n))>>

Goes(to, qs, named) ==
  /\ reading' = to /\ asks' = qs /\ said' = said \cup named
  /\ UNCHANGED <<layout, parts, heard, reread>>
Beyond(n) == {p \in 1 .. layout.pages : p > n}
ReadParts ==
  /\ reading = "new"
  /\ IF layout = Photo THEN Goes("asking", <<Ask("image", <<0>>)>>, {})
     ELSE IF TextPages # {} THEN Goes("asking", TextAsks, Beyond(TextMax))
     ELSE Goes("asking", ScanAsks(Least(layout.pages, DrawnMax)), Beyond(DrawnMax))
\* It cannot be opened, or not drawn, and a note says so of the file.
Unreadable ==
  /\ reading = "new" /\ layout # Photo
  /\ Goes("read", <<>>, 1 .. layout.pages)
\* A typed file read, its pages without text are drawn and read too; a note counts those not drawn.
Blanks == {p \in 1 .. Least(layout.pages, TextMax) : p \notin layout.typed}
ReadOut ==
  /\ reading \in {"asking", "blanks"} /\ asks = <<>>
  /\ IF reading = "asking" /\ TextPages # {} /\ Blanks # {}
     THEN \E n \in {0, Least(Cardinality(Blanks), DrawnMax)} :
            LET drawn == SubSeq(InOrder(Blanks), 1, n) IN Goes("blanks", Batched(drawn), Blanks \ Range(drawn))
     ELSE Goes("read", <<>>, {})

-----------------------------------------------------------------------------
(* The answers. *)

Lists(S) == {<<e>> : e \in S} \cup {<<e, f>> : e \in S, f \in S}
Readable(q) == IF q.how = "pages" THEN Lists(Documents) ELSE IF q.how = "image" THEN Lists(Seen) ELSE {<<e>> : e \in Seen}
HeardOf(q) == {i \in DOMAIN heard : heard[i].ask = q}
\* The same question is answered the same, when it is answered at all.
May(q) == {<<>>} \cup (IF HeardOf(q) = {} THEN Readable(q) ELSE {heard[i].list : i \in HeardOf(q)})
Hears(q, es) == heard' = IF es # <<>> /\ HeardOf(q) = {} THEN Append(heard, [ask |-> q, list |-> es]) ELSE heard

Answering(how) == reading \in {"asking", "blanks"} /\ asks # <<>> /\ Head(asks).how \in how
Answered(made, named) ==
  /\ asks' = Tail(asks) /\ parts' = parts \o made /\ said' = said \cup named
  /\ UNCHANGED <<layout, reading, reread>>

Empty == [shop |-> NoShop, total |-> FALSE, no |-> 0, box |-> "none", pages |-> {}]
\* A photo, one scanned page, or the pages of a scan.  Pages of receipts that cannot be
\* told apart are kept as one, and a note says so.
Looked ==
  /\ Answering({"image", "pages"})
  /\ LET q == Head(asks)
     IN \E es \in May(q) :
          /\ Answered(FromParsed(q, es, 0), IF q.how = "pages" /\ Len(es) > 1 /\ ~IsSplit(q, es) THEN Range(q.pages) ELSE {})
          /\ Hears(q, es)
\* Text.  A typed page of its own makes a row, even when nothing came of it.
Typed ==
  /\ Answering({"text"})
  /\ LET q == Head(asks)
     IN \E es \in May(q) :
          /\ Answered(IF ~SplittablePages THEN FromParsed(q, es, 0)
                      ELSE <<Made(q, q.pages[1], "none", IF es = <<>> THEN Empty ELSE es[1], 1)>>, {})
          /\ Hears(q, es)
\* A scanned page by itself.  Where nothing a receipt has was read, a note names it.
Found(q, es, p) ==
  LET made == FromParsed(q, es, p)
      good == InOrder({k \in DOMAIN made : ReadSomething(made[k].r)})
  IN [n \in DOMAIN good |-> made[good[n]]]
Scanned ==
  /\ Answering({"alone"})
  /\ LET p == Head(asks).pages[1]
         q == Ask("image", <<p>>)
     IN \E es \in May(q) :
          /\ Answered(Found(q, es, p), IF Found(q, es, p) = <<>> THEN {p} ELSE {})
          /\ Hears(q, es)
\* The reader cannot be reached: a note says so, and a page of its own still makes a row.
OutOfReach ==
  /\ Answering({"image", "pages", "text", "alone"})
  /\ LET q == Head(asks)
     IN Answered(IF q.how = "text" /\ SplittablePages THEN <<Made(q, q.pages[1], "none", Empty, 1)>> ELSE <<>>,
                 Range(q.pages))
  /\ UNCHANGED heard

\* A reply for several pages: each item says which image it is of, or none does, and whether
\* it saw several receipts there.  It counts if every image is accounted for exactly once.
Item == [index : 0 .. BatchSize, several : BOOLEAN, r : Seen]
Indexed(list) == \E k \in DOMAIN list : list[k].index # 0
Attributed(list, n) ==
  /\ Len(list) = n
  /\ Indexed(list) => {list[k].index : k \in DOMAIN list} = 1 .. n
ItemOf(list, i) == CHOOSE k \in DOMAIN list : IF Indexed(list) THEN list[k].index = i ELSE k = i
Settled(list) == {i \in DOMAIN list : ~list[ItemOf(list, i)].several /\ ReadSomething(list[ItemOf(list, i)].r)}
AskAlone(ps, S) == [k \in 1 .. Cardinality(DOMAIN ps \ S) |-> Ask("alone", <<ps[InOrder(DOMAIN ps \ S)[k]]>>)]
\* Pages it does not settle are read alone, before the next; all of them when it failed.
Batch ==
  /\ Answering({"batch"})
  /\ LET q == Head(asks)
         one(list, i) == Made(q, q.pages[i], "none", list[ItemOf(list, i)].r, i)
     IN \/ asks' = AskAlone(q.pages, {}) \o Tail(asks) /\ UNCHANGED parts
        \/ \E list \in {l \in [DOMAIN q.pages -> Item] : Attributed(l, Len(q.pages)) /\ Settled(l) # {}} :
             /\ asks' = AskAlone(q.pages, Settled(list)) \o Tail(asks)
             /\ parts' = parts \o [k \in 1 .. Cardinality(Settled(list)) |-> one(list, InOrder(Settled(list))[k])]
  /\ UNCHANGED <<layout, reading, said, heard, reread>>

-----------------------------------------------------------------------------
(* A row read again, by itself (readOne). *)

\* mutant: the first receipt of the answer, wherever it is.
NearestFirst(es, box) == IF es = <<>> THEN 0 ELSE 1
\* Of an answer, what lies where the row's receipt does; the first, if it has no place.
Nearest(es, box) ==
  LET at == {k \in DOMAIN es : IF box = "none" THEN k = 1 ELSE es[k].box = box}
  IN IF at = {} THEN 0 ELSE CHOOSE k \in at : \A l \in at : k <= l

Adopts(row, q, k) == reread' = [row |-> IF k = 0 THEN 0 ELSE row, from |-> q, nth |-> k, times |-> reread.times + 1]
AsksAgain(row, q, box) == \E es \in May(q) : Hears(q, es) /\ Adopts(row, q, Nearest(es, box))
ScannedPage(row) == AsksAgain(row, Ask("image", <<parts[row].page>>), parts[row].box)
ReadOne(row) ==
  LET part == parts[row]
      n    == Least(layout.pages, TogetherMax)
      whole == ScanAsks(n)[1]
  IN IF layout = Photo THEN AsksAgain(row, Ask("image", <<0>>), part.box)
     ELSE IF TextPages # {}
     THEN IF part.page # 0 /\ part.page \notin TextPages THEN ScannedPage(row)
          ELSE AsksAgain(row, Ask("text", IF part.page # 0 /\ SplittablePages THEN <<part.page>> ELSE Upto(Least(layout.pages, TextMax))), "none")
     ELSE IF part.page # 0 /\ (layout.pages = 1 \/ layout.pages > TogetherMax) THEN ScannedPage(row)
     ELSE IF part.page = 0 THEN AsksAgain(row, whole, part.box)
     ELSE \E es \in May(whole) :
            LET mine == {k \in DOMAIN es : part.page \in es[k].pages}
            IN IF IsSplit(whole, es) /\ mine # {}
               THEN Hears(whole, es) /\ Adopts(row, whole, CHOOSE k \in mine : \A l \in mine : k <= l)
               ELSE ScannedPage(row)
ReadOneAgain ==
  /\ reading = "read" /\ reread.times < MaxRereads
  /\ \E row \in DOMAIN parts : ReadOne(row)
  /\ UNCHANGED <<layout, reading, asks, parts, said>>

FileNext == ReadParts \/ Unreadable \/ ReadOut \/ Looked \/ Typed \/ Scanned \/ OutOfReach \/ Batch \/ ReadOneAgain
FileSpec == FileInit /\ [][FileNext]_fileVars

-----------------------------------------------------------------------------
\* Nothing in a file is dropped silently (read-receipt.js:298): once it is read, each page is in
\* what some row was made from, or a note names it, or nothing came of the file and its one row
\* stands for all of it.  Not so for typed pages read together that nothing came of, beside
\* scanned pages that did read: they have neither a row nor a note.
PagesAccounted ==
  reading = "read" => \A p \in IF layout = Photo THEN {0} ELSE 1 .. layout.pages :
    \/ p \in said \/ parts = <<>>
    \/ \E i \in DOMAIN parts : p \in Range(parts[i].from.pages)
    \/ p \in TextPages /\ ~SplittablePages
\* Every row has a place of its own in the file: two rows on one page lie on different parts of it.
PlacesApart ==
  \A i, j \in DOMAIN parts : i # j => <<parts[i].page, parts[i].box>> # <<parts[j].page, parts[j].box>>
\* A row read again never takes what another row of the file was made from, nor what is on
\* another page: one half of a split photo is not re-read with the other half's figures.
RereadIsOwn ==
  reread.row # 0 =>
    /\ \A i \in DOMAIN parts \ {reread.row} : ~(parts[i].from = reread.from /\ parts[i].nth = reread.nth)
    /\ (Len(reread.from.pages) = 1 /\ parts[reread.row].page # 0) => reread.from.pages = <<parts[reread.row].page>>

\* A file's pages end as rows that stand apart, or are named; and re-reading keeps them apart.
FilesHold == PagesAccounted /\ PlacesApart /\ RereadIsOwn
=============================================================================
