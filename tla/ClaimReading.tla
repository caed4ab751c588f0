------------------------------ MODULE ClaimReading ------------------------------
(***************************************************************************)
(* How an uploaded claim is understood before anything of it is saved        *)
(* (claim-import.js _run): its archives unpacked within the import's limit   *)
(* (claim-archive.js), its forms read line by line (claim-form.js), every    *)
(* receipt paired with the line it belongs to (claim-matcher.js), and the    *)
(* categories left blank suggested (claim-categories.js).                    *)
(*                                                                         *)
(* A row of a form is what its cells tell: how many known headings it holds, *)
(* whether it has text, a figure, a description of its own, its date and     *)
(* number, its amount, and whether a cell begins as the footer's do.  Days   *)
(* and amounts are numbers; `word' stands for what a description and a       *)
(* merchant have in common.                                                  *)
(***************************************************************************)
EXTENDS Integers, Sequences, FiniteSets
Seqs == INSTANCE SequencesExt

CONSTANTS
  Bundle,       \* uploads: [archives, forms], archives of [file, type], forms of [rows, categories]
  ReadOf,       \* what a file is read as: [file -> sequence of [date, total, word]], empty if unreadable
  HeaderHits,   \* headings that make a header
  HeaderRows,   \* rows a header is looked for in
  MaxReceipts,  \* MAX_RECEIPTS of an import
  Invented      \* a category on no form

EntryType == {"fine", "large", "fake", "torn", "junk", "other"}
ArchiveEntry == [file : DOMAIN ReadOf, type : EntryType]
IsList(s) == s \in Seq({s[i] : i \in DOMAIN s})
\* Forms, their rows and reads of any kind.
ASSUME ClaimAssumption ==
  /\ {HeaderHits, HeaderRows, MaxReceipts} \subseteq Nat
  /\ \A b \in Bundle : b.archives \in Seq(Seq(ArchiveEntry)) /\ IsList(b.forms)
  /\ \A b \in Bundle : \A f \in DOMAIN b.forms : IsList(b.forms[f].rows)
  /\ \A file \in DOMAIN ReadOf : IsList(ReadOf[file])

VARIABLES
  bundle,    \* the upload
  doing,     \* the stage of the job
  entries,   \* the receipts unpacked
  skipped,   \* the files left out, each with a reason: [entry, why]
  lines,     \* the claim lines: a row with its key [form, row]
  reads,     \* what was read: [date, total, word, file, part, readable]
  pairs,     \* [line, receipt], positions in `lines' and `reads'
  answered,  \* what the model said of the lines asked about: [key, category]
  suggested, \* the suggestions kept: [key, category]
  claimed    \* the records made: [key, read, category]

claimReadingVars == <<bundle, doing, entries, skipped, lines, reads, pairs, answered, suggested, claimed>>

NoCategory == "none"
Unstated == -1
NoDay == 0
KeyOf(form, row) == [form |-> form, row |-> row]
NoKey == KeyOf(0, 0)

ClaimReadingTypeInv ==
  /\ \A k \in DOMAIN entries : entries[k] \in DOMAIN ReadOf
  /\ doing \in {"unpacking", "reading form", "reading receipts", "matching", "categorising", "saving", "saved", "failed"}
  /\ Len(entries) <= MaxReceipts
  /\ \A p \in pairs : p[1] \in DOMAIN lines /\ p[2] \in DOMAIN reads

ClaimReadingInit ==
  /\ bundle \in Bundle /\ doing = "unpacking"
  /\ entries = <<>> /\ skipped = {} /\ lines = <<>> /\ reads = <<>>
  /\ pairs = {} /\ answered = {} /\ suggested = {} /\ claimed = {}

-----------------------------------------------------------------------------
(* The archives.                                                           *)

\* The entries, one archive after another, and how many receipts were kept before each: an archive
\* may add what those before it left.
EntryAt(e) == Seqs!FlattenSeq(bundle.archives)[e]
Entries == DOMAIN Seqs!FlattenSeq(bundle.archives)
KeptBefore(e) == {d \in Entries : EntryAt(d).type = "fine" /\ d < e}
Room(e) == MaxReceipts - Cardinality(KeptBefore(e))
\* The type is asked before the limit, the limit before the size; a receipt by its name may not be one.
ReasonOf(e) ==
  CASE EntryAt(e).type = "junk"                                  -> "system file"
    [] EntryAt(e).type = "other"                                 -> "type"
    [] EntryAt(e).type \notin {"junk", "other"} /\ Room(e) <= 0   -> "limit"
    [] EntryAt(e).type = "large" /\ Room(e) > 0                  -> "size"
    [] EntryAt(e).type \in {"fake", "torn"} /\ Room(e) > 0        -> "bytes"
    [] OTHER                                                   -> "kept"

\* An import of too many receipts is refused, not cut short.
Unpack ==
  /\ doing = "unpacking"
  /\ LET kept == {e \in Entries : ReasonOf(e) = "kept"}
     IN entries' = [k \in 1 .. Cardinality(kept) |-> EntryAt(CHOOSE e \in kept : Cardinality(KeptBefore(e)) = k - 1).file]
  /\ skipped' = {[entry |-> e, why |-> ReasonOf(e)] : e \in {d \in Entries : ReasonOf(d) \notin {"kept", "system file"}}}
  /\ doing' = IF \E e \in Entries : ReasonOf(e) = "limit" THEN "failed" ELSE "reading form"
  /\ UNCHANGED <<bundle, lines, reads, pairs, answered, suggested, claimed>>

-----------------------------------------------------------------------------
(* The forms.                                                              *)

\* The row below carries the header on: text, no figure, nothing of its own where a line has something.
ContinuesHeader(r) == r.text /\ ~r.figure /\ ~r.described /\ r.date = NoDay /\ r.amount = Unstated
HeaderAt(sheet) == {i \in DOMAIN sheet : i <= HeaderRows /\ sheet[i].heads >= HeaderHits}
LastOfHeader(sheet, top) ==
  LET goesOn(i) == i \in DOMAIN sheet /\ ContinuesHeader(sheet[i])
  IN IF goesOn(top + 1) THEN IF goesOn(top + 2) THEN top + 2 ELSE top + 1 ELSE top

IsLine(r) == r.date # NoDay \/ r.no # 0
EndsForm(r) == ~IsLine(r) /\ r.marker
Filled(r) == r.described \/ r.amount > 0
LineOf(sheet, form, i) ==
  [key |-> KeyOf(form, i), date |-> sheet[i].date, amount |-> sheet[i].amount, word |-> sheet[i].word, category |-> sheet[i].category]
LinesIn(sheet, form) ==
  IF HeaderAt(sheet) = {} THEN <<>>
  ELSE LET top  == CHOOSE i \in HeaderAt(sheet) : \A j \in HeaderAt(sheet) : i <= j
           last == LastOfHeader(sheet, top)
           body == {i \in DOMAIN sheet : Filled(sheet[i]) /\ i > last /\ \A j \in last + 1 .. i : ~EndsForm(sheet[j])}
       IN [n \in 1 .. Cardinality(body) |-> LineOf(sheet, form, CHOOSE i \in body : Cardinality({j \in body : j < i}) = n - 1)]
ReadForms ==
  /\ doing = "reading form" /\ doing' = "reading receipts"
  /\ lines' = Seqs!FlattenSeq([f \in DOMAIN bundle.forms |-> LinesIn(bundle.forms[f].rows, f)])
  /\ UNCHANGED <<bundle, entries, skipped, reads, pairs, answered, suggested, claimed>>
\* The categories are headings of the forms that have a header.
Categories == UNION {bundle.forms[f].categories : f \in {g \in DOMAIN bundle.forms : HeaderAt(bundle.forms[g].rows) # {}}}

\* Every file, each part of it a read of its own; one that cannot be read takes part too.
Blank(file) == [date |-> NoDay, total |-> Unstated, word |-> "", file |-> file, part |-> 1, readable |-> FALSE]
ReadsOf(file) ==
  IF ReadOf[file] = <<>> THEN <<Blank(file)>>
  ELSE [k \in DOMAIN ReadOf[file] |-> [date |-> ReadOf[file][k].date, total |-> ReadOf[file][k].total, word |-> ReadOf[file][k].word,
                                       file |-> file, part |-> k, readable |-> TRUE]]
ReadReceipts ==
  /\ doing = "reading receipts" /\ doing' = "matching"
  /\ reads' = Seqs!FlattenSeq([i \in DOMAIN entries |-> ReadsOf(entries[i])])
  /\ UNCHANGED <<bundle, entries, skipped, lines, pairs, answered, suggested, claimed>>

-----------------------------------------------------------------------------
(* The pairs.                                                              *)

Stated(a) == a > 0
Apart(a, b) == IF a > b THEN a - b ELSE b - a
\* The date leads; the amount and the words bear it out.
Score(line, read) ==
  LET days == Apart(line.date, read.date)
      date == IF line.date = NoDay \/ read.date = NoDay \/ days > 1 THEN 0 ELSE IF days = 0 THEN 100 ELSE 45
      amount == IF ~Stated(line.amount) \/ ~Stated(read.total) THEN 0
                ELSE IF line.amount = read.total THEN 60
                ELSE IF 100 * Apart(line.amount, read.total) <= line.amount THEN 25 ELSE 0
      word == IF line.word # "" /\ line.word = read.word THEN 15 ELSE 0
  IN date + amount + word
MinScore == 45

\* Best first, each line and each receipt once; of equals, the first.
Better(p, q) ==
  LET s(x) == Score(lines[x[1]], reads[x[2]])
  IN \/ s(p) > s(q) \/ (s(p) = s(q) /\ (p[1] < q[1] \/ (p[1] = q[1] /\ p[2] < q[2])))
Free(candidates, taken) == {p \in candidates : \A q \in taken : q[1] # p[1] /\ q[2] # p[2]}
Best(candidates, taken) ==
  CHOOSE p \in Free(candidates, taken) : \A q \in Free(candidates, taken) : p = q \/ Better(p, q)
Assigned(candidates) ==
  LET taken[n \in 0 .. Len(lines)] ==
        IF n = 0 THEN {}
        ELSE IF Free(candidates, taken[n - 1]) = {} THEN taken[n - 1]
        ELSE taken[n - 1] \cup {Best(candidates, taken[n - 1])}
  IN taken[Len(lines)]
MatchClaims ==
  /\ doing = "matching" /\ doing' = "categorising"
  /\ pairs' = Assigned({p \in (DOMAIN lines) \X (DOMAIN reads) : Score(lines[p[1]], reads[p[2]]) >= MinScore})
  /\ UNCHANGED <<bundle, entries, skipped, lines, reads, answered, suggested, claimed>>

-----------------------------------------------------------------------------
(* The categories.                                                         *)

\* Paired lines with no category are asked about, by their place in the list; an answer of no
\* form's category is dropped, and a suggestion goes by the key of the line it is for.
AskedAbout == {p[1] : p \in {q \in pairs : lines[q[1]].category = NoCategory}}
Suggest ==
  /\ doing = "categorising" /\ doing' = "saving"
  /\ IF AskedAbout = {} \/ Categories = {} THEN UNCHANGED <<answered, suggested>>
     ELSE \E said \in [AskedAbout -> Categories \cup {NoCategory, Invented}] :
            /\ answered' = {[key |-> lines[n].key, category |-> said[n]] : n \in AskedAbout}
            /\ suggested' = {[key |-> lines[n].key, category |-> said[n]] : n \in {m \in AskedAbout : said[m] \in Categories}}
  /\ UNCHANGED <<bundle, entries, skipped, lines, reads, pairs, claimed>>

\* A record for every pair, every line without a receipt, and every receipt without a line (whose
\* category is the receipt's, and left out).
SuggestionFor(line) ==
  LET of == {s \in suggested : s.key = line.key}
  IN IF of = {} THEN NoCategory ELSE (CHOOSE s \in of : TRUE).category
CategoryOf(line) == IF line.category # NoCategory THEN line.category ELSE SuggestionFor(line)
Save ==
  /\ doing = "saving" /\ doing' = "saved"
  /\ claimed' =
       {[key |-> lines[p[1]].key, read |-> p[2], category |-> CategoryOf(lines[p[1]])] : p \in pairs}
       \cup {[key |-> lines[n].key, read |-> 0, category |-> lines[n].category] : n \in DOMAIN lines \ {p[1] : p \in pairs}}
       \cup {[key |-> NoKey, read |-> n, category |-> NoCategory] : n \in DOMAIN reads \ {p[2] : p \in pairs}}
  /\ UNCHANGED <<bundle, entries, skipped, lines, reads, pairs, answered, suggested>>

ClaimReadingNext == Unpack \/ ReadForms \/ ReadReceipts \/ MatchClaims \/ Suggest \/ Save
ClaimReadingSpec == ClaimReadingInit /\ [][ClaimReadingNext]_claimReadingVars

-----------------------------------------------------------------------------
\* Every file of an archive that is no system file is read or left out with a reason, and no import
\* that ran past its limit goes on without the rest (claim-import.js:217).
NoFileDropped ==
  doing \notin {"unpacking", "failed"} =>
    /\ Cardinality({e \in Entries : EntryAt(e).type # "junk"}) = Len(entries) + Cardinality(skipped)
    /\ Len(entries) <= MaxReceipts
\* Every claim line of a form is read, whatever it says of a total, and nothing of the header or the
\* footer is.  `isClaim' tells which rows the claimant filled in; one with neither a date nor a
\* number is known by nothing when it begins as a footer does.
FormIsRead ==
  doing \notin {"unpacking", "reading form", "failed"} =>
    \A f \in DOMAIN bundle.forms : \A i \in DOMAIN bundle.forms[f].rows :
      LET r == bundle.forms[f].rows[i] IN
      (IsLine(r) \/ ~r.marker) => (r.isClaim <=> \E n \in DOMAIN lines : lines[n].key = KeyOf(f, i))
\* Each line and each receipt is in one record; a line and a receipt that suit each other better
\* than what they got are not left apart, so a date is never given up for an amount.
MatchIsStable ==
  doing = "saved" =>
    /\ \A n \in DOMAIN lines : Cardinality({c \in claimed : c.key = lines[n].key}) = 1
    /\ \A n \in DOMAIN reads : Cardinality({c \in claimed : c.read = n}) = 1
    /\ \A l \in DOMAIN lines, r \in DOMAIN reads :
         Score(lines[l], reads[r]) >= MinScore =>
           \E p \in pairs : (p[1] = l \/ p[2] = r) /\ Score(lines[p[1]], reads[p[2]]) >= Score(lines[l], reads[r])
\* The category of a line is the claimant's, or what the model said of that very line.
CategoryIsItsOwn ==
  doing = "saved" =>
    \A c \in claimed : \A n \in DOMAIN lines :
      (c.key = lines[n].key /\ c.category # lines[n].category) =>
        lines[n].category = NoCategory /\ [key |-> c.key, category |-> c.category] \in answered

\* What a person uploads as a claim is what the import makes records of.
ClaimReadHolds == NoFileDropped /\ FormIsRead /\ MatchIsStable /\ CategoryIsItsOwn
=============================================================================
