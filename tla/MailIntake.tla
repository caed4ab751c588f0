------------------------------ MODULE MailIntake ------------------------------
(***************************************************************************)
(* Receipts that come many at once: mail forwarded to a person's address    *)
(* (routes/inbound.js), and a saved mail or a zip dropped on a case         *)
(* (routes/receipts.js).  What in a mail is a receipt (intake/email.js),    *)
(* what a file becomes (intake/convert.js), and storing them one after      *)
(* another while other posts, claims, deletions and restarts go on.         *)
(*                                                                         *)
(* A part of a mail is a PDF, a photo, a HEIC, a picture shown in the       *)
(* message, photo-sized (pasted) or not (logo), one too tiny, a mail, or    *)
(* other, and stands for its bytes.  What is stored is [of, as]: the part   *)
(* as it came or converted, or a message as a PDF, which prints its date in  *)
(* the company's time zone.  Hearing nothing, the provider sends it again:     *)
(* that is one more post of it.                                             *)
(***************************************************************************)
EXTENDS Naturals, Sequences, FiniteSets
Seqs == INSTANCE SequencesExt

CONSTANTS
  Recipient,    \* people with an address of their own, of one company
  MailCase,     \* their cases
  OwnerOf,      \* MailCase -> Recipient
  Mail, Archive,   \* mails and zips
  What,         \* what is in each: [id, from, to, subject, parts, text], [entries, form]
  Post,         \* posts under way at once, numbered
  Nobody,       \* no person, and no case
  Zones,        \* time zones
  DailyLimit, MaxFiles, Quota,        \* the code's own limits
  MaxPosts, MaxMailChanges            \* bounds

ASSUME MailAssumption ==
  /\ Post \subseteq Nat /\ Post # {} /\ IsFiniteSet(Post) /\ DailyLimit \in Nat /\ MaxFiles \in Nat \ {0} /\ Quota \in Nat
  /\ OwnerOf \in [MailCase -> Recipient] /\ Nobody \notin Recipient \cup MailCase
  /\ \A m \in Mail : What[m].subject \in Seq(MailCase) /\ \A j \in DOMAIN What[m].to : What[m].to[j].address \in Nat

IsList(s) == Len(s) \in Nat /\ DOMAIN s = 1..Len(s)
\* What an answer may name of a part: itself, or a mail attached and what is in it.
NamesOf(part) == IF part.kind = "mail" THEN {part.mail.id} \cup {part.mail.parts[k].id : k \in DOMAIN part.mail.parts} ELSE {part.id}
OwnNames(part) ==
  part.kind = "mail" =>
    /\ IsList(part.mail.parts)
    /\ \A k, l \in DOMAIN part.mail.parts :
         part.mail.parts[k].id # part.mail.id /\ (k # l => part.mail.parts[k].id # part.mail.parts[l].id)
\* A name stands for the thing itself, so the things in one mail or zip have each their own.
ASSUME ToldApart ==
  /\ \A m \in Mail :
       /\ "entries" \notin DOMAIN What[m] /\ IsList(What[m].parts)
       /\ \A i \in DOMAIN What[m].parts : OwnNames(What[m].parts[i]) /\ What[m].id \notin NamesOf(What[m].parts[i])
       /\ \A i, j \in DOMAIN What[m].parts : i # j => NamesOf(What[m].parts[i]) \cap NamesOf(What[m].parts[j]) = {}
  /\ \A z \in Archive :
       /\ "entries" \in DOMAIN What[z] /\ IsList(What[z].entries)
       /\ \A i, j \in DOMAIN What[z].entries : i # j => What[z].entries[i].id # What[z].entries[j].id

VARIABLES
  posts,        \* the posts under way
  onFile,       \* receipts: [bytes, owner, case, via, known]
  inbox,        \* each recipient: [address, counted, removed]
  zoneNow,      \* the company's time zone
  caseOpen,     \* MailCase -> BOOLEAN
  sealed,       \* what each case held when it was claimed
  posted, mailChanges

mailVars == <<posts, onFile, inbox, zoneNow, caseOpen, sealed, posted, mailChanges>>

Idle == [phase |-> "idle"]

MailInit ==
  /\ posts = [d \in Post |-> Idle] /\ onFile = {}
  /\ inbox = [p \in Recipient |-> [address |-> 1, counted |-> 0, removed |-> FALSE]] /\ zoneNow = CHOOSE z \in Zones : TRUE
  /\ caseOpen = [c \in MailCase |-> TRUE] /\ sealed = [c \in MailCase |-> {}]
  /\ posted = 0 /\ mailChanges = 0

-----------------------------------------------------------------------------
(* The receipts in a mail. *)

Kept(x, as)     == [of |-> x, as |-> as]
Got(fs, ss)     == [files |-> fs, skipped |-> ss]
FileOf(part)    == Got(<<[name |-> part.id, bytes |-> Kept(part.id, "as is"), kind |-> part.kind]>>, <<>>)
LeftOut(id)     == Got(<<>>, <<id>>)
MessagePdf(m, zone) == [name |-> m.id, bytes |-> Kept(m.id, zone), kind |-> "pdf"]

\* A PDF or a picture, unless it is tiny or part of the message's look.
IsReceipt(part) == part.kind \in {"pdf", "photo", "heic", "pasted"}

All(gots) == Got(Seqs!FlattenSeq([i \in DOMAIN gots |-> gots[i].files]), Seqs!FlattenSeq([i \in DOMAIN gots |-> gots[i].skipped]))
\* mutant: what is over the limit is left out without a word.
LimitedQuietly(got) == Got(SubSeq(got.files, 1, IF Len(got.files) < MaxFiles THEN Len(got.files) ELSE MaxFiles), got.skipped)
\* As many as a mail may bring; the others say so.
Limited(got) ==
  LET n == IF Len(got.files) < MaxFiles THEN Len(got.files) ELSE MaxFiles
      over == SubSeq(got.files, n + 1, Len(got.files))
  IN Got(SubSeq(got.files, 1, n), got.skipped \o [i \in DOMAIN over |-> over[i].name])
\* A mail with nothing attached is the receipt, if it has any text.
OrTheMessage(m, got, zone) ==
  IF got.files # <<>> THEN got
  ELSE IF m.text THEN Got(<<MessagePdf(m, zone)>>, got.skipped)
  ELSE Got(<<>>, Append(got.skipped, m.id))

\* A mail attached to a mail is opened; one inside that is not.
InnerPart(part) == IF IsReceipt(part) THEN FileOf(part) ELSE LeftOut(part.id)
InnerReceipts(m, zone) == OrTheMessage(m, Limited(All([i \in DOMAIN m.parts |-> InnerPart(m.parts[i])])), zone)
OuterPart(part, zone) == IF part.kind = "mail" THEN InnerReceipts(part.mail, zone) ELSE InnerPart(part)
ReceiptsFromMail(m, zone) == OrTheMessage(m, Limited(All([i \in DOMAIN m.parts |-> OuterPart(m.parts[i], zone)])), zone)

\* The entries of a zip a receipt can be made of, up to the limit.
Unpacked(entry) == IF entry.kind \in {"other", "mail"} THEN LeftOut(entry.id) ELSE FileOf(entry)
ReadArchive(z)  == Limited(All([i \in DOMAIN z.entries |-> Unpacked(z.entries[i])]))

-----------------------------------------------------------------------------
(* A post arrives. *)

PersonFor(to) == {p \in Recipient : to.owner = p /\ to.address = inbox[p].address /\ ~inbox[p].removed}
AddressedBy(m) == UNION {PersonFor(What[m].to[j]) : j \in DOMAIN What[m].to}
OverLimit(p)  == inbox[p].counted >= DailyLimit
TakesReceipts(p, c) == c = Nobody \/ (OwnerOf[c] = p /\ caseOpen[c])

\* It takes the first place that is free: which one makes no difference.
Begin(d, r) ==
  /\ posted < MaxPosts /\ \A e \in Post : posts[e] = Idle => d <= e
  /\ posts' = [posts EXCEPT ![d] = r] /\ posted' = posted + 1
New(via, p, c) == [phase |-> "body", via |-> via, owner |-> p, case |-> c, mail |-> Nobody, todo |-> <<>>, stored |-> <<>>, skipped |-> <<>>,
                   zone |-> "as is", known |-> {q \in Recipient : ~inbox[q].removed}]
\* Nobody can write to an address that is still to be given.
Written(m) == \A j \in DOMAIN What[m].to : \A p \in Recipient : What[m].to[j].owner = p => What[m].to[j].address <= inbox[p].address
\* The recipient the provider names is looked up, and their limit, before the body is read.
InboundNamed(d, m, i) ==
  /\ posts[d] = Idle /\ Written(m)
  /\ \E p \in PersonFor(What[m].to[i]) :
       /\ ~OverLimit(p)
       /\ Begin(d, [New("inbound", p, Nobody) EXCEPT !.mail = m, !.known = AddressedBy(m)])
  /\ UNCHANGED <<zoneNow, onFile, inbox, caseOpen, sealed, mailChanges>>
InboundUnnamed(d, m) ==
  /\ posts[d] = Idle /\ Written(m)
  /\ Begin(d, [New("inbound", Nobody, Nobody) EXCEPT !.mail = m, !.known = AddressedBy(m)])
  /\ UNCHANGED <<zoneNow, onFile, inbox, caseOpen, sealed, mailChanges>>
\* A saved mail or a zip, dropped on a case by its owner.
Dropped(d, via, p, c, what) ==
  /\ posts[d] = Idle /\ ~inbox[p].removed /\ TakesReceipts(p, c)
  /\ Begin(d, [New(via, p, c) EXCEPT !.mail = what])
  /\ UNCHANGED <<zoneNow, onFile, inbox, caseOpen, sealed, mailChanges>>

\* The first case the subject names that is theirs and takes receipts.
CaseFromSubject(p, m) ==
  LET open == {i \in DOMAIN What[m].subject : TakesReceipts(p, What[m].subject[i])}
  IN IF open = {} THEN Nobody ELSE What[m].subject[CHOOSE i \in open : \A j \in open : i <= j]
Done(d) == posts' = [posts EXCEPT ![d] = Idle]
\* The body is there and parsed.  Who it is for is known by now, and only what they sent
\* themselves is taken; it is counted before anything is stored.
Taken(d, p) ==
  LET m == posts[d].mail
  IN IF What[m].from # p THEN Done(d) /\ UNCHANGED inbox
     ELSE /\ inbox' = [inbox EXCEPT ![p].counted = @ + 1]
          /\ posts' = [posts EXCEPT ![d] = [@ EXCEPT !.phase = "sorting", !.owner = p, !.case = CaseFromSubject(p, m), !.zone = zoneNow]]
\* The first of its recipients whose address looks like one of ours.
FirstOurs(m) == UNION {PersonFor(What[m].to[j]) : j \in {1} \cap DOMAIN What[m].to}
ParseInbound(d) ==
  /\ posts[d].phase = "body" /\ posts[d].via = "inbound"
  /\ IF posts[d].owner # Nobody THEN Taken(d, posts[d].owner)
     ELSE IF \E p \in FirstOurs(posts[d].mail) : ~OverLimit(p) THEN \E p \in FirstOurs(posts[d].mail) : Taken(d, p)
     ELSE Done(d) /\ UNCHANGED inbox
  /\ UNCHANGED <<zoneNow, onFile, caseOpen, sealed, posted, mailChanges>>
ParseDropped(d) ==
  /\ posts[d].phase = "body" /\ posts[d].via = "email"
  /\ posts' = [posts EXCEPT ![d] = [@ EXCEPT !.phase = "sorting", !.zone = zoneNow]]
  /\ UNCHANGED <<zoneNow, onFile, inbox, caseOpen, sealed, posted, mailChanges>>

ToStore(d, got) == posts' = [posts EXCEPT ![d] = [@ EXCEPT !.phase = "storing", !.todo = got.files, !.skipped = got.skipped]]
SortMail(d) ==
  /\ posts[d].phase = "sorting"
  /\ ToStore(d, ReceiptsFromMail(What[posts[d].mail], posts[d].zone))
  /\ UNCHANGED <<zoneNow, onFile, inbox, caseOpen, sealed, posted, mailChanges>>
\* A zip with a claim form in it is imported as a claim instead.
Unpack(d) ==
  /\ posts[d].phase = "body" /\ posts[d].via = "zip"
  /\ IF What[posts[d].mail].form THEN Done(d) ELSE ToStore(d, ReadArchive(What[posts[d].mail]))
  /\ UNCHANGED <<zoneNow, onFile, inbox, caseOpen, sealed, posted, mailChanges>>

-----------------------------------------------------------------------------
(* Each file is stored as if dropped by itself (storeReceipt). *)

\* mutant: the case is not looked at again after the conversion.
StillOpenThen(p, c) == TRUE
StillOpen(p, c)     == TakesReceipts(p, c)

Skip(d) == posts' = [posts EXCEPT ![d].phase = "storing", ![d].todo = Tail(@), ![d].skipped = Append(@, Head(posts[d].todo).name)]
BeginFile(d) ==
  /\ posts[d].phase = "storing" /\ posts[d].todo # <<>>
  /\ IF TakesReceipts(posts[d].owner, posts[d].case) THEN posts' = [posts EXCEPT ![d].phase = "converting"] ELSE Skip(d)
  /\ UNCHANGED <<zoneNow, onFile, inbox, caseOpen, sealed, posted, mailChanges>>

\* A HEIC becomes a JPEG, if its decoder manages in time; what the store takes is kept.
ToStorable(f) == IF f.kind = "heic" THEN {Kept(f.bytes.of, "jpeg")} ELSE {f.bytes}
FailsToConvert(d) ==
  /\ posts[d].phase = "converting" /\ Head(posts[d].todo).kind = "heic"
  /\ Skip(d)
  /\ UNCHANGED <<zoneNow, onFile, inbox, caseOpen, sealed, posted, mailChanges>>
BytesStoredBy(p)     == Cardinality({r \in onFile : r.owner = p})
FindReceiptByHash(b) == {r \in onFile : r.bytes = b}
\* From here to the row in the table nothing waits.
StoreFile(d) ==
  /\ posts[d].phase = "converting"
  /\ \E b \in ToStorable(Head(posts[d].todo)) :
       IF ~StillOpen(posts[d].owner, posts[d].case) \/ BytesStoredBy(posts[d].owner) >= Quota \/ FindReceiptByHash(b) # {}
       THEN Skip(d) /\ UNCHANGED onFile
       ELSE /\ onFile' = onFile \cup {[bytes |-> b, owner |-> posts[d].owner, case |-> posts[d].case, via |-> posts[d].via, known |-> posts[d].known]}
            /\ posts' = [posts EXCEPT ![d].phase = "storing", ![d].todo = Tail(@), ![d].stored = Append(@, Head(posts[d].todo).name)]
  /\ UNCHANGED <<zoneNow, inbox, caseOpen, sealed, posted, mailChanges>>
\* Answered, heard or not.
Answer(d) ==
  /\ posts[d].phase = "storing" /\ posts[d].todo = <<>>
  /\ Done(d)
  /\ UNCHANGED <<zoneNow, onFile, inbox, caseOpen, sealed, posted, mailChanges>>

-----------------------------------------------------------------------------
(* Meanwhile. *)

Meanwhile == mailChanges < MaxMailChanges /\ mailChanges' = mailChanges + 1
\* A new address retires the old.
NewInboundToken(p) ==
  /\ Meanwhile /\ inbox' = [inbox EXCEPT ![p].address = @ + 1]
  /\ UNCHANGED <<zoneNow, posts, onFile, caseOpen, sealed, posted>>
RemovePerson(p) ==
  /\ Meanwhile /\ ~inbox[p].removed /\ inbox' = [inbox EXCEPT ![p].removed = TRUE]
  /\ UNCHANGED <<zoneNow, posts, onFile, caseOpen, sealed, posted>>
ChangeZone(z) ==
  /\ Meanwhile /\ zoneNow # z /\ zoneNow' = z
  /\ UNCHANGED <<posts, onFile, inbox, caseOpen, sealed, posted>>
\* A mail counted is a day old.
DayPasses(p) ==
  /\ Meanwhile /\ inbox[p].counted > 0 /\ inbox' = [inbox EXCEPT ![p].counted = @ - 1]
  /\ UNCHANGED <<zoneNow, posts, onFile, caseOpen, sealed, posted>>
FiledIn(c) == {r \in onFile : r.case = c}
CaseIsClaimed(c) ==
  /\ Meanwhile /\ caseOpen[c] /\ FiledIn(c) # {}
  /\ caseOpen' = [caseOpen EXCEPT ![c] = FALSE] /\ sealed' = [sealed EXCEPT ![c] = FiledIn(c)]
  /\ UNCHANGED <<zoneNow, posts, onFile, inbox, posted>>
CaseIsReopened(c) ==
  /\ ~caseOpen[c]
  /\ caseOpen' = [caseOpen EXCEPT ![c] = TRUE] /\ sealed' = [sealed EXCEPT ![c] = {}]
  /\ UNCHANGED <<zoneNow, posts, onFile, inbox, posted, mailChanges>>
RemoveReceipt(r) ==
  /\ Meanwhile /\ (r.case # Nobody => caseOpen[r.case])
  /\ onFile' = onFile \ {r}
  /\ UNCHANGED <<zoneNow, posts, inbox, caseOpen, sealed, posted>>
\* The process dies: what is stored stays, the rest is for whoever sends it again.
MailRestart ==
  /\ Meanwhile /\ \E d \in Post : posts[d] # Idle
  /\ posts' = [d \in Post |-> Idle]
  /\ UNCHANGED <<zoneNow, onFile, inbox, caseOpen, sealed, posted>>

MailNext ==
  \/ \E d \in Post :
       \/ ParseInbound(d) \/ ParseDropped(d) \/ SortMail(d) \/ Unpack(d) \/ BeginFile(d) \/ FailsToConvert(d) \/ StoreFile(d) \/ Answer(d)
       \/ \E m \in Mail : InboundUnnamed(d, m) \/ \E i \in DOMAIN What[m].to : InboundNamed(d, m, i)
       \/ \E c \in MailCase : \E m \in Mail : Dropped(d, "email", OwnerOf[c], c, m)
       \/ \E c \in MailCase : \E z \in Archive : Dropped(d, "zip", OwnerOf[c], c, z)
  \/ \E p \in Recipient : NewInboundToken(p) \/ RemovePerson(p) \/ DayPasses(p)
  \/ \E z \in Zones : ChangeZone(z)
  \/ \E c \in MailCase : CaseIsClaimed(c) \/ CaseIsReopened(c)
  \/ \E r \in onFile : RemoveReceipt(r)
  \/ MailRestart

MailSpec == MailInit /\ [][MailNext]_mailVars

-----------------------------------------------------------------------------

MailTypeOk ==
  /\ \A d \in Post : posts[d] = Idle \/ posts[d].phase \in {"body", "sorting", "storing", "converting"}
  /\ \A r \in onFile : r.owner \in Recipient /\ r.case \in MailCase \cup {Nobody}
  /\ inbox \in [Recipient -> [address : Nat, counted : Nat, removed : BOOLEAN]]
  /\ caseOpen \in [MailCase -> BOOLEAN]

\* However often a mail is sent, and by whichever way, a file is kept once.
KeptOnce == \A r, s \in onFile : r.bytes = s.bytes => r = s
\* Mail is kept for the person it was addressed to when it came, and in no case but theirs.
KeptForItsOwner ==
  \A r \in onFile : /\ r.owner \in r.known
                    /\ r.case # Nobody => OwnerOf[r.case] = r.owner
\* A case holds what it held when it was claimed.
NothingJoinsClaimed == \A c \in MailCase : caseOpen[c] \/ FiledIn(c) = sealed[c]
\* The limit of a day is passed by no more mails than were under way at once.
LimitNearlyKept == \A p \in Recipient : inbox[p].counted <= DailyLimit + Cardinality(Post) - 1
UnderQuota == \A p \in Recipient : BytesStoredBy(p) <= Quota

\* What is sent is kept once, for its owner, in no claimed case and within the limits,
\* however posts overlap and are sent again (storeMail, storeReceipt).
MailHolds ==
  /\ MailTypeOk /\ KeptOnce /\ KeptForItsOwner /\ NothingJoinsClaimed /\ LimitNearlyKept /\ UnderQuota

\* What there is in a mail: its parts and those of a mail attached to it; one that has none
\* is there itself.
Inside(m) == IF m.parts = <<>> THEN {m.id} ELSE {m.parts[k].id : k \in DOMAIN m.parts}
Leaves(m) ==
  IF m.parts = <<>> THEN {m.id}
  ELSE UNION {IF m.parts[i].kind = "mail" THEN Inside(m.parts[i].mail) ELSE {m.parts[i].id} : i \in DOMAIN m.parts}
InIt(m) == IF "entries" \in DOMAIN m THEN {m.entries[i].id : i \in DOMAIN m.entries} ELSE Leaves(m)
\* Nothing in a mail or a zip goes without a word: the answer names everything in it,
\* stored or left out, once (receiptsFromMail, readArchive, storeMail).
NothingUnsaid ==
  \A d \in Post : posts[d] # Idle /\ posts[d].phase \in {"storing", "converting"} =>
    LET said == posts[d].stored \o posts[d].skipped \o [i \in DOMAIN posts[d].todo |-> posts[d].todo[i].name]
    IN InIt(What[posts[d].mail]) \subseteq Seqs!ToSet(said) /\ Seqs!IsInjective(said)
=============================================================================
