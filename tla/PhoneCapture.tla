----------------------------- MODULE PhoneCapture -----------------------------
(***************************************************************************)
(* One person's phone links: the codes (receipts/pairing.js), the dialog   *)
(* that shows one (PhonePairingModal.jsx), the pages phones open with it   *)
(* (Capture.jsx) and the routes between them (routes/receipts.js).         *)
(* An upload is checked against its code when it arrives, awaits its       *)
(* conversion, and is counted once it is stored.  An answer may be lost,   *)
(* and the photo sent again while the first copy is still being stored.    *)
(***************************************************************************)
EXTENDS Naturals, FiniteSets

CONSTANTS
  Phone, Photo,
  MaxUses,        \* MAX_USES
  MaxLivePerUser, \* MAX_LIVE_PER_USER
  MaxCodes,       \* bound: the codes ever made, named in order
  MaxTries,       \* bound: how often one photo is sent
  MaxStoring      \* bound: uploads being stored at once

ASSUME PhoneCaptureAssumption ==
  /\ MaxUses \in Nat \ {0} /\ MaxLivePerUser \in Nat \ {0}
  /\ MaxCodes \in Nat /\ MaxTries \in Nat \ {0} /\ MaxStoring \in Nat \ {0}

Code == 1..MaxCodes
Post == Photo \X (1..MaxTries)

VARIABLES
  made,    \* how many codes there have been
  live,    \* the rows not revoked and not past their time
  uses,    \* phone_pairings.uses
  got,     \* receipt_ids: the photos that came through each code
  stored,  \* the photos that are receipts
  owner,   \* "in", "out" or "removed"
  ended,   \* the codes made before the person's sessions last ended
  dialog,  \* what the desktop shows
  page,    \* what each phone shows
  item,    \* each photo: whose page it is on, its state, and the sending of it
  post     \* each sending of a photo, as the server has it

captureVars == <<made, live, uses, got, stored, owner, ended, dialog, page, item, post>>

NoPage == [at |-> "closed", code |-> 0, left |-> 0, dead |-> FALSE]
NoItem == [of |-> "nobody", at |-> "none", try |-> 0]

CaptureTypeOK ==
  /\ made \in 0..MaxCodes /\ ended \in 0..MaxCodes
  /\ live \subseteq Code
  /\ uses \in [Code -> Nat]
  /\ got \in [Code -> SUBSET Photo]
  /\ stored \subseteq Photo
  /\ owner \in {"in", "out", "removed"}
  /\ dialog \in [at : {"closed", "opening", "left", "open"}, code : 0..MaxCodes, photos : SUBSET Photo]
  /\ page \in [Phone -> [at : {"closed", "ready", "expired"}, code : 0..MaxCodes, left : 0..MaxUses, dead : BOOLEAN]]
  /\ item \in [Photo -> [of : Phone \cup {"nobody"}, try : 0..MaxTries,
                         at : {"none", "waiting", "sending", "sent", "duplicate", "again", "failed", "over"}]]
  /\ post \in [Post -> {"none", "arriving", "storing", "201", "409", "401", "refused"}]

CaptureInit ==
  /\ made = 0 /\ ended = 0 /\ live = {}
  /\ uses = [c \in Code |-> 0] /\ got = [c \in Code |-> {}]
  /\ stored = {} /\ owner = "in"
  /\ dialog = [at |-> "closed", code |-> 0, photos |-> {}]
  /\ page = [h \in Phone |-> NoPage]
  /\ item = [x \in Photo |-> NoItem]
  /\ post = [s \in Post |-> "none"]

serverVars == <<made, live, uses, got, stored, owner, ended>>

-----------------------------------------------------------------------------
(* The codes.                                                              *)

\* verify: what lets an upload in.
\* mutant: the look that describes a code is asked to let an upload in.
StatusAuthorises(c) == c \in live /\ owner # "removed"

Verify(c) == c \in live /\ uses[c] < MaxUses /\ owner # "removed"

\* create: one code more than a person may hold retires the one next to expire, which
\* is any: a photo puts a code's time off.
Create ==
  LET most == IF Cardinality(live) < MaxLivePerUser THEN Cardinality(live) ELSE MaxLivePerUser - 1 IN
  /\ made' = made + 1
  /\ \E kept \in SUBSET live : Cardinality(kept) = most /\ live' = kept \cup {made'}

\* Half an hour since its last photo, and somebody asks about a code, which sweeps every
\* one past its time; until then its row counts what is stored.
Expire(c) ==
  /\ c \in live /\ live' = live \ {c}
  /\ UNCHANGED <<made, uses, got, stored, owner, ended, dialog, page, item, post>>

\* Signing out, a new password and being removed: revokeForUser.
SessionsEnd(to) == owner' = to /\ ended' = made /\ live' = {}

SignOut(to) ==
  /\ owner = "in"
  /\ SessionsEnd(to)
  /\ UNCHANGED <<made, uses, got, stored, dialog, page, item, post>>

SignInAgain ==
  /\ owner # "in" /\ owner' = "in"
  /\ UNCHANGED <<made, live, uses, got, stored, ended, dialog, page, item, post>>

-----------------------------------------------------------------------------
(* The dialog.                                                             *)

Open ==
  /\ dialog.at = "closed" /\ owner = "in" /\ made < MaxCodes
  /\ dialog' = [at |-> "opening", code |-> 0, photos |-> {}]
  /\ UNCHANGED <<serverVars, page, item, post>>

\* The code arrives: at a dialog already closed it is ended at once.
Minted ==
  /\ dialog.at \in {"opening", "left"} /\ owner = "in" /\ made < MaxCodes
  /\ IF dialog.at = "opening"
     THEN Create /\ dialog' = [dialog EXCEPT !.at = "open", !.code = made + 1]
     ELSE /\ made' = made + 1 /\ dialog' = [dialog EXCEPT !.at = "closed"]
          /\ live' = {k \in live : Cardinality({m \in live : m > k}) < MaxLivePerUser - 1}
  /\ UNCHANGED <<uses, got, stored, owner, ended, page, item, post>>

Refused ==
  /\ dialog.at \in {"opening", "left"} /\ owner # "in"
  /\ dialog' = [dialog EXCEPT !.at = "closed"]
  /\ UNCHANGED <<serverVars, page, item, post>>

\* Closing revokes the code it showed; the request may not get there.
Close ==
  /\ dialog.at \in {"opening", "open"}
  /\ dialog' = [dialog EXCEPT !.at = IF @ = "open" THEN "closed" ELSE "left"]
  /\ live' \in IF dialog.at = "open" /\ owner = "in" THEN {live, live \ {dialog.code}} ELSE {live}
  /\ UNCHANGED <<made, uses, got, stored, owner, ended, page, item, post>>

\* mutant: the list is whatever the last answer held.
ShownAsAnswered(answer) == answer

\* The list only grows: a code that is gone answers with no photos.
Shown(answer) ==
  IF Cardinality(answer) >= Cardinality(dialog.photos) THEN answer ELSE dialog.photos

Poll ==
  /\ dialog.at = "open" /\ owner = "in"
  /\ dialog' = [dialog EXCEPT !.photos = Shown(IF dialog.code \in live THEN got[dialog.code] ELSE {})]
  /\ UNCHANGED <<serverVars, page, item, post>>

-----------------------------------------------------------------------------
(* A phone.                                                                *)

Scan(h) ==
  LET c == dialog.code IN
  /\ page[h].at = "closed" /\ dialog.at = "open"
  /\ page' = [page EXCEPT ![h] =
       [at |-> IF c \in live THEN "ready" ELSE "expired", code |-> c, dead |-> FALSE,
        left |-> IF c \in live /\ uses[c] < MaxUses THEN MaxUses - uses[c] ELSE 0]]
  /\ UNCHANGED <<serverVars, dialog, item, post>>

Pick(h, x) ==
  /\ page[h].at = "ready" /\ page[h].left # 0 /\ item[x] = NoItem
  /\ item' = [item EXCEPT ![x] = [of |-> h, at |-> "waiting", try |-> 0]]
  /\ UNCHANGED <<serverVars, dialog, page, post>>

\* One at a time; past the last photo, or on a dead link, nothing is sent.
SendOne(x) ==
  LET h == item[x].of  n == item[x].try + 1 IN
  /\ item[x].at = "waiting" /\ n <= MaxTries
  /\ \A y \in Photo : item[y].of = h => item[y].at # "sending"
  /\ IF page[h].dead \/ page[h].left = 0
     THEN /\ item' = [item EXCEPT ![x].at = IF page[h].dead THEN "failed" ELSE "over"]
          /\ UNCHANGED post
     ELSE /\ item' = [item EXCEPT ![x].at = "sending", ![x].try = n]
          /\ post' = [post EXCEPT ![<<x, n>>] = "arriving"]
  /\ UNCHANGED <<serverVars, dialog, page>>

\* No answer: the photo is still here, to be tried again.
NothingBack(x) ==
  /\ item[x].at = "sending"
  /\ item' = [item EXCEPT ![x].at = "again"]
  /\ post' = [post EXCEPT ![<<x, item[x].try>>] = IF @ \in {"arriving", "storing"} THEN @ ELSE "none"]
  /\ UNCHANGED <<serverVars, dialog, page>>

TryAgain(x) ==
  /\ item[x].at = "again" /\ item[x].try < MaxTries
  /\ item' = [item EXCEPT ![x].at = "waiting"]
  /\ UNCHANGED <<serverVars, dialog, page, post>>

Says(answer) ==
  CASE answer = "201" -> "sent" [] answer = "409" -> "duplicate" [] OTHER -> "failed"

Answered(x) ==
  LET h == item[x].of  answer == post[<<x, item[x].try>>] IN
  /\ item[x].at = "sending" /\ answer \notin {"arriving", "storing"}
  /\ item' = [item EXCEPT ![x].at = Says(answer)]
  /\ page' = [page EXCEPT
       ![h].left = IF answer = "201" /\ @ > 0 THEN @ - 1 ELSE @,
       ![h].dead = @ \/ answer = "401",
       ![h].at = IF answer = "401" THEN "expired" ELSE @]
  /\ post' = [post EXCEPT ![<<x, item[x].try>>] = "none"]
  /\ UNCHANGED <<serverVars, dialog>>

\* The poll of what was read: a link the server has forgotten is over.
PagePoll(h) ==
  LET c == page[h].code IN
  /\ page[h].at = "ready" /\ \E x \in Photo : item[x].of = h /\ item[x].at = "sent"
  /\ page' = [page EXCEPT
       ![h].at = IF c \in live THEN @ ELSE "expired",
       ![h].left = IF c \in live /\ uses[c] >= MaxUses THEN 0 ELSE @]
  /\ UNCHANGED <<serverVars, dialog, item, post>>

-----------------------------------------------------------------------------
(* POST /capture/:token.                                                   *)

CodeOf(s) == page[item[s[1]].of].code

\* An answer nobody waits for any more is gone.
Answers(s, answer) ==
  post' = [post EXCEPT ![s] = IF item[s[1]].at = "sending" /\ item[s[1]].try = s[2] THEN answer ELSE "none"]

Arrives(s) ==
  /\ post[s] = "arriving"
  /\ Cardinality({t \in Post : post[t] = "storing"}) < MaxStoring
  /\ IF Verify(CodeOf(s)) THEN post' = [post EXCEPT ![s] = "storing"] ELSE Answers(s, "401")
  /\ live' = IF owner = "removed" THEN live \ {CodeOf(s)} ELSE live
  /\ UNCHANGED <<made, uses, got, stored, owner, ended, dialog, page, item>>

\* After the conversion: known bytes are refused, others stored and counted.
\* The case may have closed, and other refusals there are: nothing is stored.
Stores(s) ==
  LET x == s[1]  c == CodeOf(s) IN
  /\ post[s] = "storing"
  /\ \/ /\ Answers(s, "refused")
        /\ UNCHANGED <<uses, got, stored>>
     \/ /\ x \in stored
        /\ Answers(s, "409")
        /\ UNCHANGED <<uses, got, stored>>
     \/ /\ x \notin stored
        /\ Answers(s, "201")
        /\ stored' = stored \cup {x}
        /\ uses' = IF c \in live THEN [uses EXCEPT ![c] = @ + 1] ELSE uses
        /\ got' = IF c \in live THEN [got EXCEPT ![c] = @ \cup {x}] ELSE got
  /\ UNCHANGED <<made, live, owner, ended, dialog, page, item>>

CaptureNext ==
  \/ \E c \in Code : Expire(c)
  \/ \E to \in {"in", "out", "removed"} : SignOut(to)
  \/ SignInAgain \/ Open \/ Minted \/ Refused \/ Close \/ Poll
  \/ \E h \in Phone : Scan(h) \/ PagePoll(h)
  \/ \E h \in Phone, x \in Photo : Pick(h, x)
  \/ \E x \in Photo : SendOne(x) \/ NothingBack(x) \/ TryAgain(x) \/ Answered(x)
  \/ \E s \in Post : Arrives(s) \/ Stores(s)

CaptureSpec == CaptureInit /\ [][CaptureNext]_captureVars

-----------------------------------------------------------------------------
(* Properties.                                                             *)

\* A code takes no more photos than it allows, but for the ones already past
\* the check when it took its last.
CapHeld ==
  \A c \in Code : uses[c] + Cardinality({s \in Post : post[s] = "storing" /\ CodeOf(s) = c})
                  <= MaxUses - 1 + MaxStoring

\* A code made before a sign-out, a new password or a removal is never good
\* again, not after the person is back either.
OldCodesDead == live \cap 1..ended = {}

\* What the phone says arrived is on the server, whichever copies of it were
\* lost or sent twice, and calls a link full that still is one only when it is.
PhoneTruthful ==
  /\ \A x \in Photo : item[x].at \in {"sent", "duplicate"} => x \in stored
  /\ \A h \in Phone : page[h].at = "ready" /\ page[h].left = 0 /\ page[h].code \in live =>
                      uses[page[h].code] >= MaxUses

CaptureHolds == CaptureTypeOK /\ CapHeld /\ OldCodesDead /\ PhoneTruthful

\* A photo the dialog has shown does not vanish from it.
ShownStays == [][dialog.at = "open" /\ dialog'.at = "open" => dialog.photos \subseteq dialog'.photos]_captureVars
=============================================================================
