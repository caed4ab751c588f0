---------------------------- MODULE Intake_proofs ----------------------------
(***************************************************************************)
(* What holds of what comes in beside single files: mails and zips          *)
(* (MailIntake), and claims with no receipt behind them (Allowances), for   *)
(* any people, cases, mails, posts at once, limits, days and rates.         *)
(***************************************************************************)
EXTENDS MailIntake, Allowances, Counting, FiniteSetTheorems, WellFoundedInduction, TLAPS

-----------------------------------------------------------------------------
(* Mails and zips.                                                          *)

\* A post under way: it is for somebody it was addressed to, or, until its body is read,
\* for whoever its first address still belongs to then.
PostOk(x) ==
  /\ DOMAIN x = {"phase", "via", "owner", "case", "mail", "todo", "stored", "skipped", "zone", "known"}
  /\ x.phase \in {"body", "sorting", "storing", "converting"}
  /\ x.case \in MailCase \cup {Nobody}
  /\ x.phase = "body" /\ x.via = "inbound" => x.mail \in Mail /\ Written(x.mail)
  /\ \/ x.owner \in Recipient /\ x.owner \in x.known
     \/ /\ x.owner = Nobody /\ x.phase = "body" /\ x.via = "inbound"
        /\ \A p \in FirstOurs(x.mail) : p \in x.known

PostsOk ==
  /\ DOMAIN posts = Post
  /\ \A d \in Post : posts[d] = Idle \/ PostOk(posts[d])

\* What passed its owner's limit and is still to be counted.
Coming(p) == {d \in Post : posts[d].phase = "body" /\ posts[d].via = "inbound" /\ posts[d].owner = p}
CountsOk ==
  /\ inbox \in [Recipient -> [address : Nat, counted : Nat, removed : BOOLEAN]]
  /\ \A p \in Recipient : inbox[p].counted + Cardinality(Coming(p)) <= DailyLimit + Cardinality(Post) - 1

FilesOk ==
  /\ IsFiniteSet(onFile)
  /\ \A r \in onFile : r.owner \in Recipient /\ r.case \in MailCase \cup {Nobody}
  /\ caseOpen \in [MailCase -> BOOLEAN] /\ DOMAIN sealed = MailCase
  /\ KeptOnce /\ KeptForItsOwner /\ NothingJoinsClaimed /\ UnderQuota

MailInv == PostsOk /\ CountsOk /\ FilesOk

LEMMA MailInvHolds == MailInv => MailHolds
<1> SUFFICES ASSUME MailInv PROVE MailHolds
  OBVIOUS
<1> USE MailAssumption
<1>1. MailTypeOk
  BY DEF MailInv, PostsOk, PostOk, CountsOk, FilesOk, MailTypeOk
<1>2. ASSUME NEW p \in Recipient PROVE inbox[p].counted <= DailyLimit + Cardinality(Post) - 1
  <2>1. IsFiniteSet(Coming(p))
    BY FS_Subset DEF Coming
  <2>2. Cardinality(Coming(p)) \in Nat /\ Cardinality(Post) \in Nat
    BY <2>1, FS_CardinalityType
  <2>3. inbox[p].counted \in Nat
    BY DEF MailInv, CountsOk
  <2> QED BY <2>2, <2>3 DEF MailInv, CountsOk
<1> QED BY <1>1, <1>2 DEF MailInv, FilesOk, MailHolds, LimitNearlyKept

LEMMA MailInvInit == MailInit => MailInv
<1> SUFFICES ASSUME MailInit PROVE MailInv
  OBVIOUS
<1> USE MailAssumption DEF MailInit
<1>1. PostsOk
  BY DEF PostsOk
<1>2. ASSUME NEW p \in Recipient PROVE inbox[p].counted + Cardinality(Coming(p)) <= DailyLimit + Cardinality(Post) - 1
  <2>1. Coming(p) = {}
    BY DEF Coming, Idle
  <2>2. Cardinality(Coming(p)) = 0
    BY <2>1, FS_EmptySet
  <2>3. Cardinality(Post) \in Nat /\ Cardinality(Post) # 0
    BY FS_CardinalityType, FS_EmptySet
  <2>4. inbox[p].counted = 0 /\ DailyLimit \in Nat
    OBVIOUS
  <2> HIDE DEF MailInit
  <2> QED BY <2>2, <2>3, <2>4
<1>3. CountsOk
  BY <1>2 DEF CountsOk
<1>4. IsFiniteSet(onFile)
  BY FS_EmptySet
<1>5. ASSUME NEW p \in Recipient PROVE BytesStoredBy(p) <= Quota
  <2>1. {r \in onFile : r.owner = p} = {}
    OBVIOUS
  <2> QED BY <2>1, FS_EmptySet DEF BytesStoredBy
<1>6. FilesOk
  BY <1>4, <1>5 DEF FilesOk, KeptOnce, KeptForItsOwner, NothingJoinsClaimed, FiledIn, UnderQuota
<1> QED BY <1>1, <1>3, <1>6 DEF MailInv

\* Addresses are renewed and people removed, never the other way round.
OnlyLater ==
  /\ inbox' \in [Recipient -> [address : Nat, counted : Nat, removed : BOOLEAN]]
  /\ \A p \in Recipient : inbox[p].address <= inbox'[p].address /\ (inbox[p].removed => inbox'[p].removed)

\* A mail on its way is nobody's but those whose it was.
LEMMA StillWritten ==
  ASSUME CountsOk, OnlyLater, NEW m \in Mail, Written(m) PROVE Written(m)' /\ FirstOurs(m)' \subseteq FirstOurs(m)
<1>1. ASSUME NEW j \in DOMAIN What[m].to, NEW p \in Recipient, What[m].to[j].owner = p
      PROVE  What[m].to[j].address <= inbox'[p].address
  <2>1. /\ What[m].to[j].address \in Nat /\ inbox[p].address \in Nat /\ inbox'[p].address \in Nat
        /\ What[m].to[j].address <= inbox[p].address /\ inbox[p].address <= inbox'[p].address
    BY <1>1, MailAssumption DEF CountsOk, OnlyLater, Written
  <2> QED BY <2>1
<1>2. ASSUME NEW p \in FirstOurs(m)' PROVE p \in FirstOurs(m)
  <2>1. 1 \in DOMAIN What[m].to /\ p \in Recipient /\ What[m].to[1].owner = p /\ What[m].to[1].address = inbox'[p].address /\ ~inbox'[p].removed
    BY <1>2 DEF FirstOurs, PersonFor
  <2>2. What[m].to[1].address <= inbox[p].address /\ inbox[p].address <= inbox'[p].address /\ ~inbox[p].removed
    BY <2>1 DEF Written, OnlyLater
  <2>3. inbox[p].address \in Nat /\ inbox'[p].address \in Nat
    BY <2>1 DEF CountsOk, OnlyLater
  <2>4. What[m].to[1].address = inbox[p].address
    BY <2>1, <2>2, <2>3
  <2> QED BY <2>1, <2>2, <2>4 DEF FirstOurs, PersonFor
<1> QED BY <1>1, <1>2 DEF Written

LEMMA OkStays == ASSUME CountsOk, OnlyLater, NEW x, PostOk(x) PROVE PostOk(x)'
<1>1. CASE x.phase = "body" /\ x.via = "inbound"
  <2>1. Written(x.mail)' /\ FirstOurs(x.mail)' \subseteq FirstOurs(x.mail)
    BY <1>1, StillWritten DEF PostOk
  <2> QED BY <1>1, <2>1 DEF PostOk
<1>2. CASE ~(x.phase = "body" /\ x.via = "inbound")
  BY <1>2 DEF PostOk
<1> QED BY <1>1, <1>2

\* A post goes on, or ends.
LEMMA PostMoves ==
  ASSUME PostsOk, CountsOk, OnlyLater, NEW d \in Post, NEW x, x = Idle \/ PostOk(x), posts' = [posts EXCEPT ![d] = x]
  PROVE  PostsOk'
<1>1. ASSUME NEW e \in Post PROVE posts'[e] = Idle \/ PostOk(posts'[e])
  BY DEF PostsOk
<1>2. ASSUME NEW y, PostOk(y) PROVE PostOk(y)'
  BY <1>2, OkStays
<1> QED BY <1>1, <1>2 DEF PostsOk

LEMMA PostsStay == ASSUME PostsOk, CountsOk, OnlyLater, posts' = posts PROVE PostsOk'
<1>1. ASSUME NEW y, PostOk(y) PROVE PostOk(y)'
  BY <1>1, OkStays
<1> QED BY <1>1 DEF PostsOk

LEMMA SameIsLater == ASSUME CountsOk, inbox' = inbox PROVE OnlyLater
BY DEF CountsOk, OnlyLater

\* Who comes is a finite set, and no more than the posts that are not somebody else's.
LEMMA ComingFinite ==
  ASSUME NEW p \in Recipient
  PROVE  /\ IsFiniteSet(Coming(p)) /\ Cardinality(Coming(p)) \in Nat
         /\ \A d \in Post : d \notin Coming(p) => Cardinality(Coming(p)) <= Cardinality(Post) - 1
<1> USE MailAssumption
<1>1. IsFiniteSet(Coming(p)) /\ Cardinality(Coming(p)) \in Nat
  BY FS_Subset, FS_CardinalityType DEF Coming
<1>2. ASSUME NEW d \in Post, d \notin Coming(p) PROVE Cardinality(Coming(p)) <= Cardinality(Post) - 1
  <2>1. Coming(p) \subseteq Post \ {d}
    BY <1>2 DEF Coming
  <2>2. Cardinality(Post \ {d}) = Cardinality(Post) - 1 /\ IsFiniteSet(Post \ {d})
    BY FS_RemoveElement
  <2> QED BY <2>1, <2>2, FS_Subset
<1> QED BY <1>1, <1>2

\* A person's count stays near the limit: nothing is nearer, or it was not over when
\* looked at, or what was coming is counted now.
LEMMA CountsKept ==
  ASSUME CountsOk, inbox' \in [Recipient -> [address : Nat, counted : Nat, removed : BOOLEAN]],
         \A p \in Recipient :
           \/ inbox'[p].counted <= inbox[p].counted /\ Coming(p)' \subseteq Coming(p)
           \/ inbox'[p].counted < DailyLimit
           \/ inbox'[p].counted <= DailyLimit /\ \E d \in Post : d \notin Coming(p)'
           \/ inbox'[p].counted = inbox[p].counted + 1 /\ \E d \in Coming(p) : Coming(p)' \subseteq Coming(p) \ {d}
  PROVE  CountsOk'
<1> USE MailAssumption
<1>1. ASSUME NEW p \in Recipient PROVE inbox'[p].counted + Cardinality(Coming(p)') <= DailyLimit + Cardinality(Post) - 1
  <2> DEFINE now == Coming(p)
             next == Coming(p)'
  <2>1. IsFiniteSet(now) /\ Cardinality(now) \in Nat
    BY ComingFinite
  <2>2. next \subseteq Post
    BY DEF Coming
  <2>3. IsFiniteSet(next) /\ Cardinality(next) \in Nat /\ Cardinality(next) <= Cardinality(Post)
    BY <2>2, FS_Subset, FS_CardinalityType
  <2>4. Cardinality(Post) \in Nat /\ DailyLimit \in Nat
    BY FS_CardinalityType
  <2>5. inbox[p].counted + Cardinality(now) <= DailyLimit + Cardinality(Post) - 1 /\ inbox[p].counted \in Nat
    BY DEF CountsOk
  <2>6. inbox'[p].counted \in Nat
    OBVIOUS
  <2>7. \/ inbox'[p].counted <= inbox[p].counted /\ next \subseteq now
        \/ inbox'[p].counted < DailyLimit
        \/ inbox'[p].counted <= DailyLimit /\ \E d \in Post : d \notin next
        \/ inbox'[p].counted = inbox[p].counted + 1 /\ \E d \in now : next \subseteq now \ {d}
    OBVIOUS
  <2> HIDE DEF now, next
  <2> SUFFICES inbox'[p].counted + Cardinality(next) <= DailyLimit + Cardinality(Post) - 1
    BY DEF next
  <2>8. CASE inbox'[p].counted <= inbox[p].counted /\ next \subseteq now
    <3>1. Cardinality(next) <= Cardinality(now)
      BY <2>1, <2>8, FS_Subset
    <3> QED BY <2>1, <2>3, <2>4, <2>5, <2>6, <2>8, <3>1
  <2>9. CASE inbox'[p].counted < DailyLimit
    BY <2>3, <2>4, <2>6, <2>9
  <2>10. CASE inbox'[p].counted <= DailyLimit /\ \E d \in Post : d \notin next
    <3>1. PICK d \in Post : d \notin next
      BY <2>10
    <3>2. next \subseteq Post \ {d}
      BY <2>2, <3>1
    <3>3. Cardinality(Post \ {d}) = Cardinality(Post) - 1 /\ IsFiniteSet(Post \ {d})
      BY FS_RemoveElement
    <3>4. Cardinality(next) <= Cardinality(Post \ {d})
      BY <3>2, <3>3, FS_Subset
    <3> QED BY <2>3, <2>4, <2>6, <2>10, <3>3, <3>4
  <2>11. CASE inbox'[p].counted = inbox[p].counted + 1 /\ \E d \in now : next \subseteq now \ {d}
    <3>1. PICK d \in now : next \subseteq now \ {d}
      BY <2>11
    <3>2. Cardinality(now \ {d}) = Cardinality(now) - 1 /\ IsFiniteSet(now \ {d})
      BY <2>1, FS_RemoveElement
    <3>3. Cardinality(next) <= Cardinality(now \ {d})
      BY <3>1, <3>2, FS_Subset
    <3> QED BY SMTT(20), <2>1, <2>3, <2>4, <2>5, <2>11, <3>2, <3>3
  <2> QED BY <2>7, <2>8, <2>9, <2>10, <2>11
<1> QED BY <1>1 DEF CountsOk

\* A post goes on past its body, or ends.
LEMMA CountsStay ==
  ASSUME CountsOk, DOMAIN posts = Post, NEW d \in Post, NEW x, posts' = [posts EXCEPT ![d] = x],
         x.phase # "body" \/ x.via # "inbound" \/ x.owner \notin Recipient, inbox' = inbox
  PROVE  CountsOk'
<1>1. ASSUME NEW p \in Recipient PROVE inbox'[p].counted <= inbox[p].counted /\ Coming(p)' \subseteq Coming(p)
  BY DEF Coming, CountsOk
<1>2. inbox' \in [Recipient -> [address : Nat, counted : Nat, removed : BOOLEAN]]
  BY DEF CountsOk
<1> QED BY <1>1, <1>2, CountsKept

\* The files and cases are as they were.
LEMMA FilesStay == ASSUME FilesOk, UNCHANGED <<onFile, caseOpen, sealed>> PROVE FilesOk'
BY DEF FilesOk, KeptOnce, KeptForItsOwner, NothingJoinsClaimed, FiledIn, UnderQuota, BytesStoredBy

-----------------------------------------------------------------------------
(* A post arrives, is read and sorted.                                      *)

\* Who is known to be addressed when a mail comes, and may have it when it is read.
LEMMA FirstIsAddressed ==
  ASSUME NEW m, NEW p \in FirstOurs(m) PROVE p \in AddressedBy(m) /\ p \in Recipient
BY DEF FirstOurs, AddressedBy, PersonFor

LEMMA InboundUnnamedKeeps ==
  ASSUME MailInv, NEW d \in Post, NEW m \in Mail, InboundUnnamed(d, m) PROVE MailInv'
<1> DEFINE x == [New("inbound", Nobody, Nobody) EXCEPT !.mail = m, !.known = AddressedBy(m)]
<1>1. posts' = [posts EXCEPT ![d] = x] /\ inbox' = inbox /\ UNCHANGED <<onFile, caseOpen, sealed>> /\ Written(m)
  BY DEF InboundUnnamed, Begin
<1>2. /\ DOMAIN x = {"phase", "via", "owner", "case", "mail", "todo", "stored", "skipped", "zone", "known"}
      /\ x.phase = "body" /\ x.via = "inbound" /\ x.owner = Nobody /\ x.case = Nobody /\ x.mail = m /\ x.known = AddressedBy(m)
  BY DEF New
<1> HIDE DEF x
<1>3. PostOk(x)
  BY <1>1, <1>2, FirstIsAddressed DEF PostOk
<1>4. PostsOk'
  BY <1>1, <1>3, PostMoves, SameIsLater DEF MailInv
<1>5. CountsOk'
  BY <1>1, <1>2, CountsStay, MailAssumption DEF MailInv, PostsOk
<1> QED BY <1>1, <1>4, <1>5, FilesStay DEF MailInv

LEMMA InboundNamedKeeps ==
  ASSUME MailInv, NEW d \in Post, NEW m \in Mail, NEW i \in DOMAIN What[m].to, InboundNamed(d, m, i) PROVE MailInv'
<1>1. PICK p \in PersonFor(What[m].to[i]) :
        ~OverLimit(p) /\ Begin(d, [New("inbound", p, Nobody) EXCEPT !.mail = m, !.known = AddressedBy(m)])
  BY DEF InboundNamed
<1> DEFINE x == [New("inbound", p, Nobody) EXCEPT !.mail = m, !.known = AddressedBy(m)]
<1>2. posts' = [posts EXCEPT ![d] = x] /\ inbox' = inbox /\ UNCHANGED <<onFile, caseOpen, sealed>> /\ Written(m)
  BY <1>1 DEF InboundNamed, Begin
<1>3. /\ DOMAIN x = {"phase", "via", "owner", "case", "mail", "todo", "stored", "skipped", "zone", "known"}
      /\ x.phase = "body" /\ x.via = "inbound" /\ x.owner = p /\ x.case = Nobody /\ x.mail = m /\ x.known = AddressedBy(m)
  BY DEF New
<1> HIDE DEF x
<1>4. p \in Recipient /\ p \in AddressedBy(m)
  BY DEF PersonFor, AddressedBy
<1>5. PostOk(x)
  BY <1>2, <1>3, <1>4 DEF PostOk
<1>6. PostsOk'
  BY <1>2, <1>5, PostMoves, SameIsLater DEF MailInv
<1>7. CountsOk'
  <2>1. ASSUME NEW q \in Recipient
        PROVE  (inbox'[q].counted <= inbox[q].counted /\ Coming(q)' \subseteq Coming(q)) \/ inbox'[q].counted < DailyLimit
    <3>1. CASE q = p
      BY <1>1, <1>2, <3>1, MailAssumption DEF OverLimit, MailInv, CountsOk
    <3>2. CASE q # p
      BY <1>2, <1>3, <3>2 DEF Coming, MailInv, CountsOk, PostsOk
    <3> QED BY <3>1, <3>2
  <2>2. inbox' \in [Recipient -> [address : Nat, counted : Nat, removed : BOOLEAN]]
    BY <1>2 DEF MailInv, CountsOk
  <2> QED BY <2>1, <2>2, CountsKept DEF MailInv
<1> QED BY <1>2, <1>6, <1>7, FilesStay DEF MailInv

LEMMA DroppedKeeps ==
  ASSUME MailInv, NEW d \in Post, NEW via \in {"email", "zip"}, NEW p \in Recipient, NEW c \in MailCase, NEW w, Dropped(d, via, p, c, w)
  PROVE  MailInv'
<1> DEFINE x == [New(via, p, c) EXCEPT !.mail = w]
<1>1. posts' = [posts EXCEPT ![d] = x] /\ inbox' = inbox /\ UNCHANGED <<onFile, caseOpen, sealed>> /\ ~inbox[p].removed
  BY DEF Dropped, Begin
<1>2. /\ DOMAIN x = {"phase", "via", "owner", "case", "mail", "todo", "stored", "skipped", "zone", "known"}
      /\ x.phase = "body" /\ x.via = via /\ x.owner = p /\ x.case = c /\ x.known = {q \in Recipient : ~inbox[q].removed}
  BY DEF New
<1> HIDE DEF x
<1>3. PostOk(x)
  BY <1>1, <1>2 DEF PostOk
<1>4. PostsOk'
  BY <1>1, <1>3, PostMoves, SameIsLater DEF MailInv
<1>5. CountsOk'
  BY <1>1, <1>2, CountsStay DEF MailInv, PostsOk
<1> QED BY <1>1, <1>4, <1>5, FilesStay DEF MailInv


\* The first case named is one of the cases.
LEMMA SubjectIsCase ==
  ASSUME NEW p \in Recipient, NEW m \in Mail PROVE CaseFromSubject(p, m) \in MailCase \cup {Nobody}
<1> DEFINE open == {i \in DOMAIN What[m].subject : TakesReceipts(p, What[m].subject[i])}
<1>1. What[m].subject \in Seq(MailCase)
  BY MailAssumption
<1>2. open \subseteq Nat /\ \A i \in open : What[m].subject[i] \in MailCase
  BY <1>1
<1> SUFFICES ASSUME open # {} PROVE What[m].subject[CHOOSE i \in open : \A j \in open : i <= j] \in MailCase
  BY DEF CaseFromSubject
<1> HIDE DEF open
<1>3. open \in SUBSET Nat /\ open # {}
  BY <1>2
<1>4. \E i \in open : \A j \in open : i <= j
  BY <1>3, LeastOfSome
<1>5. (CHOOSE k \in open : \A j \in open : k <= j) \in open
  BY <1>4
<1> QED BY <1>2, <1>5

\* A mail whose body is read is counted, or refused.
LEMMA TakenKeeps ==
  ASSUME MailInv, NEW d \in Post, posts[d].phase = "body", posts[d].via = "inbound",
         NEW p \in Recipient, p \in posts[d].known, posts[d].owner = p \/ (posts[d].owner = Nobody /\ ~OverLimit(p)),
         Taken(d, p), UNCHANGED <<onFile, caseOpen, sealed>>
  PROVE  MailInv'
<1> DEFINE m == posts[d].mail
           x == [posts[d] EXCEPT !.phase = "sorting", !.owner = p, !.case = CaseFromSubject(p, m), !.zone = zoneNow]
<1>1. PostOk(posts[d])
  BY DEF MailInv, PostsOk, Idle
<1>2. CASE What[m].from # p
  <2>1. posts' = [posts EXCEPT ![d] = Idle] /\ inbox' = inbox
    BY <1>2 DEF Taken, Done
  <2>2. PostsOk'
    BY <2>1, PostMoves, SameIsLater DEF MailInv
  <2>3. CountsOk'
    BY <2>1, CountsStay DEF MailInv, PostsOk, Idle
  <2> QED BY <2>2, <2>3, FilesStay DEF MailInv
<1>3. CASE What[m].from = p
  <2>1. posts' = [posts EXCEPT ![d] = x] /\ inbox' = [inbox EXCEPT ![p].counted = @ + 1]
    BY <1>3 DEF Taken
  <2>2. m \in Mail
    BY <1>1 DEF PostOk
  <2>3. CaseFromSubject(p, m) \in MailCase \cup {Nobody}
    BY <2>2, SubjectIsCase
  <2>4. /\ DOMAIN x = {"phase", "via", "owner", "case", "mail", "todo", "stored", "skipped", "zone", "known"}
        /\ x.phase = "sorting" /\ x.owner = p /\ x.case = CaseFromSubject(p, m) /\ x.known = posts[d].known
    BY <1>1 DEF PostOk
  <2> HIDE DEF x, m
  <2>5. PostOk(x)
    BY <2>3, <2>4 DEF PostOk
  <2>6. OnlyLater
    BY <2>1 DEF MailInv, CountsOk, OnlyLater
  <2>7. PostsOk'
    BY <2>1, <2>5, <2>6, PostMoves DEF MailInv
  <2>8. ASSUME NEW q \in Recipient
        PROVE  \/ inbox'[q].counted <= inbox[q].counted /\ Coming(q)' \subseteq Coming(q)
               \/ inbox'[q].counted <= DailyLimit /\ \E e \in Post : e \notin Coming(q)'
               \/ inbox'[q].counted = inbox[q].counted + 1 /\ \E e \in Coming(q) : Coming(q)' \subseteq Coming(q) \ {e}
    <3>1. d \notin Coming(q)' /\ Coming(q)' \subseteq Coming(q)
      BY <2>1, <2>4 DEF Coming, MailInv, PostsOk
    <3>2. CASE q # p
      BY <2>1, <3>1, <3>2 DEF MailInv, CountsOk
    <3>3. CASE q = p /\ posts[d].owner = p
      <4>1. d \in Coming(q)
        BY <3>3 DEF Coming
      <4>2. inbox'[q].counted = inbox[q].counted + 1
        BY <2>1, <3>3 DEF MailInv, CountsOk
      <4> QED BY <3>1, <4>1, <4>2
    <3>4. CASE q = p /\ ~OverLimit(p)
      <4>1. inbox'[q].counted = inbox[q].counted + 1 /\ inbox[q].counted \in Nat
        BY <2>1, <3>4 DEF MailInv, CountsOk
      <4>2. inbox[q].counted < DailyLimit
        BY <3>4, <4>1, MailAssumption DEF OverLimit
      <4> QED BY <3>1, <4>1, <4>2, MailAssumption
    <3> QED BY <3>2, <3>3, <3>4
  <2>9. inbox' \in [Recipient -> [address : Nat, counted : Nat, removed : BOOLEAN]]
    BY <2>6 DEF OnlyLater
  <2>10. CountsOk'
    BY <2>8, <2>9, CountsKept DEF MailInv
  <2> QED BY <2>7, <2>10, FilesStay DEF MailInv
<1> QED BY <1>2, <1>3

\* A post under way goes on past its body or within, for the same person and case.
LEMMA GoesOnKeeps ==
  ASSUME MailInv, NEW d \in Post, PostOk(posts[d]), posts[d].owner \in Recipient, NEW x,
         DOMAIN x = DOMAIN posts[d], x.phase \in {"sorting", "storing", "converting"},
         x.owner = posts[d].owner, x.case = posts[d].case, x.known = posts[d].known,
         posts' = [posts EXCEPT ![d] = x], inbox' = inbox
  PROVE  PostsOk' /\ CountsOk'
<1>1. PostOk(x)
  BY MailAssumption DEF PostOk
<1>2. PostsOk'
  BY <1>1, PostMoves, SameIsLater DEF MailInv
<1>3. CountsOk'
  BY CountsStay DEF MailInv, PostsOk
<1> QED BY <1>2, <1>3

LEMMA EndsKeeps ==
  ASSUME MailInv, NEW d \in Post, Done(d), inbox' = inbox PROVE PostsOk' /\ CountsOk'
<1>1. posts' = [posts EXCEPT ![d] = Idle] /\ Idle.phase # "body"
  BY DEF Done, Idle
<1>2. PostsOk'
  BY <1>1, PostMoves, SameIsLater DEF MailInv
<1>3. CountsOk'
  BY <1>1, CountsStay DEF MailInv, PostsOk
<1> QED BY <1>2, <1>3

LEMMA ParseInboundKeeps == ASSUME MailInv, NEW d \in Post, ParseInbound(d) PROVE MailInv'
<1>1. posts[d].phase = "body" /\ posts[d].via = "inbound" /\ UNCHANGED <<onFile, caseOpen, sealed>>
  BY DEF ParseInbound
<1>2. PostOk(posts[d])
  BY <1>1 DEF MailInv, PostsOk, Idle
<1>3. CASE posts[d].owner # Nobody
  <2>1. posts[d].owner \in Recipient /\ posts[d].owner \in posts[d].known
    BY <1>2, <1>3 DEF PostOk
  <2>2. Taken(d, posts[d].owner)
    BY <1>3 DEF ParseInbound
  <2> QED BY <1>1, <2>1, <2>2, TakenKeeps
<1>4. CASE posts[d].owner = Nobody /\ \E p \in FirstOurs(posts[d].mail) : ~OverLimit(p)
  <2>1. PICK p \in FirstOurs(posts[d].mail) : Taken(d, p)
    BY <1>4 DEF ParseInbound
  <2>2. p \in posts[d].known /\ p \in Recipient
    BY <1>2, <1>4, FirstIsAddressed, MailAssumption DEF PostOk
  <2>3. ~OverLimit(p)
    BY <1>4 DEF FirstOurs, PersonFor
  <2> QED BY <1>1, <1>4, <2>1, <2>2, <2>3, TakenKeeps
<1>5. CASE posts[d].owner = Nobody /\ ~\E p \in FirstOurs(posts[d].mail) : ~OverLimit(p)
  <2>1. Done(d) /\ inbox' = inbox
    BY <1>5 DEF ParseInbound
  <2> QED BY <1>1, <2>1, EndsKeeps, FilesStay DEF MailInv
<1> QED BY <1>3, <1>4, <1>5

\* Whoever a post is for is known once its body is read.
LEMMA OwnerKnown ==
  ASSUME MailInv, NEW d \in Post, posts[d].phase \in {"sorting", "storing", "converting"} \/ (posts[d].phase = "body" /\ posts[d].via # "inbound")
  PROVE  PostOk(posts[d]) /\ posts[d].owner \in Recipient /\ posts[d].owner \in posts[d].known
BY DEF MailInv, PostsOk, PostOk, Idle

LEMMA ToStoreKeeps ==
  ASSUME MailInv, NEW d \in Post, NEW got, ToStore(d, got), inbox' = inbox,
         posts[d].phase = "sorting" \/ (posts[d].phase = "body" /\ posts[d].via # "inbound")
  PROVE  PostsOk' /\ CountsOk'
<1> DEFINE x == [posts[d] EXCEPT !.phase = "storing", !.todo = got.files, !.skipped = got.skipped]
<1>1. PostOk(posts[d]) /\ posts[d].owner \in Recipient
  BY OwnerKnown
<1>2. posts' = [posts EXCEPT ![d] = x]
  BY DEF ToStore
<1>3. /\ DOMAIN x = DOMAIN posts[d] /\ x.phase = "storing" /\ x.owner = posts[d].owner
      /\ x.case = posts[d].case /\ x.known = posts[d].known
  BY <1>1 DEF PostOk
<1> HIDE DEF x
<1> QED BY <1>1, <1>2, <1>3, GoesOnKeeps

LEMMA SkipKeeps ==
  ASSUME MailInv, NEW d \in Post, posts[d].phase \in {"storing", "converting"}, Skip(d), inbox' = inbox
  PROVE  PostsOk' /\ CountsOk'
<1> DEFINE x == [posts[d] EXCEPT !.phase = "storing", !.todo = Tail(posts[d].todo), !.skipped = Append(posts[d].skipped, Head(posts[d].todo).name)]
<1>1. PostOk(posts[d]) /\ posts[d].owner \in Recipient
  BY OwnerKnown
<1>2. posts' = [posts EXCEPT ![d] = x]
  BY <1>1 DEF Skip, MailInv, PostsOk, PostOk
<1>3. /\ DOMAIN x = DOMAIN posts[d] /\ x.phase = "storing" /\ x.owner = posts[d].owner
      /\ x.case = posts[d].case /\ x.known = posts[d].known
  BY <1>1 DEF PostOk
<1> HIDE DEF x
<1> QED BY <1>1, <1>2, <1>3, GoesOnKeeps

LEMMA SortingKeeps ==
  ASSUME MailInv, NEW d \in Post,
         ParseDropped(d) \/ SortMail(d) \/ Unpack(d) \/ BeginFile(d) \/ FailsToConvert(d) \/ Answer(d)
  PROVE  MailInv'
<1>1. inbox' = inbox /\ UNCHANGED <<onFile, caseOpen, sealed>>
  BY DEF ParseDropped, SortMail, Unpack, BeginFile, FailsToConvert, Answer
<1>2. SUFFICES PostsOk' /\ CountsOk'
  BY <1>1, FilesStay DEF MailInv
<1>3. CASE ParseDropped(d)
  <2> DEFINE x == [posts[d] EXCEPT !.phase = "sorting", !.zone = zoneNow]
  <2>1. PostOk(posts[d]) /\ posts[d].owner \in Recipient
    BY <1>3, OwnerKnown DEF ParseDropped
  <2>2. posts' = [posts EXCEPT ![d] = x]
    BY <1>3 DEF ParseDropped
  <2>3. /\ DOMAIN x = DOMAIN posts[d] /\ x.phase = "sorting" /\ x.owner = posts[d].owner
        /\ x.case = posts[d].case /\ x.known = posts[d].known
    BY <2>1 DEF PostOk
  <2> HIDE DEF x
  <2> QED BY <1>1, <2>1, <2>2, <2>3, GoesOnKeeps
<1>4. CASE SortMail(d)
  BY <1>1, <1>4, ToStoreKeeps DEF SortMail
<1>5. CASE Unpack(d)
  <2>1. CASE What[posts[d].mail].form
    BY <1>1, <1>5, <2>1, EndsKeeps DEF Unpack
  <2>2. CASE ~What[posts[d].mail].form
    BY <1>1, <1>5, <2>2, ToStoreKeeps DEF Unpack
  <2> QED BY <2>1, <2>2
<1>6. CASE BeginFile(d) /\ TakesReceipts(posts[d].owner, posts[d].case)
  <2> DEFINE x == [posts[d] EXCEPT !.phase = "converting"]
  <2>1. PostOk(posts[d]) /\ posts[d].owner \in Recipient
    BY <1>6, OwnerKnown DEF BeginFile
  <2>2. posts' = [posts EXCEPT ![d] = x]
    BY <1>6 DEF BeginFile
  <2>3. /\ DOMAIN x = DOMAIN posts[d] /\ x.phase = "converting" /\ x.owner = posts[d].owner
        /\ x.case = posts[d].case /\ x.known = posts[d].known
    BY <2>1 DEF PostOk
  <2> HIDE DEF x
  <2> QED BY <1>1, <2>1, <2>2, <2>3, GoesOnKeeps
<1>7. CASE BeginFile(d) /\ ~TakesReceipts(posts[d].owner, posts[d].case)
  BY <1>1, <1>7, SkipKeeps DEF BeginFile
<1>8. CASE FailsToConvert(d)
  BY <1>1, <1>8, SkipKeeps DEF FailsToConvert
<1>9. CASE Answer(d)
  BY <1>1, <1>9, EndsKeeps DEF Answer
<1> QED BY <1>3, <1>4, <1>5, <1>6, <1>7, <1>8, <1>9

-----------------------------------------------------------------------------
(* What is kept.                                                            *)

\* One more file of a person within their quota.
LEMMA OneMore ==
  ASSUME FilesOk, NEW r, r.owner \in Recipient, BytesStoredBy(r.owner) < Quota, onFile' = onFile \cup {r}
  PROVE  IsFiniteSet(onFile') /\ UnderQuota'
<1>1. IsFiniteSet(onFile) /\ IsFiniteSet(onFile')
  BY FS_AddElement DEF FilesOk
<1>2. ASSUME NEW p \in Recipient PROVE BytesStoredBy(p)' <= Quota
  <2> DEFINE had == {s \in onFile : s.owner = p}
             has == {s \in onFile' : s.owner = p}
  <2>1. IsFiniteSet(had) /\ Cardinality(had) \in Nat
    BY <1>1, FS_Subset, FS_CardinalityType
  <2>2. Cardinality(had) <= Quota
    BY DEF FilesOk, UnderQuota, BytesStoredBy
  <2>3. CASE p # r.owner
    <3>1. has = had
      BY <2>3
    <3> QED BY <2>2, <3>1 DEF BytesStoredBy
  <2>4. CASE p = r.owner
    <3>1. has = had \cup {r}
      BY <2>4
    <3>2. Cardinality(had \cup {r}) <= Cardinality(had) + 1 /\ Cardinality(had \cup {r}) \in Nat
      BY <2>1, FS_AddElement, FS_CardinalityType
    <3>3. Cardinality(had) < Quota
      BY <2>4 DEF BytesStoredBy
    <3>4. Cardinality(had \cup {r}) <= Quota
      BY <2>1, <3>2, <3>3, MailAssumption
    <3>5. BytesStoredBy(p)' = Cardinality(had \cup {r})
      BY <3>1 DEF BytesStoredBy
    <3> QED BY <3>4, <3>5
  <2> QED BY <2>3, <2>4
<1> QED BY <1>1, <1>2 DEF UnderQuota

LEMMA StoreFileKeeps == ASSUME MailInv, NEW d \in Post, StoreFile(d) PROVE MailInv'
<1>1. inbox' = inbox /\ UNCHANGED <<caseOpen, sealed>> /\ posts[d].phase = "converting"
  BY DEF StoreFile
<1>2. PostOk(posts[d]) /\ posts[d].owner \in Recipient /\ posts[d].owner \in posts[d].known
  BY <1>1, OwnerKnown
<1>3. CASE Skip(d) /\ onFile' = onFile
  BY <1>1, <1>3, SkipKeeps, FilesStay DEF MailInv
<1>4. CASE ~(Skip(d) /\ onFile' = onFile)
  <2>1. PICK b \in ToStorable(Head(posts[d].todo)) :
          /\ StillOpen(posts[d].owner, posts[d].case) /\ ~(BytesStoredBy(posts[d].owner) >= Quota) /\ FindReceiptByHash(b) = {}
          /\ onFile' = onFile \cup {[bytes |-> b, owner |-> posts[d].owner, case |-> posts[d].case, via |-> posts[d].via, known |-> posts[d].known]}
          /\ posts' = [posts EXCEPT ![d].phase = "storing", ![d].todo = Tail(@), ![d].stored = Append(@, Head(posts[d].todo).name)]
    BY <1>4 DEF StoreFile
  <2> DEFINE x == [posts[d] EXCEPT !.phase = "storing", !.todo = Tail(posts[d].todo), !.stored = Append(posts[d].stored, Head(posts[d].todo).name)]
             r == [bytes |-> b, owner |-> posts[d].owner, case |-> posts[d].case, via |-> posts[d].via, known |-> posts[d].known]
  <2>2. posts' = [posts EXCEPT ![d] = x]
    BY <1>2, <2>1 DEF MailInv, PostsOk, PostOk
  <2>3. /\ DOMAIN x = DOMAIN posts[d] /\ x.phase = "storing" /\ x.owner = posts[d].owner
        /\ x.case = posts[d].case /\ x.known = posts[d].known
    BY <1>2 DEF PostOk
  <2>4. /\ r.bytes = b /\ r.owner = posts[d].owner /\ r.case = posts[d].case /\ r.known = posts[d].known
        /\ onFile' = onFile \cup {r}
    BY <2>1
  <2> HIDE DEF x, r
  <2>5. PostsOk' /\ CountsOk'
    BY <1>1, <1>2, <2>2, <2>3, GoesOnKeeps
  <2>6. r.case \in MailCase \cup {Nobody} /\ r.owner \in Recipient /\ r.owner \in r.known
    BY <1>2, <2>4 DEF PostOk
  <2>7. r.case # Nobody => caseOpen[r.case] /\ OwnerOf[r.case] = r.owner
    BY <2>1, <2>4 DEF StillOpen, TakesReceipts
  <2>8. KeptOnce'
    BY <2>1, <2>4 DEF FindReceiptByHash, KeptOnce, MailInv, FilesOk
  <2>9. KeptForItsOwner'
    BY <2>4, <2>6, <2>7 DEF KeptForItsOwner, MailInv, FilesOk
  <2>10. NothingJoinsClaimed'
    <3>1. ASSUME NEW c \in MailCase, ~caseOpen[c] PROVE FiledIn(c)' = sealed[c]
      <4>1. r.case # c
        BY <2>7, <3>1, MailAssumption
      <4>2. FiledIn(c)' = FiledIn(c)
        BY <2>4, <4>1 DEF FiledIn
      <4> QED BY <3>1, <4>2 DEF NothingJoinsClaimed, MailInv, FilesOk
    <3> QED BY <1>1, <3>1 DEF NothingJoinsClaimed
  <2>11. BytesStoredBy(r.owner) < Quota
    <3>1. IsFiniteSet({s \in onFile : s.owner = r.owner})
      BY FS_Subset DEF MailInv, FilesOk
    <3>2. BytesStoredBy(r.owner) \in Nat
      BY <3>1, FS_CardinalityType DEF BytesStoredBy
    <3> QED BY <2>1, <2>4, <3>2, MailAssumption
  <2>12. IsFiniteSet(onFile') /\ UnderQuota'
    BY <2>4, <2>6, <2>11, OneMore DEF MailInv
  <2>13. FilesOk'
    BY <1>1, <2>4, <2>6, <2>8, <2>9, <2>10, <2>12 DEF FilesOk, MailInv
  <2> QED BY <2>5, <2>13 DEF MailInv
<1> QED BY <1>3, <1>4

\* Fewer files, none of them gone from a claimed case.
LEMMA RemoveReceiptKeeps == ASSUME MailInv, NEW r \in onFile, RemoveReceipt(r) PROVE MailInv'
<1>1. onFile' = onFile \ {r} /\ (r.case # Nobody => caseOpen[r.case]) /\ UNCHANGED <<posts, inbox, caseOpen, sealed>>
  BY DEF RemoveReceipt
<1>2. PostsOk' /\ CountsOk'
  <2>1. OnlyLater
    BY <1>1, SameIsLater DEF MailInv
  <2>2. CountsOk'
    BY <1>1 DEF MailInv, CountsOk, Coming
  <2> QED BY <1>1, <2>1, <2>2, PostsStay DEF MailInv
<1>3. IsFiniteSet(onFile')
  BY <1>1, FS_Subset DEF MailInv, FilesOk
<1>4. UnderQuota'
  <2>1. ASSUME NEW p \in Recipient PROVE BytesStoredBy(p)' <= Quota
    <3> DEFINE had == {s \in onFile : s.owner = p}
               has == {s \in onFile' : s.owner = p}
    <3>1. IsFiniteSet(had) /\ Cardinality(had) \in Nat
      BY FS_Subset, FS_CardinalityType DEF MailInv, FilesOk
    <3>2. has \subseteq had
      BY <1>1
    <3>3. Cardinality(has) <= Cardinality(had) /\ Cardinality(has) \in Nat
      BY <3>1, <3>2, FS_Subset, FS_CardinalityType
    <3>4. Cardinality(had) <= Quota
      BY DEF MailInv, FilesOk, UnderQuota, BytesStoredBy
    <3>5. Cardinality(has) <= Quota
      BY <3>1, <3>3, <3>4, MailAssumption
    <3> QED BY <3>5 DEF BytesStoredBy
  <2> QED BY <2>1 DEF UnderQuota
<1>5. NothingJoinsClaimed'
  <2>1. ASSUME NEW c \in MailCase, ~caseOpen[c] PROVE FiledIn(c)' = sealed[c]
    <3>1. r.case # c
      BY <1>1, <2>1, MailAssumption
    <3>2. FiledIn(c)' = FiledIn(c)
      BY <1>1, <3>1 DEF FiledIn
    <3> QED BY <2>1, <3>2 DEF NothingJoinsClaimed, MailInv, FilesOk
  <2> QED BY <1>1, <2>1 DEF NothingJoinsClaimed
<1>6. FilesOk'
  BY <1>1, <1>3, <1>4, <1>5 DEF FilesOk, KeptOnce, KeptForItsOwner, MailInv
<1> QED BY <1>2, <1>6 DEF MailInv

-----------------------------------------------------------------------------
(* Meanwhile.                                                               *)

LEMMA InboxKeeps ==
  ASSUME MailInv, NEW p \in Recipient, NewInboundToken(p) \/ RemovePerson(p) \/ DayPasses(p)
  PROVE  MailInv'
<1>1. posts' = posts /\ UNCHANGED <<onFile, caseOpen, sealed>>
  BY DEF NewInboundToken, RemovePerson, DayPasses
<1>2. OnlyLater /\ \A q \in Recipient : inbox'[q].counted <= inbox[q].counted
  <2>0. inbox \in [Recipient -> [address : Nat, counted : Nat, removed : BOOLEAN]]
    BY DEF MailInv, CountsOk
  <2>1. CASE inbox' = [inbox EXCEPT ![p].address = @ + 1]
    BY <2>0, <2>1 DEF OnlyLater
  <2>2. CASE inbox' = [inbox EXCEPT ![p].removed = TRUE]
    <3> DEFINE gone == [inbox[p] EXCEPT !.removed = TRUE]
    <3>1. gone \in [address : Nat, counted : Nat, removed : BOOLEAN] /\ gone.address = inbox[p].address /\ gone.counted = inbox[p].counted
      BY <2>0
    <3>2. gone.removed
      BY <2>0
    <3>3. inbox' = [inbox EXCEPT ![p] = gone]
      BY <2>0, <2>2
    <3> HIDE DEF gone
    <3>4. inbox' \in [Recipient -> [address : Nat, counted : Nat, removed : BOOLEAN]]
      BY <2>0, <3>1, <3>3
    <3>5. \A q \in Recipient : inbox[q].address <= inbox'[q].address /\ inbox'[q].counted <= inbox[q].counted
      BY <2>0, <3>1, <3>3
    <3>6. \A q \in Recipient : inbox[q].removed => inbox'[q].removed
      BY <2>0, <3>2, <3>3
    <3> QED BY <3>4, <3>5, <3>6 DEF OnlyLater
  <2>3. CASE inbox[p].counted > 0 /\ inbox' = [inbox EXCEPT ![p].counted = @ - 1]
    <3>1. inbox[p].counted - 1 \in Nat
      BY <2>0, <2>3
    <3> QED BY <2>0, <2>3, <3>1 DEF OnlyLater
  <2> QED BY <2>1, <2>2, <2>3 DEF NewInboundToken, RemovePerson, DayPasses
<1>3. PostsOk'
  BY <1>1, <1>2, PostsStay DEF MailInv
<1>4. \A q \in Recipient : Coming(q)' = Coming(q)
  BY <1>1 DEF Coming
<1>5. CountsOk'
  BY <1>2, <1>4, CountsKept DEF MailInv, OnlyLater
<1> QED BY <1>1, <1>3, <1>5, FilesStay DEF MailInv

LEMMA CasesKeep ==
  ASSUME MailInv, NEW c \in MailCase, CaseIsClaimed(c) \/ CaseIsReopened(c) PROVE MailInv'
<1>1. UNCHANGED <<posts, onFile, inbox>>
  BY DEF CaseIsClaimed, CaseIsReopened
<1>2. PostsOk' /\ CountsOk'
  <2>1. OnlyLater
    BY <1>1, SameIsLater DEF MailInv
  <2>2. CountsOk'
    BY <1>1 DEF MailInv, CountsOk, Coming
  <2> QED BY <1>1, <2>1, <2>2, PostsStay DEF MailInv
<1>3. caseOpen' \in [MailCase -> BOOLEAN] /\ DOMAIN sealed' = MailCase
  BY DEF CaseIsClaimed, CaseIsReopened, MailInv, FilesOk
<1>4. NothingJoinsClaimed'
  BY <1>1 DEF CaseIsClaimed, CaseIsReopened, NothingJoinsClaimed, FiledIn, MailInv, FilesOk
<1>5. FilesOk'
  BY <1>1, <1>3, <1>4 DEF FilesOk, MailInv, KeptOnce, KeptForItsOwner, UnderQuota, BytesStoredBy
<1> QED BY <1>2, <1>5 DEF MailInv

LEMMA ZoneKeeps == ASSUME MailInv, UNCHANGED <<posts, onFile, inbox, caseOpen, sealed>> PROVE MailInv'
<1>1. OnlyLater
  BY SameIsLater DEF MailInv
<1>2. CountsOk'
  BY DEF MailInv, CountsOk, Coming
<1> QED BY <1>1, <1>2, PostsStay, FilesStay DEF MailInv

LEMMA MailRestartKeeps == ASSUME MailInv, MailRestart PROVE MailInv'
<1>1. posts' = [d \in Post |-> Idle] /\ inbox' = inbox /\ UNCHANGED <<onFile, caseOpen, sealed>>
  BY DEF MailRestart
<1>2. PostsOk'
  BY <1>1 DEF PostsOk
<1>3. \A p \in Recipient : Coming(p)' = {}
  BY <1>1 DEF Coming, Idle
<1>4. CountsOk'
  BY <1>1, <1>3, CountsKept DEF MailInv, CountsOk
<1> QED BY <1>1, <1>2, <1>4, FilesStay DEF MailInv

LEMMA MailInvKept == MailInv /\ [MailNext]_mailVars => MailInv'
<1> SUFFICES ASSUME MailInv, [MailNext]_mailVars PROVE MailInv'
  OBVIOUS
<1> USE MailAssumption
<1>1. ASSUME NEW d \in Post,
             ParseInbound(d) \/ ParseDropped(d) \/ SortMail(d) \/ Unpack(d) \/ BeginFile(d) \/ FailsToConvert(d) \/ StoreFile(d) \/ Answer(d)
      PROVE  MailInv'
  BY <1>1, ParseInboundKeeps, SortingKeeps, StoreFileKeeps
<1>2. ASSUME NEW d \in Post, NEW m \in Mail, InboundUnnamed(d, m) \/ \E i \in DOMAIN What[m].to : InboundNamed(d, m, i)
      PROVE  MailInv'
  BY <1>2, InboundUnnamedKeeps, InboundNamedKeeps
<1>3. ASSUME NEW d \in Post, NEW c \in MailCase,
             (\E m \in Mail : Dropped(d, "email", OwnerOf[c], c, m)) \/ (\E z \in Archive : Dropped(d, "zip", OwnerOf[c], c, z))
      PROVE  MailInv'
  <2>1. OwnerOf[c] \in Recipient
    OBVIOUS
  <2> QED BY <1>3, <2>1, DroppedKeeps
<1>4. ASSUME NEW p \in Recipient, NewInboundToken(p) \/ RemovePerson(p) \/ DayPasses(p) PROVE MailInv'
  BY <1>4, InboxKeeps
<1>5. ASSUME NEW z \in Zones, ChangeZone(z) PROVE MailInv'
  BY <1>5, ZoneKeeps DEF ChangeZone
<1>6. ASSUME NEW c \in MailCase, CaseIsClaimed(c) \/ CaseIsReopened(c) PROVE MailInv'
  BY <1>6, CasesKeep
<1>7. ASSUME NEW r \in onFile, RemoveReceipt(r) PROVE MailInv'
  BY <1>7, RemoveReceiptKeeps
<1>8. CASE UNCHANGED mailVars
  BY <1>8, ZoneKeeps DEF mailVars
<1> QED BY <1>1, <1>2, <1>3, <1>4, <1>5, <1>6, <1>7, <1>8, MailRestartKeeps DEF MailNext

\* What is sent is kept once, for its owner, in no claimed case, within the quota and near
\* the day's limit, however posts overlap, are sent again or are cut by a restart
\* (routes/inbound.js, routes/receipts.js storeMail and storeReceipt).
THEOREM MailStaysHeld == MailSpec => []MailHolds
BY MailInvInit, MailInvKept, MailInvHolds, PTL DEF MailSpec

-----------------------------------------------------------------------------
(* Each name is said once.                                                  *)

LEMMA FlattensAlike == \A ss : Seqs!FlattenSeq(ss) = Strung!FlattenSeq(ss)
BY DEF Seqs!FlattenSeq, Strung!FlattenSeq

\* What an answer names, stored or to be stored or left out; and that it names nothing twice.
NamesIn(got) == {got.files[i].name : i \in DOMAIN got.files} \cup {got.skipped[i] : i \in DOMAIN got.skipped}
NamedOnce(got) ==
  /\ AsList(got.files) /\ AsList(got.skipped)
  /\ \A i, j \in DOMAIN got.files : i # j => got.files[i].name # got.files[j].name
  /\ \A i, j \in DOMAIN got.skipped : i # j => got.skipped[i] # got.skipped[j]
  /\ \A i \in DOMAIN got.files, j \in DOMAIN got.skipped : got.files[i].name # got.skipped[j]

\* Answers about different things, put together.
LEMMA AllNamed ==
  ASSUME NEW n \in Nat, NEW gots, DOMAIN gots = 1..n, \A i \in 1..n : NamedOnce(gots[i]),
         \A i, j \in 1..n : i # j => NamesIn(gots[i]) \cap NamesIn(gots[j]) = {}
  PROVE  NamedOnce(All(gots)) /\ NamesIn(All(gots)) = UNION {NamesIn(gots[i]) : i \in 1..n}
<1> DEFINE fs == [i \in DOMAIN gots |-> gots[i].files]
           ks == [i \in DOMAIN gots |-> gots[i].skipped]
           F == UNION {{gots[i].files[j] : j \in DOMAIN gots[i].files} : i \in 1..n}
           K == UNION {{gots[i].skipped[j] : j \in DOMAIN gots[i].skipped} : i \in 1..n}
<1>1. fs \in Seq(Seq(F)) /\ Len(fs) = n /\ DOMAIN fs = 1..n /\ \A i \in 1..n : fs[i] = gots[i].files
  <2>1. \A i \in 1..n : gots[i].files \in Seq(F)
    <3>1. ASSUME NEW i \in 1..n PROVE gots[i].files \in Seq(F)
      <4>1. AsList(gots[i].files) /\ \A j \in DOMAIN gots[i].files : gots[i].files[j] \in F
        BY DEF NamedOnce
      <4> HIDE DEF F
      <4> QED BY <4>1, ListOf
    <3> QED BY <3>1
  <2> HIDE DEF F
  <2> QED BY <2>1
<1>2. ks \in Seq(Seq(K)) /\ Len(ks) = n /\ DOMAIN ks = 1..n /\ \A i \in 1..n : ks[i] = gots[i].skipped
  <2>1. \A i \in 1..n : gots[i].skipped \in Seq(K)
    <3>1. ASSUME NEW i \in 1..n PROVE gots[i].skipped \in Seq(K)
      <4>1. AsList(gots[i].skipped) /\ \A j \in DOMAIN gots[i].skipped : gots[i].skipped[j] \in K
        BY DEF NamedOnce
      <4> HIDE DEF K
      <4> QED BY <4>1, ListOf
    <3> QED BY <3>1
  <2> HIDE DEF K
  <2> QED BY <2>1
<1> DEFINE f == Seqs!FlattenSeq(fs)
           k == Seqs!FlattenSeq(ks)
<1>3. All(gots).files = f /\ All(gots).skipped = k
  BY DEF All, Got
<1> HIDE DEF F, K, fs, ks
<1>4. f \in Seq(F) /\ Flattens(f, fs, n) /\ k \in Seq(K) /\ Flattens(k, ks, n)
  BY <1>1, <1>2, Flattened, FlattensAlike
<1>5. AsList(f) /\ AsList(k)
  BY <1>4, ListIsOne
<1> HIDE DEF f, k
<1>5a. ASSUME NEW x \in DOMAIN f PROVE \E i \in 1..n : \E j \in DOMAIN gots[i].files : f[x] = gots[i].files[j]
  <2>1. PICK i \in 1..n : \E j \in DOMAIN fs[i] : f[x] = fs[i][j]
    BY <1>4 DEF Flattens
  <2>2. fs[i] = gots[i].files
    BY <1>1
  <2> QED BY <2>1, <2>2
<1>5b. ASSUME NEW x \in DOMAIN k PROVE \E i \in 1..n : \E j \in DOMAIN gots[i].skipped : k[x] = gots[i].skipped[j]
  <2>1. PICK i \in 1..n : \E j \in DOMAIN ks[i] : k[x] = ks[i][j]
    BY <1>4 DEF Flattens
  <2>2. ks[i] = gots[i].skipped
    BY <1>2
  <2> QED BY <2>1, <2>2
<1>6. ASSUME NEW x \in DOMAIN f, NEW y \in DOMAIN f, x # y PROVE f[x].name # f[y].name
  <2>1. PICK p \in PlacesIn(fs), q \in PlacesIn(fs) : p # q /\ f[x] = fs[p[1]][p[2]] /\ f[y] = fs[q[1]][q[2]]
    BY <1>4, <1>6 DEF Flattens
  <2>2. /\ p[1] \in 1..n /\ q[1] \in 1..n /\ p[2] \in DOMAIN gots[p[1]].files /\ q[2] \in DOMAIN gots[q[1]].files
        /\ (p[1] # q[1] \/ p[2] # q[2])
    <3>1. p \in Nat \X Nat /\ q \in Nat \X Nat
      BY DEF PlacesIn
    <3>2. p[1] # q[1] \/ p[2] # q[2]
      BY <2>1, <3>1
    <3>3. p[1] \in 1..n /\ q[1] \in 1..n /\ p[2] \in DOMAIN fs[p[1]] /\ q[2] \in DOMAIN fs[q[1]]
      BY <1>1 DEF PlacesIn
    <3> QED BY <1>1, <3>2, <3>3
  <2>3. f[x] = gots[p[1]].files[p[2]] /\ f[y] = gots[q[1]].files[q[2]]
    BY <1>1, <2>1, <2>2
  <2>4. CASE p[1] = q[1]
    BY <2>2, <2>3, <2>4 DEF NamedOnce
  <2>5. CASE p[1] # q[1]
    <3>1. f[x].name \in NamesIn(gots[p[1]]) /\ f[y].name \in NamesIn(gots[q[1]])
      BY <2>2, <2>3 DEF NamesIn
    <3> QED BY <2>2, <2>5, <3>1
  <2> QED BY <2>4, <2>5
<1>7. ASSUME NEW x \in DOMAIN k, NEW y \in DOMAIN k, x # y PROVE k[x] # k[y]
  <2>1. PICK p \in PlacesIn(ks), q \in PlacesIn(ks) : p # q /\ k[x] = ks[p[1]][p[2]] /\ k[y] = ks[q[1]][q[2]]
    BY <1>4, <1>7 DEF Flattens
  <2>2. /\ p[1] \in 1..n /\ q[1] \in 1..n /\ p[2] \in DOMAIN gots[p[1]].skipped /\ q[2] \in DOMAIN gots[q[1]].skipped
        /\ (p[1] # q[1] \/ p[2] # q[2])
    <3>1. p \in Nat \X Nat /\ q \in Nat \X Nat
      BY DEF PlacesIn
    <3>2. p[1] # q[1] \/ p[2] # q[2]
      BY <2>1, <3>1
    <3>3. p[1] \in 1..n /\ q[1] \in 1..n /\ p[2] \in DOMAIN ks[p[1]] /\ q[2] \in DOMAIN ks[q[1]]
      BY <1>2 DEF PlacesIn
    <3> QED BY <1>2, <3>2, <3>3
  <2>3. k[x] = gots[p[1]].skipped[p[2]] /\ k[y] = gots[q[1]].skipped[q[2]]
    BY <1>2, <2>1, <2>2
  <2>4. CASE p[1] = q[1]
    BY <2>2, <2>3, <2>4 DEF NamedOnce
  <2>5. CASE p[1] # q[1]
    <3>1. k[x] \in NamesIn(gots[p[1]]) /\ k[y] \in NamesIn(gots[q[1]])
      BY <2>2, <2>3 DEF NamesIn
    <3> QED BY <2>2, <2>5, <3>1
  <2> QED BY <2>4, <2>5
<1>8. ASSUME NEW x \in DOMAIN f, NEW y \in DOMAIN k PROVE f[x].name # k[y]
  <2>1. PICK i \in 1..n : \E j \in DOMAIN gots[i].files : f[x] = gots[i].files[j]
    BY <1>5a
  <2>2. PICK l \in 1..n : \E j \in DOMAIN gots[l].skipped : k[y] = gots[l].skipped[j]
    BY <1>5b
  <2>3. CASE i = l
    BY <2>1, <2>2, <2>3 DEF NamedOnce
  <2>4. CASE i # l
    <3>1. f[x].name \in NamesIn(gots[i]) /\ k[y] \in NamesIn(gots[l])
      BY <2>1, <2>2 DEF NamesIn
    <3> QED BY <2>4, <3>1
  <2> QED BY <2>3, <2>4
<1>9. NamedOnce(All(gots))
  BY <1>3, <1>5, <1>6, <1>7, <1>8 DEF NamedOnce
<1>10. ASSUME NEW x PROVE x \in NamesIn(All(gots)) <=> \E i \in 1..n : x \in NamesIn(gots[i])
  <2>1. ASSUME NEW y \in DOMAIN f PROVE \E i \in 1..n : f[y].name \in NamesIn(gots[i])
    <3>1. PICK i \in 1..n : \E j \in DOMAIN gots[i].files : f[y] = gots[i].files[j]
      BY <1>5a
    <3> QED BY <3>1 DEF NamesIn
  <2>2. ASSUME NEW y \in DOMAIN k PROVE \E i \in 1..n : k[y] \in NamesIn(gots[i])
    <3>1. PICK i \in 1..n : \E j \in DOMAIN gots[i].skipped : k[y] = gots[i].skipped[j]
      BY <1>5b
    <3> QED BY <3>1 DEF NamesIn
  <2>3. ASSUME NEW i \in 1..n, NEW j \in DOMAIN gots[i].files PROVE \E y \in DOMAIN f : f[y].name = gots[i].files[j].name
    <3>1. PICK y \in DOMAIN f : f[y] = fs[i][j]
      BY <1>1, <1>4 DEF Flattens
    <3> QED BY <1>1, <3>1
  <2>4. ASSUME NEW i \in 1..n, NEW j \in DOMAIN gots[i].skipped PROVE \E y \in DOMAIN k : k[y] = gots[i].skipped[j]
    <3>1. PICK y \in DOMAIN k : k[y] = ks[i][j]
      BY <1>2, <1>4 DEF Flattens
    <3> QED BY <1>2, <3>1
  <2>5. NamesIn(All(gots)) = {f[y].name : y \in DOMAIN f} \cup {k[y] : y \in DOMAIN k}
    BY <1>3 DEF NamesIn
  <2>6. ASSUME NEW i \in 1..n, x \in NamesIn(gots[i]) PROVE x \in NamesIn(All(gots))
    BY <2>3, <2>4, <2>5, <2>6 DEF NamesIn
  <2>7. ASSUME x \in NamesIn(All(gots)) PROVE \E i \in 1..n : x \in NamesIn(gots[i])
    BY <2>1, <2>2, <2>5, <2>7
  <2> QED BY <2>6, <2>7
<1> QED BY <1>9, <1>10

\* What is over the limit moves from one list to the other.
LEMMA LimitedNamed ==
  ASSUME NEW got, NamedOnce(got) PROVE NamedOnce(Limited(got)) /\ NamesIn(Limited(got)) = NamesIn(got)
<1> USE MailAssumption
<1> DEFINE fs == got.files
           ks == got.skipped
           n == IF Len(fs) < MaxFiles THEN Len(fs) ELSE MaxFiles
           over == SubSeq(fs, n + 1, Len(fs))
           names == [i \in DOMAIN over |-> over[i].name]
           F == {fs[i] : i \in DOMAIN fs}
           m == Len(fs) - n
<1>1. fs \in Seq(F) /\ Len(fs) \in Nat /\ DOMAIN fs = 1..Len(fs) /\ n \in Nat /\ n <= Len(fs) /\ m \in Nat
  BY DEF NamedOnce, AsList
<1>2. AsList(ks) /\ Len(ks) \in Nat /\ DOMAIN ks = 1..Len(ks)
  BY DEF NamedOnce, AsList
<1> DEFINE kept == SubSeq(fs, 1, n)
           said == ks \o names
<1>3. Limited(got).files = kept /\ Limited(got).skipped = said
  BY DEF Limited, Got
<1> HIDE DEF F, n
<1>4. kept \in Seq(F) /\ DOMAIN kept = 1..n /\ \A i \in 1..n : kept[i] = fs[i]
  BY <1>1
<1>5. over \in Seq(F) /\ DOMAIN over = 1..m /\ \A i \in 1..m : over[i] = fs[n + i]
  BY <1>1
<1>6. DOMAIN names = 1..m /\ \A i \in 1..m : names[i] = fs[n + i].name
  BY <1>5
<1>7. AsList(names) /\ Len(names) = m
  <2>1. names = [i \in 1..m |-> names[i]]
    BY <1>6
  <2> HIDE DEF names, m
  <2> QED BY <1>1, <1>6, <2>1, BuiltList
<1> DEFINE K == {ks[i] : i \in DOMAIN ks} \cup {names[i] : i \in DOMAIN names}
<1>8. ks \in Seq(K) /\ names \in Seq(K)
  BY <1>2, <1>7, ListOf
<1> HIDE DEF names, over, kept, m, K, fs, ks
<1>9. /\ said \in Seq(K) /\ DOMAIN said = 1..(Len(ks) + m)
      /\ \A i \in DOMAIN said : said[i] = IF i <= Len(ks) THEN ks[i] ELSE names[i - Len(ks)]
  BY <1>2, <1>7, <1>8
<1> HIDE DEF said
<1>10. ASSUME NEW i \in DOMAIN said
       PROVE  \/ i \in DOMAIN ks /\ said[i] = ks[i]
              \/ n + (i - Len(ks)) \in DOMAIN fs /\ n + (i - Len(ks)) \notin 1..n /\ said[i] = fs[n + (i - Len(ks))].name /\ i \notin DOMAIN ks
  <2>1. CASE i <= Len(ks)
    BY <1>2, <1>9, <2>1
  <2>2. CASE ~(i <= Len(ks))
    <3>1. i - Len(ks) \in 1..m
      BY <1>1, <1>2, <1>9, <2>2
    <3>2. said[i] = names[i - Len(ks)]
      BY <1>9, <2>2
    <3>3. said[i] = fs[n + (i - Len(ks))].name
      BY <1>6, <3>1, <3>2
    <3>4. n + (i - Len(ks)) \in 1..Len(fs) /\ n + (i - Len(ks)) \notin 1..n
      BY <1>1, <3>1 DEF m
    <3> QED BY <1>1, <1>2, <2>2, <3>3, <3>4
  <2> QED BY <2>1, <2>2
<1>11. \A i \in DOMAIN ks : i \in DOMAIN said /\ said[i] = ks[i]
  BY <1>1, <1>2, <1>9
<1>12. ASSUME NEW j \in DOMAIN fs, j \notin 1..n PROVE \E i \in DOMAIN said : said[i] = fs[j].name
  <2>1. j - n \in 1..m
    BY <1>1, <1>12 DEF m
  <2>2. Len(ks) + (j - n) \in DOMAIN said /\ ~(Len(ks) + (j - n) <= Len(ks)) /\ (Len(ks) + (j - n)) - Len(ks) = j - n
    BY <1>1, <1>2, <1>9, <2>1
  <2>3. said[Len(ks) + (j - n)] = names[j - n]
    BY <1>9, <2>2
  <2>4. names[j - n] = fs[j].name
    <3>1. n + (j - n) = j
      BY <1>1, <1>12
    <3> QED BY <1>6, <2>1, <3>1
  <2> QED BY <2>2, <2>3, <2>4
<1>13. /\ \A i, j \in DOMAIN fs : i # j => fs[i].name # fs[j].name
       /\ \A i, j \in DOMAIN ks : i # j => ks[i] # ks[j]
       /\ \A i \in DOMAIN fs, j \in DOMAIN ks : fs[i].name # ks[j]
  BY DEF NamedOnce, fs, ks
<1>14. \A i \in 1..n : i \in DOMAIN fs
  BY <1>1
<1>15. \A i, j \in DOMAIN kept : i # j => kept[i].name # kept[j].name
  BY <1>4, <1>13, <1>14
<1>16. ASSUME NEW i \in DOMAIN said, NEW j \in DOMAIN said, i # j PROVE said[i] # said[j]
  <2>1. n + (i - Len(ks)) # n + (j - Len(ks))
    BY <1>1, <1>2, <1>9, <1>16
  <2> QED BY <1>10, <1>13, <1>16, <2>1
<1>17. ASSUME NEW i \in DOMAIN kept, NEW j \in DOMAIN said PROVE kept[i].name # said[j]
  <2>1. i \in 1..n /\ i \in DOMAIN fs /\ kept[i] = fs[i]
    BY <1>4, <1>14
  <2> QED BY <1>10, <1>13, <2>1
<1>18. AsList(kept) /\ AsList(said)
  BY <1>4, <1>9, ListIsOne
<1>19. NamedOnce(Limited(got))
  BY <1>3, <1>15, <1>16, <1>17, <1>18 DEF NamedOnce
<1>20. ASSUME NEW x PROVE x \in NamesIn(Limited(got)) <=> x \in NamesIn(got)
  <2>1. NamesIn(Limited(got)) = {kept[i].name : i \in DOMAIN kept} \cup {said[i] : i \in DOMAIN said}
    BY <1>3 DEF NamesIn
  <2>2. NamesIn(got) = {fs[i].name : i \in DOMAIN fs} \cup {ks[i] : i \in DOMAIN ks}
    BY DEF NamesIn, fs, ks
  <2>3. ASSUME x \in NamesIn(Limited(got)) PROVE x \in NamesIn(got)
    BY <1>4, <1>10, <1>14, <2>1, <2>2, <2>3
  <2>4. ASSUME x \in NamesIn(got) PROVE x \in NamesIn(Limited(got))
    <3>1. CASE \E i \in DOMAIN ks : x = ks[i]
      BY <1>11, <2>1, <3>1
    <3>2. CASE \E i \in DOMAIN fs : x = fs[i].name
      <4>1. PICK i \in DOMAIN fs : x = fs[i].name
        BY <3>2
      <4>2. CASE i \in 1..n
        BY <1>4, <2>1, <4>1, <4>2
      <4>3. CASE i \notin 1..n
        BY <1>12, <2>1, <4>1, <4>3
      <4> QED BY <4>2, <4>3
    <3> QED BY <2>2, <2>4, <3>1, <3>2
  <2> QED BY <2>3, <2>4
<1> QED BY <1>19, <1>20

\* With nothing attached that is a receipt, the message is named too.
LEMMA OrTheMessageNamed ==
  ASSUME NEW m, NEW got, NEW zone, NamedOnce(got), m.id \notin NamesIn(got)
  PROVE  /\ NamedOnce(OrTheMessage(m, got, zone))
         /\ NamesIn(got) \subseteq NamesIn(OrTheMessage(m, got, zone))
         /\ NamesIn(OrTheMessage(m, got, zone)) \subseteq NamesIn(got) \cup {m.id}
         /\ NamesIn(got) = {} => m.id \in NamesIn(OrTheMessage(m, got, zone))
<1> DEFINE out == OrTheMessage(m, got, zone)
<1>1. CASE got.files # <<>>
  <2>1. out = got
    BY <1>1 DEF OrTheMessage
  <2>2. 1 \in DOMAIN got.files
    BY <1>1 DEF NamedOnce, AsList
  <2>3. got.files[1].name \in NamesIn(got)
    BY <2>2 DEF NamesIn
  <2> QED BY <2>1, <2>3
<1>2. CASE got.files = <<>> /\ m.text
  <2>1. out.files = <<MessagePdf(m, zone)>> /\ out.skipped = got.skipped /\ MessagePdf(m, zone).name = m.id
    BY <1>2 DEF OrTheMessage, Got, MessagePdf
  <2>2. AsList(out.files) /\ DOMAIN out.files = {1} /\ out.files[1].name = m.id
    BY <2>1, BuiltList DEF AsList
  <2>3. NamesIn(out) = {m.id} \cup {got.skipped[i] : i \in DOMAIN got.skipped}
    BY <2>1, <2>2 DEF NamesIn
  <2>4. NamesIn(got) = {got.skipped[i] : i \in DOMAIN got.skipped}
    BY <1>2 DEF NamesIn
  <2>5. NamedOnce(out)
    BY <2>1, <2>2, <2>4 DEF NamedOnce
  <2> QED BY <2>3, <2>4, <2>5
<1>3. CASE got.files = <<>> /\ ~m.text
  <2>1. out.files = <<>> /\ out.skipped = Append(got.skipped, m.id)
    BY <1>3 DEF OrTheMessage, Got
  <2>2. NamesIn(got) = {got.skipped[i] : i \in DOMAIN got.skipped}
    BY <1>3 DEF NamesIn
  <2> DEFINE ks == got.skipped
             K == {ks[i] : i \in DOMAIN ks} \cup {m.id}
  <2>3. AsList(ks)
    BY DEF NamedOnce
  <2>4. ks \in Seq(K)
    BY <2>3, ListOf
  <2>5. m.id \in K
    OBVIOUS
  <2> HIDE DEF K
  <2>6. /\ out.skipped \in Seq(K) /\ DOMAIN out.skipped = 1..(Len(ks) + 1) /\ Len(ks) \in Nat /\ DOMAIN ks = 1..Len(ks)
        /\ \A i \in 1..(Len(ks) + 1) : out.skipped[i] = IF i = Len(ks) + 1 THEN m.id ELSE ks[i]
    BY <2>1, <2>4, <2>5
  <2>7. AsList(out.skipped) /\ AsList(out.files)
    <3>1. <<>> \in Seq(K)
      OBVIOUS
    <3> QED BY <2>1, <2>6, <3>1, ListIsOne
  <2>8. NamesIn(out) = {out.skipped[i] : i \in DOMAIN out.skipped}
    BY <2>1 DEF NamesIn
  <2> DEFINE sk == out.skipped
  <2>9. /\ DOMAIN sk = 1..(Len(ks) + 1)
        /\ \A i \in 1..(Len(ks) + 1) : sk[i] = IF i = Len(ks) + 1 THEN m.id ELSE ks[i]
    BY <2>6
  <2>10. \A i \in DOMAIN ks : ks[i] # m.id
    BY <2>2
  <2>11. \A i, j \in DOMAIN ks : i # j => ks[i] # ks[j]
    BY DEF NamedOnce
  <2> HIDE DEF sk, ks
  <2>12. \A i, j \in DOMAIN sk : i # j => sk[i] # sk[j]
    BY <2>6, <2>9, <2>10, <2>11
  <2>13. {sk[i] : i \in DOMAIN sk} = {ks[i] : i \in DOMAIN ks} \cup {m.id}
    <3>1. ASSUME NEW i \in DOMAIN sk PROVE sk[i] \in {ks[j] : j \in DOMAIN ks} \cup {m.id}
      BY <2>6, <2>9
    <3>2. ASSUME NEW i \in DOMAIN ks PROVE \E j \in DOMAIN sk : sk[j] = ks[i]
      BY <2>6, <2>9
    <3>3. Len(ks) + 1 \in DOMAIN sk /\ sk[Len(ks) + 1] = m.id
      BY <2>6, <2>9
    <3> QED BY <3>1, <3>2, <3>3
  <2>14. NamedOnce(out)
    BY <2>1, <2>7, <2>12 DEF NamedOnce, sk
  <2> QED BY <2>2, <2>8, <2>13, <2>14 DEF sk, ks
<1> QED BY <1>1, <1>2, <1>3

-----------------------------------------------------------------------------
(* What a mail and a zip come to is all named.                              *)

LEMMA LeafNamed ==
  ASSUME NEW part
  PROVE  /\ NamedOnce(FileOf(part)) /\ NamesIn(FileOf(part)) = {part.id}
         /\ NamedOnce(LeftOut(part.id)) /\ NamesIn(LeftOut(part.id)) = {part.id}
<1> DEFINE f == [name |-> part.id, bytes |-> Kept(part.id, "as is"), kind |-> part.kind]
<1>0. FileOf(part).files = <<f>> /\ f.name = part.id
  BY DEF FileOf, Got
<1> HIDE DEF f
<1>1. FileOf(part).skipped = <<>> /\ LeftOut(part.id).files = <<>> /\ LeftOut(part.id).skipped = <<part.id>>
  BY DEF FileOf, LeftOut, Got
<1>2. \A x : AsList(<<x>>) /\ DOMAIN <<x>> = {1} /\ <<x>>[1] = x
  BY DEF AsList
<1>3. AsList(<<>>) /\ DOMAIN <<>> = {}
  BY DEF AsList
<1> QED BY <1>0, <1>1, <1>2, <1>3 DEF NamedOnce, NamesIn

\* A mail attached: what is in it is named, and it itself at most.
LEMMA InnerNamed ==
  ASSUME NEW part, part.kind = "mail", OwnNames(part), NEW zone
  PROVE  /\ NamedOnce(InnerReceipts(part.mail, zone)) /\ NamesIn(InnerReceipts(part.mail, zone)) \subseteq NamesOf(part)
         /\ Inside(part.mail) \subseteq NamesIn(InnerReceipts(part.mail, zone))
<1> DEFINE m == part.mail
           n == Len(m.parts)
           gots == [i \in DOMAIN m.parts |-> InnerPart(m.parts[i])]
           got == Limited(All(gots))
<1>1. /\ n \in Nat /\ DOMAIN m.parts = 1..n
      /\ \A k, l \in 1..n : m.parts[k].id # m.id /\ (k # l => m.parts[k].id # m.parts[l].id)
  BY DEF OwnNames, IsList
<1>2. NamesOf(part) = {m.id} \cup {m.parts[k].id : k \in 1..n}
  BY <1>1 DEF NamesOf
<1>3. InnerReceipts(m, zone) = OrTheMessage(m, got, zone)
  BY DEF InnerReceipts
<1>4. Inside(m) = IF m.parts = <<>> THEN {m.id} ELSE {m.parts[k].id : k \in 1..n}
  BY <1>1 DEF Inside
<1>5. m.parts = <<>> => n = 0
  OBVIOUS
<1> HIDE DEF m, n
<1>6. DOMAIN gots = 1..n /\ \A i \in 1..n : gots[i] = InnerPart(m.parts[i])
  BY <1>1
<1>7. \A i \in 1..n : NamedOnce(gots[i]) /\ NamesIn(gots[i]) = {m.parts[i].id}
  BY <1>6, LeafNamed DEF InnerPart
<1> HIDE DEF gots
<1>8. \A i, j \in 1..n : i # j => NamesIn(gots[i]) \cap NamesIn(gots[j]) = {}
  BY <1>1, <1>7
<1>9. NamedOnce(All(gots)) /\ NamesIn(All(gots)) = UNION {NamesIn(gots[i]) : i \in 1..n}
  BY <1>1, <1>6, <1>7, <1>8, AllNamed
<1>10. UNION {NamesIn(gots[i]) : i \in 1..n} = {m.parts[i].id : i \in 1..n}
  BY <1>7
<1>11. NamedOnce(got) /\ NamesIn(got) = {m.parts[i].id : i \in 1..n}
  BY <1>9, <1>10, LimitedNamed
<1> HIDE DEF got
<1>12. m.id \notin NamesIn(got)
  BY <1>1, <1>11
<1>13. /\ NamedOnce(InnerReceipts(m, zone))
       /\ NamesIn(got) \subseteq NamesIn(InnerReceipts(m, zone))
       /\ NamesIn(InnerReceipts(m, zone)) \subseteq NamesIn(got) \cup {m.id}
       /\ NamesIn(got) = {} => m.id \in NamesIn(InnerReceipts(m, zone))
  BY <1>3, <1>11, <1>12, OrTheMessageNamed
<1>14. NamesIn(InnerReceipts(m, zone)) \subseteq NamesOf(part)
  BY <1>2, <1>11, <1>13
<1>15. Inside(m) \subseteq NamesIn(InnerReceipts(m, zone))
  <2>1. CASE m.parts = <<>>
    <3>1. {m.parts[i].id : i \in 1..n} = {}
      BY <1>5, <2>1
    <3> QED BY <1>4, <1>11, <1>13, <2>1, <3>1
  <2>2. CASE m.parts # <<>>
    BY <1>4, <1>11, <1>13, <2>2
  <2> QED BY <2>1, <2>2
<1> QED BY <1>13, <1>14, <1>15 DEF m

\* A mail: everything in it is named.
LEMMA MailNamed ==
  ASSUME NEW e \in Mail, NEW zone
  PROVE  NamedOnce(ReceiptsFromMail(What[e], zone)) /\ InIt(What[e]) \subseteq NamesIn(ReceiptsFromMail(What[e], zone))
<1> DEFINE m == What[e]
           n == Len(m.parts)
           gots == [i \in DOMAIN m.parts |-> OuterPart(m.parts[i], zone)]
           got == Limited(All(gots))
           Held(i) == IF m.parts[i].kind = "mail" THEN Inside(m.parts[i].mail) ELSE {m.parts[i].id}
<1>1. /\ n \in Nat /\ DOMAIN m.parts = 1..n
      /\ \A i \in 1..n : OwnNames(m.parts[i]) /\ m.id \notin NamesOf(m.parts[i])
      /\ \A i, j \in 1..n : i # j => NamesOf(m.parts[i]) \cap NamesOf(m.parts[j]) = {}
  BY ToldApart DEF IsList
<1>2. ReceiptsFromMail(m, zone) = OrTheMessage(m, got, zone)
  BY DEF ReceiptsFromMail
<1>3. InIt(m) = IF m.parts = <<>> THEN {m.id} ELSE UNION {Held(i) : i \in 1..n}
  BY <1>1, ToldApart DEF InIt, Leaves
<1>4. m.parts = <<>> => n = 0
  OBVIOUS
<1> HIDE DEF m, n
<1>5. DOMAIN gots = 1..n /\ \A i \in 1..n : gots[i] = OuterPart(m.parts[i], zone)
  BY <1>1
<1> HIDE DEF gots, Held
<1>6. ASSUME NEW i \in 1..n PROVE NamedOnce(gots[i]) /\ NamesIn(gots[i]) \subseteq NamesOf(m.parts[i]) /\ Held(i) \subseteq NamesIn(gots[i])
  <2>1. CASE m.parts[i].kind = "mail"
    <3> DEFINE p == m.parts[i]
    <3>1. p.kind = "mail" /\ OwnNames(p) /\ gots[i] = InnerReceipts(p.mail, zone) /\ Held(i) = Inside(p.mail)
      BY <1>1, <1>5, <2>1 DEF OuterPart, Held
    <3> HIDE DEF p
    <3>2. NamedOnce(gots[i]) /\ NamesIn(gots[i]) \subseteq NamesOf(p) /\ Held(i) \subseteq NamesIn(gots[i])
      BY <3>1, InnerNamed
    <3> QED BY <3>2 DEF p
  <2>2. CASE m.parts[i].kind # "mail"
    <3>1. gots[i] = InnerPart(m.parts[i]) /\ NamesOf(m.parts[i]) = {m.parts[i].id} /\ Held(i) = {m.parts[i].id}
      BY <1>5, <2>2 DEF OuterPart, NamesOf, Held
    <3>2. gots[i] = FileOf(m.parts[i]) \/ gots[i] = LeftOut(m.parts[i].id)
      BY <3>1 DEF InnerPart
    <3> QED BY <3>1, <3>2, LeafNamed
  <2> QED BY <2>1, <2>2
<1>7. \A i, j \in 1..n : i # j => NamesIn(gots[i]) \cap NamesIn(gots[j]) = {}
  <2>1. ASSUME NEW i \in 1..n, NEW j \in 1..n, i # j PROVE NamesIn(gots[i]) \cap NamesIn(gots[j]) = {}
    <3>1. NamesIn(gots[i]) \subseteq NamesOf(m.parts[i]) /\ NamesIn(gots[j]) \subseteq NamesOf(m.parts[j])
      BY <1>6
    <3>2. NamesOf(m.parts[i]) \cap NamesOf(m.parts[j]) = {}
      BY <1>1, <2>1
    <3> QED BY <3>1, <3>2
  <2> QED BY <2>1
<1>8. NamedOnce(All(gots)) /\ NamesIn(All(gots)) = UNION {NamesIn(gots[i]) : i \in 1..n}
  BY <1>1, <1>5, <1>6, <1>7, AllNamed
<1>9. NamedOnce(got) /\ NamesIn(got) = UNION {NamesIn(gots[i]) : i \in 1..n}
  BY <1>8, LimitedNamed
<1> HIDE DEF got
<1>10. m.id \notin NamesIn(got)
  <2>1. ASSUME NEW i \in 1..n PROVE m.id \notin NamesIn(gots[i])
    <3>1. NamesIn(gots[i]) \subseteq NamesOf(m.parts[i]) /\ m.id \notin NamesOf(m.parts[i])
      BY <1>1, <1>6
    <3> QED BY <3>1
  <2> QED BY <1>9, <2>1
<1>11. /\ NamedOnce(ReceiptsFromMail(m, zone))
       /\ NamesIn(got) \subseteq NamesIn(ReceiptsFromMail(m, zone))
       /\ NamesIn(got) = {} => m.id \in NamesIn(ReceiptsFromMail(m, zone))
  BY <1>2, <1>9, <1>10, OrTheMessageNamed
<1>12. CASE m.parts = <<>>
  <2>1. NamesIn(got) = {}
    BY <1>4, <1>9, <1>12
  <2> QED BY <1>3, <1>11, <1>12, <2>1 DEF m
<1>13. CASE m.parts # <<>>
  <2>1. UNION {Held(i) : i \in 1..n} \subseteq NamesIn(got)
    BY <1>6, <1>9
  <2> QED BY <1>3, <1>11, <1>13, <2>1 DEF m
<1> QED BY <1>12, <1>13

\* A zip: every entry is named.
LEMMA ArchiveNamed ==
  ASSUME NEW z \in Archive
  PROVE  NamedOnce(ReadArchive(What[z])) /\ InIt(What[z]) \subseteq NamesIn(ReadArchive(What[z]))
<1> DEFINE es == What[z].entries
           n == Len(es)
           gots == [i \in DOMAIN es |-> Unpacked(es[i])]
<1>1. /\ n \in Nat /\ DOMAIN es = 1..n /\ \A i, j \in 1..n : i # j => es[i].id # es[j].id
      /\ InIt(What[z]) = {es[i].id : i \in 1..n}
  BY ToldApart DEF IsList, InIt
<1>2. ReadArchive(What[z]) = Limited(All(gots))
  BY DEF ReadArchive
<1> HIDE DEF es, n
<1>3. DOMAIN gots = 1..n /\ \A i \in 1..n : gots[i] = Unpacked(es[i])
  BY <1>1
<1> HIDE DEF gots
<1>4. \A i \in 1..n : NamedOnce(gots[i]) /\ NamesIn(gots[i]) = {es[i].id}
  BY <1>3, LeafNamed DEF Unpacked
<1>5. \A i, j \in 1..n : i # j => NamesIn(gots[i]) \cap NamesIn(gots[j]) = {}
  BY <1>1, <1>4
<1>6. NamedOnce(All(gots)) /\ NamesIn(All(gots)) = UNION {NamesIn(gots[i]) : i \in 1..n}
  BY <1>1, <1>3, <1>4, <1>5, AllNamed
<1>7. UNION {NamesIn(gots[i]) : i \in 1..n} = {es[i].id : i \in 1..n}
  BY <1>4
<1> QED BY <1>1, <1>2, <1>6, <1>7, LimitedNamed

-----------------------------------------------------------------------------
(* An answer says every name.                                               *)

\* What an answer will say, if it ends as it stands: the files still to store, and what is
\* stored or left out.
Saying(x) == Got(x.todo, x.stored \o x.skipped)
SaidOk(x) ==
  /\ AsList(x.todo) /\ AsList(x.stored) /\ AsList(x.skipped)
  /\ x.phase = "body" => x.stored = <<>> /\ (IF x.via = "zip" THEN x.mail \in Archive ELSE x.mail \in Mail)
  /\ x.phase = "sorting" => x.stored = <<>> /\ x.mail \in Mail
  /\ x.phase \in {"storing", "converting"} => NamedOnce(Saying(x)) /\ InIt(What[x.mail]) \subseteq NamesIn(Saying(x))
  /\ x.phase = "converting" => x.todo # <<>>
SaidInv == \A d \in Post : posts[d] = Idle \/ SaidOk(posts[d])

LEMMA Joined ==
  ASSUME NEW s, NEW t, AsList(s), AsList(t)
  PROVE  /\ AsList(s \o t) /\ DOMAIN (s \o t) = 1..(Len(s) + Len(t)) /\ Len(s) \in Nat /\ Len(t) \in Nat
         /\ DOMAIN s = 1..Len(s) /\ DOMAIN t = 1..Len(t)
         /\ \A i \in 1..Len(s) : (s \o t)[i] = s[i]
         /\ \A i \in 1..Len(t) : (s \o t)[Len(s) + i] = t[i]
<1> DEFINE T == {s[i] : i \in DOMAIN s} \cup {t[i] : i \in DOMAIN t}
<1>1. s \in Seq(T) /\ t \in Seq(T)
  BY ListOf
<1> HIDE DEF T
<1>2. s \o t \in Seq(T)
  BY <1>1
<1>3. AsList(s \o t)
  BY <1>2, ListIsOne
<1> QED BY <1>1, <1>3

\* A list, one more at its end; or its first one gone.
LEMMA OneOnList ==
  ASSUME NEW s, AsList(s), NEW x
  PROVE  /\ AsList(Append(s, x)) /\ DOMAIN Append(s, x) = 1..(Len(s) + 1) /\ Len(s) \in Nat /\ DOMAIN s = 1..Len(s)
         /\ Len(Append(s, x)) = Len(s) + 1
         /\ \A i \in 1..Len(s) : Append(s, x)[i] = s[i]
         /\ Append(s, x)[Len(s) + 1] = x
<1> DEFINE T == {s[i] : i \in DOMAIN s} \cup {x}
<1>1. s \in Seq(T) /\ x \in T
  BY ListOf
<1> HIDE DEF T
<1>2. Append(s, x) \in Seq(T)
  BY <1>1
<1>3. AsList(Append(s, x))
  BY <1>2, ListIsOne
<1> QED BY <1>1, <1>3

LEMMA OneOffList ==
  ASSUME NEW s, AsList(s), s # <<>>
  PROVE  /\ AsList(Tail(s)) /\ DOMAIN Tail(s) = 1..(Len(s) - 1) /\ Len(s) \in Nat \ {0} /\ DOMAIN s = 1..Len(s) /\ Head(s) = s[1]
         /\ \A i \in 1..(Len(s) - 1) : Tail(s)[i] = s[i + 1]
<1> DEFINE T == {s[i] : i \in DOMAIN s}
<1>1. s \in Seq(T)
  BY DEF AsList
<1> HIDE DEF T
<1>2. Tail(s) \in Seq(T)
  BY <1>1
<1>3. AsList(Tail(s))
  BY <1>2, ListIsOne
<1> QED BY <1>1, <1>3

\* The next file is stored or left out: it goes from what is to be done to what is said.
LEMMA OneIsSaid ==
  ASSUME NEW todo, NEW was, NEW said, todo # <<>>, NamedOnce(Got(todo, was)), AsList(said), NEW at \in DOMAIN said,
         said[at] = Head(todo).name,
         \A i \in DOMAIN said : i # at => \E j \in DOMAIN was : said[i] = was[j],
         \A j \in DOMAIN was : \E i \in DOMAIN said : said[i] = was[j],
         \A i, j \in DOMAIN said : i # j /\ i # at /\ j # at => said[i] # said[j]
  PROVE  NamedOnce(Got(Tail(todo), said)) /\ NamesIn(Got(Tail(todo), said)) = NamesIn(Got(todo, was))
<1>1. /\ Got(todo, was).files = todo /\ Got(todo, was).skipped = was
      /\ Got(Tail(todo), said).files = Tail(todo) /\ Got(Tail(todo), said).skipped = said
  BY DEF Got
<1>2. /\ AsList(todo) /\ AsList(was)
      /\ \A i, j \in DOMAIN todo : i # j => todo[i].name # todo[j].name
      /\ \A i \in DOMAIN todo, j \in DOMAIN was : todo[i].name # was[j]
  BY <1>1 DEF NamedOnce
<1>3. /\ AsList(Tail(todo)) /\ DOMAIN Tail(todo) = 1..(Len(todo) - 1) /\ Len(todo) \in Nat \ {0} /\ DOMAIN todo = 1..Len(todo)
      /\ Head(todo) = todo[1] /\ \A i \in 1..(Len(todo) - 1) : Tail(todo)[i] = todo[i + 1]
  BY <1>2, OneOffList
<1>4. ASSUME NEW i \in DOMAIN Tail(todo) PROVE i + 1 \in DOMAIN todo /\ i + 1 # 1 /\ Tail(todo)[i] = todo[i + 1]
  BY <1>3
<1>5. 1 \in DOMAIN todo
  BY <1>3
<1>6. \A i, j \in DOMAIN Tail(todo) : i # j => Tail(todo)[i].name # Tail(todo)[j].name
  <2>1. \A i, j \in DOMAIN Tail(todo) : i # j => i + 1 # j + 1
    BY <1>3
  <2> QED BY <1>2, <1>4, <2>1
<1>7. \A i, j \in DOMAIN said : i # j => said[i] # said[j]
  <2>1. \A i \in DOMAIN said : i # at => said[i] # said[at]
    BY <1>2, <1>3, <1>5
  <2> QED BY <2>1
<1>8. \A i \in DOMAIN Tail(todo), j \in DOMAIN said : Tail(todo)[i].name # said[j]
  <2>1. ASSUME NEW i \in DOMAIN Tail(todo), NEW j \in DOMAIN said PROVE Tail(todo)[i].name # said[j]
    <3>1. CASE j = at
      BY <1>2, <1>3, <1>4, <1>5, <3>1
    <3>2. CASE j # at
      BY <1>2, <1>4, <3>2
    <3> QED BY <3>1, <3>2
  <2> QED BY <2>1
<1>9. NamedOnce(Got(Tail(todo), said))
  <2>1. AsList(Tail(todo))
    BY <1>3
  <2>2. ASSUME NEW f, f.files = Tail(todo), f.skipped = said PROVE NamedOnce(f)
    BY <1>6, <1>7, <1>8, <2>1, <2>2 DEF NamedOnce
  <2> QED BY <1>1, <2>2
<1>10. NamesIn(Got(Tail(todo), said)) = {Tail(todo)[i].name : i \in DOMAIN Tail(todo)} \cup {said[i] : i \in DOMAIN said}
  BY <1>1 DEF NamesIn
<1>11. NamesIn(Got(todo, was)) = {todo[i].name : i \in DOMAIN todo} \cup {was[i] : i \in DOMAIN was}
  BY <1>1 DEF NamesIn
<1>12. ASSUME NEW x \in NamesIn(Got(todo, was)) PROVE x \in NamesIn(Got(Tail(todo), said))
  <2>1. CASE \E j \in DOMAIN was : x = was[j]
    <3>1. \E i \in DOMAIN said : said[i] = x
      BY <2>1
    <3> QED BY <1>10, <3>1
  <2>2. CASE \E i \in DOMAIN todo : x = todo[i].name
    <3>1. PICK i \in DOMAIN todo : x = todo[i].name
      BY <2>2
    <3>2. CASE i = 1
      BY <1>3, <1>10, <3>1, <3>2
    <3>3. CASE i # 1
      <4>1. i - 1 \in DOMAIN Tail(todo) /\ Tail(todo)[i - 1] = todo[i]
        BY <1>3, <3>3
      <4> QED BY <1>10, <3>1, <4>1
    <3> QED BY <3>2, <3>3
  <2> QED BY <1>11, <2>1, <2>2
<1>13. ASSUME NEW x \in NamesIn(Got(Tail(todo), said)) PROVE x \in NamesIn(Got(todo, was))
  <2>1. CASE \E i \in DOMAIN Tail(todo) : x = Tail(todo)[i].name
    BY <1>4, <1>11, <2>1
  <2>2. CASE \E i \in DOMAIN said : x = said[i]
    <3>1. PICK i \in DOMAIN said : x = said[i]
      BY <2>2
    <3>2. CASE i = at
      BY <1>3, <1>5, <1>11, <3>1, <3>2
    <3>3. CASE i # at
      BY <1>11, <3>1, <3>3
    <3> QED BY <3>2, <3>3
  <2> QED BY <1>10, <2>1, <2>2
<1> QED BY <1>9, <1>12, <1>13

\* Left out, it is said last.
LEMMA SkippedIsSaid ==
  ASSUME NEW todo, NEW stored, NEW skipped, todo # <<>>, AsList(stored), AsList(skipped), NamedOnce(Got(todo, stored \o skipped))
  PROVE  /\ NamedOnce(Got(Tail(todo), stored \o Append(skipped, Head(todo).name)))
         /\ NamesIn(Got(Tail(todo), stored \o Append(skipped, Head(todo).name))) = NamesIn(Got(todo, stored \o skipped))
<1> DEFINE x == Head(todo).name
           more == Append(skipped, x)
           was == stored \o skipped
           said == stored \o more
           at == Len(stored) + Len(skipped) + 1
           n == Len(stored) + Len(skipped)
<1>1. /\ AsList(was) /\ DOMAIN was = 1..n /\ Len(stored) \in Nat /\ Len(skipped) \in Nat
      /\ \A i \in 1..Len(stored) : was[i] = stored[i]
      /\ \A i \in 1..Len(skipped) : was[Len(stored) + i] = skipped[i]
  BY Joined
<1>2. /\ AsList(more) /\ DOMAIN more = 1..(Len(skipped) + 1) /\ Len(more) = Len(skipped) + 1
      /\ \A i \in 1..Len(skipped) : more[i] = skipped[i]
      /\ more[Len(skipped) + 1] = x
  BY OneOnList
<1> HIDE DEF more, x
<1>3. /\ AsList(said) /\ DOMAIN said = 1..(Len(stored) + Len(more))
      /\ \A i \in 1..Len(stored) : said[i] = stored[i]
      /\ \A i \in 1..Len(more) : said[Len(stored) + i] = more[i]
  BY <1>2, Joined
<1> HIDE DEF was, said
<1>4. DOMAIN said = 1..(n + 1) /\ n \in Nat /\ at = n + 1 /\ at \in DOMAIN said
  BY <1>1, <1>2, <1>3
<1>5. said[at] = x
  <2>1. Len(skipped) + 1 \in 1..Len(more) /\ Len(stored) + (Len(skipped) + 1) = at
    BY <1>1, <1>2
  <2> QED BY <1>2, <1>3, <2>1
<1>6. ASSUME NEW i \in 1..n PROVE said[i] = was[i]
  <2>1. CASE i <= Len(stored)
    BY <1>1, <1>3, <2>1
  <2>2. CASE ~(i <= Len(stored))
    <3>1. i - Len(stored) \in 1..Len(skipped) /\ i - Len(stored) \in 1..Len(more) /\ Len(stored) + (i - Len(stored)) = i
      BY <1>1, <1>2, <2>2
    <3>2. was[Len(stored) + (i - Len(stored))] = skipped[i - Len(stored)]
      BY <1>1, <3>1
    <3>3. said[Len(stored) + (i - Len(stored))] = more[i - Len(stored)]
      BY <1>3, <3>1
    <3>4. more[i - Len(stored)] = skipped[i - Len(stored)]
      BY <1>2, <3>1
    <3> QED BY <3>1, <3>2, <3>3, <3>4
  <2> QED BY <2>1, <2>2
<1> HIDE DEF at, n
<1>7. \A i \in DOMAIN said : i # at => i \in DOMAIN was /\ said[i] = was[i]
  BY <1>1, <1>4, <1>6
<1>8. \A j \in DOMAIN was : j \in DOMAIN said /\ said[j] = was[j]
  BY <1>1, <1>4, <1>6
<1>9. \A i, j \in DOMAIN was : i # j => was[i] # was[j]
  BY DEF NamedOnce, Got, was
<1>10. \A i, j \in DOMAIN said : i # j /\ i # at /\ j # at => said[i] # said[j]
  BY <1>7, <1>9
<1>11. NamedOnce(Got(todo, was))
  BY DEF was
<1>12. NamedOnce(Got(Tail(todo), said)) /\ NamesIn(Got(Tail(todo), said)) = NamesIn(Got(todo, was))
  <2>1. \A i \in DOMAIN said : i # at => \E j \in DOMAIN was : said[i] = was[j]
    BY <1>7
  <2>2. \A j \in DOMAIN was : \E i \in DOMAIN said : said[i] = was[j]
    BY <1>8
  <2>3. AsList(said) /\ at \in DOMAIN said /\ said[at] = Head(todo).name
    BY <1>3, <1>4, <1>5 DEF x
  <2> QED BY <1>10, <1>11, <2>1, <2>2, <2>3, OneIsSaid
<1> QED BY <1>12 DEF said, was, more, x

\* Stored, it is said last of those stored.
LEMMA StoredIsSaid ==
  ASSUME NEW todo, NEW stored, NEW skipped, todo # <<>>, AsList(stored), AsList(skipped), NamedOnce(Got(todo, stored \o skipped))
  PROVE  /\ NamedOnce(Got(Tail(todo), Append(stored, Head(todo).name) \o skipped))
         /\ NamesIn(Got(Tail(todo), Append(stored, Head(todo).name) \o skipped)) = NamesIn(Got(todo, stored \o skipped))
<1> DEFINE x == Head(todo).name
           more == Append(stored, x)
           was == stored \o skipped
           said == more \o skipped
           at == Len(stored) + 1
           n == Len(stored) + Len(skipped)
<1>1. /\ AsList(was) /\ DOMAIN was = 1..n /\ Len(stored) \in Nat /\ Len(skipped) \in Nat
      /\ \A i \in 1..Len(stored) : was[i] = stored[i]
      /\ \A i \in 1..Len(skipped) : was[Len(stored) + i] = skipped[i]
  BY Joined
<1>2. /\ AsList(more) /\ DOMAIN more = 1..(Len(stored) + 1) /\ Len(more) = Len(stored) + 1
      /\ \A i \in 1..Len(stored) : more[i] = stored[i]
      /\ more[Len(stored) + 1] = x
  BY OneOnList
<1> HIDE DEF more, x
<1>3. /\ AsList(said) /\ DOMAIN said = 1..(Len(more) + Len(skipped))
      /\ \A i \in 1..Len(more) : said[i] = more[i]
      /\ \A i \in 1..Len(skipped) : said[Len(more) + i] = skipped[i]
  BY <1>2, Joined
<1> HIDE DEF was, said
<1>4. DOMAIN said = 1..(n + 1) /\ n \in Nat /\ at \in DOMAIN said
  BY <1>1, <1>2, <1>3
<1>5. said[at] = x
  BY <1>1, <1>2, <1>3
<1> DEFINE Old(i) == IF i < at THEN i ELSE i - 1
<1>6. ASSUME NEW i \in DOMAIN said, i # at PROVE Old(i) \in DOMAIN was /\ said[i] = was[Old(i)]
  <2>1. CASE i < at
    <3>1. i \in 1..Len(stored) /\ i \in 1..Len(more)
      BY <1>1, <1>2, <1>4, <2>1
    <3>2. said[i] = was[i]
      BY <1>1, <1>2, <1>3, <3>1
    <3> QED BY <1>1, <2>1, <3>1, <3>2
  <2>2. CASE ~(i < at)
    <3>0. i \in Nat /\ i <= Len(stored) + Len(skipped) + 1 /\ i > Len(stored) + 1 /\ Len(more) = Len(stored) + 1
           /\ Len(stored) \in Nat /\ Len(skipped) \in Nat
      BY <1>1, <1>2, <1>4, <1>6, <2>2
    <3>1. i - at \in 1..Len(skipped) /\ Len(more) + (i - at) = i /\ Len(stored) + (i - at) = i - 1
      BY <3>0
    <3>2. said[Len(more) + (i - at)] = skipped[i - at] /\ was[Len(stored) + (i - at)] = skipped[i - at]
      BY <1>1, <1>3, <3>1
    <3>3. i - 1 \in 1..n
      BY SMTT(20), <1>1, <3>1
    <3>4. said[i] = was[i - 1]
      BY <3>1, <3>2
    <3> QED BY <1>1, <2>2, <3>3, <3>4
  <2> QED BY <2>1, <2>2
<1>7. ASSUME NEW j \in DOMAIN was PROVE \E i \in DOMAIN said : said[i] = was[j]
  <2>1. CASE j < at
    <3>1. j \in DOMAIN said /\ j # at /\ Old(j) = j
      BY <1>1, <1>4, <2>1
    <3> QED BY <1>6, <3>1
  <2>2. CASE ~(j < at)
    <3>1. j + 1 \in DOMAIN said /\ j + 1 # at /\ Old(j + 1) = j
      BY <1>1, <1>4, <2>2
    <3> QED BY <1>6, <3>1
  <2> QED BY <2>1, <2>2
<1>8. \A i, j \in DOMAIN said : i # j /\ i # at /\ j # at => Old(i) # Old(j)
  BY <1>1, <1>4
<1> HIDE DEF at, n, Old
<1>9. \A i, j \in DOMAIN was : i # j => was[i] # was[j]
  BY DEF NamedOnce, Got, was
<1>10. \A i, j \in DOMAIN said : i # j /\ i # at /\ j # at => said[i] # said[j]
  BY <1>6, <1>8, <1>9
<1>11. NamedOnce(Got(todo, was))
  BY DEF was
<1>12. \A i \in DOMAIN said : i # at => \E j \in DOMAIN was : said[i] = was[j]
  BY <1>6
<1>13. NamedOnce(Got(Tail(todo), said)) /\ NamesIn(Got(Tail(todo), said)) = NamesIn(Got(todo, was))
  <2>1. AsList(said) /\ todo # <<>> /\ said[at] = Head(todo).name
    BY <1>3, <1>5 DEF x
  <2>2. at \in DOMAIN said
    BY <1>4
  <2>3. \A j \in DOMAIN was : \E i \in DOMAIN said : said[i] = was[j]
    BY <1>7
  <2> QED BY ONLY <1>10, <1>11, <1>12, <2>1, <2>2, <2>3, OneIsSaid
<1> QED BY <1>13 DEF said, was, more, x

-----------------------------------------------------------------------------
(* Every name stays said.                                                   *)

LEMMA SaidMoves ==
  ASSUME MailInv, SaidInv, NEW d \in Post, NEW x, x = Idle \/ SaidOk(x), posts' = [posts EXCEPT ![d] = x]
  PROVE  SaidInv'
BY DEF MailInv, PostsOk, SaidInv, SaidOk, Saying

LEMMA SaidStays == ASSUME SaidInv, posts' = posts PROVE SaidInv'
BY DEF SaidInv

LEMMA EmptyIsList == AsList(<<>>)
BY DEF AsList

\* A post that has just arrived.
LEMMA ArrivedSaid ==
  ASSUME MailInv, SaidInv, NEW d \in Post, NEW x, x.phase = "body", x.todo = <<>>, x.stored = <<>>, x.skipped = <<>>,
         IF x.via = "zip" THEN x.mail \in Archive ELSE x.mail \in Mail, posts' = [posts EXCEPT ![d] = x]
  PROVE  SaidInv'
<1>1. SaidOk(x)
  BY EmptyIsList DEF SaidOk
<1> QED BY <1>1, SaidMoves

LEMMA InboundSaid ==
  ASSUME MailInv, SaidInv, NEW d \in Post, NEW m \in Mail,
         InboundUnnamed(d, m) \/ \E i \in DOMAIN What[m].to : InboundNamed(d, m, i)
  PROVE  SaidInv'
<1> DEFINE x(p) == [New("inbound", p, Nobody) EXCEPT !.mail = m, !.known = AddressedBy(m)]
<1>1. \E p : posts' = [posts EXCEPT ![d] = x(p)]
  BY DEF InboundUnnamed, InboundNamed, Begin
<1>2. \A p : x(p).phase = "body" /\ x(p).todo = <<>> /\ x(p).stored = <<>> /\ x(p).skipped = <<>> /\ x(p).via = "inbound" /\ x(p).mail = m
  BY DEF New
<1> HIDE DEF x
<1>3. PICK p : posts' = [posts EXCEPT ![d] = x(p)]
  BY <1>1
<1> QED BY <1>2, <1>3, ArrivedSaid

LEMMA DroppedSaid ==
  ASSUME MailInv, SaidInv, NEW d \in Post, NEW via, NEW p, NEW c, NEW what, IF via = "zip" THEN what \in Archive ELSE what \in Mail,
         Dropped(d, via, p, c, what)
  PROVE  SaidInv'
<1> DEFINE x == [New(via, p, c) EXCEPT !.mail = what]
<1>1. posts' = [posts EXCEPT ![d] = x]
  BY DEF Dropped, Begin
<1>2. x.phase = "body" /\ x.todo = <<>> /\ x.stored = <<>> /\ x.skipped = <<>> /\ x.via = via /\ x.mail = what
  BY DEF New
<1> HIDE DEF x
<1> QED BY <1>1, <1>2, ArrivedSaid

LEMMA ParsedSaid ==
  ASSUME MailInv, SaidInv, NEW d \in Post, ParseInbound(d) \/ ParseDropped(d) PROVE SaidInv'
<1> DEFINE x(p, c) == [posts[d] EXCEPT !.phase = "sorting", !.owner = p, !.case = c, !.zone = zoneNow]
           y == [posts[d] EXCEPT !.phase = "sorting", !.zone = zoneNow]
<1>1. posts[d].phase = "body" /\ posts[d].via # "zip"
  BY DEF ParseInbound, ParseDropped
<1>2. PostOk(posts[d]) /\ SaidOk(posts[d])
  BY <1>1 DEF MailInv, PostsOk, SaidInv, Idle
<1>3. posts' = [posts EXCEPT ![d] = Idle] \/ posts' = [posts EXCEPT ![d] = y] \/ \E p, c : posts' = [posts EXCEPT ![d] = x(p, c)]
  <2>1. CASE ParseDropped(d)
    BY <2>1 DEF ParseDropped
  <2>2. ASSUME NEW p, Taken(d, p) PROVE posts' = [posts EXCEPT ![d] = Idle] \/ \E q, c : posts' = [posts EXCEPT ![d] = x(q, c)]
    BY <2>2 DEF Taken, Done
  <2>3. CASE ParseInbound(d)
    <3>1. (\E p : Taken(d, p)) \/ Done(d)
      BY <2>3 DEF ParseInbound
    <3> QED BY <2>2, <3>1 DEF Done
  <2> QED BY <2>1, <2>3
<1>4. ASSUME NEW z, DOMAIN z = DOMAIN posts[d], z.phase = "sorting", z.mail = posts[d].mail, z.todo = posts[d].todo,
             z.stored = posts[d].stored, z.skipped = posts[d].skipped
      PROVE  SaidOk(z)
  BY <1>1, <1>2, <1>4 DEF SaidOk
<1>5. SaidOk(y)
  <2>1. DOMAIN y = DOMAIN posts[d] /\ y.phase = "sorting" /\ y.mail = posts[d].mail /\ y.todo = posts[d].todo /\ y.stored = posts[d].stored /\ y.skipped = posts[d].skipped
    BY <1>2 DEF PostOk
  <2> HIDE DEF y
  <2> QED BY <1>4, <2>1
<1>6. \A p, c : SaidOk(x(p, c))
  <2>1. ASSUME NEW p, NEW c PROVE SaidOk(x(p, c))
    <3> DEFINE z == x(p, c)
    <3>1. DOMAIN z = DOMAIN posts[d] /\ z.phase = "sorting" /\ z.mail = posts[d].mail /\ z.todo = posts[d].todo /\ z.stored = posts[d].stored /\ z.skipped = posts[d].skipped
      BY <1>2 DEF PostOk
    <3> HIDE DEF z
    <3>2. SaidOk(z)
      BY <1>4, <3>1
    <3> QED BY <3>2 DEF z
  <2> QED BY <2>1
<1> HIDE DEF x, y
<1> QED BY <1>3, <1>5, <1>6, SaidMoves

\* What a mail or a zip comes to is said whole.
LEMMA ToStoreSaid ==
  ASSUME MailInv, SaidInv, NEW d \in Post, PostOk(posts[d]), SaidOk(posts[d]), posts[d].stored = <<>>, NEW got,
         NamedOnce(got), InIt(What[posts[d].mail]) \subseteq NamesIn(got), ToStore(d, got)
  PROVE  SaidInv'
<1> DEFINE x == [posts[d] EXCEPT !.phase = "storing", !.todo = got.files, !.skipped = got.skipped]
<1>1. posts' = [posts EXCEPT ![d] = x]
  BY DEF ToStore
<1>2. x.phase = "storing" /\ x.todo = got.files /\ x.skipped = got.skipped /\ x.stored = <<>> /\ x.mail = posts[d].mail
  BY DEF PostOk
<1> HIDE DEF x
<1>3. AsList(got.files) /\ AsList(got.skipped)
  BY DEF NamedOnce
<1>4. <<>> \o got.skipped = got.skipped
  BY <1>3 DEF AsList
<1>5. Saying(x).files = got.files /\ Saying(x).skipped = got.skipped
  BY <1>2, <1>4 DEF Saying, Got
<1>6. NamedOnce(Saying(x)) /\ NamesIn(Saying(x)) = NamesIn(got)
  BY <1>5 DEF NamedOnce, NamesIn
<1>7. SaidOk(x)
  BY <1>2, <1>3, <1>6, EmptyIsList DEF SaidOk
<1> QED BY <1>1, <1>7, SaidMoves

LEMMA SortedSaid == ASSUME MailInv, SaidInv, NEW d \in Post, SortMail(d) \/ Unpack(d) PROVE SaidInv'
<1>1. posts[d].phase \in {"sorting", "body"} /\ (posts[d].phase = "body" => posts[d].via = "zip")
  BY DEF SortMail, Unpack
<1>2. PostOk(posts[d]) /\ SaidOk(posts[d]) /\ posts[d].stored = <<>>
  BY <1>1 DEF MailInv, PostsOk, SaidInv, SaidOk, Idle
<1>3. CASE SortMail(d)
  <2>1. posts[d].mail \in Mail
    BY <1>2, <1>3 DEF SortMail, SaidOk
  <2> QED BY <1>2, <1>3, <2>1, MailNamed, ToStoreSaid DEF SortMail
<1>4. CASE Unpack(d)
  <2>1. posts[d].mail \in Archive
    BY <1>2, <1>4 DEF Unpack, SaidOk
  <2>2. CASE What[posts[d].mail].form
    <3>1. posts' = [posts EXCEPT ![d] = Idle]
      BY <1>4, <2>2 DEF Unpack, Done
    <3> QED BY <3>1, SaidMoves
  <2>3. CASE ~What[posts[d].mail].form
    BY <1>2, <1>4, <2>1, <2>3, ArchiveNamed, ToStoreSaid DEF Unpack
  <2> QED BY <2>2, <2>3
<1> QED BY <1>3, <1>4

LEMMA SkipSaid ==
  ASSUME MailInv, SaidInv, NEW d \in Post, posts[d].phase \in {"storing", "converting"}, posts[d].todo # <<>>, Skip(d)
  PROVE  SaidInv'
<1> DEFINE old == posts[d]
           x == [old EXCEPT !.phase = "storing", !.todo = Tail(old.todo), !.skipped = Append(old.skipped, Head(old.todo).name)]
<1>1. PostOk(old) /\ SaidOk(old)
  BY DEF MailInv, PostsOk, SaidInv, Idle
<1>2. posts' = [posts EXCEPT ![d] = x]
  BY <1>1 DEF Skip, MailInv, PostsOk, PostOk
<1>3. /\ x.phase = "storing" /\ x.todo = Tail(old.todo) /\ x.skipped = Append(old.skipped, Head(old.todo).name)
      /\ x.stored = old.stored /\ x.mail = old.mail
  BY <1>1 DEF PostOk
<1>4. old.todo # <<>> /\ old.phase \in {"storing", "converting"}
  OBVIOUS
<1> HIDE DEF x, old
<1>5. AsList(old.todo) /\ AsList(old.stored) /\ AsList(old.skipped) /\ NamedOnce(Got(old.todo, old.stored \o old.skipped))
      /\ InIt(What[old.mail]) \subseteq NamesIn(Got(old.todo, old.stored \o old.skipped))
  BY <1>1, <1>4 DEF SaidOk, Saying
<1>6. AsList(x.todo) /\ AsList(x.stored) /\ AsList(x.skipped)
  BY <1>3, <1>4, <1>5, OneOffList, OneOnList
<1>7. Saying(x) = Got(Tail(old.todo), old.stored \o Append(old.skipped, Head(old.todo).name))
  BY <1>3 DEF Saying
<1>8. NamedOnce(Saying(x)) /\ NamesIn(Saying(x)) = NamesIn(Got(old.todo, old.stored \o old.skipped))
  BY <1>4, <1>5, <1>7, SkippedIsSaid
<1>9. SaidOk(x)
  BY <1>3, <1>5, <1>6, <1>8 DEF SaidOk
<1> QED BY <1>2, <1>9, SaidMoves

LEMMA FileSaid ==
  ASSUME MailInv, SaidInv, NEW d \in Post, BeginFile(d) \/ FailsToConvert(d) \/ StoreFile(d) \/ Answer(d) PROVE SaidInv'
<1> DEFINE old == posts[d]
<1>1. old.phase \in {"storing", "converting"}
  BY DEF BeginFile, FailsToConvert, StoreFile, Answer
<1>2. PostOk(old) /\ SaidOk(old)
  BY <1>1 DEF MailInv, PostsOk, SaidInv, Idle
<1>3. old.phase = "converting" => old.todo # <<>>
  BY <1>2 DEF SaidOk
<1>4. CASE Skip(d) /\ (BeginFile(d) \/ FailsToConvert(d) \/ StoreFile(d))
  <2>1. old.todo # <<>>
    BY <1>3, <1>4 DEF BeginFile, FailsToConvert, StoreFile
  <2> QED BY <1>1, <1>4, <2>1, SkipSaid
<1>5. CASE Answer(d)
  <2>1. posts' = [posts EXCEPT ![d] = Idle]
    BY <1>5 DEF Answer, Done
  <2> QED BY <2>1, SaidMoves
<1>6. CASE BeginFile(d) /\ ~Skip(d)
  <2> DEFINE x == [old EXCEPT !.phase = "converting"]
  <2>1. posts' = [posts EXCEPT ![d] = x] /\ old.todo # <<>>
    BY <1>2, <1>6 DEF BeginFile, MailInv, PostsOk, PostOk
  <2>2. /\ x.phase = "converting" /\ x.todo = old.todo /\ x.skipped = old.skipped /\ x.stored = old.stored /\ x.mail = old.mail
    BY <1>2 DEF PostOk
  <2> HIDE DEF x, old
  <2>3. SaidOk(x)
    BY <1>1, <1>2, <2>1, <2>2 DEF SaidOk, Saying
  <2> QED BY <2>1, <2>3, SaidMoves
<1>7. CASE StoreFile(d) /\ ~Skip(d)
  <2> DEFINE x == [old EXCEPT !.phase = "storing", !.todo = Tail(old.todo), !.stored = Append(old.stored, Head(old.todo).name)]
  <2>1. posts' = [posts EXCEPT ![d] = x] /\ old.todo # <<>>
    BY <1>2, <1>3, <1>7 DEF StoreFile, MailInv, PostsOk, PostOk
  <2>2. /\ x.phase = "storing" /\ x.todo = Tail(old.todo) /\ x.stored = Append(old.stored, Head(old.todo).name)
        /\ x.skipped = old.skipped /\ x.mail = old.mail
    BY <1>2 DEF PostOk
  <2> HIDE DEF x, old
  <2>3. AsList(old.todo) /\ AsList(old.stored) /\ AsList(old.skipped) /\ NamedOnce(Got(old.todo, old.stored \o old.skipped))
        /\ InIt(What[old.mail]) \subseteq NamesIn(Got(old.todo, old.stored \o old.skipped))
    BY <1>1, <1>2 DEF SaidOk, Saying
  <2>4. AsList(x.todo) /\ AsList(x.stored) /\ AsList(x.skipped)
    BY <2>1, <2>2, <2>3, OneOffList, OneOnList
  <2>5. Saying(x) = Got(Tail(old.todo), Append(old.stored, Head(old.todo).name) \o old.skipped)
    BY <2>2 DEF Saying
  <2>6. NamedOnce(Saying(x)) /\ NamesIn(Saying(x)) = NamesIn(Got(old.todo, old.stored \o old.skipped))
    BY <2>1, <2>3, <2>5, StoredIsSaid
  <2>7. SaidOk(x)
    BY <2>2, <2>3, <2>4, <2>6 DEF SaidOk
  <2> QED BY <2>1, <2>7, SaidMoves
<1>8. FailsToConvert(d) => Skip(d)
  BY DEF FailsToConvert
<1> QED BY <1>4, <1>5, <1>6, <1>7, <1>8

LEMMA SaidInvKept == MailInv /\ SaidInv /\ [MailNext]_mailVars => SaidInv'
<1> SUFFICES ASSUME MailInv, SaidInv, [MailNext]_mailVars PROVE SaidInv'
  OBVIOUS
<1>1. ASSUME NEW d \in Post,
             ParseInbound(d) \/ ParseDropped(d) \/ SortMail(d) \/ Unpack(d) \/ BeginFile(d) \/ FailsToConvert(d) \/ StoreFile(d) \/ Answer(d)
      PROVE  SaidInv'
  BY <1>1, ParsedSaid, SortedSaid, FileSaid
<1>2. ASSUME NEW d \in Post, NEW m \in Mail, InboundUnnamed(d, m) \/ \E i \in DOMAIN What[m].to : InboundNamed(d, m, i)
      PROVE  SaidInv'
  BY <1>2, InboundSaid
<1>3. ASSUME NEW d \in Post, NEW c \in MailCase,
             (\E m \in Mail : Dropped(d, "email", OwnerOf[c], c, m)) \/ (\E z \in Archive : Dropped(d, "zip", OwnerOf[c], c, z))
      PROVE  SaidInv'
  <2>1. ASSUME NEW m \in Mail, Dropped(d, "email", OwnerOf[c], c, m) PROVE SaidInv'
    BY <2>1, DroppedSaid
  <2>2. ASSUME NEW z \in Archive, Dropped(d, "zip", OwnerOf[c], c, z) PROVE SaidInv'
    BY <2>2, DroppedSaid
  <2> QED BY <1>3, <2>1, <2>2
<1>4. ASSUME posts' = posts PROVE SaidInv'
  BY <1>4, SaidStays
<1>5. CASE MailRestart
  BY <1>5 DEF MailRestart, SaidInv
<1>6. CASE UNCHANGED mailVars
  BY <1>4, <1>6 DEF mailVars
<1>7. ASSUME \/ \E p \in Recipient : NewInboundToken(p) \/ RemovePerson(p) \/ DayPasses(p)
             \/ \E z \in Zones : ChangeZone(z)
             \/ \E c \in MailCase : CaseIsClaimed(c) \/ CaseIsReopened(c)
             \/ \E r \in onFile : RemoveReceipt(r)
      PROVE  SaidInv'
  BY <1>4, <1>7 DEF NewInboundToken, RemovePerson, DayPasses, ChangeZone, CaseIsClaimed, CaseIsReopened, RemoveReceipt
<1> QED BY <1>1, <1>2, <1>3, <1>5, <1>6, <1>7 DEF MailNext

LEMMA SaidHolds == SaidInv => NothingUnsaid
<1> SUFFICES ASSUME SaidInv, NEW d \in Post, posts[d] # Idle, posts[d].phase \in {"storing", "converting"}
             PROVE  LET said == posts[d].stored \o posts[d].skipped \o [i \in DOMAIN posts[d].todo |-> posts[d].todo[i].name]
                    IN InIt(What[posts[d].mail]) \subseteq Seqs!ToSet(said) /\ Seqs!IsInjective(said)
  BY DEF NothingUnsaid
<1> DEFINE x == posts[d]
           was == x.stored \o x.skipped
           names == [i \in DOMAIN x.todo |-> x.todo[i].name]
           said == was \o names
<1>1. SaidOk(x) /\ x.phase \in {"storing", "converting"}
  BY DEF SaidInv
<1> HIDE DEF x
<1>2. /\ AsList(x.todo) /\ AsList(x.stored) /\ AsList(x.skipped)
      /\ NamedOnce(Got(x.todo, was)) /\ InIt(What[x.mail]) \subseteq NamesIn(Got(x.todo, was))
  BY <1>1 DEF SaidOk, Saying
<1>3. AsList(was)
  BY <1>2, Joined
<1>4. /\ \A i, j \in DOMAIN x.todo : i # j => x.todo[i].name # x.todo[j].name
      /\ \A i, j \in DOMAIN was : i # j => was[i] # was[j]
      /\ \A i \in DOMAIN x.todo, j \in DOMAIN was : x.todo[i].name # was[j]
  BY <1>2 DEF NamedOnce, Got
<1>5. NamesIn(Got(x.todo, was)) = {x.todo[i].name : i \in DOMAIN x.todo} \cup {was[i] : i \in DOMAIN was}
  BY DEF NamesIn, Got
<1>6. Len(x.todo) \in Nat /\ DOMAIN x.todo = 1..Len(x.todo)
  BY <1>2 DEF AsList
<1>7. DOMAIN names = 1..Len(x.todo) /\ names = [i \in 1..Len(x.todo) |-> names[i]] /\ \A i \in DOMAIN x.todo : names[i] = x.todo[i].name
  BY <1>6
<1> HIDE DEF names, was
<1>8. AsList(names) /\ Len(names) = Len(x.todo)
  BY <1>6, <1>7, BuiltList
<1>9. /\ AsList(said) /\ DOMAIN said = 1..(Len(was) + Len(names)) /\ Len(was) \in Nat /\ DOMAIN was = 1..Len(was)
      /\ \A i \in 1..Len(was) : said[i] = was[i]
      /\ \A i \in 1..Len(names) : said[Len(was) + i] = names[i]
  BY <1>3, <1>8, Joined
<1> HIDE DEF said
<1>10. ASSUME NEW i \in DOMAIN said
       PROVE  \/ i \in DOMAIN was /\ said[i] = was[i]
              \/ i \notin DOMAIN was /\ i - Len(was) \in DOMAIN x.todo /\ said[i] = x.todo[i - Len(was)].name
  <2>1. CASE i <= Len(was)
    BY <1>9, <2>1
  <2>2. CASE ~(i <= Len(was))
    <3>1. i - Len(was) \in 1..Len(names) /\ Len(was) + (i - Len(was)) = i /\ i \notin 1..Len(was)
      BY <1>6, <1>8, <1>9, <2>2
    <3>2. said[Len(was) + (i - Len(was))] = names[i - Len(was)]
      BY <1>9, <3>1
    <3> QED BY <1>6, <1>7, <1>8, <1>9, <3>1, <3>2
  <2> QED BY <2>1, <2>2
<1>11. \A i, j \in DOMAIN said : i # j => i - Len(was) # j - Len(was)
  BY <1>6, <1>8, <1>9
<1>12. Seqs!IsInjective(said)
  <2>1. ASSUME NEW i \in DOMAIN said, NEW j \in DOMAIN said, i # j PROVE said[i] # said[j]
    BY <1>4, <1>10, <1>11, <2>1
  <2> QED BY <2>1 DEF Seqs!IsInjective
<1>13. ASSUME NEW n \in NamesIn(Got(x.todo, was)) PROVE n \in Seqs!ToSet(said)
  <2>1. CASE \E i \in DOMAIN was : n = was[i]
    <3>1. PICK i \in DOMAIN was : n = was[i]
      BY <2>1
    <3>2. i \in DOMAIN said /\ said[i] = n
      BY <1>6, <1>8, <1>9, <3>1
    <3> QED BY <3>2 DEF Seqs!ToSet
  <2>2. CASE \E i \in DOMAIN x.todo : n = x.todo[i].name
    <3>1. PICK i \in DOMAIN x.todo : n = x.todo[i].name
      BY <2>2
    <3>2. i \in 1..Len(names) /\ Len(was) + i \in DOMAIN said
      BY <1>6, <1>8, <1>9
    <3>3. said[Len(was) + i] = n
      BY <1>7, <1>9, <3>1, <3>2
    <3> QED BY <3>2, <3>3 DEF Seqs!ToSet
  <2> QED BY <1>5, <2>1, <2>2
<1> QED BY <1>2, <1>12, <1>13 DEF said, was, names, x

\* Nothing in a mail or a zip goes without a word.
THEOREM NothingLeftUnsaid == MailSpec => []NothingUnsaid
<1>1. MailInit => SaidInv
  BY DEF MailInit, SaidInv
<1> QED BY <1>1, MailInvInit, MailInvKept, SaidInvKept, SaidHolds, PTL DEF MailSpec

-----------------------------------------------------------------------------
(* Allowances.                                                              *)

\* What is typed in the forms is of the right kind, and the case's days are days.
FormsOk ==
  /\ settings \in [Admin -> [travel : Share \cup {100, 120}, perKm : PerKm \cup {0}] \cup {Unread}]
  /\ trip.from \in Nat /\ trip.to \in Nat
  /\ DOMAIN trip = {"kind", "from", "to", "open", "evidence"}

AllowanceInv == FormsOk /\ AllowancesHold

\* The page's copy of the rule finds the rate the server finds.
LEMMA SameRate ==
  ASSUME NEW rs \in SUBSET Rate, NEW c, NEW d \in Nat PROVE RateOn(rs, c, d) = RateFor(rs, c, d)
<1> USE AllowancesAssumption
<1> DEFINE known == {r \in rs : r.country = c /\ ~(r.from > d)}
           froms == {k.from : k \in known}
<1>1. \A r \in rs : r.from \in Nat /\ r.from <= LastDay
  OBVIOUS
<1>2. known = Started(rs, c, d)
  BY <1>1 DEF Started
<1>3. RateOn(rs, c, d) = {r \in known : r.from = Sets!Max(froms)}
  BY DEF RateOn
<1>4. RateFor(rs, c, d) = {r \in known : \A o \in known : o.from <= r.from}
  BY <1>2 DEF RateFor
<1>5. \A r \in known : r.from \in Nat /\ r.from <= LastDay
  BY <1>1
<1> HIDE DEF known
<1>6. ASSUME NEW r \in known PROVE r.from = Sets!Max(froms) <=> \A o \in known : o.from <= r.from
  <2>1. froms \in SUBSET (0..LastDay) /\ froms # {}
    BY <1>5
  <2>2. \E i \in froms : \A j \in froms : j <= i
    BY <2>1, LatestOfSome
  <2>3. \E i \in froms : \A j \in froms : i >= j
    BY <2>1, <2>2
  <2>4. Sets!Max(froms) \in froms /\ \A j \in froms : Sets!Max(froms) >= j
    BY <2>3 DEF Sets!Max
  <2>5. r.from \in froms /\ Sets!Max(froms) \in Nat /\ r.from \in Nat
    BY <1>5, <2>1, <2>4
  <2>6. ASSUME r.from = Sets!Max(froms), NEW o \in known PROVE o.from <= r.from
    BY <1>5, <2>4, <2>6
  <2>7. ASSUME \A o \in known : o.from <= r.from PROVE r.from = Sets!Max(froms)
    <3>1. PICK o \in known : o.from = Sets!Max(froms)
      BY <2>4
    <3>2. Sets!Max(froms) <= r.from /\ Sets!Max(froms) >= r.from
      BY <2>4, <2>5, <2>7, <3>1
    <3> QED BY <2>5, <3>2
  <2> QED BY <2>6, <2>7
<1> QED BY <1>3, <1>4, <1>6

\* What the dialog shows is what the server adds, from the same rates and days.
LEMMA SamePlan ==
  ASSUME NEW rs \in SUBSET Rate, NEW c, NEW from \in Nat, NEW to \in Nat, NEW share,
         PerDiemPreview(rs, c, from, to, share).problem = "none"
  PROVE  PerDiemPlan(rs, c, from, to, share) = PerDiemPreview(rs, c, from, to, share)
<1>1. Refused("not yet").problem # "none"
  BY DEF Refused
<1>2. ~(c = "" \/ from = NoDay \/ to = NoDay \/ to < from \/ to - from + 1 > MaxDays)
  BY <1>1 DEF PerDiemPreview
<1>3. PerDiemPreview(rs, c, from, to, share) = Pays(from, to, share, [d \in from..to |-> RateOn(rs, c, d)])
  BY <1>2 DEF PerDiemPreview
<1>4. PerDiemPlan(rs, c, from, to, share) = Pays(from, to, share, [d \in from..to |-> RateFor(rs, c, d)])
  BY <1>2 DEF PerDiemPlan
<1>5. \A d \in from..to : RateOn(rs, c, d) = RateFor(rs, c, d)
  BY SameRate
<1>6. [d \in from..to |-> RateOn(rs, c, d)] = [d \in from..to |-> RateFor(rs, c, d)]
  BY <1>5
<1> QED BY <1>3, <1>4, <1>6

\* A drive comes to what was shown, or to one cent less.
LEMMA SameDrive ==
  ASSUME NEW m \in Nat, NEW s \in MileagePreview(m) PROVE s \in {MileageCents(m), MileageCents(m) - 1}
<1>1. CASE m % 10000 = 5000
  <2>1. m \div 10000 \in Nat /\ (m + 5000) \div 10000 \in Nat /\ (m + 5000) \div 10000 = m \div 10000 + 1
    BY <1>1
  <2> QED BY <1>1, <2>1 DEF MileagePreview, MileageCents
<1>2. CASE m % 10000 # 5000
  BY <1>2 DEF MileagePreview
<1> QED BY <1>1, <1>2

LEMMA AllowanceInvInit == AllowanceInit => AllowanceInv
<1> SUFFICES ASSUME AllowanceInit PROVE AllowanceInv
  OBVIOUS
<1> USE AllowancesAssumption
<1>1. FormsOk
  <2>1. trip \in [kind : {"trip"}, from : {1}, to : {LastDay - 1}, open : {TRUE}, evidence : Evidence]
    BY DEF AllowanceInit
  <2>2. LastDay - 1 \in Nat
    OBVIOUS
  <2>3. trip.from = 1 /\ trip.to = LastDay - 1 /\ DOMAIN trip = {"kind", "from", "to", "open", "evidence"}
    BY <2>1
  <2> QED BY <2>2, <2>3 DEF AllowanceInit, FormsOk
<1>2. AllowanceTypeOk
  BY DEF AllowanceInit, AllowanceTypeOk, Policy, Defaults
<1>3. OnePerTrip /\ ~surprised /\ CompanySpeaksOnce
  BY DEF AllowanceInit, OnePerTrip, CompanySpeaksOnce
<1> QED BY <1>1, <1>2, <1>3 DEF AllowanceInv, AllowancesHold

\* What the company says is the policy, read or kept.
LEMMA PolicyRead == ASSUME AllowanceInv PROVE GetPolicy = policy
BY DEF AllowanceInv, AllowancesHold, CompanySpeaksOnce, GetPolicy

\* The company's side changes nothing of the claims, the case or the dialog.
LEMMA CompanyKeeps ==
  ASSUME AllowanceInv,
         ReadPolicy \/ (\E r \in Rate : AddRate(r)) \/ (\E r \in rates : DeleteRate(r))
           \/ (\E a \in Admin : OpenSettings(a) \/ SaveSettings(a) \/ \E k \in Settings : \E v \in SettingValues(k) : TypeSetting(a, k, v))
  PROVE  AllowanceInv'
<1>1. UNCHANGED <<claims, trip, surprised>>
  BY DEF ReadPolicy, AddRate, DeleteRate, OpenSettings, SaveSettings, TypeSetting
<1>2. OnePerTrip' /\ ~surprised' /\ surprised' \in BOOLEAN
  BY <1>1 DEF AllowanceInv, AllowancesHold, OnePerTrip, AllowanceTypeOk
<1>3. Unread \notin Policy
  BY DEF Unread, Policy
<1>4. SUFFICES FormsOk' /\ rates' \subseteq Rate /\ policy' \in Policy /\ cache' \in Policy \cup {Unread} /\ CompanySpeaksOnce'
  BY <1>2 DEF AllowanceInv, AllowancesHold, AllowanceTypeOk
<1>5. /\ FormsOk /\ rates \subseteq Rate /\ policy \in Policy /\ cache \in Policy \cup {Unread} /\ CompanySpeaksOnce
      /\ GetPolicy = policy
  BY PolicyRead DEF AllowanceInv, AllowancesHold, AllowanceTypeOk
<1>6. CASE ReadPolicy
  BY <1>1, <1>5, <1>6 DEF ReadPolicy, FormsOk, CompanySpeaksOnce
<1>7. ASSUME NEW r \in Rate, AddRate(r) PROVE FormsOk' /\ rates' \subseteq Rate /\ policy' \in Policy /\ cache' \in Policy \cup {Unread} /\ CompanySpeaksOnce'
  BY <1>1, <1>5, <1>7 DEF AddRate, RateTaken, FormsOk, CompanySpeaksOnce
<1>8. ASSUME NEW r \in rates, DeleteRate(r) PROVE FormsOk' /\ rates' \subseteq Rate /\ policy' \in Policy /\ cache' \in Policy \cup {Unread} /\ CompanySpeaksOnce'
  BY <1>1, <1>5, <1>8 DEF DeleteRate, WithoutRate, FormsOk, CompanySpeaksOnce
<1>9. ASSUME NEW a \in Admin, OpenSettings(a) PROVE FormsOk' /\ rates' \subseteq Rate /\ policy' \in Policy /\ cache' \in Policy \cup {Unread} /\ CompanySpeaksOnce'
  BY <1>1, <1>5, <1>9 DEF OpenSettings, FormsOk, CompanySpeaksOnce, Policy
<1>10. ASSUME NEW a \in Admin, SaveSettings(a) PROVE FormsOk' /\ rates' \subseteq Rate /\ policy' \in Policy /\ cache' \in Policy \cup {Unread} /\ CompanySpeaksOnce'
  <2>1. settings[a] \in [travel : Share \cup {100, 120}, perKm : PerKm \cup {0}] /\ settings[a].travel <= 100
    BY <1>5, <1>10 DEF SaveSettings, Accepted, FormsOk
  <2>2. settings[a] \in Policy
    BY <2>1, AllowancesAssumption DEF Policy
  <2> QED BY <1>1, <1>5, <1>10, <2>2 DEF SaveSettings, SetPolicy, FormsOk, CompanySpeaksOnce
<1>11. ASSUME NEW a \in Admin, NEW k \in Settings, NEW v \in SettingValues(k), TypeSetting(a, k, v)
       PROVE  FormsOk' /\ rates' \subseteq Rate /\ policy' \in Policy /\ cache' \in Policy \cup {Unread} /\ CompanySpeaksOnce'
  <2> DEFINE Form == [travel : Share \cup {100, 120}, perKm : PerKm \cup {0}]
  <2>1. settings[a] \in Form /\ UNCHANGED <<rates, policy, cache>> /\ settings' = [settings EXCEPT ![a][k] = v]
    BY <1>5, <1>11 DEF TypeSetting, FormsOk
  <2>2. [settings[a] EXCEPT ![k] = v] \in Form
    BY <2>1 DEF Settings, SettingValues
  <2>3. settings' = [settings EXCEPT ![a] = [settings[a] EXCEPT ![k] = v]]
    BY <2>1
  <2>4. settings' \in [Admin -> Form \cup {Unread}]
    BY <1>5, <2>2, <2>3 DEF FormsOk
  <2> QED BY <1>1, <1>5, <2>1, <2>4 DEF FormsOk, CompanySpeaksOnce
<1>12. DOMAIN settings = Admin
  BY <1>5 DEF FormsOk
<1> QED BY <1>6, <1>7, <1>8, <1>9, <1>10, <1>11

LEMMA DaysAreNumbers == \A f \in {NoDay, 1}, t \in Day : f \in Nat /\ t \in Nat
BY AllowancesAssumption DEF NoDay, Day

\* A case has the dates it is given.
LEMMA TripKeeps ==
  ASSUME AllowanceInv, NEW f \in Nat, NEW t \in Nat, trip' = [trip EXCEPT !.from = f, !.to = t]
  PROVE  trip'.from \in Nat /\ trip'.to \in Nat /\ DOMAIN trip' = {"kind", "from", "to", "open", "evidence"}
BY DEF AllowanceInv, FormsOk

\* The case and the dialog's own steps claim nothing.
LEMMA CaseKeeps ==
  ASSUME AllowanceInv,
         \/ CloseDialog \/ DialogPolicy \/ DialogRates \/ OfferCountry \/ PageRefreshed
         \/ (\E f \in {NoDay, 1}, t \in Day : EditCase([trip EXCEPT !.from = f, !.to = t]))
         \/ EditCase([trip EXCEPT !.kind = "case"]) \/ EditCase([trip EXCEPT !.open = FALSE])
         \/ (\E x \in claims : RemoveClaim(x)) \/ (\E what \in {"per diem", "mileage"} : OpenDialog(what))
         \/ UNCHANGED allowanceVars
  PROVE  AllowanceInv'
<1>1. UNCHANGED <<rates, policy, settings, surprised>> /\ cache' \in {cache, GetPolicy} /\ claims' \subseteq claims
  BY DEF CloseDialog, DialogPolicy, DialogRates, OfferCountry, PageRefreshed, EditCase, RemoveClaim, OpenDialog, allowanceVars, companyVars
<1>2. trip'.from \in Nat /\ trip'.to \in Nat /\ DOMAIN trip' = {"kind", "from", "to", "open", "evidence"}
  <2>1. CASE trip' = trip
    BY <2>1 DEF AllowanceInv, FormsOk
  <2>2. ASSUME NEW f \in {NoDay, 1}, NEW t \in Day, trip' = [trip EXCEPT !.from = f, !.to = t]
        PROVE  trip'.from \in Nat /\ trip'.to \in Nat /\ DOMAIN trip' = {"kind", "from", "to", "open", "evidence"}
    BY <2>2, DaysAreNumbers, TripKeeps
  <2>3. CASE trip' = [trip EXCEPT !.kind = "case"] \/ trip' = [trip EXCEPT !.open = FALSE]
    BY <2>3 DEF AllowanceInv, FormsOk
  <2> QED BY <2>1, <2>2, <2>3
          DEF CloseDialog, DialogPolicy, DialogRates, OfferCountry, PageRefreshed, EditCase, RemoveClaim, OpenDialog, allowanceVars
<1>3. GetPolicy = policy
  BY PolicyRead
<1> QED BY <1>1, <1>2, <1>3 DEF AllowanceInv, FormsOk, AllowancesHold, AllowanceTypeOk, OnePerTrip, CompanySpeaksOnce

-----------------------------------------------------------------------------
(* What is added.                                                           *)

\* What an addition leaves of the rest.
LEMMA AddedKeeps ==
  ASSUME AllowanceInv, UNCHANGED <<rates, policy, settings, trip>>, cache' = GetPolicy, ~surprised', surprised' \in BOOLEAN, OnePerTrip'
  PROVE  AllowanceInv'
<1>1. GetPolicy = policy
  BY PolicyRead
<1> QED BY <1>1 DEF AllowanceInv, FormsOk, AllowancesHold, AllowanceTypeOk, CompanySpeaksOnce

LEMMA PerDiemIsOne == ASSUME NEW c, NEW plan, AddPerDiem(c, plan) PROVE OnePerTrip'
BY DEF AddPerDiem, OtherClaims, OnePerTrip

LEMMA PressPerDiemKeeps == ASSUME AllowanceInv, PressPerDiem PROVE AllowanceInv'
<1> DEFINE shown == PerDiemPreview(dialog.rates, dialog.country, dialog.from, dialog.to, dialog.policy.travel)
           plan == PlanNow(dialog.country)
<1>1. /\ shown.problem = "none" /\ surprised' = (surprised \/ (SameBasis /\ plan # shown))
      /\ AddPerDiem(dialog.country, plan) \/ claims' = claims
      /\ UNCHANGED <<rates, policy, settings, trip>> /\ cache' = GetPolicy
  BY DEF PressPerDiem
<1>2. OnePerTrip'
  BY <1>1, PerDiemIsOne DEF AllowanceInv, AllowancesHold, OnePerTrip
<1>3. ASSUME SameBasis PROVE plan = shown
  <2>1. rates \in SUBSET Rate /\ trip.from \in Nat /\ trip.to \in Nat
    BY DEF AllowanceInv, FormsOk, AllowancesHold, AllowanceTypeOk
  <2>2. shown = PerDiemPreview(rates, dialog.country, trip.from, trip.to, policy.travel)
    BY <1>3 DEF SameBasis
  <2>3. plan = PerDiemPlan(rates, dialog.country, trip.from, trip.to, policy.travel)
    BY PolicyRead DEF PlanNow
  <2> QED BY <1>1, <2>1, <2>2, <2>3, SamePlan
<1>4. ~surprised' /\ surprised' \in BOOLEAN
  BY <1>1, <1>3 DEF AllowanceInv, AllowancesHold
<1> QED BY <1>1, <1>2, <1>4, AddedKeeps

LEMMA AskPerDiemKeeps == ASSUME AllowanceInv, AskPerDiem PROVE AllowanceInv'
<1>1. /\ UNCHANGED <<rates, policy, settings, trip, surprised>> /\ cache' = GetPolicy
      /\ \E c \in PerDiemCountry(trip.evidence) : AddPerDiem(c, PlanNow(c))
  BY DEF AskPerDiem
<1>2. OnePerTrip'
  BY <1>1, PerDiemIsOne
<1> QED BY <1>1, <1>2, AddedKeeps DEF AllowanceInv, AllowancesHold, AllowanceTypeOk

LEMMA PressMileageKeeps == ASSUME AllowanceInv, NEW km \in Km, NEW back \in BOOLEAN, PressMileage(km, back) PROVE AllowanceInv'
<1> USE AllowancesAssumption
<1> DEFINE cents == MileageCents(Millionths(km, back, GetPolicy.perKm))
           shown == MileagePreview(Millionths(km, back, dialog.policy.perKm))
<1>1. /\ UNCHANGED <<rates, policy, settings, trip>> /\ cache' = GetPolicy
      /\ \/ UNCHANGED <<claims, surprised>>
         \/ /\ claims' = claims \cup {Claim("mileage", Home, Home, cents)}
            /\ surprised' = (surprised \/ (dialog.policy = policy /\ \E s \in shown : s \notin {cents, cents - 1}))
  BY DEF PressMileage
<1>2. OnePerTrip'
  <2>1. \A what, cs : Claim(what, Home, Home, cs).what = what
    BY DEF Claim
  <2>2. claims' = claims \/ claims' = claims \cup {Claim("mileage", Home, Home, cents)}
    BY <1>1
  <2> DEFINE row == Claim("mileage", Home, Home, cents)
  <2>3. row.what = "mileage"
    BY <2>1
  <2> HIDE DEF row, cents
  <2>4. claims' = claims \/ claims' = claims \cup {row}
    BY <2>2 DEF row
  <2>5. \A x \in claims' : x.what = "per diem" => x \in claims
    BY <2>3, <2>4
  <2> QED BY <2>5 DEF AllowanceInv, AllowancesHold, OnePerTrip
<1>3. ASSUME dialog.policy = policy, NEW s \in shown PROVE s \in {cents, cents - 1}
  <2>1. Millionths(km, back, policy.perKm) \in Nat
    <3>0. km \in Nat /\ \A x \in PerKm \cup {0} : x \in Nat
      OBVIOUS
    <3>1. policy.perKm \in PerKm \cup {0}
      BY DEF AllowanceInv, AllowancesHold, AllowanceTypeOk, Policy
    <3>2. \A i, j \in Nat : i * j \in Nat
      OBVIOUS
    <3>3. (IF back THEN 2 ELSE 1) \in Nat
      OBVIOUS
    <3>4. policy.perKm \in Nat
      BY <3>0, <3>1
    <3> QED BY <3>0, <3>2, <3>3, <3>4 DEF Millionths
  <2>2. cents = MileageCents(Millionths(km, back, policy.perKm)) /\ s \in MileagePreview(Millionths(km, back, policy.perKm))
    BY <1>3, PolicyRead
  <2> QED BY <2>1, <2>2, SameDrive
<1>4. ~surprised' /\ surprised' \in BOOLEAN
  BY <1>1, <1>3 DEF AllowanceInv, AllowancesHold, AllowanceTypeOk
<1> QED BY <1>1, <1>2, <1>4, AddedKeeps

LEMMA AllowanceInvKept == AllowanceInv /\ [AllowanceNext]_allowanceVars => AllowanceInv'
<1> SUFFICES ASSUME AllowanceInv, [AllowanceNext]_allowanceVars PROVE AllowanceInv'
  OBVIOUS
<1>1. DOMAIN settings = Admin
  BY DEF AllowanceInv, FormsOk
<1>2. CASE AllowanceNext
  BY <1>1, <1>2, CompanyKeeps, CaseKeeps, PressPerDiemKeeps, AskPerDiemKeeps, PressMileageKeeps DEF AllowanceNext
<1>3. CASE UNCHANGED allowanceVars
  BY <1>3, CaseKeeps
<1> QED BY <1>2, <1>3

\* A trip has one per diem, a trip and a drive are added as the dialog showed them when
\* it was shown what holds, and the kept copy of the policy is the policy
\* (reports/allowances.js, utils/allowances.js, store/policy.js).
THEOREM AllowancesStayHeld == AllowanceSpec => []AllowancesHold
<1>1. AllowanceInv => AllowancesHold
  BY DEF AllowanceInv
<1> QED BY <1>1, AllowanceInvInit, AllowanceInvKept, PTL DEF AllowanceSpec

-----------------------------------------------------------------------------
(* What a trip and its rates are sums of.                                   *)

\* What some days of a trip weigh, what each day pays at the rate that prices it, and what
\* each rate pays for the days it is in force.
Weighs(T, from, to, share)    == [d \in T |-> Weight(d, from, to, share)]
RatePays(of, from, to, share) == [r \in of |-> PaidAt(r, of, from, to, share)]
DayPays(from, to, share, priced) ==
  [d \in from..to |-> Worth(d, from, to, share, priced)]

\* A plan that pays, pays the sum of its days.
LEMMA PlanSums ==
  ASSUME NEW from \in Nat, NEW to \in Nat, NEW share, NEW priced, NEW g, Walks(g, DayPays(from, to, share, priced), from..to),
         Pays(from, to, share, priced).problem = "none"
  PROVE  /\ \A d \in from..to : priced[d] # {}
         /\ \E h : /\ Walks(h, DayPays(from, to, share, priced), from..to)
                   /\ Pays(from, to, share, priced).cents = Cents(h[from..to]) /\ Cents(h[from..to]) # 0
<1> DEFINE S == from..to
           Walked(h) == h = [s \in SUBSET S |-> IF s = {} THEN 0
                               ELSE Worth(CHOOSE x \in s : TRUE, from, to, share, priced)
                                    + h[s \ {CHOOSE x \in s : TRUE}]]
<1>1. ASSUME NEW h PROVE Walks(h, DayPays(from, to, share, priced), S) <=> Walked(h)
  <2> DEFINE w == DayPays(from, to, share, priced)
  <2>1. ASSUME NEW s \in SUBSET S, s # {}
        PROVE  w[CHOOSE x \in s : TRUE] = Worth(CHOOSE x \in s : TRUE, from, to, share, priced)
    <3>1. (CHOOSE x \in s : TRUE) \in S
      BY <2>1
    <3> QED BY <3>1 DEF DayPays
  <2> HIDE DEF w
  <2>2. [s \in SUBSET S |-> IF s = {} THEN 0 ELSE w[CHOOSE x \in s : TRUE] + h[s \ {CHOOSE x \in s : TRUE}]]
        = [s \in SUBSET S |-> IF s = {} THEN 0
                               ELSE Worth(CHOOSE x \in s : TRUE, from, to, share, priced)
                                    + h[s \ {CHOOSE x \in s : TRUE}]]
    BY <2>1
  <2>3. Walks(h, w, S) <=> Walked(h)
    BY <2>2 DEF Walks
  <2> QED BY <2>3 DEF w
<1>2. Walked(g)
  BY <1>1
<1>3. /\ \A d \in from..to : priced[d] # {}
      /\ \E h : Walked(h) /\ Pays(from, to, share, priced).cents = Cents(h[S]) /\ Cents(h[S]) # 0
  <2>0. Refused("no rate").problem # "none" /\ Refused("two currencies").problem # "none" /\ Refused("nothing").problem # "none"
    BY DEF Refused
  <2> QED BY <1>2, <2>0 DEF Pays, Sets!MapThenSumSet, Sets!MapThenFoldSet
<1> QED BY <1>1, <1>3

\* What a rate pays for its days is what they weigh, so many times.
LEMMA PartSums ==
  ASSUME NEW from \in Nat, NEW to \in Nat, NEW share, NEW r, NEW T,
         NEW g, Walks(g, Weighs(T, from, to, share), T)
  PROVE  \E h : Walks(h, Weighs(T, from, to, share), T) /\ PaidFor(r, T, from, to, share) = r.cents * h[T]
<1> DEFINE Walked(h) == h = [s \in SUBSET T |-> IF s = {} THEN 0
                               ELSE DayShare(CHOOSE x \in s : TRUE, from, to, share) + h[s \ {CHOOSE x \in s : TRUE}]]
<1>1. ASSUME NEW h PROVE Walks(h, Weighs(T, from, to, share), T) <=> Walked(h)
  <2> DEFINE w == Weighs(T, from, to, share)
  <2>1. ASSUME NEW s \in SUBSET T, s # {} PROVE w[CHOOSE x \in s : TRUE] = DayShare(CHOOSE x \in s : TRUE, from, to, share)
    <3>1. (CHOOSE x \in s : TRUE) \in T
      BY <2>1
    <3> QED BY <3>1 DEF Weighs, Weight, DayShare
  <2> HIDE DEF w
  <2>2. [s \in SUBSET T |-> IF s = {} THEN 0 ELSE w[CHOOSE x \in s : TRUE] + h[s \ {CHOOSE x \in s : TRUE}]]
        = [s \in SUBSET T |-> IF s = {} THEN 0 ELSE DayShare(CHOOSE x \in s : TRUE, from, to, share) + h[s \ {CHOOSE x \in s : TRUE}]]
    BY <2>1
  <2>3. Walks(h, w, T) <=> Walked(h)
    BY <2>2 DEF Walks
  <2> QED BY <2>3 DEF w
<1>2. Walked(g)
  BY <1>1
<1>3. \E h : Walked(h) /\ PaidFor(r, T, from, to, share) = r.cents * h[T]
  BY <1>2 DEF PaidFor, Sets!MapThenSumSet, Sets!MapThenFoldSet
<1> QED BY <1>1, <1>3

\* What the rates pay is what each pays, summed.
LEMMA RatesSum ==
  ASSUME NEW from \in Nat, NEW to \in Nat, NEW share, NEW of,
         NEW g, Walks(g, RatePays(of, from, to, share), of)
  PROVE  \E f : Walks(f, RatePays(of, from, to, share), of) /\ PaidAll(of, from, to, share) = Cents(f[of])
<1> DEFINE Walked(h) == h = [s \in SUBSET of |-> IF s = {} THEN 0
                               ELSE PaidAt(CHOOSE x \in s : TRUE, of, from, to, share) + h[s \ {CHOOSE x \in s : TRUE}]]
<1>1. ASSUME NEW h PROVE Walks(h, RatePays(of, from, to, share), of) <=> Walked(h)
  <2> DEFINE w == RatePays(of, from, to, share)
  <2>1. ASSUME NEW s \in SUBSET of, s # {}
        PROVE  w[CHOOSE x \in s : TRUE] = PaidAt(CHOOSE x \in s : TRUE, of, from, to, share)
    <3>1. (CHOOSE x \in s : TRUE) \in of
      BY <2>1
    <3> QED BY <3>1 DEF RatePays
  <2> HIDE DEF w
  <2>2. [s \in SUBSET of |-> IF s = {} THEN 0 ELSE w[CHOOSE x \in s : TRUE] + h[s \ {CHOOSE x \in s : TRUE}]]
        = [s \in SUBSET of |-> IF s = {} THEN 0
             ELSE PaidAt(CHOOSE x \in s : TRUE, of, from, to, share) + h[s \ {CHOOSE x \in s : TRUE}]]
    BY <2>1
  <2>3. Walks(h, w, of) <=> Walked(h)
    BY <2>2 DEF Walks
  <2> QED BY <2>3 DEF w
<1>2. Walked(g)
  BY <1>1
<1>3. \E h : Walked(h) /\ PaidAll(of, from, to, share) = Cents(h[of])
  BY <1>2 DEF PaidAll, Sets!MapThenSumSet, Sets!MapThenFoldSet
<1> QED BY <1>1, <1>3

-----------------------------------------------------------------------------
(* A plan pays what the rates do.                                           *)

LEMMA CentsAreWhole == \A n \in Nat : Cents(n) \in Nat
BY DEF Cents

\* A day is priced by the rate it is a day of, and by no other.
LEMMA DayOfItsRate ==
  ASSUME NEW rs \in SUBSET Rate, NEW c, NEW of, of = {r \in rs : r.country = c}, NEW from \in Nat, NEW to \in Nat,
         NEW d \in from..to, NEW r
  PROVE  r \in RateFor(rs, c, d) <=> r \in of /\ d \in DaysAt(r, of, from, to)
<1> USE AllowancesAssumption
<1>1. d \in Nat /\ \A x \in of : x.from \in Nat
  OBVIOUS
<1>2. Started(rs, c, d) = {x \in of : x.from <= d}
  BY DEF Started
<1> QED BY <1>1, <1>2 DEF RateFor, DaysAt

LEMMA OneRateADay ==
  ASSUME NEW rs \in SUBSET Rate, \A r, o \in rs : r.country = o.country /\ r.from = o.from => r = o,
         NEW c, NEW d \in Nat, NEW r \in RateFor(rs, c, d), NEW o \in RateFor(rs, c, d)
  PROVE  r = o
<1> USE AllowancesAssumption
<1>1. r \in rs /\ o \in rs /\ r.country = c /\ o.country = c /\ r.from <= o.from /\ o.from <= r.from
  BY DEF RateFor, Started
<1>2. r.from \in Nat /\ o.from \in Nat
  BY <1>1
<1> QED BY <1>1, <1>2

\* A plan that pays pays what the rates do, and it is something.
LEMMA PlanPays ==
  ASSUME NEW rs \in SUBSET Rate, IsFiniteSet(rs), \A r, o \in rs : r.country = o.country /\ r.from = o.from => r = o,
         NEW c, NEW from \in Nat, NEW to \in Nat, NEW share \in Nat, PerDiemPlan(rs, c, from, to, share).problem = "none"
  PROVE  /\ PerDiemPlan(rs, c, from, to, share).cents = WorthByRates(rs, c, from, to, share)
         /\ PerDiemPlan(rs, c, from, to, share).cents \in Nat \ {0}
<1> DEFINE S      == from..to
           of     == {r \in rs : r.country = c}
           priced == [d \in S |-> RateFor(rs, c, d)]
           w      == DayPays(from, to, share, priced)
           days   == [r \in of |-> DaysAt(r, of, from, to)]
<1>1. PerDiemPlan(rs, c, from, to, share) = Pays(from, to, share, priced)
  <2>1. Refused("ends before it starts").problem # "none" /\ Refused("too long").problem # "none"
    BY DEF Refused
  <2> QED BY <2>1 DEF PerDiemPlan
<1>2. IsFiniteSet(S) /\ IsFiniteSet(of) /\ S \subseteq Nat
  BY FS_Interval, FS_Subset
<1>3. PICK g0 : Walks(g0, w, S)
  BY <1>2, WalkExists
<1>4. \A d \in S : priced[d] # {}
  BY <1>1, <1>3, PlanSums
<1>5. PICK h : Walks(h, w, S) /\ Pays(from, to, share, priced).cents = Cents(h[S]) /\ Cents(h[S]) # 0
  <2> DEFINE plan == Pays(from, to, share, priced)
  <2>1. plan.problem = "none" /\ Walks(g0, w, S)
    BY <1>1, <1>3
  <2> HIDE DEF priced
  <2>2. \E h : Walks(h, w, S) /\ plan.cents = Cents(h[S]) /\ Cents(h[S]) # 0
    BY <2>1, PlanSums
  <2> QED BY <2>2
<1>6. ASSUME NEW r \in of, NEW d \in S PROVE r \in priced[d] <=> d \in days[r]
  BY DayOfItsRate
<1>7. ASSUME NEW d \in S PROVE \E r \in of : priced[d] = {r} /\ w[d] = r.cents * Weight(d, from, to, share)
  <2>1. PICK r : r \in priced[d]
    BY <1>4
  <2>2. r \in of
    BY <2>1, DayOfItsRate
  <2>3. priced[d] = {r}
    BY <1>2, <2>1, OneRateADay
  <2>4. (CHOOSE x \in priced[d] : TRUE) = r
    BY <2>3
  <2> QED BY <2>2, <2>3, <2>4 DEF DayPays, Worth
<1>8. \A r \in of : r.cents \in Nat /\ r.from \in Nat
  BY AllowancesAssumption
<1>9. \A d : Weight(d, from, to, share) \in Nat
  BY DEF Weight
<1>10. w \in [S -> Nat]
  <2>1. \A i, j \in Nat : i * j \in Nat
    OBVIOUS
  <2>2. \A d \in S : w[d] \in Nat
    BY <1>7, <1>8, <1>9, <2>1
  <2>3. w = [d \in S |-> w[d]]
    BY DEF DayPays
  <2> QED BY <2>2, <2>3
<1>11. days \in [of -> SUBSET S]
  BY DEF DaysAt
<1> HIDE DEF priced, w
<1>12. \A r, o \in of : r # o => days[r] \cap days[o] = {}
  <2>1. ASSUME NEW r \in of, NEW o \in of, NEW d \in S, d \in days[r], d \in days[o] PROVE r = o
    <3>1. r \in priced[d] /\ o \in priced[d]
      BY <1>6, <2>1
    <3>2. PICK q \in of : priced[d] = {q}
      BY <1>7
    <3> QED BY ONLY <3>1, <3>2
  <2> HIDE DEF days
  <2> QED BY <1>11, <2>1
<1>13. UNION {days[r] : r \in of} = S
  <2>1. ASSUME NEW d \in S PROVE \E r \in of : d \in days[r]
    <3>1. PICK r \in of : priced[d] = {r}
      BY <1>7
    <3>2. r \in priced[d]
      BY <3>1
    <3> HIDE DEF days, of, S
    <3>3. d \in days[r]
      BY <1>6, <3>2
    <3> QED BY <3>3
  <2> HIDE DEF days
  <2> QED BY <1>11, <2>1
<1>14. (\A d \in S : w[d] \in Nat) /\ h[S] = SumOf(w, S)
  <2>1. (\A d \in S : w[d] \in Nat) /\ (\A d \in S : w[d] \in Int)
    BY <1>10
  <2>2. S \in SUBSET S
    OBVIOUS
  <2> HIDE DEF S
  <2>3. IsFiniteSet(S) /\ Walks(h, w, S)
    BY <1>2, <1>5
  <2>4. \A s \in SUBSET S : h[s] = SumOf(w, s)
    BY ONLY <2>1, <2>3, WalkIsSum
  <2> QED BY <2>1, <2>2, <2>4
<1>15. ASSUME NEW r \in of PROVE PaidAt(r, of, from, to, share) = SumOf(w, days[r])
  <2> DEFINE T == days[r]
             v == Weighs(T, from, to, share)
  <2>1. T \in SUBSET S /\ IsFiniteSet(T) /\ T = DaysAt(r, of, from, to)
    BY <1>2, <1>11, FS_Subset
  <2>2. v \in [T -> Nat] /\ \A d \in T : v[d] = Weight(d, from, to, share)
    BY <1>9 DEF Weighs
  <2> HIDE DEF T
  <2>3. PICK k0 : Walks(k0, v, T)
    BY <2>1, WalkExists
  <2>4. PICK k : Walks(k, v, T) /\ PaidFor(r, T, from, to, share) = r.cents * k[T]
    BY <2>3, PartSums
  <2> HIDE DEF v
  <2>5. k[T] = SumOf(v, T) /\ \A d \in T : v[d] \in Int
    <3>1. T \in SUBSET T /\ \A d \in T : v[d] \in Int
      BY <2>2
    <3> QED BY <2>1, <2>4, <3>1, WalkIsSum
  <2>6. \A d \in T : w[d] = r.cents * v[d]
    <3>1. ASSUME NEW d \in T PROVE w[d] = r.cents * v[d]
      <4>1. d \in S /\ r \in priced[d]
        BY <1>6, <2>1 DEF T
      <4>2. PICK o \in of : priced[d] = {o} /\ w[d] = o.cents * Weight(d, from, to, share)
        BY <1>7, <4>1
      <4> QED BY <2>2, <4>1, <4>2
    <3> QED BY <3>1
  <2>7. SumOf(w, T) = r.cents * SumOf(v, T)
    <3>1. r.cents \in Int
      BY <1>8
    <3> QED BY <2>1, <2>5, <2>6, <3>1, SumScaled
  <2> QED BY <2>1, <2>4, <2>5, <2>7 DEF PaidAt, T
<1> DEFINE u == RatePays(of, from, to, share)
<1>16. (\A r \in of : u[r] \in Int) /\ \A r \in of : u[r] = SumOf(w, days[r])
  <2>1. \A r \in of : u[r] = SumOf(w, days[r])
    BY <1>15 DEF RatePays
  <2>2. ASSUME NEW r \in of PROVE SumOf(w, days[r]) \in Int
    <3> HIDE DEF days, S
    <3>1. days[r] \in SUBSET S
      BY <1>11
    <3>2. IsFiniteSet(days[r])
      BY <1>2, <3>1, FS_Subset
    <3>3. \A d \in days[r] : w[d] \in Int
      BY <1>14, <3>1
    <3> QED BY <3>2, <3>3, SumTake
  <2> HIDE DEF u, days
  <2> QED BY <2>1, <2>2
<1>17. PICK f0 : Walks(f0, u, of)
  BY <1>2, WalkExists
<1>18. PICK f : Walks(f, u, of) /\ PaidAll(of, from, to, share) = Cents(f[of])
  <2> HIDE DEF of
  <2>1. \E f : Walks(f, u, of) /\ PaidAll(of, from, to, share) = Cents(f[of])
    BY <1>17, RatesSum
  <2> QED BY <2>1
<1> HIDE DEF u
<1>19. f[of] = SumOf(u, of)
  <2> HIDE DEF of
  <2>1. of \in SUBSET of
    OBVIOUS
  <2> QED BY <1>2, <1>16, <1>18, <2>1, WalkIsSum
<1>20. f[of] = h[S]
  <2>1. SumOf(u, of) = SumOf(w, UNION {days[r] : r \in of})
    <3> HIDE DEF days, of, S
    <3>1. IsFiniteSet(S) /\ IsFiniteSet(of) /\ (\A d \in S : w[d] \in Int) /\ days \in [of -> SUBSET S]
      BY <1>2, <1>11, <1>14
    <3>2. \A r, o \in of : r # o => days[r] \cap days[o] = {}
      BY <1>12
    <3>3. \A r \in of : u[r] = SumOf(w, days[r])
      BY <1>16
    <3> QED BY <3>1, <3>2, <3>3, SumShared
  <2> QED BY <1>13, <1>14, <1>19, <2>1
<1>21. WorthByRates(rs, c, from, to, share) = PaidAll(of, from, to, share)
  <2>1. UNION {DaysAt(r, of, from, to) : r \in of} = UNION {days[r] : r \in of}
    OBVIOUS
  <2> QED BY <1>13, <2>1 DEF WorthByRates
<1>22. Cents(h[S]) \in Nat
  <2>1. SumOf(w, S) \in Nat
    <3> HIDE DEF S
    <3> QED BY <1>2, <1>14, SumOfNat
  <2> QED BY <1>14, <2>1, CentsAreWhole
<1> QED BY <1>1, <1>5, <1>18, <1>20, <1>21, <1>22

-----------------------------------------------------------------------------
(* What is claimed stays paid by the rates.                                 *)

\* The rates are few, so that what they pay can be summed.
PaidInv == IsFiniteSet(rates) /\ PaidByRates

LEMMA PaidInvInit == AllowanceInit => PaidInv
<1> SUFFICES ASSUME AllowanceInit PROVE PaidInv
  OBVIOUS
<1>1. rates = {} \/ \E r \in Rate : rates = {r}
  BY DEF AllowanceInit
<1>2. IsFiniteSet(rates)
  BY <1>1, FS_EmptySet, FS_Singleton
<1> QED BY <1>2 DEF AllowanceInit, PaidInv, PaidByRates

\* What claims nothing new and leaves the rates few changes nothing of it.
LEMMA PaidKept ==
  ASSUME PaidInv, claims' \subseteq claims, mispaid' = mispaid, IsFiniteSet(rates') PROVE PaidInv'
BY DEF PaidInv, PaidByRates

LEMMA RatesStayFew ==
  ASSUME PaidInv, (\E r \in Rate : AddRate(r)) \/ (\E r \in rates : DeleteRate(r)) PROVE PaidInv'
<1>1. UNCHANGED <<claims, mispaid>> /\ \E r : rates' = rates \cup {r} \/ rates' = rates \ {r}
  BY DEF AddRate, DeleteRate, WithoutRate
<1>2. IsFiniteSet(rates')
  BY <1>1, FS_AddElement, FS_RemoveElement DEF PaidInv
<1> QED BY <1>1, <1>2, PaidKept

LEMMA OthersStayPaid ==
  ASSUME PaidInv,
         \/ ReadPolicy \/ CloseDialog \/ DialogPolicy \/ DialogRates \/ OfferCountry \/ PageRefreshed
         \/ (\E a \in DOMAIN settings : OpenSettings(a) \/ SaveSettings(a) \/ \E k \in Settings : \E v \in SettingValues(k) : TypeSetting(a, k, v))
         \/ (\E f \in {NoDay, 1}, t \in Day : EditCase([trip EXCEPT !.from = f, !.to = t]))
         \/ EditCase([trip EXCEPT !.kind = "case"]) \/ EditCase([trip EXCEPT !.open = FALSE])
         \/ (\E x \in claims : RemoveClaim(x)) \/ (\E what \in {"per diem", "mileage"} : OpenDialog(what))
         \/ UNCHANGED allowanceVars
  PROVE  PaidInv'
<1>1. rates' = rates /\ mispaid' = mispaid /\ claims' \subseteq claims
  BY DEF ReadPolicy, OpenSettings, SaveSettings, TypeSetting, CloseDialog, DialogPolicy, DialogRates, OfferCountry, PageRefreshed,
         EditCase, RemoveClaim, OpenDialog, allowanceVars, companyVars
<1> QED BY <1>1, PaidKept DEF PaidInv

\* A per diem added is paid by the rates.
LEMMA PerDiemPaid ==
  ASSUME AllowanceInv, PaidInv, NEW c, AddPerDiem(c, PlanNow(c)), rates' = rates PROVE PaidInv'
<1> DEFINE plan == PlanNow(c)
           row  == Claim("per diem", c, plan.ccy, plan.cents)
<1>1. /\ plan.problem = "none" /\ claims' = OtherClaims(claims) \cup {row}
      /\ mispaid' = (mispaid \/ plan.cents # WorthByRates(rates, c, trip.from, trip.to, GetPolicy.travel))
  BY DEF AddPerDiem
<1>2. GetPolicy.travel \in Nat
  <2>1. policy \in Policy
    BY DEF AllowanceInv, AllowancesHold, AllowanceTypeOk
  <2>2. policy.travel \in Share \cup {100}
    BY <2>1 DEF Policy
  <2>3. \A n \in Share \cup {100} : n \in Nat
    BY AllowancesAssumption
  <2> QED BY <2>2, <2>3, PolicyRead
<1>3. plan.cents = WorthByRates(rates, c, trip.from, trip.to, GetPolicy.travel) /\ plan.cents \in Nat \ {0}
  <2>1. rates \in SUBSET Rate /\ IsFiniteSet(rates) /\ trip.from \in Nat /\ trip.to \in Nat
    BY DEF AllowanceInv, FormsOk, AllowancesHold, AllowanceTypeOk, PaidInv
  <2>2. \A r, o \in rates : r.country = o.country /\ r.from = o.from => r = o
    BY DEF AllowanceInv, AllowancesHold, CompanySpeaksOnce
  <2>3. PerDiemPlan(rates, c, trip.from, trip.to, GetPolicy.travel).problem = "none"
    BY <1>1 DEF PlanNow
  <2> QED BY <1>2, <2>1, <2>2, <2>3, PlanPays DEF PlanNow
<1>4. row.cents = plan.cents
  BY DEF Claim
<1>5. OtherClaims(claims) \subseteq claims
  BY DEF OtherClaims
<1> HIDE DEF plan, row
<1>6. ~mispaid'
  BY <1>1, <1>3 DEF PaidInv, PaidByRates
<1>7. \A x \in claims' : x.cents \in Nat \ {0}
  BY <1>1, <1>3, <1>4, <1>5 DEF PaidInv, PaidByRates
<1> QED BY <1>6, <1>7 DEF PaidInv, PaidByRates

LEMMA PressStaysPaid == ASSUME AllowanceInv, PaidInv, PressPerDiem PROVE PaidInv'
<1>1. /\ rates' = rates
      /\ AddPerDiem(dialog.country, PlanNow(dialog.country)) \/ UNCHANGED <<claims, mispaid>>
  BY DEF PressPerDiem
<1> QED BY <1>1, PerDiemPaid, PaidKept DEF PaidInv

LEMMA AskStaysPaid == ASSUME AllowanceInv, PaidInv, AskPerDiem PROVE PaidInv'
<1>1. rates' = rates /\ \E c \in PerDiemCountry(trip.evidence) : AddPerDiem(c, PlanNow(c))
  BY DEF AskPerDiem
<1> QED BY <1>1, PerDiemPaid

\* A drive is claimed when it comes to something.
LEMMA DriveStaysPaid ==
  ASSUME AllowanceInv, PaidInv, NEW km \in Km, NEW back \in BOOLEAN, PressMileage(km, back) PROVE PaidInv'
<1> DEFINE cents == MileageCents(Millionths(km, back, GetPolicy.perKm))
           row   == Claim("mileage", Home, Home, cents)
<1>1. /\ UNCHANGED <<rates, mispaid>>
      /\ claims' = claims \/ (cents # 0 /\ claims' = claims \cup {row})
  BY DEF PressMileage
<1>2. cents \in Nat
  <2>1. km \in Nat /\ (IF back THEN 2 ELSE 1) \in Nat /\ \A x \in PerKm \cup {0} : x \in Nat
    BY AllowancesAssumption
  <2>2. policy.perKm \in Nat
    BY <2>1 DEF AllowanceInv, AllowancesHold, AllowanceTypeOk, Policy
  <2>3. \A i, j \in Nat : i * j \in Nat
    OBVIOUS
  <2>4. Millionths(km, back, GetPolicy.perKm) \in Nat
    BY <2>1, <2>2, <2>3, PolicyRead DEF Millionths
  <2>5. \A m \in Nat : MileageCents(m) \in Nat
    BY DEF MileageCents
  <2> QED BY <2>4, <2>5
<1>3. row.cents = cents
  BY DEF Claim
<1> HIDE DEF cents, row
<1>4. \A x \in claims' : x.cents \in Nat \ {0}
  BY <1>1, <1>2, <1>3 DEF PaidInv, PaidByRates
<1> QED BY <1>1, <1>4 DEF PaidInv, PaidByRates

LEMMA PaidInvKept == AllowanceInv /\ PaidInv /\ [AllowanceNext]_allowanceVars => PaidInv'
<1> SUFFICES ASSUME AllowanceInv, PaidInv, [AllowanceNext]_allowanceVars PROVE PaidInv'
  OBVIOUS
<1>1. CASE AllowanceNext
  BY <1>1, RatesStayFew, OthersStayPaid, PressStaysPaid, AskStaysPaid, DriveStaysPaid DEF AllowanceNext
<1>2. CASE UNCHANGED allowanceVars
  BY <1>2, OthersStayPaid
<1> QED BY <1>1, <1>2

\* A per diem pays each day what the company's rates say of that day, the travel days
\* their share, however many rates a country has had and wherever they begin in the trip;
\* and no allowance comes to nothing (reports/allowances.js perDiemPlan, rateFor).
THEOREM AllowancesArePaidByRates == AllowanceSpec => []PaidByRates
<1>1. PaidInv => PaidByRates
  BY DEF PaidInv
<1> QED BY <1>1, AllowanceInvInit, AllowanceInvKept, PaidInvInit, PaidInvKept, PTL DEF AllowanceSpec
=============================================================================
