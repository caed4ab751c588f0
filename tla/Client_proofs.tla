---------------------------- MODULE Client_proofs -----------------------------
(***************************************************************************)
(* What holds of the parts people see and press, for any cards, files,     *)
(* slots, days, phones, printed rows and bounds: the assistant, the files  *)
(* going into a case, a trip's cover, the photos sent from phones and a    *)
(* receipt kept as printed.                                                *)
(***************************************************************************)
EXTENDS Assistant, CaseUploads, CaseCover, PhoneCapture, PrintedRecord, Counting, FiniteSetTheorems, WellFoundedInduction, TLAPS

-----------------------------------------------------------------------------
(* The assistant's cards, turns and hour.                                   *)

ACard ==
  [at : {"pending", "applied", "failed", "dismissed", "deleted"}, kind : CardKind, stands : BOOLEAN,
   conv : Conversation, turn : BOOLEAN, shown : BOOLEAN, claim : {"free", "held", "stale"},
   outran : BOOLEAN, day : BOOLEAN, made : 0..2]
ATurn ==
  [at : {"model", "tools"}, conv : Conversation, fresh : BOOLEAN, round : Nat, gone : BOOLEAN]

AssistantShape ==
  /\ standing \in {"open", "locked", "deleted"}
  /\ card \in [Card -> ACard \cup {NoCard}]
  /\ applying \in [ApplySlot -> SUBSET Card]
  /\ turn \in ATurn \cup {NotAsking}
  /\ talk \in [Conversation -> {"none", "empty", "said"}]
  /\ used \in Nat /\ kept \in Nat
  /\ known \in {"nothing", "current", "old"}
  /\ cut \in BOOLEAN

\* What is being applied was claimed: once, until the claim goes stale.
ApplyingInv ==
  \A k \in Card, s \in ApplySlot : k \in applying[s] =>
    /\ card[k] # NoCard
    /\ card[k].claim # "free" /\ card[k].kind # "case"
    /\ card[k].kind = "details" => card[k].made > 0
    /\ ~card[k].outran =>
         /\ card[k].kind = "rate" => card[k].made = 0
         /\ \A t \in ApplySlot : k \in applying[t] => t = s
         /\ ~card[k].day => card[k].at \in {"pending", "deleted"}

\* What a card's columns say of each other.
CardInv ==
  \A k \in Card : card[k] # NoCard =>
    /\ card[k].claim = "free" => card[k].made = 0
    /\ card[k].claim = "stale" => card[k].outran
    /\ ~card[k].shown => card[k].claim = "free" /\ card[k].at \in {"pending", "dismissed", "deleted"}
    /\ card[k].made <= 1 \/ card[k].outran
    /\ card[k].at = "applied" => card[k].made > 0
    /\ card[k].at \in {"dismissed", "failed"} /\ ~card[k].outran /\ ~card[k].day /\ standing # "deleted"
         => card[k].made = 0

\* The cards of the turn under way, and no other, are without their answer.
TurnInv ==
  /\ \A k \in Card : card[k] # NoCard /\ card[k].turn =>
       /\ ~card[k].shown /\ card[k].at # "deleted" /\ turn # NotAsking
       /\ card[k].conv = turn.conv /\ talk[card[k].conv] # "none"
  /\ ~cut =>
       /\ \A k \in Card : card[k] # NoCard /\ card[k].at = "pending" /\ ~card[k].shown => card[k].turn
       /\ \A c \in Conversation : talk[c] = "empty" => turn # NotAsking /\ turn.fresh /\ turn.conv = c

AssistantInv == AssistantShape /\ ApplyingInv /\ CardInv /\ TurnInv /\ HourIsFair /\ NothingOutdated

LEMMA CardsApart ==
  /\ NoCard \notin ACard /\ NotAsking \notin ATurn
  /\ \A c \in ACard \cup {NoCard} : c # NoCard <=> c.at # "none"
  /\ \A t \in ATurn \cup {NotAsking} : t # NotAsking <=> t.at \in {"model", "tools"}
BY DEF ACard, NoCard, ATurn, NotAsking

LEMMA AssistantInvInit == AssistantInit => AssistantInv
<1> SUFFICES ASSUME AssistantInit PROVE AssistantInv
  OBVIOUS
<1>1. /\ card = [k \in Card |-> NoCard] /\ applying = [s \in ApplySlot |-> {}]
      /\ turn = NotAsking /\ talk = [c \in Conversation |-> "none"]
      /\ used = 0 /\ kept = 0 /\ known = "nothing" /\ cut = FALSE /\ standing = "open"
  BY DEF AssistantInit
<1>2. AssistantShape
  BY <1>1 DEF AssistantShape
<1>3. ApplyingInv /\ CardInv /\ TurnInv
  BY <1>1 DEF ApplyingInv, CardInv, TurnInv
<1>4. HourIsFair /\ NothingOutdated
  BY <1>1, AssistantAssumption DEF HourIsFair, NothingOutdated
<1>5. QED
  BY <1>2, <1>3, <1>4 DEF AssistantInv

\* A step that leaves the cards, the Applies and the standing alone.
LEMMA CardsRest ==
  ASSUME AssistantInv, UNCHANGED cardVars
  PROVE  ApplyingInv' /\ CardInv'
BY DEF AssistantInv, ApplyingInv, CardInv, cardVars

LEMMA PageStep ==
  ASSUME AssistantInv,
         \/ \E k \in Card : PageEdits(k) \/ ClaimGoesStale(k) \/ CardExpires(k)
         \/ \E s \in {"open", "locked", "deleted"} : StandingMoves(s)
         \/ HourPasses \/ SnapshotExpires
  PROVE  AssistantInv'
<1> USE CardsApart DEF turnVars
<1>1. ASSUME NEW k \in Card, PageEdits(k) \/ ClaimGoesStale(k) \/ CardExpires(k)
      PROVE  AssistantInv'
  <2>1. /\ card[k] \in ACard /\ card[k] # NoCard
        /\ UNCHANGED <<standing, applying, turnVars, known>>
    BY <1>1 DEF AssistantInv, AssistantShape, PageEdits, ClaimGoesStale, CardExpires, Pending
  <2> DEFINE x == card'[k]
  <2>2. /\ card' \in [Card -> ACard \cup {NoCard}] /\ \A j \in Card : j # k => card'[j] = card[j]
        /\ x \in ACard /\ x # NoCard
        /\ x.at = card[k].at /\ x.kind = card[k].kind /\ x.conv = card[k].conv /\ x.turn = card[k].turn
        /\ x.shown = card[k].shown /\ x.made = card[k].made
        /\ card[k].outran => x.outran
        /\ card[k].day => x.day
        /\ x.claim = card[k].claim \/ (card[k].claim = "held" /\ x.claim = "stale" /\ x.outran)
    <3>0. card \in [Card -> ACard \cup {NoCard}]
      BY DEF AssistantInv, AssistantShape
    <3>1. CASE PageEdits(k)
      BY <2>1, <3>0, <3>1 DEF PageEdits, ACard
    <3>2. CASE ClaimGoesStale(k)
      BY <2>1, <3>0, <3>2 DEF ClaimGoesStale, ACard
    <3>3. CASE CardExpires(k)
      BY <2>1, <3>0, <3>3 DEF CardExpires, ACard
    <3>4. QED
      BY <1>1, <3>1, <3>2, <3>3
  <2>3. \A j \in Card : card'[j] = IF j = k THEN x ELSE card[j]
    BY <2>2
  <2>4. AssistantShape'
    BY <2>1, <2>2 DEF AssistantInv, AssistantShape
  <2>5. ApplyingInv'
    BY <2>1, <2>2, <2>3 DEF AssistantInv, ApplyingInv
  <2>6. CardInv'
    BY <2>1, <2>2, <2>3 DEF AssistantInv, CardInv
  <2>7. TurnInv'
    BY <2>1, <2>2, <2>3 DEF AssistantInv, TurnInv
  <2>8. QED
    BY <2>1, <2>4, <2>5, <2>6, <2>7 DEF AssistantInv, HourIsFair, NothingOutdated
<1>2. ASSUME NEW s \in {"open", "locked", "deleted"}, StandingMoves(s)
      PROVE  AssistantInv'
  BY <1>2 DEF StandingMoves, AssistantInv, AssistantShape, ApplyingInv, CardInv, TurnInv, HourIsFair, NothingOutdated
<1>3. CASE HourPasses
  <2>1. AssistantShape' /\ TurnInv' /\ NothingOutdated'
    BY <1>3 DEF HourPasses, AssistantInv, AssistantShape, TurnInv, NothingOutdated, cardVars
  <2>2. HourIsFair'
    BY <1>3, AssistantAssumption DEF HourPasses, HourIsFair
  <2>3. QED
    BY <1>3, <2>1, <2>2, CardsRest DEF HourPasses, AssistantInv
<1>4. CASE SnapshotExpires
  BY <1>4, CardsRest DEF SnapshotExpires, AssistantInv, AssistantShape, TurnInv, HourIsFair, NothingOutdated, cardVars
<1>5. QED
  BY <1>1, <1>2, <1>3, <1>4

\* A turn moves, and with it no card.
LEMMA TurnStep ==
  ASSUME AssistantInv,
         \/ \E c \in Conversation : AskQuestion(c)
         \/ AskRefused \/ ModelCallsTools \/ ToolsAnswer \/ TabCloses
  PROVE  AssistantInv'
<1> USE CardsApart
<1>1. ASSUME NEW c \in Conversation, AskQuestion(c)
      PROVE  AssistantInv'
  <2> DEFINE t == [at |-> "model", conv |-> c, fresh |-> talk[c] = "none", round |-> 1, gone |-> FALSE]
  <2>1. /\ turn = NotAsking /\ used < PerHour /\ used' = used + 1 /\ turn' = t /\ t \in ATurn
        /\ talk' = IF talk[c] = "none" THEN [talk EXCEPT ![c] = "empty"] ELSE talk
        /\ known' = IF known = "nothing" THEN "current" ELSE known
        /\ UNCHANGED <<standing, card, applying, kept, cut>>
    BY <1>1 DEF AskQuestion, Room, ATurn, cardVars
  <2>2. AssistantShape' /\ turn' # NotAsking
    BY <2>1 DEF AssistantInv, AssistantShape
  <2>3. TurnInv'
    BY <2>1, <2>2 DEF AssistantInv, AssistantShape, TurnInv
  <2>4. HourIsFair'
    BY <2>1, <2>2, AssistantAssumption DEF AssistantInv, AssistantShape, HourIsFair
  <2>5. NothingOutdated'
    BY <2>1 DEF AssistantInv, NothingOutdated
  <2>6. QED
    BY <2>1, <2>2, <2>3, <2>4, <2>5, CardsRest DEF AssistantInv, cardVars
<1>2. CASE AskRefused
  <2>1. HourIsFair'
    BY <1>2, AssistantAssumption DEF AskRefused, Room, AssistantInv, AssistantShape, HourIsFair
  <2>2. QED
    BY <1>2, <2>1, CardsRest DEF AskRefused, Room, AssistantInv, AssistantShape, TurnInv, NothingOutdated, cardVars
<1>3. CASE ModelCallsTools \/ ToolsAnswer \/ TabCloses
  <2>1. turn # NotAsking /\ turn \in ATurn
    BY <1>3 DEF ModelCallsTools, ToolsAnswer, TabCloses, AssistantInv, AssistantShape
  <2>2. /\ turn' \in ATurn /\ turn'.conv = turn.conv /\ turn'.fresh = turn.fresh
        /\ UNCHANGED <<standing, card, applying, talk, used, kept, cut, known>>
    <3>1. CASE ModelCallsTools
      BY <2>1, <3>1 DEF ModelCallsTools, ATurn, cardVars
    <3>2. CASE ToolsAnswer
      <4>1. turn' = [turn EXCEPT !.at = "model", !.round = turn.round + 1] /\ turn.round + 1 \in Nat
        BY <2>1, <3>2 DEF ToolsAnswer, ATurn
      <4>2. turn' \in ATurn /\ turn'.conv = turn.conv /\ turn'.fresh = turn.fresh
        BY <2>1, <4>1 DEF ATurn
      <4>3. QED
        BY <3>2, <4>2 DEF ToolsAnswer, cardVars
    <3>3. CASE TabCloses
      BY <2>1, <3>3 DEF TabCloses, ATurn, cardVars
    <3>4. QED
      BY <1>3, <3>1, <3>2, <3>3
  <2>3. AssistantShape' /\ turn' # NotAsking
    BY <2>2 DEF AssistantInv, AssistantShape
  <2>4. TurnInv'
    BY <2>1, <2>2, <2>3 DEF AssistantInv, TurnInv
  <2>5. HourIsFair'
    BY <2>1, <2>2, <2>3 DEF AssistantInv, HourIsFair
  <2>6. QED
    BY <2>2, <2>3, <2>4, <2>5, CardsRest DEF AssistantInv, NothingOutdated, cardVars
<1>4. QED
  BY <1>1, <1>2, <1>3

\* A card that a step leaves, takes off the turn, with its answer or without,
\* puts away while nothing was done with it, or deletes.
PutBy(x, y) ==
  /\ y \in ACard
  /\ y.kind = x.kind /\ y.conv = x.conv /\ y.claim = x.claim /\ y.outran = x.outran /\ y.day = x.day
  /\ y.made = x.made
  /\ y.at = x.at \/ y.at = "deleted" \/ (y.at = "dismissed" /\ ~x.shown)
  /\ x.shown => y.shown

LEMMA PutByKinds ==
  ASSUME NEW x \in ACard
  PROVE  /\ PutBy(x, x)
         /\ PutBy(x, [x EXCEPT !.turn = FALSE])
         /\ PutBy(x, [x EXCEPT !.turn = FALSE, !.shown = TRUE])
         /\ PutBy(x, [x EXCEPT !.at = "deleted", !.turn = FALSE])
         /\ PutBy(x, [x EXCEPT !.turn = FALSE, !.at = "deleted"])
         /\ ~x.shown => PutBy(x, [x EXCEPT !.turn = FALSE, !.at = "dismissed"])
         /\ x.at = "pending" => x.at # "dismissed"
<1>1. PutBy(x, x)
  BY DEF PutBy
<1>2. PutBy(x, [x EXCEPT !.turn = FALSE]) /\ PutBy(x, [x EXCEPT !.turn = FALSE, !.shown = TRUE])
  BY DEF PutBy, ACard
<1>3. PutBy(x, [x EXCEPT !.at = "deleted", !.turn = FALSE]) /\ PutBy(x, [x EXCEPT !.turn = FALSE, !.at = "deleted"])
  BY DEF PutBy, ACard
<1>4. ~x.shown => PutBy(x, [x EXCEPT !.turn = FALSE, !.at = "dismissed"])
  BY DEF PutBy, ACard
<1>5. QED
  BY <1>1, <1>2, <1>3, <1>4

LEMMA PutByStep ==
  ASSUME AssistantInv, card' = [k \in Card |-> card'[k]],
         \A k \in Card : IF card[k] = NoCard THEN card'[k] = NoCard ELSE PutBy(card[k], card'[k]),
         UNCHANGED <<standing, applying>>
  PROVE  /\ card' \in [Card -> ACard \cup {NoCard}]
         /\ ApplyingInv' /\ CardInv'
<1> USE CardsApart
<1>1. card' \in [Card -> ACard \cup {NoCard}]
  BY DEF AssistantInv, AssistantShape, PutBy
<1>2. ApplyingInv'
  BY DEF AssistantInv, ApplyingInv, PutBy, CardInv
<1>3. CardInv'
  BY DEF AssistantInv, CardInv, PutBy
<1>4. QED
  BY <1>1, <1>2, <1>3

LEMMA StoreStep ==
  ASSUME AssistantInv, StoreAnswer \/ NowhereToAnswer
  PROVE  AssistantInv'
<1> USE CardsApart DEF Proposals
<1>1. turn # NotAsking /\ turn \in ATurn /\ turn.conv \in Conversation /\ card \in [Card -> ACard \cup {NoCard}]
  BY DEF StoreAnswer, NowhereToAnswer, AssistantInv, AssistantShape, ATurn
<1>2. CASE StoreAnswer
  <2>1. \A k \in Card : card'[k] = IF k \in Proposals THEN [card[k] EXCEPT !.turn = FALSE, !.shown = TRUE] ELSE card[k]
    BY <1>2 DEF StoreAnswer
  <2>2. \A k \in Card : IF card[k] = NoCard THEN card'[k] = NoCard ELSE PutBy(card[k], card'[k])
    BY ZenonT(30), <1>1, <2>1, PutByKinds
  <2>3. /\ talk' = [talk EXCEPT ![turn.conv] = "said"] /\ turn' = NotAsking /\ kept' = kept + 1
        /\ UNCHANGED <<standing, applying, used, cut, known>>
        /\ card' = [k \in Card |-> card'[k]]
    BY <1>2 DEF StoreAnswer
  <2>4. /\ card' \in [Card -> ACard \cup {NoCard}]
        /\ ApplyingInv' /\ CardInv'
    BY <2>2, <2>3, PutByStep
  <2>5. AssistantShape'
    BY <1>1, <2>3, <2>4 DEF AssistantInv, AssistantShape
  <2>6. \A k \in Card : card'[k] # NoCard =>
          /\ card[k] # NoCard /\ ~card'[k].turn /\ card'[k].at = card[k].at
          /\ (card[k].turn \/ card[k].shown) => card'[k].shown
    <3> SUFFICES ASSUME NEW k \in Card, card[k] # NoCard
                 PROVE  /\ ~card'[k].turn /\ card'[k].at = card[k].at
                        /\ (card[k].turn \/ card[k].shown) => card'[k].shown
      BY <2>1
    <3>1. card[k] \in ACard
      BY <1>1
    <3>2. CASE card[k].turn
      BY ZenonT(30), <2>1, <3>1, <3>2 DEF ACard
    <3>3. CASE ~card[k].turn
      BY <2>1, <3>1, <3>3
    <3>4. QED
      BY <3>2, <3>3
  <2>7. TurnInv'
    <3>1. ASSUME NEW c \in Conversation, ~cut, talk'[c] = "empty"
          PROVE  FALSE
      BY <1>1, <2>3, <3>1 DEF AssistantInv, AssistantShape, TurnInv
    <3>2. ASSUME NEW k \in Card, ~cut, card'[k] # NoCard, card'[k].at = "pending"
          PROVE  card'[k].shown
      BY <2>6, <3>2 DEF AssistantInv, TurnInv
    <3>3. QED
      BY <2>3, <2>6, <3>1, <3>2 DEF TurnInv
  <2>8. HourIsFair' /\ NothingOutdated'
    BY <1>1, <2>3 DEF AssistantInv, AssistantShape, HourIsFair, NothingOutdated
  <2>9. QED
    BY <2>4, <2>5, <2>7, <2>8 DEF AssistantInv
<1>3. CASE NowhereToAnswer
  <2>1. \A k \in Card : card[k] # NoCard => ~card[k].turn
    BY <1>1, <1>3 DEF NowhereToAnswer, AssistantInv, TurnInv
  <2>2. card' = card /\ talk[turn.conv] = "none"
    BY <1>1, <1>3, <2>1 DEF NowhereToAnswer, AssistantInv, AssistantShape
  <2>3. /\ turn' = NotAsking /\ used' = used - 1
        /\ UNCHANGED <<standing, applying, talk, kept, cut, known>>
    BY <1>3 DEF NowhereToAnswer
  <2>4. HourIsFair' /\ used' \in Nat
    BY <1>1, <2>3, AssistantAssumption DEF AssistantInv, AssistantShape, HourIsFair
  <2>5. TurnInv'
    BY <1>1, <2>1, <2>2, <2>3 DEF AssistantInv, TurnInv
  <2>6. QED
    BY <2>2, <2>3, <2>4, <2>5, CardsRest DEF AssistantInv, AssistantShape, NothingOutdated, cardVars
<1>4. QED
  BY <1>2, <1>3

LEMMA FailsStep ==
  ASSUME AssistantInv, TurnFails
  PROVE  AssistantInv'
<1> USE CardsApart DEF Proposals
<1>1. turn # NotAsking /\ turn \in ATurn /\ turn.conv \in Conversation /\ card \in [Card -> ACard \cup {NoCard}]
  BY DEF TurnFails, AssistantInv, AssistantShape, ATurn
<1>2. /\ turn' = NotAsking /\ used' = used - 1
      /\ UNCHANGED <<standing, applying, kept, cut, known>>
      /\ talk' = IF turn.fresh THEN [talk EXCEPT ![turn.conv] = "none"] ELSE talk
  BY DEF TurnFails, PutAway
<1>3. card' = [k \in Card |-> card'[k]] /\ \A k \in Card :
        /\ card[k] = NoCard => card'[k] = NoCard
        /\ card[k] # NoCard /\ card[k].turn =>
             \/ card'[k] = [card[k] EXCEPT !.turn = FALSE, !.at = "deleted"]
             \/ card'[k] = [card[k] EXCEPT !.turn = FALSE, !.at = "dismissed"]
             \/ card'[k] = [card[k] EXCEPT !.turn = FALSE] /\ card[k].at # "pending"
        /\ card[k] # NoCard /\ ~card[k].turn =>
             \/ card'[k] = card[k]
             \/ card'[k] = [card[k] EXCEPT !.at = "deleted", !.turn = FALSE]
  <2> DEFINE closed == [k \in Card |->
        IF k \notin Proposals THEN card[k]
        ELSE [card[k] EXCEPT !.turn = FALSE, !.at = IF @ = "pending" THEN "dismissed" ELSE @]]
  <2>1. CASE turn.fresh
    <3>1. card' = [k \in Card |-> IF k \in Proposals THEN [closed[k] EXCEPT !.at = "deleted"] ELSE Without(turn.conv)[k]]
      BY <2>1 DEF TurnFails, PutAway
    <3>2. ASSUME NEW k \in Card, card[k] # NoCard, card[k].turn
          PROVE  card'[k] = [card[k] EXCEPT !.turn = FALSE, !.at = "deleted"]
      BY <1>1, <3>1, <3>2 DEF ACard
    <3>3. ASSUME NEW k \in Card, card[k] = NoCard \/ ~card[k].turn
          PROVE  card'[k] = Without(turn.conv)[k]
      BY <1>1, <3>1, <3>3
    <3>4. QED
      BY <1>1, <3>1, <3>2, <3>3 DEF Without
  <2>2. CASE ~turn.fresh
    <3>1. card' = closed
      BY <2>2 DEF TurnFails, PutAway
    <3>2. ASSUME NEW k \in Card, card[k] # NoCard, card[k].turn
          PROVE  \/ card'[k] = [card[k] EXCEPT !.turn = FALSE, !.at = "dismissed"]
                 \/ card'[k] = [card[k] EXCEPT !.turn = FALSE] /\ card[k].at # "pending"
      BY <1>1, <3>1, <3>2 DEF ACard
    <3>3. QED
      BY <1>1, <3>1, <3>2
  <2>3. QED
    BY <2>1, <2>2
<1>4. \A k \in Card : card[k] # NoCard /\ card[k].turn => ~card[k].shown
  BY DEF AssistantInv, TurnInv
<1>5. \A k \in Card : IF card[k] = NoCard THEN card'[k] = NoCard ELSE PutBy(card[k], card'[k])
  <2> SUFFICES ASSUME NEW k \in Card, card[k] # NoCard PROVE PutBy(card[k], card'[k])
    BY <1>3
  <2>1. card[k] \in ACard
    BY <1>1
  <2>2. CASE card[k].turn
    BY <1>3, <1>4, <2>1, <2>2, PutByKinds
  <2>3. CASE ~card[k].turn
    BY <1>3, <2>1, <2>3, PutByKinds
  <2>4. QED
    BY <2>2, <2>3
<1>6. /\ card' \in [Card -> ACard \cup {NoCard}]
      /\ ApplyingInv' /\ CardInv'
  BY <1>2, <1>3, <1>5, PutByStep
<1>7. HourIsFair' /\ used' \in Nat /\ NothingOutdated'
  BY <1>1, <1>2, AssistantAssumption DEF AssistantInv, AssistantShape, HourIsFair, NothingOutdated
<1>8. AssistantShape'
  BY <1>1, <1>2, <1>6, <1>7 DEF AssistantInv, AssistantShape
<1>9. \A k \in Card : card'[k] # NoCard =>
        /\ card[k] # NoCard /\ ~card'[k].turn
        /\ card'[k].at = "pending" => (card[k].at = "pending" /\ ~card[k].turn /\ card'[k].shown = card[k].shown)
  <2> SUFFICES ASSUME NEW k \in Card, card[k] # NoCard
               PROVE  /\ ~card'[k].turn
                      /\ card'[k].at = "pending" => (card[k].at = "pending" /\ ~card[k].turn /\ card'[k].shown = card[k].shown)
    BY <1>3
  <2>1. card[k] \in ACard
    BY <1>1
  <2>2. CASE card[k].turn
    <3>1. CASE card'[k] = [card[k] EXCEPT !.turn = FALSE, !.at = "deleted"]
      BY <2>1, <3>1 DEF ACard
    <3>2. CASE card'[k] = [card[k] EXCEPT !.turn = FALSE, !.at = "dismissed"]
      BY <2>1, <3>2 DEF ACard
    <3>3. CASE card'[k] = [card[k] EXCEPT !.turn = FALSE] /\ card[k].at # "pending"
      BY <2>1, <3>3 DEF ACard
    <3>4. QED
      BY <1>3, <2>2, <3>1, <3>2, <3>3
  <2>3. CASE ~card[k].turn
    BY ZenonT(30), <1>3, <2>1, <2>3 DEF ACard
  <2>4. QED
    BY <2>2, <2>3
<1>10. TurnInv'
  BY <1>1, <1>2, <1>9 DEF AssistantInv, AssistantShape, TurnInv
<1>11. QED
  BY <1>6, <1>7, <1>8, <1>10 DEF AssistantInv

LEMMA DeleteTalkStep ==
  ASSUME AssistantInv, NEW c \in Conversation, DeleteConversation(c)
  PROVE  AssistantInv'
<1> USE CardsApart
<1>1. card \in [Card -> ACard \cup {NoCard}]
  BY DEF AssistantInv, AssistantShape
<1>2. /\ talk' = [talk EXCEPT ![c] = "none"]
      /\ UNCHANGED <<standing, applying, turn, used, kept, cut, known>>
      /\ card' = [k \in Card |-> card'[k]]
  BY DEF DeleteConversation, Without
<1>3. \A k \in Card : card'[k] = IF card[k] # NoCard /\ card[k].at # "deleted" /\ card[k].conv = c
                                 THEN [card[k] EXCEPT !.at = "deleted", !.turn = FALSE] ELSE card[k]
  BY <1>1 DEF DeleteConversation, Without
<1>4. \A k \in Card : IF card[k] = NoCard THEN card'[k] = NoCard ELSE PutBy(card[k], card'[k])
  BY ZenonT(30), <1>1, <1>3, PutByKinds
<1>5. /\ card' \in [Card -> ACard \cup {NoCard}]
      /\ ApplyingInv' /\ CardInv'
  BY <1>2, <1>4, PutByStep
<1>6. \A k \in Card : card'[k] # NoCard =>
        /\ card[k] # NoCard
        /\ card'[k] = card[k] \/ (~card'[k].turn /\ card'[k].at = "deleted")
        /\ card[k].turn /\ card[k].conv = c /\ card[k].at # "deleted" => ~card'[k].turn
  BY <1>1, <1>3 DEF ACard
<1>7. \A k \in Card : card'[k] # NoCard /\ card'[k].turn => card'[k] = card[k] /\ card[k].conv # c
  BY <1>3, <1>6 DEF AssistantInv, TurnInv
<1>8. \A k \in Card : card'[k] # NoCard /\ card'[k].at = "pending" => card'[k] = card[k]
  BY <1>6
<1>9. TurnInv'
  BY <1>2, <1>6, <1>7, <1>8 DEF AssistantInv, AssistantShape, TurnInv
<1>10. QED
  BY <1>2, <1>5, <1>9 DEF AssistantInv, AssistantShape, HourIsFair, NothingOutdated

LEMMA ProposeStep ==
  ASSUME AssistantInv, NEW k \in Card, NEW d \in CardKind, Propose(k, d)
  PROVE  AssistantInv'
<1> USE CardsApart
<1> DEFINE x == [at |-> "pending", kind |-> d, stands |-> TRUE, conv |-> turn.conv, turn |-> TRUE, shown |-> FALSE,
                 claim |-> "free", outran |-> FALSE, day |-> FALSE, made |-> 0]
<1>1. /\ card[k] = NoCard /\ turn \in ATurn /\ turn # NotAsking /\ turn.conv \in Conversation
      /\ talk[turn.conv] # "none" /\ card' = [card EXCEPT ![k] = x]
      /\ UNCHANGED <<standing, applying, turn, talk, used, kept, cut, known>>
  BY DEF Propose, AssistantInv, AssistantShape, ATurn, turnVars
<1>2. x \in ACard /\ x # NoCard
  BY <1>1 DEF ACard
<1>3. \A j \in Card : card'[j] = IF j = k THEN x ELSE card[j]
  BY <1>1 DEF AssistantInv, AssistantShape
<1>4. AssistantShape'
  BY <1>1, <1>2 DEF AssistantInv, AssistantShape
<1>5. ApplyingInv' /\ CardInv'
  BY <1>1, <1>2, <1>3 DEF AssistantInv, ApplyingInv, CardInv
<1>6. TurnInv'
  BY <1>1, <1>2, <1>3 DEF AssistantInv, TurnInv
<1>7. QED
  BY <1>1, <1>4, <1>5, <1>6 DEF AssistantInv, HourIsFair, NothingOutdated

LEMMA RestartStep ==
  ASSUME AssistantInv, AssistantRestart
  PROVE  AssistantInv'
<1> USE CardsApart DEF Proposals
<1>1. /\ applying' = [s \in ApplySlot |-> {}] /\ turn' = NotAsking /\ known' = "nothing" /\ cut' = TRUE
      /\ kept' = IF turn = NotAsking THEN kept ELSE kept + 1
      /\ UNCHANGED <<standing, talk, used>>
      /\ card' = [k \in Card |-> card'[k]]
      /\ \A k \in Card : card'[k] = IF card[k].at # "none" /\ card[k].turn THEN [card[k] EXCEPT !.turn = FALSE] ELSE card[k]
  BY DEF AssistantRestart
<1>2. card \in [Card -> ACard \cup {NoCard}]
  BY DEF AssistantInv, AssistantShape
<1>3. \A k \in Card : card[k] = NoCard => card'[k] = NoCard
  BY <1>1, <1>2
<1>4. \A k \in Card : card[k] # NoCard => PutBy(card[k], card'[k]) /\ ~card'[k].turn
  <2> SUFFICES ASSUME NEW k \in Card, card[k] # NoCard PROVE PutBy(card[k], card'[k]) /\ ~card'[k].turn
    OBVIOUS
  <2>1. card[k] \in ACard
    BY <1>2
  <2>2. CASE card[k].turn
    BY ZenonT(30), <1>1, <2>1, <2>2, PutByKinds DEF ACard
  <2>3. CASE ~card[k].turn
    BY <1>1, <2>1, <2>3, PutByKinds
  <2>4. QED
    BY <2>2, <2>3
<1>5. card' \in [Card -> ACard \cup {NoCard}]
  BY <1>1, <1>3, <1>4 DEF PutBy
<1>6. CardInv'
  BY <1>1, <1>3, <1>4 DEF AssistantInv, CardInv, PutBy
<1>7. ApplyingInv' /\ NothingOutdated'
  BY <1>1 DEF ApplyingInv, NothingOutdated
<1>8. TurnInv'
  BY <1>1, <1>3, <1>4 DEF TurnInv
<1>9. HourIsFair' /\ AssistantShape'
  BY <1>1, <1>5, AssistantAssumption DEF AssistantInv, AssistantShape, HourIsFair
<1>10. QED
  BY <1>6, <1>7, <1>8, <1>9 DEF AssistantInv

\* What Apply makes of a card: the columns it never touches stay.
Applied(k, y) ==
  /\ card' = [card EXCEPT ![k] = y]
  /\ y \in ACard
  /\ y.kind = card[k].kind /\ y.conv = card[k].conv /\ y.turn = card[k].turn
  /\ y.shown = card[k].shown /\ y.outran = card[k].outran /\ y.day = card[k].day

\* Then only that card's part of the invariant is left to show.
LEMMA AppliedStep ==
  ASSUME AssistantInv, NEW k \in Card, card[k] \in ACard, card[k].shown, NEW y, Applied(k, y),
         y.at = "pending" => card[k].at = "pending",
         applying' \in [ApplySlot -> SUBSET Card],
         known' \in {"nothing", "current", "old"},
         UNCHANGED <<standing, turnVars>>
  PROVE  /\ AssistantShape' /\ TurnInv' /\ HourIsFair'
         /\ \A j \in Card : card'[j] = IF j = k THEN y ELSE card[j]
<1> USE CardsApart DEF turnVars
<1>1. \A j \in Card : card'[j] = IF j = k THEN y ELSE card[j]
  BY DEF AssistantInv, AssistantShape, Applied
<1>2. AssistantShape'
  BY DEF AssistantInv, AssistantShape, Applied
<1>3. card[k] # NoCard /\ y # NoCard /\ ~card[k].turn /\ ~y.turn /\ y.shown
  BY DEF AssistantInv, TurnInv, Applied
<1>4. TurnInv'
  <2>1. \A j \in Card : card'[j] # NoCard => card[j] # NoCard
    BY <1>1, <1>3
  <2>2. \A j \in Card : card'[j] # NoCard /\ (card'[j].turn \/ ~card'[j].shown) => card'[j] = card[j]
    BY <1>1, <1>3
  <2>3. UNCHANGED <<turn, talk, cut>>
    OBVIOUS
  <2>4. QED
    BY <2>1, <2>2, <2>3 DEF AssistantInv, TurnInv
<1>5. QED
  BY <1>1, <1>2, <1>4 DEF AssistantInv, HourIsFair

LEMMA AtOnceStep ==
  ASSUME AssistantInv, NEW k \in Card,
         ApplyExpired(k) \/ ApplyRefused(k) \/ ApplyAtOnce(k) \/ Dismiss(k)
  PROVE  AssistantInv'
<1> USE CardsApart
<1> DEFINE y == card'[k]
<1>1. /\ card[k] \in ACard /\ card[k] # NoCard /\ card[k].at = "pending" /\ card[k].shown
      /\ card \in [Card -> ACard \cup {NoCard}]
      /\ UNCHANGED <<standing, applying, turnVars>> /\ known' \in {known, "nothing"}
  BY DEF AssistantInv, AssistantShape, ApplyExpired, ApplyRefused, ApplyAtOnce, Dismiss, Pending
<1>2. /\ Applied(k, y)
      /\ \/ (y.at \in {"failed", "dismissed"} /\ y.made = card[k].made /\ y.claim = card[k].claim
             /\ (card[k].claim # "held" \/ (card[k].day /\ y.at = "failed")))
         \/ (y.at = "failed" /\ y.made = card[k].made /\ y.claim = "held" /\ card[k].claim # "held")
         \/ (y.at = "applied" /\ y.made = (IF card[k].made = 2 THEN 2 ELSE card[k].made + 1) /\ y.claim = "held"
             /\ card[k].claim # "held" /\ ~card[k].day)
  <2>1. CASE ApplyExpired(k)
    <3>1. card' = [card EXCEPT ![k] = [card[k] EXCEPT !.at = "failed"]] /\ card[k].day
      BY <1>1, <2>1 DEF ApplyExpired, Decide, Pending
    <3>2. y = [card[k] EXCEPT !.at = "failed"]
      BY <1>1, <3>1
    <3>3. QED
      BY <1>1, <3>1, <3>2 DEF Applied, ACard
  <2>2. CASE ApplyRefused(k)
    <3>1. card' = [card EXCEPT ![k] = [card[k] EXCEPT !.at = "failed", !.claim = "held"]] /\ card[k].claim # "held"
      BY <1>1, <2>2 DEF ApplyRefused, Free
    <3>2. y = [card[k] EXCEPT !.at = "failed", !.claim = "held"]
      BY <1>1, <3>1
    <3>3. QED
      BY <1>1, <3>1, <3>2 DEF Applied, ACard
  <2>3. CASE ApplyAtOnce(k)
    <3> DEFINE more == IF card[k].made = 2 THEN 2 ELSE card[k].made + 1
               z == [card[k] EXCEPT !.made = more, !.stands = FALSE, !.at = "applied", !.claim = "held"]
    <3>0. more \in 0..2
      BY <1>1 DEF ACard
    <3>1. card' = [card EXCEPT ![k] = z] /\ card[k].claim # "held" /\ ~card[k].day
      BY <1>1, <2>3 DEF ApplyAtOnce, Free, Written, ACard
    <3>2. y = z
      BY <1>1, <3>1
    <3>3. z \in ACard /\ z.at = "applied" /\ z.made = more /\ z.claim = "held" /\ z.kind = card[k].kind
          /\ z.conv = card[k].conv /\ z.turn = card[k].turn /\ z.shown = card[k].shown
          /\ z.outran = card[k].outran /\ z.day = card[k].day
      BY <1>1, <3>0 DEF ACard
    <3>4. QED
      BY <3>1, <3>2, <3>3 DEF Applied
  <2>4. CASE Dismiss(k)
    <3>1. card' = [card EXCEPT ![k] = [card[k] EXCEPT !.at = "dismissed"]] /\ card[k].claim # "held"
      BY <1>1, <2>4 DEF Dismiss, Decide, Pending
    <3>2. y = [card[k] EXCEPT !.at = "dismissed"]
      BY <1>1, <3>1
    <3>3. QED
      BY <1>1, <3>1, <3>2 DEF Applied, ACard
  <2>5. QED
    BY <2>1, <2>2, <2>3, <2>4
<1>3. /\ AssistantShape' /\ TurnInv' /\ HourIsFair'
      /\ \A j \in Card : card'[j] = IF j = k THEN y ELSE card[j]
  <2>1. applying' \in [ApplySlot -> SUBSET Card] /\ known' \in {"nothing", "current", "old"}
    BY <1>1 DEF AssistantInv, AssistantShape
  <2>2. y.at # "pending"
    BY <1>2
  <2>3. QED
    BY <1>1, <1>2, <2>1, <2>2, AppliedStep
<1>4. card[k].claim \in {"free", "held", "stale"} /\ card[k].made \in 0..2
  BY <1>1 DEF ACard
<1>5. ApplyingInv'
  BY <1>1, <1>2, <1>3, <1>4 DEF AssistantInv, ApplyingInv, CardInv, Applied
<1>6. CardInv'
  <2>1. ASSUME NEW j \in Card, j # k, card'[j] # NoCard
        PROVE  card'[j] = card[j] /\ card[j] # NoCard
    BY <1>3, <2>1
  <2>2. /\ y.claim = "free" => y.made = 0
        /\ y.claim = "stale" => y.outran
        /\ y.shown
        /\ y.made <= 1 \/ y.outran
        /\ y.at = "applied" => y.made > 0
    BY <1>1, <1>2, <1>4 DEF AssistantInv, CardInv, Applied
  <2>3. y.at \in {"dismissed", "failed"} /\ ~y.outran /\ ~y.day => y.made = 0
    BY <1>1, <1>2, <1>4 DEF AssistantInv, CardInv, Applied
  <2>4. QED
    BY <1>1, <1>3, <2>1, <2>2, <2>3 DEF AssistantInv, CardInv
<1>7. QED
  BY <1>1, <1>3, <1>5, <1>6 DEF AssistantInv, NothingOutdated

LEMMA BeginsApplyStep ==
  ASSUME AssistantInv, NEW s \in ApplySlot, NEW k \in Card, ApplyBegins(s, k)
  PROVE  AssistantInv'
<1> USE CardsApart
<1> DEFINE y == card'[k]
<1>1. /\ card[k] \in ACard /\ card[k] # NoCard /\ card[k].at = "pending" /\ card[k].shown
      /\ card \in [Card -> ACard \cup {NoCard}] /\ ~card[k].day
      /\ card[k].claim # "held" /\ card[k].kind \in {"details", "rate"}
      /\ applying[s] = {} /\ applying' = [applying EXCEPT ![s] = {k}]
      /\ UNCHANGED <<standing, turnVars>>
  BY DEF AssistantInv, AssistantShape, ApplyBegins, Pending, Free, ACard, CardKind
<1>2. /\ Applied(k, y) /\ y.at = "pending" /\ y.claim = "held"
      /\ \/ (card[k].kind = "details" /\ y.made = (IF card[k].made = 2 THEN 2 ELSE card[k].made + 1))
         \/ (card[k].kind = "rate" /\ y.made = card[k].made)
  <2>1. CASE card[k].kind = "details"
    <3> DEFINE more == IF card[k].made = 2 THEN 2 ELSE card[k].made + 1
               z == [card[k] EXCEPT !.made = more, !.stands = FALSE, !.claim = "held"]
    <3>0. more \in 0..2
      BY <1>1 DEF ACard
    <3>1. card' = [card EXCEPT ![k] = z]
      BY <1>1, <2>1 DEF ApplyBegins, Written, ACard
    <3>2. y = z
      BY <1>1, <3>1
    <3>3. z \in ACard /\ z.at = card[k].at /\ z.made = more /\ z.claim = "held" /\ z.kind = card[k].kind
          /\ z.conv = card[k].conv /\ z.turn = card[k].turn /\ z.shown = card[k].shown
          /\ z.outran = card[k].outran /\ z.day = card[k].day
      BY <1>1, <3>0 DEF ACard
    <3>4. QED
      BY <1>1, <2>1, <3>1, <3>2, <3>3 DEF Applied
  <2>2. CASE card[k].kind = "rate"
    <3>1. card' = [card EXCEPT ![k] = [card[k] EXCEPT !.claim = "held"]]
      BY <1>1, <2>2 DEF ApplyBegins
    <3>2. y = [card[k] EXCEPT !.claim = "held"]
      BY <1>1, <3>1
    <3>3. QED
      BY <1>1, <2>2, <3>1, <3>2 DEF Applied, ACard
  <2>3. QED
    BY <1>1, <2>1, <2>2
<1>3. \A t \in ApplySlot : applying'[t] = IF t = s THEN {k} ELSE applying[t]
  BY <1>1 DEF AssistantInv, AssistantShape
<1>4. known' \in {known, Outdated} /\ known' \in {"nothing", "current", "old"}
  BY DEF ApplyBegins, Outdated, AssistantInv, AssistantShape
<1>5. /\ AssistantShape' /\ TurnInv' /\ HourIsFair'
      /\ \A j \in Card : card'[j] = IF j = k THEN y ELSE card[j]
  <2>1. applying' \in [ApplySlot -> SUBSET Card]
    BY <1>1 DEF AssistantInv, AssistantShape
  <2>2. QED
    BY <1>1, <1>2, <1>4, <2>1, AppliedStep
<1>6. card[k].claim \in {"free", "held", "stale"} /\ card[k].made \in 0..2
  BY <1>1 DEF ACard
<1>7. card[k].outran \/ (card[k].claim = "free" /\ card[k].made = 0 /\ \A t \in ApplySlot : k \notin applying[t])
  BY <1>1, <1>6 DEF AssistantInv, CardInv, ApplyingInv
<1>8. ApplyingInv'
  <2> SUFFICES ASSUME NEW j \in Card, NEW t \in ApplySlot, j \in applying'[t]
               PROVE  /\ card'[j] # NoCard
                      /\ card'[j].claim # "free" /\ card'[j].kind # "case"
                      /\ card'[j].kind = "details" => card'[j].made > 0
                      /\ ~card'[j].outran =>
                           /\ card'[j].kind = "rate" => card'[j].made = 0
                           /\ \A u \in ApplySlot : j \in applying'[u] => u = t
                           /\ ~card'[j].day => card'[j].at \in {"pending", "deleted"}
    BY DEF ApplyingInv
  <2>1. CASE j # k
    BY <1>3, <1>5, <2>1 DEF AssistantInv, ApplyingInv
  <2>2. CASE j = k
    BY <1>1, <1>2, <1>3, <1>5, <1>6, <1>7, <2>2 DEF Applied
  <2>3. QED
    BY <2>1, <2>2
<1>9. CardInv'
  <2>1. ASSUME NEW j \in Card, j # k, card'[j] # NoCard
        PROVE  card'[j] = card[j] /\ card[j] # NoCard
    BY <1>5, <2>1
  <2>2. y.claim = "held" /\ y.shown /\ y.at = "pending" /\ (y.made <= 1 \/ y.outran)
    BY <1>1, <1>2, <1>6, <1>7 DEF Applied
  <2>3. QED
    BY <1>1, <1>5, <2>1, <2>2 DEF AssistantInv, CardInv
<1>10. NothingOutdated'
  BY <1>3 DEF NothingOutdated
<1>11. QED
  BY <1>5, <1>8, <1>9, <1>10 DEF AssistantInv

LEMMA EndsApplyStep ==
  ASSUME AssistantInv, NEW s \in ApplySlot, NEW k \in Card, ApplyEnds(s, k) \/ ApplyFails(s, k)
  PROVE  AssistantInv'
<1> USE CardsApart
<1> DEFINE y == card'[k]
           rateToo == card[k].kind = "rate" /\ standing # "deleted"
<1>1. /\ k \in applying[s] /\ card[k] # NoCard /\ card[k] \in ACard /\ card[k].claim # "free" /\ card[k].shown
      /\ card \in [Card -> ACard \cup {NoCard}]
      /\ applying' = [applying EXCEPT ![s] = {}] /\ known' = "nothing"
      /\ UNCHANGED <<standing, turnVars>>
  BY DEF AssistantInv, AssistantShape, ApplyingInv, CardInv, ApplyEnds, ApplyFails
<1>2. card[k].made \in 0..2 /\ (card[k].kind = "details" => card[k].made > 0)
      /\ card[k].kind \in {"details", "rate", "case"} /\ card[k].kind # "case"
  BY <1>1 DEF AssistantInv, ApplyingInv, ACard, CardKind
<1>3. /\ Applied(k, y) /\ y.claim = card[k].claim
      /\ \/ /\ ApplyEnds(s, k)
            /\ y.made = IF rateToo /\ card[k].made # 2 THEN card[k].made + 1 ELSE card[k].made
            /\ y.at = IF card[k].at # "pending" THEN card[k].at ELSE IF standing = "deleted" THEN "failed" ELSE "applied"
         \/ /\ card[k].kind = "rate" /\ y.made = card[k].made
            /\ y.at = IF card[k].at # "pending" THEN card[k].at ELSE "failed"
  <2>1. CASE ApplyEnds(s, k)
    <3> DEFINE to == IF card[k].at # "pending" THEN card[k].at ELSE IF standing = "deleted" THEN "failed" ELSE "applied"
               more == IF card[k].made = 2 THEN 2 ELSE card[k].made + 1
    <3>0. to \in {"pending", "applied", "failed", "dismissed", "deleted"} /\ more \in 0..2
      BY <1>1 DEF ACard
    <3>1. CASE rateToo
      <4> DEFINE z == [card[k] EXCEPT !.made = more, !.stands = FALSE, !.at = to]
      <4>1. card' = [card EXCEPT ![k] = z]
        BY <1>1, <2>1, <3>1 DEF ApplyEnds, Written, ACard
      <4>2. y = z
        BY <1>1, <4>1
      <4>3. z \in ACard /\ z.at = to /\ z.made = more /\ z.claim = card[k].claim /\ z.kind = card[k].kind
            /\ z.conv = card[k].conv /\ z.turn = card[k].turn /\ z.shown = card[k].shown
            /\ z.outran = card[k].outran /\ z.day = card[k].day
        BY <1>1, <3>0 DEF ACard
      <4>4. QED
        BY <2>1, <3>1, <4>1, <4>2, <4>3 DEF Applied
    <3>2. CASE ~rateToo
      <4> DEFINE z == [card[k] EXCEPT !.at = to]
      <4>1. card' = [card EXCEPT ![k] = z]
        BY <1>1, <2>1, <3>2 DEF ApplyEnds
      <4>2. y = z
        BY <1>1, <4>1
      <4>3. z \in ACard /\ z.at = to /\ z.made = card[k].made /\ z.claim = card[k].claim /\ z.kind = card[k].kind
            /\ z.conv = card[k].conv /\ z.turn = card[k].turn /\ z.shown = card[k].shown
            /\ z.outran = card[k].outran /\ z.day = card[k].day
        BY <1>1, <3>0 DEF ACard
      <4>4. QED
        BY <2>1, <3>2, <4>1, <4>2, <4>3 DEF Applied
    <3>3. QED
      BY <3>1, <3>2
  <2>2. CASE ApplyFails(s, k)
    <3>1. CASE Pending(k)
      BY <1>1, <2>2, <3>1 DEF ApplyFails, Decide, Pending, Applied, ACard
    <3>2. CASE ~Pending(k)
      BY <1>1, <2>2, <3>2 DEF ApplyFails, Decide, Pending, Applied, ACard
    <3>3. QED
      BY <3>1, <3>2
  <2>3. QED
    BY <2>1, <2>2
<1>4. \A t \in ApplySlot : applying'[t] = IF t = s THEN {} ELSE applying[t]
  BY <1>1 DEF AssistantInv, AssistantShape
<1>5. /\ AssistantShape' /\ TurnInv' /\ HourIsFair'
      /\ \A j \in Card : card'[j] = IF j = k THEN y ELSE card[j]
  <2>1. applying' \in [ApplySlot -> SUBSET Card]
    BY <1>1 DEF AssistantInv, AssistantShape
  <2>2. y.at = "pending" => card[k].at = "pending"
    BY <1>3
  <2>3. QED
    BY <1>1, <1>3, <2>1, <2>2, AppliedStep
<1>6. ~card[k].outran =>
        /\ card[k].kind = "rate" => card[k].made = 0
        /\ \A t \in ApplySlot : t # s => k \notin applying[t]
  BY <1>1 DEF AssistantInv, ApplyingInv
<1>7. ApplyingInv'
  <2> SUFFICES ASSUME NEW j \in Card, NEW t \in ApplySlot, j \in applying'[t]
               PROVE  /\ card'[j] # NoCard
                      /\ card'[j].claim # "free" /\ card'[j].kind # "case"
                      /\ card'[j].kind = "details" => card'[j].made > 0
                      /\ ~card'[j].outran =>
                           /\ card'[j].kind = "rate" => card'[j].made = 0
                           /\ \A u \in ApplySlot : j \in applying'[u] => u = t
                           /\ ~card'[j].day => card'[j].at \in {"pending", "deleted"}
    BY DEF ApplyingInv
  <2>1. CASE j # k
    BY <1>4, <1>5, <2>1 DEF AssistantInv, ApplyingInv
  <2>2. CASE j = k
    BY <1>1, <1>2, <1>3, <1>4, <1>5, <1>6, <2>2 DEF Applied
  <2>3. QED
    BY <2>1, <2>2
<1>8. ~card[k].outran /\ ~card[k].day => card[k].at \in {"pending", "deleted"}
  BY <1>1 DEF AssistantInv, ApplyingInv
<1>9. CardInv'
  <2>1. ASSUME NEW j \in Card, j # k, card'[j] # NoCard
        PROVE  card'[j] = card[j] /\ card[j] # NoCard
    BY <1>5, <2>1
  <2>2. /\ y.claim = "stale" => y.outran
        /\ y.claim # "free" /\ y.shown
        /\ y.made <= 1 \/ y.outran
        /\ y.at = "applied" => y.made > 0
    BY <1>1, <1>2, <1>3, <1>6 DEF AssistantInv, CardInv, Applied
  <2>3. y.at \in {"dismissed", "failed"} /\ ~y.outran /\ ~y.day /\ standing # "deleted" => y.made = 0
    BY <1>1, <1>2, <1>3, <1>6, <1>8 DEF AssistantInv, CardInv, Applied
  <2>4. QED
    BY <1>1, <1>5, <2>1, <2>2, <2>3 DEF AssistantInv, CardInv
<1>10. QED
  BY <1>1, <1>5, <1>7, <1>9 DEF AssistantInv, NothingOutdated

\* A card changes its receipt once and says what became of it, the hour counts
\* the questions it should, no card is left without its answer and nothing is
\* remembered from before a change, for any cards, conversations and bounds
\* (assistant/actions.js, conversation.js, routes/assistant.js).
THEOREM AssistantStaysHeld == AssistantSpec => []AssistantHolds
<1>1. AssistantInv /\ AssistantNext => AssistantInv'
  BY PageStep, TurnStep, StoreStep, FailsStep, DeleteTalkStep, ProposeStep, RestartStep, AtOnceStep,
     BeginsApplyStep, EndsApplyStep DEF AssistantNext
<1>2. AssistantInv /\ UNCHANGED assistantVars => AssistantInv'
  BY CardsRest DEF AssistantInv, AssistantShape, TurnInv, HourIsFair, NothingOutdated, assistantVars, turnVars, cardVars
<1>3. AssistantInv => AssistantHolds
  <2> SUFFICES ASSUME AssistantInv PROVE AssistantHolds
    OBVIOUS
  <2>1. \A k \in Made : card[k] # NoCard
    BY CardsApart DEF Made, AssistantInv, AssistantShape, NoCard
  <2>2. ChangedOnce /\ SaysWhatHappened
    BY <2>1 DEF ChangedOnce, SaysWhatHappened, AssistantInv, CardInv, Made
  <2>3. NoCardAlone
    <3>1. \A k \in Card : Pending(k) => card[k] # NoCard
      BY CardsApart DEF Pending, NoCard
    <3>2. QED
      BY <3>1 DEF NoCardAlone, Pending, AssistantInv, TurnInv
  <2>4. QED
    BY <2>2, <2>3 DEF AssistantInv, AssistantHolds
<1>4. QED
  BY AssistantInvInit, <1>1, <1>2, <1>3, PTL DEF AssistantSpec

-----------------------------------------------------------------------------
(* Files going into a case.                                                 *)

RowState == Busy \cup {"none", "stored", "duplicate", "refused", "failed", "removed", "split"}
RunState == {"none", "preparing", "sending"}
Job ==
  [at : {"none", "way", "storing", "done", "refused", "dup", "over"}, todo : SUBSET Receipt, got : SUBSET Receipt]

\* A row and what is at work on it go together, and a file may still be sent
\* while it waits; pump waits for the case only with a slot free.
PageInv ==
  /\ row \in [Item -> RowState] /\ run \in [Item -> RunState] /\ try \in [Item -> Nat]
  /\ held \subseteq Item /\ pumping \in BOOLEAN
  /\ \A i \in Item :
       /\ try[i] <= MaxSends[i]
       /\ row[i] \in {"none", "queued", "preparing"} => try[i] < MaxSends[i]
       /\ run[i] = "preparing" => i \in Receipt /\ row[i] \in {"preparing", "removed"}
       /\ row[i] = "preparing" => run[i] = "preparing"
       /\ run[i] = "sending" <=> row[i] = "uploading"
  /\ pumping => Active(run) < Slots
  /\ NoneForgotten
  /\ HeldWhileNeeded

\* What the page knows of is in the case, and what an answer left out of the
\* list is not; a case that is gone is empty.
FilesInv ==
  /\ case \in {"none", "draft", "deleting", "gone"}
  /\ job \in [Sending -> Job]
  /\ inCase \subseteq Receipt /\ local \subseteq Receipt /\ files \subseteq Receipt /\ knew \subseteq Receipt
  /\ ask \in [at : {"none", "way", "back"}, files : SUBSET Receipt, knew : SUBSET Receipt]
  /\ case \in {"none", "draft"} =>
       /\ local \subseteq inCase /\ knew \subseteq files /\ ask.knew \subseteq inCase
       /\ ask.at = "back" => ask.knew \subseteq ask.files
       /\ \A s \in Sending : job[s].got \subseteq inCase
  /\ DiscardIsWhole

UploadInv == PageInv /\ FilesInv

LEMMA ItemsFinite == IsFiniteSet(Item)
BY CaseUploadsAssumption, FS_Union DEF Item

LEMMA SendingIs ==
  /\ \A i \in Item, n \in Nat : n < MaxSends[i] => <<i, n + 1>> \in Sending
  /\ \A s \in Sending : s[1] \in Item /\ s[2] \in 1..MaxSends[s[1]] /\ s = <<s[1], s[2]>>
<1>1. \A i \in Item : MaxSends[i] \in Nat \ {0}
  BY CaseUploadsAssumption DEF Item
<1>2. ASSUME NEW i \in Item, NEW n \in Nat, n < MaxSends[i]
      PROVE  <<i, n + 1>> \in Sending
  <2>1. n + 1 \in 1..MaxSends[i]
    BY <1>1, <1>2
  <2>2. <<i, n + 1>> \in {i} \X (1..MaxSends[i])
    BY <2>1
  <2>3. QED
    BY <2>2 DEF Sending
<1>3. ASSUME NEW s \in Sending
      PROVE  s[1] \in Item /\ s[2] \in 1..MaxSends[s[1]] /\ s = <<s[1], s[2]>>
  <2>1. PICK i \in Item : s \in {i} \X (1..MaxSends[i])
    BY DEF Sending
  <2>2. QED
    BY <2>1
<1>4. QED
  BY <1>2, <1>3

LEMMA ActiveKeeps ==
  ASSUME NEW r1, NEW r2, \A i \in Item : r2[i] # "none" => r1[i] # "none"
  PROVE  Active(r1) \in Nat /\ Active(r2) \in Nat /\ Active(r2) <= Active(r1)
<1> DEFINE A(r) == {i \in Item : r[i] # "none"}
<1>1. IsFiniteSet(A(r1)) /\ A(r2) \subseteq A(r1)
  BY ItemsFinite, FS_Subset
<1>2. IsFiniteSet(A(r2)) /\ Cardinality(A(r2)) <= Cardinality(A(r1))
  BY <1>1, FS_Subset
<1>3. Cardinality(A(r1)) \in Nat /\ Cardinality(A(r2)) \in Nat
  BY <1>1, <1>2, FS_CardinalityType
<1>4. QED
  BY <1>2, <1>3 DEF Active

LEMMA ActiveOneMore ==
  ASSUME NEW r1, NEW r2, NEW i \in Item, \A j \in Item : j # i => r2[j] = r1[j]
  PROVE  Active(r1) \in Nat /\ Active(r2) \in Nat /\ Active(r2) <= Active(r1) + 1
<1> DEFINE A(r) == {j \in Item : r[j] # "none"}
<1>1. IsFiniteSet(A(r1)) /\ A(r2) \subseteq A(r1) \cup {i}
  BY ItemsFinite, FS_Subset
<1>2. /\ IsFiniteSet(A(r1) \cup {i}) /\ Cardinality(A(r1)) \in Nat
      /\ Cardinality(A(r1) \cup {i}) <= Cardinality(A(r1)) + 1
  <2> HIDE DEF A
  <2>1. /\ IsFiniteSet(A(r1) \cup {i})
        /\ Cardinality(A(r1) \cup {i}) = IF i \in A(r1) THEN Cardinality(A(r1)) ELSE Cardinality(A(r1)) + 1
    BY <1>1, FS_AddElement
  <2>2. Cardinality(A(r1)) \in Nat
    BY <1>1, FS_CardinalityType
  <2>3. QED
    BY <2>1, <2>2
<1>3. /\ IsFiniteSet(A(r2)) /\ Cardinality(A(r2)) <= Cardinality(A(r1) \cup {i})
      /\ Cardinality(A(r1) \cup {i}) \in Nat
  BY <1>1, <1>2, FS_Subset, FS_CardinalityType
<1>4. Cardinality(A(r2)) \in Nat
  BY <1>3, FS_CardinalityType
<1>5. QED
  BY <1>2, <1>3, <1>4 DEF Active

\* Pump keeps what is asked of the slots whenever no more files are at work.
LEMMA PumpKeeps ==
  ASSUME PageInv, Pump(row', run'), \A i \in Item : run'[i] # "none" => run[i] # "none"
  PROVE  pumping' \in BOOLEAN /\ (pumping' => Active(run') < Slots) /\ NoneForgotten'
<1>1. Active(run) \in Nat /\ Active(run') \in Nat /\ Active(run') <= Active(run)
  BY ActiveKeeps
<1>2. Active(run') <= Slots /\ Active(run) <= Slots /\ Slots \in Nat
  BY <1>1, CaseUploadsAssumption DEF PageInv, NoneForgotten
<1>3. pumping' = (pumping \/ (Active(run') < Slots /\ \E i \in Item : row'[i] = "queued"))
  BY DEF Pump
<1>4. pumping' \in BOOLEAN
  BY <1>3
<1>5. pumping' => Active(run') < Slots
  <2>1. CASE pumping
    BY <1>1, <1>2, <2>1 DEF PageInv
  <2>2. CASE ~pumping
    BY <1>3, <2>2
  <2>3. QED
    BY <2>1, <2>2
<1>6. ASSUME \E i \in Item : row'[i] = "queued", ~pumping'
      PROVE  Active(run') = Slots
  <2>1. ~(Active(run') < Slots)
    BY <1>3, <1>6
  <2>2. QED
    BY <1>1, <1>2, <2>1
<1>7. QED
  BY <1>2, <1>4, <1>5, <1>6 DEF NoneForgotten

\* What is left to show of a step that changes no more than one row.
LEMMA OneRow ==
  ASSUME PageInv, NEW i \in Item, NEW w \in RowState, NEW n \in RunState, NEW t \in Nat,
         row' = [row EXCEPT ![i] = w], run' = [run EXCEPT ![i] = n], try' = [try EXCEPT ![i] = t],
         t <= MaxSends[i], w \in {"none", "queued", "preparing"} => t < MaxSends[i],
         n = "preparing" => i \in Receipt /\ w \in {"preparing", "removed"},
         w = "preparing" => n = "preparing",
         n = "sending" <=> w = "uploading",
         w \in Busy \cup {"failed"} <=> i \in held',
         \A j \in Item : j # i => (j \in held' <=> j \in held),
         held' \subseteq Item,
         pumping' \in BOOLEAN, pumping' => Active(run') < Slots, NoneForgotten'
  PROVE  PageInv'
<1>1. \A j \in Item : /\ row'[j] = IF j = i THEN w ELSE row[j]
                      /\ run'[j] = IF j = i THEN n ELSE run[j]
                      /\ try'[j] = IF j = i THEN t ELSE try[j]
  BY DEF PageInv
<1>2. row' \in [Item -> RowState] /\ run' \in [Item -> RunState] /\ try' \in [Item -> Nat]
  BY DEF PageInv
<1>3. \A j \in Item :
        /\ try'[j] <= MaxSends[j]
        /\ row'[j] \in {"none", "queued", "preparing"} => try'[j] < MaxSends[j]
        /\ run'[j] = "preparing" => j \in Receipt /\ row'[j] \in {"preparing", "removed"}
        /\ row'[j] = "preparing" => run'[j] = "preparing"
        /\ run'[j] = "sending" <=> row'[j] = "uploading"
  BY <1>1 DEF PageInv
<1>4. HeldWhileNeeded'
  BY <1>1 DEF PageInv, HeldWhileNeeded
<1>5. QED
  BY <1>2, <1>3, <1>4 DEF PageInv

LEMMA QueueStep ==
  ASSUME PageInv, NEW i \in Item, Drop(i) \/ Retry(i)
  PROVE  PageInv'
<1>1. /\ row' = [row EXCEPT ![i] = "queued"] /\ Pump(row', run) /\ UNCHANGED <<run, try>>
      /\ i \in held' /\ held' \subseteq Item /\ \A j \in Item : j # i => (j \in held' <=> j \in held)
      /\ row[i] \in {"none", "failed"} /\ try[i] < MaxSends[i]
  BY DEF Drop, Retry, Queue, PageInv
<1>2. run[i] = "none" /\ try[i] \in Nat
  BY <1>1 DEF PageInv, RunState
<1>3. run' = [run EXCEPT ![i] = "none"] /\ try' = [try EXCEPT ![i] = try[i]]
  BY <1>1, <1>2 DEF PageInv
<1>4. pumping' \in BOOLEAN /\ (pumping' => Active(run') < Slots) /\ NoneForgotten'
  BY <1>1, PumpKeeps
<1>5. QED
  BY <1>1, <1>2, <1>3, <1>4, OneRow DEF RowState, RunState, Busy, PageInv

LEMMA RunOverStep ==
  ASSUME PageInv, NEW i \in Item, run[i] # "none", UNCHANGED try,
         NEW state \in {"stored", "duplicate", "refused", "failed", "removed", "split"}, RunOver(i, state)
  PROVE  PageInv'
<1> DEFINE w == IF row[i] \in Busy THEN state ELSE row[i]
<1>1. /\ row' = [row EXCEPT ![i] = w] /\ run' = [run EXCEPT ![i] = "none"] /\ Pump(row', run')
      /\ held' = IF state = "failed" THEN held ELSE held \ {i}
  BY DEF RunOver
<1>2. row[i] \in {"preparing", "uploading", "removed"} /\ try[i] \in Nat /\ try[i] <= MaxSends[i]
  BY DEF PageInv, RunState
<1>3. w \in {"stored", "duplicate", "refused", "failed", "removed", "split"}
  BY <1>2 DEF Busy
<1>4. try' = [try EXCEPT ![i] = try[i]]
  BY DEF PageInv
<1>5. \A j \in Item : run'[j] # "none" => run[j] # "none"
  BY <1>1 DEF PageInv
<1>6. pumping' \in BOOLEAN /\ (pumping' => Active(run') < Slots) /\ NoneForgotten'
  BY <1>1, <1>5, PumpKeeps
<1>7. /\ held' \subseteq Item /\ \A j \in Item : j # i => (j \in held' <=> j \in held)
  BY <1>1 DEF PageInv
<1>8. w \in Busy \cup {"failed"} <=> i \in held'
  BY <1>1, <1>2, <1>3 DEF PageInv, HeldWhileNeeded, Busy
<1>9. QED
  BY <1>1, <1>2, <1>3, <1>4, <1>6, <1>7, <1>8, OneRow DEF RowState, RunState, Busy

LEMMA HasCaseStep ==
  ASSUME PageInv, HasCase
  PROVE  PageInv'
<1>1. ASSUME NEW i \in Item, row[i] = "queued", Starts(i), UNCHANGED held
      PROVE  PageInv'
  <2> DEFINE w == IF i \in Receipt THEN "preparing" ELSE "uploading"
             n == IF i \in Receipt THEN "preparing" ELSE "sending"
             t == IF i \in Receipt THEN try[i] ELSE try[i] + 1
  <2>1. /\ row' = [row EXCEPT ![i] = w] /\ run' = [run EXCEPT ![i] = n] /\ try' = [try EXCEPT ![i] = t]
        /\ pumping' = (Active(run') < Slots /\ \E j \in Item : row'[j] = "queued")
    BY <1>1 DEF Starts, PageInv
  <2>2. try[i] \in Nat /\ try[i] < MaxSends[i] /\ MaxSends[i] \in Nat /\ i \in held
    BY <1>1, CaseUploadsAssumption DEF PageInv, HeldWhileNeeded, Busy, Item
  <2>3. \A j \in Item : j # i => run'[j] = run[j]
    BY <2>1 DEF PageInv
  <2>4. Active(run) \in Nat /\ Active(run') \in Nat /\ Active(run') <= Active(run) + 1
    BY <2>3, ActiveOneMore
  <2>5. Active(run') <= Slots
    BY <2>4, CaseUploadsAssumption DEF HasCase, PageInv
  <2>6. NoneForgotten'
    <3>1. ASSUME \E j \in Item : row'[j] = "queued", ~pumping'
          PROVE  Active(run') = Slots
      <4>1. ~(Active(run') < Slots)
        BY <2>1, <3>1
      <4>2. QED
        BY <2>4, <2>5, <4>1, CaseUploadsAssumption
    <3>2. QED
      BY <2>5, <3>1 DEF NoneForgotten
  <2>7. pumping' \in BOOLEAN /\ (pumping' => Active(run') < Slots)
    BY <2>1
  <2>8. t \in Nat /\ t <= MaxSends[i] /\ (w = "preparing" => t < MaxSends[i])
    BY <2>2
  <2>9. w \in RowState /\ n \in RunState /\ w \in Busy /\ w \in {"preparing", "uploading"}
        /\ (n = "preparing" <=> w = "preparing") /\ (n = "sending" <=> w = "uploading")
        /\ (n = "preparing" => i \in Receipt)
    BY DEF RowState, RunState, Busy
  <2>10. QED
    BY <1>1, <2>1, <2>2, <2>6, <2>7, <2>8, <2>9, OneRow DEF PageInv
<1>2. CASE /\ \A i \in Item : row[i] # "queued"
           /\ pumping' = FALSE /\ UNCHANGED <<row, run, try, held>>
  BY <1>2 DEF PageInv, NoneForgotten, HeldWhileNeeded
<1>3. QED
  BY <1>1, <1>2 DEF HasCase

LEMMA PreparedStep ==
  ASSUME PageInv, NEW i \in Item, Prepared(i) \/ NotPrepared(i)
  PROVE  PageInv'
<1>1. run[i] = "preparing"
  BY DEF Prepared, NotPrepared
<1>2. CASE Prepared(i) /\ row[i] = "preparing"
  <2>1. /\ row' = [row EXCEPT ![i] = "uploading"] /\ run' = [run EXCEPT ![i] = "sending"]
        /\ try' = [try EXCEPT ![i] = try[i] + 1] /\ UNCHANGED <<held, pumping>>
    BY <1>2 DEF Prepared
  <2>2. try[i] \in Nat /\ try[i] < MaxSends[i] /\ MaxSends[i] \in Nat /\ i \in held
    BY <1>2, CaseUploadsAssumption DEF PageInv, HeldWhileNeeded, Busy, Item
  <2>3. try[i] + 1 \in Nat /\ try[i] + 1 <= MaxSends[i]
    BY <2>2
  <2>4. \A j \in Item : /\ run'[j] # "none" <=> run[j] # "none"
                        /\ row'[j] = "queued" => row[j] = "queued"
    BY <1>1, <2>1 DEF PageInv
  <2>5. Active(run') = Active(run)
    BY <2>4 DEF Active
  <2>6. pumping' \in BOOLEAN /\ (pumping' => Active(run') < Slots) /\ NoneForgotten'
    BY <2>1, <2>4, <2>5 DEF PageInv, NoneForgotten
  <2>7. QED
    BY <2>1, <2>2, <2>3, <2>6, OneRow DEF RowState, RunState, Busy, PageInv
<1>3. CASE Prepared(i) /\ row[i] # "preparing"
  BY <1>1, <1>3, RunOverStep DEF Prepared
<1>4. CASE NotPrepared(i)
  BY <1>1, <1>4, RunOverStep DEF NotPrepared
<1>5. QED
  BY <1>2, <1>3, <1>4

LEMMA RemoveStep ==
  ASSUME PageInv, NEW i \in Item, Remove(i)
  PROVE  PageInv'
<1> DEFINE n == IF run[i] = "sending" THEN "none" ELSE run[i]
<1>1. /\ row' = [row EXCEPT ![i] = "removed"] /\ run' = [run EXCEPT ![i] = n] /\ UNCHANGED try
      /\ held' = held \ {i} /\ Pump(row', run')
  BY DEF Remove
<1>2. try[i] \in Nat /\ try[i] <= MaxSends[i] /\ n \in {"none", "preparing"}
      /\ (n = "preparing" => i \in Receipt)
  BY DEF PageInv, RunState
<1>3. \A j \in Item : run'[j] # "none" => run[j] # "none"
  BY <1>1 DEF PageInv
<1>4. pumping' \in BOOLEAN /\ (pumping' => Active(run') < Slots) /\ NoneForgotten'
  BY <1>1, <1>3, PumpKeeps
<1>5. try' = [try EXCEPT ![i] = try[i]]
  BY <1>1 DEF PageInv
<1>6. held' \subseteq Item /\ i \notin held' /\ \A j \in Item : j # i => (j \in held' <=> j \in held)
  BY <1>1 DEF PageInv
<1>7. QED
  BY <1>1, <1>2, <1>4, <1>5, <1>6, OneRow DEF RowState, RunState, Busy

LEMMA ManyRowsStep ==
  ASSUME PageInv, NoCase \/ Discard
  PROVE  PageInv'
<1>1. CASE NoCase
  <2>1. /\ row' = [i \in Item |-> IF row[i] = "queued" THEN "failed" ELSE row[i]]
        /\ pumping' = FALSE /\ UNCHANGED <<run, try, held>>
    BY <1>1 DEF NoCase
  <2>2. \A i \in Item : row'[i] = IF row[i] = "queued" THEN "failed" ELSE row[i]
    BY <2>1
  <2>3. row' \in [Item -> RowState]
    BY <2>1 DEF PageInv, RowState
  <2>4. NoneForgotten' /\ HeldWhileNeeded'
    BY <2>1, <2>2 DEF PageInv, NoneForgotten, HeldWhileNeeded, Busy
  <2>5. QED
    BY <2>1, <2>2, <2>3, <2>4 DEF PageInv
<1>2. CASE Discard
  <2>1. /\ row' = [i \in Item |-> IF row[i] \in Busy THEN "removed" ELSE row[i]]
        /\ held' = {i \in held : row[i] \notin Busy}
        /\ run' = [i \in Item |-> IF run[i] = "sending" THEN "none" ELSE run[i]]
        /\ Pump(row', run') /\ UNCHANGED try
    BY <1>2 DEF Discard
  <2>2. \A i \in Item : /\ row'[i] = IF row[i] \in Busy THEN "removed" ELSE row[i]
                        /\ run'[i] = IF run[i] = "sending" THEN "none" ELSE run[i]
    BY <2>1
  <2>3. row' \in [Item -> RowState] /\ run' \in [Item -> RunState] /\ held' \subseteq Item
    BY <2>1 DEF PageInv, RowState, RunState
  <2>4. pumping' \in BOOLEAN /\ (pumping' => Active(run') < Slots) /\ NoneForgotten'
    BY <2>1, <2>2, PumpKeeps
  <2>5. HeldWhileNeeded'
    BY <2>1, <2>2 DEF PageInv, HeldWhileNeeded, Busy
  <2>6. \A i \in Item :
          /\ try'[i] <= MaxSends[i]
          /\ row'[i] \in {"none", "queued", "preparing"} => try'[i] < MaxSends[i]
          /\ run'[i] = "preparing" => i \in Receipt /\ row'[i] \in {"preparing", "removed"}
          /\ row'[i] = "preparing" => run'[i] = "preparing"
          /\ run'[i] = "sending" <=> row'[i] = "uploading"
    BY <2>1, <2>2 DEF PageInv, Busy
  <2>7. QED
    BY <2>1, <2>3, <2>4, <2>5, <2>6 DEF PageInv
<1>3. QED
  BY <1>1, <1>2

LEMMA PageStepsKeep == PageInv /\ UploadNext => PageInv'
<1> SUFFICES ASSUME PageInv, UploadNext PROVE PageInv'
  OBVIOUS
<1>1. ASSUME NEW i \in Item, Drop(i) \/ Retry(i) \/ Prepared(i) \/ NotPrepared(i) \/ Remove(i)
      PROVE  PageInv'
  BY <1>1, QueueStep, PreparedStep, RemoveStep
<1>2. CASE HasCase \/ NoCase \/ Discard
  BY <1>2, HasCaseStep, ManyRowsStep
<1>3. ASSUME NEW s \in Sending, Answer(s), Current(s)
      PROVE  PageInv'
  <2>1. s[1] \in Item /\ run[s[1]] # "none"
    BY <1>3, SendingIs DEF Current
  <2>2. PICK state \in {"stored", "duplicate", "refused", "split"} : RunOver(s[1], state)
    <3>1. CASE job[s].at = "dup"
      BY <1>3, <3>1 DEF Answer
    <3>2. CASE job[s].at = "refused"
      BY <1>3, <3>2 DEF Answer
    <3>3. CASE job[s].at = "done"
      BY <1>3, <3>3 DEF Answer
    <3>4. QED
      BY <1>3, <3>1, <3>2, <3>3 DEF Answer
  <2>3. UNCHANGED try
    BY <1>3 DEF Answer
  <2>4. QED
    BY <2>1, <2>2, <2>3, RunOverStep
<1>4. ASSUME NEW s \in Sending, Drops(s)
      PROVE  PageInv'
  <2>1. s[1] \in Item /\ run[s[1]] # "none" /\ RunOver(s[1], "failed") /\ UNCHANGED try
    BY <1>4, SendingIs DEF Drops, Current
  <2>2. QED
    BY <2>1, RunOverStep
<1>5. CASE UNCHANGED pageRows
  BY <1>5 DEF pageRows, PageInv, NoneForgotten, HeldWhileNeeded
<1>6. ASSUME NEW s \in Sending, Arrive(s) \/ Empty(s) \/ Answer(s) \/ Drops(s) \/ \E r \in Receipt : Store(s, r)
      PROVE  PageInv'
  <2>1. CASE Answer(s) /\ ~Current(s)
    <3>1. UNCHANGED pageRows
      BY <2>1 DEF Answer, pageRows
    <3>2. QED
      BY <1>5, <3>1
  <2>2. CASE Arrive(s) \/ Empty(s) \/ \E r \in Receipt : Store(s, r)
    BY <1>5, <2>2 DEF Arrive, Empty, Store
  <2>3. QED
    BY <1>3, <1>4, <1>6, <2>1, <2>2
<1>7. CASE Deleted \/ (\E r \in Receipt : Leaves(r)) \/ Ask \/ AskAnswered \/ Taken
  BY <1>5, <1>7 DEF Deleted, Leaves, Ask, AskAnswered, Taken
<1>8. QED
  BY <1>1, <1>2, <1>6, <1>7 DEF UploadNext

\* What a sending becomes keeps what the case is known to hold.
LEMMA JobStep ==
  ASSUME FilesInv, NEW s \in Sending, NEW x \in Job, job' = [job EXCEPT ![s] = x],
         inCase \subseteq inCase', inCase' \subseteq Receipt, case' = case, x.got \subseteq inCase' \/ case \notin {"none", "draft"},
         local' \subseteq Receipt, local' \subseteq inCase' \/ case \notin {"none", "draft"},
         case = "gone" => inCase' = {},
         UNCHANGED <<files, knew, ask>>
  PROVE  FilesInv'
<1>1. job' \in [Sending -> Job] /\ \A z \in Sending : job'[z] = IF z = s THEN x ELSE job[z]
  BY DEF FilesInv
<1>2. case \in {"none", "draft"} => \A z \in Sending : job'[z].got \subseteq inCase'
  BY <1>1 DEF FilesInv
<1>3. QED
  BY <1>1, <1>2 DEF FilesInv, DiscardIsWhole

LEMMA ServerStep ==
  ASSUME FilesInv, NEW s \in Sending,
         Arrive(s) \/ Empty(s) \/ Answer(s) \/ Drops(s) \/ \E r \in Receipt : Store(s, r)
  PROVE  FilesInv'
<1>1. job[s] \in Job /\ job[s].got \subseteq Receipt /\ job \in [Sending -> Job]
      /\ (case \in {"none", "draft"} => job[s].got \subseteq inCase /\ local \subseteq inCase)
      /\ local \subseteq Receipt /\ inCase \subseteq Receipt /\ (case = "gone" => inCase = {})
  BY DEF FilesInv, Job, DiscardIsWhole
<1>2. CASE Arrive(s) \/ Empty(s)
  <2>1. PICK at \in {"storing", "refused", "done"} : job' = [job EXCEPT ![s].at = at]
    BY <1>2 DEF Arrive, Empty
  <2>2. job' = [job EXCEPT ![s] = [job[s] EXCEPT !.at = at]]
    BY <2>1
  <2>3. [job[s] EXCEPT !.at = at] \in Job /\ [job[s] EXCEPT !.at = at].got = job[s].got
    BY <1>1 DEF Job
  <2>4. UNCHANGED <<case, inCase, local, files, knew, ask>>
    BY <1>2 DEF Arrive, Empty, answers
  <2>5. QED
    BY <1>1, <2>2, <2>3, <2>4, JobStep
<1>3. CASE Answer(s)
  <2>1. job' = [job EXCEPT ![s] = [job[s] EXCEPT !.at = "over"]]
    BY <1>3 DEF Answer
  <2>2. [job[s] EXCEPT !.at = "over"] \in Job /\ [job[s] EXCEPT !.at = "over"].got = job[s].got
    BY <1>1 DEF Job
  <2>3. UNCHANGED <<case, inCase, files, knew, ask>> /\ local' \in {local, local \cup job[s].got}
    BY <1>3 DEF Answer
  <2>4. QED
    BY <1>1, <2>1, <2>2, <2>3, JobStep
<1>4. CASE Drops(s)
  <2> DEFINE x == IF job[s].at = "way" THEN [job[s] EXCEPT !.at = "over"] ELSE job[s]
  <2>1. job' = [job EXCEPT ![s] = x] /\ UNCHANGED <<case, inCase, local, files, knew, ask>>
    BY <1>4 DEF Drops, answers
  <2>2. x \in Job /\ x.got = job[s].got
    BY <1>1 DEF Job
  <2>3. QED
    BY <1>1, <2>1, <2>2, JobStep
<1>5. ASSUME NEW r \in Receipt, Store(s, r)
      PROVE  FilesInv'
  <2> DEFINE open  == case \in {"draft", "deleting"}
             fresh == open /\ r \notin inCase
             at    == IF s[1] \in Receipt
                      THEN IF fresh THEN "done" ELSE IF open THEN "dup" ELSE "refused"
                      ELSE IF job[s].todo = {r} THEN "done" ELSE "storing"
             taken == IF fresh THEN job[s].got \cup {r} ELSE job[s].got
             x     == [job[s] EXCEPT !.todo = job[s].todo \ {r}, !.got = taken, !.at = at]
  <2>1. /\ inCase' = IF fresh THEN inCase \cup {r} ELSE inCase
        /\ UNCHANGED <<case, local, files, knew, ask>>
    BY <1>5 DEF Store, answers
  <2>2. job' = [job EXCEPT ![s] = x]
    BY <1>1, <1>5 DEF Store, Job
  <2>3. at \in {"storing", "done", "refused", "dup"} /\ taken \subseteq Receipt
    BY <1>1
  <2>4. x \in Job /\ x.got = taken
    BY <1>1, <2>3 DEF Job
  <2>5. x.got \subseteq inCase' \/ case \notin {"none", "draft"}
    BY <1>1, <2>1, <2>4
  <2>6. inCase \subseteq inCase' /\ inCase' \subseteq Receipt /\ (case = "gone" => inCase' = {})
    BY <1>1, <2>1
  <2>7. local' \subseteq Receipt /\ (local' \subseteq inCase' \/ case \notin {"none", "draft"})
    BY <1>1, <2>1, <2>6
  <2> HIDE DEF x
  <2>8. QED
    BY <1>1, <2>1, <2>2, <2>4, <2>5, <2>6, <2>7, JobStep
<1>6. QED
  BY <1>2, <1>3, <1>4, <1>5

LEMMA FilesStepsKeep == PageInv /\ FilesInv /\ UploadNext => FilesInv'
<1> SUFFICES ASSUME PageInv, FilesInv, UploadNext PROVE FilesInv'
  OBVIOUS
<1>1. ASSUME NEW i \in Item, NEW t \in SUBSET Receipt, try[i] < MaxSends[i],
             job' = [job EXCEPT ![<<i, try[i] + 1>>] = [NoJob EXCEPT !.at = "way", !.todo = t]],
             case' = case, UNCHANGED <<inCase, answers>>
      PROVE  FilesInv'
  <2>1. <<i, try[i] + 1>> \in Sending
    BY <1>1, SendingIs DEF PageInv
  <2>2. [NoJob EXCEPT !.at = "way", !.todo = t] \in Job /\ [NoJob EXCEPT !.at = "way", !.todo = t].got = {}
    BY DEF NoJob, Job
  <2>3. local' \subseteq Receipt /\ (local' \subseteq inCase' \/ case \notin {"none", "draft"})
        /\ inCase \subseteq inCase' /\ inCase' \subseteq Receipt /\ (case = "gone" => inCase' = {})
        /\ UNCHANGED <<files, knew, ask>>
    BY <1>1 DEF FilesInv, DiscardIsWhole, answers
  <2>4. QED
    BY <1>1, <2>1, <2>2, <2>3, JobStep
<1>2. CASE UNCHANGED <<case, job, inCase, answers>>
  BY <1>2 DEF FilesInv, DiscardIsWhole, answers
<1>3. ASSUME NEW i \in Item, Drop(i) \/ Retry(i) \/ NotPrepared(i)
      PROVE  FilesInv'
  BY <1>2, <1>3 DEF Drop, Retry, NotPrepared
<1>4. ASSUME NEW i \in Item, Prepared(i)
      PROVE  FilesInv'
  <2>1. CASE row[i] = "preparing"
    <3>1. i \in Receipt
      BY <1>4 DEF Prepared, PageInv
    <3>2. try[i] < MaxSends[i]
      BY <2>1 DEF PageInv
    <3>3. /\ job' = [job EXCEPT ![<<i, try[i] + 1>>] = [NoJob EXCEPT !.at = "way", !.todo = {i}]]
          /\ case' = case /\ UNCHANGED <<inCase, answers>> /\ {i} \in SUBSET Receipt
      BY <1>4, <2>1, <3>1 DEF Prepared
    <3>4. QED
      BY <1>1, <3>2, <3>3
  <2>2. CASE row[i] # "preparing"
    BY <1>2, <1>4, <2>2 DEF Prepared
  <2>3. QED
    BY <2>1, <2>2
<1>5. ASSUME NEW i \in Item, Remove(i)
      PROVE  FilesInv'
  BY <1>5 DEF Remove, FilesInv, DiscardIsWhole
<1>6. CASE HasCase
  <2>1. case \in {"none", "draft"} /\ case' = "draft" /\ UNCHANGED <<inCase, answers>>
    BY <1>6 DEF HasCase
  <2>2. CASE UNCHANGED job
    BY <2>1, <2>2 DEF FilesInv, DiscardIsWhole, answers
  <2>3. ASSUME NEW i \in Item, row[i] = "queued", Starts(i), i \in Container
        PROVE  FilesInv'
    <3>1. CASE i \in Receipt
      BY <2>2, <2>3, <3>1 DEF Starts
    <3>2. CASE i \notin Receipt
      <4> DEFINE z == <<i, try[i] + 1>>
                 x == [NoJob EXCEPT !.at = "way", !.todo = Inside[i]]
      <4>1. z \in Sending
        BY <2>3, SendingIs DEF PageInv
      <4>2. x \in Job /\ x.got = {}
        BY <2>3, CaseUploadsAssumption DEF NoJob, Job
      <4>3. job' = [job EXCEPT ![z] = x]
        BY <2>3, <3>2 DEF Starts
      <4>4. job' \in [Sending -> Job] /\ \A y \in Sending : job'[y] = IF y = z THEN x ELSE job[y]
        BY <4>1, <4>2, <4>3 DEF FilesInv
      <4>5. \A y \in Sending : job'[y].got \subseteq inCase
        BY <2>1, <4>2, <4>4 DEF FilesInv
      <4>6. QED
        BY <2>1, <4>4, <4>5 DEF FilesInv, DiscardIsWhole, answers
    <3>3. QED
      BY <3>1, <3>2
  <2>4. ASSUME NEW i \in Item, Starts(i), i \notin Container
        PROVE  FilesInv'
    BY <2>2, <2>4 DEF Starts, Item
  <2>5. QED
    BY <1>6, <2>2, <2>3, <2>4 DEF HasCase
<1>7. CASE NoCase
  BY <1>2, <1>7 DEF NoCase
<1>8. CASE Discard \/ Deleted
  BY <1>8 DEF Discard, Deleted, FilesInv, DiscardIsWhole, answers
<1>9. ASSUME NEW r \in Receipt, Leaves(r)
      PROVE  FilesInv'
  <2>1. /\ case = "draft" /\ UNCHANGED <<case, files>> /\ inCase' = inCase \ {r}
        /\ job' = [s \in Sending |-> [job[s] EXCEPT !.got = job[s].got \ {r}]]
        /\ local' = local \ {r} /\ knew' = knew \ {r} /\ ask' = [ask EXCEPT !.knew = ask.knew \ {r}]
    BY <1>9 DEF Leaves
  <2>2. ASSUME NEW s \in Sending
        PROVE  job'[s] \in Job /\ job'[s].got = job[s].got \ {r}
    <3>1. job[s] \in Job /\ job'[s] = [job[s] EXCEPT !.got = job[s].got \ {r}]
      BY <2>1, <2>2 DEF FilesInv
    <3>2. QED
      BY <3>1 DEF Job
  <2>3. job' \in [Sending -> Job]
    BY <2>1, <2>2
  <2>4. /\ ask' \in [at : {"none", "way", "back"}, files : SUBSET Receipt, knew : SUBSET Receipt]
        /\ ask'.at = ask.at /\ ask'.files = ask.files /\ ask'.knew = ask.knew \ {r}
    BY <2>1 DEF FilesInv
  <2>5. \A s \in Sending : job'[s].got \subseteq inCase'
    BY <2>1, <2>2 DEF FilesInv
  <2>6. QED
    BY <2>1, <2>3, <2>4, <2>5 DEF FilesInv, DiscardIsWhole
<1>10. CASE Ask
  <2>1. /\ case = "draft" /\ ask' = [at |-> "way", files |-> {}, knew |-> local]
        /\ UNCHANGED <<case, job, inCase, local, files, knew>>
    BY <1>10 DEF Ask
  <2>2. QED
    BY <2>1 DEF FilesInv, DiscardIsWhole
<1>11. CASE AskAnswered
  <2>1. /\ ask' = [ask EXCEPT !.at = "back", !.files = inCase]
        /\ UNCHANGED <<case, job, inCase, local, files, knew>>
    BY <1>11 DEF AskAnswered
  <2>2. /\ ask' \in [at : {"none", "way", "back"}, files : SUBSET Receipt, knew : SUBSET Receipt]
        /\ ask'.files = inCase /\ ask'.knew = ask.knew
    BY <2>1 DEF FilesInv
  <2>3. QED
    BY <2>1, <2>2 DEF FilesInv, DiscardIsWhole
<1>12. CASE Taken
  <2>1. /\ ask.at = "back" /\ ask' = NoAsk /\ files' = ask.files /\ knew' = ask.knew
        /\ UNCHANGED <<case, job, inCase, local>>
    BY <1>12 DEF Taken, KnewThen
  <2>2. /\ ask' \in [at : {"none", "way", "back"}, files : SUBSET Receipt, knew : SUBSET Receipt]
        /\ ask'.at = "none" /\ ask'.knew = {}
    BY <2>1 DEF NoAsk
  <2>3. QED
    BY <2>1, <2>2 DEF FilesInv, DiscardIsWhole
<1>13. QED
  BY <1>3, <1>4, <1>5, <1>6, <1>7, <1>8, <1>9, <1>10, <1>11, <1>12, ServerStep DEF UploadNext

LEMMA UploadInvInit == UploadInit => UploadInv
<1> SUFFICES ASSUME UploadInit PROVE UploadInv
  OBVIOUS
<1>1. /\ case = "none" /\ row = [i \in Item |-> "none"] /\ held = {} /\ pumping = FALSE
      /\ run = [i \in Item |-> "none"] /\ try = [i \in Item |-> 0]
      /\ job = [s \in Sending |-> NoJob]
      /\ inCase = {} /\ local = {} /\ files = {} /\ knew = {} /\ ask = NoAsk
  BY DEF UploadInit
<1>2. {i \in Item : run[i] # "none"} = {}
  BY <1>1
<1>3. Active(run) = 0
  BY <1>2, FS_EmptySet DEF Active
<1>4. NoneForgotten /\ HeldWhileNeeded
  BY <1>1, <1>3, CaseUploadsAssumption DEF NoneForgotten, HeldWhileNeeded, Busy
<1>5. \A i \in Item : MaxSends[i] \in Nat \ {0}
  BY CaseUploadsAssumption DEF Item
<1>6. PageInv
  <2>1. row \in [Item -> RowState] /\ run \in [Item -> RunState] /\ try \in [Item -> Nat]
    BY <1>1 DEF RowState, RunState
  <2>2. \A i \in Item : row[i] = "none" /\ run[i] = "none" /\ try[i] = 0
    BY <1>1
  <2>3. \A i \in Item :
          /\ try[i] <= MaxSends[i] /\ try[i] < MaxSends[i]
          /\ run[i] # "preparing" /\ row[i] # "preparing" /\ (run[i] = "sending" <=> row[i] = "uploading")
    BY <1>5, <2>2
  <2>4. held \subseteq Item /\ pumping = FALSE
    BY <1>1
  <2>5. QED
    BY <1>4, <2>1, <2>3, <2>4 DEF PageInv
<1>7. NoJob \in Job /\ NoJob.got = {} /\ NoAsk.knew = {} /\ NoAsk.at = "none"
      /\ NoAsk \in [at : {"none", "way", "back"}, files : SUBSET Receipt, knew : SUBSET Receipt]
  BY DEF NoJob, Job, NoAsk
<1>8. FilesInv
  BY <1>1, <1>7 DEF FilesInv, DiscardIsWhole
<1>9. QED
  BY <1>6, <1>8 DEF UploadInv

\* A file that waits is waited for and held, no more than the slots are at
\* work, what this page put in the case is in its list, and a discarded case
\* keeps nothing, for any files, containers and slots (useUploader.js,
\* intake-logic.js mergeRows, routes/receipts.js).
THEOREM UploadsStayHeld == UploadSpec => []UploadsHold
<1>1. UploadInv /\ [UploadNext]_uploadVars => UploadInv'
  <2>1. ASSUME UploadInv, UNCHANGED uploadVars
        PROVE  UploadInv'
    BY <2>1 DEF UploadInv, PageInv, FilesInv, NoneForgotten, HeldWhileNeeded, DiscardIsWhole, uploadVars
  <2>2. QED
    BY <2>1, PageStepsKeep, FilesStepsKeep DEF UploadInv
<1>2. UploadInv => UploadsHold
  <2> SUFFICES ASSUME UploadInv PROVE UploadsHold
    OBVIOUS
  <2>1. \A i \in Item : try[i] \in 0..MaxSends[i]
    BY CaseUploadsAssumption DEF UploadInv, PageInv, Item
  <2>2. UploadTypeOK
    BY <2>1 DEF UploadInv, PageInv, FilesInv, UploadTypeOK, RowState, RunState, Job
  <2>3. EveryFileListed
    BY DEF EveryFileListed, UploadInv, FilesInv, Listed
  <2>4. QED
    BY <2>2, <2>3 DEF UploadInv, PageInv, FilesInv, UploadsHold
<1>3. QED
  BY UploadInvInit, <1>1, <1>2, PTL DEF UploadSpec

-----------------------------------------------------------------------------
(* A trip's cover.                                                          *)

\* What the person last said of a field: typed and unsaved, on its way as
\* typed, or saved and theirs.
Said(f) ==
  mine[f] # Unsaid =>
    /\ f \in dirty => values[f] = mine[f]
    /\ f \notin dirty /\ f \in sending =>
         /\ values[f] = mine[f] /\ patch.values[f] = mine[f]
         /\ patch.at = "saved" => cover[f] = mine[f] /\ f \in user
    /\ f \notin dirty /\ f \notin sending => cover[f] = mine[f] /\ f \in user

\* A save is on its way with what the page waits for, and only once there is
\* a case; a new case's form is the new form.
FormInv ==
  /\ sending = patch.fields
  /\ patch.at = "none" => patch = NoPatch
  /\ form = "new" <=> status \in {"none", "draft"}
  /\ status = "none" => patch = NoPatch /\ ~poll.is /\ \A f \in Field : mine[f] # Unsaid => f \in dirty
  /\ making.is => status = "none"
  /\ form = "saving" => dirty \subseteq late

CoverInv == CoverTypeOK /\ FormInv /\ (\A f \in Field : Said(f)) /\ OneHand /\ DoneIsSaved

LEMMA CoverBasics ==
  /\ WidenDays \in Nat /\ MaxDay \in Nat \ {0} /\ Day \subseteq 1..MaxDay
  /\ Blank \in [Field -> Value] /\ Unsaid \notin Value /\ Unsaid \in 0..Unsaid /\ Value \subseteq 0..Unsaid /\ 0 \in Value
  /\ Typed \subseteq Value /\ DraftField = Field /\ OpenField \subseteq Field
BY CaseCoverAssumption DEF Blank, Value, Unsaid, Typed, Field, DraftField, OpenField

LEMMA MaxMin ==
  ASSUME NEW S, S \subseteq 1..MaxDay, S # {}
  PROVE  Max(S) \in S /\ Min(S) \in S
<1>0. MaxDay \in Nat /\ S \in SUBSET Nat /\ S \in SUBSET (0..MaxDay)
  BY CaseCoverAssumption
<1>1. \E x \in S : \A y \in S : x <= y
  BY <1>0, LeastOfSome
<1>2. \E x \in S : \A y \in S : x >= y
  <2>1. PICK x \in S : \A y \in S : y <= x
    BY <1>0, LatestOfSome
  <2> QED BY <1>0, <2>1
<1>3. Max(S) \in S
  BY <1>2 DEF Max
<1>4. Min(S) \in S
  BY <1>1 DEF Min
<1>5. QED
  BY <1>3, <1>4

LEMMA SuggestedDays ==
  ASSUME NEW S, S \subseteq Day, S # {}
  PROVE  \A f \in Field : Suggested(S)[f] \in Value /\ Suggested(S)[f] # 0
<1>1. S \subseteq 1..MaxDay
  BY CoverBasics
<1>2. Max(S) \in 1..MaxDay /\ Min(S) \in 1..MaxDay
  BY <1>1, MaxMin
<1>3. \A f \in Field : Suggested(S)[f] \in {Max(S), Min(S)}
  BY CoverBasics DEF Suggested
<1>4. QED
  BY <1>2, <1>3, CoverBasics DEF Value

LEMMA TargetDays ==
  ASSUME NEW c \in [Field -> Value], NEW owned, NEW ds, ds \subseteq Day, ds # {}
  PROVE  \A f \in OpenField : OpenTarget(c, owned, ds)[f] \in Value /\ OpenTarget(c, owned, ds)[f] # 0
<1>1. Near(c, ds) \subseteq Day
  BY DEF Near
<1>2. ASSUME NEW f \in OpenField
      PROVE  OpenTarget(c, owned, ds)[f] \in Value /\ OpenTarget(c, owned, ds)[f] # 0
  <2> f \in Field /\ c[f] \in Value
    BY CoverBasics
  <2>1. CASE c[f] = 0
    BY <2>1, SuggestedDays DEF OpenTarget
  <2>2. CASE c[f] # 0 /\ OpenTarget(c, owned, ds)[f] = c[f]
    BY <2>2
  <2>3. CASE c[f] # 0 /\ Near(c, ds) # {} /\ OpenTarget(c, owned, ds)[f] = Suggested(Near(c, ds))[f]
    BY <1>1, <2>3, SuggestedDays
  <2>4. QED
    BY <2>1, <2>2, <2>3 DEF OpenTarget
<1>3. QED
  BY <1>2

\* Refresh, over any cover and owners: d and a are what they become.
Refreshed(st, c, au, us, ds, d, a) ==
  IF ds = {} THEN d = c /\ a = au
  ELSE LET w == Writes(st, c, au, us)
           target == IF st = "open" THEN OpenTarget(c, au, ds) ELSE Suggested(ds) IN
       /\ d = [f \in Field |-> IF f \in w THEN target[f] ELSE c[f]]
       /\ a = (au \ us) \cup w

\* The AI's fields hold something, or are given something now;
MayWrite(c, au, us, ds) ==
  /\ \A f \in au \ us : c[f] # 0 \/ (f \in OpenField /\ ds # {})
  /\ ds = {} => au \cap us = {}

\* what it writes is never a field of the person's, and never nothing.
WellWritten(c, us, d, a) ==
  /\ d \in [Field -> Value] /\ a \subseteq Field
  /\ a \cap us = {}
  /\ \A f \in a : d[f] # 0
  /\ \A f \in us : d[f] = c[f]

LEMMA RefreshKeeps ==
  ASSUME NEW st \in {"draft", "open"}, NEW c \in [Field -> Value], NEW au \in SUBSET Field, NEW us \in SUBSET Field,
         NEW ds \in SUBSET Day, NEW d, NEW a, Refreshed(st, c, au, us, ds, d, a), MayWrite(c, au, us, ds)
  PROVE  WellWritten(c, us, d, a)
<1> USE CoverBasics DEF MayWrite, WellWritten
<1>1. CASE ds = {}
  BY <1>1 DEF Refreshed
<1>2. CASE ds # {}
  <2> DEFINE w == Writes(st, c, au, us)
             target == IF st = "open" THEN OpenTarget(c, au, ds) ELSE Suggested(ds)
  <2>1. /\ d = [f \in Field |-> IF f \in w THEN target[f] ELSE c[f]]
        /\ a = (au \ us) \cup w
    BY <1>2 DEF Refreshed
  <2>2. w \subseteq Field /\ w \cap us = {}
    BY DEF Writes
  <2>3. \A f \in w : target[f] \in Value /\ target[f] # 0
    <3>1. CASE st = "open"
      <4>1. w \subseteq OpenField
        BY <3>1 DEF Writes
      <4>2. QED
        BY <1>2, <3>1, <4>1, TargetDays
    <3>2. CASE st # "open"
      BY <1>2, <2>2, <3>2, SuggestedDays
    <3>3. QED
      BY <3>1, <3>2
  <2>4. \A f \in au \ us : f \notin w => c[f] # 0
    <3>1. CASE st = "open"
      BY <3>1 DEF Writes
    <3>2. CASE st = "draft"
      BY <3>2 DEF Writes
    <3>3. QED
      BY <3>1, <3>2
  <2> HIDE DEF w, target
  <2>5. d \in [Field -> Value] /\ \A f \in Field : d[f] = IF f \in w THEN target[f] ELSE c[f]
    BY <2>1, <2>3
  <2>6. QED
    BY <2>1, <2>2, <2>3, <2>4, <2>5
<1>3. QED
  BY <1>1, <1>2

LEMMA CoverInvInit == CoverInit => CoverInv
<1> SUFFICES ASSUME CoverInit PROVE CoverInv
  OBVIOUS
<1>1. /\ status = "none" /\ cover = Blank /\ auto = {} /\ user = {} /\ days = {}
      /\ values = Blank /\ dirty = {} /\ sending = {} /\ due = FALSE
      /\ patch = NoPatch /\ poll = NoPoll /\ form = "new" /\ making = NotMaking
      /\ mine = [f \in Field |-> Unsaid] /\ late = {}
      /\ moves = 0 /\ changes = 0
  BY DEF CoverInit
<1>2. CoverTypeOK
  <2>1. /\ NoPatch \in [at : {"none", "way", "saved", "failed"}, fields : SUBSET Field, values : [Field -> Value]]
        /\ NoPoll \in [is : BOOLEAN, cover : [Field -> Value], saved : SUBSET Field]
        /\ NotMaking \in [is : BOOLEAN, fields : SUBSET Field, values : [Field -> Value]]
    BY CoverBasics DEF NoPatch, NoPoll, NotMaking
  <2>2. 0 \in 0..MaxMoves /\ 0 \in 0..MaxChanges
    BY CaseCoverAssumption
  <2>3. mine \in [Field -> 0..Unsaid]
    BY <1>1, CoverBasics
  <2>4. QED
    BY <1>1, <2>1, <2>2, <2>3, CoverBasics DEF CoverTypeOK
<1>3. FormInv
  BY <1>1 DEF FormInv, NoPatch, NoPoll, NotMaking
<1>4. (\A f \in Field : Said(f)) /\ OneHand /\ DoneIsSaved
  BY <1>1 DEF Said, OneHand, DoneIsSaved
<1>5. QED
  BY <1>2, <1>3, <1>4 DEF CoverInv

\* What the AI writes.
LEMMA AutoStep ==
  ASSUME CoverInv, \/ \E ds \in SUBSET Day : ReceiptsMove(ds)
                   \/ \E fs \in {OpenField, {"periodTo"}} : HandBack(fs)
  PROVE  CoverInv'
<1> USE CoverBasics
<1>1. cover \in [Field -> Value] /\ auto \subseteq Field /\ user \subseteq Field /\ auto \cap user = {}
      /\ \A f \in auto : cover[f] # 0
  BY DEF CoverInv, CoverTypeOK, OneHand
<1>2. ASSUME NEW ds \in SUBSET Day, ReceiptsMove(ds)
      PROVE  CoverInv'
  <2>1. /\ status \in {"draft", "open"} /\ days' = ds /\ moves < MaxMoves /\ moves' = moves + 1
        /\ Refresh(cover, auto, user, ds) /\ UNCHANGED <<status, user, formVars, mine, late, changes>>
    BY <1>2 DEF ReceiptsMove
  <2>2. /\ cover' \in [Field -> Value] /\ auto' \subseteq Field
        /\ auto' \cap user = {}
        /\ \A f \in auto' : cover'[f] # 0
        /\ \A f \in user : cover'[f] = cover[f]
    <3>1. MayWrite(cover, auto, user, ds)
      BY <1>1 DEF MayWrite
    <3>2. Refreshed(status, cover, auto, user, ds, cover', auto')
      BY <2>1 DEF Refresh, Refreshed
    <3>3. WellWritten(cover, user, cover', auto')
      BY <1>1, <2>1, <3>1, <3>2, RefreshKeeps
    <3>4. QED
      BY <3>3 DEF WellWritten
  <2>3. moves' \in 0..MaxMoves
    BY <2>1, CaseCoverAssumption DEF CoverInv, CoverTypeOK
  <2>4. CoverTypeOK' /\ OneHand'
    BY <2>1, <2>2, <2>3 DEF CoverInv, CoverTypeOK, OneHand, formVars
  <2>5. FormInv' /\ DoneIsSaved'
    BY <2>1 DEF CoverInv, FormInv, DoneIsSaved, formVars
  <2>6. \A f \in Field : Said(f)'
    BY <2>1, <2>2 DEF CoverInv, Said, formVars
  <2>7. QED
    BY <2>4, <2>5, <2>6 DEF CoverInv
<1>3. ASSUME NEW fs \in {OpenField, {"periodTo"}}, HandBack(fs)
      PROVE  CoverInv'
  <2>1. /\ form = "closed" /\ status = "open" /\ days # {} /\ days \subseteq Day
        /\ user' = user \ fs /\ mine' = [f \in Field |-> IF f \in fs THEN Unsaid ELSE mine[f]]
        /\ Refresh(cover, auto \cup fs, user \ fs, days) /\ fs \subseteq OpenField
        /\ UNCHANGED <<status, days, formVars, late, moves, changes>>
    BY <1>3 DEF HandBack, CoverInv, CoverTypeOK, OpenField
  <2>2. /\ cover' \in [Field -> Value] /\ auto' \subseteq Field
        /\ auto' \cap user' = {}
        /\ \A f \in auto' : cover'[f] # 0
        /\ \A f \in user' : cover'[f] = cover[f]
    <3>1. MayWrite(cover, auto \cup fs, user \ fs, days)
      BY <1>1, <2>1 DEF MayWrite
    <3>2. auto \cup fs \in SUBSET Field /\ user \ fs \in SUBSET Field /\ days \in SUBSET Day
      BY <1>1, <2>1
    <3>3. Refreshed(status, cover, auto \cup fs, user \ fs, days, cover', auto')
      BY <2>1 DEF Refresh, Refreshed
    <3>4. WellWritten(cover, user \ fs, cover', auto')
      BY <1>1, <2>1, <3>1, <3>2, <3>3, RefreshKeeps
    <3>5. QED
      BY <2>1, <3>4 DEF WellWritten
  <2>3. mine' \in [Field -> 0..Unsaid]
    BY <2>1 DEF CoverInv, CoverTypeOK
  <2>4. CoverTypeOK' /\ OneHand'
    BY <2>1, <2>2, <2>3 DEF CoverInv, CoverTypeOK, OneHand, formVars
  <2>5. FormInv' /\ DoneIsSaved'
    BY <2>1 DEF CoverInv, FormInv, DoneIsSaved, formVars
  <2>6. ASSUME NEW f \in Field, mine'[f] # Unsaid
        PROVE  mine[f] # Unsaid /\ mine'[f] = mine[f] /\ (f \in user => f \in user')
    BY <2>1, <2>6
  <2>7. \A f \in Field : Said(f)'
    BY <2>1, <2>2, <2>6 DEF CoverInv, Said, formVars
  <2>8. QED
    BY <2>4, <2>5, <2>7 DEF CoverInv
<1>4. QED
  BY <1>2, <1>3

PatchSet  == [at : {"none", "way", "saved", "failed"}, fields : SUBSET Field, values : [Field -> Value]]
PollSet   == [is : BOOLEAN, cover : [Field -> Value], saved : SUBSET Field]
MakingSet == [is : BOOLEAN, fields : SUBSET Field, values : [Field -> Value]]

LEMMA NothingOnItsWay == NoPatch \in PatchSet /\ NoPatch.fields = {} /\ NoPatch.at = "none" /\ NoPoll \in PollSet /\ ~NoPoll.is
                         /\ NotMaking \in MakingSet /\ ~NotMaking.is
BY CoverBasics DEF NoPatch, PatchSet, NoPoll, PollSet, NotMaking, MakingSet

LEMMA ChangeStep ==
  ASSUME CoverInv, NEW f \in Field, NEW v \in Typed, Change(f, v)
  PROVE  CoverInv'
<1> USE CoverBasics
<1>1. /\ form # "closed" /\ changes < MaxChanges /\ changes' = changes + 1
      /\ values' = [values EXCEPT ![f] = v] /\ mine' = [mine EXCEPT ![f] = v] /\ dirty' = dirty \cup {f}
      /\ due' = (status # "none")
      /\ late' = IF form \in {"waiting", "saving"} THEN late \cup {f} ELSE late
      /\ UNCHANGED <<status, cover, auto, user, days, sending, patch, poll, form, making, moves>>
  BY DEF Change, caseVars
<1>2. v \in Value /\ v # Unsaid /\ v \in 0..Unsaid
  OBVIOUS
<1>3. changes' \in 0..MaxChanges
  BY <1>1, CaseCoverAssumption DEF CoverInv, CoverTypeOK
<1>4. values' \in [Field -> Value] /\ mine' \in [Field -> 0..Unsaid]
  BY <1>1, <1>2 DEF CoverInv, CoverTypeOK
<1>5. CoverTypeOK'
  BY <1>1, <1>3, <1>4 DEF CoverInv, CoverTypeOK
<1>6. \A g \in Field : g # f => values'[g] = values[g] /\ mine'[g] = mine[g]
  BY <1>1 DEF CoverInv, CoverTypeOK
<1>7. values'[f] = v /\ mine'[f] = v /\ f \in dirty'
  BY <1>1 DEF CoverInv, CoverTypeOK
<1>8. FormInv'
  BY <1>1, <1>6, <1>7 DEF CoverInv, FormInv
<1>9. \A g \in Field : Said(g)'
  BY <1>1, <1>6, <1>7 DEF CoverInv, Said
<1>10. OneHand' /\ DoneIsSaved'
  BY <1>1 DEF CoverInv, OneHand, DoneIsSaved
<1>11. QED
  BY <1>5, <1>8, <1>9, <1>10 DEF CoverInv

LEMMA SendStep ==
  ASSUME CoverInv, TimedSend \/ FlushSends
  PROVE  CoverInv'
<1> USE CoverBasics
<1>1. /\ patch = NoPatch /\ status # "none" /\ sending' = dirty /\ dirty' = {} /\ due' = FALSE
      /\ patch' = [at |-> "way", fields |-> dirty, values |-> values]
      /\ form' \in {form, "saving"} /\ (form' # form => form = "waiting")
      /\ UNCHANGED <<status, cover, auto, user, days, values, poll, making, mine, late, moves, changes>>
  BY DEF TimedSend, FlushSends, Send, caseVars, CoverInv, FormInv
<1>2. CoverTypeOK'
  <2>1. patch' \in [at : {"none", "way", "saved", "failed"}, fields : SUBSET Field, values : [Field -> Value]]
    BY <1>1 DEF CoverInv, CoverTypeOK
  <2>2. QED
    BY <1>1, <2>1 DEF CoverInv, CoverTypeOK
<1>3. FormInv'
  BY <1>1 DEF CoverInv, FormInv
<1>4. sending = {}
  BY <1>1, NothingOnItsWay DEF CoverInv, FormInv
<1>5. \A f \in Field : Said(f)'
  BY <1>1, <1>4 DEF CoverInv, Said
<1>6. OneHand' /\ DoneIsSaved'
  BY <1>1 DEF CoverInv, OneHand, DoneIsSaved
<1>7. QED
  BY <1>2, <1>3, <1>5, <1>6 DEF CoverInv

LEMMA ArrivesStep ==
  ASSUME CoverInv, PatchLost \/ \E answer \in {"saved", "failed"} : PatchArrives(answer)
  PROVE  CoverInv'
<1> USE CoverBasics
<1>1. /\ patch.at = "way" /\ patch \in PatchSet /\ cover \in [Field -> Value] /\ user \subseteq Field /\ auto \subseteq Field
      /\ status # "none"
  <2>1. patch # NoPatch
    BY NothingOnItsWay DEF PatchLost, PatchArrives
  <2>2. QED
    BY <2>1 DEF PatchLost, PatchArrives, CoverInv, CoverTypeOK, FormInv, PatchSet
<1>2. PICK at \in {"saved", "failed"} :
        /\ patch' = [patch EXCEPT !.at = at]
        /\ \/ cover' = cover /\ user' = user /\ auto' = auto /\ at = "failed"
           \/ /\ cover' = [f \in Field |-> IF f \in patch.fields THEN patch.values[f] ELSE cover[f]]
              /\ user' = user \cup patch.fields /\ auto' = auto \ patch.fields
  <2>1. CASE PatchLost
    <3>1. /\ patch' = [patch EXCEPT !.at = "failed"]
          /\ cover' = cover /\ user' = user /\ auto' = auto
      BY <2>1 DEF PatchLost, caseVars
    <3>2. QED
      BY <3>1
  <2>2. ASSUME NEW answer \in {"saved", "failed"}, PatchArrives(answer)
        PROVE  \E at \in {"saved", "failed"} :
                 /\ patch' = [patch EXCEPT !.at = at]
                 /\ \/ cover' = cover /\ user' = user /\ auto' = auto /\ at = "failed"
                    \/ /\ cover' = [f \in Field |-> IF f \in patch.fields THEN patch.values[f] ELSE cover[f]]
                       /\ user' = user \cup patch.fields /\ auto' = auto \ patch.fields
    <3>1. patch.fields \cap DraftField = patch.fields
      BY <1>1 DEF PatchSet
    <3>2. CASE status \in {"draft", "open"}
      BY <2>2, <3>1, <3>2 DEF PatchArrives
    <3>3. CASE status \notin {"draft", "open"}
      BY <2>2, <3>3 DEF PatchArrives
    <3>4. QED
      BY <3>2, <3>3
  <2>3. QED
    BY <2>1, <2>2
<1>3. UNCHANGED <<status, days, values, dirty, sending, due, poll, form, making, mine, late, moves, changes>>
  BY DEF PatchLost, PatchArrives, caseVars
<1>4. patch' \in PatchSet /\ patch'.at = at /\ patch'.fields = patch.fields /\ patch'.values = patch.values
  BY <1>1, <1>2 DEF PatchSet
<1>5. /\ cover' \in [Field -> Value] /\ user' \subseteq Field /\ auto' \subseteq Field
      /\ \A f \in Field : \/ cover'[f] = cover[f] /\ (f \in user' <=> f \in user) /\ (f \in auto' <=> f \in auto)
                             /\ (f \in patch.fields => at = "failed")
                          \/ cover'[f] = patch.values[f] /\ f \in patch.fields /\ f \in user' /\ f \notin auto'
  <2>1. CASE cover' = cover /\ user' = user /\ auto' = auto /\ at = "failed"
    BY <1>1, <2>1
  <2>2. CASE /\ cover' = [f \in Field |-> IF f \in patch.fields THEN patch.values[f] ELSE cover[f]]
             /\ user' = user \cup patch.fields /\ auto' = auto \ patch.fields
    BY <1>1, <2>2 DEF PatchSet
  <2>3. QED
    BY <1>2, <2>1, <2>2
<1>6. CoverTypeOK'
  BY <1>3, <1>4, <1>5 DEF CoverInv, CoverTypeOK, PatchSet
<1>7. FormInv'
  BY <1>1, <1>3, <1>4 DEF CoverInv, FormInv
<1>8. sending = patch.fields
  BY DEF CoverInv, FormInv
<1>9. ASSUME NEW f \in Field
      PROVE  Said(f)'
  BY <1>1, <1>3, <1>4, <1>5, <1>8 DEF CoverInv, Said
<1>10. OneHand' /\ DoneIsSaved'
  BY <1>3, <1>5 DEF CoverInv, OneHand, DoneIsSaved
<1>11. QED
  BY <1>6, <1>7, <1>9, <1>10 DEF CoverInv

LEMMA PatchAnsweredStep ==
  ASSUME CoverInv, NEW b \in BOOLEAN, PatchAnswered(b)
  PROVE  CoverInv'
<1> USE CoverBasics
<1>1. /\ patch' = NoPatch /\ sending' = {} /\ patch.at \in {"saved", "failed"} /\ patch \in PatchSet /\ poll \in PollSet
      /\ UNCHANGED <<status, cover, auto, user, days, values, making, mine, late, moves, changes>>
      /\ sending = patch.fields
  BY DEF PatchAnswered, caseVars, CoverInv, CoverTypeOK, FormInv, PatchSet, PollSet
<1>2. status # "none"
  BY <1>1, NothingOnItsWay DEF CoverInv, FormInv
<1>3. CASE patch.at = "saved"
  <2>1. /\ poll' = [poll EXCEPT !.saved = poll.saved \cup patch.fields] /\ UNCHANGED <<dirty, due>>
        /\ form' = IF form = "saving" THEN "closed" ELSE form
    BY <1>3 DEF PatchAnswered
  <2>2. poll' \in PollSet
    BY <1>1, <2>1 DEF PollSet, PatchSet
  <2>3. CoverTypeOK'
    BY <1>1, <2>1, <2>2, NothingOnItsWay DEF CoverInv, CoverTypeOK, PollSet, PatchSet
  <2>4. FormInv'
    BY <1>1, <1>2, <2>1, NothingOnItsWay DEF CoverInv, FormInv
  <2>5. \A f \in Field : Said(f)'
    BY <1>1, <1>3, <2>1 DEF CoverInv, Said
  <2>6. OneHand' /\ DoneIsSaved'
    BY <1>1, <2>1 DEF CoverInv, OneHand, DoneIsSaved, FormInv
  <2>7. QED
    BY <2>3, <2>4, <2>5, <2>6 DEF CoverInv
<1>4. CASE patch.at = "failed"
  <2>1. /\ dirty' = dirty \cup patch.fields /\ due' = (due /\ b) /\ UNCHANGED poll
        /\ form' = IF form \in {"waiting", "saving"} THEN "open" ELSE form
    BY <1>1, <1>4 DEF PatchAnswered
  <2>2. CoverTypeOK'
    BY <1>1, <2>1, NothingOnItsWay DEF CoverInv, CoverTypeOK, PatchSet
  <2>3. FormInv'
    BY <1>1, <1>2, <2>1, NothingOnItsWay DEF CoverInv, FormInv
  <2>4. \A f \in Field : Said(f)'
    BY <1>1, <1>4, <2>1 DEF CoverInv, Said
  <2>5. OneHand' /\ DoneIsSaved'
    BY <1>1, <2>1 DEF CoverInv, OneHand, DoneIsSaved, FormInv
  <2>6. QED
    BY <2>2, <2>3, <2>4, <2>5 DEF CoverInv
<1>5. QED
  BY <1>1, <1>3, <1>4

LEMMA PollStep ==
  ASSUME CoverInv, PollRead \/ \E inside \in {{}} \cup {{f} : f \in Field} : PollLands(inside)
  PROVE  CoverInv'
<1> USE CoverBasics
<1>1. CASE PollRead
  <2>1. /\ poll' = [is |-> TRUE, cover |-> cover, saved |-> {}] /\ status # "none"
        /\ UNCHANGED <<status, cover, auto, user, days, values, dirty, sending, due, patch, form, making, mine, late, moves, changes>>
    BY <1>1 DEF PollRead, caseVars
  <2>2. poll' \in PollSet
    BY <2>1 DEF CoverInv, CoverTypeOK, PollSet
  <2>3. QED
    BY <2>1, <2>2 DEF CoverInv, CoverTypeOK, PollSet, FormInv, Said, OneHand, DoneIsSaved
<1>2. ASSUME NEW inside, PollLands(inside)
      PROVE  CoverInv'
  <2>1. /\ poll.is /\ values' = [f \in Field |-> IF Lands(f) /\ f \notin inside THEN poll.cover[f] ELSE values[f]]
        /\ poll' = NoPoll
        /\ UNCHANGED <<status, cover, auto, user, days, dirty, sending, due, patch, form, making, mine, late, moves, changes>>
    BY <1>2 DEF PollLands, caseVars
  <2>2. values' \in [Field -> Value] /\ \A f \in Field : f \in dirty \cup sending => values'[f] = values[f]
    BY <2>1 DEF CoverInv, CoverTypeOK, Lands
  <2>3. CoverTypeOK'
    BY <2>1, <2>2, NothingOnItsWay DEF CoverInv, CoverTypeOK, PollSet
  <2>4. FormInv' /\ OneHand' /\ DoneIsSaved'
    BY <2>1, NothingOnItsWay DEF CoverInv, FormInv, OneHand, DoneIsSaved
  <2>5. \A f \in Field : Said(f)'
    BY <2>1, <2>2 DEF CoverInv, Said
  <2>6. QED
    BY <2>3, <2>4, <2>5 DEF CoverInv
<1>3. QED
  BY <1>1, <1>2

\* Making the draft: what was typed goes with it.
LEMMA MakingStep ==
  ASSUME CoverInv, MakeDraft \/ DraftNotMade
  PROVE  CoverInv'
<1> USE CoverBasics
<1>1. /\ making' \in MakingSet /\ (making'.is => status = "none")
      /\ UNCHANGED <<status, cover, auto, user, days, values, dirty, sending, due, patch, poll, form, mine, late, moves, changes>>
  <2>1. CASE MakeDraft
    <3>1. making' = [is |-> TRUE, fields |-> dirty, values |-> values] /\ status = "none"
      BY <2>1 DEF MakeDraft
    <3>2. making' \in MakingSet
      BY <3>1 DEF CoverInv, CoverTypeOK, MakingSet
    <3>3. QED
      BY <2>1, <3>1, <3>2 DEF MakeDraft, caseVars
  <2>2. CASE DraftNotMade
    BY <2>2, NothingOnItsWay DEF DraftNotMade, caseVars
  <2>3. QED
    BY <2>1, <2>2
<1>2. QED
  BY <1>1 DEF CoverInv, CoverTypeOK, MakingSet, FormInv, Said, OneHand, DoneIsSaved

LEMMA DraftMadeStep ==
  ASSUME CoverInv, DraftMade
  PROVE  CoverInv'
<1> USE CoverBasics
<1>1. /\ making.is /\ making \in MakingSet /\ status = "none" /\ patch = NoPatch /\ ~poll.is
      /\ sending = {} /\ form = "new"
      /\ \A f \in Field : mine[f] # Unsaid => f \in dirty
      /\ mine \in [Field -> 0..Unsaid] /\ values \in [Field -> Value] /\ dirty \subseteq Field
  BY NothingOnItsWay DEF DraftMade, CoverInv, CoverTypeOK, MakingSet, FormInv
<1> DEFINE given == making.fields
           vals == making.values
<1>2. /\ status' = "draft" /\ cover' = [f \in Field |-> IF f \in given THEN vals[f] ELSE 0]
      /\ user' = {f \in given \cap DraftField : vals[f] # 0}
      /\ mine' = [f \in Field |-> IF f \in given /\ vals[f] = 0 /\ mine[f] = 0 THEN Unsaid ELSE mine[f]]
      /\ auto' = {} /\ dirty' = dirty \ AdoptedFields /\ due' = (dirty' # {}) /\ making' = NotMaking
      /\ UNCHANGED <<days, values, sending, patch, poll, form, late, moves, changes>>
  BY DEF DraftMade, Created
<1>3. given \subseteq Field /\ vals \in [Field -> Value]
  BY <1>1 DEF MakingSet
<1>4. /\ cover' \in [Field -> Value] /\ mine' \in [Field -> 0..Unsaid] /\ user' \subseteq Field
      /\ dirty' \subseteq Field
  <2>1. cover' \in [Field -> Value]
    BY <1>2, <1>3
  <2>2. mine' \in [Field -> 0..Unsaid]
    BY <1>1, <1>2
  <2>3. QED
    BY <1>1, <1>2, <1>3, <2>1, <2>2
<1>5. CoverTypeOK'
  BY <1>2, <1>4, NothingOnItsWay DEF CoverInv, CoverTypeOK, MakingSet
<1>6. FormInv'
  BY <1>1, <1>2, NothingOnItsWay DEF CoverInv, FormInv
<1>7. ASSUME NEW f \in Field
      PROVE  Said(f)'
  <2>1. CASE mine'[f] = Unsaid
    BY <2>1 DEF Said
  <2>2. CASE mine'[f] # Unsaid
    <3>1. mine[f] # Unsaid /\ mine'[f] = mine[f] /\ f \in dirty
      BY <1>1, <1>2, <2>2
    <3>2. values[f] = mine[f]
      BY <3>1 DEF CoverInv, Said
    <3>3. CASE f \in AdoptedFields
      <4>1. f \in given /\ vals[f] = mine[f]
        BY <3>2, <3>3 DEF AdoptedFields
      <4>2. vals[f] # 0
        BY <1>2, <2>2, <3>1, <4>1
      <4>3. cover'[f] = mine'[f] /\ f \in user' /\ f \notin dirty' /\ f \notin sending'
        BY <1>1, <1>2, <3>1, <3>3, <4>1, <4>2
      <4>4. QED
        BY <4>3 DEF Said
    <3>4. CASE f \notin AdoptedFields
      <4>1. f \in dirty' /\ values'[f] = mine'[f]
        BY <1>2, <3>1, <3>2, <3>4
      <4>2. QED
        BY <4>1 DEF Said
    <3>5. QED
      BY <3>3, <3>4
  <2>3. QED
    BY <2>1, <2>2
<1>8. OneHand' /\ DoneIsSaved'
  BY <1>1, <1>2 DEF OneHand, DoneIsSaved
<1>9. QED
  BY <1>5, <1>6, <1>7, <1>8 DEF CoverInv

LEMMA CreateOpenStep ==
  ASSUME CoverInv, CreateOpen
  PROVE  CoverInv'
<1> USE CoverBasics
<1>1. /\ status = "none" /\ ~making.is /\ patch = NoPatch /\ sending = {} /\ ~poll.is
      /\ \A f \in Field : mine[f] # Unsaid => f \in dirty
      /\ mine \in [Field -> 0..Unsaid] /\ values \in [Field -> Value] /\ dirty \subseteq Field
  BY NothingOnItsWay DEF CreateOpen, CoverInv, CoverTypeOK, FormInv
<1>2. /\ status' = "open" /\ cover' = [f \in Field |-> IF f \in dirty THEN values[f] ELSE 0]
      /\ user' = {f \in dirty \cap DraftField : values[f] # 0}
      /\ mine' = [f \in Field |-> IF f \in dirty /\ values[f] = 0 /\ mine[f] = 0 THEN Unsaid ELSE mine[f]]
      /\ auto' = {} /\ dirty' = {} /\ form' = "closed"
      /\ UNCHANGED <<days, values, sending, due, patch, poll, making, late, moves, changes>>
  BY DEF CreateOpen, Created
<1>3. cover' \in [Field -> Value] /\ mine' \in [Field -> 0..Unsaid] /\ user' \subseteq Field
  <2>1. cover' \in [Field -> Value]
    BY <1>1, <1>2
  <2>2. mine' \in [Field -> 0..Unsaid]
    BY <1>1, <1>2
  <2>3. QED
    BY <1>1, <1>2, <2>1, <2>2
<1>4. CoverTypeOK'
  BY <1>2, <1>3 DEF CoverInv, CoverTypeOK
<1>5. FormInv'
  BY <1>1, <1>2 DEF CoverInv, FormInv
<1>6. ASSUME NEW f \in Field
      PROVE  Said(f)'
  <2>1. CASE mine'[f] = Unsaid
    BY <2>1 DEF Said
  <2>2. CASE mine'[f] # Unsaid
    <3>1. mine[f] # Unsaid /\ mine'[f] = mine[f] /\ f \in dirty
      BY <1>1, <1>2, <2>2
    <3>2. values[f] = mine[f]
      BY <3>1 DEF CoverInv, Said
    <3>3. values[f] # 0
      BY <1>2, <2>2, <3>1, <3>2
    <3>4. cover'[f] = mine'[f] /\ f \in user' /\ f \notin dirty' /\ f \notin sending'
      BY <1>1, <1>2, <3>1, <3>2, <3>3
    <3>5. QED
      BY <3>4 DEF Said
  <2>3. QED
    BY <2>1, <2>2
<1>7. OneHand' /\ DoneIsSaved'
  BY <1>1, <1>2 DEF OneHand, DoneIsSaved
<1>8. QED
  BY <1>4, <1>5, <1>6, <1>7 DEF CoverInv

LEMMA CreateCaseStep ==
  ASSUME CoverInv, CreateCase
  PROVE  CoverInv'
<1> USE CoverBasics
<1> DEFINE sent == dirty \cup sending
           said == [f \in Field |-> IF f \in sent THEN values[f] ELSE cover[f]]
           untitled == said["title"] = 0
           name == IF days = {} THEN MaxDay ELSE Max(days)
<1>1. /\ form = "new" /\ status = "draft" /\ patch.at # "way"
      /\ cover' = [said EXCEPT !["title"] = IF untitled THEN name ELSE said["title"]]
      /\ user' = IF untitled THEN (user \cup (sent \cap DraftField)) \ {"title"} ELSE user \cup (sent \cap DraftField)
      /\ auto' = IF untitled THEN (auto \ sent) \cup {"title"} ELSE auto \ sent
      /\ mine' = [mine EXCEPT !["title"] = IF untitled THEN Unsaid ELSE mine["title"]]
      /\ status' = "open" /\ form' = "closed"
      /\ dirty' = {} /\ sending' = {} /\ due' = FALSE /\ patch' = NoPatch
      /\ values' = cover' /\ poll' = NoPoll
      /\ UNCHANGED <<days, making, late, moves, changes>>
  BY DEF CreateCase
<1>2. /\ cover \in [Field -> Value] /\ values \in [Field -> Value] /\ mine \in [Field -> 0..Unsaid]
      /\ sent \subseteq Field /\ auto \subseteq Field /\ user \subseteq Field /\ days \subseteq Day
      /\ auto \cap user = {} /\ (\A f \in auto : cover[f] # 0) /\ "title" \in Field
  BY DEF CoverInv, CoverTypeOK, OneHand, Field, DraftField
<1>3. said \in [Field -> Value] /\ \A f \in Field : said[f] = IF f \in sent THEN values[f] ELSE cover[f]
  BY <1>2
<1>4. name \in Value /\ name # 0
  <2>1. CASE days = {}
    BY <2>1 DEF Value
  <2>2. CASE days # {}
    <3>1. days \subseteq 1..MaxDay
      BY <1>2
    <3>2. Max(days) \in 1..MaxDay
      BY <2>2, <3>1, MaxMin
    <3>3. QED
      BY <2>2, <3>2 DEF Value
  <2>3. QED
    BY <2>1, <2>2
<1> HIDE DEF said, name
<1>5. /\ cover' \in [Field -> Value]
      /\ \A f \in Field : f # "title" => cover'[f] = said[f]
      /\ cover'["title"] # 0
      /\ ~untitled => cover'["title"] = said["title"]
  BY <1>1, <1>2, <1>3, <1>4
<1>6. /\ mine' \in [Field -> 0..Unsaid]
      /\ \A f \in Field : mine'[f] # Unsaid => mine'[f] = mine[f] /\ (f = "title" => ~untitled)
  BY <1>1, <1>2
<1>7. auto' \subseteq Field /\ user' \subseteq Field
  BY <1>1, <1>2
<1>8. CoverTypeOK'
  BY <1>1, <1>2, <1>5, <1>6, <1>7, NothingOnItsWay DEF CoverInv, CoverTypeOK, PatchSet, PollSet
<1>9. FormInv'
  BY <1>1, NothingOnItsWay DEF CoverInv, FormInv
<1>10. ASSUME NEW f \in Field
       PROVE  Said(f)'
  <2>1. CASE mine'[f] = Unsaid
    BY <2>1 DEF Said
  <2>2. CASE mine'[f] # Unsaid
    <3>1. mine'[f] = mine[f] /\ mine[f] # Unsaid /\ cover'[f] = said[f] /\ (f = "title" => ~untitled)
      BY <1>5, <1>6, <2>2
    <3>2. said[f] = mine[f] /\ (f \in sent \/ f \in user)
      BY <1>3, <3>1 DEF CoverInv, Said
    <3>3. f \in user'
      <4>1. CASE untitled
        BY <1>1, <3>1, <3>2, <4>1
      <4>2. CASE ~untitled
        BY <1>1, <3>2, <4>2
      <4>3. QED
        BY <4>1, <4>2
    <3>4. QED
      BY <1>1, <3>1, <3>2, <3>3 DEF Said
  <2>3. QED
    BY <2>1, <2>2
<1>11. OneHand'
  <2>1. CASE untitled
    <3>1. auto' = (auto \ sent) \cup {"title"} /\ user' = (user \cup sent) \ {"title"}
      BY <1>1, <1>2, <2>1
    <3>2. auto' \cap user' = {}
      BY <1>2, <3>1
    <3>3. \A f \in auto' : cover'[f] # 0
      BY <1>2, <1>3, <1>5, <3>1
    <3>4. QED
      BY <3>2, <3>3 DEF OneHand
  <2>2. CASE ~untitled
    <3>1. auto' = auto \ sent /\ user' = user \cup sent
      BY <1>1, <1>2, <2>2
    <3>2. \A f \in auto' : cover'[f] # 0
      BY <1>2, <1>3, <1>5, <3>1
    <3>3. QED
      BY <1>2, <3>1, <3>2 DEF OneHand
  <2>3. QED
    BY <2>1, <2>2
<1>12. DoneIsSaved'
  BY <1>1 DEF DoneIsSaved
<1>13. QED
  BY <1>8, <1>9, <1>10, <1>11, <1>12 DEF CoverInv

\* The details' form opening and closing, the claim and its reopening.
LEMMA OpensAndCloses ==
  ASSUME CoverInv, Edit \/ Done \/ FlushCloses \/ Claim \/ Reopen
  PROVE  CoverInv'
<1> USE CoverBasics
<1>1. /\ UNCHANGED <<cover, auto, user, days, values, dirty, sending, due, patch, poll, making, mine, moves, changes>>
      /\ late' \subseteq Field /\ status' \in {status, "claimed", "open"} /\ (status' # status => status \in {"open", "claimed"})
      /\ form' \in {"closed", "open", "waiting", "saving"} \cup {form}
      /\ (form' = "new" <=> form = "new") /\ (form' = "saving" => form = "saving" /\ late' = late)
      /\ (form' = "closed" => \/ form = "closed" /\ late' = late
                              \/ dirty = {} /\ patch = NoPatch)
  BY DEF Edit, Done, FlushCloses, NothingLeft, Claim, Reopen, caseVars, formVars, CoverInv, CoverTypeOK, FormInv
<1>2. CoverTypeOK'
  BY <1>1 DEF CoverInv, CoverTypeOK
<1>3. FormInv'
  BY <1>1 DEF CoverInv, FormInv
<1>4. \A f \in Field : Said(f)'
  BY <1>1 DEF CoverInv, Said
<1>5. patch = NoPatch => sending = {}
  BY NothingOnItsWay DEF CoverInv, FormInv
<1>6. OneHand' /\ DoneIsSaved'
  BY <1>1, <1>5 DEF CoverInv, OneHand, DoneIsSaved
<1>7. QED
  BY <1>2, <1>3, <1>4, <1>6 DEF CoverInv

LEMMA FillStep ==
  ASSUME CoverInv, FillApplies
  PROVE  CoverInv'
<1> USE CoverBasics
<1> DEFINE t == OpenTarget(cover, DraftField, days)
<1>1. /\ form = "closed" /\ status = "open" /\ days # {} /\ changes < MaxChanges
      /\ cover' = [f \in Field |-> IF f \in OpenField THEN t[f] ELSE cover[f]]
      /\ mine' = [f \in Field |-> IF f \in OpenField THEN t[f] ELSE mine[f]]
      /\ dirty \cap OpenField = {} /\ sending \cap OpenField = {}
      /\ user' = user \cup OpenField /\ auto' = auto \ OpenField /\ changes' = changes + 1
      /\ UNCHANGED <<status, days, values, dirty, sending, due, patch, poll, form, making, late, moves>>
  BY DEF FillApplies, formVars
<1>2. cover \in [Field -> Value] /\ mine \in [Field -> 0..Unsaid] /\ days \subseteq Day
  BY DEF CoverInv, CoverTypeOK
<1>3. \A f \in OpenField : t[f] \in Value /\ t[f] # 0
  BY <1>1, <1>2, TargetDays
<1> HIDE DEF t
<1>4. cover' \in [Field -> Value] /\ mine' \in [Field -> 0..Unsaid]
  BY <1>1, <1>2, <1>3
<1>5. changes' \in 0..MaxChanges
  BY <1>1, CaseCoverAssumption DEF CoverInv, CoverTypeOK
<1>6. CoverTypeOK'
  BY <1>1, <1>4, <1>5 DEF CoverInv, CoverTypeOK
<1>7. FormInv' /\ DoneIsSaved'
  BY <1>1 DEF CoverInv, FormInv, DoneIsSaved
<1>8. ASSUME NEW f \in Field
      PROVE  Said(f)'
  <2>1. CASE f \in OpenField
    BY <1>1, <2>1 DEF Said
  <2>2. CASE f \notin OpenField
    BY <1>1, <2>2 DEF CoverInv, Said
  <2>3. QED
    BY <2>1, <2>2
<1>9. OneHand'
  BY <1>1, <1>2 DEF CoverInv, CoverTypeOK, OneHand
<1>10. QED
  BY <1>6, <1>7, <1>8, <1>9 DEF CoverInv

\* Whatever the AI, a poll, a failed save or a new draft writes, what the
\* person last said of a field is the case's or still to be sent as said.
THEOREM CoverStaysHeld == CoverSpec => []CoverHolds
<1>1. CoverInit => CoverInv
  BY CoverInvInit
<1>2. CoverInv /\ [CoverNext]_coverVars => CoverInv'
  <2> SUFFICES ASSUME CoverInv, [CoverNext]_coverVars PROVE CoverInv'
    OBVIOUS
  <2>1. CASE (\E ds \in SUBSET Day : ReceiptsMove(ds)) \/ \E fs \in {OpenField, {"periodTo"}} : HandBack(fs)
    BY <2>1, AutoStep
  <2>2. CASE \E f \in Field, v \in Typed : Change(f, v)
    BY <2>2, ChangeStep
  <2>3. CASE TimedSend \/ FlushSends
    BY <2>3, SendStep
  <2>4. CASE PatchLost \/ \E answer \in {"saved", "failed"} : PatchArrives(answer)
    BY <2>4, ArrivesStep
  <2>5. CASE \E b \in BOOLEAN : PatchAnswered(b)
    BY <2>5, PatchAnsweredStep
  <2>6. CASE PollRead \/ \E inside \in {{}} \cup {{f} : f \in Field} : PollLands(inside)
    BY <2>6, PollStep
  <2>7. CASE MakeDraft \/ DraftNotMade
    BY <2>7, MakingStep
  <2>8. CASE DraftMade
    BY <2>8, DraftMadeStep
  <2>9. CASE CreateOpen
    BY <2>9, CreateOpenStep
  <2>10. CASE CreateCase
    BY <2>10, CreateCaseStep
  <2>11. CASE Edit \/ Done \/ FlushCloses \/ Claim \/ Reopen
    BY <2>11, OpensAndCloses
  <2>12. CASE FillApplies
    BY <2>12, FillStep
  <2>13. CASE UNCHANGED coverVars
    BY <2>13 DEF coverVars, caseVars, formVars, CoverInv, CoverTypeOK, FormInv, Said, OneHand, DoneIsSaved
  <2>14. QED
    BY <2>1, <2>2, <2>3, <2>4, <2>5, <2>6, <2>7, <2>8, <2>9, <2>10, <2>11, <2>12, <2>13 DEF CoverNext
<1>3. CoverInv => CoverHolds
  <2> SUFFICES ASSUME CoverInv PROVE NothingTypedLost
    BY DEF CoverInv, CoverHolds
  <2>1. \A f \in Field : Said(f)
    BY DEF CoverInv
  <2>2. QED
    BY <2>1 DEF Said, NothingTypedLost
<1>4. QED
  BY <1>1, <1>2, <1>3, PTL DEF CoverSpec
-----------------------------------------------------------------------------
(* A person's phone links.                                                  *)

ADialog == [at : {"closed", "opening", "left", "open"}, code : 0..MaxCodes, photos : SUBSET Photo]
APage   == [at : {"closed", "ready", "expired"}, code : 0..MaxCodes, left : 0..MaxUses, dead : BOOLEAN]
AnItem  ==
  [of : Phone \cup {"nobody"}, try : 0..MaxTries,
   at : {"none", "waiting", "sending", "sent", "duplicate", "again", "failed", "over"}]

\* Codes are numbered as they are made; the dialog shows what came through its own.
LinkInv ==
  /\ live \subseteq 1..made /\ ended <= made
  /\ OldCodesDead
  /\ \A c \in Code : IsFiniteSet(got[c])
  /\ dialog.at = "open" => dialog.code \in 1..made /\ dialog.photos \subseteq got[dialog.code]
  /\ dialog.at \in {"opening", "left"} => dialog.photos = {}
  /\ \A h \in Phone : page[h].code <= made

\* A photo is on an open page, which sends one at a time, and an answer that
\* says a photo is there was given once it was.
PhotoInv ==
  /\ \A x \in Photo : item[x].at # "none" => item[x].of \in Phone /\ page[item[x].of].at # "closed"
  /\ \A s \in Post : post[s] # "none" => item[s[1]].at # "none"
  /\ \A x \in Photo : item[x].at = "sending" => item[x].try # 0
  /\ \A x, y \in Photo : item[x].at = "sending" /\ item[y].at = "sending" /\ item[x].of = item[y].of => x = y
  /\ \A s \in Post : post[s] \in {"201", "409"} => s[1] \in stored
  /\ \A x \in Photo : item[x].at \in {"sent", "duplicate"} => x \in stored

\* A photo stored whose answer the page has not heard.
Unheard(h) == \E x \in Photo : item[x].of = h /\ item[x].at = "sending" /\ post[<<x, item[x].try>>] = "201"

\* A page never believes its link fuller than it is.
LeftInv ==
  \A h \in Phone : page[h].at = "ready" /\ page[h].code \in live =>
    /\ uses[page[h].code] + page[h].left >= MaxUses
    /\ Unheard(h) => page[h].left = 0 \/ uses[page[h].code] + page[h].left > MaxUses

StoringNow   == {s \in Post : post[s] = "storing"}
StoringBy(c) == {s \in Post : post[s] = "storing" /\ CodeOf(s) = c}

StoringInv ==
  /\ IsFiniteSet(StoringNow) /\ Cardinality(StoringNow) <= MaxStoring
  /\ \A c \in Code : uses[c] + Cardinality(StoringBy(c)) <= MaxUses - 1 + MaxStoring

CaptureInv == CaptureTypeOK /\ LinkInv /\ PhotoInv /\ LeftInv /\ StoringInv

LEMMA CaptureBasics ==
  /\ MaxUses \in Nat \ {0} /\ MaxLivePerUser \in Nat \ {0} /\ MaxCodes \in Nat
  /\ MaxTries \in Nat \ {0} /\ MaxStoring \in Nat \ {0}
BY PhoneCaptureAssumption

LEMMA CaptureInvInit == CaptureInit => CaptureInv
<1> SUFFICES ASSUME CaptureInit PROVE CaptureInv
  OBVIOUS
<1> USE CaptureBasics
<1>1. /\ made = 0 /\ ended = 0 /\ live = {}
      /\ uses = [c \in Code |-> 0] /\ got = [c \in Code |-> {}]
      /\ stored = {} /\ owner = "in"
      /\ dialog = [at |-> "closed", code |-> 0, photos |-> {}]
      /\ page = [h \in Phone |-> NoPage]
      /\ item = [x \in Photo |-> NoItem]
      /\ post = [s \in Post |-> "none"]
  BY DEF CaptureInit
<1>2. CaptureTypeOK
  BY <1>1 DEF CaptureTypeOK, NoPage, NoItem
<1>3. LinkInv
  BY <1>1, FS_EmptySet DEF LinkInv, OldCodesDead, NoPage, Code
<1>4. PhotoInv /\ LeftInv
  BY <1>1 DEF PhotoInv, LeftInv, Unheard, NoItem, NoPage
<1>5. StoringInv
  <2>1. StoringNow = {} /\ \A c \in Code : StoringBy(c) = {}
    BY <1>1 DEF StoringNow, StoringBy
  <2>2. Cardinality({}) = 0 /\ IsFiniteSet({})
    BY FS_EmptySet
  <2>3. QED
    BY <1>1, <2>1, <2>2 DEF StoringInv
<1>6. QED
  BY <1>2, <1>3, <1>4, <1>5 DEF CaptureInv

LEMMA StoringCounted ==
  ASSUME StoringInv
  PROVE  /\ Cardinality(StoringNow) \in Nat
         /\ \A c \in Code : IsFiniteSet(StoringBy(c)) /\ Cardinality(StoringBy(c)) \in Nat
<1>1. \A c \in Code : StoringBy(c) \subseteq StoringNow
  BY DEF StoringBy, StoringNow
<1>2. QED
  BY <1>1, FS_Subset, FS_CardinalityType DEF StoringInv

\* Nothing more is being stored, by the same codes, and nothing more is counted.
LEMMA NoMoreStored ==
  ASSUME CaptureTypeOK, StoringInv, UNCHANGED uses,
         StoringNow' \subseteq StoringNow, \A c \in Code : StoringBy(c)' \subseteq StoringBy(c)
  PROVE  StoringInv'
<1> USE CaptureBasics
<1>1. IsFiniteSet(StoringNow') /\ Cardinality(StoringNow') <= Cardinality(StoringNow)
      /\ Cardinality(StoringNow') \in Nat
  BY FS_Subset, FS_CardinalityType DEF StoringInv
<1>2. ASSUME NEW c \in Code
      PROVE  uses'[c] + Cardinality(StoringBy(c)') <= MaxUses - 1 + MaxStoring
  <2>1. Cardinality(StoringBy(c)') <= Cardinality(StoringBy(c)) /\ Cardinality(StoringBy(c)') \in Nat
        /\ Cardinality(StoringBy(c)) \in Nat
    BY StoringCounted, FS_Subset, FS_CardinalityType
  <2>2. uses[c] \in Nat /\ uses'[c] = uses[c]
    BY DEF CaptureTypeOK
  <2>3. uses[c] + Cardinality(StoringBy(c)) <= MaxUses - 1 + MaxStoring
    BY DEF StoringInv
  <2>4. QED
    BY <2>1, <2>2, <2>3
<1>3. Cardinality(StoringNow') <= MaxStoring
  BY <1>1, StoringCounted DEF StoringInv
<1>4. QED
  BY <1>1, <1>2, <1>3 DEF StoringInv

-----------------------------------------------------------------------------
(* Codes and the dialog.                                                    *)


\* What the codes may do in one of these steps.
CodesMove ==
  /\ owner' \in {"in", "out", "removed"}
  /\ \/ made' = made /\ live' \subseteq live
     \/ made' = made + 1 /\ made < MaxCodes /\ live' \subseteq live \cup {made'}
  /\ \/ ended' = ended
     \/ ended' = made /\ live' = {}

\* And the dialog: it opens on the code just made, and shows photos of its own.
DialogMove ==
  /\ dialog' \in ADialog
  /\ dialog'.at = "open" =>
       \/ dialog' = dialog
       \/ dialog'.code = made' /\ made' = made + 1 /\ dialog'.photos = {}
       \/ dialog.at = "open" /\ dialog'.code = dialog.code /\ dialog'.photos \subseteq got[dialog.code]
  /\ dialog'.at \in {"opening", "left"} => dialog'.photos = {}

LEMMA CodesMoved ==
  ASSUME CaptureInv,
         \/ \E c \in Code : Expire(c)
         \/ \E to \in {"in", "out", "removed"} : SignOut(to)
         \/ SignInAgain \/ Open \/ Minted \/ Refused \/ Close \/ Poll
  PROVE  CodesMove
<1> USE CaptureBasics
<1>1. owner \in {"in", "out", "removed"}
  BY DEF CaptureInv, CaptureTypeOK
<1>2. ASSUME NEW c \in Code, Expire(c) PROVE CodesMove
  BY <1>1, <1>2 DEF CodesMove, Expire
<1>3. ASSUME NEW to \in {"in", "out", "removed"}, SignOut(to) PROVE CodesMove
  BY <1>3 DEF CodesMove, SignOut, SessionsEnd
<1>4. CASE SignInAgain
  BY <1>4 DEF CodesMove, SignInAgain
<1>5. CASE Open \/ Refused \/ Poll
  BY <1>1, <1>5 DEF CodesMove, Open, Refused, Poll, serverVars
<1>6. CASE Minted
  <2>1. made < MaxCodes /\ owner' = owner /\ ended' = ended
    BY <1>6 DEF Minted
  <2>2. made' = made + 1 /\ live' \subseteq live \cup {made'}
    BY <1>6 DEF Minted, Create
  <2>3. QED
    BY <1>1, <2>1, <2>2 DEF CodesMove
<1>7. CASE Close
  BY <1>1, <1>7 DEF CodesMove, Close
<1>8. QED
  BY <1>2, <1>3, <1>4, <1>5, <1>6, <1>7

LEMMA DialogMoved ==
  ASSUME CaptureInv,
         \/ \E c \in Code : Expire(c)
         \/ \E to \in {"in", "out", "removed"} : SignOut(to)
         \/ SignInAgain \/ Open \/ Minted \/ Refused \/ Close \/ Poll
  PROVE  DialogMove
<1> USE CaptureBasics
<1>1. /\ dialog \in ADialog /\ made \in 0..MaxCodes
      /\ dialog.at \in {"opening", "left"} => dialog.photos = {}
      /\ dialog.at = "open" => dialog.code \in 1..made /\ dialog.photos \subseteq got[dialog.code]
      /\ got \in [Code -> SUBSET Photo]
  BY DEF CaptureInv, CaptureTypeOK, LinkInv, ADialog
<1>2. CASE UNCHANGED dialog
  BY <1>1, <1>2 DEF DialogMove
<1>3. CASE Open
  BY <1>3 DEF Open, DialogMove, ADialog
<1>4. CASE Minted
  <2>1. CASE dialog.at = "opening"
    <3>1. dialog' = [dialog EXCEPT !.at = "open", !.code = made + 1] /\ made' = made + 1 /\ made < MaxCodes
      BY <1>4, <2>1 DEF Minted, Create
    <3>2. dialog' = [at |-> "open", code |-> made + 1, photos |-> {}]
      BY <1>1, <2>1, <3>1 DEF ADialog
    <3>3. dialog' \in ADialog
      BY <3>1, <3>2, <1>1 DEF ADialog
    <3>4. dialog'.at = "open" /\ dialog'.code = made + 1 /\ dialog'.photos = {} /\ made' = made + 1
      <4>1. dialog'.at = "open" /\ dialog'.code = made + 1 /\ dialog'.photos = {}
        BY <3>2
      <4>2. QED
        BY <3>1, <4>1
    <3>5. QED
      BY <3>3, <3>4 DEF DialogMove
  <2>2. CASE dialog.at # "opening"
    <3>1. dialog' = [dialog EXCEPT !.at = "closed"]
      BY <1>4, <2>2 DEF Minted
    <3>2. QED
      BY <1>1, <3>1 DEF DialogMove, ADialog
  <2>3. QED
    BY <2>1, <2>2
<1>5. CASE Refused
  BY <1>1, <1>5 DEF Refused, DialogMove, ADialog
<1>6. CASE Close
  <2>1. /\ dialog.at \in {"opening", "open"}
        /\ dialog' = [dialog EXCEPT !.at = IF dialog.at = "open" THEN "closed" ELSE "left"]
    BY <1>6, <1>1 DEF Close, ADialog
  <2>2. QED
    BY <1>1, <2>1 DEF DialogMove, ADialog
<1>7. CASE Poll
  <2> DEFINE answer == IF dialog.code \in live THEN got[dialog.code] ELSE {}
  <2>1. dialog.at = "open" /\ dialog' = [dialog EXCEPT !.photos = Shown(answer)]
    BY <1>7 DEF Poll
  <2>2. dialog.code \in Code
    BY <1>1, <2>1 DEF Code
  <2>3. Shown(answer) \subseteq got[dialog.code] /\ Shown(answer) \subseteq Photo
    <3>1. got[dialog.code] \subseteq Photo
      BY <1>1, <2>2
    <3>2. answer \subseteq got[dialog.code]
      OBVIOUS
    <3>3. Shown(answer) \in {answer, dialog.photos}
      BY DEF Shown
    <3> HIDE DEF answer
    <3>4. QED
      BY <1>1, <2>1, <3>1, <3>2, <3>3
  <2> HIDE DEF answer
  <2>4. QED
    BY <1>1, <2>1, <2>3 DEF DialogMove, ADialog
<1>8. UNCHANGED dialog \/ Open \/ Minted \/ Refused \/ Close \/ Poll
  BY DEF Expire, SignOut, SignInAgain
<1>9. QED
  BY <1>2, <1>3, <1>4, <1>5, <1>6, <1>7, <1>8

LEMMA DialogSteps ==
  ASSUME CaptureInv,
         \/ \E c \in Code : Expire(c)
         \/ \E to \in {"in", "out", "removed"} : SignOut(to)
         \/ SignInAgain \/ Open \/ Minted \/ Refused \/ Close \/ Poll
  PROVE  CaptureInv'
<1> USE CaptureBasics
<1>1. UNCHANGED <<uses, got, stored, page, item, post>>
  BY DEF Expire, SignOut, SignInAgain, Open, Minted, Refused, Close, Poll, serverVars
<1>2. CodesMove /\ DialogMove
  BY CodesMoved, DialogMoved
<1>3. /\ made \in 0..MaxCodes /\ ended \in 0..MaxCodes /\ live \subseteq 1..made /\ ended <= made
      /\ OldCodesDead
  BY DEF CaptureInv, CaptureTypeOK, LinkInv
<1>4. /\ made' \in 0..MaxCodes /\ made' >= made /\ ended' \in 0..MaxCodes /\ ended' <= made'
      /\ live' \subseteq 1..made' /\ OldCodesDead' /\ owner' \in {"in", "out", "removed"}
      /\ \A c \in live' : c <= made => c \in live
  <2>1. /\ made' \in 0..MaxCodes /\ made' >= made /\ ended' \in 0..MaxCodes /\ ended' <= made'
    BY <1>2, <1>3 DEF CodesMove
  <2>2. live' \subseteq 1..made' /\ \A c \in live' : c <= made => c \in live
    <3>1. CASE made' = made /\ live' \subseteq live
      BY <1>3, <3>1
    <3>2. CASE made' = made + 1 /\ live' \subseteq live \cup {made'}
      <4>1. made + 1 \in 1..(made + 1) /\ 1..made \subseteq 1..(made + 1) /\ ~(made + 1 <= made)
        BY <1>3
      <4>2. QED
        BY <1>3, <3>2, <4>1
    <3>3. QED
      BY <1>2, <3>1, <3>2 DEF CodesMove
  <2>3. live' \cap 1..ended' = {}
    BY <1>2, <1>3 DEF CodesMove, OldCodesDead
  <2>4. QED
    BY <1>2, <2>1, <2>2, <2>3 DEF CodesMove, OldCodesDead
<1>5. CaptureTypeOK'
  <2>1. live' \subseteq Code
    BY <1>4 DEF Code
  <2>2. QED
    BY <1>1, <1>2, <1>4, <2>1 DEF CaptureInv, CaptureTypeOK, DialogMove, ADialog
<1>6. LinkInv'
  <2>1. \A h \in Phone : page'[h].code <= made'
    <3>1. \A h \in Phone : page[h].code \in 0..MaxCodes /\ page[h].code <= made
      BY DEF CaptureInv, CaptureTypeOK, LinkInv
    <3>2. QED
      BY <1>1, <1>3, <1>4, <3>1
  <2>2. dialog'.at = "open" => dialog'.code \in 1..made' /\ dialog'.photos \subseteq got'[dialog'.code]
    <3>1. dialog.at = "open" => dialog.code \in 1..made /\ dialog.photos \subseteq got[dialog.code]
      BY DEF CaptureInv, LinkInv
    <3>2. QED
      BY <1>1, <1>2, <1>3, <1>4, <3>1 DEF DialogMove
  <2>3. QED
    BY <1>1, <1>2, <1>4, <2>1, <2>2 DEF CaptureInv, LinkInv, DialogMove
<1>7. PhotoInv'
  BY <1>1 DEF CaptureInv, PhotoInv
<1>8. LeftInv'
  <2>1. \A h \in Phone : page[h].code <= made
    BY DEF CaptureInv, LinkInv
  <2>2. \A h \in Phone : Unheard(h)' <=> Unheard(h)
    BY <1>1 DEF Unheard
  <2>3. LeftInv
    BY DEF CaptureInv
  <2>4. QED
    BY <1>1, <1>4, <2>1, <2>2, <2>3 DEF LeftInv
<1>9. StoringInv'
  BY <1>1 DEF CaptureInv, StoringInv, StoringNow, StoringBy, CodeOf
<1>10. QED
  BY <1>5, <1>6, <1>7, <1>8, <1>9 DEF CaptureInv

-----------------------------------------------------------------------------
(* The phones.                                                              *)

\* A page that opens, or moves on, on its own.
LEMMA PageSteps ==
  ASSUME CaptureInv, NEW h \in Phone, Scan(h) \/ PagePoll(h)
  PROVE  CaptureInv'
<1> USE CaptureBasics
<1>1. UNCHANGED <<serverVars, dialog, item, post>>
  BY DEF Scan, PagePoll
<1>2. /\ page \in [Phone -> APage] /\ uses \in [Code -> Nat] /\ live \subseteq Code
      /\ live \subseteq 1..made /\ made \in 0..MaxCodes
      /\ dialog.at = "open" => dialog.code \in 1..made
      /\ \A g \in Phone : page[g].code <= made
  BY DEF CaptureInv, CaptureTypeOK, LinkInv, APage
<1>3. /\ page' = [page EXCEPT ![h] = page'[h]] /\ page'[h] \in APage /\ page'[h].code <= made
      /\ page'[h].at # "closed"
      /\ page[h].at # "closed" => page'[h].code = page[h].code
      /\ page'[h].at = "ready" /\ page'[h].code \in live =>
           \/ page[h].at = "closed" /\ uses[page'[h].code] + page'[h].left >= MaxUses
           \/ page[h].at = "ready" /\ page'[h].left = page[h].left
           \/ uses[page'[h].code] >= MaxUses /\ page'[h].left = 0
  <2>1. CASE Scan(h)
    <3> DEFINE c == dialog.code
               n == IF c \in live /\ uses[c] < MaxUses THEN MaxUses - uses[c] ELSE 0
    <3>1. /\ page[h].at = "closed" /\ dialog.at = "open"
          /\ page' = [page EXCEPT ![h] = [at |-> IF c \in live THEN "ready" ELSE "expired",
                                          code |-> c, dead |-> FALSE, left |-> n]]
      BY <2>1 DEF Scan
    <3>2. c \in Code /\ c \in 0..MaxCodes /\ c <= made
      BY <1>2, <3>1 DEF Code
    <3>3. n \in 0..MaxUses /\ (c \in live => uses[c] + n >= MaxUses)
      BY <1>2, <3>2
    <3> HIDE DEF c, n
    <3>4. page'[h] = [at |-> IF c \in live THEN "ready" ELSE "expired",
                      code |-> c, dead |-> FALSE, left |-> n]
      BY <1>2, <3>1
    <3>5. QED
      BY <1>2, <3>1, <3>2, <3>3, <3>4 DEF APage
  <2>2. CASE PagePoll(h)
    <3> DEFINE c == page[h].code
               n == IF c \in live /\ uses[c] >= MaxUses THEN 0 ELSE page[h].left
               a == IF c \in live THEN page[h].at ELSE "expired"
    <3>1. page[h].at = "ready" /\ page[h] \in APage
      BY <1>2, <2>2 DEF PagePoll
    <3>2. a \in {"ready", "expired"} /\ n \in 0..MaxUses
      BY <1>2, <3>1 DEF APage
    <3>3. c \in live => n = page[h].left \/ (n = 0 /\ uses[c] >= MaxUses)
      OBVIOUS
    <3>4. page' = [page EXCEPT ![h] = page'[h]]
      BY <1>2, <2>2 DEF PagePoll
    <3>5. page'[h] = [at |-> a, code |-> c, left |-> n, dead |-> page[h].dead]
      <4>1. page' = [page EXCEPT ![h].at = a, ![h].left = n]
        BY <2>2 DEF PagePoll
      <4> HIDE DEF n, a
      <4>2. QED
        BY <1>2, <3>1, <4>1 DEF APage
    <3> HIDE DEF n, a
    <3>7. page'[h] \in APage
      BY <1>2, <3>1, <3>2, <3>5 DEF APage
    <3>6. QED
      BY <1>2, <3>1, <3>2, <3>3, <3>4, <3>5, <3>7
  <2>3. QED
    BY <2>1, <2>2
<1>4. \A g \in Phone \ {h} : page'[g] = page[g]
  BY <1>2, <1>3
<1>5. page' \in [Phone -> APage]
  BY <1>2, <1>3
<1>6. \A s \in Post : post[s] # "none" => item[s[1]].of \in Phone /\ page[item[s[1]].of].at # "closed"
  BY DEF CaptureInv, PhotoInv, Post
<1>7. \A s \in Post : post[s] # "none" => CodeOf(s)' = CodeOf(s)
  BY <1>1, <1>3, <1>4, <1>6 DEF CodeOf
<1>8. CaptureTypeOK'
  BY <1>1, <1>5 DEF CaptureInv, CaptureTypeOK, APage, serverVars
<1>9. LinkInv'
  <2>1. \A g \in Phone : page'[g].code <= made
    BY <1>2, <1>3, <1>4
  <2>2. QED
    BY <1>1, <2>1 DEF CaptureInv, LinkInv, OldCodesDead, serverVars
<1>10. PhotoInv'
  <2>1. \A x \in Photo : item[x].at # "none" => item[x].of \in Phone /\ page'[item[x].of].at # "closed"
    BY <1>3, <1>4 DEF CaptureInv, PhotoInv
  <2>2. QED
    BY <1>1, <2>1 DEF CaptureInv, PhotoInv, serverVars
<1>11. LeftInv'
  <2>1. \A g \in Phone : Unheard(g)' <=> Unheard(g)
    BY <1>1 DEF Unheard
  <2>2. page[h].at = "closed" => ~Unheard(h)
    BY DEF Unheard, CaptureInv, PhotoInv
  <2>3. \A g \in Phone : page[g].at = "ready" /\ page[g].code \in live =>
          /\ uses[page[g].code] + page[g].left >= MaxUses
          /\ Unheard(g) => page[g].left = 0 \/ uses[page[g].code] + page[g].left > MaxUses
    BY DEF CaptureInv, LeftInv
  <2>4. page'[h].at = "ready" /\ page'[h].code \in live =>
          /\ uses[page'[h].code] + page'[h].left >= MaxUses
          /\ Unheard(h) => page'[h].left = 0 \/ uses[page'[h].code] + page'[h].left > MaxUses
    <3>1. SUFFICES ASSUME page'[h].at = "ready", page'[h].code \in live
                   PROVE  /\ uses[page'[h].code] + page'[h].left >= MaxUses
                          /\ Unheard(h) => page'[h].left = 0 \/ uses[page'[h].code] + page'[h].left > MaxUses
      OBVIOUS
    <3>2. CASE page[h].at = "closed" /\ uses[page'[h].code] + page'[h].left >= MaxUses
      BY <2>2, <3>2
    <3>3. CASE page[h].at = "ready" /\ page'[h].left = page[h].left
      BY <1>3, <2>3, <3>1, <3>3
    <3>4. CASE uses[page'[h].code] >= MaxUses /\ page'[h].left = 0
      <4>1. uses[page'[h].code] \in Nat
        BY <1>2, <3>1
      <4>2. QED
        BY <3>4, <4>1
    <3>5. QED
      BY <1>3, <3>1, <3>2, <3>3, <3>4
  <2>5. UNCHANGED <<uses, live>>
    BY <1>1 DEF serverVars
  <2>6. QED
    BY <1>4, <2>1, <2>3, <2>4, <2>5 DEF LeftInv
<1>12. StoringInv'
  <2>1. StoringNow' = StoringNow /\ \A c \in Code : StoringBy(c)' = StoringBy(c)
    BY <1>1, <1>7 DEF StoringNow, StoringBy
  <2>2. QED
    BY <1>1, <2>1 DEF CaptureInv, StoringInv, serverVars
<1>13. QED
  BY <1>8, <1>9, <1>10, <1>11, <1>12 DEF CaptureInv

\* What a page does with one of its photos: nothing it does makes an upload be
\* stored, and no photo is said to be there that is not.
ItemMove(x, r) ==
  /\ item' = [item EXCEPT ![x] = r]
  /\ r \in AnItem /\ r.at # "none"
  /\ r.of \in Phone /\ page[r.of].at # "closed"
  /\ item[x].at # "none" => r.of = item[x].of
  /\ r.at = "sending" => /\ r.try # 0 /\ post'[<<x, r.try>>] # "201"
                         /\ \A y \in Photo : item[y].of = r.of => item[y].at # "sending"
  /\ r.at \in {"sent", "duplicate"} => x \in stored
  /\ post' \in [Post -> {"none", "arriving", "storing", "201", "409", "401", "refused"}]
  /\ \A s \in Post : post'[s] = post[s] \/ post'[s] = "none" \/ (post'[s] = "arriving" /\ s[1] = x)
  /\ page' \in [Phone -> APage]
  /\ \A h \in Phone : page'[h].code = page[h].code /\ (page[h].at # "closed" => page'[h].at # "closed")
  /\ UNCHANGED <<serverVars, dialog>>

LEMMA ItemMoved ==
  ASSUME CaptureInv, NEW x \in Photo, NEW r, ItemMove(x, r)
  PROVE  /\ CaptureTypeOK' /\ LinkInv' /\ PhotoInv' /\ StoringInv'
         /\ \A h \in Phone : Unheard(h)' => Unheard(h)
<1> USE CaptureBasics
<1>1. /\ item \in [Photo -> AnItem] /\ item' \in [Photo -> AnItem]
      /\ item'[x] = r /\ \A y \in Photo : y # x => item'[y] = item[y]
  BY DEF CaptureInv, CaptureTypeOK, ItemMove, AnItem
<1>2. /\ UNCHANGED <<made, live, uses, got, stored, owner, ended, dialog>>
      /\ page' \in [Phone -> APage]
      /\ post' \in [Post -> {"none", "arriving", "storing", "201", "409", "401", "refused"}]
      /\ \A s \in Post : post'[s] = post[s] \/ post'[s] = "none" \/ (post'[s] = "arriving" /\ s[1] = x)
      /\ \A h \in Phone : page'[h].code = page[h].code /\ (page[h].at # "closed" => page'[h].at # "closed")
  BY DEF ItemMove, serverVars
<1>3. /\ r \in AnItem /\ r.at # "none" /\ r.of \in Phone /\ page[r.of].at # "closed"
      /\ item[x].at # "none" => r.of = item[x].of
      /\ r.at \in {"sent", "duplicate"} => x \in stored
      /\ r.at = "sending" => /\ r.try # 0 /\ post'[<<x, r.try>>] # "201"
                             /\ \A y \in Photo : item[y].of = r.of => item[y].at # "sending"
  BY DEF ItemMove
<1>4. CaptureTypeOK'
  BY <1>1, <1>2 DEF CaptureInv, CaptureTypeOK, APage, AnItem
<1>5. LinkInv'
  BY <1>2 DEF CaptureInv, LinkInv, OldCodesDead
<1>6. PhotoInv
  BY DEF CaptureInv
<1>7. PhotoInv'
  <2>1. \A y \in Photo : item'[y].at # "none" => item'[y].of \in Phone /\ page'[item'[y].of].at # "closed"
    BY <1>1, <1>2, <1>3, <1>6 DEF PhotoInv
  <2>2. \A s \in Post : post'[s] # "none" => item'[s[1]].at # "none"
    <3>1. ASSUME NEW s \in Post, post'[s] # "none" PROVE item'[s[1]].at # "none"
      <4>1. s[1] \in Photo
        BY DEF Post
      <4>2. CASE s[1] = x
        BY <1>1, <1>3, <4>2
      <4>3. CASE s[1] # x
        BY <1>1, <1>2, <1>6, <3>1, <4>1, <4>3 DEF PhotoInv
      <4>4. QED
        BY <4>2, <4>3
    <3>2. QED
      BY <3>1
  <2>3. \A y \in Photo : item'[y].at = "sending" => item'[y].try # 0
    BY <1>1, <1>3, <1>6 DEF PhotoInv
  <2>4. \A y, z \in Photo : item'[y].at = "sending" /\ item'[z].at = "sending" /\ item'[y].of = item'[z].of => y = z
    BY <1>1, <1>3, <1>6 DEF PhotoInv
  <2>5. \A s \in Post : post'[s] \in {"201", "409"} => s[1] \in stored
    BY <1>2, <1>6 DEF PhotoInv
  <2>6. \A y \in Photo : item'[y].at \in {"sent", "duplicate"} => y \in stored
    BY <1>1, <1>3, <1>6 DEF PhotoInv
  <2>7. QED
    BY <1>2, <2>1, <2>2, <2>3, <2>4, <2>5, <2>6 DEF PhotoInv
<1>8. StoringInv'
  <2>1. \A s \in Post : post'[s] = "storing" => post[s] = "storing" /\ CodeOf(s)' = CodeOf(s)
    <3>1. ASSUME NEW s \in Post, post'[s] = "storing" PROVE post[s] = "storing" /\ CodeOf(s)' = CodeOf(s)
      <4>1. s[1] \in Photo /\ post[s] = "storing"
        BY <1>2, <3>1 DEF Post
      <4>2. item[s[1]].at # "none" /\ item[s[1]].of \in Phone
        BY <1>6, <4>1 DEF PhotoInv
      <4>3. item'[s[1]].of = item[s[1]].of
        BY <1>1, <1>3, <4>1, <4>2
      <4>4. QED
        BY <1>2, <4>1, <4>2, <4>3 DEF CodeOf
    <3>2. QED
      BY <3>1
  <2>2. StoringNow' \subseteq StoringNow /\ \A c \in Code : StoringBy(c)' \subseteq StoringBy(c)
    BY <2>1 DEF StoringNow, StoringBy
  <2>3. QED
    BY <1>2, <2>2, NoMoreStored DEF CaptureInv
<1>9. \A h \in Phone : Unheard(h)' => Unheard(h)
  <2>1. ASSUME NEW h \in Phone, NEW y \in Photo,
               item'[y].of = h, item'[y].at = "sending", post'[<<y, item'[y].try>>] = "201"
        PROVE  item[y].of = h /\ item[y].at = "sending" /\ post[<<y, item[y].try>>] = "201"
    <3>1. y # x
      BY <1>1, <1>3, <2>1
    <3>2. item'[y] = item[y] /\ item[y].try \in 1..MaxTries
      <4>1. item'[y] = item[y] /\ item[y] \in AnItem
        BY <1>1, <3>1
      <4>2. item[y].try # 0
        BY <1>6, <2>1, <4>1 DEF PhotoInv
      <4>3. QED
        BY <4>1, <4>2 DEF AnItem
    <3>3. <<y, item[y].try>> \in Post
      BY <3>2 DEF Post
    <3>4. QED
      BY <1>2, <2>1, <3>2, <3>3
  <2>2. QED
    BY <2>1 DEF Unheard
<1>10. QED
  BY <1>4, <1>5, <1>7, <1>8, <1>9

LEMMA LeftKept ==
  ASSUME LeftInv, UNCHANGED <<page, uses, live>>, \A h \in Phone : Unheard(h)' => Unheard(h)
  PROVE  LeftInv'
BY DEF LeftInv

LEMMA PhotoSteps ==
  ASSUME CaptureInv, NEW x \in Photo,
         (\E h \in Phone : Pick(h, x)) \/ SendOne(x) \/ NothingBack(x) \/ TryAgain(x)
  PROVE  CaptureInv'
<1> USE CaptureBasics
<1>1. /\ item \in [Photo -> AnItem] /\ page \in [Phone -> APage]
      /\ post \in [Post -> {"none", "arriving", "storing", "201", "409", "401", "refused"}]
  BY DEF CaptureInv, CaptureTypeOK, AnItem, APage
<1>2. item[x].at # "none" => item[x].of \in Phone /\ page[item[x].of].at # "closed"
  BY DEF CaptureInv, PhotoInv
<1>3. UNCHANGED <<serverVars, dialog, page>>
  BY DEF Pick, SendOne, NothingBack, TryAgain
<1>4. \E r : ItemMove(x, r)
  <2>1. ASSUME NEW h \in Phone, Pick(h, x) PROVE ItemMove(x, [of |-> h, at |-> "waiting", try |-> 0])
    BY <1>1, <1>3, <2>1 DEF Pick, ItemMove, AnItem, NoItem
  <2>2. CASE SendOne(x)
    <3> DEFINE h == item[x].of
               n == item[x].try + 1
    <3>1. /\ item[x].at = "waiting" /\ n <= MaxTries /\ n # 0 /\ n \in 0..MaxTries /\ <<x, n>> \in Post
          /\ \A y \in Photo : item[y].of = h => item[y].at # "sending"
      BY <1>1, <2>2 DEF SendOne, AnItem, Post
    <3>2. CASE page[h].dead \/ page[h].left = 0
      <4> DEFINE a == IF page[h].dead THEN "failed" ELSE "over"
                 r == [of |-> item[x].of, at |-> a, try |-> item[x].try]
      <4>1. item' = [item EXCEPT ![x].at = a] /\ post' = post
        BY <2>2, <3>2 DEF SendOne
      <4>2. item' = [item EXCEPT ![x] = r]
        <5>1. item[x] \in AnItem
          BY <1>1
        <5> HIDE DEF a
        <5>2. [item[x] EXCEPT !.at = a] = r
          BY <5>1 DEF AnItem
        <5>3. item' = [item EXCEPT ![x] = [item[x] EXCEPT !.at = a]]
          BY <1>1, <4>1
        <5> HIDE DEF r
        <5>4. QED
          BY <5>2, <5>3
      <4>3. r \in AnItem
        BY <1>1 DEF AnItem
      <4>4. ItemMove(x, r)
        BY <1>1, <1>2, <1>3, <3>1, <4>1, <4>2, <4>3 DEF ItemMove
      <4>5. QED
        BY <4>4
    <3>3. CASE ~(page[h].dead \/ page[h].left = 0)
      <4> DEFINE r == [of |-> item[x].of, at |-> "sending", try |-> n]
      <4>1. item' = [item EXCEPT ![x].at = "sending", ![x].try = n] /\ post' = [post EXCEPT ![<<x, n>>] = "arriving"]
        BY <2>2, <3>3 DEF SendOne
      <4>2. item' = [item EXCEPT ![x] = r]
        <5>1. item[x] \in AnItem
          BY <1>1
        <5> HIDE DEF n
        <5>2. /\ item' = [item EXCEPT ![x] = item'[x]]
              /\ item'[x] = [of |-> item[x].of, at |-> "sending", try |-> n]
          BY <1>1, <4>1, <5>1 DEF AnItem
        <5>3. QED
          BY <5>2
      <4>3. r \in AnItem
        BY <1>1, <3>1 DEF AnItem
      <4>4. /\ post' \in [Post -> {"none", "arriving", "storing", "201", "409", "401", "refused"}]
            /\ post'[<<x, n>>] = "arriving"
            /\ \A s \in Post : post'[s] = post[s] \/ post'[s] = "none" \/ (post'[s] = "arriving" /\ s[1] = x)
        BY <1>1, <3>1, <4>1
      <4> HIDE DEF n
      <4>5. r.of = item[x].of /\ r.at = "sending" /\ r.try = n
        OBVIOUS
      <4> HIDE DEF r, h
      <4>6. ItemMove(x, r)
        BY <1>1, <1>2, <1>3, <3>1, <4>2, <4>3, <4>4, <4>5 DEF ItemMove, h
      <4>7. QED
        BY <4>6
    <3>4. QED
      BY <3>2, <3>3
  <2>3. CASE NothingBack(x) \/ TryAgain(x)
    <3> DEFINE a == IF NothingBack(x) THEN "again" ELSE "waiting"
               r == [of |-> item[x].of, at |-> a, try |-> item[x].try]
    <3>1. item[x].at # "none" /\ item' = [item EXCEPT ![x].at = a]
      BY <2>3 DEF NothingBack, TryAgain
    <3>2. /\ post' \in [Post -> {"none", "arriving", "storing", "201", "409", "401", "refused"}]
          /\ \A s \in Post : post'[s] = post[s] \/ post'[s] = "none"
      BY <1>1, <2>3 DEF NothingBack, TryAgain
    <3>3. a \in {"again", "waiting"}
      OBVIOUS
    <3> HIDE DEF a
    <3>4. item' = [item EXCEPT ![x] = r] /\ r \in AnItem
      <4>1. item[x] \in AnItem
        BY <1>1
      <4>2. [item[x] EXCEPT !.at = a] = r /\ r \in AnItem
        BY <3>3, <4>1 DEF AnItem
      <4>3. item' = [item EXCEPT ![x] = [item[x] EXCEPT !.at = a]]
        BY <1>1, <3>1
      <4> HIDE DEF r
      <4>4. QED
        BY <4>2, <4>3
    <3>5. ItemMove(x, r)
      BY <1>1, <1>2, <1>3, <3>1, <3>2, <3>3, <3>4 DEF ItemMove
    <3>6. QED
      BY <3>5
  <2>4. QED
    BY <2>1, <2>2, <2>3
<1>5. LeftInv'
  BY <1>3, <1>4, ItemMoved, LeftKept DEF CaptureInv, serverVars
<1>6. QED
  BY <1>4, <1>5, ItemMoved DEF CaptureInv

\* The answer the page waits for.
LEMMA AnswerSteps ==
  ASSUME CaptureInv, NEW x \in Photo, NEW h, h = item[x].of, Answered(x)
  PROVE  CaptureInv'
<1> USE CaptureBasics
<1> DEFINE answer == post[<<x, item[x].try>>]
           r == [of |-> h, at |-> Says(answer), try |-> item[x].try]
           left == IF answer = "201" /\ page[h].left > 0 THEN page[h].left - 1 ELSE page[h].left
           dead == page[h].dead \/ answer = "401"
           at == IF answer = "401" THEN "expired" ELSE page[h].at
<1>1. /\ item \in [Photo -> AnItem] /\ page \in [Phone -> APage]
      /\ post \in [Post -> {"none", "arriving", "storing", "201", "409", "401", "refused"}]
      /\ uses \in [Code -> Nat] /\ live \subseteq Code
  BY DEF CaptureInv, CaptureTypeOK, AnItem, APage
<1>2. /\ item[x].at = "sending" /\ answer \notin {"arriving", "storing"}
      /\ item' = [item EXCEPT ![x].at = Says(answer)]
      /\ page' = [page EXCEPT ![h].left = left, ![h].dead = dead, ![h].at = at]
      /\ post' = [post EXCEPT ![<<x, item[x].try>>] = "none"]
      /\ UNCHANGED <<serverVars, dialog>>
  BY DEF Answered
<1>3. /\ h \in Phone /\ page[h].at # "closed" /\ item[x].try \in 1..MaxTries /\ <<x, item[x].try>> \in Post
      /\ answer = "201" \/ answer = "409" => x \in stored
  <2>1. PhotoInv /\ item[x] \in AnItem
    BY <1>1 DEF CaptureInv
  <2>2. h \in Phone /\ page[h].at # "closed" /\ item[x].try \in 1..MaxTries
    BY SMTT(20), <1>2, <2>1 DEF PhotoInv, AnItem
  <2>3. <<x, item[x].try>> \in Post
    BY <2>2 DEF Post
  <2>4. QED
    BY <2>1, <2>2, <2>3 DEF PhotoInv
<1>4. /\ Says(answer) \in {"sent", "duplicate", "failed"}
      /\ Says(answer) \in {"sent", "duplicate"} => x \in stored
  BY <1>3 DEF Says
<1>5. page[h] \in APage
  BY <1>1, <1>3
<1>6. left \in 0..MaxUses /\ dead \in BOOLEAN /\ at \in {"closed", "ready", "expired"} /\ at # "closed"
  <2>1. page[h].left \in 0..MaxUses /\ page[h].dead \in BOOLEAN /\ page[h].at \in {"closed", "ready", "expired"}
    BY <1>5 DEF APage
  <2>2. left \in 0..MaxUses
    BY <2>1
  <2>3. QED
    BY <1>3, <2>1, <2>2
<1>7. /\ page' = [page EXCEPT ![h] = page'[h]]
      /\ page'[h] = [at |-> at, code |-> page[h].code, left |-> left, dead |-> dead]
  <2>1. page' = [page EXCEPT ![h].left = left, ![h].dead = dead, ![h].at = at]
    BY <1>2
  <2> HIDE DEF left, dead, at
  <2>2. QED
    BY <1>1, <1>3, <1>5, <2>1 DEF APage
<1>8. ItemMove(x, r)
  <2>1. item' = [item EXCEPT ![x] = r] /\ r \in AnItem
    <3>1. item[x] \in AnItem
      BY <1>1
    <3>2. [item[x] EXCEPT !.at = Says(answer)] = r /\ r \in AnItem
      BY <1>4, <3>1 DEF AnItem
    <3>3. item' = [item EXCEPT ![x] = [item[x] EXCEPT !.at = Says(answer)]]
      BY <1>1, <1>2
    <3> HIDE DEF r
    <3>4. QED
      BY <3>2, <3>3
  <2>2. /\ post' \in [Post -> {"none", "arriving", "storing", "201", "409", "401", "refused"}]
        /\ \A s \in Post : post'[s] = post[s] \/ post'[s] = "none"
    BY <1>1, <1>2, <1>3
  <2>3. page' \in [Phone -> APage]
    <3>1. page'[h] \in APage
      <4>1. page[h].code \in 0..MaxCodes
        BY <1>5 DEF APage
      <4> HIDE DEF left, dead, at
      <4>2. QED
        BY <1>6, <1>7, <4>1 DEF APage
    <3>2. QED
      BY <1>1, <1>3, <1>7, <3>1
  <2>4. \A g \in Phone : page'[g].code = page[g].code /\ (page[g].at # "closed" => page'[g].at # "closed")
    BY <1>1, <1>3, <1>6, <1>7
  <2>5. r.of = item[x].of /\ r.at = Says(answer)
    OBVIOUS
  <2> HIDE DEF r
  <2>6. QED
    BY <1>2, <1>3, <1>4, <2>1, <2>2, <2>3, <2>4, <2>5 DEF ItemMove
<1>9. LeftInv'
  <2>1. UNCHANGED <<uses, live>> /\ \A g \in Phone : Unheard(g)' => Unheard(g)
    BY <1>8, ItemMoved DEF ItemMove, serverVars
  <2>2. LeftInv /\ PhotoInv
    BY DEF CaptureInv
  <2>3. \A g \in Phone : g # h => page'[g] = page[g]
    BY <1>1, <1>3, <1>7
  <2>4. ~Unheard(h)'
    <3>1. item'[x].at # "sending" /\ \A y \in Photo : y # x => item'[y] = item[y]
      <4>1. item'[x].at = Says(answer)
        BY <1>1, <1>2
      <4>2. QED
        BY <1>1, <1>2, <1>4, <4>1
    <3>2. \A y \in Photo : item[y].of = h /\ item[y].at = "sending" => y = x
      BY <1>2, <2>2 DEF PhotoInv
    <3>3. ASSUME NEW y \in Photo, item'[y].of = h, item'[y].at = "sending" PROVE FALSE
      BY <3>1, <3>2, <3>3
    <3>4. (\E y \in Photo : item'[y].of = h /\ item'[y].at = "sending") => FALSE
      BY <3>3
    <3>5. QED
      BY <3>4 DEF Unheard
  <2>5. page'[h].at = "ready" /\ page'[h].code \in live => uses[page'[h].code] + page'[h].left >= MaxUses
    <3>1. SUFFICES ASSUME page'[h].at = "ready", page'[h].code \in live
                   PROVE  uses[page[h].code] + left >= MaxUses
      BY <1>7
    <3>2. page[h].at = "ready" /\ page[h].code \in live /\ uses[page[h].code] \in Nat /\ page[h].left \in 0..MaxUses
      BY <1>1, <1>5, <1>7, <3>1 DEF APage
    <3>3. answer = "201" => Unheard(h)
      BY <1>2 DEF Unheard
    <3>4. /\ uses[page[h].code] + page[h].left >= MaxUses
          /\ answer = "201" => page[h].left = 0 \/ uses[page[h].code] + page[h].left > MaxUses
      BY <1>3, <2>2, <3>2, <3>3 DEF LeftInv
    <3>5. QED
      BY <3>2, <3>4
  <2>6. QED
    <3>1. ASSUME NEW g \in Phone, page'[g].at = "ready", page'[g].code \in live
          PROVE  /\ uses[page'[g].code] + page'[g].left >= MaxUses
                 /\ Unheard(g)' => page'[g].left = 0 \/ uses[page'[g].code] + page'[g].left > MaxUses
      <4>1. CASE g = h
        <5>1. ~Unheard(g)'
          BY <2>4, <4>1
        <5>2. uses[page'[g].code] + page'[g].left >= MaxUses
          BY <2>5, <3>1, <4>1
        <5>3. QED
          BY <5>1, <5>2
      <4>2. CASE g # h
        BY <2>1, <2>2, <2>3, <3>1, <4>2 DEF LeftInv
      <4>3. QED
        BY <4>1, <4>2
    <3>2. QED
      BY <2>1, <3>1 DEF LeftInv
<1>10. QED
  BY <1>8, <1>9, ItemMoved DEF CaptureInv

-----------------------------------------------------------------------------
(* The server.                                                              *)

PostStates == {"none", "arriving", "storing", "201", "409", "401", "refused"}

LEMMA PostMoved ==
  ASSUME CaptureInv, NEW s \in Post, NEW a \in PostStates, post[s] # "none",
         post' = [post EXCEPT ![s] = a], a \in {"201", "409"} => s[1] \in stored',
         stored \subseteq stored', stored' \subseteq Photo, live' \subseteq live,
         uses' \in [Code -> Nat], got' \in [Code -> SUBSET Photo],
         \A c \in Code : got[c] \subseteq got'[c] /\ IsFiniteSet(got'[c]),
         UNCHANGED <<made, owner, ended, dialog, page, item>>
  PROVE  CaptureTypeOK' /\ LinkInv' /\ PhotoInv'
<1> USE CaptureBasics
<1>1. post' \in [Post -> PostStates] /\ \A t \in Post : post'[t] = IF t = s THEN a ELSE post[t]
  BY DEF CaptureInv, CaptureTypeOK, PostStates
<1>2. CaptureTypeOK'
  BY <1>1 DEF CaptureInv, CaptureTypeOK, PostStates
<1>3. LinkInv'
  <2>1. dialog.at = "open" => dialog.code \in Code
    BY DEF CaptureInv, CaptureTypeOK, LinkInv, Code
  <2>2. dialog.at = "open" => dialog.photos \subseteq got'[dialog.code]
    BY <2>1 DEF CaptureInv, LinkInv
  <2>3. QED
    BY <2>2 DEF CaptureInv, LinkInv, OldCodesDead
<1>4. PhotoInv'
  BY <1>1 DEF CaptureInv, PhotoInv
<1>5. QED
  BY <1>2, <1>3, <1>4

\* A photo with a sending of it under way is on the open page of a phone.
LEMMA PostedBy ==
  ASSUME CaptureInv, NEW s \in Post, post[s] # "none"
  PROVE  s[1] \in Photo /\ item[s[1]].of \in Phone /\ s = <<s[1], s[2]>>
BY DEF CaptureInv, PhotoInv, Post

LEMMA ArriveSteps ==
  ASSUME CaptureInv, NEW s \in Post, Arrives(s)
  PROVE  CaptureInv'
<1> USE CaptureBasics
<1> DEFINE again == IF item[s[1]].at = "sending" /\ item[s[1]].try = s[2] THEN "401" ELSE "none"
           a == IF Verify(CodeOf(s)) THEN "storing" ELSE again
<1>1. /\ post[s] = "arriving" /\ Cardinality(StoringNow) < MaxStoring
      /\ post' = [post EXCEPT ![s] = a] /\ live' \subseteq live
      /\ UNCHANGED <<made, uses, got, stored, owner, ended, dialog, page, item>>
  BY DEF Arrives, Answers, StoringNow
<1>2. /\ post \in [Post -> PostStates] /\ uses \in [Code -> Nat] /\ got \in [Code -> SUBSET Photo]
      /\ stored \subseteq Photo /\ live \subseteq Code /\ \A c \in Code : IsFiniteSet(got[c])
  BY DEF CaptureInv, CaptureTypeOK, LinkInv, PostStates
<1>3. a \in {"storing", "401", "none"} /\ a \in PostStates
  BY DEF PostStates
<1>4. a = "storing" => CodeOf(s) \in Code /\ uses[CodeOf(s)] < MaxUses
  BY <1>2 DEF Verify
<1> HIDE DEF a
<1>5. CaptureTypeOK' /\ LinkInv' /\ PhotoInv'
  BY <1>1, <1>2, <1>3, PostMoved
<1>6. \A t \in Post : post'[t] = IF t = s THEN a ELSE post[t]
  BY <1>1, <1>2
<1>7. LeftInv'
  <2>1. \A h \in Phone : Unheard(h)' => Unheard(h)
    <3>1. ASSUME NEW x \in Photo, post'[<<x, item[x].try>>] = "201", item[x].at = "sending"
          PROVE  post[<<x, item[x].try>>] = "201"
      <4>1. <<x, item[x].try>> \in Post
        BY <3>1 DEF CaptureInv, CaptureTypeOK, PhotoInv, Post
      <4>2. QED
        BY <1>3, <1>6, <3>1, <4>1
    <3>2. QED
      BY <1>1, <3>1 DEF Unheard
  <2>2. QED
    BY <1>1, <2>1 DEF CaptureInv, LeftInv
<1>8. StoringInv'
  <2>1. StoringNow' \subseteq StoringNow \cup {s}
    BY <1>6 DEF StoringNow
  <2>2. IsFiniteSet(StoringNow \cup {s}) /\ Cardinality(StoringNow \cup {s}) <= MaxStoring
    <3>1. IsFiniteSet(StoringNow) /\ Cardinality(StoringNow) \in Nat
      BY FS_CardinalityType DEF CaptureInv, StoringInv
    <3>2. IsFiniteSet(StoringNow \cup {s})
      BY <3>1, FS_AddElement
    <3>3. Cardinality(StoringNow \cup {s}) \in {Cardinality(StoringNow), Cardinality(StoringNow) + 1}
      BY <3>1, FS_AddElement
    <3>4. QED
      BY <1>1, <3>1, <3>2, <3>3
  <2>3. IsFiniteSet(StoringNow') /\ Cardinality(StoringNow') <= MaxStoring /\ Cardinality(StoringNow') \in Nat
    <3>1. IsFiniteSet(StoringNow') /\ Cardinality(StoringNow') <= Cardinality(StoringNow \cup {s})
      BY <2>1, <2>2, FS_Subset
    <3>2. Cardinality(StoringNow') \in Nat /\ Cardinality(StoringNow \cup {s}) \in Nat
      BY <2>2, <3>1, FS_CardinalityType
    <3>3. QED
      BY <2>2, <3>1, <3>2
  <2>4. ASSUME NEW c \in Code
        PROVE  uses'[c] + Cardinality(StoringBy(c)') <= MaxUses - 1 + MaxStoring
    <3>1. uses'[c] = uses[c] /\ uses[c] \in Nat
      BY <1>1, <1>2
    <3>2. CASE a = "storing" /\ CodeOf(s) = c
      <4>1. StoringBy(c)' \subseteq StoringNow'
        BY DEF StoringBy, StoringNow
      <4>2. Cardinality(StoringBy(c)') <= Cardinality(StoringNow') /\ IsFiniteSet(StoringBy(c)')
        BY <2>3, <4>1, FS_Subset
      <4>3. Cardinality(StoringBy(c)') \in Nat
        BY <4>2, FS_CardinalityType
      <4>4. QED
        BY <1>4, <2>3, <3>1, <3>2, <4>2, <4>3
    <3>3. CASE ~(a = "storing" /\ CodeOf(s) = c)
      <4>1. StoringBy(c)' \subseteq StoringBy(c)
        <5>1. \A t \in Post : CodeOf(t)' = CodeOf(t)
          BY <1>1 DEF CodeOf
        <5>2. QED
          BY <1>6, <3>3, <5>1 DEF StoringBy
      <4>2. IsFiniteSet(StoringBy(c)) /\ Cardinality(StoringBy(c)) \in Nat
        BY StoringCounted DEF CaptureInv
      <4>3. Cardinality(StoringBy(c)') <= Cardinality(StoringBy(c)) /\ IsFiniteSet(StoringBy(c)')
        BY <4>1, <4>2, FS_Subset
      <4>4. Cardinality(StoringBy(c)') \in Nat
        BY <4>3, FS_CardinalityType
      <4>5. uses[c] + Cardinality(StoringBy(c)) <= MaxUses - 1 + MaxStoring
        BY DEF CaptureInv, StoringInv
      <4>6. QED
        BY <3>1, <4>2, <4>3, <4>4, <4>5
    <3>4. QED
      BY <3>2, <3>3
  <2>5. QED
    BY <2>3, <2>4 DEF StoringInv
<1>9. QED
  BY <1>5, <1>7, <1>8 DEF CaptureInv

LEMMA StoreSteps ==
  ASSUME CaptureInv, NEW s \in Post, Stores(s)
  PROVE  CaptureInv'
<1> USE CaptureBasics
<1> DEFINE heard(answer) == IF item[s[1]].at = "sending" /\ item[s[1]].try = s[2] THEN answer ELSE "none"
<1>1. post[s] = "storing" /\ UNCHANGED <<made, live, owner, ended, dialog, page, item>>
  BY DEF Stores
<1>2. /\ post \in [Post -> PostStates] /\ uses \in [Code -> Nat] /\ got \in [Code -> SUBSET Photo]
      /\ stored \subseteq Photo /\ live \subseteq Code /\ \A c \in Code : IsFiniteSet(got[c])
  BY DEF CaptureInv, CaptureTypeOK, LinkInv, PostStates
<1>3. s[1] \in Photo
  BY <1>1, PostedBy
<1>4. PICK a \in PostStates :
        /\ post' = [post EXCEPT ![s] = a] /\ a # "storing"
        /\ \/ a # "201" /\ (a = "409" => s[1] \in stored) /\ UNCHANGED <<uses, got, stored>>
           \/ /\ stored' = stored \cup {s[1]} /\ a \in {"201", "none"}
              /\ uses' = IF CodeOf(s) \in live THEN [uses EXCEPT ![CodeOf(s)] = @ + 1] ELSE uses
              /\ got' = IF CodeOf(s) \in live THEN [got EXCEPT ![CodeOf(s)] = @ \cup {s[1]}] ELSE got
  <2>1. CASE Answers(s, "refused") /\ UNCHANGED <<uses, got, stored>>
    <3>1. post' = [post EXCEPT ![s] = heard("refused")]
      BY <2>1 DEF Answers
    <3>2. heard("refused") \in {"refused", "none"} /\ heard("refused") \in PostStates
      BY DEF PostStates
    <3> HIDE DEF heard
    <3>3. QED
      BY <2>1, <3>1, <3>2
  <2>2. CASE s[1] \in stored /\ Answers(s, "409") /\ UNCHANGED <<uses, got, stored>>
    <3>1. post' = [post EXCEPT ![s] = heard("409")]
      BY <2>2 DEF Answers
    <3>2. heard("409") \in {"409", "none"} /\ heard("409") \in PostStates
      BY DEF PostStates
    <3> HIDE DEF heard
    <3>3. QED
      BY <2>2, <3>1, <3>2
  <2>3. CASE /\ Answers(s, "201") /\ stored' = stored \cup {s[1]}
             /\ uses' = IF CodeOf(s) \in live THEN [uses EXCEPT ![CodeOf(s)] = @ + 1] ELSE uses
             /\ got' = IF CodeOf(s) \in live THEN [got EXCEPT ![CodeOf(s)] = @ \cup {s[1]}] ELSE got
    <3>1. post' = [post EXCEPT ![s] = heard("201")]
      BY <2>3 DEF Answers
    <3>2. heard("201") \in {"201", "none"} /\ heard("201") \in PostStates
      BY DEF PostStates
    <3> HIDE DEF heard
    <3>3. QED
      BY <2>3, <3>1, <3>2
  <2>4. QED
    BY <2>1, <2>2, <2>3 DEF Stores
<1>5. /\ stored \subseteq stored' /\ stored' \subseteq Photo
      /\ uses' \in [Code -> Nat] /\ got' \in [Code -> SUBSET Photo]
      /\ a \in {"201", "409"} => s[1] \in stored'
      /\ \A c \in Code : uses'[c] = uses[c] \/ (c = CodeOf(s) /\ uses'[c] = uses[c] + 1)
      /\ a = "201" /\ CodeOf(s) \in live => uses'[CodeOf(s)] = uses[CodeOf(s)] + 1
      /\ \A c \in Code : got'[c] = got[c] \/ got'[c] = got[c] \cup {s[1]}
  <2>1. CASE a # "201" /\ (a = "409" => s[1] \in stored) /\ UNCHANGED <<uses, got, stored>>
    BY <1>2, <2>1
  <2>2. CASE /\ stored' = stored \cup {s[1]} /\ a \in {"201", "none"}
             /\ uses' = IF CodeOf(s) \in live THEN [uses EXCEPT ![CodeOf(s)] = @ + 1] ELSE uses
             /\ got' = IF CodeOf(s) \in live THEN [got EXCEPT ![CodeOf(s)] = @ \cup {s[1]}] ELSE got
    <3>1. stored \subseteq stored' /\ stored' \subseteq Photo /\ (a \in {"201", "409"} => s[1] \in stored')
      BY <1>2, <1>3, <2>2
    <3>2. CASE CodeOf(s) \in live
      <4>1. /\ CodeOf(s) \in Code /\ uses' = [uses EXCEPT ![CodeOf(s)] = uses[CodeOf(s)] + 1]
            /\ got' = [got EXCEPT ![CodeOf(s)] = got[CodeOf(s)] \cup {s[1]}]
        BY <1>2, <2>2, <3>2
      <4>2. /\ uses' \in [Code -> Nat]
            /\ \A c \in Code : uses'[c] = uses[c] \/ (c = CodeOf(s) /\ uses'[c] = uses[c] + 1)
            /\ uses'[CodeOf(s)] = uses[CodeOf(s)] + 1
        BY <1>2, <4>1
      <4>3. /\ got' \in [Code -> SUBSET Photo]
            /\ \A c \in Code : got'[c] = got[c] \/ got'[c] = got[c] \cup {s[1]}
        BY <1>2, <1>3, <4>1
      <4>4. QED
        BY <3>1, <4>2, <4>3
    <3>3. CASE CodeOf(s) \notin live
      BY <1>2, <2>2, <3>1, <3>3
    <3>4. QED
      BY <3>2, <3>3
  <2>3. QED
    BY <1>4, <2>1, <2>2
<1>6. CaptureTypeOK' /\ LinkInv' /\ PhotoInv'
  <2>1. \A c \in Code : got[c] \subseteq got'[c] /\ IsFiniteSet(got'[c])
    <3>1. \A c \in Code : got'[c] = got[c] \/ got'[c] = got[c] \cup {s[1]}
      BY <1>5
    <3>2. ASSUME NEW c \in Code PROVE got[c] \subseteq got'[c] /\ IsFiniteSet(got'[c])
      <4>1. IsFiniteSet(got[c]) /\ IsFiniteSet(got[c] \cup {s[1]})
        BY <1>2, FS_AddElement
      <4>2. QED
        BY <3>1, <4>1
    <3>3. QED
      BY <3>2
  <2>2. live' \subseteq live
    BY <1>1
  <2>3. QED
    BY <1>1, <1>4, <1>5, <2>1, <2>2, PostMoved
<1>7. \A t \in Post : post'[t] = IF t = s THEN a ELSE post[t]
  BY <1>2, <1>4
<1>8. LeftInv'
  <2>1. ASSUME NEW h \in Phone, Unheard(h)', ~Unheard(h) PROVE a = "201" /\ CodeOf(s) = page[h].code
    <3>1. PICK x \in Photo : item[x].of = h /\ item[x].at = "sending" /\ post'[<<x, item[x].try>>] = "201"
      BY <1>1, <2>1 DEF Unheard
    <3>2. post[<<x, item[x].try>>] # "201"
      BY <2>1, <3>1 DEF Unheard
    <3>3. <<x, item[x].try>> \in Post
      BY <3>1 DEF CaptureInv, CaptureTypeOK, PhotoInv, Post
    <3>4. s = <<x, item[x].try>> /\ a = "201"
      BY <1>7, <3>1, <3>2, <3>3
    <3>5. QED
      BY <3>1, <3>4 DEF CodeOf
  <2>2. ASSUME NEW h \in Phone, page[h].at = "ready", page[h].code \in live
        PROVE  /\ uses'[page[h].code] + page[h].left >= MaxUses
               /\ Unheard(h)' => page[h].left = 0 \/ uses'[page[h].code] + page[h].left > MaxUses
    <3>1. page[h].code \in Code /\ uses[page[h].code] \in Nat /\ page[h].left \in Nat
      BY <1>2, <2>2 DEF CaptureInv, CaptureTypeOK
    <3>2. uses'[page[h].code] \in Nat /\ uses'[page[h].code] >= uses[page[h].code]
      BY <1>5, <3>1
    <3>3. /\ uses[page[h].code] + page[h].left >= MaxUses
          /\ Unheard(h) => page[h].left = 0 \/ uses[page[h].code] + page[h].left > MaxUses
      BY <2>2 DEF CaptureInv, LeftInv
    <3>4. CASE Unheard(h) \/ ~Unheard(h)'
      BY <3>1, <3>2, <3>3, <3>4
    <3>5. CASE Unheard(h)' /\ ~Unheard(h)
      <4>1. uses'[page[h].code] = uses[page[h].code] + 1
        BY <1>5, <2>1, <2>2, <3>5
      <4>2. QED
        BY <3>1, <3>3, <4>1
    <3>6. QED
      BY <3>4, <3>5
  <2>3. QED
    BY <1>1, <2>2 DEF LeftInv
<1>9. StoringInv'
  <2>1. \A t \in Post : CodeOf(t)' = CodeOf(t)
    BY <1>1 DEF CodeOf
  <2>2. StoringNow' = StoringNow \ {s} /\ \A c \in Code : StoringBy(c)' = StoringBy(c) \ {s}
    BY <1>4, <1>7, <2>1 DEF StoringNow, StoringBy
  <2>3. IsFiniteSet(StoringNow) /\ Cardinality(StoringNow) <= MaxStoring /\ s \in StoringNow
    BY <1>1 DEF CaptureInv, StoringInv, StoringNow
  <2>4. IsFiniteSet(StoringNow') /\ Cardinality(StoringNow') <= MaxStoring
    <3>1. IsFiniteSet(StoringNow') /\ Cardinality(StoringNow') <= Cardinality(StoringNow)
      BY <2>2, <2>3, FS_Subset
    <3>2. Cardinality(StoringNow') \in Nat /\ Cardinality(StoringNow) \in Nat
      BY <2>3, <3>1, FS_CardinalityType
    <3>3. QED
      BY <2>3, <3>1, <3>2
  <2>5. ASSUME NEW c \in Code
        PROVE  uses'[c] + Cardinality(StoringBy(c)') <= MaxUses - 1 + MaxStoring
    <3>1. IsFiniteSet(StoringBy(c)) /\ Cardinality(StoringBy(c)) \in Nat
      BY StoringCounted DEF CaptureInv
    <3>2. uses[c] + Cardinality(StoringBy(c)) <= MaxUses - 1 + MaxStoring /\ uses[c] \in Nat
      BY <1>2 DEF CaptureInv, StoringInv
    <3>3. CASE c = CodeOf(s)
      <4>1. s \in StoringBy(c)
        BY <1>1, <3>3 DEF StoringBy
      <4>2. Cardinality(StoringBy(c)') = Cardinality(StoringBy(c)) - 1
        BY <2>2, <3>1, <4>1, FS_RemoveElement
      <4>3. uses'[c] <= uses[c] + 1 /\ uses'[c] \in Nat
        BY <1>5, <3>2
      <4>4. QED
        BY <3>1, <3>2, <4>2, <4>3
    <3>4. CASE c # CodeOf(s)
      <4>1. uses'[c] = uses[c]
        BY <1>5, <3>4
      <4>2. IsFiniteSet(StoringBy(c)') /\ Cardinality(StoringBy(c)') <= Cardinality(StoringBy(c))
        BY <2>2, <3>1, FS_Subset
      <4>3. Cardinality(StoringBy(c)') \in Nat
        BY <4>2, FS_CardinalityType
      <4>4. QED
        BY <3>1, <3>2, <4>1, <4>2, <4>3
    <3>5. QED
      BY <3>3, <3>4
  <2>6. QED
    BY <2>4, <2>5 DEF StoringInv
<1>10. QED
  BY <1>6, <1>8, <1>9 DEF CaptureInv

-----------------------------------------------------------------------------

LEMMA CaptureInvSteps == CaptureInv /\ [CaptureNext]_captureVars => CaptureInv'
<1> SUFFICES ASSUME CaptureInv, [CaptureNext]_captureVars PROVE CaptureInv'
  OBVIOUS
<1>1. CASE \/ \E c \in Code : Expire(c)
           \/ \E to \in {"in", "out", "removed"} : SignOut(to)
           \/ SignInAgain \/ Open \/ Minted \/ Refused \/ Close \/ Poll
  BY <1>1, DialogSteps
<1>2. CASE \E h \in Phone : Scan(h) \/ PagePoll(h)
  BY <1>2, PageSteps
<1>3. CASE \E h \in Phone, x \in Photo : Pick(h, x)
  BY <1>3, PhotoSteps
<1>4. CASE \E x \in Photo : SendOne(x) \/ NothingBack(x) \/ TryAgain(x) \/ Answered(x)
  BY <1>4, PhotoSteps, AnswerSteps
<1>5. CASE \E s \in Post : Arrives(s) \/ Stores(s)
  BY <1>5, ArriveSteps, StoreSteps
<1>6. CASE UNCHANGED captureVars
  BY <1>6 DEF captureVars, CaptureInv, CaptureTypeOK, LinkInv, OldCodesDead, PhotoInv,
              LeftInv, Unheard, StoringInv, StoringNow, StoringBy, CodeOf
<1>7. QED
  BY <1>1, <1>2, <1>3, <1>4, <1>5, <1>6 DEF CaptureNext

LEMMA CaptureInvAlways == CaptureSpec => []CaptureInv
BY CaptureInvInit, CaptureInvSteps, PTL DEF CaptureSpec

LEMMA CaptureInvSays == CaptureInv => CaptureHolds
<1> SUFFICES ASSUME CaptureInv PROVE CaptureHolds
  OBVIOUS
<1> USE CaptureBasics
<1>1. CapHeld
  BY DEF CaptureInv, StoringInv, StoringBy, CapHeld
<1>2. PhoneTruthful
  <2>1. ASSUME NEW h \in Phone, page[h].at = "ready", page[h].left = 0, page[h].code \in live
        PROVE  uses[page[h].code] >= MaxUses
    <3>1. uses[page[h].code] \in Nat /\ uses[page[h].code] + page[h].left >= MaxUses
      BY <2>1 DEF CaptureInv, CaptureTypeOK, LeftInv
    <3>2. QED
      BY <2>1, <3>1
  <2>2. QED
    BY <2>1 DEF CaptureInv, PhotoInv, PhoneTruthful
<1>3. QED
  BY <1>1, <1>2 DEF CaptureInv, LinkInv, CaptureHolds

\* A code takes no more photos than it allows but for those already past the
\* check, an ended sign-in's codes stay dead, and a phone never says a photo
\* arrived, or a link is full, that did not or is not (pairing.js, Capture.jsx).
THEOREM CaptureStaysHeld == CaptureSpec => []CaptureHolds
BY CaptureInvAlways, CaptureInvSays, PTL

\* A photo the dialog has shown came through its code, so the longer of two
\* lists holds the other: none vanishes while it is open (PhonePairingModal.jsx).
THEOREM ShownNeverVanishes == CaptureSpec => ShownStays
<1> DEFINE OpenStays == dialog.at = "open" /\ dialog'.at = "open" => dialog.photos \subseteq dialog'.photos
<1>1. CaptureInv /\ [CaptureNext]_captureVars => [OpenStays]_captureVars
  <2> SUFFICES ASSUME CaptureInv, [CaptureNext]_captureVars, dialog.at = "open", dialog'.at = "open"
               PROVE  dialog.photos \subseteq dialog'.photos
    OBVIOUS
  <2>1. /\ dialog \in ADialog /\ dialog.code \in Code
        /\ dialog.photos \subseteq got[dialog.code] /\ IsFiniteSet(got[dialog.code])
    <3>1. dialog \in ADialog /\ dialog.code \in Code
      BY CaptureBasics DEF CaptureInv, CaptureTypeOK, LinkInv, ADialog, Code
    <3>2. QED
      BY <3>1 DEF CaptureInv, LinkInv
  <2>2. CASE UNCHANGED dialog
    BY <2>2
  <2>3. CASE Poll
    <3> DEFINE answer == IF dialog.code \in live THEN got[dialog.code] ELSE {}
    <3>1. dialog'.photos = Shown(answer)
      BY <2>1, <2>3 DEF Poll, ADialog
    <3>2. IsFiniteSet(dialog.photos) /\ Cardinality(dialog.photos) \in Nat
      BY <2>1, FS_Subset, FS_CardinalityType
    <3>3. CASE dialog.code \in live
      BY <2>1, <3>1, <3>3 DEF Shown
    <3>4. CASE dialog.code \notin live
      <4>1. answer = {} /\ Cardinality({}) = 0
        BY <3>4, FS_EmptySet
      <4>2. CASE Cardinality(dialog.photos) = 0
        BY <3>2, <4>2, FS_EmptySet
      <4>3. CASE Cardinality(dialog.photos) # 0
        BY <3>1, <3>2, <4>1, <4>3 DEF Shown
      <4>4. QED
        BY <4>2, <4>3
    <3>5. QED
      BY <3>3, <3>4
  <2>4. UNCHANGED dialog \/ Open \/ Minted \/ Refused \/ Close \/ Poll
    BY DEF CaptureNext, captureVars, Expire, SignOut, SignInAgain, Scan, PagePoll, Pick, SendOne,
           NothingBack, TryAgain, Answered, Arrives, Stores
  <2>5. ~Open /\ ~Minted /\ ~Refused /\ ~Close
    BY <2>1 DEF Open, Minted, Refused, Close, ADialog
  <2>6. QED
    BY <2>2, <2>3, <2>4, <2>5
<1>2. QED
  BY <1>1, CaptureInvAlways, PTL DEF CaptureSpec, ShownStays

-----------------------------------------------------------------------------
(* A receipt kept as printed: its rows.                                      *)

Sound(rs) == rs \in Seq(Row) /\ Len(rs) <= MaxRows /\ Placeable(rs)

LEMMA RowsAre ==
  ASSUME NEW rs, rs \in Seq(Row)
  PROVE  Len(rs) \in Nat /\ DOMAIN rs = 1..Len(rs) /\ 0 \notin DOMAIN rs /\ \A i \in DOMAIN rs : rs[i] \in Row
OBVIOUS

LEMMA FieldsAre ==
  ASSUME NEW r \in Row
  PROVE  /\ r.id \in Nat /\ r.under \in Nat /\ r.kind \in Kind /\ r.named \in BOOLEAN /\ r.cents \in Int
         /\ r.on \in Nat /\ r.included \in BOOLEAN /\ r.rate \in Nat /\ r.line \in Line \cup {NoLine}
BY DEF Row

\* Rows that are where they were, or on their own, on rows that are as they were.
LEMMA AlteredKeeps ==
  ASSUME NEW rs, Placeable(rs), NEW qs, DOMAIN qs = DOMAIN rs, 0 \notin DOMAIN rs,
         \A i \in DOMAIN rs : qs[i].on \in {0, rs[i].on},
         \A i \in DOMAIN rs : qs[i].on # 0 =>
           /\ qs[i].under = rs[i].under /\ qs[rs[i].on].kind \in HOLDS /\ qs[rs[i].on].id = rs[rs[i].on].id
  PROVE  Placeable(qs)
<1>1. ASSUME NEW i \in DOMAIN qs, qs[i].on # 0
      PROVE  qs[i].on \in DOMAIN qs /\ qs[qs[i].on].kind \in HOLDS /\ qs[qs[i].on].id = qs[i].under
  <2>1. qs[i].on = rs[i].on /\ rs[i].on # 0
    BY <1>1
  <2> QED BY <2>1, <1>1 DEF Placeable
<1>2. ASSUME NEW some \in SUBSET DOMAIN qs, some # {} PROVE \E i \in some : qs[i].on \notin some
  <2>1. PICK i \in some : rs[i].on \notin some
    BY <1>2 DEF Placeable
  <2>2. qs[i].on \notin some
    BY <2>1
  <2> QED BY <2>2
<1> QED BY <1>1, <1>2 DEF Placeable

-----------------------------------------------------------------------------
(* A row put in.                                                            *)

Moved(o, at) == IF o >= at THEN o + 1 ELSE o
Along(r, at) == [r EXCEPT !.on = Moved(r.on, at)]
Origin(rs, at, fresh, j) == IF j < at THEN rs[j] ELSE IF j = at THEN fresh ELSE rs[j - 1]

LEMMA PutAt ==
  ASSUME NEW T, NEW q \in Seq(T), NEW r \in T, NEW k \in 1..(Len(q) + 1)
  PROVE  /\ Seqs!InsertAt(q, k, r) \in Seq(T) /\ Len(Seqs!InsertAt(q, k, r)) = Len(q) + 1
         /\ \A i \in 1..(Len(q) + 1) : Seqs!InsertAt(q, k, r)[i] = Origin(q, k, r, i)
<1> DEFINE a == SubSeq(q, 1, k - 1)
           c == SubSeq(q, k, Len(q))
           s == a \o <<r>> \o c
<1>a. a \in Seq(T) /\ Len(a) = k - 1 /\ \A i \in 1..(k - 1) : a[i] = q[i]
  OBVIOUS
<1>c. c \in Seq(T) /\ Len(c) = Len(q) - k + 1 /\ \A i \in 1..(Len(q) - k + 1) : c[i] = q[k + i - 1]
  OBVIOUS
<1>s. Seqs!InsertAt(q, k, r) = s
  BY DEF Seqs!InsertAt
<1> HIDE DEF a, c
<1>0. Len(q) \in Nat
  OBVIOUS
<1>b. <<r>> \in Seq(T) /\ Len(<<r>>) = 1 /\ <<r>>[1] = r
  OBVIOUS
<1>1. s \in Seq(T) /\ Len(s) = Len(q) + 1
  <2>1. a \o <<r>> \in Seq(T) /\ Len(a \o <<r>>) = k
    BY <1>0, <1>a, <1>b
  <2>2. s \in Seq(T) /\ Len(s) = k + (Len(q) - k + 1)
    BY <2>1, <1>c
  <2> QED BY <1>0, <2>2
<1>2. ASSUME NEW i \in 1..(Len(q) + 1) PROVE s[i] = Origin(q, k, r, i)
  <2>1. CASE i < k
    BY <2>1, <1>a, <1>c, <1>1 DEF Origin
  <2>2. CASE i = k
    BY <2>2, <1>a, <1>c, <1>1 DEF Origin
  <2>3. CASE i > k
    <3>0. i - k \in 1..(Len(q) - k + 1)
      BY <2>3, <1>0
    <3>1. s[i] = c[i - k]
      BY <2>3, <3>0, <1>a, <1>c, <1>1
    <3>2. c[i - k] = q[k + (i - k) - 1] /\ k + (i - k) - 1 = i - 1
      BY <3>0, <1>c
    <3>3. Origin(q, k, r, i) = q[i - 1]
      BY <2>3 DEF Origin
    <3> QED BY <3>1, <3>2, <3>3
  <2>4. i \in Int /\ k \in Int
    BY <1>0
  <2>5. i < k \/ i = k \/ i > k
    BY <2>4
  <2> HIDE DEF s
  <2> QED BY <2>1, <2>2, <2>3, <2>5
<1> HIDE DEF s
<1> QED BY <1>1, <1>2, <1>s

LEMMA InsertedIs ==
  ASSUME NEW rs \in Seq(Row), NEW at \in 1..(Len(rs) + 1), NEW fresh \in Row
  PROVE  /\ InsertRow(rs, at, fresh) \in Seq(Row) /\ Len(InsertRow(rs, at, fresh)) = Len(rs) + 1
         /\ \A j \in 1..(Len(rs) + 1) : InsertRow(rs, at, fresh)[j] = Along(Origin(rs, at, fresh, j), at)
<1> DEFINE qs == [i \in DOMAIN rs |-> Along(rs[i], at)]
<1>1. Len(rs) \in Nat /\ DOMAIN rs = 1..Len(rs) /\ \A i \in DOMAIN rs : rs[i] \in Row
  BY RowsAre
<1>2. ASSUME NEW r \in Row PROVE Along(r, at) \in Row
  <2>1. PICK o \in Nat : o = Moved(r.on, at)
    BY <1>1, FieldsAre DEF Moved
  <2>2. Along(r, at) = [r EXCEPT !.on = o]
    BY <2>1 DEF Along
  <2> QED BY <2>2 DEF Row
<1>3. qs \in Seq(Row) /\ Len(qs) = Len(rs) /\ \A i \in DOMAIN rs : qs[i] = Along(rs[i], at)
  <2> HIDE DEF Along
  <2> QED BY <1>1, <1>2
<1>4. InsertRow(rs, at, fresh) = Seqs!InsertAt(qs, at, Along(fresh, at))
  BY DEF InsertRow, Along, Moved
<1> HIDE DEF qs
<1>5. Along(fresh, at) \in Row /\ at \in 1..(Len(qs) + 1)
  BY <1>2, <1>3
<1>6. /\ Seqs!InsertAt(qs, at, Along(fresh, at)) \in Seq(Row) /\ Len(Seqs!InsertAt(qs, at, Along(fresh, at))) = Len(qs) + 1
      /\ \A i \in 1..(Len(qs) + 1) : Seqs!InsertAt(qs, at, Along(fresh, at))[i] = Origin(qs, at, Along(fresh, at), i)
  BY <1>3, <1>5, PutAt
<1>7. ASSUME NEW j \in 1..(Len(rs) + 1) PROVE Origin(qs, at, Along(fresh, at), j) = Along(Origin(rs, at, fresh, j), at)
  <2>1. j < at => j \in DOMAIN rs
    BY <1>1
  <2>2. j > at => j - 1 \in DOMAIN rs
    BY <1>1
  <2> QED BY <1>1, <1>3, <2>1, <2>2 DEF Origin
<1> QED BY <1>3, <1>4, <1>6, <1>7

\* A row that stands on its own, or under one that may hold it, may be put in anywhere.
LEMMA InsertedSound ==
  ASSUME NEW rs, Sound(rs), Len(rs) < MaxRows, NEW at \in 1..(Len(rs) + 1), NEW fresh \in Row,
         fresh.on # 0 => fresh.on \in DOMAIN rs /\ rs[fresh.on].kind \in HOLDS /\ rs[fresh.on].id = fresh.under
  PROVE  Sound(InsertRow(rs, at, fresh))
<1> USE DEF Sound
<1>0. Len(rs) \in Nat /\ DOMAIN rs = 1..Len(rs) /\ (\A i \in DOMAIN rs : rs[i] \in Row) /\ MaxRows \in Nat
  BY RowsAre, PrintedAssumption
<1>1. PICK new : new = InsertRow(rs, at, fresh)
  OBVIOUS
<1>2. new \in Seq(Row) /\ Len(new) = Len(rs) + 1 /\ \A j \in 1..(Len(rs) + 1) : new[j] = Along(Origin(rs, at, fresh, j), at)
  BY <1>1, InsertedIs
<1>3. DOMAIN new = 1..(Len(rs) + 1)
  BY <1>0, <1>2
<1>a. \A r \in Row : /\ Along(r, at).on = Moved(r.on, at) /\ Along(r, at).id = r.id /\ Along(r, at).kind = r.kind
                     /\ Along(r, at).under = r.under
  BY DEF Along, Row
<1>4. ASSUME NEW j \in DOMAIN new
      PROVE  /\ Origin(rs, at, fresh, j) \in Row
             /\ Origin(rs, at, fresh, j).on # 0 =>
                  /\ Origin(rs, at, fresh, j).on \in DOMAIN rs
                  /\ rs[Origin(rs, at, fresh, j).on].kind \in HOLDS
                  /\ rs[Origin(rs, at, fresh, j).on].id = Origin(rs, at, fresh, j).under
  <2>1. CASE j < at
    <3>1. j \in DOMAIN rs /\ Origin(rs, at, fresh, j) = rs[j]
      BY <2>1, <1>0, <1>3 DEF Origin
    <3> QED BY <3>1, <1>0 DEF Placeable
  <2>2. CASE j = at
    BY <2>2, <1>0 DEF Origin
  <2>3. CASE j > at
    <3>1. j - 1 \in DOMAIN rs /\ Origin(rs, at, fresh, j) = rs[j - 1]
      BY <2>3, <1>0, <1>3 DEF Origin
    <3> QED BY <3>1, <1>0 DEF Placeable
  <2> QED BY <2>1, <2>2, <2>3, <1>3
<1>5. ASSUME NEW o \in DOMAIN rs PROVE Moved(o, at) \in DOMAIN new /\ Moved(o, at) # 0 /\ Origin(rs, at, fresh, Moved(o, at)) = rs[o]
  BY <1>0, <1>3 DEF Moved, Origin
<1>6. Moved(0, at) = 0
  BY DEF Moved
<1>7. ASSUME NEW j \in DOMAIN new, new[j].on # 0
      PROVE  new[j].on \in DOMAIN new /\ new[new[j].on].kind \in HOLDS /\ new[new[j].on].id = new[j].under
  <2>1. PICK r \in Row : r = Origin(rs, at, fresh, j)
    BY <1>4
  <2>2. new[j].on = Moved(r.on, at) /\ new[j].under = r.under
    BY <1>2, <1>3, <1>a, <2>1
  <2>3. r.on \in DOMAIN rs /\ rs[r.on].kind \in HOLDS /\ rs[r.on].id = r.under
    BY <1>4, <1>6, <1>7, <2>1, <2>2
  <2>4. new[j].on \in DOMAIN new /\ new[new[j].on] = Along(rs[r.on], at)
    BY <1>2, <1>3, <1>5, <2>2, <2>3
  <2> QED BY <1>0, <1>a, <2>2, <2>3, <2>4
<1>8. ASSUME NEW some \in SUBSET DOMAIN new, some # {} PROVE \E j \in some : new[j].on \notin some
  <2> DEFINE T == {o \in DOMAIN rs : Moved(o, at) \in some}
  <2>0. 0 \notin some
    BY <1>3
  <2>1. ASSUME NEW j \in some, Origin(rs, at, fresh, j).on \notin T PROVE new[j].on \notin some
    <3>1. PICK r \in Row : r = Origin(rs, at, fresh, j)
      BY <1>4
    <3>2. new[j].on = Moved(r.on, at)
      BY <1>2, <1>3, <1>a, <3>1
    <3>3. CASE r.on = 0
      BY <1>6, <2>0, <3>2, <3>3
    <3>4. CASE r.on # 0
      <4>1. r.on \in DOMAIN rs /\ r.on \notin T
        BY <1>4, <2>1, <3>1, <3>4
      <4> QED BY <3>2, <4>1
    <3> QED BY <3>3, <3>4
  <2>2. CASE T = {}
    <3>1. PICK j \in some : TRUE
      BY <1>8
    <3> QED BY <2>1, <2>2, <3>1
  <2>3. CASE T # {}
    <3>1. T \in SUBSET DOMAIN rs
      OBVIOUS
    <3>2. PICK o \in T : rs[o].on \notin T
      <4> HIDE DEF T
      <4> QED BY <2>3, <3>1 DEF Placeable
    <3>3. Moved(o, at) \in some /\ Origin(rs, at, fresh, Moved(o, at)) = rs[o]
      BY <1>5, <3>2
    <3>4. new[Moved(o, at)].on \notin some
      <4> HIDE DEF T
      <4> QED BY <2>1, <3>2, <3>3
    <3> QED BY <3>3, <3>4
  <2> QED BY <2>2, <2>3
<1>9. Len(new) <= MaxRows
  BY <1>0, <1>2
<1> QED BY <1>1, <1>2, <1>7, <1>8, <1>9 DEF Placeable

-----------------------------------------------------------------------------
(* Rows kept.                                                               *)

LEMMA ReindexSound ==
  ASSUME NEW rs, Sound(rs), NEW keep \in SUBSET DOMAIN rs
  PROVE  Sound(Reindex(rs, keep))
<1> USE DEF Sound
<1>0. Len(rs) \in Nat /\ DOMAIN rs = 1..Len(rs) /\ (\A i \in DOMAIN rs : rs[i] \in Row) /\ MaxRows \in Nat
  BY RowsAre, PrintedAssumption
<1>1. keep \in SUBSET Nat /\ IsFiniteSet(keep) /\ Cardinality(keep) <= Len(rs)
  <2>0. 1 \in Int /\ Len(rs) \in Int /\ (1 > Len(rs) => Len(rs) = 0)
    BY <1>0
  <2>a. IsFiniteSet(1..Len(rs)) /\ Cardinality(1..Len(rs)) = IF 1 > Len(rs) THEN 0 ELSE Len(rs) - 1 + 1
    BY <2>0, FS_Interval
  <2>1. IsFiniteSet(1..Len(rs)) /\ Cardinality(1..Len(rs)) = Len(rs)
    BY <2>0, <2>a
  <2>2. keep \in SUBSET (1..Len(rs))
    BY <1>0
  <2> QED BY <2>1, <2>2, FS_Subset
<1>2. PICK place, m : place = Ordered(keep) /\ m = Cardinality(keep)
  OBVIOUS
<1>3. /\ m \in Nat
      /\ \A k \in 1..m : place[k] \in keep /\ Before(keep, place[k]) = k - 1
      /\ \A i \in keep : Before(keep, i) + 1 \in 1..m /\ place[Before(keep, i) + 1] = i
  <2>1. /\ Cardinality(keep) \in Nat
        /\ \A k \in 1..Cardinality(keep) : Ordered(keep)[k] \in keep /\ Before(keep, Ordered(keep)[k]) = k - 1
        /\ \A i \in keep : Before(keep, i) + 1 \in 1..Cardinality(keep) /\ Ordered(keep)[Before(keep, i) + 1] = i
    BY ONLY <1>1, OrderedIs, Zenon DEF Before
  <2> QED BY <1>2, <2>1
<1> DEFINE At(o) == IF o \in keep THEN Before(keep, o) + 1 ELSE 0
<1>4. PICK new : new = Reindex(rs, keep)
  OBVIOUS
<1>5. new = [n \in 1..m |-> [rs[place[n]] EXCEPT !.on = At(rs[place[n]].on)]]
  BY <1>2, <1>4 DEF Reindex, Ordered, Before
<1>6. \A o : At(o) \in Nat
  BY <1>3
<1>7. ASSUME NEW n \in 1..m
      PROVE  /\ new[n] \in Row /\ place[n] \in DOMAIN rs
             /\ new[n].on = At(rs[place[n]].on) /\ new[n].id = rs[place[n]].id /\ new[n].kind = rs[place[n]].kind
             /\ new[n].under = rs[place[n]].under
  <2>1. place[n] \in keep /\ place[n] \in DOMAIN rs
    BY <1>3
  <2>2. PICK r \in Row : r = rs[place[n]]
    BY <1>0, <2>1
  <2>3. PICK o \in Nat : o = At(r.on)
    BY <1>6
  <2>4. new[n] = [r EXCEPT !.on = o]
    BY <1>5, <2>2, <2>3
  <2>5. [r EXCEPT !.on = o] \in Row
    BY DEF Row
  <2> HIDE DEF At
  <2> QED BY <2>1, <2>2, <2>3, <2>4, <2>5 DEF Row
<1>8. new \in Seq(Row) /\ DOMAIN new = 1..m /\ Len(new) = m
  <2>1. DOMAIN new = 1..m /\ new = [n \in 1..m |-> new[n]]
    BY <1>5
  <2>2. \A n \in 1..m : new[n] \in Row
    BY <1>7
  <2> QED BY <1>3, <2>1, <2>2
<1>9. ASSUME NEW n \in DOMAIN new, new[n].on # 0
      PROVE  new[n].on \in DOMAIN new /\ new[new[n].on].kind \in HOLDS /\ new[new[n].on].id = new[n].under
  <2>1. PICK o : o = rs[place[n]].on /\ new[n].on = At(o)
    BY <1>7, <1>8
  <2>2. o \in keep /\ o # 0
    BY <1>0, <1>9, <2>1
  <2>3. At(o) \in 1..m /\ place[At(o)] = o
    BY <1>3, <2>2
  <2>4. rs[o].kind \in HOLDS /\ rs[o].id = rs[place[n]].under
    BY <1>7, <1>8, <2>1, <2>2 DEF Placeable
  <2> HIDE DEF At
  <2> QED BY <1>7, <1>8, <2>1, <2>3, <2>4
<1>10. ASSUME NEW some \in SUBSET DOMAIN new, some # {} PROVE \E n \in some : new[n].on \notin some
  <2> DEFINE T == {place[n] : n \in some}
  <2>1. T \in SUBSET DOMAIN rs /\ T # {}
    BY <1>7, <1>8, <1>10
  <2>2. PICK i \in T : rs[i].on \notin T
    <3> HIDE DEF T
    <3> QED BY <2>1 DEF Placeable
  <2>3. PICK n \in some : i = place[n]
    BY <2>2
  <2>4. new[n].on = At(rs[i].on)
    BY <1>7, <1>8, <2>3
  <2>5. CASE rs[i].on \in keep
    <3>1. place[At(rs[i].on)] = rs[i].on
      BY <1>3, <2>5
    <3>2. At(rs[i].on) \notin some
      BY <2>2, <3>1
    <3> HIDE DEF At
    <3> QED BY <2>3, <2>4, <3>2
  <2>6. CASE rs[i].on \notin keep
    BY <1>8, <2>3, <2>4, <2>6
  <2> QED BY <2>5, <2>6
<1>11. Len(new) <= MaxRows
  BY <1>0, <1>1, <1>2, <1>8
<1> QED BY <1>4, <1>8, <1>9, <1>10, <1>11 DEF Placeable

LEMMA AlteredSound ==
  ASSUME NEW rs, Sound(rs), NEW qs \in Seq(Row), Len(qs) = Len(rs),
         \A i \in DOMAIN rs : qs[i].on \in {0, rs[i].on},
         \A i \in DOMAIN rs : qs[i].on # 0 =>
           /\ qs[i].under = rs[i].under /\ qs[rs[i].on].kind \in HOLDS /\ qs[rs[i].on].id = rs[rs[i].on].id
  PROVE  Sound(qs)
<1>1. DOMAIN qs = DOMAIN rs /\ 0 \notin DOMAIN rs
  BY RowsAre DEF Sound
<1>2. Placeable(qs)
  BY <1>1, AlteredKeeps DEF Sound
<1> QED BY <1>2 DEF Sound

\* A row may change its figures, its words and its line.
LEMMA SetSound ==
  ASSUME NEW rs, Sound(rs), NEW i \in DOMAIN rs, NEW r \in Row,
         r.on = rs[i].on, r.under = rs[i].under, r.kind = rs[i].kind, r.id = rs[i].id
  PROVE  Sound([rs EXCEPT ![i] = r]) /\ Len([rs EXCEPT ![i] = r]) = Len(rs)
<1>1. rs \in Seq(Row) /\ Len(rs) \in Nat /\ DOMAIN rs = 1..Len(rs)
  BY RowsAre DEF Sound
<1>2. PICK qs : qs = [rs EXCEPT ![i] = r]
  OBVIOUS
<1>3. qs \in Seq(Row) /\ Len(qs) = Len(rs) /\ DOMAIN qs = DOMAIN rs
  BY <1>1, <1>2
<1>4. \A j \in DOMAIN rs : qs[j].on = rs[j].on /\ qs[j].under = rs[j].under /\ qs[j].kind = rs[j].kind /\ qs[j].id = rs[j].id
  BY <1>2
<1>5. \A j \in DOMAIN rs : rs[j].on # 0 => rs[j].on \in DOMAIN rs /\ rs[rs[j].on].kind \in HOLDS
  BY DEF Sound, Placeable
<1>a. \A j \in DOMAIN rs : qs[j].on \in {0, rs[j].on}
  BY <1>4
<1>b. \A j \in DOMAIN rs : qs[j].on # 0 =>
        qs[j].under = rs[j].under /\ qs[rs[j].on].kind \in HOLDS /\ qs[rs[j].on].id = rs[rs[j].on].id
  BY <1>4, <1>5
<1>6. Sound(qs)
  BY <1>3, <1>a, <1>b, AlteredSound
<1> QED BY <1>2, <1>3, <1>6

LEMMA ChangedSound ==
  ASSUME NEW rs, Sound(rs), NEW i \in DOMAIN rs, NEW kind \in Kind
  PROVE  Sound(Changed(rs, i, kind))
<1>1. rs \in Seq(Row) /\ Len(rs) \in Nat /\ DOMAIN rs = 1..Len(rs) /\ 0 \notin DOMAIN rs /\ \A j \in DOMAIN rs : rs[j] \in Row
  BY RowsAre DEF Sound
<1>2. PICK qs : qs = Changed(rs, i, kind)
  OBVIOUS
<1>3. ASSUME NEW j \in DOMAIN rs
      PROVE  /\ qs[j] \in Row /\ qs[j].id = rs[j].id /\ qs[j].on \in {0, rs[j].on}
             /\ qs[j].on # 0 => qs[j].under = rs[j].under
             /\ j # i => qs[j].kind = rs[j].kind
             /\ j # i /\ kind \notin HOLDS /\ rs[j].on = i => qs[j].on = 0
  <2>1. PICK r \in Row : r = rs[j]
    BY <1>1
  <2>2. CASE j # i
    <3>1. qs[j] = IF kind \notin HOLDS /\ r.on = i THEN [r EXCEPT !.on = 0, !.under = 0] ELSE r
      BY <1>2, <2>1, <2>2 DEF Changed
    <3>2. [r EXCEPT !.on = 0, !.under = 0] \in Row
      BY DEF Row
    <3> QED BY <2>1, <2>2, <3>1, <3>2 DEF Row
  <2>3. CASE j = i
    <3>1. PICK l, v, q : /\ l = (IF kind = "item" /\ r.line = NoLine THEN Own ELSE r.line)
                         /\ v = (r.included /\ kind = "tax")
                         /\ q = (IF kind = "rounding" THEN NoRate ELSE r.rate)
      OBVIOUS
    <3>2. l \in Line \cup {NoLine} /\ v \in BOOLEAN /\ q \in Nat
      BY <3>1, FieldsAre, PrintedAssumption DEF NoRate
    <3>3. qs[j] = [r EXCEPT !.kind = kind, !.included = v, !.rate = q, !.line = l]
      BY <1>2, <2>1, <2>3, <3>1 DEF Changed
    <3> QED BY <2>1, <2>3, <3>2, <3>3 DEF Row
  <2> QED BY <2>2, <2>3
<1>4. DOMAIN qs = DOMAIN rs /\ qs = [j \in DOMAIN rs |-> qs[j]]
  BY <1>2 DEF Changed
<1>5. qs \in Seq(Row) /\ Len(qs) = Len(rs)
  BY <1>1, <1>3, <1>4
<1>6. qs[i].kind = kind
  <2>1. PICK r \in Row : r = rs[i]
    BY <1>1
  <2> QED BY <1>2, <2>1 DEF Changed, Row
<1>7. ASSUME NEW j \in DOMAIN rs, qs[j].on # 0 PROVE qs[rs[j].on].kind \in HOLDS /\ qs[rs[j].on].id = rs[rs[j].on].id
  <2>1. rs[j].on # 0 /\ rs[j].on \in DOMAIN rs /\ rs[rs[j].on].kind \in HOLDS
    BY <1>3, <1>7 DEF Sound, Placeable
  <2>2. j # i \/ rs[i].on # i
    <3>1. {i} \in SUBSET DOMAIN rs /\ {i} # {}
      OBVIOUS
    <3>2. \E x \in {i} : rs[x].on \notin {i}
      BY <3>1 DEF Sound, Placeable
    <3> QED BY <3>2
  <2>3. CASE rs[j].on = i
    BY <1>3, <1>6, <1>7, <2>1, <2>2, <2>3
  <2>4. CASE rs[j].on # i
    BY <1>3, <2>1, <2>4
  <2> QED BY <2>3, <2>4
<1>8. Sound(qs)
  BY <1>3, <1>5, <1>7, AlteredSound
<1> QED BY <1>2, <1>8

LEMMA RecordSound ==
  ASSUME NEW rs, Sound(rs)
  PROVE  Sound(ToRecord(rs))
<1>1. PICK keep : keep = {i \in DOMAIN rs : ~IsBlank(rs[i])}
  OBVIOUS
<1>2. PICK stood : stood = Reindex(rs, keep)
  OBVIOUS
<1>3. Sound(stood)
  BY <1>1, <1>2, ReindexSound
<1>4. stood \in Seq(Row) /\ Len(stood) \in Nat /\ DOMAIN stood = 1..Len(stood) /\ 0 \notin DOMAIN stood /\ \A j \in DOMAIN stood : stood[j] \in Row
  BY <1>3, RowsAre DEF Sound
<1>5. PICK qs : qs = ToRecord(rs)
  OBVIOUS
<1>6. qs = [i \in DOMAIN stood |-> [stood[i] EXCEPT !.on = IF stood[i].kind \in UNDER THEN stood[i].on ELSE 0,
                                              !.rate = IF stood[i].kind = "rounding" THEN NoRate ELSE stood[i].rate,
                                              !.line = IF stood[i].kind \in HOLDS THEN stood[i].line ELSE NoLine]]
  BY <1>1, <1>2, <1>5 DEF ToRecord
<1>7. ASSUME NEW j \in DOMAIN stood
      PROVE  /\ qs[j] \in Row /\ qs[j].on \in {0, stood[j].on} /\ qs[j].under = stood[j].under
             /\ qs[j].kind = stood[j].kind /\ qs[j].id = stood[j].id
  <2>1. PICK r \in Row : r = stood[j]
    BY <1>4
  <2>2. PICK o, q, l : /\ o = (IF r.kind \in UNDER THEN r.on ELSE 0)
                       /\ q = (IF r.kind = "rounding" THEN NoRate ELSE r.rate)
                       /\ l = (IF r.kind \in HOLDS THEN r.line ELSE NoLine)
    OBVIOUS
  <2>3. o \in Nat /\ o \in {0, r.on} /\ q \in Nat /\ l \in Line \cup {NoLine}
    BY <2>2, FieldsAre DEF NoRate
  <2>4. qs[j] = [r EXCEPT !.on = o, !.rate = q, !.line = l]
    BY <1>6, <2>1, <2>2
  <2> QED BY <2>1, <2>3, <2>4 DEF Row
<1>8. DOMAIN qs = DOMAIN stood /\ qs = [j \in DOMAIN stood |-> qs[j]]
  BY <1>6
<1>9. qs \in Seq(Row) /\ Len(qs) = Len(stood)
  BY <1>4, <1>7, <1>8
<1>10. \A j \in DOMAIN stood : stood[j].on # 0 => stood[j].on \in DOMAIN stood /\ stood[stood[j].on].kind \in HOLDS
  BY <1>3 DEF Sound, Placeable
<1>11. Sound(qs)
  BY SMTT(20), <1>3, <1>7, <1>9, <1>10, AlteredSound
<1> QED BY <1>5, <1>11

LEMMA KeptSound ==
  ASSUME NEW rs, Sound(rs)
  PROVE  /\ Sound(Kept(rs)) /\ Len(Kept(rs)) = Len(rs)
         /\ \A i \in DOMAIN rs : Kept(rs)[i].kind = rs[i].kind /\ Kept(rs)[i].cents = Signed(rs[i])
<1>1. rs \in Seq(Row) /\ Len(rs) \in Nat /\ DOMAIN rs = 1..Len(rs) /\ \A j \in DOMAIN rs : rs[j] \in Row
  BY RowsAre DEF Sound
<1>2. PICK qs : qs = Kept(rs)
  OBVIOUS
<1>3. ASSUME NEW j \in DOMAIN rs
      PROVE  /\ qs[j] \in Row /\ qs[j].on = rs[j].on /\ qs[j].under = rs[j].under
             /\ qs[j].kind = rs[j].kind /\ qs[j].id = rs[j].id /\ qs[j].cents = Signed(rs[j])
  <2>1. PICK r \in Row : r = rs[j]
    BY <1>1
  <2>2. PICK c, v : c = Signed(r) /\ v = (r.included /\ r.kind = "tax")
    OBVIOUS
  <2>3. c \in Int /\ v \in BOOLEAN
    BY <2>2, FieldsAre DEF Signed
  <2>4. qs[j] = [r EXCEPT !.cents = c, !.included = v]
    BY <1>2, <2>1, <2>2 DEF Kept
  <2> QED BY <2>1, <2>2, <2>3, <2>4 DEF Row
<1>4. DOMAIN qs = DOMAIN rs /\ qs = [j \in DOMAIN rs |-> qs[j]]
  BY <1>2 DEF Kept
<1>5. qs \in Seq(Row) /\ Len(qs) = Len(rs)
  BY <1>1, <1>3, <1>4
<1>6. \A j \in DOMAIN rs : rs[j].on # 0 => rs[j].on \in DOMAIN rs /\ rs[rs[j].on].kind \in HOLDS
  BY DEF Sound, Placeable
<1>7. Sound(qs)
  BY SMTT(20), <1>3, <1>5, <1>6, AlteredSound
<1> QED BY <1>2, <1>3, <1>5, <1>7

-----------------------------------------------------------------------------
(* Where a row goes, and what is drawn.                                     *)

Grows(g, rs, i) ==
  g = [n \in 0..Len(rs) |-> IF n = 0 THEN {} ELSE g[n - 1] \cup {j \in DOMAIN rs \ {i} : rs[j].on \in {i} \cup g[n - 1]}]

LEMMA DependentsAre ==
  ASSUME NEW rs \in Seq(Row), NEW i
  PROVE  Dependents(rs, i) \in SUBSET DOMAIN rs
<1>1. Len(rs) \in Nat /\ DOMAIN rs = 1..Len(rs)
  BY RowsAre
<1>2. PICK n, V : n = Len(rs) /\ V = SUBSET DOMAIN rs
  OBVIOUS
<1> DEFINE F(s) == s \cup {j \in DOMAIN rs \ {i} : rs[j].on \in {i} \cup s}
<1>3. PICK step : step = [p \in (1..n) \X V |-> F(p[2])]
  OBVIOUS
<1>4. n \in Nat /\ {} \in V /\ Stays(step, n, V)
  BY <1>1, <1>2, <1>3 DEF Stays
<1>5. \A m \in 1..n, s \in V : step[<<m, s>>] = F(s)
  BY <1>3
<1>6. \E g : Grows(g, rs, i)
  <2>0. PICK none : none = {} /\ none \in V
    BY <1>4
  <2>1. PICK g \in [0..n -> V] : Follows(g, n, none, step)
    BY <1>4, <2>0, StagesStay
  <2>2. g \in [0..n -> V] /\ g[0] = {} /\ \A m \in 1..n : g[m] = step[<<m, g[m - 1]>>]
    BY <2>0, <2>1 DEF Follows
  <2>3. ASSUME NEW m \in 0..n PROVE g[m] = IF m = 0 THEN {} ELSE F(g[m - 1])
    <3>1. CASE m = 0
      BY <2>2, <3>1
    <3>2. CASE m # 0
      <4>1. m \in 1..n /\ m - 1 \in 0..n
        BY <1>4, <3>2
      <4> HIDE DEF F
      <4> QED BY <1>5, <2>2, <3>2, <4>1
    <3> QED BY <3>1, <3>2
  <2>4. g = [m \in 0..n |-> g[m]]
    BY <2>2
  <2>5. Grows(g, rs, i)
    BY <1>2, <2>3, <2>4 DEF Grows
  <2> QED BY <2>5
<1>7. PICK g : Grows(g, rs, i) /\ Dependents(rs, i) = g[Len(rs)]
  BY <1>6 DEF Grows, Dependents
<1>8. \A m \in 0..n : g[m] = IF m = 0 THEN {} ELSE F(g[m - 1])
  BY <1>2, <1>7 DEF Grows
<1> DEFINE G == {m \in 0..n : g[m] \in V}
<1>9. 0 \in G
  <2>1. 0 \in 0..n
    BY <1>4
  <2>2. g[0] = {}
    BY <1>8, <2>1
  <2> QED BY <1>4, <2>1, <2>2
<1>10. ASSUME NEW m \in 1..n, m - 1 \in G PROVE m \in G
  <2>0. m \in 0..n /\ m # 0
    BY <1>4
  <2>1. g[m] = F(g[m - 1])
    <3> HIDE DEF F
    <3> QED BY <1>8, <2>0
  <2> QED BY <1>2, <1>10, <2>0, <2>1
<1>11. \A m \in 0..n : m \in G
  <2> HIDE DEF G
  <2> QED BY <1>4, <1>9, <1>10, StageByStage
<1> QED BY <1>2, <1>4, <1>7, <1>11

\* Some rows have a first and a last one.
LEMMA FirstLast ==
  ASSUME NEW rs \in Seq(Row), NEW some \in SUBSET DOMAIN rs, some # {}
  PROVE  Sets!Min(some) \in some /\ Sets!Max(some) \in some
<1>1. Len(rs) \in Nat /\ DOMAIN rs = 1..Len(rs) /\ some \in SUBSET Nat /\ some \in SUBSET (0..Len(rs))
  BY RowsAre
<1>2. PICK i \in some : \A j \in some : i <= j
  BY <1>1, LeastOfSome
<1>3. PICK k \in some : \A j \in some : j <= k
  BY <1>1, LatestOfSome
<1>4. \A j \in some : k >= j
  BY <1>1, <1>3
<1> QED BY <1>2, <1>4 DEF Sets!Min, Sets!Max

LEMMA PlaceIsThere ==
  ASSUME NEW rs \in Seq(Row), NEW kind \in Kind
  PROVE  InsertPlace(rs, kind) \in 1..(Len(rs) + 1)
<1>1. Len(rs) \in Nat /\ DOMAIN rs = 1..Len(rs)
  BY RowsAre
<1> DEFINE items == {i \in DOMAIN rs : rs[i].kind = "item"}
           tail  == {i \in DOMAIN rs : rs[i].on = 0 /\ (rs[i].kind = "rounding" \/ (rs[i].kind = "tax" /\ rs[i].included))}
           under == {Sets!Max(items)} \cup Dependents(rs, Sets!Max(items))
<1>2. items # {} => Sets!Max(items) \in DOMAIN rs
  <2>1. items \in SUBSET DOMAIN rs
    OBVIOUS
  <2> HIDE DEF items
  <2> QED BY <2>1, FirstLast
<1>3. items # {} => Sets!Max(under) \in DOMAIN rs
  <2>1. items # {} => under \in SUBSET DOMAIN rs /\ under # {}
    <3> HIDE DEF items
    <3> QED BY <1>2, DependentsAre
  <2> HIDE DEF under
  <2> QED BY <2>1, FirstLast
<1>4. tail # {} => Sets!Min(tail) \in DOMAIN rs
  <2>1. tail \in SUBSET DOMAIN rs
    OBVIOUS
  <2> HIDE DEF tail
  <2> QED BY <2>1, FirstLast
<1>5. InsertPlace(rs, kind) = CASE kind = "item" -> (IF items = {} THEN 1 ELSE Sets!Max(under) + 1)
                                [] kind # "item" /\ kind # "rounding" /\ tail # {} -> Sets!Min(tail)
                                [] OTHER -> Len(rs) + 1
  BY DEF InsertPlace
<1> HIDE DEF items, tail, under
<1>6. CASE kind = "item"
  <2>1. InsertPlace(rs, kind) = IF items = {} THEN 1 ELSE Sets!Max(under) + 1
    BY <1>5, <1>6
  <2> QED BY <1>1, <1>3, <2>1
<1>7. CASE kind # "item" /\ kind # "rounding" /\ tail # {}
  <2>1. InsertPlace(rs, kind) = Sets!Min(tail)
    BY <1>5, <1>7
  <2> QED BY <1>1, <1>4, <1>7, <2>1
<1>8. CASE kind # "item" /\ ~(kind # "item" /\ kind # "rounding" /\ tail # {})
  <2>1. InsertPlace(rs, kind) = Len(rs) + 1
    BY <1>5, <1>8
  <2> QED BY <1>1, <2>1
<1> QED BY <1>6, <1>7, <1>8

\* Every row is drawn: each round of drawing draws one more, until all are.
Shows(g, rs) ==
  g = [n \in 0..Len(rs) |-> IF n = 0 THEN Placed(rs) ELSE g[n - 1] \cup {i \in DOMAIN rs : OnOf(rs, i) \in g[n - 1]}]

LEMMA AllAreDrawn == ASSUME NEW rs, Sound(rs) PROVE Drawn(rs) = DOMAIN rs
<1>1. rs \in Seq(Row) /\ Len(rs) \in Nat /\ DOMAIN rs = 1..Len(rs) /\ 0 \notin DOMAIN rs
  BY RowsAre DEF Sound
<1>2. PICK n, V : n = Len(rs) /\ V = SUBSET DOMAIN rs
  OBVIOUS
<1> DEFINE F(s) == s \cup {i \in DOMAIN rs : OnOf(rs, i) \in s}
<1>3. PICK step : step = [p \in (1..n) \X V |-> F(p[2])]
  OBVIOUS
<1>4. n \in Nat /\ Placed(rs) \in V /\ Stays(step, n, V)
  BY <1>1, <1>2, <1>3 DEF Placed, Folded, Stays
<1>5. \A m \in 1..n, s \in V : step[<<m, s>>] = F(s)
  BY <1>3
<1>6. \E g : Shows(g, rs)
  <2>1. PICK g \in [0..n -> V] : Follows(g, n, Placed(rs), step)
    BY <1>4, StagesStay
  <2>2. g \in [0..n -> V] /\ g[0] = Placed(rs) /\ \A m \in 1..n : g[m] = step[<<m, g[m - 1]>>]
    BY <2>1 DEF Follows
  <2>3. ASSUME NEW m \in 0..n PROVE g[m] = IF m = 0 THEN Placed(rs) ELSE F(g[m - 1])
    <3>1. CASE m = 0
      BY <2>2, <3>1
    <3>2. CASE m # 0
      <4>1. m \in 1..n /\ m - 1 \in 0..n
        BY <1>4, <3>2
      <4> HIDE DEF F
      <4> QED BY <1>5, <2>2, <3>2, <4>1
    <3> QED BY <3>1, <3>2
  <2>4. g = [m \in 0..n |-> g[m]]
    BY <2>2
  <2>5. Shows(g, rs)
    BY <1>2, <2>3, <2>4 DEF Shows
  <2> QED BY <2>5
<1>7. PICK g : Shows(g, rs) /\ Drawn(rs) = g[Len(rs)]
  BY <1>6 DEF Shows, Drawn
<1>8. \A m \in 0..n : g[m] = IF m = 0 THEN Placed(rs) ELSE F(g[m - 1])
  BY <1>2, <1>7 DEF Shows
<1>9. IsFiniteSet(DOMAIN rs) /\ Cardinality(DOMAIN rs) = n
  <2>1. 1 \in Int /\ n \in Int /\ (1 > n => n = 0)
    BY <1>4
  <2>2. IsFiniteSet(1..n) /\ Cardinality(1..n) = IF 1 > n THEN 0 ELSE n - 1 + 1
    BY <2>1, FS_Interval
  <2> QED BY <1>1, <1>2, <2>1, <2>2
<1>10. \A s \in V : /\ IsFiniteSet(s) /\ Cardinality(s) \in Nat /\ Cardinality(s) <= n
                    /\ (Cardinality(s) = n => s = DOMAIN rs)
  BY <1>2, <1>9, FS_Subset, FS_CardinalityType
<1> DEFINE G == {m \in 0..n : g[m] \in V /\ Placed(rs) \subseteq g[m] /\ (Cardinality(g[m]) >= m \/ g[m] = DOMAIN rs)}
<1>11. 0 \in G
  <2>0. 0 \in 0..n
    BY <1>4
  <2>1. g[0] = Placed(rs)
    <3> HIDE DEF F
    <3> QED BY <1>8, <2>0
  <2> QED BY <1>4, <1>10, <2>0, <2>1
<1>12. ASSUME NEW m \in 1..n, m - 1 \in G PROVE m \in G
  <2>1. PICK s : s = g[m - 1] /\ s \in V /\ Placed(rs) \subseteq s /\ (Cardinality(s) >= m - 1 \/ s = DOMAIN rs)
    BY <1>12
  <2>0. m \in 0..n /\ m # 0
    BY <1>4
  <2>2. m \in 0..n /\ m # 0 /\ g[m] = F(s)
    <3> HIDE DEF F
    <3> QED BY <1>8, <2>0, <2>1
  <2>3. F(s) \in V /\ s \subseteq F(s)
    BY <1>2, <2>1
  <2>4. CASE s = DOMAIN rs
    <3>1. F(s) = DOMAIN rs
      BY <2>4
    <3> HIDE DEF F
    <3> QED BY <2>1, <2>2, <2>3, <2>4, <3>1
  <2>5. CASE s # DOMAIN rs
    <3> DEFINE M == DOMAIN rs \ s
    <3>1. M \in SUBSET DOMAIN rs /\ M # {}
      BY <1>2, <2>1, <2>5
    <3>2. PICK i \in M : rs[i].on \notin M
      <4> HIDE DEF M
      <4> QED BY <3>1 DEF Sound, Placeable
    <3>3. i \in DOMAIN rs /\ i \notin s /\ OnOf(rs, i) # 0
      BY <2>1, <3>2 DEF Placed
    <3>4. OnOf(rs, i) = rs[i].on /\ rs[i].on \in DOMAIN rs
      BY <3>3 DEF OnOf
    <3>5. OnOf(rs, i) \in s
      BY <3>2, <3>4
    <3>6. i \in F(s)
      BY <3>3, <3>5
    <3> HIDE DEF F, M
    <3>7. s \cup {i} \in SUBSET F(s) /\ IsFiniteSet(F(s)) /\ IsFiniteSet(s)
      BY <1>10, <2>1, <2>3, <3>6
    <3>8. Cardinality(s \cup {i}) = Cardinality(s) + 1
      BY <3>3, <3>7, FS_AddElement
    <3>9. Cardinality(s \cup {i}) <= Cardinality(F(s))
      BY <3>7, FS_Subset
    <3>10. Cardinality(s) \in Nat /\ Cardinality(F(s)) \in Nat /\ Cardinality(s) >= m - 1 /\ m \in Int
      BY <1>4, <1>10, <2>1, <2>3, <2>5
    <3>11. Cardinality(F(s)) >= m
      BY <3>8, <3>9, <3>10
    <3> QED BY <2>1, <2>2, <2>3, <3>11
  <2> QED BY <2>4, <2>5
<1>13. \A m \in 0..n : m \in G
  <2> HIDE DEF G
  <2> QED BY <1>4, <1>11, <1>12, StageByStage
<1>14. n \in G
  BY <1>4, <1>13
<1>15. g[n] \in V /\ (Cardinality(g[n]) >= n \/ g[n] = DOMAIN rs)
  BY <1>14
<1>16. g[n] = DOMAIN rs
  BY <1>4, <1>10, <1>15
<1> QED BY <1>2, <1>7, <1>16

-----------------------------------------------------------------------------
(* No row sits under itself, however far round.                             *)

Climbs(g, rs, i) == g = [n \in 0..Len(rs) |-> IF n = 0 THEN i ELSE IF g[n - 1] = 0 THEN 0 ELSE rs[g[n - 1]].on]

LEMMA ClimbExists ==
  ASSUME NEW rs, Sound(rs), NEW i \in DOMAIN rs
  PROVE  \E g \in [0..Len(rs) -> 0..Len(rs)] : Climbs(g, rs, i)
<1>1. rs \in Seq(Row) /\ Len(rs) \in Nat /\ DOMAIN rs = 1..Len(rs) /\ 0 \notin DOMAIN rs
  BY RowsAre DEF Sound
<1>2. PICK n, V : n = Len(rs) /\ V = 0..n
  OBVIOUS
<1> DEFINE F(k) == IF k = 0 THEN 0 ELSE rs[k].on
<1>3. PICK step : step = [p \in (1..n) \X V |-> F(p[2])]
  OBVIOUS
<1>4. \A k \in V : F(k) \in V
  <2>1. \A k \in V : k # 0 => k \in DOMAIN rs
    BY <1>1, <1>2
  <2>2. \A k \in DOMAIN rs : rs[k].on # 0 => rs[k].on \in DOMAIN rs
    BY DEF Sound, Placeable
  <2>3. 0 \in V /\ DOMAIN rs \subseteq V
    BY <1>1, <1>2
  <2> QED BY <2>1, <2>2, <2>3
<1>5. \A m \in 1..n : \A k \in V : step[<<m, k>>] = F(k)
  BY <1>3
<1> HIDE DEF F
<1>6. n \in Nat /\ i \in V /\ Stays(step, n, V)
  BY SMTT(20), <1>1, <1>2, <1>4, <1>5 DEF Stays
<1>7. PICK g \in [0..n -> V] : Follows(g, n, i, step)
  BY <1>6, StagesStay
<1>8. ASSUME NEW m \in 0..n PROVE g[m] = IF m = 0 THEN i ELSE F(g[m - 1])
  <2>1. CASE m = 0
    BY <1>7, <2>1 DEF Follows
  <2>2. CASE m # 0
    <3>1. m \in 1..n /\ m - 1 \in 0..n
      BY <1>6, <2>2
    <3> QED BY <1>5, <1>7, <2>2, <3>1 DEF Follows
  <2> QED BY <2>1, <2>2
<1>9. g = [m \in 0..n |-> g[m]]
  BY <1>7
<1>10. Climbs(g, rs, i)
  BY <1>2, <1>8, <1>9 DEF Climbs, F
<1> QED BY <1>2, <1>7, <1>10

LEMMA ClimbsUp ==
  ASSUME NEW rs, Sound(rs), NEW i \in DOMAIN rs, NEW g, Climbs(g, rs, i)
  PROVE  \A n \in 1..Len(rs) : g[n] # i
<1>1. rs \in Seq(Row) /\ Len(rs) \in Nat /\ DOMAIN rs = 1..Len(rs) /\ 0 \notin DOMAIN rs
  BY RowsAre DEF Sound
<1>2. \A k \in DOMAIN rs : rs[k].on # 0 => rs[k].on \in DOMAIN rs
  BY DEF Sound, Placeable
<1>3. g[0] = i
  <2>1. 0 \in 0..Len(rs)
    BY <1>1
  <2> QED BY <2>1 DEF Climbs
<1>4. ASSUME NEW n \in 1..Len(rs) PROVE g[n] = IF g[n - 1] = 0 THEN 0 ELSE rs[g[n - 1]].on
  <2>1. n \in 0..Len(rs) /\ n # 0
    BY <1>1
  <2> QED BY <2>1 DEF Climbs
<1>5. SUFFICES ASSUME NEW n \in 1..Len(rs), g[n] = i PROVE FALSE
  OBVIOUS
<1>a. \A m \in 0..Len(rs) : g[m] \in DOMAIN rs \/ g[m] = 0
  <2> DEFINE G == {m \in 0..Len(rs) : g[m] \in DOMAIN rs \/ g[m] = 0}
  <2>1. 0 \in G
    BY <1>1, <1>3
  <2>2. ASSUME NEW m \in 1..Len(rs), m - 1 \in G PROVE m \in G
    <3>1. m \in 0..Len(rs)
      BY <1>1
    <3> QED BY <1>2, <1>4, <2>2, <3>1
  <2>3. \A m \in 0..Len(rs) : m \in G
    <3> HIDE DEF G
    <3> QED BY <1>1, <2>1, <2>2, StageByStage
  <2> QED BY <2>3
\* Once at the top, it stays there, so it was at none before it came back.
<1>6. \A m \in 0..n : g[m] \in DOMAIN rs
  <2> DEFINE G == {m \in 0..n : g[n - m] \in DOMAIN rs}
  <2>1. 0 \in G
    <3>1. n - 0 = n /\ 0 \in 0..n
      BY <1>1
    <3> QED BY <1>5, <3>1
  <2>2. ASSUME NEW m \in 1..n, m - 1 \in G PROVE m \in G
    <3>1. n - (m - 1) \in 1..Len(rs) /\ (n - (m - 1)) - 1 = n - m /\ m \in 0..n
      BY <1>1
    <3>2. g[n - (m - 1)] \in DOMAIN rs
      BY <2>2
    <3>3. g[n - (m - 1)] = IF g[n - m] = 0 THEN 0 ELSE rs[g[n - m]].on
      BY <1>4, <3>1
    <3>4. g[n - m] # 0
      BY <1>1, <3>2, <3>3
    <3>5. CASE n - m = 0
      BY <1>3, <3>1, <3>5
    <3>6. CASE n - m # 0
      <4>1. n - m \in 1..Len(rs)
        BY <1>1, <3>6
      <4>2. n - m \in 0..Len(rs)
        BY <1>1, <4>1
      <4> QED BY <1>a, <4>2, <3>1, <3>4, <4>1
    <3> QED BY <3>5, <3>6
  <2>3. \A m \in 0..n : m \in G
    <3>1. n \in Nat
      BY <1>1
    <3> HIDE DEF G
    <3> QED BY <2>1, <2>2, <3>1, StageByStage
  <2>4. ASSUME NEW m \in 0..n PROVE g[m] \in DOMAIN rs
    <3>1. n - m \in 0..n /\ n - (n - m) = m
      BY <1>1
    <3>2. n - m \in G
      BY <2>3, <3>1
    <3> QED BY <3>1, <3>2
  <2> QED BY <2>4
<1> DEFINE some == {g[m] : m \in 0..(n - 1)}
<1>7. some \in SUBSET DOMAIN rs /\ some # {}
  <2>1. 0 \in 0..(n - 1) /\ \A m \in 0..(n - 1) : m \in 0..n
    BY <1>1
  <2> QED BY <1>6, <2>1
<1>8. PICK k \in some : rs[k].on \notin some
  <2> HIDE DEF some
  <2> QED BY <1>7 DEF Sound, Placeable
<1>10. PICK m \in 0..(n - 1) : k = g[m]
  BY <1>8
<1>11. m + 1 \in 1..Len(rs) /\ (m + 1) - 1 = m /\ m \in 0..n /\ m + 1 \in 0..n
  BY <1>1
<1>12. g[m + 1] = rs[k].on
  <2>1. g[m + 1] = IF g[m] = 0 THEN 0 ELSE rs[g[m]].on
    BY <1>4, <1>11
  <2>2. g[m] # 0
    BY <1>1, <1>6, <1>11
  <2> QED BY <1>10, <2>1, <2>2
<1>13. CASE m + 1 = n
  <2>1. g[m + 1] = g[0] /\ 0 \in 0..(n - 1)
    BY <1>1, <1>3, <1>5, <1>13
  <2> QED BY <1>8, <1>12, <2>1
<1>14. CASE m + 1 # n
  <2>1. m + 1 \in 0..(n - 1)
    BY <1>1, <1>14
  <2> QED BY <1>8, <1>12, <2>1
<1> QED BY <1>13, <1>14

LEMMA AllSitRight == ASSUME NEW rs, Sound(rs), NEW i \in DOMAIN rs PROVE SitsRight(rs, i)
<1>1. PICK g : Climbs(g, rs, i) /\ (SitsRight(rs, i) <=>
        (rs[i].on # 0 => /\ rs[i].on \in DOMAIN rs \ {i} /\ rs[rs[i].on].kind \in HOLDS
                         /\ \A n \in 1..Len(rs) : g[n] # i))
  <2>1. \E g : Climbs(g, rs, i)
    BY ClimbExists
  <2> QED BY <2>1 DEF Climbs, SitsRight
<1>2. \A n \in 1..Len(rs) : g[n] # i
  BY <1>1, ClimbsUp
<1>3. rs[i].on # i
  <2>1. {i} \in SUBSET DOMAIN rs /\ {i} # {}
    OBVIOUS
  <2>2. \E x \in {i} : rs[x].on \notin {i}
    BY <2>1 DEF Sound, Placeable
  <2> QED BY <2>2
<1>4. rs[i].on # 0 => rs[i].on \in DOMAIN rs /\ rs[rs[i].on].kind \in HOLDS
  BY DEF Sound, Placeable
<1> QED BY <1>1, <1>2, <1>3, <1>4

-----------------------------------------------------------------------------
(* The sums the shares are made with.                                       *)

LEMMA SumsAre == \A w, S : Funs!SumFunctionOnSet(w, S) = SumOf(w, S) /\ Funs!SumFunction(w) = SumOf(w, DOMAIN w)
<1>1. \A w, S : Funs!SumFunctionOnSet(w, S) = SumOf(w, S)
  BY DEF SumOf, Funs!SumFunctionOnSet, Funs!FoldFunctionOnSet, Funs!MapThenFoldSet,
         Sums!SumFunctionOnSet, Sums!FoldFunctionOnSet, Sums!MapThenFoldSet
<1> QED BY <1>1 DEF Funs!SumFunction

LEMMA ShareIs == ASSUME NEW n \in Int, NEW w \in Int, NEW all \in Int, all > 0 PROVE Share(n, w, all) \in Int
<1>1. PICK a \in Int : a = 2 * n * w
  OBVIOUS
<1>2. PICK b \in Int : b = 2 * all /\ b > 0
  OBVIOUS
<1>3. (a + all) \div b \in Int
  BY <1>2
<1> QED BY <1>1, <1>2, <1>3 DEF Share

LEMMA LinesAre == IsFiniteSet(Line) /\ Own \in Line
BY PrintedAssumption

\* The last line takes what the others' parts leave, so they come to the whole.
SplitIs(v, n, keys) ==
  /\ v \in [Line -> Int] /\ DOMAIN v = Line /\ SumOf(v, Line) = n
  /\ \A k \in Line \ keys : v[k] = 0

LEMMA SplitByIs ==
  ASSUME NEW n \in Int, NEW weight, DOMAIN weight \subseteq Line, \A k \in DOMAIN weight : weight[k] \in Int,
         NEW last \in DOMAIN weight, NEW all \in Int
  PROVE  SplitIs(SplitBy(n, weight, last, all), n, DOMAIN weight)
<1>1. PICK D : D = DOMAIN weight
  OBVIOUS
<1>2. IsFiniteSet(D) /\ D \in SUBSET Line /\ last \in D
  BY <1>1, LinesAre, FS_Subset
<1>3. Cardinality(D) \in Nat /\ Cardinality(D) > 0
  BY <1>2, FS_CardinalityType, FS_EmptySet
<1>4. PICK part : part = [k \in D |-> IF all > 0 THEN Share(n, weight[k], all) ELSE Share(n, 1, Cardinality(D))]
  OBVIOUS
<1>5. \A k \in D : part[k] \in Int
  <2> SUFFICES ASSUME NEW k \in D PROVE part[k] \in Int
    OBVIOUS
  <2>1. all > 0 => Share(n, weight[k], all) \in Int
    BY <1>1, ShareIs
  <2>2. Share(n, 1, Cardinality(D)) \in Int
    <3>1. Cardinality(D) \in Int /\ 1 \in Int
      BY <1>3
    <3> QED BY <1>3, <3>1, ShareIs
  <2> QED BY <1>4, <2>1, <2>2
<1>6. PICK v : v = SplitBy(n, weight, last, all)
  OBVIOUS
<1>7. PICK rest : rest = SumOf(part, D \ {last})
  OBVIOUS
<1>8. rest \in Int
  <2>1. IsFiniteSet(D \ {last}) /\ \A k \in D \ {last} : part[k] \in Int
    BY <1>2, <1>5, FS_Subset
  <2> QED BY <1>7, <2>1, SumTake
<1>9. v = [k \in Line |-> IF k \notin D THEN 0 ELSE IF k # last THEN part[k] ELSE n - rest]
  BY <1>1, <1>4, <1>6, <1>7, SumsAre DEF SplitBy
<1>10. v \in [Line -> Int] /\ DOMAIN v = Line /\ \A k \in Line \ D : v[k] = 0
  BY <1>5, <1>8, <1>9
<1>11. SumOf(v, Line) = SumOf(v, D)
  BY <1>2, <1>10, LinesAre, SumWithin
<1>12. SumOf(v, D) = v[last] + SumOf(v, D \ {last})
  <2>1. \A k \in D : v[k] \in Int
    BY <1>2, <1>10
  <2> QED BY <1>2, <2>1, SumTake
<1>13. SumOf(v, D \ {last}) = rest
  <2>1. IsFiniteSet(D \ {last})
    BY <1>2, FS_Subset
  <2>2. \A k \in D \ {last} : part[k] \in Int /\ v[k] = part[k]
    BY <1>2, <1>5, <1>9
  <2> QED BY <1>7, <2>1, <2>2, SumSame
<1>14. v[last] = n - rest
  BY <1>2, <1>9
<1>15. SumOf(v, Line) = n
  BY <1>8, <1>11, <1>12, <1>13, <1>14
<1> QED BY <1>1, <1>6, <1>10, <1>15 DEF SplitIs

\* The line that comes up last among some items is there.
LEMMA LastIs ==
  ASSUME NEW over \in SUBSET Nat, IsFiniteSet(over), over # {}, NEW line
  PROVE  LastOf(over, line) \in {line[x] : x \in over}
<1> DEFINE First(k) == Sets!Min({x \in over : line[x] = k})
<1>1. PICK first : first = [y \in over |-> First(line[y])]
  OBVIOUS
<1>2. ASSUME NEW y \in over PROVE first[y] \in Int
  <2> DEFINE T == {x \in over : line[x] = line[y]}
  <2>1. T \in SUBSET Nat /\ T # {}
    OBVIOUS
  <2>2. PICK i \in T : \A j \in T : i <= j
    <3> HIDE DEF T
    <3> QED BY <2>1, LeastOfSome
  <2>3. Sets!Min(T) \in T
    BY <2>2 DEF Sets!Min
  <2> QED BY <1>1, <2>1, <2>3
<1>3. PICK z \in over : \A y \in over : first[y] <= first[z]
  BY <1>2, GreatestOfSome
<1>4. line[z] \in {line[x] : x \in over} /\ \A y \in over : First(line[y]) <= First(line[z])
  BY <1>1, <1>3
<1> QED BY <1>4 DEF LastOf

LEMMA SplitOverIs ==
  ASSUME NEW n \in Int, NEW over \in SUBSET Nat, IsFiniteSet(over), over # {},
         NEW weight, \A x \in over : weight[x] \in Int, NEW line, \A x \in over : line[x] \in Line
  PROVE  SplitIs(SplitOver(n, over, weight, line), n, {line[x] : x \in over})
<1>1. PICK D : D = {line[x] : x \in over}
  OBVIOUS
<1>2. PICK of : of = [k \in D |-> Positive(SumOf(weight, {x \in over : line[x] = k}))]
  OBVIOUS
<1>3. \A k \in D : of[k] \in Int
  <2> SUFFICES ASSUME NEW k \in D PROVE of[k] \in Int
    OBVIOUS
  <2>1. PICK m : m = SumOf(weight, {x \in over : line[x] = k})
    OBVIOUS
  <2>2. IsFiniteSet({x \in over : line[x] = k}) /\ \A x \in {x \in over : line[x] = k} : weight[x] \in Int
    BY FS_Subset
  <2>3. m \in Int
    BY <2>1, <2>2, SumTake
  <2> QED BY <1>2, <2>1, <2>3 DEF Positive
<1>4. D \in SUBSET Line /\ IsFiniteSet(D) /\ DOMAIN of = D
  <2>1. D \in SUBSET Line
    BY <1>1
  <2> QED BY <1>2, <2>1, LinesAre, FS_Subset
<1>5. PICK all : all = SumOf(of, D)
  OBVIOUS
<1>6. all \in Int
  BY <1>3, <1>4, <1>5, SumTake
<1>7. PICK last : last = LastOf(over, line) /\ last \in D
  BY <1>1, LastIs
<1>8. SplitIs(SplitBy(n, of, last, all), n, DOMAIN of)
  BY <1>3, <1>4, <1>6, <1>7, SplitByIs
<1>9. SplitOver(n, over, weight, line) = SplitBy(n, of, last, all)
  BY <1>1, <1>2, <1>4, <1>5, <1>7, SumsAre DEF SplitOver
<1> QED BY <1>1, <1>4, <1>8, <1>9

-----------------------------------------------------------------------------
(* What there is to share over, and by what.                                *)

LEMMA IndexesAre == ASSUME NEW rs \in Seq(Row) PROVE DOMAIN rs \in SUBSET Nat /\ IsFiniteSet(DOMAIN rs)
<1>1. DOMAIN rs = 1..Len(rs) /\ 1 \in Int /\ Len(rs) \in Int
  BY RowsAre
<1>2. IsFiniteSet(1..Len(rs))
  BY <1>1, FS_Interval
<1> QED BY <1>1, <1>2

LEMMA RowsSumIs == ASSUME NEW rs \in Seq(Row) PROVE RowsSum(rs) \in Int
<1>1. PICK w : w = [i \in DOMAIN rs |-> IF rs[i].kind = "tax" /\ rs[i].included THEN 0 ELSE Signed(rs[i])]
  OBVIOUS
<1>2. ASSUME NEW i \in DOMAIN rs PROVE w[i] \in Int
  <2>1. rs[i] \in Row
    BY RowsAre
  <2>2. rs[i].cents \in Int
    BY <2>1, FieldsAre
  <2> QED BY <1>1, <2>2 DEF Signed
<1>3. RowsSum(rs) = SumOf(w, DOMAIN rs)
  BY <1>1, SumsAre DEF RowsSum
<1> QED BY <1>2, <1>3, IndexesAre, SumTake

\* The items, or 0 for them where none is itemised.
LEMMA ItemsAre ==
  ASSUME NEW rs \in Seq(Row)
  PROVE  /\ Items(rs) \in SUBSET Nat /\ IsFiniteSet(Items(rs)) /\ Items(rs) # {}
         /\ \A i \in DOMAIN rs : rs[i].kind = "item" => i \in Items(rs)
         /\ \A i \in Items(rs) : i # 0 => i \in DOMAIN rs /\ rs[i].kind = "item"
<1>1. PICK items : items = {i \in DOMAIN rs : rs[i].kind = "item"}
  OBVIOUS
<1>2. items \in SUBSET Nat /\ IsFiniteSet(items)
  <2>1. items \in SUBSET DOMAIN rs
    BY <1>1
  <2> QED BY <2>1, IndexesAre, FS_Subset
<1>3. Items(rs) = IF items = {} THEN {0} ELSE items
  BY <1>1 DEF Items
<1>4. IsFiniteSet({0})
  BY FS_Singleton
<1> QED BY <1>1, <1>2, <1>3, <1>4

\* No item is negative.
Priced(rs) == Sound(rs) /\ \A i \in DOMAIN rs : rs[i].kind = "item" => rs[i].cents >= 0
Costed(rs, cents, line) ==
  /\ Items(rs) \in SUBSET Nat /\ IsFiniteSet(Items(rs)) /\ Items(rs) # {}
  /\ cents \in [Items(rs) -> Nat] /\ line \in [Items(rs) -> Line]

LEMMA CostsAre == ASSUME NEW rs, Priced(rs), NEW t \in Int PROVE Costed(rs, CentsOf(rs, t), LineOf(rs))
<1>1. rs \in Seq(Row)
  BY DEF Priced, Sound
<1>2. Items(rs) \in SUBSET Nat /\ IsFiniteSet(Items(rs)) /\ Items(rs) # {}
  BY <1>1, ItemsAre
<1>3. ASSUME NEW i \in Items(rs), i # 0 PROVE rs[i].cents \in Nat /\ rs[i].line \in Line \cup {NoLine}
  <2>1. i \in DOMAIN rs /\ rs[i].kind = "item"
    BY <1>1, <1>3, ItemsAre
  <2>2. rs[i] \in Row
    BY <1>1, <2>1, RowsAre
  <2>3. rs[i].cents \in Int /\ rs[i].line \in Line \cup {NoLine}
    BY <2>2, FieldsAre
  <2>4. rs[i].cents >= 0
    BY <2>1 DEF Priced
  <2> QED BY <2>3, <2>4
<1>4. PICK left : left = Positive(t - RowsSum(rs))
  OBVIOUS
<1>5. left \in Nat
  <2>1. RowsSum(rs) \in Int
    BY <1>1, RowsSumIs
  <2> QED BY <1>4, <2>1 DEF Positive
<1>6. CentsOf(rs, t) = [i \in Items(rs) |-> IF i # 0 THEN rs[i].cents ELSE left]
  BY <1>4 DEF CentsOf
<1>7. CentsOf(rs, t) \in [Items(rs) -> Nat]
  BY <1>3, <1>5, <1>6
<1>8. LineOf(rs) \in [Items(rs) -> Line]
  BY <1>3, LinesAre DEF LineOf
<1> QED BY <1>2, <1>7, <1>8 DEF Costed

LEMMA WeightsAre == ASSUME NEW X, NEW cents \in [X -> Nat], NEW over, NEW a PROVE WeightOn(cents, over, a) \in [X -> Nat]
<1>1. DOMAIN cents = X /\ \A x \in X : cents[x] \in Nat
  OBVIOUS
<1> QED BY <1>1 DEF WeightOn

LEMMA SpreadIs ==
  ASSUME NEW X, X # {}, NEW weight \in [X -> Nat] PROVE Spread(weight) \in SUBSET X /\ Spread(weight) # {}
<1>1. CASE \A o \in X : weight[o] = 0
  BY <1>1 DEF Spread
<1>2. CASE ~ \A o \in X : weight[o] = 0
  <2>1. PICK o \in X : weight[o] # 0
    BY <1>2
  <2>2. weight[o] > 0
    BY <2>1
  <2> QED BY <2>2 DEF Spread
<1> QED BY <1>1, <1>2

LEMMA PlacesAre ==
  ASSUME NEW rs, NEW cents, NEW line, Costed(rs, cents, line), NEW anchor
  PROVE  Placement(rs, cents, line, anchor) \in [DOMAIN rs -> [Items(rs) -> Nat]]
<1>1. cents \in [Items(rs) -> Nat]
  BY DEF Costed
<1>2. \A i \in DOMAIN rs : WeightOn(cents, OverOf(rs, line, anchor[i]), anchor[i]) \in [Items(rs) -> Nat]
  BY <1>1, WeightsAre
<1> QED BY <1>2 DEF Placement

-----------------------------------------------------------------------------
(* What each row gives the lines.                                           *)

\* The parts come to the row, and none is on a line no item has.
LEMMA RowOver ==
  ASSUME NEW rs, NEW cents, NEW line, Costed(rs, cents, line), NEW n \in Int,
         NEW over \in SUBSET Items(rs), over # {}, NEW weight, \A x \in Items(rs) : weight[x] \in Int
  PROVE  SplitIs(SplitOver(n, over, weight, line), n, Funs!Range(line))
<1>1. over \in SUBSET Nat /\ IsFiniteSet(over) /\ line \in [Items(rs) -> Line]
  BY FS_Subset DEF Costed
<1>2. (\A x \in over : weight[x] \in Int) /\ (\A x \in over : line[x] \in Line)
  BY <1>1
<1>3. SplitIs(SplitOver(n, over, weight, line), n, {line[x] : x \in over})
  BY <1>1, <1>2, SplitOverIs
<1>4. {line[x] : x \in over} \subseteq Funs!Range(line)
  BY <1>1 DEF Funs!Range
<1> QED BY <1>3, <1>4 DEF SplitIs

\* An item's part of a row.
LEMMA PartIs ==
  ASSUME NEW X, IsFiniteSet(X), NEW weight \in [X -> Nat], NEW n \in Int, NEW x \in X PROVE PartOf(n, weight, x) \in Int
<1>1. PICK all : all = SumOf(weight, X)
  OBVIOUS
<1>2. all \in Nat
  <2>1. \A y \in X : weight[y] \in Nat
    OBVIOUS
  <2> QED BY <1>1, <2>1, SumOfNat
<1>3. PICK most : most = Sets!Max({1, all})
  OBVIOUS
<1>4. most \in Int /\ most > 0
  <2>1. CASE all >= 1
    <3>1. all \in {1, all} /\ \A y \in {1, all} : all >= y
      BY <1>2, <2>1
    <3>2. most \in {1, all} /\ \A y \in {1, all} : most >= y
      BY <1>3, <3>1 DEF Sets!Max
    <3> QED BY <1>2, <3>2
  <2>2. CASE ~(all >= 1)
    <3>1. 1 \in {1, all} /\ \A y \in {1, all} : 1 >= y
      BY <1>2, <2>2
    <3>2. most \in {1, all} /\ \A y \in {1, all} : most >= y
      BY <1>3, <3>1 DEF Sets!Max
    <3> QED BY <1>2, <3>2
  <2> QED BY <2>1, <2>2
<1>5. PICK m \in Int : m = n * weight[x]
  <2>1. weight[x] \in Int
    OBVIOUS
  <2>2. n * weight[x] \in Int
    BY <2>1, TimesSum
  <2> QED BY <2>2
<1>6. Share(m, 1, most) \in Int
  <2>1. 1 \in Int
    OBVIOUS
  <2> QED BY <1>4, <2>1, ShareIs
<1>7. DOMAIN weight = X
  OBVIOUS
<1> QED BY <1>1, <1>3, <1>5, <1>6, <1>7, SumsAre DEF PartOf

LEMMA TaxWeightIs ==
  ASSUME NEW rs, Priced(rs), NEW cents, NEW line, Costed(rs, cents, line),
         NEW place \in [DOMAIN rs -> [Items(rs) -> Nat]], NEW borne, NEW i \in DOMAIN rs
  PROVE  \A x \in Items(rs) : TaxWeight(rs, cents, place, i, borne)[x] \in Int
<1> SUFFICES ASSUME NEW x \in Items(rs) PROVE TaxWeight(rs, cents, place, i, borne)[x] \in Int
  OBVIOUS
<1>0. rs \in Seq(Row) /\ \A j \in DOMAIN rs : rs[j] \in Row
  BY RowsAre DEF Priced, Sound
<1>1. cents \in [Items(rs) -> Nat] /\ DOMAIN cents = Items(rs) /\ IsFiniteSet(Items(rs))
  BY DEF Costed
<1>2. PICK J : J = {j \in DOMAIN rs : rs[j].kind = "discount" \/ j \in borne}
  OBVIOUS
<1>3. PICK w : w = [j \in J |-> PartOf(rs[j].cents, place[j], x)]
  OBVIOUS
<1>4. \A j \in J : w[j] \in Int
  <2> SUFFICES ASSUME NEW j \in J PROVE w[j] \in Int
    OBVIOUS
  <2>1. j \in DOMAIN rs /\ rs[j] \in Row
    BY <1>0, <1>2
  <2>2. rs[j].cents \in Int
    BY <2>1, FieldsAre
  <2>3. place[j] \in [Items(rs) -> Nat]
    BY <2>1
  <2>4. PartOf(rs[j].cents, place[j], x) \in Int
    BY <1>1, <2>2, <2>3, PartIs
  <2> QED BY <1>3, <2>4
<1>5. SumOf(w, J) \in Int
  <2>1. IsFiniteSet(J)
    BY <1>0, <1>2, IndexesAre, FS_Subset
  <2> QED BY <1>4, <2>1, SumTake
<1>6. Funs!SumFunction(w) = SumOf(w, J)
  BY <1>3, SumsAre
<1>7. OnCharge(rs, i) => rs[rs[i].on].cents * place[rs[i].on][x] \in Int
  <2> SUFFICES ASSUME OnCharge(rs, i) PROVE rs[rs[i].on].cents * place[rs[i].on][x] \in Int
    OBVIOUS
  <2>1. rs[i].on \in DOMAIN rs
    BY DEF OnCharge, Priced, Sound, Placeable
  <2>2. rs[rs[i].on] \in Row
    BY <1>0, <2>1
  <2>3. PICK c \in Int : c = rs[rs[i].on].cents
    BY <2>2, FieldsAre
  <2>4. PICK k \in Int : k = place[rs[i].on][x]
    BY <2>1
  <2>5. c * k \in Int
    BY TimesSum
  <2> QED BY <2>3, <2>4, <2>5
<1>8. TaxWeight(rs, cents, place, i, borne)[x] =
        IF OnCharge(rs, i) THEN rs[rs[i].on].cents * place[rs[i].on][x] ELSE cents[x] + SumOf(w, J)
  BY <1>1, <1>2, <1>3, <1>6 DEF TaxWeight
<1>9. cents[x] \in Int
  BY <1>1
<1> QED BY <1>5, <1>7, <1>8, <1>9

\* Each tax comes to what is printed.
TaxesAre(rs, taxed, line) ==
  /\ DOMAIN taxed = Taxes(rs)
  /\ \A i \in Taxes(rs) : SplitIs(taxed[i], rs[i].cents, Funs!Range(line))

LEMMA TaxSharesAre ==
  ASSUME NEW rs, Priced(rs), NEW cents, NEW line, Costed(rs, cents, line),
         NEW place \in [DOMAIN rs -> [Items(rs) -> Nat]], NEW borne
  PROVE  TaxesAre(rs, TaxShares(rs, cents, line, place, borne), line)
<1>0. rs \in Seq(Row) /\ \A j \in DOMAIN rs : rs[j] \in Row
  BY RowsAre DEF Priced, Sound
<1>1. DOMAIN cents = Items(rs) /\ Items(rs) # {}
  BY DEF Costed
<1>2. ASSUME NEW i \in Taxes(rs) PROVE SplitIs(TaxShares(rs, cents, line, place, borne)[i], rs[i].cents, Funs!Range(line))
  <2>1. i \in DOMAIN rs
    BY DEF Taxes
  <2>2. PICK over : over = IF OnCharge(rs, i) THEN Spread(place[rs[i].on]) ELSE TaxedItems(rs, i, Items(rs))
    OBVIOUS
  <2>3. over \in SUBSET Items(rs) /\ over # {}
    <3>1. CASE OnCharge(rs, i)
      <4>1. rs[i].on \in DOMAIN rs
        BY <2>1, <3>1 DEF OnCharge, Priced, Sound, Placeable
      <4>2. place[rs[i].on] \in [Items(rs) -> Nat]
        BY <4>1
      <4>3. PICK w : w = place[rs[i].on] /\ w \in [Items(rs) -> Nat]
        BY <4>2
      <4>4. PICK X : X = Items(rs) /\ X # {} /\ w \in [X -> Nat]
        BY <1>1, <4>3
      <4>5. Spread(w) \in SUBSET X /\ Spread(w) # {}
        BY ONLY <4>4, SpreadIs
      <4> QED BY <2>2, <3>1, <4>3, <4>4, <4>5
    <3>2. CASE ~OnCharge(rs, i) /\ rs[i].on # 0
      <4>1. rs[i].on \in DOMAIN rs /\ rs[rs[i].on].kind = "item"
        BY <2>1, <3>2 DEF OnCharge, Priced, Sound, Placeable
      <4>2. rs[i].on \in Items(rs)
        BY <1>0, <4>1, ItemsAre
      <4>3. over = {rs[i].on}
        BY <2>2, <3>2 DEF TaxedItems
      <4> QED BY <4>2, <4>3
    <3>3. CASE ~OnCharge(rs, i) /\ rs[i].on = 0
      BY <1>1, <2>2, <3>3 DEF TaxedItems
    <3> QED BY <3>1, <3>2, <3>3
  <2>4. \A x \in Items(rs) : TaxWeight(rs, cents, place, i, borne)[x] \in Int
    BY <2>1, TaxWeightIs
  <2>5. rs[i].cents \in Int
    BY <1>0, <2>1, FieldsAre
  <2>6. PICK weight : weight = TaxWeight(rs, cents, place, i, borne)
    OBVIOUS
  <2>7. \A x \in Items(rs) : weight[x] \in Int
    BY <2>4, <2>6
  <2>8. SplitIs(SplitOver(rs[i].cents, over, weight, line), rs[i].cents, Funs!Range(line))
    BY <2>3, <2>5, <2>7, RowOver
  <2>9. TaxShares(rs, cents, line, place, borne)[i] = SplitOver(rs[i].cents, over, weight, line)
    BY <1>1, <2>2, <2>6 DEF TaxShares
  <2> QED BY <2>8, <2>9
<1>3. DOMAIN TaxShares(rs, cents, line, place, borne) = Taxes(rs)
  BY DEF TaxShares
<1> QED BY <1>2, <1>3 DEF TaxesAre

\* Nothing goes to a line no item has.
GivesWithin(v, keys) == v \in [Line -> Int] /\ \A k \in Line \ keys : v[k] = 0

LEMMA RoundingIs ==
  ASSUME NEW keys \in SUBSET Line, keys # {}, NEW was \in [Line -> Int] PROVE RoundingTo(keys, was) \in keys
<1>1. PICK of : of = IF keys \ Others # {} THEN keys \ Others ELSE keys
  OBVIOUS
<1>2. of \in SUBSET Line /\ of # {} /\ of \subseteq keys
  BY <1>1
<1>3. IsFiniteSet(of)
  BY <1>2, LinesAre, FS_Subset
<1>4. \A k \in of : was[k] \in Int
  BY <1>2
<1>5. PICK k \in of : \A o \in of : was[o] <= was[k]
  BY <1>2, <1>3, <1>4, GreatestOfSome
<1>6. Largest(of, was) \in of
  BY <1>5 DEF Largest
<1> QED BY <1>1, <1>2, <1>6 DEF RoundingTo

LEMMA RowGives ==
  ASSUME NEW rs, Priced(rs), NEW cents, NEW line, Costed(rs, cents, line), NEW i \in DOMAIN rs,
         NEW weight \in [Items(rs) -> Nat], NEW was \in [Line -> Int]
  PROVE  GivesWithin(RowShares(rs[i], weight, line, was), Funs!Range(line))
<1>1. PICK r : r = rs[i]
  OBVIOUS
<1>2. r.cents \in Int
  <2>1. r \in Row
    BY <1>1, RowsAre DEF Priced, Sound
  <2> QED BY <2>1, FieldsAre
<1>3. CASE r.kind \in {"charge", "discount"}
  <2>1. Spread(weight) \in SUBSET Items(rs) /\ Spread(weight) # {}
    BY SpreadIs DEF Costed
  <2>2. \A x \in Items(rs) : weight[x] \in Int
    OBVIOUS
  <2>3. PICK over : over = Spread(weight)
    OBVIOUS
  <2>4. SplitIs(SplitOver(r.cents, over, weight, line), r.cents, Funs!Range(line))
    BY <1>2, <2>1, <2>2, <2>3, RowOver
  <2>5. RowShares(r, weight, line, was) = SplitOver(r.cents, over, weight, line)
    BY <1>3, <2>3 DEF RowShares
  <2> QED BY <1>1, <2>4, <2>5 DEF GivesWithin, SplitIs
<1>4. CASE r.kind = "rounding"
  <2>1. Funs!Range(line) \in SUBSET Line /\ Funs!Range(line) # {}
    BY DEF Costed, Funs!Range
  <2>2. RoundingTo(Funs!Range(line), was) \in Funs!Range(line)
    BY <2>1, RoundingIs
  <2>3. RowShares(r, weight, line, was) = [k \in Line |-> IF k = RoundingTo(Funs!Range(line), was) THEN r.cents ELSE 0]
    BY <1>4 DEF RowShares
  <2> QED BY <1>1, <1>2, <2>2, <2>3 DEF GivesWithin
<1>5. CASE r.kind \notin {"charge", "discount", "rounding"}
  <2>1. RowShares(r, weight, line, was) = [k \in Line |-> 0]
    BY <1>5 DEF RowShares
  <2> QED BY <1>1, <2>1 DEF GivesWithin
<1> QED BY <1>3, <1>4, <1>5

LEMMA JoinedGive ==
  ASSUME NEW keys, NEW one, GivesWithin(one, keys), NEW other, GivesWithin(other, keys)
  PROVE  GivesWithin(Joined(one, other), keys)
BY DEF GivesWithin, Joined

\* Row by row.
After(g, rs, cents, line, place) ==
  g = [i \in 0..Len(rs) |->
        IF i = 0 THEN [k \in Line |-> Funs!SumFunctionOnSet(cents, {x \in DOMAIN cents : line[x] = k})]
        ELSE Joined(g[i - 1], RowShares(rs[i], place[i], line, g[i - 1]))]

LEMMA SharesAre ==
  ASSUME NEW rs, Priced(rs), NEW cents, NEW line, Costed(rs, cents, line),
         NEW place \in [DOMAIN rs -> [Items(rs) -> Nat]], NEW taxed, TaxesAre(rs, taxed, line)
  PROVE  GivesWithin(Shares(rs, cents, line, place, taxed), Funs!Range(line))
<1>0. rs \in Seq(Row) /\ Len(rs) \in Nat /\ DOMAIN rs = 1..Len(rs)
  BY RowsAre DEF Priced, Sound
<1>1. PICK n, keys : n = Len(rs) /\ keys = Funs!Range(line)
  OBVIOUS
<1>2. PICK V : V = {v \in [Line -> Int] : \A k \in Line \ keys : v[k] = 0}
  OBVIOUS
<1>3. \A v : v \in V <=> GivesWithin(v, keys)
  BY <1>2 DEF GivesWithin
<1>4. PICK base : base = [k \in Line |-> Funs!SumFunctionOnSet(cents, {x \in DOMAIN cents : line[x] = k})]
  OBVIOUS
<1>5. base \in V
  <2>0. cents \in [Items(rs) -> Nat] /\ DOMAIN cents = Items(rs) /\ IsFiniteSet(Items(rs)) /\ line \in [Items(rs) -> Line]
    BY DEF Costed
  <2>1. ASSUME NEW k \in Line PROVE base[k] \in Int /\ (k \notin keys => base[k] = 0)
    <3>1. PICK T : T = {x \in Items(rs) : line[x] = k}
      OBVIOUS
    <3>2. IsFiniteSet(T) /\ \A x \in T : cents[x] \in Int
      BY <2>0, <3>1, FS_Subset
    <3>3. base[k] = SumOf(cents, T)
      BY <1>4, <2>0, <3>1, SumsAre
    <3>4. k \notin keys => T = {}
      BY <1>1, <2>0, <3>1 DEF Funs!Range
    <3>5. SumOf(cents, T) \in Int
      BY <3>2, SumTake
    <3> QED BY <3>3, <3>4, <3>5, SumEmpty
  <2>2. base = [k \in Line |-> base[k]]
    BY <1>4
  <2> QED BY <1>2, <2>1, <2>2
<1> DEFINE F(m, v) == Joined(v, RowShares(rs[m], place[m], line, v))
<1>6. PICK step : step = [p \in (1..n) \X V |-> F(p[1], p[2])]
  OBVIOUS
<1>7. \A m \in 1..n : \A v \in V : step[<<m, v>>] = F(m, v)
  BY <1>6
<1>8. ASSUME NEW m \in 1..n, NEW v \in V PROVE F(m, v) \in V
  <2>1. m \in DOMAIN rs /\ place[m] \in [Items(rs) -> Nat] /\ v \in [Line -> Int] /\ GivesWithin(v, keys)
    BY <1>0, <1>1, <1>2, <1>3
  <2>2. GivesWithin(RowShares(rs[m], place[m], line, v), keys)
    BY <1>1, <2>1, RowGives
  <2>3. GivesWithin(F(m, v), keys)
    BY <2>1, <2>2, JoinedGive
  <2> QED BY <1>3, <2>3
<1>9. Stays(step, n, V)
  <2> HIDE DEF F
  <2> QED BY <1>7, <1>8 DEF Stays
<1>10. PICK g \in [0..n -> V] : Follows(g, n, base, step)
  BY <1>0, <1>1, <1>5, <1>9, StagesStay
<1>11. ASSUME NEW m \in 0..n PROVE g[m] = IF m = 0 THEN base ELSE F(m, g[m - 1])
  <2> HIDE DEF F
  <2>1. CASE m = 0
    BY <1>10, <2>1 DEF Follows
  <2>2. CASE m # 0
    <3>1. m \in 1..n /\ m - 1 \in 0..n
      BY <1>0, <1>1, <2>2
    <3> QED BY <1>7, <1>10, <2>2, <3>1 DEF Follows
  <2> QED BY <2>1, <2>2
<1>12. After(g, rs, cents, line, place)
  <2>1. g = [m \in 0..n |-> g[m]]
    BY <1>10
  <2> QED BY <1>1, <1>4, <1>11, <2>1 DEF After
<1>13. PICK added : added = {i \in DOMAIN taxed : ~rs[i].included}
  OBVIOUS
<1>14. PICK more : more = [k \in Line |-> Funs!SumFunction([i \in added |-> taxed[i][k]])]
  OBVIOUS
<1>15. \E h : After(h, rs, cents, line, place) /\ h[n] \in V /\ Shares(rs, cents, line, place, taxed) = Joined(h[n], more)
  <2>1. PICK h : After(h, rs, cents, line, place) /\ Shares(rs, cents, line, place, taxed) = Joined(h[n], more)
    BY <1>1, <1>12, <1>13, <1>14 DEF After, Shares
  <2>2. \A m \in 0..n : h[m] = IF m = 0 THEN base ELSE F(m, h[m - 1])
    BY <1>1, <1>4, <2>1 DEF After
  <2> DEFINE G == {m \in 0..n : h[m] \in V}
  <2>3. 0 \in G
    <3>1. 0 \in 0..n
      BY <1>0, <1>1
    <3> HIDE DEF F
    <3>2. h[0] = base
      BY <2>2, <3>1
    <3> QED BY <1>5, <3>1, <3>2
  <2>4. ASSUME NEW m \in 1..n, m - 1 \in G PROVE m \in G
    <3> HIDE DEF F
    <3>1. m \in 0..n /\ m # 0 /\ h[m - 1] \in V
      BY <1>0, <1>1, <2>4
    <3>2. h[m] = F(m, h[m - 1])
      BY <2>2, <3>1
    <3>3. F(m, h[m - 1]) \in V
      BY <1>8, <3>1
    <3> QED BY <3>1, <3>2, <3>3
  <2>5. \A m \in 0..n : m \in G
    <3> HIDE DEF G
    <3> QED BY <1>0, <1>1, <2>3, <2>4, StageByStage
  <2>6. n \in G
    BY <1>0, <1>1, <2>5
  <2> QED BY <2>1, <2>6
<1>16. GivesWithin(more, keys)
  <2>0. added \in SUBSET DOMAIN rs /\ IsFiniteSet(added) /\ added \in SUBSET Taxes(rs)
    <3>1. added \in SUBSET DOMAIN rs /\ added \in SUBSET Taxes(rs)
      BY <1>13 DEF TaxesAre, Taxes
    <3> QED BY <1>0, <3>1, IndexesAre, FS_Subset
  <2>1. ASSUME NEW k \in Line PROVE more[k] \in Int /\ (k \notin keys => more[k] = 0)
    <3>1. PICK w : w = [i \in added |-> taxed[i][k]]
      OBVIOUS
    <3>2. more[k] = SumOf(w, added)
      BY <1>14, <3>1, SumsAre
    <3>3. \A i \in added : w[i] \in Int /\ (k \notin keys => w[i] = 0)
      BY <1>1, <2>0, <3>1 DEF TaxesAre, SplitIs
    <3>4. SumOf(w, added) \in Int
      BY <2>0, <3>3, SumTake
    <3>5. k \notin keys => SumOf(w, added) = 0
      BY <2>0, <3>3, SumZero
    <3> QED BY <3>2, <3>4, <3>5
  <2>2. more = [k \in Line |-> more[k]]
    BY <1>14
  <2> QED BY <2>1, <2>2 DEF GivesWithin
<1> QED BY <1>1, <1>3, <1>15, <1>16, JoinedGive

-----------------------------------------------------------------------------
(* The lines made of the shares.                                            *)

\* The lines come to the total, and the taxes on them to what is printed.
ComesTo(c) == (\A k \in Line : c.line[k] >= 0) /\ Funs!SumFunction(c.line) = c.of
Carries(c, rs) == \A i \in Taxes(rs) : Funs!SumFunction(c.taxes[i]) = rs[i].cents

\* What a tax has on the lines that are made the claimant's own goes to theirs.
LEMMA TaxesStay ==
  ASSUME NEW rs, NEW line, NEW taxed, TaxesAre(rs, taxed, line), NEW here \in SUBSET Line, NEW i \in Taxes(rs)
  PROVE  Funs!SumFunction(TaxesOn(rs, taxed, here)[i]) = rs[i].cents
<1>1. PICK v : v = taxed[i] /\ v \in [Line -> Int] /\ SumOf(v, Line) = rs[i].cents
  BY DEF TaxesAre, SplitIs
<1>2. PICK M, rest : M = here \cup {Own} /\ rest = Line \ M
  OBVIOUS
<1>3. M \in SUBSET Line /\ rest \in SUBSET Line /\ M \cup rest = Line /\ M \cap rest = {} /\ Own \in M
  BY <1>2, LinesAre
<1>4. IsFiniteSet(M) /\ IsFiniteSet(rest) /\ IsFiniteSet(Line) /\ \A k \in Line : v[k] \in Int
  BY <1>1, <1>3, LinesAre, FS_Subset
<1>5. PICK all : all = SumOf(v, M)
  OBVIOUS
<1>6. all \in Int
  BY <1>3, <1>4, <1>5, SumTake
<1>7. PICK w : w = TaxesOn(rs, taxed, here)[i]
  OBVIOUS
<1>8. w = [k \in Line |-> IF k \in here /\ k # Own THEN 0 ELSE IF k = Own THEN all ELSE v[k]]
  <2>1. i \in DOMAIN rs /\ i \in DOMAIN taxed
    BY DEF TaxesAre, Taxes
  <2> QED BY <1>1, <1>2, <1>5, <1>7, <2>1, SumsAre DEF TaxesOn
<1>9. DOMAIN w = Line /\ (\A k \in Line : w[k] \in Int) /\ (\A k \in M \ {Own} : w[k] = 0) /\ w[Own] = all
      /\ \A k \in rest : w[k] = v[k]
  BY <1>2, <1>3, <1>4, <1>6, <1>8
<1>10. SumOf(w, Line) = SumOf(w, M) + SumOf(w, rest)
  <2>1. SumOf(w, M \cup rest) = SumOf(w, M) + SumOf(w, rest)
    BY <1>3, <1>4, <1>9, SumJoined
  <2> QED BY <1>3, <2>1
<1>11. SumOf(v, Line) = SumOf(v, M) + SumOf(v, rest)
  <2>1. SumOf(v, M \cup rest) = SumOf(v, M) + SumOf(v, rest)
    BY <1>3, <1>4, SumJoined
  <2> QED BY <1>3, <2>1
<1>12. SumOf(w, rest) = SumOf(v, rest)
  <2>1. \A k \in rest : w[k] \in Int /\ v[k] = w[k]
    BY <1>3, <1>9
  <2> QED BY <1>4, <2>1, SumSame
<1>13. SumOf(w, M) = all
  <2>1. {Own} \in SUBSET M /\ M \ {Own} = M \ {Own} /\ \A k \in M : w[k] \in Int
    BY <1>3, <1>9
  <2>2. SumOf(w, M) = SumOf(w, {Own})
    BY <1>4, <1>9, <2>1, SumWithin
  <2>3. SumOf(w, {Own}) = w[Own]
    BY <1>6, <1>9, SumOne
  <2> QED BY <1>9, <2>2, <2>3
<1>14. SumOf(w, Line) = SumOf(v, Line)
  BY <1>5, <1>10, <1>11, <1>12, <1>13
<1>15. Funs!SumFunction(w) = SumOf(w, Line)
  BY <1>9, SumsAre
<1> QED BY <1>1, <1>7, <1>14, <1>15

\* With one line, or with what the rounding leaves on the claimant's own, they come to the total.
LEMMA SettledIs ==
  ASSUME NEW rs, NEW line, NEW taxed, TaxesAre(rs, taxed, line), NEW t \in Int, t > 0, NEW toOwn \in SUBSET Line,
         NEW lines \in [Line -> Int], NEW off \in Int, off = t - SumOf(lines, Line), NEW one \in BOOLEAN,
         ~one => lines[Own] + off >= 0 /\ \A k \in Line \ {Own} : lines[k] >= 0
  PROVE  ComesTo(Settled(rs, t, taxed, toOwn, lines, off, one)) /\ Carries(Settled(rs, t, taxed, toOwn, lines, off, one), rs)
<1>1. PICK c : c = Settled(rs, t, taxed, toOwn, lines, off, one)
  OBVIOUS
<1>2. PICK here \in SUBSET Line : here = IF one THEN Line ELSE toOwn
  OBVIOUS
<1>3. PICK v : v = IF one THEN [k \in Line |-> IF k = Own THEN t ELSE 0] ELSE [lines EXCEPT ![Own] = lines[Own] + off]
  OBVIOUS
<1>4. c.of = t /\ c.line = v /\ c.taxes = TaxesOn(rs, taxed, here)
  BY <1>1, <1>2, <1>3 DEF Settled
<1>5. Carries(c, rs)
  BY <1>4, TaxesStay DEF Carries
<1>6. IsFiniteSet(Line) /\ Own \in Line /\ {Own} \in SUBSET Line
  BY LinesAre
<1>7. CASE one
  <2>1. DOMAIN v = Line /\ v[Own] = t /\ (\A k \in Line : v[k] \in Int) /\ (\A k \in Line : v[k] >= 0)
        /\ \A k \in Line \ {Own} : v[k] = 0
    BY <1>3, <1>6, <1>7
  <2>2. SumOf(v, Line) = SumOf(v, {Own})
    BY <1>6, <2>1, SumWithin
  <2>3. SumOf(v, {Own}) = v[Own]
    BY <2>1, SumOne
  <2>4. Funs!SumFunction(v) = SumOf(v, Line)
    BY <2>1, SumsAre
  <2> QED BY <1>1, <1>4, <1>5, <2>1, <2>2, <2>3, <2>4 DEF ComesTo
<1>8. CASE ~one
  <2>1. DOMAIN v = Line /\ v[Own] = lines[Own] + off /\ (\A k \in Line \ {Own} : v[k] = lines[k])
    BY <1>3, <1>6, <1>8
  <2>0. lines[Own] \in Int /\ \A k \in Line : lines[k] \in Int
    BY <1>6
  <2>2. (\A k \in Line : v[k] \in Int) /\ \A k \in Line : v[k] >= 0
    BY <1>8, <2>0, <2>1
  <2>3. SumOf(v, Line) = v[Own] + SumOf(v, Line \ {Own})
    BY <1>6, <2>2, SumTake
  <2>4. SumOf(lines, Line) = lines[Own] + SumOf(lines, Line \ {Own})
    BY <1>6, <2>0, SumTake
  <2>5. SumOf(v, Line \ {Own}) = SumOf(lines, Line \ {Own}) /\ SumOf(lines, Line \ {Own}) \in Int
    <3>1. IsFiniteSet(Line \ {Own}) /\ \A k \in Line \ {Own} : v[k] \in Int /\ lines[k] = v[k]
      BY <1>6, <2>1, <2>2, FS_Subset
    <3>2. \A k \in Line \ {Own} : lines[k] \in Int
      BY <2>0
    <3> QED BY <3>1, <3>2, SumSame, SumTake
  <2>6. Funs!SumFunction(v) = SumOf(v, Line)
    BY <2>1, SumsAre
  <2>7. SumOf(v, Line) = t
    BY <2>0, <2>1, <2>3, <2>4, <2>5
  <2> QED BY <1>1, <1>4, <1>5, <2>2, <2>6, <2>7 DEF ComesTo
<1> QED BY <1>7, <1>8

LEMMA ClaimedIs ==
  ASSUME NEW rs, NEW line, NEW taxed, TaxesAre(rs, taxed, line), NEW t \in Int, t > 0,
         NEW keys \in SUBSET Line, NEW share, GivesWithin(share, keys)
  PROVE  ComesTo(Claimed(rs, t, taxed, keys, share)) /\ Carries(Claimed(rs, t, taxed, keys, share), rs)
<1>0. IsFiniteSet(Line) /\ Own \in Line /\ share \in [Line -> Int] /\ \A k \in Line \ keys : share[k] = 0
  BY LinesAre DEF GivesWithin
<1>1. PICK toOwn : toOwn = {k \in keys \ {Own} : share[k] <= 0}
  OBVIOUS
<1>2. toOwn \in SUBSET Line /\ IsFiniteSet(toOwn) /\ Own \notin toOwn
  <2>1. toOwn \in SUBSET Line /\ Own \notin toOwn
    BY <1>1
  <2> QED BY <1>0, <2>1, FS_Subset
<1>3. PICK there \in BOOLEAN : there = (Own \in keys \/ toOwn # {})
  OBVIOUS
<1>4. PICK moved : moved = SumOf(share, toOwn)
  OBVIOUS
<1>5. moved \in Int
  <2>1. \A k \in toOwn : share[k] \in Int
    BY <1>0, <1>2
  <2> QED BY <1>2, <1>4, <2>1, SumTake
<1>6. PICK lines : lines = [k \in Line |-> IF k = Own THEN share[Own] + moved ELSE IF k \in toOwn THEN 0 ELSE share[k]]
  OBVIOUS
<1>7. DOMAIN lines = Line /\ lines \in [Line -> Int] /\ lines[Own] = share[Own] + moved
  BY <1>0, <1>5, <1>6
<1>8. ASSUME NEW k \in Line \ {Own} PROVE lines[k] >= 0
  <2>1. lines[k] = IF k \in toOwn THEN 0 ELSE share[k]
    BY <1>6
  <2>2. k \notin toOwn /\ k \in keys => share[k] >= 0
    BY <1>0, <1>1
  <2>3. k \notin keys => share[k] = 0
    BY <1>0
  <2> QED BY <2>1, <2>2, <2>3
<1>9. PICK off : off = t - SumOf(lines, Line)
  OBVIOUS
<1>10. off \in Int
  <2>1. \A k \in Line : lines[k] \in Int
    BY <1>7
  <2>2. SumOf(lines, Line) \in Int
    BY <1>0, <2>1, SumTake
  <2> QED BY <1>9, <2>2
<1>11. PICK one \in BOOLEAN : one = OneLine(t, off, lines[Own], there)
  BY DEF OneLine
<1>12. ~one => lines[Own] + off >= 0
  <2> SUFFICES ASSUME ~one PROVE lines[Own] + off >= 0
    OBVIOUS
  <2>0. lines[Own] \in Int
    BY <1>0, <1>7
  <2>1. ~((off # 0 \/ (there /\ lines[Own] <= 0)) /\ lines[Own] + off <= 0)
    BY <1>11 DEF OneLine
  <2>2. CASE there
    BY <1>10, <2>0, <2>1, <2>2
  <2>3. CASE ~there
    <3>1. share[Own] = 0 /\ toOwn = {}
      BY <1>0, <1>3, <2>3
    <3>2. lines[Own] = 0
      BY <1>4, <1>7, <3>1, SumEmpty
    <3> QED BY <1>10, <2>1, <3>2
  <2> QED BY <2>2, <2>3
<1>13. Claimed(rs, t, taxed, keys, share) = Gathered(rs, t, taxed, there, toOwn, share)
  BY <1>1, <1>3 DEF Claimed
<1>14. Gathered(rs, t, taxed, there, toOwn, share) = Compared(rs, t, taxed, there, toOwn, lines, off)
  <2>1. Funs!SumFunctionOnSet(share, toOwn) = moved /\ Funs!SumFunction(lines) = SumOf(lines, Line)
    BY <1>4, <1>7, SumsAre
  <2> QED BY <1>6, <1>9, <2>1 DEF Gathered
<1>15. Compared(rs, t, taxed, there, toOwn, lines, off) = Settled(rs, t, taxed, toOwn, lines, off, one)
  BY <1>11 DEF Compared
<1>16. /\ ComesTo(Settled(rs, t, taxed, toOwn, lines, off, one))
       /\ Carries(Settled(rs, t, taxed, toOwn, lines, off, one), rs)
  BY <1>2, <1>7, <1>8, <1>9, <1>10, <1>12, SettledIs
<1> QED BY <1>13, <1>14, <1>15, <1>16

\* What is made of a record comes to its total, to the cent.
LEMMA ClaimLinesAre ==
  ASSUME NEW rs, Priced(rs), NEW t \in Int, t >= 0, NEW borne
  PROVE  /\ ComesTo(ClaimLines(rs, t, borne))
         /\ ClaimLines(rs, t, borne) # NoClaim => Carries(ClaimLines(rs, t, borne), rs)
<1>1. CASE t <= 0
  <2>1. ClaimLines(rs, t, borne) = NoClaim
    BY <1>1 DEF ClaimLines
  <2>2. PICK v : v = [k \in Line |-> 0]
    OBVIOUS
  <2>3. DOMAIN v = Line /\ (\A k \in Line : v[k] = 0) /\ IsFiniteSet(Line)
    BY <2>2, LinesAre
  <2>4. Funs!SumFunction(v) = SumOf(v, Line) /\ SumOf(v, Line) = 0
    BY <2>3, SumsAre, SumZero
  <2>5. NoClaim.line = v /\ NoClaim.of = 0
    BY <2>2 DEF NoClaim
  <2>6. ComesTo(NoClaim)
    BY <2>3, <2>4, <2>5 DEF ComesTo
  <2> QED BY <2>1, <2>6
<1>2. CASE t > 0
  <2>1. PICK cents, line : cents = CentsOf(rs, t) /\ line = LineOf(rs)
    OBVIOUS
  <2>2. Costed(rs, cents, line)
    BY <2>1, CostsAre
  <2>3. PICK place : place = Placement(rs, cents, line, Anchor(rs))
    OBVIOUS
  <2>4. place \in [DOMAIN rs -> [Items(rs) -> Nat]]
    <3>1. PICK anchor : anchor = Anchor(rs)
      OBVIOUS
    <3>2. Placement(rs, cents, line, anchor) \in [DOMAIN rs -> [Items(rs) -> Nat]]
      BY <2>2, PlacesAre
    <3> QED BY <2>3, <3>1, <3>2
  <2>5. PICK taxed : taxed = TaxShares(rs, cents, line, place, borne)
    OBVIOUS
  <2>6. TaxesAre(rs, taxed, line)
    BY <2>2, <2>4, <2>5, TaxSharesAre
  <2>7. PICK keys, share : keys = Funs!Range(line) /\ share = Shares(rs, cents, line, place, taxed)
    OBVIOUS
  <2>8. GivesWithin(share, keys)
    BY <2>2, <2>4, <2>6, <2>7, SharesAre
  <2>9. keys \in SUBSET Line
    BY <2>2, <2>7 DEF Costed, Funs!Range
  <2>10. ComesTo(Claimed(rs, t, taxed, keys, share)) /\ Carries(Claimed(rs, t, taxed, keys, share), rs)
    BY <1>2, <2>6, <2>8, <2>9, ClaimedIs
  <2>11. ClaimLines(rs, t, borne) = Claimed(rs, t, taxed, keys, share)
    BY <1>2, <2>1, <2>3, <2>5, <2>7 DEF ClaimLines, Spreading, Taxed, Shared
  <2> QED BY <2>10, <2>11
<1> QED BY <1>1, <1>2

-----------------------------------------------------------------------------
(* Keeping it.                                                              *)

PrintedInv ==
  /\ Sound(rows) /\ Sound(record)
  /\ total \in Int /\ edits \in 0..MaxEdits /\ nextId \in Nat
  /\ LinesMatchTotal /\ TaxesKept

LEMMA PrintedStarts == PrintedInit => PrintedInv
<1> SUFFICES ASSUME PrintedInit PROVE PrintedInv
  OBVIOUS
<1>1. rows \in Read /\ Sound(rows) /\ record = rows
  BY PrintedAssumption DEF PrintedInit, Sound
<1>2. total \in Int /\ edits \in 0..MaxEdits /\ nextId \in Nat
  <2>1. Len(rows) \in Nat /\ total \in Total /\ edits = 0 /\ nextId = Len(rows) + 1
    BY <1>1 DEF PrintedInit, Sound
  <2> QED BY <2>1, PrintedAssumption
<1>3. claim = NoClaim
  BY DEF PrintedInit
<1>4. LinesMatchTotal
  <2>1. PICK v : v = [k \in Line |-> 0]
    OBVIOUS
  <2>2. DOMAIN v = Line /\ (\A k \in Line : v[k] = 0) /\ IsFiniteSet(Line)
    BY <2>1, LinesAre
  <2>3. Funs!SumFunction(v) = SumOf(v, Line) /\ SumOf(v, Line) = 0
    BY <2>2, SumsAre, SumZero
  <2>4. claim.line = v /\ claim.of = 0
    BY <1>3, <2>1 DEF NoClaim
  <2> QED BY <2>2, <2>3, <2>4 DEF LinesMatchTotal
<1>5. TaxesKept
  BY <1>3 DEF TaxesKept
<1> QED BY <1>1, <1>2, <1>4, <1>5 DEF PrintedInv

\* A row is put in as it comes: it is one, and stands on its own.
LEMMA BlankIs ==
  ASSUME NEW kind \in Kind, NEW n \in Nat
  PROVE  blankRow(kind, n) \in Row /\ blankRow(kind, n).on = 0 /\ blankRow(kind, n).kind = kind
<1>1. 0 \in Nat /\ 0 \in Int /\ NoRate \in Nat /\ FALSE \in BOOLEAN /\ NoLine \in Line \cup {NoLine}
  BY DEF NoRate
<1> QED BY <1>1 DEF blankRow, Row

LEMMA SplitSound ==
  ASSUME NEW rs, Sound(rs), Len(rs) < MaxRows, NEW i \in DOMAIN rs, NEW id \in Nat
  PROVE  Sound(SplitRow(rs, i, id))
<1>0. rs \in Seq(Row) /\ Len(rs) \in Nat /\ DOMAIN rs = 1..Len(rs) /\ rs[i] \in Row
  BY RowsAre DEF Sound
<1>1. PICK r \in Row : r = rs[i]
  BY <1>0
<1>2. PICK half : half = (r.cents + 1) \div 2
  OBVIOUS
<1>3. half \in Int /\ r.cents - half \in Int
  <2>1. r.cents \in Int
    BY FieldsAre
  <2> QED BY <1>2, <2>1
<1>4. PICK one, other : one = [r EXCEPT !.cents = half] /\ other = [r EXCEPT !.id = id, !.cents = r.cents - half]
  OBVIOUS
<1>5. /\ one \in Row /\ one.on = r.on /\ one.under = r.under /\ one.kind = r.kind /\ one.id = r.id
      /\ other \in Row /\ other.on = r.on /\ other.under = r.under /\ other.kind = r.kind
  BY <1>3, <1>4 DEF Row
<1>6. PICK qs : qs = [rs EXCEPT ![i] = one]
  OBVIOUS
<1>7. Sound(qs) /\ Len(qs) = Len(rs) /\ DOMAIN qs = DOMAIN rs
  BY <1>0, <1>1, <1>5, <1>6, SetSound
<1>8. other.on # 0 => other.on \in DOMAIN qs /\ qs[other.on].kind \in HOLDS /\ qs[other.on].id = other.under
  <2> SUFFICES ASSUME other.on # 0 PROVE other.on \in DOMAIN qs /\ qs[other.on].kind \in HOLDS /\ qs[other.on].id = other.under
    OBVIOUS
  <2>1. i \in DOMAIN qs /\ qs[i] = one
    BY <1>0, <1>6
  <2>2. one.on # 0 /\ one.on = other.on /\ one.under = other.under
    BY <1>5
  <2> QED BY <1>7, <2>1, <2>2 DEF Sound, Placeable
<1>9. i + 1 \in 1..(Len(qs) + 1)
  BY <1>0, <1>7
<1>10. Sound(InsertRow(qs, i + 1, other))
  BY <1>5, <1>7, <1>8, <1>9, InsertedSound
<1>11. SplitRow(rs, i, id) = InsertRow(qs, i + 1, other)
  BY <1>0, <1>1, <1>2, <1>4, <1>6 DEF SplitRow
<1> QED BY <1>10, <1>11

LEMMA PutKeeps ==
  ASSUME PrintedInv, NEW fresh \in Row, fresh.on = 0, Put(fresh) PROVE Sound(rows') /\ nextId' \in Nat
<1>1. Sound(rows) /\ Len(rows) < MaxRows /\ rows \in Seq(Row) /\ fresh.kind \in Kind /\ nextId \in Nat
  BY FieldsAre DEF PrintedInv, Put, Sound
<1>2. PICK at : at = InsertPlace(rows, fresh.kind)
  OBVIOUS
<1>3. at \in 1..(Len(rows) + 1)
  BY <1>1, <1>2, PlaceIsThere
<1>4. Sound(InsertRow(rows, at, fresh))
  BY <1>1, <1>3, InsertedSound
<1>5. rows' = InsertRow(rows, at, fresh) /\ nextId' = nextId + 1
  BY <1>2 DEF Put, EditPrinted
<1> QED BY <1>1, <1>4, <1>5

\* An edit leaves the record and its lines as they are.
LEMMA EditKeeps ==
  ASSUME PrintedInv, NEW rs, Sound(rs), EditPrinted(rs), total' \in Int, nextId' \in Nat
  PROVE  PrintedInv'
<1>1. rows' = rs /\ record' = record /\ claim' = claim /\ edits' = edits + 1 /\ edits < MaxEdits /\ edits \in 0..MaxEdits
  BY DEF EditPrinted, PrintedInv
<1>2. edits' \in 0..MaxEdits
  BY <1>1, PrintedAssumption
<1>3. Sound(rows') /\ Sound(record')
  BY <1>1 DEF PrintedInv
<1>4. LinesMatchTotal' /\ TaxesKept'
  BY <1>1 DEF PrintedInv, LinesMatchTotal, TaxesKept
<1> QED BY <1>2, <1>3, <1>4 DEF PrintedInv

LEMMA RowEditKeeps ==
  ASSUME PrintedInv, NEW i \in DOMAIN rows,
         SetAmount(i) \/ ChangeKind(i) \/ SetIncluded(i) \/ SetLine(i) \/ Take(i) \/ Halve(i)
  PROVE  PrintedInv'
<1>0. Sound(rows) /\ rows \in Seq(Row) /\ rows[i] \in Row /\ total \in Int /\ nextId \in Nat
  BY RowsAre DEF PrintedInv, Sound
<1>1. PICK r \in Row : r = rows[i]
  BY <1>0
<1>2. CASE SetAmount(i)
  <2>1. PICK n \in Amount : EditPrinted([rows EXCEPT ![i].cents = n]) /\ total' = total /\ nextId' = nextId
    BY <1>2 DEF SetAmount
  <2>2. n \in Int
    BY PrintedAssumption
  <2>3. PICK new : new = [r EXCEPT !.cents = n]
    OBVIOUS
  <2>4. new \in Row /\ new.on = r.on /\ new.under = r.under /\ new.kind = r.kind /\ new.id = r.id
    BY <2>2, <2>3 DEF Row
  <2>5. Sound([rows EXCEPT ![i] = new])
    BY <1>0, <1>1, <2>4, SetSound
  <2>6. [rows EXCEPT ![i].cents = n] = [rows EXCEPT ![i] = new]
    BY <1>1, <2>3
  <2> QED BY <1>0, <2>1, <2>5, <2>6, EditKeeps
<1>3. CASE ChangeKind(i)
  <2>1. PICK kind \in Kind : EditPrinted(Changed(rows, i, kind)) /\ total' = total /\ nextId' = nextId
    BY <1>3 DEF ChangeKind
  <2>2. Sound(Changed(rows, i, kind))
    BY <1>0, ChangedSound
  <2> QED BY <1>0, <2>1, <2>2, EditKeeps
<1>4. CASE SetIncluded(i)
  <2>1. EditPrinted([rows EXCEPT ![i].included = ~rows[i].included]) /\ total' = total /\ nextId' = nextId
    BY <1>4 DEF SetIncluded
  <2>2. PICK v \in BOOLEAN : v = ~r.included
    OBVIOUS
  <2>3. PICK new : new = [r EXCEPT !.included = v]
    OBVIOUS
  <2>4. new \in Row /\ new.on = r.on /\ new.under = r.under /\ new.kind = r.kind /\ new.id = r.id
    BY <2>3 DEF Row
  <2>5. Sound([rows EXCEPT ![i] = new])
    BY <1>0, <1>1, <2>4, SetSound
  <2>6. [rows EXCEPT ![i].included = ~rows[i].included] = [rows EXCEPT ![i] = new]
    BY <1>1, <2>2, <2>3
  <2> QED BY <1>0, <2>1, <2>5, <2>6, EditKeeps
<1>5. CASE SetLine(i)
  <2>1. PICK k \in Line : EditPrinted([rows EXCEPT ![i].line = k]) /\ total' = total /\ nextId' = nextId
    BY <1>5 DEF SetLine
  <2>3. PICK new : new = [r EXCEPT !.line = k]
    OBVIOUS
  <2>4. new \in Row /\ new.on = r.on /\ new.under = r.under /\ new.kind = r.kind /\ new.id = r.id
    BY <2>3 DEF Row
  <2>5. Sound([rows EXCEPT ![i] = new])
    BY <1>0, <1>1, <2>4, SetSound
  <2>6. [rows EXCEPT ![i].line = k] = [rows EXCEPT ![i] = new]
    BY <1>1, <2>3
  <2> QED BY <1>0, <2>1, <2>5, <2>6, EditKeeps
<1>6. CASE Take(i)
  <2>1. EditPrinted(RemoveRow(rows, i)) /\ total' = total /\ nextId' = nextId
    BY <1>6 DEF Take
  <2>2. PICK keep : keep = DOMAIN rows \ ({i} \cup Dependents(rows, i))
    OBVIOUS
  <2>3. Sound(Reindex(rows, keep))
    BY <1>0, <2>2, ReindexSound
  <2>4. RemoveRow(rows, i) = Reindex(rows, keep)
    BY <2>2 DEF RemoveRow
  <2> QED BY <1>0, <2>1, <2>3, <2>4, EditKeeps
<1>7. CASE Halve(i)
  <2>1. EditPrinted(SplitRow(rows, i, nextId)) /\ total' = total /\ nextId' = nextId + 1 /\ Len(rows) < MaxRows
    BY <1>7 DEF Halve
  <2>2. Sound(SplitRow(rows, i, nextId))
    BY <1>0, <2>1, SplitSound
  <2> QED BY <1>0, <2>1, <2>2, EditKeeps
<1> QED BY <1>2, <1>3, <1>4, <1>5, <1>6, <1>7

LEMMA TotalKeeps == ASSUME PrintedInv, SetTotal PROVE PrintedInv'
<1>1. EditPrinted(rows) /\ total' \in Total /\ nextId' = nextId
  BY DEF SetTotal
<1>2. total' \in Int /\ nextId' \in Nat /\ Sound(rows)
  BY <1>1, PrintedAssumption DEF PrintedInv
<1> QED BY <1>1, <1>2, EditKeeps

LEMMA AddedKeeps == ASSUME PrintedInv, NEW fresh \in Row, fresh.on = 0, Put(fresh) PROVE PrintedInv'
<1>1. Sound(rows') /\ nextId' \in Nat
  BY PutKeeps
<1>2. PICK rs : rs = InsertRow(rows, InsertPlace(rows, fresh.kind), fresh)
  OBVIOUS
<1>3. EditPrinted(rs) /\ total' = total /\ rows' = rs /\ total \in Int
  BY <1>2 DEF Put, EditPrinted, PrintedInv
<1> QED BY <1>1, <1>3, EditKeeps

LEMMA AddKeeps == ASSUME PrintedInv, Add PROVE PrintedInv'
<1>1. PICK kind \in Kind : Put([blankRow(kind, nextId) EXCEPT !.line = IF kind = "item" THEN Own ELSE NoLine])
  BY DEF Add
<1>2. PICK l \in Line \cup {NoLine} : l = IF kind = "item" THEN Own ELSE NoLine
  BY LinesAre
<1>3. PICK fresh : fresh = [blankRow(kind, nextId) EXCEPT !.line = l]
  OBVIOUS
<1>4. nextId \in Nat
  BY DEF PrintedInv
<1>5. fresh \in Row /\ fresh.on = 0
  <2>1. PICK r \in Row : r = blankRow(kind, nextId) /\ r.on = 0
    BY <1>4, BlankIs
  <2>2. fresh = [r EXCEPT !.line = l]
    BY <1>3, <2>1
  <2> QED BY <2>1, <2>2 DEF Row
<1>6. Put(fresh)
  BY <1>1, <1>2, <1>3
<1> QED BY <1>5, <1>6, AddedKeeps

LEMMA AddGapKeeps == ASSUME PrintedInv, AddGap PROVE PrintedInv'
<1>1. PICK gap : gap = total - RowsSum(rows)
  OBVIOUS
<1>2. gap \in Int /\ nextId \in Nat
  <2>1. rows \in Seq(Row) /\ total \in Int /\ nextId \in Nat
    BY DEF PrintedInv, Sound
  <2> QED BY <1>1, <2>1, RowsSumIs
<1>3. Put([blankRow(IF gap > 0 THEN "item" ELSE "discount", nextId) EXCEPT
             !.named = TRUE, !.cents = gap, !.line = IF gap > 0 THEN Own ELSE NoLine])
  BY <1>1 DEF AddGap
<1>4. PICK kind \in Kind : kind = IF gap > 0 THEN "item" ELSE "discount"
  BY DEF Kind
<1>5. PICK l \in Line \cup {NoLine} : l = IF gap > 0 THEN Own ELSE NoLine
  BY LinesAre
<1>6. PICK fresh : fresh = [blankRow(kind, nextId) EXCEPT !.named = TRUE, !.cents = gap, !.line = l]
  OBVIOUS
<1>7. fresh \in Row /\ fresh.on = 0
  <2>1. PICK r \in Row : r = blankRow(kind, nextId) /\ r.on = 0
    BY <1>2, BlankIs
  <2>2. fresh = [r EXCEPT !.named = TRUE, !.cents = gap, !.line = l]
    BY <1>6, <2>1
  <2> QED BY <1>2, <2>1, <2>2 DEF Row
<1>8. Put(fresh)
  BY <1>3, <1>4, <1>5, <1>6
<1> QED BY <1>7, <1>8, AddedKeeps

LEMMA SaveKeeps == ASSUME PrintedInv, Save PROVE PrintedInv'
<1>0. Sound(rows) /\ total \in Int /\ edits \in 0..MaxEdits /\ nextId \in Nat
  BY DEF PrintedInv
<1>1. PICK rs : rs = ToRecord(rows)
  OBVIOUS
<1>2. Sound(rs) /\ Valid(rs, total) /\ total >= 0
  BY <1>0, <1>1, RecordSound DEF Save, Valid
<1>3. PICK stood : stood = Kept(rs)
  OBVIOUS
<1>4. record' = stood /\ rows' = stood /\ total' = total /\ edits' = edits /\ nextId' = nextId
  BY <1>1, <1>3 DEF Save
<1>5. /\ Sound(stood) /\ Len(stood) = Len(rs)
      /\ \A i \in DOMAIN rs : stood[i].kind = rs[i].kind /\ stood[i].cents = Signed(rs[i])
  BY <1>2, <1>3, KeptSound
<1>6. DOMAIN stood = DOMAIN rs /\ rs \in Seq(Row)
  BY <1>2, <1>5, RowsAre DEF Sound
<1>7. Priced(stood)
  <2>1. ASSUME NEW i \in DOMAIN stood, stood[i].kind = "item" PROVE stood[i].cents >= 0
    <3>1. rs[i].kind = "item" /\ i \in DOMAIN rs /\ stood[i].cents = rs[i].cents
      BY <1>5, <1>6, <2>1 DEF Signed
    <3> QED BY <1>2, <3>1 DEF Valid
  <2> QED BY <1>5, <2>1 DEF Priced
<1>8. PICK borne : claim' = ClaimLines(stood, total, borne)
  BY <1>4 DEF Save
<1>9. ComesTo(claim') /\ (claim' # NoClaim => Carries(claim', stood))
  BY <1>0, <1>2, <1>7, <1>8, ClaimLinesAre
<1>10. LinesMatchTotal' /\ TaxesKept'
  BY <1>4, <1>9 DEF ComesTo, Carries, LinesMatchTotal, TaxesKept
<1> QED BY <1>0, <1>4, <1>5, <1>10 DEF PrintedInv

LEMMA PrintedStep == PrintedInv /\ [PrintedNext]_printedVars => PrintedInv'
<1> SUFFICES ASSUME PrintedInv, [PrintedNext]_printedVars PROVE PrintedInv'
  OBVIOUS
<1>1. ASSUME NEW i \in DOMAIN rows, SetAmount(i) \/ ChangeKind(i) \/ SetIncluded(i) \/ SetLine(i) \/ Take(i) \/ Halve(i)
      PROVE  PrintedInv'
  BY <1>1, RowEditKeeps
<1>2. CASE SetTotal
  BY <1>2, TotalKeeps
<1>3. CASE Add
  BY <1>3, AddKeeps
<1>4. CASE AddGap
  BY <1>4, AddGapKeeps
<1>5. CASE Save
  BY <1>5, SaveKeeps
<1>6. CASE UNCHANGED printedVars
  BY <1>6 DEF printedVars, PrintedInv, LinesMatchTotal, TaxesKept
<1> QED BY <1>1, <1>2, <1>3, <1>4, <1>5, <1>6 DEF PrintedNext

LEMMA PrintedHeld == PrintedInv => RecordHolds
<1> SUFFICES ASSUME PrintedInv PROVE RecordHolds
  OBVIOUS
<1>0. Sound(rows) /\ Sound(record) /\ total \in Int /\ edits \in 0..MaxEdits
  BY DEF PrintedInv
<1>1. rows \in Seq(Row) /\ Len(rows) \in Nat /\ DOMAIN rows = 1..Len(rows) /\ Len(rows) <= MaxRows
      /\ \A i \in DOMAIN rows : rows[i] \in Row
  BY <1>0, RowsAre DEF Sound
<1>2. PrintedTypeOK
  <2>1. ASSUME NEW i \in DOMAIN rows
        PROVE  rows[i].kind \in Kind /\ rows[i].on \in 0..Len(rows) /\ rows[i].line \in Line \cup {NoLine}
    <3>1. rows[i].kind \in Kind /\ rows[i].line \in Line \cup {NoLine}
      BY <1>1, FieldsAre
    <3>2. rows[i].on # 0 => rows[i].on \in DOMAIN rows
      BY <1>0 DEF Sound, Placeable
    <3>3. rows[i].on \in 0..Len(rows)
      BY <1>1, <3>2
    <3> QED BY <3>1, <3>3
  <2> QED BY <1>0, <1>1, <2>1 DEF PrintedTypeOK
<1>3. OnFollows
  <2>1. ASSUME NEW rs, Sound(rs), NEW i \in DOMAIN rs, OnOf(rs, i) # 0 PROVE rs[OnOf(rs, i)].id = rs[i].under
    <3>1. OnOf(rs, i) = rs[i].on /\ rs[i].on # 0
      BY <2>1 DEF OnOf
    <3> QED BY <2>1, <3>1 DEF Sound, Placeable
  <2> QED BY <1>0, <2>1 DEF OnFollows
<1>4. AllDrawn
  BY <1>0, AllAreDrawn DEF AllDrawn
<1>5. RefusedForFiguresOnly
  <2>1. Sound(ToRecord(rows))
    BY <1>0, RecordSound
  <2> QED BY <2>1, AllSitRight DEF RefusedForFiguresOnly
<1>6. LinesMatchTotal /\ TaxesKept
  BY DEF PrintedInv
<1> QED BY <1>2, <1>3, <1>4, <1>5, <1>6 DEF RecordHolds

THEOREM RecordsStayHeld == PrintedSpec => []RecordHolds
<1>1. PrintedSpec => []PrintedInv
  BY PrintedStarts, PrintedStep, PTL DEF PrintedSpec
<1> QED BY <1>1, PrintedHeld, PTL
=============================================================================
