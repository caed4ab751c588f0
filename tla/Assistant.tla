------------------------------ MODULE Assistant ------------------------------
(***************************************************************************)
(* The assistant: one person's questions (routes/assistant.js), the turn   *)
(* that answers one by calling the model and its tools in rounds           *)
(* (assistant/conversation.js, tools.js), the cards a turn proposes, and   *)
(* pressing Apply or Dismiss on one (assistant/actions.js, store.js).      *)
(*                                                                         *)
(* A card carries the value it showed, `stands' while the receipt or case  *)
(* still holds it.  Three kinds differ in where they wait: `details'       *)
(* writes and then has the receipt priced again, `rate' asks for the day's *)
(* rates and then writes, `case' does not wait at all.                     *)
(***************************************************************************)
EXTENDS Naturals, FiniteSets

CONSTANTS
  Card, Conversation,
  PerHour,       \* PER_HOUR
  MaxRounds,     \* MAX_ROUNDS: the last must answer
  MaxProposals   \* MAX_PROPOSALS of one turn

ASSUME AssistantAssumption ==
  /\ PerHour \in Nat \ {0} /\ MaxRounds \in Nat \ {0} /\ MaxProposals \in Nat

CardKind  == {"details", "rate", "case"}
ApplySlot == {1, 2}      \* two requests to apply at once are enough to overlap
NoCard == [at |-> "none"]
NotAsking == [at |-> "none"]

VARIABLES
  standing,   \* the receipt and its case: open, locked or deleted
  card,       \* assistant_actions
  applying,   \* the Apply requests under way: a card each
  turn,       \* the question being answered (_busy)
  talk,       \* assistant_conversations: none, empty or with something said
  used,       \* assistant_usage within the hour
  known,      \* _theirs: what the assistant remembers of the items of the person
  kept,       \* questions of this hour that were answered or refused
  cut         \* a restart cut a turn short

cardVars  == <<standing, card, applying>>
turnVars  == <<turn, talk, used, kept, cut>>
assistantVars == <<cardVars, turnVars, known>>

Pending(k)  == card[k].at = "pending"
\* The cards of the turn: ctx.proposals.
Proposals   == {k \in Card : card[k].at # "none" /\ card[k].turn}

Decide(k, at) == card' = IF Pending(k) THEN [card EXCEPT ![k] = [@ EXCEPT !.at = at]] ELSE card

\* A conversation deleted takes its messages and cards with it.
Without(c) ==
  [k \in Card |-> IF card[k].at \in {"none", "deleted"} \/ card[k].conv # c THEN card[k]
                  ELSE [card[k] EXCEPT !.at = "deleted", !.turn = FALSE]]

AssistantInit ==
  /\ standing = "open"
  /\ card = [k \in Card |-> NoCard] /\ applying = [s \in ApplySlot |-> {}]
  /\ turn = NotAsking /\ talk = [c \in Conversation |-> "none"]
  /\ used = 0 /\ kept = 0 /\ known = "nothing" /\ cut = FALSE

-----------------------------------------------------------------------------
(* The page and the clock.                                                 *)

\* The person, or another card, changes what a card would, or changes it back.
PageEdits(k) ==
  /\ Pending(k) /\ standing = "open"
  /\ card' = [card EXCEPT ![k].stands = ~@]
  /\ UNCHANGED <<standing, applying, turnVars, known>>

\* Claimed and posted, or reopened; a deleted receipt stays deleted.
StandingMoves(s) ==
  /\ standing # "deleted" /\ standing' = s
  /\ UNCHANGED <<card, applying, turnVars, known>>

HourPasses ==
  /\ turn = NotAsking /\ used' = 0 /\ kept' = 0
  /\ UNCHANGED <<cardVars, turn, talk, known, cut>>

\* SNAPSHOT_TTL_MS.
SnapshotExpires == known' = "nothing" /\ UNCHANGED <<cardVars, turnVars>>

\* Five minutes: a claim by an Apply still running, or dead, is let go.
ClaimGoesStale(k) ==
  /\ Pending(k) /\ card[k].claim = "held"
  /\ card' = [card EXCEPT ![k] = [@ EXCEPT !.claim = "stale", !.outran = TRUE]]
  /\ UNCHANGED <<standing, applying, turnVars, known>>

\* A day: the card may no longer be applied.
CardExpires(k) ==
  /\ Pending(k) /\ card' = [card EXCEPT ![k] = [@ EXCEPT !.day = TRUE]]
  /\ UNCHANGED <<standing, applying, turnVars, known>>

-----------------------------------------------------------------------------
(* A turn.                                                                 *)

Room == used < PerHour /\ turn = NotAsking

\* What the person has open is looked up before the model is asked anything.
AskQuestion(c) ==
  /\ Room /\ used' = used + 1
  /\ turn' = [at |-> "model", conv |-> c, fresh |-> talk[c] = "none", round |-> 1, gone |-> FALSE]
  /\ talk' = IF talk[c] = "none" THEN [talk EXCEPT ![c] = "empty"] ELSE talk
  /\ known' = IF known = "nothing" THEN "current" ELSE known
  /\ UNCHANGED <<cardVars, kept, cut>>

\* The conversation it names is gone (404): the question counts all the same.
AskRefused ==
  /\ Room /\ used' = used + 1 /\ kept' = kept + 1
  /\ UNCHANGED <<cardVars, turn, talk, known, cut>>

ModelCallsTools ==
  /\ turn.at = "model" /\ turn.round < MaxRounds /\ ~turn.gone
  /\ turn' = [turn EXCEPT !.at = "tools"]
  /\ UNCHANGED <<cardVars, talk, used, kept, cut, known>>

\* One proposal, checked against what the page allows; the rest answer "error".
Propose(k, d) ==
  /\ turn.at = "tools" /\ card[k] = NoCard /\ standing = "open"
  /\ talk[turn.conv] # "none" /\ Cardinality(Proposals) < MaxProposals
  /\ card' = [card EXCEPT ![k] =
       [at |-> "pending", kind |-> d, stands |-> TRUE, conv |-> turn.conv, turn |-> TRUE, shown |-> FALSE,
        claim |-> "free", outran |-> FALSE, day |-> FALSE, made |-> 0]]
  /\ UNCHANGED <<standing, applying, turnVars, known>>

ToolsAnswer ==
  /\ turn.at = "tools" /\ ~turn.gone
  /\ turn' = [turn EXCEPT !.at = "model", !.round = @ + 1]
  /\ UNCHANGED <<cardVars, talk, used, kept, cut, known>>

\* The answer is stored with its cards.
StoreAnswer ==
  /\ turn.at = "model" /\ ~turn.gone /\ talk[turn.conv] # "none"
  /\ talk' = [talk EXCEPT ![turn.conv] = "said"]
  /\ card' = [k \in Card |-> IF k \in Proposals THEN [card[k] EXCEPT !.turn = FALSE, !.shown = TRUE] ELSE card[k]]
  /\ turn' = NotAsking /\ kept' = kept + 1
  /\ UNCHANGED <<standing, applying, used, cut, known>>

\* mutant: the cards are left as they are
PutAwayLeaves ==
  /\ talk' = IF turn.fresh THEN [talk EXCEPT ![turn.conv] = "none"] ELSE talk
  /\ card' = [k \in Card |-> IF k \in Proposals THEN [card[k] EXCEPT !.turn = FALSE] ELSE card[k]]

\* The cards of a turn that failed are put away, with a conversation it began.
PutAway ==
  LET closed == [k \in Card |->
        IF k \notin Proposals THEN card[k]
        ELSE [card[k] EXCEPT !.turn = FALSE, !.at = IF @ = "pending" THEN "dismissed" ELSE @]]
  IN IF turn.fresh
     THEN /\ talk' = [talk EXCEPT ![turn.conv] = "none"]
          /\ card' = [k \in Card |-> IF k \in Proposals THEN [closed[k] EXCEPT !.at = "deleted"] ELSE Without(turn.conv)[k]]
     ELSE talk' = talk /\ card' = closed

\* The model could not answer, or nobody is waiting: the hour gets it back.
TurnFails ==
  /\ turn.at = "model" \/ (turn.at = "tools" /\ turn.gone)
  /\ PutAway
  /\ turn' = NotAsking /\ used' = used - 1
  /\ UNCHANGED <<standing, applying, kept, cut, known>>

\* Deleted from under the turn: the answer has nowhere to go (the message is refused).
NowhereToAnswer ==
  /\ turn.at = "model" /\ talk[turn.conv] = "none"
  /\ card' = [k \in Card |-> IF k \in Proposals THEN [card[k] EXCEPT !.turn = FALSE] ELSE card[k]]
  /\ turn' = NotAsking /\ used' = used - 1
  /\ UNCHANGED <<standing, applying, talk, kept, cut, known>>

TabCloses ==
  /\ turn.at \in {"model", "tools"} /\ turn' = [turn EXCEPT !.gone = TRUE]
  /\ UNCHANGED <<cardVars, talk, used, kept, cut, known>>

DeleteConversation(c) ==
  /\ talk[c] # "none" /\ talk' = [talk EXCEPT ![c] = "none"] /\ card' = Without(c)
  /\ UNCHANGED <<standing, applying, turn, used, kept, cut, known>>

-----------------------------------------------------------------------------
(* Apply and Dismiss, on a card with its message on screen.                *)

\* claimAction.
Free(k) == card[k].claim # "held"

Stands(k)  == standing = "open" /\ card[k].stands
\* A change by a card: what it showed is no longer there.
Written(c) == [c EXCEPT !.made = IF @ = 2 THEN 2 ELSE @ + 1, !.stands = FALSE]
\* What the assistant remembers is of before it.
Outdated   == IF known = "current" THEN "old" ELSE known

ApplyExpired(k) ==
  /\ Pending(k) /\ card[k].shown /\ card[k].day
  /\ Decide(k, "failed")
  /\ UNCHANGED <<standing, applying, turnVars, known>>

\* Refused at once: it moved since, or may not be changed now.
ApplyRefused(k) ==
  /\ Pending(k) /\ card[k].shown /\ ~card[k].day /\ Free(k) /\ ~Stands(k)
  /\ card' = [card EXCEPT ![k] = [@ EXCEPT !.at = "failed", !.claim = "held"]] /\ known' = "nothing"
  /\ UNCHANGED <<standing, applying, turnVars>>

ApplyAtOnce(k) ==
  /\ Pending(k) /\ card[k].shown /\ ~card[k].day /\ Free(k) /\ Stands(k) /\ card[k].kind = "case"
  /\ known' = "nothing"
  /\ card' = [card EXCEPT ![k] = [Written(@) EXCEPT !.at = "applied", !.claim = "held"]]
  /\ UNCHANGED <<standing, applying, turnVars>>

ApplyBegins(s, k) ==
  /\ Pending(k) /\ card[k].shown /\ ~card[k].day /\ Free(k) /\ Stands(k) /\ card[k].kind # "case"
  /\ applying[s] = {} /\ applying' = [applying EXCEPT ![s] = {k}]
  /\ IF card[k].kind = "details"
     THEN /\ known' = Outdated
          /\ card' = [card EXCEPT ![k] = [Written(@) EXCEPT !.claim = "held"]]
     ELSE /\ UNCHANGED known
          /\ card' = [card EXCEPT ![k] = [@ EXCEPT !.claim = "held"]]
  /\ UNCHANGED <<standing, turnVars>>

\* The rates are in: a rate card writes now, whatever came meanwhile.
ApplyEnds(s, k) ==
  /\ k \in applying[s] /\ applying' = [applying EXCEPT ![s] = {}] /\ known' = "nothing"
  /\ LET late == card[k].kind = "rate" /\ standing # "deleted"
         c    == IF late THEN Written(card[k]) ELSE card[k]
     IN card' = [card EXCEPT ![k] = [c EXCEPT !.at =
             IF c.at # "pending" THEN c.at ELSE IF standing = "deleted" THEN "failed" ELSE "applied"]]
  /\ UNCHANGED <<standing, turnVars>>

\* No rate for the day, or not one this person may type.
ApplyFails(s, k) ==
  /\ k \in applying[s] /\ card[k].kind = "rate"
  /\ applying' = [applying EXCEPT ![s] = {}] /\ known' = "nothing"
  /\ Decide(k, "failed")
  /\ UNCHANGED <<standing, turnVars>>

Dismiss(k) ==
  /\ Pending(k) /\ card[k].shown /\ card[k].claim # "held"
  /\ Decide(k, "dismissed")
  /\ UNCHANGED <<standing, applying, turnVars, known>>

\* The server restarts: the turn, the Applies and what it remembered are gone.
AssistantRestart ==
  /\ turn # NotAsking \/ \E s \in ApplySlot : applying[s] # {}
  /\ ~cut /\ cut' = TRUE
  /\ applying' = [s \in ApplySlot |-> {}] /\ turn' = NotAsking /\ known' = "nothing"
  /\ kept' = IF turn = NotAsking THEN kept ELSE kept + 1
  /\ card' = [k \in Card |-> IF k \in Proposals THEN [card[k] EXCEPT !.turn = FALSE] ELSE card[k]]
  /\ UNCHANGED <<standing, talk, used>>

AssistantNext ==
  \/ \E k \in Card : PageEdits(k)
  \/ \E s \in {"open", "locked", "deleted"} : StandingMoves(s)
  \/ HourPasses \/ SnapshotExpires
  \/ \E k \in Card : ClaimGoesStale(k) \/ CardExpires(k)
  \/ \E c \in Conversation : AskQuestion(c) \/ DeleteConversation(c)
  \/ AskRefused \/ ModelCallsTools \/ ToolsAnswer \/ StoreAnswer \/ TurnFails \/ NowhereToAnswer \/ TabCloses
  \/ \E k \in Card, d \in CardKind : Propose(k, d)
  \/ \E k \in Card : ApplyExpired(k) \/ ApplyRefused(k) \/ ApplyAtOnce(k) \/ Dismiss(k)
  \/ \E s \in ApplySlot, k \in Card : ApplyBegins(s, k) \/ ApplyEnds(s, k) \/ ApplyFails(s, k)
  \/ AssistantRestart

AssistantSpec == AssistantInit /\ [][AssistantNext]_assistantVars

-----------------------------------------------------------------------------
(* Properties.                                                             *)

Made == {k \in Card : card[k].at \notin {"none", "deleted"}}

\* A card changes the receipt once, however often Apply is pressed, unless an Apply outlived its claim.
ChangedOnce == \A k \in Made : card[k].made <= 1 \/ card[k].outran

\* What a card says became of it is what happened: applied and the change was made; put away or
\* refused and it was not, unless an Apply outlived its claim or the day, or the receipt went meanwhile.
SaysWhatHappened ==
  \A k \in Made :
    /\ card[k].at = "applied" => card[k].made > 0
    /\ (card[k].at \in {"dismissed", "failed"} /\ ~card[k].outran /\ ~card[k].day /\ standing # "deleted") => card[k].made = 0

\* No card is left to be decided on without the answer it came with, nor a conversation with nothing
\* in it, once the turn is over; only a restart leaves them.
NoCardAlone ==
  (turn = NotAsking /\ ~cut) =>
    /\ \A k \in Card : Pending(k) => card[k].shown
    /\ \A c \in Conversation : talk[c] # "empty"

\* The hour counts the questions answered or refused and the one being answered, no other.
HourIsFair == used <= PerHour /\ used = kept + (IF turn = NotAsking THEN 0 ELSE 1)

\* Once no Apply is running, the assistant remembers nothing from before a change it made.
NothingOutdated == known = "old" => \E s \in ApplySlot : applying[s] # {}

\* The cards, the hour and what is remembered stay true through closed tabs, failed turns, deleted
\* conversations, restarts and Applies that overlap.
AssistantHolds == ChangedOnce /\ SaysWhatHappened /\ NoCardAlone /\ HourIsFair /\ NothingOutdated
=============================================================================
