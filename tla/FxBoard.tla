------------------------------- MODULE FxBoard -------------------------------
(***************************************************************************)
(* Exchange rates of one currency against the company's own: the live      *)
(* board and the daily close (fx/live.js), the table of rates a day is     *)
(* priced from (fx/rates.js), and the pricing of receipts from it          *)
(* (fx/apply.js), with its waits for a provider.                           *)
(***************************************************************************)
EXTENDS Naturals, FiniteSets

CONSTANTS
  FxReceipt,    \* receipts in the currency
  Somebody,     \* people who wait for a rate at once
  Figure,       \* what a rate may be
  BoardSource,  \* the provider whose table is first on the board
  MaxDay,       \* bound: days of the company's calendar
  MaxAnswers    \* bound: figures from outside: a provider's, the board's, typed

ASSUME FxAssumption ==
  /\ Figure \subseteq Nat \ {0} /\ BoardSource \in {"ecb", "daily"}
  /\ MaxDay \in Nat \ {0} /\ MaxAnswers \in Nat

Day    == 1..MaxDay
Source == {"manual", "ecb", "daily"}   \* daily: open.er-api, and the live feeds
NoRate == 0

\* Who waits inside applyFx: somebody's upload, refresh or reopening, the
\* reprice after a close, and the reprice after a rate an admin set.
Caller == Somebody \cup {"close", "follow"}

VARIABLES
  clock,    \* the company's day, and whether it is past 23:55
  live,     \* fx_live: the board's figure, the day it came, whether it is fresh
  newer,    \* while it is fresh, the rows of the table stored since it came
  table,    \* fx_rates: a row per day and source
  closes,   \* fx_closes: the days closed
  line,     \* what each receipt is priced at
  tick,     \* the schedule's run: where it is, and the day it closes
  list,     \* the receipts each walk has left to price again
  call,     \* the applyFx each caller has under way, waiting for a provider
  spent,    \* how many figures came from outside
  behind    \* receipts left as they were: by a restart, a lookup nobody
            \* answered or that moved a close, or a first close made up later

fxVars == <<clock, live, newer, table, closes, line, tick, list, call, spent, behind>>

Row     == [figure : Figure \cup {NoRate}, closed : BOOLEAN, priced : Day]
NoRow   == [figure |-> NoRate, closed |-> FALSE, priced |-> 1]
NoLive  == [figure |-> NoRate, source |-> "ecb", day |-> 1, fresh |-> FALSE]
NoCall  == [for |-> "nothing"]
Waiting == [for : FxReceipt, forced : BOOLEAN, hit : Figure \cup {NoRate},
            typed : Figure \cup {NoRate}]
NoLine  == [on |-> "no", asked |-> 1, figure |-> NoRate, typed |-> NoRate]

FxTypeOK ==
  /\ clock \in [day : Day, late : BOOLEAN]
  /\ live \in [figure : Figure \cup {NoRate}, source : Source, day : Day, fresh : BOOLEAN]
  /\ newer \subseteq Day \X Source
  /\ table \in [Day -> [Source -> Row]]
  /\ closes \subseteq Day
  /\ line \in [FxReceipt -> [on : {"no", "open", "claimed"}, asked : Day,
                             figure : Figure \cup {NoRate}, typed : Figure \cup {NoRate}]]
  /\ tick \in [at : {"idle", "refreshing", "looking", "repricing"}, day : Day]
  /\ list \in [{"close", "follow"} -> SUBSET FxReceipt]
  /\ call \in [Caller -> Waiting \cup {NoCall}]
  /\ spent \in 0..MaxAnswers
  /\ behind \subseteq FxReceipt

FxInit ==
  /\ clock = [day |-> 1, late |-> FALSE]
  /\ live = NoLive /\ newer = {}
  /\ table = [d \in Day |-> [s \in Source |-> NoRow]]
  /\ closes = {}
  /\ line = [r \in FxReceipt |-> NoLine]
  /\ tick = [at |-> "idle", day |-> 1]
  /\ list = [w \in {"close", "follow"} |-> {}]
  /\ call = [c \in Caller |-> NoCall]
  /\ spent = 0 /\ behind = {}

(***************************************************************************)
(* The table                                                               *)
(***************************************************************************)
Filed(t, d) == {s \in Source : t[d][s].figure # NoRate}

\* A rate somebody typed, then the day's close, then the providers in order.
Rank(t, d, s) ==
  CASE s = "manual"                    -> 0
    [] s # "manual" /\ t[d][s].closed  -> IF s = "ecb" THEN 1 ELSE 2
    [] s = "ecb" /\ ~t[d][s].closed    -> 3
    [] OTHER                           -> 4

Top(t, d) == CHOOSE s \in Filed(t, d) : \A o \in Filed(t, d) : Rank(t, d, s) <= Rank(t, d, o)

\* mutant: the lowest rate of the day prices it.
CachedLowest(t, d) ==
  IF Filed(t, d) = {} THEN NoRow
  ELSE LET s == CHOOSE s \in Filed(t, d) : \A o \in Filed(t, d) : t[d][s].figure <= t[d][o].figure IN t[d][s]

Cached(t, d) == IF Filed(t, d) = {} THEN NoRow ELSE t[d][Top(t, d)]

\* More than a tenth away, at this instance's scale: three to two is a move,
\* nine to three is not believed.
TooFar(f, g) == f > 2 * g \/ g > 2 * f

Earlier(t, p) ==
  {t[d][s] : d \in Day, s \in Source \ {"manual"}} \cap {w \in Row : w.figure # NoRate /\ w.priced < p}

Moved(t, p, f) ==
  Earlier(t, p) # {} /\ LET prev == CHOOSE w \in Earlier(t, p) : \A o \in Earlier(t, p) : o.priced <= w.priced
                        IN TooFar(f, prev.figure)

\* _save: a close stays a close.
Saved(t, d, s, f, p, c) == [t EXCEPT ![d][s] = [figure |-> f, closed |-> c \/ @.closed, priced |-> p]]

Accept(t, d, s, f, p, c) == IF Moved(t, p, f) THEN t ELSE Saved(t, d, s, f, p, c)

Fresher(rows) == IF live.fresh THEN newer \cup rows ELSE newer

\* What the caller of _accept is given: the day's best row, or a refusal.
Given(t, d, p, f, after) == IF Moved(t, p, f) THEN NoRate ELSE Cached(after, d).figure

(***************************************************************************)
(* Pricing a receipt                                                       *)
(***************************************************************************)
\* applyFx, once the rate is known: a typed rate stays, unless the refresh
\* was asked for when that rate was already there.
Priced(l, forced, typedThen, f) ==
  IF l.typed # NoRate /\ ~(forced /\ typedThen = l.typed) THEN l
  ELSE [l EXCEPT !.figure = f, !.typed = NoRate]

\* getRate, as far as its first await.  `today` is the day its caller takes it
\* to be: a close that began before midnight still has the day it closes.
IsLive(board, d, today) == d >= today /\ board.figure # NoRate /\ board.fresh
Settled(d) == Filed(table, d) # {} /\ (Top(table, d) = "manual" \/ Cached(table, d).closed)

\* The row in hand is the answer;
Held(board, d, today, forced) ==
  \/ Settled(d)
  \/ Filed(table, d) # {} /\ ~forced /\ (IsLive(board, d, today) => <<d, Top(table, d)>> \in newer)
\* or the board's figure is;
FromBoard(board, d, today, forced) ==
  ~Settled(d) /\ IsLive(board, d, today) /\ ~(Filed(table, d) # {} /\ ~forced /\ <<d, Top(table, d)>> \in newer)
\* or a provider is asked.  A figure of today's, an hour old, is asked for again.
Asks(board, d, today, forced) ==
  ~Settled(d) /\ ~IsLive(board, d, today) /\ (Filed(table, d) = {} \/ forced \/ d >= today)

\* applyFx begun by c for r: answered at once from the table or the board ...
PricedAtOnce(ls, r, forced) ==
  LET d == ls[r].asked
      t == Accept(table, d, live.source, live.figure, live.day, FALSE) IN
  \/ /\ Held(live, d, clock.day, forced)
     /\ line' = [ls EXCEPT ![r] = Priced(@, forced, @.typed, Cached(table, d).figure)]
     /\ UNCHANGED <<table, newer>>
  \/ /\ FromBoard(live, d, clock.day, forced)
     /\ table' = t
     /\ newer' = IF Moved(table, live.day, live.figure) THEN newer ELSE Fresher({<<d, live.source>>})
     /\ line' = [ls EXCEPT ![r] = Priced(@, forced, @.typed, Given(table, d, live.day, live.figure, t))]

\* ... or left waiting for a provider.
Waits(ls, c, r, forced) ==
  /\ Asks(live, ls[r].asked, clock.day, forced)
  /\ call' = [call EXCEPT ![c] = [for |-> r, forced |-> forced, hit |-> Cached(table, ls[r].asked).figure,
                                  typed |-> ls[r].typed]]
  /\ line' = ls
  /\ UNCHANGED <<table, newer>>

ApplyFx(ls, c, r, forced) ==
  /\ call[c] = NoCall
  /\ \/ PricedAtOnce(ls, r, forced) /\ UNCHANGED call
     \/ Waits(ls, c, r, forced)

\* Everybody waiting for a day shares one answer: _inflight.
Waiters(d) == {c \in Caller : call[c] # NoCall /\ line[call[c].for].asked = d}
Looking(d) == tick.at = "looking" /\ tick.day = d

AnsweredTo(d, figureFor(_)) ==
  /\ line' = [r \in FxReceipt |->
       LET mine == {c \in Waiters(d) : call[c].for = r} IN
       IF mine = {} THEN line[r]
       ELSE LET c == CHOOSE c \in mine : TRUE IN Priced(line[r], call[c].forced, call[c].typed, figureFor(c))]
  /\ call' = [c \in Caller |-> IF c \in Waiters(d) THEN NoCall ELSE call[c]]

(***************************************************************************)
(* Receipts                                                                *)
(***************************************************************************)
Arrives(r, d) ==
  /\ line[r].on = "no" /\ d <= clock.day
  /\ line' = [line EXCEPT ![r] = [NoLine EXCEPT !.on = "open", !.asked = d]]
  /\ UNCHANGED <<clock, live, newer, table, closes, tick, list, call, spent, behind>>

\* An upload's pricing, the sweeper's, or somebody's Refresh rate (forced).
PriceReceipt(r, forced) ==
  /\ line[r].on = "open"
  /\ forced \/ line[r].figure = NoRate
  /\ \E c \in Somebody : ApplyFx(line, c, r, forced)
  /\ UNCHANGED <<clock, live, closes, tick, list, spent, behind>>

TypeRate(r, f) ==
  /\ line[r].on = "open" /\ line[r].typed # f
  /\ spent < MaxAnswers /\ spent' = spent + 1
  /\ line' = [line EXCEPT ![r].figure = f, ![r].typed = f]
  /\ UNCHANGED <<clock, live, newer, table, closes, tick, list, call, behind>>

ClaimReceipt(r) ==
  /\ line[r].on = "open" /\ line[r].figure # NoRate
  /\ line' = [line EXCEPT ![r].on = "claimed"]
  /\ UNCHANGED <<clock, live, newer, table, closes, tick, list, call, spent, behind>>

\* A claim undone: its receipts are priced again by the usual rules (reprice).
UnclaimReceipt(r) ==
  /\ line[r].on = "claimed"
  /\ \E c \in Somebody : ApplyFx([line EXCEPT ![r].on = "open"], c, r, FALSE)
  /\ UNCHANGED <<clock, live, closes, tick, list, spent, behind>>

\* repriceDay's and repriceRate's query.
ToReprice(ls, d) == {r \in FxReceipt : ls[r].on = "open" /\ ls[r].asked = d /\ ls[r].typed = NoRate}

Walk(w, r) ==
  /\ r \in list[w] /\ call[w] = NoCall
  /\ list' = [list EXCEPT ![w] = @ \ {r}]
  /\ ApplyFx(line, w, r, FALSE)
  /\ UNCHANGED <<clock, live, closes, tick, spent, behind>>

(***************************************************************************)
(* An admin's rate for a day                                               *)
(***************************************************************************)
\* mutant: the receipts do not follow the rate.
SetManualQuietly(d, f) ==
  /\ spent < MaxAnswers /\ spent' = spent + 1
  /\ table' = Saved(table, d, "manual", f, d, FALSE)
  /\ UNCHANGED <<clock, live, newer, closes, line, tick, list, call, behind>>

SetManual(d, f) ==
  /\ spent < MaxAnswers /\ spent' = spent + 1
  /\ table' = Saved(table, d, "manual", f, d, FALSE)
  /\ list' = [list EXCEPT !["follow"] = @ \cup ToReprice(line, d)]
  /\ UNCHANGED <<clock, live, newer, closes, line, tick, call, behind>>

DeleteManual(d) ==
  /\ table[d]["manual"] # NoRow
  /\ spent < MaxAnswers /\ spent' = spent + 1
  /\ table' = [table EXCEPT ![d]["manual"] = NoRow]
  /\ list' = [list EXCEPT !["follow"] = @ \cup ToReprice(line, d)]
  /\ UNCHANGED <<clock, live, newer, closes, line, tick, call, behind>>

(***************************************************************************)
(* The schedule                                                            *)
(***************************************************************************)
LastClose == CHOOSE d \in closes : \A o \in closes : o <= d

\* Every day since the last close; with no close yet, yesterday alone.
Missed ==
  IF closes = {} THEN {clock.day - 1} \cap Day ELSE {d \in Day : LastClose < d /\ d < clock.day}

First(S) == CHOOSE d \in S : \A o \in S : d <= o

TakesMissed == tick.at = "idle" /\ Missed # {}
TakesToday  == tick.at = "idle" /\ Missed = {} /\ clock.late /\ clock.day \notin closes

OnBoard == \E r \in FxReceipt : line[r].on # "no"

\* close: fx_closes is written and the day's receipts are listed.
DayDone(d) ==
  /\ closes' = closes \cup {d}
  /\ tick' = [at |-> "repricing", day |-> d]

\* A day the board was refreshed on closes at that figure; for another the
\* row getRate finds becomes its close.  (begun: the day of the tick.)
CloseAtLive(board, d) ==
  /\ board.figure # NoRate /\ board.day = d
  /\ table' = Accept(table, d, board.source, board.figure, d, TRUE)

MarkedClosed(t, d) ==
  IF Filed(t, d) = {} \/ Top(t, d) = "manual" \/ Cached(t, d).closed THEN t
  ELSE [t EXCEPT ![d][Top(t, d)].closed = TRUE]

CloseAtRow(board, d, begun) ==
  /\ ~(board.figure # NoRate /\ board.day = d)
  /\ \/ Held(board, d, begun, FALSE) /\ table' = MarkedClosed(table, d)
     \/ /\ FromBoard(board, d, begun, FALSE)
        /\ table' = IF Moved(table, board.day, board.figure) THEN table
                    ELSE MarkedClosed(Saved(table, d, board.source, board.figure, board.day, FALSE), d)

CloseLooksUp(board, d, begun) ==
  /\ ~(board.figure # NoRate /\ board.day = d) /\ Asks(board, d, begun, FALSE)
  /\ tick' = [at |-> "looking", day |-> d]
  /\ UNCHANGED <<table, closes, list>>

CloseDay(board, d, begun) ==
  \/ OnBoard /\ CloseLooksUp(board, d, begun)
  \/ /\ IF OnBoard THEN CloseAtLive(board, d) \/ CloseAtRow(board, d, begun) ELSE UNCHANGED table
     /\ DayDone(d)
     /\ list' = [list EXCEPT !["close"] = ToReprice(line, d)]

StoredNow(d) == {<<d, s>> : s \in {s \in Source : table'[d][s] # table[d][s]}}

TickMissed ==
  /\ TakesMissed /\ CloseDay(live, First(Missed), clock.day)
  /\ newer' = Fresher(StoredNow(First(Missed)))
  /\ UNCHANGED <<clock, live, line, call, spent, behind>>

\* Today's close refreshes the board first.
TickToday ==
  /\ TakesToday
  /\ tick' = [at |-> "refreshing", day |-> clock.day]
  /\ UNCHANGED <<clock, live, newer, table, closes, line, list, call, spent, behind>>

\* The walk is over, and with it the tick; it never overlaps itself.
TickEnds ==
  /\ tick.at = "repricing" /\ list["close"] = {} /\ call["close"] = NoCall
  /\ tick' = [at |-> "idle", day |-> 1]
  /\ UNCHANGED <<clock, live, newer, table, closes, line, list, call, spent, behind>>

(***************************************************************************)
(* The providers                                                           *)
(***************************************************************************)
Board(f, s) == [figure |-> f, source |-> s, day |-> clock.day, fresh |-> TRUE]

\* A refresh ends with a figure: the hourly one, an admin's, a new currency's.
RefreshEnds(f, s) ==
  /\ OnBoard
  /\ spent < MaxAnswers /\ spent' = spent + 1
  /\ live' = Board(f, s) /\ newer' = {}
  /\ UNCHANGED <<clock, table, closes, line, tick, list, call, behind>>

\* The refresh today's close waits for; the close goes on from it.
CloseRefreshed(f, s) ==
  /\ tick.at = "refreshing" /\ OnBoard
  /\ spent < MaxAnswers /\ spent' = spent + 1
  /\ live' = Board(f, s)
  /\ CloseDay(Board(f, s), tick.day, tick.day)
  /\ newer' = StoredNow(tick.day)
  /\ UNCHANGED <<clock, line, call, behind>>

\* No provider prices the currency: the close goes on with what there is.
CloseUnrefreshed ==
  /\ tick.at = "refreshing" /\ CloseDay(live, tick.day, tick.day)
  /\ newer' = Fresher(StoredNow(tick.day))
  /\ UNCHANGED <<clock, live, line, call, spent, behind>>

LookupAsked(d) == Waiters(d) # {} \/ Looking(d)

AfterLookup(d, t) ==
  IF Looking(d)
  THEN DayDone(d) /\ list' = [list EXCEPT !["close"] = ToReprice(line', d)] /\ table' = MarkedClosed(t, d)
  ELSE table' = t /\ UNCHANGED <<closes, tick, list>>

\* _fetch: the European Central Bank answers for the day itself, today's
\* latest by its date; the daily endpoint only ever knows today.
LookupAnswers(d, s, f) ==
  LET p     == IF s = "ecb" THEN d ELSE clock.day
      after == Accept(table, d, s, f, p, FALSE) IN
  /\ LookupAsked(d)
  /\ spent < MaxAnswers /\ spent' = spent + 1
  /\ newer' = IF Moved(table, p, f) THEN newer ELSE Fresher({<<d, s>>})
  /\ AnsweredTo(d, LAMBDA c : Given(table, d, p, f, after))
  /\ behind' = IF table[d][s].closed /\ after # table THEN behind \cup ToReprice(line, d) ELSE behind
  /\ IF Moved(table, p, f) /\ Looking(d)
     THEN DayDone(d) /\ list' = [list EXCEPT !["close"] = ToReprice(line', d)] /\ UNCHANGED table
     ELSE AfterLookup(d, after)
  /\ UNCHANGED <<clock, live>>

\* No provider answers: whoever waited gets the row there was before.
LookupFails(d) ==
  /\ LookupAsked(d)
  /\ AnsweredTo(d, LAMBDA c : call[c].hit)
  /\ AfterLookup(d, table)
  /\ behind' = behind \cup {call[c].for : c \in Waiters(d)}
  /\ UNCHANGED <<clock, live, newer, spent>>

\* backfill: a published history is filed on the days that have nothing, and
\* yesterday stands in as the first close.
Backfill(f) ==
  LET empty == {d \in Day : d < clock.day /\ Filed(table, d) = {}}
      filed == [d \in Day |-> IF d \in empty THEN [table[d] EXCEPT !["ecb"] = [figure |-> f, closed |-> FALSE, priced |-> d]]
                              ELSE table[d]] IN
  /\ OnBoard /\ empty # {}
  /\ spent < MaxAnswers /\ spent' = spent + 1
  /\ table' = IF \E d \in Day, s \in Source : d < clock.day /\ filed[d][s].closed THEN filed
              ELSE MarkedClosed(filed, clock.day - 1)
  /\ behind' = IF table' # filed THEN behind \cup ToReprice(line, clock.day - 1) ELSE behind
  /\ newer' = Fresher(empty \X {"ecb"})
  /\ UNCHANGED <<clock, live, closes, line, tick, list, call>>

(***************************************************************************)
(* Time, and the process                                                   *)
(***************************************************************************)
Time ==
  /\ IF clock.late THEN clock.day < MaxDay /\ clock' = [day |-> clock.day + 1, late |-> FALSE]
                   ELSE clock' = [clock EXCEPT !.late = TRUE]
  /\ UNCHANGED <<live, newer, table, closes, line, tick, list, call, spent, behind>>

\* Three hours without a refresh: LIVE_FRESH_MS.
BoardAges ==
  /\ live.fresh /\ live' = [live EXCEPT !.fresh = FALSE]
  /\ newer' = {}
  /\ UNCHANGED <<clock, table, closes, line, tick, list, call, spent, behind>>

FxRestart ==
  /\ tick' = [at |-> "idle", day |-> 1]
  /\ list' = [w \in {"close", "follow"} |-> {}]
  /\ call' = [c \in Caller |-> NoCall]
  /\ behind' = behind \cup list["close"] \cup list["follow"] \cup {call[c].for : c \in {c \in Caller : call[c] # NoCall}}
  /\ UNCHANGED <<clock, live, newer, table, closes, line, spent>>

FxNext ==
  \/ \E r \in FxReceipt :
       \/ \E d \in Day : Arrives(r, d)
       \/ \E forced \in BOOLEAN : PriceReceipt(r, forced)
       \/ \E f \in Figure : TypeRate(r, f)
       \/ ClaimReceipt(r) \/ UnclaimReceipt(r)
       \/ \E w \in {"close", "follow"} : Walk(w, r)
  \/ \E d \in Day :
       \/ \E f \in Figure : SetManual(d, f)
       \/ DeleteManual(d)
       \/ \E f \in Figure, s \in {"ecb", "daily"} : LookupAnswers(d, s, f)
       \/ LookupFails(d)
  \/ TickMissed \/ TickToday \/ TickEnds
  \/ \E f \in Figure : RefreshEnds(f, BoardSource) \/ CloseRefreshed(f, BoardSource)
  \/ CloseUnrefreshed
  \/ \E f \in Figure : Backfill(f)
  \/ Time \/ BoardAges \/ FxRestart

FxSpec == FxInit /\ [][FxNext]_fxVars

(***************************************************************************)
(* Properties                                                              *)
(***************************************************************************)
\* Whatever prices an open receipt, a person's refresh, a close's walk or an
\* answer several callers share, it leaves it at the day's price in the order
\* rates.js states: a rate an admin typed, else the close, else a lookup. But
\* for a lookup no provider answered, which leaves the row read before the wait.
DayPrice(t, d) ==
  LET f(s) == t[d][s].figure
      shut == {s \in {"ecb", "daily"} : t[d][s].closed} IN
  IF f("manual") # NoRate THEN {f("manual")}
  ELSE IF shut # {} THEN {f(s) : s \in shut}
  ELSE IF f("ecb") # NoRate THEN {f("ecb")} ELSE {f("daily")}

Unanswered(r) ==
  /\ \E c \in Caller : call[c] # NoCall /\ call[c].for = r /\ line'[r].figure = call[c].hit
  /\ table' \in {table, MarkedClosed(table, line[r].asked)}

PricedAsTheDaySays ==
  [][\A r \in FxReceipt :
       line[r].on # "no" /\ line'[r].figure # line[r].figure /\ line'[r].typed = NoRate /\ line'[r].figure # NoRate
         => line'[r].figure \in DayPrice(table', line[r].asked) \/ Unanswered(r)]_fxVars

\* When nobody is waiting and no walk is under way, an open receipt of a day
\* with a close, or with a rate an admin set, is at that day's price: it moved
\* to the close that night, and follows the admin's rate.  But for those left
\* behind: a close whose walk a restart cut, a lookup nobody answered or one
\* under way when its day closed, and yesterday's rate standing in as a close.
Quiet == tick.at = "idle" /\ (\A w \in {"close", "follow"} : list[w] = {}) /\ (\A c \in Caller : call[c] = NoCall)

FollowsTheDay ==
  Quiet => \A r \in FxReceipt \ behind :
    line[r].on = "open" /\ line[r].typed = NoRate /\ line[r].figure # NoRate
      /\ (table[line[r].asked]["manual"] # NoRow \/ \E s \in Source : table[line[r].asked][s].closed)
      => line[r].figure \in DayPrice(table, line[r].asked)

FxHolds == FxTypeOK /\ FollowsTheDay
=============================================================================
