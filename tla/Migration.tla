------------------------------- MODULE Migration -------------------------------
(***************************************************************************)
(* The database brought to the shape the code expects when the server      *)
(* starts (db/migrate.js), whatever build left it and wherever a stop cuts *)
(* the run, and what is said of it before a deploy (scripts/preflight.js). *)
(* SQLite commits each statement, and each transaction, whole.  One case   *)
(* and one person stand for the rows of their tables: a rebuild treats     *)
(* every row alike.                                                        *)
(***************************************************************************)
EXTENDS Naturals, Sequences, FiniteSets

CONSTANTS
  DefaultBoard,   \* DEFAULT_BOARD, in its order
  BoardMax,       \* BOARD_MAX: how many currencies an admin may choose
  OldBoard,       \* bound: what a company had chosen before
  MaxStops        \* bound: stops and failures

ASSUME MigrationAssumption == BoardMax \in Nat /\ MaxStops \in Nat

Latest == 9

VARIABLES
  file,        \* the database: "missing", "empty" (no tables), "made"
  stamp,       \* user_version
  person,      \* the users table: its CHECK, and the role on the row
  trip,        \* expense_reports: its CHECK, and the status on the row
  columns,     \* the ensured columns there are
  rates,       \* fx_rates: a rate typed in, one cached to few digits, one to all
  board,       \* fx_watch
  tokenVersion,\* token_version, and the one a session carries
  index,       \* whether an address is held to one person
  boot,        \* where the server is
  was,         \* history: the role and status before any of it
  removed,     \* history: what an admin took off the board while it ran
  anew,        \* history: this boot put the users table in its new shape
  stops

dbVars        == <<file, stamp, person, trip, columns, rates, board, tokenVersion, index>>
migrationVars == <<dbVars, boot, was, removed, anew, stops>>

OldRole  == {"employee", "manager", "finance", "admin"}
OldState == {"draft", "submitted", "approved", "rejected", "posted"}
Checks   == <<"two-kinds", "three-kinds", "claimed", "open", "draft">>   \* expense_reports, oldest first
Columns  == {"early", "claimed_at", "cover_ai", "printed"}
BoardAt(v) == IF v >= 7 THEN {board0 \in OldBoard : Cardinality(board0) <= BoardMax} ELSE OldBoard

\* What a build that stamped v left.
StatesOf(check) ==
  CASE check \in {"two-kinds", "three-kinds"} -> OldState \cup {"paid"}
    [] check = "claimed" -> OldState \cup {"claimed"}
    [] check = "open"    -> {"open", "claimed"}
    [] check = "draft"   -> {"draft", "open", "claimed"}
CheckAt(v) == Checks[CASE v < 2 -> 1 [] v \in 2..3 -> 2 [] v = 4 -> 3 [] v \in 5..7 -> 4 [] v >= 8 -> 5]

\* The early ones are of every age; the others came with the steps beside them.
ColumnsAt(v) ==
  {c \in SUBSET Columns :
     /\ ("claimed_at" \in c => v >= 2) /\ (v >= 3 => "claimed_at" \in c)
     /\ ("cover_ai" \in c => v >= 7)   /\ (v >= 8 => "cover_ai" \in c)
     /\ ("printed" \in c <=> v = Latest)}

MigrationInit ==
  /\ boot = [at |-> 0, done |-> FALSE] /\ removed = {} /\ anew = FALSE /\ stops = 0
  /\ \/ /\ file = "missing" /\ stamp = 0 /\ columns = {} /\ rates = {} /\ board = {} /\ index = FALSE
        /\ person = [check |-> "none", role |-> "none"] /\ trip = [check |-> "none", status |-> "none"]
        /\ tokenVersion = [now |-> 0, held |-> 0]
     \/ /\ file = "made" /\ stamp \in 0..Latest
        /\ person \in [check : {IF stamp < 5 THEN "chain" ELSE "two"}, role : IF stamp < 5 THEN OldRole ELSE {"user", "admin"}]
        /\ trip \in [check : {CheckAt(stamp)}, status : StatesOf(CheckAt(stamp))]
        /\ columns \in ColumnsAt(stamp) /\ index = ("early" \in columns)
        /\ rates \in {{"typed", "few-digits"}, {"typed", "full"}} /\ (stamp >= 3 => "full" \in rates)
        /\ board \in BoardAt(stamp)
        /\ LET n == IF stamp < 6 THEN 0 ELSE 1 IN tokenVersion = [now |-> n, held |-> n]
  /\ was = [role |-> person.role, status |-> trip.status, stamp |-> stamp]

-----------------------------------------------------------------------------
(* run.  The steps in their order; `ensured' ones run on every boot.       *)

\* Step n is at 2n, the columns ensured before it at 2n - 1, the server up at the end.
Ensured == [early |-> 3, claimed_at |-> 5, cover_ai |-> 15]
Place(n) == 2 * n
Places  == {1, 20} \cup {Place(n) : n \in 2..Latest} \cup {Ensured[c] : c \in DOMAIN Ensured}
Down    == [at |-> 0, done |-> FALSE]
At(i)     == boot = [at |-> i, done |-> FALSE]
Bodied(i) == boot = [at |-> i, done |-> TRUE]
Goes(i)   == boot' = [at |-> CHOOSE j \in Places : j > i /\ \A k \in Places : k > i => j <= k, done |-> FALSE]

\* schema.sql: what is missing is made in its latest shape.
SchemaSql(p, t) ==
  /\ person' = IF p.check = "none" THEN [check |-> "two", role |-> "none"] ELSE p
  /\ trip' = IF t.check = "none" THEN [check |-> "draft", status |-> "none"] ELSE t

Schema ==
  /\ At(1) /\ Goes(1)
  /\ SchemaSql(person, trip)
  /\ columns' = IF file = "made" THEN columns ELSE Columns
  /\ file' = "made"
  /\ UNCHANGED <<stamp, rates, board, tokenVersion, index, was, removed, anew, stops>>

\* _ensureColumn, and the index made beside the last of the early ones.
Ensure(column) ==
  LET i == Ensured[column] IN
  /\ At(i) /\ Goes(i)
  /\ columns' = columns \cup {column}
  /\ index' = (index \/ column = "early")
  /\ UNCHANGED <<file, stamp, person, trip, rates, board, tokenVersion, was, removed, anew, stops>>

\* _step: skipped when the stamp says so; what it does, then its stamp.
Skip(n) ==
  /\ At(Place(n)) /\ stamp >= n /\ Goes(Place(n))
  /\ UNCHANGED <<dbVars, was, removed, anew, stops>>
Stamp(n) ==
  /\ Bodied(Place(n)) /\ stamp' = n /\ Goes(Place(n))
  /\ UNCHANGED <<file, person, trip, columns, rates, board, tokenVersion, index, was, removed, anew, stops>>
Body(n) == At(Place(n)) /\ stamp < n
Did(n)  == boot' = [at |-> Place(n), done |-> TRUE]

IsBefore(check, other) == \E i, j \in DOMAIN Checks : i < j /\ Checks[i] = check /\ Checks[j] = other

\* A table rebuilt under another CHECK, its rows carried across.
Step2 ==
  /\ Body(2) /\ Did(2)
  /\ trip' = IF trip.check = "two-kinds" THEN [trip EXCEPT !.check = "three-kinds"] ELSE trip
  /\ UNCHANGED <<file, stamp, person, columns, rates, board, tokenVersion, index, was, removed, anew, stops>>

Step3 ==
  /\ Body(3) /\ Did(3)
  /\ rates' = rates \cap {"typed"}
  /\ UNCHANGED <<file, stamp, person, trip, columns, board, tokenVersion, index, was, removed, anew, stops>>

\* mutant: the rows are carried as they are, `paid' under a CHECK without it
Step4CarriesPaid ==
  /\ Body(4) /\ Did(4)
  /\ trip' = IF IsBefore(trip.check, "claimed") THEN [trip EXCEPT !.check = "claimed"] ELSE trip
  /\ UNCHANGED <<file, stamp, person, columns, rates, board, tokenVersion, index, was, removed, anew, stops>>

Step4 ==
  /\ Body(4) /\ Did(4)
  /\ trip' = IF ~IsBefore(trip.check, "claimed") THEN trip
             ELSE [check |-> "claimed", status |-> IF trip.status = "paid" THEN "claimed" ELSE trip.status]
  /\ UNCHANGED <<file, stamp, person, columns, rates, board, tokenVersion, index, was, removed, anew, stops>>

\* Two tables, one after the other: the people, then the cases.  The people's
\* new table has every column schema.sql names, and not the index.
Step5People ==
  /\ Body(5) /\ person.check = "chain"
  /\ person' = [check |-> "two", role |-> IF person.role = "admin" THEN "admin" ELSE "user"]
  /\ index' = FALSE /\ anew' = TRUE
  /\ UNCHANGED <<file, stamp, trip, columns, rates, board, tokenVersion, boot, was, removed, stops>>
Step5Cases ==
  /\ Body(5) /\ person.check # "chain" /\ Did(5)
  /\ trip' = IF ~IsBefore(trip.check, "open") THEN trip
             ELSE [check |-> "draft", status |-> IF trip.status \in {"claimed", "posted"} THEN "claimed" ELSE "open"]
  /\ UNCHANGED <<file, stamp, person, columns, rates, board, tokenVersion, index, was, removed, anew, stops>>

Step6 ==
  /\ Body(6) /\ Did(6)
  /\ tokenVersion' = [tokenVersion EXCEPT !.now = @ + 1]
  /\ UNCHANGED <<file, stamp, person, trip, columns, rates, board, index, was, removed, anew, stops>>

\* The default currencies, each an INSERT of its own, while there is room.
Missing == {i \in DOMAIN DefaultBoard : DefaultBoard[i] \notin board}
Step7Adds ==
  /\ Body(7) /\ file = "made" /\ trip.status # "none"
  /\ Missing # {} /\ Cardinality(board) < BoardMax
  /\ board' = board \cup {DefaultBoard[CHOOSE i \in Missing : \A j \in Missing : i <= j]}
  /\ UNCHANGED <<file, stamp, person, trip, columns, rates, tokenVersion, index, boot, was, removed, anew, stops>>
Step7 ==
  /\ Body(7) /\ (trip.status = "none" \/ Missing = {} \/ Cardinality(board) >= BoardMax) /\ Did(7)
  /\ UNCHANGED <<dbVars, was, removed, anew, stops>>

Step8 ==
  /\ Body(8) /\ Did(8)
  /\ trip' = [trip EXCEPT !.check = "draft"]
  /\ UNCHANGED <<file, stamp, person, columns, rates, board, tokenVersion, index, was, removed, anew, stops>>

Step9 ==
  /\ Body(9) /\ Did(9)
  /\ columns' = columns \cup {"printed"}
  /\ UNCHANGED <<file, stamp, person, trip, rates, board, tokenVersion, index, was, removed, anew, stops>>

-----------------------------------------------------------------------------
(* The server's life.                                                      *)

Boot ==
  /\ boot = Down
  /\ boot' = [at |-> 1, done |-> FALSE] /\ anew' = FALSE
  /\ file' = IF file = "missing" THEN "empty" ELSE file
  /\ UNCHANGED <<stamp, person, trip, columns, rates, board, tokenVersion, index, was, removed, stops>>

Up == At(20)

\* A step that fails stops the boot; so does anything that stops the process,
\* and a running server is stopped and started like any other.
Halt ==
  /\ boot # Down /\ stops < MaxStops
  /\ boot' = Down /\ stops' = stops + 1
  /\ UNCHANGED <<dbVars, was, removed, anew>>

\* Meanwhile: a rate is looked up, somebody signs in, a currency is taken off.
LookUp ==
  /\ Up /\ rates' = rates \cup {"full"}
  /\ UNCHANGED <<file, stamp, person, trip, columns, board, tokenVersion, index, boot, was, removed, anew, stops>>
SignIn ==
  /\ Up /\ tokenVersion' = [tokenVersion EXCEPT !.held = tokenVersion.now]
  /\ UNCHANGED <<file, stamp, person, trip, columns, rates, board, index, boot, was, removed, anew, stops>>
TakeOff(c) ==
  /\ Up /\ c \in board
  /\ board' = board \ {c} /\ removed' = removed \cup {c}
  /\ UNCHANGED <<file, stamp, person, trip, columns, rates, tokenVersion, index, boot, was, anew, stops>>

MigrationNext ==
  \/ Boot \/ Schema \/ \E c \in DOMAIN Ensured : Ensure(c)
  \/ \E n \in 2..Latest : Skip(n) \/ Stamp(n)
  \/ Step2 \/ Step3 \/ Step4 \/ Step5People \/ Step5Cases \/ Step6 \/ Step7Adds \/ Step7 \/ Step8 \/ Step9
  \/ Halt \/ LookUp \/ SignIn \/ \E c \in board : TakeOff(c)

MigrationSpec == MigrationInit /\ [][MigrationNext]_migrationVars

-----------------------------------------------------------------------------
(* preflight's `database': what it says of a box, `existing' or not.       *)

Preflight(existing) ==
  LET tables == file # "missing" /\ person.check # "none" IN
  CASE ~tables -> IF existing THEN "fail" ELSE "ok"
    [] tables /\ stamp > Latest -> "warn"
    [] OTHER -> IF existing /\ person.role = "none" THEN "fail" ELSE "ok"

\* What each row became: no role but admin is kept, a case paid or in Xero is
\* claimed, and any other of the old chain is open.
RoleNow   == IF was.stamp < 5 /\ was.role \notin {"admin", "none"} THEN "user" ELSE was.role
StatusNow ==
  CASE was.status \in {"paid", "posted", "claimed"} -> "claimed"
    [] was.status \in OldState \ {"posted"} /\ was.stamp < 5 -> "open"
    [] OTHER -> was.status

\* db/migrate.js:12-15, :234-241: a server that runs has the latest shape, and
\* in it every row the old one had, as the steps translate it and once; the
\* cached rates of few digits are gone and typed ones are not; sessions from
\* before were ended, and none given since; a currency taken off stays off;
\* and a box a stopped boot left is not called unfit, while one that should
\* have people and has none is.  A boot that rebuilt the people's table runs
\* without the index over their addresses until the next one.
MigrationHolds ==
  /\ Up =>
       /\ stamp = Latest /\ file = "made" /\ columns = Columns
       /\ person = [check |-> "two", role |-> RoleNow] /\ trip = [check |-> "draft", status |-> StatusNow]
       /\ "few-digits" \notin rates /\ (was.role # "none" => "typed" \in rates)
       /\ tokenVersion.now > 0 /\ removed \cap board = {}
       /\ (was.role # "none" /\ was.stamp < 7 => Cardinality(board \cup removed) >= BoardMax \/ Missing \subseteq {i \in DOMAIN DefaultBoard : DefaultBoard[i] \in removed})
       /\ (index \/ anew)
  /\ tokenVersion.held <= tokenVersion.now
  /\ (Up /\ was.stamp >= 6 => tokenVersion.held = tokenVersion.now)
  /\ (was.role = "none" => Preflight(FALSE) # "fail")
  /\ (was.role # "none" => Preflight(TRUE) = "ok") /\ (was.role = "none" => Preflight(TRUE) = "fail")
=============================================================================
