--------------------------- MODULE Migration_proofs ---------------------------
(* What a migration promises of the database, for any default board and any   *)
(* number of stopped boots.                                                   *)
EXTENDS Migration, WellFoundedInduction, TLAPS

\* Where the boot is.
BootInv ==
  /\ boot \in [at : {0} \cup Places, done : BOOLEAN] /\ stamp \in 0..Latest
  /\ \A n \in 2..Latest : boot.at > Place(n) => stamp >= n
  /\ boot.done => \E n \in 2..Latest : boot.at = Place(n) /\ stamp < n
  /\ boot.at > 1 => file = "made"

\* A step has had its effect when its stamp is there, or is all that is missing.
Past(n) == stamp >= n \/ Bodied(Place(n))

\* The table of cases, and the people's, in some shape of their history.
ShapeInv ==
  /\ Past(2) => trip.check # "two-kinds"
  /\ Past(4) => trip.check \notin {"two-kinds", "three-kinds"}
  /\ Past(5) => person.check # "chain" /\ trip.check \in {"none", "open", "draft"}
  /\ Past(8) => trip.check \in {"none", "draft"}

\* What the rows are at that shape, from what they were.
RowInv ==
  /\ person \in [check : {"none", "chain", "two"}, role : OldRole \cup {"user", "none"}]
  /\ trip \in [check : {"none"} \cup {Checks[i] : i \in DOMAIN Checks}, status : OldState \cup {"paid", "claimed", "open", "none"}]
  /\ IF was.role = "none"
     THEN /\ was = [role |-> "none", status |-> "none", stamp |-> 0]
          /\ person.check # "chain" /\ person.role = "none" /\ trip.check \in {"none", "draft"} /\ trip.status = "none"
          /\ (file = "made" => person.check = "two" /\ trip.check = "draft")
     ELSE /\ file = "made" /\ person.check # "none" /\ trip.check # "none" /\ was.status # "none"
          /\ person.role = IF person.check = "chain" THEN was.role ELSE RoleNow
          /\ trip.status = CASE trip.check \in {"two-kinds", "three-kinds"} -> was.status
                             [] trip.check = "claimed" -> IF was.status = "paid" THEN "claimed" ELSE was.status
                             [] OTHER -> StatusNow
          /\ (person.check = "chain" => was.role \in OldRole /\ was.stamp < 5)
          /\ (trip.check \in {"two-kinds", "three-kinds", "claimed"} =>
                was.stamp < 5 /\ was.status \in OldState \cup {"paid", "claimed"})

\* Columns, and the index over the addresses.
ColumnInv ==
  /\ columns \subseteq Columns
  /\ \A c \in DOMAIN Ensured : boot.at > Ensured[c] => c \in columns
  /\ Past(9) => "printed" \in columns
  /\ boot.at > Ensured["early"] => index \/ anew

\* Rates and sessions.
RateInv ==
  /\ Past(3) => "few-digits" \notin rates
  /\ was.role # "none" => "typed" \in rates
SessionInv ==
  /\ tokenVersion \in [now : Nat, held : Nat] /\ tokenVersion.held <= tokenVersion.now
  /\ was.stamp \in 0..stamp
  /\ Past(6) => tokenVersion.now > 0
  /\ was.stamp >= 6 => tokenVersion.held = tokenVersion.now

\* The board: every default there was room for has been on it.
Seeded ==
  \/ Cardinality(board \cup removed) >= BoardMax
  \/ Missing \subseteq {i \in DOMAIN DefaultBoard : DefaultBoard[i] \in removed}
BoardInv ==
  /\ removed \cap board = {}
  /\ removed # {} => stamp = Latest
  /\ was.role # "none" /\ was.stamp < 7 /\ Past(7) => Seeded

MigrationInv == BootInv /\ ShapeInv /\ RowInv /\ ColumnInv /\ RateInv /\ SessionInv /\ BoardInv

-----------------------------------------------------------------------------
(* The places of a boot, and the shapes of a table.                        *)

LEMMA PlacesAre == Places = {1, 3, 4, 5, 6, 8, 10, 12, 14, 15, 16, 18, 20}
<1>1. {Ensured[c] : c \in DOMAIN Ensured} = {3, 5, 15}
  BY DEF Ensured
<1>2. {Place(n) : n \in 2..Latest} = {4, 6, 8, 10, 12, 14, 16, 18}
  BY DEF Place, Latest
<1> QED BY <1>1, <1>2 DEF Places

\* A boot goes on to the next place, past no other.
LEMMA NextPlace ==
  ASSUME NEW i \in Places, i # 20, Goes(i)
  PROVE  /\ boot' \in [at : Places, done : {FALSE}] /\ boot'.at > i
         /\ \A k \in Places : k > i => boot'.at <= k
<1> DEFINE S == {j \in Places : j > i}  j == CHOOSE j \in Places : j > i /\ \A k \in Places : k > i => j <= k
<1>1. S \subseteq Nat /\ S # {}
  BY PlacesAre
<1>2. PICK x \in S : \A y \in S : ~ (<<y, x>> \in OpToRel(<, Nat))
  BY <1>1, NatLessThanWellFounded, WFMin
<1>3. \A y \in S : x <= y
  <2>1. \A y \in S : ~(y < x)
    BY <1>1, <1>2 DEF OpToRel
  <2> QED BY <1>1, <2>1
<1>4. j \in Places /\ j > i /\ \A k \in Places : k > i => j <= k
  BY <1>3
<1>5. boot' = [at |-> j, done |-> FALSE]
  BY DEF Goes
<1> HIDE DEF j
<1> QED BY <1>4, <1>5

LEMMA PlaceOf == ASSUME NEW n \in 2..Latest PROVE Place(n) \in Places /\ Place(n) = 2 * n /\ Place(n) # 20 /\ n \in 2..9
BY PlacesAre DEF Place, Latest

LEMMA EnsuredOf ==
  /\ DOMAIN Ensured = {"early", "claimed_at", "cover_ai"}
  /\ Ensured["early"] = 3 /\ Ensured["claimed_at"] = 5 /\ Ensured["cover_ai"] = 15
BY DEF Ensured

LEMMA ChecksAre ==
  /\ {Checks[i] : i \in DOMAIN Checks} = {"two-kinds", "three-kinds", "claimed", "open", "draft"}
  /\ \A c : IsBefore(c, "claimed") <=> c \in {"two-kinds", "three-kinds"}
  /\ \A c : IsBefore(c, "open") <=> c \in {"two-kinds", "three-kinds", "claimed"}
<1>1. /\ DOMAIN Checks = {1, 2, 3, 4, 5}
      /\ Checks[1] = "two-kinds" /\ Checks[2] = "three-kinds" /\ Checks[3] = "claimed"
      /\ Checks[4] = "open" /\ Checks[5] = "draft"
  BY DEF Checks
<1>2. {Checks[i] : i \in DOMAIN Checks} = {"two-kinds", "three-kinds", "claimed", "open", "draft"}
  BY <1>1
<1>3. ASSUME NEW c PROVE IsBefore(c, "claimed") <=> c \in {"two-kinds", "three-kinds"}
  <2>1. ASSUME IsBefore(c, "claimed") PROVE c \in {"two-kinds", "three-kinds"}
    <3>1. PICK i, j \in DOMAIN Checks : i < j /\ Checks[i] = c /\ Checks[j] = "claimed"
      BY <2>1 DEF IsBefore
    <3>2. i \in {1, 2, 3, 4, 5} /\ j \in {1, 2, 3, 4, 5}
      BY <1>1
    <3>3. j = 3
      BY <1>1, <3>1, <3>2
    <3>4. i = 1 \/ i = 2
      BY <3>1, <3>2, <3>3
    <3> QED BY <1>1, <3>1, <3>4
  <2>2. 1 < 3 /\ 2 < 3
    OBVIOUS
  <2> QED BY <1>1, <2>1, <2>2, Zenon DEF IsBefore
<1>4. ASSUME NEW c PROVE IsBefore(c, "open") <=> c \in {"two-kinds", "three-kinds", "claimed"}
  <2>1. ASSUME IsBefore(c, "open") PROVE c \in {"two-kinds", "three-kinds", "claimed"}
    <3>1. PICK i, j \in DOMAIN Checks : i < j /\ Checks[i] = c /\ Checks[j] = "open"
      BY <2>1 DEF IsBefore
    <3>2. i \in {1, 2, 3, 4, 5} /\ j \in {1, 2, 3, 4, 5}
      BY <1>1
    <3>3. j = 4
      BY <1>1, <3>1, <3>2
    <3>4. i = 1 \/ i = 2 \/ i = 3
      BY <3>1, <3>2, <3>3
    <3> QED BY <1>1, <3>1, <3>4
  <2>2. 1 < 4 /\ 2 < 4 /\ 3 < 4
    OBVIOUS
  <2> QED BY <1>1, <2>1, <2>2, Zenon DEF IsBefore
<1> QED BY <1>2, <1>3, <1>4

-----------------------------------------------------------------------------
(* The boot itself.                                                        *)

\* The server stays where it is.
LEMMA BootStays ==
  ASSUME BootInv, UNCHANGED <<boot, stamp>>, file' = file PROVE BootInv'
BY DEF BootInv

\* It stops, or comes up again.
LEMMA BootTurns ==
  ASSUME BootInv, stamp' = stamp, boot' \in {Down, [at |-> 1, done |-> FALSE]} PROVE BootInv'
<1>1. /\ boot' \in [at : {0} \cup Places, done : BOOLEAN] /\ boot'.at \in {0, 1} /\ ~boot'.done
  <2>1. boot' = [at |-> 0, done |-> FALSE] \/ boot' = [at |-> 1, done |-> FALSE]
    BY DEF Down
  <2>2. 0 \in {0} \cup Places /\ 1 \in {0} \cup Places
    BY PlacesAre
  <2>3. CASE boot' = [at |-> 0, done |-> FALSE]
    BY <2>2, <2>3
  <2>4. CASE boot' = [at |-> 1, done |-> FALSE]
    BY <2>2, <2>4
  <2> QED BY <2>1, <2>3, <2>4
<1>2. \A n \in 2..Latest : Place(n) \in Nat /\ Place(n) > 1
  BY DEF Place, Latest
<1> QED BY <1>1, <1>2 DEF BootInv

\* It passes a place; at a step, with its stamp there.
LEMMA BootGoes ==
  ASSUME BootInv, NEW i \in Places, boot.at = i, i # 20, Goes(i), stamp' \in 0..Latest, stamp' >= stamp,
         \A n \in 2..Latest : i = Place(n) => stamp' >= n, i > 1 => file' = file, i = 1 => file' = "made"
  PROVE  BootInv'
<1>1. /\ boot' \in [at : Places, done : {FALSE}] /\ boot'.at > i
      /\ \A k \in Places : k > i => boot'.at <= k
  BY NextPlace
<1>2. ASSUME NEW n \in 2..Latest, boot'.at > Place(n) PROVE stamp' >= n
  <2>1. Place(n) <= i
    BY <1>1, <1>2, PlaceOf, PlacesAre
  <2>2. CASE Place(n) < i
    BY <2>2 DEF BootInv, Latest
  <2> QED BY <2>1, <2>2, PlaceOf, PlacesAre
<1>3. boot' \in [at : {0} \cup Places, done : BOOLEAN] /\ ~boot'.done
  BY <1>1
<1>4. file' = "made"
  BY PlacesAre DEF BootInv
<1> QED BY <1>2, <1>3, <1>4 DEF BootInv

\* What a step does is done, and its stamp is not there yet.
LEMMA BootDid ==
  ASSUME BootInv, NEW n \in 2..Latest, Body(n), Did(n), stamp' = stamp, file' = file PROVE BootInv'
BY PlaceOf DEF BootInv, Body, Did, At, Bodied

\* A step that runs follows the one before it.
LEMMA BodyPast ==
  ASSUME BootInv, NEW n \in 2..Latest, Body(n)
  PROVE  stamp < n /\ file = "made" /\ boot.at = Place(n) /\ ~boot.done /\ \A m \in 2..Latest : m < n => stamp >= m
BY PlaceOf DEF BootInv, Body, At, Place, Latest

\* Up, everything has been passed.
LEMMA UpPast ==
  ASSUME BootInv, Up
  PROVE  stamp = Latest /\ file = "made" /\ boot.at = 20 /\ \A n \in 2..Latest : Past(n)
BY PlaceOf DEF BootInv, Up, At, Place, Latest, Past

-----------------------------------------------------------------------------
(* The rest, where a step leaves it alone.                                 *)

\* No step has its effect but those that had it, and one that has it now.
LEMMA PastStays ==
  ASSUME stamp' = stamp, boot'.done => boot' = boot, BootInv, BootInv', NEW n \in 2..Latest, Past(n)'
  PROVE  Past(n)
BY DEF Past, Bodied, BootInv

LEMMA PastDid ==
  ASSUME BootInv, NEW n \in 2..Latest, Body(n), Did(n), stamp' = stamp, NEW m \in 2..Latest, Past(m)'
  PROVE  Past(m) \/ m = n
BY DEF Past, Bodied, BootInv, Did, Place, Latest

LEMMA PastStamp ==
  ASSUME BootInv, NEW n \in 2..Latest, Stamp(n), NEW m \in 2..Latest, Past(m)'
  PROVE  Past(m)
<1>1. stamp' = n /\ ~boot'.done /\ Bodied(Place(n))
  BY DEF Stamp, Goes
<1>2. m <= n
  BY <1>1 DEF Past, Bodied, Latest
<1>3. CASE m < n
  BY <1>1, <1>3 DEF Past, Bodied, BootInv, Place, Latest
<1> QED BY <1>1, <1>2, <1>3 DEF Past, Latest

LEMMA PastEach ==
  ASSUME \A n \in 2..Latest : Past(n)' => Past(n)
  PROVE  /\ (Past(2)' => Past(2)) /\ (Past(3)' => Past(3)) /\ (Past(4)' => Past(4)) /\ (Past(5)' => Past(5))
         /\ (Past(6)' => Past(6)) /\ (Past(7)' => Past(7)) /\ (Past(8)' => Past(8)) /\ (Past(9)' => Past(9))
<1>1. (Past(2)' => Past(2)) /\ (Past(3)' => Past(3)) /\ (Past(4)' => Past(4)) /\ (Past(5)' => Past(5))
  BY DEF Latest
<1>2. (Past(6)' => Past(6)) /\ (Past(7)' => Past(7)) /\ (Past(8)' => Past(8)) /\ (Past(9)' => Past(9))
  BY DEF Latest
<1> QED BY <1>1, <1>2

\* Rows, rates, sessions and the board are as they were.
LEMMA RestCarries ==
  ASSUME MigrationInv, BootInv', UNCHANGED <<person, trip, rates, tokenVersion, board, was, removed, file>>,
         stamp' >= stamp, \A n \in 2..Latest : Past(n)' => Past(n)
  PROVE  ShapeInv' /\ RowInv' /\ RateInv' /\ SessionInv' /\ BoardInv'
<1>1. ShapeInv'
  BY PastEach DEF MigrationInv, ShapeInv
<1>2. RowInv'
  BY DEF MigrationInv, RowInv, RoleNow, StatusNow
<1>3. RateInv'
  BY PastEach DEF MigrationInv, RateInv
<1>4. SessionInv'
  BY PastEach DEF MigrationInv, SessionInv, BootInv, Latest
<1>5. BoardInv'
  BY PastEach DEF MigrationInv, BoardInv, BootInv, Latest, Seeded, Missing
<1> QED BY <1>1, <1>2, <1>3, <1>4, <1>5

\* So are the columns, where the boot passes none that is to be ensured.
LEMMA ColumnsCarry ==
  ASSUME MigrationInv, BootInv', UNCHANGED <<columns, index, anew>>, Past(9)' => Past(9),
         \A c \in DOMAIN Ensured : boot'.at > Ensured[c] => boot.at > Ensured[c]
  PROVE  ColumnInv'
BY EnsuredOf DEF MigrationInv, ColumnInv

\* A step's body, and the stamp after it, pass no column that is to be ensured.
LEMMA StepPassesNone ==
  ASSUME BootInv, NEW n \in 2..Latest, boot.at = Place(n), Goes(Place(n)) \/ boot'.at = boot.at
  PROVE  \A c \in DOMAIN Ensured : boot'.at > Ensured[c] => boot.at > Ensured[c]
<1>1. CASE boot'.at = boot.at
  BY <1>1
<1>2. CASE Goes(Place(n))
  <2> SUFFICES ASSUME NEW c \in DOMAIN Ensured, boot'.at > Ensured[c] PROVE boot.at > Ensured[c]
    OBVIOUS
  <2>1. Ensured[c] \in {3, 5, 15} /\ Ensured[c] \in Places
    BY EnsuredOf, PlacesAre
  <2>2. ~(Ensured[c] > Place(n))
    <3>1. /\ boot' \in [at : Places, done : {FALSE}]
          /\ \A k \in Places : k > Place(n) => boot'.at <= k
      BY <1>2, PlaceOf, NextPlace
    <3>2. boot'.at \in Nat
      BY <3>1, PlacesAre
    <3> QED BY <2>1, <3>1, <3>2
  <2>3. Place(n) \in Nat /\ Place(n) # Ensured[c]
    BY <2>1, PlaceOf
  <2> QED BY <2>1, <2>2, <2>3
<1> QED BY <1>1, <1>2

-----------------------------------------------------------------------------
(* Each step keeps the invariant.                                          *)

LEMMA SkipOrStampKeeps == ASSUME MigrationInv, NEW n \in 2..Latest, Skip(n) \/ Stamp(n) PROVE MigrationInv'
<1>1. /\ boot.at = Place(n) /\ Goes(Place(n)) /\ stamp' >= n /\ stamp' >= stamp /\ stamp' \in 0..Latest
      /\ UNCHANGED <<file, person, trip, columns, rates, board, tokenVersion, index, was, removed, anew>>
  <2>1. CASE Skip(n)
    BY <2>1 DEF Skip, At, dbVars, MigrationInv, BootInv, Latest
  <2>2. CASE Stamp(n)
    <3>1. stamp < n
      BY <2>2, PlaceOf DEF Stamp, Bodied, MigrationInv, BootInv, Place, Latest
    <3> QED BY <2>2, <3>1 DEF Stamp, Bodied, MigrationInv, BootInv, Latest
  <2> QED BY <2>1, <2>2
<1>2. BootInv'
  <2>1. \A m \in 2..Latest : Place(n) = Place(m) => m = n
    BY DEF Place, Latest
  <2>2. Place(n) \in Places /\ Place(n) # 20 /\ Place(n) > 1
    BY PlaceOf
  <2> QED BY <1>1, <2>1, <2>2, BootGoes DEF MigrationInv
<1>3. ~boot'.done
  BY <1>1 DEF Goes
<1>4. \A m \in 2..Latest : Past(m)' => Past(m)
  BY <1>2, <1>3, PastStays, PastStamp DEF MigrationInv, Skip, dbVars
<1>5. ShapeInv' /\ RowInv' /\ RateInv' /\ SessionInv' /\ BoardInv'
  BY <1>1, <1>2, <1>4, RestCarries
<1>6. ColumnInv'
  <2>1. Past(9)' => Past(9)
    BY <1>4 DEF Latest
  <2> QED BY <1>1, <1>2, <2>1, ColumnsCarry, StepPassesNone DEF MigrationInv
<1> QED BY <1>2, <1>5, <1>6 DEF MigrationInv

LEMMA EnsureKeeps == ASSUME MigrationInv, NEW c \in DOMAIN Ensured, Ensure(c) PROVE MigrationInv'
<1> DEFINE i == Ensured[c]
<1>1. /\ boot.at = i /\ ~boot.done /\ Goes(i) /\ columns' = columns \cup {c} /\ index' = (index \/ c = "early")
      /\ UNCHANGED <<file, stamp, person, trip, rates, board, tokenVersion, was, removed, anew>>
  BY DEF Ensure, At
<1>2. i \in Places /\ i \in {3, 5, 15} /\ c \in {"early", "claimed_at", "cover_ai"}
  BY EnsuredOf, PlacesAre
<1> HIDE DEF i
<1>3. BootInv'
  <2>1. \A n \in 2..Latest : i # Place(n)
    BY <1>2 DEF Place, Latest
  <2>2. stamp \in 0..Latest /\ stamp >= stamp
    BY DEF MigrationInv, BootInv, Latest
  <2> QED BY <1>1, <1>2, <2>1, <2>2, BootGoes DEF MigrationInv
<1>4. ~boot'.done
  BY <1>1 DEF Goes
<1>5. \A m \in 2..Latest : Past(m)' => Past(m)
  BY <1>1, <1>3, <1>4, PastStays DEF MigrationInv
<1>6. ShapeInv' /\ RowInv' /\ RateInv' /\ SessionInv' /\ BoardInv'
  BY <1>1, <1>3, <1>5, RestCarries DEF MigrationInv, BootInv, Latest
<1>7. ColumnInv'
  <2>1. \A e \in DOMAIN Ensured : boot'.at > Ensured[e] => e = c \/ boot.at > Ensured[e]
    <3> SUFFICES ASSUME NEW e \in DOMAIN Ensured, boot'.at > Ensured[e], e # c PROVE boot.at > Ensured[e]
      OBVIOUS
    <3>1. Ensured[e] \in {3, 5, 15} /\ Ensured[e] \in Places /\ Ensured[e] # i
      BY EnsuredOf, PlacesAre DEF i
    <3>2. ~(Ensured[e] > i)
      <4>1. /\ boot' \in [at : Places, done : {FALSE}]
            /\ \A k \in Places : k > i => boot'.at <= k
        BY <1>1, <1>2, i # 20, NextPlace
      <4>2. boot'.at \in Nat
        BY <4>1, PlacesAre
      <4> QED BY <3>1, <4>1, <4>2
    <3> QED BY <1>1, <1>2, <3>1, <3>2
  <2>2. Past(9)' => Past(9)
    BY <1>5 DEF Latest
  <2>3. columns' \subseteq Columns
    BY <1>1, <1>2 DEF MigrationInv, ColumnInv, Columns
  <2>4. boot'.at > Ensured["early"] => index' \/ anew'
    BY <1>1, <2>1, EnsuredOf DEF MigrationInv, ColumnInv
  <2> QED BY <1>1, <2>1, <2>2, <2>3, <2>4 DEF MigrationInv, ColumnInv
<1> QED BY <1>3, <1>6, <1>7 DEF MigrationInv

LEMMA SchemaKeeps == ASSUME MigrationInv, Schema PROVE MigrationInv'
<1>1. /\ boot.at = 1 /\ ~boot.done /\ Goes(1) /\ file' = "made"
      /\ person' = IF person.check = "none" THEN [check |-> "two", role |-> "none"] ELSE person
      /\ trip' = IF trip.check = "none" THEN [check |-> "draft", status |-> "none"] ELSE trip
      /\ columns' = IF file = "made" THEN columns ELSE Columns
      /\ UNCHANGED <<stamp, rates, board, tokenVersion, index, was, removed, anew>>
  BY DEF Schema, At, SchemaSql
<1>2. BootInv'
  <2>1. \A n \in 2..Latest : 1 # Place(n)
    BY DEF Place, Latest
  <2>2. stamp \in 0..Latest /\ stamp >= stamp
    BY DEF MigrationInv, BootInv, Latest
  <2>3. 1 \in Places /\ 1 # 20 /\ ~(1 > 1)
    BY PlacesAre
  <2> QED BY <1>1, <2>1, <2>2, <2>3, BootGoes DEF MigrationInv
<1>3. ~boot'.done
  BY <1>1 DEF Goes
<1>4. \A m \in 2..Latest : Past(m)' => Past(m)
  BY <1>1, <1>2, <1>3, PastStays DEF MigrationInv
<1>5. ShapeInv'
  BY <1>1, <1>4, PastEach DEF MigrationInv, ShapeInv
<1>6. RowInv'
  <2>1. CASE was.role = "none"
    BY <1>1, <2>1, ChecksAre DEF MigrationInv, RowInv
  <2>2. CASE was.role # "none"
    <3>1. person' = person /\ trip' = trip /\ file' = file /\ was' = was
      BY <1>1, <2>2 DEF MigrationInv, RowInv
    <3> QED BY <2>2, <3>1 DEF MigrationInv, RowInv, RoleNow, StatusNow
  <2> QED BY <2>1, <2>2
<1>7. RateInv' /\ SessionInv' /\ BoardInv'
  BY <1>1, <1>4, PastEach DEF MigrationInv, RateInv, SessionInv, BoardInv, BootInv, Latest, Seeded, Missing
<1>8. ColumnInv'
  <2>1. \A c \in DOMAIN Ensured : ~(boot'.at > Ensured[c])
    <3>1. boot'.at <= 3
      BY <1>1, NextPlace, PlacesAre
    <3> QED BY <1>2, <3>1, EnsuredOf, PlacesAre DEF BootInv
  <2>2. Past(9)' => Past(9)
    BY <1>4 DEF Latest
  <2> QED BY <1>1, <2>1, <2>2, EnsuredOf DEF MigrationInv, ColumnInv, Columns
<1> QED BY <1>2, <1>5, <1>6, <1>7, <1>8 DEF MigrationInv

\* What a step's body leaves alone, whatever it does.
LEMMA DidFrame ==
  ASSUME MigrationInv, NEW n \in 2..Latest, Body(n), Did(n), UNCHANGED <<stamp, file, was, removed>>
  PROVE  /\ BootInv' /\ stamp < n /\ file = "made" /\ boot'.at = boot.at
         /\ \A m \in 2..Latest : m < n => stamp >= m /\ Past(m)
         /\ \A m \in 2..Latest : m # n => (Past(m)' => Past(m))
         /\ \A c \in DOMAIN Ensured : boot'.at > Ensured[c] => boot.at > Ensured[c]
<1>1. BootInv' /\ stamp < n /\ file = "made" /\ boot'.at = boot.at /\ \A m \in 2..Latest : m < n => stamp >= m
  BY BootDid, BodyPast DEF MigrationInv, Did
<1>2. \A m \in 2..Latest : m < n => Past(m)
  BY <1>1 DEF Past
<1>3. \A m \in 2..Latest : m # n => (Past(m)' => Past(m))
  BY PastDid DEF MigrationInv
<1> QED BY <1>1, <1>2, <1>3, EnsuredOf

LEMMA ShapeFrame ==
  ASSUME ShapeInv, UNCHANGED <<person, trip>>,
         Past(2)' => Past(2), Past(4)' => Past(4), Past(5)' => Past(5), Past(8)' => Past(8)
  PROVE  ShapeInv'
BY DEF ShapeInv

LEMMA RowFrame == ASSUME RowInv, UNCHANGED <<person, trip, was, file>> PROVE RowInv'
BY DEF RowInv, RoleNow, StatusNow

LEMMA RateFrame == ASSUME RateInv, UNCHANGED <<rates, was>>, Past(3)' => Past(3) PROVE RateInv'
BY DEF RateInv

LEMMA SessionFrame == ASSUME SessionInv, UNCHANGED <<tokenVersion, was, stamp>>, Past(6)' => Past(6) PROVE SessionInv'
BY DEF SessionInv

LEMMA BoardFrame == ASSUME BoardInv, UNCHANGED <<board, removed, was, stamp>>, Past(7)' => Past(7) PROVE BoardInv'
BY DEF BoardInv, Seeded, Missing

\* A case's or a person's row has a status and a role once there were any.
LEMMA RowsThere ==
  ASSUME RowInv, was.role # "none"
  PROVE  trip.status # "none" /\ person.role # "none" /\ file = "made"
BY DEF RowInv, RoleNow, StatusNow, OldRole

LEMMA StepsAre == {2, 3, 4, 5, 6, 7, 8, 9} \subseteq 2..Latest
BY DEF Latest

LEMMA Step2Keeps == ASSUME MigrationInv, Step2 PROVE MigrationInv'
<1>1. /\ Body(2) /\ Did(2)
      /\ trip' = IF trip.check = "two-kinds" THEN [trip EXCEPT !.check = "three-kinds"] ELSE trip
      /\ UNCHANGED <<file, stamp, person, columns, rates, board, tokenVersion, index, was, removed, anew>>
  BY DEF Step2
<1>2. /\ BootInv'
      /\ \A m \in 2..Latest : m # 2 => (Past(m)' => Past(m))
      /\ \A c \in DOMAIN Ensured : boot'.at > Ensured[c] => boot.at > Ensured[c]
  BY <1>1, StepsAre, DidFrame
<1>3. /\ (Past(3)' => Past(3)) /\ (Past(4)' => Past(4)) /\ (Past(5)' => Past(5)) /\ (Past(6)' => Past(6))
      /\ (Past(7)' => Past(7)) /\ (Past(8)' => Past(8)) /\ (Past(9)' => Past(9))
  BY <1>2, StepsAre
<1>4. trip \in [check : {"none", "two-kinds", "three-kinds", "claimed", "open", "draft"},
                status : OldState \cup {"paid", "claimed", "open", "none"}]
  BY ChecksAre DEF MigrationInv, RowInv
<1>5. ShapeInv'
  BY <1>1, <1>3, <1>4 DEF MigrationInv, ShapeInv
<1>6. RowInv'
  <2>1. CASE trip.check = "two-kinds"
    <3>1. trip' = [check |-> "three-kinds", status |-> trip.status]
      BY <1>1, <1>4, <2>1
    <3> QED BY <1>1, <1>4, <2>1, <3>1, ChecksAre DEF MigrationInv, RowInv, RoleNow
  <2>2. CASE trip.check # "two-kinds"
    BY <1>1, <2>2, RowFrame DEF MigrationInv
  <2> QED BY <2>1, <2>2
<1> QED BY <1>1, <1>2, <1>3, <1>5, <1>6, RateFrame, SessionFrame, BoardFrame, ColumnsCarry DEF MigrationInv

LEMMA Step3Keeps == ASSUME MigrationInv, Step3 PROVE MigrationInv'
<1>1. /\ Body(3) /\ Did(3) /\ rates' = rates \cap {"typed"}
      /\ UNCHANGED <<file, stamp, person, trip, columns, board, tokenVersion, index, was, removed, anew>>
  BY DEF Step3
<1>2. /\ BootInv'
      /\ \A m \in 2..Latest : m # 3 => (Past(m)' => Past(m))
      /\ \A c \in DOMAIN Ensured : boot'.at > Ensured[c] => boot.at > Ensured[c]
  BY <1>1, StepsAre, DidFrame
<1>3. /\ (Past(2)' => Past(2)) /\ (Past(4)' => Past(4)) /\ (Past(5)' => Past(5)) /\ (Past(6)' => Past(6))
      /\ (Past(7)' => Past(7)) /\ (Past(8)' => Past(8)) /\ (Past(9)' => Past(9))
  BY <1>2, StepsAre
<1>4. RateInv'
  BY <1>1 DEF MigrationInv, RateInv
<1> QED BY <1>1, <1>2, <1>3, <1>4, ShapeFrame, RowFrame, SessionFrame, BoardFrame, ColumnsCarry DEF MigrationInv

LEMMA Step4Keeps == ASSUME MigrationInv, Step4 PROVE MigrationInv'
<1> DEFINE before == trip.check \in {"two-kinds", "three-kinds"}
<1>1. /\ Body(4) /\ Did(4)
      /\ trip' = IF before THEN [check |-> "claimed", status |-> IF trip.status = "paid" THEN "claimed" ELSE trip.status]
                 ELSE trip
      /\ UNCHANGED <<file, stamp, person, columns, rates, board, tokenVersion, index, was, removed, anew>>
  BY ChecksAre DEF Step4
<1>2. /\ BootInv'
      /\ \A m \in 2..Latest : m # 4 => (Past(m)' => Past(m))
      /\ \A c \in DOMAIN Ensured : boot'.at > Ensured[c] => boot.at > Ensured[c]
  BY <1>1, StepsAre, DidFrame
<1>3. /\ (Past(2)' => Past(2)) /\ (Past(3)' => Past(3)) /\ (Past(5)' => Past(5)) /\ (Past(6)' => Past(6))
      /\ (Past(7)' => Past(7)) /\ (Past(8)' => Past(8)) /\ (Past(9)' => Past(9))
  BY <1>2, StepsAre
<1>4. trip \in [check : {"none", "two-kinds", "three-kinds", "claimed", "open", "draft"},
                status : OldState \cup {"paid", "claimed", "open", "none"}]
  BY ChecksAre DEF MigrationInv, RowInv
<1>5. ShapeInv'
  BY <1>1, <1>3, <1>4 DEF MigrationInv, ShapeInv
<1>6. RowInv'
  <2>1. CASE before
    <3>1. trip' = [check |-> "claimed", status |-> IF trip.status = "paid" THEN "claimed" ELSE trip.status]
      BY <1>1, <2>1
    <3>2. was.role # "none" /\ was.stamp < 5 /\ was.status \in OldState \cup {"paid", "claimed"} /\ trip.status = was.status
      BY <2>1 DEF MigrationInv, RowInv
    <3>3. trip'.check = "claimed" /\ trip'.status = IF was.status = "paid" THEN "claimed" ELSE was.status
      BY <3>1, <3>2
    <3>4. trip' \in [check : {"claimed"}, status : OldState \cup {"claimed"}]
      BY <3>1, <3>2
    <3> QED BY <1>1, <3>2, <3>3, <3>4, ChecksAre DEF MigrationInv, RowInv, RoleNow
  <2>2. CASE ~before
    BY <1>1, <2>2, RowFrame DEF MigrationInv
  <2> QED BY <2>1, <2>2
<1> QED BY <1>1, <1>2, <1>3, <1>5, <1>6, RateFrame, SessionFrame, BoardFrame, ColumnsCarry DEF MigrationInv

LEMMA Step5PeopleKeeps == ASSUME MigrationInv, Step5People PROVE MigrationInv'
<1>1. /\ Body(5) /\ person.check = "chain" /\ index' = FALSE /\ anew' = TRUE
      /\ person' = [check |-> "two", role |-> IF person.role = "admin" THEN "admin" ELSE "user"]
      /\ UNCHANGED <<file, stamp, trip, columns, rates, board, tokenVersion, boot, was, removed>>
  BY DEF Step5People
<1>2. BootInv'
  BY <1>1, BootStays DEF MigrationInv
<1>3. \A n \in 2..Latest : Past(n)' => Past(n)
  BY <1>1, <1>2, PastStays DEF MigrationInv
<1>4. ShapeInv'
  BY <1>1, <1>3, PastEach DEF MigrationInv, ShapeInv
<1>5. RowInv'
  <2>1. was.role # "none" /\ was.role \in OldRole /\ was.stamp < 5 /\ person.role = was.role
    BY <1>1 DEF MigrationInv, RowInv
  <2>2. person'.role = RoleNow /\ person'.check = "two"
    BY <1>1, <2>1 DEF RoleNow, OldRole
  <2> QED BY <1>1, <2>1, <2>2 DEF MigrationInv, RowInv, RoleNow, StatusNow
<1>6. RateInv' /\ SessionInv' /\ BoardInv'
  BY <1>1, <1>3, PastEach, RateFrame, SessionFrame, BoardFrame DEF MigrationInv
<1>7. ColumnInv'
  BY <1>1, <1>3, PastEach DEF MigrationInv, ColumnInv
<1> QED BY <1>2, <1>4, <1>5, <1>6, <1>7 DEF MigrationInv

LEMMA Step5CasesKeeps == ASSUME MigrationInv, Step5Cases PROVE MigrationInv'
<1> DEFINE before == trip.check \in {"two-kinds", "three-kinds", "claimed"}
<1>1. /\ Body(5) /\ Did(5) /\ person.check # "chain"
      /\ trip' = IF before THEN [check |-> "draft", status |-> IF trip.status \in {"claimed", "posted"} THEN "claimed" ELSE "open"]
                 ELSE trip
      /\ UNCHANGED <<file, stamp, person, columns, rates, board, tokenVersion, index, was, removed, anew>>
  BY ChecksAre DEF Step5Cases
<1>2. /\ BootInv'
      /\ \A m \in 2..Latest : m < 5 => stamp >= m /\ Past(m)
      /\ \A m \in 2..Latest : m # 5 => (Past(m)' => Past(m))
      /\ \A c \in DOMAIN Ensured : boot'.at > Ensured[c] => boot.at > Ensured[c]
  BY <1>1, StepsAre, DidFrame
<1>3. /\ (Past(2)' => Past(2)) /\ (Past(3)' => Past(3)) /\ (Past(4)' => Past(4)) /\ (Past(6)' => Past(6))
      /\ (Past(7)' => Past(7)) /\ (Past(8)' => Past(8)) /\ (Past(9)' => Past(9)) /\ Past(4)
  BY <1>2, StepsAre
<1>4. trip \in [check : {"none", "two-kinds", "three-kinds", "claimed", "open", "draft"},
                status : OldState \cup {"paid", "claimed", "open", "none"}]
  BY ChecksAre DEF MigrationInv, RowInv
<1>5. ShapeInv'
  BY <1>1, <1>3, <1>4 DEF MigrationInv, ShapeInv
<1>6. RowInv'
  <2>1. CASE before
    <3>1. trip' = [check |-> "draft", status |-> IF trip.status \in {"claimed", "posted"} THEN "claimed" ELSE "open"]
      BY <1>1, <2>1
    <3>2. trip.check = "claimed"
      BY <1>3, <2>1 DEF MigrationInv, ShapeInv
    <3>3. was.role # "none" /\ was.stamp < 5 /\ was.status \in OldState \cup {"paid", "claimed"}
      BY <3>2 DEF MigrationInv, RowInv
    <3>4. trip.status = IF was.status = "paid" THEN "claimed" ELSE was.status
      BY <3>2, <3>3 DEF MigrationInv, RowInv
    <3>5. trip'.status = StatusNow /\ trip'.check = "draft"
      BY <3>1, <3>3, <3>4 DEF StatusNow, OldState
    <3>6. trip' \in [check : {"draft"}, status : {"claimed", "open"}]
      BY <3>1
    <3> QED BY <1>1, <3>3, <3>5, <3>6, ChecksAre DEF MigrationInv, RowInv, RoleNow, StatusNow
  <2>2. CASE ~before
    BY <1>1, <2>2, RowFrame DEF MigrationInv
  <2> QED BY <2>1, <2>2
<1> QED BY <1>1, <1>2, <1>3, <1>5, <1>6, RateFrame, SessionFrame, BoardFrame, ColumnsCarry DEF MigrationInv

LEMMA Step6Keeps == ASSUME MigrationInv, Step6 PROVE MigrationInv'
<1>1. /\ Body(6) /\ Did(6) /\ tokenVersion' = [tokenVersion EXCEPT !.now = @ + 1]
      /\ UNCHANGED <<file, stamp, person, trip, columns, rates, board, index, was, removed, anew>>
  BY DEF Step6
<1>2. /\ BootInv' /\ stamp < 6
      /\ \A m \in 2..Latest : m # 6 => (Past(m)' => Past(m))
      /\ \A c \in DOMAIN Ensured : boot'.at > Ensured[c] => boot.at > Ensured[c]
  BY <1>1, StepsAre, DidFrame
<1>3. /\ (Past(2)' => Past(2)) /\ (Past(3)' => Past(3)) /\ (Past(4)' => Past(4)) /\ (Past(5)' => Past(5))
      /\ (Past(7)' => Past(7)) /\ (Past(8)' => Past(8)) /\ (Past(9)' => Past(9))
  BY <1>2, StepsAre
<1>4. SessionInv'
  BY <1>1, <1>2 DEF MigrationInv, SessionInv, BootInv, Latest
<1> QED BY <1>1, <1>2, <1>3, <1>4, ShapeFrame, RowFrame, RateFrame, BoardFrame, ColumnsCarry DEF MigrationInv

LEMMA Step7AddsKeeps == ASSUME MigrationInv, Step7Adds PROVE MigrationInv'
<1>1. /\ Body(7)
      /\ UNCHANGED <<file, stamp, person, trip, columns, rates, tokenVersion, index, boot, was, removed, anew>>
  BY DEF Step7Adds
<1>2. BootInv'
  BY <1>1, BootStays DEF MigrationInv
<1>3. \A n \in 2..Latest : Past(n)' => Past(n)
  BY <1>1, <1>2, PastStays DEF MigrationInv
<1>4. BoardInv'
  <2>1. stamp < 7 /\ boot'.at = Place(7) /\ ~boot'.done
    BY <1>1, StepsAre, BodyPast DEF MigrationInv
  <2>2. ~Past(7)' /\ removed = {}
    BY <1>1, <2>1 DEF Past, Bodied, MigrationInv, BoardInv, BootInv, Latest
  <2> QED BY <1>1, <2>2 DEF BoardInv
<1> QED BY <1>1, <1>2, <1>3, <1>4, PastEach, ShapeFrame, RowFrame, RateFrame, SessionFrame, ColumnsCarry DEF MigrationInv

LEMMA Step7Keeps == ASSUME MigrationInv, Step7 PROVE MigrationInv'
<1>1. /\ Body(7) /\ Did(7) /\ (trip.status = "none" \/ Missing = {} \/ Cardinality(board) >= BoardMax)
      /\ UNCHANGED <<file, stamp, person, trip, columns, rates, board, tokenVersion, index, was, removed, anew>>
  BY DEF Step7, dbVars
<1>2. /\ BootInv' /\ stamp < 7
      /\ \A m \in 2..Latest : m # 7 => (Past(m)' => Past(m))
      /\ \A c \in DOMAIN Ensured : boot'.at > Ensured[c] => boot.at > Ensured[c]
  BY <1>1, StepsAre, DidFrame
<1>3. /\ (Past(2)' => Past(2)) /\ (Past(3)' => Past(3)) /\ (Past(4)' => Past(4)) /\ (Past(5)' => Past(5))
      /\ (Past(6)' => Past(6)) /\ (Past(8)' => Past(8)) /\ (Past(9)' => Past(9))
  BY <1>2, StepsAre
<1>4. BoardInv'
  <2>1. removed = {}
    BY <1>2 DEF MigrationInv, BoardInv, BootInv, Latest
  <2>2. board \cup removed = board
    BY <2>1
  <2>3. was.role # "none" => Seeded
    BY <1>1, <2>2, RowsThere DEF Seeded, MigrationInv
  <2>4. Seeded' <=> Seeded
    BY <1>1 DEF Seeded, Missing
  <2> QED BY <1>1, <2>1, <2>3, <2>4 DEF BoardInv
<1> QED BY <1>1, <1>2, <1>3, <1>4, ShapeFrame, RowFrame, RateFrame, SessionFrame, ColumnsCarry DEF MigrationInv

LEMMA Step8Keeps == ASSUME MigrationInv, Step8 PROVE MigrationInv'
<1>1. /\ Body(8) /\ Did(8) /\ trip' = [trip EXCEPT !.check = "draft"]
      /\ UNCHANGED <<file, stamp, person, columns, rates, board, tokenVersion, index, was, removed, anew>>
  BY DEF Step8
<1>2. /\ BootInv' /\ file = "made"
      /\ \A m \in 2..Latest : m < 8 => stamp >= m /\ Past(m)
      /\ \A m \in 2..Latest : m # 8 => (Past(m)' => Past(m))
      /\ \A c \in DOMAIN Ensured : boot'.at > Ensured[c] => boot.at > Ensured[c]
  BY <1>1, StepsAre, DidFrame
<1>3. /\ (Past(2)' => Past(2)) /\ (Past(3)' => Past(3)) /\ (Past(4)' => Past(4)) /\ (Past(5)' => Past(5))
      /\ (Past(6)' => Past(6)) /\ (Past(7)' => Past(7)) /\ (Past(9)' => Past(9)) /\ Past(5)
  BY <1>2, StepsAre
<1>4. trip' = [check |-> "draft", status |-> trip.status]
  BY <1>1 DEF MigrationInv, RowInv
<1>5. ShapeInv'
  BY <1>1, <1>3, <1>4 DEF MigrationInv, ShapeInv
<1>6. RowInv'
  <2>1. trip.check \in {"open", "draft"}
    BY <1>2, <1>3 DEF MigrationInv, ShapeInv, RowInv
  <2>2. trip'.check = "draft" /\ trip'.status = trip.status /\ trip' \in [check : {"draft"}, status : {trip.status}]
    BY <1>4
  <2>3. trip.status \in OldState \cup {"paid", "claimed", "open", "none"}
    BY DEF MigrationInv, RowInv
  <2> QED BY <1>1, <2>1, <2>2, <2>3, ChecksAre DEF MigrationInv, RowInv, RoleNow, StatusNow
<1> QED BY <1>1, <1>2, <1>3, <1>5, <1>6, RateFrame, SessionFrame, BoardFrame, ColumnsCarry DEF MigrationInv

LEMMA Step9Keeps == ASSUME MigrationInv, Step9 PROVE MigrationInv'
<1>1. /\ Body(9) /\ Did(9) /\ columns' = columns \cup {"printed"}
      /\ UNCHANGED <<file, stamp, person, trip, rates, board, tokenVersion, index, was, removed, anew>>
  BY DEF Step9
<1>2. /\ BootInv'
      /\ \A m \in 2..Latest : m # 9 => (Past(m)' => Past(m))
      /\ \A c \in DOMAIN Ensured : boot'.at > Ensured[c] => boot.at > Ensured[c]
  BY <1>1, StepsAre, DidFrame
<1>3. /\ (Past(2)' => Past(2)) /\ (Past(3)' => Past(3)) /\ (Past(4)' => Past(4)) /\ (Past(5)' => Past(5))
      /\ (Past(6)' => Past(6)) /\ (Past(7)' => Past(7)) /\ (Past(8)' => Past(8))
  BY <1>2, StepsAre
<1>4. ColumnInv'
  BY <1>1, <1>2, EnsuredOf DEF MigrationInv, ColumnInv, Columns
<1> QED BY <1>1, <1>2, <1>3, <1>4, ShapeFrame, RowFrame, RateFrame, SessionFrame, BoardFrame DEF MigrationInv

LEMMA TurnKeeps == ASSUME MigrationInv, Boot \/ Halt PROVE MigrationInv'
<1>1. /\ boot' \in {Down, [at |-> 1, done |-> FALSE]}
      /\ file' = IF file = "missing" /\ Boot THEN "empty" ELSE file
      /\ UNCHANGED <<stamp, person, trip, columns, rates, board, tokenVersion, index, was, removed>>
  BY DEF Boot, Halt, dbVars
<1>2. BootInv' /\ ~boot'.done /\ boot'.at \in {0, 1}
  <2>1. BootInv'
    BY <1>1, BootTurns DEF MigrationInv
  <2>2. CASE boot' = Down
    BY <2>1, <2>2 DEF Down
  <2>3. CASE boot' = [at |-> 1, done |-> FALSE]
    BY <2>1, <2>3
  <2> QED BY <1>1, <2>2, <2>3
<1>3. \A n \in 2..Latest : Past(n)' => Past(n)
  BY <1>1, <1>2, PastStays DEF MigrationInv
<1>4. RowInv'
  <2>1. (file' = "made") <=> (file = "made")
    BY <1>1
  <2> QED BY <1>1, <2>1 DEF MigrationInv, RowInv, RoleNow, StatusNow
<1>5. ColumnInv'
  <2>1. \A c \in DOMAIN Ensured : ~(boot'.at > Ensured[c])
    BY <1>2, EnsuredOf
  <2> QED BY <1>1, <1>3, <2>1, PastEach, EnsuredOf DEF MigrationInv, ColumnInv
<1> QED BY <1>1, <1>2, <1>3, <1>4, <1>5, PastEach, ShapeFrame, RateFrame, SessionFrame, BoardFrame DEF MigrationInv

LEMMA RunningKeeps == ASSUME MigrationInv, LookUp \/ SignIn \/ \E c \in board : TakeOff(c) PROVE MigrationInv'
<1>1. Up /\ UNCHANGED <<file, stamp, person, trip, columns, index, boot, was, anew>>
  BY DEF LookUp, SignIn, TakeOff
<1>2. BootInv'
  BY <1>1, BootStays DEF MigrationInv
<1>3. \A n \in 2..Latest : Past(n)' => Past(n)
  BY <1>1, <1>2, PastStays DEF MigrationInv
<1>4. stamp = Latest /\ Past(7)
  BY <1>1, StepsAre, UpPast DEF MigrationInv
<1>5. RateInv'
  <2>1. CASE LookUp
    BY <1>1, <1>3, <2>1, PastEach DEF LookUp, MigrationInv, RateInv
  <2>2. CASE SignIn \/ \E c \in board : TakeOff(c)
    BY <1>1, <1>3, <2>2, PastEach, RateFrame DEF SignIn, TakeOff, MigrationInv
  <2> QED BY <2>1, <2>2
<1>6. SessionInv'
  <2>1. CASE SignIn
    <3>1. tokenVersion' = [now |-> tokenVersion.now, held |-> tokenVersion.now]
      BY <2>1 DEF SignIn, MigrationInv, SessionInv
    <3> QED BY <1>1, <1>3, <3>1, PastEach DEF MigrationInv, SessionInv
  <2>2. CASE LookUp \/ \E c \in board : TakeOff(c)
    BY <1>1, <1>3, <2>2, PastEach, SessionFrame DEF LookUp, TakeOff, MigrationInv
  <2> QED BY <2>1, <2>2
<1>7. BoardInv'
  <2>1. ASSUME NEW c \in board, TakeOff(c) PROVE BoardInv'
    <3>1. board' = board \ {c} /\ removed' = removed \cup {c} /\ board' \cup removed' = board \cup removed
      BY <2>1 DEF TakeOff
    <3>2. Seeded => Seeded'
      <4>1. \A i \in Missing' : i \in Missing \/ DefaultBoard[i] = c
        BY <3>1 DEF Missing
      <4>2. Missing' \subseteq DOMAIN DefaultBoard
        BY DEF Missing
      <4> QED BY <3>1, <4>1, <4>2 DEF Seeded
    <3> QED BY <1>1, <1>4, <3>1, <3>2 DEF MigrationInv, BoardInv
  <2>2. CASE LookUp \/ SignIn
    BY <1>1, <1>3, <2>2, PastEach, BoardFrame DEF LookUp, SignIn, MigrationInv
  <2> QED BY <2>1, <2>2
<1> QED BY <1>1, <1>2, <1>3, <1>5, <1>6, <1>7, PastEach, ShapeFrame, RowFrame, ColumnsCarry DEF MigrationInv

-----------------------------------------------------------------------------
(* The first state, and what the invariant gives.                          *)

LEMMA MigrationInvInit == MigrationInit => MigrationInv
<1> SUFFICES ASSUME MigrationInit PROVE MigrationInv
  OBVIOUS
<1>1. boot = [at |-> 0, done |-> FALSE] /\ removed = {} /\ was = [role |-> person.role, status |-> trip.status, stamp |-> stamp]
  BY DEF MigrationInit
<1>2. stamp \in 0..9
  <2>1. stamp = 0 \/ stamp \in 0..Latest
    BY DEF MigrationInit
  <2> QED BY <2>1 DEF Latest
<1>3. BootInv
  BY <1>1, <1>2, PlaceOf DEF BootInv, Latest
<1>4. \A n \in 2..Latest : Past(n) => stamp >= n
  BY <1>1 DEF Past, Bodied
<1>5. /\ (Past(2) => stamp >= 2) /\ (Past(3) => stamp >= 3) /\ (Past(4) => stamp >= 4) /\ (Past(5) => stamp >= 5)
      /\ (Past(6) => stamp >= 6) /\ (Past(7) => stamp >= 7) /\ (Past(8) => stamp >= 8) /\ (Past(9) => stamp >= 9)
  BY <1>4, StepsAre
<1>6. \A c \in DOMAIN Ensured : ~(boot.at > Ensured[c])
  BY <1>1, EnsuredOf
<1>7. CASE file = "missing"
  <2>1. /\ stamp = 0 /\ columns = {} /\ rates = {} /\ tokenVersion = [now |-> 0, held |-> 0]
        /\ person = [check |-> "none", role |-> "none"] /\ trip = [check |-> "none", status |-> "none"]
    BY <1>7 DEF MigrationInit
  <2>2. ShapeInv /\ RowInv
    BY <1>1, <1>5, <1>7, <2>1, ChecksAre DEF ShapeInv, RowInv
  <2>3. ColumnInv /\ RateInv /\ SessionInv /\ BoardInv
    BY <1>1, <1>5, <1>6, <2>1, EnsuredOf DEF ColumnInv, RateInv, SessionInv, BoardInv
  <2> QED BY <1>3, <2>2, <2>3 DEF MigrationInv
<1>8. CASE file # "missing"
  <2>1. /\ file = "made" /\ columns \in ColumnsAt(stamp) /\ rates \in {{"typed", "few-digits"}, {"typed", "full"}}
        /\ (stamp >= 3 => "full" \in rates)
        /\ LET n == IF stamp < 6 THEN 0 ELSE 1 IN tokenVersion = [now |-> n, held |-> n]
    BY <1>8 DEF MigrationInit
  <2>2. /\ person \in [check : {IF stamp < 5 THEN "chain" ELSE "two"}, role : IF stamp < 5 THEN OldRole ELSE {"user", "admin"}]
        /\ trip \in [check : {CheckAt(stamp)}, status : StatesOf(CheckAt(stamp))]
    BY <1>8 DEF MigrationInit
  <2>3. /\ (stamp < 2 => CheckAt(stamp) = "two-kinds") /\ (stamp \in 2..3 => CheckAt(stamp) = "three-kinds")
        /\ (stamp = 4 => CheckAt(stamp) = "claimed") /\ (stamp \in 5..7 => CheckAt(stamp) = "open")
        /\ (stamp >= 8 => CheckAt(stamp) = "draft")
    <3>1. /\ (stamp < 2 => CheckAt(stamp) = Checks[1]) /\ (stamp \in 2..3 => CheckAt(stamp) = Checks[2])
          /\ (stamp = 4 => CheckAt(stamp) = Checks[3]) /\ (stamp \in 5..7 => CheckAt(stamp) = Checks[4])
          /\ (stamp >= 8 => CheckAt(stamp) = Checks[5])
      BY <1>2 DEF CheckAt
    <3>2. /\ Checks[1] = "two-kinds" /\ Checks[2] = "three-kinds" /\ Checks[3] = "claimed"
          /\ Checks[4] = "open" /\ Checks[5] = "draft"
      BY DEF Checks
    <3> QED BY <3>1, <3>2
  <2>4. /\ StatesOf("two-kinds") = OldState \cup {"paid"} /\ StatesOf("three-kinds") = OldState \cup {"paid"}
        /\ StatesOf("claimed") = OldState \cup {"claimed"} /\ StatesOf("open") = {"open", "claimed"}
        /\ StatesOf("draft") = {"draft", "open", "claimed"}
    BY DEF StatesOf
  <2>5. ShapeInv
    <3>1. trip.check = CheckAt(stamp) /\ (stamp >= 5 => person.check = "two")
      BY <1>2, <2>2
    <3>2. /\ (stamp >= 2 => trip.check # "two-kinds")
          /\ (stamp >= 4 => trip.check \in {"claimed", "open", "draft"})
          /\ (stamp >= 5 => trip.check \in {"open", "draft"})
          /\ (stamp >= 8 => trip.check = "draft")
      BY <1>2, <2>3, <3>1
    <3> QED BY <1>5, <3>1, <3>2 DEF ShapeInv
  <2>6. RowInv
    <3>1. was.role = person.role /\ was.status = trip.status /\ was.stamp = stamp
      BY <1>1
    <3>2. person \in [check : {"none", "chain", "two"}, role : OldRole \cup {"user", "none"}]
      BY <2>2 DEF OldRole
    <3>3. \/ (trip.check = "two-kinds" /\ stamp < 5 /\ trip.status \in OldState \cup {"paid"})
          \/ (trip.check = "three-kinds" /\ stamp < 5 /\ trip.status \in OldState \cup {"paid"})
          \/ (trip.check = "claimed" /\ stamp < 5 /\ trip.status \in OldState \cup {"claimed"})
          \/ (trip.check = "open" /\ stamp >= 5 /\ trip.status \in {"open", "claimed"})
          \/ (trip.check = "draft" /\ stamp >= 5 /\ trip.status \in {"draft", "open", "claimed"})
      <4>1. trip.check = CheckAt(stamp) /\ trip.status \in StatesOf(trip.check)
        BY <2>2
      <4>2. \/ stamp < 2 \/ stamp \in 2..3 \/ stamp = 4 \/ stamp \in 5..7 \/ stamp >= 8
        BY <1>2
      <4>3. CASE stamp < 2
        BY <1>2, <2>3, <2>4, <4>1, <4>3
      <4>4. CASE stamp \in 2..3
        BY <2>3, <2>4, <4>1, <4>4
      <4>5. CASE stamp = 4
        BY <2>3, <2>4, <4>1, <4>5
      <4>6. CASE stamp \in 5..7
        BY <2>3, <2>4, <4>1, <4>6
      <4>7. CASE stamp >= 8
        BY <1>2, <2>3, <2>4, <4>1, <4>7
      <4> QED BY <4>2, <4>3, <4>4, <4>5, <4>6, <4>7
    <3>4. trip \in [check : {"none"} \cup {Checks[i] : i \in DOMAIN Checks}, status : OldState \cup {"paid", "claimed", "open", "none"}]
      <4>1. trip = [check |-> trip.check, status |-> trip.status]
        BY <2>2
      <4> QED BY <3>3, <4>1, ChecksAre DEF OldState
    <3>5. person.role # "none" /\ person.role = IF person.check = "chain" THEN was.role ELSE RoleNow
      BY <1>2, <2>2, <3>1 DEF OldRole, RoleNow
    <3>6. person.check = "chain" => was.role \in OldRole /\ was.stamp < 5
      BY <1>2, <2>2, <3>1
    <3>7. was.status # "none" /\ trip.check \in {"two-kinds", "three-kinds", "claimed", "open", "draft"}
      BY <3>1, <3>3 DEF OldState
    <3>8. trip.check \in {"open", "draft"} => trip.status = StatusNow
      <4> SUFFICES ASSUME trip.check \in {"open", "draft"} PROVE trip.status = StatusNow
        OBVIOUS
      <4>1. was.status = trip.status /\ ~(was.stamp < 5) /\ trip.status \in {"draft", "open", "claimed"}
        BY <1>2, <3>1, <3>3
      <4> QED BY <4>1 DEF StatusNow
    <3>9. trip.check = "claimed" => trip.status = IF was.status = "paid" THEN "claimed" ELSE was.status
      BY <3>1, <3>3 DEF OldState
    <3> QED BY <2>1, <2>2, <3>1, <3>2, <3>3, <3>4, <3>5, <3>6, <3>7, <3>8, <3>9 DEF RowInv
  <2>7. ColumnInv
    <3>1. columns \subseteq Columns /\ ("printed" \in columns <=> stamp = 9)
      BY <2>1 DEF ColumnsAt, Latest
    <3>2. Past(9) => "printed" \in columns
      BY <1>2, <1>5, <3>1
    <3> QED BY <1>6, <3>1, <3>2, EnsuredOf DEF ColumnInv
  <2>8. RateInv
    BY <1>2, <1>5, <2>1 DEF RateInv
  <2>9. SessionInv
    <3>1. CASE stamp < 6
      <4>1. tokenVersion = [now |-> 0, held |-> 0]
        BY <2>1, <3>1
      <4> QED BY <1>1, <1>2, <1>5, <3>1, <4>1 DEF SessionInv
    <3>2. CASE stamp >= 6
      <4>1. tokenVersion = [now |-> 1, held |-> 1]
        BY <1>2, <2>1, <3>2
      <4> QED BY <1>1, <1>2, <1>5, <3>2, <4>1 DEF SessionInv
    <3> QED BY <1>2, <3>1, <3>2
  <2>10. BoardInv
    BY <1>1, <1>2, <1>5 DEF BoardInv
  <2> QED BY <1>3, <2>5, <2>6, <2>7, <2>8, <2>9, <2>10 DEF MigrationInv
<1> QED BY <1>7, <1>8

LEMMA MigrationInvKept == MigrationInv /\ [MigrationNext]_migrationVars => MigrationInv'
<1> SUFFICES ASSUME MigrationInv, [MigrationNext]_migrationVars PROVE MigrationInv'
  OBVIOUS
<1>1. CASE Boot \/ Halt
  BY <1>1, TurnKeeps
<1>2. CASE Schema
  BY <1>2, SchemaKeeps
<1>3. CASE \E c \in DOMAIN Ensured : Ensure(c)
  BY <1>3, EnsureKeeps
<1>4. CASE \E n \in 2..Latest : Skip(n) \/ Stamp(n)
  BY <1>4, SkipOrStampKeeps
<1>5. CASE Step2 \/ Step3 \/ Step4 \/ Step5People \/ Step5Cases
  BY <1>5, Step2Keeps, Step3Keeps, Step4Keeps, Step5PeopleKeeps, Step5CasesKeeps
<1>6. CASE Step6 \/ Step7Adds \/ Step7 \/ Step8 \/ Step9
  BY <1>6, Step6Keeps, Step7AddsKeeps, Step7Keeps, Step8Keeps, Step9Keeps
<1>7. CASE LookUp \/ SignIn \/ \E c \in board : TakeOff(c)
  BY <1>7, RunningKeeps
<1>8. CASE UNCHANGED migrationVars
  <2>1. UNCHANGED <<file, stamp, person, trip, columns, rates, board, tokenVersion, index, boot, was, removed, anew>>
    BY <1>8 DEF migrationVars, dbVars
  <2>2. BootInv'
    BY <2>1, BootStays DEF MigrationInv
  <2>3. \A n \in 2..Latest : Past(n)' => Past(n)
    BY <2>1, <2>2, PastStays DEF MigrationInv
  <2> QED BY <2>1, <2>2, <2>3, PastEach, ShapeFrame, RowFrame, RateFrame, SessionFrame, BoardFrame, ColumnsCarry DEF MigrationInv
<1> QED BY <1>1, <1>2, <1>3, <1>4, <1>5, <1>6, <1>7, <1>8 DEF MigrationNext

LEMMA MigrationInvSuffices == MigrationInv => MigrationHolds
<1> SUFFICES ASSUME MigrationInv PROVE MigrationHolds
  OBVIOUS
<1>1. ASSUME Up
      PROVE  /\ stamp = Latest /\ file = "made" /\ columns = Columns
             /\ person = [check |-> "two", role |-> RoleNow] /\ trip = [check |-> "draft", status |-> StatusNow]
             /\ "few-digits" \notin rates /\ (was.role # "none" => "typed" \in rates)
             /\ tokenVersion.now > 0 /\ removed \cap board = {}
             /\ (was.role # "none" /\ was.stamp < 7 => Seeded)
             /\ (index \/ anew)
  <2>1. stamp = Latest /\ file = "made" /\ boot.at = 20 /\ \A n \in 2..Latest : Past(n)
    BY <1>1, UpPast DEF MigrationInv
  <2>2. Past(3) /\ Past(5) /\ Past(6) /\ Past(7) /\ Past(8) /\ Past(9)
    BY <2>1, StepsAre
  <2>3. columns = Columns /\ (index \/ anew)
    <3>1. "early" \in DOMAIN Ensured /\ "claimed_at" \in DOMAIN Ensured /\ "cover_ai" \in DOMAIN Ensured
      BY EnsuredOf
    <3>2. boot.at > Ensured["early"] /\ boot.at > Ensured["claimed_at"] /\ boot.at > Ensured["cover_ai"]
      BY <2>1, EnsuredOf
    <3>3. "early" \in columns /\ "claimed_at" \in columns /\ "cover_ai" \in columns /\ "printed" \in columns
      BY <2>2, <3>1, <3>2 DEF MigrationInv, ColumnInv
    <3> QED BY <3>2, <3>3 DEF MigrationInv, ColumnInv, Columns
  <2>4. person.check = "two" /\ trip.check = "draft"
    BY <2>1, <2>2 DEF MigrationInv, ShapeInv, RowInv
  <2>5. person.role = RoleNow /\ trip.status = StatusNow
    <3>1. CASE was.role = "none"
      BY <3>1 DEF MigrationInv, RowInv, RoleNow, StatusNow, OldState
    <3>2. CASE was.role # "none"
      BY <2>4, <3>2 DEF MigrationInv, RowInv
    <3> QED BY <3>1, <3>2
  <2>6. person = [check |-> "two", role |-> RoleNow] /\ trip = [check |-> "draft", status |-> StatusNow]
    BY <2>4, <2>5 DEF MigrationInv, RowInv
  <2> QED BY <2>1, <2>2, <2>3, <2>6 DEF MigrationInv, RateInv, SessionInv, BoardInv
<1>2. /\ tokenVersion.held <= tokenVersion.now
      /\ (Up /\ was.stamp >= 6 => tokenVersion.held = tokenVersion.now)
  BY DEF MigrationInv, SessionInv
<1>3. was.role = "none" => Preflight(FALSE) # "fail" /\ Preflight(TRUE) = "fail"
  <2> SUFFICES ASSUME was.role = "none" PROVE Preflight(FALSE) # "fail" /\ Preflight(TRUE) = "fail"
    OBVIOUS
  <2>1. person.role = "none"
    BY DEF MigrationInv, RowInv
  <2>2. stamp \in 0..9
    BY DEF MigrationInv, BootInv, Latest
  <2> QED BY <2>1, <2>2 DEF Preflight, Latest
<1>4. was.role # "none" => Preflight(TRUE) = "ok"
  <2> SUFFICES ASSUME was.role # "none" PROVE Preflight(TRUE) = "ok"
    OBVIOUS
  <2>1. file = "made" /\ person.role # "none" /\ person.check # "none"
    BY RowsThere DEF MigrationInv, RowInv
  <2>2. stamp \in 0..9
    BY DEF MigrationInv, BootInv, Latest
  <2> QED BY <2>1, <2>2 DEF Preflight, Latest
<1> QED BY <1>1, <1>2, <1>3, <1>4 DEF MigrationHolds, Seeded

\* Whatever build left the database and wherever a stop cut a boot, a server
\* that is up has the latest shape with every row as the steps translate it and
\* once, its coarse rates gone and typed ones kept, older sessions ended, the
\* default currencies seeded once, and preflight right about it (db/migrate.js,
\* scripts/preflight.js).
THEOREM MigrationStaysHeld == MigrationSpec => []MigrationHolds
<1> QED BY MigrationInvInit, MigrationInvKept, MigrationInvSuffices, PTL DEF MigrationSpec
=============================================================================
