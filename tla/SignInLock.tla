------------------------------ MODULE SignInLock ------------------------------
(***************************************************************************)
(* Wrong passwords for one email: middleware/account-lock.js, as the login *)
(* and the change of one's own password use it.  The lock is asked, the    *)
(* password compared (an await), and the outcome counted, so several       *)
(* guesses may be past the lock at once.                                   *)
(***************************************************************************)
EXTENDS Naturals, FiniteSets

CONSTANTS
  Address,      \* IPv4 addresses and IPv6 /64s: ipBucket
  LockAfter,    \* LOCK_AFTER
  SpreadAfter,  \* SPREAD_AFTER
  MaxAtOnce     \* bound: comparisons under way for the email

ASSUME SignInLockAssumption ==
  /\ LockAfter \in Nat \ {0} /\ SpreadAfter \in Nat \ {0} /\ MaxAtOnce \in Nat \ {0}
  /\ IsFiniteSet(Address)

VARIABLES
  pairs,      \* _pairs: what is counted against each address
  email,      \* _emails: what is counted against the email
  trusted,    \* _trusted: the addresses that signed in
  comparing,  \* how many comparisons each address has under way
  tried       \* the wrong passwords each address has tried in its window

lockVars == <<pairs, email, trusted, comparing, tried>>

Counted == [count : Nat, locked : BOOLEAN]
Fresh   == [count |-> 0, locked |-> FALSE]

LockTypeOK ==
  /\ pairs \in [Address -> Counted]
  /\ email \in Counted
  /\ trusted \subseteq Address
  /\ comparing \in [Address -> 0..MaxAtOnce]
  /\ tried \in [Address -> Nat]

LockInit ==
  /\ pairs = [a \in Address |-> Fresh] /\ email = Fresh
  /\ trusted = {}
  /\ comparing = [a \in Address |-> 0]
  /\ tried = [a \in Address |-> 0]

AtOnce == Cardinality({w \in Address \X (1..MaxAtOnce) : w[2] <= comparing[w[1]]})

\* A count past its limit says no more than the limit does.
Bump(f, limit) ==
  IF f.count + 1 < limit THEN [f EXCEPT !.count = @ + 1] ELSE [count |-> limit, locked |-> TRUE]

\* mutant: a locked email is locked for everybody.
LockedForAll(a) == pairs[a].locked \/ email.locked

Locked(a) == pairs[a].locked \/ (email.locked /\ a \notin trusted)

Ask(a) ==
  /\ ~Locked(a) /\ AtOnce < MaxAtOnce
  /\ comparing' = [comparing EXCEPT ![a] = @ + 1]
  /\ UNCHANGED <<pairs, email, trusted, tried>>

Wrong(a) ==
  /\ comparing[a] > 0
  /\ comparing' = [comparing EXCEPT ![a] = @ - 1]
  /\ pairs' = [pairs EXCEPT ![a] = Bump(@, LockAfter)]
  /\ email' = Bump(email, SpreadAfter)
  /\ tried' = [tried EXCEPT ![a] = @ + 1]
  /\ UNCHANGED trusted

Forgiven(a) == [pairs EXCEPT ![a] = Fresh]

Right(a) ==
  /\ comparing[a] > 0
  /\ comparing' = [comparing EXCEPT ![a] = @ - 1]
  /\ pairs' = Forgiven(a)
  /\ trusted' = trusted \cup {a}
  /\ tried' = [tried EXCEPT ![a] = 0]
  /\ UNCHANGED email

\* Fifteen minutes, counted from the first failure or from the lock.
PairWindowEnds(a) ==
  /\ pairs[a] # Fresh
  /\ pairs' = [pairs EXCEPT ![a] = Fresh]
  /\ tried' = [tried EXCEPT ![a] = 0]
  /\ UNCHANGED <<email, trusted, comparing>>

EmailWindowEnds ==
  /\ email # Fresh /\ email' = Fresh
  /\ UNCHANGED <<pairs, trusted, comparing, tried>>

\* An admin sets a new password, or restores the account.
Clear ==
  /\ pairs' = [a \in Address |-> Fresh] /\ email' = Fresh
  /\ tried' = [a \in Address |-> 0]
  /\ UNCHANGED <<trusted, comparing>>

LockRestart ==
  /\ pairs' = [a \in Address |-> Fresh] /\ email' = Fresh
  /\ trusted' = {}
  /\ comparing' = [a \in Address |-> 0]
  /\ tried' = [a \in Address |-> 0]

LockNext ==
  \/ \E a \in Address : Ask(a) \/ Wrong(a) \/ Right(a) \/ PairWindowEnds(a)
  \/ EmailWindowEnds \/ Clear \/ LockRestart

LockSpec == LockInit /\ [][LockNext]_lockVars

\* One address gets no more than LOCK_AFTER wrong passwords in a window, but
\* for the comparisons already past the lock when it shut.
GuessesBounded == \A a \in Address : tried[a] + comparing[a] <= LockAfter - 1 + MaxAtOnce

\* Whatever strangers try from elsewhere, an address that signed in before is
\* open while it has made no mistakes of its own.
UsualPlaceOpen == \A a \in trusted : tried[a] = 0 => ~Locked(a)

LockHolds == LockTypeOK /\ GuessesBounded /\ UsualPlaceOpen
=============================================================================
