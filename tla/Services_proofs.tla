---------------------------- MODULE Services_proofs ---------------------------
(***************************************************************************)
(* What holds of the services beside the cases: the lock after wrong       *)
(* passwords (SignInLock), accounts and their sessions (Accounts), the     *)
(* tokens of the connection to Xero (XeroConnection), the prices of        *)
(* receipts against the day's rates (FxBoard), the records an import makes *)
(* (ClaimFiling), and the limiter in front of the model (KeyPool), for any *)
(* people, addresses, organisations, receipts, files, requests, days,      *)
(* limits and calls under way.                                             *)
(***************************************************************************)
EXTENDS SignInLock, Accounts, XeroConnection, FxBoard, ClaimFiling, KeyPool, Counting, FiniteSetTheorems, WellFoundedInduction, TLAPS

-----------------------------------------------------------------------------
(* The lock.                                                               *)

\* What is counted against an address is at least what it tried in its window
\* until it is locked, and only trying locks it.
LockInv ==
  /\ LockTypeOK
  /\ GuessesBounded
  /\ \A a \in Address :
       /\ ~pairs[a].locked => tried[a] <= pairs[a].count /\ pairs[a].count < LockAfter
       /\ pairs[a].locked => tried[a] > 0

\* One address has no more comparisons under way than there are altogether.
LEMMA FewAtOnce ==
  ASSUME comparing \in [Address -> 0..MaxAtOnce], NEW a \in Address
  PROVE  comparing[a] <= AtOnce
<1> USE SignInLockAssumption
<1> DEFINE all  == {w \in Address \X (1..MaxAtOnce) : w[2] <= comparing[w[1]]}
           mine == {a} \X (1..comparing[a])
<1>1. comparing[a] \in 0..MaxAtOnce
  OBVIOUS
<1>2. IsFiniteSet(1..MaxAtOnce) /\ IsFiniteSet(1..comparing[a]) /\ Cardinality(1..comparing[a]) = comparing[a]
  BY <1>1, FS_Interval
<1>3. IsFiniteSet(Address \X (1..MaxAtOnce))
  BY <1>2, FS_Product
<1>4. IsFiniteSet(all)
  BY <1>3, FS_Subset
<1>5. mine \in SUBSET all
  BY <1>1
<1>6. Cardinality(mine) = comparing[a]
  <2>1. IsFiniteSet({a}) /\ Cardinality({a}) = 1
    BY FS_Singleton
  <2>2. Cardinality(mine) = Cardinality({a}) * Cardinality(1..comparing[a])
    BY <1>2, <2>1, FS_Product
  <2>3. QED
    BY <1>1, <1>2, <2>1, <2>2
<1>7. Cardinality(mine) <= Cardinality(all)
  BY <1>4, <1>5, FS_Subset
<1>8. QED
  BY <1>6, <1>7 DEF AtOnce

\* What counting one more does to a count.
LEMMA BumpCounts ==
  ASSUME NEW f \in Counted, NEW limit \in Nat \ {0}
  PROVE  /\ Bump(f, limit) \in Counted
         /\ ~Bump(f, limit).locked => ~f.locked /\ Bump(f, limit).count = f.count + 1 /\ f.count + 1 < limit
BY DEF Bump, Counted

LEMMA LockInvInit == LockInit => LockInv
BY SignInLockAssumption DEF LockInit, LockInv, LockTypeOK, GuessesBounded, Fresh, Counted

LEMMA LockInvStep ==
  ASSUME LockInv, [LockNext]_lockVars
  PROVE  LockInv'
<1> USE SignInLockAssumption
<1>1. Fresh \in Counted
  BY DEF Fresh, Counted
<1>2. ASSUME NEW a \in Address, Ask(a)
      PROVE  LockInv'
  <2>1. AtOnce \in Nat
    <3>1. IsFiniteSet(1..MaxAtOnce)
      BY FS_Interval
    <3>2. IsFiniteSet(Address \X (1..MaxAtOnce))
      BY <3>1, FS_Product
    <3>3. IsFiniteSet({w \in Address \X (1..MaxAtOnce) : w[2] <= comparing[w[1]]})
      BY <3>2, FS_Subset
    <3>4. QED
      BY <3>3, FS_CardinalityType DEF AtOnce
  <2>2. comparing[a] < MaxAtOnce
    BY <1>2, <2>1, FewAtOnce DEF Ask, LockInv, LockTypeOK
  <2>3. tried[a] <= LockAfter - 1
    BY <1>2 DEF Ask, Locked, LockInv, LockTypeOK, Counted
  <2>4. LockTypeOK'
    BY <1>2, <2>2 DEF Ask, LockInv, LockTypeOK
  <2>5. GuessesBounded'
    BY <1>2, <2>2, <2>3 DEF Ask, LockInv, LockTypeOK, GuessesBounded
  <2>6. QED
    BY <1>2, <2>4, <2>5 DEF Ask, LockInv
<1>3. ASSUME NEW a \in Address, Wrong(a)
      PROVE  LockInv'
  <2>1. pairs[a] \in Counted /\ email \in Counted
    BY DEF LockInv, LockTypeOK
  <2>2. pairs' = [pairs EXCEPT ![a] = Bump(pairs[a], LockAfter)] /\ tried' = [tried EXCEPT ![a] = tried[a] + 1]
    BY <1>3 DEF Wrong
  <2>3. LockTypeOK'
    BY SMTT(20), <1>3, <2>1, BumpCounts DEF Wrong, LockInv, LockTypeOK
  <2>4. GuessesBounded'
    BY <1>3 DEF Wrong, LockInv, LockTypeOK, GuessesBounded
  <2>5. ASSUME NEW b \in Address
        PROVE  /\ ~pairs'[b].locked => tried'[b] <= pairs'[b].count /\ pairs'[b].count < LockAfter
               /\ pairs'[b].locked => tried'[b] > 0
    <3>1. CASE b = a
      <4>1. pairs'[a] = Bump(pairs[a], LockAfter) /\ tried'[a] = tried[a] + 1 /\ tried[a] \in Nat
        BY <2>2 DEF LockInv, LockTypeOK
      <4>2. ~pairs'[a].locked => tried'[a] <= pairs'[a].count /\ pairs'[a].count < LockAfter
        BY <2>1, <4>1, BumpCounts DEF LockInv, Counted
      <4>3. QED
        BY <3>1, <4>1, <4>2
    <3>2. CASE b # a
      BY <2>2, <3>2 DEF LockInv, LockTypeOK
    <3>3. QED
      BY <3>1, <3>2
  <2>6. QED
    BY <2>3, <2>4, <2>5 DEF LockInv
<1>4. ASSUME NEW a \in Address, Right(a) \/ PairWindowEnds(a)
      PROVE  LockInv'
  <2>1. /\ pairs' = [pairs EXCEPT ![a] = Fresh] /\ tried' = [tried EXCEPT ![a] = 0]
        /\ email' = email /\ trusted' \subseteq Address
        /\ comparing' \in [Address -> 0..MaxAtOnce] /\ \A b \in Address : comparing'[b] <= comparing[b]
    BY <1>4 DEF Right, PairWindowEnds, Forgiven, LockInv, LockTypeOK
  <2>2. LockTypeOK'
    BY <1>1, <2>1 DEF LockInv, LockTypeOK
  <2>3. GuessesBounded'
    BY <2>1 DEF LockInv, LockTypeOK, GuessesBounded
  <2>4. QED
    BY <2>1, <2>2, <2>3 DEF LockInv, LockTypeOK, Fresh
<1>5. CASE EmailWindowEnds \/ UNCHANGED lockVars
  <2>1. email' \in Counted /\ UNCHANGED <<pairs, trusted, comparing, tried>>
    BY <1>1, <1>5 DEF EmailWindowEnds, lockVars, LockInv, LockTypeOK
  <2>2. QED
    BY <2>1 DEF LockInv, LockTypeOK, GuessesBounded
<1>6. CASE Clear \/ LockRestart
  <2>1. /\ pairs' = [a \in Address |-> Fresh] /\ email' = Fresh /\ tried' = [a \in Address |-> 0]
        /\ trusted' \subseteq Address
        /\ comparing' \in [Address -> 0..MaxAtOnce] /\ \A b \in Address : comparing'[b] <= comparing[b]
    BY <1>6 DEF Clear, LockRestart, LockInv, LockTypeOK
  <2>2. QED
    BY <1>1, <2>1 DEF LockInv, LockTypeOK, GuessesBounded, Fresh
<1>7. QED
  BY <1>2, <1>3, <1>4, <1>5, <1>6 DEF LockNext

\* Whatever guesses are under way together, an address gets no more than
\* LOCK_AFTER wrong passwords beyond those, and the owner's usual place stays
\* open (middleware/account-lock.js): for any addresses and limits.
THEOREM LockStaysHeld == LockSpec => []LockHolds
<1>1. LockInv /\ [LockNext]_lockVars => LockInv'
  BY LockInvStep
<1>2. LockInv => LockHolds
  BY DEF LockInv, LockHolds, UsualPlaceOpen, Locked, LockTypeOK
<1>3. QED
  BY LockInvInit, <1>1, <1>2, PTL DEF LockSpec

-----------------------------------------------------------------------------
(* Accounts and sessions.                                                  *)

\* Every request but a first sign-up found somebody there; a login under way
\* is of somebody who has an account, with the password on file unless what
\* ends sessions came between; a session never carries a version to come.
AccountsInv ==
  /\ AccountsTypeOK
  /\ SomebodyRunsIt
  /\ ~HasUsers => companies = 0
  /\ \A r \in hashing :
       /\ r.first \/ HasUsers
       /\ r.kind \in {"login", "change"} => account[r.who] # "none"
       /\ r.kind = "login" => r.pw # 0 /\ (r.crossed \/ r.pw = password[r.who])
  /\ \A s \in sessions :
       /\ account[s.who] # "none" /\ s.tv <= version[s.who]
       /\ s.tv = version[s.who] => s.crossed \/ s.pw = password[s.who]

\* A request that goes to hash changes nothing else.
LEMMA StartsKeeps ==
  ASSUME AccountsInv, NEW r \in Hashing, Starts(r), r.first \/ HasUsers,
         r.kind \in {"login", "change"} => account[r.who] # "none",
         r.kind = "login" => r.pw # 0 /\ r.pw = password[r.who]
  PROVE  AccountsInv'
<1>1. /\ hashing' = hashing \cup {r}
      /\ UNCHANGED <<account, role, password, version, companies, sessions>>
  BY DEF Starts
<1>2. AccountsTypeOK'
  BY <1>1 DEF AccountsInv, AccountsTypeOK
<1>3. SomebodyRunsIt' /\ (HasUsers' <=> HasUsers)
  BY <1>1 DEF AccountsInv, SomebodyRunsIt, HasUsers
<1>4. \A q \in hashing' :
        /\ q.first \/ HasUsers'
        /\ q.kind \in {"login", "change"} => account'[q.who] # "none"
        /\ q.kind = "login" => q.pw # 0 /\ (q.crossed \/ q.pw = password'[q.who])
  BY <1>1, <1>3 DEF AccountsInv
<1>5. QED
  BY <1>1, <1>2, <1>3, <1>4 DEF AccountsInv

\* When the sessions of p end none of them is left, and what p was signing in
\* with meanwhile is marked.
LEMMA SessionsEnd ==
  ASSUME AccountsInv, NEW p \in Person, NEW rest \in SUBSET hashing,
         version[p] < MaxVersion, EndSessions(p), hashing' = Crossing(p, rest)
  PROVE  /\ version' \in [Person -> 0..MaxVersion] /\ hashing' \subseteq Hashing
         /\ \A q \in Person : q # p => version'[q] = version[q]
         /\ \A s \in sessions : Current(s) => s.who # p
         /\ \A r \in hashing' : \E q \in rest :
              /\ r.kind = q.kind /\ r.who = q.who /\ r.first = q.first /\ r.pw = q.pw
              /\ IF q.who = p THEN r.crossed ELSE r.crossed = q.crossed
<1> USE AccountsAssumption
<1>1. version' = [version EXCEPT ![p] = version[p] + 1]
  BY DEF EndSessions
<1>2. version' \in [Person -> 0..MaxVersion] /\ \A q \in Person : q # p => version'[q] = version[q]
  BY <1>1 DEF AccountsInv, AccountsTypeOK
<1>3. \A s \in sessions : Current(s) => s.who # p
  BY <1>1 DEF AccountsInv, AccountsTypeOK, Current, Session
<1>4. ASSUME NEW r \in hashing'
      PROVE  /\ r \in Hashing
             /\ \E q \in rest :
                  /\ r.kind = q.kind /\ r.who = q.who /\ r.first = q.first /\ r.pw = q.pw
                  /\ IF q.who = p THEN r.crossed ELSE r.crossed = q.crossed
  <2>1. PICK q \in rest : r = IF q.who = p THEN [q EXCEPT !.crossed = TRUE] ELSE q
    BY <1>4 DEF Crossing
  <2>2. q \in Hashing
    BY DEF AccountsInv, AccountsTypeOK
  <2>3. CASE q.who = p
    BY <2>1, <2>2, <2>3 DEF Hashing
  <2>4. CASE q.who # p
    BY <2>1, <2>2, <2>4
  <2>5. QED
    BY <2>3, <2>4
<1>5. QED
  BY <1>2, <1>3, <1>4

\* Somebody who runs the company is removed or demoted only beside another.
LEMMA AnotherAdmin ==
  ASSUME NEW p \in Person, \E q \in Person : account[q] = "active" /\ role[q] = "admin",
         ~(role[p] = "admin" /\ account[p] = "active" /\ CountAdmins <= 1)
  PROVE  \E q \in Person : q # p /\ account[q] = "active" /\ role[q] = "admin"
<1> SUFFICES ASSUME \A q \in Person : account[q] = "active" /\ role[q] = "admin" => q = p
             PROVE  FALSE
  OBVIOUS
<1>1. {q \in Person : account[q] = "active" /\ role[q] = "admin"} = {p}
  OBVIOUS
<1>2. CountAdmins = 1
  BY <1>1, FS_Singleton DEF CountAdmins
<1>3. QED
  BY <1>2

LEMMA AccountsInvInit == AccountsInit => AccountsInv
BY AccountsAssumption DEF AccountsInit, AccountsInv, AccountsTypeOK, SomebodyRunsIt, HasUsers, Role

LEMMA AccountsInvStep ==
  ASSUME AccountsInv, [AccountsNext]_accountVars
  PROVE  AccountsInv'
<1> USE AccountsAssumption
<1>1. ASSUME NEW p \in Person, Register(p)
      PROVE  AccountsInv'
  <2> DEFINE r == Request("register", p, ~HasUsers, "user", 0)
  <2>1. r \in Hashing /\ r.kind = "register" /\ r.first = ~HasUsers
    BY DEF Request, Hashing, Role, HasUsers
  <2>2. Starts(r)
    BY <1>1 DEF Register
  <2>3. QED
    BY <2>1, <2>2, StartsKeeps
<1>2. ASSUME NEW a \in Person, NEW p \in Person, NEW to \in Role, PostUser(a, p, to)
      PROVE  AccountsInv'
  <2> DEFINE r == Request("create", p, FALSE, to, 0)
  <2>1. r \in Hashing /\ r.kind = "create"
    BY DEF Request, Hashing, Role
  <2>2. Starts(r) /\ HasUsers
    BY <1>2 DEF PostUser, IsAdmin, SignedIn, Valid, HasUsers
  <2>3. QED
    BY <2>1, <2>2, StartsKeeps
<1>3. ASSUME NEW p \in Person, NEW typed \in 1..MaxPasswords, Login(p, typed)
      PROVE  AccountsInv'
  <2> DEFINE r == Request("login", p, FALSE, "user", typed)
  <2>1. r \in Hashing /\ r.kind = "login" /\ r.who = p /\ r.pw = typed
    BY DEF Request, Hashing, Role
  <2>2. Starts(r) /\ account[p] = "active" /\ typed = password[p]
    BY <1>3 DEF Login
  <2>3. HasUsers
    BY <2>2 DEF HasUsers
  <2>4. QED
    <3>1. typed # 0
      OBVIOUS
    <3> HIDE DEF r
    <3>2. QED
      BY <2>1, <2>2, <2>3, <3>1, StartsKeeps
<1>4. ASSUME NEW p \in Person, NEW typed \in 1..MaxPasswords, ChangePassword(p, typed)
      PROVE  AccountsInv'
  <2> DEFINE r == Request("change", p, FALSE, "user", typed)
  <2>1. r \in Hashing /\ r.kind = "change" /\ r.who = p
    BY DEF Request, Hashing, Role
  <2>2. Starts(r) /\ account[p] = "active" /\ HasUsers
    BY <1>4 DEF ChangePassword, SignedIn, Valid, HasUsers
  <2>3. QED
    BY <2>1, <2>2, StartsKeeps
<1>5. ASSUME NEW a \in Person, NEW p \in Person, ResetPassword(a, p)
      PROVE  AccountsInv'
  <2> DEFINE r == Request("reset", p, FALSE, "user", 0)
  <2>1. r \in Hashing /\ r.kind = "reset"
    BY DEF Request, Hashing, Role
  <2>2. Starts(r) /\ HasUsers
    BY <1>5 DEF ResetPassword, HasUsers
  <2>3. QED
    BY <2>1, <2>2, StartsKeeps
<1>6. ASSUME NEW r \in hashing, CreateUser(r)
      PROVE  AccountsInv'
  <2>1. r \in Hashing /\ r.who \in Person /\ r.role \in Role /\ r.first \in BOOLEAN
    BY DEF AccountsInv, AccountsTypeOK, Hashing
  <2>2. CASE ~(account[r.who] = "none" /\ (CreatesCompany(r) \/ ~r.first))
    <3>1. UNCHANGED <<account, role, password, version, companies, sessions>> /\ hashing' \subseteq hashing
      BY <1>6, <2>2 DEF CreateUser
    <3>2. QED
      BY <3>1 DEF AccountsInv, AccountsTypeOK, SomebodyRunsIt, HasUsers
  <2>3. CASE account[r.who] = "none" /\ (CreatesCompany(r) \/ ~r.first)
    <3> DEFINE as == IF CreatesCompany(r) THEN "admin" ELSE r.role
               new == [who |-> r.who, tv |-> version[r.who], pw |-> 1, crossed |-> FALSE]
    <3>1. /\ account' = [account EXCEPT ![r.who] = "active"]
          /\ role' = [role EXCEPT ![r.who] = as]
          /\ password' = [password EXCEPT ![r.who] = 1]
          /\ companies' = IF CreatesCompany(r) THEN companies + 1 ELSE companies
          /\ sessions' \subseteq sessions \cup {new}
          /\ version' = version /\ hashing' \subseteq hashing
      BY <1>6, <2>3 DEF CreateUser
    <3>2. new \in Session
      BY <2>1 DEF AccountsInv, AccountsTypeOK, Session
    <3>3. AccountsTypeOK'
      <4>1. as \in Role
        BY <2>1 DEF Role
      <4>2. account' \in [Person -> {"none", "active", "removed"}] /\ role' \in [Person -> Role]
        BY <3>1, <4>1 DEF AccountsInv, AccountsTypeOK
      <4>3. password' \in [Person -> 0..MaxPasswords] /\ companies' \in Nat
        <5>1. 1 \in 0..MaxPasswords
          OBVIOUS
        <5>2. QED
          BY <2>1, <3>1, <5>1 DEF AccountsInv, AccountsTypeOK
      <4>4. QED
        BY <3>1, <3>2, <4>2, <4>3 DEF AccountsInv, AccountsTypeOK
    <3>4. HasUsers'
      BY <2>1, <3>1 DEF HasUsers, AccountsInv, AccountsTypeOK
    <3>5. SomebodyRunsIt'
      <4>1. CASE CreatesCompany(r)
        <5>1. companies' = 1
          BY <3>1, <4>1 DEF CreatesCompany, AccountsInv
        <5>2. account'[r.who] = "active" /\ role'[r.who] = "admin"
          BY <2>1, <3>1, <4>1 DEF AccountsInv, AccountsTypeOK
        <5>3. QED
          BY <2>1, <5>1, <5>2 DEF SomebodyRunsIt
      <4>2. CASE ~CreatesCompany(r)
        <5>1. HasUsers
          BY <2>3, <4>2 DEF AccountsInv
        <5>2. PICK p \in Person : account[p] = "active" /\ role[p] = "admin"
          BY <5>1 DEF AccountsInv, SomebodyRunsIt
        <5>3. account'[p] = "active" /\ role'[p] = "admin"
          BY <2>1, <2>3, <3>1, <5>2 DEF AccountsInv, AccountsTypeOK
        <5>4. companies' = 1
          BY <3>1, <4>2, <5>1 DEF AccountsInv, SomebodyRunsIt
        <5>5. QED
          BY <5>3, <5>4 DEF SomebodyRunsIt
      <4>3. QED
        BY <4>1, <4>2
    <3>6. \A q \in hashing' :
            /\ q.first \/ HasUsers'
            /\ q.kind \in {"login", "change"} => account'[q.who] # "none"
            /\ q.kind = "login" => q.pw # 0 /\ (q.crossed \/ q.pw = password'[q.who])
      BY <2>1, <2>3, <3>1, <3>4 DEF AccountsInv, AccountsTypeOK, Hashing
    <3>7. \A s \in sessions' :
            /\ account'[s.who] # "none" /\ s.tv <= version'[s.who]
            /\ s.tv = version'[s.who] => s.crossed \/ s.pw = password'[s.who]
      <4>1. ASSUME NEW s \in sessions
            PROVE  /\ account'[s.who] # "none" /\ s.tv <= version'[s.who]
                   /\ s.tv = version'[s.who] => s.crossed \/ s.pw = password'[s.who]
        BY <2>1, <2>3, <3>1 DEF AccountsInv, AccountsTypeOK, Session
      <4>2. /\ account'[new.who] # "none" /\ new.tv <= version'[new.who]
            /\ new.pw = password'[new.who]
        BY <2>1, <3>1 DEF AccountsInv, AccountsTypeOK
      <4>3. QED
        BY <3>1, <4>1, <4>2
    <3>8. QED
      BY <3>3, <3>4, <3>5, <3>6, <3>7 DEF AccountsInv
  <2>4. QED
    BY <2>2, <2>3
<1>7. ASSUME NEW r \in hashing, LoginEnds(r)
      PROVE  AccountsInv'
  <2>1. r \in Hashing /\ r.kind = "login"
    BY <1>7 DEF LoginEnds, AccountsInv, AccountsTypeOK
  <2>2. /\ hashing' \subseteq hashing /\ sessions' = sessions \cup {Signed(r)}
        /\ UNCHANGED <<account, role, password, version, companies>>
    BY <1>7 DEF LoginEnds
  <2>3. Signed(r) \in Session
    BY <2>1 DEF Signed, Session, Hashing, AccountsInv, AccountsTypeOK
  <2>4. AccountsTypeOK'
    BY <2>2, <2>3 DEF AccountsInv, AccountsTypeOK
  <2>5. \A s \in sessions' :
          /\ account'[s.who] # "none" /\ s.tv <= version'[s.who]
          /\ s.tv = version'[s.who] => s.crossed \/ s.pw = password'[s.who]
    <3>1. /\ account[Signed(r).who] # "none" /\ Signed(r).tv <= version[Signed(r).who]
          /\ Signed(r).crossed \/ Signed(r).pw = password[Signed(r).who]
      BY <2>1 DEF Signed, Hashing, AccountsInv, AccountsTypeOK
    <3>2. QED
      BY <2>2, <3>1 DEF AccountsInv
  <2>6. QED
    BY <2>2, <2>4, <2>5 DEF AccountsInv, SomebodyRunsIt, HasUsers
<1>8. ASSUME NEW p \in Person, Logout(p)
      PROVE  AccountsInv'
  <2>1. /\ version[p] < MaxVersion /\ EndSessions(p) /\ hashing' = Crossing(p, hashing)
        /\ sessions' = {s \in sessions : Current(s)}
        /\ UNCHANGED <<account, role, password, companies>>
    BY <1>8 DEF Logout
  <2>2. /\ version' \in [Person -> 0..MaxVersion] /\ hashing' \subseteq Hashing
        /\ \A q \in Person : q # p => version'[q] = version[q]
        /\ \A s \in sessions : Current(s) => s.who # p
        /\ \A r \in hashing' : \E q \in hashing :
             /\ r.kind = q.kind /\ r.who = q.who /\ r.first = q.first /\ r.pw = q.pw
             /\ IF q.who = p THEN r.crossed ELSE r.crossed = q.crossed
    BY <2>1, SessionsEnd
  <2>3. AccountsTypeOK'
    BY <2>1, <2>2 DEF AccountsInv, AccountsTypeOK
  <2>4. \A r \in hashing' :
          /\ r.first \/ HasUsers'
          /\ r.kind \in {"login", "change"} => account'[r.who] # "none"
          /\ r.kind = "login" => r.pw # 0 /\ (r.crossed \/ r.pw = password'[r.who])
    BY <2>1, <2>2 DEF AccountsInv, HasUsers
  <2>5. \A s \in sessions' :
          /\ account'[s.who] # "none" /\ s.tv <= version'[s.who]
          /\ s.tv = version'[s.who] => s.crossed \/ s.pw = password'[s.who]
    BY <2>1, <2>2 DEF AccountsInv, AccountsTypeOK, Session
  <2>6. QED
    BY <2>1, <2>3, <2>4, <2>5 DEF AccountsInv, SomebodyRunsIt, HasUsers
<1>9. ASSUME NEW r \in hashing, SetPassword(r)
      PROVE  AccountsInv'
  <2> DEFINE p == r.who
             new == [who |-> p, tv |-> version'[p], pw |-> password[p] + 1, crossed |-> FALSE]
  <2>1. /\ p \in Person /\ password[p] < MaxPasswords /\ version[p] < MaxVersion
        /\ password' = [password EXCEPT ![p] = password[p] + 1]
        /\ EndSessions(p) /\ hashing' = Crossing(p, hashing \ {r})
        /\ sessions' \subseteq {s \in sessions : Current(s)} \cup (IF r.kind = "change" THEN {new} ELSE {})
        /\ UNCHANGED <<account, role, companies>>
    BY <1>9 DEF SetPassword, AccountsInv, AccountsTypeOK, Hashing
  <2>2. /\ version' \in [Person -> 0..MaxVersion] /\ hashing' \subseteq Hashing
        /\ \A q \in Person : q # p => version'[q] = version[q]
        /\ \A s \in sessions : Current(s) => s.who # p
        /\ \A k \in hashing' : \E q \in hashing \ {r} :
             /\ k.kind = q.kind /\ k.who = q.who /\ k.first = q.first /\ k.pw = q.pw
             /\ IF q.who = p THEN k.crossed ELSE k.crossed = q.crossed
    <3> DEFINE rest == hashing \ {r}
    <3>1. rest \in SUBSET hashing
      OBVIOUS
    <3> HIDE DEF rest
    <3>2. hashing' = Crossing(p, rest)
      BY <2>1 DEF rest
    <3>3. /\ version' \in [Person -> 0..MaxVersion] /\ hashing' \subseteq Hashing
          /\ \A q \in Person : q # p => version'[q] = version[q]
          /\ \A s \in sessions : Current(s) => s.who # p
          /\ \A k \in hashing' : \E q \in rest :
               /\ k.kind = q.kind /\ k.who = q.who /\ k.first = q.first /\ k.pw = q.pw
               /\ IF q.who = p THEN k.crossed ELSE k.crossed = q.crossed
      BY <2>1, <3>1, <3>2, SessionsEnd
    <3>4. QED
      BY <3>3 DEF rest
  <2>3. r.kind = "change" => new \in Session /\ account[p] # "none"
    <3>1. version'[p] \in 0..MaxVersion
      BY <2>1, <2>2
    <3>2. password[p] + 1 \in 1..MaxPasswords
      <4>1. password[p] \in 0..MaxPasswords
        BY <2>1 DEF AccountsInv, AccountsTypeOK
      <4>2. QED
        BY <2>1, <4>1
    <3>3. new \in Session
      BY <2>1, <3>1, <3>2 DEF Session
    <3>4. QED
      BY <1>9, <3>3 DEF AccountsInv
  <2>4. AccountsTypeOK'
    <3>1. password' \in [Person -> 0..MaxPasswords]
      BY <2>1 DEF AccountsInv, AccountsTypeOK
    <3>2. sessions' \subseteq Session
      BY <2>1, <2>3 DEF AccountsInv, AccountsTypeOK
    <3>3. QED
      BY <2>1, <2>2, <3>1, <3>2 DEF AccountsInv, AccountsTypeOK
  <2>5. \A k \in hashing' :
          /\ k.first \/ HasUsers'
          /\ k.kind \in {"login", "change"} => account'[k.who] # "none"
          /\ k.kind = "login" => k.pw # 0 /\ (k.crossed \/ k.pw = password'[k.who])
    <3>1. ASSUME NEW k \in hashing', NEW q \in hashing,
                 k.kind = q.kind /\ k.who = q.who /\ k.first = q.first /\ k.pw = q.pw,
                 IF q.who = p THEN k.crossed ELSE k.crossed = q.crossed
          PROVE  /\ k.first \/ HasUsers'
                 /\ k.kind \in {"login", "change"} => account'[k.who] # "none"
                 /\ k.kind = "login" => k.pw # 0 /\ (k.crossed \/ k.pw = password'[k.who])
      <4>1. q.who # p => password'[q.who] = password[q.who]
        BY <2>1 DEF AccountsInv, AccountsTypeOK, Hashing
      <4>2. QED
        BY <2>1, <3>1, <4>1 DEF AccountsInv, HasUsers
    <3>2. QED
      BY <2>2, <3>1
  <2>6. \A s \in sessions' :
          /\ account'[s.who] # "none" /\ s.tv <= version'[s.who]
          /\ s.tv = version'[s.who] => s.crossed \/ s.pw = password'[s.who]
    <3>1. ASSUME NEW s \in sessions, Current(s)
          PROVE  /\ account'[s.who] # "none" /\ s.tv <= version'[s.who]
                 /\ s.tv = version'[s.who] => s.crossed \/ s.pw = password'[s.who]
      BY <2>1, <2>2, <3>1 DEF AccountsInv, AccountsTypeOK, Session
    <3>2. CASE r.kind = "change"
      <4>1. /\ account'[new.who] # "none" /\ new.tv <= version'[new.who]
            /\ new.pw = password'[new.who]
        <5>1. version'[p] \in 0..MaxVersion /\ password'[p] = password[p] + 1
          BY <2>1, <2>2 DEF AccountsInv, AccountsTypeOK
        <5>2. QED
          BY <2>1, <2>3, <3>2, <5>1
      <4>2. QED
        BY <2>1, <3>1, <4>1
    <3>3. CASE r.kind # "change"
      BY <2>1, <3>1, <3>3
    <3>4. QED
      BY <3>2, <3>3
  <2>7. QED
    BY <2>1, <2>4, <2>5, <2>6 DEF AccountsInv, SomebodyRunsIt, HasUsers
<1>10. ASSUME NEW a \in Person, NEW p \in Person, NEW to \in Role, SetRole(a, p, to)
       PROVE  AccountsInv'
  <2>1. /\ role' = [role EXCEPT ![p] = to]
        /\ UNCHANGED <<account, password, version, companies, sessions, hashing>>
        /\ ~(role[p] = "admin" /\ account[p] = "active" /\ CountAdmins <= 1)
    BY <1>10 DEF SetRole
  <2>2. AccountsTypeOK'
    BY <2>1 DEF AccountsInv, AccountsTypeOK
  <2>3. SomebodyRunsIt'
    BY <2>1, AnotherAdmin DEF AccountsInv, AccountsTypeOK, SomebodyRunsIt, HasUsers
  <2>4. QED
    BY <2>1, <2>2, <2>3 DEF AccountsInv, HasUsers
<1>11. ASSUME NEW a \in Person, NEW p \in Person, RemoveUser(a, p)
       PROVE  AccountsInv'
  <2>1. /\ version[p] < MaxVersion /\ EndSessions(p) /\ hashing' = Crossing(p, hashing)
        /\ sessions' = {s \in sessions : Current(s)}
        /\ account[p] = "active" /\ account' = [account EXCEPT ![p] = "removed"]
        /\ ~(role[p] = "admin" /\ account[p] = "active" /\ CountAdmins <= 1)
        /\ UNCHANGED <<role, password, companies>>
    BY <1>11 DEF RemoveUser
  <2>2. /\ version' \in [Person -> 0..MaxVersion] /\ hashing' \subseteq Hashing
        /\ \A q \in Person : q # p => version'[q] = version[q]
        /\ \A s \in sessions : Current(s) => s.who # p
        /\ \A r \in hashing' : \E q \in hashing :
             /\ r.kind = q.kind /\ r.who = q.who /\ r.first = q.first /\ r.pw = q.pw
             /\ IF q.who = p THEN r.crossed ELSE r.crossed = q.crossed
    BY <2>1, SessionsEnd
  <2>3. AccountsTypeOK'
    BY <2>1, <2>2 DEF AccountsInv, AccountsTypeOK
  <2>4. HasUsers /\ HasUsers' /\ \A q \in Person : account'[q] = "none" <=> account[q] = "none"
    BY <2>1 DEF AccountsInv, AccountsTypeOK, HasUsers
  <2>5. SomebodyRunsIt'
    <3>1. PICK q \in Person : q # p /\ account[q] = "active" /\ role[q] = "admin"
      BY <2>1, <2>4, AnotherAdmin DEF AccountsInv, SomebodyRunsIt
    <3>2. account'[q] = "active" /\ role'[q] = "admin"
      BY <2>1, <3>1 DEF AccountsInv, AccountsTypeOK
    <3>3. QED
      BY <2>1, <2>4, <3>2 DEF AccountsInv, SomebodyRunsIt
  <2>6. \A r \in hashing' :
          /\ r.first \/ HasUsers'
          /\ r.kind \in {"login", "change"} => account'[r.who] # "none"
          /\ r.kind = "login" => r.pw # 0 /\ (r.crossed \/ r.pw = password'[r.who])
    BY <2>1, <2>2, <2>4 DEF AccountsInv, AccountsTypeOK, Hashing
  <2>7. \A s \in sessions' :
          /\ account'[s.who] # "none" /\ s.tv <= version'[s.who]
          /\ s.tv = version'[s.who] => s.crossed \/ s.pw = password'[s.who]
    BY <2>1, <2>2, <2>4 DEF AccountsInv, AccountsTypeOK, Session
  <2>8. QED
    BY <2>3, <2>4, <2>5, <2>6, <2>7 DEF AccountsInv
<1>12. ASSUME NEW a \in Person, NEW p \in Person, RestoreUser(a, p)
       PROVE  AccountsInv'
  <2>1. /\ account[p] = "removed" /\ account' = [account EXCEPT ![p] = "active"]
        /\ UNCHANGED <<role, password, version, companies, sessions, hashing>>
    BY <1>12 DEF RestoreUser
  <2>2. AccountsTypeOK'
    BY <2>1 DEF AccountsInv, AccountsTypeOK
  <2>3. HasUsers /\ HasUsers' /\ \A q \in Person : account'[q] = "none" <=> account[q] = "none"
    BY <2>1 DEF AccountsInv, AccountsTypeOK, HasUsers
  <2>4. SomebodyRunsIt'
    BY <2>1, <2>3 DEF AccountsInv, AccountsTypeOK, SomebodyRunsIt
  <2>5. QED
    BY <2>1, <2>2, <2>3, <2>4 DEF AccountsInv, AccountsTypeOK, Hashing, Session
<1>13. ASSUME NEW s \in sessions, SessionExpires(s)
       PROVE  AccountsInv'
  BY <1>13 DEF SessionExpires, AccountsInv, AccountsTypeOK, SomebodyRunsIt, HasUsers
<1>14. CASE UNCHANGED accountVars
  BY <1>14 DEF accountVars, AccountsInv, AccountsTypeOK, SomebodyRunsIt, HasUsers
<1>15. QED
  BY <1>1, <1>2, <1>3, <1>4, <1>5, <1>6, <1>7, <1>8, <1>9, <1>10, <1>11, <1>12, <1>13, <1>14 DEF AccountsNext

\* However people sign up, are removed, demoted and restored, there is one
\* company with somebody to run it, and a session still accepted was signed in
\* with the password on file, unless what ended it came while that password
\* was being checked (store/users.js, routes/auth.js): for any people.
THEOREM AccountsStayHeld == AccountsSpec => []AccountsHold
<1>1. AccountsInv /\ [AccountsNext]_accountVars => AccountsInv'
  BY AccountsInvStep
<1>2. AccountsInv => AccountsHold
  BY DEF AccountsInv, AccountsHold, SessionIsCurrent, Valid
<1>3. QED
  BY AccountsInvInit, <1>1, <1>2, PTL DEF AccountsSpec

-----------------------------------------------------------------------------
(* The connection to Xero.                                                  *)

\* Calls that come back with a refresh token.
Brings(c) == c.leg = "answered" /\ c.way = "oauth" /\ c.kind # "disconnect"

\* No number is used before Xero issues it.
Numbered ==
  /\ alive \subseteq 1..issued /\ refreshToken <= issued
  /\ \A c \in calls : c.redeem <= issued /\ c.got <= issued

\* What each call may carry: only OAuth redeems a token, a consent redeems none.
CallInv ==
  \A c \in calls : /\ c.redeem # 0 => c.way = "oauth" /\ c.kind \in {"refresh", "reconnect", "disconnect"}
                   /\ c.kind \in {"complete", "disconnect"} => c.way = "oauth"
                   /\ Brings(c) => c.got # 0
                   /\ c.kind = "disconnect" => c.leg # "listing"

\* A token in an answer nobody has read works, and nobody else can use it up.
Unread == \A c \in calls : Brings(c) =>
            /\ c.got \in alive /\ c.got # refreshToken
            /\ \A d \in calls : d.redeem # c.got /\ (Brings(d) /\ d.got = c.got => d = c)

\* The token on file works, unless the answer to whoever used it up has come.
OnFile == ~spoilt /\ refreshToken # 0 /\ refreshToken \notin alive =>
            \E c \in calls : c.leg = "answered" /\ c.redeem = refreshToken

XeroInv ==
  /\ XeroTypeOK
  /\ Numbered /\ CallInv /\ Unread /\ OnFile
  /\ connectionType = "oauth" => refreshToken # 0
  /\ CachedIsListed

LEMMA XeroInvInit == XeroInit => XeroInv
<1> SUFFICES ASSUME XeroInit PROVE XeroInv
  OBVIOUS
<1>1. XeroTypeOK
  <2>1. tokens \in [Tenant -> [way : Way \cup {"none"}, fresh : BOOLEAN]]
    BY DEF XeroInit, NoToken
  <2>2. issued \in 0..MaxIssued /\ refreshToken \in 0..MaxIssued
    BY XeroConnectionAssumption DEF XeroInit
  <2>3. QED
    BY <2>1, <2>2 DEF XeroInit, XeroTypeOK
<1>2. Numbered /\ CallInv /\ Unread /\ OnFile
  BY DEF XeroInit, Numbered, CallInv, Unread, OnFile
<1>3. CachedIsListed
  BY DEF XeroInit, CachedIsListed, NoToken
<1>4. QED
  BY <1>1, <1>2, <1>3 DEF XeroInit, XeroInv

\* A call more, with the token on file or none.
LEMMA SentKeeps ==
  ASSUME XeroInv, NEW kind \in Kind, NEW way \in Way, NEW token \in {0, refreshToken},
         token # 0 => way = "oauth" /\ kind \in {"refresh", "reconnect", "disconnect"},
         kind \in {"complete", "disconnect"} => way = "oauth",
         Sent(kind, way, token),
         UNCHANGED <<issued, alive, refreshToken, connectionType, xeroTenants, tokens, spoilt>>,
         states' \subseteq Admin
  PROVE  XeroInv'
<1> USE XeroConnectionAssumption
<1> DEFINE new == [kind |-> kind, way |-> way, leg |-> "sent", redeem |-> token, got |-> 0]
<1>1. calls' = calls \cup {new}
  BY DEF Sent
<1>2. new \in Call
  BY DEF XeroInv, XeroTypeOK, Call
<1>3. XeroTypeOK'
  BY <1>1, <1>2 DEF XeroInv, XeroTypeOK
<1>4. new.redeem <= issued /\ new.got <= issued
  BY DEF XeroInv, XeroTypeOK, Numbered
<1>5. Numbered'
  BY <1>1, <1>4 DEF XeroInv, Numbered
<1>6. CallInv'
  BY <1>1 DEF XeroInv, CallInv, Brings
<1>7. Unread'
  <2>1. ASSUME NEW c \in calls, Brings(c)
        PROVE  /\ c.got \in alive /\ c.got # refreshToken
               /\ \A d \in calls : d.redeem # c.got /\ (Brings(d) /\ d.got = c.got => d = c)
               /\ new.redeem # c.got
    BY <2>1 DEF XeroInv, Unread, CallInv
  <2>2. ~Brings(new)
    BY DEF Brings
  <2>3. QED
    BY <1>1, <2>1, <2>2 DEF Unread, Brings
<1>8. OnFile'
  BY <1>1 DEF XeroInv, OnFile
<1>9. QED
  BY <1>3, <1>5, <1>6, <1>7, <1>8 DEF XeroInv, CachedIsListed

\* What is left of a call that is over promises no less.
LEMMA EndsKeeps ==
  ASSUME XeroInv, NEW c \in calls, Ends(c), UNCHANGED <<issued, alive>>, refreshToken' \in {0, refreshToken},
         c.leg = "answered" /\ c.redeem = refreshToken /\ refreshToken' # 0 => spoilt',
         spoilt => spoilt'
  PROVE  calls' \subseteq Call /\ Numbered' /\ CallInv' /\ Unread' /\ OnFile'
<1>1. calls' = calls \ {c} /\ issued' = issued /\ alive' = alive
  BY DEF Ends
<1>2. calls' \subseteq Call /\ CallInv'
  BY <1>1 DEF XeroInv, XeroTypeOK, CallInv, Brings
<1>3. Numbered'
  BY <1>1 DEF XeroInv, XeroTypeOK, Numbered
<1>4. Unread'
  BY <1>1 DEF XeroInv, CallInv, Unread, Brings
<1>5. OnFile'
  BY <1>1 DEF XeroInv, OnFile
<1>6. QED
  BY <1>2, <1>3, <1>4, <1>5

\* The answer to a call that brings a token: it is on file from then on.
LEMMA HeardKeeps ==
  ASSUME XeroInv, NEW c \in calls, Brings(c), refreshToken' = c.got,
         Ends(c) \/ Becomes(c, "listing", c.got), UNCHANGED <<issued, alive, spoilt>>
  PROVE  calls' \subseteq Call /\ Numbered' /\ CallInv' /\ Unread' /\ OnFile' /\ refreshToken' # 0
<1> DEFINE after == [c EXCEPT !.leg = "listing", !.got = c.got]
<1>1. c \in Call
  BY DEF XeroInv, XeroTypeOK
<1>2. /\ after \in Call /\ after.kind = c.kind /\ after.way = c.way /\ after.leg = "listing"
      /\ after.redeem = c.redeem /\ after.got = c.got
  BY <1>1 DEF Call
<1>3. calls' \subseteq (calls \ {c}) \cup {after}
  BY DEF Ends, Becomes
<1>4. c.got \in alive /\ c.got <= issued /\ c.got # 0 /\ c.kind # "disconnect"
  BY DEF XeroInv, Unread, Numbered, CallInv, Brings
<1> HIDE DEF after
<1>5. calls' \subseteq Call
  BY <1>2, <1>3 DEF XeroInv, XeroTypeOK
<1>6. Numbered'
  BY <1>2, <1>3, <1>4 DEF XeroInv, Numbered
<1>7. CallInv'
  BY <1>2, <1>3, <1>4 DEF XeroInv, CallInv, Brings
<1>8. Unread'
  <2>1. ASSUME NEW d \in calls', Brings(d)
        PROVE  d \in calls /\ d # c
    BY <1>2, <1>3, <2>1 DEF Brings
  <2>2. ASSUME NEW d \in calls, d # c, Brings(d)
        PROVE  d.got # c.got
    BY <2>2 DEF XeroInv, Unread
  <2>3. QED
    BY <1>2, <1>3, <2>1, <2>2 DEF XeroInv, Unread, Brings
<1>9. OnFile'
  BY <1>4 DEF OnFile
<1>10. QED
  BY <1>4, <1>5, <1>6, <1>7, <1>8, <1>9

\* Xero uses the token up and issues another, which nobody has seen yet.
LEMMA XeroIssuesStep ==
  ASSUME XeroInv, NEW c \in calls, XeroIssues(c)
  PROVE  XeroInv'
<1> USE XeroConnectionAssumption
<1> DEFINE new == [c EXCEPT !.leg = "answered", !.got = issued + 1]
<1>1. /\ c.leg = "sent" /\ c.way = "oauth" /\ c.kind # "disconnect" /\ issued < MaxIssued
      /\ issued' = issued + 1 /\ alive' = (alive \ {c.redeem}) \cup {issued + 1}
      /\ calls' = (calls \ {c}) \cup {new}
      /\ UNCHANGED <<refreshToken, connectionType, xeroTenants, tokens, states, spoilt>>
  BY DEF XeroIssues, Becomes
<1>2. c \in Call /\ issued \in Nat /\ refreshToken \in Nat /\ alive \subseteq Nat /\ issued + 1 \in 0..MaxIssued
  BY <1>1 DEF XeroInv, XeroTypeOK
<1>3. PICK n \in Nat : n = issued + 1
  BY <1>2
<1>4. PICK after : after = new
  OBVIOUS
<1>5. /\ after \in Call /\ after.kind = c.kind /\ after.way = "oauth" /\ after.leg = "answered"
      /\ after.redeem = c.redeem /\ after.got = n
  BY <1>1, <1>2, <1>3, <1>4 DEF Call
<1>6. /\ calls' = (calls \ {c}) \cup {after} /\ issued' = n /\ alive' = (alive \ {c.redeem}) \cup {n}
      /\ n # 0 /\ issued <= n
  BY <1>1, <1>2, <1>3, <1>4
<1>7. n \notin alive /\ n # refreshToken /\ \A d \in calls : d.redeem # n /\ d.got # n
  BY <1>2, <1>3 DEF XeroInv, Numbered
<1>8. XeroTypeOK'
  <2>1. alive' \subseteq 1..MaxIssued /\ issued' \in 0..MaxIssued
    <3>1. n \in 1..MaxIssued /\ n \in 0..MaxIssued
      BY <1>2, <1>3, <1>6
    <3>2. alive \subseteq 1..MaxIssued
      BY DEF XeroInv, XeroTypeOK
    <3>3. QED
      BY <1>6, <3>1, <3>2
  <2>2. calls' \subseteq Call
    BY <1>5, <1>6 DEF XeroInv, XeroTypeOK
  <2>3. QED
    BY <1>1, <2>1, <2>2 DEF XeroInv, XeroTypeOK
<1>9. Numbered'
  <2>1. alive' \subseteq 1..issued' /\ refreshToken' <= issued'
    BY <1>1, <1>2, <1>6, <1>3 DEF XeroInv, Numbered
  <2>2. \A d \in calls : d.redeem <= n /\ d.got <= n
    BY <1>2, <1>3 DEF XeroInv, Numbered, XeroTypeOK, Call
  <2>3. \A d \in calls' : d.redeem <= issued' /\ d.got <= issued'
    BY <1>5, <1>6, <2>2
  <2>4. QED
    BY <2>1, <2>3 DEF Numbered
<1>10. CallInv'
  <2>1. ASSUME NEW d \in calls'
        PROVE  /\ d.redeem # 0 => d.way = "oauth" /\ d.kind \in {"refresh", "reconnect", "disconnect"}
               /\ d.kind \in {"complete", "disconnect"} => d.way = "oauth"
               /\ Brings(d) => d.got # 0
               /\ d.kind = "disconnect" => d.leg # "listing"
    <3>1. CASE d = after
      BY <1>1, <1>5, <1>6, <3>1 DEF XeroInv, CallInv, Brings
    <3>2. CASE d \in calls
      BY <3>2 DEF XeroInv, CallInv
    <3>3. QED
      BY <1>6, <3>1, <3>2
  <2>2. QED
    BY <2>1 DEF CallInv, Brings
<1>11. Unread'
  <2>1. ASSUME NEW d \in calls, Brings(d)
        PROVE  /\ d.got \in alive' /\ d.got # refreshToken'
               /\ \A e \in calls' : e.redeem # d.got /\ (Brings(e) /\ e.got = d.got => e = d)
    BY <1>1, <1>5, <1>6, <1>7, <2>1 DEF XeroInv, Unread
  <2>2. /\ after.got \in alive' /\ after.got # refreshToken'
        /\ \A e \in calls' : e.redeem # after.got /\ (e.got = after.got => e = after)
    BY <1>1, <1>5, <1>6, <1>7
  <2>3. QED
    BY <1>6, <2>1, <2>2 DEF Unread, Brings
<1>12. OnFile'
  <2>1. CASE refreshToken = c.redeem
    BY <1>1, <1>5, <1>6, <2>1 DEF OnFile
  <2>2. CASE refreshToken # c.redeem
    BY <1>1, <1>5, <1>6, <2>2 DEF XeroInv, OnFile
  <2>3. QED
    BY <2>1, <2>2
<1>13. QED
  BY <1>1, <1>8, <1>9, <1>10, <1>11, <1>12 DEF XeroInv, CachedIsListed

\* A refusal, a grant without a token, or a revocation.
LEMMA XeroDealsStep ==
  ASSUME XeroInv, NEW c \in calls, XeroRefuses(c) \/ XeroGrants(c) \/ XeroRevokes(c)
  PROVE  XeroInv'
<1> DEFINE leg == IF XeroRefuses(c) THEN "refused" ELSE "answered"
<1>1. PICK after \in Call : /\ after.kind = c.kind /\ after.way = c.way /\ after.redeem = c.redeem /\ after.got = 0
                            /\ after.leg \in {"refused", "answered"}
                            /\ after.leg = "refused" \/ after.way # "oauth" \/ after.kind = "disconnect"
                            /\ after.kind = "disconnect" => after.leg = "answered"
                            /\ calls' = (calls \ {c}) \cup {after}
  <2>1. c \in Call
    BY DEF XeroInv, XeroTypeOK
  <2>2. 0 \in 0..MaxIssued
    BY XeroConnectionAssumption
  <2>3. CASE XeroRefuses(c)
    <3>1. c.kind # "disconnect" /\ calls' = (calls \ {c}) \cup {[c EXCEPT !.leg = "refused", !.got = 0]}
      BY <2>3 DEF XeroRefuses, Becomes
    <3>2. QED
      BY <2>1, <2>2, <3>1 DEF Call
  <2>4. CASE XeroGrants(c) \/ XeroRevokes(c)
    <3>1. /\ c.way # "oauth" \/ c.kind = "disconnect"
          /\ calls' = (calls \ {c}) \cup {[c EXCEPT !.leg = "answered", !.got = 0]}
      BY <2>4 DEF XeroGrants, XeroRevokes, Becomes
    <3>2. QED
      BY <2>1, <2>2, <3>1 DEF Call
  <2>5. QED
    BY <2>3, <2>4
<1>2. /\ c.leg = "sent" /\ alive' \subseteq alive /\ alive \ {c.redeem} \subseteq alive'
      /\ (c.kind = "disconnect" \/ alive' = alive)
      /\ UNCHANGED <<issued, refreshToken, connectionType, xeroTenants, tokens, states, spoilt>>
  BY DEF XeroRefuses, XeroGrants, XeroRevokes
<1>3. XeroTypeOK'
  BY <1>1, <1>2 DEF XeroInv, XeroTypeOK
<1>4. Numbered'
  BY <1>1, <1>2 DEF XeroInv, Numbered, XeroTypeOK
<1>5. CallInv'
  BY <1>1 DEF XeroInv, CallInv, Brings
<1>6. Unread'
  <2>1. \A d \in calls' : Brings(d) => d \in calls
    BY <1>1 DEF Brings
  <2>2. \A d \in calls' : \E e \in calls : d.redeem = e.redeem
    BY <1>1
  <2>3. ASSUME NEW d \in calls, Brings(d)
        PROVE  d.got \in alive'
    BY <1>2, <2>3 DEF XeroInv, Unread
  <2>4. QED
    BY <1>2, <2>1, <2>2, <2>3 DEF XeroInv, Unread, Brings
<1>7. OnFile'
  <2>1. CASE refreshToken = c.redeem /\ c.kind = "disconnect"
    BY <1>1, <1>2, <2>1 DEF OnFile
  <2>2. CASE refreshToken # c.redeem \/ c.kind # "disconnect"
    BY <1>1, <1>2, <2>2 DEF XeroInv, OnFile
  <2>3. QED
    BY <2>1, <2>2
<1>8. QED
  BY <1>2, <1>3, <1>4, <1>5, <1>6, <1>7 DEF XeroInv, CachedIsListed

LEMMA NoTokenType == NoToken \in [way : Way \cup {"none"}, fresh : BOOLEAN] /\ NoToken.way = "none"
BY DEF NoToken

\* An answer that brings no token changes nothing on file.
LEMMA NothingBrought ==
  ASSUME XeroInv, NEW c \in calls, ~Brings(c), c.kind # "disconnect"
  PROVE  c.leg = "answered" => c.redeem = 0
BY DEF XeroInv, CallInv, Brings

LEMMA RefreshedStep ==
  ASSUME XeroInv, NEW c \in calls, Refreshed(c)
  PROVE  XeroInv'
<1>1. /\ c.kind = "refresh" /\ c.leg = "answered" /\ Ends(c)
      /\ refreshToken' = (IF c.way = "oauth" THEN c.got ELSE refreshToken)
      /\ tokens' = [t \in Tenant |-> [tokens[t] EXCEPT !.fresh = @ \/ tokens[t].way = c.way]]
      /\ UNCHANGED <<issued, alive, connectionType, xeroTenants, states, spoilt>>
  BY DEF Refreshed
<1>2. /\ calls' \subseteq Call /\ Numbered' /\ CallInv' /\ Unread' /\ OnFile'
      /\ (refreshToken # 0 => refreshToken' # 0)
  <2>1. CASE c.way = "oauth"
    BY <1>1, <2>1, HeardKeeps DEF Brings
  <2>2. CASE c.way # "oauth"
    <3>1. refreshToken' = refreshToken /\ c.redeem = 0
      BY <1>1, <2>2, NothingBrought DEF Brings
    <3>2. QED
      BY <1>1, <3>1, EndsKeeps
  <2>3. QED
    BY <2>1, <2>2
<1>3. \A t \in Tenant : /\ tokens'[t] \in [way : Way \cup {"none"}, fresh : BOOLEAN]
                       /\ tokens'[t].way = tokens[t].way
  <2> SUFFICES ASSUME NEW t \in Tenant
               PROVE  /\ tokens'[t] \in [way : Way \cup {"none"}, fresh : BOOLEAN]
                      /\ tokens'[t].way = tokens[t].way
    OBVIOUS
  <2>1. tokens[t] \in [way : Way \cup {"none"}, fresh : BOOLEAN]
    BY DEF XeroInv, XeroTypeOK
  <2>2. PICK b \in BOOLEAN : tokens'[t] = [tokens[t] EXCEPT !.fresh = b]
    BY <1>1, Zenon
  <2>3. QED
    BY <2>1, <2>2
<1>4. XeroTypeOK'
  <2>1. refreshToken' \in 0..MaxIssued
    BY <1>1 DEF XeroInv, XeroTypeOK, Call
  <2>2. tokens' \in [Tenant -> [way : Way \cup {"none"}, fresh : BOOLEAN]]
    BY <1>1, <1>3
  <2>3. QED
    BY <1>1, <1>2, <2>1, <2>2 DEF XeroInv, XeroTypeOK
<1>5. CachedIsListed'
  BY <1>1, <1>3 DEF XeroInv, CachedIsListed
<1>6. QED
  BY <1>1, <1>2, <1>4, <1>5 DEF XeroInv

\* The token is on file before the organisations are asked for.
LEMMA ListingStep ==
  ASSUME XeroInv, NEW c \in calls, Listing(c)
  PROVE  XeroInv'
<1>1. /\ c.kind \in {"reconnect", "test", "complete"} /\ c.leg = "answered"
      /\ refreshToken' = (IF c.way = "oauth" THEN c.got ELSE refreshToken)
      /\ connectionType' = (IF c.kind = "complete" THEN "oauth" ELSE connectionType)
      /\ Becomes(c, "listing", c.got)
      /\ UNCHANGED <<issued, alive, xeroTenants, tokens, states, spoilt>>
  BY DEF Listing
<1>2. c \in Call /\ refreshToken' \in 0..MaxIssued
  BY <1>1 DEF XeroInv, XeroTypeOK, Call
<1>3. /\ calls' \subseteq Call /\ Numbered' /\ CallInv' /\ Unread' /\ OnFile'
      /\ (refreshToken # 0 \/ c.kind = "complete" => refreshToken' # 0)
  <2>1. CASE c.way = "oauth"
    BY <1>1, <2>1, HeardKeeps DEF Brings
  <2>2. CASE c.way # "oauth"
    <3>1. refreshToken' = refreshToken /\ c.redeem = 0 /\ c.kind # "complete" /\ ~Brings(c)
      BY <1>1, <2>2, NothingBrought DEF Brings, XeroInv, CallInv
    <3>2. PICK after : after = [c EXCEPT !.leg = "listing", !.got = c.got]
      OBVIOUS
    <3>3. /\ after \in Call /\ after.kind = c.kind /\ after.way = c.way /\ after.leg = "listing"
          /\ after.redeem = 0 /\ after.got = c.got /\ calls' = (calls \ {c}) \cup {after}
      BY <1>1, <1>2, <3>1, <3>2 DEF Call, Becomes
    <3>4. calls' \subseteq Call /\ Numbered' /\ CallInv'
      BY <1>1, <3>1, <3>3 DEF XeroInv, XeroTypeOK, Numbered, CallInv, Brings
    <3>5. Unread'
      BY <1>1, <3>1, <3>3 DEF XeroInv, Unread, CallInv, Brings
    <3>6. OnFile'
      BY <1>1, <3>1, <3>3 DEF XeroInv, OnFile
    <3>7. QED
      BY <3>1, <3>4, <3>5, <3>6
  <2>3. QED
    BY <2>1, <2>2
<1>4. XeroTypeOK'
  BY <1>1, <1>2, <1>3 DEF XeroInv, XeroTypeOK, Way
<1>5. QED
  BY <1>1, <1>3, <1>4 DEF XeroInv, CachedIsListed

\* A call that is over without a token: refused, its organisations listed or
\* not, disconnected, or never heard of again.
LEMMA CallOverStep ==
  ASSUME XeroInv, NEW c \in calls,
         Refused(c) \/ Listed(c) \/ ListFails(c) \/ Disconnected(c) \/ Lost(c)
  PROVE  XeroInv'
<1>1. Ends(c) /\ UNCHANGED <<issued, alive, states>> /\ refreshToken' \in {0, refreshToken}
  BY DEF Refused, Listed, ListFails, Disconnected, Lost
<1>2. spoilt' \in BOOLEAN /\ (spoilt => spoilt')
  <2>1. CASE Lost(c)
    <3>1. spoilt' = (spoilt \/ (c.leg = "answered" /\ c.got # 0))
      BY <2>1 DEF Lost
    <3>2. spoilt' \in BOOLEAN
      BY <3>1, Zenon
    <3>3. spoilt => spoilt'
      BY <3>1
    <3>4. QED
      BY <3>2, <3>3
  <2>2. CASE ~Lost(c)
    BY <2>2 DEF Refused, Listed, ListFails, Disconnected, XeroInv, XeroTypeOK
  <2>3. QED
    BY <2>1, <2>2
<1>3. c.leg = "answered" /\ c.redeem = refreshToken /\ refreshToken' # 0 => spoilt'
  <2> SUFFICES ASSUME c.leg = "answered", c.redeem = refreshToken, refreshToken' # 0
               PROVE  spoilt'
    OBVIOUS
  <2>1. Lost(c) /\ c.kind # "disconnect" /\ c.redeem # 0
    BY <1>1 DEF Refused, Listed, ListFails, Disconnected, Lost
  <2>2. c.got # 0
    BY <2>1 DEF XeroInv, CallInv, Brings
  <2>3. QED
    BY <2>1, <2>2 DEF Lost
<1>4. calls' \subseteq Call /\ Numbered' /\ CallInv' /\ Unread' /\ OnFile'
  BY <1>1, <1>2, <1>3, EndsKeeps
<1>5. /\ tokens' \in [Tenant -> [way : Way \cup {"none"}, fresh : BOOLEAN]] /\ xeroTenants' \subseteq Tenant
      /\ CachedIsListed'
      /\ connectionType' \in Way \cup {"none"}
      /\ (connectionType' = "oauth" => connectionType = "oauth" /\ refreshToken' = refreshToken)
  <2>1. CASE Listed(c)
    <3>1. PICK listed \in SUBSET Tenant :
            /\ tokens' = [t \in Tenant |-> IF t \in listed THEN [way |-> c.way, fresh |-> TRUE] ELSE NoToken]
            /\ xeroTenants' = listed
      BY <2>1 DEF Listed
    <3>2. c.way \in Way
      BY DEF XeroInv, XeroTypeOK, Call
    <3>3. [way |-> c.way, fresh |-> TRUE] \in [way : Way \cup {"none"}, fresh : BOOLEAN]
      BY <3>2
    <3>4. tokens' \in [Tenant -> [way : Way \cup {"none"}, fresh : BOOLEAN]] /\ xeroTenants' \subseteq Tenant
      BY <3>1, <3>3, NoTokenType
    <3>5. CachedIsListed'
      BY <3>1, NoTokenType DEF CachedIsListed
    <3>6. /\ connectionType' \in Way \cup {"none"}
          /\ (connectionType' = "oauth" => connectionType = "oauth" /\ refreshToken' = refreshToken)
      BY <2>1 DEF Listed, XeroInv, XeroTypeOK, Way
    <3>7. QED
      BY <3>4, <3>5, <3>6
  <2>2. CASE tokens' = [t \in Tenant |-> NoToken] /\ xeroTenants' = {} /\ connectionType' = "none"
    BY <2>2, NoTokenType DEF CachedIsListed
  <2>3. CASE UNCHANGED <<tokens, xeroTenants, connectionType, refreshToken>>
    BY <2>3 DEF XeroInv, XeroTypeOK, CachedIsListed
  <2>4. QED
    BY <2>1, <2>2, <2>3 DEF Refused, ListFails, Disconnected, Lost
<1>6. XeroTypeOK'
  BY <1>1, <1>2, <1>4, <1>5, XeroConnectionAssumption DEF XeroInv, XeroTypeOK
<1>7. QED
  BY <1>4, <1>5, <1>6 DEF XeroInv

LEMMA XeroRestartStep ==
  ASSUME XeroInv, XeroRestart \/ \E t \in Tenant : Expires(t)
  PROVE  XeroInv'
<1>1. CASE XeroRestart
  <2>1. /\ tokens' = [t \in Tenant |-> NoToken] /\ states' = {} /\ calls' = {}
        /\ spoilt' = (spoilt \/ Unheard # {})
        /\ UNCHANGED <<issued, alive, refreshToken, connectionType, xeroTenants>>
    BY <1>1 DEF XeroRestart
  <2>2. spoilt' \in BOOLEAN
    BY <2>1, Zenon
  <2>3. XeroTypeOK'
    BY <2>1, <2>2, NoTokenType DEF XeroInv, XeroTypeOK
  <2>4. Numbered' /\ CallInv' /\ Unread'
    BY <2>1 DEF XeroInv, Numbered, CallInv, Unread
  <2>5. OnFile'
    BY <2>1 DEF XeroInv, OnFile, Unheard
  <2>6. CachedIsListed'
    BY <2>1, NoTokenType DEF CachedIsListed
  <2>7. QED
    BY <2>1, <2>3, <2>4, <2>5, <2>6 DEF XeroInv
<1>2. ASSUME NEW t \in Tenant, Expires(t)
      PROVE  XeroInv'
  <2>1. /\ tokens' = [tokens EXCEPT ![t].fresh = FALSE]
        /\ UNCHANGED <<issued, alive, refreshToken, connectionType, xeroTenants, states, calls, spoilt>>
    BY <1>2 DEF Expires
  <2>2. XeroTypeOK' /\ \A s \in Tenant : tokens'[s].way = tokens[s].way
    BY <2>1 DEF XeroInv, XeroTypeOK
  <2>3. Numbered' /\ CallInv' /\ Unread' /\ OnFile'
    BY <2>1 DEF XeroInv, Numbered, CallInv, Unread, OnFile, Brings
  <2>4. QED
    BY <2>1, <2>2, <2>3 DEF XeroInv, CachedIsListed
<1>3. QED
  BY <1>1, <1>2

\* The calls that begin.
LEMMA BeginsStep ==
  ASSUME XeroInv,
         \/ \E t \in Tenant : BeginRefresh(t) \/ BeginReconnect(t)
         \/ BeginTest \/ BeginDisconnect
         \/ \E u \in Admin, v \in Admin : CompleteBegins(u, v) /\ u = v
  PROVE  XeroInv'
<1>1. ASSUME NEW t \in Tenant, BeginRefresh(t)
      PROVE  XeroInv'
  <2>1. tokens[t].way \in Way
    BY <1>1 DEF BeginRefresh, XeroInv, XeroTypeOK
  <2>2. Sent("refresh", tokens[t].way, Redeems(tokens[t].way)) /\ states' = states
    BY <1>1 DEF BeginRefresh
  <2>3. UNCHANGED <<issued, alive, refreshToken, connectionType, xeroTenants, tokens, spoilt>>
    BY <1>1 DEF BeginRefresh
  <2>4. /\ Redeems(tokens[t].way) \in {0, refreshToken} 
        /\ (Redeems(tokens[t].way) # 0 => tokens[t].way = "oauth")
    BY DEF Redeems
  <2>5. states' \subseteq Admin
    BY <2>2 DEF XeroInv, XeroTypeOK
  <2>6. QED
    BY <2>1, <2>2, <2>3, <2>4, <2>5, SentKeeps DEF Kind
<1>2. ASSUME NEW t \in Tenant, BeginReconnect(t)
      PROVE  XeroInv'
  <2>1. PICK way \in Way : way = (IF connectionType = "oauth" THEN "oauth" ELSE "custom")
    BY DEF Way
  <2>2. Sent("reconnect", way, Redeems(way)) /\ states' = states
    BY <1>2, <2>1 DEF BeginReconnect
  <2>3. UNCHANGED <<issued, alive, refreshToken, connectionType, xeroTenants, tokens, spoilt>>
    BY <1>2 DEF BeginReconnect
  <2>4. Redeems(way) \in {0, refreshToken} /\ (Redeems(way) # 0 => way = "oauth")
    BY DEF Redeems
  <2>5. states' \subseteq Admin
    BY <2>2 DEF XeroInv, XeroTypeOK
  <2>6. QED
    BY <2>2, <2>3, <2>4, <2>5, SentKeeps DEF Kind
<1>3. CASE BeginTest
  <2>1. /\ Sent("test", "custom", 0) /\ states' = states
        /\ UNCHANGED <<issued, alive, refreshToken, connectionType, xeroTenants, tokens, spoilt>>
    BY <1>3 DEF BeginTest
  <2>2. QED
    BY <2>1, SentKeeps DEF Kind, Way, XeroInv, XeroTypeOK
<1>4. CASE BeginDisconnect
  <2>1. /\ Sent("disconnect", "oauth", refreshToken) /\ states' = states
        /\ UNCHANGED <<issued, alive, refreshToken, connectionType, xeroTenants, tokens, spoilt>>
    BY <1>4 DEF BeginDisconnect
  <2>2. QED
    BY <2>1, SentKeeps DEF Kind, Way, XeroInv, XeroTypeOK
<1>5. ASSUME NEW u \in Admin, CompleteBegins(u, u)
      PROVE  XeroInv'
  <2>1. /\ Sent("complete", "oauth", 0) /\ states' = states \ {u}
        /\ UNCHANGED <<issued, alive, refreshToken, connectionType, xeroTenants, tokens, spoilt>>
    BY <1>5 DEF CompleteBegins, Consume
  <2>2. states' \subseteq Admin
    BY <2>1 DEF XeroInv, XeroTypeOK
  <2>3. QED
    BY <2>1, <2>2, SentKeeps DEF Kind, Way
<1>6. QED
  BY <1>1, <1>2, <1>3, <1>4, <1>5

LEMMA XeroInvStep ==
  ASSUME XeroInv, [XeroNext]_xeroVars
  PROVE  XeroInv'
<1>1. ASSUME states' \subseteq Admin,
             UNCHANGED <<issued, alive, refreshToken, connectionType, xeroTenants, tokens, calls, spoilt>>
      PROVE  XeroInv'
  <2>1. XeroTypeOK'
    BY <1>1 DEF XeroInv, XeroTypeOK
  <2>2. Numbered' /\ CallInv' /\ Unread' /\ OnFile' /\ CachedIsListed'
    BY <1>1 DEF XeroInv, Numbered, CallInv, Unread, OnFile, Brings, CachedIsListed
  <2>3. QED
    BY <1>1, <2>1, <2>2 DEF XeroInv
<1>2. CASE UNCHANGED xeroVars
  BY <1>1, <1>2 DEF xeroVars, XeroInv, XeroTypeOK
<1>3. ASSUME NEW u \in Admin, Connect(u) \/ StateExpires(u)
      PROVE  XeroInv'
  BY <1>1, <1>3 DEF Connect, StateExpires, XeroInv, XeroTypeOK
<1>4. ASSUME NEW u \in Admin, NEW v \in Admin, CompleteBegins(u, v)
      PROVE  XeroInv'
  <2>1. CASE u = v
    BY <1>4, <2>1, BeginsStep
  <2>2. CASE u # v
    BY <1>1, <1>4, <2>2 DEF CompleteBegins, Consume, XeroInv, XeroTypeOK
  <2>3. QED
    BY <2>1, <2>2
<1>5. CASE \/ \E t \in Tenant : BeginRefresh(t) \/ BeginReconnect(t)
           \/ BeginTest \/ BeginDisconnect
  BY <1>5, BeginsStep
<1>6. ASSUME NEW c \in calls, XeroIssues(c) \/ XeroRefuses(c) \/ XeroGrants(c) \/ XeroRevokes(c)
      PROVE  XeroInv'
  BY <1>6, XeroIssuesStep, XeroDealsStep
<1>7. ASSUME NEW c \in calls,
             \/ Refused(c) \/ Refreshed(c) \/ Listing(c) \/ Listed(c) \/ ListFails(c)
             \/ Disconnected(c) \/ Lost(c)
      PROVE  XeroInv'
  BY <1>7, RefreshedStep, ListingStep, CallOverStep
<1>8. CASE XeroRestart \/ \E t \in Tenant : Expires(t)
  BY <1>8, XeroRestartStep
<1>9. QED
  BY <1>2, <1>3, <1>4, <1>5, <1>6, <1>7, <1>8 DEF XeroNext

\* However refreshes, reconnects, consents and disconnects overlap, a company
\* connected by OAuth has a token on file that Xero would take, unless an answer
\* never arrived, and no organisation that is not listed has a token in memory
\* (xero/token-cache.js, xero/oauth.js): for any organisations and calls.
THEOREM XeroStaysHeld == XeroSpec => []XeroHolds
<1>1. XeroInv /\ [XeroNext]_xeroVars => XeroInv'
  BY XeroInvStep
<1>2. XeroInv => XeroHolds
  BY DEF XeroInv, OnFile, XeroHolds, TokenOnFileWorks, Unheard
<1>3. QED
  BY XeroInvInit, <1>1, <1>2, PTL DEF XeroSpec

-----------------------------------------------------------------------------
(* The day's rates and the receipts they price.                              *)

Rate  == Figure \cup {NoRate}
ALine == [on : {"no", "open", "claimed"}, asked : Day, figure : Rate, typed : Rate]

\* A row of the table is empty or has a figure; only a provider's closes a day.
RowsHold(t) ==
  /\ t \in [Day -> [Source -> Row]]
  /\ \A d \in Day, s \in Source : t[d][s].figure = NoRate => t[d][s] = NoRow
  /\ \A d \in Day : ~t[d]["manual"].closed

\* The day has a close, or a rate an admin set.
HasPrice(t, d) == t[d]["manual"] # NoRow \/ \E s \in Source : t[d][s].closed

AtPrice(t, l) ==
  l.on = "open" /\ l.typed = NoRate /\ l.figure # NoRate /\ HasPrice(t, l.asked)
    => l.figure \in DayPrice(t, l.asked)

\* What u says of a day that has its price, t said.
SamePrice(t, u, d) == HasPrice(u, d) => HasPrice(t, d) /\ DayPrice(u, d) = DayPrice(t, d)

OnItsWay ==
  behind \cup list["close"] \cup list["follow"]
         \cup {call[c].for : c \in {k \in Caller : call[k] # NoCall}}

FollowInv == \A r \in FxReceipt \ OnItsWay : AtPrice(table, line[r])

FxInv ==
  /\ FxTypeOK /\ RowsHold(table)
  /\ live.source \in {"ecb", "daily"}
  /\ tick.at # "repricing" => list["close"] = {}
  /\ FollowInv

Put(t, d, s, row)     == [t EXCEPT ![d][s] = row]
Quoted(t, d, s, f, p) == Saved(t, d, s, f, p, FALSE)
Closed(t, d, s, f, p) == Saved(t, d, s, f, p, TRUE)

LEMMA FxBasics ==
  /\ \A f \in Figure : f \in Nat /\ f # 0
  /\ BoardSource \in {"ecb", "daily"} /\ MaxDay \in Nat /\ 1 \in Day /\ MaxAnswers \in Nat
  /\ NoRow \in Row
BY FxAssumption DEF Day, Row, NoRow, NoRate

-----------------------------------------------------------------------------
(* The table.                                                               *)

LEMMA TopIs ==
  ASSUME NEW t, NEW d, Filed(t, d) # {}, \A s \in Source : t[d][s].closed \in BOOLEAN
  PROVE  /\ Top(t, d) \in Filed(t, d)
         /\ \A o \in Filed(t, d) : Rank(t, d, Top(t, d)) <= Rank(t, d, o)
<1>1. \E s \in Filed(t, d) : \A o \in Filed(t, d) : Rank(t, d, s) <= Rank(t, d, o)
  <2>1. Filed(t, d) \subseteq {"manual", "ecb", "daily"}
    BY DEF Filed, Source
  <2>2. /\ Rank(t, d, "manual") = 0
        /\ Rank(t, d, "ecb") = IF t[d]["ecb"].closed THEN 1 ELSE 3
        /\ Rank(t, d, "daily") = IF t[d]["daily"].closed THEN 2 ELSE 4
    BY DEF Rank, Source
  <2>3. CASE "manual" \in Filed(t, d)
    BY <2>1, <2>2, <2>3
  <2>4. CASE "manual" \notin Filed(t, d) /\ "ecb" \in Filed(t, d) /\ "daily" \in Filed(t, d)
    <3>1. CASE Rank(t, d, "ecb") <= Rank(t, d, "daily")
      BY <2>1, <2>2, <2>4, <3>1
    <3>2. CASE ~(Rank(t, d, "ecb") <= Rank(t, d, "daily"))
      BY <2>1, <2>2, <2>4, <3>2
    <3>3. QED
      BY <3>1, <3>2
  <2>5. CASE "manual" \notin Filed(t, d) /\ ~("ecb" \in Filed(t, d) /\ "daily" \in Filed(t, d))
    BY <2>1, <2>2, <2>5
  <2>6. QED
    BY <2>3, <2>4, <2>5
<1>2. QED
  BY <1>1 DEF Top

LEMMA RowIs ==
  ASSUME NEW t, RowsHold(t), NEW d \in Day, NEW s \in Source
  PROVE  /\ t[d] \in [Source -> Row] /\ t[d][s] \in Row
         /\ t[d][s].figure \in Rate /\ t[d][s].closed \in BOOLEAN /\ t[d][s].priced \in Day
         /\ t[d][s].figure = NoRate <=> t[d][s] = NoRow
         /\ t[d][s].closed => t[d][s].figure # NoRate /\ s # "manual"
<1>1. t[d] \in [Source -> Row] /\ t[d][s] \in Row
  BY DEF RowsHold
<1>2. t[d][s].figure \in Rate /\ t[d][s].closed \in BOOLEAN /\ t[d][s].priced \in Day
  BY <1>1 DEF Row, Rate
<1>3. t[d][s].figure = NoRate <=> t[d][s] = NoRow
  <2>1. NoRow.figure = NoRate
    BY DEF NoRow
  <2>2. t[d][s].figure = NoRate => t[d][s] = NoRow
    BY DEF RowsHold
  <2>3. QED
    BY <2>1, <2>2
<1>4. t[d][s].closed => t[d][s].figure # NoRate /\ s # "manual"
  BY <1>3 DEF RowsHold, NoRow
<1>5. QED
  BY <1>1, <1>2, <1>3, <1>4

\* The row that prices a day is at the price of the day.
LEMMA CachedPrices ==
  ASSUME NEW t, RowsHold(t), NEW d \in Day
  PROVE  /\ Cached(t, d) \in Row
         /\ Filed(t, d) # {} => Cached(t, d).figure \in DayPrice(t, d) /\ Cached(t, d).figure # NoRate
<1>1. CASE Filed(t, d) = {}
  BY <1>1, FxBasics DEF Cached
<1>2. CASE Filed(t, d) # {}
  <2>1. \A s \in Source : t[d][s].closed \in BOOLEAN
    BY RowIs
  <2>2. /\ Top(t, d) \in Filed(t, d)
        /\ \A o \in Filed(t, d) : Rank(t, d, Top(t, d)) <= Rank(t, d, o)
    BY <1>2, <2>1, TopIs
  <2>3. Top(t, d) \in Source /\ Cached(t, d) = t[d][Top(t, d)] /\ t[d][Top(t, d)].figure # NoRate
    BY <1>2, <2>2 DEF Filed, Cached
  <2>4. /\ Rank(t, d, "manual") = 0
        /\ Rank(t, d, "ecb") = IF t[d]["ecb"].closed THEN 1 ELSE 3
        /\ Rank(t, d, "daily") = IF t[d]["daily"].closed THEN 2 ELSE 4
    BY DEF Rank, Source
  <2>5. \A s \in Source : s \in Filed(t, d) <=> t[d][s].figure # NoRate
    BY DEF Filed
  <2>6. "manual" \in Source /\ "ecb" \in Source /\ "daily" \in Source /\ Top(t, d) \in {"manual", "ecb", "daily"}
    BY <2>3 DEF Source
  <2>7. /\ t[d]["ecb"].closed => "ecb" \in Filed(t, d)
        /\ t[d]["daily"].closed => "daily" \in Filed(t, d)
    BY <2>5, <2>6, RowIs
  <2>8. t[d][Top(t, d)].figure \in DayPrice(t, d)
    <3>1. CASE t[d]["manual"].figure # NoRate
      <4>1. "manual" \in Filed(t, d)
        BY <2>5, <2>6, <3>1
      <4>2. Top(t, d) = "manual"
        BY <2>1, <2>2, <2>4, <2>6, <4>1
      <4>3. QED
        BY <3>1, <4>2 DEF DayPrice
    <3>2. CASE t[d]["manual"].figure = NoRate /\ (t[d]["ecb"].closed \/ t[d]["daily"].closed)
      <4>1. Top(t, d) # "manual"
        BY <2>3, <3>2
      <4>2. t[d][Top(t, d)].closed
        BY <2>2, <2>4, <2>6, <2>7, <3>2, <4>1
      <4>3. Top(t, d) \in {"ecb", "daily"}
        BY <2>6, <4>1
      <4>4. QED
        BY <3>2, <4>2, <4>3 DEF DayPrice
    <3>3. CASE t[d]["manual"].figure = NoRate /\ ~t[d]["ecb"].closed /\ ~t[d]["daily"].closed
      <4>1. Top(t, d) # "manual"
        BY <2>3, <3>3
      <4>2. CASE t[d]["ecb"].figure # NoRate
        <5>1. "ecb" \in Filed(t, d)
          BY <2>5, <2>6, <4>2
        <5>2. Top(t, d) = "ecb"
          BY <2>2, <2>4, <2>6, <3>3, <4>1, <5>1
        <5>3. QED
          BY <3>3, <4>2, <5>2 DEF DayPrice
      <4>3. CASE t[d]["ecb"].figure = NoRate
        <5>1. Top(t, d) = "daily"
          BY <2>3, <2>6, <4>1, <4>3
        <5>2. QED
          BY <3>3, <4>3, <5>1 DEF DayPrice
      <4>4. QED
        BY <4>2, <4>3
    <3>4. QED
      BY <3>1, <3>2, <3>3
  <2>9. QED
    BY <1>2, <2>3, <2>8, RowIs
<1>3. QED
  BY <1>1, <1>2

\* A day with a price is settled.
LEMMA PriceSettles ==
  ASSUME NEW t, RowsHold(t), NEW d \in Day, HasPrice(t, d)
  PROVE  Filed(t, d) # {} /\ (Top(t, d) = "manual" \/ Cached(t, d).closed)
<1>1. \A s \in Source : t[d][s].closed \in BOOLEAN
  BY RowIs
<1>2. \A s \in Source : s \in Filed(t, d) <=> t[d][s].figure # NoRate
  BY DEF Filed
<1>3. "manual" \in Source /\ Source = {"manual", "ecb", "daily"}
  BY DEF Source
<1>4. Filed(t, d) # {}
  BY <1>2, <1>3, RowIs DEF HasPrice
<1>5. /\ Top(t, d) \in Filed(t, d)
      /\ \A o \in Filed(t, d) : Rank(t, d, Top(t, d)) <= Rank(t, d, o)
  BY <1>1, <1>4, TopIs
<1>6. /\ Rank(t, d, "manual") = 0
      /\ Rank(t, d, "ecb") = IF t[d]["ecb"].closed THEN 1 ELSE 3
      /\ Rank(t, d, "daily") = IF t[d]["daily"].closed THEN 2 ELSE 4
  BY DEF Rank, Source
<1>7. Top(t, d) \in {"manual", "ecb", "daily"} /\ Cached(t, d) = t[d][Top(t, d)]
  BY <1>4, <1>5 DEF Filed, Cached, Source
<1>8. CASE t[d]["manual"] # NoRow
  <2>1. "manual" \in Filed(t, d)
    BY <1>2, <1>3, <1>8, RowIs
  <2>2. QED
    BY <1>4, <1>5, <1>6, <1>7, <2>1
<1>9. CASE \E s \in Source : t[d][s].closed
  <2>1. PICK s \in Source : t[d][s].closed
    BY <1>9
  <2>2. s \in {"ecb", "daily"} /\ s \in Filed(t, d)
    BY <1>2, <1>3, <2>1, RowIs
  <2>3. Rank(t, d, s) \in {1, 2}
    BY <1>6, <2>1, <2>2
  <2>5. Rank(t, d, Top(t, d)) \in {0, 1, 2, 3, 4}
    BY <1>6, <1>7
  <2>6. Rank(t, d, Top(t, d)) <= Rank(t, d, s)
    BY <1>5, <2>2
  <2>7. Rank(t, d, Top(t, d)) <= 2
    BY <2>3, <2>5, <2>6
  <2>4. QED
    BY <1>4, <1>6, <1>7, <2>7
<1>10. QED
  BY <1>8, <1>9 DEF HasPrice

\* A row put in the table leaves the other days, and the other rows of the day.
LEMMA RowPut ==
  ASSUME NEW t, RowsHold(t), NEW d \in Day, NEW s \in Source, NEW row \in Row,
         row.figure # NoRate, s = "manual" => ~row.closed,
         NEW u, u = Put(t, d, s, row)
  PROVE  /\ RowsHold(u)
         /\ \A e \in Day : e # d => u[e] = t[e]
         /\ \A o \in Source : o # s => u[d][o] = t[d][o]
         /\ u[d][s] = row
<1>1. t \in [Day -> [Source -> Row]] /\ t[d] \in [Source -> Row]
  BY DEF RowsHold
<1>2. /\ u \in [Day -> [Source -> Row]]
      /\ \A e \in Day : e # d => u[e] = t[e]
      /\ \A o \in Source : o # s => u[d][o] = t[d][o]
      /\ u[d][s] = row
  BY <1>1 DEF Put
<1>3. ASSUME NEW e \in Day, NEW o \in Source
      PROVE  (u[e][o].figure = NoRate => u[e][o] = NoRow) /\ (o = "manual" => ~u[e][o].closed)
  <2>1. u[e][o] = t[e][o] \/ (e = d /\ o = s)
    BY <1>2
  <2>2. CASE u[e][o] = t[e][o]
    BY <2>2 DEF RowsHold
  <2>3. CASE e = d /\ o = s
    BY <1>2, <2>3
  <2>4. QED
    BY <2>1, <2>2, <2>3
<1>4. "manual" \in Source
  BY DEF Source
<1>5. QED
  BY <1>2, <1>3, <1>4 DEF RowsHold

LEMMA RowSaved ==
  ASSUME NEW t, RowsHold(t), NEW d \in Day, NEW s \in Source, NEW f \in Figure,
         NEW p \in Day, NEW u, u = Quoted(t, d, s, f, p)
  PROVE  /\ RowsHold(u)
         /\ \A e \in Day : e # d => u[e] = t[e]
         /\ \A o \in Source : o # s => u[d][o] = t[d][o]
         /\ u[d][s].figure = f /\ (u[d][s].closed <=> t[d][s].closed)
<1> DEFINE row == [figure |-> f, closed |-> t[d][s].closed, priced |-> p]
<1>1. t[d][s].closed \in BOOLEAN /\ (s = "manual" => ~t[d][s].closed)
  BY RowIs
<1>2. row \in Row /\ row.figure # NoRate /\ (s = "manual" => ~row.closed)
  BY <1>1, FxBasics DEF Row, NoRate
<1>3. u = Put(t, d, s, row)
  BY <1>1 DEF Quoted, Saved, Put
<1>4. row.figure = f /\ (row.closed <=> t[d][s].closed)
  OBVIOUS
<1> HIDE DEF row
<1>5. QED
  BY SMTT(20), <1>2, <1>3, <1>4, RowPut

LEMMA Closing ==
  ASSUME NEW t, RowsHold(t), NEW d \in Day, NEW s \in {"ecb", "daily"}, NEW f \in Figure,
         NEW p \in Day, NEW u, u = Closed(t, d, s, f, p)
  PROVE  RowsHold(u) /\ \A e \in Day : e # d => u[e] = t[e]
<1> DEFINE row == [figure |-> f, closed |-> TRUE, priced |-> p]
<1>1. row \in Row /\ row.figure # NoRate /\ s # "manual" /\ s \in Source
  BY FxBasics DEF Row, NoRate, Source
<1>2. u = Put(t, d, s, row)
  BY DEF Closed, Saved, Put
<1> HIDE DEF row
<1>3. QED
  BY <1>1, <1>2, RowPut

LEMMA SameDay ==
  ASSUME NEW t, NEW u, NEW d, u[d] = t[d]
  PROVE  SamePrice(t, u, d)
BY DEF SamePrice, HasPrice, DayPrice

\* A provider's rate filed on a row that is no close leaves every day its price.
LEMMA SavedKeeps ==
  ASSUME NEW t, RowsHold(t), NEW d \in Day, NEW s \in {"ecb", "daily"}, NEW f \in Figure,
         NEW p \in Day, NEW u, u = Quoted(t, d, s, f, p), ~t[d][s].closed
  PROVE  \A e \in Day : SamePrice(t, u, e)
<1>0. s \in Source
  BY DEF Source
<1>1. Source = {"manual", "ecb", "daily"}
  BY DEF Source
<1>2. /\ RowsHold(u)
      /\ \A e \in Day : e # d => u[e] = t[e]
      /\ \A o \in Source : o # s => u[d][o] = t[d][o]
      /\ u[d][s].figure = f /\ (u[d][s].closed <=> t[d][s].closed)
  BY <1>0, RowSaved
<1>3. ~u[d][s].closed
  BY <1>2
<1>4. u[d]["manual"] = t[d]["manual"] /\ \A o \in Source : u[d][o].closed <=> t[d][o].closed
  BY <1>1, <1>2, <1>3
<1>5. HasPrice(u, d) => HasPrice(t, d)
  BY <1>4 DEF HasPrice
<1>6. t[d]["manual"] # NoRow => t[d]["manual"].figure # NoRate
  BY <1>0, <1>1, RowIs
<1>7. ASSUME HasPrice(u, d)
      PROVE  DayPrice(u, d) = DayPrice(t, d)
  <2>1. CASE t[d]["manual"].figure # NoRate
    BY <1>4, <2>1 DEF DayPrice
  <2>2. CASE t[d]["manual"].figure = NoRate
    <3> DEFINE Shut(w) == {o \in {"ecb", "daily"} : w[d][o].closed}
    <3>1. Shut(u) = Shut(t)
      BY <1>1, <1>4
    <3>2. Shut(u) # {}
      <4>1. PICK o \in Source : u[d][o].closed
        BY <1>4, <1>6, <1>7, <2>2 DEF HasPrice
      <4>2. o # "manual"
        BY <1>2, <4>1 DEF RowsHold
      <4>3. QED
        BY <1>1, <4>1, <4>2
    <3>3. \A o \in Shut(u) : u[d][o].figure = t[d][o].figure
      BY <1>1, <1>2, <1>3
    <3>4. DayPrice(u, d) = {u[d][o].figure : o \in Shut(u)} /\ DayPrice(t, d) = {t[d][o].figure : o \in Shut(t)}
      BY <1>4, <2>2, <3>1, <3>2 DEF DayPrice
    <3> HIDE DEF Shut
    <3>5. {u[d][o].figure : o \in Shut(u)} = {t[d][o].figure : o \in Shut(t)}
      BY <3>1, <3>3
    <3>6. QED
      BY <3>4, <3>5
  <2>3. QED
    BY <2>1, <2>2
<1>8. SamePrice(t, u, d)
  BY <1>5, <1>7 DEF SamePrice
<1>9. QED
  BY <1>2, <1>8, SameDay

\* The row that becomes the day's close prices the day.
LEMMA Marking ==
  ASSUME NEW t, RowsHold(t), NEW d \in Day, NEW u, u = MarkedClosed(t, d)
  PROVE  /\ RowsHold(u)
         /\ \A e \in Day : e # d => u[e] = t[e]
         /\ Filed(t, d) # {} => Cached(t, d).figure \in DayPrice(u, d)
<1>1. CASE u = t
  BY <1>1, CachedPrices
<1>2. CASE u # t
  <2>1. Filed(t, d) # {} /\ Top(t, d) # "manual" /\ u = [t EXCEPT ![d][Top(t, d)].closed = TRUE]
    BY <1>2 DEF MarkedClosed
  <2>2. \A s \in Source : t[d][s].closed \in BOOLEAN
    BY RowIs
  <2>3. /\ Top(t, d) \in Filed(t, d)
        /\ \A o \in Filed(t, d) : Rank(t, d, Top(t, d)) <= Rank(t, d, o)
    BY <2>1, <2>2, TopIs
  <2> DEFINE s == Top(t, d)
             row == [t[d][s] EXCEPT !.closed = TRUE]
  <2>4. s \in Source /\ s \in {"ecb", "daily"} /\ t[d][s].figure # NoRate /\ Cached(t, d) = t[d][s]
    BY <2>1, <2>3 DEF Filed, Source, Cached
  <2>5. t \in [Day -> [Source -> Row]] /\ t[d] \in [Source -> Row] /\ t[d][s] \in Row
    BY <2>4 DEF RowsHold
  <2>6. row \in Row /\ row.figure = t[d][s].figure /\ row.closed
    BY <2>5 DEF Row
  <2>7. u = Put(t, d, s, row)
    BY <2>1 DEF Put
  <2>8. "manual" \notin Filed(t, d)
    <3>1. Rank(t, d, "manual") = 0
      BY DEF Rank
    <3>2. Rank(t, d, s) \in {1, 2, 3, 4}
      BY <2>4 DEF Rank
    <3>3. QED
      BY <2>3, <3>1, <3>2
  <2> HIDE DEF s, row
  <2>9. s \in Source /\ s # "manual" /\ row.figure # NoRate
    BY <2>4, <2>6
  <2>10. /\ RowsHold(u)
         /\ \A e \in Day : e # d => u[e] = t[e]
         /\ \A o \in Source : o # s => u[d][o] = t[d][o]
         /\ u[d][s] = row
    BY <2>6, <2>7, <2>9, RowPut
  <2>11. u[d]["manual"].figure = NoRate
    <3>1. "manual" \in Source /\ s # "manual"
      BY <2>4 DEF Source
    <3>2. QED
      BY <2>8, <2>10, <3>1 DEF Filed
  <2>12. u[d][s].closed /\ u[d][s].figure = Cached(t, d).figure
    BY <2>4, <2>6, <2>10
  <2>13. Cached(t, d).figure \in DayPrice(u, d)
    BY <2>4, <2>11, <2>12 DEF DayPrice
  <2>14. QED
    BY <2>10, <2>13
<1>3. QED
  BY <1>1, <1>2

-----------------------------------------------------------------------------
(* One receipt priced, or left waiting.                                     *)

Applies(ls, c, r) == \E forced \in BOOLEAN : ApplyFx(ls, c, r, forced)

\* What applyFx leaves: the receipt at the day's price, or its caller waiting.
PricedNow(ls, r) ==
  /\ call' = call
  /\ \/ line'[r].typed # NoRate \/ line'[r].figure = NoRate
     \/ line'[r].figure \in DayPrice(table', ls[r].asked)

LeftWaiting(ls, c, r) ==
  /\ line' = ls /\ table' = table /\ call[c] = NoCall
  /\ call'[c] # NoCall /\ call'[c].for = r
  /\ \A k \in Caller \ {c} : call'[k] = call[k]

Outcome(ls, c, r) ==
  /\ line' \in [FxReceipt -> ALine] /\ RowsHold(table') /\ newer' \subseteq Day \X Source
  /\ call' \in [Caller -> Waiting \cup {NoCall}]
  /\ \A e \in Day : SamePrice(table, table', e)
  /\ \A q \in FxReceipt \ {r} : line'[q] = ls[q]
  /\ line'[r].on = ls[r].on /\ line'[r].asked = ls[r].asked
  /\ PricedNow(ls, r) \/ LeftWaiting(ls, c, r)

LEMMA LineIs == FxTypeOK => line \in [FxReceipt -> ALine]
BY DEF FxTypeOK, ALine, Rate

LEMMA PricedIs ==
  ASSUME NEW l \in ALine, NEW forced \in BOOLEAN, NEW typedThen, NEW f \in Rate,
         NEW m, m = Priced(l, forced, typedThen, f)
  PROVE  /\ m \in ALine /\ m.on = l.on /\ m.asked = l.asked
         /\ m.typed # NoRate \/ (m.figure = f /\ m.typed = NoRate)
BY DEF Priced, ALine, Rate

\* Once a line is set through Priced, the others are as they were.
LEMMA OneLine ==
  ASSUME NEW ls \in [FxReceipt -> ALine], NEW r \in FxReceipt, NEW m \in ALine,
         NEW ms, ms = [ls EXCEPT ![r] = m]
  PROVE  /\ ms \in [FxReceipt -> ALine] /\ ms[r] = m
         /\ \A q \in FxReceipt \ {r} : ms[q] = ls[q]
OBVIOUS

LEMMA Applied ==
  ASSUME FxTypeOK, RowsHold(table), live.source \in {"ecb", "daily"},
         NEW ls \in [FxReceipt -> ALine], NEW c \in Caller, NEW r \in FxReceipt, Applies(ls, c, r)
  PROVE  Outcome(ls, c, r)
<1>1. PICK forced \in BOOLEAN : ApplyFx(ls, c, r, forced)
  BY DEF Applies
<1> DEFINE d == ls[r].asked
<1>2. d \in Day /\ ls[r] \in ALine /\ ls[r].typed \in Rate
  BY DEF ALine
<1>3. /\ live.figure \in Rate /\ live.day \in Day /\ newer \subseteq Day \X Source
      /\ call \in [Caller -> Waiting \cup {NoCall}]
  BY DEF FxTypeOK, Rate
<1>4. CASE PricedAtOnce(ls, r, forced) /\ UNCHANGED call
  <2>1. CASE /\ Held(live, d, clock.day, forced)
             /\ line' = [ls EXCEPT ![r] = Priced(@, forced, @.typed, Cached(table, d).figure)]
             /\ UNCHANGED <<table, newer>>
    <3> DEFINE m == Priced(ls[r], forced, ls[r].typed, Cached(table, d).figure)
    <3>1. Filed(table, d) # {}
      BY <2>1 DEF Held, Settled
    <3>2. Cached(table, d).figure \in DayPrice(table, d) /\ Cached(table, d).figure \in Rate
      BY <1>2, <3>1, CachedPrices DEF Row, Rate
    <3>3. /\ m \in ALine /\ m.on = ls[r].on /\ m.asked = d
          /\ m.typed # NoRate \/ (m.figure = Cached(table, d).figure /\ m.typed = NoRate)
      BY <1>2, <3>2, PricedIs
    <3>4. line' = [ls EXCEPT ![r] = m] /\ table' = table /\ newer' = newer
      BY <2>1
    <3> HIDE DEF m
    <3>5. line' \in [FxReceipt -> ALine] /\ line'[r] = m /\ \A q \in FxReceipt \ {r} : line'[q] = ls[q]
      BY <3>3, <3>4
    <3>6. PricedNow(ls, r)
      BY <1>4, <3>2, <3>3, <3>4, <3>5 DEF PricedNow
    <3>7. \A e \in Day : SamePrice(table, table', e)
      BY <3>4, SameDay
    <3>8. RowsHold(table') /\ newer' \subseteq Day \X Source /\ call' \in [Caller -> Waiting \cup {NoCall}]
      BY <1>3, <1>4, <3>4
    <3>9. QED
      BY <3>3, <3>5, <3>6, <3>7, <3>8 DEF Outcome
  <2>2. CASE /\ FromBoard(live, d, clock.day, forced)
             /\ table' = Accept(table, d, live.source, live.figure, live.day, FALSE)
             /\ newer' = IF Moved(table, live.day, live.figure) THEN newer ELSE Fresher({<<d, live.source>>})
             /\ line' = [ls EXCEPT ![r] = Priced(@, forced, @.typed, Given(table, d, live.day, live.figure,
                                  Accept(table, d, live.source, live.figure, live.day, FALSE)))]
    <3>1. ~Settled(d) /\ live.figure # NoRate
      BY <2>2 DEF FromBoard, IsLive
    <3>2. ~HasPrice(table, d)
      BY <1>2, <3>1, PriceSettles DEF Settled
    <3>3. live.figure \in Figure /\ live.source \in Source
      BY <1>3, <3>1 DEF Rate, Source
    <3> DEFINE g == Given(table, d, live.day, live.figure, table')
               m == Priced(ls[r], forced, ls[r].typed, g)
    <3>4. line' = [ls EXCEPT ![r] = m]
      BY <2>2
    <3>5. /\ RowsHold(table') /\ \A e \in Day : SamePrice(table, table', e)
          /\ g \in Rate /\ (g = NoRate \/ g \in DayPrice(table', d))
      <4>1. CASE Moved(table, live.day, live.figure)
        <5>1. table' = table /\ g = NoRate
          BY <2>2, <4>1 DEF Accept, Given
        <5>2. QED
          BY <5>1, SameDay DEF Rate
      <4>2. CASE ~Moved(table, live.day, live.figure)
        <5>1. table' = Quoted(table, d, live.source, live.figure, live.day)
          BY <2>2, <4>2 DEF Accept, Quoted
        <5>2. ~table[d][live.source].closed
          BY <3>2, <3>3 DEF HasPrice
        <5>3. \A e \in Day : SamePrice(table, table', e)
          BY <1>2, <1>3, <3>3, <5>1, <5>2, SavedKeeps
        <5>4. RowsHold(table') /\ table'[d][live.source].figure = live.figure
          BY <1>2, <1>3, <3>3, <5>1, RowSaved
        <5>5. Filed(table', d) # {}
          BY <3>1, <3>3, <5>4 DEF Filed
        <5>6. Cached(table', d).figure \in DayPrice(table', d) /\ Cached(table', d).figure \in Rate
          BY <1>2, <5>4, <5>5, CachedPrices DEF Row, Rate
        <5>7. g = Cached(table', d).figure
          BY <4>2 DEF Given
        <5>8. QED
          BY <5>3, <5>4, <5>6, <5>7
      <4>3. QED
        BY <4>1, <4>2
    <3> HIDE DEF g
    <3>6. /\ m \in ALine /\ m.on = ls[r].on /\ m.asked = d
          /\ m.typed # NoRate \/ (m.figure = g /\ m.typed = NoRate)
      BY <1>2, <3>5, PricedIs
    <3> HIDE DEF m
    <3>7. line' \in [FxReceipt -> ALine] /\ line'[r] = m /\ \A q \in FxReceipt \ {r} : line'[q] = ls[q]
      BY <3>4, <3>6
    <3>8. PricedNow(ls, r)
      BY <1>4, <3>5, <3>6, <3>7 DEF PricedNow
    <3>9. newer' \subseteq Day \X Source
      BY <1>2, <1>3, <2>2, <3>3 DEF Fresher
    <3>10. call' \in [Caller -> Waiting \cup {NoCall}]
      BY <1>3, <1>4
    <3>11. QED
      BY <3>5, <3>6, <3>7, <3>8, <3>9, <3>10 DEF Outcome
  <2>3. QED
    BY <1>4, <2>1, <2>2 DEF PricedAtOnce
<1>5. CASE Waits(ls, c, r, forced)
  <2> DEFINE w == [for |-> r, forced |-> forced, hit |-> Cached(table, d).figure, typed |-> ls[r].typed]
  <2>1. /\ call' = [call EXCEPT ![c] = w] /\ line' = ls /\ table' = table /\ newer' = newer
        /\ call[c] = NoCall
    BY <1>1, <1>5 DEF Waits, ApplyFx
  <2>2. Cached(table, d).figure \in Rate
    BY <1>2, CachedPrices DEF Row, Rate
  <2>3. w \in Waiting /\ w.for = r
    BY <1>2, <2>2 DEF Waiting, Rate
  <2>4. w # NoCall
    BY DEF NoCall
  <2> HIDE DEF w
  <2>5. /\ call' \in [Caller -> Waiting \cup {NoCall}] /\ call'[c] = w
        /\ \A k \in Caller \ {c} : call'[k] = call[k]
    BY <1>3, <2>1, <2>3
  <2>6. LeftWaiting(ls, c, r)
    BY <2>1, <2>3, <2>4, <2>5 DEF LeftWaiting
  <2>7. \A e \in Day : SamePrice(table, table', e)
    BY <2>1, SameDay
  <2>8. RowsHold(table') /\ newer' \subseteq Day \X Source
    BY <1>3, <2>1
  <2>9. QED
    BY <2>1, <2>5, <2>6, <2>7, <2>8 DEF Outcome
<1>6. QED
  BY <1>1, <1>4, <1>5 DEF ApplyFx

-----------------------------------------------------------------------------
(* What is under way keeps the rest at its price.                           *)

LEMMA KeepPrice ==
  ASSUME NEW t, NEW u, NEW l, AtPrice(t, l), SamePrice(t, u, l.asked)
  PROVE  AtPrice(u, l)
BY DEF AtPrice, SamePrice

\* A receipt priced at once is at its price, and one that waits is on its way.
LEMMA AppliedKeeps ==
  ASSUME FxInv, NEW ls \in [FxReceipt -> ALine], NEW c \in Caller, NEW r \in FxReceipt, Outcome(ls, c, r),
         \A q \in FxReceipt \ {r} : ls[q] = line[q],
         \A w \in {"close", "follow"} : list[w] \subseteq list'[w] \cup {r},
         behind' = behind
  PROVE  FollowInv'
<1> SUFFICES ASSUME NEW q \in FxReceipt \ OnItsWay'
             PROVE  AtPrice(table', line'[q])
  BY DEF FollowInv
<1>1. CASE q = r
  <2>1. ~LeftWaiting(ls, c, r)
    BY <1>1 DEF LeftWaiting, OnItsWay
  <2>2. PricedNow(ls, r) /\ line'[r].asked = ls[r].asked
    BY <2>1 DEF Outcome
  <2>3. QED
    BY <1>1, <2>2 DEF PricedNow, AtPrice
<1>2. CASE q # r
  <2>1. line'[q] = line[q] /\ line[q].asked \in Day
    BY <1>2, LineIs DEF Outcome, FxInv, ALine
  <2>2. q \notin behind /\ q \notin list["close"] /\ q \notin list["follow"]
    BY <1>2 DEF OnItsWay
  <2>3. ASSUME NEW k \in Caller, call[k] # NoCall, call[k].for = q
        PROVE  FALSE
    <3>1. call'[k] = call[k]
      BY <2>3 DEF Outcome, PricedNow, LeftWaiting
    <3>2. QED
      BY <2>3, <3>1 DEF OnItsWay
  <2>4. q \notin OnItsWay
    BY <2>2, <2>3 DEF OnItsWay
  <2>5. AtPrice(table, line[q])
    BY <2>4 DEF FxInv, FollowInv
  <2>6. SamePrice(table, table', line[q].asked)
    BY <2>1 DEF Outcome
  <2>7. QED
    BY <2>1, <2>5, <2>6, KeepPrice
<1>3. QED
  BY <1>1, <1>2

\* What changes a day's rates lists the day's receipts.
LEMMA DayMoves ==
  ASSUME FxInv, NEW d \in Day, \A e \in Day : e # d => table'[e] = table[e],
         line' = line, OnItsWay \subseteq OnItsWay', ToReprice(line, d) \subseteq OnItsWay'
  PROVE  FollowInv'
<1> SUFFICES ASSUME NEW r \in FxReceipt \ OnItsWay'
             PROVE  AtPrice(table', line[r])
  BY DEF FollowInv
<1>1. AtPrice(table, line[r]) /\ line[r].asked \in Day
  BY LineIs DEF FxInv, FollowInv, ALine
<1>2. CASE line[r].asked = d
  BY <1>2 DEF ToReprice, AtPrice
<1>3. CASE line[r].asked # d
  BY <1>1, <1>3, SameDay, KeepPrice
<1>4. QED
  BY <1>2, <1>3

LEMMA NothingMoves ==
  ASSUME FxInv, table' = table, line' = line, OnItsWay \subseteq OnItsWay'
  PROVE  FollowInv'
BY DEF FxInv, FollowInv

\* An answer prices those who waited for the day, or lists the day again.
LEMMA LookedUp ==
  ASSUME FxInv, NEW d \in Day, \A e \in Day : e # d => table'[e] = table[e],
         line' \in [FxReceipt -> ALine], \A r \in FxReceipt : line'[r].asked = line[r].asked,
         Looking(d) => list' = [list EXCEPT !["close"] = ToReprice(line', d)],
         ~Looking(d) => list' = list,
         call' = [c \in Caller |-> IF c \in Waiters(d) THEN NoCall ELSE call[c]],
         behind \subseteq behind',
         \A r \in FxReceipt : (\A c \in Waiters(d) : call[c].for # r) => line'[r] = line[r],
         \A r \in FxReceipt \ behind' :
           ~Looking(d) /\ line[r].asked = d =>
             /\ (\E c \in Waiters(d) : call[c].for = r) => AtPrice(table', line'[r])
             /\ AtPrice(table, line[r]) /\ line'[r] = line[r] => AtPrice(table', line[r])
  PROVE  FollowInv'
<1> SUFFICES ASSUME NEW r \in FxReceipt \ OnItsWay'
             PROVE  AtPrice(table', line'[r])
  BY DEF FollowInv
<1>1. line[r].asked \in Day /\ line'[r].asked = line[r].asked /\ list \in [{"close", "follow"} -> SUBSET FxReceipt]
  BY LineIs DEF FxInv, FxTypeOK, ALine
<1>2. ASSUME \A c \in Waiters(d) : call[c].for # r
      PROVE  AtPrice(table, line[r]) /\ line'[r] = line[r]
  <2>1. r \notin behind /\ r \notin list["follow"] /\ r \notin list["close"]
    <3>1. CASE Looking(d)
      <4>1. list["close"] = {} /\ list'["follow"] = list["follow"]
        BY <1>1, <3>1 DEF FxInv, Looking
      <4>2. QED
        BY <4>1 DEF OnItsWay
    <3>2. CASE ~Looking(d)
      BY <3>2 DEF OnItsWay
    <3>3. QED
      BY <3>1, <3>2
  <2>2. ASSUME NEW k \in Caller, call[k] # NoCall, call[k].for = r
        PROVE  FALSE
    <3>1. call'[k] = call[k]
      BY <1>2, <2>2
    <3>2. QED
      BY <2>2, <3>1 DEF OnItsWay
  <2>3. r \notin OnItsWay
    BY <2>1, <2>2 DEF OnItsWay
  <2>4. QED
    BY <1>2, <2>3 DEF FxInv, FollowInv
<1>3. CASE line[r].asked # d
  <2>1. \A c \in Waiters(d) : call[c].for # r
    BY <1>3 DEF Waiters
  <2>2. AtPrice(table, line[r]) /\ line'[r] = line[r]
    BY <1>2, <2>1
  <2>3. SamePrice(table, table', line[r].asked)
    BY <1>1, <1>3, SameDay
  <2>4. QED
    BY <2>2, <2>3, KeepPrice
<1>4. CASE line[r].asked = d /\ Looking(d)
  <2>1. r \notin ToReprice(line', d)
    BY <1>1, <1>4 DEF OnItsWay
  <2>2. QED
    BY <1>1, <1>4, <2>1 DEF ToReprice, AtPrice
<1>5. CASE line[r].asked = d /\ ~Looking(d)
  <2>1. r \in FxReceipt \ behind'
    BY DEF OnItsWay
  <2>2. CASE \E c \in Waiters(d) : call[c].for = r
    BY <1>5, <2>1, <2>2
  <2>3. CASE \A c \in Waiters(d) : call[c].for # r
    <3>1. AtPrice(table, line[r]) /\ line'[r] = line[r]
      BY <1>2, <2>3
    <3>2. QED
      BY <1>5, <2>1, <3>1
  <2>4. QED
    BY <2>2, <2>3
<1>6. QED
  BY <1>3, <1>4, <1>5

-----------------------------------------------------------------------------
(* The steps.                                                               *)

LEMMA FxStarts == FxInit => FxInv
<1> SUFFICES ASSUME FxInit
             PROVE  FxInv
  OBVIOUS
<1>1. FxTypeOK
  BY FxBasics DEF FxInit, FxTypeOK, NoLive, NoLine, NoRate, Source, Row
<1>2. RowsHold(table)
  <2>1. table \in [Day -> [Source -> Row]]
    BY <1>1 DEF FxTypeOK
  <2>2. \A d \in Day, s \in Source : table[d][s] = NoRow
    BY DEF FxInit
  <2>3. ~NoRow.closed /\ "manual" \in Source
    BY DEF NoRow, Source
  <2>4. QED
    BY <2>1, <2>2, <2>3 DEF RowsHold
<1>3. FollowInv
  BY DEF FxInit, FollowInv, AtPrice, NoLine
<1>4. QED
  BY <1>1, <1>2, <1>3 DEF FxInv, FxInit, NoLive

\* A receipt priced, reopened or walked to.
LEMMA PricingKeeps ==
  ASSUME FxInv, NEW ls \in [FxReceipt -> ALine], NEW c \in Caller, NEW r \in FxReceipt, Applies(ls, c, r),
         \A q \in FxReceipt \ {r} : ls[q] = line[q],
         list' \in [{"close", "follow"} -> SUBSET FxReceipt],
         \A w \in {"close", "follow"} : list'[w] \subseteq list[w] /\ list[w] \subseteq list'[w] \cup {r},
         UNCHANGED <<clock, live, closes, tick, spent, behind>>
  PROVE  FxInv' /\ Outcome(ls, c, r)
<1>1. Outcome(ls, c, r)
  BY Applied DEF FxInv
<1>2. FollowInv'
  BY <1>1, AppliedKeeps
<1>3. FxTypeOK'
  BY <1>1 DEF Outcome, FxInv, FxTypeOK, RowsHold, ALine, Rate
<1>4. RowsHold(table')
  BY <1>1 DEF Outcome
<1>5. tick'.at # "repricing" => list'["close"] = {}
  BY DEF FxInv
<1>6. live'.source \in {"ecb", "daily"}
  BY DEF FxInv
<1>7. QED
  BY <1>1, <1>2, <1>3, <1>4, <1>5, <1>6 DEF FxInv

LEMMA PriceReceiptKeeps ==
  ASSUME FxInv, NEW r \in FxReceipt, NEW forced \in BOOLEAN, PriceReceipt(r, forced)
  PROVE  FxInv' /\ \E c \in Caller : Outcome(line, c, r)
<1>1. PICK c \in Somebody : ApplyFx(line, c, r, forced)
  BY DEF PriceReceipt
<1>2. c \in Caller /\ Applies(line, c, r)
  BY <1>1 DEF Caller, Applies
<1>3. line \in [FxReceipt -> ALine] /\ list \in [{"close", "follow"} -> SUBSET FxReceipt]
  BY LineIs DEF FxInv, FxTypeOK
<1>4. UNCHANGED <<clock, live, closes, tick, list, spent, behind>>
  BY DEF PriceReceipt
<1>5. QED
  BY <1>2, <1>3, <1>4, PricingKeeps

LEMMA UnclaimReceiptKeeps ==
  ASSUME FxInv, NEW r \in FxReceipt, UnclaimReceipt(r)
  PROVE  FxInv' /\ \E c \in Caller : Outcome([line EXCEPT ![r].on = "open"], c, r)
<1> DEFINE ls == [line EXCEPT ![r].on = "open"]
<1>1. PICK c \in Somebody : ApplyFx(ls, c, r, FALSE)
  BY DEF UnclaimReceipt
<1>2. c \in Caller /\ Applies(ls, c, r)
  BY <1>1 DEF Caller, Applies
<1>3. line \in [FxReceipt -> ALine] /\ list \in [{"close", "follow"} -> SUBSET FxReceipt]
  BY LineIs DEF FxInv, FxTypeOK
<1>4. UNCHANGED <<clock, live, closes, tick, list, spent, behind>>
  BY DEF UnclaimReceipt
<1>5. ls \in [FxReceipt -> ALine] /\ \A q \in FxReceipt \ {r} : ls[q] = line[q]
  BY <1>3 DEF ALine
<1> HIDE DEF ls
<1>6. FxInv' /\ Outcome(ls, c, r)
  BY <1>2, <1>3, <1>4, <1>5, PricingKeeps
<1>7. QED
  BY <1>2, <1>6 DEF ls

LEMMA WalkKeeps ==
  ASSUME FxInv, NEW r \in FxReceipt, NEW w \in {"close", "follow"}, Walk(w, r)
  PROVE  FxInv' /\ \E c \in Caller : Outcome(line, c, r)
<1>1. w \in Caller /\ Applies(line, w, r)
  BY DEF Caller, Applies, Walk
<1>2. line \in [FxReceipt -> ALine] /\ list \in [{"close", "follow"} -> SUBSET FxReceipt]
  BY LineIs DEF FxInv, FxTypeOK
<1>3. UNCHANGED <<clock, live, closes, tick, spent, behind>> /\ list' = [list EXCEPT ![w] = list[w] \ {r}]
  BY DEF Walk
<1>4. list' \in [{"close", "follow"} -> SUBSET FxReceipt]
  BY <1>2, <1>3
<1>5. \A v \in {"close", "follow"} : list'[v] \subseteq list[v] /\ list[v] \subseteq list'[v] \cup {r}
  BY <1>2, <1>3
<1>6. QED
  BY <1>1, <1>2, <1>3, <1>4, <1>5, PricingKeeps

\* A receipt on its way in, typed by a person, or claimed has no price to follow.
LEMMA LineMoves ==
  ASSUME FxInv, NEW r \in FxReceipt, line' \in [FxReceipt -> ALine],
         \A q \in FxReceipt \ {r} : line'[q] = line[q],
         line'[r].on = "open" /\ line'[r].typed = NoRate => line'[r].figure = NoRate,
         spent' \in 0..MaxAnswers,
         UNCHANGED <<clock, live, newer, table, closes, tick, list, call, behind>>
  PROVE  FxInv'
<1>1. OnItsWay' = OnItsWay
  BY DEF OnItsWay
<1>2. FollowInv'
  BY <1>1 DEF FxInv, FollowInv, AtPrice
<1>3. FxTypeOK'
  BY DEF FxInv, FxTypeOK, ALine, Rate
<1>4. QED
  BY <1>2, <1>3 DEF FxInv

LEMMA ArrivesKeeps ==
  ASSUME FxInv, NEW r \in FxReceipt, NEW d \in Day, Arrives(r, d)
  PROVE  FxInv'
<1> DEFINE m == [NoLine EXCEPT !.on = "open", !.asked = d]
<1>1. m \in ALine /\ m.figure = NoRate
  BY DEF NoLine, ALine, Rate
<1>2. line' = [line EXCEPT ![r] = m] /\ line \in [FxReceipt -> ALine]
  BY LineIs DEF Arrives, FxInv
<1> HIDE DEF m
<1>3. /\ line' \in [FxReceipt -> ALine] /\ line'[r] = m
      /\ \A q \in FxReceipt \ {r} : line'[q] = line[q]
  BY <1>1, <1>2
<1>4. UNCHANGED <<clock, live, newer, table, closes, tick, list, call, spent, behind>> /\ spent' \in 0..MaxAnswers
  BY DEF Arrives, FxInv, FxTypeOK
<1>5. QED
  BY <1>1, <1>3, <1>4, LineMoves

LEMMA TypeRateKeeps ==
  ASSUME FxInv, NEW r \in FxReceipt, NEW f \in Figure, TypeRate(r, f)
  PROVE  FxInv' /\ line'[r].typed # NoRate /\ \A q \in FxReceipt \ {r} : line'[q] = line[q]
<1> DEFINE m == [line[r] EXCEPT !.figure = f, !.typed = f]
<1>1. line \in [FxReceipt -> ALine] /\ f # NoRate
  BY LineIs, FxBasics DEF FxInv, NoRate
<1>2. m \in ALine /\ m.typed = f
  BY <1>1 DEF ALine, Rate
<1>3. line' = [line EXCEPT ![r] = m]
  BY <1>1 DEF TypeRate
<1> HIDE DEF m
<1>4. /\ line' \in [FxReceipt -> ALine] /\ line'[r] = m
      /\ \A q \in FxReceipt \ {r} : line'[q] = line[q]
  BY <1>1, <1>2, <1>3
<1>5. UNCHANGED <<clock, live, newer, table, closes, tick, list, call, behind>> /\ spent' \in 0..MaxAnswers
  BY FxBasics DEF TypeRate, FxInv, FxTypeOK
<1>6. QED
  BY <1>1, <1>2, <1>4, <1>5, LineMoves

LEMMA ClaimReceiptKeeps ==
  ASSUME FxInv, NEW r \in FxReceipt, ClaimReceipt(r)
  PROVE  FxInv' /\ \A q \in FxReceipt : line'[q].figure = line[q].figure
<1>1. line \in [FxReceipt -> ALine]
  BY LineIs DEF FxInv
<1>2. /\ line' \in [FxReceipt -> ALine] /\ line'[r].on = "claimed"
      /\ \A q \in FxReceipt \ {r} : line'[q] = line[q]
      /\ \A q \in FxReceipt : line'[q].figure = line[q].figure
  BY <1>1 DEF ClaimReceipt, ALine
<1>3. UNCHANGED <<clock, live, newer, table, closes, tick, list, call, spent, behind>> /\ spent' \in 0..MaxAnswers
  BY DEF ClaimReceipt, FxInv, FxTypeOK
<1>4. QED
  BY <1>2, <1>3, LineMoves

\* An admin's rate, set or taken away, lists the receipts of its day.
LEMMA AdminRateKeeps ==
  ASSUME FxInv, NEW d \in Day, RowsHold(table'), \A e \in Day : e # d => table'[e] = table[e],
         spent < MaxAnswers /\ spent' = spent + 1,
         list' = [list EXCEPT !["follow"] = list["follow"] \cup ToReprice(line, d)],
         UNCHANGED <<clock, live, newer, closes, line, tick, call, behind>>
  PROVE  FxInv'
<1>1. list \in [{"close", "follow"} -> SUBSET FxReceipt] /\ ToReprice(line, d) \subseteq FxReceipt
  BY DEF FxInv, FxTypeOK, ToReprice
<1>2. /\ list' \in [{"close", "follow"} -> SUBSET FxReceipt] /\ list'["close"] = list["close"]
      /\ list'["follow"] = list["follow"] \cup ToReprice(line, d)
  BY <1>1
<1>3. OnItsWay \subseteq OnItsWay' /\ ToReprice(line, d) \subseteq OnItsWay'
  BY <1>2 DEF OnItsWay
<1>4. FollowInv'
  BY <1>3, DayMoves
<1>5. FxTypeOK'
  BY <1>2, FxBasics DEF FxInv, FxTypeOK, RowsHold
<1>6. QED
  BY <1>2, <1>4, <1>5 DEF FxInv

LEMMA SetManualKeeps ==
  ASSUME FxInv, NEW d \in Day, NEW f \in Figure, SetManual(d, f)
  PROVE  FxInv' /\ line' = line
<1>1. table' = Quoted(table, d, "manual", f, d) /\ "manual" \in Source /\ RowsHold(table)
  BY DEF SetManual, Quoted, Source, FxInv
<1>2. RowsHold(table') /\ \A e \in Day : e # d => table'[e] = table[e]
  BY <1>1, RowSaved
<1>3. /\ spent < MaxAnswers /\ spent' = spent + 1
      /\ list' = [list EXCEPT !["follow"] = list["follow"] \cup ToReprice(line, d)]
      /\ UNCHANGED <<clock, live, newer, closes, line, tick, call, behind>>
  BY DEF SetManual
<1>4. QED
  BY <1>2, <1>3, AdminRateKeeps

LEMMA DeleteManualKeeps ==
  ASSUME FxInv, NEW d \in Day, DeleteManual(d)
  PROVE  FxInv' /\ line' = line
<1>1. table' = [table EXCEPT ![d]["manual"] = NoRow] /\ "manual" \in Source /\ RowsHold(table)
  BY DEF DeleteManual, Source, FxInv
<1>2. /\ table' \in [Day -> [Source -> Row]] /\ \A e \in Day : e # d => table'[e] = table[e]
      /\ \A o \in Source : o # "manual" => table'[d][o] = table[d][o]
      /\ table'[d]["manual"] = NoRow
  BY <1>1, FxBasics DEF RowsHold
<1>3. ~NoRow.closed
  BY DEF NoRow
<1>4. ASSUME NEW e \in Day, NEW o \in Source
      PROVE  (table'[e][o].figure = NoRate => table'[e][o] = NoRow) /\ (o = "manual" => ~table'[e][o].closed)
  <2>1. table'[e][o] = table[e][o] \/ table'[e][o] = NoRow
    BY <1>2
  <2>2. QED
    BY <1>1, <1>3, <2>1 DEF RowsHold
<1>5. RowsHold(table')
  BY <1>1, <1>2, <1>4 DEF RowsHold
<1>6. /\ spent < MaxAnswers /\ spent' = spent + 1
      /\ list' = [list EXCEPT !["follow"] = list["follow"] \cup ToReprice(line, d)]
      /\ UNCHANGED <<clock, live, newer, closes, line, tick, call, behind>>
  BY DEF DeleteManual
<1>7. QED
  BY <1>2, <1>5, <1>6, AdminRateKeeps

\* The close of a day lists its receipts, whatever row the day closes at.
LEMMA ClosedTable ==
  ASSUME FxInv, NEW board, board.figure \in Rate, board.source \in {"ecb", "daily"}, board.day \in Day,
         NEW d \in Day, NEW begun,
         CloseAtLive(board, d) \/ CloseAtRow(board, d, begun) \/ table' = table
  PROVE  RowsHold(table') /\ \A e \in Day : e # d => table'[e] = table[e]
<1>1. RowsHold(table)
  BY DEF FxInv
<1>2. CASE table' = table
  BY <1>1, <1>2
<1>3. CASE CloseAtLive(board, d)
  <2>1. CASE table' = table
    BY <1>2, <2>1
  <2>2. CASE table' # table
    <3>1. table' = Closed(table, d, board.source, board.figure, d) /\ board.figure \in Figure
      BY <1>3, <2>2 DEF CloseAtLive, Accept, Closed, Rate
    <3>2. QED
      BY <1>1, <3>1, Closing
  <2>3. QED
    BY <2>1, <2>2
<1>4. CASE CloseAtRow(board, d, begun)
  <2>1. CASE table' = MarkedClosed(table, d)
    BY <1>1, <2>1, Marking
  <2>2. CASE /\ FromBoard(board, d, begun, FALSE) /\ table' # table
             /\ table' = MarkedClosed(Saved(table, d, board.source, board.figure, board.day, FALSE), d)
    <3> DEFINE t == Quoted(table, d, board.source, board.figure, board.day)
    <3>1. board.figure \in Figure /\ board.source \in Source
      BY <2>2 DEF FromBoard, IsLive, Rate, Source
    <3>2. RowsHold(t) /\ \A e \in Day : e # d => t[e] = table[e]
      BY <1>1, <3>1, RowSaved
    <3>3. table' = MarkedClosed(t, d)
      BY <2>2 DEF Quoted
    <3> HIDE DEF t
    <3>4. RowsHold(table') /\ \A e \in Day : e # d => table'[e] = t[e]
      BY <3>2, <3>3, Marking
    <3>5. QED
      BY <3>2, <3>4
  <2>3. QED
    BY <1>2, <1>4, <2>1, <2>2 DEF CloseAtRow
<1>5. QED
  BY <1>2, <1>3, <1>4

LEMMA CloseDayKeeps ==
  ASSUME FxInv, NEW board, board.figure \in Rate, board.source \in {"ecb", "daily"}, board.day \in Day,
         NEW d \in Day, NEW begun, CloseDay(board, d, begun), list["close"] = {},
         spent' \in 0..MaxAnswers,
         live' = live \/ live' = board, board \in [figure : Rate, source : Source, day : Day, fresh : BOOLEAN],
         newer' = newer \/ newer' = StoredNow(d) \/ newer' = newer \cup StoredNow(d),
         UNCHANGED <<clock, line, call, behind>>
  PROVE  FxInv'
<1>1. list \in [{"close", "follow"} -> SUBSET FxReceipt] /\ ToReprice(line, d) \subseteq FxReceipt
  BY DEF FxInv, FxTypeOK, ToReprice
<1>2. RowsHold(table') /\ \A e \in Day : e # d => table'[e] = table[e]
  <2>1. CloseAtLive(board, d) \/ CloseAtRow(board, d, begun) \/ table' = table
    BY DEF CloseDay, CloseLooksUp
  <2>2. QED
    BY <2>1, ClosedTable
<1>3. /\ closes' \subseteq Day /\ tick' \in [at : {"idle", "refreshing", "looking", "repricing"}, day : Day]
      /\ \/ tick'.at = "looking" /\ UNCHANGED <<table, list>>
         \/ tick'.at = "repricing" /\ list' = [list EXCEPT !["close"] = ToReprice(line, d)]
  <2>1. closes \subseteq Day
    BY DEF FxInv, FxTypeOK
  <2>2. CASE CloseLooksUp(board, d, begun)
    <3>1. tick' = [at |-> "looking", day |-> d] /\ closes' = closes /\ UNCHANGED <<table, list>>
      BY <2>2 DEF CloseLooksUp
    <3>2. QED
      BY <2>1, <3>1
  <2>3. CASE DayDone(d) /\ list' = [list EXCEPT !["close"] = ToReprice(line, d)]
    <3>1. tick' = [at |-> "repricing", day |-> d] /\ closes' = closes \cup {d}
      BY <2>3 DEF DayDone
    <3>2. QED
      BY <2>1, <2>3, <3>1
  <2>4. QED
    BY <2>2, <2>3 DEF CloseDay
<1>4. /\ list' \in [{"close", "follow"} -> SUBSET FxReceipt] /\ list'["follow"] = list["follow"]
      /\ tick'.at # "repricing" => list'["close"] = {}
  BY <1>1, <1>3
<1>5. OnItsWay \subseteq OnItsWay'
  BY <1>4 DEF OnItsWay
<1>6. FollowInv'
  <2>1. CASE tick'.at = "looking" /\ UNCHANGED <<table, list>>
    BY <1>5, <2>1, NothingMoves
  <2>2. CASE list' = [list EXCEPT !["close"] = ToReprice(line, d)]
    <3>1. ToReprice(line, d) \subseteq OnItsWay'
      BY <1>1, <2>2 DEF OnItsWay
    <3>2. QED
      BY <1>2, <1>5, <3>1, DayMoves
  <2>3. QED
    BY <1>3, <2>1, <2>2
<1>7. newer' \subseteq Day \X Source
  BY DEF StoredNow, FxInv, FxTypeOK
<1>8. live' \in [figure : Rate, source : Source, day : Day, fresh : BOOLEAN] /\ live'.source \in {"ecb", "daily"}
  BY DEF FxInv, FxTypeOK, Rate
<1>9. FxTypeOK'
  BY <1>2, <1>3, <1>4, <1>7, <1>8 DEF FxInv, FxTypeOK, RowsHold, Rate
<1>10. QED
  BY <1>2, <1>4, <1>6, <1>8, <1>9 DEF FxInv

LEMMA FirstIs ==
  ASSUME NEW S, S \subseteq Day, S # {}
  PROVE  First(S) \in Day
<1>1. Day \subseteq Nat
  BY FxBasics DEF Day
<1>2. \E d \in S : \A o \in S : d <= o
  BY <1>1, LeastOfSome
<1>3. QED
  BY <1>2 DEF First

LEMMA TickMissedKeeps == ASSUME FxInv, TickMissed PROVE FxInv' /\ line' = line
<1>1. Missed \subseteq Day /\ Missed # {} /\ tick.at = "idle"
  BY DEF TickMissed, TakesMissed, Missed
<1>2. First(Missed) \in Day
  BY <1>1, FirstIs
<1>3. /\ live \in [figure : Rate, source : Source, day : Day, fresh : BOOLEAN]
      /\ live.figure \in Rate /\ live.day \in Day /\ live.source \in {"ecb", "daily"}
  BY DEF FxInv, FxTypeOK, Rate
<1>4. list["close"] = {} /\ spent' \in 0..MaxAnswers
  BY <1>1 DEF FxInv, FxTypeOK, TickMissed
<1>5. /\ CloseDay(live, First(Missed), clock.day) /\ live' = live
      /\ UNCHANGED <<clock, line, call, behind>>
      /\ newer' = newer \/ newer' = newer \cup StoredNow(First(Missed))
  BY DEF TickMissed, Fresher
<1>6. QED
  BY <1>2, <1>3, <1>4, <1>5, CloseDayKeeps

LEMMA CloseRefreshedKeeps ==
  ASSUME FxInv, NEW f \in Figure, CloseRefreshed(f, BoardSource)
  PROVE  FxInv' /\ line' = line
<1> DEFINE board == Board(f, BoardSource)
<1>1. /\ board \in [figure : Rate, source : Source, day : Day, fresh : BOOLEAN]
      /\ board.figure \in Rate /\ board.day \in Day /\ board.source \in {"ecb", "daily"}
  BY FxBasics DEF Board, Rate, Source, FxInv, FxTypeOK
<1>2. tick.day \in Day /\ list["close"] = {} /\ spent' \in 0..MaxAnswers
  BY FxBasics DEF FxInv, FxTypeOK, CloseRefreshed
<1>3. /\ CloseDay(board, tick.day, tick.day) /\ live' = board
      /\ UNCHANGED <<clock, line, call, behind>> /\ newer' = StoredNow(tick.day)
  BY DEF CloseRefreshed
<1> HIDE DEF board
<1>4. QED
  BY <1>1, <1>2, <1>3, CloseDayKeeps

LEMMA CloseUnrefreshedKeeps == ASSUME FxInv, CloseUnrefreshed PROVE FxInv' /\ line' = line
<1>1. /\ live \in [figure : Rate, source : Source, day : Day, fresh : BOOLEAN]
      /\ live.figure \in Rate /\ live.day \in Day /\ live.source \in {"ecb", "daily"}
  BY DEF FxInv, FxTypeOK, Rate
<1>2. tick.day \in Day /\ list["close"] = {} /\ spent' \in 0..MaxAnswers
  BY DEF FxInv, FxTypeOK, CloseUnrefreshed
<1>3. /\ CloseDay(live, tick.day, tick.day) /\ live' = live
      /\ UNCHANGED <<clock, line, call, behind>>
      /\ newer' = newer \/ newer' = newer \cup StoredNow(tick.day)
  BY DEF CloseUnrefreshed, Fresher
<1>4. QED
  BY <1>1, <1>2, <1>3, CloseDayKeeps

\* Steps that change neither a rate nor a receipt.
LEMMA StillKeeps ==
  ASSUME FxInv, TickToday \/ TickEnds \/ Time \/ BoardAges \/ \E f \in Figure : RefreshEnds(f, BoardSource)
  PROVE  FxInv' /\ line' = line
<1>1. UNCHANGED <<table, closes, line, list, call, behind>>
  BY DEF TickToday, TickEnds, Time, BoardAges, RefreshEnds
<1>2. OnItsWay' = OnItsWay
  BY <1>1 DEF OnItsWay
<1>3. FollowInv'
  BY <1>1, <1>2, NothingMoves
<1>4. clock' \in [day : Day, late : BOOLEAN]
  <2>1. CASE Time
    <3>1. clock \in [day : Day, late : BOOLEAN]
      BY DEF FxInv, FxTypeOK
    <3>2. CASE clock.late
      <4>1. clock.day \in Day /\ clock.day < MaxDay /\ clock' = [day |-> clock.day + 1, late |-> FALSE]
        BY <2>1, <3>1, <3>2 DEF Time
      <4>2. clock.day + 1 \in Day
        BY <4>1, FxBasics DEF Day
      <4>3. QED
        BY <4>1, <4>2
    <3>3. CASE ~clock.late
      BY <2>1, <3>1, <3>3 DEF Time
    <3>4. QED
      BY <3>2, <3>3
  <2>2. CASE ~Time
    BY <2>2 DEF TickToday, TickEnds, BoardAges, RefreshEnds, FxInv, FxTypeOK
  <2>3. QED
    BY <2>1, <2>2
<1>5. live' \in [figure : Rate, source : Source, day : Day, fresh : BOOLEAN] /\ live'.source \in {"ecb", "daily"}
  <2>1. live \in [figure : Rate, source : Source, day : Day, fresh : BOOLEAN] /\ live.source \in {"ecb", "daily"}
    BY DEF FxInv, FxTypeOK, Rate
  <2>2. CASE live' = live
    BY <2>1, <2>2
  <2>3. CASE BoardAges
    BY <2>1, <2>3 DEF BoardAges
  <2>4. CASE \E f \in Figure : RefreshEnds(f, BoardSource)
    BY <2>4, FxBasics DEF RefreshEnds, Board, Rate, Source, FxInv, FxTypeOK
  <2>5. QED
    BY <2>2, <2>3, <2>4 DEF TickToday, TickEnds, Time
<1>6. tick' \in [at : {"idle", "refreshing", "looking", "repricing"}, day : Day]
      /\ (tick'.at # "repricing" => list'["close"] = {})
  <2>1. CASE UNCHANGED tick
    BY <1>1, <2>1 DEF FxInv, FxTypeOK
  <2>2. CASE TickToday
    BY <2>2 DEF TickToday, TakesToday, FxInv, FxTypeOK
  <2>3. CASE TickEnds
    BY <2>3, FxBasics DEF TickEnds
  <2>4. QED
    BY <2>1, <2>2, <2>3 DEF Time, BoardAges, RefreshEnds
<1>7. newer' \subseteq Day \X Source /\ spent' \in 0..MaxAnswers
  BY FxBasics DEF TickToday, TickEnds, Time, BoardAges, RefreshEnds, FxInv, FxTypeOK
<1>8. FxTypeOK'
  BY <1>1, <1>4, <1>5, <1>6, <1>7 DEF FxInv, FxTypeOK, Rate
<1>9. QED
  BY <1>1, <1>3, <1>5, <1>6, <1>8 DEF FxInv

LEMMA FxRestartKeeps == ASSUME FxInv, FxRestart PROVE FxInv' /\ line' = line
<1>1. /\ UNCHANGED <<clock, live, newer, table, closes, line, spent>>
      /\ tick' = [at |-> "idle", day |-> 1]
      /\ list' = [w \in {"close", "follow"} |-> {}]
      /\ call' = [c \in Caller |-> NoCall]
      /\ behind' = OnItsWay
  BY DEF FxRestart, OnItsWay
<1>2. OnItsWay \subseteq FxReceipt
  <2>1. \A c \in Caller : call[c] # NoCall => call[c].for \in FxReceipt
    BY DEF FxInv, FxTypeOK, Waiting
  <2>2. list["close"] \subseteq FxReceipt /\ list["follow"] \subseteq FxReceipt /\ behind \subseteq FxReceipt
    BY DEF FxInv, FxTypeOK
  <2>3. QED
    BY <2>1, <2>2 DEF OnItsWay
<1>3. OnItsWay \subseteq OnItsWay'
  <2>1. behind' \subseteq OnItsWay'
    BY DEF OnItsWay
  <2>2. QED
    BY <1>1, <2>1
<1>4. FollowInv'
  BY <1>1, <1>3, NothingMoves
<1>5. FxTypeOK'
  BY <1>1, <1>2, FxBasics DEF FxInv, FxTypeOK
<1>6. QED
  BY <1>1, <1>4, <1>5 DEF FxInv

\* Who waited for the day has its answer; nobody else moved.
Answered(d, r, f) ==
  \/ line'[r] = line[r] /\ \A c \in Waiters(d) : call[c].for # r
  \/ \E c \in Waiters(d) : call[c].for = r /\ line'[r] = Priced(line[r], call[c].forced, call[c].typed, f)

LEMMA WaiterIs ==
  ASSUME FxInv, NEW d, NEW c \in Waiters(d)
  PROVE  /\ c \in Caller /\ call[c] # NoCall /\ line[call[c].for].asked = d
         /\ call[c].for \in FxReceipt /\ call[c].forced \in BOOLEAN /\ call[c].hit \in Rate
BY DEF Waiters, FxInv, FxTypeOK, Waiting, Rate

LEMMA AnsweredIs ==
  ASSUME FxInv, NEW d, NEW r \in FxReceipt, NEW f \in Rate, Answered(d, r, f)
  PROVE  /\ line'[r] \in ALine /\ line'[r].asked = line[r].asked /\ line'[r].on = line[r].on
         /\ (\A c \in Waiters(d) : call[c].for # r) => line'[r] = line[r]
         /\ line'[r] = line[r] \/ line'[r].typed # NoRate \/ line'[r].figure = f
         /\ (\E c \in Waiters(d) : call[c].for = r) => line'[r].typed # NoRate \/ line'[r].figure = f
<1>1. line[r] \in ALine
  BY LineIs DEF FxInv
<1>2. CASE line'[r] = line[r] /\ \A c \in Waiters(d) : call[c].for # r
  BY <1>1, <1>2
<1>3. CASE \E c \in Waiters(d) : call[c].for = r /\ line'[r] = Priced(line[r], call[c].forced, call[c].typed, f)
  <2>1. PICK c \in Waiters(d) : call[c].for = r /\ line'[r] = Priced(line[r], call[c].forced, call[c].typed, f)
    BY <1>3
  <2>2. call[c].forced \in BOOLEAN
    BY WaiterIs
  <2>3. /\ line'[r] \in ALine /\ line'[r].on = line[r].on /\ line'[r].asked = line[r].asked
        /\ line'[r].typed # NoRate \/ (line'[r].figure = f /\ line'[r].typed = NoRate)
    BY <1>1, <2>1, <2>2, PricedIs
  <2>4. QED
    BY <2>1, <2>3
<1>4. QED
  BY <1>2, <1>3 DEF Answered

\* What is filed of an answer, and the price the row that is best says.
Told(t, d, s, f, p) == Accept(t, d, s, f, p, FALSE)

LEMMA AnswerFiled ==
  ASSUME FxInv, NEW d \in Day, NEW s \in {"ecb", "daily"}, NEW f \in Figure, NEW p \in Day,
         NEW after, after = Told(table, d, s, f, p), NEW g, g = Given(table, d, p, f, after)
  PROVE  /\ RowsHold(after) /\ \A e \in Day : e # d => after[e] = table[e]
         /\ ~table[d][s].closed => SamePrice(table, after, d)
         /\ g \in Rate
         /\ Moved(table, p, f) => after = table /\ g = NoRate
         /\ ~Moved(table, p, f) => g \in DayPrice(after, d) /\ g \in DayPrice(MarkedClosed(after, d), d)
<1>0. RowsHold(table)
  BY DEF FxInv
<1>1. s \in Source
  BY DEF Source
<1>2. CASE Moved(table, p, f)
  <2>1. after = table /\ g = NoRate
    BY <1>2 DEF Told, Accept, Given
  <2>2. QED
    BY <1>0, <1>2, <2>1, SameDay DEF Rate
<1>3. CASE ~Moved(table, p, f)
  <2>0. g = Cached(after, d).figure
    BY <1>3 DEF Given
  <2>1. after = Quoted(table, d, s, f, p)
    BY <1>3 DEF Told, Accept, Quoted
  <2>2. /\ RowsHold(after) /\ \A e \in Day : e # d => after[e] = table[e]
        /\ after[d][s].figure = f
    BY <1>0, <1>1, <2>1, RowSaved
  <2>3. ~table[d][s].closed => SamePrice(table, after, d)
    BY <1>0, <2>1, SavedKeeps
  <2>4. Filed(after, d) # {}
    BY <1>1, <2>2, FxBasics DEF Filed, NoRate
  <2>5. g \in DayPrice(after, d) /\ g \in Rate
    BY <2>0, <2>2, <2>4, CachedPrices DEF Row, Rate
  <2>6. g \in DayPrice(MarkedClosed(after, d), d)
    BY <2>0, <2>2, <2>4, Marking
  <2>7. QED
    BY <1>3, <2>2, <2>3, <2>5, <2>6
<1>4. QED
  BY <1>2, <1>3

\* An answer's types, whatever it says.
LEMMA AnswerTypes ==
  ASSUME FxInv, NEW d \in Day, RowsHold(table'), line' \in [FxReceipt -> ALine],
         Looking(d) => DayDone(d) /\ list' = [list EXCEPT !["close"] = ToReprice(line', d)],
         ~Looking(d) => UNCHANGED <<closes, tick, list>>,
         call' = [c \in Caller |-> IF c \in Waiters(d) THEN NoCall ELSE call[c]],
         newer' \subseteq Day \X Source, spent' \in 0..MaxAnswers, behind' \subseteq FxReceipt,
         UNCHANGED <<clock, live>>, FollowInv'
  PROVE  FxInv'
<1>1. call' \in [Caller -> Waiting \cup {NoCall}]
  BY DEF FxInv, FxTypeOK
<1>2. /\ closes' \subseteq Day /\ tick' \in [at : {"idle", "refreshing", "looking", "repricing"}, day : Day]
      /\ list' \in [{"close", "follow"} -> SUBSET FxReceipt]
      /\ tick'.at # "repricing" => list'["close"] = {}
  <2>1. /\ closes \subseteq Day /\ tick \in [at : {"idle", "refreshing", "looking", "repricing"}, day : Day]
        /\ list \in [{"close", "follow"} -> SUBSET FxReceipt]
    BY DEF FxInv, FxTypeOK
  <2>2. CASE Looking(d)
    <3>1. tick' = [at |-> "repricing", day |-> d] /\ closes' = closes \cup {d}
      BY <2>2 DEF DayDone
    <3>2. ToReprice(line', d) \subseteq FxReceipt
      BY DEF ToReprice
    <3>3. list' = [list EXCEPT !["close"] = ToReprice(line', d)]
      BY <2>2
    <3>4. QED
      BY <2>1, <3>1, <3>2, <3>3
  <2>3. CASE ~Looking(d)
    BY <2>1, <2>3 DEF FxInv
  <2>4. QED
    BY <2>2, <2>3
<1>3. FxTypeOK'
  BY <1>1, <1>2 DEF FxInv, FxTypeOK, RowsHold, ALine, Rate
<1>4. QED
  BY <1>2, <1>3 DEF FxInv

\* A receipt's new price after an answer: the day's.
LookupPrices(d) ==
  \A r \in FxReceipt : \/ line'[r] = line[r] \/ line'[r].typed # NoRate \/ line'[r].figure = NoRate
                       \/ line[r].asked = d /\ line'[r].figure \in DayPrice(table', d)

LEMMA LookupAnswersKeeps ==
  ASSUME FxInv, NEW d \in Day, NEW s \in {"ecb", "daily"}, NEW f \in Figure, LookupAnswers(d, s, f)
  PROVE  FxInv' /\ LookupPrices(d)
<1> DEFINE p     == IF s = "ecb" THEN d ELSE clock.day
           after == Told(table, d, s, f, p)
           g     == Given(table, d, p, f, after)
<1>1. p \in Day
  BY DEF FxInv, FxTypeOK
<1>2. /\ call' = [c \in Caller |-> IF c \in Waiters(d) THEN NoCall ELSE call[c]]
      /\ line' = [r \in FxReceipt |-> line'[r]]
  BY DEF LookupAnswers, AnsweredTo
<1>3. \A r \in FxReceipt : Answered(d, r, g)
  BY DEF LookupAnswers, AnsweredTo, Answered, Told
<1>4. behind' = IF table[d][s].closed /\ after # table THEN behind \cup ToReprice(line, d) ELSE behind
  BY DEF LookupAnswers, Told
<1>5. Looking(d) => /\ DayDone(d) /\ list' = [list EXCEPT !["close"] = ToReprice(line', d)]
                    /\ table' = IF Moved(table, p, f) THEN table ELSE MarkedClosed(after, d)
  BY DEF LookupAnswers, AfterLookup, Told
<1>6. ~Looking(d) => table' = after /\ UNCHANGED <<closes, tick, list>>
  BY DEF LookupAnswers, AfterLookup, Told
<1>7. UNCHANGED <<clock, live>> /\ newer' \subseteq Day \X Source /\ spent' \in 0..MaxAnswers
  BY FxBasics DEF LookupAnswers, Fresher, FxInv, FxTypeOK, Source
<1> HIDE DEF p
<1>8. /\ RowsHold(after) /\ \A e \in Day : e # d => after[e] = table[e]
      /\ ~table[d][s].closed => SamePrice(table, after, d)
      /\ g \in Rate
      /\ Moved(table, p, f) => after = table /\ g = NoRate
      /\ ~Moved(table, p, f) => g \in DayPrice(after, d) /\ g \in DayPrice(MarkedClosed(after, d), d)
  BY <1>1, AnswerFiled
<1> HIDE DEF after, g
<1>9. RowsHold(table') /\ \A e \in Day : e # d => table'[e] = table[e]
  <2>1. RowsHold(MarkedClosed(after, d)) /\ \A e \in Day : e # d => MarkedClosed(after, d)[e] = after[e]
    BY <1>8, Marking
  <2>2. table' = table \/ table' = after \/ table' = MarkedClosed(after, d)
    BY <1>5, <1>6
  <2>3. RowsHold(table)
    BY DEF FxInv
  <2>4. QED
    BY <1>8, <2>1, <2>2, <2>3
<1>10. g = NoRate \/ g \in DayPrice(table', d)
  BY <1>5, <1>6, <1>8
<1>11. \A r \in FxReceipt :
         /\ line'[r] \in ALine /\ line'[r].asked = line[r].asked
         /\ (\A c \in Waiters(d) : call[c].for # r) => line'[r] = line[r]
         /\ (\E c \in Waiters(d) : call[c].for = r) => line'[r].typed # NoRate \/ line'[r].figure = g
  BY <1>3, <1>8, AnsweredIs
<1>12. line' \in [FxReceipt -> ALine]
  BY <1>2, <1>11
<1>13. LookupPrices(d)
  <2>1. \A r \in FxReceipt : (\E c \in Waiters(d) : call[c].for = r) => line[r].asked = d
    BY WaiterIs
  <2>2. QED
    BY <1>10, <1>11, <2>1 DEF LookupPrices
<1>14. FollowInv'
  <2>1. ASSUME NEW r \in FxReceipt \ behind', ~Looking(d), line[r].asked = d
        PROVE  /\ (\E c \in Waiters(d) : call[c].for = r) => AtPrice(table', line'[r])
               /\ AtPrice(table, line[r]) /\ line'[r] = line[r] => AtPrice(table', line[r])
    <3>1. ASSUME \E c \in Waiters(d) : call[c].for = r
          PROVE  AtPrice(table', line'[r])
      <4>1. line'[r].asked = d /\ (line'[r].typed # NoRate \/ line'[r].figure = g)
        BY <1>11, <2>1, <3>1
      <4>2. QED
        BY <1>10, <4>1 DEF AtPrice
    <3>2. ASSUME AtPrice(table, line[r])
          PROVE  AtPrice(table', line[r])
      <4>1. CASE table[d][s].closed /\ after # table
        <5>1. r \notin ToReprice(line, d)
          BY <1>4, <2>1, <4>1
        <5>2. QED
          BY <2>1, <5>1 DEF ToReprice, AtPrice
      <4>2. CASE after = table
        BY <1>6, <2>1, <3>2, <4>2
      <4>3. CASE ~table[d][s].closed
        BY <1>6, <1>8, <2>1, <3>2, <4>3, KeepPrice
      <4>4. QED
        BY <4>1, <4>2, <4>3
    <3>3. QED
      BY <3>1, <3>2
  <2>2. behind \subseteq behind'
    BY <1>4
  <2>3. QED
    BY <1>2, <1>5, <1>6, <1>9, <1>11, <1>12, <2>1, <2>2, LookedUp
<1>15. behind' \subseteq FxReceipt
  BY <1>4 DEF ToReprice, FxInv, FxTypeOK
<1>16. FxInv'
  BY <1>2, <1>5, <1>6, <1>7, <1>9, <1>12, <1>14, <1>15, AnswerTypes
<1>17. QED
  BY <1>13, <1>16

LEMMA LookupFailsKeeps ==
  ASSUME FxInv, NEW d \in Day, LookupFails(d)
  PROVE  /\ FxInv'
         /\ \A r \in FxReceipt : line'[r] = line[r] \/ line'[r].typed # NoRate \/ Unanswered(r)
<1>1. /\ call' = [c \in Caller |-> IF c \in Waiters(d) THEN NoCall ELSE call[c]]
      /\ line' = [r \in FxReceipt |-> line'[r]]
  BY DEF LookupFails, AnsweredTo
<1>2. \A r \in FxReceipt :
        \/ line'[r] = line[r] /\ \A c \in Waiters(d) : call[c].for # r
        \/ \E c \in Waiters(d) : call[c].for = r /\ Answered(d, r, call[c].hit)
  BY DEF LookupFails, AnsweredTo, Answered
<1>3. /\ behind' = behind \cup {call[c].for : c \in Waiters(d)}
      /\ UNCHANGED <<clock, live, newer, spent>>
  BY DEF LookupFails
<1>4. Looking(d) => /\ DayDone(d) /\ list' = [list EXCEPT !["close"] = ToReprice(line', d)]
                    /\ table' = MarkedClosed(table, d)
  BY DEF LookupFails, AfterLookup
<1>5. ~Looking(d) => table' = table /\ UNCHANGED <<closes, tick, list>>
  BY DEF LookupFails, AfterLookup
<1>6. RowsHold(table)
  BY DEF FxInv
<1>7. table' \in {table, MarkedClosed(table, d)}
  BY <1>4, <1>5
<1>8. RowsHold(table') /\ \A e \in Day : e # d => table'[e] = table[e]
  <2>1. CASE table' = table
    BY <1>6, <2>1
  <2>2. CASE table' = MarkedClosed(table, d)
    BY <1>6, <2>2, Marking
  <2>3. QED
    BY <1>7, <2>1, <2>2
<1>9. ASSUME NEW r \in FxReceipt
      PROVE  /\ line'[r] \in ALine /\ line'[r].asked = line[r].asked
             /\ (\A c \in Waiters(d) : call[c].for # r) => line'[r] = line[r]
             /\ line'[r] = line[r] \/ line'[r].typed # NoRate \/ Unanswered(r)
  <2>1. CASE line'[r] = line[r] /\ \A c \in Waiters(d) : call[c].for # r
    BY <2>1, LineIs DEF FxInv
  <2>2. CASE \E c \in Waiters(d) : call[c].for = r /\ Answered(d, r, call[c].hit)
    <3>1. PICK c \in Waiters(d) : call[c].for = r /\ Answered(d, r, call[c].hit)
      BY <2>2
    <3>2. c \in Caller /\ call[c] # NoCall /\ line[r].asked = d /\ call[c].hit \in Rate
      BY <3>1, WaiterIs
    <3>3. /\ line'[r] \in ALine /\ line'[r].asked = line[r].asked
          /\ line'[r] = line[r] \/ line'[r].typed # NoRate \/ line'[r].figure = call[c].hit
      BY <3>1, <3>2, AnsweredIs
    <3>4. line'[r].figure = call[c].hit => Unanswered(r)
      BY <1>7, <3>1, <3>2 DEF Unanswered
    <3>5. QED
      BY <3>1, <3>3, <3>4
  <2>3. QED
    BY <1>2, <2>1, <2>2
<1>10. line' \in [FxReceipt -> ALine]
  BY <1>1, <1>9
<1>11. FollowInv'
  <2>1. ASSUME NEW r \in FxReceipt \ behind', ~Looking(d), line[r].asked = d
        PROVE  /\ (\E c \in Waiters(d) : call[c].for = r) => AtPrice(table', line'[r])
               /\ AtPrice(table, line[r]) /\ line'[r] = line[r] => AtPrice(table', line[r])
    BY <1>3, <1>5, <2>1
  <2>2. behind \subseteq behind'
    BY <1>3
  <2>3. QED
    BY <1>1, <1>4, <1>5, <1>8, <1>9, <1>10, <2>1, <2>2, LookedUp
<1>12. behind' \subseteq FxReceipt
  <2>1. behind \subseteq FxReceipt
    BY DEF FxInv, FxTypeOK
  <2>2. QED
    BY <1>3, <2>1, WaiterIs
<1>13. newer' \subseteq Day \X Source /\ spent' \in 0..MaxAnswers
  BY <1>3 DEF FxInv, FxTypeOK
<1>14. FxInv'
  BY <1>1, <1>3, <1>4, <1>5, <1>8, <1>10, <1>11, <1>12, <1>13, AnswerTypes
<1>15. QED
  BY <1>9, <1>14

\* A published history on the days that have nothing closes none of them.
LEMMA HistoryFiled ==
  ASSUME NEW t, RowsHold(t), NEW f \in Figure, NEW E, \A d \in E : Filed(t, d) = {},
         NEW u, u = [d \in Day |-> IF d \in E THEN [t[d] EXCEPT !["ecb"] = [figure |-> f, closed |-> FALSE, priced |-> d]]
                                   ELSE t[d]]
  PROVE  RowsHold(u) /\ \A d \in Day : SamePrice(t, u, d)
<1>1. "ecb" \in Source /\ "manual" \in Source /\ f # NoRate /\ f \in Rate
  BY FxBasics DEF Source, NoRate, Rate
<1>2. t \in [Day -> [Source -> Row]]
  BY DEF RowsHold
<1>3. ASSUME NEW d \in Day, d \in E
      PROVE  /\ u[d] \in [Source -> Row] /\ u[d]["ecb"].figure = f /\ ~u[d]["ecb"].closed
             /\ \A s \in Source : s # "ecb" => u[d][s] = NoRow
  <2> DEFINE row == [figure |-> f, closed |-> FALSE, priced |-> d]
  <2>1. row \in Row /\ row.figure = f /\ ~row.closed
    BY <1>1 DEF Row, Rate
  <2>2. u[d] = [t[d] EXCEPT !["ecb"] = row]
    BY <1>3
  <2> HIDE DEF row
  <2>3. u[d] \in [Source -> Row] /\ u[d]["ecb"] = row /\ \A s \in Source : s # "ecb" => u[d][s] = t[d][s]
    BY ZenonT(30), <1>1, <1>2, <2>1, <2>2
  <2>4. \A s \in Source : t[d][s] = NoRow
    BY <1>3, RowIs DEF Filed
  <2>5. QED
    BY <2>1, <2>3, <2>4
<1>4. ASSUME NEW d \in Day, d \notin E
      PROVE  u[d] = t[d]
  BY <1>4
<1>5. NoRow.figure = NoRate /\ ~NoRow.closed
  BY DEF NoRow
<1>6. u \in [Day -> [Source -> Row]]
  <2>1. u = [d \in Day |-> u[d]]
    OBVIOUS
  <2>2. \A d \in Day : u[d] \in [Source -> Row]
    BY <1>2, <1>3, <1>4
  <2>3. QED
    BY <2>1, <2>2
<1>7. ASSUME NEW d \in Day, NEW s \in Source
      PROVE  (u[d][s].figure = NoRate => u[d][s] = NoRow) /\ (s = "manual" => ~u[d][s].closed)
  <2>1. CASE d \in E
    BY <1>1, <1>3, <1>5, <2>1
  <2>2. CASE d \notin E
    BY <1>4, <2>2 DEF RowsHold
  <2>3. QED
    BY <2>1, <2>2
<1>8. RowsHold(u)
  BY <1>1, <1>6, <1>7 DEF RowsHold
<1>9. ASSUME NEW d \in Day
      PROVE  SamePrice(t, u, d)
  <2>1. CASE d \in E
    <3>1. ~HasPrice(u, d)
      BY <1>1, <1>3, <1>5, <2>1 DEF HasPrice
    <3>2. QED
      BY <3>1 DEF SamePrice
  <2>2. CASE d \notin E
    BY <1>4, <2>2, SameDay
  <2>3. QED
    BY <2>1, <2>2
<1>10. QED
  BY <1>8, <1>9

LEMMA BackfillKeeps ==
  ASSUME FxInv, NEW f \in Figure, Backfill(f)
  PROVE  FxInv' /\ line' = line
<1> DEFINE E     == {d \in Day : d < clock.day /\ Filed(table, d) = {}}
           filed == [d \in Day |-> IF d \in E THEN [table[d] EXCEPT !["ecb"] = [figure |-> f, closed |-> FALSE, priced |-> d]]
                                   ELSE table[d]]
           y     == clock.day - 1
<1>1. RowsHold(table)
  BY DEF FxInv
<1>2. \A d \in E : Filed(table, d) = {}
  OBVIOUS
<1>3. /\ E # {} /\ table' \in {filed, MarkedClosed(filed, y)}
      /\ behind' = IF table' # filed THEN behind \cup ToReprice(line, y) ELSE behind
      /\ newer' = Fresher(E \X {"ecb"}) /\ spent < MaxAnswers /\ spent' = spent + 1
      /\ UNCHANGED <<clock, live, closes, line, tick, list, call>>
  BY DEF Backfill
<1>4. y \in Day
  <2>1. PICK d \in Day : d < clock.day
    BY <1>3
  <2>2. clock.day \in Day
    BY DEF FxInv, FxTypeOK
  <2>3. QED
    BY <2>1, <2>2, FxBasics DEF Day
<1>5. newer' \subseteq Day \X Source
  BY <1>3 DEF Fresher, Source, FxInv, FxTypeOK
<1> HIDE DEF E
<1>6. RowsHold(filed) /\ \A d \in Day : SamePrice(table, filed, d)
  BY <1>1, <1>2, HistoryFiled
<1> HIDE DEF filed, y
<1>7. RowsHold(table')
  <2>1. RowsHold(MarkedClosed(filed, y))
    BY <1>4, <1>6, Marking
  <2>2. QED
    BY <1>3, <1>6, <2>1
<1>8. FollowInv'
  <2> SUFFICES ASSUME NEW r \in FxReceipt \ OnItsWay'
               PROVE  AtPrice(table', line[r])
    BY <1>3 DEF FollowInv
  <2>1. OnItsWay \subseteq OnItsWay'
    BY <1>3 DEF OnItsWay
  <2>2. AtPrice(table, line[r]) /\ line[r].asked \in Day
    BY <2>1, LineIs DEF FxInv, FollowInv, ALine
  <2>3. AtPrice(filed, line[r])
    BY <1>6, <2>2, KeepPrice
  <2>4. CASE table' = filed
    BY <2>3, <2>4
  <2>5. CASE table' # filed /\ line[r].asked # y
    <3>1. table'[line[r].asked] = filed[line[r].asked]
      <4>1. table' = MarkedClosed(filed, y)
        BY <1>3, <2>5
      <4>2. QED
        BY <1>4, <1>6, <2>2, <2>5, <4>1, Marking
    <3>2. QED
      BY <2>3, <3>1, SameDay, KeepPrice
  <2>6. CASE table' # filed /\ line[r].asked = y
    <3>1. r \notin ToReprice(line, y)
      BY <1>3, <2>6 DEF OnItsWay
    <3>2. QED
      BY <2>6, <3>1 DEF ToReprice, AtPrice
  <2>7. QED
    BY <2>4, <2>5, <2>6
<1>9. behind' \subseteq FxReceipt
  BY <1>3 DEF ToReprice, FxInv, FxTypeOK
<1>10. FxTypeOK'
  <2>1. spent' \in 0..MaxAnswers
    BY <1>3, FxBasics DEF FxInv, FxTypeOK
  <2>2. UNCHANGED <<clock, live, closes, line, tick, list, call>>
    BY <1>3
  <2>3. QED
    BY <1>5, <1>7, <1>9, <2>1, <2>2 DEF FxInv, FxTypeOK, RowsHold
<1>11. QED
  BY <1>3, <1>7, <1>8, <1>10 DEF FxInv

-----------------------------------------------------------------------------
(* The theorems.                                                            *)

\* A receipt's new price, whoever changed it.
Prices == \A r \in FxReceipt :
  \/ line[r].on = "no" \/ line'[r].figure = line[r].figure \/ line'[r].typed # NoRate \/ line'[r].figure = NoRate
  \/ line'[r].figure \in DayPrice(table', line[r].asked) \/ Unanswered(r)

LEMMA OutcomePrices ==
  ASSUME NEW ls, NEW c \in Caller, NEW r \in FxReceipt, Outcome(ls, c, r),
         ls[r].asked = line[r].asked /\ ls[r].figure = line[r].figure,
         \A q \in FxReceipt \ {r} : ls[q] = line[q]
  PROVE  Prices
<1> SUFFICES ASSUME NEW q \in FxReceipt
             PROVE  \/ line'[q].figure = line[q].figure \/ line'[q].typed # NoRate \/ line'[q].figure = NoRate
                    \/ line'[q].figure \in DayPrice(table', line[q].asked)
  BY DEF Prices
<1>1. CASE q # r
  BY <1>1 DEF Outcome
<1>2. CASE q = r /\ PricedNow(ls, r)
  BY <1>2 DEF PricedNow
<1>3. CASE q = r /\ LeftWaiting(ls, c, r)
  BY <1>3 DEF LeftWaiting
<1>4. QED
  BY <1>1, <1>2, <1>3 DEF Outcome

LEMMA FxSteps ==
  ASSUME FxInv, [FxNext]_fxVars
  PROVE  FxInv' /\ Prices
<1>0. ASSUME line' = line
      PROVE  Prices
  BY <1>0 DEF Prices
<1>1. ASSUME NEW r \in FxReceipt, NEW d \in Day, Arrives(r, d)
      PROVE  FxInv' /\ Prices
  <2>1. FxInv'
    BY <1>1, ArrivesKeeps
  <2>2. line[r].on = "no" /\ \A q \in FxReceipt : q # r => line'[q] = line[q]
    BY <1>1, LineIs DEF Arrives, FxInv
  <2>3. QED
    BY <2>1, <2>2 DEF Prices
<1>2. ASSUME NEW r \in FxReceipt, NEW forced \in BOOLEAN, PriceReceipt(r, forced)
      PROVE  FxInv' /\ Prices
  <2>1. PICK c \in Caller : FxInv' /\ Outcome(line, c, r)
    BY <1>2, PriceReceiptKeeps
  <2>2. QED
    BY <2>1, OutcomePrices
<1>3. ASSUME NEW r \in FxReceipt, NEW f \in Figure, TypeRate(r, f)
      PROVE  FxInv' /\ Prices
  BY <1>3, TypeRateKeeps DEF Prices
<1>4. ASSUME NEW r \in FxReceipt, ClaimReceipt(r)
      PROVE  FxInv' /\ Prices
  BY <1>4, ClaimReceiptKeeps DEF Prices
<1>5. ASSUME NEW r \in FxReceipt, UnclaimReceipt(r)
      PROVE  FxInv' /\ Prices
  <2> DEFINE ls == [line EXCEPT ![r].on = "open"]
  <2>1. PICK c \in Caller : FxInv' /\ Outcome(ls, c, r)
    BY <1>5, UnclaimReceiptKeeps
  <2>2. /\ ls[r].asked = line[r].asked /\ ls[r].figure = line[r].figure
        /\ \A q \in FxReceipt \ {r} : ls[q] = line[q]
    BY LineIs DEF FxInv, ALine
  <2> HIDE DEF ls
  <2>3. QED
    BY <2>1, <2>2, OutcomePrices
<1>6. ASSUME NEW r \in FxReceipt, NEW w \in {"close", "follow"}, Walk(w, r)
      PROVE  FxInv' /\ Prices
  <2>1. PICK c \in Caller : FxInv' /\ Outcome(line, c, r)
    BY <1>6, WalkKeeps
  <2>2. QED
    BY <2>1, OutcomePrices
<1>7. ASSUME NEW d \in Day, NEW f \in Figure, SetManual(d, f)
      PROVE  FxInv' /\ Prices
  BY <1>0, <1>7, SetManualKeeps
<1>8. ASSUME NEW d \in Day, DeleteManual(d)
      PROVE  FxInv' /\ Prices
  BY <1>0, <1>8, DeleteManualKeeps
<1>9. ASSUME NEW d \in Day, NEW f \in Figure, NEW s \in {"ecb", "daily"}, LookupAnswers(d, s, f)
      PROVE  FxInv' /\ Prices
  <2>1. FxInv' /\ LookupPrices(d)
    BY <1>9, LookupAnswersKeeps
  <2>2. QED
    BY <2>1 DEF LookupPrices, Prices
<1>10. ASSUME NEW d \in Day, LookupFails(d)
       PROVE  FxInv' /\ Prices
  <2>1. FxInv' /\ \A r \in FxReceipt : line'[r] = line[r] \/ line'[r].typed # NoRate \/ Unanswered(r)
    BY <1>10, LookupFailsKeeps
  <2>2. QED
    BY <2>1 DEF Prices
<1>11. ASSUME TickMissed \/ CloseUnrefreshed \/ \E f \in Figure : CloseRefreshed(f, BoardSource)
       PROVE  FxInv' /\ Prices
  BY <1>0, <1>11, TickMissedKeeps, CloseUnrefreshedKeeps, CloseRefreshedKeeps
<1>12. ASSUME TickToday \/ TickEnds \/ Time \/ BoardAges \/ \E f \in Figure : RefreshEnds(f, BoardSource)
       PROVE  FxInv' /\ Prices
  BY <1>0, <1>12, StillKeeps
<1>13. ASSUME NEW f \in Figure, Backfill(f)
       PROVE  FxInv' /\ Prices
  BY <1>0, <1>13, BackfillKeeps
<1>14. CASE FxRestart
  BY <1>0, <1>14, FxRestartKeeps
<1>15. CASE UNCHANGED fxVars
  <2>1. UNCHANGED <<clock, live, newer, table, closes, line, tick, list, call, spent, behind>>
    BY <1>15 DEF fxVars
  <2>2. FxTypeOK' /\ OnItsWay' = OnItsWay
    BY <2>1 DEF FxInv, FxTypeOK, OnItsWay
  <2>3. QED
    BY <1>0, <2>1, <2>2 DEF FxInv, FollowInv
<1>16. QED
  BY <1>1, <1>2, <1>3, <1>4, <1>5, <1>6, <1>7, <1>8, <1>9, <1>10, <1>11, <1>12, <1>13, <1>14, <1>15 DEF FxNext

\* With nobody waiting and no walk under way, an open receipt of a day with a
\* close or an admin's rate is at that day's price (applyFx, repriceDay,
\* repriceRate), for any receipts, people, figures and days.
THEOREM FxStaysHeld == FxSpec => []FxHolds
<1>1. FxInv => FxHolds
  <2> SUFFICES ASSUME FxInv, Quiet, NEW r \in FxReceipt \ behind
               PROVE  AtPrice(table, line[r])
    BY DEF FxInv, FxHolds, FollowsTheDay, AtPrice, HasPrice
  <2>1. r \notin OnItsWay
    BY DEF Quiet, OnItsWay
  <2>2. QED
    BY <2>1 DEF FxInv, FollowInv
<1>2. FxInv /\ [FxNext]_fxVars => FxInv'
  BY FxSteps
<1>3. QED
  BY <1>1, <1>2, FxStarts, PTL DEF FxSpec

\* Whatever prices an open receipt leaves it at the day's price, or at the row
\* read before a wait nobody answered (applyFx, getRate).
THEOREM PricedStaysAsTheDaySays == FxSpec => PricedAsTheDaySays
<1>1. FxInv /\ [FxNext]_fxVars => FxInv'
  BY FxSteps
<1>2. ASSUME FxInv, [FxNext]_fxVars
      PROVE  [\A r \in FxReceipt :
                line[r].on # "no" /\ line'[r].figure # line[r].figure /\ line'[r].typed = NoRate /\ line'[r].figure # NoRate
                  => line'[r].figure \in DayPrice(table', line[r].asked) \/ Unanswered(r)]_fxVars
  <2>1. Prices
    BY <1>2, FxSteps
  <2>2. QED
    BY <2>1 DEF Prices
<1>3. QED
  BY <1>1, <1>2, FxStarts, PTL DEF FxSpec, PricedAsTheDaySays

-----------------------------------------------------------------------------
(* The records an import makes.                                              *)

\* Only a receipt to claim can be in a case, and only an import that is to run
\* again leaves a row without an expense.
RowInv ==
  \A r \in Id :
    /\ HasRow(r) => fileOf[r] \in Id
    /\ inCase[r] # NoCase => status[r] \in {"review-needed", "reviewed"}
    /\ status[r] = "pending" => r \in Import /\ doing = "queued"

\* While an attempt saves: what it has still to save is not there, what is left
\* of earlier attempts is in a case, and what it will file is a receipt to claim.
SavingInv ==
  Saving =>
    /\ attempt > 0
    /\ \A f \in toSave : status[<<f, attempt>>] = "absent"
    /\ \A s \in Import : HasRow(s) /\ s[2] # attempt => inCase[s] # NoCase

ClaimableInv ==
  /\ \A r \in claimable : status[r] \in {"review-needed", "reviewed", "deleted"}
  /\ ~FilesEarly /\ Saving => \A r \in claimable : inCase[r] = NoCase

\* No attempt has been made that is still to come.
AttemptInv == \A r \in Id : r[2] > attempt => status[r] = "absent"

IsKept(r) == status[r] \in {"review-needed", "reviewed"}
OneLive == \A r, s \in Id : r[1] = s[1] /\ IsKept(r) /\ IsKept(s) => r = s

FilingInv ==
  /\ FilingTypeOK
  /\ RowInv /\ SavingInv /\ ClaimableInv /\ AttemptInv /\ OneLive
  /\ FileKept

-----------------------------------------------------------------------------
(* What the operators give.                                                *)

\* The names of records: a file, and the attempt that made it or 0.
LEMMA IdParts == ASSUME NEW r \in Id PROVE r[1] \in File /\ r[2] \in 0..MaxAttempts
BY DEF Id

LEMMA NoCaseIsNone == NoCase \notin Case
BY DEF NoCase, Case

\* Removing rows keeps the types, takes nothing but those rows, and leaves
\* every other expense its file.
LEMMA RemovedRowsKeeps ==
  ASSUME FilingTypeOK, FileKept, NEW R \in SUBSET Id, RemovedRows(R)
  PROVE  /\ status' \in [Id -> Status] /\ inCase' \in [Id -> Case \cup {NoCase}]
         /\ fileOf' \in [Id -> Id \cup {NoId}] /\ onDisk' \subseteq Id
         /\ \A r \in R : status'[r] = "deleted" /\ inCase'[r] = NoCase
         /\ \A r \in Id \ R : status'[r] = status[r] /\ inCase'[r] = inCase[r] /\ fileOf'[r] = fileOf[r]
         /\ FileKept'
<1>1. /\ status' \in [Id -> Status] /\ inCase' \in [Id -> Case \cup {NoCase}]
      /\ fileOf' \in [Id -> Id \cup {NoId}] /\ onDisk' \subseteq Id
  BY DEF RemovedRows, FilingTypeOK, Status
<1>2. \A r \in R : status'[r] = "deleted" /\ inCase'[r] = NoCase
  BY DEF RemovedRows
<1>3. \A r \in Id \ R : status'[r] = status[r] /\ inCase'[r] = inCase[r] /\ fileOf'[r] = fileOf[r]
  BY DEF RemovedRows
<1>4. FileKept'
  <2> SUFFICES ASSUME NEW r \in Id, Expense(r)' PROVE fileOf'[r] \in onDisk'
    BY DEF FileKept
  <2>1. r \in Id \ R /\ Expense(r)
    BY <1>2, <1>3 DEF Expense, HasRow
  <2>2. fileOf[r] \in onDisk
    BY <2>1 DEF FileKept
  <2>3. fileOf[r] \notin {fileOf[t] : t \in {s \in R : \A t \in Id \ R : Expense(t) => fileOf[t] # fileOf[s]}}
    BY <2>1
  <2> QED BY <1>3, <2>1, <2>2, <2>3 DEF RemovedRows
<1> QED BY <1>1, <1>2, <1>3, <1>4

\* Taking an import back leaves of it only what a claimed case holds.
LEMMA UndoLeaves ==
  ASSUME FilingInv, UndoImport
  PROVE  /\ RemovedRows(ToUndo) /\ ToUndo \in SUBSET Import
         /\ caseStatus' \in [Case -> {"absent", "open", "claimed", "deleted"}]
         /\ \A r \in ToUndo : HasRow(r) /\ ~IsLocked(r)
         /\ \A r \in Import \ ToUndo : HasRow(r) => inCase[r] # NoCase
<1>1. RemovedRows(ToUndo) /\ ToUndo \in SUBSET Import
  BY DEF UndoImport, ToUndo, Members
<1>2. caseStatus' \in [Case -> {"absent", "open", "claimed", "deleted"}]
  BY DEF UndoImport, FilingInv, FilingTypeOK
<1>3. \A r \in ToUndo : HasRow(r) /\ ~IsLocked(r)
  BY NoCaseIsNone DEF ToUndo, Members, Expense, HasRow, IsLocked, FilingInv, FilingTypeOK, RowInv, Import
<1>4. \A r \in Import \ ToUndo : HasRow(r) => inCase[r] # NoCase
  BY NoCaseIsNone DEF ToUndo, Members, Expense, IsLocked
<1> QED BY <1>1, <1>2, <1>3, <1>4

\* While an attempt saves, the copy a record is given is there or is its own.
LEMMA CopyIsThere ==
  ASSUME FilingInv, Saving, NEW f \in toSave
  PROVE  LET r == <<f, attempt>>  copy == CopyFor(r) IN
         /\ r \in Import /\ status[r] = "absent" /\ inCase[r] = NoCase /\ r \notin claimable
         /\ copy \in Id /\ copy \in onDisk \cup {r}
<1> DEFINE r == <<f, attempt>>
<1>1. r \in Import
  BY DEF FilingInv, FilingTypeOK, SavingInv, Import, Id
<1>2. status[r] = "absent" /\ inCase[r] = NoCase /\ r \notin claimable
  BY <1>1 DEF FilingInv, SavingInv, RowInv, ClaimableInv, Import
<1>3. CASE Twins(r) = {}
  BY <1>1, <1>2, <1>3 DEF CopyFor, Import
<1>4. CASE Twins(r) # {}
  <2>1. PICK s \in Twins(r) : CopyFor(r) = fileOf[s]
    BY <1>4 DEF CopyFor
  <2>2. s \in Id /\ Expense(s)
    BY <2>1 DEF Twins, Expense, HasRow, FilingInv, RowInv, Saving
  <2>3. fileOf[s] \in onDisk /\ fileOf[s] \in Id
    BY <2>2 DEF FilingInv, FileKept, RowInv, Expense
  <2> QED BY <1>1, <1>2, <2>1, <2>3
<1> QED BY <1>1, <1>2, <1>3, <1>4

-----------------------------------------------------------------------------
(* The invariant is kept by every step.                                    *)

LEMMA FilingInvInit == FilingInit => FilingInv
<1> SUFFICES ASSUME FilingInit PROVE FilingInv
  OBVIOUS
<1>1. FilingTypeOK
  BY ClaimFilingAssumption DEF FilingInit, FilingTypeOK, Status, Case
<1>2. RowInv /\ SavingInv /\ ClaimableInv /\ AttemptInv /\ OneLive /\ FileKept
  BY DEF FilingInit, RowInv, HasRow, Expense, SavingInv, Saving, ClaimableInv, AttemptInv, OneLive, IsKept, FileKept
<1> QED BY <1>1, <1>2 DEF FilingInv

LEMMA UploadByHandKeeps == ASSUME FilingInv, NEW f \in File, UploadByHand(f) PROVE FilingInv'
<1> DEFINE r == <<f, 0>>
<1>1. r \in Id /\ r[1] = f /\ r[2] = 0 /\ r \notin Import /\ r \notin claimable
  BY ClaimFilingAssumption DEF Id, Import, UploadByHand, FilingInv, ClaimableInv
<1>2. FilingTypeOK'
  BY <1>1 DEF FilingInv, FilingTypeOK, UploadByHand, Status, caseVars, jobVars
<1>3. \A s \in Id : s # r => status'[s] = status[s] /\ fileOf'[s] = fileOf[s]
  BY <1>1 DEF UploadByHand, FilingInv, FilingTypeOK
<1>4. status'[r] = "review-needed" /\ fileOf'[r] = r /\ status[r] = "absent"
  BY <1>1 DEF UploadByHand, FilingInv, FilingTypeOK
<1>5. UNCHANGED <<inCase, caseVars, jobVars>> /\ onDisk' = onDisk \cup {r} /\ Twins(r) = {}
  BY DEF UploadByHand
<1>6. RowInv' /\ SavingInv' /\ ClaimableInv' /\ FileKept'
  <2>1. RowInv' /\ FileKept'
    BY <1>1, <1>3, <1>4, <1>5 DEF FilingInv, RowInv, FileKept, HasRow, Expense, Import, caseVars, jobVars
  <2>2. SavingInv'
    <3> SUFFICES ASSUME Saving PROVE SavingInv'
      BY <1>5 DEF SavingInv, Saving, jobVars
    <3>1. \A g \in toSave : <<g, attempt>> \in Id /\ <<g, attempt>> # r
      BY <1>1, CopyIsThere DEF Import
    <3> QED BY <1>1, <1>3, <1>5, <3>1 DEF FilingInv, SavingInv, HasRow, Import, jobVars
  <2>3. ClaimableInv'
    BY <1>1, <1>3, <1>5 DEF FilingInv, FilingTypeOK, ClaimableInv, Saving, jobVars
  <2> QED BY <2>1, <2>2, <2>3
<1>7. AttemptInv'
  BY <1>1, <1>3, <1>4, <1>5 DEF FilingInv, AttemptInv, FilingTypeOK, jobVars
<1>8. OneLive'
  BY <1>1, <1>3, <1>4, <1>5 DEF FilingInv, OneLive, IsKept, Twins, HasRow
<1> QED BY <1>2, <1>6, <1>7, <1>8 DEF FilingInv

LEMMA CheckRecordKeeps == ASSUME FilingInv, NEW r \in Id, CheckRecord(r) PROVE FilingInv'
<1>1. FilingTypeOK'
  BY DEF FilingInv, FilingTypeOK, CheckRecord, Status, caseVars, jobVars
<1>2. \A s \in Id : s # r => status'[s] = status[s]
  BY DEF CheckRecord, FilingInv, FilingTypeOK
<1>3. status'[r] = "reviewed" /\ status[r] = "review-needed"
  BY DEF CheckRecord, FilingInv, FilingTypeOK
<1>4. UNCHANGED <<inCase, fileOf, onDisk, caseVars, jobVars>>
  BY DEF CheckRecord
<1>5. RowInv' /\ SavingInv' /\ ClaimableInv' /\ AttemptInv' /\ FileKept'
  <2>1. \A s \in Id : HasRow(s)' = HasRow(s) /\ Expense(s)' = Expense(s)
    BY <1>2, <1>3 DEF HasRow, Expense
  <2>2. SavingInv'
    <3> SUFFICES ASSUME Saving PROVE SavingInv'
      BY <1>4 DEF SavingInv, Saving, jobVars
    <3>1. \A f \in toSave : <<f, attempt>> \in Id
      BY CopyIsThere DEF Import
    <3> QED BY <1>2, <1>3, <1>4, <2>1, <3>1 DEF FilingInv, SavingInv, Import, jobVars
  <2> QED BY <1>2, <1>3, <1>4, <2>1, <2>2 DEF FilingInv, RowInv, Saving, ClaimableInv, FileKept, AttemptInv,
     FilingTypeOK, caseVars, jobVars
<1>6. OneLive'
  BY <1>2, <1>3 DEF FilingInv, OneLive, IsKept
<1> QED BY <1>1, <1>5, <1>6 DEF FilingInv

\* Nothing about the records changes: only cases, or which case holds one.
LEMMA CasesOnlyKeep ==
  ASSUME FilingInv, FilingTypeOK', UNCHANGED <<status, fileOf, onDisk, jobVars>>,
         \A r \in Id : inCase'[r] = inCase[r] \/ (inCase'[r] \in Case /\ IsKept(r) /\ (FilesEarly \/ ~Saving))
  PROVE  FilingInv'
<1>1. \A r \in Id : HasRow(r)' = HasRow(r) /\ Expense(r)' = Expense(r) /\ IsKept(r)' = IsKept(r)
  BY DEF HasRow, Expense, IsKept
<1>2. RowInv'
  BY <1>1 DEF FilingInv, RowInv, IsKept, jobVars
<1>3. SavingInv'
  BY <1>1, NoCaseIsNone DEF FilingInv, SavingInv, Saving, Import, jobVars
<1>4. ClaimableInv'
  BY DEF FilingInv, FilingTypeOK, ClaimableInv, Saving, jobVars
<1>5. AttemptInv' /\ OneLive' /\ FileKept'
  BY <1>1 DEF FilingInv, AttemptInv, OneLive, FileKept, jobVars
<1> QED BY <1>2, <1>3, <1>4, <1>5 DEF FilingInv

LEMMA FileInCaseKeeps == ASSUME FilingInv, NEW r \in Id, NEW c \in Case, FileInCase(r, c) PROVE FilingInv'
<1>1. FilingTypeOK'
  BY DEF FilingInv, FilingTypeOK, FileInCase, caseVars, jobVars
<1>2. \A s \in Id : inCase'[s] = inCase[s] \/ (inCase'[s] \in Case /\ IsKept(s) /\ (FilesEarly \/ ~Saving))
  BY DEF FileInCase, FilingInv, FilingTypeOK, IsKept
<1> QED BY <1>1, <1>2, CasesOnlyKeep DEF FileInCase

\* The steps of a case: made, claimed or opened again.
LEMMA CaseStepKeeps ==
  ASSUME FilingInv, CreateCase \/ \E c \in Case : MarkClaimed(c) \/ Reopen(c)
  PROVE  FilingInv'
<1>1. UNCHANGED <<rowVars, jobVars>>
  BY DEF CreateCase, MarkClaimed, Reopen
<1>2. FilingTypeOK'
  <2>1. CASE CreateCase
    BY <2>1 DEF CreateCase, FilingInv, FilingTypeOK, Members, Import, rowVars, jobVars
  <2>2. CASE \E c \in Case : MarkClaimed(c) \/ Reopen(c)
    BY <2>2 DEF MarkClaimed, Reopen, FilingInv, FilingTypeOK, rowVars, jobVars
  <2> QED BY <2>1, <2>2
<1> QED BY <1>1, <1>2, CasesOnlyKeep DEF rowVars

LEMMA DeleteRecordKeeps == ASSUME FilingInv, NEW r \in Id, DeleteRecord(r) PROVE FilingInv'
<1>1. RemovedRows({r}) /\ UNCHANGED <<caseVars, jobVars>> /\ HasRow(r)
  BY DEF DeleteRecord, Expense
<1>2. /\ status' \in [Id -> Status] /\ inCase' \in [Id -> Case \cup {NoCase}]
      /\ fileOf' \in [Id -> Id \cup {NoId}] /\ onDisk' \subseteq Id
      /\ status'[r] = "deleted" /\ inCase'[r] = NoCase
      /\ \A s \in Id \ {r} : status'[s] = status[s] /\ inCase'[s] = inCase[s] /\ fileOf'[s] = fileOf[s]
      /\ FileKept'
  BY <1>1, RemovedRowsKeeps DEF FilingInv
<1>3. FilingTypeOK'
  BY <1>1, <1>2 DEF FilingInv, FilingTypeOK, caseVars, jobVars
<1>4. RowInv' /\ ClaimableInv'
  BY <1>1, <1>2 DEF FilingInv, FilingTypeOK, RowInv, HasRow, Saving, ClaimableInv, jobVars
<1>5. SavingInv'
  <2> SUFFICES ASSUME Saving PROVE SavingInv'
    BY <1>1 DEF SavingInv, Saving, jobVars
  <2>1. \A f \in toSave : <<f, attempt>> \in Id /\ status[<<f, attempt>>] = "absent"
    BY CopyIsThere DEF Import
  <2> QED BY <1>1, <1>2, <2>1 DEF FilingInv, SavingInv, HasRow, Import, jobVars
<1>6. AttemptInv' /\ OneLive'
  BY <1>1, <1>2 DEF FilingInv, AttemptInv, OneLive, IsKept, HasRow, jobVars
<1> QED BY <1>2, <1>3, <1>4, <1>5, <1>6 DEF FilingInv

\* Taking an import back keeps the types, leaves no row without an expense, and
\* leaves every record that is not taken as it was.
LEMMA UndoKeeps ==
  ASSUME FilingInv, UndoImport
  PROVE  /\ status' \in [Id -> Status] /\ inCase' \in [Id -> Case \cup {NoCase}]
         /\ fileOf' \in [Id -> Id \cup {NoId}] /\ onDisk' \subseteq Id
         /\ caseStatus' \in [Case -> {"absent", "open", "claimed", "deleted"}] /\ elders' = elders
         /\ FileKept' /\ OneLive'
         /\ \A r \in Id : /\ HasRow(r)' => HasRow(r) /\ fileOf'[r] = fileOf[r]
                          /\ inCase'[r] # NoCase => status'[r] \in {"review-needed", "reviewed"}
                          /\ status'[r] # "pending"
                          /\ status[r] = "absent" => status'[r] = "absent"
                          /\ status'[r] = status[r] \/ status'[r] = "deleted"
         /\ \A r \in Import : HasRow(r)' => inCase'[r] # NoCase
<1>1. /\ RemovedRows(ToUndo) /\ ToUndo \in SUBSET Import
      /\ caseStatus' \in [Case -> {"absent", "open", "claimed", "deleted"}]
      /\ \A r \in ToUndo : HasRow(r) /\ ~IsLocked(r)
      /\ \A r \in Import \ ToUndo : HasRow(r) => inCase[r] # NoCase
  BY UndoLeaves
<1>2. ToUndo \in SUBSET Id
  BY <1>1 DEF Import
<1>3. /\ status' \in [Id -> Status] /\ inCase' \in [Id -> Case \cup {NoCase}]
      /\ fileOf' \in [Id -> Id \cup {NoId}] /\ onDisk' \subseteq Id
      /\ \A r \in ToUndo : status'[r] = "deleted" /\ inCase'[r] = NoCase
      /\ \A r \in Id \ ToUndo : status'[r] = status[r] /\ inCase'[r] = inCase[r] /\ fileOf'[r] = fileOf[r]
      /\ FileKept'
  BY <1>1, <1>2, RemovedRowsKeeps DEF FilingInv
<1>4. elders' = elders
  BY DEF UndoImport
<1>5. \A r \in Id : /\ HasRow(r)' => HasRow(r) /\ fileOf'[r] = fileOf[r]
                    /\ inCase'[r] # NoCase => status'[r] \in {"review-needed", "reviewed"}
                    /\ status[r] = "absent" => status'[r] = "absent"
                    /\ status'[r] = status[r] \/ status'[r] = "deleted"
  BY <1>1, <1>3 DEF FilingInv, RowInv, HasRow
<1>6. \A r \in Id : status'[r] # "pending"
  BY <1>3 DEF FilingInv, RowInv, ToUndo
<1>7. OneLive'
  BY <1>3 DEF FilingInv, OneLive, IsKept
<1>8. \A r \in Import : HasRow(r)' => inCase'[r] # NoCase
  BY <1>1, <1>3 DEF HasRow, Import
<1> QED BY <1>1, <1>3, <1>4, <1>5, <1>6, <1>7, <1>8

LEMMA BeginKeeps == ASSUME FilingInv, Begin PROVE FilingInv'
<1>1. /\ doing = "queued" /\ attempt < MaxAttempts /\ UndoImport /\ doing' = "saving" /\ attempt' = attempt + 1
      /\ toSave' = File /\ claimable' = {} /\ startedFrom' = startedFrom
  BY DEF Begin
<1>2. attempt \in 0..MaxAttempts /\ attempt + 1 \in 0..MaxAttempts /\ attempt + 1 > 0
  BY <1>1, ClaimFilingAssumption DEF FilingInv, FilingTypeOK
<1>3. FilingTypeOK'
  BY <1>1, <1>2, UndoKeeps DEF FilingInv, FilingTypeOK
<1>4. AttemptInv'
  BY <1>1, <1>2, UndoKeeps, IdParts DEF FilingInv, AttemptInv
<1>5. SavingInv'
  <2>1. \A f \in File : status'[<<f, attempt + 1>>] = "absent"
    <3> SUFFICES ASSUME NEW f \in File PROVE status'[<<f, attempt + 1>>] = "absent"
      OBVIOUS
    <3>1. <<f, attempt + 1>> \in Id /\ <<f, attempt + 1>>[2] > attempt
      BY <1>2 DEF Id
    <3>2. status[<<f, attempt + 1>>] = "absent"
      BY <3>1 DEF FilingInv, AttemptInv
    <3> QED BY <1>1, <3>1, <3>2, UndoKeeps
  <2> QED BY <1>1, <1>2, <2>1, UndoKeeps DEF SavingInv, Import
<1>6. RowInv' /\ ClaimableInv'
  BY <1>1, UndoKeeps DEF FilingInv, RowInv, ClaimableInv
<1> QED BY <1>1, <1>3, <1>4, <1>5, <1>6, UndoKeeps DEF FilingInv

\* The import has stopped or is undone: nothing saves any more.
LEMMA TakenBackKeeps == ASSUME FilingInv, StopSaving \/ UndoDone PROVE FilingInv'
<1>1. UndoImport /\ doing' \in {"stopped", "undone"} /\ UNCHANGED <<startedFrom, attempt, toSave, claimable>>
  BY DEF StopSaving, UndoDone
<1>2. FilingTypeOK'
  BY <1>1, UndoKeeps DEF FilingInv, FilingTypeOK
<1>3. RowInv' /\ SavingInv' /\ AttemptInv'
  BY <1>1, UndoKeeps DEF FilingInv, RowInv, SavingInv, Saving, AttemptInv
<1>4. ClaimableInv'
  BY <1>1, UndoKeeps DEF FilingInv, FilingTypeOK, ClaimableInv, Saving
<1> QED BY <1>1, <1>2, <1>3, <1>4, UndoKeeps DEF FilingInv

LEMMA SaveRecordKeeps == ASSUME FilingInv, NEW f \in File, SaveRecord(f) PROVE FilingInv'
<1> DEFINE r == <<f, attempt>>  known == Twins(r) # {}  copy == CopyFor(r)
<1>1. /\ Saving /\ f \in toSave
      /\ status' = [status EXCEPT ![r] = IF known THEN "duplicate" ELSE "review-needed"]
      /\ fileOf' = [fileOf EXCEPT ![r] = copy]
      /\ onDisk' = onDisk \cup {copy}
      /\ claimable' = IF known THEN claimable ELSE claimable \cup {r}
      /\ toSave' = toSave \ {f}
      /\ UNCHANGED <<inCase, caseVars, startedFrom, attempt, doing>>
  BY DEF SaveRecord
<1>2. /\ r \in Import /\ status[r] = "absent" /\ inCase[r] = NoCase /\ r \notin claimable
      /\ copy \in Id /\ copy \in onDisk \cup {r}
  BY <1>1, CopyIsThere
<1>3. r \in Id /\ r[1] = f /\ r[2] = attempt
  BY <1>2 DEF Import
<1> HIDE DEF r, known, copy
<1>4. FilingTypeOK'
  BY <1>1, <1>2, <1>3 DEF FilingInv, FilingTypeOK, Status, caseVars
<1>5. \A s \in Id : s # r => status'[s] = status[s] /\ fileOf'[s] = fileOf[s]
  BY <1>1, <1>3 DEF FilingInv, FilingTypeOK
<1>6. /\ status'[r] = IF known THEN "duplicate" ELSE "review-needed"
      /\ fileOf'[r] = copy
  BY <1>1, <1>3 DEF FilingInv, FilingTypeOK
<1>7. RowInv' /\ FileKept'
  BY <1>1, <1>2, <1>3, <1>5, <1>6 DEF FilingInv, RowInv, FileKept, HasRow, Expense
<1>8. SavingInv'
  <2>1. \A g \in toSave' : <<g, attempt>> \in Id /\ <<g, attempt>> # r /\ g \in toSave
    BY <1>1, CopyIsThere DEF Import, r
  <2>2. \A g \in toSave' : status'[<<g, attempt>>] = "absent"
    BY <1>1, <1>5, <2>1 DEF FilingInv, SavingInv
  <2>3. \A s \in Import : HasRow(s)' /\ s[2] # attempt => inCase'[s] # NoCase
    BY <1>1, <1>3, <1>5 DEF FilingInv, SavingInv, HasRow, Import
  <2> QED BY <1>1, <2>2, <2>3 DEF FilingInv, SavingInv, Saving
<1>9. ClaimableInv'
  BY <1>1, <1>2, <1>3, <1>5, <1>6 DEF FilingInv, FilingTypeOK, ClaimableInv, Saving
<1>10. AttemptInv'
  BY <1>1, <1>3, <1>5 DEF FilingInv, FilingTypeOK, AttemptInv
<1>11. OneLive'
  BY <1>1, <1>3, <1>5, <1>6 DEF FilingInv, OneLive, IsKept, Twins, HasRow, known
<1> QED BY <1>4, <1>7, <1>8, <1>9, <1>10, <1>11 DEF FilingInv

LEMMA AsCaseKeeps == ASSUME FilingInv, AsCase PROVE FilingInv'
<1> DEFINE into == IF Editable(startedFrom) THEN startedFrom ELSE "made"
           filed == {r \in claimable : Expense(r)}
<1>1. /\ Saving /\ doing' = "done" /\ UNCHANGED <<status, fileOf, onDisk, startedFrom, attempt, toSave, claimable>>
      /\ \/ UNCHANGED <<inCase, caseVars>>
         \/ /\ inCase' = [r \in Id |-> IF r \in filed THEN into ELSE inCase[r]]
            /\ caseStatus' = [caseStatus EXCEPT ![into] = "open"]
            /\ elders' = [elders EXCEPT ![into] = IF into = "made" THEN Members ELSE @]
  BY DEF AsCase
<1>2. into \in Case
  BY DEF Editable, Case
<1>3. \A r \in filed : r \in Id /\ status[r] \in {"review-needed", "reviewed"}
  BY DEF FilingInv, FilingTypeOK, ClaimableInv, Expense, HasRow
<1>4. Members \in SUBSET Id
  BY DEF Members, Import
<1> HIDE DEF into, filed
<1>5. FilingTypeOK'
  <2>1. CASE UNCHANGED <<inCase, caseVars>>
    BY <1>1, <2>1 DEF FilingInv, FilingTypeOK, caseVars
  <2>2. CASE /\ inCase' = [r \in Id |-> IF r \in filed THEN into ELSE inCase[r]]
             /\ caseStatus' = [caseStatus EXCEPT ![into] = "open"]
             /\ elders' = [elders EXCEPT ![into] = IF into = "made" THEN Members ELSE @]
    BY <1>1, <1>2, <1>4, <2>2 DEF FilingInv, FilingTypeOK
  <2> QED BY <1>1, <2>1, <2>2
<1>6. \A r \in Id : inCase'[r] = inCase[r] \/ status[r] \in {"review-needed", "reviewed"}
  BY <1>1, <1>3 DEF caseVars
<1>7. RowInv'
  BY <1>1, <1>6 DEF FilingInv, RowInv, HasRow, Saving
<1>8. SavingInv' /\ ClaimableInv' /\ AttemptInv' /\ OneLive' /\ FileKept'
  BY <1>1 DEF FilingInv, SavingInv, Saving, ClaimableInv, AttemptInv, OneLive, IsKept, FileKept, Expense, HasRow
<1> QED BY <1>5, <1>7, <1>8 DEF FilingInv

LEMMA FilingRestartKeeps == ASSUME FilingInv, FilingRestart PROVE FilingInv'
<1>1. Saving /\ doing' = "queued" /\ UNCHANGED <<caseVars, startedFrom, attempt, toSave, claimable, inCase>>
  BY DEF FilingRestart, rowVars
<1>2. CASE UNCHANGED rowVars
  <2>1. FilingTypeOK'
    BY <1>1, <1>2 DEF FilingInv, FilingTypeOK, rowVars, caseVars
  <2>2. RowInv' /\ SavingInv' /\ ClaimableInv' /\ AttemptInv' /\ OneLive' /\ FileKept'
    BY <1>1, <1>2 DEF FilingInv, RowInv, HasRow, SavingInv, Saving, ClaimableInv, AttemptInv, OneLive, IsKept, FileKept,
       Expense, rowVars
  <2> QED BY <2>1, <2>2 DEF FilingInv
<1>3. CASE ~UNCHANGED rowVars
  <2>1. PICK f \in toSave : LET r == <<f, attempt>> IN
          /\ status' = [status EXCEPT ![r] = "pending"]
          /\ fileOf' = [fileOf EXCEPT ![r] = CopyFor(r)]
          /\ onDisk' = onDisk \cup {CopyFor(r)}
    BY <1>3 DEF FilingRestart
  <2> DEFINE r == <<f, attempt>>  copy == CopyFor(r)
  <2>2. /\ status' = [status EXCEPT ![r] = "pending"]
        /\ fileOf' = [fileOf EXCEPT ![r] = copy]
        /\ onDisk' = onDisk \cup {copy}
    BY <2>1
  <2>3. /\ r \in Import /\ status[r] = "absent" /\ inCase[r] = NoCase /\ r \notin claimable
        /\ copy \in Id /\ copy \in onDisk \cup {r}
    BY <1>1, CopyIsThere
  <2>4. r \in Id /\ r[2] = attempt
    BY <2>3 DEF Import
  <2> HIDE DEF r, copy
  <2>5. FilingTypeOK'
    BY <1>1, <2>2, <2>3, <2>4 DEF FilingInv, FilingTypeOK, Status, caseVars
  <2>6. \A s \in Id : s # r => status'[s] = status[s] /\ fileOf'[s] = fileOf[s]
    BY <2>2, <2>4 DEF FilingInv, FilingTypeOK
  <2>7. status'[r] = "pending" /\ fileOf'[r] = copy
    BY <2>2, <2>4 DEF FilingInv, FilingTypeOK
  <2>8. RowInv' /\ FileKept'
    BY <1>1, <2>2, <2>3, <2>6, <2>7 DEF FilingInv, RowInv, FileKept, HasRow, Expense, Import
  <2>9. SavingInv' /\ ClaimableInv'
    BY <1>1, <2>3, <2>6 DEF FilingInv, FilingTypeOK, SavingInv, Saving, ClaimableInv
  <2>10. AttemptInv'
    BY <1>1, <2>4, <2>6 DEF FilingInv, FilingTypeOK, AttemptInv
  <2>11. OneLive'
    BY <2>6, <2>7 DEF FilingInv, OneLive, IsKept
  <2> QED BY <2>5, <2>8, <2>9, <2>10, <2>11 DEF FilingInv
<1> QED BY <1>2, <1>3

LEMMA FilingInvKept == FilingInv /\ [FilingNext]_filingVars => FilingInv'
<1> SUFFICES ASSUME FilingInv, [FilingNext]_filingVars PROVE FilingInv'
  OBVIOUS
<1>1. CASE \E f \in File : UploadByHand(f) \/ SaveRecord(f)
  BY <1>1, UploadByHandKeeps, SaveRecordKeeps
<1>2. CASE \E r \in Id : CheckRecord(r) \/ DeleteRecord(r)
  BY <1>2, CheckRecordKeeps, DeleteRecordKeeps
<1>3. CASE CreateCase \/ \E c \in Case : MarkClaimed(c) \/ Reopen(c)
  BY <1>3, CaseStepKeeps
<1>4. CASE \E r \in Id, c \in Case : FileInCase(r, c)
  BY <1>4, FileInCaseKeeps
<1>5. CASE Begin
  BY <1>5, BeginKeeps
<1>6. CASE StopSaving \/ UndoDone
  BY <1>6, TakenBackKeeps
<1>7. CASE AsCase
  BY <1>7, AsCaseKeeps
<1>8. CASE FilingRestart
  BY <1>8, FilingRestartKeeps
<1>9. CASE UNCHANGED filingVars
  <2>1. FilingTypeOK' /\ UNCHANGED <<status, fileOf, onDisk, jobVars, inCase>>
    BY <1>9 DEF filingVars, rowVars, caseVars, jobVars, FilingInv, FilingTypeOK
  <2> QED BY <2>1, CasesOnlyKeep
<1> QED BY <1>1, <1>2, <1>3, <1>4, <1>5, <1>6, <1>7, <1>8, <1>9 DEF FilingNext

-----------------------------------------------------------------------------
(* What follows.                                                           *)

LEMMA FilingInvSuffices == FilingInv => FilingHolds
<1> SUFFICES ASSUME FilingInv PROVE FilingHolds
  OBVIOUS
<1>1. OneReceiptPerFile
  <2> SUFFICES ASSUME NEW f \in File
               PROVE  Cardinality({r \in Id : r[1] = f /\ status[r] \in {"review-needed", "reviewed"}}) <= 1
    BY DEF OneReceiptPerFile
  <2> DEFINE L == {r \in Id : r[1] = f /\ status[r] \in {"review-needed", "reviewed"}}
  <2>1. \A r, s \in L : r = s
    BY DEF FilingInv, OneLive, IsKept
  <2>2. CASE L = {}
    <3>1. Cardinality(L) = 0
      BY <2>2, FS_EmptySet
    <3> QED BY <3>1
  <2>3. CASE L # {}
    <3>1. PICK r \in L : TRUE
      BY <2>3
    <3>2. L = {r}
      BY <2>1, <3>1
    <3>3. Cardinality(L) = 1
      BY <3>2, FS_Singleton
    <3> QED BY <3>3
  <2> QED BY <2>2, <2>3
<1>2. NeverItsOwnTwin
  BY DEF FilingInv, SavingInv, NeverItsOwnTwin
<1>3. NoDuplicateFiled /\ NoHiddenRow
  BY DEF FilingInv, RowInv, NoDuplicateFiled, NoHiddenRow, Import
<1> QED BY <1>1, <1>2, <1>3 DEF FilingInv, FilingHolds

\* Whatever the owner does beside an import, and however often it runs again:
\* one receipt for each file, none called a duplicate of what its own import
\* left, no duplicate in a case, no receipt without its file and no row out of
\* sight (claims/claim-record.js, claims/claim-undo.js).
THEOREM FilingStaysHeld == FilingSpec => []FilingHolds
<1> QED BY FilingInvInit, FilingInvKept, FilingInvSuffices, PTL DEF FilingSpec

\* Where nobody files the records of a running attempt themselves, no claimed
\* case loses a receipt to an import or its undo, and no case that was there
\* before the records goes with them (claims/claim-undo.js).
THEOREM NothingElseIsTaken == ~FilesEarly /\ FilingSpec => NothingElseTaken
<1> SUFFICES ASSUME ~FilesEarly PROVE FilingSpec => NothingElseTaken
  OBVIOUS
<1>1. FilingInv /\ [FilingNext]_filingVars =>
        [\A r \in Id : IsLocked(r) /\ caseStatus'[inCase[r]] = "claimed" => inCase'[r] = inCase[r]]_filingVars
  <2> SUFFICES ASSUME FilingInv, [FilingNext]_filingVars, NEW r \in Id, IsLocked(r)
               PROVE  inCase'[r] = inCase[r]
    OBVIOUS
  <2>1. ASSUME RemovedRows(ToUndo), UndoImport PROVE inCase'[r] = inCase[r]
    BY <2>1, UndoLeaves DEF RemovedRows
  <2>2. CASE \E f \in File : UploadByHand(f) \/ SaveRecord(f)
    BY <2>2 DEF UploadByHand, SaveRecord
  <2>3. CASE \E s \in Id : CheckRecord(s) \/ DeleteRecord(s)
    BY <2>3 DEF CheckRecord, DeleteRecord, RemovedRows
  <2>4. CASE CreateCase \/ \E c \in Case : MarkClaimed(c) \/ Reopen(c)
    BY <2>4 DEF CreateCase, MarkClaimed, Reopen, rowVars
  <2>5. CASE \E s \in Id, c \in Case : FileInCase(s, c)
    BY <2>5 DEF FileInCase, FilingInv, FilingTypeOK
  <2>6. CASE Begin \/ StopSaving \/ UndoDone
    BY <2>1, <2>6 DEF Begin, StopSaving, UndoDone, UndoImport
  <2>7. CASE AsCase
    <3>1. r \notin claimable
      BY <2>7, NoCaseIsNone DEF AsCase, FilingInv, ClaimableInv, IsLocked
    <3> QED BY <2>7, <3>1 DEF AsCase
  <2>8. CASE FilingRestart
    BY <2>8 DEF FilingRestart, rowVars
  <2>9. CASE UNCHANGED filingVars
    BY <2>9 DEF filingVars, rowVars
  <2> QED BY <2>2, <2>3, <2>4, <2>5, <2>6, <2>7, <2>8, <2>9 DEF FilingNext
<1>2. FilingInv /\ [FilingNext]_filingVars =>
        [\A c \in Case : caseStatus[c] = "open" /\ elders[c] = {} => caseStatus'[c] # "deleted"]_filingVars
  <2> SUFFICES ASSUME FilingInv, [FilingNext]_filingVars, NEW c \in Case, caseStatus[c] = "open", elders[c] = {}
               PROVE  caseStatus'[c] # "deleted"
    OBVIOUS
  <2>1. ASSUME UndoImport PROVE caseStatus'[c] # "deleted"
    BY <2>1 DEF UndoImport, GoesToo
  <2>2. CASE \E f \in File : UploadByHand(f) \/ SaveRecord(f)
    BY <2>2 DEF UploadByHand, SaveRecord, caseVars
  <2>3. CASE \E s \in Id : CheckRecord(s) \/ DeleteRecord(s)
    BY <2>3 DEF CheckRecord, DeleteRecord, caseVars
  <2>4. CASE CreateCase \/ \E d \in Case : MarkClaimed(d) \/ Reopen(d)
    BY <2>4 DEF CreateCase, MarkClaimed, Reopen, FilingInv, FilingTypeOK
  <2>5. CASE \E s \in Id, d \in Case : FileInCase(s, d)
    BY <2>5 DEF FileInCase, caseVars
  <2>6. CASE Begin \/ StopSaving \/ UndoDone
    BY <2>1, <2>6 DEF Begin, StopSaving, UndoDone
  <2>7. CASE AsCase
    BY <2>7 DEF AsCase, FilingInv, FilingTypeOK, caseVars
  <2>8. CASE FilingRestart
    BY <2>8 DEF FilingRestart, caseVars
  <2>9. CASE UNCHANGED filingVars
    BY <2>9 DEF filingVars, caseVars
  <2> QED BY <2>2, <2>3, <2>4, <2>5, <2>6, <2>7, <2>8, <2>9 DEF FilingNext
<1> QED BY <1>1, <1>2, FilingInvInit, FilingInvKept, PTL
        DEF FilingSpec, NothingElseTaken, ClaimedCaseKeepsReceipts, OlderCaseStays

-----------------------------------------------------------------------------
(* The limiter in front of the model.                                      *)

\* What stands at some places of a sequence, in order, is a sequence of the same things.
LEMMA InOrderIs ==
  ASSUME NEW T, NEW L \in Seq(T), NEW S \in SUBSET (DOMAIN L)
  PROVE  InOrder(L, S) \in Seq(T)
<1>1. S \subseteq 1..Len(L) /\ S \in SUBSET Nat
  OBVIOUS
<1>2. IsFiniteSet(S) /\ Cardinality(S) \in Nat
  <2>1. IsFiniteSet(1..Len(L))
    BY FS_Interval
  <2> QED BY <2>1, <1>1, FS_Subset, FS_CardinalityType
<1>3. ASSUME NEW n \in 1..Cardinality(S)
      PROVE  L[CHOOSE i \in S : Cardinality({j \in S : j < i}) = n - 1] \in T
  <2>1. n - 1 \in Nat /\ n - 1 < Cardinality(S)
    BY <1>2
  <2>2. \E i \in S : Cardinality({j \in S : j < i}) = n - 1
    BY <2>1, <1>1, <1>2, RankTaken
  <2>3. (CHOOSE i \in S : Cardinality({j \in S : j < i}) = n - 1) \in S
    BY <2>2
  <2> QED BY <2>3, <1>1
<1> DEFINE e(n) == L[CHOOSE i \in S : Cardinality({j \in S : j < i}) = n - 1]
<1>4. InOrder(L, S) = [n \in 1..Cardinality(S) |-> e(n)]
  BY DEF InOrder
<1>5. \A n \in 1..Cardinality(S) : e(n) \in T
  BY <1>3
<1> HIDE DEF e
<1> QED BY <1>2, <1>4, <1>5

\* The least of some places, as it is chosen.
LEMMA LeastChosen ==
  ASSUME NEW S \in SUBSET Nat, S # {}
  PROVE  LET i == CHOOSE i \in S : \A j \in S : i <= j IN i \in S /\ \A j \in S : i <= j
BY LeastOfSome

\* Two sequences one after the other.
LEMMA OneAfterOther ==
  ASSUME NEW T, NEW s \in Seq(T), NEW u \in Seq(T)
  PROVE  s \o u \in Seq(T) /\ (s # <<>> => s \o u # <<>>)
OBVIOUS

LEMMA PutOffIs ==
  ASSUME NEW cooling, NEW L \in Seq(Entry) PROVE PutOff(cooling, L) \in Seq(Entry)
<1> DEFINE hot == InOrder(L, {i \in DOMAIN L : L[i].pair \notin cooling})
<1>1. hot \in Seq(Entry)
  BY InOrderIs
<1>2. PutOff(cooling, L) = [i \in DOMAIN hot |-> [hot[i] EXCEPT !.late = TRUE]]
  BY DEF PutOff
<1> HIDE DEF hot
<1>3. \A i \in DOMAIN hot : [hot[i] EXCEPT !.late = TRUE] \in Entry
  <2>1. \A e \in Entry : [e EXCEPT !.late = TRUE] \in Entry
    BY DEF Entry
  <2>2. \A i \in DOMAIN hot : hot[i] \in Entry
    BY <1>1
  <2> QED BY <2>1, <2>2
<1> QED BY <1>1, <1>2, <1>3

LEMMA DemotedIs ==
  ASSUME NEW m, NEW L \in Seq(Entry) PROVE Demoted(L, m) \in Seq(Entry)
<1> DEFINE same == {i \in DOMAIN L : L[i].pair.model = m}
<1>1. InOrder(L, DOMAIN L \ same) \in Seq(Entry) /\ InOrder(L, same) \in Seq(Entry)
  BY InOrderIs
<1> QED BY <1>1, OneAfterOther DEF Demoted

\* What a request asks next is one of the pairs it had left, and there is one
\* when one of them can be asked now.
LEMMA AdvanceIs ==
  ASSUME NEW cooling, NEW L \in Seq(Entry)
  PROVE  /\ Advance(cooling, L) \in Seq(Entry)
         /\ Usable(cooling, L) # {} => Advance(cooling, L) # <<>>
<1> DEFINE ok == Usable(cooling, L)
<1>1. CASE ok = {}
  BY <1>1, PutOffIs DEF Advance
<1>2. CASE ok # {}
  <2> DEFINE i == CHOOSE i \in ok : \A j \in ok : i <= j
  <2>1. ok \in SUBSET Nat /\ ok \subseteq 1..Len(L)
    BY DEF Usable
  <2>2. i \in ok
    <3> HIDE DEF ok
    <3> QED BY <2>1, <1>2, LeastChosen
  <2>3. i \in 1..Len(L)
    BY <2>1, <2>2
  <2> DEFINE rest == SubSeq(L, i, Len(L))
             past == SubSeq(L, 1, i - 1)
  <2>4. Advance(cooling, L) = rest \o PutOff(cooling, past)
    BY <1>2 DEF Advance
  <2> HIDE DEF i
  <2>5. rest \in Seq(Entry) /\ rest # <<>>
    <3>1. rest \in Seq(Entry) /\ Len(rest) = Len(L) - i + 1
      BY <2>3
    <3>2. Len(rest) > 0
      BY <3>1, <2>3
    <3> HIDE DEF rest
    <3>3. Len(<<>>) = 0
      OBVIOUS
    <3> QED BY <3>1, <3>2, <3>3
  <2>6. past \in Seq(Entry)
    BY <2>3
  <2> HIDE DEF rest, past
  <2>7. PutOff(cooling, past) \in Seq(Entry)
    BY <2>6, PutOffIs
  <2> QED BY <2>4, <2>5, <2>7, OneAfterOther
<1> QED BY <1>1, <1>2

LEMMA PlaceOf ==
  ASSUME NEW K \in Nat \ {0}, NEW M \in Nat \ {0}, NEW a \in 1..K, NEW b \in 1..M
  PROVE  LET i == (b - 1) * K + a IN
         i \in 1..(K * M) /\ (i - 1) % K = a - 1 /\ (i - 1) \div K = b - 1
OBVIOUS

LEMMA PlaceParts ==
  ASSUME NEW K \in Nat \ {0}, NEW M \in Nat \ {0}, NEW i \in 1..(K * M)
  PROVE  ((i - 1) % K) + 1 \in 1..K /\ ((i - 1) \div K) + 1 \in 1..M
OBVIOUS

\* The pairs are every key with every model.
LEMMA PairsAre ==
  ASSUME PoolAssumption
  PROVE  Pairs \in Seq(Entry) /\ \A p \in Pair : \E i \in DOMAIN Pairs : Pairs[i].pair = p
<1> DEFINE K == Len(Keys)
           M == Len(Models)
           at(i) == [pair |-> [key |-> Keys[((i - 1) % K) + 1], model |-> Models[((i - 1) \div K) + 1]], late |-> FALSE]
<1>1. /\ K \in Nat \ {0} /\ M \in Nat \ {0} /\ K * M \in Nat
      /\ DOMAIN Keys = 1..K /\ DOMAIN Models = 1..M
  BY PoolAssumption DEF PoolAssumption
<1>2. Pairs = [i \in 1..(K * M) |-> at(i)]
  BY DEF Pairs
<1>3. \A i \in 1..(K * M) : at(i) \in Entry
  <2> SUFFICES ASSUME NEW i \in 1..(K * M) PROVE at(i) \in Entry
    OBVIOUS
  <2>1. ((i - 1) % K) + 1 \in 1..K /\ ((i - 1) \div K) + 1 \in 1..M
    BY <1>1, PlaceParts
  <2>2. Keys[((i - 1) % K) + 1] \in Range(Keys) /\ Models[((i - 1) \div K) + 1] \in Range(Models)
    BY <1>1, <2>1 DEF Range
  <2> QED BY <2>2 DEF Entry, Pair
<1>4. ASSUME NEW p \in Pair PROVE \E i \in 1..(K * M) : at(i).pair = p
  <2>1. PICK a \in 1..K, b \in 1..M : p = [key |-> Keys[a], model |-> Models[b]]
    BY <1>1 DEF Pair, Range
  <2> DEFINE i == (b - 1) * K + a
  <2>2. i \in 1..(K * M) /\ (i - 1) % K = a - 1 /\ (i - 1) \div K = b - 1
    BY SMTT(20), <1>1, PlaceOf
  <2>3. ((i - 1) % K) + 1 = a /\ ((i - 1) \div K) + 1 = b
    BY <2>2
  <2> HIDE DEF i
  <2>4. at(i).pair = p
    BY <2>1, <2>3
  <2> QED BY <2>2, <2>4
<1> HIDE DEF at, K, M
<1>5. DOMAIN Pairs = 1..(K * M) /\ \A i \in 1..(K * M) : Pairs[i] = at(i)
  BY <1>2
<1>6. Pairs \in Seq(Entry)
  BY <1>1, <1>2, <1>3
<1> QED BY <1>4, <1>5, <1>6

\* With a pair to go to, a request asks one.
LEMMA OneToAsk ==
  ASSUME PoolTypeOK, CanGo
  PROVE  Advance(cool, Pairs) \in Seq(Entry) \ {<<>>}
<1>1. PICK p \in Pair : p \notin cool /\ HasRoom(p.key)
  BY DEF CanGo
<1>2. PICK i \in DOMAIN Pairs : Pairs[i].pair = p
  BY PairsAre, PoolAssumption
<1>3. Usable(cool, Pairs) # {}
  BY <1>1, <1>2 DEF Usable
<1> QED BY <1>3, AdvanceIs, PairsAre, PoolAssumption

\* One comes into a queue at a place, and the others stay as they stand.
LEMMA PutIn ==
  ASSUME NEW T, NEW q \in Seq(T), IsInjective(q), NEW r \in T, r \notin Range(q), NEW k \in 1..(Len(q) + 1)
  PROVE  LET s == SubSeq(q, 1, k - 1) \o <<r>> \o SubSeq(q, k, Len(q)) IN
         s \in Seq(T) /\ IsInjective(s) /\ Range(s) = Range(q) \cup {r}
<1> DEFINE a == SubSeq(q, 1, k - 1)
           c == SubSeq(q, k, Len(q))
           s == a \o <<r>> \o c
<1>a. a \in Seq(T) /\ Len(a) = k - 1 /\ \A i \in 1..(k - 1) : a[i] = q[i]
  OBVIOUS
<1>c. c \in Seq(T) /\ Len(c) = Len(q) - k + 1 /\ \A i \in 1..(Len(q) - k + 1) : c[i] = q[k + i - 1]
  OBVIOUS
<1> HIDE DEF a, c
<1>1. s \in Seq(T) /\ Len(s) = Len(q) + 1
  BY <1>a, <1>c
<1>2. \A i \in 1..Len(s) : s[i] = IF i < k THEN q[i] ELSE IF i = k THEN r ELSE q[i - 1]
  <2> SUFFICES ASSUME NEW i \in 1..Len(s) PROVE s[i] = IF i < k THEN q[i] ELSE IF i = k THEN r ELSE q[i - 1]
    OBVIOUS
  <2>1. CASE i < k
    BY <2>1, <1>a, <1>c, <1>1
  <2>2. CASE i = k
    BY <2>2, <1>a, <1>c, <1>1
  <2>3. CASE i > k
    <3>1. s[i] = c[i - k] /\ i - k \in 1..(Len(q) - k + 1)
      BY <2>3, <1>a, <1>c, <1>1
    <3>2. c[i - k] = q[k + (i - k) - 1]
      BY <3>1, <1>c
    <3> QED BY SMTT(20), <3>1, <3>2, <2>3
  <2> QED BY <2>1, <2>2, <2>3, <1>1
<1> HIDE DEF s
<1>3. \A i \in 1..Len(q) : q[i] # r
  BY DEF Range
<1>4. \A i, j \in 1..Len(q) : q[i] = q[j] => i = j
  BY DEF IsInjective
<1>5. IsInjective(s)
  <2> SUFFICES ASSUME NEW i \in 1..Len(s), NEW j \in 1..Len(s), s[i] = s[j] PROVE i = j
    BY <1>1 DEF IsInjective
  <2> DEFINE was(n) == IF n < k THEN n ELSE n - 1
  <2>1. \A n \in 1..Len(s) : n # k => was(n) \in 1..Len(q) /\ s[n] = q[was(n)]
    BY <1>1, <1>2
  <2>a. s[k] = r
    BY <1>1, <1>2
  <2>b. \A n \in 1..Len(s) : n # k => s[n] # r
    <3> HIDE DEF was
    <3> QED BY <2>1, <1>3
  <2>2. (i = k <=> s[i] = r) /\ (j = k <=> s[j] = r)
    BY <2>a, <2>b
  <2>3. CASE i # k /\ j # k
    <3>1. was(i) = was(j)
      BY <2>1, <2>3, <1>4
    <3> QED BY <3>1, <2>3, <1>1
  <2> QED BY <2>2, <2>3
<1>6. Range(s) \subseteq Range(q) \cup {r}
  <2> SUFFICES ASSUME NEW i \in 1..Len(s) PROVE s[i] = r \/ \E j \in 1..Len(q) : s[i] = q[j]
    BY <1>1 DEF Range
  <2>1. CASE i < k
    BY <2>1, <1>2, <1>1
  <2>2. CASE i = k
    BY <2>2, <1>2
  <2>3. CASE i > k
    <3>1. s[i] = q[i - 1] /\ i - 1 \in 1..Len(q)
      BY <2>3, <1>2, <1>1
    <3> QED BY <3>1
  <2> QED BY <2>1, <2>2, <2>3, <1>1
<1>7. Range(q) \cup {r} \subseteq Range(s)
  <2>1. s[k] = r /\ k \in 1..Len(s)
    BY <1>1, <1>2
  <2>2. ASSUME NEW i \in 1..Len(q) PROVE \E j \in 1..Len(s) : s[j] = q[i]
    <3>1. CASE i < k
      BY <3>1, <1>1, <1>2
    <3>2. CASE i >= k
      <4>1. i + 1 \in 1..Len(s) /\ s[i + 1] = q[i]
        BY <3>2, <1>1, <1>2
      <4> QED BY <4>1
    <3> QED BY <3>1, <3>2
  <2> QED BY <2>1, <2>2, <1>1 DEF Range
<1> QED BY <1>1, <1>5, <1>6, <1>7 DEF s, a, c

\* One leaves a queue from its place, and the others stay as they stand.
LEMMA TakenOut ==
  ASSUME NEW T, NEW q \in Seq(T), IsInjective(q), NEW k \in 1..Len(q)
  PROVE  LET s == SubSeq(q, 1, k - 1) \o SubSeq(q, k + 1, Len(q)) IN
         s \in Seq(T) /\ IsInjective(s) /\ Range(s) = Range(q) \ {q[k]}
<1> DEFINE a == SubSeq(q, 1, k - 1)
           c == SubSeq(q, k + 1, Len(q))
           s == a \o c
           was(n) == IF n < k THEN n ELSE n + 1
<1>a. a \in Seq(T) /\ Len(a) = k - 1 /\ \A i \in 1..(k - 1) : a[i] = q[i]
  OBVIOUS
<1>c. c \in Seq(T) /\ Len(c) = Len(q) - k /\ \A i \in 1..(Len(q) - k) : c[i] = q[k + i]
  OBVIOUS
<1> HIDE DEF a, c
<1>1. s \in Seq(T) /\ Len(s) = Len(q) - 1
  <2>0. a \in Seq(T) /\ c \in Seq(T)
    BY <1>a, <1>c
  <2>1. s \in Seq(T) /\ Len(s) = Len(a) + Len(c)
    BY <2>0
  <2>2. Len(q) \in Nat
    OBVIOUS
  <2> QED BY <2>1, <2>2, <1>a, <1>c
<1>2. \A n \in 1..Len(s) : was(n) \in 1..Len(q) /\ was(n) # k /\ s[n] = q[was(n)]
  <2> SUFFICES ASSUME NEW n \in 1..Len(s) PROVE was(n) \in 1..Len(q) /\ was(n) # k /\ s[n] = q[was(n)]
    OBVIOUS
  <2>1. CASE n < k
    BY <2>1, <1>a, <1>c, <1>1
  <2>2. CASE n >= k
    <3>1. s[n] = c[n - (k - 1)] /\ n - (k - 1) \in 1..(Len(q) - k)
      BY <2>2, <1>a, <1>c, <1>1
    <3>2. c[n - (k - 1)] = q[k + (n - (k - 1))]
      BY <3>1, <1>c
    <3> QED BY <3>1, <3>2, <2>2, <1>1
  <2> QED BY <2>1, <2>2, <1>1
<1> HIDE DEF s
<1>4. \A i, j \in 1..Len(q) : q[i] = q[j] => i = j
  BY DEF IsInjective
<1>5. IsInjective(s)
  <2> SUFFICES ASSUME NEW i \in 1..Len(s), NEW j \in 1..Len(s), s[i] = s[j] PROVE i = j
    BY <1>1 DEF IsInjective
  <2>1. was(i) = was(j)
    <3> HIDE DEF was
    <3> QED BY <1>2, <1>4
  <2> QED BY <2>1, <1>1
<1>6. Range(s) \subseteq Range(q) \ {q[k]}
  <2> SUFFICES ASSUME NEW n \in 1..Len(s) PROVE s[n] # q[k] /\ \E j \in 1..Len(q) : s[n] = q[j]
    BY <1>1 DEF Range
  <2> HIDE DEF was
  <2> QED BY <1>2, <1>4
<1>7. Range(q) \ {q[k]} \subseteq Range(s)
  <2>1. ASSUME NEW i \in 1..Len(q), i # k PROVE \E j \in 1..Len(s) : s[j] = q[i]
    <3> DEFINE j == IF i < k THEN i ELSE i - 1
    <3>1. j \in 1..Len(s) /\ was(j) = i
      BY <2>1, <1>1
    <3> HIDE DEF j, was
    <3> QED BY <3>1, <1>2
  <2> QED BY <2>1, <1>1 DEF Range
<1> QED BY <1>1, <1>5, <1>6, <1>7 DEF s, a, c

LEMMA HeadLeaves ==
  ASSUME NEW T, NEW q \in Seq(T), IsInjective(q), q # <<>>
  PROVE  Tail(q) \in Seq(T) /\ IsInjective(Tail(q)) /\ Range(Tail(q)) = Range(q) \ {Head(q)} /\ Head(q) \in Range(q)
<1>1. 1 \in 1..Len(q) /\ Head(q) = q[1] /\ Head(q) \in Range(q)
  BY DEF Range
<1>2. Tail(q) = SubSeq(q, 1, 1 - 1) \o SubSeq(q, 1 + 1, Len(q))
  OBVIOUS
<1> DEFINE k == 1
<1>3. k \in 1..Len(q) /\ Tail(q) = SubSeq(q, 1, k - 1) \o SubSeq(q, k + 1, Len(q)) /\ Head(q) = q[k] /\ Head(q) \in Range(q)
  BY <1>1, <1>2
<1> HIDE DEF k
<1> DEFINE s == SubSeq(q, 1, k - 1) \o SubSeq(q, k + 1, Len(q))
<1>4. s \in Seq(T) /\ IsInjective(s) /\ Range(s) = Range(q) \ {q[k]}
  BY <1>3, TakenOut
<1> QED BY <1>3, <1>4

LEMMA JoinedIs ==
  ASSUME PoolTypeOK, NEW r \in PoolRequest, state[r] = "new"
  PROVE  Joined(r) \in Seq(PoolRequest) /\ IsInjective(Joined(r)) /\ Range(Joined(r)) = Range(queue) \cup {r}
<1>0. queue \in Seq(PoolRequest) /\ IsInjective(queue) /\ r \notin Range(queue)
  BY DEF PoolTypeOK
<1> DEFINE reads == {i \in DOMAIN queue : queue[i] \in Reading}
           first == CHOOSE i \in reads : \A j \in reads : i <= j
           put(k) == SubSeq(queue, 1, k - 1) \o <<r>> \o SubSeq(queue, k, Len(queue))
<1>1. PICK k \in 1..(Len(queue) + 1) : Joined(r) = put(k)
  <2>1. CASE r \in Reading \/ reads = {}
    <3>1. Append(queue, r) = put(Len(queue) + 1)
      BY <1>0
    <3>2. Len(queue) + 1 \in 1..(Len(queue) + 1)
      BY <1>0
    <3> QED BY <2>1, <3>1, <3>2 DEF Joined
  <2>2. CASE ~(r \in Reading \/ reads = {})
    <3>1. reads \in SUBSET Nat /\ reads \subseteq 1..Len(queue)
      BY <1>0
    <3>2. first \in reads
      <4> HIDE DEF reads
      <4> QED BY <3>1, <2>2, LeastChosen
    <3>3. first \in 1..(Len(queue) + 1)
      BY <3>1, <3>2
    <3>4. Joined(r) = put(first)
      BY <2>2 DEF Joined
    <3> HIDE DEF first
    <3> QED BY <3>3, <3>4
  <2> QED BY <2>1, <2>2
<1> QED BY <1>0, <1>1, PutIn

LEMMA WithoutIs ==
  ASSUME PoolTypeOK, NEW r \in PoolRequest, state[r] = "queued"
  PROVE  Without(r) \in Seq(PoolRequest) /\ IsInjective(Without(r)) /\ Range(Without(r)) = Range(queue) \ {r}
<1>0. queue \in Seq(PoolRequest) /\ IsInjective(queue) /\ r \in Range(queue)
  BY DEF PoolTypeOK
<1> DEFINE at == CHOOSE i \in DOMAIN queue : queue[i] = r
<1>1. \E i \in DOMAIN queue : queue[i] = r
  BY <1>0 DEF Range
<1>2. at \in 1..Len(queue) /\ queue[at] = r
  BY <1>0, <1>1
<1>3. Without(r) = SubSeq(queue, 1, at - 1) \o SubSeq(queue, at + 1, Len(queue))
  BY DEF Without
<1> HIDE DEF at
<1> QED BY <1>0, <1>2, <1>3, TakenOut

-----------------------------------------------------------------------------
\* Only finitely many calls run, and what a person reads of an attempt ends it.
PoolInv ==
  /\ PoolHolds
  /\ IsFiniteSet(RunningNow)
  /\ \A p \in Asker : shown[p] > 0 => state[p] \in {"answered", "failed"}

PoolState == {"new", "queued", "running", "answered", "failed"}

LEMMA NobodyIsNoPair == Nobody \notin Pair
<1>1. "model" \notin DOMAIN Nobody
  BY DEF Nobody
<1>2. \A p \in Pair : "model" \in DOMAIN p
  BY DEF Pair
<1> QED BY <1>1, <1>2

LEMMA PoolStarts == PoolInit => PoolInv
<1> SUFFICES ASSUME PoolInit PROVE PoolInv
  OBVIOUS
<1> USE DEF PoolInit
<1>1. RunningNow = {}
  BY DEF RunningNow
<1>2. IsFiniteSet(RunningNow) /\ Cardinality(RunningNow \cap Reading) = 0
  BY <1>1, FS_EmptySet
<1>3. Nobody \notin Pair
  BY NobodyIsNoPair
<1>4. PoolTypeOK
  <2>1. queue \in Seq(PoolRequest) /\ IsInjective(queue) /\ Range(queue) = {}
    BY DEF IsInjective, Range
  <2>2. left \in [PoolRequest -> Seq(Entry)] /\ asking \in [PoolRequest -> Pair \cup {Nobody}]
    OBVIOUS
  <2>3. state \in [PoolRequest -> PoolState] /\ \A r \in PoolRequest : state[r] = "new"
    BY DEF PoolState
  <2>4. \A r \in PoolRequest : asking[r] \in Pair <=> state[r] = "running"
    BY <1>3
  <2>5. sent \in [Range(Keys) -> Nat] /\ shown \in [Asker -> Nat]
    OBVIOUS
  <2> QED BY <2>1, <2>2, <2>3, <2>4, <2>5 DEF PoolTypeOK, PoolState
<1>5. NoneForgotten /\ ShownOnce
  BY DEF NoneForgotten, ShownOnce
<1>6. SlotForAPerson
  BY <1>2, PoolAssumption DEF SlotForAPerson, PoolAssumption
<1> QED BY <1>2, <1>4, <1>5, <1>6 DEF PoolInv, PoolHolds

\* A call that goes no further takes nobody's slot.
LEMMA FewerRun ==
  ASSUME PoolInv, RunningNow' \subseteq RunningNow
  PROVE  IsFiniteSet(RunningNow)' /\ SlotForAPerson'
<1>1. IsFiniteSet(RunningNow') /\ IsFiniteSet(RunningNow \cap Reading) /\ IsFiniteSet(RunningNow' \cap Reading)
  BY FS_Subset DEF PoolInv
<1>2. /\ Cardinality(RunningNow' \cap Reading) <= Cardinality(RunningNow \cap Reading)
      /\ Cardinality(RunningNow' \cap Reading) \in Nat /\ Cardinality(RunningNow \cap Reading) \in Nat
  BY <1>1, FS_Subset, FS_CardinalityType
<1>3. MaxConcurrent \in Nat
  BY PoolAssumption DEF PoolAssumption
<1> QED BY <1>1, <1>2, <1>3 DEF PoolInv, PoolHolds, SlotForAPerson

\* What is left of a running request r whose call has come back.
Left(r, x) ==
  /\ state' = [state EXCEPT ![r] = x]
  /\ asking' \in [PoolRequest -> Pair \cup {Nobody}] /\ asking' = [asking EXCEPT ![r] = asking'[r]]
  /\ asking'[r] \in Pair <=> x = "running"
  /\ left' \in [PoolRequest -> Seq(Entry)]
  /\ sent' \in [Range(Keys) -> Nat]
  /\ draining' \in BOOLEAN /\ (draining' <=> x # "running")

Back == {"running", "answered", "failed"}

LEMMA OverLeaves ==
  ASSUME PoolInv, NEW r \in PoolRequest, NEW x \in {"answered", "failed"}, Over(r, x)
  PROVE  Left(r, x)
<1> USE DEF PoolInv, PoolHolds, PoolTypeOK, Over, Left
<1>1. Nobody \notin Pair
  BY NobodyIsNoPair
<1>2. asking' \in [PoolRequest -> Pair \cup {Nobody}] /\ asking' = [asking EXCEPT ![r] = asking'[r]] /\ asking'[r] = Nobody
  OBVIOUS
<1>3. <<>> \in Seq(Entry)
  OBVIOUS
<1>4. left' \in [PoolRequest -> Seq(Entry)]
  BY <1>3
<1> QED BY <1>1, <1>2, <1>4

LEMMA GoesOnLeaves ==
  ASSUME PoolInv, ~draining, NEW r \in PoolRequest, NEW cooling, NEW L \in Seq(Entry), GoesOn(r, cooling, L)
  PROVE  \E x \in {"running", "failed"} : Left(r, x)
<1>1. CASE L = <<>>
  <2>1. Over(r, "failed")
    BY <1>1 DEF GoesOn, Over
  <2> QED BY <2>1, OverLeaves
<1>2. CASE L # <<>>
  <2>1. Head(L) \in Entry /\ Tail(L) \in Seq(Entry)
    BY <1>2
  <2>2. Head(L).pair \in Pair /\ Head(L).pair.key \in Range(Keys)
    BY <2>1 DEF Entry, Pair
  <2>3. /\ state' = [state EXCEPT ![r] = "running"]
        /\ asking' = [asking EXCEPT ![r] = Head(L).pair] /\ left' = [left EXCEPT ![r] = Tail(L)]
        /\ sent' = [sent EXCEPT ![Head(L).pair.key] = @ + 1]
        /\ draining' = draining
    BY <1>2 DEF GoesOn
  <2> USE DEF PoolInv, PoolHolds, PoolTypeOK
  <2>4. asking' \in [PoolRequest -> Pair \cup {Nobody}] /\ asking' = [asking EXCEPT ![r] = asking'[r]] /\ asking'[r] \in Pair
    BY <2>2, <2>3
  <2>5. left' \in [PoolRequest -> Seq(Entry)]
    BY <2>1, <2>3
  <2>6. sent' \in [Range(Keys) -> Nat]
    BY <2>2, <2>3
  <2> QED BY <2>3, <2>4, <2>5, <2>6 DEF Left
<1> QED BY <1>1, <1>2

LEMMA BackKeeps ==
  ASSUME PoolInv, NEW r \in PoolRequest, state[r] = "running", NEW x \in Back, Left(r, x),
         UNCHANGED <<queue, timer>>, cool' \subseteq Pair, retried' \subseteq PoolRequest,
         NEW n \in {0, 1}, n = 1 => x # "running" /\ r \in Asker,
         shown' = IF n = 1 THEN [shown EXCEPT ![r] = @ + 1] ELSE shown
  PROVE  PoolInv'
<1> USE DEF PoolInv, PoolHolds
<1>1. state' \in [PoolRequest -> PoolState] /\ \A q \in PoolRequest : state'[q] = IF q = r THEN x ELSE state[q]
  BY DEF PoolTypeOK, Left, Back, PoolState
<1>2. RunningNow' \subseteq RunningNow
  BY <1>1 DEF RunningNow
<1>3. shown' \in [Asker -> Nat]
  BY DEF PoolTypeOK
<1>4. \A p \in Asker : shown'[p] = IF n = 1 /\ p = r THEN shown[p] + 1 ELSE shown[p]
  BY DEF PoolTypeOK
<1>5. PoolTypeOK'
  <2>1. \A q \in PoolRequest : state'[q] = "queued" <=> state[q] = "queued"
    BY <1>1 DEF Back
  <2>2. \A q \in PoolRequest : asking'[q] \in Pair <=> state'[q] = "running"
    <3>1. \A q \in PoolRequest : q # r => asking'[q] = asking[q]
      BY DEF Left, PoolTypeOK
    <3>2. asking'[r] \in Pair <=> x = "running"
      BY DEF Left
    <3>3. \A q \in PoolRequest : asking[q] \in Pair <=> state[q] = "running"
      BY DEF PoolTypeOK
    <3> QED BY <3>1, <3>2, <3>3, <1>1
  <2>3. {q \in PoolRequest : state'[q] = "queued"} = {q \in PoolRequest : state[q] = "queued"}
    BY <2>1
  <2>4. queue' = queue /\ timer' = timer
    OBVIOUS
  <2> HIDE DEF PoolInv, PoolHolds
  <2>5. /\ queue \in Seq(PoolRequest) /\ IsInjective(queue) /\ timer \in BOOLEAN
        /\ Range(queue) = {q \in PoolRequest : state[q] = "queued"}
    BY DEF PoolTypeOK, PoolInv, PoolHolds
  <2>6. /\ asking' \in [PoolRequest -> Pair \cup {Nobody}] /\ left' \in [PoolRequest -> Seq(Entry)]
        /\ sent' \in [Range(Keys) -> Nat] /\ draining' \in BOOLEAN
    BY DEF Left
  <2> QED BY <1>1, <1>3, <2>2, <2>3, <2>4, <2>5, <2>6 DEF PoolTypeOK, PoolState
<1>6. NoneForgotten'
  <2>1. CASE x = "running"
    <3>1. r \in RunningNow'
      BY <2>1, <1>1 DEF RunningNow
    <3> QED BY <3>1 DEF NoneForgotten
  <2>2. CASE x # "running"
    BY <2>2 DEF NoneForgotten, Left
  <2> QED BY <2>1, <2>2
<1>7. IsFiniteSet(RunningNow)' /\ SlotForAPerson'
  <2> HIDE DEF PoolInv, PoolHolds
  <2> QED BY <1>2, FewerRun
<1>8. \A p \in Asker : p \in PoolRequest /\ shown[p] \in Nat
  BY DEF PoolRequest, PoolTypeOK
<1>9. ASSUME NEW p \in Asker PROVE shown'[p] <= 1 /\ (shown'[p] > 0 => state'[p] \in {"answered", "failed"})
  <2>1. CASE p = r
    <3>1. shown[p] = 0
      BY <2>1, <1>8
    <3> QED BY <3>1, <2>1, <1>1, <1>4, <1>8 DEF Back
  <2>2. CASE p # r
    BY <2>2, <1>1, <1>4, <1>8 DEF ShownOnce
  <2> QED BY <2>1, <2>2
<1> QED BY <1>5, <1>6, <1>7, <1>9 DEF ShownOnce

LEMMA AnswersKeeps == ASSUME PoolInv, NEW r \in PoolRequest, Answers(r) PROVE PoolInv'
<1>1. Left(r, "answered")
  BY OverLeaves DEF Answers
<1> DEFINE n == IF r \in Asker THEN 1 ELSE 0
<1>2. n \in {0, 1} /\ (n = 1 => r \in Asker) /\ shown' = IF n = 1 THEN [shown EXCEPT ![r] = @ + 1] ELSE shown
  BY DEF Answers
<1>3. state[r] = "running" /\ UNCHANGED <<queue, timer>> /\ cool' \subseteq Pair /\ retried' \subseteq PoolRequest
  BY DEF Answers, PoolInv, PoolHolds, PoolTypeOK
<1>4. "answered" \in Back /\ "answered" # "running"
  BY DEF Back
<1> HIDE DEF n
<1> QED BY <1>1, <1>2, <1>3, <1>4, BackKeeps

\* A call that failed: one that had written words is over.
LEMMA FailureKeeps ==
  ASSUME PoolInv, NEW r \in PoolRequest, state[r] = "running", NEW streamed \in Words(r),
         streamed => Over(r, "failed"),
         ~streamed => \E x \in {"running", "failed"} : Left(r, x),
         UNCHANGED <<queue, timer>>, cool' \subseteq Pair, retried' \subseteq PoolRequest, Read(r, streamed)
  PROVE  PoolInv'
<1>1. CASE streamed
  <2> DEFINE n == 1
  <2>1. r \in Asker /\ n \in {0, 1} /\ shown' = IF n = 1 THEN [shown EXCEPT ![r] = @ + 1] ELSE shown
    BY <1>1 DEF Words, Read
  <2>2. Left(r, "failed") /\ "failed" \in Back /\ "failed" # "running"
    BY <1>1, OverLeaves DEF Back
  <2> HIDE DEF n
  <2> QED BY <2>1, <2>2, BackKeeps
<1>2. CASE ~streamed
  <2> DEFINE n == 0
  <2>1. n \in {0, 1} /\ n # 1 /\ shown' = IF n = 1 THEN [shown EXCEPT ![r] = @ + 1] ELSE shown
    BY <1>2 DEF Read
  <2>2. PICK x \in {"running", "failed"} : Left(r, x)
    BY <1>2
  <2>3. x \in Back
    BY DEF Back
  <2> HIDE DEF n
  <2> QED BY <2>1, <2>2, <2>3, BackKeeps
<1> QED BY <1>1, <1>2

LEMMA AskedIs ==
  ASSUME PoolInv, NEW r \in PoolRequest, state[r] = "running"
  PROVE  asking[r] \in Pair /\ left[r] \in Seq(Entry) /\ cool \cup {asking[r]} \subseteq Pair
BY DEF PoolInv, PoolHolds, PoolTypeOK

LEMMA QuotaFailsKeeps ==
  ASSUME PoolInv, NEW r \in PoolRequest, NEW overloaded \in BOOLEAN, NEW streamed \in Words(r),
         QuotaFails(r, overloaded, streamed)
  PROVE  PoolInv'
<1> DEFINE rest == IF overloaded THEN Demoted(left[r], asking[r].model) ELSE left[r]
           L == Advance(cool', rest)
<1>1. /\ ~draining /\ state[r] = "running" /\ cool' = cool \cup {asking[r]} /\ Read(r, streamed)
      /\ streamed => Over(r, "failed")
      /\ ~streamed => GoesOn(r, cool', L)
      /\ UNCHANGED <<queue, timer, retried>>
  BY DEF QuotaFails
<1>2. cool' \subseteq Pair /\ left[r] \in Seq(Entry)
  BY <1>1, AskedIs
<1>3. rest \in Seq(Entry)
  BY <1>2, DemotedIs
<1>4. L \in Seq(Entry)
  <2> HIDE DEF rest
  <2> QED BY <1>3, AdvanceIs
<1> HIDE DEF L
<1>5. ~streamed => \E x \in {"running", "failed"} : Left(r, x)
  BY <1>1, <1>4, GoesOnLeaves
<1>6. retried' \subseteq PoolRequest
  BY <1>1 DEF PoolInv, PoolHolds, PoolTypeOK
<1> QED BY <1>1, <1>2, <1>5, <1>6, FailureKeeps

LEMMA TransientFailsKeeps ==
  ASSUME PoolInv, NEW r \in PoolRequest, NEW streamed \in Words(r), TransientFails(r, streamed)
  PROVE  PoolInv'
<1> DEFINE L == Advance(cool', left[r])
<1>1. /\ ~draining /\ state[r] = "running" /\ Read(r, streamed) /\ UNCHANGED <<queue, timer>>
      /\ streamed => Over(r, "failed") /\ UNCHANGED <<cool, retried>>
      /\ ~streamed => /\ cool' = cool \cup {asking[r]} /\ retried' = retried \cup {r}
                      /\ GoesOn(r, cool', L)
  BY DEF TransientFails
<1>2. cool' \subseteq Pair /\ left[r] \in Seq(Entry) /\ retried' \subseteq PoolRequest
  <2>1. cool \subseteq Pair /\ retried \subseteq PoolRequest
    BY DEF PoolInv, PoolHolds, PoolTypeOK
  <2> QED BY <1>1, <2>1, AskedIs
<1>3. L \in Seq(Entry)
  BY <1>2, AdvanceIs
<1> HIDE DEF L
<1>5. ~streamed => \E x \in {"running", "failed"} : Left(r, x)
  BY <1>1, <1>3, GoesOnLeaves
<1> QED BY <1>1, <1>2, <1>5, FailureKeeps

LEMMA CallFailsKeeps ==
  ASSUME PoolInv, NEW r \in PoolRequest, NEW streamed \in Words(r), CallFails(r, streamed)
  PROVE  PoolInv'
<1>1. state[r] = "running" /\ Over(r, "failed") /\ Read(r, streamed) /\ UNCHANGED <<queue, timer, cool, retried>>
  BY DEF CallFails
<1>2. cool' \subseteq Pair /\ retried' \subseteq PoolRequest
  BY <1>1 DEF PoolInv, PoolHolds, PoolTypeOK
<1>3. \E x \in {"running", "failed"} : Left(r, x)
  BY <1>1, OverLeaves
<1> QED BY <1>1, <1>2, <1>3, FailureKeeps

\* A request that does not run moves, in the queue or out of it.
LEMMA QueueKeeps ==
  ASSUME PoolInv, NEW r \in PoolRequest, NEW x \in {"queued", "failed"}, state[r] \in {"new", "queued"},
         state' = [state EXCEPT ![r] = x],
         queue' \in Seq(PoolRequest), IsInjective(queue'),
         Range(queue') = IF x = "queued" THEN Range(queue) \cup {r} ELSE Range(queue) \ {r},
         draining' \in BOOLEAN, draining' \/ (queue # <<>> /\ ~draining),
         UNCHANGED <<timer, cool, sent, asking, left, retried, shown>>
  PROVE  PoolInv'
<1>1. state' \in [PoolRequest -> PoolState] /\ \A q \in PoolRequest : state'[q] = IF q = r THEN x ELSE state[q]
  BY DEF PoolInv, PoolHolds, PoolTypeOK, PoolState
<1>2. RunningNow' = RunningNow
  BY <1>1 DEF RunningNow
<1>3. PoolTypeOK'
  <2>1. Range(queue') = {q \in PoolRequest : state'[q] = "queued"}
    <3>1. Range(queue) = {q \in PoolRequest : state[q] = "queued"}
      BY DEF PoolInv, PoolHolds, PoolTypeOK
    <3> QED BY <3>1, <1>1
  <2>2. \A q \in PoolRequest : asking'[q] \in Pair <=> state'[q] = "running"
    <3>1. \A q \in PoolRequest : asking[q] \in Pair <=> state[q] = "running"
      BY DEF PoolInv, PoolHolds, PoolTypeOK
    <3> QED BY <3>1, <1>1
  <2>3. /\ timer \in BOOLEAN /\ cool \subseteq Pair /\ sent \in [Range(Keys) -> Nat] /\ retried \subseteq PoolRequest
        /\ asking \in [PoolRequest -> Pair \cup {Nobody}] /\ left \in [PoolRequest -> Seq(Entry)]
        /\ shown \in [Asker -> Nat]
    BY DEF PoolInv, PoolHolds, PoolTypeOK
  <2> QED BY <1>1, <2>1, <2>2, <2>3 DEF PoolTypeOK, PoolState
<1>4. NoneForgotten'
  BY <1>2 DEF PoolInv, PoolHolds, NoneForgotten
<1>5. IsFiniteSet(RunningNow)' /\ SlotForAPerson'
  BY <1>2, FewerRun
<1>6. \A p \in Asker : shown'[p] > 0 => state'[p] \in {"answered", "failed"}
  <2>1. \A p \in Asker : p \in PoolRequest
    BY DEF PoolRequest
  <2> QED BY <2>1, <1>1 DEF PoolInv
<1> QED BY <1>3, <1>4, <1>5, <1>6 DEF PoolInv, PoolHolds, ShownOnce

LEMMA EnqueueRequestKeeps == ASSUME PoolInv, NEW r \in PoolRequest, EnqueueRequest(r) PROVE PoolInv'
<1>1. /\ state[r] = "new" /\ state' = [state EXCEPT ![r] = "queued"] /\ queue' = Joined(r) /\ draining' = TRUE
      /\ UNCHANGED <<timer, cool, sent, asking, left, retried, shown>>
  BY DEF EnqueueRequest
<1>2. queue' \in Seq(PoolRequest) /\ IsInjective(queue') /\ Range(queue') = Range(queue) \cup {r}
  BY <1>1, JoinedIs DEF PoolInv, PoolHolds
<1>3. draining' \in BOOLEAN /\ draining'
  BY <1>1
<1> DEFINE x == "queued"
<1>4. /\ x \in {"queued", "failed"} /\ state' = [state EXCEPT ![r] = x]
      /\ Range(queue') = IF x = "queued" THEN Range(queue) \cup {r} ELSE Range(queue) \ {r}
  BY <1>1, <1>2
<1> HIDE DEF x
<1>5. state[r] \in {"new", "queued"}
  BY <1>1
<1>6. draining' \in BOOLEAN /\ (draining' \/ (queue # <<>> /\ ~draining))
  BY <1>3
<1>7. queue' \in Seq(PoolRequest) /\ IsInjective(queue') /\ UNCHANGED <<timer, cool, sent, asking, left, retried, shown>>
  BY <1>1, <1>2
<1> QED BY <1>4, <1>5, <1>6, <1>7, QueueKeeps

LEMMA HeadIs ==
  ASSUME PoolInv, queue # <<>>
  PROVE  /\ Tail(queue) \in Seq(PoolRequest) /\ IsInjective(Tail(queue))
         /\ Range(Tail(queue)) = Range(queue) \ {Head(queue)} /\ state[Head(queue)] = "queued"
BY HeadLeaves DEF PoolInv, PoolHolds, PoolTypeOK

LEMMA DrainTurnsAwayKeeps == ASSUME PoolInv, NEW r \in PoolRequest, DrainTurnsAway(r) PROVE PoolInv'
<1>1. /\ draining /\ queue # <<>> /\ r = Head(queue) /\ queue' = Tail(queue)
      /\ state' = [state EXCEPT ![r] = "failed"]
      /\ UNCHANGED <<draining, timer, cool, sent, asking, left, retried, shown>>
  BY DEF DrainTurnsAway
<1>2. draining' \in BOOLEAN /\ draining'
  BY <1>1 DEF PoolInv, PoolHolds, PoolTypeOK
<1>3. queue' \in Seq(PoolRequest) /\ IsInjective(queue') /\ Range(queue') = Range(queue) \ {r} /\ state[r] = "queued"
  BY <1>1, HeadIs
<1> DEFINE x == "failed"
<1>4. /\ x \in {"queued", "failed"} /\ state' = [state EXCEPT ![r] = x]
      /\ Range(queue') = IF x = "queued" THEN Range(queue) \cup {r} ELSE Range(queue) \ {r}
  BY <1>1, <1>3
<1> HIDE DEF x
<1>5. state[r] \in {"new", "queued"}
  BY <1>1, <1>3
<1>6. draining' \in BOOLEAN /\ (draining' \/ (queue # <<>> /\ ~draining))
  BY <1>2
<1>7. queue' \in Seq(PoolRequest) /\ IsInjective(queue') /\ UNCHANGED <<timer, cool, sent, asking, left, retried, shown>>
  BY <1>1, <1>3
<1> QED BY <1>4, <1>5, <1>6, <1>7, QueueKeeps

LEMMA AbortKeeps == ASSUME PoolInv, NEW r \in PoolRequest, Abort(r) PROVE PoolInv'
<1>0. ~draining /\ UNCHANGED <<timer, cool, retried, shown>>
  BY DEF Abort
<1>1. CASE /\ state[r] = "queued" /\ state' = [state EXCEPT ![r] = "failed"] /\ queue' = Without(r)
           /\ UNCHANGED <<draining, sent, asking, left>>
  <2>1. queue' \in Seq(PoolRequest) /\ IsInjective(queue') /\ Range(queue') = Range(queue) \ {r}
    BY <1>1, WithoutIs DEF PoolInv, PoolHolds
  <2>2. queue # <<>>
    <3>1. r \in Range(queue)
      BY <1>1 DEF PoolInv, PoolHolds, PoolTypeOK
    <3> QED BY <3>1 DEF Range
  <2>3. draining' \in BOOLEAN
    BY <1>1 DEF PoolInv, PoolHolds, PoolTypeOK
  <2> QED BY <1>0, <1>1, <2>1, <2>2, <2>3, QueueKeeps
<1>2. CASE state[r] = "running" /\ Over(r, "failed") /\ UNCHANGED queue
  <2> DEFINE n == 0
  <2>1. n \in {0, 1} /\ n # 1 /\ shown' = IF n = 1 THEN [shown EXCEPT ![r] = @ + 1] ELSE shown
    BY <1>0
  <2>2. Left(r, "failed") /\ "failed" \in Back
    BY <1>2, OverLeaves DEF Back
  <2>3. cool' \subseteq Pair /\ retried' \subseteq PoolRequest
    BY <1>0 DEF PoolInv, PoolHolds, PoolTypeOK
  <2> HIDE DEF n
  <2> QED BY <1>0, <1>2, <2>1, <2>2, <2>3, BackKeeps
<1> QED BY <1>1, <1>2 DEF Abort

\* A request that is sent takes a slot that is free for it.
LEMMA DrainStartsKeeps == ASSUME PoolInv, NEW r \in PoolRequest, DrainStarts(r) PROVE PoolInv'
<1> DEFINE L == Advance(cool, Pairs)
<1>1. /\ draining /\ queue # <<>> /\ r = Head(queue) /\ SlotFor(r) /\ CanGo /\ queue' = Tail(queue)
      /\ state' = [state EXCEPT ![r] = "running"]
      /\ asking' = [asking EXCEPT ![r] = Head(L).pair] /\ left' = [left EXCEPT ![r] = Tail(L)]
      /\ sent' = [sent EXCEPT ![Head(L).pair.key] = @ + 1]
      /\ UNCHANGED <<draining, timer, cool, retried, shown>>
  BY DEF DrainStarts
<1>2. L \in Seq(Entry) /\ L # <<>>
  BY <1>1, OneToAsk DEF PoolInv, PoolHolds
<1> HIDE DEF L
<1>3. Head(L).pair \in Pair /\ Head(L).pair.key \in Range(Keys) /\ Tail(L) \in Seq(Entry)
  <2>1. Head(L) \in Entry /\ Tail(L) \in Seq(Entry)
    BY <1>2
  <2> QED BY <2>1 DEF Entry, Pair
<1>4. /\ Tail(queue) \in Seq(PoolRequest) /\ IsInjective(Tail(queue))
      /\ Range(Tail(queue)) = Range(queue) \ {r} /\ state[r] = "queued"
  BY <1>1, HeadIs
<1>5. /\ state' \in [PoolRequest -> PoolState]
      /\ \A q \in PoolRequest : state'[q] = IF q = r THEN "running" ELSE state[q]
  BY <1>1 DEF PoolInv, PoolHolds, PoolTypeOK, PoolState
<1>6. RunningNow' = RunningNow \cup {r} /\ r \notin RunningNow
  BY <1>4, <1>5 DEF RunningNow
<1>7. PoolTypeOK'
  <2>1. /\ draining \in BOOLEAN /\ timer \in BOOLEAN /\ cool \subseteq Pair /\ sent \in [Range(Keys) -> Nat]
        /\ retried \subseteq PoolRequest /\ shown \in [Asker -> Nat]
        /\ asking \in [PoolRequest -> Pair \cup {Nobody}] /\ left \in [PoolRequest -> Seq(Entry)]
        /\ \A q \in PoolRequest : asking[q] \in Pair <=> state[q] = "running"
        /\ Range(queue) = {q \in PoolRequest : state[q] = "queued"}
    BY DEF PoolInv, PoolHolds, PoolTypeOK
  <2>2. asking' \in [PoolRequest -> Pair \cup {Nobody}] /\ \A q \in PoolRequest : asking'[q] \in Pair <=> state'[q] = "running"
    BY <2>1, <1>1, <1>3, <1>5
  <2>3. left' \in [PoolRequest -> Seq(Entry)]
    BY <2>1, <1>1, <1>3
  <2>4. sent' \in [Range(Keys) -> Nat]
    BY <2>1, <1>1, <1>3
  <2>5. Range(queue') = {q \in PoolRequest : state'[q] = "queued"}
    BY <2>1, <1>1, <1>4, <1>5
  <2> QED BY <1>1, <1>4, <1>5, <2>1, <2>2, <2>3, <2>4, <2>5 DEF PoolTypeOK, PoolState
<1>8. NoneForgotten'
  BY <1>1 DEF NoneForgotten
<1>9. IsFiniteSet(RunningNow)'
  BY <1>6, FS_AddElement DEF PoolInv
<1>10. SlotForAPerson'
  <2> SUFFICES ASSUME MaxConcurrent > 1 PROVE Cardinality(RunningNow' \cap Reading) < MaxConcurrent
    BY DEF SlotForAPerson
  <2>1. MaxConcurrent \in Nat /\ Cardinality(RunningNow \cap Reading) < MaxConcurrent
    BY PoolAssumption DEF PoolAssumption, PoolInv, PoolHolds, SlotForAPerson
  <2>2. IsFiniteSet(RunningNow \cap Reading) /\ Cardinality(RunningNow \cap Reading) \in Nat
    BY FS_Subset, FS_CardinalityType DEF PoolInv
  <2>3. CASE r \in Reading
    <3>1. Cardinality(RunningNow \cap Reading) < MaxConcurrent - 1
      BY <1>1, <2>3 DEF SlotFor
    <3>2. RunningNow' \cap Reading = (RunningNow \cap Reading) \cup {r} /\ r \notin RunningNow \cap Reading
      BY <1>6, <2>3
    <3>3. Cardinality((RunningNow \cap Reading) \cup {r}) = Cardinality(RunningNow \cap Reading) + 1
      BY <2>2, <3>2, FS_AddElement
    <3> DEFINE now  == Cardinality(RunningNow' \cap Reading)
               then == Cardinality(RunningNow \cap Reading)
    <3>4. now = then + 1
      BY <3>2, <3>3
    <3>5. then < MaxConcurrent - 1 /\ then \in Nat /\ MaxConcurrent \in Nat
      BY <3>1, <2>1, <2>2
    <3> HIDE DEF now, then
    <3>6. now < MaxConcurrent
      BY <3>4, <3>5
    <3> QED BY <3>6 DEF now
  <2>4. CASE r \notin Reading
    <3>1. RunningNow' \cap Reading = RunningNow \cap Reading
      BY <1>6, <2>4
    <3> QED BY <3>1, <2>1
  <2> QED BY <2>3, <2>4
<1>11. \A p \in Asker : shown'[p] > 0 => state'[p] \in {"answered", "failed"}
  <2>1. \A p \in Asker : p \in PoolRequest /\ (shown[p] > 0 => state[p] \in {"answered", "failed"})
    BY DEF PoolRequest, PoolInv
  <2>2. \A p \in Asker : p = r => ~(shown[p] > 0)
    BY <2>1, <1>4
  <2> QED BY <2>1, <2>2, <1>1, <1>5
<1>12. ShownOnce'
  BY <1>1 DEF ShownOnce, PoolInv, PoolHolds
<1> QED BY <1>7, <1>8, <1>9, <1>10, <1>11, <1>12 DEF PoolInv, PoolHolds

\* What leaves every request where it is.
LEMMA RestKeeps ==
  ASSUME PoolInv, UNCHANGED <<state, queue, asking, left, retried, shown>>,
         draining' \in BOOLEAN, timer' \in BOOLEAN, cool' \subseteq Pair, sent' \in [Range(Keys) -> Nat],
         queue # <<>> /\ ~draining' => timer' \/ RunningNow # {}
  PROVE  PoolInv'
<1>1. RunningNow' = RunningNow
  BY DEF RunningNow
<1>2. PoolTypeOK'
  BY DEF PoolInv, PoolHolds, PoolTypeOK
<1>3. NoneForgotten'
  BY <1>1 DEF NoneForgotten
<1>4. IsFiniteSet(RunningNow)' /\ SlotForAPerson'
  BY <1>1, FewerRun
<1> QED BY <1>2, <1>3, <1>4 DEF PoolInv, PoolHolds, ShownOnce

LEMMA NoSlot ==
  ASSUME PoolInv, NEW r \in PoolRequest, ~SlotFor(r)
  PROVE  RunningNow # {}
<1>1. SUFFICES ASSUME RunningNow = {} PROVE FALSE
  OBVIOUS
<1>2. Cardinality(RunningNow) = 0 /\ Cardinality(RunningNow \cap Reading) = 0
  BY <1>1, FS_EmptySet
<1>3. MaxConcurrent \in Nat \ {0}
  BY PoolAssumption DEF PoolAssumption
<1> QED BY <1>2, <1>3 DEF SlotFor

LEMMA PoolSteps == PoolInv /\ [PoolNext]_poolVars => PoolInv'
<1> SUFFICES ASSUME PoolInv, [PoolNext]_poolVars PROVE PoolInv'
  OBVIOUS
<1>0. /\ draining \in BOOLEAN /\ timer \in BOOLEAN /\ cool \subseteq Pair /\ sent \in [Range(Keys) -> Nat]
      /\ queue # <<>> /\ ~draining => timer \/ RunningNow # {}
  BY DEF PoolInv, PoolHolds, PoolTypeOK, NoneForgotten
<1>1. ASSUME NEW r \in PoolRequest,
             EnqueueRequest(r) \/ DrainStarts(r) \/ DrainTurnsAway(r) \/ Answers(r) \/ Abort(r)
      PROVE  PoolInv'
  BY <1>1, EnqueueRequestKeeps, DrainStartsKeeps, DrainTurnsAwayKeeps, AnswersKeeps, AbortKeeps
<1>2. ASSUME NEW r \in PoolRequest, NEW streamed \in Words(r),
             \/ \E overloaded \in BOOLEAN : QuotaFails(r, overloaded, streamed)
             \/ TransientFails(r, streamed) \/ CallFails(r, streamed)
      PROVE  PoolInv'
  BY <1>2, QuotaFailsKeeps, TransientFailsKeeps, CallFailsKeeps
<1>3. CASE DrainWaits
  BY <1>3, <1>0, RestKeeps DEF DrainWaits
<1>4. CASE DrainStops
  <2>1. queue # <<>> => RunningNow # {}
    <3> SUFFICES ASSUME queue # <<>> PROVE RunningNow # {}
      OBVIOUS
    <3>1. Head(queue) \in PoolRequest
      BY DEF PoolInv, PoolHolds, PoolTypeOK
    <3> QED BY <3>1, <1>4, NoSlot DEF DrainStops
  <2> QED BY <2>1, <1>4, <1>0, RestKeeps DEF DrainStops
<1>5. CASE TimerFires
  BY <1>5, <1>0, RestKeeps DEF TimerFires
<1>6. ASSUME NEW p \in Pair, CoolEnds(p) PROVE PoolInv'
  BY <1>6, <1>0, RestKeeps DEF CoolEnds
<1>7. ASSUME NEW k \in Range(Keys), LeavesMinute(k) PROVE PoolInv'
  <2>1. sent' \in [Range(Keys) -> Nat]
    BY <1>7, <1>0 DEF LeavesMinute
  <2> QED BY <2>1, <1>7, <1>0, RestKeeps DEF LeavesMinute
<1>8. CASE UNCHANGED poolVars
  BY <1>8, <1>0, RestKeeps DEF poolVars
<1> QED BY <1>1, <1>2, <1>3, <1>4, <1>5, <1>6, <1>7, <1>8 DEF PoolNext

(* No request is left in the queue with nothing to look at it again, reading  *)
(* leaves a slot for a person, and nobody is shown the same words twice, for  *)
(* any requests, keys, models and limits (llm/gemini-client.js, Limiter).     *)
THEOREM PoolStaysHeld == PoolSpec => []PoolHolds
<1>1. PoolInv => PoolHolds
  BY DEF PoolInv
<1> QED BY PoolStarts, PoolSteps, <1>1, PTL DEF PoolSpec
=============================================================================
