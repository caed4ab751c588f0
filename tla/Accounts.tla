------------------------------- MODULE Accounts -------------------------------
(***************************************************************************)
(* People, their roles and their sessions: store/users.js, routes/auth.js, *)
(* routes/users.js and middleware/auth-middleware.js.                      *)
(*                                                                         *)
(* Hashing or comparing a password is an await of some 75 ms, so signing   *)
(* up, signing in and setting a password are each two steps with other     *)
(* requests in between.  Everything else a request does is one step.       *)
(* A password is its number: 1 is a person's first.                        *)
(***************************************************************************)
EXTENDS Naturals, FiniteSets

CONSTANTS
  Person,       \* one for each email address
  MaxPasswords, \* bound: passwords one person ever has
  MaxVersion,   \* bound: how often one person's sessions are ended
  MaxHashing    \* bound: a request starts hashing only while fewer do

ASSUME AccountsAssumption == MaxPasswords \in Nat \ {0} /\ MaxVersion \in Nat /\ MaxHashing \in Nat

VARIABLES
  account,   \* "none", "active" or "removed" (disabled_at)
  role,
  password,  \* which of the person's passwords is the one on file
  version,   \* users.token_version
  companies, \* how many companies there are
  sessions,  \* the tokens signed, but for those of a version that is past
  hashing    \* the requests at their await

accountVars == <<account, role, password, version, companies, sessions, hashing>>

Role == {"user", "admin"}
\* `tv' is in the token; `pw' and `crossed' are not: the password it was signed
\* in with, and whether something that ends sessions came while it was checked.
Session == [who : Person, tv : 0..MaxVersion, pw : 1..MaxPasswords, crossed : BOOLEAN]
\* `first': there was no user yet.  `pw': the password typed, when it was right.
Hashing == [kind : {"register", "create", "login", "change", "reset"}, who : Person,
            first : BOOLEAN, role : Role, pw : 0..MaxPasswords, crossed : BOOLEAN]

AccountsTypeOK ==
  /\ account \in [Person -> {"none", "active", "removed"}]
  /\ role \in [Person -> Role]
  /\ password \in [Person -> 0..MaxPasswords]
  /\ version \in [Person -> 0..MaxVersion]
  /\ companies \in Nat
  /\ sessions \subseteq Session
  /\ hashing \subseteq Hashing

AccountsInit ==
  /\ account = [p \in Person |-> "none"]
  /\ role = [p \in Person |-> "user"]
  /\ password = [p \in Person |-> 0]
  /\ version = [p \in Person |-> 0]
  /\ companies = 0
  /\ sessions = {}
  /\ hashing = {}

-----------------------------------------------------------------------------
HasUsers == \E p \in Person : account[p] # "none"
\* requireAuth: the token says who; the database says the rest.
Valid(s) == account[s.who] = "active" /\ s.tv = version[s.who]
SignedIn(p) == \E s \in sessions : s.who = p /\ Valid(s)
IsAdmin(p) == SignedIn(p) /\ role[p] = "admin"

CountAdmins == Cardinality({p \in Person : account[p] = "active" /\ role[p] = "admin"})

Starts(r) ==
  /\ Cardinality(hashing) < MaxHashing
  /\ hashing' = hashing \cup {r}
  /\ UNCHANGED <<account, role, password, version, companies, sessions>>

Request(kind, p, first, asRole, typed) ==
  [kind |-> kind, who |-> p, first |-> first, role |-> asRole, pw |-> typed, crossed |-> FALSE]

\* The requests of p that were checking something when p's sessions ended.
Crossing(p, rest) == {IF r.who = p THEN [r EXCEPT !.crossed = TRUE] ELSE r : r \in rest}

-----------------------------------------------------------------------------
(* Signing up and being signed up.                                         *)

Register(p) ==
  /\ account[p] = "none"
  /\ Starts(Request("register", p, ~HasUsers, "user", 0))

PostUser(a, p, asRole) ==
  /\ IsAdmin(a)
  /\ Starts(Request("create", p, FALSE, asRole, 0))

\* Inside the transaction it is asked again.
CreatesCompany(r) == r.first /\ ~HasUsers

\* The transaction after the hash.  An email taken meanwhile is refused; so is
\* a second first account, which names no company.
CreateUser(r) ==
  LET made == account[r.who] = "none" /\ (CreatesCompany(r) \/ ~r.first) IN
  /\ r.kind \in {"register", "create"}
  /\ hashing' = hashing \ {r}
  /\ IF ~made THEN UNCHANGED <<account, role, password, companies, sessions>>
     ELSE /\ account' = [account EXCEPT ![r.who] = "active"]
          /\ role' = [role EXCEPT ![r.who] = IF CreatesCompany(r) THEN "admin" ELSE r.role]
          /\ password' = [password EXCEPT ![r.who] = 1]
          /\ companies' = IF CreatesCompany(r) THEN companies + 1 ELSE companies
          /\ sessions' = IF r.kind = "create" THEN sessions ELSE
               sessions \cup {[who |-> r.who, tv |-> version[r.who], pw |-> 1, crossed |-> FALSE]}
  /\ UNCHANGED version

-----------------------------------------------------------------------------
(* Signing in and out.                                                     *)

\* The row is read before the comparison: who was removed, and which password
\* is right, is what it was then.
Login(p, typed) ==
  /\ account[p] = "active" /\ typed = password[p]
  /\ Starts(Request("login", p, FALSE, "user", typed))

Signed(r) == [who |-> r.who, tv |-> version[r.who], pw |-> r.pw, crossed |-> r.crossed]

\* The version signed in is read after.
LoginEnds(r) ==
  /\ r.kind = "login"
  /\ hashing' = hashing \ {r}
  /\ sessions' = sessions \cup {Signed(r)}
  /\ UNCHANGED <<account, role, password, version, companies>>

\* mutant: the version stays.
EndNoSessions(p) == version' = version

EndSessions(p) == version' = [version EXCEPT ![p] = @ + 1]

\* The version only grows: a token signed with a past one is refused for ever.
Current(s) == s.tv = version'[s.who]

Logout(p) ==
  /\ SignedIn(p) /\ version[p] < MaxVersion
  /\ EndSessions(p)
  /\ hashing' = Crossing(p, hashing)
  /\ sessions' = {s \in sessions : Current(s)}
  /\ UNCHANGED <<account, role, password, companies>>

\* A day has passed.
SessionExpires(s) ==
  /\ sessions' = sessions \ {s}
  /\ UNCHANGED <<account, role, password, version, companies, hashing>>

-----------------------------------------------------------------------------
(* Passwords.                                                              *)

\* One's own, with the current one: checked on the row read before the await.
ChangePassword(p, typed) ==
  /\ SignedIn(p) /\ typed = password[p]
  /\ Starts(Request("change", p, FALSE, "user", typed))

ResetPassword(a, p) ==
  /\ IsAdmin(a) /\ a # p /\ account[p] # "none"
  /\ Starts(Request("reset", p, FALSE, "user", 0))

\* setPassword after its hash.  Changing one's own answers with a new session.
SetPassword(r) ==
  LET p == r.who  pw == password[p] + 1 IN
  /\ r.kind \in {"change", "reset"}
  /\ password[p] < MaxPasswords /\ version[p] < MaxVersion
  /\ password' = [password EXCEPT ![p] = pw]
  /\ EndSessions(p)
  /\ hashing' = Crossing(p, hashing \ {r})
  /\ sessions' = {s \in sessions : Current(s)} \cup
       (IF r.kind = "reset" THEN {}
        ELSE {[who |-> p, tv |-> version'[p], pw |-> pw, crossed |-> FALSE]})
  /\ UNCHANGED <<account, role, companies>>

-----------------------------------------------------------------------------
(* An admin's other requests.                                              *)

SetRole(a, p, to) ==
  /\ IsAdmin(a) /\ account[p] # "none" /\ to # role[p]
  /\ ~(role[p] = "admin" /\ account[p] = "active" /\ CountAdmins <= 1)
  /\ role' = [role EXCEPT ![p] = to]
  /\ UNCHANGED <<account, password, version, companies, sessions, hashing>>

RemoveUser(a, p) ==
  /\ IsAdmin(a) /\ a # p /\ account[p] = "active"
  /\ ~(role[p] = "admin" /\ CountAdmins <= 1)
  /\ version[p] < MaxVersion
  /\ account' = [account EXCEPT ![p] = "removed"]
  /\ EndSessions(p)
  /\ hashing' = Crossing(p, hashing)
  /\ sessions' = {s \in sessions : Current(s)}
  /\ UNCHANGED <<role, password, companies>>

RestoreUser(a, p) ==
  /\ IsAdmin(a) /\ account[p] = "removed"
  /\ account' = [account EXCEPT ![p] = "active"]
  /\ UNCHANGED <<role, password, version, companies, sessions, hashing>>

AccountsNext ==
  \/ \E p \in Person : Register(p) \/ Logout(p)
  \/ \E p \in Person, typed \in 1..MaxPasswords : Login(p, typed) \/ ChangePassword(p, typed)
  \/ \E a \in Person, p \in Person :
       ResetPassword(a, p) \/ RemoveUser(a, p) \/ RestoreUser(a, p)
  \/ \E a \in Person, p \in Person, r \in Role : PostUser(a, p, r) \/ SetRole(a, p, r)
  \/ \E r \in hashing : CreateUser(r) \/ LoginEnds(r) \/ SetPassword(r)
  \/ \E s \in sessions : SessionExpires(s)

AccountsSpec == AccountsInit /\ [][AccountsNext]_accountVars

-----------------------------------------------------------------------------
(* Properties.                                                             *)

\* However first sign-ups overlap there is one company, and from then on
\* somebody who may run it: no removal, demotion or restoring in any order
\* leaves it without an admin.
SomebodyRunsIt ==
  /\ companies <= 1
  /\ HasUsers => companies = 1 /\ \E p \in Person : account[p] = "active" /\ role[p] = "admin"

\* A session still accepted was signed in with the password that is on file, by
\* somebody nobody has signed out or removed since: unless that happened while
\* the password was being checked.
SessionIsCurrent == \A s \in sessions : Valid(s) /\ ~s.crossed => s.pw = password[s.who]

AccountsHold == AccountsTypeOK /\ SomebodyRunsIt /\ SessionIsCurrent

\* store/users.js: a new password ends every session signed in with the old one.
NewPasswordEndsSessions == \A s \in sessions : Valid(s) => s.pw = password[s.who]
=============================================================================
