------------------------------ MODULE MCServices ------------------------------
(* The components of the server that keep to themselves, each checked on its *)
(* own in one run: `part' says which one runs, the others stay as they began. *)
EXTENDS ClaimFiling, XeroConnection, Accounts, SignInLock, FxBoard, KeyPool, Migration

CONSTANTS
  file1, file2, org1, org2, admin, ann, bob, home, away, receipt, somebody,
  request1, read1, read2, key1, fast, slow

OneKey    == <<key1>>
TwoModels == <<fast, slow>>

(* Two default currencies, and boards with room for both and for one. *)
Defaults  == <<"USD", "EUR">>
OldBoards == {{}, {"JPY"}}

VARIABLE part

services == <<filingVars, xeroVars, accountVars, lockVars, fxVars, poolVars, migrationVars>>

\* No database but a new one.
NothingToMigrate ==
  /\ boot = Down /\ removed = {} /\ anew = FALSE /\ stops = 0 /\ file = "missing"
  /\ stamp = 0 /\ columns = {} /\ rates = {} /\ board = {} /\ index = FALSE
  /\ person = [check |-> "none", role |-> "none"] /\ trip = [check |-> "none", status |-> "none"]
  /\ tokenVersion = [now |-> 0, held |-> 0] /\ was = [role |-> "none", status |-> "none", stamp |-> 0]

Init ==
  /\ part \in {"filing", "xero", "accounts", "lock", "fx", "pool", "migration"}
  /\ FilingInit /\ (part = "filing" \/ startedFrom = NoCase)
  /\ XeroInit /\ AccountsInit /\ LockInit /\ FxInit /\ PoolInit
  /\ IF part = "migration" THEN MigrationInit ELSE NothingToMigrate

Next ==
  /\ UNCHANGED part
  /\ \/ part = "filing"   /\ FilingNext   /\ UNCHANGED <<xeroVars, accountVars, lockVars, fxVars, poolVars, migrationVars>>
     \/ part = "xero"     /\ XeroNext     /\ UNCHANGED <<filingVars, accountVars, lockVars, fxVars, poolVars, migrationVars>>
     \/ part = "accounts" /\ AccountsNext /\ UNCHANGED <<filingVars, xeroVars, lockVars, fxVars, poolVars, migrationVars>>
     \/ part = "lock"     /\ LockNext     /\ UNCHANGED <<filingVars, xeroVars, accountVars, fxVars, poolVars, migrationVars>>
     \/ part = "fx"       /\ FxNext       /\ UNCHANGED <<filingVars, xeroVars, accountVars, lockVars, poolVars, migrationVars>>
     \/ part = "pool"     /\ PoolNext     /\ UNCHANGED <<filingVars, xeroVars, accountVars, lockVars, fxVars, migrationVars>>
     \/ part = "migration" /\ MigrationNext /\ UNCHANGED <<filingVars, xeroVars, accountVars, lockVars, fxVars, poolVars>>

Spec == Init /\ [][Next]_<<part, services>>
=============================================================================
