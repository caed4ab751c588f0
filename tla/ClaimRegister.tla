--------------------------- MODULE ClaimRegister ---------------------------
(***************************************************************************)
(* What the system promises of a claim, with nothing of how: a receipt is  *)
(* put through at most once at a time, on its own or with one case; a case *)
(* is put through whole and undone whole; and once it is in the books it   *)
(* is final.                                                               *)
(***************************************************************************)
CONSTANTS Receipt, Case, Unclaimed, Alone

VARIABLES
  claim,  \* how each receipt is claimed: Unclaimed, Alone, or with a case
  final   \* the cases that are in Xero

vars == <<claim, final>>

With(c) == {r \in Receipt : claim[r] = c}

TypeOK ==
  /\ claim \in [Receipt -> Case \cup {Unclaimed, Alone}]
  /\ final \subseteq Case

Init ==
  /\ claim = [r \in Receipt |-> Unclaimed]
  /\ final = {}

ClaimAlone(r) ==
  /\ claim[r] = Unclaimed
  /\ claim' = [claim EXCEPT ![r] = Alone]
  /\ UNCHANGED final

\* Taken back, or the receipts deleted.
Withdraw(S) ==
  /\ \A r \in S : claim[r] = Alone
  /\ claim' = [r \in Receipt |-> IF r \in S THEN Unclaimed ELSE claim[r]]
  /\ UNCHANGED final

ClaimCase(c, S) ==
  /\ S # {} /\ With(c) = {}
  /\ \A r \in S : claim[r] = Unclaimed
  /\ claim' = [r \in Receipt |-> IF r \in S THEN c ELSE claim[r]]
  /\ UNCHANGED final

UndoCase(c) ==
  /\ c \notin final
  /\ With(c) # {}
  /\ claim' = [r \in Receipt |-> IF claim[r] = c THEN Unclaimed ELSE claim[r]]
  /\ UNCHANGED final

Finalise(c) ==
  /\ c \notin final
  /\ With(c) # {}
  /\ final' = final \cup {c}
  /\ UNCHANGED claim

Next ==
  \/ \E r \in Receipt : ClaimAlone(r)
  \/ \E S \in SUBSET Receipt : Withdraw(S)
  \/ \E c \in Case :
       \/ \E S \in SUBSET Receipt : ClaimCase(c, S)
       \/ UndoCase(c)
       \/ Finalise(c)

Spec == Init /\ [][Next]_vars
=============================================================================
