---------------------------- MODULE Cases_proofs ----------------------------
(***************************************************************************)
(* What holds of Cases for any receipts, cases, rates and bounds, and of   *)
(* CasePosting for any receipts, cases and number of posts.  That posts    *)
(* stay single, that they implement the register and that a bill says      *)
(* what its case says is about posts that end within their marker's ten    *)
(* minutes (~SlowPosts); that a case saying the same gets one bill and     *)
(* that a bill is kept is about any.                                       *)
(***************************************************************************)
EXTENDS CasePosting, FiniteSetTheorems, TLAPS

-----------------------------------------------------------------------------
(* The cases and their receipts.                                           *)

\* A handler that goes to wait is a handler.
LEMMA WaitsType ==
  ASSUME TypeOK, NEW kind \in Kinds, NEW r \in Receipt, NEW c \in Case \cup {NoCase},
         Waits(kind, r, c)
  PROVE  waiting' \subseteq Handler
BY DEF Waits, TypeOK, Handler

\* The receipts waiting for a rate are handlers too.
LEMMA PricingType ==
  ASSUME NEW S, S \subseteq Receipt
  PROVE  Pricing(S) \subseteq Handler
BY DEF Pricing, Handler

\* Removing rows keeps every column of its type.
LEMMA RemoveType ==
  ASSUME TypeOK, NEW S, Remove(S)
  PROVE  /\ expStatus' \in [Receipt -> ExpStatus]
         /\ reportId' \in [Receipt -> Case \cup {NoCase}]
         /\ claimedAt' \in [Receipt -> BOOLEAN]
         /\ base' \in [Receipt -> Figure]
         /\ adds' \in [Receipt -> BOOLEAN]
BY DEF Remove, TypeOK, ExpStatus, Figure

\* What happens to receipts, and a restart, leaves the cases' own rows alone.
LEMMA RowsLeaveCases ==
  ASSUME ReceiptStep \/ HandlerStep \/ Restart \/ UNCHANGED vars
  PROVE  UNCHANGED caseVars
<1>1. ASSUME NEW r \in Receipt,
             \/ \E c \in Case \cup {NoCase} : Upload(r, c)
             \/ \E s \in Receipt : Sibling(r, s)
             \/ ReadEnds(r) \/ RetryRead(r)
             \/ \E c \in Case, old \in SUBSET Receipt : AddAllowance(r, c, old)
      PROVE  UNCHANGED caseVars
  BY <1>1 DEF Upload, Sibling, ReadEnds, RetryRead, AddAllowance
<1>2. ASSUME NEW r \in Receipt,
             \/ EditDetails(r) \/ AskRate(r) \/ SweepRate(r)
             \/ Reread(r) \/ Review(r) \/ Unreview(r)
      PROVE  UNCHANGED caseVars
  BY <1>2 DEF EditDetails, AskRate, SweepRate, Reread, Review, Unreview
<1>3. ASSUME NEW r \in Receipt,
             \/ \E c \in Case \cup {NoCase} : FileInCase(r, c)
             \/ MarkExpenseClaimed(r) \/ UnmarkExpenseClaimed(r) \/ DeleteExpense(r)
             \/ \E parts \in SUBSET Receipt : MergeParts(r, parts)
      PROVE  UNCHANGED caseVars
  BY <1>3 DEF FileInCase, MarkExpenseClaimed, UnmarkExpenseClaimed, DeleteExpense, MergeParts
<1>4. CASE ReceiptStep
  BY ONLY <1>1, <1>2, <1>3, <1>4 DEF ReceiptStep
<1>5. CASE HandlerStep
  BY <1>5 DEF HandlerStep, StoreReceipt, EditEnds, PriceEnds, RereadEnds
<1>6. CASE Restart \/ UNCHANGED vars
  BY <1>6 DEF Restart, vars
<1>7. QED
  BY <1>4, <1>5, <1>6

\* Nothing the system does leaves a column outside its type.
LEMMA TypeStep ==
  ASSUME TypeOK, [Next \/ Restart]_vars
  PROVE  TypeOK'
<1> USE DEF caseVars, expVars
<1>1. ASSUME NEW c \in Case, CreateCase(c) \/ CreateDraft(c) \/ OpenDraft(c)
      PROVE  TypeOK'
  BY <1>1 DEF TypeOK, CreateCase, CreateDraft, OpenDraft, NextNumber, SaveCover, CaseStatus
<1>2. ASSUME NEW c \in Case, EditCover(c) \/ DeleteCase(c)
      PROVE  TypeOK'
  BY <1>2 DEF TypeOK, EditCover, SaveCover, DeleteCase, Touched, CaseStatus, Marker
<1>3. ASSUME NEW c \in Case, DiscardDraft(c)
      PROVE  TypeOK'
  BY <1>3, RemoveType DEF TypeOK, DiscardDraft, CaseStatus
<1>4. ASSUME NEW c \in Case, NEW d \in Case, MergeCases(c, d)
      PROVE  TypeOK'
  BY <1>4 DEF TypeOK, MergeCases, Touched, CaseStatus, Marker
<1>5. ASSUME NEW c \in Case, MarkClaimed(c)
      PROVE  TypeOK'
  BY <1>5 DEF TypeOK, MarkClaimed, Touched, CaseStatus, Marker
<1>6. ASSUME NEW c \in Case, Reopen(c)
      PROVE  TypeOK'
  <2>1. waiting' \subseteq Handler
    BY <1>6, PricingType DEF TypeOK, Reopen, Members
  <2>2. QED
    BY <1>6, <2>1 DEF TypeOK, Reopen, Touched, CaseStatus, Marker
<1>7. ASSUME NEW r \in Receipt, NEW c \in Case \cup {NoCase}, Upload(r, c)
      PROVE  TypeOK'
  BY <1>7, WaitsType DEF TypeOK, Upload, Kinds
<1>8. ASSUME NEW r \in Receipt, NEW s \in Receipt, Sibling(r, s)
      PROVE  TypeOK'
  BY <1>8 DEF TypeOK, Sibling, NewRow, ExpStatus
<1>9. ASSUME NEW r \in Receipt, ReadEnds(r) \/ RetryRead(r)
      PROVE  TypeOK'
  BY <1>9 DEF TypeOK, ReadEnds, RetryRead, ExpStatus
<1>10. ASSUME NEW r \in Receipt, NEW c \in Case, NEW old \in SUBSET Receipt, AddAllowance(r, c, old)
       PROVE  TypeOK'
  <2>1. PICK b \in OwnRate \cup {NoRate} :
          /\ waiting' = waiting \cup Pricing(IF b = NoRate THEN {r} ELSE {})
          /\ base' = [s \in Receipt |-> IF s = r THEN b ELSE IF s \in old THEN NoRate ELSE base[s]]
    BY <1>10 DEF AddAllowance
  <2>2. expStatus' \in [Receipt -> ExpStatus]
    BY <1>10 DEF TypeOK, AddAllowance, ExpStatus
  <2>3. reportId' \in [Receipt -> Case \cup {NoCase}]
    BY <1>10 DEF TypeOK, AddAllowance
  <2>4. base' \in [Receipt -> Figure]
    BY <2>1, CasesAssumption DEF TypeOK, Figure
  <2>5. waiting' \subseteq Handler
    BY <2>1, PricingType DEF TypeOK
  <2>6. claimedAt' \in [Receipt -> BOOLEAN] /\ adds' \in [Receipt -> BOOLEAN]
    BY <1>10 DEF AddAllowance
  <2>7. QED
    BY <1>10, <2>2, <2>3, <2>4, <2>5, <2>6 DEF TypeOK, AddAllowance
<1>11. ASSUME NEW r \in Receipt, EditDetails(r)
       PROVE  TypeOK'
  <2>1. waiting' \subseteq Handler
    BY <1>11, WaitsType DEF TypeOK, EditDetails, Kinds
  <2>2. expStatus' \in [Receipt -> ExpStatus]
    BY <1>11 DEF TypeOK, EditDetails, Demoted, ExpStatus
  <2>3. PICK b \in Figure, a \in BOOLEAN : base' = [base EXCEPT ![r] = b] /\ adds' = [adds EXCEPT ![r] = a]
    BY <1>11 DEF EditDetails
  <2>4. base' \in [Receipt -> Figure] /\ adds' \in [Receipt -> BOOLEAN]
    BY <2>3 DEF TypeOK
  <2>5. UNCHANGED <<caseVars, reportId, claimedAt>>
    BY <1>11 DEF EditDetails
  <2>6. QED
    BY <2>1, <2>2, <2>4, <2>5 DEF TypeOK
<1>12. ASSUME NEW r \in Receipt, AskRate(r) \/ SweepRate(r) \/ Reread(r)
       PROVE  TypeOK'
  BY <1>12, WaitsType DEF TypeOK, AskRate, SweepRate, Reread, Kinds
<1>13. ASSUME NEW r \in Receipt, Review(r) \/ Unreview(r)
       PROVE  TypeOK'
  BY <1>13 DEF TypeOK, Review, Unreview, ExpStatus
<1>14. ASSUME NEW r \in Receipt, NEW c \in Case \cup {NoCase}, FileInCase(r, c)
       PROVE  TypeOK'
  BY <1>14 DEF TypeOK, FileInCase
<1>15. ASSUME NEW r \in Receipt, MarkExpenseClaimed(r) \/ UnmarkExpenseClaimed(r)
       PROVE  TypeOK'
  BY <1>15, PricingType DEF TypeOK, MarkExpenseClaimed, UnmarkExpenseClaimed
<1>16. ASSUME NEW r \in Receipt, DeleteExpense(r)
       PROVE  TypeOK'
  BY <1>16, RemoveType DEF TypeOK, DeleteExpense
<1>17. ASSUME NEW r \in Receipt, NEW parts \in SUBSET Receipt, MergeParts(r, parts)
       PROVE  TypeOK'
  BY <1>17, RemoveType DEF TypeOK, MergeParts
<1>18. ASSUME NEW h \in waiting, StoreReceipt(h)
       PROVE  TypeOK'
  BY <1>18 DEF TypeOK, StoreReceipt, NewRow, Handler, ExpStatus
<1>19. ASSUME NEW h \in waiting, EditEnds(h)
       PROVE  TypeOK'
  BY <1>19 DEF TypeOK, EditEnds, Reprice, Demoted, ExpStatus, Handler
<1>20. ASSUME NEW h \in waiting, PriceEnds(h)
       PROVE  TypeOK'
  BY <1>20 DEF TypeOK, PriceEnds, Reprice
<1>21. ASSUME NEW h \in waiting, RereadEnds(h)
       PROVE  TypeOK'
  <2>1. h.expense \in Receipt
    BY DEF TypeOK, Handler
  <2>2. waiting' \subseteq Handler
    BY <1>21, <2>1, PricingType DEF TypeOK, RereadEnds
  <2>3. base' \in [Receipt -> Figure]
    BY <1>21, <2>1, CasesAssumption DEF TypeOK, RereadEnds, Figure
  <2>4. expStatus' \in [Receipt -> ExpStatus] /\ adds' \in [Receipt -> BOOLEAN]
    BY <1>21, <2>1 DEF TypeOK, RereadEnds, ExpStatus
  <2>5. QED
    BY <1>21, <2>2, <2>3, <2>4 DEF TypeOK, RereadEnds
<1>22. CASE Restart
  BY <1>22 DEF TypeOK, Restart
<1>23. CASE UNCHANGED vars
  BY <1>23 DEF TypeOK, vars
<1>24. QED
  BY <1>1, <1>2, <1>3, <1>4, <1>5, <1>6, <1>7, <1>8, <1>9, <1>10, <1>11, <1>12, <1>13,
     <1>14, <1>15, <1>16, <1>17, <1>18, <1>19, <1>20, <1>21, <1>22, <1>23
  DEF Next, CaseStep, ReceiptStep, HandlerStep

\* No step writes a value its column cannot hold: in particular every status
\* written is one the schema knows (db/schema.sql).
THEOREM TypeCorrect == Spec => []TypeOK
<1>1. Init => TypeOK
  BY CasesAssumption DEF Init, TypeOK, CaseStatus, ExpStatus, Marker, Figure
<1>2. TypeOK /\ [Next \/ Restart]_vars => TypeOK'
  BY TypeStep
<1>3. QED
  BY <1>1, <1>2, PTL DEF Spec

-----------------------------------------------------------------------------
(* The claims.  Together the three invariants are inductive: what a claimed *)
(* case holds is kept by the lock every writer asks about (IsLocked,        *)
(* Editable), and the lock means something because a receipt's case is one  *)
(* that is there.                                                           *)

Coherent == ClaimedTogether /\ NeverClaimedTwice /\ NoDanglingReceipt

\* A step that moves no receipt, claims nothing and brings no row up or down
\* keeps the claims coherent.
LEMMA StatusStep ==
  ASSUME CasesAssumption, TypeOK, TypeOK', Coherent,
         UNCHANGED <<caseStatus, reportId, claimedAt>>,
         \A r \in Receipt : Exists(r) => Exists(r)'
  PROVE  Coherent'
<1>1. ClaimedTogether'
  BY DEF Coherent, ClaimedTogether
<1>2. NeverClaimedTwice'
  BY DEF Coherent, NeverClaimedTwice
<1>3. NoDanglingReceipt'
  BY DEF Coherent, NoDanglingReceipt
<1>4. QED
  BY <1>1, <1>2, <1>3 DEF Coherent

\* Nor does removing receipts that are in no claimed case.
LEMMA RemoveStep ==
  ASSUME CasesAssumption, TypeOK, Coherent, NEW S \in SUBSET Receipt, Remove(S),
         \A r \in S : ~IsLocked(r),
         UNCHANGED caseStatus
  PROVE  Coherent'
<1>1. ClaimedTogether'
  BY DEF Coherent, ClaimedTogether, Remove, IsLocked, Editable, TypeOK
<1>2. NeverClaimedTwice'
  BY DEF Coherent, NeverClaimedTwice, Remove, TypeOK
<1>3. NoDanglingReceipt'
  BY DEF Coherent, NoDanglingReceipt, Remove, Exists, TypeOK
<1>4. QED
  BY <1>1, <1>2, <1>3 DEF Coherent

\* Nor does a new row in no case or in one that takes receipts.
LEMMA NewRowStep ==
  ASSUME CasesAssumption, TypeOK, Coherent,
         NEW r \in Receipt, NEW c \in Case \cup {NoCase},
         NewRow(r, c), CheckCase(c),
         UNCHANGED <<caseStatus, claimedAt>>
  PROVE  Coherent'
<1>1. reportId[r] = NoCase /\ ~claimedAt[r]
  BY DEF Coherent, NoDanglingReceipt, Exists, NewRow
<1>2. ClaimedTogether'
  BY <1>1 DEF Coherent, ClaimedTogether, NewRow, CheckCase, Editable, TypeOK
<1>3. NeverClaimedTwice'
  BY <1>1 DEF Coherent, NeverClaimedTwice, NewRow, TypeOK
<1>4. NoDanglingReceipt'
  BY DEF Coherent, NoDanglingReceipt, NewRow, CheckCase, Editable, Exists, TypeOK
<1>5. QED
  BY <1>2, <1>3, <1>4 DEF Coherent

LEMMA CoherentStep ==
  ASSUME TypeOK, TypeOK', Coherent, [Next \/ Restart]_vars
  PROVE  Coherent'
<1> USE CasesAssumption DEF caseVars, expVars
<1>1. ASSUME NEW c \in Case, CreateCase(c) \/ CreateDraft(c) \/ OpenDraft(c)
      PROVE  Coherent'
  BY <1>1 DEF TypeOK, Coherent, ClaimedTogether, NeverClaimedTwice, NoDanglingReceipt, Exists,
              CreateCase, CreateDraft, OpenDraft
<1>2. ASSUME NEW c \in Case, EditCover(c)
      PROVE  Coherent'
  BY <1>2, StatusStep DEF EditCover, Exists
<1>3. ASSUME NEW c \in Case, DeleteCase(c)
      PROVE  Coherent'
  BY <1>3 DEF TypeOK, Coherent, ClaimedTogether, NeverClaimedTwice, NoDanglingReceipt, Exists,
              DeleteCase, Editable
<1>4. ASSUME NEW c \in Case, DiscardDraft(c)
      PROVE  Coherent'
  BY <1>4 DEF TypeOK, Coherent, ClaimedTogether, NeverClaimedTwice, NoDanglingReceipt, Exists,
              DiscardDraft, Remove, Members
<1>5. ASSUME NEW c \in Case, NEW d \in Case, MergeCases(c, d)
      PROVE  Coherent'
  BY <1>5 DEF TypeOK, Coherent, ClaimedTogether, NeverClaimedTwice, NoDanglingReceipt, Exists,
              MergeCases, Editable
<1>6. ASSUME NEW c \in Case, MarkClaimed(c)
      PROVE  Coherent'
  BY <1>6 DEF TypeOK, Coherent, ClaimedTogether, NeverClaimedTwice, NoDanglingReceipt, Exists,
              MarkClaimed, Claimable, Members
<1>7. ASSUME NEW c \in Case, Reopen(c)
      PROVE  Coherent'
  <2>1. ClaimedTogether'
    BY <1>7 DEF Reopen, Coherent, ClaimedTogether, TypeOK
  <2>2. NeverClaimedTwice'
    BY <1>7 DEF Reopen, Coherent, NeverClaimedTwice, TypeOK
  <2>3. NoDanglingReceipt'
    BY <1>7 DEF Reopen, Coherent, NoDanglingReceipt, Exists, TypeOK
  <2>4. QED
    BY <2>1, <2>2, <2>3 DEF Coherent
<1>8. ASSUME NEW r \in Receipt, NEW c \in Case \cup {NoCase}, Upload(r, c)
      PROVE  Coherent'
  BY <1>8, StatusStep DEF Upload, Exists
<1>9. ASSUME NEW r \in Receipt, NEW s \in Receipt, Sibling(r, s)
      PROVE  Coherent'
  BY <1>9, NewRowStep DEF Sibling, Fresh, CheckCase, IsLocked, TypeOK
<1>10. ASSUME NEW r \in Receipt, ReadEnds(r) \/ RetryRead(r)
       PROVE  Coherent'
  BY <1>10, StatusStep DEF ReadEnds, RetryRead, Exists, TypeOK
<1>11. ASSUME NEW r \in Receipt, NEW c \in Case, NEW old \in SUBSET Receipt, AddAllowance(r, c, old)
       PROVE  Coherent'
  <2>1. /\ caseStatus' = caseStatus
        /\ caseStatus[c] \in {"draft", "open"}
        /\ expStatus[r] = "absent"
        /\ reportId[r] = NoCase /\ ~claimedAt[r]
        /\ \A s \in old : reportId[s] = c
    BY <1>11 DEF AddAllowance, Fresh, Members, Editable, Coherent, NoDanglingReceipt, Exists
  <2>2. /\ expStatus' = [s \in Receipt |-> IF s = r THEN "reviewed" ELSE IF s \in old THEN "deleted" ELSE expStatus[s]]
        /\ reportId' = [s \in Receipt |-> IF s = r THEN c ELSE IF s \in old THEN NoCase ELSE reportId[s]]
        /\ claimedAt' = [s \in Receipt |-> s \notin old /\ claimedAt[s]]
    BY <1>11 DEF AddAllowance
  <2>3. ClaimedTogether'
    BY <2>1, <2>2 DEF Coherent, ClaimedTogether, TypeOK
  <2>4. NeverClaimedTwice'
    BY <2>1, <2>2 DEF Coherent, NeverClaimedTwice, TypeOK
  <2>5. NoDanglingReceipt'
    BY <2>1, <2>2 DEF Coherent, NoDanglingReceipt, Exists, TypeOK
  <2>6. QED
    BY <2>3, <2>4, <2>5 DEF Coherent
<1>12. ASSUME NEW r \in Receipt, EditDetails(r)
       PROVE  Coherent'
  BY <1>12, StatusStep DEF EditDetails, DetailsBlocked, Demoted, Exists, TypeOK
<1>13. ASSUME NEW r \in Receipt, AskRate(r) \/ SweepRate(r) \/ Reread(r)
       PROVE  Coherent'
  BY <1>13, StatusStep DEF AskRate, SweepRate, Reread, Exists
<1>14. ASSUME NEW r \in Receipt, Review(r) \/ Unreview(r)
       PROVE  Coherent'
  BY <1>14, StatusStep DEF Review, Unreview, ActionBlocked, Exists, TypeOK
<1>15. ASSUME NEW r \in Receipt, NEW c \in Case \cup {NoCase}, FileInCase(r, c)
       PROVE  Coherent'
  BY <1>15 DEF TypeOK, Coherent, ClaimedTogether, NeverClaimedTwice, NoDanglingReceipt, Exists,
               FileInCase, ActionBlocked, IsLocked, Editable
<1>16. ASSUME NEW r \in Receipt, MarkExpenseClaimed(r) \/ UnmarkExpenseClaimed(r)
       PROVE  Coherent'
  BY <1>16 DEF TypeOK, Coherent, ClaimedTogether, NeverClaimedTwice, NoDanglingReceipt, Exists,
               MarkExpenseClaimed, UnmarkExpenseClaimed, IsLocked, Editable
<1>17. ASSUME NEW r \in Receipt, DeleteExpense(r)
       PROVE  Coherent'
  BY <1>17, RemoveStep DEF DeleteExpense, ActionBlocked
<1>18. ASSUME NEW r \in Receipt, NEW parts \in SUBSET Receipt, MergeParts(r, parts)
       PROVE  Coherent'
  BY <1>18, RemoveStep DEF MergeParts
<1>19. ASSUME NEW h \in waiting, StoreReceipt(h)
       PROVE  Coherent'
  <2>1. h.expense \in Receipt /\ h.into \in Case \cup {NoCase}
    BY DEF TypeOK, Handler
  <2>2. CASE NewRow(h.expense, h.into) /\ CheckCase(h.into)
    BY <1>19, <2>1, <2>2, NewRowStep DEF StoreReceipt
  <2>3. CASE UNCHANGED <<expStatus, reportId>>
    BY <1>19, <2>3, StatusStep DEF StoreReceipt, Exists
  <2>4. QED
    BY <1>19, <2>2, <2>3 DEF StoreReceipt
<1>20. ASSUME NEW h \in waiting, EditEnds(h)
       PROVE  Coherent'
  BY <1>20, StatusStep DEF EditEnds, Demoted, Exists, TypeOK
<1>21. ASSUME NEW h \in waiting, PriceEnds(h)
       PROVE  Coherent'
  BY <1>21, StatusStep DEF PriceEnds, Exists
<1>22. ASSUME NEW h \in waiting, RereadEnds(h)
       PROVE  Coherent'
  BY <1>22, StatusStep DEF RereadEnds, Exists, TypeOK
<1>23. CASE Restart
  BY <1>23, StatusStep DEF Restart, Exists
<1>24. CASE UNCHANGED vars
  BY <1>24, StatusStep DEF vars, Exists
<1>25. QED
  BY <1>1, <1>2, <1>3, <1>4, <1>5, <1>6, <1>7, <1>8, <1>9, <1>10, <1>11, <1>12, <1>13,
     <1>14, <1>15, <1>16, <1>17, <1>18, <1>19, <1>20, <1>21, <1>22, <1>23, <1>24
  DEF Next, CaseStep, ReceiptStep, HandlerStep

\* A case is claimed whole or not at all, no receipt is claimed twice, and none
\* points at a case that is gone, whatever is uploaded, read, edited, moved,
\* merged or deleted while a handler waits.
THEOREM ClaimsCoherent == Spec => [](ClaimedTogether /\ NeverClaimedTwice /\ NoDanglingReceipt)
<1>1. Init => Coherent
  BY CasesAssumption DEF Init, Coherent, ClaimedTogether, NeverClaimedTwice, NoDanglingReceipt, Exists
<1>2. TypeOK /\ TypeOK' /\ Coherent /\ [Next \/ Restart]_vars => Coherent'
  BY CoherentStep
<1>3. QED
  BY <1>1, <1>2, TypeCorrect, PTL DEF Spec, Coherent

-----------------------------------------------------------------------------
(* What was checked when it was claimed stays checked, unless a re-read was *)
(* asked of a row that was still being read.                                *)

\* A step that moves no receipt keeps it so while what it takes the check away
\* from is not locked.
LEMMA KeptChecked ==
  ASSUME CasesAssumption, TypeOK, ClaimedChecked, UNCHANGED <<caseStatus, reportId>>,
         \A r \in Receipt : expStatus'[r] \in {expStatus[r], "reviewed"} \/ ~IsLocked(r)
  PROVE  ClaimedChecked'
BY DEF ClaimedChecked, IsLocked, Editable, TypeOK

LEMMA CheckedStep ==
  ASSUME "rereadReading" \notin Background, TypeOK, Coherent, ClaimedChecked, [Next \/ Restart]_vars
  PROVE  ClaimedChecked'
<1> USE CasesAssumption DEF caseVars, expVars
<1>1. ASSUME NEW c \in Case, CreateCase(c) \/ CreateDraft(c) \/ OpenDraft(c) \/ DeleteCase(c)
      PROVE  ClaimedChecked'
  BY <1>1 DEF TypeOK, ClaimedChecked, CreateCase, CreateDraft, OpenDraft, DeleteCase
<1>2. ASSUME NEW c \in Case, DiscardDraft(c)
      PROVE  ClaimedChecked'
  BY <1>2 DEF TypeOK, ClaimedChecked, DiscardDraft, Remove
<1>3. ASSUME NEW c \in Case, NEW d \in Case, MergeCases(c, d)
      PROVE  ClaimedChecked'
  BY <1>3 DEF TypeOK, ClaimedChecked, MergeCases, Editable
<1>4. ASSUME NEW c \in Case, MarkClaimed(c) \/ Reopen(c)
      PROVE  ClaimedChecked'
  BY <1>4 DEF TypeOK, ClaimedChecked, MarkClaimed, Reopen, Claimable, Members
<1>5. ASSUME NEW r \in Receipt, NEW c \in Case \cup {NoCase}, NewRow(r, c), CheckCase(c), UNCHANGED caseStatus
      PROVE  ClaimedChecked'
  BY <1>5 DEF TypeOK, ClaimedChecked, NewRow, CheckCase, Editable
<1>6. ASSUME NEW r \in Receipt, NEW s \in Receipt, Sibling(r, s)
      PROVE  ClaimedChecked'
  BY <1>6, <1>5 DEF Sibling, CheckCase, IsLocked, TypeOK
<1>7. ASSUME NEW r \in Receipt, ReadEnds(r) \/ RetryRead(r)
      PROVE  ClaimedChecked'
  <2>1. ~IsLocked(r)
    BY <1>7 DEF ReadEnds, RetryRead, ClaimedChecked, Coherent, NoDanglingReceipt, IsLocked, Editable
  <2>2. QED
    BY <1>7, <2>1, KeptChecked DEF ReadEnds, RetryRead, TypeOK
<1>8. ASSUME NEW r \in Receipt, NEW c \in Case, NEW old \in SUBSET Receipt, AddAllowance(r, c, old)
      PROVE  ClaimedChecked'
  <2>1. /\ caseStatus' = caseStatus
        /\ expStatus' = [s \in Receipt |-> IF s = r THEN "reviewed" ELSE IF s \in old THEN "deleted" ELSE expStatus[s]]
        /\ reportId' = [s \in Receipt |-> IF s = r THEN c ELSE IF s \in old THEN NoCase ELSE reportId[s]]
    BY <1>8 DEF AddAllowance
  <2>2. QED
    BY <2>1 DEF ClaimedChecked
<1>9. ASSUME NEW r \in Receipt, EditDetails(r)
      PROVE  ClaimedChecked'
  BY <1>9, KeptChecked DEF EditDetails, Demoted, TypeOK
<1>10. ASSUME NEW r \in Receipt, Review(r) \/ Unreview(r)
       PROVE  ClaimedChecked'
  BY <1>10, KeptChecked DEF Review, Unreview, ActionBlocked, TypeOK
<1>11. ASSUME NEW r \in Receipt, NEW c \in Case \cup {NoCase}, FileInCase(r, c)
       PROVE  ClaimedChecked'
  BY <1>11 DEF TypeOK, ClaimedChecked, FileInCase, Editable
<1>12. ASSUME NEW S \in SUBSET Receipt, Remove(S), UNCHANGED caseStatus
       PROVE  ClaimedChecked'
  BY <1>12 DEF TypeOK, ClaimedChecked, Remove
<1>13. ASSUME NEW r \in Receipt, DeleteExpense(r) \/ \E parts \in SUBSET Receipt : MergeParts(r, parts)
       PROVE  ClaimedChecked'
  BY <1>12, <1>13 DEF DeleteExpense, MergeParts
<1>14. ASSUME NEW h \in waiting, StoreReceipt(h)
       PROVE  ClaimedChecked'
  <2>1. h.expense \in Receipt /\ h.into \in Case \cup {NoCase}
    BY DEF TypeOK, Handler
  <2>2. CASE NewRow(h.expense, h.into) /\ CheckCase(h.into)
    BY <1>14, <2>1, <2>2, <1>5 DEF StoreReceipt
  <2>3. CASE UNCHANGED <<expStatus, reportId>>
    BY <1>14, <2>3, KeptChecked DEF StoreReceipt
  <2>4. QED
    BY <1>14, <2>2, <2>3 DEF StoreReceipt
<1>15. ASSUME NEW h \in waiting, EditEnds(h)
       PROVE  ClaimedChecked'
  BY <1>15, KeptChecked DEF EditEnds, Demoted, TypeOK
<1>16. ASSUME NEW h \in waiting, RereadEnds(h)
       PROVE  ClaimedChecked'
  <2>1. h.kind # "rereadReading"
    BY DEF TypeOK, Handler
  <2>2. \A r \in Receipt : expStatus[r] = "reading" => ~IsLocked(r)
    BY DEF ClaimedChecked, Coherent, NoDanglingReceipt, IsLocked, Editable, Exists
  <2>3. QED
    BY <1>16, <2>1, <2>2, KeptChecked DEF RereadEnds, TypeOK
<1>17. CASE UNCHANGED <<caseStatus, reportId, expStatus>>
  BY <1>17, KeptChecked
<1>18. ASSUME NEW r \in Receipt,
              \/ \E c \in Case \cup {NoCase} : Upload(r, c)
              \/ AskRate(r) \/ SweepRate(r) \/ Reread(r)
              \/ MarkExpenseClaimed(r) \/ UnmarkExpenseClaimed(r)
       PROVE  UNCHANGED <<caseStatus, reportId, expStatus>>
  BY <1>18 DEF Upload, AskRate, SweepRate, Reread, MarkExpenseClaimed, UnmarkExpenseClaimed
<1>19. (\E c \in Case : EditCover(c)) \/ (\E h \in waiting : PriceEnds(h)) \/ Restart \/ UNCHANGED vars
         => UNCHANGED <<caseStatus, reportId, expStatus>>
  BY DEF EditCover, PriceEnds, Restart, vars
<1>20. QED
  BY <1>1, <1>2, <1>3, <1>4, <1>6, <1>7, <1>8, <1>9, <1>10, <1>11, <1>13, <1>14, <1>15, <1>16,
     <1>17, <1>18, <1>19
  DEF Next, CaseStep, ReceiptStep, HandlerStep

\* No receipt of a claimed case stops being checked, whatever ends after the
\* claim, as long as no re-read was asked of a row still being read.
THEOREM ClaimedStaysChecked == "rereadReading" \notin Background /\ Spec => []ClaimedChecked
<1>1. Init => ClaimedChecked
  BY DEF Init, ClaimedChecked
<1>2. "rereadReading" \notin Background /\ TypeOK /\ Coherent /\ ClaimedChecked /\ [Next \/ Restart]_vars
        => ClaimedChecked'
  BY CheckedStep
<1>3. Spec => []Coherent
  BY ClaimsCoherent DEF Coherent
<1>4. ASSUME "rereadReading" \notin Background PROVE Spec => []ClaimedChecked
  <2>1. TypeOK /\ Coherent /\ ClaimedChecked /\ [Next \/ Restart]_vars => ClaimedChecked'
    BY <1>2, <1>4
  <2>2. QED
    BY <1>1, <1>3, <2>1, TypeCorrect, PTL DEF Spec
<1>5. QED
  BY <1>4

-----------------------------------------------------------------------------
(* A claimed case does not change under its owner.                          *)

Frozen ==
  \A c \in Case : caseStatus[c] = "claimed" =>
    \/ caseStatus'[c] = "claimed" /\ \A r \in Receipt : (reportId[r] = c) <=> (reportId'[r] = c)
    \/ /\ caseStatus'[c] = "open"
       /\ \A r \in Receipt : reportId[r] = c => reportId'[r] = c /\ ~claimedAt'[r]

LEMMA FrozenStep ==
  ASSUME TypeOK, Coherent, [Next \/ Restart]_vars
  PROVE  Frozen
<1> USE CasesAssumption DEF caseVars, expVars, Frozen
<1>1. ASSUME NEW c \in Case,
             \/ CreateCase(c) \/ CreateDraft(c) \/ OpenDraft(c) \/ EditCover(c)
             \/ DeleteCase(c)
      PROVE  Frozen
  BY <1>1 DEF TypeOK, CreateCase, CreateDraft, OpenDraft, EditCover, DeleteCase, Editable
<1>2. ASSUME NEW c \in Case, DiscardDraft(c)
      PROVE  Frozen
  BY <1>2 DEF TypeOK, DiscardDraft, Remove, Members
<1>3. ASSUME NEW c \in Case, NEW d \in Case, MergeCases(c, d)
      PROVE  Frozen
  BY <1>3 DEF TypeOK, MergeCases, Editable
<1>4. ASSUME NEW c \in Case, MarkClaimed(c) \/ Reopen(c)
      PROVE  Frozen
  <2>1. CASE MarkClaimed(c)
    <3>1. /\ caseStatus' = [caseStatus EXCEPT ![c] = "claimed"]
          /\ reportId' = reportId
      BY <2>1 DEF MarkClaimed
    <3>2. QED
      BY <3>1 DEF TypeOK
  <2>2. CASE Reopen(c)
    <3>1. /\ caseStatus' = [caseStatus EXCEPT ![c] = "open"]
          /\ reportId' = reportId
      BY <2>2 DEF Reopen
    <3>2. \A r \in Receipt : reportId[r] = c => ~claimedAt'[r]
      BY <2>2 DEF Reopen
    <3>3. QED
      BY <3>1, <3>2 DEF TypeOK
  <2>3. QED
    BY <1>4, <2>1, <2>2
<1>5. ASSUME NEW r \in Receipt, NEW s \in Receipt, Sibling(r, s)
      PROVE  Frozen
  BY <1>5 DEF TypeOK, Sibling, Fresh, NewRow, IsLocked, Editable, Coherent, NoDanglingReceipt, Exists
<1>6. ASSUME NEW r \in Receipt, NEW c \in Case, NEW old \in SUBSET Receipt, AddAllowance(r, c, old)
      PROVE  Frozen
  <2>1. /\ caseStatus' = caseStatus
        /\ caseStatus[c] \in {"draft", "open"}
        /\ reportId[r] = NoCase
        /\ \A s \in old : reportId[s] = c
    BY <1>6 DEF AddAllowance, Fresh, Members, Editable, Coherent, NoDanglingReceipt, Exists
  <2>2. reportId' = [s \in Receipt |-> IF s = r THEN c ELSE IF s \in old THEN NoCase ELSE reportId[s]]
    BY <1>6 DEF AddAllowance
  <2>3. QED
    BY <2>1, <2>2 DEF TypeOK
<1>7. ASSUME NEW r \in Receipt, NEW c \in Case \cup {NoCase}, FileInCase(r, c)
      PROVE  Frozen
  BY <1>7 DEF TypeOK, FileInCase, ActionBlocked, IsLocked, Editable
<1>8. ASSUME NEW r \in Receipt, DeleteExpense(r)
      PROVE  Frozen
  BY <1>8 DEF TypeOK, DeleteExpense, ActionBlocked, IsLocked, Editable, Remove
<1>9. ASSUME NEW r \in Receipt, NEW parts \in SUBSET Receipt, MergeParts(r, parts)
      PROVE  Frozen
  BY <1>9 DEF TypeOK, MergeParts, IsLocked, Editable, Remove
<1>10. ASSUME NEW h \in waiting, StoreReceipt(h)
       PROVE  Frozen
  <2>1. h.expense \in Receipt /\ h.into \in Case \cup {NoCase}
    BY DEF TypeOK, Handler
  <2>2. expStatus[h.expense] = "absent" => reportId[h.expense] = NoCase
    BY <2>1 DEF Coherent, NoDanglingReceipt, Exists
  <2>3. QED
    BY <1>10, <2>1, <2>2 DEF TypeOK, StoreReceipt, NewRow, CheckCase, Editable
<1>11. CASE UNCHANGED <<caseStatus, reportId>>
  BY <1>11
<1>12. ASSUME NEW r \in Receipt,
              \/ \E c \in Case \cup {NoCase} : Upload(r, c)
              \/ ReadEnds(r) \/ RetryRead(r) \/ EditDetails(r) \/ AskRate(r) \/ SweepRate(r)
              \/ Reread(r) \/ Review(r) \/ Unreview(r)
              \/ MarkExpenseClaimed(r) \/ UnmarkExpenseClaimed(r)
       PROVE  UNCHANGED <<caseStatus, reportId>>
  BY <1>12 DEF Upload, ReadEnds, RetryRead, EditDetails, AskRate, SweepRate, Reread, Review,
               Unreview, MarkExpenseClaimed, UnmarkExpenseClaimed
<1>13. ASSUME NEW h \in waiting, EditEnds(h) \/ PriceEnds(h) \/ RereadEnds(h)
       PROVE  UNCHANGED <<caseStatus, reportId>>
  BY <1>13 DEF EditEnds, PriceEnds, RereadEnds
<1>14. Restart \/ UNCHANGED vars => UNCHANGED <<caseStatus, reportId>>
  BY DEF Restart, vars
<1>15. QED
  BY <1>1, <1>2, <1>3, <1>4, <1>5, <1>6, <1>7, <1>8, <1>9, <1>10, <1>11, <1>12, <1>13, <1>14
  DEF Next, CaseStep, ReceiptStep, HandlerStep

\* Nothing goes into a claimed case or out of it, and it ends only by being
\* reopened with every receipt it holds unclaimed.
THEOREM ClaimedStaysFrozen == Spec => ClaimedCaseFrozen
<1>1. TypeOK /\ Coherent /\ [Next \/ Restart]_vars => [Frozen]_vars
  BY FrozenStep
<1>2. Spec => []Coherent
  BY ClaimsCoherent DEF Coherent
<1>3. [][Frozen]_vars => ClaimedCaseFrozen
  BY DEF Frozen, ClaimedCaseFrozen
<1>4. QED
  BY <1>1, <1>2, <1>3, TypeCorrect, PTL DEF Spec

-----------------------------------------------------------------------------
(* Numbers.                                                                 *)

LEMMA NumbersStep ==
  ASSUME TypeOK, NumbersGivenOnce, [Next \/ Restart]_vars
  PROVE  NumbersGivenOnce'
<1> USE DEF caseVars, expVars, NumbersGivenOnce
<1>1. ASSUME NEW c \in Case, CreateCase(c) \/ OpenDraft(c)
      PROVE  NumbersGivenOnce'
  <2>1. /\ number[c] = 0
        /\ number' = [number EXCEPT ![c] = nextReportNo]
        /\ nextReportNo' = nextReportNo + 1
        /\ caseStatus' = [caseStatus EXCEPT ![c] = "open"]
    BY <1>1 DEF CreateCase, OpenDraft, NextNumber
  <2>2. \A d \in Case : number'[d] = IF d = c THEN nextReportNo ELSE number[d]
    BY <2>1 DEF TypeOK
  <2>3. \A d \in Case : number[d] \in Nat /\ number[d] < nextReportNo /\ nextReportNo \in Nat \ {0}
    BY DEF TypeOK
  <2>4. \A d \in Case : number'[d] < nextReportNo'
    BY <2>1, <2>2, <2>3
  <2>5. \A d \in Case :
          /\ caseStatus'[d] \in {"absent", "draft"} => number'[d] = 0
          /\ caseStatus'[d] \in {"open", "claimed"} => number'[d] # 0
    BY <2>1, <2>2, <2>3 DEF TypeOK
  <2>6. \A d, e \in Case : number'[d] # 0 /\ number'[d] = number'[e] => d = e
    BY <2>2, <2>3
  <2>7. QED
    BY <2>4, <2>5, <2>6
<1>2. ASSUME NEW c \in Case,
             \/ CreateDraft(c) \/ EditCover(c) \/ DeleteCase(c) \/ DiscardDraft(c)
             \/ MarkClaimed(c) \/ Reopen(c) \/ \E d \in Case : MergeCases(c, d)
      PROVE  NumbersGivenOnce'
  <2>1. /\ UNCHANGED <<number, nextReportNo>>
        /\ \/ caseStatus' = caseStatus
           \/ caseStatus[c] = "absent" /\ caseStatus' = [caseStatus EXCEPT ![c] = "draft"]
           \/ caseStatus' = [caseStatus EXCEPT ![c] = "deleted"]
           \/ caseStatus[c] = "open" /\ caseStatus' = [caseStatus EXCEPT ![c] = "claimed"]
           \/ caseStatus[c] = "claimed" /\ caseStatus' = [caseStatus EXCEPT ![c] = "open"]
    BY <1>2 DEF CreateDraft, EditCover, DeleteCase, DiscardDraft, MarkClaimed, Reopen, MergeCases
  <2>2. QED
    BY <2>1 DEF TypeOK
<1>3. CASE UNCHANGED <<caseStatus, number, nextReportNo>>
  BY <1>3
<1>4. ASSUME ReceiptStep \/ HandlerStep \/ Restart \/ UNCHANGED vars
      PROVE  UNCHANGED <<caseStatus, number, nextReportNo>>
  BY <1>4, RowsLeaveCases DEF caseVars
<1>5. QED
  BY <1>1, <1>2, <1>3, <1>4 DEF Next, CaseStep

\* A case's number is its own: given when it is opened, never twice, and never
\* spent on a draft.
THEOREM NumbersUnique == Spec => []NumbersGivenOnce
<1>1. Init => NumbersGivenOnce
  BY DEF Init, NumbersGivenOnce
<1>2. TypeOK /\ NumbersGivenOnce /\ [Next \/ Restart]_vars => NumbersGivenOnce'
  BY NumbersStep
<1>3. QED
  BY <1>1, <1>2, TypeCorrect, PTL DEF Spec

-----------------------------------------------------------------------------
(* All of it together.                                                     *)

\* Claims stay whole in every reachable state, for any receipts, cases and kinds
\* of waiting handler.
THEOREM CasesHeld == Spec => []CasesHold
BY TypeCorrect, ClaimsCoherent, NumbersUnique, PTL DEF CasesHold

-----------------------------------------------------------------------------
(* The posts of a case.  First, types.                                     *)

Shape ==
  /\ PostTypeOK
  /\ IsFiniteSet(bills)
  /\ \A a \in Attempt :
       /\ pc[a] # "idle" => on[a] \in Case /\ sent[a] \in Bill
       /\ pc[a] \in {"made", "attaching"} => got[a] # 0

LEMMA BillType ==
  ASSUME TypeOK, NEW c \in Case, NEW setting \in Setting
  PROVE  BillOf(c, setting) \in Bill
BY DEF BillOf, Bill, SaysOf, Saying, LinesOf, TypeOK, Figure

LEMMA IdleShape ==
  ASSUME Shape, NEW a \in Attempt, Idle(a), UNCHANGED bills, TypeOK'
  PROVE  Shape'
BY DEF Shape, PostTypeOK, Idle, Stage

\* A step of the case or its receipts, no attempt's.
LEMMA CasesShape ==
  ASSUME Shape, [Next \/ Restart]_vars, UNCHANGED postVars
  PROVE  Shape'
BY TypeStep DEF Shape, PostTypeOK, postVars

LEMMA ShapeStep ==
  ASSUME Shape, [PostNext]_allVars
  PROVE  Shape'
<1> USE CasesAssumption, PostingAssumption DEF expVars, caseVars, caseRest
<1>1. CASE Next /\ UNCHANGED postVars
  BY <1>1, CasesShape
<1>2. ASSUME NEW a \in Attempt, NEW c \in Case, Begin(a, c)
      PROVE  Shape'
  <2>1. TypeOK'
    BY <1>2 DEF Shape, PostTypeOK, TypeOK, Begin, ClaimForPost, Marker
  <2>2. PICK setting \in Setting : sent' = [sent EXCEPT ![a] = BillOf(c, setting)]
    BY <1>2 DEF Begin
  <2>3. BillOf(c, setting) \in Bill
    BY BillType DEF Shape, PostTypeOK
  <2>4. QED
    BY <1>2, <2>1, <2>2, <2>3 DEF Shape, PostTypeOK, Begin, Stage
<1>3. ASSUME NEW a \in Attempt, XeroMakesBill(a)
      PROVE  Shape'
  <2>1. TypeOK'
    BY <1>3 DEF Shape, PostTypeOK, TypeOK, XeroMakesBill
  <2>2. Cardinality(bills) \in Nat
    BY FS_CardinalityType DEF Shape
  <2>3. on[a] \in Case /\ sent[a] \in Bill
    BY <1>3 DEF Shape, XeroMakesBill
  <2>4. /\ got' \in [Attempt -> Nat] /\ got'[a] # 0
        /\ \A b \in Attempt : b # a => got'[b] = got[b]
        /\ bills' \subseteq XeroBill /\ IsFiniteSet(bills')
    <3>1. CASE \E b \in bills : got' = [got EXCEPT ![a] = b.id] /\ UNCHANGED bills
      BY <3>1 DEF Shape, PostTypeOK, XeroBill
    <3>2. CASE /\ got' = [got EXCEPT ![a] = Cardinality(bills) + 1]
               /\ bills' = bills \cup {[id |-> Cardinality(bills) + 1, case |-> on[a], bill |-> sent[a]]}
      <4>1. IsFiniteSet(bills')
        BY <3>2, FS_AddElement DEF Shape
      <4>2. QED
        BY <2>2, <2>3, <3>2, <4>1 DEF Shape, PostTypeOK, XeroBill
    <3>3. QED
      BY <1>3, <3>1, <3>2 DEF XeroMakesBill
  <2>5. QED
    BY <1>3, <2>1, <2>4 DEF Shape, PostTypeOK, XeroMakesBill, Stage
<1>4. ASSUME NEW a \in Attempt, PostFails(a)
      PROVE  Shape'
  <2>1. TypeOK'
    BY <1>4 DEF Shape, PostTypeOK, TypeOK, PostFails, ReleasePost, Marker
  <2>2. QED
    BY <1>4, <2>1, IdleShape DEF PostFails
<1>5. ASSUME NEW a \in Attempt, RecordBill(a)
      PROVE  Shape'
  <2>1. TypeOK'
    BY <1>5 DEF Shape, PostTypeOK, TypeOK, RecordBill, Marker
  <2>2. CASE Idle(a)
    BY <1>5, <2>1, <2>2, IdleShape DEF RecordBill
  <2>3. CASE pc' = [pc EXCEPT ![a] = "attaching"] /\ UNCHANGED <<on, sent, got>>
    BY <1>5, <2>1, <2>3 DEF Shape, PostTypeOK, RecordBill, Stage
  <2>4. QED
    BY <1>5, <2>2, <2>3 DEF RecordBill
<1>6. ASSUME NEW a \in Attempt, Attached(a)
      PROVE  Shape'
  <2>1. TypeOK'
    BY <1>6 DEF Shape, PostTypeOK, TypeOK, Attached, Marker
  <2>2. QED
    BY <1>6, <2>1, IdleShape DEF Attached
<1>7. ASSUME NEW c \in Case, MarkerAges(c)
      PROVE  Shape'
  BY <1>7 DEF Shape, PostTypeOK, TypeOK, MarkerAges, Marker, postVars
<1>8. CASE PostRestart
  <2>1. TypeOK'
    BY <1>8, TypeStep DEF PostRestart, Shape, PostTypeOK
  <2>2. QED
    BY <1>8, <2>1 DEF PostRestart, Shape, PostTypeOK, Stage
<1>9. CASE UNCHANGED allVars
  BY <1>9, CasesShape DEF allVars
<1>10. QED
  BY <1>1, <1>2, <1>3, <1>4, <1>5, <1>6, <1>7, <1>8, <1>9 DEF PostNext, PostStep, AttemptStep

LEMMA ShapeInit == PostInit => Shape
<1> SUFFICES ASSUME PostInit PROVE Shape
  OBVIOUS
<1>1. TypeOK
  BY CasesAssumption DEF PostInit, Init, TypeOK, CaseStatus, ExpStatus, Marker, Figure
<1>2. QED
  BY <1>1, FS_EmptySet DEF PostInit, Shape, PostTypeOK, Stage

\* The types of the composition, posts slow or not.
THEOREM PostTypeCorrect == PostSpec => []PostTypeOK
<1>1. Shape /\ [PostNext]_allVars => Shape'
  BY ShapeStep
<1>2. Shape => PostTypeOK
  BY DEF Shape
<1>3. QED
  BY ShapeInit, <1>1, <1>2, PTL DEF PostSpec

-----------------------------------------------------------------------------
(* One post at a time, on a case that holds still.  The marker is the lock: *)
(* a live post's case is marked, and only the post itself, or ten minutes   *)
(* it does not outlive, takes the mark off.                                 *)

PostInv ==
  /\ Shape
  /\ Coherent
  /\ LiveIsHeld
  /\ OnePost
  /\ BillOnlyOnClaimed
  /\ \A a \in Attempt : pc[a] = "attaching" => xeroInvoiceId[on[a]] # 0

\* What a step of the cases may do to a case's status, marker and bill.
CaseMoves ==
  /\ UNCHANGED xeroInvoiceId
  /\ \A c \in Case :
       /\ caseStatus'[c] # caseStatus[c] /\ caseStatus[c] = "claimed" => ~IsPosting(c) /\ xeroInvoiceId[c] = 0
       /\ IsPosting(c) => xeroError'[c] = "posting"

LEMMA CaseMovesStep ==
  ASSUME TypeOK, [Next \/ Restart]_vars
  PROVE  CaseMoves
<1> USE DEF CaseMoves, IsPosting, caseVars
<1>1. ASSUME NEW c \in Case,
             \/ CreateCase(c) \/ CreateDraft(c) \/ OpenDraft(c) \/ EditCover(c)
             \/ DeleteCase(c) \/ DiscardDraft(c) \/ MarkClaimed(c) \/ Reopen(c)
             \/ \E d \in Case : MergeCases(c, d)
      PROVE  CaseMoves
  <2>1. /\ UNCHANGED xeroInvoiceId
        /\ xeroError' = xeroError \/ \E d \in Case : xeroError' = Touched(d)
        /\ \/ UNCHANGED caseStatus
           \/ \E st \in CaseStatus :
                 /\ caseStatus' = [caseStatus EXCEPT ![c] = st]
                 /\ caseStatus[c] = "claimed" => ~IsPosting(c) /\ xeroInvoiceId[c] = 0
    <3>1. CASE CreateCase(c) \/ CreateDraft(c) \/ OpenDraft(c)
      BY <3>1 DEF CreateCase, CreateDraft, OpenDraft, CaseStatus
    <3>2. CASE EditCover(c) \/ DeleteCase(c) \/ DiscardDraft(c)
      BY <3>2 DEF EditCover, DeleteCase, DiscardDraft, Editable, CaseStatus
    <3>3. CASE MarkClaimed(c) \/ Reopen(c)
      BY <3>3 DEF MarkClaimed, Reopen, CaseStatus
    <3>4. CASE \E d \in Case : MergeCases(c, d)
      BY <3>4 DEF MergeCases, Editable, CaseStatus
    <3>5. QED
      BY <1>1, <3>1, <3>2, <3>3, <3>4
  <2>2. QED
    BY <2>1 DEF TypeOK, Touched
<1>2. CASE UNCHANGED caseVars
  BY <1>2
<1>3. ASSUME ReceiptStep \/ HandlerStep \/ Restart \/ UNCHANGED vars
      PROVE  UNCHANGED caseVars
  BY <1>3, RowsLeaveCases
<1>4. QED
  BY <1>1, <1>2, <1>3 DEF Next, CaseStep

LEMMA PostInvStep ==
  ASSUME ~SlowPosts, PostInv, Shape', [PostNext]_allVars
  PROVE  PostInv'
<1> USE CasesAssumption, PostingAssumption DEF caseVars, expVars, caseRest
<1>1. TypeOK /\ TypeOK'
  BY DEF PostInv, Shape, PostTypeOK
<1>2. ASSUME [Next \/ Restart]_vars, UNCHANGED postVars \/ \A a \in Attempt : pc'[a] = "idle"
      PROVE  PostInv'
  <2>1. Coherent'
    BY <1>1, <1>2, CoherentStep DEF PostInv
  <2>2. CaseMoves
    BY <1>1, <1>2, CaseMovesStep
  <2>3. \A a \in Attempt : pc'[a] # "idle" => pc'[a] = pc[a] /\ on'[a] = on[a] /\ on[a] \in Case
    BY <1>2 DEF postVars, PostInv, Shape
  <2>4. LiveIsHeld'
    BY <2>2, <2>3 DEF PostInv, LiveIsHeld, Live, CaseMoves, IsPosting
  <2>5. OnePost'
    BY <2>3 DEF PostInv, OnePost, Live
  <2>6. BillOnlyOnClaimed'
    BY <2>2 DEF PostInv, BillOnlyOnClaimed, CaseMoves
  <2>7. (\A a \in Attempt : pc[a] = "attaching" => xeroInvoiceId[on[a]] # 0)'
    BY <2>2, <2>3 DEF PostInv, CaseMoves
  <2>8. QED
    BY <2>1, <2>4, <2>5, <2>6, <2>7 DEF PostInv
<1>3. ASSUME UNCHANGED <<caseStatus, expVars>>
      PROVE  Coherent'
  BY <1>1, <1>3, StatusStep DEF PostInv, Exists
<1>4. ASSUME NEW a \in Attempt, NEW c \in Case, Begin(a, c)
      PROVE  PostInv'
  <2>1. /\ pc' = [pc EXCEPT ![a] = "building"] /\ on' = [on EXCEPT ![a] = c]
        /\ pc[a] = "idle" /\ caseStatus[c] = "claimed" /\ xeroInvoiceId[c] = 0 /\ ~IsPosting(c)
        /\ xeroError' = [xeroError EXCEPT ![c] = "posting"]
        /\ UNCHANGED <<caseStatus, expVars, xeroInvoiceId>>
    BY <1>4 DEF Begin, ClaimForPost
  <2>2. \A b \in Attempt : Live(b) => on[b] # c
    BY <2>1 DEF PostInv, LiveIsHeld
  <2>3. LiveIsHeld'
    BY <1>1, <2>1 DEF PostInv, Shape, PostTypeOK, LiveIsHeld, Live, IsPosting, TypeOK
  <2>4. OnePost'
    BY <2>1, <2>2 DEF PostInv, Shape, PostTypeOK, OnePost, Live
  <2>5. BillOnlyOnClaimed' /\ (\A b \in Attempt : pc[b] = "attaching" => xeroInvoiceId[on[b]] # 0)'
    BY <2>1 DEF PostInv, Shape, PostTypeOK, BillOnlyOnClaimed
  <2>6. QED
    BY <1>3, <2>1, <2>3, <2>4, <2>5 DEF PostInv
<1>5. ASSUME NEW a \in Attempt, XeroMakesBill(a)
      PROVE  PostInv'
  <2>1. /\ pc[a] = "building" /\ pc' = [pc EXCEPT ![a] = "made"]
        /\ UNCHANGED <<caseVars, expVars, on>>
    BY <1>5 DEF XeroMakesBill
  <2>2. LiveIsHeld' /\ OnePost' /\ BillOnlyOnClaimed'
    BY <2>1 DEF PostInv, Shape, PostTypeOK, LiveIsHeld, OnePost, BillOnlyOnClaimed, Live, IsPosting
  <2>3. QED
    BY <1>3, <2>1, <2>2 DEF PostInv, Shape, PostTypeOK
<1>6. ASSUME NEW a \in Attempt, PostFails(a)
      PROVE  PostInv'
  <2>1. /\ Live(a) /\ on[a] \in Case
        /\ pc' = [pc EXCEPT ![a] = "idle"] /\ on' = [on EXCEPT ![a] = NoCase]
        /\ xeroError' = [xeroError EXCEPT ![on[a]] = "none"]
        /\ UNCHANGED <<caseStatus, expVars, xeroInvoiceId>>
    BY <1>6 DEF PostFails, Idle, ReleasePost, Live, PostInv, Shape
  <2>2. \A b \in Attempt : b # a /\ Live(b) => on[b] # on[a]
    BY <2>1 DEF PostInv, OnePost
  <2>3. LiveIsHeld'
    BY <1>1, <2>1, <2>2 DEF PostInv, Shape, PostTypeOK, LiveIsHeld, Live, IsPosting, TypeOK
  <2>4. OnePost' /\ BillOnlyOnClaimed' /\ (\A b \in Attempt : pc[b] = "attaching" => xeroInvoiceId[on[b]] # 0)'
    BY <2>1 DEF PostInv, Shape, PostTypeOK, OnePost, BillOnlyOnClaimed, Live
  <2>5. QED
    BY <1>3, <2>1, <2>3, <2>4 DEF PostInv
<1>7. ASSUME NEW a \in Attempt, RecordBill(a)
      PROVE  PostInv'
  <2>1. /\ Live(a) /\ on[a] \in Case /\ got[a] # 0 /\ got[a] \in Nat
        /\ caseStatus[on[a]] = "claimed" /\ xeroInvoiceId[on[a]] = 0
    BY <1>7 DEF RecordBill, Live, PostInv, Shape, PostTypeOK, LiveIsHeld
  <2>2. /\ xeroInvoiceId' = [xeroInvoiceId EXCEPT ![on[a]] = got[a]]
        /\ xeroError' = [xeroError EXCEPT ![on[a]] = "none"]
        /\ pc' = [pc EXCEPT ![a] = "attaching"]
        /\ UNCHANGED <<caseStatus, expVars, on>>
    BY <1>7, <2>1 DEF RecordBill
  <2>3. \A b \in Attempt : b # a /\ Live(b) => on[b] # on[a]
    BY <2>1 DEF PostInv, OnePost
  <2>4. LiveIsHeld'
    BY <1>1, <2>1, <2>2, <2>3 DEF PostInv, Shape, PostTypeOK, LiveIsHeld, Live, IsPosting, TypeOK
  <2>5. OnePost' /\ BillOnlyOnClaimed'
    BY <1>1, <2>1, <2>2 DEF PostInv, Shape, PostTypeOK, OnePost, BillOnlyOnClaimed, Live, TypeOK
  <2>6. (\A b \in Attempt : pc[b] = "attaching" => xeroInvoiceId[on[b]] # 0)'
    BY <1>1, <2>1, <2>2 DEF PostInv, Shape, PostTypeOK, TypeOK
  <2>7. QED
    BY <1>3, <2>2, <2>4, <2>5, <2>6 DEF PostInv
<1>8. ASSUME NEW a \in Attempt, Attached(a)
      PROVE  PostInv'
  <2>1. /\ pc[a] = "attaching" /\ on[a] \in Case /\ xeroInvoiceId[on[a]] # 0
        /\ pc' = [pc EXCEPT ![a] = "idle"] /\ on' = [on EXCEPT ![a] = NoCase]
        /\ xeroError' = [xeroError EXCEPT ![on[a]] = "none"]
        /\ UNCHANGED <<caseStatus, expVars, xeroInvoiceId>>
    BY <1>8 DEF Attached, Idle, PostInv, Shape
  <2>2. \A b \in Attempt : Live(b) => on[b] # on[a]
    BY <2>1 DEF PostInv, LiveIsHeld
  <2>3. LiveIsHeld'
    BY <1>1, <2>1, <2>2 DEF PostInv, Shape, PostTypeOK, LiveIsHeld, Live, IsPosting, TypeOK
  <2>4. OnePost' /\ BillOnlyOnClaimed' /\ (\A b \in Attempt : pc[b] = "attaching" => xeroInvoiceId[on[b]] # 0)'
    BY <2>1 DEF PostInv, Shape, PostTypeOK, OnePost, BillOnlyOnClaimed, Live
  <2>5. QED
    BY <1>3, <2>1, <2>3, <2>4 DEF PostInv
<1>9. ASSUME NEW c \in Case, MarkerAges(c)
      PROVE  PostInv'
  <2>1. /\ \A a \in Attempt : on[a] = c => ~Live(a)
        /\ xeroError' = [xeroError EXCEPT ![c] = "stale"]
        /\ UNCHANGED <<caseStatus, expVars, xeroInvoiceId, pc, on>>
    BY <1>9 DEF MarkerAges, Live, postVars
  <2>2. LiveIsHeld'
    BY <1>1, <2>1 DEF PostInv, LiveIsHeld, Live, IsPosting, TypeOK
  <2>3. OnePost' /\ BillOnlyOnClaimed' /\ (\A b \in Attempt : pc[b] = "attaching" => xeroInvoiceId[on[b]] # 0)'
    BY <2>1 DEF PostInv, OnePost, BillOnlyOnClaimed, Live
  <2>4. QED
    BY <1>3, <2>1, <2>2, <2>3 DEF PostInv
<1>10. CASE Next /\ UNCHANGED postVars
  BY <1>2, <1>10
<1>11. CASE PostRestart
  BY <1>2, <1>11 DEF PostRestart
<1>12. CASE UNCHANGED allVars
  BY <1>2, <1>12 DEF allVars
<1>13. QED
  BY <1>4, <1>5, <1>6, <1>7, <1>8, <1>9, <1>10, <1>11, <1>12 DEF PostNext, PostStep, AttemptStep

LEMMA PostInvInit == PostInit => PostInv
<1> SUFFICES ASSUME PostInit PROVE PostInv
  OBVIOUS
<1>1. Coherent
  BY CasesAssumption DEF PostInit, Init, Coherent, ClaimedTogether, NeverClaimedTwice, NoDanglingReceipt, Exists
<1>2. QED
  BY <1>1, ShapeInit DEF PostInit, Init, PostInv, LiveIsHeld, OnePost, BillOnlyOnClaimed, Live

LEMMA PostInvariant == ~SlowPosts /\ PostSpec => []PostInv
<1>1. ~SlowPosts /\ PostInv /\ [PostNext]_allVars => PostInv'
  BY ShapeStep, PostInvStep DEF PostInv
<1>2. ASSUME ~SlowPosts PROVE PostSpec => []PostInv
  <2>1. PostInv /\ [PostNext]_allVars => PostInv'
    BY <1>1, <1>2
  <2>2. QED
    BY PostInvInit, <2>1, PTL DEF PostSpec
<1>3. QED
  BY <1>2

\* While posts end in time: never two for one case, each on a case that is
\* claimed, marked and without a bill from its start until its bill is
\* recorded, and no bill ends on a case that was reopened.
THEOREM PostsHeld ==
  ~SlowPosts /\ PostSpec => [](OnePost /\ LiveIsHeld /\ BillOnlyOnClaimed)
<1>1. PostInv => OnePost /\ LiveIsHeld /\ BillOnlyOnClaimed
  BY DEF PostInv
<1>2. QED
  BY PostInvariant, <1>1, PTL

-----------------------------------------------------------------------------
(* The system implements the register of claims.                            *)

LEMMA WordsApart ==
  /\ "unclaimed" \notin Case /\ "alone" \notin Case
  /\ NoCase \notin Case
BY CasesAssumption, PostingAssumption

\* A step in which a receipt's claim stays, or was its own and is taken back.
ClaimKept(r) == ClaimOf(r)' = ClaimOf(r)
ClaimUndone(r) == ClaimOf(r) = "alone" /\ ClaimOf(r)' = "unclaimed"

LEMMA TakenBack ==
  ASSUME UNCHANGED xeroInvoiceId,
         \A r \in Receipt : ClaimKept(r) \/ ClaimUndone(r)
  PROVE  Register!Next
<1> DEFINE S == {r \in Receipt : ~ClaimKept(r)}
<1>1. \A r \in S : ClaimOf(r) = "alone" /\ ClaimOf(r)' = "unclaimed"
  BY DEF ClaimUndone
<1>2. \A r \in Receipt : ClaimOf(r)' = IF r \in S THEN "unclaimed" ELSE ClaimOf(r)
  BY <1>1 DEF ClaimKept
<1>3. Register!Withdraw(S)
  BY <1>1, <1>2 DEF Register!Withdraw
<1>4. QED
  BY <1>3 DEF Register!Next

\* The same of the columns: what is claimed with a case stays as it is, and a
\* receipt in no claimed case is filed, left or removed only unclaimed or whole.
LEMMA QuietStep ==
  ASSUME TypeOK, TypeOK', Coherent, UNCHANGED xeroInvoiceId,
         \A r \in Receipt :
           \/ claimedAt'[r] = claimedAt[r] /\ reportId'[r] = reportId[r]
           \/ ~claimedAt[r] /\ ~claimedAt'[r]
           \/ ~claimedAt'[r] /\ ~IsLocked(r)
  PROVE  Register!Next
<1>1. ASSUME NEW r \in Receipt
      PROVE  ClaimKept(r) \/ ClaimUndone(r)
  <2>1. CASE claimedAt'[r] = claimedAt[r] /\ reportId'[r] = reportId[r]
    BY <2>1 DEF ClaimKept, ClaimOf
  <2>2. CASE ~claimedAt[r] /\ ~claimedAt'[r]
    BY <2>2 DEF ClaimKept, ClaimOf
  <2>3. CASE claimedAt[r] /\ ~claimedAt'[r] /\ ~IsLocked(r)
    <3>1. reportId[r] = NoCase
      BY <2>3 DEF Coherent, NeverClaimedTwice, IsLocked, Editable, TypeOK
    <3>2. QED
      BY <2>3, <3>1 DEF ClaimUndone, ClaimOf
  <2>4. QED
    BY <2>1, <2>2, <2>3
<1>2. QED
  BY <1>1, TakenBack

LEMMA RegisterCases ==
  ASSUME TypeOK, TypeOK', Coherent, [Next \/ Restart]_vars
  PROVE  [Register!Next]_(Register!vars)
<1> USE CasesAssumption DEF caseVars, expVars
<1>1. ASSUME NEW c \in Case, MarkClaimed(c)
      PROVE  Register!Next
  <2>1. /\ Members(c) # {} /\ Members(c) \in SUBSET Receipt
        /\ \A r \in Members(c) : ~claimedAt[r] /\ reportId[r] = c
        /\ caseStatus[c] = "open"
        /\ UNCHANGED <<xeroInvoiceId, reportId>>
    BY <1>1 DEF MarkClaimed, Claimable, Members
  <2>2. \A r \in Receipt : ClaimOf(r) # c
    BY <2>1, WordsApart DEF ClaimOf, Coherent, NeverClaimedTwice
  <2>3. \A r \in Members(c) : ClaimOf(r) = "unclaimed"
    BY <2>1 DEF ClaimOf
  <2>4. \A r \in Receipt : ClaimOf(r)' = IF r \in Members(c) THEN c ELSE ClaimOf(r)
    <3>1. \A r \in Receipt : claimedAt'[r] <=> (reportId[r] = c \/ claimedAt[r])
      BY <1>1 DEF MarkClaimed
    <3>2. QED
      BY <2>1, <3>1, WordsApart DEF ClaimOf, Members
  <2>5. Register!ClaimCase(c, Members(c))
    BY <2>1, <2>2, <2>3, <2>4 DEF Register!ClaimCase, Register!With
  <2>6. QED
    BY <2>1, <2>5 DEF Register!Next
<1>2. ASSUME NEW c \in Case, Reopen(c)
      PROVE  Register!Next
  <2>1. /\ caseStatus[c] = "claimed" /\ xeroInvoiceId[c] = 0
        /\ UNCHANGED <<xeroInvoiceId, reportId>>
    BY <1>2 DEF Reopen
  <2>2. \E r \in Receipt : ClaimOf(r) = c
    BY <2>1, WordsApart DEF ClaimOf, Coherent, ClaimedTogether
  <2>3. \A r \in Receipt : ClaimOf(r)' = IF ClaimOf(r) = c THEN "unclaimed" ELSE ClaimOf(r)
    <3>1. \A r \in Receipt : claimedAt'[r] <=> (reportId[r] # c /\ claimedAt[r])
      BY <1>2 DEF Reopen
    <3>2. QED
      BY <2>1, <3>1, WordsApart DEF ClaimOf
  <2>4. Register!UndoCase(c)
    BY <2>1, <2>2, <2>3 DEF Register!UndoCase, Register!With
  <2>5. QED
    BY <2>4 DEF Register!Next
<1>3. ASSUME NEW r \in Receipt, MarkExpenseClaimed(r)
      PROVE  [Register!Next]_(Register!vars)
  <2>1. /\ reportId[r] = NoCase
        /\ claimedAt' = [claimedAt EXCEPT ![r] = TRUE]
        /\ UNCHANGED <<xeroInvoiceId, reportId>>
    BY <1>3 DEF MarkExpenseClaimed
  <2>2. CASE claimedAt[r]
    <3>1. \A s \in Receipt : ClaimKept(s)
      BY <2>1, <2>2 DEF ClaimKept, ClaimOf, TypeOK
    <3>2. QED
      BY <2>1, <3>1, TakenBack
  <2>3. CASE ~claimedAt[r]
    <3>1. ClaimOf(r) = "unclaimed"
      BY <2>3 DEF ClaimOf
    <3>2. \A s \in Receipt : ClaimOf(s)' = IF s = r THEN "alone" ELSE ClaimOf(s)
      BY <2>1 DEF ClaimOf, TypeOK
    <3>3. [s \in Receipt |-> ClaimOf(s)'] = [[s \in Receipt |-> ClaimOf(s)] EXCEPT ![r] = "alone"]
      BY <3>2
    <3>4. Register!ClaimAlone(r)
      BY <2>1, <3>1, <3>3 DEF Register!ClaimAlone
    <3>5. QED
      BY <3>4 DEF Register!Next
  <2>4. QED
    BY <2>2, <2>3
<1>4. ASSUME UNCHANGED <<xeroInvoiceId, reportId, claimedAt>>
      PROVE  Register!Next
  BY <1>4, QuietStep
<1>5. ASSUME NEW c \in Case, CreateCase(c) \/ CreateDraft(c) \/ OpenDraft(c) \/ EditCover(c)
      PROVE  Register!Next
  BY <1>4, <1>5 DEF CreateCase, CreateDraft, OpenDraft, EditCover
<1>6. ASSUME NEW c \in Case, DeleteCase(c) \/ \E d \in Case : MergeCases(c, d)
      PROVE  Register!Next
  <2>1. \A r \in Receipt : reportId[r] = c => ~claimedAt[r]
    BY <1>6 DEF DeleteCase, MergeCases, Editable, Coherent, NeverClaimedTwice
  <2>2. UNCHANGED <<xeroInvoiceId, claimedAt>> /\ \A r \in Receipt : reportId[r] # c => reportId'[r] = reportId[r]
    BY <1>6 DEF DeleteCase, MergeCases
  <2>3. QED
    BY <2>1, <2>2, QuietStep
<1>7. ASSUME NEW S \in SUBSET Receipt, Remove(S), UNCHANGED xeroInvoiceId, \A r \in S : ~IsLocked(r)
      PROVE  Register!Next
  <2>1. \A r \in Receipt : r \in S => ~claimedAt'[r]
    BY <1>7 DEF Remove
  <2>2. \A r \in Receipt : r \notin S => reportId'[r] = reportId[r]
    BY <1>7 DEF Remove
  <2>3. \A r \in Receipt : r \notin S => claimedAt'[r] = claimedAt[r]
    <3>1. \A r \in Receipt : claimedAt'[r] = (r \notin S /\ claimedAt[r])
      BY <1>7 DEF Remove
    <3>2. QED
      BY <3>1 DEF TypeOK
  <2>4. QED
    BY <1>7, <2>1, <2>2, <2>3, QuietStep
<1>8. ASSUME NEW c \in Case, DiscardDraft(c)
      PROVE  Register!Next
  <2>1. Members(c) \in SUBSET Receipt /\ \A r \in Members(c) : ~IsLocked(r)
    BY <1>8 DEF DiscardDraft, Members, IsLocked, Editable
  <2>2. QED
    BY <1>7, <1>8, <2>1 DEF DiscardDraft
<1>9. ASSUME NEW r \in Receipt, DeleteExpense(r) \/ \E parts \in SUBSET Receipt : MergeParts(r, parts)
      PROVE  Register!Next
  BY <1>7, <1>9 DEF DeleteExpense, MergeParts, ActionBlocked
<1>10. ASSUME NEW r \in Receipt, NEW c \in Case \cup {NoCase}, NewRow(r, c), UNCHANGED <<xeroInvoiceId, claimedAt>>
       PROVE  Register!Next
  <2>1. ~claimedAt[r] /\ \A s \in Receipt : s # r => reportId'[s] = reportId[s]
    BY <1>10 DEF NewRow, Coherent, NoDanglingReceipt, Exists, TypeOK
  <2>2. QED
    BY <1>10, <2>1, QuietStep
<1>11. ASSUME NEW r \in Receipt, NEW s \in Receipt, Sibling(r, s)
       PROVE  Register!Next
  BY <1>10, <1>11 DEF Sibling, TypeOK
<1>12. ASSUME NEW h \in waiting, StoreReceipt(h)
       PROVE  Register!Next
  <2>1. h.expense \in Receipt /\ h.into \in Case \cup {NoCase}
    BY DEF TypeOK, Handler
  <2>2. QED
    BY <1>4, <1>10, <1>12, <2>1 DEF StoreReceipt
<1>13. ASSUME NEW r \in Receipt, NEW c \in Case, NEW old \in SUBSET Receipt, AddAllowance(r, c, old)
       PROVE  Register!Next
  <2>1. /\ UNCHANGED xeroInvoiceId
        /\ ~claimedAt[r]
        /\ \A s \in old : ~IsLocked(s)
    BY <1>13 DEF AddAllowance, Fresh, Members, IsLocked, Editable, Coherent, NoDanglingReceipt, Exists
  <2>2. \A s \in Receipt :
          /\ s = r => ~claimedAt'[s]
          /\ s \in old => ~claimedAt'[s]
          /\ s # r /\ s \notin old => claimedAt'[s] = claimedAt[s] /\ reportId'[s] = reportId[s]
    <3>1. \A s \in Receipt : claimedAt'[s] = (s \notin old /\ claimedAt[s])
      BY <1>13 DEF AddAllowance
    <3>2. \A s \in Receipt : s # r /\ s \notin old => reportId'[s] = reportId[s]
      BY <1>13 DEF AddAllowance
    <3>3. QED
      BY <2>1, <3>1, <3>2 DEF TypeOK
  <2>3. QED
    BY <2>1, <2>2, QuietStep
<1>14. ASSUME NEW r \in Receipt, NEW c \in Case \cup {NoCase}, FileInCase(r, c)
       PROVE  Register!Next
  <2>1. /\ UNCHANGED <<xeroInvoiceId, claimedAt>>
        /\ \A s \in Receipt : s # r => reportId'[s] = reportId[s]
        /\ ~claimedAt[r]
    BY <1>14 DEF FileInCase, ActionBlocked, IsLocked, Editable, Coherent, NeverClaimedTwice, TypeOK
  <2>2. QED
    BY <2>1, QuietStep
<1>15. ASSUME NEW r \in Receipt, UnmarkExpenseClaimed(r)
       PROVE  Register!Next
  <2>1. /\ UNCHANGED <<xeroInvoiceId, reportId>>
        /\ ~IsLocked(r) /\ ~claimedAt'[r]
        /\ \A s \in Receipt : s # r => claimedAt'[s] = claimedAt[s]
    BY <1>15 DEF UnmarkExpenseClaimed, TypeOK
  <2>2. QED
    BY <2>1, QuietStep
<1>16. ASSUME NEW r \in Receipt,
              \/ \E c \in Case \cup {NoCase} : Upload(r, c)
              \/ ReadEnds(r) \/ RetryRead(r) \/ EditDetails(r) \/ AskRate(r) \/ SweepRate(r)
              \/ Reread(r) \/ Review(r) \/ Unreview(r)
       PROVE  Register!Next
  BY <1>4, <1>16 DEF Upload, ReadEnds, RetryRead, EditDetails, AskRate, SweepRate, Reread, Review, Unreview
<1>17. ASSUME NEW h \in waiting, EditEnds(h) \/ PriceEnds(h) \/ RereadEnds(h)
       PROVE  Register!Next
  BY <1>4, <1>17 DEF EditEnds, PriceEnds, RereadEnds
<1>18. ASSUME Restart \/ UNCHANGED vars
       PROVE  Register!Next
  BY <1>4, <1>18 DEF Restart, vars
<1>19. QED
  BY <1>1, <1>2, <1>3, <1>5, <1>6, <1>8, <1>9, <1>11, <1>12, <1>13, <1>14, <1>15, <1>16, <1>17, <1>18
  DEF Next, CaseStep, ReceiptStep, HandlerStep

LEMMA RegisterStep ==
  ASSUME PostInv, PostInv', [PostNext]_allVars
  PROVE  [Register!Next]_(Register!vars)
<1> USE DEF caseVars, expVars, caseRest
<1>1. TypeOK /\ TypeOK' /\ Coherent
  BY DEF PostInv, Shape, PostTypeOK
<1>2. ASSUME [Next \/ Restart]_vars
      PROVE  [Register!Next]_(Register!vars)
  BY <1>1, <1>2, RegisterCases
<1>3. ASSUME UNCHANGED <<expVars, xeroInvoiceId>>
      PROVE  [Register!Next]_(Register!vars)
  BY <1>1, <1>3, QuietStep
<1>4. ASSUME NEW a \in Attempt, NEW c \in Case, on[a] = c, RecordBill(a)
      PROVE  [Register!Next]_(Register!vars)
  <2>1. /\ got[a] # 0 /\ pc[a] = "made"
        /\ caseStatus[c] = "claimed" /\ xeroInvoiceId[c] = 0
    BY <1>4 DEF RecordBill, Live, PostInv, Shape, LiveIsHeld
  <2>2. UNCHANGED expVars /\ xeroInvoiceId' = [xeroInvoiceId EXCEPT ![c] = got[a]]
    BY <1>4, <2>1 DEF RecordBill
  <2>3. \E r \in Receipt : ClaimOf(r) = c
    BY <1>1, <2>1, WordsApart DEF ClaimOf, Coherent, ClaimedTogether
  <2>4. \A r \in Receipt : ClaimOf(r)' = ClaimOf(r)
    BY <2>2 DEF ClaimOf
  <2>5. {d \in Case : xeroInvoiceId'[d] # 0} = {d \in Case : xeroInvoiceId[d] # 0} \cup {c}
    BY <1>1, <2>1, <2>2 DEF TypeOK
  <2>6. Register!Finalise(c)
    BY <2>1, <2>3, <2>4, <2>5 DEF Register!Finalise, Register!With
  <2>7. QED
    BY <2>6 DEF Register!Next
<1>5. ASSUME NEW a \in Attempt, XeroMakesBill(a) \/ PostFails(a) \/ Attached(a) \/ \E c \in Case : Begin(a, c)
      PROVE  UNCHANGED <<expVars, xeroInvoiceId>>
  BY <1>5 DEF XeroMakesBill, PostFails, Attached, Begin
<1>6. ASSUME NEW c \in Case, MarkerAges(c)
      PROVE  UNCHANGED <<expVars, xeroInvoiceId>>
  BY <1>6 DEF MarkerAges
<1>7. ASSUME NEW a \in Attempt, RecordBill(a)
      PROVE  on[a] \in Case
  BY <1>7 DEF RecordBill, PostInv, Shape
<1>8. QED
  BY <1>2, <1>3, <1>4, <1>5, <1>6, <1>7 DEF PostNext, PostStep, AttemptStep, PostRestart, allVars

LEMMA RegisterInit == PostInit => Register!Init
<1> SUFFICES ASSUME PostInit PROVE Register!Init
  OBVIOUS
<1>1. \A r \in Receipt : ClaimOf(r) = "unclaimed"
  BY DEF PostInit, Init, ClaimOf
<1>2. {c \in Case : xeroInvoiceId[c] # 0} = {}
  BY DEF PostInit, Init
<1>3. QED
  BY <1>1, <1>2 DEF Register!Init

\* While posts end in time, the system is a register of claims: every claim is
\* of a receipt on its own or of a whole case, undone whole, and final with
\* its bill.
THEOREM ImplementsRegister == ~SlowPosts /\ PostSpec => RegisterSpec
<1>1. PostInv /\ PostInv' /\ [PostNext]_allVars => [Register!Next]_(Register!vars)
  BY RegisterStep
<1>2. QED
  BY RegisterInit, PostInvariant, <1>1, PTL DEF PostSpec, RegisterSpec, Register!Spec

-----------------------------------------------------------------------------
\* If no post outlives its marker, posts stay single and what they post is held.
THEOREM PostsStayHeld == ~SlowPosts /\ PostSpec => []PostsHold
BY PostTypeCorrect, PostsHeld, PTL DEF PostsHold
-----------------------------------------------------------------------------
(* What is posted is the case.                                              *)

\* No step but Xero's own touches what Xero holds.
LEMMA BillsKeptBut ==
  ASSUME [PostNext]_allVars, \A a \in Attempt : ~XeroMakesBill(a)
  PROVE  UNCHANGED bills
BY DEF PostNext, PostStep, AttemptStep, PostRestart, allVars, postVars, Begin, PostFails, RecordBill,
       Attached, MarkerAges

LEMMA SameBillStep ==
  ASSUME \A x, y \in Setting : x = y, Shape, SameCaseSameBill, [PostNext]_allVars
  PROVE  SameCaseSameBill'
<1>1. ASSUME NEW a \in Attempt, XeroMakesBill(a)
      PROVE  SameCaseSameBill'
  <2>1. on[a] \in Case /\ sent[a] \in Bill
    BY <1>1 DEF Shape, XeroMakesBill
  <2>2. \A b \in bills : b.case \in Case /\ b.bill \in Bill
    BY DEF Shape, PostTypeOK, XeroBill
  <2>3. CASE UNCHANGED bills
    BY <2>3 DEF SameCaseSameBill
  <2>4. CASE /\ {b \in bills : Key(b.case, b.bill) = Key(on[a], sent[a])} = {}
             /\ bills' = bills \cup {[id |-> Cardinality(bills) + 1, case |-> on[a], bill |-> sent[a]]}
    <3>1. \A b \in bills : b.case # on[a] \/ b.bill # sent[a]
      BY <2>4 DEF Key
    <3>2. \A x, y \in Bill : x.says = y.says => x = y
      BY DEF Bill
    <3>3. \A b \in bills : b.case # on[a] \/ b.bill.says # sent[a].says
      BY <2>1, <2>2, <3>1, <3>2
    <3>4. QED
      BY <2>4, <3>3 DEF SameCaseSameBill
  <2>5. QED
    BY <1>1, <2>3, <2>4 DEF XeroMakesBill
<1>2. CASE \A a \in Attempt : ~XeroMakesBill(a)
  BY <1>2, BillsKeptBut DEF SameCaseSameBill
<1>3. QED
  BY <1>1, <1>2

\* While what a bill takes from outside its case stays as it is, a case posted
\* again gets the bill it has as long as it says the same: its lines, its title,
\* its advance and the day it was claimed, reopened in between or not, posts slow
\* or not, whatever was lost or stopped.
THEOREM OneBillForTheSame ==
  (\A x, y \in Setting : x = y) /\ PostSpec => []SameCaseSameBill
<1>1. ASSUME \A x, y \in Setting : x = y
      PROVE  PostSpec => []SameCaseSameBill
  <2>1. PostInit => SameCaseSameBill
    BY DEF PostInit, SameCaseSameBill
  <2>2. Shape /\ [PostNext]_allVars => Shape'
    BY ShapeStep
  <2>3. Shape /\ SameCaseSameBill /\ [PostNext]_allVars => SameCaseSameBill'
    BY <1>1, SameBillStep
  <2>4. QED
    BY <2>1, <2>2, <2>3, ShapeInit, PTL DEF PostSpec
<1>2. QED
  BY <1>1

Kept ==
  \A c \in Case : xeroInvoiceId[c] # 0 /\ caseStatus'[c] # "deleted" => xeroInvoiceId'[c] = xeroInvoiceId[c]

LEMMA KeptStep ==
  ASSUME Shape, [PostNext]_allVars
  PROVE  Kept
<1> USE DEF caseVars, caseRest
<1>1. ASSUME NEW a \in Attempt, RecordBill(a)
      PROVE  Kept
  BY <1>1 DEF Kept, RecordBill, Shape, PostTypeOK, TypeOK
<1>2. CASE UNCHANGED xeroInvoiceId
  BY <1>2 DEF Kept
<1>3. ASSUME [Next \/ Restart]_vars
      PROVE  UNCHANGED xeroInvoiceId
  BY <1>3, CaseMovesStep DEF CaseMoves, Shape, PostTypeOK
<1>4. ASSUME NEW a \in Attempt, XeroMakesBill(a) \/ PostFails(a) \/ Attached(a) \/ \E c \in Case : Begin(a, c)
      PROVE  UNCHANGED xeroInvoiceId
  BY <1>4 DEF XeroMakesBill, PostFails, Attached, Begin
<1>5. ASSUME NEW c \in Case, MarkerAges(c)
      PROVE  UNCHANGED xeroInvoiceId
  BY <1>5 DEF MarkerAges
<1>6. QED
  BY <1>1, <1>2, <1>3, <1>4, <1>5 DEF PostNext, PostStep, AttemptStep, PostRestart, allVars

\* A recorded bill is never exchanged for another one or lost, posts slow or
\* not and whatever two attempts come back in which order.
THEOREM BillStaysKept == PostSpec => BillKept
<1>1. Shape /\ [PostNext]_allVars => Shape'
  BY ShapeStep
<1>2. Shape /\ [PostNext]_allVars => [Kept]_allVars
  BY KeptStep
<1>3. [][Kept]_allVars => BillKept
  BY DEF Kept, BillKept
<1>4. QED
  BY ShapeInit, <1>1, <1>2, <1>3, PTL DEF PostSpec

\* The case of a live or recorded post, while nothing but a file being
\* converted waits: no figure of its receipts moves.
Held(c) == caseStatus[c] = "claimed" /\ (IsPosting(c) \/ xeroInvoiceId[c] # 0)

LEMMA FiguresKept ==
  ASSUME Background \subseteq {"upload"}, TypeOK, Coherent, ClaimedChecked, [Next \/ Restart]_vars,
         NEW r \in Receipt, reportId[r] \in Case, Held(reportId[r])
  PROVE  base'[r] = base[r]
<1> USE CasesAssumption DEF caseVars, expVars
<1>1. expStatus[r] = "reviewed" /\ IsLocked(r) /\ DetailsBlocked(r)
  BY DEF ClaimedChecked, IsLocked, Editable, DetailsBlocked, IsPosted, InPosting, Held, TypeOK
<1>2. ASSUME NEW S \in SUBSET Receipt, Remove(S), r \notin S
      PROVE  base'[r] = base[r]
  BY <1>2 DEF Remove
<1>3. ASSUME NEW c \in Case, DiscardDraft(c)
      PROVE  base'[r] = base[r]
  <2>1. Members(c) \in SUBSET Receipt /\ r \notin Members(c) /\ Remove(Members(c))
    BY <1>3 DEF DiscardDraft, Members, Held
  <2>2. QED
    BY <1>2, <2>1
<1>4. ASSUME NEW s \in Receipt, DeleteExpense(s) \/ \E parts \in SUBSET Receipt : MergeParts(s, parts)
      PROVE  base'[r] = base[r]
  <2>1. CASE DeleteExpense(s)
    <3>1. {s} \in SUBSET Receipt /\ r \notin {s} /\ Remove({s})
      BY <1>1, <2>1 DEF DeleteExpense, ActionBlocked
    <3>2. QED
      BY <1>2, <3>1
  <2>2. ASSUME NEW parts \in SUBSET Receipt, MergeParts(s, parts)
        PROVE  base'[r] = base[r]
    BY <1>1, <1>2, <2>2 DEF MergeParts
  <2>3. QED
    BY <1>4, <2>1, <2>2
<1>5. ASSUME NEW s \in Receipt, ReadEnds(s) \/ EditDetails(s)
      PROVE  base'[r] = base[r]
  <2>1. s # r
    BY <1>1, <1>5 DEF ReadEnds, EditDetails
  <2>2. \E b \in Figure : base' = [base EXCEPT ![s] = b]
    BY <1>5 DEF ReadEnds, EditDetails
  <2>3. QED
    BY <2>1, <2>2 DEF TypeOK
<1>6. ASSUME NEW s \in Receipt, NEW c \in Case, NEW old \in SUBSET Receipt, AddAllowance(s, c, old)
      PROVE  base'[r] = base[r]
  <2>1. r # s /\ r \notin old
    BY <1>1, <1>6 DEF AddAllowance, Fresh, Members, Editable, Held
  <2>2. PICK b \in OwnRate \cup {NoRate} :
          base' = [t \in Receipt |-> IF t = s THEN b ELSE IF t \in old THEN NoRate ELSE base[t]]
    BY <1>6 DEF AddAllowance
  <2>3. QED
    BY <2>1, <2>2
<1>7. ASSUME NEW h \in waiting, EditEnds(h) \/ PriceEnds(h) \/ RereadEnds(h)
      PROVE  FALSE
  <2>1. h.kind = "upload"
    BY DEF TypeOK, Handler
  <2>2. QED
    BY <1>7, <2>1 DEF EditEnds, PriceEnds, RereadEnds
<1>8. ASSUME NEW c \in Case,
             \/ CreateCase(c) \/ CreateDraft(c) \/ OpenDraft(c) \/ EditCover(c)
             \/ DeleteCase(c) \/ MarkClaimed(c) \/ Reopen(c)
             \/ \E d \in Case : MergeCases(c, d)
      PROVE  UNCHANGED base
  BY <1>8 DEF CreateCase, CreateDraft, OpenDraft, EditCover, DeleteCase, MarkClaimed, Reopen, MergeCases
<1>9. ASSUME NEW s \in Receipt,
             \/ \E c \in Case \cup {NoCase} : Upload(s, c)
             \/ \E t \in Receipt : Sibling(s, t)
             \/ RetryRead(s) \/ AskRate(s) \/ SweepRate(s) \/ Reread(s) \/ Review(s) \/ Unreview(s)
             \/ \E c \in Case \cup {NoCase} : FileInCase(s, c)
             \/ MarkExpenseClaimed(s) \/ UnmarkExpenseClaimed(s)
      PROVE  UNCHANGED base
  BY <1>9 DEF Upload, Sibling, RetryRead, AskRate, SweepRate, Reread, Review, Unreview, FileInCase,
     MarkExpenseClaimed, UnmarkExpenseClaimed
<1>10. (\E h \in waiting : StoreReceipt(h)) \/ Restart \/ UNCHANGED vars => UNCHANGED base
  BY DEF StoreReceipt, Restart, vars
<1>11. QED
  BY <1>3, <1>4, <1>5, <1>6, <1>7, <1>8, <1>9, <1>10
  DEF Next, CaseStep, ReceiptStep, HandlerStep

LEMMA LinesKept ==
  ASSUME Background \subseteq {"upload"}, TypeOK, Coherent, ClaimedChecked, [Next \/ Restart]_vars,
         NEW c \in Case, Held(c)
  PROVE  LinesOf(c)' = LinesOf(c)
<1>1. Frozen /\ CaseMoves
  BY FrozenStep, CaseMovesStep
<1>2. caseStatus'[c] = "claimed"
  BY <1>1 DEF Frozen, CaseMoves, Held
<1>3. \A r \in Receipt : reportId[r] = c <=> reportId'[r] = c
  BY <1>1, <1>2 DEF Frozen, Held
<1>4. \A r \in Receipt : reportId[r] = c => base'[r] = base[r]
  BY FiguresKept
<1>5. QED
  BY <1>3, <1>4 DEF LinesOf

\* Nor does its title, its advance or its day: while it is held nobody edits its
\* cover or reopens it.
LEMMA CoverKept ==
  ASSUME TypeOK, [Next \/ Restart]_vars, NEW c \in Case, Held(c)
  PROVE  cover'[c] = cover[c] /\ claimDay'[c] = claimDay[c]
<1> USE DEF caseVars
<1>1. /\ caseStatus[c] = "claimed"
      /\ IsPosting(c) \/ xeroInvoiceId[c] # 0
  BY DEF Held
<1>2. ASSUME NEW d \in Case, d # c, SaveCover(d)
      PROVE  cover'[c] = cover[c]
  BY <1>2 DEF SaveCover, TypeOK
<1>3. ASSUME NEW d \in Case, CreateCase(d) \/ CreateDraft(d) \/ OpenDraft(d) \/ EditCover(d)
      PROVE  cover'[c] = cover[c] /\ claimDay'[c] = claimDay[c]
  <2>1. d # c /\ SaveCover(d) /\ UNCHANGED claimDay
    BY <1>1, <1>3 DEF CreateCase, CreateDraft, OpenDraft, EditCover, Editable
  <2>2. QED
    BY <1>2, <2>1
<1>4. ASSUME NEW d \in Case, DeleteCase(d) \/ DiscardDraft(d) \/ \E e \in Case : MergeCases(d, e)
      PROVE  UNCHANGED <<cover, claimDay>>
  BY <1>4 DEF DeleteCase, DiscardDraft, MergeCases
<1>5. ASSUME NEW d \in Case, MarkClaimed(d)
      PROVE  cover'[c] = cover[c] /\ claimDay'[c] = claimDay[c]
  BY <1>1, <1>5 DEF MarkClaimed, TypeOK
<1>6. ASSUME NEW d \in Case, Reopen(d)
      PROVE  cover'[c] = cover[c] /\ claimDay'[c] = claimDay[c]
  BY <1>1, <1>6 DEF Reopen, TypeOK
<1>7. ASSUME ReceiptStep \/ HandlerStep \/ Restart \/ UNCHANGED vars
      PROVE  UNCHANGED caseVars
  BY <1>7, RowsLeaveCases
<1>8. QED
  BY <1>3, <1>4, <1>5, <1>6, <1>7 DEF Next, CaseStep

LEMMA SaysKept ==
  ASSUME Background \subseteq {"upload"}, TypeOK, Coherent, ClaimedChecked, [Next \/ Restart]_vars,
         NEW c \in Case, Held(c)
  PROVE  SaysOf(c)' = SaysOf(c)
BY LinesKept, CoverKept DEF SaysOf

\* What a live post built is what its case says, and what Xero answered with
\* is a bill for that case saying just that.
PostedInv ==
  /\ PostInv
  /\ ClaimedChecked
  /\ \A a \in Attempt : Live(a) => sent[a].says = SaysOf(on[a])
  /\ \A a \in Attempt : pc[a] = "made" =>
       \E b \in bills : b.id = got[a] /\ b.case = on[a] /\ b.bill = sent[a]
  /\ BillSaysCase

LEMMA PostedInvStep ==
  ASSUME ~SlowPosts, Background \subseteq {"upload"}, PostedInv, PostInv', [PostNext]_allVars
  PROVE  PostedInv'
<1> USE CasesAssumption DEF caseVars, expVars, caseRest
<1>1. TypeOK /\ Coherent /\ PostTypeOK /\ "rereadReading" \notin Background
  BY DEF PostedInv, PostInv, Shape, PostTypeOK
<1>2. ASSUME [Next \/ Restart]_vars, UNCHANGED postVars \/ (bills' = bills /\ \A a \in Attempt : pc'[a] = "idle")
      PROVE  PostedInv'
  <2>1. ClaimedChecked'
    BY <1>1, <1>2, CheckedStep DEF PostedInv
  <2>2. /\ UNCHANGED bills
        /\ \A a \in Attempt : pc'[a] # "idle" =>
             pc'[a] = pc[a] /\ on'[a] = on[a] /\ sent'[a] = sent[a] /\ got'[a] = got[a]
    BY <1>2 DEF postVars
  <2>3. \A c \in Case : Held(c) => SaysOf(c)' = SaysOf(c)
    BY <1>1, <1>2, SaysKept DEF PostedInv
  <2>4. \A a \in Attempt : Live(a) => on[a] \in Case /\ Held(on[a])
    BY DEF PostedInv, PostInv, Shape, Live, LiveIsHeld, Held
  <2>5. ASSUME NEW a \in Attempt, Live(a)'
        PROVE  sent'[a].says = SaysOf(on[a])'
    <3>1. Live(a) /\ on'[a] = on[a] /\ sent'[a] = sent[a]
      BY <2>2, <2>5 DEF Live
    <3>2. PICK c \in Case : c = on[a] /\ Held(c)
      BY <2>4, <3>1
    <3>3. sent[a].says = SaysOf(c) /\ SaysOf(c)' = SaysOf(c)
      BY <2>3, <3>1, <3>2 DEF PostedInv
    <3>4. SaysOf(on[a])' = SaysOf(c)'
      BY <3>1, <3>2 DEF SaysOf, LinesOf
    <3>5. QED
      BY ONLY <3>1, <3>3, <3>4
  <2>6. (\A a \in Attempt : pc[a] = "made" =>
           \E b \in bills : b.id = got[a] /\ b.case = on[a] /\ b.bill = sent[a])'
    BY <2>2 DEF PostedInv
  <2>7. BillSaysCase'
    <3>1. UNCHANGED xeroInvoiceId
      BY <1>1, <1>2, CaseMovesStep DEF CaseMoves
    <3>2. ASSUME NEW c \in Case, xeroInvoiceId[c] # 0
          PROVE  SaysOf(c)' = SaysOf(c)
      BY <2>3, <3>2 DEF PostedInv, PostInv, BillOnlyOnClaimed, Held
    <3>3. QED
      BY <2>2, <3>1, <3>2 DEF PostedInv, BillSaysCase
  <2>8. QED
    BY <2>1, <2>5, <2>6, <2>7 DEF PostedInv
<1>3. ASSUME UNCHANGED <<caseStatus, expVars, cover, claimDay>>
      PROVE  /\ ClaimedChecked'
             /\ \A c : SaysOf(c)' = SaysOf(c)
  BY <1>1, <1>3 DEF PostedInv, ClaimedChecked, SaysOf, LinesOf
<1>4. ASSUME NEW a \in Attempt, NEW c \in Case, Begin(a, c)
      PROVE  PostedInv'
  <2>1. /\ UNCHANGED <<caseStatus, expVars, cover, claimDay, xeroInvoiceId, got, bills>>
        /\ pc' = [pc EXCEPT ![a] = "building"] /\ on' = [on EXCEPT ![a] = c]
    BY <1>4 DEF Begin, ClaimForPost
  <2>2. PICK setting \in Setting : sent' = [sent EXCEPT ![a] = BillOf(c, setting)]
    BY <1>4 DEF Begin
  <2>3. \A b \in Attempt : b # a => pc'[b] = pc[b] /\ on'[b] = on[b] /\ sent'[b] = sent[b]
    BY <1>1, <2>1, <2>2 DEF PostTypeOK
  <2>4. on'[a] = c /\ sent'[a].says = SaysOf(c) /\ pc'[a] = "building"
    BY <1>1, <2>1, <2>2 DEF PostTypeOK, BillOf
  <2>5. \A b \in Attempt : Live(b)' => sent'[b].says = SaysOf(on'[b])
    BY <2>3, <2>4 DEF PostedInv, Live
  <2>6. ClaimedChecked' /\ \A d : SaysOf(d)' = SaysOf(d)
    BY <1>3, <2>1
  <2>7. BillSaysCase'
    BY <2>1, <2>6 DEF PostedInv, BillSaysCase
  <2>8. (\A b \in Attempt : pc[b] = "made" =>
           \E x \in bills : x.id = got[b] /\ x.case = on[b] /\ x.bill = sent[b])'
    BY <2>1, <2>3, <2>4 DEF PostedInv
  <2>9. (\A b \in Attempt : Live(b) => sent[b].says = SaysOf(on[b]))'
    <3>1. ASSUME NEW b \in Attempt, Live(b)'
          PROVE  (sent[b].says = SaysOf(on[b]))'
      <4>1. sent'[b].says = SaysOf(on'[b])
        BY <2>5, <3>1
      <4>2. SaysOf(on[b])' = SaysOf(on'[b])
        BY <2>1 DEF SaysOf, LinesOf
      <4>3. QED
        BY ONLY <4>1, <4>2
    <3>2. QED
      BY <3>1
  <2>10. QED
    BY <2>6, <2>7, <2>8, <2>9 DEF PostedInv
<1>5. ASSUME NEW a \in Attempt, XeroMakesBill(a)
      PROVE  PostedInv'
  <2>1. /\ pc[a] = "building" /\ pc' = [pc EXCEPT ![a] = "made"]
        /\ UNCHANGED <<caseStatus, cover, claimDay, xeroInvoiceId, expVars, on, sent>>
        /\ bills \subseteq bills'
        /\ \A b \in Attempt : b # a => got'[b] = got[b]
    BY <1>1, <1>5 DEF XeroMakesBill, PostTypeOK
  <2>2. \E b \in bills' : b.id = got'[a] /\ b.case = on[a] /\ b.bill = sent[a]
    <3>1. CASE \E b \in bills : Key(b.case, b.bill) = Key(on[a], sent[a]) /\ got' = [got EXCEPT ![a] = b.id]
      BY <1>1, <2>1, <3>1 DEF Key, PostTypeOK
    <3>2. CASE /\ got' = [got EXCEPT ![a] = Cardinality(bills) + 1]
               /\ bills' = bills \cup {[id |-> Cardinality(bills) + 1, case |-> on[a], bill |-> sent[a]]}
      <4>1. got'[a] = Cardinality(bills) + 1
        BY <1>1, <3>2 DEF PostTypeOK
      <4>2. [id |-> Cardinality(bills) + 1, case |-> on[a], bill |-> sent[a]] \in bills'
        BY <3>2
      <4>3. QED
        BY <4>1, <4>2
    <3>3. QED
      BY <1>5, <3>1, <3>2 DEF XeroMakesBill
  <2>3. \A b \in Attempt : Live(b)' => Live(b) /\ (b # a => pc'[b] = pc[b])
    BY <1>1, <2>1 DEF Live, PostTypeOK
  <2>4. (\A b \in Attempt : pc[b] = "made" =>
           \E x \in bills : x.id = got[b] /\ x.case = on[b] /\ x.bill = sent[b])'
    BY <1>1, <2>1, <2>2 DEF PostedInv, PostTypeOK
  <2>5. BillSaysCase'
    BY <1>3, <2>1 DEF PostedInv, BillSaysCase
  <2>6. (\A b \in Attempt : Live(b) => sent[b].says = SaysOf(on[b]))'
    BY <2>1, <2>3 DEF PostedInv, SaysOf, LinesOf
  <2>7. QED
    BY <1>3, <2>1, <2>4, <2>5, <2>6 DEF PostedInv
<1>6. ASSUME NEW a \in Attempt, PostFails(a) \/ Attached(a) \/ (RecordBill(a) /\ Idle(a) /\ UNCHANGED xeroInvoiceId)
      PROVE  PostedInv'
  <2>1. /\ UNCHANGED <<caseStatus, cover, claimDay, xeroInvoiceId, expVars, bills>>
        /\ Idle(a)
    BY <1>6 DEF PostFails, Attached, RecordBill
  <2>2. \A b \in Attempt : pc'[b] # "idle" =>
          pc'[b] = pc[b] /\ on'[b] = on[b] /\ sent'[b] = sent[b] /\ got'[b] = got[b]
    BY <1>1, <2>1 DEF Idle, PostTypeOK
  <2>3. (\A b \in Attempt : Live(b) => sent[b].says = SaysOf(on[b]))'
    BY <2>1, <2>2 DEF PostedInv, Live, SaysOf, LinesOf
  <2>4. QED
    BY <1>3, <2>1, <2>2, <2>3 DEF PostedInv, BillSaysCase
<1>7. ASSUME NEW a \in Attempt, RecordBill(a)
      PROVE  PostedInv'
  <2>1. /\ pc[a] = "made" /\ on[a] \in Case /\ xeroInvoiceId[on[a]] = 0 /\ caseStatus[on[a]] = "claimed"
        /\ got[a] # 0
        /\ sent[a].says = SaysOf(on[a])
    BY <1>7 DEF RecordBill, PostedInv, PostInv, Shape, Live, LiveIsHeld
  <2>2. CASE Idle(a) /\ UNCHANGED xeroInvoiceId
    BY <1>6, <1>7, <2>2
  <2>3. CASE /\ pc' = [pc EXCEPT ![a] = "attaching"] /\ UNCHANGED <<on, sent, got>>
             /\ xeroInvoiceId' = [xeroInvoiceId EXCEPT ![on[a]] = got[a]]
    <3>1. UNCHANGED <<caseStatus, cover, claimDay, expVars, bills>>
      BY <1>7 DEF RecordBill
    <3>2. \A b \in Attempt : pc'[b] \in {"building", "made"} => pc'[b] = pc[b]
      BY <1>1, <2>3 DEF PostTypeOK
    <3>3. (\A b \in Attempt : Live(b) => sent[b].says = SaysOf(on[b]))'
      BY <2>3, <3>1, <3>2 DEF PostedInv, Live, SaysOf, LinesOf
    <3>4. BillSaysCase'
      <4>1. PICK x \in bills : x.id = got[a] /\ x.case = on[a] /\ x.bill = sent[a]
        BY <2>1 DEF PostedInv
      <4>2. \A c \in Case : xeroInvoiceId'[c] = IF c = on[a] THEN got[a] ELSE xeroInvoiceId[c]
        BY <1>1, <2>3 DEF TypeOK
      <4>3. \A c \in Case : SaysOf(c)' = SaysOf(c)
        BY <1>3, <3>1
      <4>4. QED
        BY <2>1, <3>1, <4>1, <4>2, <4>3 DEF PostedInv, BillSaysCase
    <3>5. QED
      BY <1>3, <2>3, <3>1, <3>2, <3>3, <3>4 DEF PostedInv
  <2>4. QED
    BY <1>7, <2>1, <2>2, <2>3 DEF RecordBill
<1>8. ASSUME NEW c \in Case, MarkerAges(c)
      PROVE  PostedInv'
  <2>1. UNCHANGED <<caseStatus, cover, claimDay, xeroInvoiceId, expVars, postVars>>
    BY <1>8 DEF MarkerAges
  <2>2. ClaimedChecked' /\ \A d : SaysOf(d)' = SaysOf(d)
    BY <1>3, <2>1
  <2>3. BillSaysCase'
    BY <2>1, <2>2 DEF PostedInv, BillSaysCase, postVars
  <2>4. (\A b \in Attempt : Live(b) => sent[b].says = SaysOf(on[b]))'
    BY <2>1 DEF PostedInv, Live, SaysOf, LinesOf, postVars
  <2>5. (\A b \in Attempt : pc[b] = "made" =>
           \E x \in bills : x.id = got[b] /\ x.case = on[b] /\ x.bill = sent[b])'
    BY <2>1 DEF PostedInv, postVars
  <2>6. QED
    BY <2>2, <2>3, <2>4, <2>5 DEF PostedInv
<1>9. CASE Next /\ UNCHANGED postVars
  BY <1>2, <1>9
<1>10. CASE PostRestart
  BY <1>2, <1>10 DEF PostRestart
<1>11. CASE UNCHANGED allVars
  BY <1>2, <1>11 DEF allVars
<1>12. QED
  BY <1>4, <1>5, <1>6, <1>7, <1>8, <1>9, <1>10, <1>11 DEF PostNext, PostStep, AttemptStep

\* The bill a case keeps says what the case says, while posts end in time and
\* no rate, edit or re-read is waited for: with a rate under way it does not.
THEOREM BillAlwaysSaysCase ==
  ~SlowPosts /\ Background \subseteq {"upload"} /\ PostSpec => []BillSaysCase
<1>1. ASSUME ~SlowPosts, Background \subseteq {"upload"}
      PROVE  PostSpec => []BillSaysCase
  <2>1. PostInit => PostedInv
    BY PostInvInit DEF PostInit, Init, PostedInv, Live, ClaimedChecked, BillSaysCase
  <2>2. PostedInv /\ PostInv' /\ [PostNext]_allVars => PostedInv'
    BY <1>1, PostedInvStep
  <2>3. PostSpec => []PostInv
    BY <1>1, PostInvariant, PTL
  <2>4. PostedInv => BillSaysCase
    BY DEF PostedInv
  <2>5. QED
    BY <2>1, <2>2, <2>3, <2>4, PTL DEF PostSpec
<1>2. QED
  BY <1>1
=============================================================================
