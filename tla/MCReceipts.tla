----------------------------- MODULE MCReceipts -----------------------------
(* A receipt being read (ReadQueue) and being checked on its pages          *)
(* (CaseReview), and a claim without any receipt (Allowances), each on its  *)
(* own in one run: `part' says which.                                       *)
EXTENDS MCReadQueue, CaseReview, Allowances

CONSTANTS r1, r2, in, jp

Rates == {[country |-> in, from |-> 1, ccy |-> in, cents |-> 1001], [country |-> in, from |-> 2, ccy |-> in, cents |-> 500],
          [country |-> in, from |-> 3, ccy |-> jp, cents |-> 500],  [country |-> jp, from |-> 1, ccy |-> jp, cents |-> 500]}

VARIABLE part

ReceiptsInit ==
  /\ part \in {"read", "review", "allowance"}
  /\ Init /\ ReviewInit /\ AllowanceInit
  /\ part = "review" \/ page = "receipt"
  /\ part = "allowance" \/ (rates = {} /\ trip.evidence = [receipts |-> <<>>, named |-> {}])

ReceiptsNext ==
  /\ UNCHANGED part
  /\ \/ part = "read"      /\ Next          /\ UNCHANGED <<reviewVars, allowanceVars>>
     \/ part = "review"    /\ ReviewNext    /\ UNCHANGED <<vars, allowanceVars>>
     \/ part = "allowance" /\ AllowanceNext /\ UNCHANGED <<vars, reviewVars>>

ReceiptsSpec == ReceiptsInit /\ [][ReceiptsNext]_<<part, vars, reviewVars, allowanceVars>>
=============================================================================
