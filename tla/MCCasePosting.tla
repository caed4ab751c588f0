--------------------------- MODULE MCCasePosting ---------------------------
(* CasePosting for TLC.  "alone" and "unclaimed" are no case's id. *)
EXTENDS CasePosting, TLC

Symmetric == Permutations(Receipt) \cup Permutations(Attempt)
=============================================================================
