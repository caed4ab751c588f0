---------------------------- MODULE MCClaimFiling ----------------------------
(* ClaimFiling for TLC, where receipts are filed while the rest are saved. *)
EXTENDS ClaimFiling

CONSTANTS f1, f2
=============================================================================
