----------------------------- MODULE MCClaimQueue -----------------------------
(* ClaimQueue for TLC: two imports, of one person or of two. *)
EXTENDS ClaimQueue

CONSTANTS ann, bob
=============================================================================
