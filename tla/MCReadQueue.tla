---------------------------- MODULE MCReadQueue ----------------------------
(* ReadQueue for TLC: two files of two people, or both of one. *)
EXTENDS ReadQueue, TLC

CONSTANTS f1, f2, ann, bob

OneEach == (f1 :> ann) @@ (f2 :> bob)
BothAnns == (f1 :> ann) @@ (f2 :> ann)

\* Files of one person are interchangeable.
Symmetric == Permutations({f1, f2})
=============================================================================
