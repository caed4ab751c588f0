-------------------------------- MODULE MCEnds --------------------------------
(* What must come to an end, on instances small enough for liveness: claim   *)
(* imports, the sweep of lines without a rate, the requests put to the       *)
(* model, and a page catching up with its case.  `part' says which one runs. *)
EXTENDS ClaimQueue, RateSweep, KeyPool, IntakeStream

CONSTANTS ann, bob, line1, line2, priced1, priced2, request1, read1, key1, fast, slow

OneKey    == <<key1>>
TwoModels == <<fast, slow>>

VARIABLE part

allVars == <<part, importVars, sweepVars, poolVars, intakeVars>>

\* No line waits for a rate.
NothingToSweep ==
  /\ fresh = <<>> /\ sweepTried = <<>> /\ resting = {} /\ coming = {}
  /\ up = TRUE /\ sweeping = {} /\ restarts = 0

\* One that does not run has nothing to do, so its fairness asks nothing.
Init ==
  /\ ImportInit /\ PoolInit /\ IntakeInitially
  /\ \/ part = "sweep" /\ SweepInit
     \/ part \in {"imports", "pool", "page"} /\ NothingToSweep

Next ==
  /\ UNCHANGED part
  /\ \/ part = "imports" /\ ImportNext /\ UNCHANGED <<sweepVars, poolVars, intakeVars>>
     \/ part = "sweep"   /\ SweepNext  /\ UNCHANGED <<importVars, poolVars, intakeVars>>
     \/ part = "pool"    /\ PoolNext   /\ UNCHANGED <<importVars, sweepVars, intakeVars>>
     \/ part = "page"    /\ StreamNext /\ UNCHANGED <<importVars, sweepVars, poolVars>>

(* What people wait for ends: an import a worker took up, a line that has no   *)
(* rate yet, a request put to the model.                                      *)
EverythingEnds == EveryImportEnds /\ EveryLinePriced /\ EveryRequestEnds

Spec == Init /\ [][Next]_allVars /\ ImportFairness /\ SweepFairness /\ PoolFairness /\ StreamFairness
=============================================================================
