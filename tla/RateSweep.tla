------------------------------ MODULE RateSweep ------------------------------
(***************************************************************************)
(* The sweeper of lines left without a rate (fx/sweeper.js): a small batch *)
(* every quarter of an hour, the least recently tried first, a line tried *)
(* in vain resting an hour.                                                *)
(***************************************************************************)
EXTENDS Naturals, Sequences, FiniteSets, SequencesExt

CONSTANTS
  Unpriced,     \* receipts with a line that has no rate
  Priceable,    \* those a provider that answers prices
  Arriving,     \* those uploaded after the start
  Batch,        \* BATCH
  MaxRestarts   \* bound: restarts of the process

ASSUME SweepAssumption ==
  /\ Priceable \subseteq Unpriced /\ Arriving \subseteq Unpriced
  /\ Batch \in Nat \ {0} /\ MaxRestarts \in Nat

VARIABLES
  fresh,      \* lines never tried, the oldest first
  sweepTried, \* lines tried in vain, the least recently tried first
  resting,    \* those tried within the hour
  coming,     \* receipts not yet uploaded
  up,         \* whether the providers answer
  sweeping,   \* what is left of the batch under way
  restarts

sweepVars == <<fresh, sweepTried, resting, coming, up, sweeping, restarts>>

SweepWaiting == ToSet(fresh) \cup ToSet(sweepTried)

SweepTypeOK ==
  /\ SweepWaiting \subseteq Unpriced /\ ToSet(fresh) \cap ToSet(sweepTried) = {}
  /\ resting \subseteq ToSet(sweepTried)
  /\ coming \subseteq Arriving \ SweepWaiting
  /\ up \in BOOLEAN
  /\ sweeping \subseteq SweepWaiting
  /\ restarts \in 0..MaxRestarts

SweepInit ==
  /\ fresh = SetToSeq(Unpriced \ Arriving) /\ sweepTried = <<>>
  /\ resting = {} /\ coming = Arriving
  /\ up = TRUE /\ sweeping = {} /\ restarts = 0

\* pendingExpenseIds.
Due ==
  LET queue == SelectSeq(fresh \o sweepTried, LAMBDA r : r \notin resting)
  IN  ToSet(SubSeq(queue, 1, IF Len(queue) < Batch THEN Len(queue) ELSE Batch))

StartSweep ==
  /\ sweeping = {} /\ Due # {}
  /\ sweeping' = Due
  /\ UNCHANGED <<fresh, sweepTried, resting, coming, up, restarts>>

SweepPrices(r) ==
  /\ r \in sweeping /\ up /\ r \in Priceable
  /\ sweeping' = sweeping \ {r}
  /\ fresh' = Remove(fresh, r) /\ sweepTried' = Remove(sweepTried, r)
  /\ UNCHANGED <<resting, coming, up, restarts>>

\* mutant: a line tried in vain keeps its place.
SweepKeepsPlace(r) ==
  /\ r \in sweeping /\ ~(up /\ r \in Priceable)
  /\ sweeping' = sweeping \ {r}
  /\ UNCHANGED <<fresh, sweepTried, resting, coming, up, restarts>>

SweepInVain(r) ==
  /\ r \in sweeping /\ ~(up /\ r \in Priceable)
  /\ sweeping' = sweeping \ {r}
  /\ fresh' = Remove(fresh, r) /\ sweepTried' = Append(Remove(sweepTried, r), r)
  /\ resting' = resting \cup {r}
  /\ UNCHANGED <<coming, up, restarts>>

\* RETRY_AFTER_MS.
HourPasses(r) ==
  /\ r \in resting /\ resting' = resting \ {r}
  /\ UNCHANGED <<fresh, sweepTried, coming, up, sweeping, restarts>>

Uploaded(r) ==
  /\ r \in coming /\ coming' = coming \ {r}
  /\ fresh' = Append(fresh, r)
  /\ UNCHANGED <<sweepTried, resting, up, sweeping, restarts>>

Outage == up' = ~up /\ UNCHANGED <<fresh, sweepTried, resting, coming, sweeping, restarts>>

\* When a line was tried is in the database; the batch is not.
SweepRestart ==
  /\ restarts < MaxRestarts /\ restarts' = restarts + 1
  /\ sweeping' = {}
  /\ UNCHANGED <<fresh, sweepTried, resting, coming, up>>

SweepNext ==
  \/ StartSweep
  \/ \E r \in Unpriced : SweepPrices(r) \/ SweepInVain(r) \/ HourPasses(r) \/ Uploaded(r)
  \/ Outage \/ SweepRestart

SweepFairness ==
  /\ WF_sweepVars(StartSweep)
  /\ \A r \in Unpriced : WF_sweepVars(SweepPrices(r) \/ SweepInVain(r)) /\ WF_sweepVars(HourPasses(r))

SweepSpec == SweepInit /\ [][SweepNext]_sweepVars /\ SweepFairness

\* Lines that can never be priced do not hold the batch for ever: once the
\* providers stay up, a line they price is priced (fx/sweeper.js, whose query
\* used to leave the twenty-sixth line unreached on every sweep).
EveryLinePriced == <>[]up => \A r \in Priceable : [](r \in SweepWaiting => <>(r \notin SweepWaiting))
=============================================================================
