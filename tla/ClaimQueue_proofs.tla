--------------------------- MODULE ClaimQueue_proofs ---------------------------
(* What ClaimQueue promises of claim imports, for any people, jobs and limits,  *)
(* and what ClaimReading makes of an upload, for any archives and forms.        *)
EXTENDS ClaimQueue, ClaimReading, Counting, FiniteSetTheorems, WellFoundedInduction, TLAPS

\* Nothing is known of a job that has not been asked for.
Untouched(j) == disk[j] = NoFile /\ engine[j] = NoEngine /\ saved[j] = "none"

\* The file, the engine's copy and the database agree about one job.
JobInv(j) ==
  /\ disk[j].attempts <= MaxAttempts
  /\ Unfinished(j) => payload[j] /\ engine[j].doing \notin Terminal
  /\ Busy(j) => Unfinished(j) /\ disk[j].attempts # 0
  /\ Unfinished(j) /\ disk[j].attempts = 0 => saved[j] = "none"
  /\ disk[j].stage \in {"failed", "cancelled"} /\ saved[j] # "none" => disk[j].attempts = MaxAttempts
  /\ disk[j].stage = "done" /\ ~disk[j].undone => saved[j] = "whole"
  /\ disk[j].stage # "absent" /\ engine[j].doing = "done" /\ ~engine[j].undone => saved[j] = "whole"

\* Who is busy, and the count of the slot.
SlotInv ==
  /\ OneAtATime
  /\ \A j, k \in Job : Busy(j) /\ Busy(k) /\ owner[j] = owner[k] => j = k

ImportInv ==
  /\ ImportTypeOK
  /\ SlotInv
  /\ \A j \in Job : IF j <= jobs THEN owner[j] \in User /\ JobInv(j)
                    ELSE owner[j] = NoUser /\ Untouched(j)

-----------------------------------------------------------------------------
(* Sets of jobs.                                                           *)

\* Every set of jobs that is not empty has an oldest one.
LEMMA OldestOfSome ==
  ASSUME NEW J \in SUBSET Job, J # {}
  PROVE  Oldest(J) \in J
<1>1. J \subseteq Nat
  BY ClaimQueueAssumption DEF Job
<1>2. PICK x \in J : \A y \in J : ~ (<<y, x>> \in OpToRel(<, Nat))
  BY <1>1, NatLessThanWellFounded, WFMin
<1>3. \A y \in J : ~(y < x)
  BY <1>1, <1>2 DEF OpToRel
<1>4. \A y \in J : x <= y
  BY <1>1, <1>3
<1>5. QED
  BY <1>4 DEF Oldest

LEMMA JobsFinite == \A J \in SUBSET Job : IsFiniteSet(J) /\ Cardinality(J) \in Nat
<1>1. IsFiniteSet(Job)
  BY ClaimQueueAssumption, FS_Interval DEF Job
<1>2. QED
  BY <1>1, FS_Subset, FS_CardinalityType

-----------------------------------------------------------------------------
(* Steps that leave the slot, or the other jobs, alone.                    *)

LEMMA SlotKept ==
  ASSUME SlotInv, running' = running,
         \A j \in Job : (Busy(j)' <=> Busy(j)) /\ (Busy(j) => owner'[j] = owner[j]),
         \A u \in User : worker'[u] = "busy" <=> worker[u] = "busy"
  PROVE  SlotInv'
<1>1. {j \in Job : Busy(j)}' = {j \in Job : Busy(j)}
  OBVIOUS
<1>2. running' = Cardinality({j \in Job : Busy(j)})' /\ running' <= MaxRunning
  BY <1>1 DEF SlotInv, OneAtATime
<1>3. \A u \in User : worker'[u] = "busy" <=> \E j \in Job : owner'[j] = u /\ Busy(j)'
  BY DEF SlotInv, OneAtATime
<1>4. \A j, k \in Job : Busy(j)' /\ Busy(k)' /\ owner'[j] = owner'[k] => j = k
  BY DEF SlotInv
<1>5. QED
  BY <1>2, <1>3, <1>4 DEF SlotInv, OneAtATime

\* The job that ran has ended.
LEMMA SlotFreed ==
  ASSUME ImportInv, NEW j \in Job, j <= jobs, Busy(j), owner' = owner, running' = running - 1,
         worker' = [worker EXCEPT ![owner[j]] = "polling"],
         \A k \in Job : Busy(k)' <=> k # j /\ Busy(k)
  PROVE  SlotInv' /\ running' \in Nat
<1> DEFINE B == {k \in Job : Busy(k)}
<1>1. B' = B \ {j} /\ B \in SUBSET Job /\ j \in B
  OBVIOUS
<1>2. IsFiniteSet(B) /\ Cardinality(B) \in Nat
  BY <1>1, JobsFinite
<1> HIDE DEF B
<1>3. Cardinality(B \ {j}) = Cardinality(B) - 1
  BY <1>1, <1>2, FS_RemoveElement
<1>4. Cardinality(B \ {j}) \in Nat
  BY <1>1, JobsFinite
<1>5. running = Cardinality(B) /\ running <= MaxRunning
  BY DEF ImportInv, SlotInv, OneAtATime, B
<1>6. running' = Cardinality(B \ {j}) /\ running' <= MaxRunning /\ running' \in Nat
  BY <1>2, <1>3, <1>4, <1>5, ClaimQueueAssumption
<1>7. running' = Cardinality({k \in Job : Busy(k)}')
  BY <1>1, <1>6 DEF B
<1>8. \A u \in User : worker'[u] = "busy" <=> \E k \in Job : owner'[k] = u /\ Busy(k)'
  <2>1. owner[j] \in User /\ worker \in [User -> Worker]
    BY DEF ImportInv, ImportTypeOK
  <2>2. QED
    BY <2>1 DEF ImportInv, SlotInv, OneAtATime
<1>9. \A k, l \in Job : Busy(k)' /\ Busy(l)' /\ owner'[k] = owner'[l] => k = l
  BY DEF ImportInv, SlotInv
<1>10. QED
  BY <1>6, <1>7, <1>8, <1>9 DEF SlotInv, OneAtATime

\* One more job runs, of somebody who had none running.
LEMMA SlotTaken ==
  ASSUME ImportInv, NEW j \in Job, j <= jobs, worker[owner[j]] # "busy", owner' = owner,
         running < MaxRunning, running' = running + 1,
         worker' = [worker EXCEPT ![owner[j]] = "busy"],
         \A k \in Job : Busy(k)' <=> k = j \/ Busy(k)
  PROVE  SlotInv' /\ running' \in Nat
<1> DEFINE B == {k \in Job : Busy(k)}
<1>1. owner[j] \in User /\ worker \in [User -> Worker]
  BY DEF ImportInv, ImportTypeOK
<1>2. \A k \in Job : Busy(k) => owner[k] # owner[j]
  BY <1>1 DEF ImportInv, SlotInv, OneAtATime
<1>3. B' = B \cup {j} /\ B \in SUBSET Job /\ j \notin B
  BY <1>2
<1>4. IsFiniteSet(B) /\ Cardinality(B) \in Nat /\ Cardinality(B') = Cardinality(B) + 1
  BY <1>3, JobsFinite, FS_AddElement
<1>5. running = Cardinality(B)
  BY DEF ImportInv, SlotInv, OneAtATime
<1>6. running' = Cardinality(B') /\ running' <= MaxRunning /\ running' \in Nat
  BY <1>4, <1>5, ClaimQueueAssumption
<1>7. \A u \in User : worker'[u] = "busy" <=> \E k \in Job : owner'[k] = u /\ Busy(k)'
  BY <1>1 DEF ImportInv, SlotInv, OneAtATime
<1>8. \A k, l \in Job : Busy(k)' /\ Busy(l)' /\ owner'[k] = owner'[l] => k = l
  BY <1>2 DEF ImportInv, SlotInv
<1>9. QED
  BY <1>6, <1>7, <1>8 DEF SlotInv, OneAtATime

\* A step that touches one job.
LEMMA OneJobChanges ==
  ASSUME ImportInv, ImportTypeOK', SlotInv', NEW j \in Job, j <= jobs, JobInv(j)',
         UNCHANGED <<owner, jobs>>,
         \A k \in Job \ {j} : /\ disk'[k] = disk[k] /\ engine'[k] = engine[k]
                              /\ saved'[k] = saved[k] /\ payload'[k] = payload[k]
  PROVE  ImportInv'
<1>1. \A k \in Job \ {j} : JobInv(k) => JobInv(k)'
  BY DEF JobInv, Unfinished, Busy
<1>2. \A k \in Job \ {j} : Untouched(k) => Untouched(k)'
  BY DEF Untouched
<1>3. QED
  BY <1>1, <1>2 DEF ImportInv

-----------------------------------------------------------------------------
(* Each step.                                                              *)

LEMMA ImportInvInit == ImportInit => ImportInv
<1> SUFFICES ASSUME ImportInit PROVE ImportInv
  OBVIOUS
<1>1. ImportTypeOK
  BY ClaimQueueAssumption DEF ImportInit, ImportTypeOK, NoFile, NoEngine, Stage, Doing, Worker, Terminal
<1>2. \A j \in Job : ~Busy(j)
  BY DEF ImportInit, Busy, NoEngine
<1>3. {j \in Job : Busy(j)} = {}
  BY <1>2
<1>4. SlotInv
  BY <1>2, <1>3, FS_EmptySet, ClaimQueueAssumption DEF ImportInit, SlotInv, OneAtATime
<1>5. QED
  BY <1>1, <1>4, ClaimQueueAssumption DEF ImportInit, ImportInv, Untouched, Job

LEMMA EnqueueStep ==
  ASSUME ImportInv, NEW u \in User, Enqueue(u)
  PROVE  ImportInv'
<1>0. PICK j \in Job : j = jobs + 1
  BY ClaimQueueAssumption DEF Enqueue, ImportInv, ImportTypeOK, Job
<1>1. /\ jobs < MaxJobs /\ owner' = [owner EXCEPT ![j] = u] /\ disk' = [disk EXCEPT ![j].stage = "queued"]
      /\ payload' = [payload EXCEPT ![j] = TRUE] /\ jobs' = j /\ worker' = Woken(u)
      /\ UNCHANGED <<engine, saved, running, importRestarts>>
  BY <1>0 DEF Enqueue
<1>2. jobs' \in 0..MaxJobs /\ \A k \in Job : k <= jobs' <=> k <= jobs \/ k = j
  BY <1>0, <1>1, ClaimQueueAssumption DEF ImportInv, ImportTypeOK, Job
<1>3. ~(j <= jobs) /\ Untouched(j)
  BY <1>0 DEF ImportInv, ImportTypeOK
<1>4. ImportTypeOK'
  BY <1>1, <1>2 DEF ImportInv, ImportTypeOK, Stage, Woken, Worker
<1>5. SlotInv'
  <2>1. \A k \in Job : Busy(k)' <=> Busy(k)
    BY <1>1 DEF Busy
  <2>2. \A k \in Job : Busy(k) => owner'[k] = owner[k]
    BY <1>1, <1>3 DEF Busy, Untouched, NoEngine, ImportInv, ImportTypeOK
  <2>3. \A v \in User : worker'[v] = "busy" <=> worker[v] = "busy"
    BY <1>1 DEF Woken, ImportInv, ImportTypeOK
  <2>4. QED
    BY <1>1, <2>1, <2>2, <2>3, SlotKept DEF ImportInv
<1>6. owner'[j] = u /\ JobInv(j)'
  <2>1. owner'[j] = u /\ payload'[j]
    BY <1>1, <1>2 DEF ImportInv, ImportTypeOK
  <2>2. disk'[j].stage = "queued" /\ disk'[j].attempts = 0
    BY <1>1, <1>2, <1>3 DEF ImportInv, ImportTypeOK, Untouched, NoFile
  <2>3. engine'[j].doing = "none" /\ saved'[j] = "none"
    BY <1>1, <1>3 DEF Untouched, NoEngine
  <2>4. QED
    BY <2>1, <2>2, <2>3, ClaimQueueAssumption DEF JobInv, Unfinished, Busy, Terminal
<1>7. \A k \in Job \ {j} : /\ owner'[k] = owner[k] /\ disk'[k] = disk[k] /\ engine'[k] = engine[k]
                           /\ saved'[k] = saved[k] /\ payload'[k] = payload[k]
  BY <1>1 DEF ImportInv, ImportTypeOK
<1>8. \A k \in Job \ {j} : (JobInv(k) => JobInv(k)') /\ (Untouched(k) => Untouched(k)')
  BY <1>7 DEF JobInv, Unfinished, Busy, Untouched
<1>9. ASSUME NEW k \in Job
      PROVE  IF k <= jobs' THEN owner'[k] \in User /\ JobInv(k)' ELSE owner'[k] = NoUser /\ Untouched(k)'
  <2>1. CASE k = j
    BY <1>2, <1>6, <2>1
  <2>2. CASE k # j
    BY <1>2, <1>7, <1>8, <2>2 DEF ImportInv
  <2>3. QED
    BY <2>1, <2>2
<1>10. QED
  BY <1>4, <1>5, <1>9 DEF ImportInv

\* Whoever knows of a job has been asked for it.
LEMMA AskedFor ==
  ASSUME ImportInv, NEW j \in Job, disk[j].stage # "absent" \/ engine[j].doing # "none"
  PROVE  j <= jobs /\ owner[j] \in User /\ JobInv(j)
BY DEF ImportInv, Untouched, NoFile, NoEngine

\* Marking a job cancelled, or its result undone, leaves records of their kind.
LEMMA MarkedTypes ==
  ASSUME ImportTypeOK, NEW j \in Job
  PROVE  /\ [disk EXCEPT ![j].stage = "cancelling", ![j].cancelled = TRUE]
              \in [Job -> [stage : Stage, attempts : Nat, cancelled : BOOLEAN, undone : BOOLEAN]]
         /\ [disk EXCEPT ![j].undone = TRUE]
              \in [Job -> [stage : Stage, attempts : Nat, cancelled : BOOLEAN, undone : BOOLEAN]]
         /\ [engine EXCEPT ![j].cancelled = TRUE]
              \in [Job -> [doing : Doing, cancelled : BOOLEAN, undone : BOOLEAN]]
<1> DEFINE Filed == [stage : Stage, attempts : Nat, cancelled : BOOLEAN, undone : BOOLEAN]
<1>1. disk \in [Job -> Filed] /\ engine \in [Job -> [doing : Doing, cancelled : BOOLEAN, undone : BOOLEAN]]
  BY DEF ImportTypeOK
<1>2. [disk[j] EXCEPT !.stage = "cancelling", !.cancelled = TRUE] \in Filed
  BY <1>1 DEF Stage
<1>3. [disk[j] EXCEPT !.undone = TRUE] \in Filed
  BY <1>1
<1>4. [engine[j] EXCEPT !.cancelled = TRUE] \in [doing : Doing, cancelled : BOOLEAN, undone : BOOLEAN]
  BY <1>1
<1>5. QED
  BY <1>1, <1>2, <1>3, <1>4

LEMMA CancelRunningStep ==
  ASSUME ImportInv, NEW j \in Job, CancelRunning(j)
  PROVE  ImportInv'
<1>1. /\ engine[j].doing \in {"reading", "saving"}
      /\ engine' = [engine EXCEPT ![j].cancelled = TRUE]
      /\ disk' = [disk EXCEPT ![j].stage = "cancelling", ![j].cancelled = TRUE]
      /\ UNCHANGED <<owner, payload, jobs, saved, worker, running, importRestarts>>
  BY DEF CancelRunning
<1>2. j <= jobs /\ JobInv(j) /\ Busy(j)
  BY <1>1, AskedFor DEF Busy
<1>3. ImportTypeOK'
  BY <1>1, MarkedTypes DEF ImportInv, ImportTypeOK
<1>4. /\ disk'[j].stage = "cancelling" /\ disk'[j].attempts = disk[j].attempts
      /\ engine'[j].doing = engine[j].doing
      /\ \A k \in Job \ {j} : disk'[k] = disk[k] /\ engine'[k] = engine[k]
  BY <1>1 DEF ImportInv, ImportTypeOK
<1>5. SlotInv'
  <2>1. \A k \in Job : Busy(k)' <=> Busy(k)
    BY <1>4 DEF Busy
  <2>2. QED
    BY <1>1, <2>1, SlotKept DEF ImportInv
<1>6. JobInv(j)'
  BY <1>1, <1>2, <1>4 DEF JobInv, Unfinished, Busy, Terminal
<1>7. QED
  BY <1>1, <1>2, <1>3, <1>4, <1>5, <1>6, OneJobChanges

LEMMA CancelWaitingStep ==
  ASSUME ImportInv, NEW j \in Job, CancelWaiting(j)
  PROVE  ImportInv'
<1>1. engine[j].doing = "none" /\ Unfinished(j) /\ UNCHANGED <<owner, jobs, engine, saved, running, importRestarts>>
  BY DEF CancelWaiting
<1>2. j <= jobs /\ JobInv(j) /\ owner[j] \in User
  BY <1>1, AskedFor DEF Unfinished
<1>3. \A k \in Job : Busy(k)' <=> Busy(k)
  BY <1>1 DEF Busy
<1>4. CASE disk[j].attempts \in 1..MaxAttempts - 1
  <2>1. /\ disk' = [disk EXCEPT ![j].stage = "cancelling", ![j].cancelled = TRUE]
        /\ worker' = Woken(owner[j]) /\ payload' = payload
    BY <1>4 DEF CancelWaiting
  <2>2. ImportTypeOK'
    BY <1>1, <2>1, MarkedTypes DEF ImportInv, ImportTypeOK, Woken, Worker
  <2>3. /\ disk'[j].stage = "cancelling" /\ disk'[j].attempts = disk[j].attempts
        /\ \A k \in Job \ {j} : disk'[k] = disk[k]
    BY <2>1 DEF ImportInv, ImportTypeOK
  <2>4. \A v \in User : worker'[v] = "busy" <=> worker[v] = "busy"
    BY <2>1 DEF Woken, ImportInv, ImportTypeOK
  <2>5. SlotInv'
    BY <1>1, <1>3, <2>4, SlotKept DEF ImportInv
  <2>6. JobInv(j)'
    BY <1>1, <1>2, <2>1, <2>3 DEF JobInv, Unfinished, Busy, Terminal
  <2>7. QED
    BY <1>1, <1>2, <2>1, <2>2, <2>3, <2>5, <2>6, OneJobChanges
<1>5. CASE disk[j].attempts \notin 1..MaxAttempts - 1
  <2>1. Written(j, "cancelled") /\ worker' = worker
    BY <1>5 DEF CancelWaiting
  <2>2. ImportTypeOK'
    BY SMTT(20), <1>1, <2>1 DEF ImportInv, ImportTypeOK, Stage, Terminal, Written
  <2>3. /\ disk'[j].stage = "cancelled" /\ disk'[j].attempts = disk[j].attempts
        /\ \A k \in Job \ {j} : disk'[k] = disk[k] /\ payload'[k] = payload[k]
    BY <2>1 DEF ImportInv, ImportTypeOK, Written
  <2>4. SlotInv'
    BY <1>1, <1>3, <2>1, SlotKept DEF ImportInv
  <2>5. disk[j].attempts = 0 \/ disk[j].attempts = MaxAttempts
    <3>1. disk[j].attempts \in Nat /\ disk[j].attempts <= MaxAttempts
      BY <1>2 DEF ImportInv, ImportTypeOK, JobInv
    <3>2. QED
      BY <1>5, <3>1, ClaimQueueAssumption
  <2>6. JobInv(j)'
    BY <1>1, <1>2, <2>3, <2>5 DEF JobInv, Unfinished, Busy, Terminal
  <2>7. QED
    BY <1>1, <1>2, <2>1, <2>2, <2>3, <2>4, <2>6, OneJobChanges
<1>6. QED
  BY <1>4, <1>5

LEMMA UndoStep ==
  ASSUME ImportInv, NEW j \in Job, Undo(j)
  PROVE  ImportInv'
<1>1. /\ Offered(j) /\ saved' = [saved EXCEPT ![j] = "none"]
      /\ engine' = [engine EXCEPT ![j].undone = @ \/ engine[j].doing # "none"]
      /\ disk' = [disk EXCEPT ![j].undone = TRUE]
      /\ UNCHANGED <<owner, payload, jobs, worker, running, importRestarts>>
  BY DEF Undo
<1>2. j <= jobs /\ JobInv(j) /\ disk[j].stage # "absent"
  BY <1>1, AskedFor DEF Offered
<1>3. engine' \in [Job -> [doing : Doing, cancelled : BOOLEAN, undone : BOOLEAN]]
  BY ZenonT(30), <1>1 DEF ImportInv, ImportTypeOK
<1>4. ImportTypeOK'
  BY <1>1, <1>3, MarkedTypes DEF ImportInv, ImportTypeOK
<1>5. /\ disk'[j].stage = disk[j].stage /\ disk'[j].attempts = disk[j].attempts /\ disk'[j].undone
      /\ engine'[j].doing = engine[j].doing /\ (engine[j].doing # "none" => engine'[j].undone)
      /\ saved'[j] = "none"
      /\ \A k \in Job \ {j} : disk'[k] = disk[k] /\ engine'[k] = engine[k] /\ saved'[k] = saved[k]
  BY <1>1 DEF ImportInv, ImportTypeOK
<1>6. SlotInv'
  <2>1. \A k \in Job : Busy(k)' <=> Busy(k)
    BY <1>5 DEF Busy
  <2>2. QED
    BY <1>1, <2>1, SlotKept DEF ImportInv
<1>7. JobInv(j)'
  BY <1>1, <1>2, <1>5 DEF JobInv, Unfinished, Busy, Terminal
<1>8. QED
  BY <1>1, <1>2, <1>4, <1>5, <1>6, <1>7, OneJobChanges

\* A job of the engine reaches an end: with nothing saved, or all of it.
LEMMA SettleStep ==
  ASSUME ImportInv, NEW j \in Job, Busy(j), NEW stage \in Terminal, Settle(j, stage),
         saved' \in [Job -> {"none", "part", "whole"}],
         saved'[j] = IF stage = "done" THEN "whole" ELSE "none",
         \A k \in Job \ {j} : saved'[k] = saved[k]
  PROVE  ImportInv'
<1>1. /\ engine' = [engine EXCEPT ![j].doing = stage] /\ Written(j, stage)
      /\ worker' = [worker EXCEPT ![owner[j]] = "polling"] /\ running' = running - 1
      /\ UNCHANGED <<owner, jobs, importRestarts>>
  BY DEF Settle
<1>2. j <= jobs /\ JobInv(j) /\ owner[j] \in User
  BY AskedFor DEF Busy
<1>3. /\ disk'[j].stage = stage /\ disk'[j].attempts = disk[j].attempts /\ engine'[j].doing = stage
      /\ \A k \in Job \ {j} : disk'[k] = disk[k] /\ engine'[k] = engine[k] /\ payload'[k] = payload[k]
  BY <1>1 DEF ImportInv, ImportTypeOK, Written
<1>4. \A k \in Job : Busy(k)' <=> k # j /\ Busy(k)
  BY <1>3 DEF Busy, Terminal
<1>5. SlotInv' /\ running' \in Nat
  BY <1>1, <1>2, <1>4, SlotFreed
<1>6. ImportTypeOK'
  <2>1. stage \in Stage /\ stage \in Doing
    BY DEF Terminal, Stage, Doing
  <2>2. engine' \in [Job -> [doing : Doing, cancelled : BOOLEAN, undone : BOOLEAN]]
    BY <1>1, <2>1 DEF ImportInv, ImportTypeOK
  <2>3. disk' \in [Job -> [stage : Stage, attempts : Nat, cancelled : BOOLEAN, undone : BOOLEAN]]
    BY SMTT(20), <1>1, <2>1 DEF ImportInv, ImportTypeOK, Written
  <2>4. payload' \in [Job -> BOOLEAN]
    <3>1. (payload[j] /\ stage \notin Terminal) \in BOOLEAN
      OBVIOUS
    <3>2. payload' = [payload EXCEPT ![j] = payload[j] /\ stage \notin Terminal] /\ payload \in [Job -> BOOLEAN]
      BY <1>1 DEF Written, ImportInv, ImportTypeOK
    <3>3. QED
      BY <3>1, <3>2, Zenon
  <2>5. worker' \in [User -> Worker]
    BY <1>1, <1>2 DEF ImportInv, ImportTypeOK, Worker
  <2>6. QED
    BY <1>1, <1>5, <2>2, <2>3, <2>4, <2>5 DEF ImportInv, ImportTypeOK
<1>7. JobInv(j)'
  BY <1>2, <1>3, <1>4 DEF JobInv, Unfinished, Terminal
<1>8. QED
  BY <1>1, <1>2, <1>3, <1>5, <1>6, <1>7, OneJobChanges

\* Reading and saving.
LEMMA RunStep ==
  ASSUME ImportInv, NEW j \in Job, Run(j)
  PROVE  ImportInv'
<1>1. CASE BeginSaving(j)
  <2>1. /\ engine[j].doing = "reading" /\ saved' = [saved EXCEPT ![j] = "part"]
        /\ engine' = [engine EXCEPT ![j].doing = "saving"]
        /\ UNCHANGED <<owner, disk, payload, jobs, worker, running, importRestarts>>
    BY <1>1 DEF BeginSaving
  <2>2. j <= jobs /\ JobInv(j)
    BY <2>1, AskedFor
  <2>3. ImportTypeOK'
    BY <2>1 DEF ImportInv, ImportTypeOK, Doing
  <2>4. /\ engine'[j].doing = "saving" /\ saved'[j] = "part"
        /\ \A k \in Job \ {j} : engine'[k] = engine[k] /\ saved'[k] = saved[k]
    BY <2>1 DEF ImportInv, ImportTypeOK
  <2>5. \A k \in Job : Busy(k)' <=> Busy(k)
    BY <2>1, <2>4 DEF Busy
  <2>6. SlotInv'
    BY <2>1, <2>5, SlotKept DEF ImportInv
  <2>7. JobInv(j)'
    BY <2>1, <2>2, <2>4 DEF JobInv, Unfinished, Busy, Terminal
  <2>8. QED
    BY <2>1, <2>2, <2>3, <2>4, <2>6, <2>7, OneJobChanges
<1>2. CASE StopReading(j) \/ StopSaving(j)
  <2>1. /\ Busy(j) /\ saved' = [saved EXCEPT ![j] = "none"] /\ Settle(j, "cancelled")
    BY <1>2 DEF StopReading, StopSaving, Busy
  <2>2. QED
    BY <2>1, SettleStep DEF ImportInv, ImportTypeOK, Terminal
<1>3. CASE FailReading(j)
  <2>1. /\ Busy(j) /\ saved' = saved /\ saved[j] = "none" /\ Settle(j, "failed")
    BY <1>3 DEF FailReading, Busy
  <2>2. QED
    BY <2>1, SettleStep DEF ImportInv, ImportTypeOK, Terminal
<1>4. CASE FailSaving(j)
  <2>1. /\ Busy(j) /\ saved' = [saved EXCEPT ![j] = "none"] /\ Settle(j, "failed")
    BY <1>4 DEF FailSaving, Busy
  <2>2. QED
    BY <2>1, SettleStep DEF ImportInv, ImportTypeOK, Terminal
<1>5. CASE Finish(j)
  <2>1. /\ Busy(j) /\ saved' = [saved EXCEPT ![j] = "whole"] /\ Settle(j, "done")
    BY <1>5 DEF Finish, Busy
  <2>2. QED
    BY <2>1, SettleStep DEF ImportInv, ImportTypeOK, Terminal
<1>6. QED
  BY <1>1, <1>2, <1>3, <1>4, <1>5 DEF Run

\* What a worker that comes round writes of the jobs of its person.  It is not
\* busy, so none of them is running.
LEMMA TookStep ==
  ASSUME ImportInv, NEW u \in User, WorkerDue(u), NEW launched \in SUBSET Pending(u), Took(u, launched)
  PROVE  /\ disk' \in [Job -> [stage : Stage, attempts : Nat, cancelled : BOOLEAN, undone : BOOLEAN]]
         /\ payload' \in [Job -> BOOLEAN]
         /\ \A k \in Job : owner[k] = u => ~Busy(k)
         /\ \A k \in Poisoned(u) : /\ k <= jobs /\ disk'[k].stage = "failed"
                                   /\ disk'[k].attempts = disk[k].attempts /\ disk[k].attempts = MaxAttempts
         /\ \A k \in launched : /\ k <= jobs /\ payload[k] /\ disk'[k].stage = LaunchStage(k)
                                /\ disk'[k].attempts = disk[k].attempts + 1
                                /\ disk'[k].attempts <= MaxAttempts /\ disk'[k].attempts # 0
                                /\ LaunchStage(k) = IF disk[k].cancelled THEN "cancelled" ELSE "running"
         /\ \A k \in Job \ (Poisoned(u) \cup launched) : disk'[k] = disk[k]
         /\ \A k \in Job : disk'[k].stage \notin Terminal => payload'[k] = payload[k]
<1>1. /\ disk' = [j \in Job |->
               IF j \in Poisoned(u) THEN [disk[j] EXCEPT !.stage = "failed"]
               ELSE IF j \in launched THEN [disk[j] EXCEPT !.attempts = @ + 1, !.stage = LaunchStage(j)]
               ELSE disk[j]]
      /\ payload' = [j \in Job |-> payload[j] /\ disk'[j].stage \notin Terminal]
  BY DEF Took
<1>2. \A k \in Job : owner[k] = u => ~Busy(k)
  BY DEF WorkerDue, ImportInv, SlotInv, OneAtATime
<1>3. \A k \in Job : Unfinished(k) => k <= jobs /\ JobInv(k)
  BY AskedFor DEF Unfinished
<1>4. \A k \in Job : /\ disk[k] \in [stage : Stage, attempts : Nat, cancelled : BOOLEAN, undone : BOOLEAN]
                    /\ disk[k].attempts \in Nat
  BY DEF ImportInv, ImportTypeOK
<1>5. \A k \in Poisoned(u) : /\ k \in Job /\ k <= jobs /\ disk'[k].stage = "failed"
                            /\ disk'[k].attempts = disk[k].attempts /\ disk[k].attempts = MaxAttempts
  <2>1. ASSUME NEW k \in Poisoned(u)
        PROVE  /\ k \in Job /\ k <= jobs /\ disk'[k].stage = "failed"
               /\ disk'[k].attempts = disk[k].attempts /\ disk[k].attempts = MaxAttempts
    <3>1. k \in Job /\ Unfinished(k) /\ disk[k].attempts >= MaxAttempts
      BY DEF Poisoned
    <3>2. k <= jobs /\ disk[k].attempts <= MaxAttempts
      BY <1>3, <3>1 DEF JobInv
    <3>3. disk'[k] = [disk[k] EXCEPT !.stage = "failed"]
      BY <1>1, <3>1
    <3>4. disk'[k].stage = "failed" /\ disk'[k].attempts = disk[k].attempts
      BY <1>4, <3>1, <3>3
    <3>5. disk[k].attempts = MaxAttempts
      BY <1>4, <3>1, <3>2, ClaimQueueAssumption
    <3>6. QED
      BY <3>1, <3>2, <3>4, <3>5
  <2>2. QED
    BY <2>1
<1>6. \A k \in launched : k \in Job /\ Unfinished(k) /\ disk[k].attempts < MaxAttempts /\ k \notin Poisoned(u)
  BY <1>4, ClaimQueueAssumption DEF Pending, Poisoned
<1>7. ASSUME NEW k \in launched
      PROVE  /\ k <= jobs /\ payload[k] /\ disk'[k].stage = LaunchStage(k)
             /\ disk'[k].attempts = disk[k].attempts + 1
             /\ disk'[k].attempts <= MaxAttempts /\ disk'[k].attempts # 0
             /\ LaunchStage(k) = IF disk[k].cancelled THEN "cancelled" ELSE "running"
  <2>1. k <= jobs /\ payload[k]
    BY <1>3, <1>6 DEF JobInv
  <2>2. disk'[k] = [disk[k] EXCEPT !.attempts = @ + 1, !.stage = LaunchStage(k)]
    BY <1>1, <1>6
  <2>3. disk'[k].stage = LaunchStage(k) /\ disk'[k].attempts = disk[k].attempts + 1
    BY <1>4, <1>6, <2>2
  <2>4. disk'[k].attempts <= MaxAttempts /\ disk'[k].attempts # 0
    BY <1>4, <1>6, <2>3, ClaimQueueAssumption
  <2>5. LaunchStage(k) = IF disk[k].cancelled THEN "cancelled" ELSE "running"
    BY <2>1 DEF LaunchStage
  <2>6. QED
    BY <2>1, <2>3, <2>4, <2>5
<1>8. disk' \in [Job -> [stage : Stage, attempts : Nat, cancelled : BOOLEAN, undone : BOOLEAN]]
  <2>1. \A k \in Job : LaunchStage(k) \in Stage /\ "failed" \in Stage
    BY DEF LaunchStage, Stage, Terminal
  <2>2. ASSUME NEW k \in Job
        PROVE  disk'[k] \in [stage : Stage, attempts : Nat, cancelled : BOOLEAN, undone : BOOLEAN]
    <3>1. CASE k \in Poisoned(u)
      BY <1>1, <1>4, <2>1, <3>1
    <3>2. CASE k \notin Poisoned(u) /\ k \in launched
      <4>1. disk'[k] = [disk[k] EXCEPT !.attempts = disk[k].attempts + 1, !.stage = LaunchStage(k)]
        BY <1>1, <3>2
      <4>2. disk[k].attempts + 1 \in Nat
        BY <1>4
      <4>3. QED
        BY <1>4, <2>1, <4>1, <4>2
    <3>3. CASE k \notin Poisoned(u) /\ k \notin launched
      BY <1>1, <1>4, <3>3
    <3>4. QED
      BY <3>1, <3>2, <3>3
  <2>3. QED
    BY <1>1, <2>2
<1>9. payload' \in [Job -> BOOLEAN]
  BY <1>1, Zenon
<1>10. \A k \in Job : disk'[k].stage \notin Terminal => payload'[k] = payload[k]
  BY <1>1 DEF ImportInv, ImportTypeOK
<1>11. \A k \in Job \ (Poisoned(u) \cup launched) : disk'[k] = disk[k]
  BY <1>1
<1>12. QED
  BY <1>2, <1>5, <1>7, <1>8, <1>9, <1>10, <1>11

LEMMA ProcessNothingStep ==
  ASSUME ImportInv, NEW u \in User, ProcessNothing(u)
  PROVE  ImportInv'
<1>1. /\ WorkerDue(u) /\ Took(u, {}) /\ worker' = [worker EXCEPT ![u] = "polling"]
      /\ UNCHANGED <<owner, jobs, engine, saved, running, importRestarts>>
  BY DEF ProcessNothing
<1>2. /\ disk' \in [Job -> [stage : Stage, attempts : Nat, cancelled : BOOLEAN, undone : BOOLEAN]]
      /\ payload' \in [Job -> BOOLEAN]
      /\ \A k \in Job : owner[k] = u => ~Busy(k)
      /\ \A k \in Poisoned(u) : /\ k <= jobs /\ disk'[k].stage = "failed"
                                /\ disk'[k].attempts = disk[k].attempts /\ disk[k].attempts = MaxAttempts
      /\ \A k \in Job \ Poisoned(u) : disk'[k] = disk[k]
      /\ \A k \in Job : disk'[k].stage \notin Terminal => payload'[k] = payload[k]
  BY <1>1, TookStep
<1>3. ImportTypeOK'
  BY <1>1, <1>2 DEF ImportInv, ImportTypeOK, Worker
<1>4. SlotInv'
  <2>1. \A k \in Job : Busy(k)' <=> Busy(k)
    BY <1>1 DEF Busy
  <2>2. \A v \in User : worker'[v] = "busy" <=> worker[v] = "busy"
    BY <1>1 DEF WorkerDue, ImportInv, ImportTypeOK
  <2>3. QED
    BY <1>1, <2>1, <2>2, SlotKept DEF ImportInv
<1>5. ASSUME NEW k \in Job, JobInv(k)
      PROVE  JobInv(k)'
  <2>1. CASE k \in Poisoned(u)
    <3>1. ~Busy(k) /\ Unfinished(k)
      BY <1>2, <2>1 DEF Poisoned
    <3>2. QED
      BY <1>1, <1>2, <1>5, <2>1, <3>1, ClaimQueueAssumption DEF JobInv, Unfinished, Busy, Terminal
  <2>2. CASE k \notin Poisoned(u)
    <3>1. disk'[k] = disk[k] /\ engine'[k] = engine[k] /\ saved'[k] = saved[k]
      BY <1>1, <1>2, <2>2
    <3>2. QED
      BY <1>2, <1>5, <3>1 DEF JobInv, Unfinished, Busy
  <2>3. QED
    BY <2>1, <2>2
<1>6. ASSUME NEW k \in Job, ~(k <= jobs), Untouched(k)
      PROVE  Untouched(k)'
  BY <1>1, <1>2, <1>6 DEF Untouched
<1>7. QED
  BY <1>1, <1>3, <1>4, <1>5, <1>6 DEF ImportInv

\* The slot goes to the oldest job waiting; one cancelled before it ran again
\* takes back what it had saved and frees the slot at once.
LEMMA ProcessNextStep ==
  ASSUME ImportInv, NEW u \in User, ProcessNext(u)
  PROVE  ImportInv'
<1>1. PICK j : j = Oldest(Pending(u))
  OBVIOUS
<1>2. /\ WorkerDue(u) /\ Pending(u) # {} /\ running < MaxRunning /\ Took(u, {j})
      /\ engine' = (IF payload[j] THEN Started(j) ELSE engine)
      /\ saved' = (IF LaunchStage(j) = "cancelled" THEN [saved EXCEPT ![j] = "none"] ELSE saved)
      /\ Launch(u, j) /\ UNCHANGED <<owner, jobs, importRestarts>>
  BY <1>1 DEF ProcessNext
<1>3. j \in Pending(u) /\ j \in Job /\ owner[j] = u /\ Unfinished(j) /\ {j} \in SUBSET Pending(u)
  BY <1>1, <1>2, OldestOfSome DEF Pending
<1>4. /\ disk' \in [Job -> [stage : Stage, attempts : Nat, cancelled : BOOLEAN, undone : BOOLEAN]]
      /\ payload' \in [Job -> BOOLEAN]
      /\ \A k \in Job : owner[k] = u => ~Busy(k)
      /\ \A k \in Poisoned(u) : /\ k <= jobs /\ disk'[k].stage = "failed"
                                /\ disk'[k].attempts = disk[k].attempts /\ disk[k].attempts = MaxAttempts
      /\ j <= jobs /\ payload[j] /\ disk'[j].stage = LaunchStage(j)
      /\ disk'[j].attempts <= MaxAttempts /\ disk'[j].attempts # 0
      /\ LaunchStage(j) = IF disk[j].cancelled THEN "cancelled" ELSE "running"
      /\ \A k \in Job \ (Poisoned(u) \cup {j}) : disk'[k] = disk[k]
      /\ \A k \in Job : disk'[k].stage \notin Terminal => payload'[k] = payload[k]
  BY <1>2, <1>3, TookStep
<1>5. engine' = Started(j)
  BY <1>2, <1>4
<1>6. /\ engine' \in [Job -> [doing : Doing, cancelled : BOOLEAN, undone : BOOLEAN]]
      /\ engine'[j].doing = IF disk[j].cancelled THEN "cancelled" ELSE "reading"
      /\ \A k \in Job \ {j} : engine'[k] = engine[k]
  BY <1>3, <1>5 DEF Started, ImportInv, ImportTypeOK, Doing, Terminal
<1>7. /\ saved' \in [Job -> {"none", "part", "whole"}]
      /\ saved'[j] = IF disk[j].cancelled THEN "none" ELSE saved[j]
      /\ \A k \in Job \ {j} : saved'[k] = saved[k]
  BY <1>2, <1>3, <1>4 DEF ImportInv, ImportTypeOK
<1>8. worker[u] # "busy"
  BY <1>2 DEF WorkerDue
<1>9. SlotInv' /\ running' \in Nat /\ worker' \in [User -> Worker]
  <2>1. CASE disk[j].cancelled
    <3>1. worker' = [worker EXCEPT ![u] = "polling"] /\ running' = running
      BY <1>2, <1>4, <2>1 DEF Launch
    <3>2. \A k \in Job : Busy(k)' <=> Busy(k)
      BY <1>3, <1>4, <1>6, <2>1 DEF Busy
    <3>3. \A v \in User : worker'[v] = "busy" <=> worker[v] = "busy"
      BY <1>8, <3>1 DEF ImportInv, ImportTypeOK
    <3>4. SlotInv'
      BY <1>2, <3>1, <3>2, <3>3, SlotKept DEF ImportInv
    <3>5. QED
      BY <3>1, <3>4 DEF ImportInv, ImportTypeOK, Worker
  <2>2. CASE ~disk[j].cancelled
    <3>1. worker' = [worker EXCEPT ![u] = "busy"] /\ running' = running + 1
      BY <1>2, <1>4, <2>2 DEF Launch
    <3>2. \A k \in Job : Busy(k)' <=> k = j \/ Busy(k)
      BY <1>3, <1>6, <2>2 DEF Busy
    <3>3. SlotInv' /\ running' \in Nat
      BY <1>2, <1>3, <1>4, <1>8, <3>1, <3>2, SlotTaken
    <3>4. QED
      BY <3>1, <3>3 DEF ImportInv, ImportTypeOK, Worker
  <2>3. QED
    BY <2>1, <2>2
<1>10. ImportTypeOK'
  BY <1>2, <1>4, <1>6, <1>7, <1>9 DEF ImportInv, ImportTypeOK
<1>11. ASSUME NEW k \in Job, JobInv(k)
       PROVE  JobInv(k)'
  <2>1. CASE k = j
    <3>1. CASE disk[j].cancelled
      BY <1>4, <1>6, <1>7, <2>1, <3>1 DEF JobInv, Unfinished, Busy, Terminal
    <3>2. CASE ~disk[j].cancelled
      BY <1>3, <1>4, <1>6, <1>7, <2>1, <3>2 DEF JobInv, Unfinished, Busy, Terminal
    <3>3. QED
      BY <3>1, <3>2
  <2>2. CASE k # j /\ k \in Poisoned(u)
    <3>1. ~Busy(k) /\ Unfinished(k)
      BY <1>4, <2>2 DEF Poisoned
    <3>2. engine'[k] = engine[k] /\ saved'[k] = saved[k]
      BY <1>6, <1>7, <2>2
    <3>3. QED
      BY <1>4, <1>11, <2>2, <3>1, <3>2, ClaimQueueAssumption DEF JobInv, Unfinished, Busy, Terminal
  <2>3. CASE k # j /\ k \notin Poisoned(u)
    <3>1. disk'[k] = disk[k] /\ engine'[k] = engine[k] /\ saved'[k] = saved[k]
      BY <1>4, <1>6, <1>7, <2>3
    <3>2. QED
      BY <1>4, <1>11, <3>1 DEF JobInv, Unfinished, Busy
  <2>4. QED
    BY <2>1, <2>2, <2>3
<1>12. ASSUME NEW k \in Job, ~(k <= jobs), Untouched(k)
       PROVE  Untouched(k)'
  BY <1>4, <1>6, <1>7, <1>12 DEF Untouched
<1>13. QED
  BY <1>2, <1>9, <1>10, <1>11, <1>12 DEF ImportInv

LEMMA SweepStep ==
  ASSUME ImportInv, NEW j \in Job, SweepFile(j) \/ SweepEngine(j)
  PROVE  ImportInv'
<1>1. CASE SweepFile(j)
  <2>1. /\ disk[j].stage \in Terminal /\ disk' = [disk EXCEPT ![j] = NoFile]
        /\ UNCHANGED <<owner, payload, jobs, engine, saved, worker, running, importRestarts>>
    BY <1>1 DEF SweepFile
  <2>2. j <= jobs /\ JobInv(j)
    BY <2>1, AskedFor DEF Terminal
  <2>3. ImportTypeOK'
    BY <2>1 DEF ImportInv, ImportTypeOK, NoFile, Stage
  <2>4. disk'[j] = NoFile /\ \A k \in Job \ {j} : disk'[k] = disk[k]
    BY <2>1 DEF ImportInv, ImportTypeOK
  <2>5. SlotInv'
    BY <2>1, SlotKept DEF ImportInv, Busy
  <2>6. JobInv(j)'
    BY <2>1, <2>2, <2>4, ClaimQueueAssumption DEF JobInv, Unfinished, Busy, Terminal, NoFile
  <2>7. QED
    BY <2>1, <2>2, <2>3, <2>4, <2>5, <2>6, OneJobChanges
<1>2. CASE SweepEngine(j)
  <2>1. /\ engine[j].doing \in Terminal /\ engine' = [engine EXCEPT ![j] = NoEngine]
        /\ UNCHANGED <<owner, disk, payload, jobs, saved, worker, running, importRestarts>>
    BY <1>2 DEF SweepEngine
  <2>2. j <= jobs /\ JobInv(j)
    BY <2>1, AskedFor DEF Terminal
  <2>3. ImportTypeOK'
    BY <2>1 DEF ImportInv, ImportTypeOK, NoEngine, Doing
  <2>4. engine'[j] = NoEngine /\ \A k \in Job \ {j} : engine'[k] = engine[k]
    BY <2>1 DEF ImportInv, ImportTypeOK
  <2>5. \A k \in Job : Busy(k)' <=> Busy(k)
    BY <2>1, <2>4 DEF Busy, NoEngine, Terminal
  <2>6. SlotInv'
    BY <2>1, <2>5, SlotKept DEF ImportInv
  <2>7. JobInv(j)'
    BY <2>1, <2>2, <2>4 DEF JobInv, Unfinished, Busy, Terminal, NoEngine
  <2>8. QED
    BY <2>1, <2>2, <2>3, <2>4, <2>6, <2>7, OneJobChanges
<1>3. QED
  BY <1>1, <1>2

\* A restart loses what is in memory: nothing is busy, and nothing is counted.
LEMMA ImportRestartStep ==
  ASSUME ImportInv, ImportRestart
  PROVE  ImportInv'
<1>1. /\ importRestarts < MaxImportRestarts /\ importRestarts' = importRestarts + 1
      /\ engine' = [j \in Job |-> NoEngine] /\ worker' = [u \in User |-> Recover(u)] /\ running' = 0
      /\ UNCHANGED <<owner, disk, payload, jobs, saved>>
  BY DEF ImportRestart
<1>2. \A u \in User : Recover(u) \in Worker /\ Recover(u) # "busy"
  BY DEF Recover, Worker
<1>3. ImportTypeOK'
  <2>1. importRestarts' \in 0..MaxImportRestarts
    BY <1>1, ClaimQueueAssumption DEF ImportInv, ImportTypeOK
  <2>2. engine' \in [Job -> [doing : Doing, cancelled : BOOLEAN, undone : BOOLEAN]]
    BY <1>1 DEF NoEngine, Doing
  <2>3. worker' \in [User -> Worker] /\ running' \in Nat
    BY <1>1, <1>2
  <2>4. QED
    BY <1>1, <2>1, <2>2, <2>3 DEF ImportInv, ImportTypeOK
<1>4. \A k \in Job : ~Busy(k)' /\ engine'[k] = NoEngine
  BY <1>1 DEF Busy, NoEngine
<1>5. SlotInv'
  <2>1. {k \in Job : Busy(k)'} = {}
    BY <1>4
  <2>2. running' = Cardinality({k \in Job : Busy(k)'}) /\ running' <= MaxRunning
    BY <1>1, <2>1, FS_EmptySet, ClaimQueueAssumption
  <2>3. \A u \in User : worker'[u] = "busy" <=> \E k \in Job : owner'[k] = u /\ Busy(k)'
    BY <1>1, <1>2, <1>4
  <2>4. QED
    BY <1>4, <2>2, <2>3 DEF SlotInv, OneAtATime
<1>6. \A k \in Job : (JobInv(k) => JobInv(k)') /\ (Untouched(k) => Untouched(k)')
  BY <1>1, <1>4 DEF JobInv, Unfinished, Busy, Untouched, NoEngine, Terminal
<1>7. QED
  BY <1>1, <1>3, <1>5, <1>6 DEF ImportInv

LEMMA StopWorkerStep ==
  ASSUME ImportInv, NEW u \in User, StopWorker(u)
  PROVE  ImportInv'
<1>1. /\ worker[u] = "polling" /\ worker' = [worker EXCEPT ![u] = "stopped"]
      /\ UNCHANGED <<owner, disk, payload, jobs, engine, saved, running, importRestarts>>
  BY DEF StopWorker
<1>2. ImportTypeOK'
  BY <1>1 DEF ImportInv, ImportTypeOK, Worker
<1>3. \A k \in Job : (Busy(k)' <=> Busy(k)) /\ (JobInv(k) => JobInv(k)') /\ (Untouched(k) => Untouched(k)')
  BY <1>1 DEF Busy, JobInv, Unfinished, Untouched
<1>4. \A v \in User : worker'[v] = "busy" <=> worker[v] = "busy"
  BY <1>1 DEF ImportInv, ImportTypeOK
<1>5. SlotInv'
  BY <1>1, <1>3, <1>4, SlotKept DEF ImportInv
<1>6. QED
  BY <1>1, <1>2, <1>3, <1>5 DEF ImportInv

LEMMA ImportInvStep ==
  ASSUME ImportInv, [ImportNext]_importVars
  PROVE  ImportInv'
<1>1. CASE UNCHANGED importVars
  <2>1. \A k \in Job : (Busy(k)' <=> Busy(k)) /\ (JobInv(k) => JobInv(k)') /\ (Untouched(k) => Untouched(k)')
    BY <1>1 DEF importVars, Busy, JobInv, Unfinished, Untouched
  <2>2. SlotInv'
    BY <1>1, <2>1, SlotKept DEF importVars, ImportInv
  <2>3. QED
    BY <1>1, <2>1, <2>2 DEF importVars, ImportInv, ImportTypeOK
<1>2. ASSUME NEW j \in Job, Run(j)
      PROVE  ImportInv'
  BY <1>2, RunStep
<1>3. QED
  BY <1>1, <1>2, EnqueueStep, CancelRunningStep, CancelWaitingStep, UndoStep, ProcessNothingStep,
     ProcessNextStep, StopWorkerStep, SweepStep, ImportRestartStep DEF ImportNext, Run

\* Whatever the restarts, cancellations and undos, one import runs at a time,
\* one that did not finish has left nothing behind, and an Undo is offered only
\* where there is something to undo (claims/claim-queue.js, claim-worker.js):
\* for any people, any number of jobs, any limits.
THEOREM ImportsStayHeld == ImportSpec => []ImportsHold
<1>1. ImportInv /\ [ImportNext]_importVars => ImportInv'
  BY ImportInvStep
<1>2. ImportInv => ImportsHold
  <2> SUFFICES ASSUME ImportInv PROVE ImportsHold
    OBVIOUS
  <2>1. ASSUME NEW j \in Job, disk[j].stage # "absent"
        PROVE  JobInv(j)
    BY <2>1, AskedFor
  <2>2. NothingLeftBehind
    BY <2>1 DEF NothingLeftBehind, JobInv
  <2>3. OfferedCanBeUndone
    BY <2>1 DEF OfferedCanBeUndone, Offered, JobInv
  <2>4. QED
    BY <2>2, <2>3 DEF ImportInv, SlotInv, ImportsHold
<1>3. QED
  BY ImportInvInit, <1>1, <1>2, PTL DEF ImportSpec

\* No late write of progress, no restart and no cancellation brings back a job
\* that has ended (claims/claim-worker.js onSettle, claim-queue.js).
THEOREM EndedNeverComesBack == ImportSpec => EndedStaysEnded
<1> DEFINE NoneBack == \A j \in Job : disk[j].stage \in Terminal => disk'[j].stage \in {disk[j].stage, "absent"}
<1>1. ASSUME ImportInv, [ImportNext]_importVars
      PROVE  [NoneBack]_importVars
  <2> SUFFICES ASSUME NEW j \in Job, disk[j].stage \in Terminal, ImportNext
               PROVE  disk'[j].stage \in {disk[j].stage, "absent"}
    BY <1>1
  <2>1. /\ disk \in [Job -> [stage : Stage, attempts : Nat, cancelled : BOOLEAN, undone : BOOLEAN]]
        /\ ~Unfinished(j) /\ ~Busy(j)
    BY <1>1, AskedFor DEF Unfinished, Terminal, Busy, JobInv, ImportInv, ImportTypeOK
  <2>2. ASSUME NEW u \in User, Enqueue(u)
        PROVE  disk'[j] = disk[j]
    <3>1. j # jobs + 1
      BY <1>1, AskedFor DEF Terminal, ImportInv, ImportTypeOK
    <3>2. QED
      BY <2>1, <2>2, <3>1 DEF Enqueue
  <2>3. ASSUME NEW k \in Job, CancelRunning(k) \/ CancelWaiting(k)
        PROVE  disk'[j] = disk[j]
    <3>1. k # j
      BY <2>1, <2>3 DEF CancelRunning, CancelWaiting, Busy
    <3>2. QED
      BY <2>1, <2>3, <3>1 DEF CancelRunning, CancelWaiting, Written
  <2>4. ASSUME NEW k \in Job, Undo(k)
        PROVE  disk'[j].stage = disk[j].stage
    BY <2>1, <2>4 DEF Undo
  <2>5. ASSUME NEW u \in User, ProcessNothing(u) \/ ProcessNext(u)
        PROVE  disk'[j] = disk[j]
    <3>1. j \notin Poisoned(u) /\ j \notin Pending(u)
      BY <2>1 DEF Poisoned, Pending
    <3>2. Pending(u) # {} => Oldest(Pending(u)) # j
      BY <3>1, OldestOfSome DEF Pending
    <3>3. QED
      BY <2>5, <3>1, <3>2 DEF ProcessNothing, ProcessNext, Took
  <2>6. ASSUME NEW k \in Job, Run(k)
        PROVE  disk'[j] = disk[j]
    <3>1. CASE BeginSaving(k)
      BY <3>1 DEF BeginSaving
    <3>2. CASE ~BeginSaving(k)
      <4>1. k # j /\ \E stage \in Terminal : Settle(k, stage)
        BY <2>1, <2>6, <3>2 DEF Run, StopReading, FailReading, StopSaving, FailSaving, Finish, Busy, Terminal
      <4>2. QED
        BY <2>1, <4>1 DEF Settle, Written
    <3>3. QED
      BY <3>1, <3>2
  <2>7. ASSUME NEW k \in Job, SweepFile(k) \/ SweepEngine(k)
        PROVE  disk'[j].stage \in {disk[j].stage, "absent"}
    BY <2>1, <2>7 DEF SweepFile, SweepEngine, NoFile
  <2>8. ASSUME ImportRestart \/ \E u \in User : StopWorker(u)
        PROVE  disk'[j] = disk[j]
    BY <2>8 DEF ImportRestart, StopWorker
  <2>9. QED
    BY <2>2, <2>3, <2>4, <2>5, <2>6, <2>7, <2>8 DEF ImportNext, Run
<1>2. ImportInv /\ [ImportNext]_importVars => ImportInv'
  BY ImportInvStep
<1>3. ImportInv /\ [ImportNext]_importVars => [NoneBack]_importVars
  BY <1>1
<1>4. QED
  BY ImportInvInit, <1>2, <1>3, PTL DEF ImportSpec, EndedStaysEnded

-----------------------------------------------------------------------------
(* An uploaded claim: pairing its lines with its receipts.                   *)

ScoreOf(p) == Score(lines[p[1]], reads[p[2]])

LEMMA ScoreIs == ASSUME NEW line, NEW read PROVE Score(line, read) \in 0..175
<1> DEFINE days == Apart(line.date, read.date)
           date == IF line.date = NoDay \/ read.date = NoDay \/ days > 1 THEN 0 ELSE IF days = 0 THEN 100 ELSE 45
           amount == IF ~Stated(line.amount) \/ ~Stated(read.total) THEN 0
                     ELSE IF line.amount = read.total THEN 60
                     ELSE IF 100 * Apart(line.amount, read.total) <= line.amount THEN 25 ELSE 0
           word == IF line.word # "" /\ line.word = read.word THEN 15 ELSE 0
<1>1. Score(line, read) = date + amount + word
  BY DEF Score
<1>2. date \in {0, 45, 100}
  BY Zenon
<1>3. amount \in {0, 25, 60}
  BY Zenon
<1>4. word \in {0, 15}
  BY Zenon
<1> HIDE DEF date, amount, word
<1> QED BY <1>1, <1>2, <1>3, <1>4

\* Of some pairs there is a best: of the greatest score, and of those the first.
LEMMA BestIs ==
  ASSUME NEW c \in SUBSET (Nat \X Nat), NEW taken, Free(c, taken) # {}
  PROVE  /\ Best(c, taken) \in Free(c, taken)
         /\ \A q \in Free(c, taken) : q = Best(c, taken) \/ Better(Best(c, taken), q)
<1>1. PICK free : free = Free(c, taken) /\ free \in SUBSET (Nat \X Nat) /\ free # {}
  BY DEF Free
<1>2. \A p \in free : ScoreOf(p) \in 0..175
  BY ScoreIs DEF ScoreOf
<1>3. \E p \in free : \A q \in free : ScoreOf(q) <= ScoreOf(p)
  <2> DEFINE lost == {175 - ScoreOf(p) : p \in free}
  <2>1. lost \in SUBSET Nat /\ lost # {}
    BY <1>1, <1>2
  <2>2. PICK m \in lost : \A k \in lost : m <= k
    BY <2>1, LeastOfSome
  <2>3. PICK p \in free : m = 175 - ScoreOf(p)
    BY <2>2
  <2>4. ASSUME NEW q \in free PROVE ScoreOf(q) <= ScoreOf(p)
    <3>1. m <= 175 - ScoreOf(q)
      BY <2>2
    <3>2. ScoreOf(p) \in 0..175 /\ ScoreOf(q) \in 0..175
      BY <1>2
    <3> QED BY SMTT(20), <2>3, <3>1, <3>2
  <2> QED BY <2>4
<1>4. PICK top \in free : \A q \in free : ScoreOf(q) <= ScoreOf(top)
  BY <1>3
<1>5. PICK high : high = {p \in free : ScoreOf(p) = ScoreOf(top)}
  OBVIOUS
<1>6. \E p \in high : \A q \in high : p[1] <= q[1]
  <2>1. {p[1] : p \in high} \in SUBSET Nat /\ {p[1] : p \in high} # {}
    BY <1>1, <1>4, <1>5
  <2>2. PICK m \in {p[1] : p \in high} : \A k \in {p[1] : p \in high} : m <= k
    BY <2>1, LeastOfSome
  <2> QED BY <2>2
<1>7. PICK early \in high : \A q \in high : early[1] <= q[1]
  BY <1>6
<1>8. PICK same : same = {p \in high : p[1] = early[1]}
  OBVIOUS
<1>9. \E p \in same : \A q \in same : p[2] <= q[2]
  <2>1. {p[2] : p \in same} \in SUBSET Nat /\ {p[2] : p \in same} # {}
    BY <1>1, <1>5, <1>7, <1>8
  <2>2. PICK m \in {p[2] : p \in same} : \A k \in {p[2] : p \in same} : m <= k
    BY <2>1, LeastOfSome
  <2> QED BY <2>2
<1>10. PICK p \in same : \A q \in same : p[2] <= q[2]
  BY <1>9
<1>11. p \in free /\ p \in high /\ p[1] = early[1] /\ ScoreOf(p) = ScoreOf(top)
  BY <1>5, <1>8, <1>10
<1>12. ASSUME NEW q \in free PROVE p = q \/ Better(p, q)
  <2>1. /\ ScoreOf(q) <= ScoreOf(p) /\ ScoreOf(q) \in Int /\ ScoreOf(p) \in Int
        /\ p[1] \in Nat /\ p[2] \in Nat /\ q[1] \in Nat /\ q[2] \in Nat
        /\ p = <<p[1], p[2]>> /\ q = <<q[1], q[2]>>
    BY <1>1, <1>2, <1>4, <1>11
  <2>2. CASE ScoreOf(q) < ScoreOf(p)
    BY <2>1, <2>2 DEF Better, ScoreOf
  <2>3. CASE ScoreOf(q) = ScoreOf(p) /\ q[1] # p[1]
    <3>1. q \in high
      BY <1>5, <1>11, <2>3
    <3>2. p[1] < q[1]
      BY <1>7, <1>11, <2>1, <2>3, <3>1
    <3> QED BY <2>3, <3>2 DEF Better, ScoreOf
  <2>4. CASE ScoreOf(q) = ScoreOf(p) /\ q[1] = p[1]
    <3>1. q \in same
      BY <1>5, <1>8, <1>11, <2>4
    <3>2. p[2] <= q[2]
      BY <1>10, <3>1
    <3>3. p[2] = q[2] \/ p[2] < q[2]
      BY <2>1, <3>2
    <3> QED BY <2>1, <2>4, <3>3 DEF Better, ScoreOf
  <2> QED BY <2>1, <2>2, <2>3, <2>4
<1>13. Best(c, taken) \in free /\ \A q \in free : Best(c, taken) = q \/ Better(Best(c, taken), q)
  <2>1. \E x \in free : \A q \in free : x = q \/ Better(x, q)
    BY <1>11, <1>12
  <2>2. Best(c, taken) = CHOOSE x \in free : \A q \in free : x = q \/ Better(x, q)
    BY <1>1 DEF Best
  <2> QED BY <2>1, <2>2
<1> QED BY <1>1, <1>13

\* What has been paired so far: each line and each receipt once, and what could no
\* longer be paired has its line or its receipt in a pair that suits as well.
Suits(c, P) ==
  /\ P \subseteq c
  /\ \A p, q \in P : p # q => p[1] # q[1] /\ p[2] # q[2]
  /\ \A q \in c : q \in Free(c, P) \/ \E p \in P : (p[1] = q[1] \/ p[2] = q[2]) /\ ScoreOf(p) >= ScoreOf(q)

LEMMA SuitsNext ==
  ASSUME NEW c \in SUBSET (Nat \X Nat), NEW P, Suits(c, P), Free(c, P) # {}
  PROVE  Suits(c, P \cup {Best(c, P)}) /\ \A p \in P : p[1] # Best(c, P)[1]
<1>1. PICK b : b = Best(c, P)
  OBVIOUS
<1>2. b \in Free(c, P) /\ \A q \in Free(c, P) : q = b \/ Better(b, q)
  BY <1>1, BestIs
<1>3. b \in c /\ \A p \in P : p[1] # b[1] /\ p[2] # b[2]
  BY <1>2 DEF Free
<1>4. ASSUME NEW q \in c, q \notin Free(c, P \cup {b})
      PROVE  \E p \in P \cup {b} : (p[1] = q[1] \/ p[2] = q[2]) /\ ScoreOf(p) >= ScoreOf(q)
  <2>1. CASE q \in Free(c, P)
    <3>1. b[1] = q[1] \/ b[2] = q[2]
      BY <1>4, <2>1 DEF Free
    <3>2. q = b \/ Better(b, q)
      BY <1>2, <2>1
    <3>3. ScoreOf(q) \in Int /\ ScoreOf(b) \in Int
      BY ScoreIs DEF ScoreOf
    <3>4. ScoreOf(b) >= ScoreOf(q)
      BY <3>2, <3>3 DEF Better, ScoreOf
    <3> QED BY <3>1, <3>4
  <2>2. CASE q \notin Free(c, P)
    BY <2>2 DEF Suits
  <2> QED BY <2>1, <2>2
<1>5. Suits(c, P \cup {b})
  BY <1>3, <1>4 DEF Suits
<1> QED BY <1>1, <1>3, <1>5

Used(P) == {p[1] : p \in P}
LEMMA UsedMore ==
  ASSUME NEW P, NEW b, \A p \in P : p[1] # b[1], IsFiniteSet(Used(P))
  PROVE  IsFiniteSet(Used(P \cup {b})) /\ Cardinality(Used(P \cup {b})) = Cardinality(Used(P)) + 1
<1>1. Used(P \cup {b}) = Used(P) \cup {b[1]} /\ b[1] \notin Used(P)
  BY DEF Used
<1> QED BY <1>1, FS_AddElement

\* The pairs taken after each round.
Takes(g, c) ==
  g = [n \in 0..Len(lines) |-> IF n = 0 THEN {} ELSE IF Free(c, g[n - 1]) = {} THEN g[n - 1] ELSE g[n - 1] \cup {Best(c, g[n - 1])}]

LEMMA TakesExists ==
  ASSUME NEW c \in SUBSET (Nat \X Nat), Len(lines) \in Nat
  PROVE  \E g : Takes(g, c)
<1>1. PICK n, V : n = Len(lines) /\ V = SUBSET c
  OBVIOUS
<1> DEFINE F(s) == IF Free(c, s) = {} THEN s ELSE s \cup {Best(c, s)}
<1>2. \A s \in V : F(s) \in V
  <2>1. ASSUME NEW s \in V, Free(c, s) # {} PROVE Best(c, s) \in c
    <3>1. Best(c, s) \in Free(c, s)
      BY <2>1, BestIs
    <3> QED BY <3>1 DEF Free
  <2> QED BY <1>1, <2>1
<1>3. PICK step : step = [p \in (1..n) \X V |-> F(p[2])]
  OBVIOUS
<1>4. \A m \in 1..n, s \in V : step[<<m, s>>] = F(s)
  BY <1>3
<1>5. n \in Nat /\ {} \in V /\ Stays(step, n, V)
  <2> HIDE DEF F
  <2> QED BY <1>1, <1>2, <1>4 DEF Stays
<1>6. PICK g \in [0..n -> V] : Follows(g, n, {}, step)
  BY <1>5, StagesStay
<1>7. g[0] = {} /\ \A m \in 1..n : g[m] = step[<<m, g[m - 1]>>]
  BY <1>6 DEF Follows
<1>8. ASSUME NEW m \in 0..n PROVE g[m] = IF m = 0 THEN {} ELSE F(g[m - 1])
  <2>1. CASE m = 0
    BY <1>7, <2>1
  <2>2. CASE m # 0
    <3>1. m \in 1..n /\ m - 1 \in 0..n
      BY <1>5, <2>2
    <3> HIDE DEF F
    <3> QED BY <1>4, <1>6, <1>7, <2>2, <3>1
  <2> QED BY <2>1, <2>2
<1>9. g = [m \in 0..n |-> g[m]]
  BY <1>6
<1>10. Takes(g, c)
  BY <1>1, <1>8, <1>9 DEF Takes
<1> QED BY <1>10

\* All that could be paired is: what is left apart has its line or its receipt in a pair that suits as well.
LEMMA AssignedSuits ==
  ASSUME NEW c \in SUBSET (Nat \X Nat), Len(lines) \in Nat, \A p \in c : p[1] \in 1..Len(lines)
  PROVE  Suits(c, Assigned(c)) /\ Free(c, Assigned(c)) = {}
<1>1. PICK g : Takes(g, c) /\ Assigned(c) = g[Len(lines)]
  BY TakesExists DEF Takes, Assigned
<1>2. PICK n \in Nat : n = Len(lines)
  OBVIOUS
<1>3. g[0] = {} /\ \A m \in 1..n : g[m] = IF Free(c, g[m - 1]) = {} THEN g[m - 1] ELSE g[m - 1] \cup {Best(c, g[m - 1])}
  <2>1. \A m \in 0..n : g[m] = IF m = 0 THEN {} ELSE IF Free(c, g[m - 1]) = {} THEN g[m - 1] ELSE g[m - 1] \cup {Best(c, g[m - 1])}
    BY <1>1, <1>2 DEF Takes
  <2>2. 0 \in 0..n /\ \A m \in 1..n : m \in 0..n /\ m # 0
    OBVIOUS
  <2> QED BY <2>1, <2>2
<1> DEFINE Counts(m) == IsFiniteSet(Used(g[m])) /\ Cardinality(Used(g[m])) = m
           G == {m \in 0..n : Suits(c, g[m]) /\ (Free(c, g[m]) = {} \/ Counts(m))}
<1>4. 0 \in G
  <2>1. Suits(c, {})
    BY DEF Suits, Free
  <2>2. Used({}) = {} /\ IsFiniteSet({}) /\ Cardinality({}) = 0
    BY FS_EmptySet DEF Used
  <2>3. g[0] = {} /\ Counts(0)
    BY <1>3, <2>2
  <2>4. 0 \in 0..n
    OBVIOUS
  <2> HIDE DEF Counts
  <2> QED BY <2>1, <2>3, <2>4
<1>5. ASSUME NEW m \in 1..n, m - 1 \in G PROVE m \in G
  <2>1. Suits(c, g[m - 1]) /\ (Free(c, g[m - 1]) = {} \/ Counts(m - 1)) /\ m \in 0..n
    <3> HIDE DEF Counts
    <3> QED BY <1>5
  <2>2. CASE Free(c, g[m - 1]) = {}
    <3>1. g[m] = g[m - 1]
      BY <1>3, <2>2
    <3> HIDE DEF Counts
    <3> QED BY <2>1, <2>2, <3>1
  <2>3. CASE Free(c, g[m - 1]) # {}
    <3>1. g[m] = g[m - 1] \cup {Best(c, g[m - 1])}
      BY <1>3, <2>3
    <3>2. Suits(c, g[m]) /\ \A p \in g[m - 1] : p[1] # Best(c, g[m - 1])[1]
      BY <2>1, <2>3, <3>1, SuitsNext
    <3>3. IsFiniteSet(Used(g[m - 1])) /\ Cardinality(Used(g[m - 1])) = m - 1
      BY <2>1, <2>3
    <3>4. IsFiniteSet(Used(g[m])) /\ Cardinality(Used(g[m])) = m - 1 + 1
      BY <3>1, <3>2, <3>3, UsedMore
    <3>5. Counts(m)
      BY <3>4
    <3> HIDE DEF Counts
    <3> QED BY <2>1, <3>2, <3>5
  <2> QED BY <2>2, <2>3
<1>6. \A m \in 0..n : m \in G
  <2> HIDE DEF G
  <2> QED BY <1>4, <1>5, StageByStage
<1>7. Suits(c, g[n]) /\ (Free(c, g[n]) = {} \/ Counts(n))
  <2>1. n \in 0..n
    OBVIOUS
  <2> HIDE DEF Counts
  <2> QED BY <1>6, <2>1
<1>8. ASSUME Counts(n), NEW q \in Free(c, g[n]) PROVE FALSE
  <2>1. Used(g[n]) \subseteq 1..n
    BY <1>2, <1>7 DEF Used, Suits
  <2>2. IsFiniteSet(1..n) /\ Cardinality(1..n) = n
    <3>1. 1 \in Int /\ n \in Int /\ (1 > n => n = 0)
      OBVIOUS
    <3>2. IsFiniteSet(1..n) /\ Cardinality(1..n) = IF 1 > n THEN 0 ELSE n - 1 + 1
      BY <3>1, FS_Interval
    <3> QED BY <3>1, <3>2
  <2>3. Used(g[n]) = 1..n
    BY <1>8, <2>1, <2>2, FS_Subset
  <2>4. q \in c /\ \A p \in g[n] : p[1] # q[1]
    BY <1>8 DEF Free
  <2>5. q[1] \in Used(g[n])
    BY <1>2, <2>3, <2>4
  <2> QED BY <2>4, <2>5 DEF Used
<1> HIDE DEF Counts
<1> QED BY <1>1, <1>2, <1>7, <1>8

-----------------------------------------------------------------------------
(* The archives: every file is read or left out with a reason.               *)

LEMMA FlattensAlike == \A ss : Seqs!FlattenSeq(ss) = Strung!FlattenSeq(ss)
BY DEF Seqs!FlattenSeq, Strung!FlattenSeq

LEMMA EntriesAre ==
  ASSUME bundle \in Bundle
  PROVE  /\ Entries \in SUBSET Nat /\ IsFiniteSet(Entries)
         /\ \A e \in Entries : EntryAt(e) \in ArchiveEntry
<1>1. bundle.archives \in Seq(Seq(ArchiveEntry))
  BY ClaimAssumption
<1>2. PICK all : all = Seqs!FlattenSeq(bundle.archives) /\ all \in Seq(ArchiveEntry)
  BY <1>1, Flattened, FlattensAlike
<1>3. DOMAIN all = 1..Len(all) /\ Len(all) \in Nat /\ \A e \in DOMAIN all : all[e] \in ArchiveEntry
  BY <1>2
<1>4. IsFiniteSet(1..Len(all))
  BY <1>3, FS_Interval
<1> QED BY <1>2, <1>3, <1>4 DEF Entries, EntryAt

FineEntries == {e \in Entries : EntryAt(e).type = "fine"}
LeftOut == {e \in Entries : EntryAt(e).type \in {"large", "fake", "torn", "other"}}

\* What an import within its limit makes of each file.
LEMMA ReasonsAre ==
  ASSUME bundle \in Bundle, \A e \in Entries : ReasonOf(e) # "limit"
  PROVE  /\ {e \in Entries : ReasonOf(e) = "kept"} = FineEntries
         /\ {e \in Entries : ReasonOf(e) \notin {"kept", "system file"}} = LeftOut
         /\ \A e \in FineEntries : Room(e) > 0
<1>1. ASSUME NEW e \in Entries
      PROVE  /\ ReasonOf(e) = "kept" <=> EntryAt(e).type = "fine"
             /\ ReasonOf(e) \notin {"kept", "system file"} <=> EntryAt(e).type \in {"large", "fake", "torn", "other"}
             /\ EntryAt(e).type = "fine" => Room(e) > 0
  <2>1. EntryAt(e).type \in {"fine", "large", "fake", "torn", "junk", "other"}
    BY EntriesAre DEF ArchiveEntry, EntryType
  <2>2. Room(e) \in Int
    <3>1. KeptBefore(e) \in SUBSET Entries /\ IsFiniteSet(Entries)
      BY EntriesAre DEF KeptBefore
    <3>2. Cardinality(KeptBefore(e)) \in Nat
      BY <3>1, FS_Subset, FS_CardinalityType
    <3>3. MaxReceipts \in Nat
      BY ClaimAssumption
    <3> QED BY <3>2, <3>3 DEF Room
  <2>a. PICK type : type = EntryAt(e).type
    OBVIOUS
  <2>b. PICK room \in Int : room = Room(e)
    BY <2>2
  <2>3. type = EntryAt(e).type /\ room = Room(e)
    BY <2>a, <2>b
  <2>4. ReasonOf(e) # "limit"
    OBVIOUS
  <2>5. CASE type = "junk"
    BY <2>3, <2>5 DEF ReasonOf
  <2>6. CASE type = "other"
    BY <2>3, <2>6 DEF ReasonOf
  <2>7. CASE type \notin {"junk", "other"} /\ room <= 0
    BY <2>3, <2>4, <2>7 DEF ReasonOf
  <2>8. CASE type = "large" /\ room > 0
    BY <2>3, <2>8 DEF ReasonOf
  <2>9. CASE type \in {"fake", "torn"} /\ room > 0
    BY <2>3, <2>9 DEF ReasonOf
  <2>10. CASE type = "fine" /\ room > 0
    BY <2>3, <2>10 DEF ReasonOf
  <2>11. room > 0 \/ room <= 0
    BY <2>3
  <2> QED BY <2>1, <2>3, <2>5, <2>6, <2>7, <2>8, <2>9, <2>10, <2>11
<1> QED BY <1>1 DEF FineEntries, LeftOut

Unpacked ==
  /\ Cardinality({e \in Entries : EntryAt(e).type # "junk"}) = Len(entries) + Cardinality(skipped)
  /\ Len(entries) <= MaxReceipts
  /\ entries \in Seq(DOMAIN ReadOf)

LEMMA UnpackTells ==
  ASSUME bundle \in Bundle, Unpack, \A e \in Entries : ReasonOf(e) # "limit"
  PROVE  Unpacked'
<1>1. PICK F, n : F = FineEntries /\ n = Cardinality(F)
  OBVIOUS
<1>2. F \in SUBSET Nat /\ IsFiniteSet(F) /\ F \subseteq Entries /\ IsFiniteSet(LeftOut) /\ n \in Nat
  <2>1. F \in SUBSET Entries /\ LeftOut \in SUBSET Entries /\ Entries \in SUBSET Nat /\ IsFiniteSet(Entries)
    BY <1>1, EntriesAre DEF FineEntries, LeftOut
  <2>2. IsFiniteSet(F) /\ IsFiniteSet(LeftOut)
    BY <2>1, FS_Subset
  <2> QED BY <1>1, <2>1, <2>2, FS_CardinalityType
<1>3. \A e \in Entries : KeptBefore(e) = {d \in F : d < e}
  BY <1>1 DEF KeptBefore, FineEntries
<1>4. PICK at : at = Ordered(F)
  OBVIOUS
<1>5. \A k \in 1..n : at[k] \in F /\ Cardinality({j \in F : j < at[k]}) = k - 1
  <2>1. \A k \in 1..Cardinality(F) : Ordered(F)[k] \in F /\ Cardinality({j \in F : j < Ordered(F)[k]}) = k - 1
    BY <1>2, OrderedIs
  <2> QED BY <1>1, <1>4, <2>1
<1>6. PICK of : of = [k \in 1..n |-> EntryAt(CHOOSE e \in F : Cardinality(KeptBefore(e)) = k - 1).file]
  OBVIOUS
<1>7. entries' = of
  <2>1. {e \in Entries : ReasonOf(e) = "kept"} = F
    BY <1>1, ReasonsAre
  <2> DEFINE Files(S) == [k \in 1 .. Cardinality(S) |-> EntryAt(CHOOSE e \in S : Cardinality(KeptBefore(e)) = k - 1).file]
  <2>2. entries' = Files({e \in Entries : ReasonOf(e) = "kept"})
    BY DEF Unpack
  <2>3. Files(F) = of
    BY <1>1, <1>6
  <2> HIDE DEF Files
  <2> QED BY <2>1, <2>2, <2>3
<1>8. of \in Seq(DOMAIN ReadOf) /\ Len(of) = n
  <2>1. ASSUME NEW k \in 1..n PROVE of[k] \in DOMAIN ReadOf
    <3>1. \E e \in F : Cardinality(KeptBefore(e)) = k - 1
      BY <1>2, <1>3, <1>5
    <3>2. PICK e \in F : of[k] = EntryAt(e).file
      BY <1>6, <3>1
    <3>3. EntryAt(e) \in ArchiveEntry
      BY <1>2, EntriesAre
    <3> QED BY <3>2, <3>3 DEF ArchiveEntry
  <2>2. DOMAIN of = 1..n
    BY <1>6
  <2>3. of = [k \in 1..n |-> of[k]]
    BY <1>6

  <2>4. of \in [1..n -> DOMAIN ReadOf]
    BY <2>1, <2>2, <2>3
  <2> QED BY <1>2, <2>4
<1>9. n <= MaxReceipts
  <2>1. CASE n = 0
    BY <2>1, ClaimAssumption
  <2>2. CASE n # 0
    <3>1. n \in 1..n
      BY <1>2, <2>2
    <3>2. at[n] \in F /\ Cardinality({j \in F : j < at[n]}) = n - 1
      BY <1>5, <3>1
    <3>3. Room(at[n]) > 0
      BY <1>1, <3>2, ReasonsAre
    <3>4. Room(at[n]) = MaxReceipts - (n - 1)
      BY <1>2, <1>3, <3>2 DEF Room
    <3>5. MaxReceipts \in Nat
      BY ClaimAssumption
    <3> QED BY <1>2, <3>3, <3>4, <3>5
  <2> QED BY <2>1, <2>2
<1>10. Cardinality(skipped') = Cardinality(LeftOut)
  <2>1. PICK out : out = LeftOut /\ {e \in Entries : ReasonOf(e) \notin {"kept", "system file"}} = out
    BY ReasonsAre
  <2>2. skipped' = {[entry |-> e, why |-> ReasonOf(e)] : e \in out}
    <3>1. skipped' = {[entry |-> e, why |-> ReasonOf(e)] : e \in {d \in Entries : ReasonOf(d) \notin {"kept", "system file"}}}
      BY DEF Unpack
    <3>2. {d \in Entries : ReasonOf(d) \notin {"kept", "system file"}} = out
      BY <2>1
    <3> QED BY <3>1, <3>2
  <2>3. PICK said : said = [e \in out |-> [entry |-> e, why |-> ReasonOf(e)]]
    OBVIOUS
  <2>4. said \in Bijection(out, skipped')
    <3>1. \A d, e \in out : said[d] = said[e] => d = e
      BY <2>3
    <3>2. said \in [out -> skipped'] /\ \A s \in skipped' : \E e \in out : said[e] = s
      BY <2>2, <2>3
    <3> QED BY <3>1, <3>2 DEF Bijection, Injection, Surjection, IsInjective
  <2>5. ExistsBijection(out, skipped') /\ IsFiniteSet(out)
    BY <1>2, <2>1, <2>4 DEF ExistsBijection
  <2>6. IsFiniteSet(skipped') /\ Cardinality(skipped') = Cardinality(out)
    BY <2>4, <2>5, FS_Bijection
  <2> QED BY <2>1, <2>6
<1>11. Cardinality({e \in Entries : EntryAt(e).type # "junk"}) = n + Cardinality(LeftOut)
  <2>1. {e \in Entries : EntryAt(e).type # "junk"} = F \cup LeftOut
    <3>1. \A e \in Entries : EntryAt(e).type \in {"fine", "large", "fake", "torn", "junk", "other"}
      BY EntriesAre DEF ArchiveEntry, EntryType
    <3> QED BY <1>1, <3>1 DEF FineEntries, LeftOut
  <2>2. F \cap LeftOut = {}
    BY <1>1 DEF FineEntries, LeftOut
  <2>3. Cardinality(F \cup LeftOut) = Cardinality(F) + Cardinality(LeftOut) - Cardinality(F \cap LeftOut)
    BY <1>2, FS_Union
  <2>4. Cardinality(F \cap LeftOut) = 0 /\ Cardinality(LeftOut) \in Nat
    BY <1>2, <2>2, FS_EmptySet, FS_CardinalityType
  <2>5. Cardinality(F \cup LeftOut) = n + Cardinality(LeftOut)
    BY <1>1, <1>2, <2>3, <2>4
  <2> QED BY <2>1, <2>5
<1>12. Entries' = Entries /\ \A e : EntryAt(e)' = EntryAt(e)
  BY DEF Unpack, Entries, EntryAt
<1>13. Cardinality({e \in Entries : EntryAt(e).type # "junk"})' = Cardinality({e \in Entries : EntryAt(e).type # "junk"})
  BY <1>12
<1> QED BY <1>7, <1>8, <1>9, <1>10, <1>11, <1>13 DEF Unpacked

-----------------------------------------------------------------------------
(* The forms and the receipts: what is read of them is a list, each line of  *)
(* it known by its own key.                                                  *)

OneForm(ls, form) ==
  /\ AsList(ls)
  /\ \A k \in DOMAIN ls : ls[k].key.form = form
  /\ \A k, l \in DOMAIN ls : ls[k].key = ls[l].key => k = l

LEMMA LinesInAre == ASSUME NEW sheet, IsList(sheet), NEW form PROVE OneForm(LinesIn(sheet, form), form)
<1>1. CASE HeaderAt(sheet) = {}
  <2>1. PICK ls : ls = <<>> /\ LinesIn(sheet, form) = ls
    BY <1>1 DEF LinesIn
  <2>2. ls \in Seq({}) /\ DOMAIN ls = {}
    BY <2>1
  <2>3. AsList(ls)
    BY <2>2, ListIsOne
  <2> QED BY <2>1, <2>2, <2>3 DEF OneForm
<1>2. CASE HeaderAt(sheet) # {}
  <2> DEFINE top == CHOOSE i \in HeaderAt(sheet) : \A j \in HeaderAt(sheet) : i <= j
             last == LastOfHeader(sheet, top)
             filled == {i \in DOMAIN sheet : Filled(sheet[i]) /\ i > last /\ \A j \in last + 1 .. i : ~EndsForm(sheet[j])}
             Nth(S, k) == CHOOSE i \in S : Cardinality({j \in S : j < i}) = k - 1
             Read(S) == [n \in 1 .. Cardinality(S) |-> LineOf(sheet, form, Nth(S, n))]
  <2>1. LinesIn(sheet, form) = Read(filled)
    BY <1>2 DEF LinesIn
  <2>2. PICK body : body = filled /\ body \in SUBSET (DOMAIN sheet)
    OBVIOUS
  <2> HIDE DEF filled
  <2>3. body \in SUBSET Nat /\ IsFiniteSet(body)
    <3>1. DOMAIN sheet = 1..Len(sheet) /\ Len(sheet) \in Nat
      BY DEF IsList
    <3>2. IsFiniteSet(1..Len(sheet))
      BY <3>1, FS_Interval
    <3>3. body \in SUBSET (1..Len(sheet))
      BY <2>2, <3>1
    <3>4. IsFiniteSet(body)
      BY <3>2, <3>3, FS_Subset
    <3> QED BY <3>3, <3>4
  <2>4. PICK at, n : at = Ordered(body) /\ n = Cardinality(body)
    OBVIOUS
  <2>5. /\ n \in Nat /\ \A k \in 1..n : at[k] \in body
        /\ \A k, l \in 1..n : at[k] = at[l] => k = l
    BY <2>3, <2>4, OrderedIs
  <2>6. PICK ls : ls = [k \in 1..n |-> LineOf(sheet, form, at[k])]
    OBVIOUS
  <2>7. \A k \in 1..n : at[k] = Nth(body, k)
    BY <2>4 DEF Ordered
  <2>8. Read(body) = ls
    <3> HIDE DEF Nth
    <3> QED BY <2>4, <2>6, <2>7
  <2>9. \A k \in 1..n : ls[k].key = KeyOf(form, at[k])
    BY <2>6 DEF LineOf
  <2>10. DOMAIN ls = 1..n /\ ls = [k \in 1..n |-> ls[k]]
    BY <2>6
  <2>11. AsList(ls)
    BY <2>5, <2>10, BuiltList
  <2>12. \A k, l \in 1..n : ls[k].key = ls[l].key => k = l
    <3>1. \A i, j : KeyOf(form, i) = KeyOf(form, j) => i = j
      BY DEF KeyOf
    <3> QED BY <2>5, <2>9, <3>1
  <2>13. \A k \in 1..n : ls[k].key.form = form
    <3>1. \A i : KeyOf(form, i).form = form
      BY DEF KeyOf
    <3> QED BY <2>9, <3>1
  <2>14. OneForm(ls, form)
    BY <2>10, <2>11, <2>12, <2>13 DEF OneForm
  <2>15. LinesIn(sheet, form) = ls
    <3> HIDE DEF Read
    <3> QED BY <2>1, <2>2, <2>8
  <2> QED BY <2>14, <2>15
<1> QED BY <1>1, <1>2

LinesOk ==
  /\ AsList(lines)
  /\ \A k \in DOMAIN lines : lines[k].key.form # 0
  /\ \A k, l \in DOMAIN lines : lines[k].key = lines[l].key => k = l

LEMMA ReadFormsTells == ASSUME bundle \in Bundle, ReadForms PROVE LinesOk'
<1>1. PICK forms : forms = bundle.forms
  OBVIOUS
<1>2. DOMAIN forms = 1..Len(forms) /\ Len(forms) \in Nat /\ \A f \in DOMAIN forms : IsList(forms[f].rows)
  <2>1. IsList(forms) /\ \A f \in DOMAIN forms : IsList(forms[f].rows)
    BY <1>1, ClaimAssumption
  <2>2. forms \in Seq({forms[i] : i \in DOMAIN forms})
    BY <2>1 DEF IsList
  <2> QED BY <2>1, <2>2
<1>3. PICK n \in Nat : n = Len(forms)
  BY <1>2
<1>4. PICK fs : fs = [f \in 1..n |-> LinesIn(forms[f].rows, f)]
  OBVIOUS
<1>5. \A f \in 1..n : OneForm(fs[f], f)
  <2>1. ASSUME NEW f \in 1..n PROVE OneForm(fs[f], f)
    <3>1. IsList(forms[f].rows)
      BY <1>2, <1>3
    <3>2. OneForm(LinesIn(forms[f].rows, f), f)
      BY <3>1, LinesInAre
    <3> QED BY <1>4, <3>2
  <2> QED BY <2>1
<1>6. PICK T : T = UNION {{fs[f][k] : k \in DOMAIN fs[f]} : f \in 1..n}
  OBVIOUS
<1>7. \A f \in 1..n : fs[f] \in Seq(T)
  <2>1. ASSUME NEW f \in 1..n PROVE fs[f] \in Seq(T)
    <3>1. AsList(fs[f]) /\ \A k \in DOMAIN fs[f] : fs[f][k] \in T
      BY <1>5, <1>6 DEF OneForm
    <3> QED BY <3>1, ListOf
  <2> QED BY <2>1
<1>8. fs \in Seq(Seq(T)) /\ Len(fs) = n /\ DOMAIN fs = 1..n
  BY <1>3, <1>4, <1>7
<1>9. PICK all : all = Seqs!FlattenSeq(fs)
  OBVIOUS
<1>10. lines' = all
  <2>1. lines' = Seqs!FlattenSeq([f \in DOMAIN forms |-> LinesIn(forms[f].rows, f)])
    BY <1>1 DEF ReadForms
  <2>2. [f \in DOMAIN forms |-> LinesIn(forms[f].rows, f)] = fs
    BY <1>2, <1>3, <1>4
  <2> QED BY <1>9, <2>1, <2>2
<1>11. all \in Seq(T) /\ Flattens(all, fs, n)
  BY <1>8, <1>9, Flattened, FlattensAlike
<1>12. AsList(all)
  BY <1>11, ListIsOne
<1>13. ASSUME NEW k \in DOMAIN all PROVE all[k].key.form # 0
  <2>1. PICK f \in 1..n : \E j \in DOMAIN fs[f] : all[k] = fs[f][j]
    BY <1>11 DEF Flattens
  <2>2. all[k].key.form = f
    BY <1>5, <2>1 DEF OneForm
  <2> QED BY <2>2
<1>14. ASSUME NEW k \in DOMAIN all, NEW l \in DOMAIN all, k # l PROVE all[k].key # all[l].key
  <2>1. PICK p \in PlacesIn(fs), q \in PlacesIn(fs) : p # q /\ all[k] = fs[p[1]][p[2]] /\ all[l] = fs[q[1]][q[2]]
    BY <1>11, <1>14 DEF Flattens
  <2>2. p \in Nat \X Nat /\ q \in Nat \X Nat
    BY DEF PlacesIn
  <2>3. p[1] # q[1] \/ p[2] # q[2]
    BY <2>1, <2>2
  <2>4. p[1] \in 1..n /\ q[1] \in 1..n /\ p[2] \in DOMAIN fs[p[1]] /\ q[2] \in DOMAIN fs[q[1]]
    BY <1>8 DEF PlacesIn
  <2>5. all[k].key.form = p[1] /\ all[l].key.form = q[1]
    BY <1>5, <2>1, <2>4 DEF OneForm
  <2>6. CASE p[1] # q[1]
    BY <2>5, <2>6
  <2>7. CASE p[1] = q[1]
    BY <1>5, <2>1, <2>3, <2>4, <2>7 DEF OneForm
  <2> QED BY <2>6, <2>7
<1> QED BY <1>10, <1>12, <1>13, <1>14 DEF LinesOk

LEMMA ReadReceiptsTells == ASSUME entries \in Seq(DOMAIN ReadOf), ReadReceipts PROVE AsList(reads')
<1>1. PICK n \in Nat : n = Len(entries) /\ DOMAIN entries = 1..n /\ \A i \in 1..n : entries[i] \in DOMAIN ReadOf
  OBVIOUS
<1>2. ASSUME NEW file \in DOMAIN ReadOf PROVE AsList(ReadsOf(file))
  <2>1. CASE ReadOf[file] = <<>>
    <3>1. ReadsOf(file) = <<Blank(file)>>
      BY <2>1 DEF ReadsOf
    <3>2. <<Blank(file)>> \in Seq({Blank(file)})
      OBVIOUS
    <3> QED BY <3>1, <3>2, ListIsOne
  <2>2. CASE ReadOf[file] # <<>>
    <3>1. PICK m \in Nat : DOMAIN ReadOf[file] = 1..m
      <4>1. ReadOf[file] \in Seq({ReadOf[file][i] : i \in DOMAIN ReadOf[file]})
        BY ClaimAssumption DEF IsList
      <4>2. Len(ReadOf[file]) \in Nat /\ DOMAIN ReadOf[file] = 1..Len(ReadOf[file])
        BY <4>1
      <4> QED BY <4>2
    <3>2. PICK s : s = ReadsOf(file)
      OBVIOUS
    <3>3. DOMAIN s = 1..m /\ s = [k \in 1..m |-> s[k]]
      BY <2>2, <3>1, <3>2 DEF ReadsOf
    <3> QED BY <3>2, <3>3, BuiltList
  <2> QED BY <2>1, <2>2
<1>3. PICK rs : rs = [i \in 1..n |-> ReadsOf(entries[i])]
  OBVIOUS
<1>4. \A i \in 1..n : AsList(rs[i])
  BY <1>1, <1>2, <1>3
<1>5. PICK T : T = UNION {{rs[i][k] : k \in DOMAIN rs[i]} : i \in 1..n}
  OBVIOUS
<1>6. \A i \in 1..n : rs[i] \in Seq(T)
  <2>1. ASSUME NEW i \in 1..n PROVE rs[i] \in Seq(T)
    <3>1. AsList(rs[i]) /\ \A k \in DOMAIN rs[i] : rs[i][k] \in T
      BY <1>4, <1>5
    <3> QED BY <3>1, ListOf
  <2> QED BY <2>1
<1>7. rs \in Seq(Seq(T))
  BY <1>3, <1>6
<1>8. reads' = Seqs!FlattenSeq(rs)
  <2>1. reads' = Seqs!FlattenSeq([i \in DOMAIN entries |-> ReadsOf(entries[i])])
    BY DEF ReadReceipts
  <2> QED BY <1>1, <1>3, <2>1
<1>9. reads' \in Seq(T)
  BY <1>7, <1>8, Flattened, FlattensAlike
<1> QED BY <1>9, ListIsOne

-----------------------------------------------------------------------------
(* The pairs and the records made of them.                                   *)

Cand == {p \in (DOMAIN lines) \X (DOMAIN reads) : ScoreOf(p) >= MinScore}
PairsOk == Suits(Cand, pairs) /\ Free(Cand, pairs) = {}

LEMMA MatchTells == ASSUME AsList(lines), AsList(reads), MatchClaims PROVE PairsOk'
<1>1. /\ DOMAIN lines = 1..Len(lines) /\ Len(lines) \in Nat
      /\ DOMAIN reads = 1..Len(reads) /\ Len(reads) \in Nat
  BY DEF AsList
<1>2. PICK c : c = Cand
  OBVIOUS
<1>3. c \in SUBSET (Nat \X Nat) /\ \A p \in c : p[1] \in 1..Len(lines)
  BY <1>1, <1>2 DEF Cand
<1>4. pairs' = Assigned(c)
  BY <1>2 DEF MatchClaims, Cand, ScoreOf
<1>5. Suits(c, pairs') /\ Free(c, pairs') = {}
  BY <1>1, <1>3, <1>4, AssignedSuits
<1>6. lines' = lines /\ reads' = reads
  BY DEF MatchClaims
<1>7. Cand' = c /\ \A p : ScoreOf(p)' = ScoreOf(p)
  BY <1>2, <1>6 DEF Cand, ScoreOf
<1>8. Suits(Cand, pairs)'
  BY <1>5, <1>7 DEF Suits, Free
<1>9. (Free(Cand, pairs) = {})'
  BY <1>5, <1>7 DEF Free
<1> QED BY <1>8, <1>9 DEF PairsOk

SuggestedOk == \A s \in suggested : s = [key |-> s.key, category |-> s.category] /\ s \in answered

OfPair(p) == [key |-> lines[p[1]].key, read |-> p[2], category |-> CategoryOf(lines[p[1]])]
OfLine(n) == [key |-> lines[n].key, read |-> 0, category |-> lines[n].category]
OfRead(n) == [key |-> NoKey, read |-> n, category |-> NoCategory]
Recorded ==
  claimed = {OfPair(p) : p \in pairs} \cup {OfLine(n) : n \in DOMAIN lines \ {p[1] : p \in pairs}}
            \cup {OfRead(n) : n \in DOMAIN reads \ {p[2] : p \in pairs}}

\* Each stage has what those before it made.
ClaimInv ==
  /\ bundle \in Bundle
  /\ doing \in {"unpacking", "reading form", "reading receipts", "matching", "categorising", "saving", "saved", "failed"}
  /\ doing \notin {"unpacking", "failed"} => Unpacked
  /\ doing \notin {"unpacking", "failed", "reading form"} => LinesOk
  /\ doing \notin {"unpacking", "failed", "reading form", "reading receipts"} => AsList(reads)
  /\ doing \in {"categorising", "saving", "saved"} => PairsOk
  /\ SuggestedOk
  /\ doing = "saved" => Recorded

LEMMA ClaimInvInit == ClaimReadingInit => ClaimInv
BY DEF ClaimReadingInit, ClaimInv, SuggestedOk

LEMMA UnpackedStays ==
  ASSUME Unpacked, UNCHANGED <<bundle, entries, skipped>> PROVE Unpacked'
BY DEF Unpacked, Entries, EntryAt
LEMMA PairsStay ==
  ASSUME PairsOk, UNCHANGED <<lines, reads, pairs>> PROVE PairsOk'
BY DEF PairsOk, Suits, Free, Cand, ScoreOf
LEMMA LinesStay == ASSUME LinesOk, UNCHANGED lines PROVE LinesOk'
BY DEF LinesOk, AsList
LEMMA RecordedStays ==
  ASSUME Recorded, UNCHANGED <<lines, reads, pairs, suggested, claimed>> PROVE Recorded'
BY DEF Recorded, OfPair, OfLine, OfRead, CategoryOf, SuggestionFor

LEMMA ClaimInvStep == ClaimInv /\ [ClaimReadingNext]_claimReadingVars => ClaimInv'
<1> SUFFICES ASSUME ClaimInv, [ClaimReadingNext]_claimReadingVars PROVE ClaimInv'
  OBVIOUS
<1> USE DEF ClaimInv
<1>1. CASE Unpack
  <2>1. UNCHANGED <<bundle, suggested, answered>> /\ doing' \in {"failed", "reading form"}
    BY <1>1 DEF Unpack
  <2>2. SuggestedOk'
    BY <2>1 DEF SuggestedOk
  <2>3. ASSUME doing' = "reading form" PROVE Unpacked'
    <3>1. \A e \in Entries : ReasonOf(e) # "limit"
      BY <1>1, <2>3 DEF Unpack
    <3>2. bundle \in Bundle
      OBVIOUS
    <3> QED BY <1>1, <3>1, <3>2, UnpackTells
  <2> QED BY <2>1, <2>2, <2>3
<1>2. CASE ReadForms
  <2>1. /\ UNCHANGED <<bundle, entries, skipped, suggested, answered>>
        /\ doing = "reading form" /\ doing' = "reading receipts"
    BY <1>2 DEF ReadForms
  <2>2. SuggestedOk'
    BY <2>1 DEF SuggestedOk
  <2>3. Unpacked'
    BY <2>1, UnpackedStays
  <2>4. LinesOk'
    BY <1>2, ReadFormsTells
  <2> QED BY <2>1, <2>2, <2>3, <2>4
<1>3. CASE ReadReceipts
  <2>1. /\ UNCHANGED <<bundle, entries, skipped, lines, suggested, answered>>
        /\ doing = "reading receipts" /\ doing' = "matching"
    BY <1>3 DEF ReadReceipts
  <2>2. SuggestedOk'
    BY <2>1 DEF SuggestedOk
  <2>3. Unpacked' /\ LinesOk'
    BY <2>1, UnpackedStays, LinesStay
  <2>4. AsList(reads)'
    <3>1. entries \in Seq(DOMAIN ReadOf)
      BY <2>1 DEF Unpacked
    <3>2. AsList(reads')
      BY <1>3, <3>1, ReadReceiptsTells
    <3> QED BY <3>2 DEF AsList
  <2> QED BY <2>1, <2>2, <2>3, <2>4
<1>4. CASE MatchClaims
  <2>1. /\ UNCHANGED <<bundle, entries, skipped, lines, reads, suggested, answered>>
        /\ doing = "matching" /\ doing' = "categorising"
    BY <1>4 DEF MatchClaims
  <2>2. SuggestedOk' /\ AsList(reads)'
    BY <2>1 DEF SuggestedOk, AsList
  <2>3. Unpacked' /\ LinesOk'
    BY <2>1, UnpackedStays, LinesStay
  <2>4. PairsOk'
    <3>1. AsList(lines) /\ AsList(reads)
      BY <2>1 DEF LinesOk
    <3> QED BY <1>4, <3>1, MatchTells
  <2> QED BY <2>1, <2>2, <2>3, <2>4
<1>5. CASE Suggest
  <2>1. /\ UNCHANGED <<bundle, entries, skipped, lines, reads, pairs>>
        /\ doing = "categorising" /\ doing' = "saving"
    BY <1>5 DEF Suggest
  <2>2. AsList(reads)'
    BY <2>1 DEF AsList
  <2>3. Unpacked' /\ LinesOk' /\ PairsOk'
    BY <2>1, UnpackedStays, LinesStay, PairsStay
  <2>4. SuggestedOk'
    <3>1. CASE UNCHANGED <<answered, suggested>>
      BY <3>1 DEF SuggestedOk
    <3>2. CASE \E said \in [AskedAbout -> Categories \cup {NoCategory, Invented}] :
                 /\ answered' = {[key |-> lines[n].key, category |-> said[n]] : n \in AskedAbout}
                 /\ suggested' = {[key |-> lines[n].key, category |-> said[n]] : n \in {m \in AskedAbout : said[m] \in Categories}}
      <4>1. PICK said :
              /\ answered' = {[key |-> lines[n].key, category |-> said[n]] : n \in AskedAbout}
              /\ suggested' = {[key |-> lines[n].key, category |-> said[n]] : n \in {m \in AskedAbout : said[m] \in Categories}}
        BY <3>2
      <4>2. ASSUME NEW s \in suggested' PROVE s = [key |-> s.key, category |-> s.category] /\ s \in answered'
        <5>1. PICK n \in AskedAbout : s = [key |-> lines[n].key, category |-> said[n]]
          BY <4>1, <4>2
        <5> QED BY <4>1, <5>1
      <4> QED BY <4>2 DEF SuggestedOk
    <3> QED BY <1>5, <3>1, <3>2 DEF Suggest
  <2> QED BY <2>1, <2>2, <2>3, <2>4
<1>6. CASE Save
  <2>1. /\ UNCHANGED <<bundle, entries, skipped, lines, reads, pairs, suggested, answered>>
        /\ doing = "saving" /\ doing' = "saved"
    BY <1>6 DEF Save
  <2>2. AsList(reads)' /\ SuggestedOk'
    BY <2>1 DEF AsList, SuggestedOk
  <2>3. Unpacked' /\ LinesOk' /\ PairsOk'
    BY <2>1, UnpackedStays, LinesStay, PairsStay
  <2>4. Recorded'
    BY <1>6, <2>1 DEF Save, Recorded, OfPair, OfLine, OfRead, CategoryOf, SuggestionFor
  <2> QED BY <2>1, <2>2, <2>3, <2>4
<1>7. CASE UNCHANGED claimReadingVars
  <2>1. UNCHANGED <<bundle, doing, entries, skipped, lines, reads, pairs, answered, suggested, claimed>>
    BY <1>7 DEF claimReadingVars
  <2>2. (Unpacked => Unpacked') /\ (LinesOk => LinesOk') /\ (PairsOk => PairsOk') /\ (Recorded => Recorded')
    BY <2>1, UnpackedStays, LinesStay, PairsStay, RecordedStays
  <2>3. AsList(reads)' = AsList(reads) /\ SuggestedOk'
    BY <2>1 DEF AsList, SuggestedOk
  <2> QED BY <2>1, <2>2, <2>3
<1> QED BY <1>1, <1>2, <1>3, <1>4, <1>5, <1>6, <1>7 DEF ClaimReadingNext

LEMMA OneHolds == ASSUME NEW x, NEW S, x \in S, \A y \in S : y = x PROVE Cardinality(S) = 1
<1>1. S = {x}
  OBVIOUS
<1> QED BY <1>1, FS_Singleton

LEMMA LinesOnce ==
  ASSUME LinesOk, PairsOk, Recorded, NEW n \in DOMAIN lines
  PROVE  Cardinality({c \in claimed : c.key = lines[n].key}) = 1
<1> DEFINE Its == {c \in claimed : c.key = lines[n].key}
<1>1. \A m \in DOMAIN reads : OfRead(m).key # lines[n].key
  <2>1. \A m : OfRead(m).key.form = 0
    BY DEF OfRead, NoKey, KeyOf
  <2> QED BY <2>1 DEF LinesOk
<1>2. \A p \in pairs : p[1] \in DOMAIN lines /\ OfPair(p).key = lines[p[1]].key
  BY DEF PairsOk, Suits, Cand, OfPair
<1>3. \A m : OfLine(m).key = lines[m].key
  BY DEF OfLine
<1>4. ASSUME NEW c \in Its
      PROVE  \/ \E p \in pairs : p[1] = n /\ c = OfPair(p)
             \/ c = OfLine(n) /\ n \notin {p[1] : p \in pairs}
  <2>1. CASE \E p \in pairs : c = OfPair(p)
    <3>1. PICK p \in pairs : c = OfPair(p)
      BY <2>1
    <3>2. lines[p[1]].key = lines[n].key /\ p[1] \in DOMAIN lines
      BY <1>2, <3>1
    <3>3. p[1] = n
      BY <3>2 DEF LinesOk
    <3> QED BY <3>1, <3>3
  <2>2. CASE \E m \in DOMAIN lines \ {p[1] : p \in pairs} : c = OfLine(m)
    <3>1. PICK m \in DOMAIN lines \ {p[1] : p \in pairs} : c = OfLine(m)
      BY <2>2
    <3>2. lines[m].key = lines[n].key
      BY <1>3, <3>1
    <3>3. m = n
      BY <3>1, <3>2 DEF LinesOk
    <3> QED BY <3>1, <3>3
  <2>3. CASE \E m \in DOMAIN reads : c = OfRead(m)
    BY <1>1, <2>3
  <2> QED BY <2>1, <2>2, <2>3 DEF Recorded
<1>5. CASE \E p \in pairs : p[1] = n
  <2>1. PICK p \in pairs : p[1] = n
    BY <1>5
  <2>2. OfPair(p) \in Its
    BY <1>2, <2>1 DEF Recorded
  <2>3. \A q \in pairs : q[1] = n => q = p
    BY <2>1 DEF PairsOk, Suits
  <2>4. \A c \in Its : c = OfPair(p)
    <3>1. n \in {q[1] : q \in pairs}
      BY <2>1
    <3> HIDE DEF Its
    <3> QED BY <1>4, <2>3, <3>1
  <2> HIDE DEF Its
  <2>5. Cardinality(Its) = 1
    BY <2>2, <2>4, OneHolds
  <2> QED BY <2>5 DEF Its
<1>6. CASE ~\E p \in pairs : p[1] = n
  <2>1. OfLine(n) \in Its
    BY <1>3, <1>6 DEF Recorded
  <2>2. \A c \in Its : c = OfLine(n)
    <3> HIDE DEF Its
    <3> QED BY <1>4, <1>6
  <2> HIDE DEF Its
  <2>3. Cardinality(Its) = 1
    BY <2>1, <2>2, OneHolds
  <2> QED BY <2>3 DEF Its
<1> QED BY <1>5, <1>6

LEMMA ReadsOnce ==
  ASSUME AsList(reads), PairsOk, Recorded, NEW n \in DOMAIN reads
  PROVE  Cardinality({c \in claimed : c.read = n}) = 1
<1> DEFINE Its == {c \in claimed : c.read = n}
<1>1. n # 0
  <2>1. DOMAIN reads = 1..Len(reads)
    BY DEF AsList
  <2> QED BY <2>1
<1>2. \A p : OfPair(p).read = p[2] /\ OfLine(p).read = 0 /\ OfRead(p).read = p
  BY DEF OfPair, OfLine, OfRead
<1>3. ASSUME NEW c \in Its
      PROVE  \/ \E p \in pairs : p[2] = n /\ c = OfPair(p)
             \/ c = OfRead(n) /\ n \notin {p[2] : p \in pairs}
  <2>1. CASE \E p \in pairs : c = OfPair(p)
    BY <1>2, <2>1
  <2>2. CASE \E m \in DOMAIN lines : c = OfLine(m)
    BY <1>1, <1>2, <2>2
  <2>3. CASE \E m \in DOMAIN reads \ {p[2] : p \in pairs} : c = OfRead(m)
    BY <1>2, <2>3
  <2> QED BY <2>1, <2>2, <2>3 DEF Recorded
<1>4. CASE \E p \in pairs : p[2] = n
  <2>1. PICK p \in pairs : p[2] = n
    BY <1>4
  <2>2. OfPair(p) \in Its
    BY <1>2, <2>1 DEF Recorded
  <2>3. \A q \in pairs : q[2] = n => q = p
    BY <2>1 DEF PairsOk, Suits
  <2>4. \A c \in Its : c = OfPair(p)
    <3>1. n \in {q[2] : q \in pairs}
      BY <2>1
    <3> HIDE DEF Its
    <3> QED BY <1>3, <2>3, <3>1
  <2> HIDE DEF Its
  <2>5. Cardinality(Its) = 1
    BY <2>2, <2>4, OneHolds
  <2> QED BY <2>5 DEF Its
<1>5. CASE ~\E p \in pairs : p[2] = n
  <2>1. OfRead(n) \in Its
    BY <1>2, <1>5 DEF Recorded
  <2>2. \A c \in Its : c = OfRead(n)
    <3> HIDE DEF Its
    <3> QED BY <1>3, <1>5
  <2> HIDE DEF Its
  <2>3. Cardinality(Its) = 1
    BY <2>1, <2>2, OneHolds
  <2> QED BY <2>3 DEF Its
<1> QED BY <1>4, <1>5

LEMMA ClaimInvHolds == ClaimInv => NoFileDropped /\ MatchIsStable /\ CategoryIsItsOwn
<1> SUFFICES ASSUME ClaimInv PROVE NoFileDropped /\ MatchIsStable /\ CategoryIsItsOwn
  OBVIOUS
<1>1. NoFileDropped
  BY DEF ClaimInv, Unpacked, NoFileDropped
<1>2. ASSUME doing = "saved" PROVE LinesOk /\ AsList(reads) /\ PairsOk /\ SuggestedOk /\ Recorded
  BY <1>2 DEF ClaimInv
<1>3. MatchIsStable
  <2> SUFFICES ASSUME doing = "saved"
               PROVE  /\ \A n \in DOMAIN lines : Cardinality({c \in claimed : c.key = lines[n].key}) = 1
                      /\ \A n \in DOMAIN reads : Cardinality({c \in claimed : c.read = n}) = 1
                      /\ \A l \in DOMAIN lines, r \in DOMAIN reads :
                           Score(lines[l], reads[r]) >= MinScore =>
                             \E p \in pairs : (p[1] = l \/ p[2] = r) /\ Score(lines[p[1]], reads[p[2]]) >= Score(lines[l], reads[r])
    BY DEF MatchIsStable
  <2>1. LinesOk /\ AsList(reads) /\ PairsOk /\ Recorded
    BY <1>2
  <2>2. ASSUME NEW l \in DOMAIN lines, NEW r \in DOMAIN reads, Score(lines[l], reads[r]) >= MinScore
        PROVE  \E p \in pairs : (p[1] = l \/ p[2] = r) /\ Score(lines[p[1]], reads[p[2]]) >= Score(lines[l], reads[r])
    <3>1. PICK q : q = <<l, r>>
      OBVIOUS
    <3>2. q \in Cand /\ q[1] = l /\ q[2] = r
      BY <2>2, <3>1 DEF Cand, ScoreOf
    <3>3. PICK p \in pairs : (p[1] = q[1] \/ p[2] = q[2]) /\ ScoreOf(p) >= ScoreOf(q)
      BY <2>1, <3>2 DEF PairsOk, Suits
    <3> QED BY <3>2, <3>3 DEF ScoreOf
  <2> QED BY <2>1, <2>2, LinesOnce, ReadsOnce
<1>4. CategoryIsItsOwn
  <2> SUFFICES ASSUME doing = "saved", NEW c \in claimed, NEW n \in DOMAIN lines,
                      c.key = lines[n].key, c.category # lines[n].category
               PROVE  lines[n].category = NoCategory /\ [key |-> c.key, category |-> c.category] \in answered
    BY DEF CategoryIsItsOwn
  <2>1. LinesOk /\ PairsOk /\ SuggestedOk /\ Recorded
    BY <1>2
  <2>2. CASE \E p \in pairs : c = OfPair(p)
    <3>1. PICK p \in pairs : c = OfPair(p)
      BY <2>2
    <3>2. p[1] \in DOMAIN lines /\ c.key = lines[p[1]].key /\ c.category = CategoryOf(lines[p[1]])
      BY <2>1, <3>1 DEF PairsOk, Suits, Cand, OfPair
    <3>3. p[1] = n
      BY <2>1, <3>2 DEF LinesOk
    <3>4. PICK line : line = lines[n]
      OBVIOUS
    <3>5. c.category = CategoryOf(line) /\ CategoryOf(line) # line.category
      BY <3>2, <3>3, <3>4
    <3>6. line.category = NoCategory /\ c.category = SuggestionFor(line) /\ SuggestionFor(line) # NoCategory
      BY <3>5 DEF CategoryOf
    <3>7. PICK of : of = {s \in suggested : s.key = line.key}
      OBVIOUS
    <3>8. SuggestionFor(line) = IF of = {} THEN NoCategory ELSE (CHOOSE s \in of : TRUE).category
      BY <3>7 DEF SuggestionFor
    <3>9. PICK s \in of : c.category = s.category
      BY <3>6, <3>8
    <3>10. s \in answered /\ s = [key |-> c.key, category |-> c.category]
      BY <2>1, <3>4, <3>7, <3>9 DEF SuggestedOk
    <3> QED BY <3>4, <3>6, <3>10
  <2>3. CASE \E m \in DOMAIN lines : c = OfLine(m)
    <3>1. PICK m \in DOMAIN lines : c.key = lines[m].key /\ c.category = lines[m].category
      BY <2>3 DEF OfLine
    <3>2. m = n
      BY <2>1, <3>1 DEF LinesOk
    <3> QED BY <3>1, <3>2
  <2>4. CASE \E m \in DOMAIN reads : c = OfRead(m)
    <3>1. c.key.form = 0
      BY <2>4 DEF OfRead, NoKey, KeyOf
    <3> QED BY <2>1, <3>1 DEF LinesOk
  <2> QED BY <2>1, <2>2, <2>3, <2>4 DEF Recorded
<1> QED BY <1>1, <1>3, <1>4

\* Every file of an upload is read or left out with a reason; every line and every receipt is in
\* one record, and none that suit each other better than what they got are left apart; a line's
\* category is the claimant's or what the model said of that very line (claim-import.js _run,
\* claim-archive.js, claim-matcher.js, claim-categories.js).
THEOREM ClaimsStayRead == ClaimReadingSpec => [](NoFileDropped /\ MatchIsStable /\ CategoryIsItsOwn)
BY ClaimInvInit, ClaimInvStep, ClaimInvHolds, PTL DEF ClaimReadingSpec
=============================================================================
