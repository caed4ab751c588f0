------------------------------ MODULE ClaimQueue ------------------------------
(***************************************************************************)
(* Claim imports: the queue on disk (claims/claim-queue.js), the worker of *)
(* each person and the one slot they share (claims/claim-worker.js), the   *)
(* engine in memory (claims/claim-import.js) and the routes that start,    *)
(* stop and undo an import (routes/claims.js), with restarts between any   *)
(* two steps.                                                              *)
(*                                                                         *)
(* What an import has put in the database is kept as one word, `saved':    *)
(* none of its records, part of them, or all.  ClaimFiling looks inside.   *)
(* An action is the stretch of a handler, of the worker or of the engine   *)
(* up to its next await.                                                   *)
(***************************************************************************)
EXTENDS Naturals, FiniteSets

CONSTANTS
  User,
  MaxJobs,            \* bound: how many imports are ever asked for
  NoUser,             \* the owner of a job that is not there yet
  MaxAttempts,        \* MAX_ATTEMPTS
  MaxQueuedPerUser,   \* MAX_QUEUED_PER_USER
  MaxRunning,         \* MAX_RUNNING
  MaxImportRestarts   \* bound: how often the server restarts

ASSUME ClaimQueueAssumption ==
  /\ NoUser \notin User
  /\ MaxJobs \in Nat
  /\ MaxAttempts \in Nat \ {0}
  /\ MaxQueuedPerUser \in Nat
  /\ MaxRunning \in Nat \ {0}
  /\ MaxImportRestarts \in Nat

Job == 1..MaxJobs

VARIABLES
  owner,     \* whose each job is
  disk,      \* the .que file of each job
  payload,   \* whether its .bin files are on disk
  jobs,      \* how many have been asked for: job ids are in order of arrival
  engine,    \* the job in _jobs, the engine's own map
  saved,     \* what the import has in the database
  worker,    \* the entry in _workers of each person
  running,   \* _running
  importRestarts

importVars == <<owner, disk, payload, jobs, engine, saved, worker, running, importRestarts>>

Terminal == {"done", "failed", "cancelled"}
Stage    == {"absent", "queued", "running", "cancelling"} \cup Terminal
\* The engine's job between two awaits: not there, reading its receipts (with
\* unpacking and the form before it, and the categories after), saving its
\* records, or at its end.
Doing    == {"none", "reading", "saving"} \cup Terminal
\* "started": a setImmediate is due, whatever the queue holds by then.
\* "polling": the timer is, and it asks first whether anything waits.
Worker   == {"stopped", "started", "polling", "busy"}

ImportTypeOK ==
  /\ owner \in [Job -> User \cup {NoUser}]
  /\ disk \in [Job -> [stage : Stage, attempts : Nat, cancelled : BOOLEAN, undone : BOOLEAN]]
  /\ payload \in [Job -> BOOLEAN]
  /\ jobs \in 0..MaxJobs
  /\ engine \in [Job -> [doing : Doing, cancelled : BOOLEAN, undone : BOOLEAN]]
  /\ saved \in [Job -> {"none", "part", "whole"}]
  /\ worker \in [User -> Worker]
  /\ running \in Nat
  /\ importRestarts \in 0..MaxImportRestarts

NoFile   == [stage |-> "absent", attempts |-> 0, cancelled |-> FALSE, undone |-> FALSE]
NoEngine == [doing |-> "none", cancelled |-> FALSE, undone |-> FALSE]

ImportInit ==
  /\ owner = [j \in Job |-> NoUser]
  /\ disk = [j \in Job |-> NoFile]
  /\ payload = [j \in Job |-> FALSE]
  /\ jobs = 0
  /\ engine = [j \in Job |-> NoEngine]
  /\ saved = [j \in Job |-> "none"]
  /\ worker = [u \in User |-> "stopped"]
  /\ running = 0
  /\ importRestarts = 0

-----------------------------------------------------------------------------
(* What the queue holds.                                                   *)

Unfinished(j) == disk[j].stage \notin Terminal \cup {"absent"}
Pending(u)    == {j \in Job : owner[j] = u /\ Unfinished(j) /\ disk[j].attempts < MaxAttempts}
Poisoned(u)   == {j \in Job : owner[j] = u /\ Unfinished(j) /\ disk[j].attempts >= MaxAttempts}
Oldest(J)     == CHOOSE j \in J : \A k \in J : j <= k

\* A job written with a terminal stage drops its payload with it.
Written(j, stage) ==
  /\ disk' = [disk EXCEPT ![j].stage = stage]
  /\ payload' = [payload EXCEPT ![j] = @ /\ stage \notin Terminal]

Woken(u) == [worker EXCEPT ![u] = IF @ = "busy" THEN @ ELSE "started"]

-----------------------------------------------------------------------------
(* The routes.                                                             *)

\* POST /import.  A full queue is a normal answer.
Enqueue(u) ==
  LET j == jobs + 1 IN
  /\ jobs < MaxJobs
  /\ Cardinality({k \in Job : owner[k] = u /\ Unfinished(k)}) < MaxQueuedPerUser
  /\ owner' = [owner EXCEPT ![j] = u]
  /\ disk' = [disk EXCEPT ![j].stage = "queued"]
  /\ payload' = [payload EXCEPT ![j] = TRUE]
  /\ jobs' = j
  /\ worker' = Woken(u)
  /\ UNCHANGED <<engine, saved, running, importRestarts>>

\* mutant: a running import is marked cancelled on disk, and its engine told;
\* the engine's next write puts the job back.
CancelOnDiskToo(j) ==
  /\ engine[j].doing \in {"reading", "saving"}
  /\ engine' = [engine EXCEPT ![j].cancelled = TRUE]
  /\ Written(j, "cancelled")
  /\ UNCHANGED <<owner, jobs, saved, worker, running, importRestarts>>

\* DELETE /import/:jobId of a job the engine has: it is told, and what it
\* wrote of the job says so.
CancelRunning(j) ==
  /\ engine[j].doing \in {"reading", "saving"}
  /\ engine' = [engine EXCEPT ![j].cancelled = TRUE]
  /\ disk' = [disk EXCEPT ![j].stage = "cancelling", ![j].cancelled = TRUE]
  /\ UNCHANGED <<owner, payload, jobs, saved, worker, running, importRestarts>>

\* The same of a job that is only on disk.  One that ran before may have saved
\* records: it is marked, and left for the engine, which takes them back.
CancelWaiting(j) ==
  /\ engine[j].doing = "none"
  /\ Unfinished(j)
  /\ IF disk[j].attempts \in 1..MaxAttempts - 1
     THEN /\ disk' = [disk EXCEPT ![j].stage = "cancelling", ![j].cancelled = TRUE]
          /\ worker' = Woken(owner[j])
          /\ UNCHANGED payload
     ELSE Written(j, "cancelled") /\ UNCHANGED worker
  /\ UNCHANGED <<owner, jobs, engine, saved, running, importRestarts>>

\* The import GET /latest offers for its reconciliation and its Undo: the
\* engine's copy of a finished job when it has one, the file's otherwise.
Offered(j) ==
  /\ disk[j].stage # "absent"
  /\ IF engine[j].doing # "none"
     THEN engine[j].doing = "done" /\ ~engine[j].undone
     ELSE disk[j].stage = "done" /\ ~disk[j].undone

\* mutant: the undo marks the copy that is at hand.
UndoMarksOneCopy(j) ==
  /\ Offered(j)
  /\ saved' = [saved EXCEPT ![j] = "none"]
  /\ IF engine[j].doing # "none"
     THEN engine' = [engine EXCEPT ![j].undone = TRUE] /\ UNCHANGED disk
     ELSE disk' = [disk EXCEPT ![j].undone = TRUE] /\ UNCHANGED engine
  /\ UNCHANGED <<owner, payload, jobs, worker, running, importRestarts>>

\* DELETE /group/:groupId, from the panel that offers it.  Both copies of the
\* result are marked.
Undo(j) ==
  /\ Offered(j)
  /\ saved' = [saved EXCEPT ![j] = "none"]
  /\ engine' = [engine EXCEPT ![j].undone = @ \/ engine[j].doing # "none"]
  /\ disk' = [disk EXCEPT ![j].undone = TRUE]
  /\ UNCHANGED <<owner, payload, jobs, worker, running, importRestarts>>

-----------------------------------------------------------------------------
(* The worker.                                                             *)

\* startImport up to the engine's first await.  A job cancelled before it ran
\* again runs to take back what it saved, and for nothing else.
Started(j) ==
  IF disk[j].cancelled
  THEN [engine EXCEPT ![j] = [doing |-> "cancelled", cancelled |-> TRUE, undone |-> FALSE]]
  ELSE [engine EXCEPT ![j] = [doing |-> "reading", cancelled |-> FALSE, undone |-> FALSE]]

LaunchStage(j) ==
  IF ~payload[j] THEN "failed" ELSE IF disk[j].cancelled THEN "cancelled" ELSE "running"

\* markFailed of every poisoned job of u, and markRunning of the jobs launched.
Took(u, launched) ==
  /\ disk' = [j \in Job |->
       IF j \in Poisoned(u) THEN [disk[j] EXCEPT !.stage = "failed"]
       ELSE IF j \in launched THEN [disk[j] EXCEPT !.attempts = @ + 1, !.stage = LaunchStage(j)]
       ELSE disk[j]]
  /\ payload' = [j \in Job |-> payload[j] /\ disk'[j].stage \notin Terminal]

\* A worker's setImmediate or its timer comes round.
WorkerDue(u) == worker[u] = "started" \/ (worker[u] = "polling" /\ Pending(u) # {})

\* Nothing pending, or the slot is another person's: the timer comes back.
ProcessNothing(u) ==
  /\ WorkerDue(u)
  /\ Pending(u) = {} \/ running >= MaxRunning
  /\ worker[u] = "started" \/ Poisoned(u) # {}
  /\ Took(u, {})
  /\ worker' = [worker EXCEPT ![u] = "polling"]
  /\ UNCHANGED <<owner, jobs, engine, saved, running, importRestarts>>

\* mutant: the slot stays taken by a job that had nothing to wait for.
LaunchKeepsSlot(u, j) ==
  /\ worker' = [worker EXCEPT ![u] = IF LaunchStage(j) = "running" THEN "busy" ELSE "polling"]
  /\ running' = running + 1

\* A job with nothing to wait for has settled, and freed the slot, already.
Launch(u, j) ==
  IF LaunchStage(j) = "running"
  THEN worker' = [worker EXCEPT ![u] = "busy"] /\ running' = running + 1
  ELSE worker' = [worker EXCEPT ![u] = "polling"] /\ UNCHANGED running

ProcessNext(u) ==
  LET j == Oldest(Pending(u)) IN
  /\ WorkerDue(u)
  /\ Pending(u) # {} /\ running < MaxRunning
  /\ Took(u, {j})
  /\ engine' = IF payload[j] THEN Started(j) ELSE engine
  /\ saved' = IF LaunchStage(j) = "cancelled" THEN [saved EXCEPT ![j] = "none"] ELSE saved
  /\ Launch(u, j)
  /\ UNCHANGED <<owner, jobs, importRestarts>>

\* The timer finds nothing running and nothing waiting.
StopWorker(u) ==
  /\ worker[u] = "polling" /\ Pending(u) = {}
  /\ worker' = [worker EXCEPT ![u] = "stopped"]
  /\ UNCHANGED <<owner, disk, payload, jobs, engine, saved, running, importRestarts>>

-----------------------------------------------------------------------------
(* The engine.                                                             *)

\* The job reaches an end and onSettle writes it and frees the slot, with
\* nothing in between but microtasks.
Settle(j, stage) ==
  /\ engine' = [engine EXCEPT ![j].doing = stage]
  /\ Written(j, stage)
  /\ worker' = [worker EXCEPT ![owner[j]] = "polling"]
  /\ running' = running - 1
  /\ UNCHANGED <<owner, jobs, importRestarts>>

\* An await of the reading comes back, and the next look at `cancelled' is
\* before anything is saved.
StopReading(j) ==
  /\ engine[j].doing = "reading" /\ engine[j].cancelled
  /\ saved' = [saved EXCEPT ![j] = "none"]
  /\ Settle(j, "cancelled")

\* More receipts than one import may hold: every other error of the reading is
\* caught.  It was so at an earlier attempt too, which therefore saved nothing.
FailReading(j) ==
  /\ engine[j].doing = "reading"
  /\ saved[j] = "none"
  /\ UNCHANGED saved
  /\ Settle(j, "failed")

\* Everything read and matched: what an earlier attempt saved goes, and the
\* first record is made.
BeginSaving(j) ==
  /\ engine[j].doing = "reading" /\ ~engine[j].cancelled
  /\ saved' = [saved EXCEPT ![j] = "part"]
  /\ engine' = [engine EXCEPT ![j].doing = "saving"]
  /\ UNCHANGED <<owner, disk, payload, jobs, worker, running, importRestarts>>

\* `cancelled' is looked at before each record: not after the last.
StopSaving(j) ==
  /\ engine[j].doing = "saving" /\ engine[j].cancelled
  /\ saved' = [saved EXCEPT ![j] = "none"]
  /\ Settle(j, "cancelled")

FailSaving(j) ==
  /\ engine[j].doing = "saving"
  /\ saved' = [saved EXCEPT ![j] = "none"]
  /\ Settle(j, "failed")

Finish(j) ==
  /\ engine[j].doing = "saving"
  /\ saved' = [saved EXCEPT ![j] = "whole"]
  /\ Settle(j, "done")

-----------------------------------------------------------------------------
(* The hour, and the server.                                               *)

\* Finished jobs past JOB_TTL_MS: the file, by the sweeper; the engine's copy,
\* by the next look at the map.
SweepFile(j) ==
  /\ disk[j].stage \in Terminal
  /\ disk' = [disk EXCEPT ![j] = NoFile]
  /\ UNCHANGED <<owner, payload, jobs, engine, saved, worker, running, importRestarts>>

SweepEngine(j) ==
  /\ engine[j].doing \in Terminal
  /\ engine' = [engine EXCEPT ![j] = NoEngine]
  /\ UNCHANGED <<owner, disk, payload, jobs, saved, worker, running, importRestarts>>

\* recoverPendingJobs: a worker for whoever has a job it may still run.
Recover(u) == IF Pending(u) # {} THEN "started" ELSE "stopped"

ImportRestart ==
  /\ importRestarts < MaxImportRestarts
  /\ importRestarts' = importRestarts + 1
  /\ engine' = [j \in Job |-> NoEngine]
  /\ worker' = [u \in User |-> Recover(u)]
  /\ running' = 0
  /\ UNCHANGED <<owner, disk, payload, jobs, saved>>

-----------------------------------------------------------------------------
Work(u) == ProcessNothing(u) \/ ProcessNext(u)

Run(j) ==
  \/ StopReading(j) \/ FailReading(j) \/ BeginSaving(j)
  \/ StopSaving(j) \/ FailSaving(j) \/ Finish(j)

ImportNext ==
  \/ \E u \in User : Enqueue(u)
  \/ \E j \in Job : CancelRunning(j) \/ CancelWaiting(j) \/ Undo(j)
  \/ \E u \in User : ProcessNothing(u) \/ ProcessNext(u) \/ StopWorker(u)
  \/ \E j \in Job :
       \/ StopReading(j) \/ FailReading(j) \/ BeginSaving(j)
       \/ StopSaving(j) \/ FailSaving(j) \/ Finish(j)
       \/ SweepFile(j) \/ SweepEngine(j)
  \/ ImportRestart

\* The timer fires every POLL_MS while a worker runs, and every call of the
\* reader and the model has a time limit, so neither stays where it is.
ImportFairness ==
  /\ \A u \in User : WF_importVars(Work(u))
  /\ \A j \in Job : WF_importVars(Run(j))

ImportSpec == ImportInit /\ [][ImportNext]_importVars /\ ImportFairness

-----------------------------------------------------------------------------
(* Properties.                                                             *)

Busy(j) == engine[j].doing \in {"reading", "saving"}

\* One import runs at a time across the whole server, and the count of the slot
\* is the number that do: a slot freed twice would let two archives be unpacked
\* together, one never freed would stop every import of every person.
OneAtATime ==
  /\ running = Cardinality({j \in Job : Busy(j)})
  /\ running <= MaxRunning
  /\ \A u \in User : worker[u] = "busy" <=> \E j \in Job : owner[j] = u /\ Busy(j)

\* An import that failed or was cancelled has left nothing behind, whatever an
\* earlier attempt had saved when the server stopped; one interrupted in its
\* last attempt is the exception.
NothingLeftBehind ==
  \A j \in Job : disk[j].stage \in {"failed", "cancelled"} /\ saved[j] # "none"
                   => disk[j].attempts = MaxAttempts

\* A job that has ended stays as it ended until it is swept: no late write of
\* progress, no restart and no cancellation brings it back to be polled for ever.
EndedStaysEnded ==
  [][\A j \in Job : disk[j].stage \in Terminal => disk'[j].stage \in {disk[j].stage, "absent"}]_importVars

\* Whatever is offered with an Undo has records for the Undo to reach, after a
\* restart has lost the engine's copy too.
OfferedCanBeUndone == \A j \in Job : Offered(j) => saved[j] = "whole"

\* Every import accepted comes to an end, unless a restart interrupted its last
\* attempt.
EveryImportEnds ==
  \A j \in Job : Unfinished(j) ~> (~Unfinished(j) \/ (disk[j].attempts = MaxAttempts /\ ~Busy(j)))

\* claim-queue.js says of a job that has used its attempts: marked failed on the
\* next boot rather than retried.
PoisonedIsSetAside ==
  \A j \in Job : (Unfinished(j) /\ disk[j].attempts = MaxAttempts) ~> ~Unfinished(j)

\* Jobs on disk, the worker of each person and the engine agree: one import at a
\* time, and an Undo wherever one is offered (claims/claim-queue.js, claim-worker.js).
ImportsHold == ImportTypeOK /\ OneAtATime /\ OfferedCanBeUndone /\ NothingLeftBehind
=============================================================================
