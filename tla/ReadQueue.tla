----------------------------- MODULE ReadQueue -----------------------------
(***************************************************************************)
(* The queue every stored file is read through: receipts/read-queue.js,    *)
(* the reading itself (read-receipt.js readReceipt), and what a restart    *)
(* does with what was under way (recover, recover.js).                     *)
(*                                                                         *)
(* A file has one job, a row of read_jobs that outlives the process, and   *)
(* the expense rows made from it: the one its upload created, and the      *)
(* siblings a read finds in the same file.  The worker is asleep until it  *)
(* is woken (`soon', `timer'), then starts what it may and sleeps again.   *)
(*                                                                         *)
(* The clock is only whether a waiting job is due.  One job per file is    *)
(* kept, its latest: an older one has ended and nothing reads it.          *)
(***************************************************************************)
EXTENDS Naturals, FiniteSets

CONSTANTS
  File,         \* stored files, each uploaded once
  User,         \* the people they belong to
  Owner,        \* whose each file is
  Concurrency,  \* READ_CONCURRENCY: reads at once
  PerUser,      \* READ_PER_USER: of one person's
  Delays,       \* how many times a busy reader is waited for: Len(BUSY_DELAYS_MIN)
  Parts,        \* bound: further receipts in one file
  CutSplits,    \* whether a restart may catch a read that has made siblings
  ClockInTick,  \* whether a job may come due between _tick's last pick and its _arm
  MaxRestarts   \* bound: how often the process stops

ASSUME ReadQueueAssumption ==
  /\ IsFiniteSet(File)
  /\ Owner \in [File -> User]
  /\ Concurrency \in Nat \ {0} /\ PerUser \in Nat \ {0}
  /\ Delays \in Nat /\ Parts \in Nat /\ MaxRestarts \in Nat
  /\ CutSplits \in BOOLEAN /\ ClockInTick \in BOOLEAN

VARIABLES
  job,       \* read_jobs: the file's latest job
  born,      \* created_at of that job, as a number
  last,      \* the latest created_at given
  row,       \* the status of the row the upload created; "out" is any but 'reading'
  by,        \* who filled that row in
  parsed,    \* whether parsed_at is set on the stored file
  sibs,      \* how many sibling rows there are
  orphans,   \* siblings still 'reading' that the read which made them left behind
  run,       \* where the file's read is, in this process
  todo,      \* receipts of its answer that have no row yet
  own,       \* siblings still 'reading' that this read made
  process,   \* the process itself
  tick,      \* whether _tick is at work: nothing else runs until it is done
  soon,      \* a wake is asked for
  timer,     \* a timer is set
  restarts

rowVars  == <<row, by, parsed, sibs, orphans>>
runVars  == <<run, todo, own>>
wakeVars == <<process, tick, soon, timer, restarts>>
vars     == <<job, born, last, rowVars, runVars, wakeVars>>

MAX_ATTEMPTS == Delays + 2

JobState == {"none", "queued", "reading", "done", "failed", "cancelled"}
Job      == [state : JobState, attempts : Nat, due : BOOLEAN, kind : {"none", "unavailable", "error"}]
NoJob    == [state |-> "none", attempts |-> 0, due |-> FALSE, kind |-> "none"]
NewJob   == [state |-> "queued", attempts |-> 0, due |-> TRUE, kind |-> "none"]

TypeOK ==
  /\ job \in [File -> Job]
  /\ born \in [File -> Nat] /\ last \in Nat
  /\ row \in [File -> {"absent", "reading", "out", "gone"}]
  /\ by \in [File -> {"nobody", "reader", "person"}]
  /\ parsed \in [File -> BOOLEAN]
  /\ sibs \in [File -> Nat] /\ orphans \in [File -> Nat]
  /\ run \in [File -> {"idle", "asked", "landing"}]
  /\ todo \in [File -> Nat] /\ own \in [File -> Nat]
  /\ process \in {"up", "stopping", "down"}
  /\ tick \in BOOLEAN /\ soon \in BOOLEAN /\ timer \in BOOLEAN
  /\ restarts \in Nat

Init ==
  /\ job = [f \in File |-> NoJob]
  /\ born = [f \in File |-> 0] /\ last = 0
  /\ row = [f \in File |-> "absent"]
  /\ by = [f \in File |-> "nobody"]
  /\ parsed = [f \in File |-> FALSE]
  /\ sibs = [f \in File |-> 0] /\ orphans = [f \in File |-> 0]
  /\ run = [f \in File |-> "idle"]
  /\ todo = [f \in File |-> 0] /\ own = [f \in File |-> 0]
  /\ process = "up"
  /\ tick = FALSE /\ soon = FALSE /\ timer = FALSE
  /\ restarts = 0

-----------------------------------------------------------------------------
Exists(f)  == row[f] \in {"reading", "out"}
Stored(f)  == Exists(f) \/ sibs[f] > 0
Live(f)    == job[f].state \in {"queued", "reading"}
Active     == {f \in File : run[f] # "idle"}
Running(u) == Cardinality({f \in Active : Owner[f] = u})

\* A handler runs: the process is there, and _tick is not at work.
Free == process # "down" /\ ~tick

\* _wake: nothing while the queue is stopped.
Wake == soon' = (soon \/ process = "up")

\* The file's rows still 'reading' are handed to their owner.
Release(f) ==
  /\ row' = [row EXCEPT ![f] = IF @ = "reading" THEN "out" ELSE @]
  /\ orphans' = [orphans EXCEPT ![f] = 0]
  /\ parsed' = [parsed EXCEPT ![f] = TRUE]

-----------------------------------------------------------------------------
(* The worker.                                                             *)

Eligible(f) == job[f].state = "queued" /\ job[f].due /\ Running(Owner[f]) < PerUser

\* Whoever has the fewest running; between equals, whoever has waited longest.
Before(f, g) ==
  LET m == Running(Owner[f]) n == Running(Owner[g]) IN m < n \/ (m = n /\ born[f] <= born[g])

Picked(f) == Eligible(f) /\ \A g \in File : Eligible(g) => Before(f, g)

HasRoom == Cardinality(Active) < Concurrency

\* setImmediate or the timer: _tick begins.
WakeFires ==
  /\ Free /\ process = "up"
  /\ \/ soon /\ soon' = FALSE /\ UNCHANGED timer
     \/ timer /\ timer' = FALSE /\ UNCHANGED soon
  /\ tick' = TRUE
  /\ UNCHANGED <<job, born, last, rowVars, runVars, process, restarts>>

\* _run: the job is taken, and its read begins.
Run(f) ==
  /\ tick /\ HasRoom
  /\ Picked(f)
  /\ job' = [job EXCEPT ![f] = [@ EXCEPT !.state = "reading", !.attempts = job[f].attempts + 1]]
  /\ run' = [run EXCEPT ![f] = "asked"]
  /\ UNCHANGED <<born, last, rowVars, todo, own, wakeVars>>

\* Nothing more to start: _arm sets the timer for what is not due yet.  It
\* looks at the clock again (`late': due by now).
TickEnds ==
  /\ tick
  /\ ~HasRoom \/ \A f \in File : ~Eligible(f)
  /\ \E late \in SUBSET {f \in File : job[f].state = "queued" /\ ~job[f].due} :
       /\ late = {} \/ ClockInTick
       /\ job' = [f \in File |-> IF f \in late THEN [job[f] EXCEPT !.due = TRUE] ELSE job[f]]
       /\ timer' = \E f \in File \ late : job[f].state = "queued" /\ ~job[f].due
  /\ tick' = FALSE
  /\ UNCHANGED <<born, last, rowVars, runVars, process, soon, restarts>>

\* Time passes: a retry's delay is over.
BecomesDue(f) ==
  /\ job[f].state = "queued" /\ ~job[f].due
  /\ job' = [job EXCEPT ![f].due = TRUE]
  /\ UNCHANGED <<born, last, rowVars, runVars, wakeVars>>

-----------------------------------------------------------------------------
(* One read, and what it came to.  Each ends by freeing its place and      *)
(* waking the worker; a job gone meanwhile (its row deleted) stays gone.   *)

\* mutant: the worker is not told that a place is free.
RunEndsQuietly(f) ==
  /\ run' = [run EXCEPT ![f] = "idle"]
  /\ todo' = [todo EXCEPT ![f] = 0]
  /\ own' = [own EXCEPT ![f] = 0]
  /\ UNCHANGED <<born, last, by, sibs, wakeVars>>

RunEnds(f) ==
  /\ run' = [run EXCEPT ![f] = "idle"]
  /\ todo' = [todo EXCEPT ![f] = 0]
  /\ own' = [own EXCEPT ![f] = 0]
  /\ Wake
  /\ UNCHANGED <<born, last, by, sibs, process, tick, timer, restarts>>

Retry(f, kind) ==
  /\ job' = [job EXCEPT ![f] = [@ EXCEPT !.state = "queued", !.due = FALSE, !.kind = kind]]
  /\ UNCHANGED <<row, orphans, parsed>>

\* mutant: the job fails, and its rows wait for nobody.
FailAlone(f, kind) ==
  /\ job' = [job EXCEPT ![f] = [@ EXCEPT !.state = "failed", !.kind = kind]]
  /\ UNCHANGED <<row, orphans, parsed>>

Fail(f, kind) ==
  /\ job' = [job EXCEPT ![f] = [@ EXCEPT !.state = "failed", !.kind = kind]]
  /\ Release(f)

RetriesBusy(f)  == job[f].attempts <= Delays
RetriesError(f) == job[f].kind # "error" /\ job[f].attempts < MAX_ATTEMPTS

Gone(f) == job[f].state # "reading" /\ UNCHANGED <<job, row, orphans, parsed>>

\* Every key of the AI service was busy, and nothing was read.
ReadBusy(f) ==
  /\ Free /\ run[f] = "asked"
  /\ \/ job[f].state = "reading" /\ RetriesBusy(f) /\ Retry(f, "unavailable")
     \/ job[f].state = "reading" /\ ~RetriesBusy(f) /\ Fail(f, "unavailable")
     \/ Gone(f)
  /\ RunEnds(f)

\* The stored file is missing, or the row is, or the database failed.
ReadFails(f) ==
  /\ Free /\ run[f] = "asked"
  /\ \/ job[f].state = "reading" /\ RetriesError(f) /\ Retry(f, "error")
     \/ job[f].state = "reading" /\ ~RetriesError(f) /\ Fail(f, "error")
     \/ Gone(f)
  /\ RunEnds(f)

\* mutant: the first receipt of the file lands whatever the row is by now.
LandOnAny(f) ==
  by' = [by EXCEPT ![f] = IF Exists(f) THEN "reader" ELSE @]

\* applyRead: a first read lands only on a row still 'reading'.
Land(f) ==
  by' = [by EXCEPT ![f] = IF row[f] = "reading" THEN "reader" ELSE @]

\* The reader answers.  Its first receipt, if it saw any, lands on the row, and
\* the others are still to be given rows of their own.
ReadAnswers(f) ==
  /\ Free /\ run[f] = "asked"
  /\ run' = [run EXCEPT ![f] = "landing"]
  /\ \E n \in 0 .. Parts : todo' = [todo EXCEPT ![f] = n]
  /\ Land(f) \/ UNCHANGED by
  /\ UNCHANGED <<job, born, last, row, parsed, sibs, orphans, own, wakeVars>>

\* Another receipt in the file: a row of its own, while the file is there.
FindSibling(f) ==
  /\ Free /\ todo[f] > 0
  /\ Stored(f)
  /\ todo' = [todo EXCEPT ![f] = @ - 1]
  /\ sibs' = [sibs EXCEPT ![f] = @ + 1]
  /\ own' = [own EXCEPT ![f] = @ + 1]
  /\ UNCHANGED <<job, born, last, row, by, parsed, orphans, run, wakeVars>>

\* However it ended, the rows it touched leave 'reading', and the job is done.
ReadEnds(f) ==
  /\ Free /\ run[f] # "idle"
  /\ row' = [row EXCEPT ![f] = IF @ = "reading" THEN "out" ELSE @]
  /\ parsed' = [parsed EXCEPT ![f] = Stored(f)]
  /\ job' = [job EXCEPT ![f] = IF @.state = "reading" THEN [@ EXCEPT !.state = "done", !.kind = "none"] ELSE @]
  /\ UNCHANGED orphans
  /\ RunEnds(f)

-----------------------------------------------------------------------------
(* People.                                                                 *)

\* storeReceipt's end: the row, then its job.
Store(f) ==
  /\ Free /\ row[f] = "absent"
  /\ row' = [row EXCEPT ![f] = "reading"]
  /\ job' = [job EXCEPT ![f] = NewJob]
  /\ born' = [born EXCEPT ![f] = last + 1] /\ last' = last + 1
  /\ Wake
  /\ UNCHANGED <<by, parsed, sibs, orphans, runVars, process, tick, timer, restarts>>

\* Try now: a job waiting for its retry.
HurryUp(f) ==
  /\ Free /\ job[f].state = "queued"
  /\ job' = [job EXCEPT ![f].due = TRUE]
  /\ Wake
  /\ UNCHANGED <<born, last, rowVars, runVars, process, tick, timer, restarts>>

\* Try now: a failed job, on rows nobody has touched.
TryAgain(f) ==
  /\ Free /\ job[f].state = "failed"
  /\ row[f] = "out" /\ by[f] = "nobody"
  /\ row' = [row EXCEPT ![f] = "reading"]
  /\ parsed' = [parsed EXCEPT ![f] = FALSE]
  /\ job' = [job EXCEPT ![f] = NewJob]
  /\ Wake
  /\ UNCHANGED <<born, last, by, sibs, orphans, runVars, process, tick, timer, restarts>>

\* mutant: one being read is cancelled too.
CancelAny(f) ==
  /\ Free /\ Live(f)
  /\ job' = [job EXCEPT ![f].state = "cancelled"]
  /\ Release(f)
  /\ UNCHANGED <<born, last, by, sibs, runVars, wakeVars>>

\* Stop: a job still waiting is dropped.
Cancel(f) ==
  /\ Free /\ job[f].state = "queued"
  /\ job' = [job EXCEPT ![f].state = "cancelled"]
  /\ Release(f)
  /\ UNCHANGED <<born, last, by, sibs, runVars, wakeVars>>

\* Typed in, or corrected: never while it is being read (edit.js detailsBlocked).
TypeIn(f) ==
  /\ Free /\ row[f] = "out"
  /\ by' = [by EXCEPT ![f] = "person"]
  /\ UNCHANGED <<job, born, last, row, parsed, sibs, orphans, runVars, wakeVars>>

\* A re-read's answer, asked for by a person at any time: it lands, or it only
\* releases the row.
Reread(f) ==
  /\ Free /\ Exists(f)
  /\ row' = [row EXCEPT ![f] = "out"]
  /\ by' = [by EXCEPT ![f] = "reader"] \/ UNCHANGED by
  /\ UNCHANGED <<job, born, last, parsed, sibs, orphans, runVars, wakeVars>>

\* The same of a sibling.
RereadSibling(f) ==
  /\ Free
  /\ \/ orphans[f] > 0 /\ orphans' = [orphans EXCEPT ![f] = @ - 1] /\ UNCHANGED own
     \/ own[f] > 0 /\ own' = [own EXCEPT ![f] = @ - 1] /\ UNCHANGED orphans
  /\ UNCHANGED <<job, born, last, row, by, parsed, sibs, run, todo, wakeVars>>

\* A sibling deleted, whatever it was.
DeleteSibling(f) ==
  /\ Free /\ sibs[f] > 0
  /\ sibs' = [sibs EXCEPT ![f] = @ - 1]
  /\ parsed' = [parsed EXCEPT ![f] = @ /\ (Exists(f) \/ sibs[f] > 1)]
  /\ \/ orphans[f] > 0 /\ orphans' = [orphans EXCEPT ![f] = @ - 1] /\ UNCHANGED own
     \/ own[f] > 0 /\ own' = [own EXCEPT ![f] = @ - 1] /\ UNCHANGED orphans
     \/ sibs[f] > orphans[f] + own[f] /\ UNCHANGED <<orphans, own>>
  /\ UNCHANGED <<job, born, last, row, by, run, todo, wakeVars>>

\* The row deleted takes the job made for it along (ON DELETE CASCADE), and the
\* stored file once it was the last of its rows.
DeleteRow(f) ==
  /\ Free /\ Exists(f)
  /\ row' = [row EXCEPT ![f] = "gone"]
  /\ by' = [by EXCEPT ![f] = "nobody"]
  /\ job' = [job EXCEPT ![f] = NoJob]
  /\ born' = [born EXCEPT ![f] = 0]
  /\ parsed' = [parsed EXCEPT ![f] = @ /\ sibs[f] > 0]
  /\ UNCHANGED <<last, sibs, orphans, runVars, wakeVars>>

-----------------------------------------------------------------------------
(* The process.                                                            *)

\* SIGINT: no more jobs are taken; those running may finish.
Stop ==
  /\ Free /\ process = "up" /\ restarts < MaxRestarts
  /\ process' = "stopping"
  /\ soon' = FALSE /\ timer' = FALSE
  /\ UNCHANGED <<job, born, last, rowVars, runVars, tick, restarts>>

Down ==
  /\ process' = "down"
  /\ tick' = FALSE /\ soon' = FALSE /\ timer' = FALSE
  /\ restarts' = restarts + 1
  /\ run' = [f \in File |-> "idle"]
  /\ todo' = [f \in File |-> 0]
  /\ own' = [f \in File |-> 0]
  /\ orphans' = [f \in File |-> orphans[f] + own[f]]

\* A crash, or the end of the grace a stopping process has for its reads.
Exit ==
  /\ process # "down" /\ restarts < MaxRestarts
  /\ CutSplits \/ \A f \in File : own[f] = 0
  /\ Down
  /\ UNCHANGED <<job, born, last, row, by, parsed, sibs>>

\* The same, in the middle of storing a file: the row is there, its job is not.
ExitStoring(f) ==
  /\ Free /\ row[f] = "absent" /\ restarts < MaxRestarts
  /\ CutSplits \/ \A g \in File : own[g] = 0
  /\ row' = [row EXCEPT ![f] = "reading"]
  /\ Down
  /\ UNCHANGED <<job, born, last, by, parsed, sibs>>

\* mutant: only a job still queued is found again.
RecoveredQueuedOnly(f) == job[f]

\* recover: the attempt a restart interrupted is not counted.
Recovered(f) ==
  IF job[f].state = "reading"
  THEN [job[f] EXCEPT !.state = "queued", !.due = TRUE, !.attempts = IF @ = 0 THEN 0 ELSE @ - 1]
  ELSE job[f]

\* recoverStuckReads, of files with no live job: one row, never read, is queued
\* as if it had just arrived; anything else is released.
Stuck(f) == ~Live(f) /\ (row[f] = "reading" \/ orphans[f] > 0)
Whole(f) ==
  /\ ~parsed[f]
  /\ \/ row[f] = "reading" /\ sibs[f] = 0
     \/ row[f] = "gone" /\ sibs[f] = 1 /\ orphans[f] = 1

Boot ==
  /\ process = "down"
  /\ process' = "up"
  /\ tick' = TRUE
  /\ LET again == {f \in File : Stuck(f) /\ Whole(f)}
         freed == {f \in File : Stuck(f) /\ ~Whole(f)}
     IN /\ job' = [f \in File |-> IF f \in again THEN NewJob ELSE Recovered(f)]
        /\ born' = [f \in File |-> IF f \in again THEN last + 1 ELSE born[f]]
        /\ last' = IF again = {} THEN last ELSE last + 1
        /\ row' = [f \in File |-> IF f \in again THEN "reading"
                                  ELSE IF f \in freed /\ row[f] = "reading" THEN "out" ELSE row[f]]
        /\ sibs' = [f \in File |-> IF f \in again THEN 0 ELSE sibs[f]]
        /\ orphans' = [f \in File |-> IF Stuck(f) THEN 0 ELSE orphans[f]]
  /\ UNCHANGED <<by, parsed, runVars, soon, timer, restarts>>

-----------------------------------------------------------------------------
RunStep(f) == ReadBusy(f) \/ ReadFails(f) \/ ReadAnswers(f) \/ FindSibling(f) \/ ReadEnds(f)

PersonStep(f) ==
  \/ Store(f) \/ HurryUp(f) \/ TryAgain(f) \/ Cancel(f)
  \/ TypeIn(f) \/ Reread(f) \/ RereadSibling(f) \/ DeleteSibling(f) \/ DeleteRow(f)

Worker == WakeFires \/ TickEnds \/ \E f \in File : Run(f)

Next ==
  \/ Worker
  \/ \E f \in File : BecomesDue(f) \/ RunStep(f) \/ PersonStep(f) \/ ExitStoring(f)
  \/ Stop \/ Exit \/ Boot

Spec == Init /\ [][Next]_vars

\* The event loop turns, and serves every read that is answered or timed out
\* however often the worker is woken in between; time passes; and a process told
\* to stop does, and is started again.
Fairness ==
  /\ WF_vars(Worker)
  /\ \A f \in File : WF_vars(BecomesDue(f)) /\ SF_vars(RunStep(f))
  /\ WF_vars(process = "stopping" /\ Exit)
  /\ WF_vars(Boot)

FairSpec == Spec /\ Fairness

-----------------------------------------------------------------------------
(* What makes the queue right.                                             *)

\* A job says it is being read exactly while this process reads it, within both
\* limits: no read is lost sight of, none is made twice at once.
ReadingIsRunning ==
  process # "down" =>
    /\ \A f \in File : job[f].state = "reading" => run[f] # "idle"
    /\ \A f \in File : run[f] # "idle" => job[f].state \in {"reading", "none"}
    /\ Cardinality(Active) <= Concurrency
    /\ \A u \in User : Running(u) <= PerUser

\* A row is only 'reading', where nobody may edit it, while its read is waiting
\* or under way: "however it ended, the read is over: every row from this file
\* leaves 'reading'" (read-receipt.js).
NoRowLeftReading ==
  process # "down" =>
    \A f \in File : row[f] = "reading" \/ orphans[f] > 0 => Live(f) \/ run[f] # "idle"

\* What a person typed in is never on a row the reader's answer would land on
\* (read-queue.js _untouched, applyRead).
NothingTypedIsReading ==
  \A f \in File : by[f] = "person" => row[f] # "reading"

\* A job is never tried more often than MAX_ATTEMPTS, however its failures fall.
TriesBounded ==
  \A f \in File : job[f].attempts <= MAX_ATTEMPTS

\* While a job waits, something will wake the worker: a wake asked for, the
\* timer, or a read that is to end (read-queue.js _arm).
AwakeWhileWaiting ==
  process = "up" /\ ~tick /\ (\E f \in File : job[f].state = "queued") =>
    soon \/ timer \/ Active # {}

\* What was typed in stays until its owner asks for a re-read: the queue's own
\* answer, however late, never lands on it.
TypedStays ==
  [][\A f \in File : by[f] = "person" /\ run[f] = "asked" /\ run'[f] = "landing" => by'[f] = "person"]_vars

\* Nobody goes on pressing Try now for ever.
TryingAgainStops ==
  <>[][\A f \in File : job[f].state = "failed" => job'[f].state # "queued"]_vars

\* Every read that is queued ends, read or given up on: through busy answers,
\* failures and restarts, whoever else uploads, nobody waits for ever.
EveryReadEnds ==
  TryingAgainStops => \A f \in File : Live(f) ~> ~Live(f)

\* The table of jobs, the map of reads under way and the rows agree: within the
\* limits, within the attempts, and never over what a person typed
\* (receipts/read-queue.js).
QueueHolds == TypeOK /\ ReadingIsRunning /\ NothingTypedIsReading /\ TriesBounded
=============================================================================
